SPECIFICATION Spec
CONSTANTS
  j1 = j1
  j2 = j2
  w1 = w1
  w2 = w2
  Item = {j1}
  Worker = {w1, w2}
  NoWorker = NoWorker
  NoJob = NoJob
  Kind <- OneDeliverable
  Disturbances = {}
  MaxRows = 2
  MaxCrashes = 1
INVARIANTS
  RowDoneMeansStopped
