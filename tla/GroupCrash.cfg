SPECIFICATION FairSpec
CONSTANTS
  w1 = w1
  w2 = w2
  Group = {1}
  Item = {1, 11, 12}
  DeliverableOf <- OneDeliverable
  AuditOf <- OneAudit
  Worker = {w1, w2}
  NoWorker = NoWorker
  NoValue = NoValue
  Modes = {TRUE, FALSE}
  Slots = 1
  Disturbances = {"crash", "timeout"}
  MaxFaults = 1
  MaxRows = 1
INVARIANTS
  NobodyLeftBehind
  SuccessIsComplete
PROPERTIES
  NoChildAfterCancel
  GroupEnds
  CancelIsHonoured
CHECK_DEADLOCK FALSE
