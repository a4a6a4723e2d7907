SPECIFICATION Spec
CONSTANTS
  w1 = w1
  w2 = w2
  Group = {1}
  Item = {1, 11, 12}
  DeliverableOf <- OneDeliverable
  AuditOf <- OneAudit
  Worker = {w1, w2}
  NoWorker = NoWorker
  NoValue = NoValue
  Modes = {TRUE}
  Slots = 1
  Disturbances = {"stall"}
  MaxFaults = 1
  MaxRows = 1
SYMMETRY WorkerSymmetry
INVARIANTS
  TypeOK
  SlotsConserved
PROPERTIES
  DeliveredAfterReplacement
  StoppedStays
CHECK_DEADLOCK FALSE
