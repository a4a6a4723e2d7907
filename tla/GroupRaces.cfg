SPECIFICATION Spec
CONSTANTS
  NoFile = NoFile
  A = A
  R = R
  B = B
  NoValue = NoFile
  Archiver = A
  Reconciler = R
  Backfill = B
  Group = {1, 2}
  Nodes = 2
  Requests = 2
  Beginnings <- EveryBeginning
  Disturbances = {"lapse", "timeout"}
  MaxFaults = 2
  MaxVersion = 6
CHECK_DEADLOCK FALSE
INVARIANTS
  TypeOK
  UnmarkedIsPublished
  SuccessorComesFirst
PROPERTIES
  NoProgressLost
  ClaimIsHonoured
  ImplementsTaskBoard
