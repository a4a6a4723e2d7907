SPECIFICATION Spec
CONSTANTS
  NoFile = NoFile
  A = A
  R = R
  B = B
  NoValue = NoFile
  Archiver = A
  Reconciler = R
  Backfill = B
  Group = {1, 2}
  Nodes = 2
  Requests = 2
  Beginnings <- Replacing
  Disturbances = {"archive"}
  MaxFaults = 1
  MaxVersion = 6
CHECK_DEADLOCK FALSE
INVARIANT ArchivedFilesArePresent
