SPECIFICATION FairSpec
CONSTANTS
  NoFile = NoFile
  A = A
  R = R
  B = B
  NoValue = NoFile
  Archiver = A
  Reconciler = R
  Backfill = B
  Group = {1, 2}
  Nodes = 2
  Requests = 1
  Beginnings <- EveryBeginning
  Disturbances = {"crash", "publication", "archive", "deletion", "lapse", "timeout"}
  MaxFaults = 1
  MaxVersion = 6
CHECK_DEADLOCK FALSE
INVARIANTS
  CleanupIsComplete
PROPERTIES
  PublicationConverges
  CleanupConverges
  ArchiveConverges
