CONSTANTS
  Clients = {c1}
  MaxChunks = 5
  MaxBacklog = 2
  SnapshotWeight = 1
  Free = Free
  Reader = Reader
SPECIFICATION FairSpec
CHECK_DEADLOCK FALSE
PROPERTIES
  CatchesUp
  OverflowDisconnects
  ExitIsAnnounced
