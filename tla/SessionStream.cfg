CONSTANTS
  Clients = {c1, c2}
  MaxChunks = 3
  MaxBacklog = 2
  SnapshotWeight = 1
  Free = Free
  Reader = Reader
SPECIFICATION Spec
SYMMETRY Symmetry
CHECK_DEADLOCK FALSE
INVARIANTS
  IInv
  NoHoleWhileRunning
  NoLostWakeup
  JoinedIsUpToDate
PROPERTY FeedSpec
