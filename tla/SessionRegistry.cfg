CONSTANTS
  w1 = w1
  w2 = w2
  tab1 = tab1
  Workers = {w1, w2}
  Tabs = {tab1}
  None = None
  Requests = {"create", "split", "close", "replace", "delete", "deleteSession", "revive", "save"}
  MaxShells = 3
SPECIFICATION Spec
SYMMETRY Symmetry
INVARIANTS
  FullInv
  NoDanglingPane
  NoOrphanUnlessOverlapped
  ShellIsReachable
  DiskIsCurrentUnlessRaced
CHECK_DEADLOCK FALSE
