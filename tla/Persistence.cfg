CONSTANTS
  t = t
  a = a
  b = b
  None = None
  Tabs <- OneTab
  Names <- TwoNames
  CleansUp = TRUE
SPECIFICATION FairSpec
CONSTRAINT Bounds
INVARIANTS
  IInv
  ReadableUnlessCut
  PanesHaveSessionsUnlessMissed
PROPERTIES
  DeletedStaysDeletedUnlessCut
  RestartKeepsShells
  TabIsSaved
CHECK_DEADLOCK FALSE
