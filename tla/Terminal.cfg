CONSTANTS
  MaxScrollback = 3
  Runes = {" ", "-", "E", "W", "a", "b", "c", "m", "q"}
  Sizes <- MCSizes
  Output <- MCOutput
  Preludes <- MCPreludes
  MaxWrites = 2
  MaxResizes = 2
SPECIFICATION Spec
INVARIANTS
  TypeOK
  SnapshotRestores
  PrintsKeepWideWhole
PROPERTIES
  HeightChangeKeepsLines
CHECK_DEADLOCK FALSE
