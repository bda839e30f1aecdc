CONSTANTS
  MaxScrollback = 3
  Runes = {" ", "-", "E", "W", "a", "b", "c", "m", "q"}
  Sizes <- MCFewSizes
  Output <- MCFewOutput
  Preludes <- MCFewPreludes
  MaxWrites = 8
  MaxResizes = 0
SPECIFICATION Spec
INVARIANT SnapshotShowsTheRows
CHECK_DEADLOCK FALSE
