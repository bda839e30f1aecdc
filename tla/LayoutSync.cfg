CONSTANTS
  page1 = page1
  page2 = page2
  c1 = c1
  c2 = c2
  Conns = {c1, c2}
  Pages = {page1, page2}
  None = None
  Directions = {"vertical"}
  Ratios = {30, 50}
  MaxSessions = 3
  MaxCommands = 4
SPECIFICATION Spec
SYMMETRY Symmetry
INVARIANTS
  TypeOK
  PageShowsLayout
PROPERTY UpdateKeepsShape
CHECK_DEADLOCK FALSE
