CONSTANTS
  page1 = page1
  page2 = page2
  c1 = c1
  c2 = c2
  c3 = c3
  pane1 = pane1
  pane2 = pane2
  Pages = {page1, page2}
  Conns = {c1, c2, c3}
  Panes = {}
  PageOf <- MCPageOf
  Deleter = Deleter
  None = None
  MaxReplace = 1
SPECIFICATION Spec
SYMMETRY Symmetry
INVARIANTS
  IInv
  OneOwnerUnlessRaced
  DisplacedIsBeingClosed
PROPERTY TokenRevocation
CHECK_DEADLOCK FALSE
