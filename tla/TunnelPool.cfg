CONSTANTS
  a = a
  b = b
  s = s
  t = t
  Agents <- TwoAgents
  Slots <- TwoSlots
  MaxTroubles = 1
SPECIFICATION FairSpec
INVARIANTS
  IInv
  OnlyRivalsEndIt
  OneSurvivesUnlessRaced
PROPERTY
  Settles
CHECK_DEADLOCK FALSE
