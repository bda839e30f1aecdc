CONSTANTS
  t = t
  a = a
  b = b
  None = None
  Tabs <- OneTab
  Names <- OneName
  CleansUp = TRUE
SPECIFICATION Spec
PROPERTY
  UpdateKeepsTerminals
CHECK_DEADLOCK FALSE
