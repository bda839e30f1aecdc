CONSTANTS
  Cap = 4
  MaxWrite = 6
  MaxTotal = 14
  MaxFile = 6
SPECIFICATION RingSpec
INVARIANTS
  RingTypeOK
  ReadsNewestRun
PROPERTY ShrinksOnlyByExactFill
