SPECIFICATION Spec
CONSTANTS
  Workers = {w1, w2}
  MaxCollections = 1
  MaxData = 0
  MaxGeneration = 2
  MaxExits = 0
  KeyframeStart = FALSE
  Faults = {}
  OrderlyExit = TRUE
SYMMETRY Symmetry
CHECK_DEADLOCK FALSE
INVARIANT
  SameTimeBase
