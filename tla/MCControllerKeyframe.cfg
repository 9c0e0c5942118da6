SPECIFICATION FairSpec
CONSTANTS
  Workers = {w1}
  MaxCollections = 1
  MaxData = 1
  MaxGeneration = 2
  MaxExits = 0
  KeyframeStart = TRUE
  Faults = {"overflow", "write", "timeout", "marker", "discard"}
  OrderlyExit = FALSE
CHECK_DEADLOCK FALSE
INVARIANTS
  BagOpensComplete
PROPERTIES
  LifecycleMoves
