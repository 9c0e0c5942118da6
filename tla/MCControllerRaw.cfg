SPECIFICATION Spec
CONSTANTS
  Workers = {w1, w2}
  MaxCollections = 2
  MaxData = 1
  MaxGeneration = 0
  MaxExits = 1
  KeyframeStart = FALSE
  Faults = {"prepare", "write", "timeout", "session", "publish", "discard"}
  OrderlyExit = TRUE
SYMMETRY Symmetry
CHECK_DEADLOCK FALSE
INVARIANTS
  TypeOK
  SavedIsComplete
  Settled
  Exclusive
  OpenBagIsSafe
  StagingIsHeld
PROPERTIES
  ErrorIsFinal
  ImplementsLedger
