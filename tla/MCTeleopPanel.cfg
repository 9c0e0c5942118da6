SPECIFICATION FairSpec
CONSTANTS
  Presses <- PressesTwo
  MaxLosses = 1
CHECK_DEADLOCK FALSE
INVARIANTS
  TypeOK
PROPERTIES
  RecoveryEnds
  RecoveryConfirms
  NothingStartsMeanwhile
  StoppedIsPaused
