SPECIFICATION Spec
CONSTANTS
  Presses <- PressesPause
  MaxLosses = 0
CHECK_DEADLOCK FALSE
PROPERTIES
  PauseOutrunsEnable
