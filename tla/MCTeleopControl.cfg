SPECIFICATION FairSpec
CONSTANTS
  MaxGeneration = 3
  MaxRestarts = 2
  Faults = {"write", "crash"}
CHECK_DEADLOCK FALSE
INVARIANTS
  TypeOK
  FollowsAlone
  GripperIsHeld
  RepeatedAnswerIsTrue
PROPERTIES
  ImplementsPermission
  InputLossStops
