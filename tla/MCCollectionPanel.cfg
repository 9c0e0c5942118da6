SPECIFICATION FairSpec
CONSTANTS
  Panels = {p1}
  MaxRequests = 2
  MaxFaults = 1
  CacheSize = 1
  Stored = 1
  OtherOps = {"stop", "delete"}
INVARIANTS
  TypeOK
  DoneIsTrue
  OneAtATime
  AtMostOnce
PROPERTIES
  ViewSettles
CHECK_DEADLOCK FALSE
