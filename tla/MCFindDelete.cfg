SPECIFICATION Spec
CONSTANTS
  Panels = {p1}
  MaxRequests = 2
  MaxFaults = 0
  CacheSize = 1
  Stored = 2
  OtherOps = {}
INVARIANTS
  DeletesWhatWasShown
CHECK_DEADLOCK FALSE
