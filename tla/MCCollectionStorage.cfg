SPECIFICATION Spec
CONSTANTS
  Services = {s1, s2}
  Deleters = {d1, d2}
  Tasks = {t1, t2}
  MaxCollections = 3
  MaxStarts = 3
  Faults = {"create", "mark", "start", "publish", "unmark", "trash", "removal", "crash"}
SYMMETRY Symmetry
CHECK_DEADLOCK FALSE
INVARIANTS
  TypeOK
  NumbersGrow
PROPERTIES
  NothingIsLost
