SPECIFICATION FairSpec
CONSTANTS
  Local = {"umi_camera", "teleop"}
  Unstartable = {"umi_camera"}
  Devices = {first, second}
  Device0 = first
  MaxRequests = 2
  MaxRecordings = 1
  MaxCrashes = 1
CHECK_DEADLOCK FALSE
INVARIANTS
  TypeOK
  SavedOrReported
PROPERTIES
  PausedFirst
  ShutdownStopsAll
  DeviceIsFree
  ManagerSettles
