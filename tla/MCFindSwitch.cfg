SPECIFICATION FairSpec
CONSTANTS
  Local = {"umi_camera", "teleop", "estimator"}
  Unstartable = {}
  Devices = {first, second}
  Device0 = first
  MaxRequests = 1
  MaxRecordings = 0
  MaxCrashes = 0
CHECK_DEADLOCK FALSE
PROPERTIES
  SwitchRestores
