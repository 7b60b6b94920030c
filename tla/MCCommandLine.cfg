CONSTANTS
  Devices = {"phone", "pod", "newer", "tv", "watch"}
  ListedDevices <- MCListedDevices
  irecvDevices <- MCirecvDevices
  bbdevices <- MCbbdevices
  Serials <- MCSerials
  Options <- MCOptions
  MaxOptions = 5
SPECIFICATION Spec
INVARIANTS
  ExitTellsAnswer
  
  InstallTypeAsSaid
  CrashCauses
CHECK_DEADLOCK FALSE
