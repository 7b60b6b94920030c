CONSTANTS
  Devices = {"phone", "pod", "newer", "tv", "watch"}
  ListedDevices <- MCListedDevices
  irecvDevices <- MCirecvDevices
  bbdevices <- MCbbdevices
  Serials <- MCSerials
  Options <- MCOptions
  MaxOptions = 2
SPECIFICATION Spec
INVARIANT SerialNotRequired
CHECK_DEADLOCK FALSE
