CONSTANTS
  MaxUrls = 2
  UrlLists <- MCUrlLists
  Devices <- MCDevices
  Manifests <- MCManifests
  DevVals0 <- MCDevVals0
  BasebandModes = {1}
  MaxNow = 1
SPECIFICATION RunSpec
INVARIANT DefaultIsEraseInstall
CHECK_DEADLOCK FALSE
