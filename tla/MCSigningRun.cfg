CONSTANTS
  MaxUrls = 2
  UrlLists <- MCUrlLists
  Devices <- MCDevices
  Manifests <- MCManifests
  DevVals0 <- MCDevVals0
  BasebandModes = {1}
  MaxNow = 2
SPECIFICATION RunSpec
INVARIANTS
  AnswerIsTheServers
  BlobsShareNonce
  UpdateOnlyAsFallback
PROPERTIES
  ImplementsLoop
CHECK_DEADLOCK FALSE
