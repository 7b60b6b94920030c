CONSTANTS
  MaxEntries = 3
  BuildIDs <- MCBuildIDs
  Versions <- MCVersions
  Urls <- MCUrls
  FirmwareLists <- MCFirmwareLists
SPECIFICATION Spec
INVARIANTS
  TypeOK
  FitsAllocation
  ResultIsSelection
  MarksRepeats
CHECK_DEADLOCK FALSE
