CONSTANTS
  MaxEntries = 3
  Versions <- MCVersions
  Listings <- MCListings
SPECIFICATION Spec
INVARIANT LatestIsPublic
CHECK_DEADLOCK FALSE
