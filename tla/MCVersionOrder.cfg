CONSTANTS
  MaxEntries = 4
  Versions <- MCVersions
  Listings <- MCListings
SPECIFICATION Spec
INVARIANTS
  NewestPicked
  PrintsEachOnce
CHECK_DEADLOCK FALSE
