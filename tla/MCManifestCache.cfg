CONSTANTS
  Builds = {A, B}
  MaxUrls = 3
  BuildLists <- MCBuildLists
SPECIFICATION Spec
INVARIANTS
  OwnManifest
  RightBuild
  CacheHoldsLast
PROPERTIES
  ImplementsLoop
CHECK_DEADLOCK FALSE
