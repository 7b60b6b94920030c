CONSTANTS
  MaxUrls = 4
  UrlLists <- MCUrlLists
SPECIFICATION Spec
INVARIANTS
  TypeOK
  SkipsAreHarmless
  OneCachedManifest
  NocacheRestored
PROPERTIES
  AnswerOnlyImproves
  ImplementsVerdict
  Terminates
CHECK_DEADLOCK FALSE
