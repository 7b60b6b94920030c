CONSTANTS
  Devices <- MCDevices
  Manifests <- MCManifests
  DevVals0 <- MCDevVals0
  BasebandModes = {1, 2}
  MaxNow = 2
SPECIFICATION Spec
INVARIANTS
  TypeOK
  PoisonContained
  NonceLengthMatches
  TicketsBelongTogether
  GeneratorExplainsNonce
  OnlyRequestedType
  InstallTypeRestored
  VerdictIsMainTicket
PROPERTIES
  ChosenOnce
CHECK_DEADLOCK FALSE
