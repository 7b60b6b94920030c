CONSTANTS
  Procs = {p, q}
  Pieces = 2
SPECIFICATION Spec
INVARIANTS
  GivesUpForCause
PROPERTIES
  Terminates
CHECK_DEADLOCK FALSE
