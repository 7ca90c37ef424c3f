CONSTANTS
  W = 65536
  Address = 64
  NULL = NULL
  Patient = FALSE
  Chars = 1
  CLOCKLOOP = 2
  Rounds = 1
SPECIFICATION Spec
INVARIANT P4Terminated
CHECK_DEADLOCK FALSE
