CONSTANTS
  W = 65536
  Address = 64
  NULL = NULL
  Patient = TRUE
  Chars = 1
  CLOCKLOOP = 2
  Rounds = 1
SPECIFICATION Spec
INVARIANT P3PidKnown
CHECK_DEADLOCK FALSE
