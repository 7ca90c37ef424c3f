CONSTANTS
  Proc = {p1}
  NULL = NULL
  W = 16
  BOOT = 13
  Horizon = 7
SPECIFICATION Spec
INVARIANT UserWithinGlobal
CHECK_DEADLOCK FALSE
