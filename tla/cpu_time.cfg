CONSTANTS
  Proc = {p1, p2}
  NULL = NULL
  W = 16
  BOOT = 14
  Horizon = 3
SPECIFICATION Spec
INVARIANTS UserTimeCharged ChargedOnce
SYMMETRY Symmetry
CHECK_DEADLOCK FALSE
