SPECIFICATION Spec
CONSTANTS
  MAXPROC = 3
  Sem = {s1}
  KillReady = TRUE
  NULL = NULL
INVARIANTS ReadyAlive
