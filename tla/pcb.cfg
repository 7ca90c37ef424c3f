SPECIFICATION Spec
CONSTANTS
  MAXPROC = 4
  Sem = {s1}
  KillReady = FALSE
  NULL = NULL
INVARIANTS TypeOK QueuesApart TreeConsistent
PROPERTIES TerminationEnds ImplementsTree
