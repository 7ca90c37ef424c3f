SPECIFICATION FairSpec
CONSTANTS
  W = 65536
  Address = 64
  NULL = NULL
  Patient = TRUE
  Chars = 1
  CLOCKLOOP = 10
  Rounds = 4
INVARIANTS NoTrouble TerminalExclusive HandlerStackExclusive PidsIdentify AloneAtEnd
PROPERTY TestEnds
CHECK_DEADLOCK FALSE
