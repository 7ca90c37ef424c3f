SPECIFICATION FairSpec
CONSTANTS
  W = 18
  SLICE = 2
  PSEUDO = 8
  BOGUS = 12
  N = 2
  Settings <- AllSettings
INVARIANTS TypeOK NoEarlyTick TickArmed TickOnTime
PROPERTIES TickComes
