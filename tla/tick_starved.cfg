SPECIFICATION FairSpec
CONSTANTS
  W = 32
  SLICE = 2
  PSEUDO = 8
  BOGUS = 12
  N = 2
  Settings <- DevicesOnly
PROPERTY TickAlwaysComes
