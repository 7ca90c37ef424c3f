SPECIFICATION FairSpec
CONSTANTS
  Proc = {p1, p2, p3}
  Sem = {}
  NPlain = 0
  NTerm = 1
  ExcType = {}
  Weights <- UnitWeights
  MaxSem = 1
  Hazards = {}
  NULL = NULL
PROPERTIES ReadyRuns DeviceAnswers
