SPECIFICATION FairSpec
CONSTANTS
  Proc = {p1}
  Sem = {}
  NPlain = 0
  NTerm = 1
  ExcType = {}
  Weights <- UnitWeights
  MaxSem = 1
  Hazards = {"term_error"}
  NULL = NULL

PROPERTIES DeviceAnswers
