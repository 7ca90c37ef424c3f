SPECIFICATION Spec
CONSTANTS
  Proc = {p1, p2}
  Sem = {s1}
  NPlain = 1
  NTerm = 0
  ExcType = {}
  Weights <- UnitWeights
  MaxSem = 1
  Hazards = {}
  NULL = NULL
SYMMETRY Symmetry
INVARIANTS IdleCanEnd
