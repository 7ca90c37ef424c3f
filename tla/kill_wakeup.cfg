SPECIFICATION Spec
CONSTANTS
  Proc = {p1, p2, p3}
  Sem = {s1}
  NPlain = 1
  NTerm = 0
  ExcType = {}
  Weights <- MixedWeights
  MaxSem = 4
  Hazards = {}
  NULL = NULL
SYMMETRY Symmetry
INVARIANTS SemaphoreSound
