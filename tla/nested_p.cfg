SPECIFICATION Spec
CONSTANTS
  Proc = {p1, p2}
  Sem = {}
  NPlain = 1
  NTerm = 0
  ExcType = {}
  Weights <- UnitWeights
  MaxSem = 1
  Hazards = {"io_interrupted"}
  NULL = NULL
SYMMETRY Symmetry
INVARIANTS CountsAgree Placement
