SPECIFICATION Spec
CONSTANTS
  Proc = {p1, p2}
  ExcType = {"SYS", "PGMTP"}
  Misuse = {}
  MaxNest = 2
  NULL = NULL
SYMMETRY Symmetry
INVARIANTS AllFieldsInitialised
