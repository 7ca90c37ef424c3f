SPECIFICATION Spec
CONSTANTS
  Proc = {p1, p2, p3}
  Sem = {s1}
  NPlain = 1
  NTerm = 0
  ExcType = {"PGMTP"}
  Weights <- UnitWeights
  MaxSem = 2
  Hazards = {"kill_io", "nested"}
  NULL = NULL
SYMMETRY Symmetry
INVARIANTS TypeOK CountsAgree Placement StopsRightly NoOrphans SemaphoreSound DeviceQuiet TickReleasesAll
PROPERTY NoOvertaking ImplementsTree
