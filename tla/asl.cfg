SPECIFICATION Spec
CONSTANTS
  Proc = {p1, p2, p3, p4}
  Addr = {10, 20, 30, 40}
  MAXSEMD = 3
  NULL = NULL
SYMMETRY Symmetry
VIEW Table
INVARIANTS DescriptorsConserved Ascending CursemPoints
PROPERTIES ImplementsAsl
