SPECIFICATION Spec
CONSTANTS
  Cores = {c1, c2}
  PageSize = 3
  PageNumbers = 3
  InitPages = 1
  MaxPages = 2
  Widths = {2}
  Lengths = {1, 4}
  Addresses = {2, 4, 10}
  Inputs <- Arrays
  MaxMoves = 1
  Cells = {0, 1}
  Faults = {"PAGE", "MMAP", "REALLOC", "MOVE"}
SYMMETRY CoreSymmetry
INVARIANTS
  TypeOK
  CountedPagesAreThere
PROPERTIES
  StraysBehindGrowth
  FlatSpec
CHECK_DEADLOCK FALSE
