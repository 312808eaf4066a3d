SPECIFICATION Spec
CONSTANTS
  Levels = 2
  Width = 2
  MaxFrame = 8
  Procs = {p1, p2, p3}
  Nobody = Nobody
  Values = {0, 1}
  Loaded = 0
  Unmapped = Unmapped
  Image = {2, 3}
  ReadOnly = {3}
  Allocs = {}
  Buffers = {}
  Cached = {}
SYMMETRY ProcSymmetry
CHECK_DEADLOCK FALSE
INVARIANTS
  TypeOK
  RefCountsAreHolders
PROPERTIES
  ImplementsPrivateMemory
