SPECIFICATION Spec
CONSTANTS
  Levels = 2
  Width = 2
  MaxFrame = 9
  Procs = {p1, p2}
  Nobody = Nobody
  Values = {0, 1}
  Loaded = 0
  Unmapped = Unmapped
  Image = {2}
  ReadOnly = {}
  Allocs = {3}
  Buffers = {}
  Cached = {}
SYMMETRY ProcSymmetry
CHECK_DEADLOCK FALSE
PROPERTIES
  ForkIsolates
