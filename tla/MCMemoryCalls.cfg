SPECIFICATION Spec
CONSTANTS
  Levels = 3
  Width = 2
  MaxFrame = 9
  Procs = {p1}
  Nobody = Nobody
  Values = {0, 1}
  Loaded = 0
  Unmapped = Unmapped
  Image = {1, 2}
  ReadOnly = {2}
  Allocs = {3, 4, 5}
  Buffers = {2, 3}
  Cached = {1, 4}
SYMMETRY ProcSymmetry
CHECK_DEADLOCK FALSE
INVARIANTS
  NoAliases
  ReadOnlyKept
