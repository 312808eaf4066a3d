SPECIFICATION Spec
CONSTANTS
  PageBytes = 32
  Top = 384
  Space = 768
  Unit = 2
  Kernel = {10}
  Sizes = {32, 64, 384}
  Frees <- SomeFrees
  MaxForeign = 2
  Files <- SomeFiles
  Leftover <- SomeLeftover
  Pointer = 8
  Low = 4
  Stride = 4
  MaxCount = 3
  Lengths = {0, 1, 3, 4, 9}
CHECK_DEADLOCK FALSE
INVARIANTS
  FreeIsUnused
  FreeListShape
  WritesInRoom
  SingleArgumentArrives
  SegmentsAreWhole
