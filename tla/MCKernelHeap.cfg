SPECIFICATION Spec
CONSTANTS
  Top = 5
  PoolAreas = 4
  Sizes = {1, 2}
  Classes = {1, 2, 3, 4}
  Granule = 2
  Used = {1, 2}
  MaxCount <- Counts
CHECK_DEADLOCK TRUE
INVARIANTS
  TypeOK
  MemoryIsShared
  Coalesced
  ListsAreCounts
  ObjectsAreDistinct
  HeapHoldsItsPages
