SPECIFICATION Spec
CONSTANTS
  Parts = 2
  Maps <- SmallMaps
  KernelLimit = 5
  Multiboot <- AboveKernel
  Initrds <- Disks
  Word = 4
  MaxEarly = 5
CHECK_DEADLOCK FALSE
INVARIANT TypeOK
INVARIANT UsedFramesKept
INVARIANT ReservedKept
INVARIANT ScanMissesNothing
