SPECIFICATION FairSpec
CONSTANTS
  PidMax = 4
  WordSize = 2
  Zeroed = {0, 1, 2}
  Stacks = {s1, s2, s3}
  NoStack = NoStack
  Codes = {7}
  MayFail <- AllSteps
CHECK_DEADLOCK FALSE
INVARIANTS
  TypeOK
  RunListIsRing
  StacksExclusive
  ScanSkipsNoFreePid
  LiveHaveAllocator
PROPERTIES
  ZombiesWaitForParent
  ImplementsLifecycle
  EveryoneRuns
  StacksReclaimed
