SPECIFICATION OneSpec
CONSTANTS
  PidMax = 4
  WordSize = 2
  Zeroed = {0, 1, 2}
  Stacks = {1, 2, 3, 4}
  NoStack = 0
  Codes = {7}
  NotRun = 7
  MayFail <- AllSteps
CHECK_DEADLOCK FALSE
INVARIANTS
  WaitsForItsOwn
  OneReadsKeys
PROPERTIES
  PromptReturns
  OnlyShellsStarve
