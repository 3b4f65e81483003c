SPECIFICATION MCSpec
CONSTANTS
  Keys <- ThreeKeys
  Vals = {0, 1}
  PhiMix <- MCMix
  Capacity = 2
  FillNum = 3
  FillDen = 4
  MinSize = 0
  Scripts <- MCScripts
  Inputs <- MCInputs
  Sizes = {1, 2, 5}
  ChanCap = 4
  MaxRuns = 2
  Lockers = {"P1", "P2", "Q3"}
  LockProcs = {"P", "Q"}
  Inodes = {"A", "B"}
  HomeOf <- TraceHomeOf
  Plans <- TwoPlans
  LockErrors = TRUE
  Parts = {"sed"}
PROPERTY NewReturns
CHECK_DEADLOCK FALSE
