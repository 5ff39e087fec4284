CONSTANTS
  Instance = {i1, i2}
  NULL = NULL
  MaxStarts = 3
  MaxResolves = 3
  MaxErrors = 1
SPECIFICATION FairSpec
INVARIANTS StartIsSafe RefsAccounted
PROPERTIES StopReturns
CHECK_DEADLOCK FALSE
