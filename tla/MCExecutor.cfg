CONSTANTS
  Calls = {c1, c2}
  MaxRetries = 3
  MaxBackoff = 10
SPECIFICATION ExecutorFairSpec
CHECK_DEADLOCK FALSE
INVARIANT ExecutorInv
PROPERTY NoPostAfterClose
PROPERTY RetriesEnd
