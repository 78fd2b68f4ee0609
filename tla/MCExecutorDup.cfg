CONSTANTS
  Calls = {c1}
  MaxRetries = 3
  MaxBackoff = 10
SPECIFICATION ExecutorSpec
CHECK_DEADLOCK FALSE
INVARIANT FilledOnce
