CONSTANTS
  Tokens = {t1, t2}
  Callers = {c1, c2}
  None = None
  MaxDelay = 2
  MaxDrops = 2
  Cancels = TRUE
SPECIFICATION MCFairSpec
INVARIANT SniperSafe
PROPERTIES StreamQuiet ClientsEnd
CHECK_DEADLOCK FALSE
