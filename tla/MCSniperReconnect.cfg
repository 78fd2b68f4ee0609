CONSTANTS
  Tokens = {t1, t2}
  Callers = {c1}
  None = None
  MaxDelay = 2
  MaxDrops = 2
  Cancels = FALSE
SPECIFICATION MCSpec
INVARIANT SubscribedIsStreamed
CHECK_DEADLOCK FALSE
