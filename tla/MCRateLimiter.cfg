CONSTANTS
  Calls = {c1, c2, c3, c4}
  MaxCalls = 2
  TimeWindow = 3
  Lag = 1
  NoCall = NoCall
  MaxTime = 5
SPECIFICATION LiveSpec
CHECK_DEADLOCK FALSE
INVARIANT LimiterInv
PROPERTY ImplementsWindow
PROPERTY EveryCallProceeds
