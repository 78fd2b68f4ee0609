CONSTANTS
  Assets = {BTC, ETH}
  Ends = {14, 26}
  MinTime = 0
  MaxTime = 72
  TerminalThreshold = 12
  Interval = 8
  Second = 2
  CacheTTL = 2
  Cooldown = 6
  MaxErrorBackoff = 8
  MaxScan = 2
  Horizon = 28
  MaxPauses = 1
  None = None
SPECIFICATION LoopsSpec
SYMMETRY AssetSymmetry
CHECK_DEADLOCK FALSE
INVARIANT AssetLoopInv
 
