CONSTANTS
  Services = {"oracle", "sniper", "ta", "btc", "eth", "dashboard", "terminal", "ofi", "wait"}
  HasOfi = "yes"
  MaxMonitors = 2
SPECIFICATION FairSpec
CHECK_DEADLOCK FALSE
INVARIANT CleanShutdown
PROPERTY NoNewIteration
PROPERTY LeavesToExit
