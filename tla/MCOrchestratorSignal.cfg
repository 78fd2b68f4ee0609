CONSTANTS
  Services = {"oracle", "sniper", "btc", "terminal", "wait"}
  HasOfi = "no"
  MaxMonitors = 1
SPECIFICATION FairSpec
CHECK_DEADLOCK FALSE
PROPERTY SignalStops
