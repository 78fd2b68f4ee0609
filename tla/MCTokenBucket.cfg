CONSTANTS
  Waiters = {c1, c2}
  Capacity = 10
  Rate = 3
  Cooldown = 2
  MaxWait = 3
  Requests = {3, 11}
  NoWaiter = NoWaiter
  LastStart = 2
  MaxResets = 1
SPECIFICATION BucketLiveSpec
CHECK_DEADLOCK FALSE
INVARIANT BurstBound
PROPERTY CooldownHolds
PROPERTY EveryCallReturns
