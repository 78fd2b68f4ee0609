CONSTANTS
  MaxAttempts = 2
  RollingWindow = 2
  MaxTime = 6
  MaxMessages = 3
  MaxOutages = 3
  Callbacks = {k1, k2}
  Tasks = {a1, a2}
  MaxChanges = 2
  Contents = {a, b}
  MaxInMemory = 2
  MaxLogged = 3
  MaxRestarts = 1
  Orders = {o1, o2}
  Cleanups = {c1, c2, c3}
  MaxSignals = 2
  Conditions = {x1, x2}
  Callers = {m1, m2}
  Amounts = {1, 2}
  StartingUsdc = 100
  MaxTrades = 4
  NoCaller = NoCaller
  Prices = {10, 20, 25, 30}
  Quantities = {1, 2}
  OrderTypes = {"limit", "market", "ioc", "fok"}
  TickSize = 10
  MinPrice = 10
  MaxPrice = 30
  MaxOrders = 3
  Tolerance = 1
  Interval = 5
  Ahead = 3
  MinLeft = 1
  MaxLeft = 6
  Cruising = 5
  Terminal = 1
  Listed = {1, 2, 4}
  MaxRetries = 2
  MaxBackoff = 2
  MaxNow = 14
  MaxFailures = 1
  Keys = {"a", "b"}
  Values = {1, 2}
  Absent = 0
  Invalid = {2}
  MaxEdits = 2
  MaxSets = 1
  MaxReloads = 1
  Day = 2
  Keep = 2
  Chunk = 4
  ArchiveTime = 14
  MaxDeletes = 2
  RecoveryAttempts = 1
  MaxErrors = 2
  MaxCrashes = 2
  Topics = {"tick", "ofi"}
  Subscribed = {"tick"}
  HighWater = 2
  QueueSize = 2
  BusMessages = 5
  MaxStarts = 3
  TickTasks = {"p", "q"}
  Times = {1, 2}
  TickPrices = {1, 2}
  TickInterval = 2
  Periods = 1
  MaxSize = 2
  MaxTicks = 3
  MaxClears = 1
  TickFailures = 1
SPECIFICATION Spec
SYMMETRY Symmetry
CHECK_DEADLOCK FALSE
INVARIANTS
  StreamsInv ScannerInv  AuditInv ShutdownInv  CapitalInv EngineInv
   
PROPERTIES
  ServiceSteps
