CONSTANTS
  Trades = {t1, t2, t3}
  InitialBalance = 4000
  LiveTestSize = 100
  RequiredWins = 2
  DailyLimit = 90
  Gain = 2
  ChainBalances = {4000}
  StartModes = {"DRY_RUN", "LIVE_TEST", "AUTONOMOUS"}
  Days = {1, 2}
  MaxManual = 1
  MaxRestarts = 1
  NoState = NoState
  FeedTokens = {"yes", "no"}
  FeedPrices = {1, 2}
  FeedMaxQueue = 1
  FeedListeners = 2
  FeedMaxMessages = 3
  FeedMaxLosses = 1
  ArbMarkets <- MCMarkets
  ArbOraclePrices = {1000, 1001}
  ArbAsks = {97, 98, 99}
  ArbMaxEntry = 99
  ArbThreshold = 1
  ArbMinConfidence = 60
  ArbStaleness = 1
  ArbMaxTime = 3
  ArbMaxMoves = 3
  MaxFills = 3
  FillPrices = {1000, 1002}
  FillPremium = 1
  FillOneMinute = 1
  FillFiveMinutes = 2
  FillToxicBps = 15
  FillMaxPending = 2
  FillMaxTime = 2
  FillMaxMoves = 1
  SimPrices = {3}
  SimMinTick = 1
  SimMaxTick = 2
  SimQuantities = {1, 3}
  SimLatencies = {0, 2}
  SimMaxOrders = 3
  SimMaxTrades = 2
  RiskEquities = {85, 95, 100, 110}
  RiskInitialCapital = 100
  RiskThresholdEquity = 90
  RiskThresholdPct = 10
  RiskMaxSnapshots = 2
  RiskMaxTime = 5
  RiskMaxResets = 1
  CrashPrices = {940, 975, 989, 1000}
  CrashDropPct = 1
  CrashWindow = 2
  CrashCooldown = 3
  CrashLatencies = {5, 7}
  CrashMaxHistory = 3
  CrashMaxTime = 4
  CrashMaxTicks = 4
  GridMarkets = {"m1", "m2", "m3"}
  GridHole = "hole"
  GridBids = {1, 60}
  GridBiases = {50, 80}
  GridBaseAllocation = 10000
  GridMaxPerSide = 5000
  GridCapital = 12000
  GridMaxMarkets = 2
  GridMaxRefreshes = 2
  GridMaxChanges = 3
  HedgeSymbols = {"B", "E"}
  HedgePrices = {1, 2}
  HedgeNotionals = {2, 6}
  HedgeMaxNotional = 4
  HedgeDollar = 5
  MaxHedges = 2
  MergeConditions = {"x", "y"}
  MergeBuys = {1, 2}
  MergeSells = {2}
  MergeStartingUsdc = 100
  MergeMaxUpdates = 3
  EnvMids = {995, 1000, 1001}
  EnvInitialSpread = 20
  EnvMinSpread = 17
  EnvMaxSpread = 22
  EnvInitialSize = 10
  EnvInitialCash = 2000000
  EnvMaxPosition = 15
  EnvMaxSteps = 3
  EnvMaxSizes = 1
  EnvMaxEpisodes = 2
SPECIFICATION MCSpec
CHECK_DEADLOCK FALSE
SYMMETRY TradeSymmetry
INVARIANTS
  PortfolioInv FeedInv ArbitrageInv   BrakesInv GridInv 
PROPERTY TradingSteps
