SPECIFICATION LiveSpec
CONSTANTS
  Bots = {b1}
  Sessions = {s1}
  UserOps = {"PAUSE", "ARCHIVE"}
  Unconfigured = {}
  Versions = {1}
  NewVersions = {}
  CandleTimes = {0}
  Prices = {1, 3}
  Decisions = {"BUY"}
  SpreadPoints = 0
  StopLossPoints = 1
  TakeProfitPoints = 2
  MaxTradeDuration = 3
  StaleAfter = 1
  MaxTime = 4
  MaxLag = 1
  MaxBatch = 1
  MaxRuns = 1
INVARIANTS
  OpenWithinLimits
PROPERTIES
  GapCloses
  PositionsResolve
