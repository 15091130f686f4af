SPECIFICATION Spec
CONSTANTS
  Bots = {b1}
  Sessions = {s1}
  UserOps = {}
  Unconfigured = {}
  Versions = {1}
  NewVersions = {}
  CandleTimes = {0}
  Prices = {1, 3}
  Decisions = {"BUY"}
  SpreadPoints = 0
  StopLossPoints = 1
  TakeProfitPoints = 2
  MaxTradeDuration = 2
  StaleAfter = 1
  MaxTime = 2
  MaxLag = 1
  MaxBatch = 2
  MaxRuns = 1
PROPERTIES
  ClosedIsNotEvaluated
