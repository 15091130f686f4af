SPECIFICATION Spec
CONSTANTS
  Bots = {b1}
  Sessions = {s1}
  UserOps = {"PAUSE", "ARCHIVE", "APPLY"}
  Unconfigured = {b1}
  Versions = {1, 2}
  NewVersions = {2}
  CandleTimes = {0, 1}
  Prices = {1, 2}
  Decisions = {"BUY", "SELL"}
  SpreadPoints = 1
  StopLossPoints = 2
  TakeProfitPoints = 1
  MaxTradeDuration = 2
  StaleAfter = 1
  MaxTime = 2
  MaxLag = 1
  MaxBatch = 1
  MaxRuns = 2
INVARIANTS
  SignalOncePerCandle
  EvaluatedUpToNewestTick
  PausedWithinLife
  LifecycleIsConsistent
PROPERTIES
  ResolvedIsFinal
