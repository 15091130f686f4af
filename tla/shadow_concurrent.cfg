SPECIFICATION Spec
CONSTANTS
  Bots = {b1}
  Sessions = {s1, s2}
  UserOps = {"ARCHIVE", "ACTIVATE", "CHANGE_MODE"}
  Unconfigured = {}
  Versions = {1, 2}
  NewVersions = {}
  CandleTimes = {0, 1}
  Prices = {1, 3}
  Decisions = {"BUY"}
  SpreadPoints = 0
  StopLossPoints = 1
  TakeProfitPoints = 2
  MaxTradeDuration = 1
  StaleAfter = 1
  MaxTime = 1
  MaxLag = 0
  MaxBatch = 1
  MaxRuns = 2
INVARIANTS
  Inv
  OneOpenPerBot
  OpenWithinLimits
  SignalMatchesRun
PROPERTIES
  ImplementsSlots
SYMMETRY SessionSymmetry
