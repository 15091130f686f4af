\* The replay engine fed by every strategy: the engine is explored
\* with basic_momentum and gaps, the other strategies without.
SPECIFICATION Spec
CONSTANTS
  None = None
  Candles <- MCCandles
  MaxTime = 8
  HalfSpread = 324
  Slippage = 0
  Commission = 324
  StopDistance = 1296
  TakeDistance = 1620
  MaxDuration = 1
  FillTimeout = 1
  InitialCapital = 32400
  RiskPct = 30
  LotValue = 1
  VolumeStep = 1
  VolumeMin = 2
  VolumeMax = 7
  MinQty = 1
  Strategies <- AllStrategies
  Parameters <- MCParameters
  Input <- MCInput
  MaxCandles <- MCMaxCandles
  MaxStep <- MCMaxStep
  MaxRejected = 1
INVARIANTS
  OneAtATime
  FilledAtNextOpen
  NeverHeldBlind
  ExitExplained
  IndicatorsAgree
  FastAgreesWithinWindow
  SizedByEquity
  SummaryAgrees
CHECK_DEADLOCK FALSE
