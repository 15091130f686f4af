\* The strategies whose fast evaluator and evaluate() answer differently.
SPECIFICATION Spec
CONSTANTS
  None = None
  Candles <- MCCandles
  MaxTime = 8
  HalfSpread = 324
  Slippage = 0
  Commission = 324
  StopDistance = 1296
  TakeDistance = 1620
  MaxDuration = 1
  FillTimeout = 1
  InitialCapital = 32400
  RiskPct = 30
  LotValue = 1
  VolumeStep = 1
  VolumeMin = 2
  VolumeMax = 7
  MinQty = 1
  Strategies <- Disagreeing
  Parameters <- MCScanParameters
  Input <- MCInput
  MaxCandles <- MCMaxCandles
  MaxStep <- MCMaxStep
  MaxRejected = 1
INVARIANTS
  FastAgreesWithReplay
CHECK_DEADLOCK FALSE
