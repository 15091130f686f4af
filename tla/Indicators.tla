----------------------------- MODULE Indicators -----------------------------
(***************************************************************************)
(* The indicators of the trading domain as the reference path computes     *)
(* them: from a window of candles, every time anew (indicators.py and the  *)
(* stochastic of pine_bb_rsi_stoch.py).                                    *)
(*                                                                         *)
(* A candle is a record [open, high, low, close, tick_volume].  Prices are *)
(* integers.  Wherever the code divides, the model uses \div, and the      *)
(* instances take prices that are multiples of a unit every divisor        *)
(* divides, so that each quotient is exact and no result depends on how    *)
(* Decimal or float would round.  Ratios and square roots are kept as the  *)
(* pair they are formed from and compared without forming them: an RSI is  *)
(* its average gain and loss, a band its middle and variance.              *)
(***************************************************************************)
EXTENDS Integers, Sequences, SequencesExt, FiniteSetsExt, Functions

CONSTANT None      \* Python's None: not enough data yet

Newest(values, n) == SubSeq(values, Len(values) - n + 1, Len(values))

Closes(candles) == [i \in DOMAIN candles |-> candles[i].close]

Absolute(x) == IF x < 0 THEN -x ELSE x

Larger(a, b) == IF a >= b THEN a ELSE b

SumOf(values) == SumFunction(values)

----------------------------------------------------------------------------

Sma(values, period) ==
  IF Len(values) < period THEN None ELSE SumOf(Newest(values, period)) \div period

\* The series starts at the period-th value, seeded with the mean of the
\* values up to it.
EmaSeries(values, period) ==
  LET ema[n \in period .. Len(values)] ==
        IF n = period THEN SumOf(SubSeq(values, 1, period)) \div period
        ELSE ema[n - 1] + (2 * (values[n] - ema[n - 1])) \div (period + 1)
  IN [i \in 1 .. Larger(0, Len(values) - period + 1) |-> ema[period + i - 1]]

Changes(values) == [i \in 1 .. Len(values) - 1 |-> values[i + 1] - values[i]]

\* The average gain and loss of the newest changes: what the RSI is formed from.
Rsi(values, period) ==
  IF Len(values) < period + 1 THEN None
  ELSE LET changes == Newest(Changes(values), period)
       IN [gain |-> SumOf([i \in 1 .. period |-> Larger(changes[i], 0)]) \div period,
           loss |-> SumOf([i \in 1 .. period |-> Larger(-changes[i], 0)]) \div period]

\* 100 - 100 / (1 + gain / loss) against a level; 100 or 50 without a loss.
RsiAtMost(rsi, level) ==
  IF rsi.loss = 0 THEN (IF rsi.gain > 0 THEN 100 ELSE 50) <= level
  ELSE 100 * rsi.gain <= level * (rsi.gain + rsi.loss)

RsiAtLeast(rsi, level) ==
  IF rsi.loss = 0 THEN (IF rsi.gain > 0 THEN 100 ELSE 50) >= level
  ELSE 100 * rsi.gain >= level * (rsi.gain + rsi.loss)

TrueRange(previous_close, candle) ==
  Max({candle.high - candle.low, Absolute(candle.high - previous_close),
       Absolute(candle.low - previous_close)})

Atr(candles, period) ==
  IF Len(candles) < period + 1 THEN None
  ELSE Sma([i \in 1 .. Len(candles) - 1 |-> TrueRange(candles[i].close, candles[i + 1])],
           period)

BollingerBands(values, period) ==
  LET middle == Sma(values, period)
      window == Newest(values, period)
  IN IF middle = None THEN None
     ELSE [middle |-> middle,
           variance |-> SumOf([i \in 1 .. period |->
                               (window[i] - middle) * (window[i] - middle)]) \div period]

\* A distance from the middle reaches, or exceeds, the band that lies
\* deviations (in tenths) standard deviations away.
Reaches(distance, deviations, bands) ==
  /\ distance >= 0
  /\ 100 * distance * distance >= deviations * deviations * bands.variance

Exceeds(distance, deviations, bands) ==
  /\ distance > 0
  /\ 100 * distance * distance > deviations * deviations * bands.variance

\* Distances of a price above and below the middle.
Above(price, bands) == price - bands.middle

Below(price, bands) == bands.middle - price

\* momentum(): None until there is a value period candles back.
Momentum(values, period) ==
  IF Len(values) < period + 1 THEN None
  ELSE values[Len(values)] - values[Len(values) - period]

\* The highest high and lowest low of the candles before the newest.
PriorRange(candles, period) ==
  IF Len(candles) < period + 1 THEN None
  ELSE LET prior == {candles[i] : i \in Len(candles) - period .. Len(candles) - 1}
       IN [high |-> Max({c.high : c \in prior}), low |-> Min({c.low : c \in prior})]

----------------------------------------------------------------------------

\* A stochastic of 100 percent, in twelfths of a percent, so that the ratio
\* and the means taken of it are whole.
Hundred == 1200

RawStochastic(close, lowest, highest) ==
  IF highest = lowest THEN Hundred \div 2
  ELSE ((close - lowest) * Hundred) \div (highest - lowest)

Smas(values, period) ==
  [i \in 1 .. Larger(0, Len(values) - period + 1) |->
     Sma(SubSeq(values, 1, period + i - 1), period)]

\* _stochastic_kd(): the smoothed %K and %D of every candle of the window.
StochasticKD(candles, period, smooth_k, smooth_d) ==
  LET Span(end) == {candles[i] : i \in end - period + 1 .. end}
      raw == [i \in 1 .. Larger(0, Len(candles) - period + 1) |->
                LET span == Span(period + i - 1)
                IN RawStochastic(candles[period + i - 1].close,
                                 Min({c.low : c \in span}), Max({c.high : c \in span}))]
      k == Smas(raw, smooth_k)
  IN [k |-> k, d |-> Smas(k, smooth_d)]

\* Newest and newest but one of a series, None where it is too short.
FromEnd(series, back) ==
  IF Len(series) > back THEN series[Len(series) - back] ELSE None

\* How many percent of the values lie below a value.
PercentileRank(value, values) ==
  (100 * Len(SelectSeq(values, LAMBDA x : x < value))) \div Len(values)
=============================================================================
