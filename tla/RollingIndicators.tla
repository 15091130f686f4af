-------------------------- MODULE RollingIndicators -------------------------
(***************************************************************************)
(* The indicators as the prepared and fast evaluators keep them: one       *)
(* structure per indicator that every candle updates in constant time      *)
(* (strategies/rolling.py, and the rolling classes of pine_bb_rsi_stoch.py *)
(* and fvg_ma_volume_profile.py).                                          *)
(*                                                                         *)
(* A structure is a record; the field "value" is what the last update      *)
(* returned.  Sums are updated by what enters and leaves the window, never *)
(* recomputed, so that a single wrong update stays in them for good.       *)
(***************************************************************************)
EXTENDS Indicators

\* A deque with maxlen: the oldest value leaves when a new one enters.
Push(deque, value, maxlen) ==
  Append(IF Len(deque) < maxlen THEN deque ELSE Tail(deque), value)

Power(base, exponent) == base ^ exponent

----------------------------------------------------------------------------
(* RollingWindowEma and FastRollingEma: the EMA over a window that slides. *)
(* The mean of the first period values is the seed; alpha = 2/(period+1)   *)
(* and beta = (period-1)/(period+1) weigh it and the tail behind it.       *)

EmaStart == [values |-> <<>>, seed |-> 0, tail |-> 0, value |-> None]

\* beta ** tail_length times x
TailDecay(x, period, window) ==
  (Power(period - 1, window - period) * x) \div Power(period + 1, window - period)

EmaCurrent(seed, tail, period, window) ==
  (Power(period - 1, window - period) * seed)
    \div (Power(period + 1, window - period) * period) + tail

\* _initialize(), when the window is full for the first time.
EmaFilled(values, period, window) ==
  LET seed == SumOf(SubSeq(values, 1, period))
      tail == SumOf([i \in 1 .. window - period |->
                (2 * Power(period - 1, window - period - i) * values[period + i])
                   \div Power(period + 1, window - period - i + 1)])
  IN [values |-> values, seed |-> seed, tail |-> tail,
      value |-> EmaCurrent(seed, tail, period, window)]

EmaSlid(ema, value, period, window) ==
  LET old_first == ema.values[1]
      old_tail_first == ema.values[period + 1]
      seed == IF window = period THEN ema.seed + value - old_first
              ELSE ema.seed + old_tail_first - old_first
      tail == IF window = period THEN ema.tail
              ELSE ((period - 1) * ema.tail
                     - 2 * TailDecay(old_tail_first, period, window) + 2 * value)
                     \div (period + 1)
  IN [values |-> Push(ema.values, value, window), seed |-> seed, tail |-> tail,
      value |-> EmaCurrent(seed, tail, period, window)]

EmaUpdate(ema, value, period, window) ==
  LET values == Push(ema.values, value, window) IN
  IF Len(ema.values) = window THEN EmaSlid(ema, value, period, window)
  ELSE IF Len(values) = window THEN EmaFilled(values, period, window)
  ELSE [ema EXCEPT !.values = values]

\* previous_in_window(): the EMA one candle earlier, over the same window,
\* recovered from the current one.
EmaPrevious(ema, last_value, period, window) ==
  IF ema.value = None \/ window = period THEN None
  ELSE ((period + 1) * ema.value - 2 * last_value) \div (period - 1)

----------------------------------------------------------------------------
(* RollingRsi and FastRollingRsi: one deque of changes and two sums.       *)

RsiStart == [previous |-> None, changes |-> <<>>, gain |-> 0, loss |-> 0, value |-> None]

RsiUpdate(rsi, value, period) ==
  IF rsi.previous = None THEN [rsi EXCEPT !.previous = value]
  ELSE LET change == value - rsi.previous
           removed == IF Len(rsi.changes) = period THEN Head(rsi.changes) ELSE 0
           gain == rsi.gain - Larger(removed, 0) + Larger(change, 0)
           loss == rsi.loss - Larger(-removed, 0) + Larger(-change, 0)
           changes == Push(rsi.changes, change, period)
       IN [previous |-> value, changes |-> changes, gain |-> gain, loss |-> loss,
           value |-> IF Len(changes) < period THEN None
                     ELSE [gain |-> gain \div period, loss |-> loss \div period]]

\* _DecimalRollingRsi and _update_rsi(): a deque of gains and one of losses.
GainLossStart ==
  [previous |-> None, gains |-> <<>>, losses |-> <<>>, gain |-> 0, loss |-> 0, value |-> None]

GainLossUpdate(rsi, value, period) ==
  IF rsi.previous = None THEN [rsi EXCEPT !.previous = value]
  ELSE LET up == Larger(value - rsi.previous, 0)
           down == Larger(rsi.previous - value, 0)
           full == Len(rsi.gains) = period
           gain == rsi.gain + up - (IF full THEN Head(rsi.gains) ELSE 0)
           loss == rsi.loss + down - (IF full THEN Head(rsi.losses) ELSE 0)
           gains == Push(rsi.gains, up, period)
       IN [previous |-> value, gains |-> gains, losses |-> Push(rsi.losses, down, period),
           gain |-> gain, loss |-> loss,
           value |-> IF Len(gains) < period THEN None
                     ELSE [gain |-> gain \div period, loss |-> loss \div period]]

----------------------------------------------------------------------------
(* Running sums: mean, Bollinger bands, ATR, momentum.                     *)

MeanStart == [values |-> <<>>, total |-> 0, value |-> None]

MeanUpdate(mean, value, period) ==
  LET values == Push(mean.values, value, period)
      total == mean.total + value
                 - (IF Len(mean.values) = period THEN Head(mean.values) ELSE 0)
  IN [values |-> values, total |-> total,
      value |-> IF Len(values) = period THEN total \div period ELSE None]

BollingerStart == [values |-> <<>>, total |-> 0, total_squared |-> 0, value |-> None]

BollingerUpdate(bands, value, period) ==
  LET removed == IF Len(bands.values) = period THEN Head(bands.values) ELSE 0
      total == bands.total - removed + value
      total_squared == bands.total_squared - removed * removed + value * value
      values == Push(bands.values, value, period)
      middle == total \div period
  IN [values |-> values, total |-> total, total_squared |-> total_squared,
      value |-> IF Len(values) < period THEN None
                ELSE [middle |-> middle,
                      variance |-> Larger(0, total_squared \div period - middle * middle)]]

AtrStart == [previous_close |-> None, ranges |-> <<>>, total |-> 0, value |-> None]

AtrUpdate(atr, candle, period) ==
  IF atr.previous_close = None THEN [atr EXCEPT !.previous_close = candle.close]
  ELSE LET range == TrueRange(atr.previous_close, candle)
           ranges == Push(atr.ranges, range, period)
           total == atr.total + range
                      - (IF Len(atr.ranges) = period THEN Head(atr.ranges) ELSE 0)
       IN [previous_close |-> candle.close, ranges |-> ranges, total |-> total,
           value |-> IF Len(ranges) = period THEN total \div period ELSE None]

MomentumStart == [values |-> <<>>, value |-> None]

MomentumUpdate(momentum, value, period) ==
  LET values == Push(momentum.values, value, period + 1)
  IN [values |-> values,
      value |-> IF Len(values) = period + 1 THEN value - Head(values) ELSE None]

----------------------------------------------------------------------------
(* Monotone deques of <<index, price>>: the front is the extreme of the    *)
(* window, an entry that a newer one dominates is popped from the back.    *)

\* (Mutated: what lies on the cutoff has left the window.)
PopFrontEarly(deque, cutoff) ==
  LET kept == SelectInSeq(deque, LAMBDA e : e[1] > cutoff)
  IN IF kept = 0 THEN <<>> ELSE SubSeq(deque, kept, Len(deque))

PopFront(deque, cutoff) ==
  LET kept == SelectInSeq(deque, LAMBDA e : e[1] >= cutoff)
  IN IF kept = 0 THEN <<>> ELSE SubSeq(deque, kept, Len(deque))

PopBack(deque, Dominated(_)) ==
  SubSeq(deque, 1, SelectLastInSeq(deque, LAMBDA e : ~Dominated(e[2])))

PushHigh(highs, index, high) == Append(PopBack(highs, LAMBDA x : x <= high), <<index, high>>)

PushLow(lows, index, low) == Append(PopBack(lows, LAMBDA x : x >= low), <<index, low>>)

RangeStart == [index |-> 0, highs |-> <<>>, lows |-> <<>>, value |-> None]

\* FastPriorRange: the range is read before the candle enters.
PriorRangeUpdate(range, candle, period) ==
  LET highs == PopFront(range.highs, range.index - period)
      lows == PopFront(range.lows, range.index - period)
  IN [index |-> range.index + 1,
      highs |-> PushHigh(highs, range.index, candle.high),
      lows |-> PushLow(lows, range.index, candle.low),
      value |-> IF range.index < period THEN None
                ELSE [high |-> Head(highs)[2], low |-> Head(lows)[2]]]

StochasticStart ==
  [index |-> 0, highs |-> <<>>, lows |-> <<>>, k_mean |-> MeanStart, d_mean |-> MeanStart,
   value |-> [k |-> None, d |-> None]]

\* _DecimalRollingStochastic and _update_stochastic(): the range includes
\* the candle, and feeds the mean of %K, which feeds that of %D.
StochasticUpdate(stochastic, candle, period, smooth_k, smooth_d) ==
  LET cutoff == stochastic.index - period + 1
      highs == PushHigh(PopFront(stochastic.highs, cutoff), stochastic.index, candle.high)
      lows == PushLow(PopFront(stochastic.lows, cutoff), stochastic.index, candle.low)
      raw == RawStochastic(candle.close, Head(lows)[2], Head(highs)[2])
      full == stochastic.index + 1 >= period
      k_mean == IF full THEN MeanUpdate(stochastic.k_mean, raw, smooth_k)
                ELSE stochastic.k_mean
      d_mean == IF full /\ k_mean.value # None
                THEN MeanUpdate(stochastic.d_mean, k_mean.value, smooth_d)
                ELSE stochastic.d_mean
  IN [index |-> stochastic.index + 1, highs |-> highs, lows |-> lows,
      k_mean |-> k_mean, d_mean |-> d_mean, value |-> [k |-> k_mean.value, d |-> d_mean.value]]

----------------------------------------------------------------------------

SpikeStart == [previous |-> <<>>, total |-> 0, value |-> FALSE]

\* _FastVolumeSpike: the volume against the mean of those before it; the
\* multiplier is in tenths.
SpikeUpdate(spike, volume, period, multiplier) ==
  LET full == Len(spike.previous) = period
      average == spike.total \div period
  IN [previous |-> Push(spike.previous, volume, period),
      total |-> spike.total + volume - (IF full THEN Head(spike.previous) ELSE 0),
      value |-> full /\ average > 0 /\ 10 * volume >= average * multiplier]
=============================================================================
