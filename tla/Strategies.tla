----------------------------- MODULE Strategies -----------------------------
(***************************************************************************)
(* The thirteen strategies of goldie_domain.strategies as evaluate()       *)
(* decides them, the reference: every indicator is computed anew from a    *)
(* window of candles (Reading, over Indicators) and a rule per strategy    *)
(* decides on the readings.  FastEvaluators is the second text, which      *)
(* decides candle by candle.                                               *)
(*                                                                         *)
(* Thresholds in points are taken times the point, as prices.  Reason      *)
(* codes keep what tells decisions apart; the strategy's own prefix, the   *)
(* recorded inputs and the diagnostic counters are left out.               *)
(***************************************************************************)
EXTENDS Indicators

NoTrade(reason) == [signal |-> "NO_TRADE", reason |-> reason]

Trade(signal) == [signal |-> signal, reason |-> "CONDITIONS_MET"]

Decide(buy, sell) ==
  IF buy THEN Trade("BUY") ELSE IF sell THEN Trade("SELL") ELSE NoTrade("CONDITIONS_NOT_MET")

\* trade_direction: the signal is found first and then withheld.
Directed(p, decision) ==
  IF decision.signal = "BUY" /\ p.trade_direction = "SELL_ONLY" THEN NoTrade("BUY_DISABLED")
  ELSE IF decision.signal = "SELL" /\ p.trade_direction = "BUY_ONLY" THEN NoTrade("SELL_DISABLED")
  ELSE decision

CrossedUp(p, r) ==
  p.require_crossover => r.fast_before <= r.slow_before /\ r.fast > r.slow

CrossedDown(p, r) ==
  p.require_crossover => r.fast_before >= r.slow_before /\ r.fast < r.slow

Emas(p) ==
  {"fast", "slow"} \cup (IF p.require_crossover THEN {"fast_before", "slow_before"} ELSE {})

Volatile(p, r) == p.min_atr <= r.atr /\ r.atr <= p.max_atr

\* require_touch_band: the extreme of the candle instead of its close.
BuyPrice(p, c) == IF p.require_touch_band THEN c.low ELSE c.close

SellPrice(p, c) == IF p.require_touch_band THEN c.high ELSE c.close

----------------------------------------------------------------------------
(* Per strategy: the candles it needs and the parts it reads off them;     *)
(* then its rule over the readings r of a candle c.                        *)

\* lookback_candles is called momentum_period here, as in the other strategies.
BasicMomentum(p) == [candles |-> p.momentum_period + 1, parts |-> {"momentum"}]

BasicMomentumRule(p, r, c) == Decide(r.momentum >= p.min_momentum, r.momentum <= -p.min_momentum)

EmaRsi(p) ==
  [candles |-> Max({p.slow_ema_period + (IF p.require_crossover THEN 1 ELSE 0), p.rsi_period + 1}),
   parts |-> Emas(p) \cup {"rsi"}]

EmaRsiRule(p, r, c) ==
  LET trend == r.fast - r.slow IN
  Decide(trend >= p.min_trend /\ RsiAtMost(r.rsi, p.buy_rsi_max) /\ CrossedUp(p, r),
         trend <= -p.min_trend /\ RsiAtLeast(r.rsi, p.sell_rsi_min) /\ CrossedDown(p, r))

EmaAtrTrend(p) ==
  [candles |-> Max({p.slow_ema_period + (IF p.require_crossover THEN 1 ELSE 0), p.atr_period + 1}),
   parts |-> Emas(p) \cup {"atr"}]

EmaAtrTrendRule(p, r, c) ==
  LET trend == r.fast - r.slow IN
  Decide(Volatile(p, r) /\ trend >= p.min_trend /\ CrossedUp(p, r),
         Volatile(p, r) /\ trend <= -p.min_trend /\ CrossedDown(p, r))

EmaMomentum(p) ==
  [candles |-> Max({p.slow_ema_period, p.momentum_period + 1, p.atr_period + 1}),
   parts |-> {"fast", "medium", "slow", "momentum", "atr"}]

EmaMomentumRule(p, r, c) ==
  Decide(/\ r.atr >= p.min_atr
         /\ r.fast > r.medium /\ r.medium > r.slow /\ r.momentum >= p.min_momentum,
         /\ r.atr >= p.min_atr
         /\ r.fast < r.medium /\ r.medium < r.slow /\ r.momentum <= -p.min_momentum)

RangeBreak(p) ==
  [candles |-> Max({p.slow_ema_period, p.rsi_period + 1, p.range_lookback + 1}),
   parts |-> {"fast", "slow", "rsi", "prior_range"}]

RangeBreakRule(p, r, c) ==
  Decide(/\ c.close >= r.prior_range.high + p.min_breakout
         /\ r.fast > r.slow /\ RsiAtLeast(r.rsi, p.buy_rsi_min),
         /\ c.close <= r.prior_range.low - p.min_breakout
         /\ r.fast < r.slow /\ RsiAtMost(r.rsi, p.sell_rsi_max))

BollingerMomentum(p) ==
  [candles |-> Max({p.bollinger_period, p.momentum_period + 1, p.atr_period + 1}),
   parts |-> {"bands", "momentum", "atr"}]

BollingerMomentumRule(p, r, c) ==
  LET Beyond(distance) == r.atr >= p.min_atr /\ Exceeds(distance, p.deviations, r.bands) IN
  Decide(Beyond(Above(c.close, r.bands)) /\ r.momentum >= p.min_momentum,
         Beyond(Below(c.close, r.bands)) /\ r.momentum <= -p.min_momentum)

\* The ATR only sizes a recommended stop; it still counts for the candles needed.
BollingerRsi(p) ==
  [candles |-> Max({p.bollinger_period, p.rsi_period + 1, p.atr_period + 1}),
   parts |-> {"bands", "rsi"}]

BollingerRsiRule(p, r, c) ==
  LET buy == /\ Reaches(Below(BuyPrice(p, c), r.bands), p.deviations, r.bands)
             /\ RsiAtMost(r.rsi, p.buy_rsi_max)
      sell == /\ Reaches(Above(SellPrice(p, c), r.bands), p.deviations, r.bands)
              /\ RsiAtLeast(r.rsi, p.sell_rsi_min)
  IN IF buy /\ p.trade_direction \in {"BOTH", "BUY_ONLY"} THEN Trade("BUY")
     ELSE IF sell /\ p.trade_direction \in {"BOTH", "SELL_ONLY"} THEN Trade("SELL")
     ELSE NoTrade(IF buy \/ sell THEN "DIRECTION_FILTERED" ELSE "CONDITIONS_NOT_MET")

BollingerEmaRsi(p) ==
  [candles |-> Max({p.bollinger_period, p.rsi_period + 1, p.atr_period + 1, p.slow_ema_period}),
   parts |-> {"bands", "rsi", "fast", "slow"}]

BollingerEmaRsiRule(p, r, c) ==
  LET weak == Absolute(r.fast - r.slow) <= p.max_trend IN
  Decide(/\ weak
         /\ Reaches(Below(BuyPrice(p, c), r.bands), p.deviations, r.bands)
         /\ RsiAtMost(r.rsi, p.buy_rsi_max),
         /\ weak
         /\ Reaches(Above(SellPrice(p, c), r.bands), p.deviations, r.bands)
         /\ RsiAtLeast(r.rsi, p.sell_rsi_min))

FailedRangeBreak(p) ==
  [candles |-> Max({p.range_lookback + 1, p.rsi_period + 1, p.atr_period + 1, p.slow_ema_period}),
   parts |-> {"prior_range", "rsi", "atr", "fast", "slow"}]

FailedRangeBreakRule(p, r, c) ==
  LET regime == /\ Volatile(p, r)
                /\ p.use_ema_flat_filter => Absolute(r.fast - r.slow) <= p.max_trend
  IN Decide(/\ regime
            /\ c.low <= r.prior_range.low - p.fakeout          \* downside sweep
            /\ c.close >= r.prior_range.low + p.reclaim
            /\ RsiAtMost(r.rsi, p.buy_rsi_max),
            /\ regime
            /\ c.high >= r.prior_range.high + p.fakeout        \* upside sweep
            /\ c.close <= r.prior_range.high - p.reclaim
            /\ RsiAtLeast(r.rsi, p.sell_rsi_min))

Squeeze(p) ==
  [candles |-> Max({p.bollinger_period + p.squeeze_lookback, p.momentum_period + 1,
                    p.atr_period + 1}),
   parts |-> {"bands", "widths", "momentum", "atr"}]

\* r.widths: the variances behind the band widths of the candles before c.
\* A width is 2 deviations (in tenths) standard deviations.
SqueezeRule(p, r, c) ==
  LET prior == Last(r.widths)
      squeezed == /\ p.deviations * p.deviations * prior
                       <= 25 * p.max_squeeze_width * p.max_squeeze_width
                  /\ PercentileRank(prior, r.widths) <= p.squeeze_percentile
      Beyond(distance) == /\ squeezed /\ Volatile(p, r)
                          /\ Reaches(distance - p.breakout, p.deviations, r.bands)
  IN Directed(p, Decide(Beyond(Above(c.close, r.bands)) /\ r.momentum >= p.min_momentum,
                        Beyond(Below(c.close, r.bands)) /\ r.momentum <= -p.min_momentum))

Pullback(p) ==
  [candles |-> Max({p.slow_ema_period, p.atr_period + 1, p.rsi_period + 1,
                    p.pullback_lookback + 1}),
   parts |-> {"fast", "medium", "slow", "atr", "rsi", "touches", "candle_before"}]

TouchedZone(c, fast, medium, tolerance) ==
  \E ema \in {fast, medium} : c.low <= ema + tolerance /\ c.high >= ema - tolerance

ReclaimedForBuy(p, r, c) ==
  c.close >= CASE p.reclaim_mode = "FAST_EMA" -> r.fast
               [] p.reclaim_mode = "MEDIUM_EMA" -> r.medium
               [] p.reclaim_mode = "CLOSE_ABOVE_PREVIOUS_HIGH" -> r.candle_before.high + 1

ReclaimedForSell(p, r, c) ==
  c.close <= CASE p.reclaim_mode = "FAST_EMA" -> r.fast
               [] p.reclaim_mode = "MEDIUM_EMA" -> r.medium
               [] p.reclaim_mode = "CLOSE_ABOVE_PREVIOUS_HIGH" -> r.candle_before.low - 1

PullbackRule(p, r, c) ==
  LET regime == Volatile(p, r) /\ Absolute(r.fast - r.slow) >= p.min_trend
      pullback == \E i \in DOMAIN r.touches : r.touches[i]
      Within(low, high) == RsiAtLeast(r.rsi, low) /\ RsiAtMost(r.rsi, high)
  IN Decide(/\ regime /\ pullback
            /\ r.fast > r.medium /\ r.medium > r.slow
            /\ ReclaimedForBuy(p, r, c)
            /\ Within(p.buy_rsi_min, p.buy_rsi_max)
            /\ p.require_reversal_candle => c.close > c.open,
            /\ regime /\ pullback
            /\ r.fast < r.medium /\ r.medium < r.slow
            /\ ReclaimedForSell(p, r, c)
            /\ Within(p.sell_rsi_min, p.sell_rsi_max)
            /\ p.require_reversal_candle => c.close < c.open)

Pine(p) ==
  [candles |-> Max({p.bollinger_period + 1, p.rsi_period + 1,
                    p.stochastic_period + p.smooth_k + p.smooth_d - 1}),
   parts |-> {"bands", "bands_before", "gain_loss", "stochastic", "stochastic_before",
              "candle_before"}]

\* _decision(), which both ways call.
PineDecision(p, r, c) ==
  LET k == r.stochastic.k
      d == r.stochastic.d
      k_before == r.stochastic_before.k
      d_before == r.stochastic_before.d
      top == /\ ~Exceeds(Above(r.candle_before.close, r.bands_before), p.deviations, r.bands_before)
             /\ Exceeds(Above(c.close, r.bands), p.deviations, r.bands)
             /\ \/ ~RsiAtMost(r.gain_loss, p.rsi_overbought)
                \/ k_before >= d_before /\ k < d /\ k > p.stochastic_overbought
      \* opens at the bottom, closes at the top
      bottom == /\ ~Exceeds(Below(r.candle_before.open, r.bands_before), p.deviations,
                            r.bands_before)
                /\ Exceeds(Below(c.open, r.bands), p.deviations, r.bands)
                /\ \/ ~RsiAtLeast(r.gain_loss, p.rsi_oversold)
                   \/ k_before <= d_before /\ k > d /\ k < p.stochastic_oversold
  IN Directed(p, Decide(bottom, top))

\* evaluate() asserts that there are bands and an RSI and takes %K and %D by
\* index, so it has no answer for a reading that is None.
PineRule(p, r, c) == PineDecision(p, r, c)

Fvg(p) ==
  [candles |-> Max({p.sma_period, p.volume_profile_lookback, p.volume_spike_period + 1,
                    p.fvg_lookback + 2}),
   parts |-> {"mean", "spike", "candles"}]

\* The newest gap between a candle and the one two before it, the newest
\* candle itself left out.
LatestFvg(candles, lookback) ==
  LET first == Larger(2, Len(candles) - 1 - lookback)       \* counted from 0, as in the code
      Left(i) == candles[i - 1]
      Right(i) == candles[i + 1]
      gaps == {i \in first .. Len(candles) - 2 :
                 Left(i).high < Right(i).low \/ Left(i).low > Right(i).high}
      i == Max(gaps)
  IN IF gaps = {} THEN None
     ELSE IF Left(i).high < Right(i).low
     THEN [direction |-> "BUY", lower |-> Left(i).high, upper |-> Right(i).low]
     ELSE [direction |-> "SELL", lower |-> Right(i).high, upper |-> Left(i).low]

\* Whether a price lies within tolerance of a bin of the volume profile that
\* holds at least 0.7 of the volume of the fullest.
NearProfile(candles, bins, close, tolerance) ==
  LET low == Min({candles[i].low : i \in DOMAIN candles})
      width == Max({candles[i].high : i \in DOMAIN candles}) - low
      Bin(price) == Min({bins - 1, ((price - low) * bins) \div width})
      Share(c, bin) == IF bin \in Bin(c.low) .. Bin(c.high)
                       THEN c.tick_volume \div (Bin(c.high) - Bin(c.low) + 1) ELSE 0
      Volume(bin) == SumOf([i \in DOMAIN candles |-> Share(candles[i], bin)])
      fullest == Max({Volume(bin) : bin \in 0 .. bins - 1})
  IN /\ width > 0 /\ fullest > 0
     /\ \E bin \in 0 .. bins - 1 :
          /\ 10 * Volume(bin) >= 7 * fullest
          /\ Absolute(2 * bins * (close - low) - width * (2 * bin + 1)) <= 2 * bins * tolerance

FvgRule(p, r, c) ==
  LET zone == LatestFvg(r.candles, p.fvg_lookback)
      near == NearProfile(Newest(r.candles, p.volume_profile_lookback),
                          p.volume_profile_bins, c.close, p.poc_tolerance)
      confirmed == r.spike \/ (~p.require_volume_spike /\ near)
  IN IF zone = None \/ r.mean = None THEN NoTrade("CONDITIONS_NOT_MET")
     ELSE LET touched == c.low <= zone.upper /\ c.high >= zone.lower
          IN Directed(p, Decide(touched /\ zone.direction = "BUY" /\ c.close > r.mean /\ confirmed,
                                touched /\ zone.direction = "SELL" /\ c.close < r.mean /\ confirmed))

----------------------------------------------------------------------------
(* The registry.                                                           *)

Needs(strategy, p) ==
  CASE strategy = "basic_momentum" -> BasicMomentum(p)
    [] strategy = "ema_rsi" -> EmaRsi(p)
    [] strategy = "ema_atr_trend" -> EmaAtrTrend(p)
    [] strategy = "ema_momentum_breakout" -> EmaMomentum(p)
    [] strategy = "range_break_scalper" -> RangeBreak(p)
    [] strategy = "bb_momentum_breakout" -> BollingerMomentum(p)
    [] strategy = "bb_rsi_mean_reversion" -> BollingerRsi(p)
    [] strategy = "bb_ema_rsi_mean_reversion" -> BollingerEmaRsi(p)
    [] strategy = "failed_range_break_reversal" -> FailedRangeBreak(p)
    [] strategy = "bb_squeeze_breakout" -> Squeeze(p)
    [] strategy = "ema_atr_pullback_continuation" -> Pullback(p)
    [] strategy = "pine_bb_rsi_stoch" -> Pine(p)
    [] strategy = "fvg_ma_volume_profile" -> Fvg(p)

Rule(strategy, p, r, c) ==
  CASE strategy = "basic_momentum" -> BasicMomentumRule(p, r, c)
    [] strategy = "ema_rsi" -> EmaRsiRule(p, r, c)
    [] strategy = "ema_atr_trend" -> EmaAtrTrendRule(p, r, c)
    [] strategy = "ema_momentum_breakout" -> EmaMomentumRule(p, r, c)
    [] strategy = "range_break_scalper" -> RangeBreakRule(p, r, c)
    [] strategy = "bb_momentum_breakout" -> BollingerMomentumRule(p, r, c)
    [] strategy = "bb_rsi_mean_reversion" -> BollingerRsiRule(p, r, c)
    [] strategy = "bb_ema_rsi_mean_reversion" -> BollingerEmaRsiRule(p, r, c)
    [] strategy = "failed_range_break_reversal" -> FailedRangeBreakRule(p, r, c)
    [] strategy = "bb_squeeze_breakout" -> SqueezeRule(p, r, c)
    [] strategy = "ema_atr_pullback_continuation" -> PullbackRule(p, r, c)
    [] strategy = "pine_bb_rsi_stoch" -> PineRule(p, r, c)
    [] strategy = "fvg_ma_volume_profile" -> FvgRule(p, r, c)

\* The strategies there are.
Registered ==
  {"basic_momentum", "ema_rsi", "ema_atr_trend", "ema_momentum_breakout", "range_break_scalper",
   "bb_momentum_breakout", "bb_rsi_mean_reversion", "bb_ema_rsi_mean_reversion",
   "failed_range_break_reversal", "bb_squeeze_breakout", "ema_atr_pullback_continuation",
   "pine_bb_rsi_stoch", "fvg_ma_volume_profile"}

\* The periods of a strategy, none of which its configuration schema lets be
\* less than one.
Periods(strategy, p) ==
  CASE strategy = "basic_momentum" -> {p.momentum_period}
    [] strategy = "ema_rsi" -> {p.fast_ema_period, p.slow_ema_period, p.rsi_period}
    [] strategy = "ema_atr_trend" -> {p.fast_ema_period, p.slow_ema_period, p.atr_period}
    [] strategy = "ema_momentum_breakout" ->
         {p.fast_ema_period, p.medium_ema_period, p.slow_ema_period, p.momentum_period, p.atr_period}
    [] strategy = "range_break_scalper" ->
         {p.fast_ema_period, p.slow_ema_period, p.rsi_period, p.range_lookback}
    [] strategy = "bb_momentum_breakout" -> {p.bollinger_period, p.momentum_period, p.atr_period}
    [] strategy = "bb_rsi_mean_reversion" -> {p.bollinger_period, p.rsi_period, p.atr_period}
    [] strategy = "bb_ema_rsi_mean_reversion" ->
         {p.bollinger_period, p.rsi_period, p.atr_period, p.fast_ema_period, p.slow_ema_period}
    [] strategy = "failed_range_break_reversal" ->
         {p.range_lookback, p.rsi_period, p.atr_period, p.fast_ema_period, p.slow_ema_period}
    [] strategy = "bb_squeeze_breakout" ->
         {p.bollinger_period, p.squeeze_lookback, p.momentum_period, p.atr_period}
    [] strategy = "ema_atr_pullback_continuation" ->
         {p.fast_ema_period, p.medium_ema_period, p.slow_ema_period, p.atr_period, p.rsi_period,
          p.pullback_lookback}
    [] strategy = "pine_bb_rsi_stoch" ->
         {p.bollinger_period, p.rsi_period, p.stochastic_period, p.smooth_k, p.smooth_d}
    [] strategy = "fvg_ma_volume_profile" ->
         {p.fvg_lookback, p.sma_period, p.volume_profile_lookback, p.volume_spike_period}

EmaPeriod(p, part) ==
  CASE part = "fast" -> p.fast_ema_period
    [] part = "medium" -> p.medium_ema_period
    [] part = "slow" -> p.slow_ema_period

----------------------------------------------------------------------------
(* The reference reading of a part, from the window of candles.            *)

\* The candles of the lookback whose EMAs exist, and whether they touched
\* the zone of the EMAs as they stood at that candle.
TouchesIn(window, p) ==
  LET fast == EmaSeries(Closes(window), p.fast_ema_period)
      medium == EmaSeries(Closes(window), p.medium_ema_period)
      back == [i \in 1 .. p.pullback_lookback |-> p.pullback_lookback - i]
      Touched(b) == TouchedZone(window[Len(window) - b], FromEnd(fast, b), FromEnd(medium, b),
                                p.pullback_tolerance)
  IN [i \in DOMAIN back |-> /\ FromEnd(fast, back[i]) # None
                            /\ FromEnd(medium, back[i]) # None
                            /\ Touched(back[i])]

\* The band widths of the squeeze_lookback candles before the newest.
WidthsIn(window, p) ==
  [i \in 1 .. p.squeeze_lookback |->
     BollingerBands(Closes(SubSeq(window, 1, Len(window) - p.squeeze_lookback + i - 1)),
                    p.bollinger_period).variance]

\* _volume_spike(): the newest volume against the mean of those before it.
SpikeIn(window, p) ==
  LET volumes == [i \in DOMAIN window |-> window[i].tick_volume]
      baseline == Sma(Front(volumes), p.volume_spike_period)
  IN baseline > 0 /\ 10 * Last(volumes) >= baseline * p.volume_spike_multiplier

Reading(part, window, p) ==
  LET closes == Closes(window)
      Ema(name, back) == FromEnd(EmaSeries(closes, EmaPeriod(p, name)), back)
      KD(back) == LET kd == StochasticKD(window, p.stochastic_period, p.smooth_k, p.smooth_d)
                  IN [k |-> FromEnd(kd.k, back), d |-> FromEnd(kd.d, back)]
  IN CASE part \in {"fast", "medium", "slow"} -> Ema(part, 0)
       [] part = "fast_before" -> Ema("fast", 1)
       [] part = "slow_before" -> Ema("slow", 1)
       [] part \in {"rsi", "gain_loss"} -> Rsi(closes, p.rsi_period)
       [] part = "atr" -> Atr(window, p.atr_period)
       [] part = "momentum" -> Momentum(closes, p.momentum_period)
       [] part = "prior_range" -> PriorRange(window, p.range_lookback)
       [] part = "bands" -> BollingerBands(closes, p.bollinger_period)
       [] part = "bands_before" -> BollingerBands(Front(closes), p.bollinger_period)
       [] part = "stochastic" -> KD(0)
       [] part = "stochastic_before" -> KD(1)
       [] part = "candle_before" -> window[Len(window) - 1]
       [] part = "touches" -> TouchesIn(window, p)
       [] part = "widths" -> WidthsIn(window, p)
       [] part = "mean" -> Sma(closes, p.sma_period)
       [] part = "spike" -> SpikeIn(window, p)
       [] part = "candles" -> window

----------------------------------------------------------------------------
(* A decision: the candle is rejected outside the session, then enough     *)
(* candles are waited for, then the rule is applied.                       *)

Guarded(c, count, needs, decision) ==
  IF ~c.in_session THEN NoTrade("OUTSIDE_TRADING_SESSION")
  ELSE IF count < needs.candles THEN NoTrade("INSUFFICIENT_COMPLETED_CANDLES")
  ELSE decision

\* Strategy.evaluate() on the window of the candles needed.
ReferenceDecision(strategy, p, window) ==
  LET needs == Needs(strategy, p)
      c == Last(window)
  IN Guarded(c, Len(window), needs,
             Rule(strategy, p, [part \in needs.parts |-> Reading(part, window, p)], c))
=============================================================================
