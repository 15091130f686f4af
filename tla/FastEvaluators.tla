--------------------------- MODULE FastEvaluators ---------------------------
(***************************************************************************)
(* The fast evaluators of the strategies, as create_fast_backtest_evaluator*)
(* makes them: rolling structures, one per part (RollingIndicators), that  *)
(* every candle updates, and a second text of each strategy's conditions   *)
(* over what they say (Fast...Rule).  basic_momentum has no fast form; the *)
(* engine falls back to its incremental one, which stands here.            *)
(*                                                                         *)
(* The rules are written from the text of the fast forms and share with    *)
(* those of Strategies what the code shares (_decision() of                *)
(* pine_bb_rsi_stoch) and the terms that are one line in both texts: a     *)
(* distance from a band, an RSI against a level, the newest gap, the       *)
(* volume profile, whether a candle touched the zone of the EMAs.          *)
(***************************************************************************)
EXTENDS Strategies, RollingIndicators

NotMet == NoTrade("CONDITIONS_NOT_MET")

----------------------------------------------------------------------------
(* The incremental evaluator: a bank of structures, one per part, each     *)
(* with the reading of the last candle in its field "value".               *)

Fresh(part) ==
  CASE part \in {"fast", "medium", "slow"} -> EmaStart
    [] part = "rsi" -> RsiStart
    [] part = "gain_loss" -> GainLossStart
    [] part = "atr" -> AtrStart
    [] part = "momentum" -> MomentumStart
    [] part = "prior_range" -> RangeStart
    [] part = "bands" -> BollingerStart
    [] part = "stochastic" -> StochasticStart
    [] part = "mean" -> MeanStart
    [] part = "spike" -> SpikeStart
    [] part \in {"touches", "candles"} -> [value |-> <<>>]
    [] part = "widths" -> [deque |-> <<>>, value |-> <<>>]
    [] part = "candle_before" -> [latest |-> None, value |-> None]
    [] part \in {"fast_before", "slow_before", "bands_before", "stochastic_before"} ->
         [value |-> None]

FreshBank(needs) == [part \in needs.parts |-> Fresh(part)]

\* A touch counts from the first candle with both EMAs on, against the EMAs
\* of that candle's own window.
TouchesUpdate(touches, c, fast, medium, p) ==
  IF None \in {fast, medium} THEN touches
  ELSE [value |-> Push(touches.value, TouchedZone(c, fast, medium, p.pullback_tolerance),
                       p.pullback_lookback)]

\* The width of this candle enters after the decision, so that the reading is
\* of the candles before it.
WidthsUpdate(widths, bands, p) ==
  [deque |-> IF bands = None THEN widths.deque
             ELSE Push(widths.deque, bands.variance, p.squeeze_lookback),
   value |-> widths.deque]

\* Every structure after candle c; the ones that derive from others take the
\* others' new values, the "before" ones what they were.
Updated(bank, c, p, needs) ==
  LET window == needs.candles
      Ema(part) == EmaUpdate(bank[part], c.close, EmaPeriod(p, part), window)
      EmaBefore(part) == EmaPrevious(Ema(part), c.close, EmaPeriod(p, part), window)
      bands == BollingerUpdate(bank.bands, c.close, p.bollinger_period)
  IN [part \in needs.parts |->
        CASE part \in {"fast", "medium", "slow"} -> Ema(part)
          [] part = "fast_before" -> [value |-> EmaBefore("fast")]
          [] part = "slow_before" -> [value |-> EmaBefore("slow")]
          [] part = "rsi" -> RsiUpdate(bank.rsi, c.close, p.rsi_period)
          [] part = "gain_loss" -> GainLossUpdate(bank.gain_loss, c.close, p.rsi_period)
          [] part = "atr" -> AtrUpdate(bank.atr, c, p.atr_period)
          [] part = "momentum" -> MomentumUpdate(bank.momentum, c.close, p.momentum_period)
          [] part = "prior_range" -> PriorRangeUpdate(bank.prior_range, c, p.range_lookback)
          [] part = "bands" -> bands
          [] part = "bands_before" -> [value |-> bank.bands.value]
          [] part = "stochastic" -> StochasticUpdate(bank.stochastic, c, p.stochastic_period,
                                                     p.smooth_k, p.smooth_d)
          [] part = "stochastic_before" -> [value |-> bank.stochastic.value]
          [] part = "candle_before" -> [latest |-> c, value |-> bank.candle_before.latest]
          [] part = "touches" -> TouchesUpdate(bank.touches, c, Ema("fast").value,
                                               Ema("medium").value, p)
          [] part = "widths" -> WidthsUpdate(bank.widths, bands.value, p)
          [] part = "mean" -> MeanUpdate(bank.mean, c.close, p.sma_period)
          [] part = "spike" -> SpikeUpdate(bank.spike, c.tick_volume, p.volume_spike_period,
                                           p.volume_spike_multiplier)
          [] part = "candles" ->
               [value |-> Push(bank.candles.value, c,
                               Larger(p.volume_profile_lookback, p.fvg_lookback + 3))]]

----------------------------------------------------------------------------
(* The second text of every strategy, over what its structures say of      *)
(* candle c.                                                               *)

FastBasicMomentumRule(p, r, c) ==
  IF r.momentum >= p.min_momentum THEN Trade("BUY")
  ELSE IF r.momentum <= -p.min_momentum THEN Trade("SELL")
  ELSE NotMet

FastEmaRsiRule(p, r, c) ==
  LET up == p.require_crossover => r.fast_before <= r.slow_before /\ r.fast > r.slow
      down == p.require_crossover => r.fast_before >= r.slow_before /\ r.fast < r.slow
  IN Decide(r.fast - r.slow >= p.min_trend /\ RsiAtMost(r.rsi, p.buy_rsi_max) /\ up,
            r.fast - r.slow <= -p.min_trend /\ RsiAtLeast(r.rsi, p.sell_rsi_min) /\ down)

FastEmaAtrTrendRule(p, r, c) ==
  LET up == p.require_crossover => r.fast_before <= r.slow_before /\ r.fast > r.slow
      down == p.require_crossover => r.fast_before >= r.slow_before /\ r.fast < r.slow
      volatile == p.min_atr <= r.atr /\ r.atr <= p.max_atr
  IN Decide(volatile /\ r.fast - r.slow >= p.min_trend /\ up,
            volatile /\ r.fast - r.slow <= -p.min_trend /\ down)

FastEmaMomentumRule(p, r, c) ==
  IF r.atr >= p.min_atr
  THEN Decide(r.fast > r.medium /\ r.medium > r.slow /\ r.momentum >= p.min_momentum,
              r.fast < r.medium /\ r.medium < r.slow /\ r.momentum <= -p.min_momentum)
  ELSE NotMet

FastRangeBreakRule(p, r, c) ==
  Decide(/\ c.close >= r.prior_range.high + p.min_breakout
         /\ r.fast > r.slow /\ RsiAtLeast(r.rsi, p.buy_rsi_min),
         /\ c.close <= r.prior_range.low - p.min_breakout
         /\ r.fast < r.slow /\ RsiAtMost(r.rsi, p.sell_rsi_max))

FastBollingerMomentumRule(p, r, c) ==
  IF r.atr >= p.min_atr
  THEN Decide(/\ Exceeds(Above(c.close, r.bands), p.deviations, r.bands)
              /\ r.momentum >= p.min_momentum,
              /\ Exceeds(Below(c.close, r.bands), p.deviations, r.bands)
              /\ r.momentum <= -p.min_momentum)
  ELSE NotMet

\* (Mutated: the direction filters before there is a signal, and its reason
\* is lost.)
FastBollingerRsiFiltered(p, r, c) ==
  Decide(/\ p.trade_direction # "SELL_ONLY"
         /\ Reaches(Below(BuyPrice(p, c), r.bands), p.deviations, r.bands)
         /\ RsiAtMost(r.rsi, p.buy_rsi_max),
         /\ p.trade_direction # "BUY_ONLY"
         /\ Reaches(Above(SellPrice(p, c), r.bands), p.deviations, r.bands)
         /\ RsiAtLeast(r.rsi, p.sell_rsi_min))

FastBollingerRsiRule(p, r, c) ==
  LET allow_buy == p.trade_direction \in {"BOTH", "BUY_ONLY"}
      allow_sell == p.trade_direction \in {"BOTH", "SELL_ONLY"}
      buy == /\ Reaches(Below(BuyPrice(p, c), r.bands), p.deviations, r.bands)
             /\ RsiAtMost(r.rsi, p.buy_rsi_max)
      sell == /\ Reaches(Above(SellPrice(p, c), r.bands), p.deviations, r.bands)
              /\ RsiAtLeast(r.rsi, p.sell_rsi_min)
  IN IF buy /\ allow_buy THEN Trade("BUY")
     ELSE IF sell /\ allow_sell THEN Trade("SELL")
     ELSE IF buy \/ sell THEN NoTrade("DIRECTION_FILTERED")
     ELSE NotMet

FastBollingerEmaRsiRule(p, r, c) ==
  IF Absolute(r.fast - r.slow) <= p.max_trend
  THEN Decide(/\ Reaches(Below(BuyPrice(p, c), r.bands), p.deviations, r.bands)
              /\ RsiAtMost(r.rsi, p.buy_rsi_max),
              /\ Reaches(Above(SellPrice(p, c), r.bands), p.deviations, r.bands)
              /\ RsiAtLeast(r.rsi, p.sell_rsi_min))
  ELSE NotMet

\* The regime is part of being ready and is asked for once more.
FastFailedRangeBreakRule(p, r, c) ==
  LET volatile == p.min_atr <= r.atr /\ r.atr <= p.max_atr
      trend == ~p.use_ema_flat_filter \/ Absolute(r.fast - r.slow) <= p.max_trend
      buy_ready == /\ volatile /\ trend
                   /\ c.low <= r.prior_range.low - p.fakeout
                   /\ c.close >= r.prior_range.low + p.reclaim
                   /\ RsiAtMost(r.rsi, p.buy_rsi_max)
      sell_ready == /\ volatile /\ trend
                    /\ c.high >= r.prior_range.high + p.fakeout
                    /\ c.close <= r.prior_range.high - p.reclaim
                    /\ RsiAtLeast(r.rsi, p.sell_rsi_min)
  IN IF volatile /\ trend THEN Decide(buy_ready, sell_ready) ELSE NotMet

FastSqueezeRule(p, r, c) ==
  LET prior == Last(r.widths)
      squeezed == /\ p.deviations * p.deviations * prior
                       <= 25 * p.max_squeeze_width * p.max_squeeze_width
                  /\ PercentileRank(prior, r.widths) <= p.squeeze_percentile
      volatile == p.min_atr <= r.atr /\ r.atr <= p.max_atr
  IN IF ~(squeezed /\ volatile) THEN NotMet
     ELSE IF /\ Reaches(Above(c.close, r.bands) - p.breakout, p.deviations, r.bands)
             /\ r.momentum >= p.min_momentum
     THEN IF p.trade_direction = "SELL_ONLY" THEN NoTrade("BUY_DISABLED") ELSE Trade("BUY")
     ELSE IF /\ Reaches(Below(c.close, r.bands) - p.breakout, p.deviations, r.bands)
             /\ r.momentum <= -p.min_momentum
     THEN IF p.trade_direction = "BUY_ONLY" THEN NoTrade("SELL_DISABLED") ELSE Trade("SELL")
     ELSE NotMet

\* There may be no candle before; evaluate() has one whenever it gets here.
FastReclaimedForBuy(p, r, c) ==
  CASE p.reclaim_mode = "FAST_EMA" -> c.close >= r.fast
    [] p.reclaim_mode = "MEDIUM_EMA" -> c.close >= r.medium
    [] p.reclaim_mode = "CLOSE_ABOVE_PREVIOUS_HIGH" ->
         r.candle_before # None /\ c.close > r.candle_before.high

FastReclaimedForSell(p, r, c) ==
  CASE p.reclaim_mode = "FAST_EMA" -> c.close <= r.fast
    [] p.reclaim_mode = "MEDIUM_EMA" -> c.close <= r.medium
    [] p.reclaim_mode = "CLOSE_ABOVE_PREVIOUS_HIGH" ->
         r.candle_before # None /\ c.close < r.candle_before.low

FastPullbackRule(p, r, c) ==
  LET volatile == p.min_atr <= r.atr /\ r.atr <= p.max_atr
      trend == Absolute(r.fast - r.slow) >= p.min_trend
      touched == \E i \in DOMAIN r.touches : r.touches[i]
      buy_ready == /\ volatile /\ trend /\ touched
                   /\ r.fast > r.medium /\ r.medium > r.slow
                   /\ FastReclaimedForBuy(p, r, c)
                   /\ RsiAtLeast(r.rsi, p.buy_rsi_min) /\ RsiAtMost(r.rsi, p.buy_rsi_max)
                   /\ ~p.require_reversal_candle \/ c.close > c.open
      sell_ready == /\ volatile /\ trend /\ touched
                    /\ r.fast < r.medium /\ r.medium < r.slow
                    /\ FastReclaimedForSell(p, r, c)
                    /\ RsiAtLeast(r.rsi, p.sell_rsi_min) /\ RsiAtMost(r.rsi, p.sell_rsi_max)
                    /\ ~p.require_reversal_candle \/ c.close < c.open
  IN IF volatile /\ trend THEN Decide(buy_ready, sell_ready) ELSE NotMet

FastPineRule(p, r, c) ==
  IF \/ None \in {r.bands, r.bands_before} \/ r.gain_loss = None
     \/ None \in {r.stochastic.k, r.stochastic.d, r.stochastic_before.k, r.stochastic_before.d}
  THEN NotMet
  ELSE PineDecision(p, r, c)

\* The volume profile is asked only where the volume does not decide.
FastFvgRule(p, r, c) ==
  LET zone == LatestFvg(r.candles, p.fvg_lookback)
      buys == zone.direction = "BUY"
      confirmed == \/ r.spike
                   \/ /\ ~p.require_volume_spike
                      /\ NearProfile(Newest(r.candles, p.volume_profile_lookback),
                                     p.volume_profile_bins, c.close, p.poc_tolerance)
  IN IF r.mean = None \/ zone = None THEN NotMet
     ELSE IF ~(c.low <= zone.upper /\ c.high >= zone.lower) THEN NotMet
     ELSE IF ~(IF buys THEN c.close > r.mean ELSE c.close < r.mean) THEN NotMet
     ELSE IF ~confirmed THEN NotMet
     ELSE IF p.trade_direction = (IF buys THEN "SELL_ONLY" ELSE "BUY_ONLY")
     THEN NoTrade(IF buys THEN "BUY_DISABLED" ELSE "SELL_DISABLED")
     ELSE Trade(IF buys THEN "BUY" ELSE "SELL")

FastRule(strategy, p, r, c) ==
  CASE strategy = "basic_momentum" -> FastBasicMomentumRule(p, r, c)
    [] strategy = "ema_rsi" -> FastEmaRsiRule(p, r, c)
    [] strategy = "ema_atr_trend" -> FastEmaAtrTrendRule(p, r, c)
    [] strategy = "ema_momentum_breakout" -> FastEmaMomentumRule(p, r, c)
    [] strategy = "range_break_scalper" -> FastRangeBreakRule(p, r, c)
    [] strategy = "bb_momentum_breakout" -> FastBollingerMomentumRule(p, r, c)
    [] strategy = "bb_rsi_mean_reversion" -> FastBollingerRsiRule(p, r, c)
    [] strategy = "bb_ema_rsi_mean_reversion" -> FastBollingerEmaRsiRule(p, r, c)
    [] strategy = "failed_range_break_reversal" -> FastFailedRangeBreakRule(p, r, c)
    [] strategy = "bb_squeeze_breakout" -> FastSqueezeRule(p, r, c)
    [] strategy = "ema_atr_pullback_continuation" -> FastPullbackRule(p, r, c)
    [] strategy = "pine_bb_rsi_stoch" -> FastPineRule(p, r, c)
    [] strategy = "fvg_ma_volume_profile" -> FastFvgRule(p, r, c)

\* A fast evaluator after count candles: it has taken the candle in, rejects
\* it outside the session, waits for enough candles and applies its rule.
FastDecision(strategy, p, bank, count, c) ==
  LET needs == Needs(strategy, p)
  IN Guarded(c, count, needs,
             FastRule(strategy, p, [part \in needs.parts |-> bank[part].value], c))
=============================================================================
