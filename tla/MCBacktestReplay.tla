-------------------------- MODULE MCBacktestReplay --------------------------
(***************************************************************************)
(* The instance of BacktestReplay that TLC checks.  Prices are multiples   *)
(* of U, so that every mean, EMA and variance of these periods is whole.   *)
(***************************************************************************)
EXTENDS BacktestReplay

U == 324

Bar(open, high, low, close, volume) ==
  [open |-> open * U, high |-> high * U, low |-> low * U, close |-> close * U,
   tick_volume |-> volume, in_session |-> TRUE]

Level == Bar(10, 11, 9, 10, 2)
Rise == Bar(11, 13, 11, 12, 8)
Fall == Bar(9, 9, 7, 8, 4)
OutOfSession == [Level EXCEPT !.in_session = FALSE]

\* For the engine: a calm candle, one each that reaches only one barrier of a
\* position, and one that reaches both.
Calm == Bar(10, 11, 9, 10, 1)
Up == Bar(10, 17, 9, 13, 1)
Down == Bar(10, 11, 3, 7, 1)
Both == Bar(10, 18, 2, 10, 1)

MCParameters ==
  [basic_momentum |-> [momentum_period |-> 1, min_momentum |-> 2 * U],
   ema_rsi |->
     [fast_ema_period |-> 2, slow_ema_period |-> 3, rsi_period |-> 2, require_crossover |-> TRUE,
      min_trend |-> 0, buy_rsi_max |-> 70, sell_rsi_min |-> 30],
   ema_atr_trend |->
     [fast_ema_period |-> 2, slow_ema_period |-> 3, atr_period |-> 2, require_crossover |-> TRUE,
      min_trend |-> 1, min_atr |-> U, max_atr |-> 4 * U],
   ema_momentum_breakout |->
     [fast_ema_period |-> 2, medium_ema_period |-> 3, slow_ema_period |-> 4,
      momentum_period |-> 2, atr_period |-> 2, min_momentum |-> U, min_atr |-> 2 * U],
   range_break_scalper |->
     [fast_ema_period |-> 2, slow_ema_period |-> 3, rsi_period |-> 2, range_lookback |-> 2,
      min_breakout |-> 0, buy_rsi_min |-> 50, sell_rsi_max |-> 50],
   bb_momentum_breakout |->
     [bollinger_period |-> 2, deviations |-> 5, momentum_period |-> 2, atr_period |-> 2,
      min_momentum |-> 2 * U, min_atr |-> U],
   bb_rsi_mean_reversion |->
     [bollinger_period |-> 2, deviations |-> 8, rsi_period |-> 2, atr_period |-> 2,
      require_touch_band |-> FALSE, trade_direction |-> "BUY_ONLY",
      buy_rsi_max |-> 50, sell_rsi_min |-> 50],
   bb_ema_rsi_mean_reversion |->
     [bollinger_period |-> 2, deviations |-> 10, rsi_period |-> 2, atr_period |-> 2,
      fast_ema_period |-> 2, slow_ema_period |-> 3, max_trend |-> U,
      require_touch_band |-> TRUE, buy_rsi_max |-> 40, sell_rsi_min |-> 60],
   failed_range_break_reversal |->
     [range_lookback |-> 2, rsi_period |-> 2, atr_period |-> 2, fast_ema_period |-> 2,
      slow_ema_period |-> 3, use_ema_flat_filter |-> TRUE, max_trend |-> U,
      min_atr |-> U, max_atr |-> 5 * U, fakeout |-> 0, reclaim |-> U,
      buy_rsi_max |-> 60, sell_rsi_min |-> 40],
   bb_squeeze_breakout |->
     [bollinger_period |-> 2, deviations |-> 5, squeeze_lookback |-> 2, squeeze_percentile |-> 50,
      max_squeeze_width |-> U, breakout |-> 0, momentum_period |-> 2, atr_period |-> 2,
      min_momentum |-> U, min_atr |-> U, max_atr |-> 5 * U, trade_direction |-> "SELL_ONLY"],
   ema_atr_pullback_continuation |->
     [fast_ema_period |-> 2, medium_ema_period |-> 3, slow_ema_period |-> 4, atr_period |-> 2,
      rsi_period |-> 2, pullback_lookback |-> 2, pullback_tolerance |-> 0,
      reclaim_mode |-> "FAST_EMA", require_reversal_candle |-> FALSE,
      min_trend |-> 0, min_atr |-> 0, max_atr |-> 9 * U,
      buy_rsi_min |-> 0, buy_rsi_max |-> 100, sell_rsi_min |-> 0, sell_rsi_max |-> 100],
   pine_bb_rsi_stoch |->
     [bollinger_period |-> 2, deviations |-> 5, rsi_period |-> 2, rsi_overbought |-> 60,
      rsi_oversold |-> 60, stochastic_period |-> 2, smooth_k |-> 2, smooth_d |-> 2,
      stochastic_overbought |-> 600, stochastic_oversold |-> 600, trade_direction |-> "BOTH"],
   fvg_ma_volume_profile |->
     [fvg_lookback |-> 3, sma_period |-> 2, volume_profile_lookback |-> 6,
      volume_profile_bins |-> 2, volume_spike_period |-> 2, volume_spike_multiplier |-> 15,
      poc_tolerance |-> U, require_volume_spike |-> FALSE, trade_direction |-> "BOTH"]]

AllStrategies == DOMAIN MCParameters

\* Those whose two evaluations answer differently.
PullbackOnly == {"ema_atr_pullback_continuation"}
GapScanOnly == {"fvg_ma_volume_profile"}
Disagreeing == PullbackOnly \cup GapScanOnly

\* The scan for a gap is what needs the most candles.
MCScanParameters ==
  [MCParameters EXCEPT !.fvg_ma_volume_profile.volume_profile_lookback = 2]

MCInput ==
  [s \in AllStrategies |->
     IF s = "basic_momentum" THEN {Calm, Up, Down, Both} ELSE {Level, Rise, Fall, OutOfSession}]

MCCandles == UNION {MCInput[s] : s \in AllStrategies}

MCMaxCandles ==
  [s \in AllStrategies |-> IF s = "basic_momentum" THEN 6 ELSE S!Needs(s, MCParameters[s]).candles + 2]

\* Minutes are skipped where the engine is explored.
MCMaxStep == [s \in AllStrategies |-> IF s = "basic_momentum" THEN 2 ELSE 1]
=============================================================================
