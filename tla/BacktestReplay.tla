--------------------------- MODULE BacktestReplay ---------------------------
(***************************************************************************)
(* A backtest run as a whole: the engine replays candles and takes its     *)
(* decisions from one strategy, evaluated incrementally; beside it runs    *)
(* the reference, the strategy's evaluate() over the window of candles     *)
(* that ReplayBacktestEvaluator keeps.                                     *)
(***************************************************************************)
EXTENDS BacktestEngine, BacktestSummary

CONSTANTS
  Strategies,     \* the strategies to replay
  Parameters,     \* strategy -> its parameters, thresholds as prices
  Input,          \* strategy -> the candles it is given
  MaxCandles,     \* bound: strategy -> candles replayed
  MaxStep,        \* bound: strategy -> minutes from one candle to the next
  MaxRejected     \* bound: candles outside the session

S == INSTANCE FastEvaluators

ASSUME StrategiesAssumption == Strategies \subseteq S!Registered

\* A candle whose low lies above its high is refused where candles come in.
ASSUME InputAssumption ==
  \A s \in Strategies :
    /\ Input[s] \subseteq Candles
    /\ \A c \in Input[s] : c.tick_volume \in Nat /\ c.low <= c.high

ASSUME PeriodsAssumption == \A s \in Strategies : S!Periods(s, Parameters[s]) \subseteq Nat \ {0}

\* The unit of the prices: small enough that every Bollinger period divides a
\* close, as the quotients of the code are not rounded.
ASSUME UnitAssumption ==
  \A s \in Strategies :
    "bands" \in S!Needs(s, Parameters[s]).parts =>
      \A c \in Input[s] : c.close % Parameters[s].bollinger_period = 0

ASSUME NoReadingAssumption ==
  /\ None \notin Int
  /\ None \notin [middle : Int, variance : Int]
  /\ None \notin [gain : Int, loss : Int]

VARIABLES
  strategy,   \* the strategy of the run
  window,     \* the reference's deque of the candles needed
  bank,       \* the incremental evaluator's structures
  count,      \* candles it has seen
  rejected    \* candles outside the session so far (bounds the inputs)

evaluator == <<window, bank, count>>

vars == <<engine, evaluator, strategy, rejected>>

p == Parameters[strategy]

needs == S!Needs(strategy, p)

Init ==
  /\ EngineInit
  /\ strategy \in Strategies
  /\ window = <<>>
  /\ bank = S!FreshBank(needs)
  /\ count = 0
  /\ rejected = 0

Replay(c, t) ==
  /\ count < MaxCandles[strategy]
  /\ t <= IF previous = None THEN 0 ELSE previous.opened_at + MaxStep[strategy]
  /\ rejected' = rejected + (IF c.in_session THEN 0 ELSE 1)
  /\ rejected' <= MaxRejected
  /\ window' = S!Push(window, c, needs.candles)
  /\ bank' = S!Updated(bank, c, p, needs)
  /\ count' = count + 1
  /\ Candle(c, t, S!FastDecision(strategy, p, bank', count', c).signal)
  /\ UNCHANGED strategy

Next ==
  \/ \E c \in Input[strategy], t \in 0 .. MaxTime : Replay(c, t)
  \/ Finish /\ UNCHANGED <<evaluator, strategy, rejected>>
  \/ Cancel /\ UNCHANGED <<evaluator, strategy, rejected>>

Spec == Init /\ [][Next]_vars

----------------------------------------------------------------------------
(* Properties.                                                             *)

\* Once a strategy has the candles it needs, every rolling structure reads
\* what its indicator computes from the window from scratch.  (Sums and
\* monotone deques are patched by what enters and leaves; an error would stay
\* in them for the rest of the run.)  The deques the strategies scan
\* themselves are longer than the window and are compared by decision.
IndicatorsAgree ==
  count >= needs.candles =>
    \A part \in needs.parts \ {"touches", "candles"} :
      bank[part].value = S!Reading(part, window, p)

\* The fast evaluator answers every candle with the signal and the reason of
\* evaluate().  (13_NEW_STRATEGY_RUNBOOK.md:76 demands it of every strategy.)
FastAgreesWithReplay ==
  count > 0 =>
    S!FastDecision(strategy, p, bank, count, Last(window)) = S!ReferenceDecision(strategy, p, window)

\* It does so where both decide on the same candles: the touches of a pullback
\* are judged candle by candle, by averages that began before evaluate()'s
\* window, and the scan for a gap can reach a candle further back than it.
\* (The conditions of every strategy are written twice, and so are the
\* structures they read; a change to one is easily not made to the other.)
FastAgreesWithinWindow ==
  /\ count > 0
  /\ strategy # "ema_atr_pullback_continuation"
  /\ strategy = "fvg_ma_volume_profile" => p.fvg_lookback + 3 <= needs.candles
  => S!FastDecision(strategy, p, bank, count, Last(window)) = S!ReferenceDecision(strategy, p, window)

\* Every trade was sized for the equity at its entry: its risk is what the
\* profits and losses of the trades before it had left.
SizedByEquity ==
  \A i \in DOMAIN book.trades :
    100 * book.trades[i].risk <= RiskPct * Equity(book.trades, InitialCapital, i - 1)

\* The report of a completed run says what happened: its one-pass figures are
\* those of the equity curve, and wins and losses account for the profit.
SummaryAgrees ==
  book.status = "COMPLETED" =>
    LET summary == Summary(book.trades, InitialCapital) IN
    /\ summary.max_drawdown = Drawdown(book.trades, InitialCapital)
    /\ summary.max_consecutive_losses = LongestLoss(book.trades)
    /\ summary.final_equity = Equity(book.trades, InitialCapital, Len(book.trades))
    /\ summary.net_pnl = summary.gross_profit - summary.gross_loss
    /\ summary.total_trades = SumFunction(summary.close_reason_counts)
=============================================================================
