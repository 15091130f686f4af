--------------------------- MODULE BacktestEngine ---------------------------
(***************************************************************************)
(* The replay loop of goldie_domain.backtest: completed one-minute candles *)
(* go through the engine in order, an evaluator answers each with a        *)
(* decision, and the engine keeps at most one pending signal and one open  *)
(* position.  Here the decisions are arbitrary; BacktestReplay takes them  *)
(* from the strategies.                                                    *)
(*                                                                         *)
(* Times are minutes.  Prices, amounts and volumes are integers: a volume  *)
(* in multiples of the step, an amount per unit of price and volume.       *)
(* Slippage and commission are the fixed ones (slippage_points and         *)
(* commission_per_trade; both 0 is fill_mode "perfect").                   *)
(***************************************************************************)
EXTENDS Integers, Sequences

CONSTANTS
  None,             \* Python's None
  Candles,          \* the candles that can be replayed: [open, high, low, close, ...]
  MaxTime,          \* bound: the last minute of data
  HalfSpread,       \* half the spread of the costs, as a price
  Slippage,         \* price by which entry and exit are worse
  Commission,       \* amount per trade
  StopDistance, TakeDistance,   \* stop_loss_points, take_profit_points, as prices
  MaxDuration,      \* max_trade_duration_minutes
  FillTimeout,      \* limit_fill_timeout_s, in minutes
  InitialCapital,
  RiskPct,          \* risk_per_trade_pct
  LotValue,         \* tick_value / tick_size: amount per price and volume
  VolumeStep, VolumeMin, VolumeMax, MinQty

ASSUME TimesAssumption ==
  /\ MaxTime \in Nat
  /\ MaxDuration \in Nat \ {0}
  /\ FillTimeout \in Nat

ASSUME PricesAssumption ==
  /\ \A c \in Candles : {c.open, c.high, c.low, c.close} \subseteq Int
  /\ {HalfSpread, Slippage, Commission} \subseteq Nat
  /\ {StopDistance, TakeDistance} \subseteq Nat \ {0}

ASSUME SizingAssumption ==
  /\ {InitialCapital, VolumeMax, MinQty} \subseteq Nat
  /\ {RiskPct, LotValue, VolumeStep, VolumeMin} \subseteq Nat \ {0}

ASSUME NoneAssumption ==
  None \notin [opened_at : Int, close : Int]

Directions == {"BUY", "SELL"}

CloseReasons == {"DATA_GAP", "STOP_LOSS", "TAKE_PROFIT", "TIMEOUT", "END_OF_DATA"}

VARIABLES
  minutes,    \* opening minutes of the candles replayed so far
  previous,   \* the last candle replayed, [opened_at, close], or None
  book        \* [position, pending, balance, trades, status]

engine == <<minutes, previous, book>>

----------------------------------------------------------------------------
(* Opening.                                                                *)

Sign(direction) == IF direction = "BUY" THEN 1 ELSE -1

\* The risk of a volume of one, and the volume the balance can carry.
StopValue == StopDistance * LotValue

SizedVolume(balance) ==
  LET steps == (balance * RiskPct) \div (100 * StopValue * VolumeStep)
      volume == steps * VolumeStep
  IN IF volume > VolumeMax THEN VolumeMax ELSE volume

\* _open(): None when the volume is too small to trade.
Opened(pending, c, t, balance) ==
  LET sign == Sign(pending.direction)
      entry == c.open + sign * (HalfSpread + Slippage)
      volume == SizedVolume(balance)
  IN IF balance <= 0 \/ volume < VolumeMin \/ volume < MinQty THEN None
     ELSE [direction |-> pending.direction, signal_at |-> pending.signal_at, opened_at |-> t,
           entry |-> entry, stop_loss |-> entry - sign * StopDistance,
           take_profit |-> entry + sign * TakeDistance,
           volume |-> volume, mfe |-> 0, mae |-> 0]

----------------------------------------------------------------------------
(* Closing.                                                                *)

Executable(direction, midpoint) == midpoint - Sign(direction) * HalfSpread

Profit(position, exit) ==
  Sign(position.direction) * (exit - position.entry) * LotValue * position.volume - Commission

TradeOf(position, closed_at, raw_exit, reason, ambiguous) ==
  LET exit == raw_exit - Sign(position.direction) * Slippage
  IN [direction |-> position.direction, signal_at |-> position.signal_at,
      opened_at |-> position.opened_at, closed_at |-> closed_at,
      volume |-> position.volume, risk |-> StopValue * position.volume, reason |-> reason,
      net |-> Profit(position, exit), mfe |-> position.mfe, mae |-> position.mae,
      ambiguous |-> ambiguous]

\* InvalidBacktestResult: worse than -1.05R at the stop loss, or better than
\* the planned ratio by more than 0.05R at the take profit.
Rejected(trade) ==
  \/ trade.reason = "STOP_LOSS" /\ 20 * trade.net < -21 * trade.risk
  \/ trade.reason = "TAKE_PROFIT"
       /\ 20 * trade.net * StopDistance > (20 * TakeDistance + StopDistance) * trade.risk

\* _close() and what the loop does with the trade.  (Mutated: the profit does
\* not reach the balance.)
ClosedOffBook(b, trade) ==
  IF Rejected(trade) THEN [b EXCEPT !.status = "INVALID"]
  ELSE [b EXCEPT !.position = None, !.trades = Append(@, trade)]

Closed(b, trade) ==
  IF Rejected(trade) THEN [b EXCEPT !.status = "INVALID"]
  ELSE [b EXCEPT !.position = None, !.trades = Append(@, trade), !.balance = @ + trade.net]

----------------------------------------------------------------------------
(* One candle, in the order of the loop's body.                            *)

Larger(a, b) == IF a >= b THEN a ELSE b

\* A candle more than a minute after the one before it closes the position at
\* its stop loss, a minute after the last candle seen, and drops the signal.
\* (Mutated: the signal survives; the position survives.)
AfterGapKeepingSignal(b, t) ==
  IF previous = None \/ t - previous.opened_at <= 1 \/ b.position = None THEN b
  ELSE Closed(b, TradeOf(b.position, previous.opened_at + 1, b.position.stop_loss,
                         "DATA_GAP", FALSE))

AfterGapHolding(b, t) ==
  IF previous = None \/ t - previous.opened_at <= 1 THEN b ELSE [b EXCEPT !.pending = None]

AfterGap(b, t) ==
  IF previous = None \/ t - previous.opened_at <= 1 THEN b
  ELSE LET dropped == [b EXCEPT !.pending = None]
       IN IF b.position = None THEN dropped
          ELSE Closed(dropped, TradeOf(b.position, previous.opened_at + 1, b.position.stop_loss,
                                       "DATA_GAP", FALSE))

AfterFill(b, c, t) ==
  IF b.position # None \/ b.pending = None THEN b
  ELSE [b EXCEPT !.pending = None,
                 !.position = IF t - b.pending.signal_at > FillTimeout THEN None
                              ELSE Opened(b.pending, c, t, b.balance)]

Favorable(position, c) ==
  Executable(position.direction, IF position.direction = "BUY" THEN c.high ELSE c.low)

Adverse(position, c) ==
  Executable(position.direction, IF position.direction = "BUY" THEN c.low ELSE c.high)

StopHit(position, c) ==
  Sign(position.direction) * (Adverse(position, c) - position.stop_loss) <= 0

TakeHit(position, c) ==
  Sign(position.direction) * (Favorable(position, c) - position.take_profit) >= 0

\* The excursions so far, with those of the candle.
Moved(position, c) ==
  LET Move(price) == Sign(position.direction) * (price - position.entry)
  IN [position EXCEPT !.mfe = Larger(@, Move(Favorable(position, c))),
                      !.mae = Larger(@, -Move(Adverse(position, c)))]

\* _evaluate_position(): the stop loss first when both were touched.
\* (Mutated: the take profit first.)
AfterHopefulEvaluation(b, c, t) ==
  IF b.position = None THEN b
  ELSE LET position == Moved(b.position, c)
           moved == [b EXCEPT !.position = position]
           Exit(raw_exit, reason) ==
             Closed(moved, TradeOf(position, t + 1, raw_exit, reason,
                                   StopHit(position, c) /\ TakeHit(position, c)))
       IN IF TakeHit(position, c) THEN Exit(position.take_profit, "TAKE_PROFIT")
          ELSE IF StopHit(position, c) THEN Exit(position.stop_loss, "STOP_LOSS")
          ELSE IF t >= position.opened_at + MaxDuration
          THEN Exit(Executable(position.direction, c.close), "TIMEOUT")
          ELSE moved

AfterEvaluation(b, c, t) ==
  IF b.position = None THEN b
  ELSE LET position == Moved(b.position, c)
           moved == [b EXCEPT !.position = position]
           Exit(raw_exit, reason) ==
             Closed(moved, TradeOf(position, t + 1, raw_exit, reason,
                                   StopHit(position, c) /\ TakeHit(position, c)))
       IN IF StopHit(position, c) THEN Exit(position.stop_loss, "STOP_LOSS")
          ELSE IF TakeHit(position, c) THEN Exit(position.take_profit, "TAKE_PROFIT")
          ELSE IF t >= position.opened_at + MaxDuration
          THEN Exit(Executable(position.direction, c.close), "TIMEOUT")
          ELSE moved

\* A signal is taken only when nothing is open; it is dated when the candle ends.
AfterSignal(b, t, signal) ==
  IF signal \in Directions /\ b.status = "RUNNING" /\ b.position = None /\ b.pending = None
  THEN [b EXCEPT !.pending = [direction |-> signal, signal_at |-> t + 1]]
  ELSE b

\* A rejected fill raises out of the loop.  (Mutated: the signal of a candle
\* is filled at the open of the same candle.)
AfterCandleAtOnce(c, t, signal) ==
  AfterFill(AfterSignal(AfterEvaluation(AfterGap(book, t), c, t), t, signal), c, t)

AfterCandle(c, t, signal) ==
  AfterSignal(AfterEvaluation(AfterFill(AfterGap(book, t), c, t), c, t), t, signal)

----------------------------------------------------------------------------

EngineInit ==
  /\ minutes = {}
  /\ previous = None
  /\ book = [position |-> None, pending |-> None, balance |-> InitialCapital,
             trades |-> <<>>, status |-> "RUNNING"]

\* The candle that opens at minute t.
Candle(c, t, signal) ==
  /\ book.status = "RUNNING"
  /\ previous # None => t > previous.opened_at
  /\ book' = AfterCandle(c, t, signal)
  /\ minutes' = minutes \cup {t}
  /\ previous' = [opened_at |-> t, close |-> c.close]

\* The data end: what is still open is closed at the last close.  The balance
\* is not touched any more.
Finish ==
  /\ book.status = "RUNNING"
  /\ book' = [book EXCEPT
        !.status = "COMPLETED", !.position = None,
        !.trades = IF book.position = None THEN @
                   ELSE Append(@, TradeOf(book.position, previous.opened_at + 1,
                                          Executable(book.position.direction, previous.close),
                                          "END_OF_DATA", FALSE))]
  /\ UNCHANGED <<minutes, previous>>

\* The progress callback says no: BacktestCancelled.
Cancel ==
  /\ book.status = "RUNNING"
  /\ book' = [book EXCEPT !.status = "CANCELLED"]
  /\ UNCHANGED <<minutes, previous>>

EngineNext ==
  \/ \E c \in Candles, t \in 0 .. MaxTime, signal \in Directions \cup {"NO_TRADE"} :
       Candle(c, t, signal)
  \/ Finish
  \/ Cancel

EngineSpec == EngineInit /\ [][EngineNext]_engine

----------------------------------------------------------------------------
(* Properties.                                                             *)

\* Trades and the open position follow one another: each opens no earlier
\* than the one before it closed, and lasts at least a minute.  (The loop
\* holds one position and one pending signal in two variables that four
\* stages of its body set and clear.)
OneAtATime ==
  /\ \A i \in DOMAIN book.trades : book.trades[i].opened_at < book.trades[i].closed_at
  /\ \A i \in DOMAIN book.trades : i > 1 =>
       book.trades[i - 1].closed_at <= book.trades[i].opened_at
  /\ book.position # None => \A i \in DOMAIN book.trades :
       book.trades[i].closed_at <= book.position.opened_at

\* A position opens at the very minute the candle of its signal ended: no
\* signal survives a gap in the data or waits behind another position.  (So
\* the fill timeout of the costs can never be what drops a signal.)
FilledAtNextOpen ==
  /\ \A i \in DOMAIN book.trades : book.trades[i].opened_at = book.trades[i].signal_at
  /\ book.position # None => book.position.opened_at = book.position.signal_at
  /\ book.pending # None => previous # None /\ book.pending.signal_at = previous.opened_at + 1

\* Nothing is held over a minute without a candle, nor past the candle that
\* opens MaxDuration minutes after the entry.
NeverHeldBlind ==
  /\ \A i \in DOMAIN book.trades :
       /\ book.trades[i].opened_at .. book.trades[i].closed_at - 1 \subseteq minutes
       /\ book.trades[i].closed_at <= book.trades[i].opened_at + MaxDuration + 1
  /\ book.status = "RUNNING" /\ book.position # None =>
       /\ previous # None
       /\ book.position.opened_at .. previous.opened_at \subseteq minutes
       /\ previous.opened_at < book.position.opened_at + MaxDuration

\* The excursions explain the exit: a stop loss was reached, a take profit was
\* reached and the stop loss never, anything else reached neither.
ExitExplained ==
  \A i \in DOMAIN book.trades :
    LET trade == book.trades[i] IN
    /\ trade.reason = "STOP_LOSS" <=> trade.mae >= StopDistance
    /\ trade.reason = "TAKE_PROFIT" => trade.mfe >= TakeDistance
    /\ trade.reason \in {"DATA_GAP", "TIMEOUT", "END_OF_DATA"} => trade.mfe < TakeDistance
    /\ trade.ambiguous <=> trade.mae >= StopDistance /\ trade.mfe >= TakeDistance
=============================================================================
