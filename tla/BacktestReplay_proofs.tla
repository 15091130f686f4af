------------------------ MODULE BacktestReplay_proofs -----------------------
(***************************************************************************)
(* Proofs about the backtest.  First the engine: whatever candles come,    *)
(* with whatever gaps, and whatever the evaluator says of them, the four   *)
(* properties hold of the loop, for every cost, barrier, duration and      *)
(* timeout.  The loop's body is a chain of four stages, so the argument is *)
(* one lemma per stage about any book that is in order (BookOK), from      *)
(* Between, which holds between two candles, over the gap check, the fill  *)
(* and the evaluation, to the signal that leads back to Between.           *)
(*                                                                         *)
(* Then a backtest with a strategy, which is a run of the engine: whatever *)
(* an evaluator answers, the book only ever changes as BacktestEngine      *)
(* says, so its theorems hold of every strategy and all its parameters.    *)
(*                                                                         *)
(* Two theorems are about money.  A run keeps an account (Accounted): its  *)
(* balance is the equity, so every trade is sized by it.  And the report,  *)
(* a fold over the trades, means what it says of the equity curve: its     *)
(* totals after k trades are related to the curve up to k (Mean), by       *)
(* induction over k.  The induction is over sets of naturals, whose least  *)
(* counterexample the library's well-foundedness of < provides; with it    *)
(* sums and folds over finite sets exist and can be reasoned about.        *)
(***************************************************************************)
EXTENDS BacktestReplay, TLAPS, FiniteSetTheorems

\* What the properties say of one trade, the candles of the minutes seen given.
TradeOK(trade, seen) ==
  /\ trade.opened_at \in Int /\ trade.closed_at \in Int
  /\ trade.opened_at = trade.signal_at
  /\ trade.opened_at < trade.closed_at
  /\ trade.opened_at .. trade.closed_at - 1 \subseteq seen
  /\ trade.closed_at <= trade.opened_at + MaxDuration + 1
  /\ trade.reason = "STOP_LOSS" <=> trade.mae >= StopDistance
  /\ trade.reason = "TAKE_PROFIT" => trade.mfe >= TakeDistance
  /\ trade.reason \in {"DATA_GAP", "TIMEOUT", "END_OF_DATA"} => trade.mfe < TakeDistance
  /\ trade.ambiguous <=> trade.mae >= StopDistance /\ trade.mfe >= TakeDistance

\* The trades of a list follow one another, and all of them end by "now".
TradesOK(trades, seen, now) ==
  /\ \E Kinds : trades \in Seq(Kinds)
  /\ \A i \in 1 .. Len(trades) : TradeOK(trades[i], seen) /\ trades[i].closed_at <= now
  /\ \A i \in 1 .. Len(trades) : i > 1 => trades[i - 1].closed_at <= trades[i].opened_at

\* An open position: its barriers lie at their distances from its entry.
PositionOK(position) ==
  /\ position = [direction |-> position.direction, signal_at |-> position.signal_at,
                 opened_at |-> position.opened_at, entry |-> position.entry,
                 stop_loss |-> position.stop_loss, take_profit |-> position.take_profit,
                 volume |-> position.volume, mfe |-> position.mfe, mae |-> position.mae]
  /\ position.direction \in Directions
  /\ position.opened_at \in Int /\ position.opened_at = position.signal_at
  /\ position.entry \in Int
  /\ position.stop_loss = position.entry - Sign(position.direction) * StopDistance
  /\ position.take_profit = position.entry + Sign(position.direction) * TakeDistance
  /\ position.mfe \in Int /\ position.mae \in Int

\* It has reached neither barrier yet.
Within(position) == position.mfe < TakeDistance /\ position.mae < StopDistance

\* It has been held since it opened, with a candle for every minute before "now".
HeldUntil(position, seen, now) ==
  /\ position.opened_at <= now
  /\ position.opened_at .. now - 1 \subseteq seen
  /\ now <= position.opened_at + MaxDuration

\* A book whose trades end by "now", and so before a position it holds opened.
BookOK(b, seen, now) ==
  /\ b = [position |-> b.position, pending |-> b.pending, balance |-> b.balance,
          trades |-> b.trades, status |-> b.status]
  /\ TradesOK(b.trades, seen, now)
  /\ b.position # None =>
       /\ PositionOK(b.position)
       /\ \A i \in 1 .. Len(b.trades) : b.trades[i].closed_at <= b.position.opened_at
  /\ b.status = "RUNNING" /\ b.position # None =>
       Within(b.position) /\ HeldUntil(b.position, seen, now)
  /\ b.pending # None =>
       /\ b.position = None
       /\ b.pending.direction \in Directions
       /\ b.pending.signal_at = now

\* After a candle: "now" is the end of that candle.
Between ==
  /\ minutes \subseteq Int
  /\ previous = None =>
       book.position = None /\ book.pending = None /\ book.trades = <<>>
  /\ previous # None =>
       /\ previous = [opened_at |-> previous.opened_at, close |-> previous.close]
       /\ previous.opened_at \in Int /\ previous.close \in Int
       /\ previous.opened_at \in minutes
       /\ book.status = "RUNNING" /\ book.position # None =>
            book.position.opened_at <= previous.opened_at
  /\ BookOK(book, minutes, IF previous = None THEN 0 ELSE previous.opened_at + 1)

\* The types of the constants.
LEMMA Distances ==
  /\ StopDistance \in Int /\ StopDistance > 0 /\ TakeDistance \in Int /\ TakeDistance > 0
  /\ HalfSpread \in Int /\ Slippage \in Int /\ MaxDuration \in Int /\ MaxDuration > 0
  BY PricesAssumption, TimesAssumption

----------------------------------------------------------------------------
(* Lists of trades.                                                        *)

\* Trades that follow one another still do when a later one is appended.
LEMMA TradesAppended ==
  ASSUME NEW trades, NEW seen, NEW now \in Int, NEW trade,
         TradesOK(trades, seen, now), TradeOK(trade, seen), trade.closed_at <= now,
         \A i \in 1 .. Len(trades) : trades[i].closed_at <= trade.opened_at
  PROVE  TradesOK(Append(trades, trade), seen, now)
  <1>1. PICK Kinds : trades \in Seq(Kinds)
    BY DEF TradesOK
  <1> DEFINE Wider == Kinds \cup {trade}
             longer == Append(trades, trade)
  <1>2. trades \in Seq(Wider) /\ trade \in Wider
    BY <1>1
  <1> HIDE DEF Wider
  <1>3. /\ longer \in Seq(Wider) /\ Len(longer) = Len(trades) + 1 /\ Len(trades) \in Nat
        /\ longer[Len(trades) + 1] = trade
        /\ \A i \in 1 .. Len(trades) : longer[i] = trades[i]
    BY <1>2
  <1> HIDE DEF longer
  <1>4. \A i \in 1 .. Len(longer) : TradeOK(longer[i], seen) /\ longer[i].closed_at <= now
    <2> SUFFICES ASSUME NEW i \in 1 .. Len(longer)
                 PROVE  TradeOK(longer[i], seen) /\ longer[i].closed_at <= now
      OBVIOUS
    <2>1. CASE i = Len(trades) + 1
      BY <2>1, <1>3
    <2>2. CASE i # Len(trades) + 1
      <3>1. i \in 1 .. Len(trades)
        BY <2>2, <1>3
      <3> QED
        BY <3>1, <1>3 DEF TradesOK
    <2> QED
      BY <2>1, <2>2
  <1>5. \A i \in 1 .. Len(longer) : i > 1 => longer[i - 1].closed_at <= longer[i].opened_at
    <2> SUFFICES ASSUME NEW i \in 1 .. Len(longer), i > 1
                 PROVE  longer[i - 1].closed_at <= longer[i].opened_at
      OBVIOUS
    <2>1. i - 1 \in 1 .. Len(trades) /\ longer[i - 1] = trades[i - 1]
      BY <1>3
    <2>2. CASE i = Len(trades) + 1
      BY <2>1, <2>2, <1>3
    <2>3. CASE i # Len(trades) + 1
      <3>1. i \in 1 .. Len(trades) /\ longer[i] = trades[i]
        BY <2>3, <1>3
      <3> QED
        BY <3>1, <2>1 DEF TradesOK
    <2> QED
      BY <2>2, <2>3
  <1> QED
    BY <1>3, <1>4, <1>5 DEF TradesOK, longer

\* More candles and a later time spoil no trade.
LEMMA TradesLater ==
  ASSUME NEW trades, NEW seen, NEW more, NEW now \in Int, NEW later \in Int,
         TradesOK(trades, seen, now), seen \subseteq more, now <= later
  PROVE  TradesOK(trades, more, later)
  <1>1. PICK Kinds : trades \in Seq(Kinds)
    BY DEF TradesOK
  <1>2. \A i \in 1 .. Len(trades) : TradeOK(trades[i], more) /\ trades[i].closed_at <= later
    <2> SUFFICES ASSUME NEW i \in 1 .. Len(trades)
                 PROVE  TradeOK(trades[i], more) /\ trades[i].closed_at <= later
      OBVIOUS
    <2>1. TradeOK(trades[i], seen) /\ trades[i].closed_at <= now
      BY DEF TradesOK
    <2> QED
      BY <2>1 DEF TradeOK
  <1> QED
    BY <1>1, <1>2 DEF TradesOK

----------------------------------------------------------------------------
(* The stages of the loop.                                                 *)

\* A position closed by a trade that tells the truth leaves the book sound.
LEMMA ClosedOK ==
  ASSUME NEW b, NEW seen, NEW now \in Int, NEW trade,
         b = [position |-> b.position, pending |-> b.pending, balance |-> b.balance,
              trades |-> b.trades, status |-> b.status],
         b.status = "RUNNING", b.pending = None,
         PositionOK(b.position), TradesOK(b.trades, seen, now),
         \A i \in 1 .. Len(b.trades) : b.trades[i].closed_at <= b.position.opened_at,
         TradeOK(trade, seen), trade.opened_at = b.position.opened_at, trade.closed_at <= now
  PROVE  /\ BookOK(Closed(b, trade), seen, now)
         /\ Closed(b, trade).pending = None
         /\ Closed(b, trade).status = "RUNNING" => Closed(b, trade).position = None
         /\ ~Rejected(trade) => Closed(b, trade).status = "RUNNING"
  <1>1. CASE Rejected(trade)
    <2>1. Closed(b, trade) = [b EXCEPT !.status = "INVALID"]
      BY <1>1 DEF Closed
    <2> QED
      BY <2>1, <1>1 DEF BookOK
  <1>2. CASE ~Rejected(trade)
    <2>1. Closed(b, trade) = [position |-> None, pending |-> None,
                              balance |-> b.balance + trade.net,
                              trades |-> Append(b.trades, trade), status |-> "RUNNING"]
      BY <1>2 DEF Closed
    <2>2. TradesOK(Append(b.trades, trade), seen, now)
      BY TradesAppended
    <2> QED
      BY <2>1, <2>2 DEF BookOK
  <1> QED
    BY <1>1, <1>2

\* The gap check leaves a book that is sound at the candle's opening.
LEMMA AfterGapOK ==
  ASSUME Between, book.status = "RUNNING", NEW t \in Int,
         previous # None => t > previous.opened_at
  PROVE  /\ BookOK(AfterGap(book, t), minutes, t)
         /\ AfterGap(book, t).status = "RUNNING"
  <1>1. CASE previous = None
    <2>1. AfterGap(book, t) = book
      BY <1>1 DEF AfterGap
    <2>2. TradesOK(book.trades, minutes, t)
      BY <1>1, TradesLater DEF Between, BookOK, TradesOK
    <2> QED
      BY <1>1, <2>1, <2>2 DEF Between, BookOK
  <1>2. CASE previous # None /\ t = previous.opened_at + 1
    <2>1. AfterGap(book, t) = book
      <3>1. t - previous.opened_at <= 1
        BY <1>2 DEF Between
      <3> QED
        BY <3>1 DEF AfterGap
    <2> QED
      BY <1>2, <2>1 DEF Between
  <1>3. CASE previous # None /\ t # previous.opened_at + 1
    <2> DEFINE ended == previous.opened_at + 1
               dropped == [book EXCEPT !.pending = None]
    <2>1. ended \in Int /\ ended < t /\ BookOK(book, minutes, ended)
      BY <1>3 DEF Between
    <2>2. TradesOK(book.trades, minutes, t)
      BY <2>1, TradesLater DEF BookOK
    <2>3. ~(previous = None \/ t - previous.opened_at <= 1)
      BY <1>3, <2>1 DEF Between
    <2>4. /\ dropped = [position |-> book.position, pending |-> None, balance |-> book.balance,
                        trades |-> book.trades, status |-> "RUNNING"]
      BY <2>1 DEF BookOK
    <2>5. CASE book.position = None
      <3>1. AfterGap(book, t) = dropped
        BY <2>3, <2>5 DEF AfterGap
      <3> QED
        BY <3>1, <2>2, <2>4, <2>5 DEF BookOK
    <2>6. CASE book.position # None
      <3> DEFINE trade == TradeOf(book.position, ended, book.position.stop_loss, "DATA_GAP", FALSE)
      <3>1. AfterGap(book, t) = Closed(dropped, trade)
        BY <2>3, <2>6 DEF AfterGap
      <3>2. /\ PositionOK(book.position) /\ Within(book.position)
            /\ HeldUntil(book.position, minutes, ended)
            /\ book.position.opened_at < ended
            /\ \A i \in 1 .. Len(book.trades) : book.trades[i].closed_at <= book.position.opened_at
        BY <2>1, <2>6, <1>3 DEF BookOK, Between, PositionOK
      <3>3. /\ trade.opened_at = book.position.opened_at /\ trade.closed_at = ended
            /\ trade.signal_at = book.position.signal_at /\ trade.reason = "DATA_GAP"
            /\ trade.mfe = book.position.mfe /\ trade.mae = book.position.mae
            /\ trade.ambiguous = FALSE
        BY DEF TradeOf
      <3> HIDE DEF trade
      <3>4. TradeOK(trade, minutes)
        <4>1. trade.mae < StopDistance /\ trade.mfe < TakeDistance
              /\ ~(trade.mae >= StopDistance) /\ ~(trade.mfe >= TakeDistance)
          BY <3>2, <3>3, Distances DEF PositionOK, Within
        <4>2. /\ trade.opened_at \in Int /\ trade.closed_at \in Int
              /\ trade.opened_at = trade.signal_at /\ trade.opened_at < trade.closed_at
              /\ trade.opened_at .. trade.closed_at - 1 \subseteq minutes
              /\ trade.closed_at <= trade.opened_at + MaxDuration + 1
          BY <3>2, <3>3, <2>1, TimesAssumption DEF PositionOK, HeldUntil
        <4> QED
          BY <4>1, <4>2, <3>3 DEF TradeOK
      <3>5. ~Rejected(trade)
        BY <3>3 DEF Rejected
      <3>6. /\ BookOK(Closed(dropped, trade), minutes, t)
            /\ Closed(dropped, trade).status = "RUNNING"
        <4>1. /\ dropped = [position |-> dropped.position, pending |-> dropped.pending,
                             balance |-> dropped.balance, trades |-> dropped.trades,
                             status |-> dropped.status]
              /\ dropped.status = "RUNNING" /\ dropped.pending = None
              /\ dropped.position = book.position /\ dropped.trades = book.trades
          BY <2>4
        <4>2. /\ PositionOK(dropped.position) /\ TradesOK(dropped.trades, minutes, t)
              /\ \A i \in 1 .. Len(dropped.trades) :
                   dropped.trades[i].closed_at <= dropped.position.opened_at
              /\ trade.opened_at = dropped.position.opened_at /\ trade.closed_at <= t
          BY <4>1, <2>1, <2>2, <3>2, <3>3
        <4> HIDE DEF dropped
        <4> QED
          BY <4>1, <4>2, <3>4, <3>5, ClosedOK
      <3> QED
        BY <3>1, <3>6
    <2> QED
      BY <2>5, <2>6
  <1> QED
    BY <1>1, <1>2, <1>3

\* A signal is filled at the opening of the candle after its own, with both
\* barriers still ahead.
LEMMA AfterFillOK ==
  ASSUME NEW b, NEW seen, NEW t \in Int, NEW c \in Candles,
         BookOK(b, seen, t), b.status = "RUNNING"
  PROVE  /\ BookOK(AfterFill(b, c, t), seen, t)
         /\ AfterFill(b, c, t).status = "RUNNING"
         /\ AfterFill(b, c, t).pending = None
  <1>1. CASE b.position # None \/ b.pending = None
    <2>1. AfterFill(b, c, t) = b
      BY <1>1 DEF AfterFill
    <2> QED
      BY <1>1, <2>1 DEF BookOK
  <1>2. CASE b.position = None /\ b.pending # None
    <2> DEFINE opened == IF t - b.pending.signal_at > FillTimeout THEN None
                         ELSE Opened(b.pending, c, t, b.balance)
    <2>1. AfterFill(b, c, t) = [position |-> opened, pending |-> None, balance |-> b.balance,
                                trades |-> b.trades, status |-> "RUNNING"]
      BY <1>2 DEF AfterFill, BookOK
    <2>2. b.pending.direction \in Directions /\ b.pending.signal_at = t
      BY <1>2 DEF BookOK
    <2>3. CASE opened = None
      BY <2>1, <2>3 DEF BookOK
    <2>4. CASE opened # None
      <3> DEFINE entry == c.open + Sign(b.pending.direction) * (HalfSpread + Slippage)
                 volume == SizedVolume(b.balance)
      <3>1. opened = [direction |-> b.pending.direction, signal_at |-> b.pending.signal_at,
                      opened_at |-> t, entry |-> entry,
                      stop_loss |-> entry - Sign(b.pending.direction) * StopDistance,
                      take_profit |-> entry + Sign(b.pending.direction) * TakeDistance,
                      volume |-> volume, mfe |-> 0, mae |-> 0]
        BY <2>4 DEF Opened
      <3>2. entry \in Int
        BY <2>2, PricesAssumption DEF Sign, Directions
      <3> HIDE DEF entry, volume, opened
      <3>3. PositionOK(opened)
        BY <3>1, <3>2, <2>2 DEF PositionOK
      <3>4. Within(opened) /\ HeldUntil(opened, seen, t)
        BY <3>1, PricesAssumption, TimesAssumption DEF Within, HeldUntil
      <3>5. \A i \in 1 .. Len(b.trades) : b.trades[i].closed_at <= opened.opened_at
        BY <3>1 DEF BookOK, TradesOK
      <3> QED
        BY <2>1, <3>3, <3>4, <3>5 DEF BookOK
    <2> QED
      BY <2>3, <2>4
  <1> QED
    BY <1>1, <1>2

\* A barrier is hit by a candle exactly when the excursions reach its distance.
LEMMA MovedOK ==
  ASSUME NEW position, NEW c \in Candles, PositionOK(position), Within(position)
  PROVE  /\ PositionOK(Moved(position, c))
         /\ Moved(position, c).opened_at = position.opened_at
         /\ StopHit(Moved(position, c), c) <=> Moved(position, c).mae >= StopDistance
         /\ TakeHit(Moved(position, c), c) <=> Moved(position, c).mfe >= TakeDistance
  <1> DEFINE sign == Sign(position.direction)
             best == Favorable(position, c)
             worst == Adverse(position, c)
             mfe == Larger(position.mfe, sign * (best - position.entry))
             mae == Larger(position.mae, -(sign * (worst - position.entry)))
  <1>1. Moved(position, c) =
          [direction |-> position.direction, signal_at |-> position.signal_at,
           opened_at |-> position.opened_at, entry |-> position.entry,
           stop_loss |-> position.stop_loss, take_profit |-> position.take_profit,
           volume |-> position.volume, mfe |-> mfe, mae |-> mae]
    <2>1. Moved(position, c) = [position EXCEPT !.mfe = mfe, !.mae = mae]
      BY DEF Moved
    <2> HIDE DEF mfe, mae
    <2> QED
      BY <2>1 DEF PositionOK
  <1>2. /\ sign \in Int /\ (sign = 1 \/ sign = -1) /\ position.entry \in Int
        /\ position.mfe \in Int /\ position.mae \in Int
        /\ position.mfe < TakeDistance /\ position.mae < StopDistance
        /\ position.stop_loss = position.entry - sign * StopDistance
        /\ position.take_profit = position.entry + sign * TakeDistance
    BY DEF PositionOK, Within, Directions, Sign
  <1>3. best \in Int /\ worst \in Int
    BY PricesAssumption, Distances DEF Favorable, Adverse, Executable, Sign
  <1>4. /\ StopHit(Moved(position, c), c) <=> sign * (worst - position.stop_loss) <= 0
        /\ TakeHit(Moved(position, c), c) <=> sign * (best - position.take_profit) >= 0
    BY <1>1 DEF StopHit, TakeHit, Adverse, Favorable
  <1> HIDE DEF sign, best, worst
  <1>5. /\ mfe \in Int /\ mae \in Int
        /\ mae >= StopDistance <=> sign * (worst - position.stop_loss) <= 0
        /\ mfe >= TakeDistance <=> sign * (best - position.take_profit) >= 0
    <2>1. CASE sign = 1
      BY <2>1, <1>2, <1>3, Distances DEF Larger
    <2>2. CASE sign = -1
      BY <2>2, <1>2, <1>3, Distances DEF Larger
    <2> QED
      BY <2>1, <2>2, <1>2
  <1> HIDE DEF mfe, mae
  <1> QED
    BY <1>1, <1>2, <1>4, <1>5 DEF PositionOK, sign

\* The evaluation closes a position only for what its excursions say, and
\* keeps one only within its barriers and its time.
LEMMA AfterEvaluationOK ==
  ASSUME NEW b, NEW seen, NEW t \in Int, NEW c \in Candles,
         BookOK(b, seen, t), b.status = "RUNNING", b.pending = None
  PROVE  LET after == AfterEvaluation(b, c, t) IN
         /\ BookOK(after, seen \cup {t}, t + 1)
         /\ after.pending = None
         /\ after.status = "RUNNING" /\ after.position # None => after.position.opened_at <= t
  <1> DEFINE more == seen \cup {t}
  <1>1. TradesOK(b.trades, more, t + 1)
    BY TradesLater DEF BookOK
  <1>2. CASE b.position = None
    <2>1. AfterEvaluation(b, c, t) = b
      BY <1>2 DEF AfterEvaluation
    <2> QED
      BY <1>1, <1>2, <2>1 DEF BookOK
  <1>3. CASE b.position # None
    <2> DEFINE position == Moved(b.position, c)
               moved == [b EXCEPT !.position = position]
               ambiguous == StopHit(position, c) /\ TakeHit(position, c)
               Trade(exit, reason) == TradeOf(position, t + 1, exit, reason, ambiguous)
    <2>1. /\ PositionOK(b.position) /\ Within(b.position) /\ HeldUntil(b.position, seen, t)
          /\ \A i \in 1 .. Len(b.trades) : b.trades[i].closed_at <= b.position.opened_at
      BY <1>3 DEF BookOK
    <2>2. /\ PositionOK(position) /\ position.opened_at = b.position.opened_at
          /\ StopHit(position, c) <=> position.mae >= StopDistance
          /\ TakeHit(position, c) <=> position.mfe >= TakeDistance
      BY <2>1, MovedOK
    <2>3. /\ moved = [position |-> moved.position, pending |-> moved.pending,
                      balance |-> moved.balance, trades |-> moved.trades,
                      status |-> moved.status]
          /\ moved.status = "RUNNING" /\ moved.pending = None
          /\ moved.position = position /\ moved.trades = b.trades
      BY DEF BookOK
    <2>4. /\ position.opened_at \in Int /\ position.opened_at = position.signal_at
          /\ position.opened_at <= t /\ position.opened_at .. t \subseteq more
          /\ t <= position.opened_at + MaxDuration
      BY <2>1, <2>2 DEF PositionOK, HeldUntil
    <2> HIDE DEF position, moved, more
    <2>5. ASSUME NEW exit, NEW reason,
                 reason = "STOP_LOSS" <=> StopHit(position, c),
                 reason = "TAKE_PROFIT" => TakeHit(position, c),
                 reason \in {"DATA_GAP", "TIMEOUT", "END_OF_DATA"} => ~TakeHit(position, c)
          PROVE  LET closed == Closed(moved, Trade(exit, reason)) IN
                 /\ BookOK(closed, more, t + 1) /\ closed.pending = None
                 /\ closed.status = "RUNNING" => closed.position = None
      <3> DEFINE trade == Trade(exit, reason)
      <3>1. /\ trade.opened_at = position.opened_at /\ trade.closed_at = t + 1
            /\ trade.signal_at = position.signal_at /\ trade.reason = reason
            /\ trade.mfe = position.mfe /\ trade.mae = position.mae
            /\ trade.ambiguous = (StopHit(position, c) /\ TakeHit(position, c))
        BY DEF TradeOf
      <3> HIDE DEF trade
      <3>2. /\ trade.opened_at \in Int /\ trade.closed_at \in Int
            /\ trade.opened_at = trade.signal_at /\ trade.opened_at < trade.closed_at
            /\ trade.opened_at .. trade.closed_at - 1 \subseteq more
            /\ trade.closed_at <= trade.opened_at + MaxDuration + 1
        BY <3>1, <2>4, Distances
      <3>3. /\ trade.reason = "STOP_LOSS" <=> trade.mae >= StopDistance
            /\ trade.reason = "TAKE_PROFIT" => trade.mfe >= TakeDistance
            /\ trade.ambiguous <=> trade.mae >= StopDistance /\ trade.mfe >= TakeDistance
        BY <3>1, <2>2, <2>5
      <3>4. trade.reason \in {"DATA_GAP", "TIMEOUT", "END_OF_DATA"} => trade.mfe < TakeDistance
        BY <3>1, <2>2, <2>5, Distances DEF PositionOK
      <3>5. TradeOK(trade, more)
        BY <3>2, <3>3, <3>4 DEF TradeOK
      <3>6. /\ BookOK(Closed(moved, trade), more, t + 1) /\ Closed(moved, trade).pending = None
            /\ Closed(moved, trade).status = "RUNNING" => Closed(moved, trade).position = None
        <4>1. /\ PositionOK(moved.position) /\ TradesOK(moved.trades, more, t + 1)
              /\ \A i \in 1 .. Len(moved.trades) :
                   moved.trades[i].closed_at <= moved.position.opened_at
              /\ trade.opened_at = moved.position.opened_at /\ trade.closed_at <= t + 1
              /\ t + 1 \in Int
          BY <3>1, <2>1, <2>2, <2>3, <1>1 DEF more
        <4> QED
          BY <4>1, <3>5, <2>3, ClosedOK
      <3> QED
        BY <3>6 DEF trade
    <2>6. CASE StopHit(position, c)
      <3>1. AfterEvaluation(b, c, t) = Closed(moved, Trade(position.stop_loss, "STOP_LOSS"))
        BY <1>3, <2>6 DEF AfterEvaluation, position, moved
      <3>2. LET closed == Closed(moved, Trade(position.stop_loss, "STOP_LOSS")) IN
            /\ BookOK(closed, more, t + 1) /\ closed.pending = None
            /\ closed.status = "RUNNING" => closed.position = None
        BY <2>5, <2>6
      <3> QED
        BY <3>1, <3>2 DEF more
    <2>7. CASE ~StopHit(position, c) /\ TakeHit(position, c)
      <3>1. AfterEvaluation(b, c, t) = Closed(moved, Trade(position.take_profit, "TAKE_PROFIT"))
        BY <1>3, <2>7 DEF AfterEvaluation, position, moved
      <3>2. LET closed == Closed(moved, Trade(position.take_profit, "TAKE_PROFIT")) IN
            /\ BookOK(closed, more, t + 1) /\ closed.pending = None
            /\ closed.status = "RUNNING" => closed.position = None
        BY <2>5, <2>7
      <3> QED
        BY <3>1, <3>2 DEF more
    <2>8. CASE /\ ~StopHit(position, c) /\ ~TakeHit(position, c)
               /\ t >= position.opened_at + MaxDuration
      <3>1. AfterEvaluation(b, c, t) =
              Closed(moved, Trade(Executable(position.direction, c.close), "TIMEOUT"))
        BY <1>3, <2>8 DEF AfterEvaluation, position, moved
      <3>2. LET closed == Closed(moved, Trade(Executable(position.direction, c.close), "TIMEOUT")) IN
            /\ BookOK(closed, more, t + 1) /\ closed.pending = None
            /\ closed.status = "RUNNING" => closed.position = None
        BY <2>5, <2>8
      <3> QED
        BY <3>1, <3>2 DEF more
    <2>9. CASE /\ ~StopHit(position, c) /\ ~TakeHit(position, c)
               /\ ~(t >= position.opened_at + MaxDuration)
      <3>1. AfterEvaluation(b, c, t) = moved
        BY <1>3, <2>9 DEF AfterEvaluation, position, moved
      <3>2. Within(position)
        BY <2>2, <2>9, Distances DEF Within, PositionOK
      <3>3. HeldUntil(position, more, t + 1)
        BY <2>4, <2>9, Distances DEF HeldUntil
      <3> QED
        BY <3>1, <3>2, <3>3, <2>1, <2>2, <2>3, <2>4, <1>1 DEF BookOK, more
    <2> QED
      BY <2>6, <2>7, <2>8, <2>9
  <1> QED
    BY <1>2, <1>3

\* A signal is dated at the end of its candle, the opening of the next one.
LEMMA AfterSignalOK ==
  ASSUME NEW b, NEW seen, NEW t \in Int, NEW signal,
         BookOK(b, seen, t + 1), b.pending = None
  PROVE  /\ BookOK(AfterSignal(b, t, signal), seen, t + 1)
         /\ AfterSignal(b, t, signal).position = b.position
         /\ AfterSignal(b, t, signal).status = b.status
  <1>1. CASE AfterSignal(b, t, signal) = b
    BY <1>1
  <1>2. CASE AfterSignal(b, t, signal) # b
    <2>1. signal \in Directions /\ b.status = "RUNNING" /\ b.position = None
      BY <1>2 DEF AfterSignal
    <2>2. AfterSignal(b, t, signal) =
            [position |-> b.position, pending |-> [direction |-> signal, signal_at |-> t + 1],
             balance |-> b.balance, trades |-> b.trades, status |-> b.status]
      BY <1>2, <2>1 DEF AfterSignal, BookOK
    <2> QED
      BY <2>1, <2>2 DEF BookOK
  <1> QED
    BY <1>1, <1>2

----------------------------------------------------------------------------
(* The steps.                                                              *)

\* At first there is nothing in the book.
LEMMA InitBetween == EngineInit => Between
  <1> SUFFICES ASSUME EngineInit PROVE Between
    OBVIOUS
  <1>1. <<>> \in Seq({}) /\ Len(<<>>) = 0
    OBVIOUS
  <1>2. TradesOK(<<>>, {}, 0)
    BY <1>1 DEF TradesOK
  <1> QED
    BY <1>2 DEF EngineInit, Between, BookOK

\* A candle leads from one book between candles to the next.
LEMMA CandleBetween ==
  ASSUME Between, NEW c \in Candles, NEW t \in 0 .. MaxTime, NEW signal, Candle(c, t, signal)
  PROVE  Between'
  <1>1. t \in Int /\ book.status = "RUNNING"
    BY TimesAssumption DEF Candle
  <1>2. PICK checked : checked = AfterGap(book, t)
    OBVIOUS
  <1>3. PICK seen : seen = minutes
    OBVIOUS
  <1>4. BookOK(checked, seen, t) /\ checked.status = "RUNNING"
    BY <1>1, <1>2, <1>3, AfterGapOK DEF Candle
  <1>5. PICK filled : filled = AfterFill(checked, c, t)
    OBVIOUS
  <1>6. BookOK(filled, seen, t) /\ filled.status = "RUNNING" /\ filled.pending = None
    BY <1>1, <1>4, <1>5, AfterFillOK
  <1>7. PICK evaluated : evaluated = AfterEvaluation(filled, c, t)
    OBVIOUS
  <1>8. /\ BookOK(evaluated, seen \cup {t}, t + 1) /\ evaluated.pending = None
        /\ evaluated.status = "RUNNING" /\ evaluated.position # None =>
             evaluated.position.opened_at <= t
    BY <1>1, <1>6, <1>7, AfterEvaluationOK
  <1>9. PICK after : after = AfterSignal(evaluated, t, signal)
    OBVIOUS
  <1>10. /\ BookOK(after, seen \cup {t}, t + 1)
         /\ after.position = evaluated.position /\ after.status = evaluated.status
    BY <1>1, <1>8, <1>9, AfterSignalOK
  <1>11. /\ book' = after /\ minutes' = seen \cup {t}
         /\ previous' = [opened_at |-> t, close |-> c.close]
    BY <1>2, <1>3, <1>5, <1>7, <1>9 DEF Candle, AfterCandle
  <1>12. c.close \in Int /\ previous' # None
    <2>1. c.close \in Int
      BY PricesAssumption
    <2> QED
      BY <2>1, <1>1, <1>11, NoneAssumption
  <1>13. previous'.opened_at = t /\ previous'.close = c.close
    BY <1>11
  <1> QED
    BY <1>1, <1>3, <1>8, <1>10, <1>11, <1>12, <1>13 DEF Between

\* What is open when the data end is closed within its barriers and its time.
LEMMA FinishBetween ==
  ASSUME Between, Finish
  PROVE  Between'
  <1> DEFINE ended == IF previous = None THEN 0 ELSE previous.opened_at + 1
             trade == TradeOf(book.position, previous.opened_at + 1,
                              Executable(book.position.direction, previous.close),
                              "END_OF_DATA", FALSE)
  <1>1. /\ ended \in Int /\ BookOK(book, minutes, ended) /\ book.status = "RUNNING"
        /\ minutes' = minutes /\ previous' = previous
    BY DEF Between, Finish
  <1>2. CASE book.position = None
    <2>1. book' = [position |-> None, pending |-> book.pending, balance |-> book.balance,
                   trades |-> book.trades, status |-> "COMPLETED"]
      BY <1>1, <1>2 DEF Finish, BookOK
    <2> QED
      BY <1>1, <1>2, <2>1 DEF Between, BookOK
  <1>3. CASE book.position # None
    <2>1. book' = [position |-> None, pending |-> book.pending, balance |-> book.balance,
                   trades |-> Append(book.trades, trade), status |-> "COMPLETED"]
      BY <1>1, <1>3 DEF Finish, BookOK
    <2>2. /\ previous # None /\ ended = previous.opened_at + 1
          /\ PositionOK(book.position) /\ Within(book.position)
          /\ HeldUntil(book.position, minutes, ended)
          /\ book.position.opened_at < ended /\ book.pending = None
          /\ \A i \in 1 .. Len(book.trades) : book.trades[i].closed_at <= book.position.opened_at
      BY <1>1, <1>3 DEF BookOK, Between, PositionOK
    <2>3. /\ trade.opened_at = book.position.opened_at /\ trade.closed_at = ended
          /\ trade.signal_at = book.position.signal_at /\ trade.reason = "END_OF_DATA"
          /\ trade.mfe = book.position.mfe /\ trade.mae = book.position.mae
          /\ trade.ambiguous = FALSE
      BY <2>2 DEF TradeOf
    <2> HIDE DEF trade, ended
    <2>4. TradeOK(trade, minutes)
      <3>1. ~(trade.mae >= StopDistance) /\ ~(trade.mfe >= TakeDistance)
            /\ trade.mfe < TakeDistance
        BY <2>2, <2>3, Distances DEF PositionOK, Within
      <3>2. /\ trade.opened_at \in Int /\ trade.closed_at \in Int
            /\ trade.opened_at = trade.signal_at /\ trade.opened_at < trade.closed_at
            /\ trade.opened_at .. trade.closed_at - 1 \subseteq minutes
            /\ trade.closed_at <= trade.opened_at + MaxDuration + 1
        BY <1>1, <2>2, <2>3, Distances DEF PositionOK, HeldUntil
      <3> QED
        BY <3>1, <3>2, <2>3 DEF TradeOK
    <2>5. TradesOK(Append(book.trades, trade), minutes, ended)
      <3>1. TradesOK(book.trades, minutes, ended) /\ trade.closed_at <= ended
        BY <1>1, <2>3 DEF BookOK
      <3> QED
        BY <1>1, <2>2, <2>3, <2>4, <3>1, TradesAppended
    <2> QED
      BY <1>1, <2>1, <2>2, <2>5 DEF Between, BookOK, ended
  <1> QED
    BY <1>2, <1>3

\* A cancelled run keeps its trades.
LEMMA CancelBetween ==
  ASSUME Between, Cancel
  PROVE  Between'
  <1>1. /\ book' = [position |-> book.position, pending |-> book.pending,
                    balance |-> book.balance, trades |-> book.trades, status |-> "CANCELLED"]
        /\ minutes' = minutes /\ previous' = previous
    BY DEF Cancel, Between, BookOK
  <1> QED
    BY <1>1 DEF Between, BookOK

\* Every step of the engine keeps Between.
LEMMA StepBetween == Between /\ [EngineNext]_engine => Between'
  <1> SUFFICES ASSUME Between, [EngineNext]_engine PROVE Between'
    OBVIOUS
  <1>1. ASSUME NEW c \in Candles, NEW t \in 0 .. MaxTime,
               NEW signal \in Directions \cup {"NO_TRADE"}, Candle(c, t, signal)
        PROVE  Between'
    BY <1>1, CandleBetween
  <1>2. CASE Finish
    BY <1>2, FinishBetween
  <1>3. CASE Cancel
    BY <1>3, CancelBetween
  <1>4. CASE UNCHANGED engine
    BY <1>4 DEF Between, engine
  <1> QED
    BY <1>1, <1>2, <1>3, <1>4 DEF EngineNext

\* Between is invariant.
LEMMA AlwaysBetween == EngineSpec => []Between
  BY InitBetween, StepBetween, PTL DEF EngineSpec

----------------------------------------------------------------------------
(* The theorems.                                                           *)

\* At most one position at a time: trades and the open position follow one
\* another and each lasts.
THEOREM EngineOneAtATime == EngineSpec => []OneAtATime
  <1>1. Between => OneAtATime
    <2> SUFFICES ASSUME Between PROVE OneAtATime
      OBVIOUS
    <2>1. PICK now : BookOK(book, minutes, now)
      BY DEF Between
    <2>2. PICK Kinds : book.trades \in Seq(Kinds)
      BY <2>1 DEF BookOK, TradesOK
    <2>3. DOMAIN book.trades = 1 .. Len(book.trades)
      BY <2>2
    <2> QED
      BY <2>1, <2>3 DEF BookOK, TradesOK, TradeOK, OneAtATime
  <1> QED
    BY <1>1, AlwaysBetween, PTL

\* A signal is filled at the opening of the next minute or not at all.
THEOREM EngineFilledAtNextOpen == EngineSpec => []FilledAtNextOpen
  <1>1. Between => FilledAtNextOpen
    <2> SUFFICES ASSUME Between PROVE FilledAtNextOpen
      OBVIOUS
    <2>1. BookOK(book, minutes, IF previous = None THEN 0 ELSE previous.opened_at + 1)
      BY DEF Between
    <2>2. PICK Kinds : book.trades \in Seq(Kinds)
      BY <2>1 DEF BookOK, TradesOK
    <2>3. DOMAIN book.trades = 1 .. Len(book.trades)
      BY <2>2
    <2>4. \A i \in DOMAIN book.trades : book.trades[i].opened_at = book.trades[i].signal_at
      BY <2>1, <2>3 DEF BookOK, TradesOK, TradeOK
    <2>5. book.position # None => book.position.opened_at = book.position.signal_at
      BY <2>1 DEF BookOK, PositionOK
    <2>6. book.pending # None => previous # None /\ book.pending.signal_at = previous.opened_at + 1
      BY <2>1 DEF BookOK, Between
    <2> QED
      BY <2>4, <2>5, <2>6 DEF FilledAtNextOpen
  <1> QED
    BY <1>1, AlwaysBetween, PTL

\* Nothing is held over a minute without a candle or past its time.
THEOREM EngineNeverHeldBlind == EngineSpec => []NeverHeldBlind
  <1>1. Between => NeverHeldBlind
    <2> SUFFICES ASSUME Between PROVE NeverHeldBlind
      OBVIOUS
    <2>1. BookOK(book, minutes, IF previous = None THEN 0 ELSE previous.opened_at + 1)
      BY DEF Between
    <2>2. PICK Kinds : book.trades \in Seq(Kinds)
      BY <2>1 DEF BookOK, TradesOK
    <2>3. DOMAIN book.trades = 1 .. Len(book.trades)
      BY <2>2
    <2>4. \A i \in DOMAIN book.trades :
            /\ book.trades[i].opened_at .. book.trades[i].closed_at - 1 \subseteq minutes
            /\ book.trades[i].closed_at <= book.trades[i].opened_at + MaxDuration + 1
      BY <2>1, <2>3 DEF BookOK, TradesOK, TradeOK
    <2>5. ASSUME book.status = "RUNNING", book.position # None
          PROVE  /\ previous # None
                 /\ book.position.opened_at .. previous.opened_at \subseteq minutes
                 /\ previous.opened_at < book.position.opened_at + MaxDuration
      <3>1. previous # None /\ previous.opened_at \in Int
        BY <2>5 DEF Between
      <3>2. PositionOK(book.position) /\ HeldUntil(book.position, minutes, previous.opened_at + 1)
        BY <2>1, <2>5, <3>1 DEF BookOK
      <3> QED
        BY <3>1, <3>2, Distances DEF HeldUntil, PositionOK
    <2> QED
      BY <2>4, <2>5 DEF NeverHeldBlind
  <1> QED
    BY <1>1, AlwaysBetween, PTL

\* Every exit is explained by the excursions its trade recorded.
THEOREM EngineExitExplained == EngineSpec => []ExitExplained
  <1>1. Between => ExitExplained
    <2> SUFFICES ASSUME Between PROVE ExitExplained
      OBVIOUS
    <2>1. PICK now : BookOK(book, minutes, now)
      BY DEF Between
    <2>2. PICK Kinds : book.trades \in Seq(Kinds)
      BY <2>1 DEF BookOK, TradesOK
    <2>3. DOMAIN book.trades = 1 .. Len(book.trades)
      BY <2>2
    <2>4. \A i \in 1 .. Len(book.trades) : TradeOK(book.trades[i], minutes)
      BY <2>1 DEF BookOK, TradesOK
    <2> QED
      BY <2>3, <2>4 DEF TradeOK, ExitExplained
  <1> QED
    BY <1>1, AlwaysBetween, PTL

----------------------------------------------------------------------------
(* Induction over the natural numbers, and the folds it gives a meaning.   *)

\* A set of natural numbers has a least one.
LEMMA LeastOne ==
  ASSUME NEW T \in SUBSET Nat, T # {}
  PROVE  \E x \in T : \A y \in T : x <= y
  <1>1. IsWellFoundedOn(OpToRel(<, Nat), Nat)
    BY NatLessThanWellFounded
  <1> DEFINE R == OpToRel(<, Nat)
  <1>2. \A m, n \in Nat : m < n => <<m, n>> \in R
    BY DEF OpToRel
  <1> HIDE DEF R
  <1>3. PICK x \in T : \A y \in T : ~ (<<y, x>> \in R)
    BY <1>1, WFMin DEF R
  <1>4. x \in Nat /\ \A y \in T : y \in Nat /\ ~ (y < x)
    BY <1>2, <1>3
  <1> QED
    BY <1>4

\* Induction over the natural numbers, for a set.
LEMMA SetInduction ==
  ASSUME NEW D, 0 \in D, \A n \in Nat : n \in D => n + 1 \in D
  PROVE  \A n \in Nat : n \in D
  <1> SUFFICES ASSUME Nat \ D # {} PROVE FALSE
    OBVIOUS
  <1>1. PICK x \in Nat \ D : \A y \in Nat \ D : x <= y
    BY LeastOne
  <1>2. x - 1 \in Nat /\ ~ (x <= x - 1)
    OBVIOUS
  <1>3. x - 1 \in D
    BY <1>1, <1>2
  <1>4. (x - 1) + 1 = x
    BY <1>1
  <1> QED
    BY <1>2, <1>3, <1>4

\* What the recursion of a fold computes exists: it takes pick[s] out of s, and step[s]
\* is what it does with the result for the rest.
FoldOver(g, D, base, pick, step) ==
  \A s \in SUBSET D : g[s] = IF s = {} THEN base ELSE step[s][g[s \ {pick[s]}]]

LEMMA FoldExists ==
  ASSUME NEW D, IsFiniteSet(D), NEW V, NEW base \in V,
         NEW pick, \A s \in SUBSET D : s # {} => pick[s] \in s,
         NEW step, \A s \in SUBSET D, v \in V : step[s][v] \in V
  PROVE  \E g \in [SUBSET D -> V] : FoldOver(g, D, base, pick, step)
  <1> DEFINE Small(k) == {s \in SUBSET D : Cardinality(s) <= k}
             Is(g, k) == \A s \in Small(k) :
                           g[s] = IF s = {} THEN base ELSE step[s][g[s \ {pick[s]}]]
             Done == {k \in Nat : \E g \in [Small(k) -> V] : Is(g, k)}
  <1>1. \A s \in SUBSET D : IsFiniteSet(s) /\ Cardinality(s) \in Nat /\ Cardinality(s) <= Cardinality(D)
    BY FS_Subset, FS_CardinalityType
  <1>2. 0 \in Done
    <2> DEFINE g == [s \in Small(0) |-> base]
    <2>1. \A s \in Small(0) : s = {}
      BY <1>1, FS_EmptySet
    <2>2. g \in [Small(0) -> V] /\ Is(g, 0)
      BY <2>1
    <2> QED
      BY <2>2
  <1>3. ASSUME NEW k \in Nat, k \in Done PROVE k + 1 \in Done
    <2>1. PICK g \in [Small(k) -> V] : Is(g, k)
      BY <1>3
    <2> DEFINE h == [s \in Small(k + 1) |->
                       IF s \in Small(k) THEN g[s] ELSE step[s][g[s \ {pick[s]}]]]
    <2>2. ASSUME NEW s \in Small(k + 1), s # {}
          PROVE  s \ {pick[s]} \in Small(k) /\ s \ {pick[s]} \in Small(k + 1)
      <3>1. Cardinality(s \ {pick[s]}) = Cardinality(s) - 1
        BY <1>1, <2>2, FS_RemoveElement
      <3>2. Cardinality(s) \in Nat /\ Cardinality(s) <= k + 1
        BY <1>1
      <3> QED
        BY <3>1, <3>2
    <2>3. ASSUME NEW s \in Small(k + 1) PROVE h[s] \in V
      <3>1. CASE s \in Small(k)
        BY <3>1
      <3>2. CASE s \notin Small(k)
        <4>1. s # {}
          BY <3>2, <1>1, FS_EmptySet
        <4> QED
          BY <2>2, <3>2, <4>1
      <3> QED
        BY <3>1, <3>2
    <2>4. ASSUME NEW s \in Small(k + 1)
          PROVE  h[s] = IF s = {} THEN base ELSE step[s][h[s \ {pick[s]}]]
      <3>1. CASE s = {}
        <4>1. s \in Small(k)
          BY <3>1, FS_EmptySet
        <4> QED
          BY <2>1, <3>1, <4>1
      <3>2. CASE s # {}
        <4>1. h[s \ {pick[s]}] = g[s \ {pick[s]}]
          BY <2>2, <3>2
        <4>2. s \in Small(k) => g[s] = step[s][g[s \ {pick[s]}]]
          BY <2>1, <3>2
        <4> QED
          BY <3>2, <4>1, <4>2
      <3> QED
        BY <3>1, <3>2
    <2>5. h \in [Small(k + 1) -> V] /\ Is(h, k + 1)
      BY <2>3, <2>4
    <2>6. k + 1 \in Nat
      OBVIOUS
    <2> HIDE DEF h, Is, Small
    <2> QED
      BY <2>5, <2>6
  <1>4. \A k \in Nat : k \in Done
    <2> HIDE DEF Done
    <2> QED
      BY <1>2, <1>3, SetInduction
  <1>5. Small(Cardinality(D)) = SUBSET D /\ Cardinality(D) \in Nat
    BY <1>1
  <1>6. PICK g \in [Small(Cardinality(D)) -> V] : Is(g, Cardinality(D))
    <2> HIDE DEF Is, Small
    <2> QED
      BY <1>4, <1>5
  <1> QED
    BY <1>5, <1>6 DEF FoldOver

----------------------------------------------------------------------------
(* Sums.                                                                   *)

Picked(s) == CHOOSE x \in s : TRUE

\* h has the sums of f over every part of D.
SumsTo(h, f, D) ==
  \A s \in SUBSET D : h[s] = IF s = {} THEN 0 ELSE f[Picked(s)] + h[s \ {Picked(s)}]

\* Sums over D depend on what is summed there, and on nothing else.
LEMMA SumSame ==
  ASSUME NEW D, IsFiniteSet(D), NEW f1, NEW f2, \A x \in D : f1[x] = f2[x],
         NEW h1, NEW h2, SumsTo(h1, f1, D), SumsTo(h2, f2, D)
  PROVE  \A s \in SUBSET D : h1[s] = h2[s]
  <1> DEFINE Done == {k \in Nat : \A s \in SUBSET D : Cardinality(s) = k => h1[s] = h2[s]}
  <1>1. \A s \in SUBSET D : IsFiniteSet(s) /\ Cardinality(s) \in Nat
    BY FS_Subset, FS_CardinalityType
  <1>2. 0 \in Done
    BY <1>1, FS_EmptySet DEF SumsTo
  <1>3. ASSUME NEW k \in Nat, k \in Done PROVE k + 1 \in Done
    <2>1. ASSUME NEW s \in SUBSET D, Cardinality(s) = k + 1 PROVE h1[s] = h2[s]
      <3>1. s # {}
        BY <2>1, FS_EmptySet
      <3>2. Picked(s) \in s
        BY <3>1 DEF Picked
      <3> DEFINE rest == s \ {Picked(s)}
      <3>3. Cardinality(rest) = k /\ rest \in SUBSET D
        BY <1>1, <2>1, <3>2, FS_RemoveElement
      <3>4. h1[rest] = h2[rest]
        BY <1>3, <3>3
      <3>5. h1[s] = f1[Picked(s)] + h1[rest] /\ h2[s] = f2[Picked(s)] + h2[rest]
        BY <3>1 DEF SumsTo
      <3> QED
        BY <3>2, <3>4, <3>5
    <2> QED
      BY <2>1
  <1>4. \A k \in Nat : k \in Done
    <2> HIDE DEF Done
    <2> QED
      BY <1>2, <1>3, SetInduction
  <1> QED
    BY <1>1, <1>4

\* The library's sum is one of them.
LEMMA SumExists ==
  ASSUME NEW D, IsFiniteSet(D), NEW f, \A x \in D : f[x] \in Int
  PROVE  \E h : SumsTo(h, f, D) /\ SumFunctionOnSet(f, D) = h[D] /\ \A s \in SUBSET D : h[s] \in Int
  <1> DEFINE pick == [s \in SUBSET D |-> Picked(s)]
             step == [s \in SUBSET D |-> [v \in Int |-> f[Picked(s)] + v]]
             Is(h) == h = [s \in SUBSET D |->
                             IF s = {} THEN 0 ELSE f[Picked(s)] + h[s \ {Picked(s)}]]
             iter == CHOOSE h : Is(h)
  <1>1. \A s \in SUBSET D : s # {} => Picked(s) \in s
    BY DEF Picked
  <1>2. \A s \in SUBSET D, v \in Int : s # {} => step[s][v] \in Int
    BY <1>1
  <1> DEFINE typed == [s \in SUBSET D |-> IF s = {} THEN [v \in Int |-> v] ELSE step[s]]
  <1>3. \A s \in SUBSET D, v \in Int : typed[s][v] \in Int
    BY <1>2
  <1>4. PICK g \in [SUBSET D -> Int] : FoldOver(g, D, 0, pick, typed)
    <2>1. \A s \in SUBSET D : s # {} => pick[s] \in s
      BY <1>1
    <2> DEFINE V == Int
    <2>2. 0 \in V /\ \A s \in SUBSET D, v \in V : typed[s][v] \in V
      <3> HIDE DEF typed
      <3> QED
        BY <1>3
    <2> HIDE DEF pick, typed, V
    <2>3. \E g \in [SUBSET D -> V] : FoldOver(g, D, 0, pick, typed)
      BY <2>1, <2>2, FoldExists
    <2> QED
      BY <2>3 DEF V
  <1>5. SumsTo(g, f, D)
    BY <1>4 DEF FoldOver, SumsTo
  <1>6. Is(g)
    BY <1>4, <1>5 DEF SumsTo
  <1>7. Is(iter)
    <2> HIDE DEF Is
    <2> QED
      BY <1>6
  <1>8. SumsTo(iter, f, D)
    <2> HIDE DEF iter
    <2> QED
      BY <1>7 DEF SumsTo
  <1>9. \A s \in SUBSET D : iter[s] = g[s]
    <2> HIDE DEF iter
    <2> QED
      BY <1>5, <1>8, SumSame
  <1>10. SumFunctionOnSet(f, D) = iter[D]
    BY DEF SumFunctionOnSet, FoldFunctionOnSet, MapThenFoldSet, Picked
  <1> HIDE DEF iter
  <1> QED
    BY <1>4, <1>8, <1>9, <1>10

\* A sum is a number; that of nothing is 0; it is that of the values.
LEMMA SumFacts ==
  ASSUME NEW D, IsFiniteSet(D), NEW f, \A x \in D : f[x] \in Int
  PROVE  /\ SumFunctionOnSet(f, D) \in Int
         /\ SumFunctionOnSet(f, {}) = 0
         /\ \A g : (\A x \in D : g[x] = f[x]) => SumFunctionOnSet(g, D) = SumFunctionOnSet(f, D)
  <1>1. PICK h : SumsTo(h, f, D) /\ SumFunctionOnSet(f, D) = h[D] /\ \A s \in SUBSET D : h[s] \in Int
    BY SumExists
  <1>2. SumFunctionOnSet(f, {}) = 0
    <2>1. PICK e : SumsTo(e, f, {}) /\ SumFunctionOnSet(f, {}) = e[{}]
      BY SumExists, FS_EmptySet
    <2> QED
      BY <2>1 DEF SumsTo
  <1>3. ASSUME NEW g, \A x \in D : g[x] = f[x]
        PROVE  SumFunctionOnSet(g, D) = SumFunctionOnSet(f, D)
    <2>1. PICK e : SumsTo(e, g, D) /\ SumFunctionOnSet(g, D) = e[D]
      BY <1>3, SumExists
    <2> QED
      BY <1>1, <1>3, <2>1, SumSame
  <1> QED
    BY <1>1, <1>2, <1>3

\* It does not matter what is taken out first.
LEMMA SumAdd ==
  ASSUME NEW D, IsFiniteSet(D), NEW x, x \notin D, NEW f, \A y \in D \cup {x} : f[y] \in Int
  PROVE  SumFunctionOnSet(f, D \cup {x}) = SumFunctionOnSet(f, D) + f[x]
  <1> DEFINE U == D \cup {x}
  <1>1. IsFiniteSet(U) /\ \A y \in U : f[y] \in Int
    BY FS_AddElement
  <1> HIDE DEF U
  <1>2. PICK h : SumsTo(h, f, U) /\ SumFunctionOnSet(f, U) = h[U] /\ \A s \in SUBSET U : h[s] \in Int
    BY <1>1, SumExists
  <1>3. SumFunctionOnSet(f, D) = h[D]
    <2>1. PICK e : SumsTo(e, f, D) /\ SumFunctionOnSet(f, D) = e[D]
      BY SumExists
    <2>2. SumsTo(h, f, D)
      BY <1>2 DEF SumsTo, U
    <2> QED
      BY <2>1, <2>2, SumSame
  <1> DEFINE Done == {k \in Nat : \A s \in SUBSET U : Cardinality(s) = k =>
                                    \A y \in s : h[s] = f[y] + h[s \ {y}]}
  <1>4. \A s \in SUBSET U : IsFiniteSet(s) /\ Cardinality(s) \in Nat
    BY <1>1, FS_Subset, FS_CardinalityType
  <1>5. 0 \in Done
    BY <1>4, FS_EmptySet
  <1>6. ASSUME NEW k \in Nat, k \in Done PROVE k + 1 \in Done
    <2>1. ASSUME NEW s \in SUBSET U, Cardinality(s) = k + 1, NEW y \in s
          PROVE  h[s] = f[y] + h[s \ {y}]
      <3> DEFINE z == Picked(s)
      <3>1. z \in s
        BY DEF Picked
      <3>2. h[s] = f[z] + h[s \ {z}]
        BY <2>1, <3>1, <1>2 DEF SumsTo
      <3>3. CASE z = y
        BY <3>2, <3>3
      <3>4. CASE z # y
        <4> HIDE DEF z
        <4>1. Cardinality(s \ {z}) = k /\ Cardinality(s \ {y}) = k
          BY <1>4, <2>1, <3>1, FS_RemoveElement
        <4>2. h[s \ {z}] = f[y] + h[(s \ {z}) \ {y}] /\ h[s \ {y}] = f[z] + h[(s \ {y}) \ {z}]
          <5>1. \A t \in SUBSET U : Cardinality(t) = k => \A w \in t : h[t] = f[w] + h[t \ {w}]
            BY <1>6
          <5>2. s \ {z} \in SUBSET U /\ s \ {y} \in SUBSET U /\ y \in s \ {z} /\ z \in s \ {y}
            BY <3>1, <3>4
          <5> QED
            BY <4>1, <5>1, <5>2
        <4> DEFINE rest == (s \ {y}) \ {z}
        <4>3. (s \ {z}) \ {y} = rest /\ rest \in SUBSET U
          OBVIOUS
        <4>4. f[y] \in Int /\ f[z] \in Int /\ h[rest] \in Int
          BY <1>1, <1>2, <3>1, <4>3
        <4>5. h[s \ {z}] = f[y] + h[rest] /\ h[s \ {y}] = f[z] + h[rest]
          BY <4>2, <4>3
        <4> HIDE DEF rest
        <4> QED
          BY <3>2, <4>4, <4>5
      <3> QED
        BY <3>3, <3>4
    <2> QED
      BY <2>1
  <1>7. \A k \in Nat : k \in Done
    <2> HIDE DEF Done
    <2> QED
      BY <1>5, <1>6, SetInduction
  <1>8. h[U] = f[x] + h[U \ {x}] /\ U \ {x} = D
    BY <1>4, <1>7 DEF U
  <1>9. h[D] \in Int /\ f[x] \in Int
    BY <1>1, <1>2 DEF U
  <1>10. SumFunctionOnSet(f, U) = SumFunctionOnSet(f, D) + f[x]
    <2> HIDE DEF Done
    <2>1. h[U] = f[x] + h[D]
      BY <1>8
    <2>2. f[x] + h[D] = h[D] + f[x]
      BY <1>9
    <2> QED
      BY <1>2, <1>3, <2>1, <2>2
  <1> QED
    BY <1>10 DEF U

\* The sum over two parts that share nothing.
LEMMA SumUnion ==
  ASSUME NEW A, IsFiniteSet(A), NEW B, IsFiniteSet(B), A \cap B = {},
         NEW f, \A x \in A \cup B : f[x] \in Int
  PROVE  SumFunctionOnSet(f, A \cup B) = SumFunctionOnSet(f, A) + SumFunctionOnSet(f, B)
  <1> DEFINE Total(s) == SumFunctionOnSet(f, s)
             Done == {k \in Nat : \A s \in SUBSET B : Cardinality(s) = k =>
                                    Total(A \cup s) = Total(A) + Total(s)}
  <1>1. \A s \in SUBSET B : IsFiniteSet(s) /\ Cardinality(s) \in Nat /\ IsFiniteSet(A \cup s)
    BY FS_Subset, FS_CardinalityType, FS_Union
  <1>2. Total(A) \in Int /\ Total({}) = 0 /\ \A s \in SUBSET B : Total(s) \in Int
    BY <1>1, SumFacts
  <1>3. 0 \in Done
    <2>1. \A s \in SUBSET B : Cardinality(s) = 0 => s = {}
      BY <1>1, FS_EmptySet
    <2>2. Total(A \cup {}) = Total(A) + Total({})
      BY <1>2
    <2> QED
      BY <2>1, <2>2
  <1>4. ASSUME NEW k \in Nat, k \in Done PROVE k + 1 \in Done
    <2>1. ASSUME NEW s \in SUBSET B, Cardinality(s) = k + 1
          PROVE  Total(A \cup s) = Total(A) + Total(s)
      <3>1. PICK x \in s : TRUE
        BY <1>1, <2>1, FS_EmptySet
      <3> DEFINE r == s \ {x}
      <3>2. Cardinality(r) = k /\ r \in SUBSET B /\ s = r \cup {x}
        <4>1. Cardinality(r) = Cardinality(s) - 1
          BY <1>1, FS_RemoveElement
        <4> QED
          BY <2>1, <4>1
      <3> HIDE DEF r
      <3>3. Total(A \cup r) = Total(A) + Total(r)
        BY <1>4, <3>2
      <3>4. x \notin r /\ x \notin A \cup r /\ x \in B
        BY <3>2 DEF r
      <3>5. Total(r \cup {x}) = Total(r) + f[x]
        BY <1>1, <3>2, <3>4, SumAdd
      <3>6. Total((A \cup r) \cup {x}) = Total(A \cup r) + f[x]
        <4>1. \A y \in (A \cup r) \cup {x} : f[y] \in Int
          BY <3>2, <3>4
        <4> QED
          BY <1>1, <3>2, <3>4, <4>1, SumAdd
      <3>7. A \cup s = (A \cup r) \cup {x}
        BY <3>2
      <3>8. Total(r) \in Int /\ f[x] \in Int
        BY <1>2, <3>2, <3>4
      <3> HIDE DEF Total
      <3> QED
        BY <1>2, <3>2, <3>3, <3>5, <3>6, <3>7, <3>8
    <2> QED
      BY <2>1
  <1>5. \A k \in Nat : k \in Done
    <2> HIDE DEF Done
    <2> QED
      BY <1>3, <1>4, SetInduction
  <1> HIDE DEF Total
  <1>6. Total(A \cup B) = Total(A) + Total(B)
    BY <1>1, <1>5
  <1> QED
    BY <1>6 DEF Total

\* Counted by what they have, all are counted.
LEMMA SumCounts ==
  ASSUME NEW I, IsFiniteSet(I), NEW g
  PROVE  SumFunction([r \in {g[i] : i \in I} |-> Cardinality({i \in I : g[i] = r})])
           = Cardinality(I)
  <1> DEFINE R == {g[i] : i \in I}
             f == [r \in R |-> Cardinality({i \in I : g[i] = r})]
             With(s) == {i \in I : g[i] \in s}
             Done == {k \in Nat : \A s \in SUBSET R : Cardinality(s) = k =>
                                    SumFunctionOnSet(f, s) = Cardinality(With(s))}
  <1>1. IsFiniteSet(R)
    <2>1. [i \in I |-> g[i]] \in Surjection(I, R)
      BY DEF Surjection
    <2> QED
      BY <2>1, FS_Surjection
  <1>2. \A J \in SUBSET I : IsFiniteSet(J) /\ Cardinality(J) \in Nat
    BY FS_Subset, FS_CardinalityType
  <1>3. \A s \in SUBSET R : IsFiniteSet(s) /\ Cardinality(s) \in Nat
    BY <1>1, FS_Subset, FS_CardinalityType
  <1>4. \A r \in R : f[r] = Cardinality({i \in I : g[i] = r}) /\ f[r] \in Int
    BY <1>2
  <1> HIDE DEF f
  <1>5. 0 \in Done
    <2>1. \A s \in SUBSET R : Cardinality(s) = 0 => s = {}
      BY <1>3, FS_EmptySet
    <2>2. SumFunctionOnSet(f, {}) = 0
      BY <1>1, <1>4, SumFacts
    <2>3. Cardinality(With({})) = 0
      BY FS_EmptySet
    <2> QED
      BY <2>1, <2>2, <2>3
  <1>6. ASSUME NEW k \in Nat, k \in Done PROVE k + 1 \in Done
    <2>1. ASSUME NEW s \in SUBSET R, Cardinality(s) = k + 1
          PROVE  SumFunctionOnSet(f, s) = Cardinality(With(s))
      <3>1. PICK x \in s : TRUE
        BY <2>1, FS_EmptySet
      <3> DEFINE r == s \ {x}
                 J == With(r)
                 K == {i \in I : g[i] = x}
      <3>2. Cardinality(r) = k /\ r \in SUBSET R /\ s = r \cup {x} /\ x \notin r /\ x \in R
        <4>1. Cardinality(r) = Cardinality(s) - 1
          BY <1>3, FS_RemoveElement
        <4> QED
          BY <2>1, <4>1
      <3>3. With(s) = J \cup K /\ J \cap K = {} /\ J \in SUBSET I /\ K \in SUBSET I
        BY <3>2
      <3>4. Cardinality(J \cup K) = Cardinality(J) + Cardinality(K)
        <4>1. Cardinality(J \cup K) = Cardinality(J) + Cardinality(K) - Cardinality(J \cap K)
          <5> HIDE DEF J, K
          <5> QED
            BY <1>2, <3>3, FS_Union
        <4>2. Cardinality(J \cap K) = 0
          BY <3>3, FS_EmptySet
        <4>3. Cardinality(J) \in Nat /\ Cardinality(K) \in Nat
          BY <1>2, <3>3
        <4> HIDE DEF J, K
        <4> QED
          BY <4>1, <4>2, <4>3
      <3>5. SumFunctionOnSet(f, r) = Cardinality(J)
        BY <1>6, <3>2
      <3>6. SumFunctionOnSet(f, r \cup {x}) = SumFunctionOnSet(f, r) + f[x]
        <4> HIDE DEF r, R
        <4> QED
          BY <1>3, <1>4, <3>2, SumAdd
      <3>7. f[x] = Cardinality(K)
        BY <1>4, <3>2
      <3> HIDE DEF r, J, K, With
      <3> QED
        BY <3>2, <3>3, <3>4, <3>5, <3>6, <3>7
    <2> QED
      BY <2>1
  <1>7. \A k \in Nat : k \in Done
    <2> HIDE DEF Done
    <2> QED
      BY <1>5, <1>6, SetInduction
  <1>8. SumFunctionOnSet(f, R) = Cardinality(With(R)) /\ With(R) = I
    BY <1>3, <1>7
  <1>9. DOMAIN f = R
    BY DEF f
  <1>10. SumFunction(f) = SumFunctionOnSet(f, R)
    BY <1>9 DEF SumFunction
  <1> QED
    BY <1>8, <1>10 DEF f

----------------------------------------------------------------------------
(* The replay and the engine.                                              *)

\* What is no direction leaves the book as "NO_TRADE" does.
LEMMA AnySignal ==
  ASSUME NEW c \in Candles, NEW t \in 0 .. MaxTime, NEW signal, Candle(c, t, signal)
  PROVE  EngineNext
  <1>1. CASE signal \in Directions
    BY <1>1 DEF EngineNext
  <1>2. CASE signal \notin Directions
    <2>1. ASSUME NEW b PROVE AfterSignal(b, t, signal) = AfterSignal(b, t, "NO_TRADE")
      BY <1>2 DEF AfterSignal, Directions
    <2>2. Candle(c, t, "NO_TRADE")
      BY <2>1 DEF Candle, AfterCandle
    <2> QED
      BY <2>2 DEF EngineNext
  <1> QED
    BY <1>1, <1>2

StrategyKnown == strategy \in Strategies

\* The replay of any strategy is a run of the engine.
THEOREM ReplayIsEngine == Spec => EngineSpec
  <1>1. Init => EngineInit /\ StrategyKnown
    BY DEF Init, StrategyKnown
  <1>2. StrategyKnown /\ [Next]_vars => StrategyKnown'
    BY DEF StrategyKnown, Next, Replay, vars
  <1>3. StrategyKnown /\ [Next]_vars => [EngineNext]_engine
    <2> SUFFICES ASSUME StrategyKnown, [Next]_vars PROVE [EngineNext]_engine
      OBVIOUS
    <2>1. ASSUME NEW c \in Input[strategy], NEW t \in 0 .. MaxTime, Replay(c, t)
          PROVE  EngineNext
      <3>1. PICK signal : Candle(c, t, signal)
        BY <2>1 DEF Replay
      <3>2. c \in Candles
        BY InputAssumption DEF StrategyKnown
      <3> QED
        BY <3>1, <3>2, AnySignal
    <2>2. CASE Finish
      BY <2>2 DEF EngineNext
    <2>3. CASE Cancel
      BY <2>3 DEF EngineNext
    <2>4. CASE UNCHANGED vars
      BY <2>4 DEF vars
    <2> QED
      BY <2>1, <2>2, <2>3, <2>4 DEF Next
  <1> QED
    BY <1>1, <1>2, <1>3, PTL DEF Spec, EngineSpec

\* One position at a time, in every backtest.
THEOREM ReplayOneAtATime == Spec => []OneAtATime
  BY ReplayIsEngine, EngineOneAtATime, PTL

\* Fills at the next opening or not at all, in every backtest.
THEOREM ReplayFilledAtNextOpen == Spec => []FilledAtNextOpen
  BY ReplayIsEngine, EngineFilledAtNextOpen, PTL

\* Nothing held blind, in every backtest.
THEOREM ReplayNeverHeldBlind == Spec => []NeverHeldBlind
  BY ReplayIsEngine, EngineNeverHeldBlind, PTL

\* Every exit explained, in every backtest.
THEOREM ReplayExitExplained == Spec => []ExitExplained
  BY ReplayIsEngine, EngineExitExplained, PTL

----------------------------------------------------------------------------
(* The equity, trade by trade.                                             *)

\* A list of trades whose profits are numbers.
Netted(trades) ==
  /\ \E Of : trades \in Seq(Of)
  /\ \A i \in 1 .. Len(trades) : trades[i].net \in Int

\* The net profit of any trades is a number, that of none is 0, and the next
\* trade adds its own.
LEMMA NetFacts ==
  ASSUME NEW trades, Netted(trades)
  PROVE  /\ DOMAIN trades = 1 .. Len(trades) /\ Len(trades) \in Nat
         /\ \A chosen \in SUBSET DOMAIN trades :
              /\ IsFiniteSet(chosen) /\ NetOver(trades, chosen) \in Int
              /\ \A i \in DOMAIN trades \ chosen :
                   NetOver(trades, chosen \cup {i}) = NetOver(trades, chosen) + trades[i].net
         /\ NetOver(trades, {}) = 0
  <1>1. PICK Of : trades \in Seq(Of)
    BY DEF Netted
  <1>2. DOMAIN trades = 1 .. Len(trades) /\ Len(trades) \in Nat
    BY <1>1
  <1> DEFINE f == [i \in DOMAIN trades |-> trades[i].net]
  <1>3. \A i \in DOMAIN trades : f[i] = trades[i].net /\ f[i] \in Int
    BY <1>2 DEF Netted
  <1>4. \A chosen : NetOver(trades, chosen) = SumFunctionOnSet(f, chosen)
    BY DEF NetOver
  <1> HIDE DEF f
  <1>5. \A chosen \in SUBSET DOMAIN trades : IsFiniteSet(chosen)
    <2>1. IsFiniteSet(1 .. Len(trades))
      BY <1>2, FS_Interval
    <2> QED
      BY <1>2, <2>1, FS_Subset
  <1>6. ASSUME NEW chosen \in SUBSET DOMAIN trades
        PROVE  SumFunctionOnSet(f, chosen) \in Int /\ SumFunctionOnSet(f, {}) = 0
    BY <1>3, <1>5, SumFacts
  <1>7. ASSUME NEW chosen \in SUBSET DOMAIN trades, NEW i \in DOMAIN trades \ chosen
        PROVE  SumFunctionOnSet(f, chosen \cup {i}) = SumFunctionOnSet(f, chosen) + trades[i].net
    <2>1. \A y \in chosen \cup {i} : f[y] \in Int
      BY <1>3
    <2>2. SumFunctionOnSet(f, chosen \cup {i}) = SumFunctionOnSet(f, chosen) + f[i]
      BY <1>5, <2>1, SumAdd
    <2> QED
      BY <1>3, <2>2
  <1>8. SumFunctionOnSet(f, {}) = 0
    <2>1. {} \in SUBSET DOMAIN trades
      OBVIOUS
    <2> QED
      BY <1>6, <2>1
  <1> QED
    BY <1>2, <1>4, <1>5, <1>6, <1>7, <1>8

\* The equity starts at the capital and moves by each trade's profit.
LEMMA EquityFacts ==
  ASSUME NEW trades, Netted(trades)
  PROVE  /\ Equity(trades, InitialCapital, 0) = InitialCapital
         /\ \A n \in 0 .. Len(trades) : Equity(trades, InitialCapital, n) \in Int
         /\ \A n \in 1 .. Len(trades) :
              Equity(trades, InitialCapital, n) =
                Equity(trades, InitialCapital, n - 1) + trades[n].net
  <1>1. /\ DOMAIN trades = 1 .. Len(trades) /\ Len(trades) \in Nat
        /\ NetOver(trades, {}) = 0 /\ InitialCapital \in Int
    BY NetFacts, SizingAssumption
  <1>2. \A chosen \in SUBSET DOMAIN trades : NetOver(trades, chosen) \in Int
    BY NetFacts
  <1>3. Equity(trades, InitialCapital, 0) = InitialCapital
    <2>1. 1 .. 0 = {}
      OBVIOUS
    <2> QED
      BY <1>1, <2>1 DEF Equity
  <1>4. ASSUME NEW n \in 0 .. Len(trades)
        PROVE  1 .. n \in SUBSET DOMAIN trades /\ NetOver(trades, 1 .. n) \in Int
    <2>1. 1 .. n \in SUBSET DOMAIN trades
      BY <1>1
    <2> QED
      BY <1>2, <2>1
  <1>5. ASSUME NEW n \in 1 .. Len(trades)
        PROVE  Equity(trades, InitialCapital, n) =
                 Equity(trades, InitialCapital, n - 1) + trades[n].net
    <2>1. n - 1 \in 0 .. Len(trades) /\ n \in DOMAIN trades \ (1 .. n - 1)
          /\ 1 .. n = (1 .. n - 1) \cup {n}
      BY <1>1
    <2>2. NetOver(trades, (1 .. n - 1) \cup {n}) = NetOver(trades, 1 .. n - 1) + trades[n].net
      BY <1>4, <2>1, NetFacts
    <2>3. NetOver(trades, 1 .. n) = NetOver(trades, 1 .. n - 1) + trades[n].net
      BY <2>1, <2>2
    <2>4. NetOver(trades, 1 .. n - 1) \in Int /\ trades[n].net \in Int
      BY <1>4, <2>1 DEF Netted
    <2> QED
      BY <1>1, <2>3, <2>4 DEF Equity
  <1> QED
    BY <1>1, <1>3, <1>4, <1>5 DEF Equity

\* A list with one more trade at its end.
Longer(longer, trades, trade) ==
  /\ Netted(longer) /\ Len(longer) = Len(trades) + 1
  /\ longer[Len(trades) + 1] = trade
  /\ \A i \in 1 .. Len(trades) : longer[i] = trades[i]
  /\ \A n \in 0 .. Len(trades) :
       Equity(longer, InitialCapital, n) = Equity(trades, InitialCapital, n)
  /\ Equity(longer, InitialCapital, Len(trades) + 1) =
       Equity(trades, InitialCapital, Len(trades)) + trade.net

\* A further trade leaves the equity before it as it was.
LEMMA EquityAppended ==
  ASSUME NEW trades, Netted(trades), NEW trade, trade.net \in Int
  PROVE  Longer(Append(trades, trade), trades, trade)
  <1> DEFINE longer == Append(trades, trade)
  <1>1. PICK Of : trades \in Seq(Of)
    BY DEF Netted
  <1> DEFINE Wide == Of \cup {trade}
  <1>2. trades \in Seq(Wide) /\ trade \in Wide
    BY <1>1
  <1> HIDE DEF Wide
  <1>3. /\ longer \in Seq(Wide) /\ Len(longer) = Len(trades) + 1 /\ Len(trades) \in Nat
        /\ longer[Len(trades) + 1] = trade
        /\ \A i \in 1 .. Len(trades) : longer[i] = trades[i]
    BY <1>2
  <1> HIDE DEF longer
  <1>4. \A i \in 1 .. Len(longer) : longer[i].net \in Int
    <2>1. \A i \in 1 .. Len(longer) : i = Len(trades) + 1 \/ i \in 1 .. Len(trades)
      BY <1>3
    <2> QED
      BY <1>3, <2>1 DEF Netted
  <1>5. Netted(longer)
    BY <1>3, <1>4 DEF Netted
  <1>6. ASSUME NEW n \in 0 .. Len(trades)
        PROVE  NetOver(longer, 1 .. n) = NetOver(trades, 1 .. n)
    <2> DEFINE f == [i \in DOMAIN trades |-> trades[i].net]
               g == [i \in DOMAIN longer |-> longer[i].net]
    <2>1. DOMAIN trades = 1 .. Len(trades) /\ DOMAIN longer = 1 .. Len(longer)
      BY <1>5, NetFacts
    <2>2. \A i \in 1 .. n : g[i] = f[i] /\ f[i] \in Int
      <3> SUFFICES ASSUME NEW i \in 1 .. n PROVE g[i] = f[i] /\ f[i] \in Int
        OBVIOUS
      <3>1. i \in 1 .. Len(trades) /\ i \in 1 .. Len(longer)
        BY <1>3
      <3> QED
        BY <1>3, <2>1, <3>1 DEF Netted
    <2> HIDE DEF f, g
    <2>3. SumFunctionOnSet(g, 1 .. n) = SumFunctionOnSet(f, 1 .. n)
      <3>1. IsFiniteSet(1 .. n)
        BY FS_Interval
      <3> QED
        BY <2>2, <3>1, SumFacts
    <2> QED
      BY <2>3 DEF NetOver, f, g
  <1>7. \A n \in 0 .. Len(trades) :
          Equity(longer, InitialCapital, n) = Equity(trades, InitialCapital, n)
    BY <1>6 DEF Equity
  <1>8. Equity(longer, InitialCapital, Len(trades) + 1) =
          Equity(trades, InitialCapital, Len(trades)) + trade.net
    <2> DEFINE n == Len(trades) + 1
    <2>1. n \in 1 .. Len(longer) /\ n - 1 = Len(trades) /\ Len(trades) \in 0 .. Len(trades)
      BY <1>3
    <2>2. Equity(longer, InitialCapital, n) =
            Equity(longer, InitialCapital, n - 1) + longer[n].net
      BY <1>5, <2>1, EquityFacts
    <2> QED
      BY <1>3, <1>7, <2>1, <2>2
  <1> QED
    BY <1>3, <1>5, <1>7, <1>8 DEF longer, Longer

----------------------------------------------------------------------------
(* Every trade is sized for the equity at its entry.                       *)

\* What a trade may risk.
Affordable(risk, equity) == 100 * risk <= RiskPct * equity

\* The balance of a run is its equity; every trade of it, and the position it
\* holds, risk what the equity before them allowed.
Accounted(b) ==
  /\ Netted(b.trades)
  /\ \A i \in 1 .. Len(b.trades) :
       Affordable(b.trades[i].risk, Equity(b.trades, InitialCapital, i - 1))
  /\ b.status = "RUNNING" => b.balance = Equity(b.trades, InitialCapital, Len(b.trades))
  /\ b.status = "RUNNING" /\ b.position # None =>
       b.position.volume \in Int /\ Affordable(StopValue * b.position.volume, b.balance)

\* The types of the constants.
LEMMA Sizes ==
  /\ RiskPct \in Int /\ RiskPct > 0 /\ LotValue \in Int /\ VolumeStep \in Int /\ VolumeStep > 0
  /\ VolumeMax \in Int /\ InitialCapital \in Int /\ Commission \in Int
  /\ StopValue \in Int /\ StopValue > 0
  <1>1. /\ StopDistance \in Nat \ {0} /\ LotValue \in Nat \ {0} /\ Commission \in Nat
        /\ RiskPct \in Nat \ {0} /\ VolumeStep \in Nat \ {0} /\ VolumeMax \in Nat
        /\ InitialCapital \in Nat
    BY PricesAssumption, SizingAssumption
  <1>2. StopDistance * LotValue \in Nat \ {0}
    BY <1>1
  <1> QED
    BY <1>1, <1>2 DEF StopValue

\* The volume is rounded down to the step, so its stop loss costs no more than
\* the share of the balance that may be risked.
LEMMA SizedAffordably ==
  ASSUME NEW balance \in Int, balance > 0
  PROVE  SizedVolume(balance) \in Int /\ Affordable(StopValue * SizedVolume(balance), balance)
  <1> DEFINE allowed == balance * RiskPct
             unit == 100 * StopValue * VolumeStep
             steps == allowed \div unit
             volume == steps * VolumeStep
  <1>1. allowed \in Int /\ unit \in Int /\ unit > 0
    <2>1. 100 * StopValue \in Int /\ 100 * StopValue > 0
      BY Sizes
    <2>2. unit \in Int /\ unit > 0
      BY <2>1, Sizes
    <2> QED
      BY <2>2, Sizes
  <1>2. steps \in Int /\ unit * steps <= allowed
    <2> HIDE DEF allowed, unit
    <2> QED
      BY <1>1
  <1>3. 100 * (StopValue * volume) = unit * steps /\ volume \in Int
    <2> HIDE DEF steps
    <2> QED
      BY <1>2, Sizes
  <1>4. allowed = RiskPct * balance
    BY Sizes
  <1>5. Affordable(StopValue * volume, balance)
    BY <1>2, <1>3, <1>4 DEF Affordable
  <1>6. ASSUME volume > VolumeMax PROVE Affordable(StopValue * VolumeMax, balance)
    <2> HIDE DEF volume
    <2>1. StopValue * VolumeMax <= StopValue * volume
      BY <1>3, <1>6, Sizes
    <2>2. StopValue * VolumeMax \in Int /\ StopValue * volume \in Int /\ RiskPct * balance \in Int
      BY <1>3, Sizes
    <2> QED
      BY <1>5, <2>1, <2>2 DEF Affordable
  <1>7. SizedVolume(balance) = IF volume > VolumeMax THEN VolumeMax ELSE volume
    BY DEF SizedVolume
  <1> HIDE DEF volume
  <1> QED
    BY <1>3, <1>5, <1>6, <1>7, Sizes

\* A trade that closes a position.
Settles(trade, position) ==
  trade.net \in Int /\ trade.risk = StopValue * position.volume

\* The profit of a position closed at a price is a number.
LEMMA TradeSettles ==
  ASSUME NEW position, position.direction \in Directions, position.entry \in Int,
         position.volume \in Int, NEW exit \in Int, NEW at, NEW reason, NEW ambiguous
  PROVE  Settles(TradeOf(position, at, exit, reason, ambiguous), position)
  <1> DEFINE sign == Sign(position.direction)
             paid == exit - sign * Slippage
  <1>1. sign \in Int /\ paid \in Int
    BY Distances DEF Sign
  <1> HIDE DEF sign
  <1>2. sign * (paid - position.entry) \in Int
    BY <1>1
  <1>3. sign * (paid - position.entry) * LotValue \in Int
    BY <1>2, Sizes
  <1>4. sign * (paid - position.entry) * LotValue * position.volume - Commission \in Int
    BY <1>3, Sizes
  <1> QED
    BY <1>4 DEF Settles, TradeOf, Profit, sign

\* A closed position settles the account.
LEMMA ClosedAccounted ==
  ASSUME NEW b, Accounted(b), b.status = "RUNNING",
         Affordable(StopValue * b.position.volume, b.balance),
         b = [position |-> b.position, pending |-> b.pending, balance |-> b.balance,
              trades |-> b.trades, status |-> b.status],
         NEW trade, Settles(trade, b.position)
  PROVE  Accounted(Closed(b, trade))
  <1>1. CASE Rejected(trade)
    <2>1. Closed(b, trade) = [b EXCEPT !.status = "INVALID"]
      BY <1>1 DEF Closed
    <2>2. Closed(b, trade).trades = b.trades /\ Closed(b, trade).status = "INVALID"
      BY <2>1
    <2> QED
      BY <2>2 DEF Longer, Accounted
  <1>2. CASE ~Rejected(trade)
    <2> DEFINE longer == Append(b.trades, trade)
    <2>1. /\ Closed(b, trade).position = None /\ Closed(b, trade).trades = longer
          /\ Closed(b, trade).balance = b.balance + trade.net
      BY <1>2 DEF Closed
    <2>2. Longer(longer, b.trades, trade)
      <3>1. Netted(b.trades) /\ trade.net \in Int
        BY DEF Accounted, Settles
      <3> QED
        BY <3>1, EquityAppended
    <2>3. Len(b.trades) \in Nat
      BY NetFacts DEF Accounted
    <2> HIDE DEF longer
    <2>4. ASSUME NEW i \in 1 .. Len(longer)
          PROVE  Affordable(longer[i].risk, Equity(longer, InitialCapital, i - 1))
      <3>1. CASE i = Len(b.trades) + 1
        <4>1. i - 1 = Len(b.trades) /\ Len(b.trades) \in 0 .. Len(b.trades)
          BY <2>3, <3>1
        <4>2. Equity(longer, InitialCapital, i - 1) = b.balance
          BY <2>2, <4>1 DEF Longer, Accounted
        <4>3. longer[i].risk = StopValue * b.position.volume
          BY <2>2, <3>1 DEF Longer, Settles
        <4> QED
          BY <4>2, <4>3 DEF Accounted
      <3>2. CASE i # Len(b.trades) + 1
        <4>1. i \in 1 .. Len(b.trades) /\ i - 1 \in 0 .. Len(b.trades)
          BY <2>2, <2>3, <3>2 DEF Longer
        <4>2. longer[i] = b.trades[i]
              /\ Equity(longer, InitialCapital, i - 1) = Equity(b.trades, InitialCapital, i - 1)
          BY <2>2, <4>1 DEF Longer
        <4> QED
          BY <4>1, <4>2 DEF Accounted
      <3> QED
        BY <3>1, <3>2
    <2>5. b.balance + trade.net = Equity(longer, InitialCapital, Len(longer))
      BY <2>2 DEF Longer, Accounted
    <2> QED
      BY <2>1, <2>2, <2>4, <2>5 DEF Longer, Accounted
  <1> QED
    BY <1>1, <1>2

\* The gap check settles what it closes.
LEMMA GapAccounted ==
  ASSUME Between, book.status = "RUNNING", Accounted(book), NEW t \in Int
  PROVE  Accounted(AfterGap(book, t))
  <1> DEFINE dropped == [book EXCEPT !.pending = None]
             trade == TradeOf(book.position, previous.opened_at + 1, book.position.stop_loss,
                              "DATA_GAP", FALSE)
  <1>1. PICK seen, now : BookOK(book, seen, now)
    BY DEF Between
  <1>2. dropped = [position |-> book.position, pending |-> None, balance |-> book.balance,
                   trades |-> book.trades, status |-> book.status]
    BY <1>1 DEF BookOK
  <1>3. Accounted(dropped)
    BY <1>2 DEF Accounted
  <1>4. CASE AfterGap(book, t) = book
    BY <1>4
  <1>5. CASE AfterGap(book, t) # book /\ book.position = None
    BY <1>3, <1>5 DEF AfterGap
  <1>6. CASE AfterGap(book, t) # book /\ book.position # None
    <2>1. AfterGap(book, t) = Closed(dropped, trade)
      BY <1>6 DEF AfterGap
    <2>2. Settles(trade, book.position)
      <3>1. book.position.direction \in Directions /\ book.position.entry \in Int
            /\ book.position.volume \in Int /\ book.position.stop_loss \in Int
        <4>1. PositionOK(book.position) /\ book.position.volume \in Int
          BY <1>1, <1>6 DEF BookOK, Accounted
        <4> QED
          BY <4>1, Distances DEF PositionOK, Sign
      <3> HIDE DEF dropped
      <3> QED
        BY <3>1, TradeSettles
    <2>3. /\ dropped.position = book.position /\ dropped.status = "RUNNING"
          /\ dropped = [position |-> dropped.position, pending |-> dropped.pending,
                        balance |-> dropped.balance, trades |-> dropped.trades,
                        status |-> dropped.status]
      BY <1>2
    <2>4. Affordable(StopValue * dropped.position.volume, dropped.balance)
      BY <1>2, <1>6 DEF Accounted
    <2> HIDE DEF dropped, trade
    <2> QED
      BY <1>3, <1>6, <2>1, <2>2, <2>3, <2>4, ClosedAccounted
  <1> QED
    BY <1>4, <1>5, <1>6

\* A position is opened at the size its balance affords.
LEMMA FillAccounted ==
  ASSUME NEW b, NEW seen, NEW t \in Int, NEW c \in Candles, BookOK(b, seen, t),
         b.status = "RUNNING", Accounted(b)
  PROVE  Accounted(AfterFill(b, c, t))
  <1>1. CASE b.position # None \/ b.pending = None
    BY <1>1 DEF AfterFill
  <1>2. CASE b.position = None /\ b.pending # None
    <2> DEFINE opened == IF t - b.pending.signal_at > FillTimeout THEN None
                         ELSE Opened(b.pending, c, t, b.balance)
    <2>1. AfterFill(b, c, t) = [position |-> opened, pending |-> None, balance |-> b.balance,
                                trades |-> b.trades, status |-> "RUNNING"]
      BY <1>2 DEF AfterFill, BookOK
    <2>2. ASSUME opened # None
          PROVE  opened.volume \in Int /\ Affordable(StopValue * opened.volume, b.balance)
      <3>1. opened.volume = SizedVolume(b.balance) /\ ~ (b.balance <= 0)
        BY <2>2 DEF Opened
      <3>2. b.balance \in Int
        <4>1. Len(b.trades) \in 0 .. Len(b.trades)
          BY NetFacts DEF Accounted
        <4> QED
          BY <4>1, EquityFacts DEF Accounted
      <3> HIDE DEF opened
      <3> QED
        BY <3>1, <3>2, SizedAffordably
    <2> HIDE DEF opened
    <2> QED
      BY <2>1, <2>2 DEF Accounted
  <1> QED
    BY <1>1, <1>2

\* So does the evaluation of a candle.
LEMMA EvaluationAccounted ==
  ASSUME NEW b, NEW seen, NEW t \in Int, NEW c \in Candles, BookOK(b, seen, t),
         b.status = "RUNNING", Accounted(b)
  PROVE  Accounted(AfterEvaluation(b, c, t))
  <1>1. CASE b.position = None
    BY <1>1 DEF AfterEvaluation
  <1>2. CASE b.position # None
    <2> DEFINE position == Moved(b.position, c)
               moved == [b EXCEPT !.position = position]
               Trade(exit, reason) ==
                 TradeOf(position, t + 1, exit, reason,
                         StopHit(position, c) /\ TakeHit(position, c))
    <2>1. /\ PositionOK(b.position) /\ b.position.volume \in Int
          /\ Affordable(StopValue * b.position.volume, b.balance)
      BY <1>2 DEF BookOK, Accounted
    <2>2. /\ position.direction = b.position.direction /\ position.entry = b.position.entry
          /\ position.volume = b.position.volume /\ position.stop_loss = b.position.stop_loss
          /\ position.take_profit = b.position.take_profit
      BY <2>1 DEF Moved, PositionOK
    <2>3. /\ position.direction \in Directions /\ position.entry \in Int
          /\ position.volume \in Int /\ position.stop_loss \in Int
          /\ position.take_profit \in Int
          /\ Executable(position.direction, c.close) \in Int
      <3>1. c.close \in Int
        BY PricesAssumption
      <3> QED
        BY <2>1, <2>2, <3>1, Distances DEF PositionOK, Sign, Executable
    <2>4. /\ moved = [position |-> position, pending |-> b.pending, balance |-> b.balance,
                      trades |-> b.trades, status |-> "RUNNING"]
      BY DEF BookOK
    <2>5. /\ moved = [position |-> moved.position, pending |-> moved.pending,
                      balance |-> moved.balance, trades |-> moved.trades,
                      status |-> moved.status]
          /\ moved.position = position /\ moved.status = "RUNNING"
      BY <2>4
    <2> HIDE DEF position
    <2>6. Accounted(moved)
      BY <2>1, <2>2, <2>4 DEF Accounted
    <2>7. Affordable(StopValue * moved.position.volume, moved.balance)
      BY <2>1, <2>2, <2>4
    <2>8. ASSUME NEW exit \in Int, NEW reason PROVE Accounted(Closed(moved, Trade(exit, reason)))
      <3>1. Settles(Trade(exit, reason), position)
        BY <2>3, TradeSettles
      <3> HIDE DEF moved, Trade
      <3> QED
        BY <2>5, <2>6, <2>7, <3>1, ClosedAccounted
    <2>9. \/ AfterEvaluation(b, c, t) = moved
          \/ \E exit \in Int, reason \in CloseReasons :
               AfterEvaluation(b, c, t) = Closed(moved, Trade(exit, reason))
      BY <1>2, <2>3 DEF AfterEvaluation, position, CloseReasons
    <2> HIDE DEF moved, Trade
    <2> QED
      BY <2>6, <2>8, <2>9
  <1> QED
    BY <1>1, <1>2

\* A candle keeps the account.
LEMMA CandleAccounted ==
  ASSUME Between, Accounted(book),
         NEW c \in Candles, NEW t \in 0 .. MaxTime, NEW signal, Candle(c, t, signal)
  PROVE  \E after : book' = after /\ Accounted(after)
  <1>1. t \in Int /\ book.status = "RUNNING"
    BY TimesAssumption DEF Candle
  <1>2. PICK checked : checked = AfterGap(book, t)
    OBVIOUS
  <1>3. PICK seen : seen = minutes
    OBVIOUS
  <1>4. BookOK(checked, seen, t) /\ checked.status = "RUNNING" /\ Accounted(checked)
    BY <1>1, <1>2, <1>3, AfterGapOK, GapAccounted DEF Candle
  <1>5. PICK filled : filled = AfterFill(checked, c, t)
    OBVIOUS
  <1>6. /\ BookOK(filled, seen, t) /\ filled.status = "RUNNING" /\ filled.pending = None
        /\ Accounted(filled)
    BY <1>1, <1>4, <1>5, AfterFillOK, FillAccounted
  <1>7. PICK evaluated : evaluated = AfterEvaluation(filled, c, t)
    OBVIOUS
  <1>8. Accounted(evaluated) /\ BookOK(evaluated, seen \cup {t}, t + 1)
    BY <1>1, <1>6, <1>7, AfterEvaluationOK, EvaluationAccounted
  <1>9. PICK after : after = AfterSignal(evaluated, t, signal)
    OBVIOUS
  <1>10. Accounted(after)
    <2>1. CASE after = evaluated
      BY <1>8, <2>1
    <2>2. CASE after # evaluated
      <3>1. /\ after.trades = evaluated.trades /\ after.balance = evaluated.balance
            /\ after.status = evaluated.status /\ after.position = evaluated.position
        BY <1>8, <1>9, <2>2 DEF AfterSignal, BookOK
      <3> QED
        BY <1>8, <3>1 DEF Accounted
    <2> QED
      BY <2>1, <2>2
  <1>11. book' = after
    BY <1>2, <1>5, <1>7, <1>9 DEF Candle, AfterCandle
  <1> QED
    BY <1>10, <1>11

\* What is closed when the data end was sized like the others.
LEMMA FinishAccounted ==
  ASSUME Between, Accounted(book), Finish
  PROVE  \E after : book' = after /\ Accounted(after)
  <1> DEFINE trade == TradeOf(book.position, previous.opened_at + 1,
                              Executable(book.position.direction, previous.close),
                              "END_OF_DATA", FALSE)
  <1>1. PICK b : b = book
    OBVIOUS
  <1>2. PICK seen, now : BookOK(b, seen, now)
    BY <1>1 DEF Between
  <1>3. b.status = "RUNNING" /\ Accounted(b)
    BY <1>1 DEF Finish
  <1>4. CASE b.position = None
    <2>1. PICK after : after = [b EXCEPT !.status = "COMPLETED", !.position = None]
      OBVIOUS
    <2>2. book' = after
      BY <1>1, <1>4, <2>1, <1>2 DEF Finish, BookOK
    <2>3. after.trades = b.trades /\ after.status = "COMPLETED"
      BY <1>2, <2>1 DEF BookOK
    <2> QED
      BY <1>3, <2>2, <2>3 DEF Accounted
  <1>5. CASE b.position # None
    <2>1. PICK trades : trades = Append(b.trades, trade)
      OBVIOUS
    <2>2. PICK after : after = [b EXCEPT !.status = "COMPLETED", !.position = None,
                                         !.trades = trades]
      OBVIOUS
    <2>3. book' = after
      BY <1>1, <1>5, <2>1, <2>2, <1>2 DEF Finish, BookOK
    <2>4. after.trades = trades /\ after.status = "COMPLETED"
      BY <1>2, <2>2 DEF BookOK
    <2>5. Settles(trade, b.position)
      <3>1. PositionOK(b.position) /\ b.position.volume \in Int
        BY <1>2, <1>3, <1>5 DEF BookOK, Accounted
      <3>2. previous.close \in Int
        BY <1>1, <1>5 DEF Between
      <3>3. PICK exit : exit = Executable(b.position.direction, previous.close)
        OBVIOUS
      <3>4. exit \in Int /\ b.position.direction \in Directions /\ b.position.entry \in Int
        BY <3>1, <3>2, <3>3, Distances DEF PositionOK, Executable, Sign
      <3>5. trade = TradeOf(b.position, previous.opened_at + 1, exit, "END_OF_DATA", FALSE)
        BY <1>1, <3>3
      <3> HIDE DEF trade
      <3> QED
        BY <3>1, <3>4, <3>5, TradeSettles
    <2> HIDE DEF trade
    <2>6. Longer(trades, b.trades, trade)
      <3>1. Netted(b.trades) /\ trade.net \in Int
        BY <1>3, <2>5 DEF Accounted, Settles
      <3> QED
        BY <2>1, <3>1, EquityAppended DEF trade
    <2>7. Len(b.trades) \in Nat
      BY <1>3, NetFacts DEF Accounted
    <2>8. ASSUME NEW i \in 1 .. Len(trades)
          PROVE  Affordable(trades[i].risk, Equity(trades, InitialCapital, i - 1))
      <3>1. CASE i = Len(b.trades) + 1
        <4>1. i - 1 = Len(b.trades) /\ Len(b.trades) \in 0 .. Len(b.trades)
          BY <2>7, <3>1
        <4>2. Equity(trades, InitialCapital, i - 1) = b.balance
          BY <1>3, <2>6, <4>1 DEF Longer, Accounted
        <4>3. trades[i].risk = StopValue * b.position.volume
          BY <2>5, <2>6, <3>1 DEF Longer, Settles
        <4> QED
          BY <1>3, <1>5, <4>2, <4>3 DEF Accounted
      <3>2. CASE i # Len(b.trades) + 1
        <4>1. i \in 1 .. Len(b.trades) /\ i - 1 \in 0 .. Len(b.trades)
          BY <2>6, <2>7, <3>2 DEF Longer
        <4>2. trades[i] = b.trades[i]
              /\ Equity(trades, InitialCapital, i - 1) = Equity(b.trades, InitialCapital, i - 1)
          BY <2>6, <4>1 DEF Longer
        <4> QED
          BY <1>3, <4>1, <4>2 DEF Accounted
      <3> QED
        BY <3>1, <3>2
    <2> QED
      BY <2>3, <2>4, <2>6, <2>8 DEF Longer, Accounted
  <1> QED
    BY <1>4, <1>5

BookAccounted == Accounted(book)

\* Every step of the engine keeps the account.
LEMMA StepAccounted == Between /\ BookAccounted /\ [EngineNext]_engine => BookAccounted'
  <1> SUFFICES ASSUME Between, Accounted(book), [EngineNext]_engine PROVE BookAccounted'
    BY DEF BookAccounted
  <1>1. PICK after : book' = after /\ Accounted(after)
    <2>1. CASE UNCHANGED engine
      BY <2>1 DEF engine
    <2>2. CASE Cancel
      <3>1. PICK b : b = book
        OBVIOUS
      <3>2. PICK after : after = [b EXCEPT !.status = "CANCELLED"]
        OBVIOUS
      <3>3. PICK seen, now : BookOK(b, seen, now)
        BY <3>1 DEF Between
      <3>4. after.trades = b.trades /\ after.status = "CANCELLED"
        BY <3>2, <3>3 DEF BookOK
      <3>5. Accounted(after)
        BY <3>1, <3>4 DEF Accounted
      <3> QED
        BY <2>2, <3>1, <3>2, <3>5 DEF Cancel
    <2>3. CASE Finish
      BY <2>3, FinishAccounted
    <2>4. ASSUME NEW c \in Candles, NEW t \in 0 .. MaxTime,
                 NEW signal \in Directions \cup {"NO_TRADE"}, Candle(c, t, signal)
          PROVE  \E after : book' = after /\ Accounted(after)
      BY <2>4, CandleAccounted
    <2> QED
      BY <2>1, <2>2, <2>3, <2>4 DEF EngineNext
  <1> QED
    BY <1>1 DEF BookAccounted

\* The account is kept in every backtest.
LEMMA AlwaysAccounted == EngineSpec => []BookAccounted
  <1>1. EngineInit => BookAccounted
    <2> SUFFICES ASSUME EngineInit PROVE Accounted(book)
      BY DEF BookAccounted
    <2>1. <<>> \in Seq({}) /\ Len(<<>>) = 0
      OBVIOUS
    <2>2. Netted(<<>>)
      BY <2>1 DEF Netted
    <2>3. Equity(<<>>, InitialCapital, 0) = InitialCapital
      BY <2>2, EquityFacts
    <2> QED
      BY <2>1, <2>2, <2>3 DEF EngineInit, Accounted
  <1> QED
    BY <1>1, AlwaysBetween, StepAccounted, PTL DEF EngineSpec

\* Every trade risks what the equity at its entry allows, in every backtest,
\* for every capital, share, step and cap of the volume.
THEOREM ReplaySizedByEquity == Spec => []SizedByEquity
  <1>1. BookAccounted => SizedByEquity
    <2> SUFFICES ASSUME Accounted(book) PROVE SizedByEquity
      BY DEF BookAccounted
    <2>1. DOMAIN book.trades = 1 .. Len(book.trades)
      BY NetFacts DEF Accounted
    <2> QED
      BY <2>1 DEF Accounted, Affordable, SizedByEquity
  <1> QED
    BY <1>1, AlwaysAccounted, ReplayIsEngine, PTL

----------------------------------------------------------------------------
(* The report is one pass over the trades.                                 *)

\* What is greatest is the maximum, what is least the minimum.
LEMMA MaxIs ==
  ASSUME NEW D \in SUBSET Int, NEW x \in D, \A y \in D : x >= y
  PROVE  Max(D) = x
  <1>1. PICK z : z = Max(D)
    OBVIOUS
  <1>2. z \in D /\ \A y \in D : z >= y
    BY <1>1 DEF Max
  <1>3. z \in Int /\ x \in Int /\ z >= x /\ x >= z
    BY <1>2
  <1> QED
    BY <1>1, <1>3

LEMMA MinIs ==
  ASSUME NEW D \in SUBSET Int, NEW x \in D, \A y \in D : x <= y
  PROVE  Min(D) = x
  <1>1. PICK z : z = Min(D)
    OBVIOUS
  <1>2. z \in D /\ \A y \in D : z <= y
    BY <1>1 DEF Min
  <1>3. z \in Int /\ x \in Int /\ z <= x /\ x <= z
    BY <1>2
  <1> QED
    BY <1>1, <1>3

\* The positions chosen from a list have a last one.
LEMMA LastOne ==
  ASSUME NEW n \in Nat, NEW chosen \in SUBSET (1 .. n), chosen # {}
  PROVE  Max(chosen) \in chosen
  <1> DEFINE T == {n - x : x \in chosen}
  <1>1. T \in SUBSET Nat /\ T # {}
    <2>1. \A x \in chosen : n - x \in Nat
      OBVIOUS
    <2>2. \A d \in T : d \in Nat
      BY <2>1
    <2>3. PICK x \in chosen : TRUE
      OBVIOUS
    <2> QED
      BY <2>2, <2>3
  <1>2. PICK d \in T : \A y \in T : d <= y
    BY <1>1, LeastOne
  <1>3. PICK x \in chosen : d = n - x
    BY <1>2
  <1>4. \A y \in chosen : x >= y
    <2> SUFFICES ASSUME NEW y \in chosen PROVE x >= y
      OBVIOUS
    <2>1. n - x <= n - y
      BY <1>2, <1>3
    <2> QED
      BY <2>1
  <1> QED
    BY <1>4, MaxIs

\* One of finitely many numbers is the least.
LEMMA LowestOf ==
  ASSUME NEW m \in Nat, NEW n \in Nat, m <= n, NEW f, \A i \in m .. n : f[i] \in Int
  PROVE  \E i \in m .. n : \A j \in m .. n : f[i] <= f[j]
  <1> DEFINE Done == {k \in Nat : m + k <= n => \E i \in m .. m + k : \A j \in m .. m + k : f[i] <= f[j]}
  <1>1. 0 \in Done
    <2>1. m \in m .. m + 0 /\ \A j \in m .. m + 0 : j = m
      OBVIOUS
    <2>2. f[m] \in Int
      OBVIOUS
    <2> QED
      BY <2>1, <2>2
  <1>2. ASSUME NEW k \in Nat, k \in Done PROVE k + 1 \in Done
    <2> SUFFICES ASSUME m + (k + 1) <= n
                 PROVE  \E i \in m .. m + (k + 1) : \A j \in m .. m + (k + 1) : f[i] <= f[j]
      OBVIOUS
    <2>1. PICK i \in m .. m + k : \A j \in m .. m + k : f[i] <= f[j]
      BY <1>2
    <2> DEFINE last == m + (k + 1)
    <2>2. /\ last \in m .. n /\ last \in m .. last /\ i \in m .. n /\ i \in m .. last
          /\ \A j \in m .. last : j = last \/ j \in m .. m + k
      OBVIOUS
    <2>3. f[last] \in Int /\ f[i] \in Int /\ \A j \in m .. last : f[j] \in Int
      BY <2>2
    <2>4. CASE f[i] <= f[last]
      BY <2>1, <2>2, <2>4
    <2>5. CASE ~ (f[i] <= f[last])
      BY <2>1, <2>2, <2>3, <2>5
    <2> QED
      BY <2>4, <2>5
  <1>3. \A k \in Nat : k \in Done
    <2> HIDE DEF Done
    <2> QED
      BY <1>1, <1>2, SetInduction
  <1>4. n - m \in Nat /\ m + (n - m) = n
    OBVIOUS
  <1>5. n - m \in Done
    BY <1>3, <1>4
  <1> QED
    BY <1>4, <1>5

\* The running totals after each trade.
TotalsAfter(totals, trades) ==
  /\ totals[0] = EmptyTotals
  /\ \A k \in 1 .. Len(trades) : totals[k] = WithTrade(totals[k - 1], trades[k])

Totals ==
  [cumulative : Int, peak : Int, max_drawdown : Int, losses_in_a_row : Int, max_losses : Int,
   wins_in_a_row : Int, max_wins : Int]

\* A trade's profit keeps the totals numbers.
LEMMA WithTradeTyped ==
  ASSUME NEW totals \in Totals, NEW trade, trade.net \in Int
  PROVE  WithTrade(totals, trade) \in Totals
  <1>1. \A a, b \in Int : AtLeast(a, b) \in Int
    BY DEF AtLeast
  <1> DEFINE cumulative == totals.cumulative + trade.net
             losses == IF trade.net < 0 THEN totals.losses_in_a_row + 1 ELSE 0
             wins == IF trade.net > 0 THEN totals.wins_in_a_row + 1 ELSE 0
             peak == AtLeast(totals.peak, cumulative)
  <1>2. cumulative \in Int /\ losses \in Int /\ wins \in Int
    BY DEF Totals
  <1> HIDE DEF cumulative, losses, wins
  <1>3. peak \in Int
    BY <1>1, <1>2 DEF Totals
  <1> HIDE DEF peak
  <1>4. peak - cumulative \in Int
    BY <1>2, <1>3
  <1>5. AtLeast(totals.max_drawdown, peak - cumulative) \in Int
        /\ AtLeast(totals.max_losses, losses) \in Int /\ AtLeast(totals.max_wins, wins) \in Int
    BY <1>1, <1>2, <1>4 DEF Totals
  <1>6. WithTrade(totals, trade) =
         [cumulative |-> cumulative, peak |-> peak,
          max_drawdown |-> AtLeast(totals.max_drawdown, peak - cumulative),
          losses_in_a_row |-> losses, max_losses |-> AtLeast(totals.max_losses, losses),
          wins_in_a_row |-> wins, max_wins |-> AtLeast(totals.max_wins, wins)]
    BY DEF WithTrade, cumulative, peak, losses, wins
  <1> QED
    BY <1>2, <1>3, <1>5, <1>6 DEF Totals

\* The fold of the report goes through them.
LEMMA TotalsExist ==
  ASSUME NEW trades, Netted(trades)
  PROVE  \E totals : /\ TotalsAfter(totals, trades)
                     /\ FoldLeft(WithTrade, EmptyTotals, trades) = totals[Len(trades)]
                     /\ \A k \in 0 .. Len(trades) : totals[k] \in Totals
  <1> DEFINE n == Len(trades)
             D == DOMAIN trades
             pick == [s \in SUBSET D |-> Max(s)]
             step == [s \in SUBSET D |-> [v \in Totals |->
                        IF s = {} THEN v ELSE WithTrade(v, trades[Max(s)])]]
             Is(g) == g = [s \in SUBSET D |->
                             IF s = {} THEN EmptyTotals
                             ELSE WithTrade(g[s \ {Max(s)}], trades[Max(s)])]
             iter == CHOOSE g : Is(g)
             ByLast(g) == \A s \in SUBSET D :
                            g[s] = IF s = {} THEN EmptyTotals
                                   ELSE WithTrade(g[s \ {Max(s)}], trades[Max(s)])
  <1>1. D = 1 .. n /\ n \in Nat /\ IsFiniteSet(D)
    BY NetFacts
  <1>2. \A s \in SUBSET D : s # {} => Max(s) \in s
    BY <1>1, LastOne
  <1>3. EmptyTotals \in Totals
    BY DEF EmptyTotals, Totals
  <1>4. \A s \in SUBSET D, v \in Totals : step[s][v] \in Totals
    <2> SUFFICES ASSUME NEW s \in SUBSET D, NEW v \in Totals, s # {}
                 PROVE  WithTrade(v, trades[Max(s)]) \in Totals
      OBVIOUS
    <2>1. trades[Max(s)].net \in Int
      BY <1>1, <1>2 DEF Netted
    <2> QED
      BY <2>1, WithTradeTyped
  <1>5. PICK g \in [SUBSET D -> Totals] : FoldOver(g, D, EmptyTotals, pick, step)
    <2>1. \A s \in SUBSET D : s # {} => pick[s] \in s
      BY <1>2
    <2> HIDE DEF pick, step, D
    <2> QED
      BY <1>1, <1>3, <1>4, <2>1, FoldExists
  <1>6. ByLast(g)
    <2> SUFFICES ASSUME NEW s \in SUBSET D
                 PROVE  g[s] = IF s = {} THEN EmptyTotals
                               ELSE WithTrade(g[s \ {Max(s)}], trades[Max(s)])
      OBVIOUS
    <2>1. g[s] = IF s = {} THEN EmptyTotals ELSE step[s][g[s \ {pick[s]}]]
      BY <1>5 DEF FoldOver
    <2>2. s # {} => step[s][g[s \ {pick[s]}]] = WithTrade(g[s \ {Max(s)}], trades[Max(s)])
      <3>1. s \ {Max(s)} \in SUBSET D
        OBVIOUS
      <3>2. g[s \ {Max(s)}] \in Totals
        BY <3>1, <1>5
      <3>3. pick[s] = Max(s)
        OBVIOUS
      <3> HIDE DEF pick
      <3>4. ASSUME s # {}, NEW v \in Totals PROVE step[s][v] = WithTrade(v, trades[Max(s)])
        BY <3>4
      <3> HIDE DEF step
      <3> QED
        BY <3>2, <3>3, <3>4
    <2> QED
      BY <2>1, <2>2
  <1>7. Is(g)
    <2> HIDE DEF D
    <2>1. g = [s \in SUBSET D |-> g[s]]
      BY <1>5
    <2> QED
      BY <1>6, <2>1
  <1>8. Is(iter)
    <2> HIDE DEF Is
    <2> QED
      BY <1>7
  <1>9. ByLast(iter)
    <2> HIDE DEF iter, D
    <2> QED
      BY <1>8
  <1>10. \A k \in 1 .. n : /\ 1 .. k \in SUBSET D /\ 1 .. k # {}
                           /\ Max(1 .. k) = k /\ (1 .. k) \ {k} = 1 .. k - 1
    <2> SUFFICES ASSUME NEW k \in 1 .. n
                 PROVE  /\ 1 .. k \in SUBSET D /\ 1 .. k # {}
                        /\ Max(1 .. k) = k /\ (1 .. k) \ {k} = 1 .. k - 1
      OBVIOUS
    <2>1. 1 .. k \in SUBSET Int /\ k \in 1 .. k /\ \A y \in 1 .. k : k >= y
      BY <1>1
    <2>2. Max(1 .. k) = k
      BY <2>1, MaxIs
    <2> QED
      BY <1>1, <2>1, <2>2
  <1> DEFINE totals == [k \in 0 .. n |-> iter[1 .. k]]
  <1>11. TotalsAfter(totals, trades)
    <2> HIDE DEF iter
    <2>1. totals[0] = EmptyTotals
      <3>1. 1 .. 0 = {} /\ 0 \in 0 .. n
        BY <1>1
      <3> QED
        BY <1>9, <3>1
    <2>2. ASSUME NEW k \in 1 .. n PROVE totals[k] = WithTrade(totals[k - 1], trades[k])
      <3>1. iter[1 .. k] = WithTrade(iter[1 .. k - 1], trades[k])
        BY <1>9, <1>10
      <3>2. k \in 0 .. n /\ k - 1 \in 0 .. n
        BY <1>1
      <3> QED
        BY <3>1, <3>2
    <2> QED
      BY <2>1, <2>2 DEF TotalsAfter
  <1>12. FoldLeft(WithTrade, EmptyTotals, trades) = iter[D]
    BY DEF FoldLeft, MapThenFoldSet
  <1>13. totals[n] = iter[D]
    <2> HIDE DEF iter
    <2> QED
      BY <1>1
  <1> HIDE DEF iter, totals
  <1>14. \A k \in 0 .. n : totals[k] \in Totals
    <2> DEFINE Done == {k \in Nat : k <= n => totals[k] \in Totals}
    <2>1. 0 \in Done
      BY <1>3, <1>11 DEF TotalsAfter
    <2>2. ASSUME NEW k \in Nat, k \in Done PROVE k + 1 \in Done
      <3> SUFFICES ASSUME k + 1 <= n PROVE totals[k + 1] \in Totals
        OBVIOUS
      <3>1. k + 1 \in 1 .. n /\ (k + 1) - 1 = k /\ totals[k] \in Totals
        BY <2>2, <1>1
      <3>2. trades[k + 1].net \in Int
        BY <3>1 DEF Netted
      <3>3. totals[k + 1] = WithTrade(totals[k], trades[k + 1])
        BY <1>11, <3>1 DEF TotalsAfter
      <3> QED
        BY <3>1, <3>2, <3>3, WithTradeTyped
    <2>3. \A k \in Nat : k \in Done
      <3> HIDE DEF Done
      <3> QED
        BY <2>1, <2>2, SetInduction
    <2> QED
      BY <1>1, <2>3
  <1> QED
    BY <1>11, <1>12, <1>13, <1>14

\* What the totals stand for once k trades are in, net being the profit of the
\* first m of them for every m: the highest net so far, the deepest fall of it,
\* the losses at the end, and the longest stretch of losses.
Highest(net, k, peak) ==
  (\E m \in 0 .. k : peak = net[m]) /\ \A m \in 0 .. k : net[m] <= peak

DeepestFall(net, k, fall) ==
  /\ \E m \in 0 .. k : \E j \in m .. k : fall = net[m] - net[j]
  /\ \A m \in 0 .. k : \A j \in m .. k : net[m] - net[j] <= fall

LastLosses(losing, k, n) ==
  n \in 0 .. k /\ (\A i \in k - n + 1 .. k : i \in losing) /\ (n < k => k - n \notin losing)

Stretch(losing, k, n) ==
  n \in 0 .. k /\ \E first \in 1 .. k - n + 1 : \A i \in first .. first + n - 1 : i \in losing

LongestStretch(losing, k, n) ==
  Stretch(losing, k, n) /\ \A other \in 0 .. k : Stretch(losing, k, other) => other <= n

\* The peak of one more trade.
LEMMA HighestNext ==
  ASSUME NEW net, NEW k \in Nat, \A m \in 0 .. k + 1 : net[m] \in Int,
         NEW peak \in Int, Highest(net, k, peak)
  PROVE  Highest(net, k + 1, AtLeast(peak, net[k + 1]))
  <1> DEFINE new == AtLeast(peak, net[k + 1])
  <1>1. /\ k + 1 \in 0 .. k + 1 /\ \A m \in 0 .. k : m \in 0 .. k + 1
        /\ \A m \in 0 .. k + 1 : m = k + 1 \/ m \in 0 .. k
    OBVIOUS
  <1>2. net[k + 1] \in Int /\ new \in Int /\ new >= peak /\ new >= net[k + 1]
        /\ (new = peak \/ new = net[k + 1])
    BY <1>1 DEF AtLeast
  <1>3. \A m \in 0 .. k + 1 : net[m] <= new
    <2> SUFFICES ASSUME NEW m \in 0 .. k + 1 PROVE net[m] <= new
      OBVIOUS
    <2> HIDE DEF new
    <2>1. CASE m = k + 1
      BY <1>2, <2>1
    <2>2. CASE m \in 0 .. k
      <3>1. net[m] <= peak /\ net[m] \in Int
        BY <2>2 DEF Highest
      <3> QED
        BY <1>2, <3>1
    <2> QED
      BY <1>1, <2>1, <2>2
  <1>4. \E m \in 0 .. k + 1 : new = net[m]
    <2> HIDE DEF new
    <2> QED
      BY <1>1, <1>2 DEF Highest
  <1> QED
    BY <1>3, <1>4 DEF Highest

\* A fall that ends at one more trade is the deepest from the peak.
LEMMA DeepestNext ==
  ASSUME NEW net, NEW k \in Nat, \A m \in 0 .. k + 1 : net[m] \in Int,
         NEW fall \in Int, DeepestFall(net, k, fall),
         NEW peak \in Int, Highest(net, k + 1, peak)
  PROVE  DeepestFall(net, k + 1, AtLeast(fall, peak - net[k + 1]))
  <1> DEFINE new == AtLeast(fall, peak - net[k + 1])
  <1>1. /\ k + 1 \in 0 .. k + 1 /\ \A m \in 0 .. k : m \in 0 .. k + 1
        /\ \A m \in 0 .. k + 1 : k + 1 \in m .. k + 1
        /\ \A m \in 0 .. k + 1 : \A j \in m .. k + 1 :
             j \in 0 .. k + 1 /\ (j = k + 1 \/ (m \in 0 .. k /\ j \in m .. k))
        /\ \A m \in 0 .. k : \A j \in m .. k : j \in m .. k + 1
    OBVIOUS
  <1>2. /\ net[k + 1] \in Int /\ new \in Int /\ new >= fall /\ new >= peak - net[k + 1]
        /\ new = fall \/ new = peak - net[k + 1]
    BY <1>1 DEF AtLeast
  <1>3. ASSUME NEW m \in 0 .. k + 1, NEW j \in m .. k + 1 PROVE net[m] - net[j] <= new
    <2> HIDE DEF new
    <2>1. CASE j = k + 1
      <3>1. net[m] <= peak /\ net[m] \in Int
        BY DEF Highest
      <3> QED
        BY <1>2, <2>1, <3>1
    <2>2. CASE m \in 0 .. k /\ j \in m .. k
      <3>1. net[m] - net[j] <= fall /\ net[m] \in Int /\ net[j] \in Int
        BY <1>1, <2>2 DEF DeepestFall
      <3> QED
        BY <1>2, <3>1
    <2> QED
      BY <1>1, <2>1, <2>2
  <1>4. \E m \in 0 .. k + 1 : \E j \in m .. k + 1 : new = net[m] - net[j]
    <2> HIDE DEF new
    <2>1. CASE new = fall
      <3>1. PICK m \in 0 .. k : \E j \in m .. k : fall = net[m] - net[j]
        BY DEF DeepestFall
      <3>2. PICK j \in m .. k : fall = net[m] - net[j]
        BY <3>1
      <3> QED
        BY <1>1, <2>1, <3>2
    <2>2. CASE new = peak - net[k + 1]
      <3>1. PICK m \in 0 .. k + 1 : peak = net[m]
        BY DEF Highest
      <3> QED
        BY <1>1, <2>2, <3>1
    <2> QED
      BY <1>2, <2>1, <2>2
  <1> QED
    BY <1>3, <1>4 DEF DeepestFall

\* One more loss lengthens the losses at the end, anything else ends them.
LEMMA LastLossesNext ==
  ASSUME NEW losing, NEW k \in Nat, NEW n, LastLosses(losing, k, n)
  PROVE  LastLosses(losing, k + 1, IF k + 1 \in losing THEN n + 1 ELSE 0)
  <1>1. n \in 0 .. k
    BY DEF LastLosses
  <1>2. CASE k + 1 \in losing
    <2>1. (k + 1) - (n + 1) = k - n /\ n + 1 \in 0 .. k + 1 /\ (n + 1 < k + 1 => n < k)
      BY <1>1
    <2>2. \A i \in (k + 1) - (n + 1) + 1 .. k + 1 : i = k + 1 \/ i \in k - n + 1 .. k
      BY <1>1
    <2> QED
      BY <1>2, <2>1, <2>2 DEF LastLosses
  <1>3. CASE k + 1 \notin losing
    <2>1. 0 \in 0 .. k + 1 /\ (k + 1) - 0 = k + 1 /\ \A i \in (k + 1) - 0 + 1 .. k + 1 : FALSE
      OBVIOUS
    <2> QED
      BY <1>3, <2>1 DEF LastLosses
  <1> QED
    BY <1>2, <1>3

\* A stretch of losses was there before, or it is among the last ones.
LEMMA LongestNext ==
  ASSUME NEW losing, NEW k \in Nat, NEW n, LongestStretch(losing, k, n),
         NEW last, LastLosses(losing, k + 1, last)
  PROVE  LongestStretch(losing, k + 1, AtLeast(n, last))
  <1> DEFINE new == AtLeast(n, last)
  <1>1. n \in 0 .. k /\ last \in 0 .. k + 1
    BY DEF LongestStretch, Stretch, LastLosses
  <1>2. new \in 0 .. k + 1 /\ new >= n /\ new >= last /\ (new = n \/ new = last)
    BY <1>1 DEF AtLeast
  <1> HIDE DEF new
  <1>3. Stretch(losing, k + 1, n)
    <2>1. PICK first \in 1 .. k - n + 1 : \A i \in first .. first + n - 1 : i \in losing
      BY DEF LongestStretch, Stretch
    <2>2. first \in 1 .. (k + 1) - n + 1 /\ n \in 0 .. k + 1
      BY <1>1
    <2> QED
      BY <2>1, <2>2 DEF Stretch
  <1>4. Stretch(losing, k + 1, last)
    <2> DEFINE first == (k + 1) - last + 1
    <2>1. first \in 1 .. (k + 1) - last + 1 /\ first + last - 1 = k + 1
      BY <1>1
    <2>2. \A i \in first .. first + last - 1 : i \in losing
      BY <2>1 DEF LastLosses
    <2> HIDE DEF first
    <2> QED
      BY <1>1, <2>1, <2>2 DEF Stretch
  <1>5. ASSUME NEW other \in 0 .. k + 1, Stretch(losing, k + 1, other) PROVE other <= new
    <2>1. PICK first \in 1 .. (k + 1) - other + 1 : \A i \in first .. first + other - 1 : i \in losing
      BY <1>5 DEF Stretch
    <2>2. CASE first + other - 1 = k + 1 /\ ~ (other <= last)
      <3>1. last < k + 1 /\ (k + 1) - last \in first .. first + other - 1
        BY <1>1, <2>2
      <3> QED
        BY <2>1, <3>1 DEF LastLosses
    <2>3. CASE first + other - 1 # k + 1
      <3>1. CASE other = 0
        BY <1>2, <3>1
      <3>2. CASE other # 0
        <4>1. other \in 0 .. k /\ first \in 1 .. k - other + 1
          BY <2>3, <3>2
        <4>2. Stretch(losing, k, other)
          BY <2>1, <4>1 DEF Stretch
        <4>3. other <= n
          BY <4>1, <4>2 DEF LongestStretch
        <4> QED
          BY <1>1, <1>2, <4>1, <4>3
      <3> QED
        BY <3>1, <3>2
    <2>4. CASE other <= last
      BY <1>1, <1>2, <2>4
    <2> QED
      BY <2>2, <2>3, <2>4
  <1>6. Stretch(losing, k + 1, new)
    BY <1>2, <1>3, <1>4
  <1> QED
    BY <1>5, <1>6 DEF LongestStretch, new

\* What the totals of k trades say of them.
Mean(totals, net, losing, k) ==
  /\ totals.cumulative = net[k]
  /\ Highest(net, k, totals.peak)
  /\ DeepestFall(net, k, totals.max_drawdown)
  /\ LastLosses(losing, k, totals.losses_in_a_row)
  /\ LongestStretch(losing, k, totals.max_losses)

\* They still do with the next trade.
LEMMA MeanNext ==
  ASSUME NEW totals \in Totals, NEW net, NEW losing, NEW k \in Nat,
         \A m \in 0 .. k + 1 : net[m] \in Int,
         Mean(totals, net, losing, k),
         NEW trade, trade.net \in Int, net[k + 1] = net[k] + trade.net,
         trade.net < 0 <=> k + 1 \in losing
  PROVE  Mean(WithTrade(totals, trade), net, losing, k + 1)
  <1> DEFINE cumulative == totals.cumulative + trade.net
             losses == IF trade.net < 0 THEN totals.losses_in_a_row + 1 ELSE 0
             peak == AtLeast(totals.peak, cumulative)
             fall == AtLeast(totals.max_drawdown, peak - cumulative)
             longest == AtLeast(totals.max_losses, losses)
             new == WithTrade(totals, trade)
  <1>1. /\ new.cumulative = cumulative /\ new.peak = peak /\ new.max_drawdown = fall
        /\ new.losses_in_a_row = losses /\ new.max_losses = longest
    BY DEF WithTrade
  <1> HIDE DEF new
  <1>2. cumulative = net[k + 1]
    BY DEF Mean
  <1>3. totals.peak \in Int /\ totals.max_drawdown \in Int
    BY DEF Totals
  <1>4. Highest(net, k + 1, peak) /\ peak \in Int
    <2>1. Highest(net, k, totals.peak)
      BY DEF Mean
    <2>2. Highest(net, k + 1, AtLeast(totals.peak, net[k + 1]))
      BY <1>3, <2>1, HighestNext
    <2>3. AtLeast(totals.peak, net[k + 1]) \in Int
      <3>1. k + 1 \in 0 .. k + 1
        OBVIOUS
      <3> QED
        BY <1>3, <3>1 DEF AtLeast
    <2> QED
      BY <1>2, <2>2, <2>3
  <1>5. DeepestFall(net, k + 1, fall)
    <2> HIDE DEF peak
    <2>1. DeepestFall(net, k, totals.max_drawdown)
      BY DEF Mean
    <2>2. DeepestFall(net, k + 1, AtLeast(totals.max_drawdown, peak - net[k + 1]))
      BY <1>3, <1>4, <2>1, DeepestNext
    <2> QED
      BY <1>2, <2>2
  <1>6. LastLosses(losing, k + 1, losses)
    <2>1. LastLosses(losing, k, totals.losses_in_a_row)
      BY DEF Mean
    <2>2. LastLosses(losing, k + 1, IF k + 1 \in losing THEN totals.losses_in_a_row + 1 ELSE 0)
      BY <2>1, LastLossesNext
    <2> QED
      BY <2>2
  <1>7. LongestStretch(losing, k + 1, longest)
    <2> HIDE DEF losses
    <2>1. LongestStretch(losing, k, totals.max_losses)
      BY DEF Mean
    <2> QED
      BY <1>6, <2>1, LongestNext
  <1> HIDE DEF cumulative, losses, peak, fall, longest
  <1> QED
    BY <1>1, <1>2, <1>4, <1>5, <1>6, <1>7 DEF Mean, new

\* The net profit after each trade.
NetAfter(trades) == [m \in 0 .. Len(trades) |-> NetOver(trades, 1 .. m)]

\* The totals of the report mean what they should.
LEMMA TotalsMean ==
  ASSUME NEW trades, Netted(trades)
  PROVE  LET totals == FoldLeft(WithTrade, EmptyTotals, trades) IN
         Mean(totals, NetAfter(trades), Losses(trades), Len(trades)) /\ totals \in Totals
  <1> DEFINE n == Len(trades)
             net == NetAfter(trades)
             losing == Losses(trades)
  <1>1. DOMAIN trades = 1 .. n /\ n \in Nat /\ NetOver(trades, {}) = 0
    BY NetFacts
  <1>2. PICK totals : /\ TotalsAfter(totals, trades)
                      /\ FoldLeft(WithTrade, EmptyTotals, trades) = totals[n]
                      /\ \A k \in 0 .. n : totals[k] \in Totals
    BY TotalsExist
  <1>3. \A m \in 0 .. n : net[m] \in Int
    <2>1. \A m \in 0 .. n : 1 .. m \in SUBSET DOMAIN trades
      BY <1>1
    <2> QED
      BY <2>1, NetFacts DEF NetAfter
  <1>4. ASSUME NEW k \in 1 .. n PROVE net[k] = net[k - 1] + trades[k].net
    <2>1. /\ k - 1 \in 0 .. n /\ k \in 0 .. n /\ k \in DOMAIN trades \ (1 .. k - 1)
          /\ 1 .. k = (1 .. k - 1) \cup {k} /\ 1 .. k - 1 \in SUBSET DOMAIN trades
      BY <1>1
    <2>2. NetOver(trades, (1 .. k - 1) \cup {k}) = NetOver(trades, 1 .. k - 1) + trades[k].net
      BY <2>1, NetFacts
    <2>3. NetOver(trades, 1 .. k) = NetOver(trades, 1 .. k - 1) + trades[k].net
      BY <2>1, <2>2
    <2> QED
      BY <2>1, <2>3 DEF NetAfter
  <1>5. net[0] = 0
    <2>1. 1 .. 0 = {} /\ 0 \in 0 .. n
      BY <1>1
    <2> QED
      BY <1>1, <2>1 DEF NetAfter
  <1>6. \A k \in 1 .. n : trades[k].net \in Int /\ (trades[k].net < 0 <=> k \in losing)
    BY <1>1 DEF Netted, Losses
  <1> HIDE DEF net, losing
  <1> DEFINE Done == {k \in Nat : k <= n => Mean(totals[k], net, losing, k)}
  <1>7. 0 \in Done
    <2>1. /\ totals[0].cumulative = 0 /\ totals[0].peak = 0 /\ totals[0].max_drawdown = 0
          /\ totals[0].losses_in_a_row = 0 /\ totals[0].max_losses = 0
      BY <1>2 DEF TotalsAfter, EmptyTotals
    <2>2. \A m : m \in 0 .. 0 <=> m = 0
      OBVIOUS
    <2>3. Highest(net, 0, 0) /\ DeepestFall(net, 0, 0)
      BY <1>5, <2>2 DEF Highest, DeepestFall
    <2>4. LastLosses(losing, 0, 0)
      BY DEF LastLosses
    <2>5. LongestStretch(losing, 0, 0)
      <3>1. 1 \in 1 .. 0 - 0 + 1 /\ \A i \in 1 .. 1 + 0 - 1 : FALSE
        OBVIOUS
      <3>2. Stretch(losing, 0, 0)
        BY <3>1, <2>2 DEF Stretch
      <3>3. \A other \in 0 .. 0 : other <= 0
        OBVIOUS
      <3> QED
        BY <3>2, <3>3 DEF LongestStretch
    <2> QED
      BY <1>5, <2>1, <2>3, <2>4, <2>5 DEF Mean
  <1>8. ASSUME NEW k \in Nat, k \in Done PROVE k + 1 \in Done
    <2> SUFFICES ASSUME k + 1 <= n PROVE Mean(totals[k + 1], net, losing, k + 1)
      OBVIOUS
    <2>1. /\ k + 1 \in 1 .. n /\ (k + 1) - 1 = k /\ k \in 0 .. n
          /\ \A m \in 0 .. k + 1 : m \in 0 .. n
      BY <1>1
    <2>2. totals[k + 1] = WithTrade(totals[k], trades[k + 1])
      BY <1>2, <2>1 DEF TotalsAfter
    <2>3. /\ totals[k] \in Totals /\ Mean(totals[k], net, losing, k)
          /\ net[k + 1] = net[k] + trades[k + 1].net
          /\ trades[k + 1].net \in Int /\ (trades[k + 1].net < 0 <=> k + 1 \in losing)
          /\ \A m \in 0 .. k + 1 : net[m] \in Int
      BY <1>2, <1>3, <1>4, <1>6, <1>8, <2>1
    <2> QED
      BY <2>2, <2>3, MeanNext
  <1>9. \A k \in Nat : k \in Done
    <2> HIDE DEF Done
    <2> QED
      BY <1>7, <1>8, SetInduction
  <1>10. Mean(totals[n], net, losing, n) /\ totals[n] \in Totals
    <2>1. n <= n /\ n \in 0 .. n
      BY <1>1
    <2> QED
      BY <1>1, <1>2, <1>9, <2>1
  <1> QED
    BY <1>2, <1>10 DEF net, losing

\* The deepest fall of the net profit is the drawdown of the equity.
LEMMA DrawdownIs ==
  ASSUME NEW trades, Netted(trades), NEW fall \in Int,
         DeepestFall(NetAfter(trades), Len(trades), fall)
  PROVE  Drawdown(trades, InitialCapital) = fall
  <1> DEFINE n == Len(trades)
             net == NetAfter(trades)
             At(m) == Equity(trades, InitialCapital, m)
             Lowest(m) == Min({At(j) : j \in m .. n})
             Falls == {At(m) - Lowest(m) : m \in 0 .. n}
  <1>1. n \in Nat /\ InitialCapital \in Int
    BY NetFacts, Sizes
  <1>2. \A m \in 0 .. n : At(m) \in Int /\ net[m] \in Int /\ At(m) = InitialCapital + net[m]
    <2> SUFFICES ASSUME NEW m \in 0 .. n
                 PROVE  At(m) \in Int /\ net[m] \in Int /\ At(m) = InitialCapital + net[m]
      OBVIOUS
    <2>1. 1 .. m \in SUBSET DOMAIN trades
      <3>1. DOMAIN trades = 1 .. n
        BY NetFacts
      <3> QED
        BY <1>1, <3>1
    <2>2. NetOver(trades, 1 .. m) \in Int
      BY <2>1, NetFacts
    <2> QED
      BY <1>1, <2>2 DEF Equity, NetAfter
  <1> HIDE DEF net, At
  <1>3. ASSUME NEW m \in 0 .. n
        PROVE  \E j \in m .. n : Lowest(m) = At(j) /\ \A i \in m .. n : At(j) <= At(i)
    <2> DEFINE f == [i \in m .. n |-> At(i)]
    <2>1. m \in Nat /\ m <= n /\ \A i \in m .. n : i \in 0 .. n
      BY <1>1
    <2>2. \A i \in m .. n : f[i] = At(i) /\ f[i] \in Int
      BY <1>2, <2>1
    <2> HIDE DEF f
    <2>3. PICK j \in m .. n : \A i \in m .. n : f[j] <= f[i]
      BY <1>1, <2>1, <2>2, LowestOf
    <2>4. \A i \in m .. n : At(j) <= At(i)
      BY <2>2, <2>3
    <2> DEFINE later == {At(i) : i \in m .. n}
    <2>5. later \in SUBSET Int /\ At(j) \in later /\ \A y \in later : At(j) <= y
      BY <2>2, <2>3, <2>4
    <2>6. Min(later) = At(j)
      <3> HIDE DEF later
      <3> QED
        BY <2>5, MinIs
    <2> QED
      BY <2>4, <2>6
  <1> HIDE DEF Lowest
  <1>4. ASSUME NEW m \in 0 .. n PROVE At(m) - Lowest(m) \in Int /\ At(m) - Lowest(m) <= fall
    <2>1. PICK j \in m .. n : Lowest(m) = At(j)
      BY <1>3
    <2>2. j \in 0 .. n /\ net[m] - net[j] <= fall
      BY <1>1 DEF DeepestFall, net
    <2>3. At(m) - At(j) = net[m] - net[j] /\ At(m) - At(j) \in Int
      BY <1>1, <1>2, <2>2
    <2> QED
      BY <2>1, <2>2, <2>3
  <1>5. \E m \in 0 .. n : fall = At(m) - Lowest(m)
    <2>1. PICK m \in 0 .. n : \E j \in m .. n : fall = net[m] - net[j]
      BY DEF DeepestFall, net
    <2>2. PICK j \in m .. n : fall = net[m] - net[j]
      BY <2>1
    <2>3. PICK low \in m .. n : Lowest(m) = At(low) /\ \A i \in m .. n : At(low) <= At(i)
      BY <1>3
    <2>4. j \in 0 .. n /\ low \in 0 .. n /\ At(low) <= At(j)
      BY <1>1, <2>3
    <2>5. At(m) - Lowest(m) <= fall
      BY <1>4
    <2>6. /\ At(m) \in Int /\ At(low) \in Int /\ At(j) \in Int /\ net[m] \in Int /\ net[j] \in Int
          /\ At(m) = InitialCapital + net[m] /\ At(j) = InitialCapital + net[j]
      BY <1>2, <2>4
    <2>7. fall = At(m) - At(low)
      <3>1. At(m) - At(low) <= fall
        BY <2>3, <2>5
      <3>2. fall = At(m) - At(j)
        BY <1>1, <2>2, <2>6
      <3> QED
        BY <2>4, <2>6, <3>1, <3>2
    <2> QED
      BY <2>3, <2>7
  <1>6. Falls \in SUBSET Int /\ fall \in Falls /\ \A y \in Falls : fall >= y
    <2>1. \A y \in Falls : y \in Int /\ y <= fall
      BY <1>4
    <2> QED
      BY <1>5, <2>1
  <1>7. Max(Falls) = fall
    <2> HIDE DEF Falls
    <2> QED
      BY <1>6, MaxIs
  <1> QED
    BY <1>7 DEF Drawdown, Lowest, At

\* The longest stretch of losses is the report's.
LEMMA LongestLossIs ==
  ASSUME NEW trades, Netted(trades), NEW longest,
         LongestStretch(Losses(trades), Len(trades), longest)
  PROVE  LongestLoss(trades) = longest
  <1> DEFINE n == Len(trades)
             All == {k \in 0 .. n : \E first \in 1 .. n - k + 1 :
                                      \A i \in first .. first + k - 1 : trades[i].net < 0}
  <1>1. n \in Nat /\ DOMAIN trades = 1 .. n
    BY NetFacts
  <1>2. \A k \in 0 .. n : k \in All <=> Stretch(Losses(trades), n, k)
    <2> SUFFICES ASSUME NEW k \in 0 .. n, NEW first \in 1 .. n - k + 1
                 PROVE  (\A i \in first .. first + k - 1 : trades[i].net < 0)
                          <=> \A i \in first .. first + k - 1 : i \in Losses(trades)
      BY DEF Stretch
    <2>1. \A i \in first .. first + k - 1 : i \in 1 .. n
      BY <1>1
    <2> QED
      BY <1>1, <2>1 DEF Losses
  <1>3. All \in SUBSET Int /\ longest \in All /\ \A y \in All : longest >= y
    <2>1. longest \in 0 .. n /\ longest \in All
      BY <1>2 DEF LongestStretch, Stretch
    <2>2. \A y \in All : y \in 0 .. n
      OBVIOUS
    <2> HIDE DEF All
    <2>3. \A y \in All : y <= longest
      BY <1>2, <2>2 DEF LongestStretch
    <2> HIDE DEF n
    <2>4. \A k \in 0 .. n : k \in Int
      BY <1>1
    <2>5. \A y \in All : y \in Int /\ longest >= y
      BY <2>1, <2>2, <2>3, <2>4
    <2> QED
      BY <2>1, <2>5
  <1>4. Max(All) = longest
    <2> HIDE DEF All
    <2> QED
      BY <1>3, MaxIs
  <1> QED
    BY <1>4 DEF LongestLoss

\* What neither wins nor loses adds nothing.
LEMMA NothingAdded ==
  ASSUME NEW trades, Netted(trades)
  PROVE  NetOver(trades, {i \in DOMAIN trades : trades[i].net = 0}) = 0
  <1> DEFINE even == {i \in DOMAIN trades : trades[i].net = 0}
             Done == {k \in Nat : \A s \in SUBSET even : Cardinality(s) = k => NetOver(trades, s) = 0}
  <1>1. /\ NetOver(trades, {}) = 0
        /\ \A s \in SUBSET even : IsFiniteSet(s) /\ Cardinality(s) \in Nat
        /\ \A s \in SUBSET even : \A i \in even \ s :
             NetOver(trades, s \cup {i}) = NetOver(trades, s) + trades[i].net
    <2>1. \A s \in SUBSET even : s \in SUBSET DOMAIN trades
      OBVIOUS
    <2>2. \A s \in SUBSET even : IsFiniteSet(s)
      BY <2>1, NetFacts
    <2>3. \A s \in SUBSET even : \A i \in even \ s :
            NetOver(trades, s \cup {i}) = NetOver(trades, s) + trades[i].net
      BY <2>1, NetFacts
    <2> QED
      BY <2>2, <2>3, NetFacts, FS_CardinalityType
  <1>2. 0 \in Done
    <2>1. \A s \in SUBSET even : Cardinality(s) = 0 => s = {}
      BY <1>1, FS_EmptySet
    <2> QED
      BY <1>1, <2>1
  <1>3. ASSUME NEW k \in Nat, k \in Done PROVE k + 1 \in Done
    <2>1. ASSUME NEW s \in SUBSET even, Cardinality(s) = k + 1 PROVE NetOver(trades, s) = 0
      <3>1. PICK i \in s : TRUE
        BY <2>1, FS_EmptySet
      <3> DEFINE r == s \ {i}
      <3>2. Cardinality(r) = Cardinality(s) - 1
        BY <1>1, FS_RemoveElement
      <3>3. Cardinality(r) = k /\ r \in SUBSET even /\ s = r \cup {i} /\ i \in even \ r
        BY <2>1, <3>2
      <3> HIDE DEF r
      <3>4. NetOver(trades, r) = 0
        BY <1>3, <3>3
      <3>5. NetOver(trades, r \cup {i}) = NetOver(trades, r) + trades[i].net
        BY <1>1, <3>3
      <3>6. trades[i].net = 0
        BY <3>3
      <3> QED
        BY <3>3, <3>4, <3>5, <3>6
    <2> QED
      BY <2>1
  <1>4. \A k \in Nat : k \in Done
    <2> HIDE DEF Done
    <2> QED
      BY <1>2, <1>3, SetInduction
  <1> QED
    BY <1>1, <1>4

\* The report of any trades says what happened.
LEMMA SummarySound ==
  ASSUME NEW trades, Netted(trades)
  PROVE  LET summary == Summary(trades, InitialCapital) IN
         /\ summary.max_drawdown = Drawdown(trades, InitialCapital)
         /\ summary.max_consecutive_losses = LongestLoss(trades)
         /\ summary.final_equity = Equity(trades, InitialCapital, Len(trades))
         /\ summary.net_pnl = summary.gross_profit - summary.gross_loss
         /\ summary.total_trades = SumFunction(summary.close_reason_counts)
  <1> DEFINE n == Len(trades)
             D == DOMAIN trades
             wins == Wins(trades)
             losses == Losses(trades)
             even == {i \in D : trades[i].net = 0}
             counts == [reason \in {trades[i].reason : i \in D} |->
                          Cardinality({i \in D : trades[i].reason = reason})]
             summary == Summary(trades, InitialCapital)
  <1>1. PICK totals : totals = FoldLeft(WithTrade, EmptyTotals, trades)
    OBVIOUS
  <1>2. Mean(totals, NetAfter(trades), losses, n) /\ totals \in Totals
    BY <1>1, TotalsMean
  <1>3. /\ summary.max_drawdown = totals.max_drawdown
        /\ summary.max_consecutive_losses = totals.max_losses
        /\ summary.final_equity = InitialCapital + totals.cumulative
        /\ summary.net_pnl = totals.cumulative
        /\ summary.gross_profit = NetOver(trades, wins)
        /\ summary.gross_loss = -NetOver(trades, losses)
        /\ summary.total_trades = n
        /\ summary.close_reason_counts = counts
    BY <1>1 DEF Summary
  <1> HIDE DEF summary
  <1>4. D = 1 .. n /\ n \in Nat /\ IsFiniteSet(D)
    BY NetFacts
  <1>5. totals.cumulative = NetOver(trades, D)
    <2>1. n \in 0 .. n
      BY <1>4
    <2> QED
      BY <1>2, <1>4, <2>1 DEF Mean, NetAfter
  <1>6. NetOver(trades, D) = NetOver(trades, wins) + NetOver(trades, losses)
    <2> DEFINE f == [i \in D |-> trades[i].net]
               all == wins \cup losses
    <2>1. \A i \in D : trades[i].net \in Int /\ f[i] \in Int
      BY <1>4 DEF Netted
    <2>2. /\ wins \in SUBSET D /\ losses \in SUBSET D /\ even \in SUBSET D
          /\ wins \cap losses = {} /\ all \cap even = {} /\ D = all \cup even
      <3>1. \A i \in D : (i \in wins <=> trades[i].net > 0)
                          /\ (i \in losses <=> trades[i].net < 0)
                          /\ (i \in even <=> trades[i].net = 0)
        BY DEF Wins, Losses
      <3>2. wins \in SUBSET D /\ losses \in SUBSET D /\ even \in SUBSET D
        BY DEF Wins, Losses
      <3> HIDE DEF D, wins, losses, even, f
      <3>3. \A i \in D : ~ (i \in wins /\ i \in losses)
                          /\ ~ ((i \in wins \/ i \in losses) /\ i \in even)
                          /\ (i \in wins \/ i \in losses \/ i \in even)
        BY <2>1, <3>1
      <3> QED
        BY <3>2, <3>3
    <2>3. IsFiniteSet(wins) /\ IsFiniteSet(losses) /\ IsFiniteSet(even) /\ IsFiniteSet(all)
      BY <2>2, NetFacts, FS_Union
    <2>4. \A chosen : NetOver(trades, chosen) = SumFunctionOnSet(f, chosen)
      BY DEF NetOver
    <2> HIDE DEF f, D, wins, losses, even
    <2>5. SumFunctionOnSet(f, all) = SumFunctionOnSet(f, wins) + SumFunctionOnSet(f, losses)
      <3>1. \A i \in wins \cup losses : f[i] \in Int
        BY <2>1, <2>2
      <3> QED
        BY <2>2, <2>3, <3>1, SumUnion
    <2> HIDE DEF all
    <2>6. SumFunctionOnSet(f, all \cup even) = SumFunctionOnSet(f, all) + SumFunctionOnSet(f, even)
      <3>1. \A i \in all \cup even : f[i] \in Int
        BY <2>1, <2>2
      <3> QED
        BY <2>2, <2>3, <3>1, SumUnion
    <2>7. NetOver(trades, even) = 0
      BY NothingAdded DEF even, D
    <2>8. NetOver(trades, wins) \in Int /\ NetOver(trades, losses) \in Int
      BY <2>2, NetFacts DEF D
    <2>9. NetOver(trades, D) = NetOver(trades, all) + 0
      BY <2>2, <2>4, <2>6, <2>7
    <2>10. NetOver(trades, all) = NetOver(trades, wins) + NetOver(trades, losses)
      BY <2>4, <2>5
    <2> QED
      BY <2>8, <2>9, <2>10
  <1>7. SumFunction(counts) = n
    <2> DEFINE g == [i \in D |-> trades[i].reason]
    <2>1. counts = [reason \in {g[i] : i \in D} |-> Cardinality({i \in D : g[i] = reason})]
      <3>1. {g[i] : i \in D} = {trades[i].reason : i \in D}
        OBVIOUS
      <3>2. \A reason : {i \in D : g[i] = reason} = {i \in D : trades[i].reason = reason}
        OBVIOUS
      <3> QED
        BY <3>1, <3>2
    <2>2. SumFunction([reason \in {g[i] : i \in D} |-> Cardinality({i \in D : g[i] = reason})])
            = Cardinality(D)
      <3>1. IsFiniteSet(D)
        BY <1>4
      <3> HIDE DEF g, D
      <3>2. \A h : SumFunction([reason \in {h[i] : i \in D} |->
                                 Cardinality({i \in D : h[i] = reason})]) = Cardinality(D)
        BY <3>1, SumCounts
      <3> QED
        BY <3>2
    <2>3. Cardinality(D) = n
      <3>1. PICK k : k = n
        OBVIOUS
      <3>2. 1 \in Int /\ k \in Int /\ k \in Nat
        BY <1>4, <3>1
      <3>3. Cardinality(1 .. k) = IF 1 > k THEN 0 ELSE k - 1 + 1
        BY <3>2, FS_Interval
      <3>4. Cardinality(1 .. k) = k
        BY <3>2, <3>3
      <3> QED
        BY <1>4, <3>1, <3>4
    <2> QED
      BY <2>1, <2>2, <2>3
  <1>8. totals.max_drawdown = Drawdown(trades, InitialCapital)
    <2>1. totals.max_drawdown \in Int /\ DeepestFall(NetAfter(trades), n, totals.max_drawdown)
      BY <1>2 DEF Totals, Mean
    <2> QED
      BY <2>1, DrawdownIs
  <1>9. totals.max_losses = LongestLoss(trades)
    <2>1. LongestStretch(Losses(trades), n, totals.max_losses)
      BY <1>2 DEF Mean
    <2> QED
      BY <2>1, LongestLossIs
  <1>10. InitialCapital + totals.cumulative = Equity(trades, InitialCapital, n)
    BY <1>4, <1>5 DEF Equity
  <1>11. totals.cumulative = NetOver(trades, wins) - (-NetOver(trades, losses))
    <2>1. wins \in SUBSET D /\ losses \in SUBSET D
      BY DEF Wins, Losses
    <2>2. NetOver(trades, wins) \in Int /\ NetOver(trades, losses) \in Int
      BY <2>1, NetFacts
    <2> QED
      BY <1>5, <1>6, <2>2
  <1> HIDE DEF counts
  <1> QED
    BY <1>3, <1>7, <1>8, <1>9, <1>10, <1>11 DEF summary

\* The report of every completed backtest says what happened.
THEOREM ReplaySummaryAgrees == Spec => []SummaryAgrees
  <1>1. BookAccounted => SummaryAgrees
    <2> SUFFICES ASSUME Netted(book.trades) PROVE SummaryAgrees
      BY DEF BookAccounted, Accounted
    <2>1. PICK trades : trades = book.trades
      OBVIOUS
    <2> QED
      BY <2>1, SummarySound DEF SummaryAgrees
  <1> QED
    BY <1>1, AlwaysAccounted, ReplayIsEngine, PTL
=============================================================================
