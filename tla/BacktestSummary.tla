--------------------------- MODULE BacktestSummary --------------------------
(***************************************************************************)
(* BacktestEngine._summary(): the report of a run, in one pass over its    *)
(* trades, and what its figures mean.                                      *)
(*                                                                         *)
(* The breakdowns by year and month are the one by direction over another  *)
(* key; ratios and averages are quotients of the figures here.             *)
(***************************************************************************)
EXTENDS Integers, Sequences, FiniteSets, SequencesExt, FiniteSetsExt, Functions

AtLeast(a, b) == IF a >= b THEN a ELSE b

\* The running totals of the loop over the trades.
EmptyTotals ==
  [cumulative |-> 0, peak |-> 0, max_drawdown |-> 0, losses_in_a_row |-> 0,
   max_losses |-> 0, wins_in_a_row |-> 0, max_wins |-> 0]

\* (Mutated: the drawdown is from the last equity only.)
WithTradeBeforePeak(totals, trade) ==
  LET cumulative == totals.cumulative + trade.net
      losses == IF trade.net < 0 THEN totals.losses_in_a_row + 1 ELSE 0
      wins == IF trade.net > 0 THEN totals.wins_in_a_row + 1 ELSE 0
  IN [cumulative |-> cumulative, peak |-> cumulative,
      max_drawdown |-> AtLeast(totals.max_drawdown, totals.peak - cumulative),
      losses_in_a_row |-> losses, max_losses |-> AtLeast(totals.max_losses, losses),
      wins_in_a_row |-> wins, max_wins |-> AtLeast(totals.max_wins, wins)]

WithTrade(totals, trade) ==
  LET cumulative == totals.cumulative + trade.net
      peak == AtLeast(totals.peak, cumulative)
      losses == IF trade.net < 0 THEN totals.losses_in_a_row + 1 ELSE 0
      wins == IF trade.net > 0 THEN totals.wins_in_a_row + 1 ELSE 0
  IN [cumulative |-> cumulative, peak |-> peak,
      max_drawdown |-> AtLeast(totals.max_drawdown, peak - cumulative),
      losses_in_a_row |-> losses, max_losses |-> AtLeast(totals.max_losses, losses),
      wins_in_a_row |-> wins, max_wins |-> AtLeast(totals.max_wins, wins)]

\* The trades are chosen by their positions in the list.
Wins(trades) == {i \in DOMAIN trades : trades[i].net > 0}

Losses(trades) == {i \in DOMAIN trades : trades[i].net < 0}

NetOver(trades, chosen) == SumFunctionOnSet([i \in DOMAIN trades |-> trades[i].net], chosen)

Breakdown(trades, chosen) ==
  [trades |-> Cardinality(chosen), net_pnl |-> NetOver(trades, chosen),
   wins |-> Cardinality(chosen \cap Wins(trades))]

Summary(trades, initial_capital) ==
  LET totals == FoldLeft(WithTrade, EmptyTotals, trades)
  IN [total_trades |-> Len(trades),
      wins |-> Cardinality(Wins(trades)), losses |-> Cardinality(Losses(trades)),
      ambiguous_exits |-> Cardinality({i \in DOMAIN trades : trades[i].ambiguous}),
      gross_profit |-> NetOver(trades, Wins(trades)),
      gross_loss |-> -NetOver(trades, Losses(trades)),
      net_pnl |-> totals.cumulative, final_equity |-> initial_capital + totals.cumulative,
      max_drawdown |-> totals.max_drawdown,
      max_consecutive_losses |-> totals.max_losses, max_consecutive_wins |-> totals.max_wins,
      direction_breakdown |->
        [direction \in {trades[i].direction : i \in DOMAIN trades} |->
           Breakdown(trades, {i \in DOMAIN trades : trades[i].direction = direction})],
      close_reason_counts |->
        [reason \in {trades[i].reason : i \in DOMAIN trades} |->
           Cardinality({i \in DOMAIN trades : trades[i].reason = reason})]]

----------------------------------------------------------------------------
(* What the figures mean, over the equity after each trade.                *)

Equity(trades, initial_capital, n) == initial_capital + NetOver(trades, 1 .. n)

\* The deepest fall from an earlier equity to a later one.
Drawdown(trades, initial_capital) ==
  LET At(n) == Equity(trades, initial_capital, n)
  IN Max({At(m) - Min({At(n) : n \in m .. Len(trades)}) : m \in 0 .. Len(trades)})

\* The longest stretch of trades that all lost.
LongestLoss(trades) ==
  Max({n \in 0 .. Len(trades) :
         \E first \in 1 .. Len(trades) - n + 1 :
           \A i \in first .. first + n - 1 : trades[i].net < 0})
=============================================================================
