---------------------------- MODULE PositionSlots ----------------------------
(***************************************************************************)
(* What the shadow-trading core promises of positions: each bot has one    *)
(* slot; a position takes a free slot, leaves it once, and never comes     *)
(* back.  ShadowTrading implements this with transactions, row locks and   *)
(* column-wise updates.                                                    *)
(***************************************************************************)
EXTENDS Naturals

CONSTANT Bots

VARIABLES
  slot,    \* the position in the slot of each bot, 0 when it is free
  taken    \* the positions each bot has ever had

slots == <<slot, taken>>

Init ==
  /\ slot = [b \in Bots |-> 0]
  /\ taken = [b \in Bots |-> {}]

Take(b) ==
  /\ slot[b] = 0
  /\ slot'[b] \notin taken[b] \cup {0}
  /\ taken'[b] = taken[b] \cup {slot'[b]}

Leave(b) ==
  /\ slot[b] # 0
  /\ slot'[b] = 0
  /\ taken'[b] = taken[b]

Keep(b) ==
  /\ slot'[b] = slot[b]
  /\ taken'[b] = taken[b]

\* One step may serve several bots: a batch is one transaction for all of them.
Next ==
  /\ slot' \in [Bots -> Nat]
  /\ taken' \in [Bots -> SUBSET Nat]
  /\ \A b \in Bots : Take(b) \/ Leave(b) \/ Keep(b)

Spec == Init /\ [][Next]_slots

=============================================================================
