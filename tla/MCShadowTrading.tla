--------------------------- MODULE MCShadowTrading ---------------------------
(***************************************************************************)
(* Model-checking instances of ShadowTrading.  The .cfg files give the     *)
(* constants their values; Sessions are interchangeable.                   *)
(***************************************************************************)
EXTENDS ShadowTrading, TLC

SessionSymmetry == Permutations(Sessions)

=============================================================================
