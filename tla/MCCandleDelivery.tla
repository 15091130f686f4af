--------------------------- MODULE MCCandleDelivery ---------------------------
(***************************************************************************)
(* Model-checking instances of CandleDelivery.  The .cfg files give the    *)
(* constants their values.                                                 *)
(***************************************************************************)
EXTENDS CandleDelivery

=============================================================================
