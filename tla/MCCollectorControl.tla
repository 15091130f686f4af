-------------------------- MODULE MCCollectorControl --------------------------
(***************************************************************************)
(* Model-checking instance of CollectorControl.  The .cfg file gives the   *)
(* constants their values.                                                 *)
(***************************************************************************)
EXTENDS CollectorControl

=============================================================================
