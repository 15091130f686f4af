---------------------------- MODULE MCBacktestJobs ----------------------------
(***************************************************************************)
(* Model-checking instances of BacktestJobs.  The .cfg files give the      *)
(* constants their values.                                                 *)
(***************************************************************************)
EXTENDS BacktestJobs

=============================================================================
