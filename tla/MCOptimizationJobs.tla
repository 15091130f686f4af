-------------------------- MODULE MCOptimizationJobs --------------------------
(***************************************************************************)
(* Model-checking instances of OptimizationJobs.  The .cfg files give the  *)
(* constants their values.                                                 *)
(***************************************************************************)
EXTENDS OptimizationJobs

=============================================================================
