------------------------------ MODULE MC_Execution ------------------------------
(* Small instances of Execution for TLC. *)
EXTENDS ExecutionRefinement

=============================================================================
