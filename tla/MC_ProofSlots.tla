----------------------------- MODULE MC_ProofSlots ----------------------------
(* A small instance of ProofSlots for TLC. *)
EXTENDS ProofSlots

=============================================================================
