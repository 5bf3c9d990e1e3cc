--------------------------- MODULE MC_GasFeeHistory ---------------------------
(* Small instances of GasFeeHistory for TLC. *)
EXTENDS GasFeeHistory

=============================================================================
