-------------------------- MODULE MC_ScanAndStorage ---------------------------
(* A small instance of ScanAndStorage for TLC. *)
EXTENDS ScanAndStorage, TLC

CONSTANTS r1, r2, r3, v1, v2

(* The first two requests share a validator, at different positions; the   *)
(* third is not submitted by a direct call.                                *)
SharedData == r1 :> <<v1, v2>> @@ r2 :> <<v2>> @@ r3 :> <<v1>>

(* The second validator may not exit before epoch 4: it has one deadline   *)
(* for both requests.                                                      *)
LateActive == v1 :> 0 @@ v2 :> 4
ShortThreshold == v1 :> 1 @@ v2 :> 1

=============================================================================
