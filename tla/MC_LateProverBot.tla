--------------------------- MODULE MC_LateProverBot ---------------------------
(* Small instances of LateProverBot for TLC. *)
EXTENDS LateProverBotRefinement, TLC

CONSTANTS r1, r2, v1, v2

(* One request for two validators with different deadlines, and a second   *)
(* one that asks for the first validator again.                            *)
TwoData == r1 :> <<v1, v2>> @@ r2 :> <<v1>>
TwoThreshold == v1 :> 3 @@ v2 :> 5

(* Deadlines so short that several slots are late before the chain stops:  *)
(* the first validator's is that of the delivery, the other one's the next.*)
LiveThreshold == v1 :> 1 @@ v2 :> 3

(* Both validators have been active for long. *)
LongActive == v1 :> 0 @@ v2 :> 0

(* Two requests for one validator each, both activated in epoch 3: neither *)
(* may exit before the shard committee period has passed, which puts them  *)
(* on one deadline slot whenever the requests are delivered before.        *)
OneEach == r1 :> <<v1>> @@ r2 :> <<v2>>
SameThreshold == v1 :> 3 @@ v2 :> 3
JustActivated == v1 :> 3 @@ v2 :> 3

(* Both requests ask for the second validator, at different positions of   *)
(* their data, and deadlines are so short that the slots become old.       *)
Overlapping == r1 :> <<v1, v2>> @@ r2 :> <<v2>>
ShortThreshold == v1 :> 1 @@ v2 :> 1

=============================================================================
