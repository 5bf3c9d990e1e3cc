------------------------ MODULE LateProverBotRefinement -----------------------
(***************************************************************************)
(* The bot keeps the promise of Reporting: how the abstract state is read  *)
(* off the bot and its chains.                                             *)
(***************************************************************************)
EXTENDS LateProverBot

Cases == {c \in Requests \X Validators : c[2] \in pubkeys(decodeValidatorsData(c[1]))}

(* Decided once the deadline slot of a delivered request is finalized. *)
Decided(r, v) == deliveredAt[r] > 0 /\ ExitDeadlineSlot(r, v) <= finalized

verdict ==
    [c \in Cases |->
        IF ~Decided(c[1], c[2]) THEN "open"
        ELSE IF TimelyExit(c[2], ExitDeadlineSlot(c[1], c[2])) THEN "timely"
        ELSE "late"]

filed ==
    {c \in Cases : \E e \in decodeValidatorsData(c[1]) :
                       e.pubkey = c[2] /\ Tracked(c[1], e)}

Promise == INSTANCE Reporting
    WITH inFlight <- mempool, onRecord <- settled

(* README ("generates a Merkle proof", "prevents duplicate submissions"):  *)
(* every step of the bot is a step of Reporting.  A validator is accused   *)
(* only in a case that is decided against it, the decision never changes   *)
(* after the accusation, and a filed case leaves the storage only when it  *)
(* is closed or the process dies - in every step, and not only between     *)
(* cycles.                                                                 *)
KeepsPromise == Promise!Spec

=============================================================================
