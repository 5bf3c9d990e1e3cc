-------------------------------- MODULE Storage -------------------------------
(***************************************************************************)
(* ProverService's storage of validators by deadline slot, and what may    *)
(* become of it: requests are filed under the deadlines of their           *)
(* validators, and the cleanup at the end of a cycle keeps, of the slots   *)
(* processed, the validators still in the reported set.                    *)
(*                                                                         *)
(* The Map of arrays is the set of its groups, each with its key.  Pushing *)
(* a group equal to a stored one changes nothing here: the two copies are  *)
(* filtered alike for ever, so only how often a validator is listed is     *)
(* abstracted, not which validators are, nor whose request leads the slot. *)
(* ScanAndStorage has the arrays, and implements this.                     *)
(***************************************************************************)
EXTENDS Chain

CONSTANTS
    Faults,    \* the kinds of failure that may happen
    LOOKBACK   \* START_LOOKBACK_DAYS, in slots

VARIABLES
    storage,      \* validatorsByDeadlineSlotStorage
    reported,     \* reportedValidatorPubkeys
    eligible      \* eligibleEntries: the deadline slots that have passed

storageVars == <<storage, reported, eligible>>

Group == [deadlineSlot : Int, exitRequest : Requests, validators : SUBSET Entry]

groupDataArray(s) == {g \in storage : g.deadlineSlot = s}

allValidators(s) == UNION {g.validators : g \in groupDataArray(s)}

(* A validator in whose case nothing is left to do. *)
Closed(e, s) == e.pubkey \in settled \/ TimelyExit(e.pubkey, s)

(* The group that was pushed first leads a slot, with its request.  Groups *)
(* are pushed in delivery order, except that a scan repeated after a       *)
(* cleanup pushes again, behind the groups kept, an older one that was     *)
(* dropped: because there was nothing left to do in it, unless an event    *)
(* was lost or a state could not be read.  (If finality is later than the  *)
(* lookback reaches, the first cycle's range ends before it begins, and    *)
(* the next one begins before the first scan did.)                         *)
LeadingGroups(s) ==
    {g \in groupDataArray(s) :
        \/ FINALITY_DELAY > LOOKBACK
        \/ Faults \cap {"event_error", "corrupt_deadline", "corrupt_summary"} # {}
        \/ \A h \in groupDataArray(s) :
                \/ deliveredAt[g.exitRequest] <= deliveredAt[h.exitRequest]
                \/ \A e \in h.validators : Closed(e, s)}

groupValidatorsByDeadlineSlot(r) ==
    {[deadlineSlot |-> s, exitRequest |-> r,
      validators |-> {e \in decodeValidatorsData(r) : ExitDeadlineSlot(r, e.pubkey) = s}] :
        s \in Deadlines(deliveredAt[r], r)}

-----------------------------------------------------------------------------
(* Mutant of remainingValidators: reported is taken for done. *)
remainingUnreported(s) == {e \in allValidators(s) : e.pubkey \notin reported}

(* cleanupProcessedEntries, which runs without an await: of the slots      *)
(* processed it keeps the validators still in the reported set.            *)
remainingValidators(s) == {e \in allValidators(s) : e.pubkey \in reported}

remainingForThisGroup(g) ==
    {e \in remainingValidators(g.deadlineSlot) : e.pubkey \in pubkeys(g.validators)}

(* Mutant of cleanupProcessedEntries: a slot processed is a slot done. *)
cleanupDeletesSlots == {g \in storage : g.deadlineSlot \notin eligible}

cleanupProcessedEntries ==
    {g \in storage : g.deadlineSlot \notin eligible} \cup
    {[g EXCEPT !.validators = remainingForThisGroup(g)] :
        g \in {h \in storage : h.deadlineSlot \in eligible /\ remainingForThisGroup(h) # {}}}

-----------------------------------------------------------------------------
(* The storage on its own. *)

StorageInit ==
    /\ storage = {}
    /\ reported = {}
    /\ eligible = {}

File(r) ==
    /\ deliveredAt[r] > 0
    /\ storage' = storage \cup groupValidatorsByDeadlineSlot(r)
    /\ UNCHANGED <<reported, eligible>>

(* A cycle selects the slots that have passed, of those stored. *)
Select(slots) ==
    /\ slots \subseteq {g.deadlineSlot : g \in storage}
    /\ \A s \in slots : s <= finalized
    /\ eligible' = slots
    /\ UNCHANGED <<storage, reported>>

(* Validators of a slot selected are checked, and reported.                *)
Check(s) ==
    /\ s \in eligible
    /\ \E late, done \in SUBSET pubkeys(allValidators(s)) :
            reported' = (reported \ done) \cup late
    /\ UNCHANGED <<storage, eligible>>

Clean ==
    /\ storage' = cleanupProcessedEntries
    /\ eligible' = {}
    /\ UNCHANGED reported

(* A cycle that fails leaves the storage as it is. *)
Abandon ==
    /\ eligible' = {}
    /\ UNCHANGED <<storage, reported>>

StorageNext ==
    \/ \E r \in Requests : File(r)
    \/ \E slots \in SUBSET {g.deadlineSlot : g \in storage} : Select(slots)
    \/ \E s \in eligible : Check(s)
    \/ Clean
    \/ Abandon

StorageSpec == StorageInit /\ [][StorageNext]_storageVars

=============================================================================
