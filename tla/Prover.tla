-------------------------------- MODULE Prover --------------------------------
(***************************************************************************)
(* ProverService: handleBlock, cut at its awaits into one action per       *)
(* asynchronous operation, over its storage of validators by deadline slot *)
(* and its set of pubkeys already reported.                                *)
(***************************************************************************)
EXTENDS Storage

CONSTANTS
    NoRequest,             \* not an exit request: none in hand
    VALIDATOR_BATCH_SIZE,  \* witnesses per transaction
    MaxFaults              \* bound: how many failures

FaultKinds == {"rpc", "timeout", "ineffective", "crash", "event_error",
               "corrupt_finalized", "corrupt_deadline", "corrupt_summary"}

ASSUME ProverAssumption ==
    /\ NoRequest \notin Requests
    /\ VALIDATOR_BATCH_SIZE \in Nat \ {0}
    /\ Faults \subseteq FaultKinds
    /\ MaxFaults \in Nat

VARIABLES
    pc,           \* the operation the bot is about to start
    currentSlot,  \* slot of the finalized header handleBlock works with
    pending,      \* exit requests fetched and not yet grouped
    todo,         \* those not yet handed to processDeadlineSlot
    slot,         \* the deadline slot in hand
    payload,      \* the exit request whose data goes with its witnesses
    slotType,     \* "current", or "historical": isSlotOld
    unchecked,    \* its validators not yet checked
    witnesses,    \* its witnesses not yet submitted
    faults        \* failures that have happened

locals == <<currentSlot, pending, eligible, todo, slot, payload, slotType,
            unchecked, witnesses>>
proverVars == <<storage, reported, pc, locals, faults>>

-----------------------------------------------------------------------------
Fault(kind) ==
    /\ kind \in Faults
    /\ faults < MaxFaults
    /\ faults' = faults + 1

ResetLocals ==
    /\ currentSlot' = 0
    /\ pending' = {}
    /\ eligible' = {}
    /\ todo' = {}
    /\ slot' = 0
    /\ payload' = NoRequest
    /\ slotType' = "current"
    /\ unchecked' = {}
    /\ witnesses' = {}

ProverInit ==
    /\ storage = {}
    /\ reported = {}
    /\ pc = "init"
    /\ currentSlot = 0
    /\ pending = {}
    /\ eligible = {}
    /\ todo = {}
    /\ slot = 0
    /\ payload = NoRequest
    /\ slotType = "current"
    /\ unchecked = {}
    /\ witnesses = {}
    /\ faults = 0

(* initializeBeaconState, when the finalized state deserializes. *)
InitializeBeaconState ==
    /\ pc = "beacon"
    /\ currentSlot' = finalized
    /\ pc' = "fetch"
    /\ UNCHANGED <<chainVars, storage, reported, pending, eligible, todo, slot,
                   payload, slotType, unchecked, witnesses, faults>>

(* getExitRequestsFromBlock: an event whose own lookups fail is logged and *)
(* skipped, the others are returned.                                       *)
FetchExitRequests(from, to) ==
    /\ pc = "fetch"
    /\ \/ pending' = ExitRequestsInBlocks(from, to) /\ UNCHANGED faults
       \/ /\ Fault("event_error")
          /\ \E lost \in ExitRequestsInBlocks(from, to) :
                pending' = ExitRequestsInBlocks(from, to) \ {lost}
    /\ pc' = "requests"
    /\ UNCHANGED <<chainVars, storage, reported, currentSlot, eligible, todo, slot,
                   payload, slotType, unchecked, witnesses>>

(* processExitRequest, in the order of the events; addToValidatorStorage. *)
ProcessExitRequest(r) ==
    /\ pc = "requests"
    /\ r \in pending
    /\ \A q \in pending : deliveredAt[r] <= deliveredAt[q]
    /\ storage' = storage \cup groupValidatorsByDeadlineSlot(r)
    /\ pending' = pending \ {r}
    /\ UNCHANGED <<chainVars, reported, pc, currentSlot, eligible, todo, slot,
                   payload, slotType, unchecked, witnesses, faults>>

(* Mutant of EligibleSlots: off by one, a slot too early. *)
EligibleSlotsTooEarly ==
    {g.deadlineSlot : g \in {h \in storage : h.deadlineSlot <= currentSlot + 1}}

(* processEligibleValidators: the deadline slots at or before the          *)
(* finalized one.                                                          *)
EligibleSlots == {g.deadlineSlot : g \in {h \in storage : h.deadlineSlot <= currentSlot}}

(* Mutant of SelectEligible: the cleanup is not told of the slots. *)
SelectEligibleInPassing ==
    /\ pc = "requests"
    /\ pending = {}
    /\ EligibleSlots # {}
    /\ todo' = EligibleSlots
    /\ pc' = "slots"
    /\ UNCHANGED <<chainVars, storage, reported, currentSlot, pending, eligible, slot,
                   payload, slotType, unchecked, witnesses, faults>>

SelectEligible ==
    /\ pc = "requests"
    /\ pending = {}
    /\ EligibleSlots # {}
    /\ eligible' = EligibleSlots
    /\ todo' = EligibleSlots
    /\ pc' = "slots"
    /\ UNCHANGED <<chainVars, storage, reported, currentSlot, pending, slot, payload,
                   slotType, unchecked, witnesses, faults>>

isSlotOld(s) == head - s >= SLOTS_PER_HISTORICAL_ROOT

SlotInHand == unchecked # {} \/ witnesses # {}

(* processDeadlineSlot up to the loop of processValidatorGroup.  All the   *)
(* validators of the slot go with the request of its first group.  If the  *)
(* state of the deadline slot does not deserialize, the group yields no    *)
(* witnesses and no error.                                                 *)
ProcessDeadlineSlot(s) ==
    /\ pc = "slots"
    /\ ~SlotInHand
    /\ s \in todo
    /\ todo' = todo \ {s}
    /\ slot' = s
    /\ \E g \in LeadingGroups(s) : payload' = g.exitRequest
    /\ slotType' = IF isSlotOld(s + 1) THEN "historical" ELSE "current"
    /\ \/ unchecked' = allValidators(s) /\ UNCHANGED faults
       \/ Fault("corrupt_deadline") /\ UNCHANGED unchecked
    /\ UNCHANGED <<chainVars, storage, reported, pc, currentSlot, pending, eligible,
                   witnesses>>

-----------------------------------------------------------------------------
(* processValidator, with its four outcomes. *)

proofSlotTimestamp == slotToTimestamp(slot + 1)

eligibleExitRequestTimestamp(v) ==
    getEligibleExitRequestTimestamp(getExitRequestDeliveryTimestamp(payload),
                                    ActivationEpoch[v])

(* Mutant of AlreadyExited: off by one epoch. *)
AlreadyExitedAnEpochBefore(v) == ExitEpochBelow(v, slot + 1, slotToEpoch(slot) - 1)

AlreadyExited(v) == ExitEpochBelow(v, slot + 1, slotToEpoch(slot))

NotEligibleYet(v) == proofSlotTimestamp < eligibleExitRequestTimestamp(v)

PenaltyApplicable(v) ==
    isValidatorExitDelayPenaltyApplicable(v,
        getSecondsSinceExitIsEligible(eligibleExitRequestTimestamp(v), proofSlotTimestamp))

ProcessValidator(e) ==
    /\ pc = "slots"
    /\ e \in unchecked
    /\ unchecked' = unchecked \ {e}
    /\ \/ /\ AlreadyExited(e.pubkey) \/ NotEligibleYet(e.pubkey)
          /\ UNCHANGED <<reported, witnesses>>
       \/ /\ ~AlreadyExited(e.pubkey) /\ ~NotEligibleYet(e.pubkey)
          /\ ~PenaltyApplicable(e.pubkey)
          /\ reported' = reported \ {e.pubkey}
          /\ UNCHANGED witnesses
       \/ /\ ~AlreadyExited(e.pubkey) /\ ~NotEligibleYet(e.pubkey)
          /\ PenaltyApplicable(e.pubkey)
          /\ witnesses' = witnesses \cup {e}
          /\ UNCHANGED reported
    /\ UNCHANGED <<chainVars, storage, pc, currentSlot, pending, eligible, todo, slot,
                   payload, slotType, faults>>

-----------------------------------------------------------------------------
(* processCurrentSlot and processHistoricalSlot, batch by batch.           *)

createValidatorBatches ==
    IF Cardinality(witnesses) <= VALIDATOR_BATCH_SIZE
    THEN {witnesses}
    ELSE {batch \in SUBSET witnesses : Cardinality(batch) = VALIDATOR_BATCH_SIZE}

BatchInHand(batch) ==
    /\ pc = "slots"
    /\ unchecked = {}
    /\ witnesses # {}
    /\ batch \in createValidatorBatches

(* execution.execute returned: the pubkeys are remembered as reported.     *)
(* The transaction was mined and took effect; or it was mined and reverted *)
(* (waitForTransaction does not tell), or not sent in a dry run, and has   *)
(* no effect.  (Bound: not in the last cycle of the modelled chain, since  *)
(* no root would come to make the bot try again.)                          *)
BatchCompleted(batch) ==
    /\ BatchInHand(batch)
    /\ EmulationSucceeds(payload, batch)
    /\ reported' = reported \cup pubkeys(batch)
    /\ witnesses' = witnesses \ batch
    /\ \/ settled' = settled \cup pubkeys(batch) /\ UNCHANGED faults
       \/ currentSlot < LastFinalized /\ Fault("ineffective") /\ UNCHANGED settled
    /\ UNCHANGED <<head, finalized, deliveredAt, exitAt, mempool, storage, pc,
                   currentSlot, pending, eligible, todo, slot, payload, slotType,
                   unchecked>>

(* A batch of an old slot is skipped when the state that holds the         *)
(* summary does not deserialize.                                           *)
BatchSkipped(batch) ==
    /\ BatchInHand(batch)
    /\ slotType = "historical"
    /\ Fault("corrupt_summary")
    /\ witnesses' = witnesses \ batch
    /\ UNCHANGED <<chainVars, storage, reported, pc, currentSlot, pending, eligible,
                   todo, slot, payload, slotType, unchecked>>

-----------------------------------------------------------------------------
ProverTypeOK ==
    /\ storage \subseteq Group
    /\ reported \subseteq Validators
    /\ pc \in {"init", "idle", "beacon", "fetch", "requests", "slots"}
    /\ currentSlot \in Nat
    /\ pending \subseteq Requests
    /\ eligible \subseteq Int
    /\ todo \subseteq eligible
    /\ slot \in Int
    /\ payload \in Requests \cup {NoRequest}
    /\ slotType \in {"current", "historical"}
    /\ unchecked \subseteq Entry
    /\ witnesses \subseteq Entry
    /\ faults \in 0..MaxFaults

=============================================================================
