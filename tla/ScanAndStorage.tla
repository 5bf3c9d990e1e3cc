---------------------------- MODULE ScanAndStorage ----------------------------
(***************************************************************************)
(* The way of an exit request into the storage, and the storage as the     *)
(* code has it.  A range of blocks is cut into batches; the events of a    *)
(* batch are looked up one by one at the exit bus; each request found is   *)
(* grouped by deadline and pushed to the arrays of a Map.  The same range  *)
(* is scanned again when a cycle fails, its last block in any case, and    *)
(* all of it after the scan at start-up: so arrays hold copies.            *)
(*                                                                         *)
(* What Prover does with a slot is one step here, which may fail half-way. *)
(* The emulation of its transactions is left out, so they may always be    *)
(* sent.  Restarts are left to LateProverBot.                              *)
(***************************************************************************)
EXTENDS Chain, FiniteSetsExt

CONSTANTS
    Faults,       \* the kinds of failure that may happen
    MaxFaults,    \* bound: how many of them
    BATCH_SIZE,   \* blocks per call of getExitRequestsFromBlock: 10000
    LOOKBACK,     \* START_LOOKBACK_DAYS, in slots
    Direct        \* the requests whose transaction calls the exit bus itself

ASSUME ScanAssumption ==
    /\ Faults \subseteq {"rpc", "event_error", "ineffective"}
    /\ IsFiniteSet(Requests)
    /\ MaxFaults \in Nat
    /\ BATCH_SIZE \in Nat \ {0}
    /\ LOOKBACK \in Nat \ {0}
    /\ Direct \subseteq Requests

VARIABLES
    slotMap,      \* validatorsByDeadlineSlotStorage: arrays of groups, by slot
    reported,     \* reportedValidatorPubkeys
    eligible,     \* the slots of eligibleEntries
    pc,           \* what comes next
    currentSlot,  \* slot of the finalized header
    fromBlock, toBlock,
    batches,      \* those not yet asked for
    events,       \* of the batch in hand, those not yet looked up
    results,      \* the requests found in it and not yet pushed
    todo,         \* eligible slots not yet processed
    lastProcessed,
    unread,       \* history: the requests whose own lookups failed in this scan
    happened,     \* history: the kinds of failure so far
    faults

scanVars == <<pc, currentSlot, fromBlock, toBlock, batches, events, results, todo,
              lastProcessed, unread, happened, faults>>
vars == <<chainVars, slotMap, reported, eligible, scanVars>>

Fault(kind) ==
    /\ kind \in Faults
    /\ faults < MaxFaults
    /\ faults' = faults + 1
    /\ happened' = happened \cup {kind}

-----------------------------------------------------------------------------
(* The scan. *)

(* Mutant of createBatches: a block between two batches is left out. *)
batchesWithGap(from, to) ==
    [i \in 1..((to - from) \div (BATCH_SIZE + 1) + 1) |->
        LET currentFrom == from + (i - 1) * (BATCH_SIZE + 1)
        IN  [from |-> currentFrom, to |-> Min({currentFrom + BATCH_SIZE - 1, to})]]

(* A range that ends before it begins is one batch too, without events. *)
createBatches(from, to) ==
    [i \in 1..Max({1, (to - from) \div BATCH_SIZE + 1}) |->
        LET currentFrom == from + (i - 1) * BATCH_SIZE
        IN  [from |-> currentFrom, to |-> Min({currentFrom + BATCH_SIZE - 1, to})]]

(* The events of a range, in the order of the chain. *)
EventLogs(from, to) ==
    LET R == ExitRequestsInBlocks(from, to)
    IN  {q \in [1..Cardinality(R) -> R] :
            /\ \A r \in R : \E i \in DOMAIN q : q[i] = r
            /\ \A i, j \in DOMAIN q : i < j => deliveredAt[q[i]] <= deliveredAt[q[j]]}

-----------------------------------------------------------------------------
(* The storage. *)

(* groupValidatorsByDeadlineSlot: one group per deadline.  Which entries   *)
(* are listed in a group, and how often, is what matters of its validators.*)
groupFor(r, s) ==
    [exitRequest |-> r,
     validators |->
        [e \in {x \in decodeValidatorsData(r) : ExitDeadlineSlot(r, x.pubkey) = s} |-> 1]]

entries(g) == DOMAIN g.validators

arrayAt(s) == IF s \in DOMAIN slotMap THEN slotMap[s] ELSE <<>>

(* Mutant of addToValidatorStorage: the newest group goes first. *)
addToValidatorStorageInFront(r) ==
    LET slots == Deadlines(deliveredAt[r], r)
    IN  [s \in DOMAIN slotMap \cup slots |->
            IF s \in slots THEN <<groupFor(r, s)>> \o arrayAt(s) ELSE slotMap[s]]

addToValidatorStorage(r) ==
    LET slots == Deadlines(deliveredAt[r], r)
    IN  [s \in DOMAIN slotMap \cup slots |->
            IF s \in slots THEN Append(arrayAt(s), groupFor(r, s)) ELSE slotMap[s]]

(* All validators of a slot, with all the copies its groups have of them:  *)
(* the n-th of the copies in the i-th group is <<i, n>>.                   *)
copies(s, e) ==
    UNION {{i} \X (1..slotMap[s][i].validators[e]) :
           i \in {j \in DOMAIN slotMap[s] : e \in entries(slotMap[s][j])}}

copiesOf(s, e) == Cardinality(copies(s, e))

allEntries(s) == UNION {entries(slotMap[s][i]) : i \in DOMAIN slotMap[s]}

allValidatorsOf(s) == [e \in allEntries(s) |-> copiesOf(s, e)]

remaining(s) == {e \in allEntries(s) : e.pubkey \in reported}

(* Mutant of remainingFor: every group gets all that remains. *)
remainingForAnyGroup(s, g) == [e \in remaining(s) |-> allValidatorsOf(s)[e]]

(* What remains of the slot and is in this group too, in all its copies,   *)
(* whichever group they are from.                                          *)
remainingFor(s, g) ==
    [e \in {x \in remaining(s) : x.pubkey \in pubkeys(entries(g))} |-> allValidatorsOf(s)[e]]

(* The groups that do not become empty, by their places in the array, and  *)
(* the k-th of these places.                                               *)
keptPlaces(s) == {i \in DOMAIN slotMap[s] : DOMAIN remainingFor(s, slotMap[s][i]) # {}}

place(P, k) == CHOOSE i \in P : Cardinality({j \in P : j <= i}) = k

updatedGroupDataArray(s) ==
    [k \in 1..Cardinality(keptPlaces(s)) |->
        LET g == slotMap[s][place(keptPlaces(s), k)]
        IN  [exitRequest |-> g.exitRequest, validators |-> remainingFor(s, g)]]

cleanup ==
    [s \in {x \in DOMAIN slotMap : x \notin eligible \/ keptPlaces(x) # {}} |->
        IF s \in eligible THEN updatedGroupDataArray(s) ELSE slotMap[s]]

-----------------------------------------------------------------------------
Init ==
    /\ ChainInit
    /\ slotMap = <<>>
    /\ reported = {}
    /\ eligible = {}
    /\ pc = "init"
    /\ currentSlot = 0
    /\ fromBlock = 0
    /\ toBlock = 0
    /\ batches = <<>>
    /\ events = <<>>
    /\ results = <<>>
    /\ todo = {}
    /\ lastProcessed = 0
    /\ unread = {}
    /\ happened = {}
    /\ faults = 0

Environment == ChainNext /\ UNCHANGED <<slotMap, reported, eligible, scanVars>>

lookbackBlock == IF head - LOOKBACK >= 1 THEN head - LOOKBACK ELSE 1

prevRoot == IF lastProcessed # 0 THEN lastProcessed ELSE lookbackBlock

(* onModuleInit scans up to the head, a cycle up to the finalized block. *)
StartScan ==
    /\ \/ pc = "init" /\ fromBlock' = lookbackBlock /\ toBlock' = head /\ pc' = "initScan"
       \/ /\ pc = "idle"
          /\ prevRoot # finalized
          /\ fromBlock' = prevRoot
          /\ toBlock' = finalized
          /\ pc' = "beacon"
    /\ batches' = createBatches(fromBlock', toBlock')
    /\ UNCHANGED <<chainVars, slotMap, reported, eligible, currentSlot, events, results,
                   todo, lastProcessed, unread, happened, faults>>

(* initializeBeaconState, whose header says which deadlines have passed. *)
BeaconState ==
    /\ pc = "beacon"
    /\ currentSlot' = finalized
    /\ pc' = "scan"
    /\ UNCHANGED <<chainVars, slotMap, reported, eligible, fromBlock, toBlock, batches,
                   events, results, todo, lastProcessed, unread, happened, faults>>

Scanning == pc \in {"initScan", "scan"}

(* getExitRequestsFromBlock of the next batch, when the last one is pushed. *)
QueryBatch ==
    /\ Scanning
    /\ events = <<>> /\ results = <<>>
    /\ batches # <<>>
    /\ events' \in EventLogs(Head(batches).from, Head(batches).to)
    /\ batches' = Tail(batches)
    /\ UNCHANGED <<chainVars, slotMap, reported, eligible, pc, currentSlot, fromBlock,
                   toBlock, results, todo, lastProcessed, unread, happened, faults>>

(* One event: its transaction and receipt are there and the call decodes;  *)
(* or it was made through another contract, and decodes as neither kind of *)
(* submission; or a lookup throws, or answers null, and the event is left  *)
(* out.                                                                    *)
LookUpEvent ==
    /\ Scanning
    /\ events # <<>>
    /\ events' = Tail(events)
    /\ LET r == Head(events)
       IN  \/ /\ r \in Direct
              /\ results' = Append(results, r)
              /\ UNCHANGED <<unread, happened, faults>>
           \/ /\ r \notin Direct
              /\ UNCHANGED <<results, unread, happened, faults>>
           \/ /\ Fault("event_error")
              /\ unread' = unread \cup {r}
              /\ UNCHANGED results
    /\ UNCHANGED <<chainVars, slotMap, reported, eligible, pc, currentSlot, fromBlock,
                   toBlock, batches, todo, lastProcessed>>

(* processExitRequest, once the events of the batch are looked up.         *)
PushRequest ==
    /\ Scanning
    /\ events = <<>>
    /\ results # <<>>
    /\ slotMap' = addToValidatorStorage(Head(results))
    /\ results' = Tail(results)
    /\ UNCHANGED <<chainVars, reported, eligible, pc, currentSlot, fromBlock, toBlock,
                   batches, events, todo, lastProcessed, unread, happened, faults>>

ScanOver == Scanning /\ batches = <<>> /\ events = <<>> /\ results = <<>>

Rest ==
    /\ pc' = "idle"
    /\ currentSlot' = 0
    /\ fromBlock' = 0
    /\ toBlock' = 0
    /\ batches' = <<>>
    /\ events' = <<>>
    /\ results' = <<>>
    /\ todo' = {}
    /\ unread' = {}
    /\ eligible' = {}

EligibleSlots == {s \in DOMAIN slotMap : s <= currentSlot}

NothingEligible ==
    /\ ScanOver
    /\ pc = "initScan" \/ EligibleSlots = {}
    /\ lastProcessed' = IF pc = "initScan" THEN lastProcessed ELSE toBlock
    /\ Rest
    /\ UNCHANGED <<chainVars, slotMap, reported, happened, faults>>

SomeEligible ==
    /\ ScanOver
    /\ pc = "scan"
    /\ EligibleSlots # {}
    /\ eligible' = EligibleSlots
    /\ todo' = EligibleSlots
    /\ pc' = "slots"
    /\ UNCHANGED <<chainVars, slotMap, reported, currentSlot, fromBlock, toBlock, batches,
                   events, results, lastProcessed, unread, happened, faults>>

(* processValidator, measured against the request of the slot's first      *)
(* group: those that were not out in time, and were eligible to exit.      *)
secondsSinceEligible(s, v) ==
    getSecondsSinceExitIsEligible(
        getEligibleExitRequestTimestamp(
            getExitRequestDeliveryTimestamp(slotMap[s][1].exitRequest), ActivationEpoch[v]),
        slotToTimestamp(s + 1))

Checked(s) ==
    {v \in pubkeys(allEntries(s)) : ~TimelyExit(v, s) /\ secondsSinceEligible(s, v) >= 0}

FoundLate(s) ==
    {v \in Checked(s) : isValidatorExitDelayPenaltyApplicable(v, secondsSinceEligible(s, v))}

(* Mutant of NoLongerTracked: a validator once reported stays so. *)
ForeverTracked(s) == {}

(* Those whose penalty does not apply are deleted from the reported set.   *)
NoLongerTracked(s) == Checked(s) \ FoundLate(s)

(* The transactions take effect, or some do not. *)
ProcessSlot(s) ==
    /\ pc = "slots"
    /\ s \in todo
    /\ todo' = todo \ {s}
    /\ reported' = (reported \ NoLongerTracked(s)) \cup FoundLate(s)
    /\ \E recorded \in SUBSET FoundLate(s) :
        /\ settled' = settled \cup recorded
        /\ IF recorded = FoundLate(s) THEN UNCHANGED <<happened, faults>>
                                     ELSE Fault("ineffective")
    /\ UNCHANGED <<head, finalized, deliveredAt, exitAt, mempool, slotMap, eligible, pc,
                   currentSlot, fromBlock, toBlock, batches, events, results,
                   lastProcessed, unread>>

(* A call fails after some validators were checked, or some transactions   *)
(* sent; the last one may be mined later.                                  *)
SlotFails(s) ==
    /\ pc = "slots"
    /\ s \in todo
    /\ Fault("rpc")
    /\ \E done \in SUBSET NoLongerTracked(s), late \in SUBSET FoundLate(s) :
        /\ reported' = (reported \ done) \cup late
        /\ settled' = settled \cup late
        /\ mempool' \in {mempool, mempool \cup {FoundLate(s) \ late}}
    /\ pc' = "failing"
    /\ UNCHANGED <<head, finalized, deliveredAt, exitAt, slotMap, eligible, currentSlot,
                   fromBlock, toBlock, batches, events, results, todo, lastProcessed, unread>>

Cleanup ==
    /\ pc = "slots"
    /\ todo = {}
    /\ slotMap' = cleanup
    /\ lastProcessed' = toBlock
    /\ Rest
    /\ UNCHANGED <<chainVars, reported, happened, faults>>

(* Any other call of the cycle fails.  The scan at start-up ends too, and  *)
(* the daemon begins.                                                      *)
CycleFails ==
    /\ \/ pc \in {"initScan", "beacon", "scan", "slots"} /\ Fault("rpc")
       \/ pc = "failing" /\ UNCHANGED <<happened, faults>>
    /\ Rest
    /\ UNCHANGED <<chainVars, slotMap, reported, lastProcessed>>

BotStep ==
    \/ StartScan
    \/ BeaconState
    \/ QueryBatch
    \/ LookUpEvent
    \/ PushRequest
    \/ NothingEligible
    \/ SomeEligible
    \/ \E s \in todo : ProcessSlot(s) \/ SlotFails(s)
    \/ Cleanup
    \/ CycleFails

Next == Environment \/ BotStep

Spec == Init /\ [][Next]_vars

-----------------------------------------------------------------------------
(* Properties *)

Filed(r) ==
    \A e \in decodeValidatorsData(r) :
        \E i \in DOMAIN arrayAt(ExitDeadlineSlot(r, e.pubkey)) :
            LET g == arrayAt(ExitDeadlineSlot(r, e.pubkey))[i]
            IN  g.exitRequest = r /\ e \in entries(g)

(* processBatches misses nothing: when a scan is over, every request       *)
(* delivered in its range is filed under the deadlines of all of its       *)
(* validators, unless its own lookups failed or its transaction does not   *)
(* decode.  Batches have no gap, and one event's failure is no other's.    *)
ScanFilesRange ==
    ScanOver =>
        \A r \in (ExitRequestsInBlocks(fromBlock, toBlock) \cap Direct) \ unread : Filed(r)

(* The arrays, read as the set of their groups. *)
groups ==
    UNION {{[deadlineSlot |-> s, exitRequest |-> slotMap[s][i].exitRequest,
             validators |-> entries(slotMap[s][i])] : i \in DOMAIN slotMap[s]} :
           s \in DOMAIN slotMap}

Sets == INSTANCE Storage WITH storage <- groups

(* processDeadlineSlot takes the request of the first group for the whole  *)
(* slot.  As long as no lookup failed, that group is one of the oldest     *)
(* request in whose group there is anything left to do, whatever failed    *)
(* and was scanned again meanwhile: Storage reads the leader off the       *)
(* delivery times.                                                         *)
FirstGroupLeads ==
    \A s \in DOMAIN slotMap :
        \/ "event_error" \in happened
        \/ \A i \in DOMAIN slotMap[s] :
            \/ deliveredAt[slotMap[s][1].exitRequest] <= deliveredAt[slotMap[s][i].exitRequest]
            \/ \A e \in entries(slotMap[s][i]) : Sets!Closed(e, s)

GroupsWith(array, v) == {i \in DOMAIN array : v \in pubkeys(entries(array[i]))}

(* The copies of a validator in a group, and the places where the requests *)
(* of an array's groups list it.                                           *)
CopiesIn(g, v) ==
    UNION {{e} \X (1..g.validators[e]) : e \in {x \in entries(g) : x.pubkey = v}}

PlacesIn(r, v) == {k \in DOMAIN ExitData[r] : ExitData[r][k] = v}

Listings(array, v) ==
    UNION {{i} \X PlacesIn(array[i].exitRequest, v) : i \in GroupsWith(array, v)}

(* The cleanup multiplies the copies of a validator by the number of its   *)
(* groups.  As long as every transaction has its effect this happens once: *)
(* a group has no more copies of a validator than the requests of the      *)
(* slot's groups together list it.  (In a dry run, or if transactions      *)
(* revert, the copies grow in every cycle.)                                *)
CopiesBounded ==
    \/ "ineffective" \in happened
    \/ \A s \in DOMAIN slotMap : \A i \in DOMAIN slotMap[s] : \A v \in Validators :
            Cardinality(CopiesIn(slotMap[s][i], v)) <= Cardinality(Listings(slotMap[s], v))

(* The set of groups that Prover keeps is a sound reading of the arrays:   *)
(* pushing a copy and filtering the copies of several groups do to it what *)
(* Storage says, in every step.                                            *)
StorageImplemented == Sets!StorageSpec

=============================================================================
