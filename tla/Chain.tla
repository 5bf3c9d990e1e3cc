--------------------------------- MODULE Chain --------------------------------
(***************************************************************************)
(* The two chains the bot watches, as the bot's code uses them: all of     *)
(* this module is environment (an Ethereum node, the Lido contracts, node  *)
(* operators), modelled from the calls the code under src/ makes and from  *)
(* what it does with their answers.                                        *)
(*                                                                         *)
(* Every slot has a block and block n of the execution layer is that of    *)
(* slot n, so one counter serves as slot and as block number.  Slot 1      *)
(* stands for the oldest slot that holds anything of interest.             *)
(***************************************************************************)
EXTENDS SlotMath, Sequences, FiniteSets

CONSTANTS
    Requests,               \* hashes of the exit requests that may be delivered
    Validators,             \* pubkeys (each with its validatorIndex)
    ExitData,               \* ExitData[r]: the entries packed in r's data, in order
    ActivationEpoch,        \* ActivationEpoch[v], as the finalized state holds it
    ExitDeadlineThreshold,  \* ExitDeadlineThreshold[v]: seconds, from v's module
    MayExit,                \* the validators that may initiate their exit
    MaxSlot,                \* bound: the slot at which the modelled chain stops
    FINALITY_LAG,           \* the finalized slot is at least this far behind head
    FINALITY_DELAY,         \* and, however late, at most this far
    EXIT_LOOKAHEAD,         \* epochs from initiating an exit to its exit epoch
    SHARED_DEADLINES        \* may two requests put validators on one deadline slot?

ASSUME ChainAssumption ==
    /\ ExitData \in [Requests -> Seq(Validators)]
    /\ ActivationEpoch \in [Validators -> Nat]
    /\ ExitDeadlineThreshold \in [Validators -> Nat]
    /\ MayExit \subseteq Validators
    /\ MaxSlot \in Nat
    /\ FINALITY_LAG \in Nat \ {0}
    /\ FINALITY_DELAY \in Nat
    /\ FINALITY_LAG < FINALITY_DELAY
    /\ EXIT_LOOKAHEAD \in Nat \ {0}
    /\ SHARED_DEADLINES \in BOOLEAN

VARIABLES
    head,         \* slot of the newest block
    finalized,    \* slot of the finalized block
    deliveredAt,  \* block in which each request was delivered, 0 before
    exitAt,       \* slot whose state first shows a validator's exit, 0 before
    settled,      \* validators whose late exit the module has on record
    mempool       \* transactions the bot stopped waiting for, each the set of
                  \* validators it reports

chainVars == <<head, finalized, deliveredAt, exitAt, settled, mempool>>

-----------------------------------------------------------------------------
(* An exit request's data is a packed list: the position of a validator in *)
(* it is the exitDataIndex its witness must carry.                         *)
Entry == [exitDataIndex : Nat, pubkey : Validators]

decodeValidatorsData(r) ==
    {[exitDataIndex |-> i, pubkey |-> ExitData[r][i]] : i \in DOMAIN ExitData[r]}

pubkeys(entries) == {e.pubkey : e \in entries}

getExitRequestDeliveryTimestamp(r) == slotToTimestamp(deliveredAt[r])

(* The requests whose ExitDataProcessing event lies in a block range. *)
ExitRequestsInBlocks(from, to) ==
    {r \in Requests : deliveredAt[r] >= from /\ deliveredAt[r] <= to /\ deliveredAt[r] > 0}

(* Whether the beacon state of slot `slot` gives v an exit epoch at all:   *)
(* that of a validator that has not initiated its exit is the far future.  *)
ExitEpochSet(v, slot) == exitAt[v] > 0 /\ exitAt[v] <= slot

(* Whether that state gives v an exit epoch below `epoch`. *)
ExitEpochBelow(v, slot, epoch) ==
    ExitEpochSet(v, slot) /\ slotToEpoch(exitAt[v]) + EXIT_LOOKAHEAD < epoch

(* The staking module's answer: the delay is long enough and this key has  *)
(* not been penalised yet.                                                 *)
isValidatorExitDelayPenaltyApplicable(v, eligibleToExitInSec) ==
    /\ v \notin settled
    /\ eligibleToExitInSec >= ExitDeadlineThreshold[v]

(* The verifier accepts a batch of witnesses only if each names the entry  *)
(* of its own validator in the exit request data sent along.               *)
EmulationSucceeds(r, batch) ==
    \A e \in batch : e \in decodeValidatorsData(r)

(* A witness has no field for the exit epoch, so what the verifier makes   *)
(* of a validator whose exit epoch is set in the proven state is not known *)
(* here: it may refuse the batch.                                          *)
EmulationReverts(r, batch, provenSlot) ==
    \/ ~EmulationSucceeds(r, batch)
    \/ \E e \in batch : ExitEpochSet(e.pubkey, provenSlot)

(* The slot in which v must have exited if r is delivered in block b. *)
DeadlineIfDelivered(b, v) ==
    calculateSlotFromExitDeadline(
        getEligibleExitRequestTimestamp(slotToTimestamp(b), ActivationEpoch[v])
            + ExitDeadlineThreshold[v])

-----------------------------------------------------------------------------
ChainInit ==
    /\ head = FINALITY_LAG + 1
    /\ finalized = 1
    /\ deliveredAt = [r \in Requests |-> 0]
    /\ exitAt = [v \in Validators |-> 0]
    /\ settled = {}
    /\ mempool = {}

Deadlines(b, r) == {DeadlineIfDelivered(b, e.pubkey) : e \in decodeValidatorsData(r)}

(* A block of the next slot that delivers the requests of a set R. *)
NewBlock(R) ==
    /\ head < MaxSlot
    /\ head - finalized < FINALITY_DELAY
    /\ \A r \in R : deliveredAt[r] = 0
    /\ head' = head + 1
    /\ deliveredAt' = [r \in Requests |-> IF r \in R THEN head + 1 ELSE deliveredAt[r]]
    /\ SHARED_DEADLINES \/
        \A r1, r2 \in Requests :
            (r1 # r2 /\ deliveredAt'[r1] > 0 /\ deliveredAt'[r2] > 0) =>
                Deadlines(deliveredAt'[r1], r1) \cap Deadlines(deliveredAt'[r2], r2) = {}
    /\ UNCHANGED <<finalized, exitAt, settled, mempool>>

(* Finality moves, by any number of slots. *)
Finalize(slot) ==
    /\ slot > finalized
    /\ slot <= head - FINALITY_LAG
    /\ finalized' = slot
    /\ UNCHANGED <<head, deliveredAt, exitAt, settled, mempool>>

(* A node operator exits a validator; the next block carries the message.  *)
InitiateExit(v) ==
    /\ v \in MayExit
    /\ exitAt[v] = 0
    /\ exitAt' = [exitAt EXCEPT ![v] = head + 1]
    /\ UNCHANGED <<head, finalized, deliveredAt, settled, mempool>>

(* A transaction the bot gave up waiting for is mined after all. *)
MineLate(tx) ==
    /\ tx \in mempool
    /\ mempool' = mempool \ {tx}
    /\ settled' = settled \cup tx
    /\ UNCHANGED <<head, finalized, deliveredAt, exitAt>>

ChainNext ==
    \/ \E R \in SUBSET Requests : NewBlock(R)
    \/ \E slot \in finalized..head : Finalize(slot)
    \/ \E v \in Validators : InitiateExit(v)
    \/ \E tx \in mempool : MineLate(tx)

(* Bound: the last slot the modelled chain finalizes. *)
LastFinalized == MaxSlot - FINALITY_LAG

-----------------------------------------------------------------------------
(* Vocabulary of the properties. *)

ExitDeadlineSlot(r, v) == DeadlineIfDelivered(deliveredAt[r], v)

(* v was out in time for a deadline: what the state of the next slot says. *)
TimelyExit(v, deadlineSlot) ==
    ExitEpochBelow(v, deadlineSlot + 1, slotToEpoch(deadlineSlot))

ChainTypeOK ==
    /\ head \in Nat
    /\ finalized \in Nat
    /\ deliveredAt \in [Requests -> Nat]
    /\ exitAt \in [Validators -> Nat]
    /\ settled \subseteq Validators
    /\ mempool \subseteq SUBSET Validators

=============================================================================
