------------------------------- MODULE SlotMath -------------------------------
(***************************************************************************)
(* The slot, epoch and timestamp arithmetic of the bot: the conversions of *)
(* consensus.ts and the private calc... helpers of prover.service.ts.      *)
(* Operators keep the names of the functions they translate.               *)
(*                                                                         *)
(* Timestamps are seconds.  Math.floor(x / y) is x \div y: TLA+'s \div     *)
(* rounds towards minus infinity, as Math.floor does.                      *)
(***************************************************************************)
EXTENDS Integers

CONSTANTS
    GENESIS_TIME,                       \* consensus.genesisTimestamp
    SECONDS_PER_SLOT,                   \* beaconConfig.SECONDS_PER_SLOT
    SLOTS_PER_EPOCH,                    \* beaconConfig.SLOTS_PER_EPOCH
    SLOTS_PER_HISTORICAL_ROOT,          \* beaconConfig.SLOTS_PER_HISTORICAL_ROOT
    CAPELLA_FORK_EPOCH,                 \* beaconConfig.CAPELLA_FORK_EPOCH
    SHARD_COMMITTEE_PERIOD_IN_SECONDS   \* read from the verifier contract

(* What the beacon node and the verifier contract answer at start-up. *)
ASSUME SlotMathAssumption ==
    /\ GENESIS_TIME \in Nat
    /\ SECONDS_PER_SLOT \in Nat \ {0}
    /\ SLOTS_PER_EPOCH \in Nat \ {0}
    /\ SLOTS_PER_HISTORICAL_ROOT \in Nat \ {0}
    /\ CAPELLA_FORK_EPOCH \in Nat
    /\ SHARD_COMMITTEE_PERIOD_IN_SECONDS \in Nat

-----------------------------------------------------------------------------
(* consensus.ts *)

slotToTimestamp(slot) == GENESIS_TIME + slot * SECONDS_PER_SLOT

timestampToSlot(timestamp) == (timestamp - GENESIS_TIME) \div SECONDS_PER_SLOT

epochToSlot(epoch) == epoch * SLOTS_PER_EPOCH

slotToEpoch(slot) == slot \div SLOTS_PER_EPOCH

-----------------------------------------------------------------------------
(* prover.service.ts: deadlines *)

(* The later of the delivery of the request and the first moment the       *)
(* validator may exit voluntarily.                                         *)
getEligibleExitRequestTimestamp(deliveredTimestamp, activationEpoch) ==
    LET earliestPossibleVoluntaryExitTimestamp ==
            GENESIS_TIME + activationEpoch * SLOTS_PER_EPOCH * SECONDS_PER_SLOT
                + SHARD_COMMITTEE_PERIOD_IN_SECONDS
    IN  IF deliveredTimestamp >= earliestPossibleVoluntaryExitTimestamp
        THEN deliveredTimestamp
        ELSE earliestPossibleVoluntaryExitTimestamp

getSecondsSinceExitIsEligible(eligibleExitRequestTimestamp, proofSlotTimestamp) ==
    proofSlotTimestamp - eligibleExitRequestTimestamp

calculateSlotFromExitDeadline(exitDeadlineTimestamp) ==
    (exitDeadlineTimestamp - GENESIS_TIME) \div SECONDS_PER_SLOT

-----------------------------------------------------------------------------
(* prover.service.ts: historical summaries and the EIP-4788 timestamp *)

capellaForkSlot == epochToSlot(CAPELLA_FORK_EPOCH)

calcSummaryIndex(slot) == (slot - capellaForkSlot) \div SLOTS_PER_HISTORICAL_ROOT

calcSlotOfSummary(summaryIndex) ==
    capellaForkSlot + (summaryIndex + 1) * SLOTS_PER_HISTORICAL_ROOT

calcRootIndexInSummary(slot) == slot % SLOTS_PER_HISTORICAL_ROOT

(* The timestamp at which the beacon-roots contract holds the root of the  *)
(* block of `slot`: that of the next slot, presumed to have a block.       *)
calcRootsTimestamp(slot) ==
    GENESIS_TIME + SECONDS_PER_SLOT + slot * SECONDS_PER_SLOT

=============================================================================
