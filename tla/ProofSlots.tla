------------------------------ MODULE ProofSlots ------------------------------
(***************************************************************************)
(* How one deadline slot gets its proof on chain: the requests to beacon   *)
(* nodes that handleBlock makes for it, each tried again and at the next   *)
(* URL when it fails; the search for a slot that has a block; the choice   *)
(* between the root of that block and a historical summary; and the        *)
(* transaction, which is mined later.  A cycle that fails is repeated, and *)
(* so is one whose transaction had no effect.                              *)
(*                                                                         *)
(* The validators of the slot are late, their requests are in order, and   *)
(* the transaction is mined sooner or later: Prover and Execution are      *)
(* about the rest.                                                         *)
(***************************************************************************)
EXTENDS BeaconNodes, RestProvider

CONSTANTS
    DeadlineSlots,   \* the deadline slots to choose from
    MAX_ATTEMPTS     \* maxAttempts of findNextAvailableSlot: 32

(* Deadlines fall behind genesis, and fewer slots in a row go without a    *)
(* block than the search looks at.                                         *)
ASSUME ProofSlotsAssumption ==
    /\ Nodes = Urls
    /\ DeadlineSlots \subseteq Nat
    /\ \A s \in DeadlineSlots : s >= MAX_LAG
    /\ MAX_ATTEMPTS \in Nat
    /\ MAX_ATTEMPTS > MAX_SKIPS

VARIABLES
    pc,              \* the call that is awaited
    deadlineSlot,    \* the deadline slot that is stored
    finalizedState,  \* the block whose state finalizedStateView is
    finalizedHeader, \* the block of provableFinalizedBlockHeader
    isOldSlot,
    attempts,        \* of findNextAvailableSlot
    searchSlot,      \* its currentSlot
    actualSlot,      \* the slot the witnesses are for, 0 before
    historicalSlot,  \* the slot found again for the batch, 0 before
    sentAfter,       \* the block after which the transaction was sent
    accepted         \* the verifier took the proof

callVars == <<pc, deadlineSlot, finalizedState, finalizedHeader, isOldSlot, attempts,
              searchSlot, actualSlot, historicalSlot, sentAfter>>
vars == <<nodesVars, restVars, callVars, accepted>>

deadlineSlotPenalizable == deadlineSlot + 1

-----------------------------------------------------------------------------
(* The proof sent along. *)

(* Mutant of provenRoot: the index of the slot asked for. *)
provenRootOfRequested ==
    BlockRootIn(calcSlotOfSummary(calcSummaryIndex(historicalSlot)),
                calcRootIndexInSummary(deadlineSlotPenalizable))

(* The leaf of the historical proof: generateHistoricalStateProof reads it *)
(* from the block_roots of the summary state.                              *)
provenRoot ==
    BlockRootIn(calcSlotOfSummary(calcSummaryIndex(historicalSlot)),
                calcRootIndexInSummary(historicalSlot))

(* verifyProof against the finalized state: it has that summary. *)
ProofVerifies == HasSummary(finalizedState, calcSummaryIndex(historicalSlot))

(* verifyValidatorExitDelay: the root at rootsTimestamp is that of the     *)
(* header, and the witnesses are proved against its state.                 *)
CurrentAccepted(at) == BeaconRootIs(actualSlot, calcRootsTimestamp(actualSlot), at)

(* verifyHistoricalValidatorExitDelay: besides, the proof starts at the    *)
(* state of the header, and ends at the root of the old block.             *)
HistoricalAccepted(at) ==
    /\ BeaconRootIs(finalizedHeader, calcRootsTimestamp(finalizedHeader), at)
    /\ finalizedState = finalizedHeader
    /\ provenRoot = historicalSlot
    /\ actualSlot = historicalSlot

Accepted(at) == IF isOldSlot THEN HistoricalAccepted(at) ELSE CurrentAccepted(at)

-----------------------------------------------------------------------------
ForgetCall ==
    /\ finalizedState' = 0
    /\ finalizedHeader' = 0
    /\ isOldSlot' = FALSE
    /\ attempts' = 0
    /\ searchSlot' = 0
    /\ actualSlot' = 0
    /\ historicalSlot' = 0
    /\ sentAfter' = 0
    /\ UNCHANGED deadlineSlot

(* Chains whose slots before the deadline all have blocks. *)
PossibleChains(upTo) ==
    {B \in SUBSET (0..upTo) :
        /\ 0..(deadlineSlot - 1) \subseteq B
        /\ \A s \in deadlineSlot..upTo : s \in B \/ SkipAllowed(s, {b \in B : b < s})}

(* The deadline is now. *)
Init ==
    /\ deadlineSlot \in DeadlineSlots
    /\ clock = deadlineSlot
    /\ blocks \in PossibleChains(clock)
    /\ finalized = checkpoint(finalEpochAt(clock))
    /\ view = [n \in Nodes |-> clock]
    /\ down = {}
    /\ outages = 0
    /\ RestInit
    /\ pc = "idle"
    /\ finalizedState = 0
    /\ finalizedHeader = 0
    /\ isOldSlot = FALSE
    /\ attempts = 0
    /\ searchSlot = 0
    /\ actualSlot = 0
    /\ historicalSlot = 0
    /\ sentAfter = 0
    /\ accepted = FALSE

BotWaits == UNCHANGED <<restVars, callVars, accepted>>

TimePasses == BotWaits /\ NewSlot
FinalityMoves == BotWaits /\ \E epoch \in unfinalizedEpochs : Finalize(epoch)
NodeCatchesUp == BotWaits /\ \E n \in Nodes : Sync(n)
NodeGoesDown == BotWaits /\ \E n \in Nodes : GoDown(n)
NodeComesBack == BotWaits /\ \E n \in Nodes : ComeBack(n)

Environment ==
    \/ TimePasses
    \/ FinalityMoves
    \/ NodeCatchesUp
    \/ NodeGoesDown
    \/ NodeComesBack

(* An attempt of the request in hand, at the URL in use. *)
Attempt ==
    /\ Waiting
    /\ \/ url \in down /\ Reject("other")
       \/ url \notin down /\ NotFound(url, request) /\ Reject("404")
       \/ /\ url \notin down
          /\ ~NotFound(url, request)
          /\ Resolve(AnswerOf(url, request))
    /\ UNCHANGED <<nodesVars, callVars, accepted>>

-----------------------------------------------------------------------------
(* initializeBeaconState: two requests for what is finalized. *)
StartCycle ==
    /\ pc = "idle"
    /\ ~accepted
    /\ pc' = "finalizedState"
    /\ Ask(FinalizedState)
    /\ ForgetCall
    /\ UNCHANGED <<nodesVars, accepted>>

GotFinalizedState ==
    /\ pc = "finalizedState"
    /\ status = "ok"
    /\ finalizedState' = answer
    /\ pc' = "finalizedHeader"
    /\ Ask(FinalizedHeader)
    /\ UNCHANGED <<nodesVars, deadlineSlot, finalizedHeader, isOldSlot, attempts, searchSlot,
                   actualSlot, historicalSlot, sentAfter, accepted>>

CycleOver ==
    /\ pc' = "idle"
    /\ NothingAsked
    /\ ForgetCall
    /\ UNCHANGED nodesVars

(* Mutant of DeadlinePassed: the deadline is over, though not finalized.   *)
DeadlineOver == deadlineSlot < clock

DeadlinePassed == deadlineSlot <= answer

(* processEligibleValidators, for a deadline that has passed, or not yet   *)
(* for the node that was asked; then isSlotOld asks for the head.          *)
GotFinalizedHeader ==
    /\ pc = "finalizedHeader"
    /\ status = "ok"
    /\ DeadlinePassed
    /\ finalizedHeader' = answer
    /\ pc' = "head"
    /\ Ask(HeadHeader)
    /\ UNCHANGED <<nodesVars, deadlineSlot, finalizedState, isOldSlot, attempts, searchSlot,
                   actualSlot, historicalSlot, sentAfter, accepted>>

NotEligible ==
    /\ pc = "finalizedHeader"
    /\ status = "ok"
    /\ ~DeadlinePassed
    /\ CycleOver
    /\ UNCHANGED accepted

(* findNextAvailableSlot begins. *)
Search(slot) ==
    /\ attempts' = 1
    /\ searchSlot' = slot
    /\ Ask(HeaderAt(slot))

(* isSlotOld judges the slot asked for, not the one that will be found.    *)
GotHead ==
    /\ pc = "head"
    /\ status = "ok"
    /\ isOldSlot' = (answer - deadlineSlotPenalizable >= SLOTS_PER_HISTORICAL_ROOT)
    /\ pc' = "slot"
    /\ Search(deadlineSlotPenalizable)
    /\ UNCHANGED <<nodesVars, deadlineSlot, finalizedState, finalizedHeader, actualSlot,
                   historicalSlot, sentAfter, accepted>>

(* Mutant of Skipped: one slot less is looked at. *)
SkippedOneLess == status = "404" /\ attempts < MAX_ATTEMPTS - 1

(* findNextAvailableSlot takes a 404 for a slot without a block. *)
Skipped == status = "404" /\ attempts < MAX_ATTEMPTS

TryNextSlot ==
    /\ pc \in {"slot", "slotAgain"}
    /\ Skipped
    /\ attempts' = attempts + 1
    /\ searchSlot' = searchSlot + 1
    /\ Ask(HeaderAt(searchSlot + 1))
    /\ UNCHANGED <<nodesVars, pc, deadlineSlot, finalizedState, finalizedHeader, isOldSlot,
                   actualSlot, historicalSlot, sentAfter, accepted>>

SearchOver == attempts' = 0 /\ searchSlot' = 0

(* The slot is found; processValidatorGroup asks for its state. *)
FoundSlot ==
    /\ pc = "slot"
    /\ status = "ok"
    /\ actualSlot' = searchSlot
    /\ pc' = "deadlineState"
    /\ Ask(StateAt(searchSlot))
    /\ SearchOver
    /\ UNCHANGED <<nodesVars, deadlineSlot, finalizedState, finalizedHeader, isOldSlot,
                   historicalSlot, sentAfter, accepted>>

(* The witnesses are made.  processHistoricalSlot searches once more for   *)
(* its batch; processCurrentSlot goes on to the emulation.                 *)
GotDeadlineState ==
    /\ pc = "deadlineState"
    /\ status = "ok"
    /\ \/ isOldSlot /\ pc' = "slotAgain" /\ Search(deadlineSlotPenalizable)
       \/ /\ ~isOldSlot
          /\ pc' = "emulate"
          /\ NothingAsked
          /\ UNCHANGED <<attempts, searchSlot>>
    /\ UNCHANGED <<nodesVars, deadlineSlot, finalizedState, finalizedHeader, isOldSlot,
                   actualSlot, historicalSlot, sentAfter, accepted>>

FoundSlotAgain ==
    /\ pc = "slotAgain"
    /\ status = "ok"
    /\ historicalSlot' = searchSlot
    /\ pc' = "summaryState"
    /\ Ask(StateAt(calcSlotOfSummary(calcSummaryIndex(searchSlot))))
    /\ SearchOver
    /\ UNCHANGED <<nodesVars, deadlineSlot, finalizedState, finalizedHeader, isOldSlot,
                   actualSlot, sentAfter, accepted>>

(* generateHistoricalStateProof, which verifies what it made. *)
GotSummaryState ==
    /\ pc = "summaryState"
    /\ status = "ok"
    /\ ProofVerifies
    /\ pc' = "emulate"
    /\ NothingAsked
    /\ UNCHANGED <<nodesVars, deadlineSlot, finalizedState, finalizedHeader, isOldSlot,
                   attempts, searchSlot, actualSlot, historicalSlot, sentAfter, accepted>>

SummaryNotFinalized ==
    /\ pc = "summaryState"
    /\ status = "ok"
    /\ ~ProofVerifies
    /\ CycleOver
    /\ UNCHANGED accepted

(* A request fails at every URL, or the search gives up: the cycle fails.  *)
RequestFails ==
    /\ status \in {"404", "other"}
    /\ ~(pc \in {"slot", "slotAgain"} /\ Skipped)
    /\ CycleOver
    /\ UNCHANGED accepted

(* The emulated call, on top of the newest block; then the transaction.    *)
EmulateAndSend ==
    /\ pc = "emulate"
    /\ Accepted(headBlock)
    /\ pc' = "sent"
    /\ sentAfter' = headBlock
    /\ UNCHANGED <<nodesVars, restVars, deadlineSlot, finalizedState, finalizedHeader,
                   isOldSlot, attempts, searchSlot, actualSlot, historicalSlot, accepted>>

EmulationFails ==
    /\ pc = "emulate"
    /\ ~Accepted(headBlock)
    /\ CycleOver
    /\ UNCHANGED accepted

(* The transaction is mined in a later block (the last one, once the       *)
(* modelled chain has stopped).  If its proof is not accepted there it     *)
(* reverts, which the bot does not notice: the cycle ends all the same,    *)
(* and a later one tries the slot again.                                   *)
Mined ==
    /\ pc = "sent"
    /\ \E b \in blocks :
        /\ b > sentAfter \/ b = MaxSlot
        /\ accepted' = Accepted(b)
    /\ CycleOver

BotStep ==
    \/ StartCycle
    \/ Attempt
    \/ GotFinalizedState
    \/ GotFinalizedHeader
    \/ NotEligible
    \/ GotHead
    \/ TryNextSlot
    \/ FoundSlot
    \/ GotDeadlineState
    \/ FoundSlotAgain
    \/ GotSummaryState
    \/ SummaryNotFinalized
    \/ RequestFails
    \/ EmulateAndSend
    \/ EmulationFails
    \/ Mined

Next == Environment \/ BotStep

Spec == Init /\ [][Next]_vars

(* The chain and its finality go on, nodes catch up and come back: the     *)
(* modelled chain has so few such steps that one condition does for all.   *)
(* (The last URL has to come back: its error hides the 404 of the others.) *)
(* The bot's thread is never blocked for ever: every request has a timeout.*)
Fairness ==
    /\ WF_vars(TimePasses \/ FinalityMoves \/ NodeCatchesUp \/ NodeComesBack)
    /\ WF_vars(BotStep)

FairSpec == Spec /\ Fairness

-----------------------------------------------------------------------------
(* Properties *)

IsFirstBlock(slot) ==
    /\ slot \in blocks
    /\ slot >= deadlineSlotPenalizable
    /\ \A s \in deadlineSlotPenalizable..(slot - 1) : s \notin blocks

(* findNextAvailableSlot ("Find the next available (non-skipped) slot at   *)
(* or after the given slot") returns the first block after the deadline,   *)
(* and both of its searches return the same: though a 404 is what a node   *)
(* that lags behind says too, and what one URL says hides what the others  *)
(* said.  A later block would show the validator's exit later than it was  *)
(* due, and its proof would not fit the witnesses.                         *)
FirstBlockFound ==
    \A slot \in {actualSlot, historicalSlot} \ {0} : IsFirstBlock(slot)

RootUsable(header) == header + 1 \in blocks /\ StillStored(header + 1, headBlock)

(* When a proof is ready, the verifier takes it, with three exceptions:    *)
(* the slot after the header has no block, its root is overwritten, or     *)
(* finality moved between the two requests for what is finalized.  Nothing *)
(* else in the bot's slot arithmetic can go wrong, at the boundary of two  *)
(* summaries, at the age limit, or when slots were skipped.                *)
OnlyKnownRejections ==
    pc = "emulate" =>
        \/ Accepted(headBlock)
        \/ ~isOldSlot /\ ~RootUsable(actualSlot)
        \/ isOldSlot /\ (~RootUsable(finalizedHeader) \/ finalizedState # finalizedHeader)

(* README: "For each validator past its deadline, generates a Merkle       *)
(* proof".  The proof of every deadline slot is accepted in the end, in    *)
(* spite of skipped slots, lagging nodes, an outage, and a slot that ages  *)
(* while its transaction is on the way: at the latest when the slot is old.*)
EventuallyAccepted == <>accepted

=============================================================================
