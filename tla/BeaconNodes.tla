------------------------------ MODULE BeaconNodes -----------------------------
(***************************************************************************)
(* Environment of the proof of one deadline slot: a chain in which slots   *)
(* may be without a block, the nodes behind the configured URLs, which lag *)
(* and go down, the beacon-roots contract (EIP-4788), and the contract     *)
(* that verifies the proofs.  It is what Chain abstracts to "every slot    *)
(* has a block".  A block is named by its slot.                            *)
(***************************************************************************)
EXTENDS SlotMath, FiniteSets

CONSTANTS
    Nodes,               \* the nodes, by index of their URL
    MaxSlot,             \* bound: the slot at which the modelled chain stops
    LastSkip,            \* bound: the slots after it all have blocks
    FINALITY_LAG,        \* the finalized block is at least this far behind
    MAX_LAG,             \* a node is at most this many slots behind
    MAX_SKIPS,           \* at most this many slots in a row have no block
    BEACON_ROOTS_LENGTH, \* the roots the beacon-roots contract remembers
    MaxOutages           \* bound: how often a node goes down

(* Finality is behind whatever a node may not have seen yet, and behind    *)
(* any run of slots without a block.                                       *)
ASSUME NodesAssumption ==
    /\ Nodes \subseteq Nat
    /\ MaxSlot \in Nat
    /\ LastSkip \in Nat
    /\ FINALITY_LAG \in Nat
    /\ MAX_LAG \in Nat \ {0}
    /\ MAX_SKIPS \in Nat
    /\ FINALITY_LAG > MAX_LAG + MAX_SKIPS
    /\ BEACON_ROOTS_LENGTH \in Nat \ {0}
    /\ MaxOutages \in Nat

VARIABLES
    clock,       \* the current slot
    blocks,      \* the slots that have a block
    finalized,   \* the finalized block: that of a checkpoint
    view,        \* view[n]: the slot up to which node n has seen the chain
    down,        \* the nodes that do not answer
    outages      \* how often one went down

nodesVars == <<clock, blocks, finalized, view, down, outages>>

newest(S) == CHOOSE b \in S : \A c \in S : c <= b

BlocksUpTo(slot) == {b \in blocks : b <= slot}

headBlock == newest(blocks)

-----------------------------------------------------------------------------
(* Every slot may be skipped up to LastSkip, but never more than MAX_SKIPS *)
(* in a row.                                                               *)
SkipAllowed(slot, B) ==
    /\ \E b \in B : b + MAX_SKIPS >= slot
    /\ slot <= LastSkip

NewSlot ==
    /\ clock < MaxSlot
    /\ \A n \in Nodes : view[n] + MAX_LAG > clock
    /\ clock' = clock + 1
    /\ \/ blocks' = blocks \cup {clock + 1}
       \/ SkipAllowed(clock + 1, blocks) /\ UNCHANGED blocks
    /\ UNCHANGED <<finalized, view, down, outages>>

(* The newest epoch whose checkpoint may be final at a slot. *)
finalEpochAt(slot) == slotToEpoch(newest({0, slot - FINALITY_LAG}))

(* Finality moves to the checkpoint of an epoch: the newest block at the   *)
(* epoch's first slot.                                                     *)
checkpoint(epoch) == newest(BlocksUpTo(epochToSlot(epoch)))

unfinalizedEpochs == (slotToEpoch(finalized) + 1)..finalEpochAt(clock)

Finalize(epoch) ==
    /\ checkpoint(epoch) > finalized
    /\ finalized' = checkpoint(epoch)
    /\ UNCHANGED <<clock, blocks, view, down, outages>>

Sync(n) ==
    /\ view[n] < clock
    /\ view' = [view EXCEPT ![n] = @ + 1]
    /\ UNCHANGED <<clock, blocks, finalized, down, outages>>

GoDown(n) ==
    /\ n \notin down
    /\ outages < MaxOutages
    /\ down' = down \cup {n}
    /\ outages' = outages + 1
    /\ UNCHANGED <<clock, blocks, finalized, view>>

ComeBack(n) ==
    /\ n \in down
    /\ down' = down \ {n}
    /\ UNCHANGED <<clock, blocks, finalized, view, outages>>

-----------------------------------------------------------------------------
(* What a node answers: a slot, or 404. *)

HeadHeader == [what |-> "header", id |-> "head"]
FinalizedHeader == [what |-> "header", id |-> "finalized"]
FinalizedState == [what |-> "state", id |-> "finalized"]
HeaderAt(slot) == [what |-> "header", id |-> "slot", slot |-> slot]
StateAt(slot) == [what |-> "state", id |-> "slot", slot |-> slot]

(* A node that has not seen enough of the chain names an earlier one.      *)
FinalizedFor(n) ==
    LET known == checkpoint(finalEpochAt(view[n]))
    IN  IF finalized <= known THEN finalized ELSE known

AnswerOf(n, q) ==
    CASE q.id = "head"      -> newest(BlocksUpTo(view[n]))
      [] q.id = "finalized" -> FinalizedFor(n)
      [] q.id = "slot"      -> q.slot

(* There is no block, or no state yet, at the slot asked for. *)
NotFound(n, q) ==
    q.id = "slot" /\ (q.slot > view[n] \/ (q.what = "header" /\ q.slot \notin blocks))

-----------------------------------------------------------------------------
(* The contracts. *)

(* The root that the block of slot b stored when it was executed, unless a *)
(* later block has overwritten it: still there after block `at`.           *)
StillStored(b, at) ==
    /\ b \in BlocksUpTo(at)
    /\ \A c \in BlocksUpTo(at) : c > b => (c - b) % BEACON_ROOTS_LENGTH # 0

(* The beacon-roots contract answers, for the timestamp of a block, with   *)
(* the root of that block's parent.                                        *)
BeaconRootIs(header, rootsTimestamp, at) ==
    \E b \in blocks : /\ slotToTimestamp(b) = rootsTimestamp
                      /\ StillStored(b, at)
                      /\ header = newest(BlocksUpTo(b - 1))

(* block_roots of the state at `slot`, for a slot of the period before it: *)
(* the newest block at that time.                                          *)
BlockRootIn(slot, rootIndex) ==
    LET s == CHOOSE x \in (slot - SLOTS_PER_HISTORICAL_ROOT)..(slot - 1) :
                        x % SLOTS_PER_HISTORICAL_ROOT = rootIndex
    IN  newest(BlocksUpTo(s))

(* The state of a block has the summaries of the periods that are over,    *)
(* from the Capella fork on.                                               *)
HasSummary(block, index) == index >= 0 /\ calcSlotOfSummary(index) <= block

=============================================================================
