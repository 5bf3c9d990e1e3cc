-------------------------- MODULE ProofSlots_proofs --------------------------
(***************************************************************************)
(* The search of findNextAvailableSlot finds the first block after the     *)
(* deadline, at every length of the chain, whatever is skipped, however    *)
(* nodes lag and fail, and whichever URL answers.                          *)
(*                                                                         *)
(* The argument: handleBlock looks at a slot only when its deadline is     *)
(* finalized, finality is further behind than nodes lag and than blocks    *)
(* are apart, so the slot the search stops at is one that every node has   *)
(* seen.  A 404 for a slot before it means that it was skipped, and a slot *)
(* of the past stays as it is.                                             *)
(*                                                                         *)
(* From it: the verifier takes the proof made for that block, current or   *)
(* historical, but for three known reasons.                                *)
(***************************************************************************)
EXTENDS ProofSlots, SlotMath_proofs, WellFoundedInduction

(* The chain has a block in every MAX_SKIPS + 1 slots. *)
ChainInv ==
    /\ clock \in Nat
    /\ deadlineSlot \in 1..clock
    /\ blocks \in SUBSET (0..clock)
    /\ 0 \in blocks
    /\ \A s \in 0..clock : \E b \in blocks : b <= s /\ s <= b + MAX_SKIPS

(* A block that is finalized. *)
Final(s) == s \in blocks /\ s \in 0..clock /\ (s = 0 \/ s + FINALITY_LAG <= clock)

NodesInv ==
    /\ view \in [Nodes -> 0..clock]
    /\ \A n \in Nodes : clock <= view[n] + MAX_LAG
    /\ Final(finalized)

FinalAnswer ==
    pc \in {"finalizedState", "finalizedHeader"} =>
        /\ request \in {FinalizedState, FinalizedHeader}
        /\ status = "ok" => Final(answer)

(* A slot is in hand once its deadline is finalized. *)
DeadlineFinal ==
    pc \notin {"idle", "finalizedState", "finalizedHeader"} =>
        deadlineSlot + FINALITY_LAG <= clock

(* A search has passed skipped slots only. *)
Searching ==
    pc \in {"slot", "slotAgain"} =>
        /\ request = HeaderAt(searchSlot)
        /\ searchSlot \in deadlineSlotPenalizable..(deadlineSlotPenalizable + MAX_SKIPS)
        /\ \A s \in deadlineSlotPenalizable..(searchSlot - 1) : s \notin blocks
        /\ status = "ok" => searchSlot \in blocks
        /\ status = "404" => searchSlot \notin blocks

Found(slot) == slot = 0 \/ (slot \in Nat /\ IsFirstBlock(slot))

SearchInv ==
    /\ ChainInv
    /\ NodesInv
    /\ url \in Urls
    /\ FinalAnswer
    /\ DeadlineFinal
    /\ Searching
    /\ Found(actualSlot)
    /\ Found(historicalSlot)

-----------------------------------------------------------------------------
(* The chain. *)

(* The newest block of a set is one of them. *)
LEMMA NewestIsOne ==
    ASSUME NEW n \in Nat, NEW S \in SUBSET (0..n), S # {}
    PROVE  newest(S) \in S /\ \A c \in S : c <= newest(S)
<1> DEFINE T == {n - b : b \in S}
           R == OpToRel(<, Nat)
<1>0. \A b \in S : b \in Nat /\ b <= n
  OBVIOUS
<1>1. T \subseteq Nat /\ T # {}
  <2>1. \A b \in S : n - b \in Nat
    BY <1>0
  <2> QED
    BY <2>1
<1>2. PICK x \in T : \A y \in T : ~ (<<y, x>> \in R)
  <2> HIDE DEF T, R
  <2>1. IsWellFoundedOn(R, Nat)
    BY NatLessThanWellFounded DEF R
  <2> QED
    BY <1>1, <2>1, WFMin
<1>3. \A y \in T : ~(y < x)
  BY <1>1, <1>2 DEF OpToRel
<1>4. PICK b \in S : x = n - b
  OBVIOUS
<1>5. \A c \in S : c <= b
  <2> SUFFICES ASSUME NEW c \in S PROVE c <= b
    OBVIOUS
  <2>1. ~(n - c < n - b)
    BY <1>3, <1>4
  <2> QED
    BY <1>0, <2>1
<1> QED
  BY <1>5 DEF newest

LEMMA LatestOfPair ==
    ASSUME NEW y \in Int
    PROVE  newest({0, y}) \in Nat /\ newest({0, y}) \in {0, y}
<1> DEFINE z == IF y >= 0 THEN y ELSE 0
<1>1. z \in {0, y} /\ \A c \in {0, y} : c <= z
  OBVIOUS
<1>2. newest({0, y}) \in {0, y} /\ \A c \in {0, y} : c <= newest({0, y})
  BY <1>1 DEF newest
<1> QED
  BY <1>2

LEMMA TimesMonotone ==
    ASSUME NEW d \in Nat, NEW e \in Nat, NEW n \in Nat, d <= e
    PROVE  d * n \in Nat /\ d * n <= e * n
BY SMT

(* A checkpoint is as far behind as finality is. *)
LEMMA CheckpointFinal ==
    ASSUME ChainInv, NEW x \in 0..clock, NEW e \in Nat, e <= finalEpochAt(x)
    PROVE  Final(checkpoint(e)) /\ checkpoint(e) \in Nat
<1> DEFINE m == newest({0, x - FINALITY_LAG})
           bound == epochToSlot(e)
<1>1. x \in Nat /\ clock \in Nat /\ x <= clock /\ FINALITY_LAG \in Nat /\ SLOTS_PER_EPOCH \in Nat \ {0}
  BY NodesAssumption, SlotMathAssumption DEF ChainInv
<1>2. m \in Nat /\ (m = 0 \/ m + FINALITY_LAG <= clock)
  <2>1. m \in Nat /\ m \in {0, x - FINALITY_LAG}
    BY <1>1, LatestOfPair
  <2> QED
    BY <1>1, <2>1
<1>3. bound \in Nat /\ bound <= m
  <2>1. finalEpochAt(x) = m \div SLOTS_PER_EPOCH
    BY DEF finalEpochAt, slotToEpoch
  <2> HIDE DEF m
  <2>2. /\ m \div SLOTS_PER_EPOCH \in Int
        /\ (m \div SLOTS_PER_EPOCH) * SLOTS_PER_EPOCH <= m
    BY <1>1, <1>2, DivBounds
  <2>3. m \div SLOTS_PER_EPOCH \in Nat
    BY <2>1, <2>2
  <2>4. /\ e * SLOTS_PER_EPOCH \in Nat
        /\ e * SLOTS_PER_EPOCH <= (m \div SLOTS_PER_EPOCH) * SLOTS_PER_EPOCH
    BY <1>1, <2>1, <2>3, TimesMonotone
  <2>5. (m \div SLOTS_PER_EPOCH) * SLOTS_PER_EPOCH \in Int
    BY <1>1, <2>2
  <2> QED
    BY <1>1, <1>2, <2>2, <2>4, <2>5 DEF epochToSlot
<1>4. checkpoint(e) \in BlocksUpTo(bound)
  <2>1. BlocksUpTo(bound) \in SUBSET (0..clock) /\ 0 \in BlocksUpTo(bound)
    <3> HIDE DEF m, bound
    <3>1. blocks \in SUBSET (0..clock) /\ 0 \in blocks
      BY DEF ChainInv
    <3>2. BlocksUpTo(bound) \subseteq blocks
      BY DEF BlocksUpTo
    <3>3. 0 \in BlocksUpTo(bound)
      BY <1>3, <3>1 DEF BlocksUpTo
    <3> QED
      BY <3>1, <3>2, <3>3
  <2> QED
    BY <1>1, <2>1, NewestIsOne DEF checkpoint
<1>5. checkpoint(e) \in 0..clock /\ checkpoint(e) <= bound /\ checkpoint(e) \in blocks
  BY <1>1, <1>4 DEF BlocksUpTo, ChainInv
<1> HIDE DEF m, bound
<1> QED
  BY <1>1, <1>2, <1>3, <1>5 DEF Final

LEMMA FinalEpochNat ==
    ASSUME NEW x \in Int
    PROVE  finalEpochAt(x) \in Nat
<1> DEFINE m == newest({0, x - FINALITY_LAG})
<1>1. SLOTS_PER_EPOCH \in Nat \ {0} /\ x - FINALITY_LAG \in Int
  BY SlotMathAssumption, NodesAssumption
<1>2. m \in Nat
  BY <1>1, LatestOfPair
<1> HIDE DEF m
<1>3. m \div SLOTS_PER_EPOCH \in Nat
  BY <1>1, <1>2, SMT
<1> QED
  BY <1>3 DEF finalEpochAt, slotToEpoch, m

(* What a node takes for finalized is final. *)
LEMMA FinalizedForFinal ==
    ASSUME ChainInv, NodesInv, NEW n \in Nodes
    PROVE  Final(FinalizedFor(n))
<1>1. view[n] \in 0..clock /\ Final(finalized) /\ clock \in Nat
  BY DEF NodesInv, ChainInv
<1>2. finalEpochAt(view[n]) \in Nat
  BY <1>1, FinalEpochNat
<1>3. Final(checkpoint(finalEpochAt(view[n])))
  BY <1>1, <1>2, CheckpointFinal
<1> QED
  BY <1>1, <1>3 DEF FinalizedFor

(* A search that has passed skipped slots only has a block ahead, at most  *)
(* MAX_SKIPS slots after the first one, and every node has seen it.        *)
LEMMA BlockAhead ==
    ASSUME ChainInv, NodesInv, DeadlineFinal, Searching, pc \in {"slot", "slotAgain"}
    PROVE  /\ \E b \in blocks : searchSlot <= b /\ b <= deadlineSlotPenalizable + MAX_SKIPS
           /\ \A n \in Nodes : searchSlot <= view[n]
           /\ searchSlot <= clock
<1> DEFINE last == deadlineSlotPenalizable + MAX_SKIPS
<1>1. /\ deadlineSlot \in Nat /\ clock \in Nat /\ MAX_SKIPS \in Nat /\ MAX_LAG \in Nat
      /\ FINALITY_LAG \in Nat /\ FINALITY_LAG > MAX_LAG + MAX_SKIPS
      /\ deadlineSlot + FINALITY_LAG <= clock
  BY NodesAssumption DEF ChainInv, DeadlineFinal
<1>2. /\ searchSlot \in deadlineSlotPenalizable..last
      /\ \A s \in deadlineSlotPenalizable..(searchSlot - 1) : s \notin blocks
  BY DEF Searching
<1>3. last \in Nat /\ last + MAX_LAG <= clock
  BY <1>1 DEF deadlineSlotPenalizable
<1>4. PICK b \in blocks : b <= last /\ last <= b + MAX_SKIPS
  BY <1>1, <1>3 DEF ChainInv
<1>5. b \in Nat
  BY <1>4 DEF ChainInv
<1>6. searchSlot <= b
  BY <1>1, <1>2, <1>4, <1>5 DEF deadlineSlotPenalizable
<1>7. \A n \in Nodes : searchSlot <= view[n]
  BY <1>1, <1>2, <1>3 DEF NodesInv, deadlineSlotPenalizable
<1> QED
  BY <1>1, <1>2, <1>3, <1>4, <1>6, <1>7 DEF deadlineSlotPenalizable

-----------------------------------------------------------------------------
(* The invariant holds at first. *)
LEMMA SearchInvInit == Init => SearchInv
<1> SUFFICES ASSUME Init PROVE SearchInv
  OBVIOUS
<1>1. deadlineSlot \in Nat /\ deadlineSlot >= 1 /\ clock = deadlineSlot
  BY NodesAssumption, ProofSlotsAssumption DEF Init
<1>2. ChainInv
  <2>1. /\ blocks \in SUBSET (0..clock)
        /\ 0..(deadlineSlot - 1) \subseteq blocks
        /\ \A s \in deadlineSlot..clock :
              s \in blocks \/ SkipAllowed(s, {b \in blocks : b < s})
    BY DEF Init, PossibleChains
  <2>2. ASSUME NEW s \in 0..clock
        PROVE  \E b \in blocks : b <= s /\ s <= b + MAX_SKIPS
    <3>1. CASE s \in blocks
      BY <1>1, <3>1, NodesAssumption
    <3>2. CASE s \notin blocks
      <4>1. SkipAllowed(s, {b \in blocks : b < s})
        BY <1>1, <2>1, <3>2
      <4>2. PICK b \in {c \in blocks : c < s} : b + MAX_SKIPS >= s
        BY <4>1 DEF SkipAllowed
      <4> QED
        BY <1>1, <2>1, <4>2, NodesAssumption
    <3> QED
      BY <3>1, <3>2
  <2> QED
    BY <1>1, <2>1, <2>2 DEF ChainInv
<1>3. view = [n \in Nodes |-> clock]
  BY DEF Init
<1>4. Final(finalized)
  <2>1. finalEpochAt(clock) \in Nat
    BY <1>1, FinalEpochNat
  <2>2. clock \in 0..clock
    BY <1>1
  <2>3. Final(checkpoint(finalEpochAt(clock)))
    BY <1>2, <2>1, <2>2, CheckpointFinal
  <2> QED
    BY <2>3 DEF Init
<1>5. NodesInv
  BY <1>1, <1>3, <1>4, NodesAssumption DEF NodesInv
<1>6. url \in Urls
  BY RestAssumption DEF Init, RestInit, Urls
<1> QED
  BY <1>2, <1>5, <1>6
  DEF Init, SearchInv, FinalAnswer, DeadlineFinal, Searching, Found

-----------------------------------------------------------------------------
(* The environment keeps it. *)

(* A new slot leaves the past as it is. *)
LEMMA TimeKeepsSearchInv == SearchInv /\ TimePasses => SearchInv'
<1> SUFFICES ASSUME SearchInv, TimePasses PROVE SearchInv'
  OBVIOUS
<1>1. /\ clock' = clock + 1
      /\ \A n \in Nodes : view[n] + MAX_LAG > clock
      /\ \/ blocks' = blocks \cup {clock + 1}
         \/ SkipAllowed(clock + 1, blocks) /\ blocks' = blocks
      /\ UNCHANGED <<finalized, view, restVars, callVars>>
  BY DEF TimePasses, NewSlot, BotWaits
<1>2. ChainInv /\ NodesInv /\ clock \in Nat /\ MAX_SKIPS \in Nat /\ MAX_LAG \in Nat
      /\ FINALITY_LAG \in Nat
  BY NodesAssumption DEF SearchInv, ChainInv
<1>3. blocks \subseteq 0..clock /\ blocks \subseteq blocks'
  BY <1>1, <1>2 DEF ChainInv
<1>4. \A s \in 0..clock : s \in blocks' <=> s \in blocks
  BY <1>1, <1>2
<1>5. ChainInv'
  <2>1. deadlineSlot' \in 1..clock' /\ clock' \in Nat
    BY <1>1, <1>2 DEF ChainInv, callVars
  <2>2. blocks' \in SUBSET (0..clock') /\ 0 \in blocks'
    <3>1. 0..clock \subseteq 0..clock' /\ clock + 1 \in 0..clock'
      BY <1>1, <1>2
    <3>2. 0 \in blocks
      BY <1>2 DEF ChainInv
    <3> QED
      BY <1>1, <1>3, <3>1, <3>2
  <2>3. ASSUME NEW s \in 0..clock'
        PROVE  \E b \in blocks' : b <= s /\ s <= b + MAX_SKIPS
    <3>1. CASE s \in 0..clock
      BY <1>2, <1>3, <3>1 DEF ChainInv
    <3>2. CASE s = clock + 1 /\ blocks' = blocks \cup {clock + 1}
      <4>1. s \in blocks' /\ s <= s + MAX_SKIPS /\ s <= s
        BY <1>2, <3>2
      <4> QED
        BY <4>1
    <3>3. CASE s = clock + 1 /\ SkipAllowed(clock + 1, blocks) /\ blocks' = blocks
      <4>1. PICK b \in blocks : b + MAX_SKIPS >= clock + 1
        BY <3>3 DEF SkipAllowed
      <4> QED
        BY <1>2, <1>3, <3>3, <4>1
    <3> QED
      BY <1>1, <1>2, <3>1, <3>2, <3>3
  <2> QED
    BY <2>1, <2>2, <2>3 DEF ChainInv
<1>6. \A s : Final(s) => Final(s)'
  BY <1>1, <1>2, <1>3 DEF Final
<1>7. NodesInv'
  <2>1. \A n \in Nodes : clock' <= view'[n] + MAX_LAG /\ view'[n] \in 0..clock'
    BY <1>1, <1>2 DEF NodesInv
  <2>2. Final(finalized)'
    BY <1>1, <1>2, <1>3 DEF NodesInv, Final
  <2> QED
    BY <1>1, <1>2, <2>1, <2>2 DEF NodesInv
<1>8. FinalAnswer' /\ DeadlineFinal' /\ url' \in Urls
  BY <1>1, <1>2, <1>3
  DEF SearchInv, FinalAnswer, Final, DeadlineFinal, ChainInv, restVars, callVars
<1>9. Searching'
  <2> SUFFICES ASSUME pc \in {"slot", "slotAgain"} PROVE Searching'
    BY <1>1 DEF Searching, callVars
  <2>1. searchSlot <= clock
    BY BlockAhead DEF SearchInv
  <2>2. deadlineSlotPenalizable' = deadlineSlotPenalizable
        /\ deadlineSlotPenalizable \in Nat
    BY <1>1, <1>2 DEF deadlineSlotPenalizable, callVars, ChainInv
  <2>3. searchSlot \in Nat /\ searchSlot \in 0..clock
    BY <1>2, <2>1, <2>2 DEF SearchInv, Searching
  <2>4. \A s \in deadlineSlotPenalizable..(searchSlot - 1) : s \notin blocks'
    BY <1>2, <1>4, <2>2, <2>3 DEF SearchInv, Searching
  <2> QED
    BY <1>1, <1>4, <2>2, <2>3, <2>4
    DEF SearchInv, Searching, restVars, callVars, HeaderAt
<1>10. ASSUME NEW slot, Found(slot) PROVE Found(slot)'
  <2>1. deadlineSlotPenalizable' = deadlineSlotPenalizable
        /\ deadlineSlotPenalizable \in Nat
    BY <1>1, <1>2 DEF deadlineSlotPenalizable, callVars, ChainInv
  <2> QED
    BY <1>2, <1>3, <1>4, <1>10, <2>1 DEF Found, IsFirstBlock
<1>11. Found(actualSlot)' /\ Found(historicalSlot)'
  BY <1>1, <1>10 DEF SearchInv, callVars, Found, IsFirstBlock, deadlineSlotPenalizable
<1> QED
  BY <1>5, <1>7, <1>8, <1>9, <1>11 DEF SearchInv

LEMMA NetworkKeepsSearchInv ==
    SearchInv /\ (FinalityMoves \/ NodeCatchesUp \/ NodeGoesDown \/ NodeComesBack)
        => SearchInv'
<1> SUFFICES ASSUME SearchInv,
                    FinalityMoves \/ NodeCatchesUp \/ NodeGoesDown \/ NodeComesBack
             PROVE  SearchInv'
  OBVIOUS
<1>1. UNCHANGED <<clock, blocks, restVars, callVars>>
  BY DEF FinalityMoves, NodeCatchesUp, NodeGoesDown, NodeComesBack, BotWaits,
         Finalize, Sync, GoDown, ComeBack
<1>2. ChainInv /\ NodesInv /\ clock \in Nat
  BY DEF SearchInv, ChainInv
<1>3. NodesInv'
  <2>1. CASE FinalityMoves
    <3>1. PICK epoch \in unfinalizedEpochs : Finalize(epoch)
      BY <2>1 DEF FinalityMoves
    <3>2. epoch \in Nat /\ epoch <= finalEpochAt(clock)
      <4>1. finalized \in Nat /\ SLOTS_PER_EPOCH \in Nat \ {0}
        BY <1>2, SlotMathAssumption DEF NodesInv, Final
      <4>2. slotToEpoch(finalized) \in Nat
        BY <4>1, SMT DEF slotToEpoch
      <4>3. finalEpochAt(clock) \in Nat
        BY <1>2, FinalEpochNat
      <4> QED
        BY <4>2, <4>3 DEF unfinalizedEpochs
    <3>3. clock \in 0..clock
      BY <1>2
    <3>4. Final(checkpoint(epoch))
      BY <1>2, <3>2, <3>3, CheckpointFinal
    <3> QED
      BY <1>1, <1>2, <3>1, <3>4 DEF Finalize, NodesInv, Final
  <2>2. CASE NodeCatchesUp
    <3>1. PICK n \in Nodes : Sync(n)
      BY <2>2 DEF NodeCatchesUp
    <3> QED
      BY <1>1, <1>2, <3>1, NodesAssumption DEF Sync, NodesInv, Final
  <2>3. CASE NodeGoesDown \/ NodeComesBack
    <3>1. UNCHANGED <<view, finalized>>
      BY <2>3 DEF NodeGoesDown, NodeComesBack, GoDown, ComeBack
    <3> QED
      BY <1>1, <1>2, <3>1 DEF NodesInv, Final
  <2> QED
    BY <2>1, <2>2, <2>3
<1> QED
  BY <1>1, <1>2, <1>3
  DEF SearchInv, ChainInv, FinalAnswer, DeadlineFinal, Searching, Found, IsFirstBlock,
      Final, deadlineSlotPenalizable, HeaderAt, restVars, callVars

-----------------------------------------------------------------------------
(* The bot keeps it. *)

(* What holds of the chain and the nodes is none of the bot's doing. *)
LEMMA BotLeavesChain ==
    ASSUME SearchInv, UNCHANGED nodesVars, UNCHANGED deadlineSlot
    PROVE  /\ ChainInv' /\ NodesInv'
           /\ deadlineSlotPenalizable' = deadlineSlotPenalizable
           /\ deadlineSlotPenalizable \in Nat
           /\ \A s : Found(s) => Found(s)'
BY DEF SearchInv, ChainInv, NodesInv, Final, Found, IsFirstBlock, nodesVars,
       deadlineSlotPenalizable

(* A failed attempt: the URL in use stays one of those configured. *)
LEMMA RejectKeepsUrl ==
    ASSUME NEW e, url \in Urls, Reject(e)
    PROVE  /\ url' \in Urls
           /\ request' = request
           /\ status' \in {status, e}
           /\ status = "pending"
<1>1. UrlCount \in Nat \ {0}
  BY RestAssumption
<1> QED
  BY <1>1 DEF Reject, FirstFails, RetryLater, NextUrl, AllUrlsFailed, StartUrl, Waiting, Urls

(* The answer of one URL.  A node that says 404 in a search says so        *)
(* because the slot was skipped: it has seen the chain that far.           *)
LEMMA AttemptKeepsSearchInv == SearchInv /\ Attempt => SearchInv'
<1> SUFFICES ASSUME SearchInv, Attempt PROVE SearchInv'
  OBVIOUS
<1>1. UNCHANGED nodesVars /\ UNCHANGED callVars /\ Waiting
  BY DEF Attempt, Resolve, Reject, FirstFails, RetryLater, NextUrl, AllUrlsFailed
<1>2. UNCHANGED deadlineSlot
  BY <1>1 DEF callVars
<1>3. /\ ChainInv' /\ NodesInv'
      /\ deadlineSlotPenalizable' = deadlineSlotPenalizable
      /\ Found(actualSlot)' /\ Found(historicalSlot)'
  BY <1>1, <1>2, BotLeavesChain
  DEF SearchInv, callVars, Found, IsFirstBlock, deadlineSlotPenalizable
<1>4. url \in Urls /\ url \in Nodes
  BY ProofSlotsAssumption DEF SearchInv
<1>5. url' \in Urls /\ request' = request
  BY <1>4, RejectKeepsUrl DEF Attempt, Resolve
<1>6. FinalAnswer'
  <2> SUFFICES ASSUME pc \in {"finalizedState", "finalizedHeader"}, status' = "ok"
               PROVE  Final(answer)'
    BY <1>1, <1>5 DEF SearchInv, FinalAnswer, callVars
  <2>1. Resolve(AnswerOf(url, request))
    BY <1>1, <1>4, RejectKeepsUrl DEF Attempt, Waiting
  <2>2. request \in {FinalizedState, FinalizedHeader}
    BY DEF SearchInv, FinalAnswer
  <2>3. answer' = FinalizedFor(url)
    BY <2>1, <2>2 DEF Resolve, AnswerOf, FinalizedState, FinalizedHeader
  <2>4. Final(FinalizedFor(url))
    BY <1>4, FinalizedForFinal DEF SearchInv
  <2> QED
    BY <1>1, <2>3, <2>4 DEF Final, nodesVars
<1>7. DeadlineFinal'
  BY <1>1 DEF SearchInv, DeadlineFinal, nodesVars, callVars
<1>8. Searching'
  <2> SUFFICES ASSUME pc \in {"slot", "slotAgain"} PROVE Searching'
    BY <1>1 DEF Searching, callVars
  <2>1. request = HeaderAt(searchSlot) /\ searchSlot <= view[url] /\ status = "pending"
    BY <1>1, <1>4, BlockAhead DEF SearchInv, Searching, Waiting
  <2>2. request.id = "slot" /\ request.what = "header" /\ request.slot = searchSlot
    BY <2>1 DEF HeaderAt
  <2>3. searchSlot \in Int /\ view[url] \in Int
    BY <1>4 DEF SearchInv, Searching, NodesInv, ChainInv, deadlineSlotPenalizable
  <2>4. NotFound(url, request) <=> searchSlot \notin blocks
    BY <2>1, <2>2, <2>3 DEF NotFound
  <2>5. status' = "ok" => searchSlot \in blocks
    BY <1>4, <2>1, <2>4, RejectKeepsUrl DEF Attempt
  <2>6. status' = "404" => searchSlot \notin blocks
    BY <1>4, <2>1, <2>4, RejectKeepsUrl DEF Attempt, Resolve
  <2> QED
    BY <1>1, <1>3, <1>5, <2>5, <2>6
    DEF SearchInv, Searching, HeaderAt, nodesVars, callVars
<1> QED
  BY <1>3, <1>5, <1>6, <1>7, <1>8 DEF SearchInv

(* A new request starts at the first URL. *)
LEMMA AskStarts ==
    ASSUME NEW what, Ask(what)
    PROVE  url' \in Urls /\ request' = what /\ status' = "pending"
BY RestAssumption DEF Ask, StartUrl, Urls

LEMMA NothingAskedStarts ==
    ASSUME NothingAsked
    PROVE  url' \in Urls /\ status' = "pending"
BY RestAssumption DEF NothingAsked, StartUrl, Urls

(* The steps that end a cycle forget what was found. *)
LEMMA CycleOverKeepsSearchInv == SearchInv /\ CycleOver => SearchInv'
<1> SUFFICES ASSUME SearchInv, CycleOver PROVE SearchInv'
  OBVIOUS
<1>1. /\ UNCHANGED nodesVars /\ UNCHANGED deadlineSlot
      /\ pc' = "idle" /\ actualSlot' = 0 /\ historicalSlot' = 0
      /\ NothingAsked
  BY DEF CycleOver, ForgetCall
<1>2. url' \in Urls
  BY <1>1, NothingAskedStarts
<1>3. ChainInv' /\ NodesInv'
  BY <1>1, BotLeavesChain
<1> QED
  BY <1>1, <1>2, <1>3
  DEF SearchInv, FinalAnswer, DeadlineFinal, Searching, Found

LEMMA ChoiceKeepsSearchInv ==
    SearchInv /\ (StartCycle \/ GotFinalizedState \/ GotFinalizedHeader \/ GotHead)
        => SearchInv'
<1> SUFFICES ASSUME SearchInv,
                    StartCycle \/ GotFinalizedState \/ GotFinalizedHeader \/ GotHead
             PROVE  SearchInv'
  OBVIOUS
<1>1. UNCHANGED nodesVars /\ UNCHANGED deadlineSlot
  BY DEF StartCycle, ForgetCall, GotFinalizedState, GotFinalizedHeader, GotHead
<1>2. /\ ChainInv' /\ NodesInv'
      /\ deadlineSlotPenalizable' = deadlineSlotPenalizable
      /\ deadlineSlotPenalizable \in Nat
      /\ \A s : Found(s) => Found(s)'
  BY <1>1, BotLeavesChain
<1>3. Found(actualSlot)' /\ Found(historicalSlot)'
  BY <1>2
  DEF SearchInv, Found, IsFirstBlock, StartCycle, ForgetCall, GotFinalizedState,
      GotFinalizedHeader, GotHead
<1>4. CASE StartCycle \/ GotFinalizedState
  <2>1. /\ pc' \in {"finalizedState", "finalizedHeader"}
        /\ request' \in {FinalizedState, FinalizedHeader}
        /\ url' \in Urls /\ status' = "pending"
    BY <1>4, AskStarts DEF StartCycle, GotFinalizedState
  <2> QED
    BY <1>2, <1>3, <2>1
    DEF SearchInv, FinalAnswer, DeadlineFinal, Searching, FinalizedState, FinalizedHeader
<1>5. CASE GotFinalizedHeader
  <2>1. pc' = "head" /\ url' \in Urls
    BY <1>5, AskStarts DEF GotFinalizedHeader
  <2>2. Final(answer) /\ deadlineSlot <= answer /\ deadlineSlot \in 1..clock /\ clock \in Nat
    BY <1>5
    DEF GotFinalizedHeader, DeadlinePassed, SearchInv, FinalAnswer, ChainInv
  <2>3. deadlineSlot + FINALITY_LAG <= clock
    BY <2>2, NodesAssumption DEF Final
  <2> QED
    BY <1>1, <1>2, <1>3, <2>1, <2>3
    DEF SearchInv, FinalAnswer, DeadlineFinal, Searching, nodesVars
<1>6. CASE GotHead
  <2>1. /\ pc = "head" /\ pc' = "slot" /\ url' \in Urls /\ status' = "pending"
        /\ request' = HeaderAt(deadlineSlotPenalizable)
        /\ searchSlot' = deadlineSlotPenalizable
    BY <1>6, AskStarts DEF GotHead, Search
  <2>2. DeadlineFinal'
    BY <1>1, <2>1 DEF SearchInv, DeadlineFinal, nodesVars
  <2>3. Searching'
    BY <1>2, <2>1, NodesAssumption DEF Searching, HeaderAt
  <2> QED
    BY <1>2, <1>3, <2>1, <2>2, <2>3 DEF SearchInv, FinalAnswer
<1> QED
  BY <1>4, <1>5, <1>6

(* A slot is passed when it was skipped. *)
LEMMA TryNextKeepsSearchInv == SearchInv /\ TryNextSlot => SearchInv'
<1> SUFFICES ASSUME SearchInv, TryNextSlot PROVE SearchInv'
  OBVIOUS
<1>1. /\ UNCHANGED nodesVars /\ UNCHANGED <<deadlineSlot, pc, actualSlot, historicalSlot>>
      /\ pc \in {"slot", "slotAgain"} /\ status = "404"
      /\ searchSlot' = searchSlot + 1
      /\ Ask(HeaderAt(searchSlot + 1))
  BY DEF TryNextSlot, Skipped
<1>2. /\ ChainInv' /\ NodesInv'
      /\ deadlineSlotPenalizable' = deadlineSlotPenalizable
      /\ deadlineSlotPenalizable \in Nat
      /\ \A s : Found(s) => Found(s)'
  BY <1>1, BotLeavesChain
<1>3. Found(actualSlot)' /\ Found(historicalSlot)'
  BY <1>1, <1>2 DEF SearchInv, Found, IsFirstBlock
<1>4. /\ url' \in Urls /\ status' = "pending"
      /\ request' = HeaderAt(searchSlot + 1)
  BY <1>1, AskStarts
<1>5. DeadlineFinal' /\ FinalAnswer'
  BY <1>1 DEF SearchInv, DeadlineFinal, FinalAnswer, nodesVars
<1>6. Searching'
  <2>1. /\ searchSlot \in deadlineSlotPenalizable..(deadlineSlotPenalizable + MAX_SKIPS)
        /\ \A s \in deadlineSlotPenalizable..(searchSlot - 1) : s \notin blocks
        /\ searchSlot \notin blocks
    BY <1>1 DEF SearchInv, Searching
  <2>2. PICK b \in blocks : searchSlot <= b /\ b <= deadlineSlotPenalizable + MAX_SKIPS
    BY <1>1, BlockAhead DEF SearchInv
  <2>3. b \in Nat /\ MAX_SKIPS \in Nat
    BY <2>2, NodesAssumption DEF SearchInv, ChainInv
  <2>4. searchSlot + 1 \in deadlineSlotPenalizable..(deadlineSlotPenalizable + MAX_SKIPS)
    BY <1>2, <2>1, <2>2, <2>3
  <2>5. \A s \in deadlineSlotPenalizable..searchSlot : s \notin blocks
    BY <1>2, <2>1, <2>3
  <2>6. (searchSlot + 1) - 1 = searchSlot
    BY <1>2, <2>1, <2>3
  <2> QED
    BY <1>1, <1>2, <1>4, <2>4, <2>5, <2>6 DEF Searching, HeaderAt, nodesVars
<1> QED
  BY <1>2, <1>3, <1>4, <1>5, <1>6 DEF SearchInv

(* The slot a search ends with is the first block. *)
LEMMA FoundKeepsSearchInv ==
    SearchInv /\ (FoundSlot \/ FoundSlotAgain) => SearchInv'
<1> SUFFICES ASSUME SearchInv, FoundSlot \/ FoundSlotAgain PROVE SearchInv'
  OBVIOUS
<1>1. /\ UNCHANGED nodesVars /\ UNCHANGED deadlineSlot
      /\ pc \in {"slot", "slotAgain"} /\ pc' \in {"deadlineState", "summaryState"}
      /\ status = "ok"
  BY DEF FoundSlot, FoundSlotAgain
<1>2. /\ ChainInv' /\ NodesInv'
      /\ deadlineSlotPenalizable \in Nat
      /\ \A s : Found(s) => Found(s)'
  BY <1>1, BotLeavesChain
<1>3. Found(searchSlot)
  <2>1. /\ searchSlot \in deadlineSlotPenalizable..(deadlineSlotPenalizable + MAX_SKIPS)
        /\ \A s \in deadlineSlotPenalizable..(searchSlot - 1) : s \notin blocks
        /\ searchSlot \in blocks
    BY <1>1 DEF SearchInv, Searching
  <2>2. searchSlot \in Nat
    BY <1>2, <2>1, NodesAssumption
  <2> QED
    BY <2>1, <2>2 DEF Found, IsFirstBlock
<1>4. Found(actualSlot)' /\ Found(historicalSlot)'
  <2>1. actualSlot' \in {actualSlot, searchSlot} /\ historicalSlot' \in {historicalSlot, searchSlot}
    BY DEF FoundSlot, FoundSlotAgain
  <2>2. Found(actualSlot) /\ Found(historicalSlot)
    BY DEF SearchInv
  <2> QED
    BY <1>1, <1>3, <2>1, <2>2 DEF Found, IsFirstBlock, nodesVars, deadlineSlotPenalizable
<1>5. url' \in Urls
  BY AskStarts DEF FoundSlot, FoundSlotAgain
<1> QED
  BY <1>1, <1>2, <1>4, <1>5
  DEF SearchInv, FinalAnswer, DeadlineFinal, Searching, nodesVars

LEMMA ProofKeepsSearchInv ==
    SearchInv /\ (GotDeadlineState \/ GotSummaryState \/ EmulateAndSend) => SearchInv'
<1> SUFFICES ASSUME SearchInv, GotDeadlineState \/ GotSummaryState \/ EmulateAndSend
             PROVE  SearchInv'
  OBVIOUS
<1>1. /\ UNCHANGED nodesVars
      /\ UNCHANGED <<deadlineSlot, actualSlot, historicalSlot>>
      /\ pc \in {"deadlineState", "summaryState", "emulate"}
      /\ pc' \in {"slotAgain", "emulate", "sent"}
  BY DEF GotDeadlineState, GotSummaryState, EmulateAndSend
<1>2. /\ ChainInv' /\ NodesInv'
      /\ deadlineSlotPenalizable' = deadlineSlotPenalizable
      /\ deadlineSlotPenalizable \in Nat
      /\ \A s : Found(s) => Found(s)'
  BY <1>1, BotLeavesChain
<1>3. Found(actualSlot)' /\ Found(historicalSlot)'
  BY <1>1, <1>2 DEF SearchInv, Found, IsFirstBlock
<1>4. url' \in Urls
  BY AskStarts, NothingAskedStarts
  DEF SearchInv, GotDeadlineState, GotSummaryState, EmulateAndSend, Search, restVars
<1>5. Searching'
  <2> SUFFICES ASSUME pc' = "slotAgain" PROVE Searching'
    BY <1>1 DEF Searching
  <2>1. Search(deadlineSlotPenalizable)
    BY DEF GotDeadlineState, GotSummaryState, EmulateAndSend
  <2>2. /\ request' = HeaderAt(deadlineSlotPenalizable) /\ status' = "pending"
        /\ searchSlot' = deadlineSlotPenalizable
    BY <2>1, AskStarts DEF Search
  <2> QED
    BY <1>2, <2>2, NodesAssumption DEF Searching, HeaderAt
<1> QED
  BY <1>1, <1>2, <1>3, <1>4, <1>5
  DEF SearchInv, FinalAnswer, DeadlineFinal, nodesVars

LEMMA SearchInvStep == SearchInv /\ [Next]_vars => SearchInv'
<1> SUFFICES ASSUME SearchInv, [Next]_vars PROVE SearchInv'
  OBVIOUS
<1>1. CASE Environment
  BY <1>1, TimeKeepsSearchInv, NetworkKeepsSearchInv DEF Environment
<1>2. CASE StartCycle \/ GotFinalizedState \/ GotFinalizedHeader \/ GotHead
  BY <1>2, ChoiceKeepsSearchInv
<1>3. CASE Attempt
  BY <1>3, AttemptKeepsSearchInv
<1>4. CASE NotEligible \/ SummaryNotFinalized \/ RequestFails \/ EmulationFails \/ Mined
  BY <1>4, CycleOverKeepsSearchInv
  DEF NotEligible, SummaryNotFinalized, RequestFails, EmulationFails, Mined
<1>5. CASE TryNextSlot
  BY <1>5, TryNextKeepsSearchInv
<1>6. CASE FoundSlot \/ FoundSlotAgain
  BY <1>6, FoundKeepsSearchInv
<1>7. CASE GotDeadlineState \/ GotSummaryState \/ EmulateAndSend
  BY <1>7, ProofKeepsSearchInv
<1>8. CASE UNCHANGED vars
  BY <1>8
  DEF vars, nodesVars, restVars, callVars, SearchInv, ChainInv, NodesInv, FinalAnswer,
      DeadlineFinal, Searching, Found, IsFirstBlock, Final, deadlineSlotPenalizable,
      HeaderAt
<1> QED
  BY <1>1, <1>2, <1>3, <1>4, <1>5, <1>6, <1>7, <1>8 DEF Next, BotStep

(* The slot whose header and state the proof is made from is the first one *)
(* with a block after the deadline, and the second search of a historical  *)
(* batch ends at the same slot as the first.                               *)
THEOREM FirstBlockIsFound == Spec => []FirstBlockFound
<1>1. Init => SearchInv
  BY SearchInvInit
<1>2. SearchInv /\ [Next]_vars => SearchInv'
  BY SearchInvStep
<1>3. SearchInv => FirstBlockFound
  BY DEF SearchInv, Found, FirstBlockFound
<1> QED
  BY <1>1, <1>2, <1>3, PTL DEF Spec

-----------------------------------------------------------------------------
(* What the proof is made of, once it is ready. *)

(* The header is that of a finalized block; the slots found are in hand    *)
(* from the moment the search ends; and they are the same block.           *)
ProofInv ==
    /\ pc \notin {"idle", "finalizedState", "finalizedHeader"} => finalizedHeader \in blocks
    /\ pc \in {"deadlineState", "slotAgain", "summaryState", "emulate", "sent"} =>
        IsFirstBlock(actualSlot)
    /\ pc = "summaryState" \/ (pc = "emulate" /\ isOldSlot) => IsFirstBlock(historicalSlot)

(* There is one first block. *)
LEMMA FirstBlockUnique ==
    ASSUME ChainInv, NEW a, NEW b, IsFirstBlock(a), IsFirstBlock(b)
    PROVE  a = b
<1>1. a \in Nat /\ b \in Nat /\ deadlineSlotPenalizable \in Nat
  BY DEF ChainInv, IsFirstBlock, deadlineSlotPenalizable
<1>2. ~(a < b) /\ ~(b < a)
  BY <1>1 DEF IsFirstBlock
<1> QED
  BY <1>1, <1>2

(* The past stays as it is, the first block after the deadline included.   *)
LEMMA FirstBlockStays ==
    ASSUME SearchInv, [Next]_vars, NEW slot, IsFirstBlock(slot)
    PROVE  IsFirstBlock(slot)'
<1>1. /\ clock \in Nat /\ blocks \subseteq 0..clock /\ deadlineSlotPenalizable \in Nat
  BY DEF SearchInv, ChainInv, deadlineSlotPenalizable
<1>2. UNCHANGED deadlineSlot
  BY DEF Next, Environment, TimePasses, FinalityMoves, NodeCatchesUp, NodeGoesDown,
         NodeComesBack, BotWaits, callVars, BotStep, StartCycle, Attempt, GotFinalizedState,
         GotFinalizedHeader, NotEligible, GotHead, TryNextSlot, FoundSlot, GotDeadlineState,
         FoundSlotAgain, GotSummaryState, SummaryNotFinalized, RequestFails, EmulateAndSend,
         EmulationFails, Mined, CycleOver, ForgetCall, vars
<1>3. blocks' = blocks \/ blocks' = blocks \cup {clock + 1}
  BY DEF Next, Environment, TimePasses, NewSlot, FinalityMoves, Finalize, NodeCatchesUp, Sync,
         NodeGoesDown, GoDown, NodeComesBack, ComeBack, nodesVars, BotStep, StartCycle,
         Attempt, GotFinalizedState, GotFinalizedHeader, NotEligible, GotHead, TryNextSlot,
         FoundSlot, GotDeadlineState, FoundSlotAgain, GotSummaryState, SummaryNotFinalized,
         RequestFails, EmulateAndSend, EmulationFails, Mined, CycleOver, vars
<1>4. deadlineSlotPenalizable' = deadlineSlotPenalizable
  BY <1>2 DEF deadlineSlotPenalizable
<1>5. slot \in 0..clock /\ \A s \in deadlineSlotPenalizable..(slot - 1) : s # clock + 1
  BY <1>1 DEF IsFirstBlock
<1> QED
  BY <1>1, <1>3, <1>4, <1>5 DEF IsFirstBlock

(* A search that ends finds it. *)
LEMMA SearchEnds ==
    ASSUME SearchInv, pc \in {"slot", "slotAgain"}, status = "ok"
    PROVE  IsFirstBlock(searchSlot)
BY NodesAssumption DEF SearchInv, ChainInv, Searching, IsFirstBlock, deadlineSlotPenalizable

LEMMA ProofInvStep == SearchInv /\ ProofInv /\ [Next]_vars => ProofInv'
<1> SUFFICES ASSUME SearchInv, ProofInv, [Next]_vars PROVE ProofInv'
  OBVIOUS
<1>1. \A slot : IsFirstBlock(slot) => IsFirstBlock(slot)'
  BY FirstBlockStays
<1> USE DEF ProofInv
<1>2. CASE Environment
  <2>1. UNCHANGED <<pc, finalizedHeader, actualSlot, historicalSlot, isOldSlot>>
    BY <1>2 DEF Environment, TimePasses, FinalityMoves, NodeCatchesUp, NodeGoesDown,
                NodeComesBack, BotWaits, callVars
  <2>2. blocks \subseteq blocks'
    BY <1>2 DEF Environment, TimePasses, NewSlot, FinalityMoves, Finalize, NodeCatchesUp,
                Sync, NodeGoesDown, GoDown, NodeComesBack, ComeBack
  <2> QED
    BY <1>1, <2>1, <2>2 DEF IsFirstBlock, deadlineSlotPenalizable
<1>3. CASE StartCycle \/ GotFinalizedState
  BY <1>3 DEF StartCycle, GotFinalizedState
<1>4. CASE GotFinalizedHeader
  <2>1. pc' = "head" /\ finalizedHeader' = answer /\ Final(answer) /\ blocks' = blocks
    BY <1>4 DEF GotFinalizedHeader, SearchInv, FinalAnswer, nodesVars
  <2> QED
    BY <2>1 DEF Final
<1>5. CASE NotEligible \/ SummaryNotFinalized \/ RequestFails \/ EmulationFails \/ Mined
  BY <1>5 DEF NotEligible, SummaryNotFinalized, RequestFails, EmulationFails, Mined, CycleOver
<1>6. CASE GotHead \/ TryNextSlot
  BY <1>1, <1>6 DEF GotHead, TryNextSlot, nodesVars, IsFirstBlock, deadlineSlotPenalizable
<1>7. CASE FoundSlot
  <2>1. IsFirstBlock(searchSlot)
    BY <1>7, SearchEnds DEF FoundSlot
  <2> QED
    BY <1>1, <1>7, <2>1 DEF FoundSlot, nodesVars, IsFirstBlock, deadlineSlotPenalizable
<1>8. CASE FoundSlotAgain
  <2>1. IsFirstBlock(searchSlot) /\ IsFirstBlock(actualSlot)
    BY <1>8, SearchEnds DEF FoundSlotAgain
  <2> QED
    BY <1>1, <1>8, <2>1 DEF FoundSlotAgain, nodesVars, IsFirstBlock, deadlineSlotPenalizable
<1>9. CASE GotDeadlineState \/ GotSummaryState \/ EmulateAndSend
  BY <1>1, <1>9 DEF GotDeadlineState, GotSummaryState, EmulateAndSend, nodesVars,
                    IsFirstBlock, deadlineSlotPenalizable
<1>10. CASE Attempt \/ UNCHANGED vars
  BY <1>1, <1>10 DEF Attempt, vars, nodesVars, callVars, IsFirstBlock, deadlineSlotPenalizable
<1> QED
  BY <1>2, <1>3, <1>4, <1>5, <1>6, <1>7, <1>8, <1>9, <1>10 DEF Next, BotStep

(* The newest block up to a block is that block. *)
LEMMA NewestUpToBlock ==
    ASSUME ChainInv, NEW b \in blocks
    PROVE  newest(BlocksUpTo(b)) = b
<1>1. blocks \subseteq Nat
  BY DEF ChainInv
<1> DEFINE S == BlocksUpTo(b)
<1>2. b \in S /\ (\A c \in S : c <= b) /\ S \subseteq Nat
  <2>1. b \in Nat
    BY <1>1
  <2>2. \A c \in S : c \in blocks /\ c <= b
    BY DEF BlocksUpTo
  <2>3. b \in S
    BY <2>1 DEF BlocksUpTo
  <2> HIDE DEF S
  <2> QED
    BY <1>1, <2>2, <2>3
<1> HIDE DEF S
<1>3. newest(S) \in S /\ \A c \in S : c <= newest(S)
  BY <1>2 DEF newest
<1>4. newest(S) \in Nat /\ newest(S) <= b /\ b <= newest(S)
  BY <1>2, <1>3
<1> QED
  BY <1>1, <1>4 DEF S

(* The timestamp that goes with a header is that of the slot after it: the *)
(* beacon-roots contract has its root under it, if that slot has a block.  *)
LEMMA UsableRootIsFound ==
    ASSUME ChainInv, NEW header \in blocks, RootUsable(header)
    PROVE  BeaconRootIs(header, calcRootsTimestamp(header), headBlock)
<1>1. header \in Nat /\ header + 1 \in blocks /\ StillStored(header + 1, headBlock)
  BY DEF ChainInv, RootUsable
<1>2. slotToTimestamp(header + 1) = calcRootsTimestamp(header)
  <2>1. (header + 1) * SECONDS_PER_SLOT = header * SECONDS_PER_SLOT + SECONDS_PER_SLOT
    BY <1>1, SlotMathAssumption
  <2>2. header * SECONDS_PER_SLOT \in Int
    BY <1>1, SlotMathAssumption
  <2> QED
    BY <1>1, <2>1, <2>2, SlotMathAssumption DEF slotToTimestamp, calcRootsTimestamp
<1>3. newest(BlocksUpTo((header + 1) - 1)) = header
  <2>1. (header + 1) - 1 = header
    BY <1>1
  <2> QED
    BY <2>1, NewestUpToBlock
<1> QED
  BY <1>1, <1>2, <1>3 DEF BeaconRootIs

(* Of P slots in a row, one has a given remainder. *)
LEMMA SameRemainder ==
    ASSUME NEW P \in Nat \ {0}, NEW x \in Nat, NEW y \in Int, x % P = y % P,
           y - x < P, x - y < P
    PROVE  x = y
<1>1. /\ x = (x \div P) * P + (x % P) /\ y = (y \div P) * P + (y % P)
      /\ x \div P \in Int /\ y \div P \in Int /\ x % P \in 0..(P - 1) /\ y % P \in 0..(P - 1)
  BY SMT
<1> DEFINE q == x \div P
           r == y \div P
<1> HIDE DEF q, r
<1>2. q \in Int /\ r \in Int /\ x - y = q * P - r * P
  <2>1. q * P \in Int /\ r * P \in Int
    BY <1>1 DEF q, r
  <2> QED
    BY <1>1, <2>1 DEF q, r
<1>3. q * P - r * P = (q - r) * P
  BY <1>2
<1>4. (q - r) * P < P /\ -P < (q - r) * P
  BY <1>2, <1>3
<1>5. q - r < 1 /\ -1 < q - r
  BY <1>2, <1>4, SMT
<1> QED
  BY <1>2, <1>5

(* The summary chosen for the old slot has, at the index looked up, the    *)
(* root of the block at that very slot.                                    *)
LEMMA ProvenRootIsRight ==
    ASSUME ChainInv, historicalSlot \in blocks
    PROVE  provenRoot = historicalSlot
<1> DEFINE P == SLOTS_PER_HISTORICAL_ROOT
           n == historicalSlot
           summarySlot == calcSlotOfSummary(calcSummaryIndex(n))
           Right(x) == /\ x \in (summarySlot - P)..(summarySlot - 1)
                       /\ x % P = calcRootIndexInSummary(n)
           s == CHOOSE x \in (summarySlot - P)..(summarySlot - 1) :
                            x % P = calcRootIndexInSummary(n)
<1>1. n \in Nat /\ P \in Nat \ {0}
  BY SlotMathAssumption DEF ChainInv
<1>2. n < summarySlot /\ summarySlot <= n + P
  BY <1>1, SummaryCoversSlot
<1>3. summarySlot \in Int
  <2>1. capellaForkSlot \in Nat
    BY SlotMathAssumption DEF capellaForkSlot, epochToSlot
  <2>2. calcSummaryIndex(n) \in Int
    BY <1>1, <2>1, DivBounds DEF calcSummaryIndex
  <2> QED
    BY <1>1, <2>1, <2>2 DEF calcSlotOfSummary
<1> HIDE DEF summarySlot
<1>4. Right(n)
  BY <1>1, <1>2, <1>3 DEF calcRootIndexInSummary
<1>5. Right(s)
  BY <1>4
<1>6. s = n
  <2> HIDE DEF s
  <2>1. s \in Int /\ n % P = s % P /\ s - n < P /\ n - s < P
    BY <1>1, <1>2, <1>3, <1>5 DEF calcRootIndexInSummary
  <2> QED
    BY <1>1, <2>1, SameRemainder
<1>7. newest(BlocksUpTo(n)) = n
  BY NewestUpToBlock
<1> QED
  BY <1>6, <1>7 DEF provenRoot, BlockRootIn, summarySlot

LEMMA ProofIsRight == SearchInv /\ ProofInv => OnlyKnownRejections
<1> SUFFICES ASSUME SearchInv, ProofInv, pc = "emulate"
             PROVE  \/ Accepted(headBlock)
                    \/ ~isOldSlot /\ ~RootUsable(actualSlot)
                    \/ isOldSlot /\ (~RootUsable(finalizedHeader) \/ finalizedState # finalizedHeader)
  BY DEF OnlyKnownRejections
<1>1. ChainInv /\ finalizedHeader \in blocks /\ IsFirstBlock(actualSlot)
      /\ (isOldSlot => IsFirstBlock(historicalSlot))
  BY DEF SearchInv, ProofInv
<1>2. CASE ~isOldSlot
  <2> SUFFICES ASSUME RootUsable(actualSlot) PROVE Accepted(headBlock)
    BY <1>2
  <2>1. actualSlot \in blocks
    BY <1>1 DEF IsFirstBlock
  <2>2. BeaconRootIs(actualSlot, calcRootsTimestamp(actualSlot), headBlock)
    BY <1>1, <2>1, UsableRootIsFound
  <2> QED
    BY <1>2, <2>2 DEF Accepted, CurrentAccepted
<1>3. CASE isOldSlot
  <2> SUFFICES ASSUME RootUsable(finalizedHeader), finalizedState = finalizedHeader
               PROVE  Accepted(headBlock)
    BY <1>3
  <2>1. BeaconRootIs(finalizedHeader, calcRootsTimestamp(finalizedHeader), headBlock)
    BY <1>1, UsableRootIsFound
  <2>2. actualSlot = historicalSlot
    BY <1>1, <1>3, FirstBlockUnique
  <2>3. provenRoot = historicalSlot
    BY <1>1, <1>3, ProvenRootIsRight DEF IsFirstBlock
  <2> QED
    BY <1>3, <2>1, <2>2, <2>3 DEF Accepted, HistoricalAccepted
<1> QED
  BY <1>2, <1>3

(* A proof that is ready is taken by the verifier, unless the slot after   *)
(* the header it starts from has no block, its root is overwritten, or     *)
(* finality moved between the two requests for what is finalized: for      *)
(* every beacon chain configuration, wherever the slot lies in its summary *)
(* period, whatever was skipped and whichever nodes answered.              *)
THEOREM KnownRejectionsOnly == Spec => []OnlyKnownRejections
<1>1. Init => SearchInv
  BY SearchInvInit
<1>2. Init => ProofInv
  BY DEF Init, ProofInv
<1>3. SearchInv /\ [Next]_vars => SearchInv'
  BY SearchInvStep
<1>4. SearchInv /\ ProofInv /\ [Next]_vars => ProofInv'
  BY ProofInvStep
<1>5. SearchInv /\ ProofInv => OnlyKnownRejections
  BY ProofIsRight
<1> QED
  BY <1>1, <1>2, <1>3, <1>4, <1>5, PTL DEF Spec

=============================================================================
