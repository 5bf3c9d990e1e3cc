------------------------- MODULE NoneForgotten_proofs -------------------------
(***************************************************************************)
(* No validator of a scanned request is dropped from storage before its    *)
(* penalty is on record or it has exited in time.                          *)
(*                                                                         *)
(* Two assumptions.  States and events that are read are read intact: TLC  *)
(* finds a violation when a deadline state is not (Bot_corrupt_deadline).  *)
(* And finality is never later than the lookback reaches.  Requests may    *)
(* share a deadline slot, though a validator is then measured against the  *)
(* request that leads the slot: that one is the older, or all of its own   *)
(* request is closed.                                                      *)
(***************************************************************************)
EXTENDS LateProverBot_proofs

(* The failures after which nothing is forgotten. *)
BenignFaults == {"rpc", "timeout", "ineffective", "crash", "corrupt_finalized"}

Accounted(r, e) ==
    \/ Tracked(r, e)
    \/ e.pubkey \in settled
    \/ TimelyExit(e.pubkey, ExitDeadlineSlot(r, e.pubkey))

AllAccounted(r) == \A e \in decodeValidatorsData(r) : Accounted(r, e)

(* The ranges scanned lie in the past of the chain. *)
ScanInv ==
    /\ covered \subseteq 1..head
    /\ pc \in {"beacon", "fetch", "requests", "slots"} => fromBlock >= 1 /\ toBlock <= head

(* While requests are grouped: those of the range are waiting or done. *)
RangeAccounted ==
    pc = "requests" =>
        \A r \in ExitRequestsInBlocks(fromBlock, toBlock) : r \in pending \/ AllAccounted(r)

(* v is asked to exit by r, with deadline slot s. *)
DueIn(v, r, s) ==
    /\ deliveredAt[r] > 0
    /\ v \in pubkeys(decodeValidatorsData(r))
    /\ ExitDeadlineSlot(r, v) = s

(* A group holds validators its own request puts on its slot.  An entry    *)
(* may be another request's: the cleanup goes by pubkey.                   *)
GroupsPure ==
    \A g \in storage : \A e \in g.validators : DueIn(e.pubkey, g.exitRequest, g.deadlineSlot)

(* With a validator it holds every entry its request has for it.           *)
GroupsWhole ==
    \A g \in storage : \A x \in g.validators : \A e \in decodeValidatorsData(g.exitRequest) :
        e.pubkey = x.pubkey => e \in g.validators

GroupsNonempty == \A g \in storage : g.validators # {}

(* The request r is as old as one that puts v on the slot s, if there is   *)
(* anything left to do in v's case.                                        *)
AsOld(r, v, s) ==
    \/ v \in settled
    \/ TimelyExit(v, s)
    \/ \E q \in Requests : DueIn(v, q, s) /\ deliveredAt[r] <= deliveredAt[q]

(* The validators in hand are measured against a request old enough. *)
HandOverdue ==
    \A e \in unchecked \cup witnesses :
        payload \in Requests /\ deliveredAt[payload] > 0 /\ AsOld(payload, e.pubkey, slot)

(* A validator of a slot that was processed in this cycle is still in      *)
(* hand, or remembered as reported, or need not be kept.                   *)
Done(e, s) ==
    e.pubkey \in reported \/ e.pubkey \in settled \/ TimelyExit(e.pubkey, s)

ProcessedDone ==
    pc = "slots" =>
        \A g \in storage : g.deadlineSlot \in eligible \ todo =>
            \A e \in g.validators :
                \/ g.deadlineSlot = slot /\ e \in unchecked \cup witnesses
                \/ Done(e, g.deadlineSlot)

LossInv ==
    /\ JustInv
    /\ ScanInv
    /\ NoneForgotten
    /\ RangeAccounted
    /\ GroupsPure
    /\ GroupsWhole
    /\ GroupsNonempty
    /\ HandOverdue
    /\ ProcessedDone

-----------------------------------------------------------------------------
(* Facts about one state. *)

(* Measured against a request as old as its own, a validator is past the   *)
(* moment of eligibility by its threshold at least: only a penalty already *)
(* on record makes the module answer "not applicable".                     *)
LEMMA OldRequestIsOverdue ==
    ASSUME TypeOK, payload \in Requests, NEW v \in Validators, NEW r \in Requests,
           deliveredAt[payload] <= deliveredAt[r], slot = ExitDeadlineSlot(r, v)
    PROVE  ~NotEligibleYet(v) /\ (PenaltyApplicable(v) <=> v \notin settled)
<1> DEFINE E == eligibleExitRequestTimestamp(v)
<1>1. /\ E \in Int /\ proofSlotTimestamp \in Int
      /\ proofSlotTimestamp - E >= ExitDeadlineThreshold[v]
  BY PastThreshold
  DEF TypeOK, eligibleExitRequestTimestamp, getExitRequestDeliveryTimestamp,
      proofSlotTimestamp
<1>2. ExitDeadlineThreshold[v] \in Nat
  BY ChainAssumption
<1> QED
  <2> HIDE DEF E
  <2>1. ~(proofSlotTimestamp < E)
    BY <1>1, <1>2
  <2> QED
    BY <1>1, <2>1 DEF E, NotEligibleYet, PenaltyApplicable, getSecondsSinceExitIsEligible,
                      isValidatorExitDelayPenaltyApplicable

(* Grouping a request tracks every one of its entries. *)
LEMMA GroupingTracks ==
    ASSUME NEW r \in Requests, NEW e \in decodeValidatorsData(r)
    PROVE  \E g \in groupValidatorsByDeadlineSlot(r) :
              /\ g.deadlineSlot = ExitDeadlineSlot(r, e.pubkey)
              /\ g.exitRequest = r
              /\ e \in g.validators
<1> DEFINE s == ExitDeadlineSlot(r, e.pubkey)
           g == [deadlineSlot |-> s, exitRequest |-> r,
                 validators |-> {x \in decodeValidatorsData(r) :
                                    ExitDeadlineSlot(r, x.pubkey) = s}]
<1>1. s \in Deadlines(deliveredAt[r], r)
  BY DEF Deadlines, ExitDeadlineSlot
<1>2. g \in groupValidatorsByDeadlineSlot(r)
  BY <1>1 DEF groupValidatorsByDeadlineSlot
<1> QED
  BY <1>2

(* A group holds validators due by its own request at its own slot, each   *)
(* with all of its entries.                                                *)
LEMMA GroupingIsPure ==
    ASSUME NEW r \in Requests, deliveredAt[r] > 0,
           NEW g \in groupValidatorsByDeadlineSlot(r)
    PROVE  /\ g.validators # {}
           /\ \A e \in g.validators : DueIn(e.pubkey, g.exitRequest, g.deadlineSlot)
           /\ \A x \in g.validators : \A e \in decodeValidatorsData(g.exitRequest) :
                  e.pubkey = x.pubkey => e \in g.validators
<1>1. PICK s \in Deadlines(deliveredAt[r], r) :
        g = [deadlineSlot |-> s, exitRequest |-> r,
             validators |-> {x \in decodeValidatorsData(r) : ExitDeadlineSlot(r, x.pubkey) = s}]
  BY DEF groupValidatorsByDeadlineSlot
<1>2. PICK x \in decodeValidatorsData(r) : ExitDeadlineSlot(r, x.pubkey) = s
  BY DEF Deadlines, ExitDeadlineSlot
<1> QED
  BY <1>1, <1>2 DEF DueIn, pubkeys

-----------------------------------------------------------------------------
(* What a step of the chains leaves as it is. *)

(* A validator accounted for remains so when the chains move. *)
LEMMA AccountedStable ==
    ASSUME TypeOK, ChainNext, storage' = storage,
           NEW r \in Requests, deliveredAt[r] > 0,
           NEW e \in decodeValidatorsData(r), Accounted(r, e)
    PROVE  Accounted(r, e)'
<1>1. e.pubkey \in Validators
  BY DecodedType DEF Entry
<1>2. ExitDeadlineSlot(r, e.pubkey)' = ExitDeadlineSlot(r, e.pubkey)
  BY DeliveredStable DEF ExitDeadlineSlot
<1>3. CASE Tracked(r, e)
  BY <1>2, <1>3 DEF Tracked, Accounted
<1>4. CASE e.pubkey \in settled
  BY <1>4, SettledGrows DEF Accounted
<1>5. CASE TimelyExit(e.pubkey, ExitDeadlineSlot(r, e.pubkey))
  <2> DEFINE s == ExitDeadlineSlot(r, e.pubkey)
  <2>1. TimelyExit(e.pubkey, s)'
    <3> HIDE DEF s
    <3>1. TimelyExit(e.pubkey, s)
      BY <1>5 DEF s
    <3>2. s' = s
      BY <1>2 DEF s
    <3> QED
      BY <1>1, <3>1, <3>2, TimelyStable DEF TypeOK
  <2> QED
    BY <2>1 DEF Accounted
<1> QED
  BY <1>3, <1>4, <1>5 DEF Accounted

-----------------------------------------------------------------------------
(* Nothing is covered at first. *)
LEMMA LossInit == Init => LossInv
<1> SUFFICES ASSUME Init PROVE LossInv
  OBVIOUS
<1>1. JustInv
  BY JustInit
<1>2. ScanInv /\ RangeAccounted /\ ProcessedDone
  BY DEF Init, ProverInit, ScanInv, RangeAccounted, ProcessedDone
<1>3. NoneForgotten
  BY DEF Init, NoneForgotten
<1>4. GroupsPure /\ GroupsWhole /\ GroupsNonempty /\ HandOverdue
  BY DEF Init, ProverInit, GroupsPure, GroupsWhole, GroupsNonempty, HandOverdue
<1> QED
  BY <1>1, <1>2, <1>3, <1>4 DEF LossInv

(* What a request asks for, and when, stays when the chains move. *)
LEMMA DueStable ==
    ASSUME ChainNext, NEW v, NEW r \in Requests, NEW s, DueIn(v, r, s)
    PROVE  DueIn(v, r, s)' /\ deliveredAt'[r] = deliveredAt[r]
BY DeliveredStable DEF DueIn, ExitDeadlineSlot, decodeValidatorsData, pubkeys

LEMMA AsOldStable ==
    ASSUME TypeOK, ChainNext, NEW r \in Requests, deliveredAt[r] > 0, NEW v \in Validators,
           NEW s, AsOld(r, v, s)
    PROVE  AsOld(r, v, s)'
<1>1. CASE v \in settled
  BY <1>1, SettledGrows DEF AsOld
<1>2. CASE TimelyExit(v, s)
  BY <1>2, TimelyStable DEF AsOld, TypeOK
<1>3. CASE \E q \in Requests : DueIn(v, q, s) /\ deliveredAt[r] <= deliveredAt[q]
  BY <1>3, DueStable, DeliveredStable DEF AsOld
<1> QED
  BY <1>1, <1>2, <1>3 DEF AsOld

(* The chains move: new requests lie in blocks not covered yet. *)
LEMMA LossEnvironment ==
    ASSUME LossInv, Environment
    PROVE  LossInv'
<1>0. /\ JustInv' /\ TypeOK /\ ChainTypeOK /\ ChainNext
      /\ head \in Nat /\ toBlock \in Nat /\ deliveredAt \in [Requests -> Nat]
      /\ storage \subseteq Group /\ unchecked \subseteq Entry /\ witnesses \subseteq Entry
  BY JustEnvironment DEF LossInv, JustInv, Environment, TypeOK, ChainTypeOK, ProverTypeOK
<1>1. UNCHANGED <<storage, reported, pc, pending, eligible, todo, slot, payload, unchecked,
                  witnesses, fromBlock, toBlock, covered>>
  BY DEF Environment, proverVars, locals, daemonVars
<1>2. ScanInv'
  BY <1>0, <1>1, HeadGrows DEF LossInv, ScanInv
<1>3. ASSUME NEW r \in Requests, deliveredAt'[r] <= head
      PROVE  deliveredAt'[r] = deliveredAt[r]
  BY <1>0, <1>3, NewlyDelivered
<1>4. NoneForgotten'
  <2> SUFFICES ASSUME NEW r \in Requests, deliveredAt'[r] \in covered,
                      NEW e \in decodeValidatorsData(r)
               PROVE  Accounted(r, e)'
    BY <1>1 DEF NoneForgotten, Accounted, decodeValidatorsData
  <2>1. deliveredAt'[r] = deliveredAt[r] /\ deliveredAt[r] > 0
    <3>1. deliveredAt'[r] \in 1..head
      BY DEF LossInv, ScanInv
    <3>2. deliveredAt'[r] <= head /\ deliveredAt'[r] > 0
      BY <1>0, <3>1
    <3> QED
      BY <1>3, <3>2
  <2>2. Accounted(r, e)
    BY <2>1 DEF LossInv, NoneForgotten, Accounted
  <2> QED
    BY <1>0, <1>1, <2>1, <2>2, AccountedStable
<1>5. RangeAccounted'
  <2> SUFFICES ASSUME pc = "requests", NEW r \in ExitRequestsInBlocks(fromBlock, toBlock)',
                      r \notin pending, NEW e \in decodeValidatorsData(r)
               PROVE  Accounted(r, e)'
    BY <1>1 DEF RangeAccounted, AllAccounted, decodeValidatorsData
  <2>1. r \in Requests /\ deliveredAt'[r] <= toBlock /\ toBlock <= head
    BY <1>1 DEF ExitRequestsInBlocks, LossInv, ScanInv
  <2>2. deliveredAt'[r] \in Nat
    BY <1>0, <2>1, TypeEnvironment DEF JustInv, TypeOK, ChainTypeOK
  <2>3. deliveredAt'[r] = deliveredAt[r]
    BY <1>0, <1>3, <2>1, <2>2
  <2>4. r \in ExitRequestsInBlocks(fromBlock, toBlock) /\ deliveredAt[r] > 0
    BY <1>1, <2>1, <2>3 DEF ExitRequestsInBlocks
  <2>5. Accounted(r, e)
    BY <2>4 DEF LossInv, RangeAccounted, AllAccounted
  <2> QED
    BY <1>0, <1>1, <2>1, <2>4, <2>5, AccountedStable
<1>8. GroupsPure' /\ GroupsWhole' /\ GroupsNonempty'
  BY <1>0, <1>1, DueStable
  DEF LossInv, GroupsPure, GroupsWhole, GroupsNonempty, Group, decodeValidatorsData
<1>9. HandOverdue'
  <2> SUFFICES ASSUME NEW e \in unchecked \cup witnesses
               PROVE  /\ payload \in Requests /\ deliveredAt'[payload] > 0
                      /\ AsOld(payload, e.pubkey, slot)'
    BY <1>1 DEF HandOverdue
  <2>1. payload \in Requests /\ deliveredAt[payload] > 0 /\ AsOld(payload, e.pubkey, slot)
    BY DEF LossInv, HandOverdue
  <2>2. e.pubkey \in Validators
    BY <1>0 DEF Entry
  <2>3. deliveredAt'[payload] = deliveredAt[payload]
    BY <1>0, <2>1, DeliveredStable
  <2>4. \A r \in Requests, v \in Validators, s \in {slot} :
           deliveredAt[r] > 0 /\ AsOld(r, v, s) => AsOld(r, v, s)'
    BY <1>0, AsOldStable
  <2> QED
    BY <1>1, <2>1, <2>2, <2>3, <2>4
<1>10. ProcessedDone'
  <2> SUFFICES ASSUME pc = "slots", NEW g \in storage, g.deadlineSlot \in eligible \ todo,
                      NEW e \in g.validators,
                      ~(g.deadlineSlot = slot /\ e \in unchecked \cup witnesses)
               PROVE  Done(e, g.deadlineSlot)'
    BY <1>1 DEF ProcessedDone, Done
  <2>1. Done(e, g.deadlineSlot)
    BY DEF LossInv, ProcessedDone
  <2>2. e.pubkey \in Validators
    BY <1>0 DEF Group, Entry
  <2> QED
    BY <1>0, <1>1, <2>1, <2>2, SettledGrows, TimelyStable DEF Done
<1> QED
  BY <1>0, <1>2, <1>4, <1>5, <1>8, <1>9, <1>10 DEF LossInv

-----------------------------------------------------------------------------
(* What a step of the bot leaves as it is. *)

(* A validator remains accounted for when storage and record grow. *)
LEMMA AccountedStill ==
    ASSUME ChainsStill, storage \subseteq storage', settled \subseteq settled',
           NEW r \in Requests, NEW e, Accounted(r, e)
    PROVE  Accounted(r, e)'
<1>1. ExitDeadlineSlot(r, e.pubkey)' = ExitDeadlineSlot(r, e.pubkey)
  BY DEF ChainsStill, ExitDeadlineSlot
<1>2. TimelyExit(e.pubkey, ExitDeadlineSlot(r, e.pubkey)) =>
        TimelyExit(e.pubkey, ExitDeadlineSlot(r, e.pubkey))'
  BY DEF ChainsStill, ExitDeadlineSlot, TimelyExit, ExitEpochBelow, ExitEpochSet
<1> QED
  BY <1>1, <1>2 DEF Accounted, Tracked

(* So nothing is forgotten in a step that covers no more blocks. *)
LEMMA ForgottenStill ==
    ASSUME LossInv, ChainsStill, storage \subseteq storage', settled \subseteq settled',
           covered' \subseteq covered
    PROVE  NoneForgotten'
<1> SUFFICES ASSUME NEW r \in Requests, deliveredAt'[r] \in covered',
                    NEW e \in decodeValidatorsData(r)
             PROVE  Accounted(r, e)'
  BY DEF NoneForgotten, Accounted, decodeValidatorsData
<1>1. Accounted(r, e)
  BY DEF LossInv, NoneForgotten, Accounted, ChainsStill
<1> QED
  BY <1>1, AccountedStill

(* What a request asks for stays while nothing is delivered. *)
LEMMA DueStill ==
    ASSUME ChainsStill, NEW v, NEW r, NEW s PROVE DueIn(v, r, s)' <=> DueIn(v, r, s)
BY DEF ChainsStill, DueIn, ExitDeadlineSlot, decodeValidatorsData, pubkeys

LEMMA AsOldStill ==
    ASSUME ChainsStill, settled \subseteq settled', NEW r, NEW v, NEW s, AsOld(r, v, s)
    PROVE  AsOld(r, v, s)'
<1>1. TimelyExit(v, s) => TimelyExit(v, s)'
  BY DEF ChainsStill, TimelyExit, ExitEpochBelow, ExitEpochSet
<1> QED
  BY <1>1, DueStill DEF AsOld, ChainsStill

(* The hand stays good when it does not grow. *)
LEMMA HandStill ==
    ASSUME HandOverdue, ChainsStill, settled \subseteq settled', UNCHANGED <<slot, payload>>,
           unchecked' \cup witnesses' \subseteq unchecked \cup witnesses
    PROVE  HandOverdue'
<1> SUFFICES ASSUME NEW e \in unchecked \cup witnesses
             PROVE  /\ payload \in Requests /\ deliveredAt[payload] > 0
                    /\ AsOld(payload, e.pubkey, slot)'
  BY DEF HandOverdue, ChainsStill
<1>1. payload \in Requests /\ deliveredAt[payload] > 0 /\ AsOld(payload, e.pubkey, slot)
  BY DEF HandOverdue
<1>2. \A r \in {payload}, v \in {e.pubkey}, s \in {slot} :
        AsOld(r, v, s) => AsOld(r, v, s)'
  BY AsOldStill
<1> QED
  BY <1>1, <1>2

(* A validator that is done with stays so when the collections grow. *)
LEMMA DoneStill ==
    ASSUME ChainsStill, reported \subseteq reported', settled \subseteq settled',
           NEW e, NEW s, Done(e, s)
    PROVE  Done(e, s)'
BY DEF ChainsStill, Done, TimelyExit, ExitEpochBelow, ExitEpochSet

(* Groups that are not touched stay pure. *)
LEMMA PureStill ==
    ASSUME LossInv, ChainsStill, UNCHANGED storage
    PROVE  GroupsPure' /\ GroupsWhole' /\ GroupsNonempty'
BY DueStill DEF LossInv, GroupsPure, GroupsWhole, GroupsNonempty, decodeValidatorsData

(* A scan that is complete adds its blocks to those covered.               *)
LEMMA ScanComplete ==
    ASSUME LossInv, ChainsStill, pc = "requests", pending = {}, RangeScanned,
           UNCHANGED <<storage, settled>>
    PROVE  NoneForgotten' /\ covered' \subseteq 1..head
<1>1. covered' \subseteq 1..head
  BY DEF LossInv, JustInv, TypeOK, ChainTypeOK, ScanInv, RangeScanned
<1>2. NoneForgotten'
  <2> SUFFICES ASSUME NEW r \in Requests, deliveredAt[r] \in covered',
                      NEW e \in decodeValidatorsData(r)
               PROVE  Accounted(r, e)'
    BY DEF NoneForgotten, Accounted, decodeValidatorsData, ChainsStill
  <2>1. CASE deliveredAt[r] \in covered
    BY <2>1, AccountedStill DEF LossInv, NoneForgotten, Accounted
  <2>2. CASE deliveredAt[r] \in fromBlock..toBlock
    <3>1. r \in ExitRequestsInBlocks(fromBlock, toBlock)
      BY <2>2 DEF ExitRequestsInBlocks, LossInv, ScanInv, JustInv, TypeOK
    <3>2. Accounted(r, e)
      BY <3>1 DEF LossInv, RangeAccounted, AllAccounted
    <3> QED
      BY <3>2, AccountedStill
  <2> QED
    BY <2>1, <2>2 DEF RangeScanned
<1> QED
  BY <1>1, <1>2

(* A cycle that is over, when storage is as it was.                        *)
LEMMA LossCycleOver ==
    ASSUME JustInv', LossInv, ChainsStill, CycleEnds \/ CycleFails, UNCHANGED storage,
           NoneForgotten', covered' \subseteq 1..head
    PROVE  LossInv'
<1>1. pc' = "idle" /\ unchecked' = {} /\ witnesses' = {}
  BY DEF CycleEnds, CycleFails, ResetLocals
<1>2. ScanInv' /\ RangeAccounted' /\ HandOverdue' /\ ProcessedDone'
  BY <1>1 DEF ScanInv, RangeAccounted, HandOverdue, ProcessedDone, ChainsStill
<1> QED
  BY <1>2, PureStill DEF LossInv

(* A step that leaves storage, what is settled and what is covered.        *)
LEMMA LossScanStep ==
    ASSUME JustInv', LossInv, ChainsStill, ScanInv', RangeAccounted', ProcessedDone',
           UNCHANGED <<storage, settled, covered, slot, payload, unchecked, witnesses>>
    PROVE  LossInv'
<1>1. HandOverdue'
  BY HandStill DEF LossInv
<1> QED
  BY <1>1, ForgottenStill, PureStill DEF LossInv

(* The range of a scan is fixed: up to the head at start-up, afterwards    *)
(* from the last root to the finalized one.                                *)
LEMMA LossRangeChosen ==
    ASSUME LossInv, JustInv', InitializeStorageWithRecentEvents \/ GetRoots
    PROVE  LossInv'
<1>1. ChainsStill /\ pc' = "beacon"
      /\ UNCHANGED <<storage, settled, covered, slot, payload, unchecked, witnesses>>
  BY DEF InitializeStorageWithRecentEvents, GetRoots, ChainsStill, chainVars, locals
<1>2. head \in Nat /\ finalized \in Nat /\ finalized < head /\ lastProcessed \in Nat
  BY DEF LossInv, JustInv, ClockInv, TypeOK, ChainTypeOK
<1>3. lookbackBlock >= 1 /\ prevRoot >= 1
  BY <1>2, LookbackType DEF lookbackBlock, prevRoot
<1>4. fromBlock' >= 1 /\ toBlock' <= head
  BY <1>2, <1>3 DEF InitializeStorageWithRecentEvents, GetRoots
<1>5. ScanInv'
  BY <1>1, <1>4 DEF LossInv, ScanInv, ChainsStill
<1>6. RangeAccounted' /\ ProcessedDone'
  BY <1>1 DEF RangeAccounted, ProcessedDone
<1> QED
  BY <1>1, <1>5, <1>6, LossScanStep

(* The requests of the range are fetched, all of them if no event is lost. *)
LEMMA LossFetch ==
    ASSUME Faults \subseteq BenignFaults, LossInv, JustInv', BeaconState \/ FetchRequests
    PROVE  LossInv'
<1>1. /\ ChainsStill
      /\ UNCHANGED <<storage, settled, covered, slot, payload, unchecked, witnesses,
                     fromBlock, toBlock>>
      /\ pc \in {"beacon", "fetch"} /\ pc' \in {"fetch", "requests"}
  BY DEF BeaconState, InitializeBeaconState, FetchRequests, FetchExitRequests, ChainsStill,
         chainVars, DaemonUnchanged, daemonVars
<1>2. ScanInv' /\ ProcessedDone'
  BY <1>1 DEF LossInv, ScanInv, ProcessedDone, ChainsStill
<1>3. RangeAccounted'
  <2>1. CASE BeaconState
    BY <2>1 DEF BeaconState, InitializeBeaconState, RangeAccounted
  <2>2. CASE FetchRequests
    <3>1. "event_error" \notin Faults
      BY DEF BenignFaults
    <3>2. pending' = ExitRequestsInBlocks(fromBlock, toBlock)
      BY <2>2, <3>1 DEF FetchRequests, FetchExitRequests, Fault
    <3> QED
      BY <1>1, <3>2 DEF RangeAccounted, ExitRequestsInBlocks, ChainsStill
  <2> QED
    BY <2>1, <2>2
<1> QED
  BY <1>1, <1>2, <1>3, LossScanStep

(* One request is grouped: all its validators are tracked from now on. *)
LEMMA LossGroup ==
    ASSUME LossInv, JustInv', GroupRequest
    PROVE  LossInv'
<1>1. PICK r \in pending : ProcessExitRequest(r)
  BY DEF GroupRequest
<1>2. /\ ChainsStill
      /\ UNCHANGED <<settled, covered, slot, payload, unchecked, witnesses, fromBlock,
                     toBlock, pc>>
      /\ pc = "requests"
      /\ pending' = pending \ {r}
      /\ storage' = storage \cup groupValidatorsByDeadlineSlot(r)
  BY <1>1 DEF GroupRequest, ProcessExitRequest, ChainsStill, chainVars, DaemonUnchanged,
              daemonVars
<1>3. r \in Requests /\ deliveredAt[r] > 0
  BY DEF LossInv, JustInv, TypeOK, ProverTypeOK, PendingDelivered
<1>4. ScanInv' /\ ProcessedDone'
  BY <1>2 DEF LossInv, ScanInv, ProcessedDone, ChainsStill
<1>5. NoneForgotten'
  BY <1>2, ForgottenStill
<1>6. ASSUME NEW e \in decodeValidatorsData(r) PROVE Accounted(r, e)'
  <2>1. Tracked(r, e)'
    <3>1. ExitDeadlineSlot(r, e.pubkey)' = ExitDeadlineSlot(r, e.pubkey)
      BY <1>2 DEF ChainsStill, ExitDeadlineSlot
    <3> QED
      BY <1>2, <1>3, <3>1, GroupingTracks DEF Tracked
  <2> QED
    BY <2>1 DEF Accounted
<1>7. RangeAccounted'
  <2> SUFFICES ASSUME NEW q \in ExitRequestsInBlocks(fromBlock, toBlock), q \notin pending',
                      NEW e \in decodeValidatorsData(q)
               PROVE  Accounted(q, e)'
    BY <1>2 DEF RangeAccounted, AllAccounted, ExitRequestsInBlocks, decodeValidatorsData,
                ChainsStill
  <2>1. CASE q = r
    BY <1>6, <2>1
  <2>2. CASE q # r
    <3>1. Accounted(q, e) /\ q \in Requests
      BY <1>2, <2>2 DEF LossInv, RangeAccounted, AllAccounted, ExitRequestsInBlocks
    <3> QED
      BY <1>2, <3>1, AccountedStill
  <2> QED
    BY <2>1, <2>2
<1>8. GroupsPure' /\ GroupsWhole' /\ GroupsNonempty'
  <2> SUFFICES ASSUME NEW g \in storage \cup groupValidatorsByDeadlineSlot(r)
               PROVE  /\ g.validators # {}
                      /\ \A e \in g.validators : DueIn(e.pubkey, g.exitRequest, g.deadlineSlot)
                      /\ \A x \in g.validators : \A e \in decodeValidatorsData(g.exitRequest) :
                            e.pubkey = x.pubkey => e \in g.validators
    BY <1>2, DueStill DEF GroupsPure, GroupsWhole, GroupsNonempty, decodeValidatorsData
  <2> QED
    BY <1>3, GroupingIsPure DEF LossInv, GroupsPure, GroupsWhole, GroupsNonempty
<1>9. HandOverdue'
  BY <1>2, HandStill DEF LossInv
<1> QED
  BY <1>2, <1>4, <1>5, <1>7, <1>8, <1>9 DEF LossInv

(* The scan ends, and the blocks of the range are covered. *)
LEMMA LossScanEnds ==
    ASSUME LossInv, JustInv', NothingEligible \/ SomeEligible
    PROVE  LossInv'
<1>1. /\ ChainsStill /\ pc = "requests" /\ pending = {} /\ RangeScanned
      /\ UNCHANGED <<storage, settled>>
  BY DEF NothingEligible, SomeEligible, SelectEligible, ChainsStill, chainVars
<1>2. NoneForgotten' /\ covered' \subseteq 1..head
  BY <1>1, ScanComplete
<1>3. CASE NothingEligible
  BY <1>1, <1>2, <1>3, LossCycleOver DEF NothingEligible
<1>4. CASE SomeEligible
  <2>1. /\ pc' = "slots" /\ eligible' \ todo' = {}
        /\ UNCHANGED <<slot, payload, unchecked, witnesses, fromBlock, toBlock>>
    BY <1>4 DEF SomeEligible, SelectEligible
  <2>2. ScanInv' /\ RangeAccounted' /\ ProcessedDone'
    BY <1>1, <1>2, <2>1 DEF LossInv, ScanInv, RangeAccounted, ProcessedDone, ChainsStill
  <2>3. HandOverdue'
    BY <1>1, <2>1, HandStill DEF LossInv
  <2> QED
    BY <1>1, <1>2, <2>2, <2>3, PureStill DEF LossInv
<1> QED
  BY <1>3, <1>4

(* A step inside a slot: storage is as it was, and what leaves the hand is *)
(* done.                                                                   *)
LEMMA LossSlotStep ==
    ASSUME JustInv', LossInv, ChainsStill, pc = "slots", HandOverdue', ProcessedDone',
           UNCHANGED <<storage, covered, fromBlock, toBlock, pc>>,
           settled \subseteq settled'
    PROVE  LossInv'
<1>1. ScanInv' /\ RangeAccounted'
  BY DEF LossInv, ScanInv, RangeAccounted, ChainsStill
<1> QED
  BY <1>1, ForgottenStill, PureStill DEF LossInv

(* A slot is taken in hand with all its validators. *)
LEMMA LossStartSlot ==
    ASSUME Faults \subseteq BenignFaults, FINALITY_DELAY <= LOOKBACK, LossInv, JustInv',
           StartSlot
    PROVE  LossInv'
<1>1. PICK s \in todo : ProcessDeadlineSlot(s)
  BY DEF StartSlot
<1>2. PICK g \in LeadingGroups(s) : payload' = g.exitRequest
  BY <1>1 DEF ProcessDeadlineSlot
<1>3. "corrupt_deadline" \notin Faults
  BY DEF BenignFaults
<1>4. /\ ChainsStill /\ pc = "slots" /\ unchecked = {} /\ witnesses = {}
      /\ UNCHANGED <<storage, covered, fromBlock, toBlock, pc, eligible, reported, settled>>
      /\ slot' = s /\ todo' = todo \ {s} /\ unchecked' = allValidators(s) /\ witnesses' = {}
  BY <1>1, <1>3 DEF StartSlot, ProcessDeadlineSlot, SlotInHand, Fault, ChainsStill,
                    chainVars, DaemonUnchanged, daemonVars
<1>5. TypeOK
  BY DEF LossInv, JustInv
<1>6. HandOverdue'
  <2>1. g \in storage /\ g.deadlineSlot = s
    BY DEF LeadingGroups, groupDataArray
  <2>2. g.exitRequest \in Requests
    BY <1>5, <2>1 DEF TypeOK, ProverTypeOK, Group
  <2>3. deliveredAt[g.exitRequest] > 0
    BY <2>1 DEF LossInv, GroupsNonempty, GroupsPure, DueIn
  <2>4. ASSUME NEW e \in allValidators(s)
        PROVE  AsOld(g.exitRequest, e.pubkey, s)
    <3>1. PICK h \in storage : h.deadlineSlot = s /\ e \in h.validators
      BY DEF allValidators, groupDataArray
    <3>2. h.exitRequest \in Requests /\ DueIn(e.pubkey, h.exitRequest, s)
      BY <1>5, <3>1 DEF TypeOK, ProverTypeOK, Group, LossInv, GroupsPure
    <3>3. deliveredAt[g.exitRequest] <= deliveredAt[h.exitRequest] \/ Closed(e, s)
      BY <3>1, ChainAssumption, LookbackAssumption
      DEF LeadingGroups, groupDataArray, BenignFaults
    <3> QED
      BY <3>2, <3>3 DEF AsOld, Closed
  <2>5. \A r \in {g.exitRequest}, e \in allValidators(s), q \in {s} :
          AsOld(r, e.pubkey, q) => AsOld(r, e.pubkey, q)'
    BY <1>4, AsOldStill
  <2> SUFFICES ASSUME NEW e \in allValidators(s)
               PROVE  AsOld(payload, e.pubkey, slot)'
    BY <1>2, <1>4, <2>2, <2>3 DEF HandOverdue, ChainsStill
  <2>6. AsOld(g.exitRequest, e.pubkey, s)'
    BY <2>4, <2>5
  <2> QED
    BY <1>2, <1>4, <2>6 DEF AsOld
<1>7. ProcessedDone'
  <2> SUFFICES ASSUME NEW h \in storage, h.deadlineSlot \in eligible \ (todo \ {s}),
                      NEW e \in h.validators,
                      ~(h.deadlineSlot = s /\ e \in allValidators(s))
               PROVE  Done(e, h.deadlineSlot)'
    BY <1>4 DEF ProcessedDone
  <2>1. h.deadlineSlot # s
    BY DEF allValidators, groupDataArray
  <2>2. Done(e, h.deadlineSlot)
    BY <1>4, <2>1 DEF LossInv, ProcessedDone
  <2> QED
    BY <1>4, <2>2, DoneStill
<1> QED
  BY <1>4, <1>6, <1>7, LossSlotStep

(* One validator is checked: dropped only if out in time or on record. *)
LEMMA LossCheck ==
    ASSUME LossInv, JustInv', CheckValidator
    PROVE  LossInv'
<1>1. PICK e \in unchecked : ProcessValidator(e)
  BY DEF CheckValidator
<1>2. /\ ChainsStill /\ pc = "slots"
      /\ UNCHANGED <<storage, covered, fromBlock, toBlock, pc, eligible, todo, slot, payload,
                     settled>>
      /\ unchecked' = unchecked \ {e}
      /\ witnesses \subseteq witnesses'
      /\ witnesses' \subseteq witnesses \cup {e}
  BY <1>1 DEF CheckValidator, ProcessValidator, ChainsStill, chainVars, DaemonUnchanged,
              daemonVars
<1>3. payload \in Requests /\ AsOld(payload, e.pubkey, slot) /\ TypeOK
  BY DEF LossInv, HandOverdue, JustInv
<1>4. e.pubkey \in Validators
  BY <1>3 DEF TypeOK, ProverTypeOK, Entry
<1>5. \/ e.pubkey \in settled \/ TimelyExit(e.pubkey, slot)
      \/ ~NotEligibleYet(e.pubkey) /\ (PenaltyApplicable(e.pubkey) <=> e.pubkey \notin settled)
  BY <1>3, <1>4, OldRequestIsOverdue DEF AsOld, DueIn
<1>6. /\ e \in witnesses' \/ e.pubkey \in settled \/ TimelyExit(e.pubkey, slot)
      /\ reported' = reported \/ (reported' = reported \ {e.pubkey} /\ e.pubkey \in settled)
  BY <1>1, <1>5 DEF ProcessValidator, AlreadyExited, TimelyExit
<1>7. HandOverdue'
  BY <1>2, HandStill DEF LossInv
<1>8. ProcessedDone'
  <2> SUFFICES ASSUME NEW h \in storage, h.deadlineSlot \in eligible \ todo,
                      NEW x \in h.validators,
                      ~(h.deadlineSlot = slot /\ x \in unchecked' \cup witnesses')
               PROVE  Done(x, h.deadlineSlot)'
    BY <1>2 DEF ProcessedDone
  <2>1. CASE h.deadlineSlot = slot /\ x = e
    <3>1. x.pubkey \in settled \/ TimelyExit(x.pubkey, h.deadlineSlot)
      BY <1>6, <2>1
    <3> QED
      BY <1>2, <3>1 DEF Done, ChainsStill, TimelyExit, ExitEpochBelow, ExitEpochSet
  <2>2. CASE ~(h.deadlineSlot = slot /\ x = e)
    <3>1. Done(x, h.deadlineSlot)
      BY <1>2, <2>2 DEF LossInv, ProcessedDone
    <3>2. CASE x.pubkey \in reported
      BY <1>2, <1>6, <3>2 DEF Done
    <3>3. CASE x.pubkey \in settled \/ TimelyExit(x.pubkey, h.deadlineSlot)
      BY <1>2, <3>3 DEF Done, ChainsStill, TimelyExit, ExitEpochBelow, ExitEpochSet
    <3> QED
      BY <3>1, <3>2, <3>3 DEF Done
  <2> QED
    BY <2>1, <2>2
<1> QED
  BY <1>2, <1>7, <1>8, LossSlotStep

(* A batch is confirmed: its validators are remembered as reported. *)
LEMMA LossSubmit ==
    ASSUME Faults \subseteq BenignFaults, LossInv, JustInv', SubmitBatch
    PROVE  LossInv'
<1>1. "corrupt_summary" \notin Faults
  BY DEF BenignFaults
<1>2. PICK batch \in createValidatorBatches : BatchCompleted(batch)
  BY <1>1 DEF SubmitBatch, BatchSkipped, Fault
<1>3. /\ ChainsStill /\ pc = "slots"
      /\ UNCHANGED <<storage, covered, fromBlock, toBlock, pc, eligible, todo, slot, payload,
                     unchecked>>
      /\ witnesses' = witnesses \ batch
      /\ reported' = reported \cup pubkeys(batch)
      /\ settled \subseteq settled'
  BY <1>2 DEF SubmitBatch, BatchCompleted, BatchInHand, ChainsStill, DaemonUnchanged,
              daemonVars
<1>4. HandOverdue'
  BY <1>3, HandStill DEF LossInv
<1>5. ProcessedDone'
  <2> SUFFICES ASSUME NEW h \in storage, h.deadlineSlot \in eligible \ todo,
                      NEW x \in h.validators,
                      ~(h.deadlineSlot = slot /\ x \in unchecked \cup (witnesses \ batch))
               PROVE  Done(x, h.deadlineSlot)'
    BY <1>3 DEF ProcessedDone
  <2>1. CASE x \in batch
    BY <1>3, <2>1 DEF Done, pubkeys
  <2>2. CASE x \notin batch
    <3>1. Done(x, h.deadlineSlot)
      BY <1>3, <2>2 DEF LossInv, ProcessedDone
    <3> QED
      BY <1>3, <3>1, DoneStill
  <2> QED
    BY <2>1, <2>2
<1> QED
  BY <1>3, <1>4, <1>5, LossSlotStep

(* What cleanup keeps of a group, and what it makes of it.                 *)
LEMMA CleanedGroup ==
    ASSUME TypeOK, NEW g \in cleanupProcessedEntries
    PROVE  \/ g \in storage
           \/ \E h \in storage : /\ g.deadlineSlot = h.deadlineSlot
                                 /\ g.exitRequest = h.exitRequest
                                 /\ g.validators = remainingForThisGroup(h)
                                 /\ remainingForThisGroup(h) # {}
<1> SUFFICES ASSUME g \notin storage
             PROVE  \E h \in storage : /\ g.deadlineSlot = h.deadlineSlot
                                       /\ g.exitRequest = h.exitRequest
                                       /\ g.validators = remainingForThisGroup(h)
                                       /\ remainingForThisGroup(h) # {}
  OBVIOUS
<1>1. PICK h \in storage : /\ g = [h EXCEPT !.validators = remainingForThisGroup(h)]
                           /\ remainingForThisGroup(h) # {}
  BY DEF cleanupProcessedEntries
<1>2. h \in Group
  BY DEF TypeOK, ProverTypeOK
<1> QED
  BY <1>1, <1>2 DEF Group

(* The cleanup keeps an entry whose pubkey is reported. *)
LEMMA CleanupKeeps ==
    ASSUME TypeOK, NEW g \in storage, NEW e \in g.validators, e.pubkey \in reported
    PROVE  \E k \in cleanupProcessedEntries : /\ k.deadlineSlot = g.deadlineSlot
                                              /\ k.exitRequest = g.exitRequest
                                              /\ e \in k.validators
<1>1. CASE g.deadlineSlot \notin eligible
  BY <1>1 DEF cleanupProcessedEntries
<1>2. CASE g.deadlineSlot \in eligible
  <2> DEFINE k == [g EXCEPT !.validators = remainingForThisGroup(g)]
  <2>1. g \in Group
    BY DEF TypeOK, ProverTypeOK
  <2>2. e \in remainingForThisGroup(g)
    BY DEF remainingForThisGroup, remainingValidators, allValidators, groupDataArray, pubkeys
  <2>3. k \in cleanupProcessedEntries
    BY <1>2, <2>2 DEF cleanupProcessedEntries
  <2>4. k.deadlineSlot = g.deadlineSlot /\ k.exitRequest = g.exitRequest /\ e \in k.validators
    BY <2>1, <2>2 DEF Group
  <2> QED
    BY <2>3, <2>4
<1> QED
  BY <1>1, <1>2

(* The cleanup drops only what was done with. *)
LEMMA LossCleanup ==
    ASSUME LossInv, JustInv', Cleanup
    PROVE  LossInv'
<1>1. /\ ChainsStill /\ pc = "slots" /\ unchecked = {} /\ witnesses = {} /\ todo = {}
      /\ UNCHANGED <<settled, covered>>
      /\ storage' = cleanupProcessedEntries
      /\ pc' = "idle" /\ unchecked' = {} /\ witnesses' = {}
  BY DEF Cleanup, CycleEnds, ResetLocals, SlotInHand, ChainsStill, chainVars
<1>2. TypeOK
  BY DEF LossInv, JustInv
<1>3. ScanInv' /\ RangeAccounted' /\ HandOverdue' /\ ProcessedDone'
  BY <1>1 DEF LossInv, ScanInv, RangeAccounted, HandOverdue, ProcessedDone, ChainsStill
<1>4. NoneForgotten'
  <2> SUFFICES ASSUME NEW r \in Requests, deliveredAt[r] \in covered,
                      NEW e \in decodeValidatorsData(r)
               PROVE  Accounted(r, e)'
    BY <1>1 DEF NoneForgotten, Accounted, decodeValidatorsData, ChainsStill
  <2> DEFINE s == ExitDeadlineSlot(r, e.pubkey)
  <2>1. s' = s
    BY <1>1 DEF ChainsStill, ExitDeadlineSlot
  <2>2. CASE e.pubkey \in settled
    BY <1>1, <2>2 DEF Accounted
  <2>3. CASE TimelyExit(e.pubkey, s)
    BY <1>1, <2>3 DEF Accounted, ChainsStill, TimelyExit, ExitEpochBelow, ExitEpochSet, ExitDeadlineSlot
  <2>4. CASE Tracked(r, e) /\ e.pubkey \notin settled /\ ~TimelyExit(e.pubkey, s)
    <3>1. PICK g \in storage : g.deadlineSlot = s /\ g.exitRequest = r /\ e \in g.validators
      BY <2>4 DEF Tracked
    <3>2. CASE s \in eligible
      <4>1. e.pubkey \in reported
        BY <1>1, <2>4, <3>1, <3>2 DEF LossInv, ProcessedDone, Done
      <4>2. \E k \in cleanupProcessedEntries :
                k.deadlineSlot = s /\ k.exitRequest = r /\ e \in k.validators
        BY <1>2, <3>1, <4>1, CleanupKeeps
      <4> QED
        BY <1>1, <2>1, <4>2 DEF Accounted, Tracked
    <3>3. CASE s \notin eligible
      <4>1. g \in cleanupProcessedEntries
        BY <3>1, <3>3 DEF cleanupProcessedEntries
      <4> QED
        BY <1>1, <2>1, <3>1, <4>1 DEF Accounted, Tracked
    <3> QED
      BY <3>2, <3>3
  <2>5. Accounted(r, e)
    BY DEF LossInv, NoneForgotten, Accounted
  <2> QED
    BY <2>2, <2>3, <2>4, <2>5 DEF Accounted
<1>5. GroupsPure' /\ GroupsWhole' /\ GroupsNonempty'
  <2> SUFFICES ASSUME NEW g \in cleanupProcessedEntries
               PROVE  /\ g.validators # {}
                      /\ \A e \in g.validators : DueIn(e.pubkey, g.exitRequest, g.deadlineSlot)
                      /\ \A x \in g.validators : \A e \in decodeValidatorsData(g.exitRequest) :
                            e.pubkey = x.pubkey => e \in g.validators
    BY <1>1, DueStill DEF GroupsPure, GroupsWhole, GroupsNonempty, decodeValidatorsData
  <2>1. CASE g \in storage
    BY <2>1 DEF LossInv, GroupsPure, GroupsWhole, GroupsNonempty
  <2>2. CASE g \notin storage
    <3>1. PICK h \in storage : /\ g.deadlineSlot = h.deadlineSlot
                               /\ g.exitRequest = h.exitRequest
                               /\ g.validators = remainingForThisGroup(h)
                               /\ remainingForThisGroup(h) # {}
      BY <1>2, <2>2, CleanedGroup
    <3>2. ASSUME NEW e \in g.validators
          PROVE  /\ DueIn(e.pubkey, g.exitRequest, g.deadlineSlot)
                 /\ \A x \in decodeValidatorsData(g.exitRequest) :
                        x.pubkey = e.pubkey => x \in g.validators
      <4>1. e.pubkey \in reported
        BY <3>1 DEF remainingForThisGroup, remainingValidators
      <4>2. PICK y \in h.validators : y.pubkey = e.pubkey
        BY <3>1 DEF remainingForThisGroup, pubkeys
      <4>3. DueIn(e.pubkey, h.exitRequest, h.deadlineSlot)
        BY <4>2 DEF LossInv, GroupsPure
      <4>4. ASSUME NEW x \in decodeValidatorsData(h.exitRequest), x.pubkey = e.pubkey
            PROVE  x \in remainingForThisGroup(h)
        <5>1. x \in h.validators
          BY <4>2, <4>4 DEF LossInv, GroupsWhole
        <5> QED
          BY <4>1, <4>4, <5>1
          DEF remainingForThisGroup, remainingValidators, allValidators, groupDataArray, pubkeys
      <4> QED
        BY <3>1, <4>3, <4>4
    <3> QED
      BY <3>1, <3>2
  <2> QED
    BY <2>1, <2>2
<1> QED
  BY <1>1, <1>3, <1>4, <1>5 DEF LossInv

(* A step of the bot, one step of the proof per action. *)
LEMMA LossBotStep ==
    ASSUME Faults \subseteq BenignFaults, FINALITY_DELAY <= LOOKBACK, LossInv, BotStep
    PROVE  LossInv'
<1>1. JustInv'
  BY JustBotStep DEF LossInv
<1>2. CASE EmulationFails
  <2>1. ChainsStill /\ CycleFails /\ UNCHANGED <<storage, settled, covered>>
    BY <1>2 DEF EmulationFails, ChainsStill, chainVars
  <2> QED
    BY <1>1, <2>1, ForgottenStill, LossCycleOver DEF LossInv, ScanInv
<1> QED
  BY <1>1, <1>2, LossRangeChosen, LossFetch, LossGroup, LossScanEnds, LossStartSlot,
     LossCheck, LossSubmit, LossCleanup
  DEF BotStep

(* A failed cycle keeps the storage; a restart forgets what it covered     *)
(* too.                                                                    *)
LEMMA LossFailure ==
    ASSUME LossInv, Failure
    PROVE  LossInv'
<1>1. JustInv' /\ ChainsStill
  BY JustFailure, ChainsStillStep DEF LossInv
<1>2. CASE Crash
  <2>1. storage' = {} /\ covered' = {} /\ pc' = "init" /\ unchecked' = {} /\ witnesses' = {}
    BY <1>2 DEF Crash, ResetLocals
  <2>2. ScanInv' /\ RangeAccounted' /\ HandOverdue' /\ ProcessedDone' /\ NoneForgotten'
        /\ GroupsPure' /\ GroupsWhole' /\ GroupsNonempty'
    BY <2>1 DEF ScanInv, RangeAccounted, HandOverdue, ProcessedDone, NoneForgotten, GroupsPure,
                GroupsWhole, GroupsNonempty
  <2> QED
    BY <1>1, <2>2 DEF LossInv
<1>3. CASE BeaconStateCorrupt \/ SubmissionTimesOut \/ CallFails
  <2>1. (CycleEnds \/ CycleFails) /\ UNCHANGED <<storage, settled, covered>>
    BY <1>3 DEF BeaconStateCorrupt, SubmissionTimesOut, CallFails, chainVars
  <2> QED
    BY <1>1, <2>1, ForgottenStill, LossCycleOver DEF LossInv, ScanInv
<1> QED
  BY <1>2, <1>3 DEF Failure

(* The strengthened invariant holds in every state. *)
LEMMA LossAlways ==
    ASSUME Faults \subseteq BenignFaults, FINALITY_DELAY <= LOOKBACK
    PROVE  Spec => []LossInv
<1>1. LossInv /\ [Next]_vars => LossInv'
  <2> SUFFICES ASSUME LossInv, UNCHANGED vars PROVE LossInv'
    BY LossEnvironment, LossBotStep, LossFailure DEF Next
  <2>1. UNCHANGED <<head, finalized, deliveredAt, exitAt, settled, mempool, storage, reported,
                    pc, currentSlot, pending, eligible, todo, slot, payload, unchecked,
                    witnesses, fromBlock, toBlock, covered>>
    BY DEF vars, chainVars, proverVars, locals, daemonVars
  <2>2. JustInv'
    <3>1. TypeOK'
      BY TypeStuttering DEF LossInv, JustInv
    <3>2. ChainsStill
      BY <2>1 DEF ChainsStill
    <3>3. ClockInv' /\ PendingDelivered' /\ NoUnjustReport'
      BY <2>1, <3>2, NoUnjustReportStill
      DEF LossInv, JustInv, ClockInv, PendingDelivered
    <3>4. StoredRequested' /\ HandRequested' /\ WitnessesLate'
      BY <2>1, <3>2, StillRequested
      DEF LossInv, JustInv, StoredRequested, HandRequested, WitnessesLate
    <3> QED
      BY <3>1, <3>3, <3>4 DEF JustInv
  <2>3. ChainsStill
    BY <2>1 DEF ChainsStill
  <2>4. ScanInv' /\ HandOverdue'
    BY <2>1, <2>3, HandStill DEF LossInv, ScanInv
  <2>5. RangeAccounted'
    BY <2>1, <2>3, AccountedStill
    DEF LossInv, RangeAccounted, AllAccounted, ExitRequestsInBlocks, decodeValidatorsData
  <2>6. ProcessedDone'
    BY <2>1, <2>3, DoneStill DEF LossInv, ProcessedDone
  <2> QED
    BY <2>1, <2>2, <2>3, <2>4, <2>5, <2>6, ForgottenStill, PureStill DEF LossInv
<1> QED
  BY <1>1, LossInit, PTL DEF Spec

(* Until its penalty is on record or it has exited in time, a validator of *)
(* a scanned request is in storage: failed calls, transactions that time   *)
(* out or have no effect, restarts and unreadable finalized states cannot  *)
(* make the bot forget it, and nor can another request on its slot.        *)
THEOREM NothingForgotten ==
    ASSUME Faults \subseteq BenignFaults, FINALITY_DELAY <= LOOKBACK
    PROVE  Spec => []NoneForgotten
<1>1. LossInv => NoneForgotten
  BY DEF LossInv
<1>2. Spec => []LossInv
  BY LossAlways
<1> QED
  BY <1>1, <1>2, PTL

=============================================================================
