--------------------------- MODULE Reporting_proofs ---------------------------
(***************************************************************************)
(* Every step of the bot is a step of Reporting, for every set of          *)
(* requests, validators and data: under the assumptions of                 *)
(* NothingForgotten, whose invariant LossInv this proof rests on.          *)
(***************************************************************************)
EXTENDS LateProverBotRefinement, NoneForgotten_proofs

(* The cases are those of the requests' data, which does not change. *)
LEMMA CasesConstant == Cases' = Cases
BY DEF Cases, pubkeys, decodeValidatorsData

LEMMA CaseParts ==
    ASSUME NEW c \in Cases
    PROVE  /\ c[1] \in Requests
           /\ c[2] \in Validators
           /\ c[2] \in pubkeys(decodeValidatorsData(c[1]))
BY DEF Cases

LEMMA VerdictType == verdict \in [Cases -> {"open", "late", "timely"}]
BY DEF verdict

LEMMA FiledAreCases == filed \in SUBSET Cases
BY DEF filed

(* The deadline of a case is a slot. *)
LEMMA DeadlineOfCase ==
    ASSUME TypeOK, NEW c \in Cases
    PROVE  ExitDeadlineSlot(c[1], c[2]) \in Int
<1>1. deliveredAt[c[1]] \in Int /\ c[2] \in Validators
  BY CaseParts DEF TypeOK, ChainTypeOK
<1> QED
  BY <1>1, DeadlineIsInt DEF ExitDeadlineSlot

(* A validator that is late on a request has lost a case. *)
LEMMA LateHasCase ==
    ASSUME NEW r \in Requests, NEW v \in Validators, Late(r, v)
    PROVE  Promise!LateIn(v)
<1> DEFINE c == <<r, v>>
<1>1. c \in Cases /\ c[1] = r /\ c[2] = v
  BY DEF Late, Cases
<1>2. verdict[c] = "late"
  BY <1>1 DEF Late, verdict, Decided
<1> QED
  BY <1>1, <1>2 DEF Promise!LateIn, Promise!Subject

-----------------------------------------------------------------------------
(* The chains. *)

(* What finality has decided stays decided, and the same way. *)
LEMMA DecisionStable ==
    ASSUME LossInv, ChainNext, NEW c \in Cases, verdict[c] # "open"
    PROVE  verdict'[c] = verdict[c]
<1> DEFINE s == ExitDeadlineSlot(c[1], c[2])
<1>0. TypeOK /\ finalized < head /\ c \in Cases' /\ c[1] \in Requests /\ c[2] \in Validators
  BY CaseParts, CasesConstant DEF LossInv, JustInv, ClockInv
<1>1. deliveredAt[c[1]] > 0 /\ s <= finalized
  BY DEF verdict, Decided
<1>2. deliveredAt'[c[1]] = deliveredAt[c[1]]
  BY <1>0, <1>1, DeliveredStable
<1>3. s' = s
  BY <1>2 DEF ExitDeadlineSlot
<1>4. Decided(c[1], c[2])'
  <2>1. finalized <= finalized' /\ finalized' \in Nat /\ finalized \in Nat
    BY <1>0, ClockTick DEF TypeOK, ChainTypeOK
  <2>2. s \in Int
    BY <1>0, DeadlineOfCase
  <2>3. s <= finalized'
    <3> HIDE DEF s
    <3> QED
      BY <1>1, <2>1, <2>2
  <2> QED
    BY <1>1, <1>2, <1>3, <2>3 DEF Decided
<1>5. TimelyExit(c[2], s)' <=> TimelyExit(c[2], s)
  <2>1. exitAt'[c[2]] = exitAt[c[2]] \/ (exitAt[c[2]] = 0 /\ exitAt'[c[2]] = head + 1)
    <3>1. ASSUME NEW w \in Validators, InitiateExit(w)
          PROVE  exitAt'[c[2]] = exitAt[c[2]] \/ (exitAt[c[2]] = 0 /\ exitAt'[c[2]] = head + 1)
      BY <1>0, <3>1 DEF InitiateExit, TypeOK, ChainTypeOK
    <3> QED
      BY <3>1 DEF ChainNext, NewBlock, Finalize, MineLate
  <2>2. s \in Int /\ head \in Nat /\ finalized \in Nat
    BY <1>0, DeadlineOfCase DEF TypeOK, ChainTypeOK
  <2> HIDE DEF s
  <2>3. s + 1 < head + 1
    BY <1>0, <1>1, <2>2
  <2> QED
    BY <1>3, <2>1, <2>2, <2>3 DEF TimelyExit, ExitEpochBelow, ExitEpochSet
<1> QED
  BY <1>0, <1>1, <1>4, <1>5 DEF verdict, Decided

(* A stored group belongs to a delivered request, whose deadlines stay.    *)
LEMMA TrackedStable ==
    ASSUME LossInv, ChainNext, UNCHANGED storage, NEW r \in Requests,
           NEW e \in decodeValidatorsData(r)
    PROVE  Tracked(r, e)' <=> Tracked(r, e)
<1>1. ASSUME NEW g \in storage, g.exitRequest = r, e \in g.validators
      PROVE  ExitDeadlineSlot(r, e.pubkey)' = ExitDeadlineSlot(r, e.pubkey)
  <2>1. deliveredAt[r] > 0
    BY <1>1 DEF LossInv, GroupsPure, DueIn
  <2> QED
    BY <2>1, DeliveredStable DEF ExitDeadlineSlot
<1> QED
  BY <1>1 DEF Tracked

LEMMA PromiseEnvironment ==
    ASSUME LossInv, Environment
    PROVE  Promise!Next
<1>1. ChainNext /\ UNCHANGED storage
  BY DEF Environment, proverVars
<1>2. UNCHANGED filed
  <2>1. \A c \in Cases :
            (\E e \in decodeValidatorsData(c[1]) : e.pubkey = c[2] /\ Tracked(c[1], e)') <=>
            (\E e \in decodeValidatorsData(c[1]) : e.pubkey = c[2] /\ Tracked(c[1], e))
    BY <1>1, TrackedStable, CaseParts
  <2> QED
    BY <2>1, CasesConstant DEF filed, decodeValidatorsData
<1>3. ASSUME NEW tx \in mempool, MineLate(tx) PROVE Promise!Mine(tx)
  <2>1. UNCHANGED verdict
    BY <1>3, CasesConstant
    DEF MineLate, verdict, Decided, ExitDeadlineSlot, TimelyExit, ExitEpochBelow, ExitEpochSet
  <2> QED
    BY <1>2, <1>3, <2>1 DEF MineLate, Promise!Mine
<1>4. ASSUME UNCHANGED <<settled, mempool>> PROVE Promise!Decide
  <2>1. verdict' \in [Cases -> {"open", "late", "timely"}]
    BY CasesConstant DEF verdict
  <2> QED
    BY <1>1, <1>2, <1>4, <2>1, DecisionStable DEF Promise!Decide
<1>5. UNCHANGED <<settled, mempool>> \/ \E tx \in mempool : MineLate(tx)
  BY <1>1 DEF ChainNext, NewBlock, Finalize, InitiateExit
<1> QED
  BY <1>3, <1>4, <1>5 DEF Promise!Next

-----------------------------------------------------------------------------
(* The bot. *)

(* While the chains stand still, so do the verdicts. *)
LEMMA VerdictStill == ASSUME ChainsStill PROVE UNCHANGED verdict
BY CasesConstant
DEF ChainsStill, verdict, Decided, ExitDeadlineSlot, TimelyExit, ExitEpochBelow, ExitEpochSet

LEMMA TrackedStill ==
    ASSUME ChainsStill, storage \subseteq storage', NEW r \in Requests, NEW e, Tracked(r, e)
    PROVE  Tracked(r, e)'
BY DEF ChainsStill, Tracked, ExitDeadlineSlot

(* A step that only adds to the storage files cases. *)
LEMMA PromiseFile ==
    ASSUME ChainsStill, storage \subseteq storage', UNCHANGED <<settled, mempool>>
    PROVE  Promise!Next
<1>1. filed \subseteq filed'
  <2> SUFFICES ASSUME NEW c \in filed PROVE c \in filed'
    OBVIOUS
  <2>1. c \in Cases /\ c \in Cases'
    BY CasesConstant DEF filed
  <2>2. PICK e \in decodeValidatorsData(c[1]) : e.pubkey = c[2] /\ Tracked(c[1], e)
    BY DEF filed
  <2>3. Tracked(c[1], e)'
    BY <2>1, <2>2, TrackedStill, CaseParts
  <2> QED
    BY <2>1, <2>2, <2>3 DEF filed, decodeValidatorsData
<1>2. filed' \in SUBSET Cases
  BY CasesConstant DEF filed
<1> QED
  BY <1>1, <1>2, VerdictStill DEF Promise!Next, Promise!File

(* A step that does not touch the storage leaves filed alone. *)
LEMMA FiledStill ==
    ASSUME ChainsStill, UNCHANGED storage
    PROVE  UNCHANGED filed
BY CasesConstant DEF ChainsStill, filed, Tracked, ExitDeadlineSlot, decodeValidatorsData

(* Whoever is in a batch has lost a case. *)
LEMMA BatchIsLate ==
    ASSUME LossInv, NEW batch, batch \in createValidatorBatches
    PROVE  /\ pubkeys(batch) \in SUBSET Validators
           /\ \A v \in pubkeys(batch) : Promise!LateIn(v)
<1>1. batch \subseteq witnesses /\ witnesses \subseteq Entry
  BY BatchType DEF LossInv, JustInv, TypeOK, ProverTypeOK
<1>2. ASSUME NEW e \in batch PROVE e.pubkey \in Validators /\ Promise!LateIn(e.pubkey)
  <2>1. e \in witnesses /\ e.pubkey \in Validators
    BY <1>1 DEF Entry
  <2>2. PICK r \in Requests : Late(r, e.pubkey)
    BY <2>1, WitnessIsLate DEF LossInv
  <2> QED
    BY <2>1, <2>2, LateHasCase
<1> QED
  BY <1>2 DEF pubkeys

LEMMA PromiseSubmit ==
    ASSUME LossInv, SubmitBatch
    PROVE  Promise!Next
<1>1. ChainsStill /\ UNCHANGED <<storage, mempool>>
  BY DEF SubmitBatch, BatchCompleted, BatchSkipped, ChainsStill, chainVars
<1>2. ASSUME NEW batch \in createValidatorBatches, settled' = settled \cup pubkeys(batch)
      PROVE  Promise!Record(pubkeys(batch))
  BY <1>1, <1>2, BatchIsLate, VerdictStill, FiledStill DEF Promise!Record
<1>3. CASE UNCHANGED settled
  BY <1>1, <1>3, PromiseFile
<1>4. CASE \E batch \in createValidatorBatches : settled' = settled \cup pubkeys(batch)
  BY <1>2, <1>4, BatchIsLate DEF Promise!Next
<1> QED
  BY <1>3, <1>4 DEF SubmitBatch, BatchCompleted, BatchSkipped, chainVars

LEMMA PromiseTimeout ==
    ASSUME LossInv, SubmissionTimesOut
    PROVE  Promise!Next
<1>1. ChainsStill /\ UNCHANGED <<storage, settled>>
  BY DEF SubmissionTimesOut, ChainsStill
<1>2. PICK batch \in createValidatorBatches : mempool' = mempool \cup {pubkeys(batch)}
  BY DEF SubmissionTimesOut
<1>3. Promise!Send(pubkeys(batch))
  BY <1>1, <1>2, BatchIsLate, VerdictStill, FiledStill DEF Promise!Send
<1> QED
  BY <1>2, <1>3, BatchIsLate DEF Promise!Next

(* A case the cleanup lays aside is closed: its validator was neither in   *)
(* hand nor reported, so it was found on record or out in time.            *)
LEMMA PromiseCleanup ==
    ASSUME LossInv, Cleanup
    PROVE  Promise!Next
<1>1. /\ ChainsStill /\ pc = "slots" /\ unchecked = {} /\ witnesses = {} /\ todo = {}
      /\ UNCHANGED <<settled, mempool>>
      /\ storage' = cleanupProcessedEntries
  BY DEF Cleanup, SlotInHand, ChainsStill, chainVars
<1>2. TypeOK
  BY DEF LossInv, JustInv
<1>3. ASSUME NEW r \in Requests, NEW e \in decodeValidatorsData(r), Tracked(r, e)'
      PROVE  Tracked(r, e)
  <2>1. PICK g \in cleanupProcessedEntries : /\ g.deadlineSlot = ExitDeadlineSlot(r, e.pubkey)
                                             /\ g.exitRequest = r
                                             /\ e \in g.validators
    BY <1>1, <1>3 DEF Tracked, ChainsStill, ExitDeadlineSlot
  <2>2. CASE g \in storage
    BY <2>1, <2>2 DEF Tracked
  <2>3. CASE g \notin storage
    <3>1. PICK h \in storage : /\ g.deadlineSlot = h.deadlineSlot
                               /\ g.exitRequest = h.exitRequest
                               /\ g.validators = remainingForThisGroup(h)
      BY <1>2, <2>3, CleanedGroup
    <3>2. PICK y \in h.validators : y.pubkey = e.pubkey
      BY <2>1, <3>1 DEF remainingForThisGroup, pubkeys
    <3>3. e \in h.validators
      BY <2>1, <3>1, <3>2 DEF LossInv, GroupsWhole
    <3> QED
      BY <2>1, <3>1, <3>3 DEF Tracked
  <2> QED
    BY <2>2, <2>3
<1>4. filed' \in SUBSET filed
  <2> SUFFICES ASSUME NEW c \in filed' PROVE c \in filed
    OBVIOUS
  <2>1. c \in Cases
    BY CasesConstant DEF filed
  <2>2. PICK e \in decodeValidatorsData(c[1]) : e.pubkey = c[2] /\ Tracked(c[1], e)'
    BY DEF filed, decodeValidatorsData
  <2>3. Tracked(c[1], e)
    BY <1>3, <2>1, <2>2, CaseParts
  <2> QED
    BY <2>1, <2>2, <2>3 DEF filed
<1>5. ASSUME NEW c \in filed \ filed' PROVE Promise!Closed(c)
  <2>1. c \in Cases /\ c[1] \in Requests
    BY CaseParts DEF filed
  <2>2. PICK e \in decodeValidatorsData(c[1]) : e.pubkey = c[2] /\ Tracked(c[1], e)
    BY DEF filed
  <2>3. ~Tracked(c[1], e)'
    BY <1>5, <2>1, <2>2, CasesConstant DEF filed, decodeValidatorsData
  <2>4. PICK g \in storage : /\ g.deadlineSlot = ExitDeadlineSlot(c[1], c[2])
                             /\ g.exitRequest = c[1]
                             /\ e \in g.validators
    BY <2>2 DEF Tracked
  <2>5. ExitDeadlineSlot(c[1], c[2])' = ExitDeadlineSlot(c[1], c[2])
    BY <1>1 DEF ChainsStill, ExitDeadlineSlot
  <2>6. g \notin cleanupProcessedEntries
    BY <1>1, <2>2, <2>3, <2>4, <2>5 DEF Tracked
  <2>7. g.deadlineSlot \in eligible
    BY <2>4, <2>6 DEF cleanupProcessedEntries
  <2>8. e.pubkey \notin reported
    BY <1>1, <1>2, <2>2, <2>3, <2>4, <2>5, CleanupKeeps DEF Tracked
  <2>9. c[2] \in settled \/ TimelyExit(c[2], g.deadlineSlot)
    BY <1>1, <2>2, <2>4, <2>7, <2>8 DEF LossInv, ProcessedDone, Done
  <2>10. Decided(c[1], c[2])
    <3>1. deliveredAt[c[1]] > 0
      BY <2>4 DEF LossInv, GroupsPure, DueIn
    <3> QED
      BY <2>4, <2>7, <3>1 DEF Decided, LossInv, JustInv, ClockInv
  <2> QED
    BY <2>1, <2>4, <2>9, <2>10 DEF Promise!Closed, Promise!Subject, verdict
<1> QED
  BY <1>1, <1>4, <1>5, VerdictStill DEF Promise!Next, Promise!Drop

(* A step of the bot or a failure, one step of the proof per action that   *)
(* does not merely stutter.                                                *)
LEMMA PromiseBot ==
    ASSUME LossInv, BotStep \/ Failure
    PROVE  Promise!Next
<1>0. ChainsStill
  BY ChainsStillStep
<1>1. CASE GroupRequest
  <2>1. storage \subseteq storage' /\ UNCHANGED <<settled, mempool>>
    BY <1>1 DEF GroupRequest, ProcessExitRequest, chainVars
  <2> QED
    BY <1>0, <2>1, PromiseFile
<1>2. CASE SubmitBatch
  BY <1>2, PromiseSubmit
<1>3. CASE SubmissionTimesOut
  BY <1>3, PromiseTimeout
<1>4. CASE Cleanup
  BY <1>4, PromiseCleanup
<1>5. CASE Crash
  <2>1. storage' = {} /\ UNCHANGED <<settled, mempool>>
    BY <1>5 DEF Crash, chainVars
  <2>2. filed' = {}
    BY <2>1 DEF filed, Tracked
  <2> QED
    BY <1>0, <2>1, <2>2, VerdictStill DEF Promise!Next, Promise!Restart
<1>6. CASE \/ InitializeStorageWithRecentEvents \/ GetRoots \/ BeaconState \/ FetchRequests
           \/ NothingEligible \/ SomeEligible \/ StartSlot \/ CheckValidator
           \/ EmulationFails \/ BeaconStateCorrupt \/ CallFails
  <2>1. UNCHANGED <<storage, settled, mempool>>
    BY <1>6
    DEF InitializeStorageWithRecentEvents, GetRoots, BeaconState, InitializeBeaconState,
        FetchRequests, FetchExitRequests, NothingEligible, SomeEligible, SelectEligible,
        StartSlot, ProcessDeadlineSlot, CheckValidator, ProcessValidator, EmulationFails,
        BeaconStateCorrupt, CallFails, chainVars
  <2> QED
    BY <1>0, <2>1, PromiseFile
<1> QED
  BY <1>1, <1>2, <1>3, <1>4, <1>5, <1>6 DEF BotStep, Failure

LEMMA PromiseStutters ==
    ASSUME UNCHANGED vars
    PROVE  Promise!Next
<1>1. ChainsStill /\ UNCHANGED <<storage, settled, mempool>>
  BY DEF vars, chainVars, proverVars, ChainsStill
<1> QED
  BY <1>1, PromiseFile

LEMMA PromiseInit == Init => Promise!Init
<1> SUFFICES ASSUME Init PROVE Promise!Init
  OBVIOUS
<1>1. verdict = [c \in Cases |-> "open"]
  <2>1. \A c \in Cases : ~Decided(c[1], c[2])
    BY CaseParts DEF Init, ChainInit, Decided
  <2> QED
    BY <2>1 DEF verdict
<1>2. filed = {}
  BY DEF Init, ProverInit, filed, Tracked
<1> QED
  BY <1>1, <1>2 DEF Init, ChainInit, Promise!Init

(* The bot implements Reporting: if the faults are those after which       *)
(* nothing is forgotten, and finality is never later than the lookback     *)
(* reaches, each of its steps is one the promise allows.                   *)
THEOREM BotKeepsPromise ==
    ASSUME Faults \subseteq BenignFaults, FINALITY_DELAY <= LOOKBACK
    PROVE  Spec => KeepsPromise
<1>1. LossInv /\ [Next]_vars => [Promise!Next]_(Promise!reportingVars)
  BY PromiseEnvironment, PromiseBot, PromiseStutters DEF Next
<1>2. Spec => []LossInv
  BY LossAlways
<1> QED
  BY <1>1, <1>2, PromiseInit, PTL DEF Spec, KeepsPromise, Promise!Spec

=============================================================================
