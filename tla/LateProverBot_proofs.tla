------------------------- MODULE LateProverBot_proofs -------------------------
(***************************************************************************)
(* Theorems of LateProverBot, for every set of requests and validators,    *)
(* every chain configuration and every number of failures.                 *)
(***************************************************************************)
EXTENDS LateProverBot, Chain_proofs

-----------------------------------------------------------------------------
(* Types of the operators. *)

(* What groupValidatorsByDeadlineSlot makes is groups. *)
LEMMA GroupsType ==
    ASSUME ChainTypeOK, NEW r \in Requests
    PROVE  groupValidatorsByDeadlineSlot(r) \subseteq Group
<1>1. deliveredAt[r] \in Int
  BY DEF ChainTypeOK
<1>2. Deadlines(deliveredAt[r], r) \subseteq Int
  BY <1>1, DeadlinesType
<1> QED
  BY <1>2, DecodedType DEF groupValidatorsByDeadlineSlot, Group

(* The validators of a slot are entries. *)
LEMMA AllValidatorsType ==
    ASSUME storage \subseteq Group, NEW s
    PROVE  allValidators(s) \subseteq Entry
BY DEF allValidators, groupDataArray, Group

(* A batch is a set of the witnesses in hand. *)
LEMMA BatchType ==
    ASSUME NEW batch \in createValidatorBatches
    PROVE  batch \subseteq witnesses
BY DEF createValidatorBatches

(* The cleanup leaves groups. *)
LEMMA CleanupType ==
    ASSUME storage \subseteq Group
    PROVE  cleanupProcessedEntries \subseteq Group
<1> SUFFICES ASSUME NEW g \in storage
             PROVE  [g EXCEPT !.validators = remainingForThisGroup(g)] \in Group
  BY DEF cleanupProcessedEntries
<1>1. remainingForThisGroup(g) \subseteq Entry
  BY AllValidatorsType DEF remainingForThisGroup, remainingValidators
<1> QED
  BY <1>1 DEF Group

(* The lookback never goes back before the first block. *)
LEMMA LookbackType == ASSUME head \in Nat PROVE lookbackBlock \in Nat
BY LookbackAssumption DEF lookbackBlock

-----------------------------------------------------------------------------
(* Type correctness: no step of the bot or of the chains takes a variable  *)
(* out of its type.                                                        *)

(* The initial state has its types. *)
LEMMA TypeInit == Init => TypeOK
<1> SUFFICES ASSUME Init PROVE TypeOK
  OBVIOUS
<1> USE DEF Init, ChainInit, ProverInit
<1>1. ChainTypeOK
  BY ChainAssumption DEF ChainTypeOK
<1>2. ProverTypeOK
  BY ProverAssumption DEF ProverTypeOK
<1> QED
  BY <1>1, <1>2 DEF TypeOK

(* So has the state after a step of the chains. *)
LEMMA TypeEnvironment == TypeOK /\ Environment => TypeOK'
<1> SUFFICES ASSUME TypeOK, Environment PROVE TypeOK'
  OBVIOUS
<1>1. ProverTypeOK'
  BY DEF TypeOK, ProverTypeOK, Environment, proverVars, locals
<1>2. ChainTypeOK'
  BY ChainTypesStay DEF TypeOK, Environment
<1> QED
  BY <1>1, <1>2 DEF TypeOK, Environment, daemonVars

(* The number of failures keeps within its bound. *)
LEMMA FaultType ==
    ASSUME faults \in 0..MaxFaults, NEW kind, Fault(kind)
    PROVE  faults' \in 0..MaxFaults
BY ProverAssumption DEF Fault

(* A cycle that ends, well or badly, leaves its locals empty.              *)
LEMMA TypeCycleOver ==
    ASSUME TypeOK, CycleEnds \/ CycleFails
    PROVE  /\ pc' = "idle"
           /\ currentSlot' = 0 /\ pending' = {} /\ eligible' = {} /\ todo' = {}
           /\ slot' = 0 /\ payload' = NoRequest /\ slotType' = "current"
           /\ unchecked' = {} /\ witnesses' = {}
           /\ lastProcessed' \in Nat /\ caller' = "handleBlock"
           /\ fromBlock' = 0 /\ toBlock' = 0
BY DEF TypeOK, CycleEnds, CycleFails, ResetLocals

(* The end of a cycle keeps the types if what it does not reset does. *)
LEMMA TypeCycleStep ==
    ASSUME TypeOK, CycleEnds \/ CycleFails, ChainTypeOK', storage' \subseteq Group,
           reported' \subseteq Validators, covered' \subseteq Nat,
           since' \in Nat, faults' \in 0..MaxFaults
    PROVE  TypeOK'
<1>1. ProverTypeOK'
  BY TypeCycleOver DEF ProverTypeOK
<1> QED
  BY <1>1, TypeCycleOver DEF TypeOK

(* Every step of the bot keeps the types, one step of the proof per action.*)
LEMMA TypeBotStep == TypeOK /\ BotStep => TypeOK'
<1> SUFFICES ASSUME TypeOK, BotStep PROVE TypeOK'
  OBVIOUS
<1> USE DEF chainVars, locals
<1>0. ChainTypeOK /\ ProverTypeOK
  BY DEF TypeOK
<1>1. CASE InitializeStorageWithRecentEvents
  <2>1. ChainTypeOK'
    BY <1>0, <1>1 DEF ChainTypeOK, InitializeStorageWithRecentEvents
  <2>2. ProverTypeOK'
    BY <1>0, <1>1 DEF ProverTypeOK, InitializeStorageWithRecentEvents
  <2>3. lookbackBlock \in Nat /\ head \in Nat
    BY <1>0, LookbackType DEF ChainTypeOK
  <2> QED
    BY <1>1, <2>1, <2>2, <2>3 DEF TypeOK, InitializeStorageWithRecentEvents
<1>2. CASE GetRoots
  <2>1. ChainTypeOK'
    BY <1>0, <1>2 DEF ChainTypeOK, GetRoots
  <2>2. ProverTypeOK'
    BY <1>0, <1>2 DEF ProverTypeOK, GetRoots
  <2>3. lookbackBlock \in Nat /\ finalized \in Nat
    BY <1>0, LookbackType DEF ChainTypeOK
  <2>4. prevRoot \in Nat
    BY <2>3 DEF prevRoot, TypeOK
  <2> QED
    BY <1>2, <2>1, <2>2, <2>3, <2>4 DEF TypeOK, GetRoots
<1>3. CASE BeaconState
  <2>1. ChainTypeOK'
    BY <1>0, <1>3 DEF ChainTypeOK, BeaconState, InitializeBeaconState
  <2>2. ProverTypeOK'
    BY <1>0, <1>3 DEF ChainTypeOK, ProverTypeOK, BeaconState, InitializeBeaconState
  <2> QED
    BY <1>3, <2>1, <2>2 DEF TypeOK, BeaconState, DaemonUnchanged, daemonVars
<1>4. CASE FetchRequests
  <2>1. ChainTypeOK'
    BY <1>0, <1>4 DEF ChainTypeOK, FetchRequests, FetchExitRequests
  <2>2. pending' \subseteq Requests /\ faults' \in 0..MaxFaults
    BY <1>0, <1>4, FaultType
    DEF ProverTypeOK, FetchRequests, FetchExitRequests, ExitRequestsInBlocks
  <2>3. ProverTypeOK'
    BY <1>0, <1>4, <2>2 DEF ProverTypeOK, FetchRequests, FetchExitRequests
  <2> QED
    BY <1>4, <2>1, <2>3 DEF TypeOK, FetchRequests, DaemonUnchanged, daemonVars
<1>5. CASE GroupRequest
  <2>1. PICK r \in pending : ProcessExitRequest(r)
    BY <1>5 DEF GroupRequest
  <2>2. ChainTypeOK'
    BY <1>0, <2>1 DEF ChainTypeOK, ProcessExitRequest
  <2>3. storage' \subseteq Group'
    <3>1. groupValidatorsByDeadlineSlot(r) \subseteq Group
      BY <1>0, GroupsType DEF ProverTypeOK
    <3> QED
      BY <1>0, <2>1, <3>1 DEF ProverTypeOK, ProcessExitRequest, Group, Entry
  <2>4. ProverTypeOK'
    BY <1>0, <2>1, <2>3 DEF ProverTypeOK, ProcessExitRequest
  <2> QED
    BY <1>5, <2>2, <2>4 DEF TypeOK, GroupRequest, DaemonUnchanged, daemonVars
<1>6. CASE NothingEligible
  <2>1. ChainTypeOK'
    BY <1>0, <1>6 DEF ChainTypeOK, NothingEligible
  <2>2. covered' \subseteq Nat /\ since' \in Nat
    BY <1>6 DEF TypeOK, NothingEligible, RangeScanned
  <2> QED
    BY <1>0, <1>6, <2>1, <2>2, TypeCycleStep DEF NothingEligible, ProverTypeOK
<1>7. CASE SomeEligible
  <2>1. ChainTypeOK'
    BY <1>0, <1>7 DEF ChainTypeOK, SomeEligible, SelectEligible
  <2>2. EligibleSlots \subseteq Int
    BY <1>0 DEF ProverTypeOK, EligibleSlots, Group
  <2>3. ProverTypeOK'
    BY <1>0, <1>7, <2>2 DEF ProverTypeOK, SomeEligible, SelectEligible
  <2>4. covered' \subseteq Nat /\ since' \in Nat
    BY <1>7 DEF TypeOK, SomeEligible, RangeScanned
  <2> QED
    BY <1>7, <2>1, <2>3, <2>4 DEF TypeOK, SomeEligible
<1>8. CASE StartSlot
  <2>1. PICK s \in todo : ProcessDeadlineSlot(s)
    BY <1>8 DEF StartSlot
  <2>2. ChainTypeOK'
    BY <1>0, <2>1 DEF ChainTypeOK, ProcessDeadlineSlot
  <2>3. payload' \in Requests
    BY <1>0, <2>1
    DEF ProverTypeOK, ProcessDeadlineSlot, LeadingGroups, groupDataArray, Group
  <2>4. unchecked' \subseteq Entry' /\ faults' \in 0..MaxFaults
    <3>1. allValidators(s) \subseteq Entry
      BY <1>0, AllValidatorsType DEF ProverTypeOK
    <3> QED
      BY <1>0, <2>1, <3>1, FaultType DEF ProverTypeOK, ProcessDeadlineSlot, Entry
  <2>5. slot' \in Int /\ todo' \subseteq eligible'
        /\ slotType' \in {"current", "historical"}
    BY <1>0, <2>1 DEF ProverTypeOK, ProcessDeadlineSlot
  <2>6. ProverTypeOK'
    BY <1>0, <2>1, <2>3, <2>4, <2>5 DEF ProverTypeOK, ProcessDeadlineSlot
  <2> QED
    BY <1>8, <2>2, <2>6 DEF TypeOK, StartSlot, DaemonUnchanged, daemonVars
<1>9. CASE CheckValidator
  <2>1. PICK e \in unchecked : ProcessValidator(e)
    BY <1>9 DEF CheckValidator
  <2>2. ChainTypeOK'
    BY <1>0, <2>1 DEF ChainTypeOK, ProcessValidator
  <2>3. ProverTypeOK'
    BY <1>0, <2>1 DEF ProverTypeOK, ProcessValidator
  <2> QED
    BY <1>9, <2>2, <2>3 DEF TypeOK, CheckValidator, DaemonUnchanged, daemonVars
<1>10. CASE SubmitBatch
  <2>1. PICK batch \in createValidatorBatches : BatchCompleted(batch) \/ BatchSkipped(batch)
    BY <1>10 DEF SubmitBatch
  <2>2. pubkeys(batch) \subseteq Validators
    BY <1>0, BatchType, PubkeysType DEF ProverTypeOK
  <2>3. ChainTypeOK'
    BY <1>0, <2>1, <2>2 DEF ChainTypeOK, BatchCompleted, BatchSkipped
  <2>4. faults' \in 0..MaxFaults
    BY <1>0, <2>1, FaultType DEF ProverTypeOK, BatchCompleted, BatchSkipped
  <2>5. ProverTypeOK'
    BY <1>0, <2>1, <2>2, <2>4 DEF ProverTypeOK, BatchCompleted, BatchSkipped
  <2> QED
    BY <1>10, <2>3, <2>5 DEF TypeOK, SubmitBatch, DaemonUnchanged, daemonVars
<1>11. CASE EmulationFails
  <2>1. ChainTypeOK'
    BY <1>0, <1>11 DEF ChainTypeOK, EmulationFails
  <2> QED
    BY <1>0, <1>11, <2>1, TypeCycleStep DEF EmulationFails, ProverTypeOK, TypeOK
<1>12. CASE Cleanup
  <2>1. ChainTypeOK'
    BY <1>0, <1>12 DEF ChainTypeOK, Cleanup
  <2>2. storage' \subseteq Group
    BY <1>0, <1>12, CleanupType DEF ProverTypeOK, Cleanup
  <2> QED
    BY <1>0, <1>12, <2>1, <2>2, TypeCycleStep DEF Cleanup, ProverTypeOK, TypeOK
<1> QED
  BY <1>1, <1>2, <1>3, <1>4, <1>5, <1>6, <1>7, <1>8, <1>9, <1>10, <1>11, <1>12
  DEF BotStep

(* A failure keeps the types. *)
LEMMA TypeFailure == TypeOK /\ Failure => TypeOK'
<1> SUFFICES ASSUME TypeOK, Failure PROVE TypeOK'
  OBVIOUS
<1> USE DEF chainVars
<1>0. ChainTypeOK /\ ProverTypeOK
  BY DEF TypeOK
<1>1. CASE BeaconStateCorrupt
  <2>1. ChainTypeOK' /\ faults' \in 0..MaxFaults
    BY <1>0, <1>1, FaultType DEF ChainTypeOK, ProverTypeOK, BeaconStateCorrupt
  <2> QED
    BY <1>0, <1>1, <2>1, TypeCycleStep DEF BeaconStateCorrupt, ProverTypeOK, TypeOK
<1>2. CASE SubmissionTimesOut
  <2>1. PICK batch \in createValidatorBatches : mempool' = mempool \cup {pubkeys(batch)}
    BY <1>2 DEF SubmissionTimesOut
  <2>2. pubkeys(batch) \subseteq Validators
    BY <1>0, BatchType, PubkeysType DEF ProverTypeOK
  <2>3. ChainTypeOK' /\ faults' \in 0..MaxFaults
    BY <1>0, <1>2, <2>1, <2>2, FaultType DEF ChainTypeOK, ProverTypeOK, SubmissionTimesOut
  <2> QED
    BY <1>0, <1>2, <2>3, TypeCycleStep DEF SubmissionTimesOut, ProverTypeOK, TypeOK
<1>3. CASE CallFails
  <2>1. ChainTypeOK' /\ faults' \in 0..MaxFaults
    BY <1>0, <1>3, FaultType DEF ChainTypeOK, ProverTypeOK, CallFails
  <2> QED
    BY <1>0, <1>3, <2>1, TypeCycleStep DEF CallFails, ProverTypeOK, TypeOK
<1>4. CASE Crash
  <2>1. ChainTypeOK' /\ faults' \in 0..MaxFaults
    BY <1>0, <1>4, FaultType DEF ChainTypeOK, ProverTypeOK, Crash
  <2>2. ProverTypeOK'
    BY <1>4, <2>1 DEF ProverTypeOK, Crash, ResetLocals
  <2> QED
    BY <1>4, <2>1, <2>2 DEF TypeOK, Crash
<1> QED
  BY <1>1, <1>2, <1>3, <1>4 DEF Failure

(* So does a step that changes nothing. *)
LEMMA TypeStuttering == TypeOK /\ UNCHANGED vars => TypeOK'
BY DEF TypeOK, ChainTypeOK, ProverTypeOK, vars, chainVars, proverVars, locals, daemonVars

(* Every variable has its type in every reachable state of the bot, for    *)
(* all values of the constants.                                            *)
THEOREM TypeCorrect == Spec => []TypeOK
<1>1. TypeOK /\ [Next]_vars => TypeOK'
  BY TypeEnvironment, TypeBotStep, TypeFailure, TypeStuttering DEF Next
<1> QED
  BY <1>1, TypeInit, PTL DEF Spec

-----------------------------------------------------------------------------
(* Reported pubkeys stay stored.  The invariant is not inductive alone: a  *)
(* batch that is confirmed adds its pubkeys to the reported ones, so what  *)
(* is in hand must be stored as well.                                      *)

HandStored == pubkeys(unchecked \cup witnesses) \subseteq StoredPubkeys

ReportedInv == TypeOK /\ ReportedStaysStored /\ HandStored

(* Storage only grows while exit requests are grouped.                     *)
LEMMA StoredGrows ==
    ASSUME storage \subseteq storage'
    PROVE  StoredPubkeys \subseteq StoredPubkeys'
BY DEF StoredPubkeys, pubkeys

(* What cleanupProcessedEntries keeps: every reported pubkey.              *)
LEMMA CleanupKeepsReported ==
    ASSUME ReportedStaysStored, storage \subseteq Group, storage' = cleanupProcessedEntries
    PROVE  reported \subseteq StoredPubkeys'
<1> SUFFICES ASSUME NEW v \in reported
             PROVE  \E g \in storage' : \E e \in g.validators : e.pubkey = v
  BY DEF StoredPubkeys, pubkeys
<1>1. PICK g \in storage : \E e \in g.validators : e.pubkey = v
  BY DEF ReportedStaysStored, StoredPubkeys, pubkeys
<1>2. PICK e \in g.validators : e.pubkey = v
  BY <1>1
<1>3. CASE g.deadlineSlot \notin eligible
  BY <1>2, <1>3 DEF cleanupProcessedEntries
<1>4. CASE g.deadlineSlot \in eligible
  <2>1. e \in remainingForThisGroup(g)
    BY <1>2 DEF remainingForThisGroup, remainingValidators, allValidators,
                groupDataArray, pubkeys
  <2>2. [g EXCEPT !.validators = remainingForThisGroup(g)] \in storage'
    BY <1>4, <2>1 DEF cleanupProcessedEntries
  <2>3. [g EXCEPT !.validators = remainingForThisGroup(g)].validators
            = remainingForThisGroup(g)
    BY DEF Group
  <2> QED
    BY <1>2, <2>1, <2>2, <2>3
<1> QED
  BY <1>3, <1>4

(* Nothing is reported or stored at first. *)
LEMMA ReportedInit == Init => ReportedInv
<1> SUFFICES ASSUME Init PROVE ReportedInv
  OBVIOUS
<1>1. TypeOK
  BY TypeInit
<1>2. ReportedStaysStored /\ HandStored
  BY DEF Init, ProverInit, ReportedStaysStored, HandStored, pubkeys
<1> QED
  BY <1>1, <1>2 DEF ReportedInv

(* Steps that touch none of the three collections the invariant relates.   *)
LEMMA ReportedUntouched ==
    ASSUME ReportedInv, UNCHANGED <<storage, reported, unchecked, witnesses>>
    PROVE  ReportedStaysStored' /\ HandStored'
BY DEF ReportedInv, ReportedStaysStored, HandStored, StoredPubkeys, pubkeys

(* A cycle that is over has nothing in hand.                               *)
LEMMA HandEmptied ==
    ASSUME unchecked' = {}, witnesses' = {}
    PROVE  HandStored'
BY DEF HandStored, pubkeys

(* A step of the bot: confirmations add what is stored, checks only        *)
(* remove.                                                                 *)
LEMMA ReportedBotStep == ReportedInv /\ BotStep => ReportedStaysStored' /\ HandStored'
<1> SUFFICES ASSUME ReportedInv, BotStep PROVE ReportedStaysStored' /\ HandStored'
  OBVIOUS
<1> USE DEF locals
<1>0. TypeOK /\ ReportedStaysStored /\ HandStored /\ storage \subseteq Group
  BY DEF ReportedInv, TypeOK, ProverTypeOK
<1>1. CASE InitializeStorageWithRecentEvents
  BY <1>1, ReportedUntouched DEF InitializeStorageWithRecentEvents
<1>2. CASE GetRoots
  BY <1>2, ReportedUntouched DEF GetRoots
<1>3. CASE BeaconState
  BY <1>3, ReportedUntouched DEF BeaconState, InitializeBeaconState
<1>4. CASE FetchRequests
  BY <1>4, ReportedUntouched DEF FetchRequests, FetchExitRequests
<1>5. CASE GroupRequest
  <2>1. /\ storage \subseteq storage'
        /\ UNCHANGED <<reported, unchecked, witnesses>>
    BY <1>5 DEF GroupRequest, ProcessExitRequest
  <2>2. StoredPubkeys \subseteq StoredPubkeys'
    BY <2>1, StoredGrows
  <2> QED
    BY <1>0, <2>1, <2>2 DEF ReportedStaysStored, HandStored, pubkeys
<1>6. CASE NothingEligible
  <2>1. UNCHANGED <<storage, reported>> /\ unchecked' = {} /\ witnesses' = {}
    BY <1>6 DEF NothingEligible, CycleEnds, ResetLocals
  <2> QED
    BY <1>0, <2>1, HandEmptied DEF ReportedStaysStored, StoredPubkeys, pubkeys
<1>7. CASE SomeEligible
  BY <1>7, ReportedUntouched DEF SomeEligible, SelectEligible
<1>8. CASE StartSlot
  <2>1. PICK s \in todo : ProcessDeadlineSlot(s)
    BY <1>8 DEF StartSlot
  <2>2. UNCHANGED <<storage, reported, witnesses>>
        /\ (unchecked' = allValidators(s) \/ unchecked' = unchecked)
    BY <2>1 DEF ProcessDeadlineSlot
  <2>3. pubkeys(allValidators(s)) \subseteq StoredPubkeys
    BY DEF allValidators, groupDataArray, StoredPubkeys, pubkeys
  <2> QED
    BY <1>0, <2>2, <2>3 DEF ReportedStaysStored, HandStored, StoredPubkeys, pubkeys
<1>9. CASE CheckValidator
  <2>1. PICK e \in unchecked : ProcessValidator(e)
    BY <1>9 DEF CheckValidator
  <2>2. /\ storage' = storage /\ reported' \subseteq reported
        /\ unchecked' \cup witnesses' \subseteq unchecked \cup witnesses
    BY <2>1 DEF ProcessValidator
  <2> QED
    BY <1>0, <2>2 DEF ReportedStaysStored, HandStored, StoredPubkeys, pubkeys
<1>10. CASE SubmitBatch
  <2>1. PICK batch \in createValidatorBatches : BatchCompleted(batch) \/ BatchSkipped(batch)
    BY <1>10 DEF SubmitBatch
  <2>2. batch \subseteq witnesses
    BY BatchType
  <2>3. /\ storage' = storage
        /\ reported' \subseteq reported \cup pubkeys(batch)
        /\ unchecked' \cup witnesses' \subseteq unchecked \cup witnesses
    BY <2>1 DEF BatchCompleted, BatchSkipped
  <2>4. pubkeys(batch) \subseteq StoredPubkeys
    BY <1>0, <2>2 DEF HandStored, pubkeys
  <2> QED
    BY <1>0, <2>3, <2>4 DEF ReportedStaysStored, HandStored, StoredPubkeys, pubkeys
<1>11. CASE EmulationFails
  <2>1. UNCHANGED <<storage, reported>> /\ unchecked' = {} /\ witnesses' = {}
    BY <1>11 DEF EmulationFails, CycleFails, ResetLocals
  <2> QED
    BY <1>0, <2>1, HandEmptied DEF ReportedStaysStored, StoredPubkeys, pubkeys
<1>12. CASE Cleanup
  <2>1. /\ storage' = cleanupProcessedEntries /\ reported' = reported
        /\ unchecked' = {} /\ witnesses' = {}
    BY <1>12 DEF Cleanup, CycleEnds, ResetLocals
  <2>2. reported \subseteq StoredPubkeys'
    BY <1>0, <2>1, CleanupKeepsReported
  <2> QED
    BY <2>1, <2>2, HandEmptied DEF ReportedStaysStored
<1> QED
  BY <1>1, <1>2, <1>3, <1>4, <1>5, <1>6, <1>7, <1>8, <1>9, <1>10, <1>11, <1>12
  DEF BotStep

(* A failed cycle keeps both collections, a restart empties both. *)
LEMMA ReportedFailure == ReportedInv /\ Failure => ReportedStaysStored' /\ HandStored'
<1> SUFFICES ASSUME ReportedInv, Failure PROVE ReportedStaysStored' /\ HandStored'
  OBVIOUS
<1>1. unchecked' = {} /\ witnesses' = {}
  BY DEF Failure, BeaconStateCorrupt, SubmissionTimesOut, CallFails, Crash,
         CycleEnds, CycleFails, ResetLocals
<1>2. (storage' = storage /\ reported' = reported) \/ reported' = {}
  BY DEF Failure, BeaconStateCorrupt, SubmissionTimesOut, CallFails, Crash
<1> QED
  BY <1>1, <1>2, HandEmptied DEF ReportedInv, ReportedStaysStored, StoredPubkeys, pubkeys

(* For every number of failures, of every kind, and however deadlines are  *)
(* shared: a pubkey remembered as reported is still in storage, so the     *)
(* next cycles do look at it again and forget it in the end.               *)
THEOREM ReportedAlwaysStored == Spec => []ReportedStaysStored
<1>1. ReportedInv /\ [Next]_vars => ReportedInv'
  <2> SUFFICES ASSUME ReportedInv, [Next]_vars PROVE ReportedInv'
    OBVIOUS
  <2>1. TypeOK'
    BY TypeEnvironment, TypeBotStep, TypeFailure, TypeStuttering DEF ReportedInv, Next
  <2>2. CASE Environment \/ UNCHANGED vars
    BY <2>1, <2>2, ReportedUntouched
    DEF ReportedInv, Environment, vars, proverVars, locals
  <2>3. CASE BotStep \/ Failure
    BY <2>1, <2>3, ReportedBotStep, ReportedFailure DEF ReportedInv
  <2> QED
    BY <2>2, <2>3 DEF Next
<1>2. ReportedInv => ReportedStaysStored
  BY DEF ReportedInv
<1> QED
  BY <1>1, <1>2, ReportedInit, PTL DEF Spec


-----------------------------------------------------------------------------
(***************************************************************************)
(* From where a scan began at the lookback, the blocks scanned have no gap *)
(* up to the root taken for processed.                                     *)
(*                                                                         *)
(* One assumption: finalized states are read intact.  TLC finds a          *)
(* violation when one is not (Bot_corrupt_finalized).  Nothing is assumed  *)
(* of the lookback, which slides with the clock until a cycle succeeds, of *)
(* how late finality is, or of how long an outage lasts.                   *)
(***************************************************************************)
(* The lookback slides forward only.                                       *)
SinceLookback == since <= lookbackBlock

(* The scan at start-up is the first of its process.                       *)
StartsEmpty ==
    /\ pc = "init" => caller = "onModuleInit"
    /\ caller = "onModuleInit" => lastProcessed = 0 /\ covered = {}

(* A range begins at the root processed last, or, as long as there is      *)
(* none, at the lookback of the moment.                                    *)
RangeInHand ==
    pc \in {"beacon", "fetch", "requests"} =>
        /\ lastProcessed = 0 => since <= fromBlock /\ fromBlock <= lookbackBlock
        /\ lastProcessed # 0 => fromBlock = lastProcessed

(* Slots are processed after the scan.                                     *)
ScanBeforeSlots == pc = "slots" => since..toBlock \subseteq covered

SkipInv ==
    /\ TypeOK
    /\ NoBlockSkipped
    /\ SinceLookback
    /\ StartsEmpty
    /\ RangeInHand
    /\ ScanBeforeSlots

-----------------------------------------------------------------------------
(* Nothing is scanned at first.                                            *)
LEMMA SkipInit == Init => SkipInv
<1> SUFFICES ASSUME Init PROVE SkipInv
  OBVIOUS
<1>1. TypeOK
  BY TypeInit
<1>2. lookbackBlock \in Nat
  BY <1>1, LookbackType DEF TypeOK, ChainTypeOK
<1> QED
  BY <1>1, <1>2
  DEF SkipInv, Init, ProverInit, NoBlockSkipped, SinceLookback, StartsEmpty, RangeInHand,
      ScanBeforeSlots

(* A later block has a later lookback.                                     *)
LEMMA LookbackSlides ==
    ASSUME NEW a \in Nat, NEW b \in Nat, a <= b
    PROVE  /\ (IF a - LOOKBACK >= 1 THEN a - LOOKBACK ELSE 1) \in Nat
           /\ (IF b - LOOKBACK >= 1 THEN b - LOOKBACK ELSE 1) \in Nat
           /\ (IF a - LOOKBACK >= 1 THEN a - LOOKBACK ELSE 1)
                <= (IF b - LOOKBACK >= 1 THEN b - LOOKBACK ELSE 1)
BY LookbackAssumption

(* A complete scan leaves no gap, neither in the blocks scanned nor before *)
(* the end of its range.                                                   *)
LEMMA ScanLeavesNoGap ==
    ASSUME SkipInv, pc = "requests", RangeScanned
    PROVE  /\ \A b \in covered' : since'..b \subseteq covered'
           /\ since'..toBlock \subseteq covered'
           /\ lastProcessed # 0 => since'..lastProcessed \subseteq covered'
           /\ since' <= lookbackBlock
<1>1. /\ fromBlock \in Nat /\ toBlock \in Nat /\ covered \subseteq Nat
      /\ since \in Nat /\ lastProcessed \in Nat /\ lookbackBlock \in Nat
  BY LookbackType DEF SkipInv, TypeOK, ChainTypeOK
<1>2. covered' = covered \cup fromBlock..toBlock
  BY DEF RangeScanned
<1>3. \A b \in covered : since..b \subseteq covered
  BY DEF SkipInv, NoBlockSkipped
<1>4. CASE lastProcessed = 0
  <2>1. since' = fromBlock /\ since <= fromBlock /\ fromBlock <= lookbackBlock
    BY <1>4 DEF RangeScanned, SkipInv, RangeInHand
  <2>2. ASSUME NEW b \in covered PROVE since'..b \subseteq covered'
    <3>1. since..b \subseteq covered /\ b \in Nat
      BY <1>1, <1>3
    <3> QED
      BY <1>1, <1>2, <2>1, <3>1
  <2>3. ASSUME NEW b \in fromBlock..toBlock PROVE since'..b \subseteq covered'
    BY <1>1, <1>2, <2>1
  <2>4. since'..toBlock \subseteq covered'
    BY <1>2, <2>1
  <2> QED
    BY <1>2, <1>4, <2>1, <2>2, <2>3, <2>4
<1>5. CASE lastProcessed # 0
  <2>1. since' = since /\ fromBlock = lastProcessed /\ since <= lookbackBlock
    BY <1>5 DEF RangeScanned, SkipInv, RangeInHand, SinceLookback
  <2>2. since..lastProcessed \subseteq covered
    BY <1>5 DEF SkipInv, NoBlockSkipped
  <2>3. ASSUME NEW b \in fromBlock..toBlock PROVE since'..b \subseteq covered'
    <3>1. ASSUME NEW x \in since..b, x > lastProcessed PROVE x \in fromBlock..toBlock
      BY <1>1, <2>1, <3>1
    <3>2. ASSUME NEW x \in since..b, ~(x > lastProcessed) PROVE x \in since..lastProcessed
      BY <1>1, <3>2
    <3> QED
      BY <1>2, <2>1, <2>2, <3>1, <3>2
  <2>4. since'..toBlock \subseteq covered'
    <3>1. CASE fromBlock <= toBlock
      BY <1>1, <2>3, <3>1
    <3>2. CASE ~(fromBlock <= toBlock)
      <4>1. since..toBlock \subseteq since..lastProcessed
        BY <1>1, <2>1, <3>2
      <4> QED
        BY <1>2, <2>1, <2>2, <4>1
    <3> QED
      BY <3>1, <3>2
  <2>5. \A b \in covered : since'..b \subseteq covered'
    BY <1>2, <1>3, <2>1
  <2> QED
    BY <1>2, <2>1, <2>2, <2>3, <2>4, <2>5
<1> QED
  BY <1>4, <1>5

(* A step of the chains: the lookback may slide.                           *)
LEMMA SkipEnvironment == SkipInv /\ Environment => SkipInv'
<1> SUFFICES ASSUME SkipInv, Environment PROVE SkipInv'
  OBVIOUS
<1>1. /\ TypeOK'
      /\ UNCHANGED <<pc, lastProcessed, caller, fromBlock, toBlock, covered, since>>
  BY TypeEnvironment DEF SkipInv, Environment, proverVars, daemonVars
<1>2. head \in Nat /\ head' \in Nat
  BY <1>1 DEF SkipInv, TypeOK, ChainTypeOK
<1>3. head <= head'
  BY <1>2 DEF Environment, ChainNext, NewBlock, Finalize, InitiateExit, MineLate
<1>4. /\ lookbackBlock \in Nat
      /\ lookbackBlock' \in Nat
      /\ lookbackBlock <= lookbackBlock'
  BY <1>2, <1>3, LookbackSlides DEF lookbackBlock
<1>5. since \in Nat /\ fromBlock \in Nat
  BY DEF SkipInv, TypeOK
<1>6. SinceLookback' /\ RangeInHand'
  BY <1>1, <1>4, <1>5 DEF SkipInv, SinceLookback, RangeInHand
<1> QED
  BY <1>1, <1>6 DEF SkipInv, NoBlockSkipped, StartsEmpty, ScanBeforeSlots

(* A cycle that fails keeps the root it had.                               *)
LEMMA SkipCycleFails ==
    ASSUME SkipInv, TypeOK', UNCHANGED <<head, covered, since>>, CycleFails
    PROVE  SkipInv'
BY DEF SkipInv, NoBlockSkipped, SinceLookback, lookbackBlock, StartsEmpty, RangeInHand,
       ScanBeforeSlots, CycleFails

(* A cycle that ends with its range scanned: its end becomes the root.     *)
LEMMA SkipCycleEnds ==
    ASSUME TypeOK, TypeOK', head' = head, CycleEnds,
           \A b \in covered' : since'..b \subseteq covered',
           since'..toBlock \subseteq covered',
           lastProcessed # 0 => since'..lastProcessed \subseteq covered',
           since' <= lookbackBlock
    PROVE  SkipInv'
<1>1. /\ pc' = "idle" /\ caller' = "handleBlock"
      /\ lastProcessed' \in {lastProcessed, toBlock}
  BY DEF CycleEnds
<1>2. NoBlockSkipped'
  BY <1>1 DEF NoBlockSkipped
<1> QED
  BY <1>1, <1>2
  DEF SkipInv, SinceLookback, lookbackBlock, StartsEmpty, RangeInHand, ScanBeforeSlots

(* A step within the scan that keeps the range.                            *)
LEMMA SkipWithinScan ==
    ASSUME SkipInv, TypeOK', head' = head,
           UNCHANGED <<lastProcessed, caller, fromBlock, toBlock, covered, since>>,
           pc \in {"beacon", "fetch", "requests"}, pc' \in {"beacon", "fetch", "requests"}
    PROVE  SkipInv'
BY DEF SkipInv, NoBlockSkipped, SinceLookback, lookbackBlock, StartsEmpty, RangeInHand,
       ScanBeforeSlots

(* A step in the processing of the slots.                                  *)
LEMMA SkipWithinSlots ==
    ASSUME SkipInv, TypeOK', head' = head,
           UNCHANGED <<lastProcessed, caller, fromBlock, toBlock, covered, since>>,
           pc = "slots", pc' = "slots"
    PROVE  SkipInv'
BY DEF SkipInv, NoBlockSkipped, SinceLookback, lookbackBlock, StartsEmpty, RangeInHand,
       ScanBeforeSlots

(* A step of the bot, one step of the proof per kind of action.            *)
LEMMA SkipBotStep == SkipInv /\ BotStep => SkipInv'
<1> SUFFICES ASSUME SkipInv, BotStep PROVE SkipInv'
  OBVIOUS
<1> USE DEF chainVars, locals
<1>0. TypeOK /\ TypeOK' /\ head \in Nat /\ since \in Nat /\ lookbackBlock \in Nat
  BY TypeBotStep, LookbackType DEF SkipInv, TypeOK, ChainTypeOK
<1>1. CASE InitializeStorageWithRecentEvents
  <2>1. /\ pc' = "beacon" /\ caller' = "onModuleInit" /\ fromBlock' = lookbackBlock
        /\ UNCHANGED <<head, lastProcessed, covered, since>>
        /\ lastProcessed = 0 /\ covered = {}
    BY <1>1 DEF InitializeStorageWithRecentEvents, SkipInv, StartsEmpty
  <2> QED
    BY <1>0, <2>1
    DEF SkipInv, NoBlockSkipped, SinceLookback, lookbackBlock, StartsEmpty, RangeInHand,
        ScanBeforeSlots
<1>2. CASE GetRoots
  <2>1. /\ pc' = "beacon" /\ caller' = "handleBlock" /\ fromBlock' = prevRoot
        /\ UNCHANGED <<head, lastProcessed, covered, since>>
    BY <1>2 DEF GetRoots
  <2>2. RangeInHand'
    BY <1>0, <2>1 DEF RangeInHand, prevRoot, SkipInv, SinceLookback, lookbackBlock
  <2> QED
    BY <1>0, <2>1, <2>2
    DEF SkipInv, NoBlockSkipped, SinceLookback, lookbackBlock, StartsEmpty, ScanBeforeSlots
<1>a. ASSUME BeaconState \/ FetchRequests \/ GroupRequest \/ StartSlot
             \/ CheckValidator \/ SubmitBatch
      PROVE  SkipInv'
  <2>1. UNCHANGED <<lastProcessed, caller, fromBlock, toBlock, covered, since>>
    BY <1>a DEF BeaconState, FetchRequests, GroupRequest, StartSlot, CheckValidator,
                SubmitBatch, DaemonUnchanged, daemonVars
  <2>2. CASE BeaconState \/ FetchRequests \/ GroupRequest
    <3>1. /\ head' = head
          /\ pc \in {"beacon", "fetch", "requests"}
          /\ pc' \in {"beacon", "fetch", "requests"}
      BY <2>2 DEF BeaconState, InitializeBeaconState, FetchRequests, FetchExitRequests,
                  GroupRequest, ProcessExitRequest
    <3> QED
      BY <1>0, <2>1, <3>1, SkipWithinScan
  <2>3. CASE StartSlot \/ CheckValidator \/ SubmitBatch
    <3>1. head' = head /\ pc = "slots" /\ pc' = "slots"
      BY <2>3 DEF StartSlot, ProcessDeadlineSlot, CheckValidator, ProcessValidator,
                  SubmitBatch, BatchCompleted, BatchSkipped, BatchInHand
    <3> QED
      BY <1>0, <2>1, <3>1, SkipWithinSlots
  <2> QED
    BY <1>a, <2>2, <2>3
<1>3. CASE NothingEligible
  <2>1. /\ pc = "requests" /\ RangeScanned /\ CycleEnds /\ head' = head
    BY <1>3 DEF NothingEligible
  <2>2. /\ \A b \in covered' : since'..b \subseteq covered'
        /\ since'..toBlock \subseteq covered'
        /\ lastProcessed # 0 => since'..lastProcessed \subseteq covered'
        /\ since' <= lookbackBlock
    BY <2>1, ScanLeavesNoGap
  <2> QED
    BY <1>0, <2>1, <2>2, SkipCycleEnds
<1>4. CASE SomeEligible
  <2>1. /\ pc = "requests" /\ pc' = "slots" /\ RangeScanned
        /\ UNCHANGED <<head, lastProcessed, caller, fromBlock, toBlock>>
        /\ caller = "handleBlock"
    BY <1>4 DEF SomeEligible, SelectEligible
  <2>2. /\ \A b \in covered' : since'..b \subseteq covered'
        /\ since'..toBlock \subseteq covered'
        /\ lastProcessed # 0 => since'..lastProcessed \subseteq covered'
        /\ since' <= lookbackBlock
    BY <2>1, ScanLeavesNoGap
  <2>3. NoBlockSkipped'
    BY <2>1, <2>2 DEF NoBlockSkipped
  <2> QED
    BY <1>0, <2>1, <2>2, <2>3
    DEF SkipInv, SinceLookback, lookbackBlock, StartsEmpty, RangeInHand, ScanBeforeSlots
<1>5. CASE EmulationFails
  BY <1>0, <1>5, SkipCycleFails DEF EmulationFails
<1>6. CASE Cleanup
  <2>1. /\ pc = "slots" /\ CycleEnds /\ UNCHANGED <<head, covered, since>>
    BY <1>6 DEF Cleanup
  <2>2. /\ \A b \in covered : since..b \subseteq covered
        /\ since..toBlock \subseteq covered
        /\ lastProcessed # 0 => since..lastProcessed \subseteq covered
        /\ since <= lookbackBlock
    BY <2>1 DEF SkipInv, NoBlockSkipped, ScanBeforeSlots, SinceLookback
  <2> QED
    BY <1>0, <2>1, <2>2, SkipCycleEnds
<1> QED
  BY <1>a, <1>1, <1>2, <1>3, <1>4, <1>5, <1>6 DEF BotStep

(* A failure: the cycle stores no root, and a restart begins from nothing. *)
LEMMA SkipFailure ==
    ASSUME "corrupt_finalized" \notin Faults, SkipInv, Failure
    PROVE  SkipInv'
<1>0. TypeOK' /\ ~BeaconStateCorrupt
  BY TypeFailure DEF SkipInv, BeaconStateCorrupt, Fault
<1>1. CASE Crash
  <2>1. /\ pc' = "init" /\ caller' = "onModuleInit" /\ lastProcessed' = 0
        /\ covered' = {} /\ since' = 0
    BY <1>1 DEF Crash
  <2>2. lookbackBlock' \in Nat
    <3>1. head' \in Nat
      BY <1>0 DEF TypeOK, ChainTypeOK
    <3> QED
      BY <3>1, LookbackSlides DEF lookbackBlock
  <2> QED
    BY <1>0, <2>1, <2>2
    DEF SkipInv, NoBlockSkipped, SinceLookback, StartsEmpty, RangeInHand, ScanBeforeSlots
<1>2. CASE SubmissionTimesOut \/ CallFails
  BY <1>0, <1>2, SkipCycleFails DEF SubmissionTimesOut, CallFails, chainVars
<1> QED
  BY <1>0, <1>1, <1>2 DEF Failure

(* Failed cycles, timeouts, transactions without effect and restarts leave *)
(* no gap between where the last scan from the lookback began and the root *)
(* taken for processed, for every lookback, however it slides:             *)
(* RootsProcessor.process stores a root only after handleBlock returned.   *)
THEOREM NothingSkipped ==
    ASSUME "corrupt_finalized" \notin Faults
    PROVE  Spec => []NoBlockSkipped
<1>1. SkipInv /\ [Next]_vars => SkipInv'
  <2>1. SkipInv /\ UNCHANGED vars => SkipInv'
    BY TypeStuttering
    DEF SkipInv, NoBlockSkipped, SinceLookback, lookbackBlock, StartsEmpty, RangeInHand,
        ScanBeforeSlots, vars, chainVars, proverVars, daemonVars
  <2> QED
    BY <2>1, SkipEnvironment, SkipBotStep, SkipFailure DEF Next
<1>2. SkipInv => NoBlockSkipped
  BY DEF SkipInv
<1> QED
  BY <1>1, <1>2, SkipInit, PTL DEF Spec

-----------------------------------------------------------------------------
(***************************************************************************)
(* No validator is reported that was not late, for every set of requests   *)
(* and validators and in spite of every kind and number of failures.       *)
(*                                                                         *)
(* A transaction is built from witnesses, these from the validators of a   *)
(* stored group, and the group was stored when the request was read: the   *)
(* invariant follows the validator back along that way.  What was true     *)
(* when the deadline state was read must still be true when the            *)
(* transaction is mined, perhaps cycles later: a deadline slot in hand is  *)
(* finalized, so no exit initiated afterwards can change its verdict.      *)
(***************************************************************************)
(* Some delivered request asks v to exit by deadline slot s. *)
Requested(v, s) ==
    \E r \in Requests : /\ deliveredAt[r] > 0
                        /\ v \in pubkeys(decodeValidatorsData(r))
                        /\ ExitDeadlineSlot(r, v) = s

ClockInv ==
    /\ finalized < head
    /\ currentSlot <= finalized
    /\ \A s \in eligible : s <= finalized
    /\ slot <= finalized

PendingDelivered == \A r \in pending : deliveredAt[r] > 0

StoredRequested ==
    \A g \in storage : \A e \in g.validators : Requested(e.pubkey, g.deadlineSlot)

HandRequested == \A e \in unchecked \cup witnesses : Requested(e.pubkey, slot)

WitnessesLate == \A e \in witnesses : ~TimelyExit(e.pubkey, slot)

JustInv ==
    /\ TypeOK
    /\ ClockInv
    /\ PendingDelivered
    /\ StoredRequested
    /\ HandRequested
    /\ WitnessesLate
    /\ NoUnjustReport

-----------------------------------------------------------------------------
(* A witness names a validator that is late. *)
LEMMA WitnessIsLate ==
    ASSUME JustInv, NEW e \in witnesses
    PROVE  \E r \in Requests : Late(r, e.pubkey)
<1>1. PICK r \in Requests : /\ deliveredAt[r] > 0
                            /\ e.pubkey \in pubkeys(decodeValidatorsData(r))
                            /\ ExitDeadlineSlot(r, e.pubkey) = slot
  BY DEF JustInv, HandRequested, Requested
<1>2. slot <= finalized /\ ~TimelyExit(e.pubkey, slot)
  BY DEF JustInv, ClockInv, WitnessesLate
<1> QED
  BY <1>1, <1>2 DEF Late

(* What the chains leave as it is: requests delivered, and the verdict on  *)
(* a finalized deadline.                                                   *)
LEMMA RequestedStable ==
    ASSUME TypeOK, ChainNext \/ UNCHANGED <<deliveredAt>>,
           NEW v, NEW s, Requested(v, s)
    PROVE  Requested(v, s)'
<1>1. PICK r \in Requests : /\ deliveredAt[r] > 0
                            /\ v \in pubkeys(decodeValidatorsData(r))
                            /\ ExitDeadlineSlot(r, v) = s
  BY DEF Requested
<1>2. deliveredAt'[r] = deliveredAt[r]
  <2>1. ASSUME NEW R \in SUBSET Requests, NewBlock(R) PROVE deliveredAt'[r] = deliveredAt[r]
    BY <1>1, <2>1 DEF NewBlock
  <2> QED
    BY <2>1 DEF ChainNext, Finalize, InitiateExit, MineLate
<1> QED
  BY <1>1, <1>2 DEF Requested, ExitDeadlineSlot, pubkeys, decodeValidatorsData

(* Who is late stays late. *)
LEMMA LateStable ==
    ASSUME TypeOK, finalized < head, ChainNext, NEW r \in Requests, NEW v, Late(r, v)
    PROVE  Late(r, v)'
<1>1. v \in Validators
  BY DecodedType, PubkeysType DEF Late
<1>2. deliveredAt'[r] = deliveredAt[r]
  <2>1. ASSUME NEW R \in SUBSET Requests, NewBlock(R) PROVE deliveredAt'[r] = deliveredAt[r]
    BY <2>1 DEF NewBlock, Late
  <2> QED
    BY <2>1 DEF ChainNext, Finalize, InitiateExit, MineLate
<1> DEFINE s == ExitDeadlineSlot(r, v)
<1>3. s \in Int /\ s' = s
  BY <1>1, <1>2, DeadlineIsInt DEF TypeOK, ChainTypeOK, ExitDeadlineSlot
<1>4. s <= finalized /\ ~TimelyExit(v, s)
  BY DEF Late
<1>5. s <= finalized'
  BY <1>3, <1>4, ClockTick DEF TypeOK, ChainTypeOK
<1>6. ~TimelyExit(v, s)'
  <2> HIDE DEF s
  <2> QED
    BY <1>1, <1>3, <1>4, VerdictStable DEF TypeOK
<1> QED
  BY <1>2, <1>3, <1>5, <1>6 DEF Late, pubkeys, decodeValidatorsData

-----------------------------------------------------------------------------
(* Nobody is in hand at first. *)
LEMMA JustInit == Init => JustInv
<1> SUFFICES ASSUME Init PROVE JustInv
  OBVIOUS
<1>1. TypeOK
  BY TypeInit
<1>2. ClockInv
  BY ChainAssumption DEF Init, ChainInit, ProverInit, ClockInv
<1>3. PendingDelivered /\ StoredRequested /\ HandRequested /\ WitnessesLate
  BY DEF Init, ProverInit, PendingDelivered, StoredRequested, HandRequested, WitnessesLate
<1>4. NoUnjustReport
  BY DEF Init, ChainInit, NoUnjustReport
<1> QED
  BY <1>1, <1>2, <1>3, <1>4 DEF JustInv

(* The chains move between two awaits of the bot. *)
LEMMA JustEnvironment == JustInv /\ Environment => JustInv'
<1> SUFFICES ASSUME JustInv, Environment PROVE JustInv'
  OBVIOUS
<1>0. TypeOK /\ ChainTypeOK /\ finalized < head /\ ChainNext /\ TypeOK'
  BY TypeEnvironment DEF JustInv, ClockInv, Environment, TypeOK
<1>1. UNCHANGED <<storage, currentSlot, pending, eligible, slot, unchecked, witnesses>>
  BY DEF Environment, proverVars, locals
<1>2. /\ currentSlot \in Int /\ slot \in Int /\ eligible \subseteq Int /\ finalized \in Int
      /\ unchecked \subseteq Entry /\ witnesses \subseteq Entry
  BY <1>0 DEF TypeOK, ProverTypeOK, ChainTypeOK
<1>3. ClockInv'
  <2>1. finalized <= finalized' /\ finalized' < head' /\ finalized' \in Int
    BY <1>0, ClockTick
  <2> QED
    BY <1>1, <1>2, <2>1 DEF JustInv, ClockInv
<1>4. PendingDelivered'
  <2>1. ASSUME NEW r \in Requests, deliveredAt[r] > 0 PROVE deliveredAt'[r] > 0
    <3>1. ASSUME NEW R \in SUBSET Requests, NewBlock(R) PROVE deliveredAt'[r] > 0
      BY <2>1, <3>1 DEF NewBlock
    <3> QED
      BY <1>0, <2>1, <3>1 DEF ChainNext, Finalize, InitiateExit, MineLate
  <2> QED
    BY <1>0, <1>1, <2>1 DEF JustInv, PendingDelivered, TypeOK, ProverTypeOK
<1>5. StoredRequested' /\ HandRequested'
  BY <1>0, <1>1, RequestedStable DEF JustInv, StoredRequested, HandRequested
<1>6. WitnessesLate'
  <2> SUFFICES ASSUME NEW e \in witnesses PROVE ~TimelyExit(e.pubkey, slot)'
    BY <1>1 DEF WitnessesLate, TimelyExit
  <2>1. e.pubkey \in Validators /\ slot <= finalized /\ ~TimelyExit(e.pubkey, slot)
    BY <1>2 DEF JustInv, WitnessesLate, ClockInv, Entry
  <2> QED
    BY <1>0, <1>1, <1>2, <2>1, VerdictStable
<1>7. NoUnjustReport'
  <2> SUFFICES ASSUME NEW v \in settled' \cup UNION mempool'
               PROVE  \E r \in Requests : Late(r, v)'
    BY DEF NoUnjustReport
  <2>1. v \in settled \cup UNION mempool
    BY <1>0 DEF ChainNext, NewBlock, Finalize, InitiateExit, MineLate
  <2>2. PICK r \in Requests : Late(r, v)
    BY <2>1 DEF JustInv, NoUnjustReport
  <2> QED
    BY <1>0, <2>2, LateStable
<1> QED
  BY <1>0, <1>3, <1>4, <1>5, <1>6, <1>7 DEF JustInv

(* The steps of the bot read the chains; they change at most what is       *)
(* settled and the mempool.                                                *)
ChainsStill == UNCHANGED <<head, finalized, deliveredAt, exitAt>>

(* The bot's own steps leave the chains alone but for its transactions. *)
LEMMA ChainsStillStep ==
    ASSUME BotStep \/ Failure PROVE ChainsStill
BY DEF BotStep, Failure, ChainsStill, chainVars, InitializeStorageWithRecentEvents,
       GetRoots, BeaconState, InitializeBeaconState, FetchRequests, FetchExitRequests,
       GroupRequest, ProcessExitRequest, NothingEligible, SomeEligible, SelectEligible,
       StartSlot, ProcessDeadlineSlot, CheckValidator, ProcessValidator, SubmitBatch,
       BatchCompleted, BatchSkipped, EmulationFails, Cleanup, BeaconStateCorrupt,
       SubmissionTimesOut, CallFails, Crash

(* When the chains stand still, requests, verdicts and lateness do. *)
LEMMA StillRequested ==
    ASSUME ChainsStill, NEW v, NEW s
    PROVE  /\ Requested(v, s)' <=> Requested(v, s)
           /\ TimelyExit(v, s)' <=> TimelyExit(v, s)
           /\ \A r \in Requests : Late(r, v)' <=> Late(r, v)
BY DEF ChainsStill, Requested, ExitDeadlineSlot, TimelyExit, ExitEpochBelow, ExitEpochSet, Late,
       pubkeys, decodeValidatorsData

(* No transaction, no new accusation. *)
LEMMA NoUnjustReportStill ==
    ASSUME NoUnjustReport, ChainsStill, UNCHANGED <<settled, mempool>>
    PROVE  NoUnjustReport'
BY StillRequested DEF NoUnjustReport

(* What is left when a cycle is over.                                      *)
LEMMA JustCycleOver ==
    ASSUME JustInv, ChainsStill, ResetLocals
    PROVE  ClockInv' /\ PendingDelivered' /\ HandRequested' /\ WitnessesLate'
<1>1. finalized \in Nat
  BY DEF JustInv, TypeOK, ChainTypeOK
<1> QED
  BY <1>1 DEF JustInv, ClockInv, ChainsStill, ResetLocals, PendingDelivered,
              HandRequested, WitnessesLate

(* A storage that loses groups has lost no reason for the others. *)
LEMMA StoredRequestedStill ==
    ASSUME JustInv, ChainsStill, storage' \subseteq storage
    PROVE  StoredRequested'
BY StillRequested DEF JustInv, StoredRequested

(* A step of the bot, one step of the proof per action. *)
LEMMA JustBotStep == JustInv /\ BotStep => JustInv'
<1> SUFFICES ASSUME JustInv, BotStep PROVE JustInv'
  OBVIOUS
<1> USE DEF locals, chainVars
<1>0. TypeOK /\ TypeOK' /\ ChainsStill
  BY TypeBotStep, ChainsStillStep DEF JustInv
<1>a. /\ finalized \in Nat /\ currentSlot \in Nat /\ slot \in Int
      /\ eligible \subseteq Int /\ todo \subseteq eligible /\ pending \subseteq Requests
      /\ unchecked \subseteq Entry /\ witnesses \subseteq Entry
  BY <1>0 DEF TypeOK, ChainTypeOK, ProverTypeOK
<1>b. ASSUME UNCHANGED <<storage, settled, mempool, currentSlot, pending, eligible, slot,
                         unchecked, witnesses>>
      PROVE  JustInv'
  <2>1. ClockInv' /\ PendingDelivered'
    BY <1>0, <1>b DEF JustInv, ClockInv, PendingDelivered, ChainsStill
  <2>2. StoredRequested' /\ HandRequested' /\ WitnessesLate'
    BY <1>0, <1>b, StillRequested DEF JustInv, StoredRequested, HandRequested, WitnessesLate
  <2> QED
    BY <1>0, <1>b, <2>1, <2>2, NoUnjustReportStill DEF JustInv
<1>1. CASE InitializeStorageWithRecentEvents
  BY <1>1, <1>b DEF InitializeStorageWithRecentEvents
<1>2. CASE GetRoots
  BY <1>2, <1>b DEF GetRoots
<1>3. CASE BeaconState
  <2>1. /\ UNCHANGED <<storage, settled, mempool, pending, eligible, slot, unchecked, witnesses>>
        /\ currentSlot' = finalized
    BY <1>3 DEF BeaconState, InitializeBeaconState
  <2>2. ClockInv' /\ PendingDelivered'
    BY <1>0, <1>a, <2>1 DEF JustInv, ClockInv, PendingDelivered, ChainsStill
  <2>3. StoredRequested' /\ HandRequested' /\ WitnessesLate'
    BY <1>0, <2>1, StillRequested DEF JustInv, StoredRequested, HandRequested, WitnessesLate
  <2> QED
    BY <1>0, <2>1, <2>2, <2>3, NoUnjustReportStill DEF JustInv
<1>4. CASE FetchRequests
  <2>1. /\ UNCHANGED <<storage, settled, mempool, currentSlot, eligible, slot, unchecked, witnesses>>
        /\ pending' \subseteq {r \in Requests : deliveredAt[r] > 0}
    BY <1>4 DEF FetchRequests, FetchExitRequests, ExitRequestsInBlocks
  <2>2. ClockInv' /\ PendingDelivered'
    BY <1>0, <2>1 DEF JustInv, ClockInv, PendingDelivered, ChainsStill
  <2>3. StoredRequested' /\ HandRequested' /\ WitnessesLate'
    BY <1>0, <2>1, StillRequested DEF JustInv, StoredRequested, HandRequested, WitnessesLate
  <2> QED
    BY <1>0, <2>1, <2>2, <2>3, NoUnjustReportStill DEF JustInv
<1>5. CASE GroupRequest
  <2>1. PICK r \in pending : ProcessExitRequest(r)
    BY <1>5 DEF GroupRequest
  <2>2. /\ UNCHANGED <<settled, mempool, currentSlot, eligible, slot, unchecked, witnesses>>
        /\ pending' \subseteq pending
        /\ storage' = storage \cup groupValidatorsByDeadlineSlot(r)
    BY <2>1 DEF ProcessExitRequest
  <2>3. ClockInv' /\ PendingDelivered'
    BY <1>0, <2>2 DEF JustInv, ClockInv, PendingDelivered, ChainsStill
  <2>4. HandRequested' /\ WitnessesLate'
    BY <1>0, <2>2, StillRequested DEF JustInv, HandRequested, WitnessesLate
  <2>5. StoredRequested'
    <3>1. ASSUME NEW g \in groupValidatorsByDeadlineSlot(r), NEW e \in g.validators
          PROVE  Requested(e.pubkey, g.deadlineSlot)
      <4>1. r \in Requests /\ deliveredAt[r] > 0
        BY <1>a DEF JustInv, PendingDelivered
      <4>2. e \in decodeValidatorsData(r) /\ ExitDeadlineSlot(r, e.pubkey) = g.deadlineSlot
        BY <3>1 DEF groupValidatorsByDeadlineSlot
      <4> QED
        BY <4>1, <4>2 DEF Requested, pubkeys
    <3> QED
      BY <1>0, <2>2, <3>1, StillRequested DEF JustInv, StoredRequested
  <2> QED
    BY <1>0, <2>2, <2>3, <2>4, <2>5, NoUnjustReportStill DEF JustInv
<1>6. CASE NothingEligible
  <2>1. ResetLocals /\ UNCHANGED <<storage, settled, mempool>>
    BY <1>6 DEF NothingEligible, CycleEnds
  <2> QED
    BY <1>0, <2>1, JustCycleOver, StoredRequestedStill, NoUnjustReportStill DEF JustInv
<1>7. CASE SomeEligible
  <2>1. /\ UNCHANGED <<storage, settled, mempool, currentSlot, pending, slot, unchecked, witnesses>>
        /\ eligible' = EligibleSlots
    BY <1>7 DEF SomeEligible, SelectEligible
  <2>2. \A s \in EligibleSlots : s <= finalized
    <3>1. storage \subseteq Group
      BY <1>0 DEF TypeOK, ProverTypeOK
    <3> QED
      BY <1>a, <3>1 DEF EligibleSlots, JustInv, ClockInv, Group
  <2>3. ClockInv' /\ PendingDelivered'
    BY <1>0, <2>1, <2>2 DEF JustInv, ClockInv, PendingDelivered, ChainsStill
  <2>4. StoredRequested' /\ HandRequested' /\ WitnessesLate'
    BY <1>0, <2>1, StillRequested DEF JustInv, StoredRequested, HandRequested, WitnessesLate
  <2> QED
    BY <1>0, <2>1, <2>3, <2>4, NoUnjustReportStill DEF JustInv
<1>8. CASE StartSlot
  <2>1. PICK s \in todo : ProcessDeadlineSlot(s)
    BY <1>8 DEF StartSlot
  <2>2. /\ UNCHANGED <<storage, settled, mempool, currentSlot, pending, eligible>>
        /\ slot' = s /\ witnesses' = {} /\ unchecked' \subseteq allValidators(s)
    BY <2>1 DEF ProcessDeadlineSlot, SlotInHand
  <2>3. ClockInv' /\ PendingDelivered'
    BY <1>0, <1>a, <2>2 DEF JustInv, ClockInv, PendingDelivered, ChainsStill
  <2>4. HandRequested'
    <3>1. \A e \in allValidators(s) : Requested(e.pubkey, s)
      BY DEF allValidators, groupDataArray, JustInv, StoredRequested
    <3> QED
      BY <1>0, <2>2, <3>1, StillRequested DEF HandRequested
  <2>5. StoredRequested' /\ WitnessesLate'
    BY <1>0, <2>2, StillRequested DEF JustInv, StoredRequested, WitnessesLate
  <2> QED
    BY <1>0, <2>2, <2>3, <2>4, <2>5, NoUnjustReportStill DEF JustInv
<1>9. CASE CheckValidator
  <2>1. PICK e \in unchecked : ProcessValidator(e)
    BY <1>9 DEF CheckValidator
  <2>2. /\ UNCHANGED <<storage, settled, mempool, currentSlot, pending, eligible, slot>>
        /\ unchecked' \subseteq unchecked
        /\ \/ witnesses' = witnesses
           \/ witnesses' = witnesses \cup {e} /\ ~AlreadyExited(e.pubkey)
    BY <2>1 DEF ProcessValidator
  <2>3. ClockInv' /\ PendingDelivered'
    BY <1>0, <2>2 DEF JustInv, ClockInv, PendingDelivered, ChainsStill
  <2>4. StoredRequested' /\ HandRequested'
    BY <1>0, <2>1, <2>2, StillRequested DEF JustInv, StoredRequested, HandRequested
  <2>5. WitnessesLate'
    <3>1. \A w \in witnesses' : ~TimelyExit(w.pubkey, slot)
      BY <2>2 DEF JustInv, WitnessesLate, AlreadyExited, TimelyExit
    <3> QED
      BY <1>0, <2>2, <3>1, StillRequested DEF WitnessesLate
  <2> QED
    BY <1>0, <2>2, <2>3, <2>4, <2>5, NoUnjustReportStill DEF JustInv
<1>10. CASE SubmitBatch
  <2>1. PICK batch \in createValidatorBatches : BatchCompleted(batch) \/ BatchSkipped(batch)
    BY <1>10 DEF SubmitBatch
  <2>2. /\ UNCHANGED <<storage, mempool, currentSlot, pending, eligible, slot, unchecked>>
        /\ witnesses' \subseteq witnesses
        /\ settled' \subseteq settled \cup pubkeys(witnesses)
    BY <2>1, BatchType DEF BatchCompleted, BatchSkipped, pubkeys
  <2>3. ClockInv' /\ PendingDelivered'
    BY <1>0, <2>2 DEF JustInv, ClockInv, PendingDelivered, ChainsStill
  <2>4. StoredRequested' /\ HandRequested' /\ WitnessesLate'
    BY <1>0, <2>2, StillRequested DEF JustInv, StoredRequested, HandRequested, WitnessesLate
  <2>5. NoUnjustReport'
    BY <1>0, <2>2, WitnessIsLate, StillRequested DEF JustInv, NoUnjustReport, pubkeys
  <2> QED
    BY <1>0, <2>3, <2>4, <2>5 DEF JustInv
<1>11. CASE EmulationFails
  <2>1. ResetLocals /\ UNCHANGED <<storage, settled, mempool>>
    BY <1>11 DEF EmulationFails, CycleFails
  <2> QED
    BY <1>0, <2>1, JustCycleOver, StoredRequestedStill, NoUnjustReportStill DEF JustInv
<1>12. CASE Cleanup
  <2>1. ResetLocals /\ UNCHANGED <<settled, mempool>> /\ storage' = cleanupProcessedEntries
    BY <1>12 DEF Cleanup, CycleEnds
  <2>2. StoredRequested'
    <3>1. ASSUME NEW g \in cleanupProcessedEntries, NEW e \in g.validators
          PROVE  Requested(e.pubkey, g.deadlineSlot)
      <4>1. CASE g \in storage
        BY <3>1, <4>1 DEF JustInv, StoredRequested
      <4>2. CASE g \notin storage
        <5>1. PICK h \in storage : g = [h EXCEPT !.validators = remainingForThisGroup(h)]
          BY <3>1, <4>2 DEF cleanupProcessedEntries
        <5>2. h \in Group
          BY <1>0 DEF TypeOK, ProverTypeOK
        <5>3. g.deadlineSlot = h.deadlineSlot /\ g.validators = remainingForThisGroup(h)
          BY <5>1, <5>2 DEF Group
        <5>4. e \in allValidators(h.deadlineSlot)
          BY <3>1, <5>3 DEF remainingForThisGroup, remainingValidators
        <5> QED
          BY <5>3, <5>4 DEF allValidators, groupDataArray, JustInv, StoredRequested
      <4> QED
        BY <4>1, <4>2
    <3> QED
      BY <1>0, <2>1, <3>1, StillRequested DEF StoredRequested
  <2> QED
    BY <1>0, <2>1, <2>2, JustCycleOver, NoUnjustReportStill DEF JustInv
<1> QED
  BY <1>1, <1>2, <1>3, <1>4, <1>5, <1>6, <1>7, <1>8, <1>9, <1>10, <1>11, <1>12
  DEF BotStep

(* A failure, with a transaction that may be mined later. *)
LEMMA JustFailure == JustInv /\ Failure => JustInv'
<1> SUFFICES ASSUME JustInv, Failure PROVE JustInv'
  OBVIOUS
<1>0. TypeOK' /\ ChainsStill
  BY TypeFailure, ChainsStillStep DEF JustInv
<1>1. ResetLocals /\ settled' = settled /\ (storage' = storage \/ storage' = {})
  BY DEF Failure, BeaconStateCorrupt, SubmissionTimesOut, CallFails, Crash,
         CycleEnds, CycleFails, chainVars
<1>2. UNION mempool' \subseteq (UNION mempool) \cup pubkeys(witnesses)
  <2>1. CASE SubmissionTimesOut
    <3>1. PICK batch \in createValidatorBatches : mempool' = mempool \cup {pubkeys(batch)}
      BY <2>1 DEF SubmissionTimesOut
    <3> QED
      BY <3>1, BatchType DEF pubkeys
  <2>2. CASE mempool' = mempool
    BY <2>2
  <2> QED
    BY <2>1, <2>2 DEF Failure, BeaconStateCorrupt, CallFails, Crash, chainVars
<1>3. NoUnjustReport'
  BY <1>0, <1>1, <1>2, WitnessIsLate, StillRequested DEF JustInv, NoUnjustReport, pubkeys
<1> QED
  BY <1>0, <1>1, <1>3, JustCycleOver, StoredRequestedStill DEF JustInv

(* Whatever fails, however often, and whenever a late transaction is       *)
(* mined: a validator the bot reported was late on a delivered request.    *)
THEOREM NobodyReportedUnjustly == Spec => []NoUnjustReport
<1>1. JustInv /\ [Next]_vars => JustInv'
  <2> SUFFICES ASSUME JustInv, UNCHANGED vars PROVE JustInv'
    BY JustEnvironment, JustBotStep, JustFailure DEF Next
  <2>1. TypeOK' /\ ChainsStill
    BY TypeStuttering DEF JustInv, vars, chainVars, ChainsStill
  <2>2. UNCHANGED <<storage, settled, mempool, currentSlot, pending, eligible, slot,
                    unchecked, witnesses>>
    BY DEF vars, chainVars, proverVars, locals
  <2>3. ClockInv' /\ PendingDelivered'
    BY <2>1, <2>2 DEF JustInv, ClockInv, PendingDelivered, ChainsStill
  <2>4. StoredRequested' /\ HandRequested' /\ WitnessesLate'
    BY <2>1, <2>2, StillRequested DEF JustInv, StoredRequested, HandRequested, WitnessesLate
  <2> QED
    BY <2>1, <2>2, <2>3, <2>4, NoUnjustReportStill DEF JustInv
<1>2. JustInv => NoUnjustReport
  BY DEF JustInv
<1> QED
  BY <1>1, <1>2, JustInit, PTL DEF Spec


=============================================================================
