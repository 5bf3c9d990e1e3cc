----------------------------- MODULE LateProverBot ----------------------------
(***************************************************************************)
(* The bot: start-up, the daemon loop, the roots it has processed, and the *)
(* prover it drives, over the chains.  There is one thread; between two of *)
(* its steps the chains move, and a call it awaits may fail.               *)
(***************************************************************************)
EXTENDS Prover

ASSUME LookbackAssumption == LOOKBACK \in Nat \ {0}

VARIABLES
    lastProcessed,  \* slot of LastProcessedRoot, 0 when there is none
    caller,         \* who scans: "onModuleInit" or "handleBlock"
    fromBlock, toBlock,  \* the range handleBlock was called with
    covered,        \* history: the blocks scanned since the process started
    since           \* history: where the last scan that began at the
                    \* lookback began, of those that were completed

daemonVars == <<lastProcessed, caller, fromBlock, toBlock, covered, since>>
vars == <<chainVars, proverVars, daemonVars>>

(* The block START_LOOKBACK_DAYS ago. *)
lookbackBlock == IF head - LOOKBACK >= 1 THEN head - LOOKBACK ELSE 1

-----------------------------------------------------------------------------
Init ==
    /\ ChainInit
    /\ ProverInit
    /\ lastProcessed = 0
    /\ caller = "onModuleInit"
    /\ fromBlock = 0
    /\ toBlock = 0
    /\ covered = {}
    /\ since = 0

(* The chains and late transactions. *)
Environment == ChainNext /\ UNCHANGED <<proverVars, daemonVars>>

(* onModuleInit: scan up to the head, finalized or not. *)
InitializeStorageWithRecentEvents ==
    /\ pc = "init"
    /\ pc' = "beacon"
    /\ caller' = "onModuleInit"
    /\ fromBlock' = lookbackBlock
    /\ toBlock' = head
    /\ UNCHANGED <<chainVars, storage, reported, locals, faults,
                   lastProcessed, covered, since>>

(* Mutant of prevRoot: without a last processed root, begin at the newest. *)
prevRootWithoutLookback == IF lastProcessed # 0 THEN lastProcessed ELSE finalized

(* baseRun: getRoots, and the range between the two roots when they        *)
(* differ.  When they are equal the daemon sleeps.                         *)
prevRoot == IF lastProcessed # 0 THEN lastProcessed ELSE lookbackBlock

GetRoots ==
    /\ pc = "idle"
    /\ prevRoot # finalized
    /\ pc' = "beacon"
    /\ caller' = "handleBlock"
    /\ fromBlock' = prevRoot
    /\ toBlock' = finalized
    /\ UNCHANGED <<chainVars, storage, reported, locals, faults,
                   lastProcessed, covered, since>>

(* The end of a cycle: handleBlock returned, so RootsProcessor.process     *)
(* stores the root it was given as the last processed one.  The scan at    *)
(* start-up stores none.                                                   *)
CycleEnds ==
    /\ pc' = "idle"
    /\ ResetLocals
    /\ fromBlock' = 0
    /\ toBlock' = 0
    /\ caller' = "handleBlock"
    /\ lastProcessed' = IF caller = "onModuleInit" THEN lastProcessed ELSE toBlock

(* Mutant of CycleFails: the root is stored all the same. *)
CycleFailsStoring ==
    /\ pc' = "idle"
    /\ ResetLocals
    /\ fromBlock' = 0
    /\ toBlock' = 0
    /\ caller' = "handleBlock"
    /\ lastProcessed' = IF caller = "onModuleInit" THEN lastProcessed ELSE toBlock

(* The end of a cycle in which a call failed: the error reaches the daemon *)
(* loop, which sleeps and starts again from the same root.                 *)
CycleFails ==
    /\ pc' = "idle"
    /\ ResetLocals
    /\ fromBlock' = 0
    /\ toBlock' = 0
    /\ caller' = "handleBlock"
    /\ UNCHANGED lastProcessed

DaemonUnchanged == UNCHANGED daemonVars

BeaconState == InitializeBeaconState /\ DaemonUnchanged

(* The finalized state does not deserialize: handleBlock returns early.    *)
BeaconStateCorrupt ==
    /\ pc = "beacon"
    /\ Fault("corrupt_finalized")
    /\ CycleEnds
    /\ UNCHANGED <<chainVars, storage, reported, covered, since>>

FetchRequests == FetchExitRequests(fromBlock, toBlock) /\ DaemonUnchanged

GroupRequest == (\E r \in pending : ProcessExitRequest(r)) /\ DaemonUnchanged

(* The history of a scan that was completed: the range is covered, and if  *)
(* no root was processed yet, the range began at the lookback.             *)
RangeScanned ==
    /\ covered' = covered \cup fromBlock..toBlock
    /\ since' = IF lastProcessed = 0 THEN fromBlock ELSE since

(* The scan is over and no stored deadline has passed, or this was the     *)
(* scan at start-up.                                                       *)
NothingEligible ==
    /\ pc = "requests"
    /\ pending = {}
    /\ caller = "onModuleInit" \/ EligibleSlots = {}
    /\ CycleEnds
    /\ RangeScanned
    /\ UNCHANGED <<chainVars, storage, reported, faults>>

SomeEligible ==
    /\ caller = "handleBlock"
    /\ SelectEligible
    /\ RangeScanned
    /\ UNCHANGED <<lastProcessed, caller, fromBlock, toBlock>>

StartSlot == (\E s \in todo : ProcessDeadlineSlot(s)) /\ DaemonUnchanged

CheckValidator == (\E e \in unchecked : ProcessValidator(e)) /\ DaemonUnchanged

SubmitBatch ==
    /\ \E batch \in createValidatorBatches : BatchCompleted(batch) \/ BatchSkipped(batch)
    /\ DaemonUnchanged

(* The emulated call reverts: execute throws, and so do its callers.       *)
EmulationFails ==
    /\ \E batch \in createValidatorBatches :
        BatchInHand(batch) /\ EmulationReverts(payload, batch, slot + 1)
    /\ CycleFails
    /\ UNCHANGED <<chainVars, storage, reported, faults, covered, since>>

(* The transaction was sent, and not mined before                          *)
(* TX_MINING_WAITING_TIMEOUT_MS: execute throws, the transaction lives on. *)
SubmissionTimesOut ==
    /\ \E batch \in createValidatorBatches :
        /\ BatchInHand(batch)
        /\ EmulationSucceeds(payload, batch)
        /\ mempool' = mempool \cup {pubkeys(batch)}
    /\ Fault("timeout")
    /\ CycleFails
    /\ UNCHANGED <<head, finalized, deliveredAt, exitAt, settled, storage, reported,
                   covered, since>>

Cleanup ==
    /\ pc = "slots"
    /\ ~SlotInHand
    /\ todo = {}
    /\ storage' = cleanupProcessedEntries
    /\ CycleEnds
    /\ UNCHANGED <<chainVars, reported, faults, covered, since>>

(* Any other awaited call fails: a request to a node, a state that cannot  *)
(* be fetched, a transaction that is not sent.                             *)
CallFails ==
    /\ pc \in {"beacon", "fetch", "requests", "slots"}
    /\ Fault("rpc")
    /\ CycleFails
    /\ UNCHANGED <<chainVars, storage, reported, covered, since>>

(* The process dies and is started again: it keeps its state in memory.    *)
(* A failed balanceOf does this too, since run awaits it outside its try.  *)
Crash ==
    /\ Fault("crash")
    /\ pc' = "init"
    /\ storage' = {}
    /\ reported' = {}
    /\ lastProcessed' = 0
    /\ caller' = "onModuleInit"
    /\ fromBlock' = 0
    /\ toBlock' = 0
    /\ covered' = {}
    /\ since' = 0
    /\ ResetLocals
    /\ UNCHANGED chainVars

BotStep ==
    \/ InitializeStorageWithRecentEvents
    \/ GetRoots
    \/ BeaconState
    \/ FetchRequests
    \/ GroupRequest
    \/ NothingEligible
    \/ SomeEligible
    \/ StartSlot
    \/ CheckValidator
    \/ SubmitBatch
    \/ EmulationFails
    \/ Cleanup

Failure ==
    \/ BeaconStateCorrupt
    \/ SubmissionTimesOut
    \/ CallFails
    \/ Crash

Next == Environment \/ BotStep \/ Failure

Spec == Init /\ [][Next]_vars

(* The chains go on, and the bot's thread is never blocked for ever: each  *)
(* sleep ends and each await returns or throws.                            *)
Fairness ==
    /\ WF_vars(Environment /\ head' > head)
    /\ WF_vars(Environment /\ finalized' > finalized)
    /\ WF_vars(BotStep)

FairSpec == Spec /\ Fairness

-----------------------------------------------------------------------------
(* Properties *)

(* Every variable has its type. *)
TypeOK ==
    /\ ChainTypeOK
    /\ ProverTypeOK
    /\ lastProcessed \in Nat
    /\ caller \in {"onModuleInit", "handleBlock"}
    /\ fromBlock \in Nat
    /\ toBlock \in Nat
    /\ covered \subseteq Nat
    /\ since \in Nat

StoredPubkeys == UNION {pubkeys(g.validators) : g \in storage}

(* A pubkey the bot remembers as reported is still in its storage: the two *)
(* collections cannot drift apart, whatever fails in the middle of a cycle.*)
(* Otherwise it would stay in reportedValidatorPubkeys for ever and a      *)
(* later exit request for it would never be cleaned.                       *)
ReportedStaysStored == reported \subseteq StoredPubkeys

(* v is late on request r: the deadline has been finalized and passed      *)
(* without v having exited in time.                                        *)
Late(r, v) ==
    /\ deliveredAt[r] > 0
    /\ v \in pubkeys(decodeValidatorsData(r))
    /\ ExitDeadlineSlot(r, v) <= finalized
    /\ ~TimelyExit(v, ExitDeadlineSlot(r, v))

(* Nobody is accused unjustly: a validator named in a transaction the bot  *)
(* sent, mined or not, was late on some exit request.                      *)
NoUnjustReport ==
    \A v \in settled \cup UNION mempool : \E r \in Requests : Late(r, v)

Tracked(r, e) ==
    \E g \in storage : /\ g.deadlineSlot = ExitDeadlineSlot(r, e.pubkey)
                       /\ g.exitRequest = r
                       /\ e \in g.validators

(* A validator of a scanned request is never dropped on the way: it is in  *)
(* storage until its penalty is on record or it has exited in time.        *)
NoneForgotten ==
    \A r \in Requests :
        deliveredAt[r] \in covered =>
            \A e \in decodeValidatorsData(r) :
                \/ Tracked(r, e)
                \/ e.pubkey \in settled
                \/ TimelyExit(e.pubkey, ExitDeadlineSlot(r, e.pubkey))

(* README ("Sequential processing ... avoid missing blocks"): from where a *)
(* scan began at the lookback, the blocks scanned have no gap up to the    *)
(* last processed root, however the lookback slides while cycles fail.  A  *)
(* cycle that failed, or read nothing, is never counted as done.           *)
NoBlockSkipped ==
    \A b \in covered \cup ({lastProcessed} \ {0}) : since..b \subseteq covered

(* v is late on r and not on record, and its exit epoch is set in the      *)
(* state its proof is made from: the verifier may refuse every batch with  *)
(* v in it, and each refusal ends a cycle.                                 *)
Unprovable(r, v) ==
    /\ Late(r, v)
    /\ v \notin settled
    /\ ExitEpochSet(v, ExitDeadlineSlot(r, v) + 1)

(* README: a validator past its deadline is proved late.  Each one ends up *)
(* on record, in spite of a bounded number of failures, unless one that    *)
(* may be refused in every cycle stands before it.                         *)
LateIsSettled ==
    \A r \in Requests : \A v \in pubkeys(decodeValidatorsData(r)) :
        Late(r, v) ~> \/ v \in settled
                      \/ \E q \in Requests : \E w \in Validators : Unprovable(q, w)

=============================================================================
