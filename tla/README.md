# Verification of the late-prover-bot

TLA+ modules, TLC runs and TLAPS proofs about the bot that reports validators
which did not exit in time. Paths below are those of the repository; line
numbers are those of the commit modelled here. `PROJECT.json` names, for each
definition that translates code, the lines it stands for.

Run from this directory: `tlc -config Bot_faults.cfg MC_LateProverBot.tla` for
a run, `tlapm LateProverBot_proofs.tla` for the proofs of a module.

## 1. The system

One Node process, one thread of control: `DaemonService.run` awaits one thing
after the other. Concurrency comes from the outside: between any two awaits
the chains move, transactions sent earlier are mined, other reporters act, a
request fails, the process dies.

| Component | State it keeps | Operations | Hard behaviour | Correct means |
|---|---|---|---|---|
| `daemon/daemon.service.ts` | none | `run`, `baseRun` | errors end a cycle, `balanceOf` outside the `try` ends the process | a cycle that failed is repeated |
| `daemon/services/*` | last processed root, in memory | `getRoots`, `process` | the root is stored only when the cycle returned | no block is skipped |
| `common/prover/prover.service.ts` | `validatorsByDeadlineSlotStorage`, `reportedValidatorPubkeys`, in memory | `onModuleInit`, `handleBlock` | a failure anywhere in a cycle; two collections updated at different awaits; the same validator in several requests; corrupt states | nobody accused unjustly, nobody forgotten, each late validator reported in the end |
| `common/providers/execution/execution.ts` | fee cache, last block of the cache | `execute` | retry loop, stale prices, lost answers, timeouts, transactions that revert | at most one transaction per call, priced to be mined; the loop ends |
| `common/providers/consensus/consensus.ts` | chain configuration | headers, states, slot arithmetic | state and header are two requests | deadlines computed to the slot |
| `common/contracts/validator-exit-bus.service.ts` | none | `getExitRequestsFromBlock`, delivery timestamps | events looked up one by one: one fails, the others are returned | every request of a range is returned, in the order of the chain |
| `common/providers/base/rest-provider.ts` | none | `baseGet`, `retryRequest` | retries, fallback URLs, 404 as an answer: of a skipped slot, or of a node that lags | a request fails only when every URL has failed; a block that exists is found |
| other contract clients, proofs, script, configuration, metrics, health, logging | none that matters to control | | | |

How they interact: `run` calls `baseRun`, which takes two roots from the roots
provider and gives them to the roots processor; that one turns them into a
range of execution blocks and calls `ProverService.handleBlock`. `handleBlock`
reads the finalized state, fetches the exit requests of the range, files their
validators by the slot in which they must have exited, and goes through the
slots that have passed: each validator is checked against the state of the slot
after its deadline and against its staking module, the late ones become
witnesses, batches of witnesses become calls of `Execution.execute`. A pubkey
whose transaction was confirmed is remembered as reported; the next cycle asks
the module again, and when the penalty no longer applies the validator is
forgotten: its pubkey leaves the reported set, and the cleanup at the end of
the cycle drops it from the storage. All state is in memory. After a restart the
bot scans the blocks of the last `START_LOOKBACK_DAYS` days.

## 2. Modules

| Module | Models |
|---|---|
| `SlotMath` | conversions of slots, epochs and timestamps, deadlines, historical summaries (`consensus.ts`, the `calc...` helpers of the prover) |
| `Chain` | environment: the beacon and execution chains, exit requests, exits, penalties on record, transactions the bot stopped waiting for |
| `Storage` | the storage and the reported set as the prover uses them: the groups of a slot, which of them leads it, the cleanup; and a specification of what may become of them |
| `Prover` | `ProverService`: `handleBlock` cut at its awaits, over `Storage` |
| `LateProverBot` | start-up, daemon loop, roots, failures and restarts, over `Prover` and `Chain`; the specification, its fairness and its properties |
| `Reporting` | abstract: what the bot promises of each validator asked to exit |
| `LateProverBotRefinement` | how the state of `Reporting` is read off `LateProverBot` |
| `ScanAndStorage` | the scan in batches and event by event, the storage as the map of arrays it is; shown to implement `Storage` |
| `RestProvider` | one REST request: attempts, delays, URLs in turn |
| `BeaconNodes` | environment: a chain with skipped slots, nodes that lag and go down, the beacon-roots contract |
| `ProofSlots` | one deadline slot: the search for a slot with a block, the age of the slot, the proof and its acceptance, over `RestProvider` and `BeaconNodes` |
| `GasFeeHistory` | the cache of base fees and the percentile; the decision of the script |
| `Execution` | the loop of `execute`, with the mempool, over `GasFeeHistory` |
| `Submission` | abstract: what a call of `execute` promises to the prover |
| `ExecutionRefinement` | how the state of `Submission` is read off `Execution` |
| `MC_...` | instances for TLC |
| `SlotMath_proofs`, `Chain_proofs`, `LateProverBot_proofs`, `NoneForgotten_proofs`, `Reporting_proofs`, `ScanAndStorage_proofs`, `ProofSlots_proofs`, `Execution_proofs` | theorems, and the lemmas they rest on (in `Chain_proofs`, only lemmas) |

Three models look at the bot at different grain. `LateProverBot` is the whole of
it, with sets where the code has arrays and one step per await. `ScanAndStorage`
and `ProofSlots` each open one thing that `LateProverBot` takes as a whole: how a
request gets into the storage, and how a deadline slot becomes a proof.

A part of `Prover` and `LateProverBot` and its code:

| Action | Code |
|---|---|
| `InitializeStorageWithRecentEvents` | `onModuleInit`, `initializeStorageWithRecentEvents`: the range, up to the newest block |
| `GetRoots` | `baseRun`, `getRoots`: the range between the last processed root (or the lookback) and the finalized root |
| `BeaconState`, `BeaconStateCorrupt` | `initializeBeaconState`; the early return of `handleBlock` |
| `FetchRequests` | `getExitRequestsFromBlock`, one event of which may be lost |
| `GroupRequest` | `processExitRequest`, `groupValidatorsByDeadlineSlot`, `addToValidatorStorage` |
| `SomeEligible`, `NothingEligible` | `processEligibleValidators` up to its loop, or its early return (and the end of the scan at start-up) |
| `StartSlot` | `processDeadlineSlot`: the validators of all groups, the request of the first one, old or current, a deadline state that may be corrupt |
| `CheckValidator` | `processValidator`, its four outcomes |
| `SubmitBatch` | `processCurrentSlot`, `processHistoricalSlot` for one batch: `execute` returned, or the batch of an old slot was skipped |
| `EmulationFails`, `SubmissionTimesOut`, `CallFails` | `execute` or another call throws: the error goes up to `run`, the root is not stored |
| `Cleanup` | `cleanupProcessedEntries`, then the end of `handleBlock` and the storing of the root |
| `Crash` | the process dies and is started again |

`Execution` has an action per await of `executeTransaction`. What `Prover` needs
of it is the outcome: the call returned (`BatchCompleted`), its emulation failed
(`EmulationFails`), it threw after sending (`SubmissionTimesOut`), it threw
before (`CallFails`). `Submission` is what makes that abstraction right, and
`KeepsSubmissionPromise` says that `Execution` implements it: a call that
completed has sent one report, which is mined, with nothing of an earlier call
under way. Its batch is on record if the receipt is a success; `execute` returns
all the same if the report reverted, because somebody was faster, its proof is no
longer accepted or its gas did not last. That a call failed says nothing about its
report, which may be mined now, later (`MineLate`) or never. The timeout counts
until `TX_CONFIRMATIONS` blocks have passed, so it may hit a transaction that is
mined. A call that returned with nothing on record, after a revert or in a dry
run, is the failure `ineffective` of `Prover`.

`ProofSlots` follows one deadline slot through `initializeBeaconState`,
`processEligibleValidators`, `isSlotOld`, `findNextAvailableSlot`,
`processCurrentSlot` and `processHistoricalSlot`. Each of its requests is a
request of `RestProvider`, whose attempts (`Attempt`) are answered by the node
behind the URL in use at that moment:

| Action | Code |
|---|---|
| `FirstFails`, `RetryLater`, `NextUrl`, `AllUrlsFailed` | `retryRequest` with its retrier: the delay of the first rejection, the back-off, the next URL, the error thrown in the end |
| `GotFinalizedState`, `GotFinalizedHeader`, `NotEligible` | `initializeBeaconState`, and the choice of the slots that have passed |
| `GotHead` | `isSlotOld`, which judges the slot asked for, not the one found later |
| `TryNextSlot`, `FoundSlot`, `FoundSlotAgain` | `findNextAvailableSlot`, once for the slot and once more for each batch of an old one |
| `GotDeadlineState` | the state from which witnesses are made |
| `GotSummaryState`, `SummaryNotFinalized` | `generateHistoricalStateProof`, which verifies what it made |
| `EmulateAndSend`, `EmulationFails`, `Mined` | the emulated call and the transaction, in the block it is mined in |
| `RequestFails` | any other request threw: the cycle is over |

`ScanAndStorage` has `processBatches`, `getExitRequestsFromBlock` (`QueryBatch`,
`LookUpEvent`), `addToValidatorStorage` (`PushRequest`) and
`cleanupProcessedEntries` (`Cleanup`), with the cycles around them in few steps.

Abstractions. In `LateProverBot` the storage, a map of arrays of groups, is the
set of its groups; that this is a sound reading of the arrays is a property of
`ScanAndStorage` (`StorageImplemented`, `FirstGroupLeads`). Which group leads a
slot is read off the delivery times: the oldest request leads, except that it
may have been dropped, once nothing was left to do in it, and pushed again
behind the others. The choice is left open where the code gives no such order:
after a lost event or an unreadable state, or if finality lags by more than the
lookback. A
beacon state is what the code reads from it: the exit epoch at a slot. A proof
of a witness is valid if it names the entry of its validator in the request data
that goes with it; whether the proof of the slot is accepted is the subject of
`ProofSlots`. A witness has no field for the exit epoch, and the verifier is not
part of the repository: it may refuse a batch that names a validator whose exit
epoch is set in the proven state (`EmulationReverts`), or accept it. Base fees
change from block to block as the protocol allows (`mayFollow`). Except in
`ProofSlots`, every slot has a block, and slots and execution
blocks have the same numbers. Blocks are not reorganised.

## 3. What TLC checks

Passing runs:

* `Bot_faults`: two requests (one asks for a validator of the other again), two
  validators, deadlines 3 and 5 seconds of 2-second slots after delivery, six
  slots, one validator that may exit at any time, two failures out of failed
  call, timeout with the transaction mined later or never, transaction without
  effect, restart. The lookback, two slots, slides away from the first blocks.
  - `TypeOK`.
  - `NoUnjustReport`: whoever is named in a transaction, mined or pending, was
    late on some request. What was read must still hold when a transaction is
    mined cycles later.
  - `NoneForgotten`: a validator of a scanned request is stored, or on record,
    or was out in time. Cleanup, failed cycles and the shared reported set are
    what might break it.
  - `NoBlockSkipped`: the scanned blocks have no gap from where a scan began at
    the lookback (`since`) up to and including the last processed root. `covered`
    are the blocks whose requests were filed; with that root among them, a root
    stored after a failure would show. Until a cycle has succeeded every range
    begins at the lookback of the moment, which slides with the clock. After an
    outage longer than `START_LOOKBACK_DAYS` right after start-up the first cycle
    therefore begins behind what `onModuleInit` scanned, and the blocks in between
    are never read: this happens in the run, and `since` moves with it.
  - `KeepsPromise`: every step of the bot is a step of `Reporting`. A validator
    is accused only in a case decided against it, decisions never change, and a
    filed case leaves the storage only when it is closed or the process dies:
    in each step, where `NoneForgotten` looks at states.
* `Bot_corrupt`: requests that overlap in one validator at different positions
  of their data, deadlines in shared slots, one-second thresholds so that slots
  become old (`SLOTS_PER_HISTORICAL_ROOT` is 1), a lookback shorter than the
  chain, one failure of any kind.
  - `ReportedStaysStored`: a pubkey in the reported set is in storage. A pubkey
    that is not stays in that set for ever, and a later request for it would
    never be cleaned.
  - `NoUnjustReport` again, with corrupt states and lost events. The chain is long
    enough for a validator to be out in time and its deadline slot to be processed
    after that: no fault turns this into an accusation.
* `Bot_live`: under fairness, with two failures out of failed call, timeout,
  transaction without effect and restart. Thresholds of one and three seconds put
  deadlines into the slot of the delivery and the next one, so that both
  validators are late at once, two late slots meet in a cycle, and a transaction
  without effect is tried again.
  - `LateIsSettled`: who is late ends up on record, unless some late validator's
    exit epoch is set in the state its proof is made from (`Unprovable`). Its batch
    may be refused in every cycle; as a refusal ends the cycle, slots behind it,
    with other validators, are not reached either.
* `Slots`: a chain of 12 slots, of which those after the deadline may be
  skipped, one at a time; two URLs whose nodes lag by one slot and one of which
  goes down once; two retries; finality three slots behind; a beacon-roots ring
  of three, a history of four slots. The deadline slot is 2, so that the search
  crosses the boundary of two summaries.
  - `FirstBlockFound`: the search returns the first block after the deadline, in
    both of its runs. A 404 means a skipped slot, but also a node that lags, and
    the error of the last URL hides what the others said.
  - `OnlyKnownRejections`: when a proof is ready the verifier takes it, unless
    the slot after its header has no block, its root has been overwritten, or
    finality moved between the two requests of `initializeBeaconState`. Each of
    the three happens in the run.
  - `EventuallyAccepted`: the proof is accepted in the end all the same, at the
    latest when the slot is old.
* `Storage`: ranges cut in batches of two blocks, three requests (two that share
  a validator and a deadline slot, one that is not a direct call of the exit
  bus), one failure out of failed call, lost event and transaction without
  effect.
  - `ScanFilesRange`: after a scan, every request of its range is filed under all
    of its deadlines, unless its own lookups failed or it is not a direct call.
  - `FirstGroupLeads`: the first group of an array is of a request no younger
    than that of any other group, in spite of scans that overlap and are
    repeated, as long as no event was lost. A cleanup may drop the oldest group
    and the next scan push it again, behind: but only if its validators were all
    on record or out in time, so the exception is a group with nothing left to do.
  - `CopiesBounded`: the cleanup puts all copies of a validator that is in several
    groups of a slot into each of them. If transactions have their effect it does
    so once: a group has no more copies of a validator than the requests of the
    groups of its slot list it together.
  - `StorageImplemented`: the arrays, read as sets, do what `Storage` says.
* `Exec`: base fees 4, 6 and 9, which move by one level per block at most (half of the
  fee), a cache of two blocks that may be refreshed with each block, two
  batches, one failure out of failed call, timeout, failed estimation, being
  overtaken by another reporter and a transaction that reverts for another reason;
  dry run or not.
  - `TypeOK`, which includes that the cache stays full.
  - `OneTransactionPerCall`, in all rounds of the retry loop.
  - `NotUnderpriced`: as long as no more than half of
    `BASE_FEE_MAX_CHANGE_DENOMINATOR` blocks have come since the cap was computed
    from one pending block (four, on the real chain), it pays the base fee of the
    later block that the fee check read, and that of the next block. Afterwards
    it need not, and the code does not look at it again.
  - `NeverTooLow`: the cache is sorted in place (see below), so an update drops
    the lowest fees instead of the oldest. The recommended fee is all the same
    never below the one the fees fetched justify: a history variable, `fetched`,
    is the cache as it would be were a copy sorted.
  - `KeepsSubmissionPromise`: every step of the loop is a step of `Submission`. When
    a call returns, its report is mined, on record if it succeeded, and no report
    of an earlier call that timed out is under way: nonces are mined in order.
    The reported set takes the batch in any case.
  - `Settles`: if base fees stop moving, a batch gets on record: the retry loop
    ends, because the history catches up, and pending transactions with lower
    nonces are mined too. One exception, which happens in the run: the oldest
    transaction, sent when fees were lower, cannot pay (`Stuck`). The code neither
    replaces nor cancels it, and whatever it sends later waits behind it.

Runs that show a disagreement between the code and what it says of itself:

* `Bot_corrupt_finalized`, `NoBlockSkipped`: `handleBlock` returns normally when
  the finalized state cannot be deserialized ("Will retry in next daemon
  cycle"), so the root is stored and the range is not read again.
* `Bot_corrupt_deadline`, `NoneForgotten`: when a deadline state cannot be
  deserialized, the cleanup removes validators that were never reported, where
  its comment says "keep it".
* `Bot_shared_deadline`, `LateIsSettled`: validators of two requests on one
  deadline slot are submitted with the data of the first request. Without a
  failure of any kind the emulation fails in every cycle, and as the cycle ends
  there, later slots are not reached either. Deadlines coincide when validators
  are too young to exit: the deadline then depends on the activation epoch only.
* `Fees_window`, `MatchesTheScript`: `percentile` sorts the cache in place, so
  an update drops the lowest fees instead of the oldest. The script
  `estimate-gas-cost.ts` sorts a copy, and so decides that a fee is too high
  where the bot sends.
* `Exec_reverted`, `SucceededMeansRecorded`: a receipt with status 0 counts as
  "Transaction succeeded!".
* `Exec_estimation_fails`, `ConfiguredLimitIsUsed`: the buffer of 20% is added
  to the configured limit as well, so the transaction it falls back to always
  exceeds that limit.

### Bounds, and why they are enough

`MaxSlot` (5 or 6): a request, its deadline, the finality of it and a cycle
after that fit, and so does a second late slot in `Bot_live`; two requests can be
in any order and in any cycle. Two requests and two validators: the hazards are
about a pair (shared slot, shared validator, first group and later group).
`MaxFaults` (2 in `Bot_faults` and `Bot_live`, else 1): a fault during the recovery
from a fault. With corrupt states and lost events one is what TLC can finish; the
theorems about both properties of `Bot_corrupt` allow any number. No transaction is without effect in the last cycle that the chain is
long enough for (`LastFinalized`): what the bot would make of it is beyond the
bound. In `Bot_faults` and `Bot_corrupt` finality lags by up to two slots
(`FINALITY_DELAY`) and the lookback is as long, the least that theorems allow
which compare the two, so that it slides within the chain; in `Bot_live` and the
violation runs it spans the chain. `VALIDATOR_BATCH_SIZE` 1 makes one slot
span several batches, 2 makes a batch mixed. `FINALITY_LAG` 1 is a lower bound:
finality may lag further, up to `FINALITY_DELAY`. `MaxBatches` 2: a transaction
of an earlier batch may still be pending. In `Slots`, `MaxSlot` 11 lets the slot grow old and be finalized
again after that; no slot after `LastSkip` 5 is skipped, so that the chain stops
with blocks. One skip in a row, one slot of lag and two slots to look at
(`MAX_ATTEMPTS`) keep the proportions of the code (32 attempts, finality two
epochs behind) at the smallest size. In `Storage`, five slots and a lookback of
four give every block to two scans, and one request can be delivered at the
common bound of two batches or two cycles; `FINALITY_DELAY`, how far finality may
lag behind the head, is within the lookback, as days are to minutes. In `Exec`
the denominator of the base fee's change is 2 where the protocol has 8: a base fee
of 4 may be 6 and then 9 one and two blocks later, and a transaction priced at 4
without a tip, with a cap of 8, cannot pay that. So caps become too low within
two blocks, and within one they may not. A cache of two blocks is filled by one
request; requests that overlap fill a cache of three or more, and for those there
are the theorems (`SortingNeverLowers`, `ExecutionTypes`). In `Fees_window` the fees
(8, 9, 10) and the denominator are such that a block changes the fee by one at
most. The mutants in `PROJECT.json` are plausible mistakes each
property detects within these bounds.

`CHECK_DEADLOCK` is off where the modelled chain stops at `MaxSlot` or the last
batch is done: the bot then sleeps for ever, or has nothing left to prove.

### Fairness

`LateProverBot.FairSpec`: head and finality advance (the chains live), and the
bot's thread takes a step whenever it can (`WF_vars(BotStep)`): every sleep of
the daemon has an end, and every awaited call returns or throws. Failures have
no fairness, and their number is bounded by `MaxFaults`; nothing forces a
transaction the bot gave up on to be mined. `Execution.FairSpec`: the same for
the loop of `execute`, blocks come, and a block has room for a transaction that
pays its base fee. Blocks come with no end, but the model keeps only the newest
base fees: once all of them are newer than the last update of the cache, and
equal, one more block leaves the state as it is. Fairness of blocks is therefore
asked for up to that point only (`BlockComes`); asked for beyond it, it would
exclude a fee that stays where it is, which is the case `Settles` is about. `ProofSlots.FairSpec`: chain, finality and nodes go on until
the modelled chain ends, and a node that is down comes back (the code hides what
the other URLs say behind the error of the last one, so the last URL has to
answer again); the bot's thread takes a step whenever it can.

## 4. What is proved

For every set of requests and validators, every data and threshold, every chain
configuration and every number of failures, from the assumptions that the
modules state on their constants. What a theorem assumes beyond them is said
with it.

Assumptions, and why the code justifies them. `FINALITY_DELAY <= LOOKBACK`:
finality lags behind the head by no more than `START_LOOKBACK_DAYS`; the default
is days, where finality takes minutes. Without it the first cycle's range ends
before it begins, the next cycle begins before the scan at start-up did, and
pushes older requests behind younger ones. *Read intact* (`BenignFaults`): no
deadline or summary state fails to deserialize and no event's own lookups fail;
the runs `Bot_corrupt_...` show what happens otherwise.

The bot (`LateProverBot_proofs`, `NoneForgotten_proofs`, `Reporting_proofs`):

* `TypeCorrect`: `Spec => []TypeOK`.
* `ReportedAlwaysStored`: `Spec => []ReportedStaysStored`, all faults. Not
  inductive alone: a confirmed batch adds its pubkeys to the reported set, so the
  validators in hand must be stored too (`HandStored`), which holds because
  nothing is removed from storage while a slot is in hand.
* `NobodyReportedUnjustly`: `Spec => []NoUnjustReport`, all faults. The
  invariant (`JustInv`) follows a validator back: a witness was not out in time
  (`WitnessesLate`), came from a stored group (`StoredRequested`), which came
  from a delivered request (`PendingDelivered`). A verdict cannot change because
  the slot in hand is finalized (`ClockInv`) and exits initiated now show in
  later slots (`VerdictStable`). Note that the batch is checked by the verifier
  in the emulation; the proof does not use that.
* `NothingSkipped`: `Spec => []NoBlockSkipped`, if finalized states are read intact;
  for every lookback, however far the clock carries it during an outage. The
  invariant (`SkipInv`): until a root is stored a range begins at the lookback of
  the moment, afterwards at that root (`RangeInHand`), the lookback only moves
  forward (`SinceLookback`), and slots are processed, which is what comes before a
  root is stored, when the range is scanned (`ScanBeforeSlots`).
* `NothingForgotten`: `Spec => []NoneForgotten`, if what is read is read intact and
  `FINALITY_DELAY <= LOOKBACK`, however requests share deadline slots. The
  invariant (`LossInv`) adds that the requests of the range are pending or
  accounted for (`RangeAccounted`) and that each validator of a slot already
  processed in the cycle is in hand, reported, on record or out in time
  (`ProcessedDone`): that is what the cleanup relies on. With shared slots a
  validator is measured against another request's delivery. The groups hold only
  validators that their own request puts on their slot (`GroupsPure`), with all
  of their entries (`GroupsWhole`), and the request in hand is as old as one of
  the validator's own unless its case is closed (`HandOverdue`): so it looks
  later, never earlier, and is not taken for "not eligible yet".
* `BotKeepsPromise`: `Spec => KeepsPromise`, the refinement, under the
  assumptions of `NothingForgotten`. One lemma for each kind of step: a step of the
  chains is one of `Decide` or `Mine` (`PromiseEnvironment`), filing only adds
  cases, a batch sent names only cases already lost (`BatchIsLate`, from
  `JustInv`), the cleanup lays aside only closed ones (`PromiseCleanup`, from
  `LossInv`), and the rest stutters.

The scan and the arrays (`ScanAndStorage_proofs`):

* `RangeIsFiled`: `Spec => []ScanFilesRange`, all faults, any batch size. The
  invariant (`ScanInv`): batches not yet asked for follow each other up to the end
  of the range (`BatchesInv`), what is in hand is of the blocks before them and
  in the order of the chain (`HandInv`), and each request of the range is in a
  batch to come, in hand, unread or filed (`ProgressInv`).
* `OldestLeads`: `Spec => []FirstGroupLeads`, if `FINALITY_DELAY <= LOOKBACK`. That
  the array is in the order of delivery is not true, let alone inductive: the
  invariant (`LeadInv`) says that if an older group stands behind a younger one,
  each validator of it stands in a group ahead of both, of a request as old, or
  its case is closed (`StoredInOrder`); the same of each request still to be filed
  (`ToBeFiledInOrder`), because a scan never begins before the last one did; and
  what is left of a processed slot is reported or closed (`ProcessedDone`).
* `ArraysImplementSets`: `Spec => StorageImplemented`, the refinement, all faults:
  pushing a copy of a group changes no set, the slots chosen are the slots
  passed, and the cleanup of the arrays, with all copies it makes, leaves the
  groups that the cleanup of the sets leaves.
* `CopiedOnlyOnce`: `Spec => []CopiesBounded`, all other faults. The copies of a
  validator are a set of places (group, number), which makes counting them a
  matter of injections (`TogetherWithinBound`). Not inductive alone: the cleanup
  copies whatever it keeps, so the invariant (`CopiesInv`) has to say that it
  copies nobody twice. A validator with more copies than its own request lists is
  on record (`CopiedOnce`), because only a reported validator is copied and what
  is reported has its effect (`ReportedFiled`); a validator on record is dropped
  by the cycle that checks it, so the cleanup that would copy it again does not
  keep it. While a cycle is checking, some slot still to be checked has it
  (`CopiedWaits`).

The proof of a slot (`ProofSlots_proofs`):

* `FirstBlockIsFound`: `Spec => []FirstBlockFound`, for any number of nodes, URLs
  and retries, any outages and skips, if finality is further behind than the lag
  of a node and a run of skipped slots together (`NodesAssumption`). The invariant
  (`SearchInv`): the slots passed over have no block, and the deadline slot in hand
  is `FINALITY_LAG` or more behind the clock, because a node called it final
  (`DeadlineFinal`). Then the first block after it is within the view of every
  node (`BlockAhead`): no node can answer 404 for it, however the URLs take turns.
* `KnownRejectionsOnly`: `Spec => []OnlyKnownRejections`. The invariant (`ProofInv`,
  with `SearchInv`): the header is a block's, and both searches ended at the first
  block. Of that block the summary chosen has the root at the index looked up,
  wherever in its summary period the slot lies (`SummaryCoversSlot` is half of it),
  and the timestamp of the current proof is that of the next slot.

Sending (`Execution_proofs`):

* `OneTransaction`: `Spec => []OneTransactionPerCall`, for any fees, estimates and
  failures (`CallInv`: where the call is determines what it has sent).
* `ExecutionTypes`: `Spec => []TypeOK`. The cache is full from its first update on
  (`HistoryInv`: it is empty only while all of it is still to be fetched), requests
  of any size never reach outside the window, and sorting invents no fee.
* `BufferIsEnough`: `Spec => []NotUnderpriced`, for base fees of any size. Only the
  rule of the protocol is used: a block changes the base fee by a fraction
  1/`BASE_FEE_MAX_CHANGE_DENOMINATOR` of it at most. The invariant (`FeeInv`): the
  cap is twice some earlier base fee, and since then each block has added at most
  that fraction of twice the fee (`Within`). In half as many blocks as the
  denominator says the fee cannot double (`NotDoubled`), so the next block adds no
  more than that again (`OneMoreBlock`).
* `SubmissionKept`: `Spec => KeepsSubmissionPromise`, the refinement, all faults and
  any number of them, reverts for any reason among them. The invariant (`OwnInv`,
  with the types and `CallInv`): while a call waits without a receipt, its
  transaction is the last of the mempool; once the receipt is there, the mempool
  is empty. A step of the mempool is a step of the reports under way
  (`BatchesOfAppend`, `BatchesOfTail`).
* `SortingNeverLowers`: `Spec => []NeverTooLow`, for every size of cache and
  request, every percentile and every history of fees. The invariant
  (`CacheInv`): the cache is in order, and of every amount, no more of its fees
  than of the fees fetched are at most that amount. It is kept because dropping
  *n* fees in front of an ordered cache lowers that count by *n*, or to zero, and
  dropping any other *n* fees lowers it by *n* at most (`UpdateNotBelow`); sorting
  raises no count (`SortedProperties`); and counts that are no larger make every
  percentile at least as large (`NotBelowPointwise`, `PercentileGrows`).

Arithmetic (`SlotMath_proofs`):

* `ProofSlotPastDeadline`: the slot after the deadline slot starts after the
  deadline and at most one slot later. From it, `OldRequestIsOverdue` (in
  `NoneForgotten_proofs`): measured against its own request, or an older one, a
  validator is never "not eligible yet", and only a penalty on record makes the
  module refuse.
* `SummaryCoversSlot`: the historical summary chosen for a slot covers it, and
  the index looked up in it is the slot's own if the Capella fork was at a
  summary boundary.

Only model-checked: the liveness properties `LateIsSettled`, `EventuallyAccepted`
and `Settles` (fairness and ENABLED are out of the prover's reach). Every other
property of the passing runs is a theorem.

## 5. Not modelled

* A second witness of one validator in a batch, which copies in the storage can
  lead to: the set of groups has one.
* A validator that is not activated: its deadline slot is a key of the storage
  that no slot reaches. Changes of the staking modules and of their exit deadline
  thresholds while the bot runs: constants.
* A lookback slot without a block, which makes `getRoots` return nothing until
  the lookback has moved on; `ProofSlots` has skipped slots for the search only.
* The `NoSignerError` branch of `handleExecutionError`, which would spin: the
  configuration is refused without a key unless it is a dry run.
* `VALIDATOR_BATCH_SIZE` 0, with which `createValidatorBatches` would not end.
* What the verifier contract does with a validator whose exit epoch is set in the
  proven state but not before the deadline: the contract is not here, so both
  outcomes are modelled. Such a validator is the exception of `LateIsSettled`.
* Requests delivered before the lookback, after a restart or a long outage: nothing
  in the code reads them, and no property promises it.
* Reorganisations, forks, SSZ, the Merkle trees, ABI coding, metrics, health,
  logging, configuration parsing, prices and printing of the script: pure
  conversions, output, or other projects' code. POST requests of the REST
  provider are not used.
* `README.md:52` says that the bot resumes from the last processed root after a
  restart. The root is in memory: it does not. `env.validation.ts:79` calls the
  gas limit a minimum; the code treats it as a hard limit. Both are listed as
  hazards or here and have no run.

## 6. Plan

Done: the bot with its proofs; `Reporting` and its refinement; the REST provider
with skipped slots; the exit bus and the storage as arrays; the loop of `execute`
as an implementation of `Submission`; a theorem for every safety property and
every refinement the runs check. Left, in this order:

1. `LateProverBot` over `Submission`, in place of its own steps for a batch.
2. Validators that are not activated, and modules that change.
