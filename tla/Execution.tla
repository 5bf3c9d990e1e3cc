------------------------------- MODULE Execution -------------------------------
(***************************************************************************)
(* Execution.execute: the loop that emulates, prices, sends and confirms   *)
(* one transaction, one action per await, while base fees move, other      *)
(* reporters act and earlier transactions are still in the mempool.  It is *)
(* what a batch of the prover becomes.                                     *)
(*                                                                         *)
(* The prover calls execute for one batch of late validators at a time,    *)
(* and again in a later cycle if it threw.  A signer is always there: the  *)
(* configuration is refused without a key unless it is a dry run, and in a *)
(* dry run the signer is not asked for.                                    *)
(***************************************************************************)
EXTENDS GasFeeHistory

CONSTANTS
    TX_GAS_LIMIT,
    GasEstimates,             \* what eth_estimateGas may answer
    Rewards,                  \* what eth_feeHistory may answer as a priority fee
    TX_MIN_GAS_PRIORITY_FEE,
    TX_MAX_GAS_PRIORITY_FEE,
    Faults,                   \* the kinds of failure that may happen
    MaxFaults,                \* bound: how many of them
    MaxBatches                \* bound: batches that come one after the other

(* Mutant of GAS_BUFFER_MULTIPLIER: no buffer. *)
NO_BUFFER == 1

GAS_BUFFER_MULTIPLIER == 2

ASSUME ExecutionAssumption ==
    /\ TX_GAS_LIMIT \in Nat
    /\ GasEstimates \subseteq Nat
    /\ Rewards \subseteq Nat
    /\ TX_MIN_GAS_PRIORITY_FEE \in Nat
    /\ TX_MAX_GAS_PRIORITY_FEE \in Nat
    /\ Faults \subseteq {"rpc", "timeout", "estimation", "overtaken", "ineffective"}
    /\ MaxFaults \in Nat
    /\ MaxBatches \in Nat \ {0}

VARIABLES
    dryRun,        \* "yes" or "no": DRY_RUN, which holds for the whole run
    batch,         \* the number of the batch the prover has to report
    penalty,       \* "due" while the module would accept it, then "recorded"
    mempool,       \* the bot's transactions that are not mined, in nonce order
    pc,            \* the await execute is at; "idle" outside a call
    outcome,       \* of the last call: "returned", "threw", "gasLimitExceeded",
                   \* or "none" so far
    gasParameters, \* [maxFeePerGas, maxPriorityFeePerGas] of the attempt
    estimated,     \* the node's estimate, 0 if it failed
    gasLimit,      \* the gas limit of the transaction
    current,       \* base fee isGasFeeAcceptable compares with
    age,           \* history: blocks since gasParameters were computed; when they
                   \* are too many for the buffer, their number makes no difference
    own,           \* position of this call's transaction in the mempool
    receipt,       \* "success", "reverted", or "none" before it is mined
    sent,          \* history: transactions sent by this call
    faults

attemptVars == <<gasParameters, estimated, gasLimit, current, age>>
sentVars == <<own, receipt, sent>>
vars == <<historyVars, dryRun, batch, penalty, mempool, pc, outcome, attemptVars, sentVars,
                   faults>>

Fault(kind) ==
    /\ kind \in Faults
    /\ faults < MaxFaults
    /\ faults' = faults + 1

NoFees == [maxFeePerGas |-> 0, maxPriorityFeePerGas |-> 0]

ResetAttempt == gasParameters' = NoFees /\ gasLimit' = 0 /\ current' = 0 /\ age' = 0

(* A transaction has been priced, and is not mined as far as execute knows.*)
Priced == pc \in {"estimate", "conditions", "history", "send", "wait"}

(* The base fee cannot have doubled in so few blocks: each adds a fraction *)
(* of at most twice the fee that the price was computed from.              *)
Fresh(blocks) == 2 * blocks <= BASE_FEE_MAX_CHANGE_DENOMINATOR

Init ==
    /\ HistoryInit
    /\ dryRun \in {"yes", "no"}
    /\ batch = 1
    /\ penalty = "due"
    /\ mempool = <<>>
    /\ pc = "idle"
    /\ outcome = "none"
    /\ gasParameters = NoFees
    /\ estimated = 0
    /\ gasLimit = 0
    /\ current = 0
    /\ age = 0
    /\ own = 0
    /\ receipt = "none"
    /\ sent = 0
    /\ faults = 0

-----------------------------------------------------------------------------
(* The chain. *)

BaseFeeMoves ==
    /\ \E fee \in Fees : NewBlock(fee)
    /\ age' = IF Priced /\ Fresh(age) THEN age + 1 ELSE age
    /\ UNCHANGED <<dryRun, batch, penalty, mempool, pc, outcome, gasParameters, estimated,
                   gasLimit, current, sentVars, faults>>

(* A transaction of this call gets its receipt when it is the oldest. *)
Receipt(status) == receipt' = IF own = 1 THEN status ELSE receipt

(* The oldest transaction is mined if it pays the base fee, and holds up   *)
(* the others as long as it does not.  It takes effect if the penalty it   *)
(* reports is still due.  Otherwise it reverts, as it does if its proof is *)
(* no longer accepted or its gas does not last.                            *)
Mine ==
    /\ mempool # <<>>
    /\ Head(mempool).maxFeePerGas >= pendingBaseFee
    /\ mempool' = Tail(mempool)
    /\ LET due == Head(mempool).batch = batch /\ penalty = "due"
       IN  \/ due /\ penalty' = "recorded" /\ Receipt("success") /\ UNCHANGED faults
           \/ ~due /\ Receipt("reverted") /\ UNCHANGED <<penalty, faults>>
           \/ due /\ Fault("ineffective") /\ Receipt("reverted") /\ UNCHANGED penalty
    /\ own' = IF own > 0 THEN own - 1 ELSE 0
    /\ UNCHANGED <<historyVars, dryRun, batch, pc, outcome, attemptVars, sent>>

(* Anyone may report a late validator. *)
ReportedElsewhere ==
    /\ penalty = "due"
    /\ Fault("overtaken")
    /\ penalty' = "recorded"
    /\ UNCHANGED <<historyVars, dryRun, batch, mempool, pc, outcome, attemptVars, sentVars>>

(* More validators are late. *)
NextBatch ==
    /\ pc = "idle"
    /\ penalty = "recorded"
    /\ batch < MaxBatches
    /\ batch' = batch + 1
    /\ penalty' = "due"
    /\ UNCHANGED <<historyVars, dryRun, mempool, pc, outcome, attemptVars, sentVars,
                   faults>>

-----------------------------------------------------------------------------
(* The prover found that the penalty applies, and calls execute. *)
Call ==
    /\ pc = "idle"
    /\ penalty = "due"
    /\ pc' = "populate"
    /\ outcome' = "none"
    /\ own' = 0
    /\ receipt' = "none"
    /\ sent' = 0
    /\ estimated' = 0
    /\ UNCHANGED <<historyVars, dryRun, batch, penalty, mempool, gasParameters, gasLimit, current,
                   age, faults>>

(* execute returns or throws.  What was estimated is kept, for the         *)
(* properties only.                                                        *)
Ends(result) ==
    /\ pc' = "idle"
    /\ outcome' = result
    /\ ResetAttempt
    /\ own' = 0

(* populateTxCallback. *)
Populate ==
    /\ pc = "populate"
    /\ pc' = "emulate"
    /\ UNCHANGED <<historyVars, dryRun, batch, penalty, mempool, outcome, attemptVars, sentVars,
                   faults>>

(* emulateTransaction. *)
Emulate ==
    /\ pc = "emulate"
    /\ penalty = "due"
    /\ pc' = "parameters"
    /\ UNCHANGED <<historyVars, dryRun, batch, penalty, mempool, outcome, attemptVars, sentVars,
                   faults>>

EmulatedCallError ==
    /\ pc = "emulate"
    /\ penalty # "due"
    /\ Ends("threw")
    /\ UNCHANGED <<historyVars, dryRun, batch, penalty, mempool, estimated, receipt, sent, faults>>

calculatePriorityFee(reward) ==
    LET atLeastMin == IF reward > TX_MIN_GAS_PRIORITY_FEE
                      THEN reward ELSE TX_MIN_GAS_PRIORITY_FEE
    IN  IF atLeastMin < TX_MAX_GAS_PRIORITY_FEE THEN atLeastMin ELSE TX_MAX_GAS_PRIORITY_FEE

CalculateGasParameters ==
    /\ pc = "parameters"
    /\ \E reward \in Rewards :
        gasParameters' =
            [maxFeePerGas |-> pendingBaseFee * GAS_BUFFER_MULTIPLIER + calculatePriorityFee(reward),
             maxPriorityFeePerGas |-> calculatePriorityFee(reward)]
    /\ age' = 0
    /\ pc' = "estimate"
    /\ UNCHANGED <<historyVars, dryRun, batch, penalty, mempool, outcome, estimated, gasLimit, current,
                   sentVars, faults>>

estimatedWithBuffer(gas) == (gas * 12) \div 10

(* estimateGasLimit: an estimation that fails counts as the configured     *)
(* limit.                                                                  *)
EstimateGasLimit(gas) ==
    /\ pc = "estimate"
    /\ \/ gas \in GasEstimates /\ estimated' = gas /\ UNCHANGED faults
       \/ gas = TX_GAS_LIMIT /\ Fault("estimation") /\ estimated' = 0

(* The rest of prepareTransaction: the hard limit. *)
PrepareTransaction ==
    /\ \E gas \in GasEstimates \cup {TX_GAS_LIMIT} :
        /\ EstimateGasLimit(gas)
        /\ estimatedWithBuffer(gas) <= TX_GAS_LIMIT
        /\ gasLimit' = estimatedWithBuffer(gas)
    /\ pc' = "conditions"
    /\ UNCHANGED <<historyVars, dryRun, batch, penalty, mempool, outcome, gasParameters, current,
                   age, sentVars>>

GasLimitExceededError ==
    /\ \E gas \in GasEstimates \cup {TX_GAS_LIMIT} :
        /\ EstimateGasLimit(gas)
        /\ estimatedWithBuffer(gas) > TX_GAS_LIMIT
    /\ Ends("gasLimitExceeded")
    /\ UNCHANGED <<historyVars, dryRun, batch, penalty, mempool, receipt, sent>>

(* validateTransactionConditions in a dry run. *)
DryRunEnds ==
    /\ pc = "conditions"
    /\ dryRun = "yes"
    /\ Ends("returned")
    /\ UNCHANGED <<historyVars, dryRun, batch, penalty, mempool, estimated, receipt, sent, faults>>

(* Mutant of ReadCurrentFee: goes on in a dry run. *)
ReadCurrentFeeAnyway ==
    /\ pc = "conditions"
    /\ current' = pendingBaseFee
    /\ pc' = "history"
    /\ UNCHANGED <<historyVars, dryRun, batch, penalty, mempool, outcome, gasParameters, estimated,
                   gasLimit, age, sentVars, faults>>

(* isGasFeeAcceptable: the current base fee, then the history. *)
ReadCurrentFee ==
    /\ pc = "conditions"
    /\ dryRun = "no"
    /\ current' = pendingBaseFee
    /\ pc' = "history"
    /\ UNCHANGED <<historyVars, dryRun, batch, penalty, mempool, outcome, gasParameters, estimated,
                   gasLimit, age, sentVars, faults>>

FeeAcceptable ==
    /\ pc = "history"
    /\ CalculateGasFeeData
    /\ current <= recommended
    /\ pc' = "send"
    /\ UNCHANGED <<dryRun, batch, penalty, mempool, outcome, attemptVars, sentVars,
                   faults>>

(* HighGasFeeError: try again from the start, in a minute.                 *)
HighGasFeeError ==
    /\ pc = "history"
    /\ CalculateGasFeeData
    /\ current > recommended
    /\ pc' = "populate"
    /\ ResetAttempt
    /\ UNCHANGED <<dryRun, batch, penalty, mempool, outcome, estimated, sentVars, faults>>

Transaction == [batch |-> batch, maxFeePerGas |-> gasParameters.maxFeePerGas]

(* Mutant of SendTransaction: waits for the oldest transaction under way.  *)
WaitsForTheOldest ==
    /\ pc = "send"
    /\ mempool' = Append(mempool, Transaction)
    /\ own' = 1
    /\ sent' = sent + 1
    /\ pc' = "wait"
    /\ UNCHANGED <<historyVars, dryRun, batch, penalty, outcome, attemptVars, receipt, faults>>

SendTransaction ==
    /\ pc = "send"
    /\ mempool' = Append(mempool, Transaction)
    /\ own' = Len(mempool')
    /\ sent' = sent + 1
    /\ pc' = "wait"
    /\ UNCHANGED <<historyVars, dryRun, batch, penalty, outcome, attemptVars, receipt, faults>>

(* waitForConfirmation: any receipt will do. *)
WaitForConfirmation ==
    /\ pc = "wait"
    /\ receipt # "none"
    /\ Ends("returned")
    /\ UNCHANGED <<historyVars, dryRun, batch, penalty, mempool, estimated, receipt, sent, faults>>

(* Mutant of HandleExecutionError: every error is retried. *)
RetryEveryError ==
    /\ pc' = "populate"
    /\ own' = 0
    /\ ResetAttempt
    /\ UNCHANGED <<historyVars, dryRun, batch, penalty, outcome, estimated, receipt>>

(* handleExecutionError, for all errors but HighGasFeeError: throw.        *)
HandleExecutionError ==
    /\ Ends("threw")
    /\ UNCHANGED <<historyVars, dryRun, batch, penalty, estimated, receipt>>

(* TX_MINING_WAITING_TIMEOUT_MS passes before there are TX_CONFIRMATIONS    *)
(* blocks on top of the transaction, if it is mined at all.                *)
WaitingTimesOut ==
    /\ pc = "wait"
    /\ Fault("timeout")
    /\ HandleExecutionError
    /\ UNCHANGED <<mempool, sent>>

(* Another awaited call fails.  A dry run awaits nothing at the conditions. *)
CallFails ==
    /\ pc \in {"populate", "emulate", "parameters", "conditions", "history", "send"}
    /\ pc = "conditions" => dryRun = "no"
    /\ Fault("rpc")
    /\ HandleExecutionError
    /\ UNCHANGED <<mempool, sent>>

(* sendTransaction fails although the node has taken the transaction.      *)
AnswerLost ==
    /\ pc = "send"
    /\ Fault("rpc")
    /\ mempool' = Append(mempool, Transaction)
    /\ sent' = sent + 1
    /\ HandleExecutionError

-----------------------------------------------------------------------------
BotStep ==
    \/ Call
    \/ Populate
    \/ Emulate
    \/ EmulatedCallError
    \/ CalculateGasParameters
    \/ PrepareTransaction
    \/ GasLimitExceededError
    \/ DryRunEnds
    \/ ReadCurrentFee
    \/ FeeAcceptable
    \/ HighGasFeeError
    \/ SendTransaction
    \/ WaitForConfirmation

Failure == WaitingTimesOut \/ CallFails \/ AnswerLost

ChainStep == BaseFeeMoves \/ Mine \/ ReportedElsewhere \/ NextBatch

Next == BotStep \/ Failure \/ ChainStep

Spec == Init /\ [][Next]_vars

(* Blocks come, with what they can hold; awaits and the pause end.  Once   *)
(* all the blocks the cache can hold are newer than its last update, one   *)
(* more may leave the model's state as it is, and nothing is asked of it.  *)
BlockComes == BaseFeeMoves /\ blocksSinceLastUpdate < calculateMaxCacheSize

FairSpec ==
    /\ Spec
    /\ WF_vars(BotStep)
    /\ WF_vars(BlockComes)
    /\ WF_vars(Mine)

-----------------------------------------------------------------------------
(* Properties *)

(* Every variable has its type. *)
TypeOK ==
    /\ HistoryTypeOK
    /\ dryRun \in {"yes", "no"}
    /\ batch \in 1..MaxBatches
    /\ penalty \in {"due", "recorded"}
    /\ \A i \in DOMAIN mempool : mempool[i] \in [batch : 1..batch, maxFeePerGas : Nat]
    /\ pc \in {"idle", "populate", "emulate", "parameters", "estimate", "conditions",
              "history", "send", "wait"}
    /\ outcome \in {"none", "returned", "threw", "gasLimitExceeded"}
    /\ gasParameters \in [maxFeePerGas : Nat, maxPriorityFeePerGas : Nat]
    /\ estimated \in Nat /\ gasLimit \in 0..TX_GAS_LIMIT /\ current \in Nat
    /\ age \in Nat
    /\ own \in 0..Len(mempool)
    /\ receipt \in {"none", "success", "reverted"}
    /\ sent \in Nat
    /\ faults \in 0..MaxFaults

(* However often the loop goes round, a call sends at most one transaction *)
(* (a second one would pay for a revert), and it does not return before    *)
(* that one is mined; in a dry run it sends none.                          *)
OneTransactionPerCall ==
    /\ sent <= (IF dryRun = "yes" THEN 0 ELSE 1)
    /\ outcome = "returned" /\ dryRun = "no" => sent = 1 /\ receipt # "none"

(* maxFeePerGas is computed once, from one pending block, and never looked *)
(* at again: the fee check compares a later base fee with the history      *)
(* only.  As long as no more than BASE_FEE_MAX_CHANGE_DENOMINATOR / 2      *)
(* blocks have come since, the transaction can pay the base fee, when it   *)
(* passes the check, when it is sent and while it waits to be mined.       *)
NotUnderpriced ==
    Priced /\ Fresh(age) => /\ gasParameters.maxFeePerGas >= pendingBaseFee
                           /\ gasParameters.maxFeePerGas >= current

(* The bot's oldest transaction cannot be mined, nor can those behind it.  *)
Stuck == mempool # <<>> /\ Head(mempool).maxFeePerGas < pendingBaseFee

(* If base fees stop moving, at whatever level, a late batch gets on       *)
(* record: waiting for a lower fee ends, since the history catches up.     *)
(* One thing only can prevent it: the oldest transaction of the bot, this  *)
(* call's or an earlier one's, cannot pay that level, and nothing in the   *)
(* code replaces it.                                                       *)
Settles ==
    dryRun = "no" /\ <>[][FALSE]_pendingBaseFee
        => [](penalty = "due" => <>(penalty = "recorded" \/ Stuck))

(* execution.ts:416 ("Transaction succeeded!") is logged, and the call     *)
(* counted as confirmed, when the transaction took effect.                 *)
SucceededMeansRecorded == outcome = "returned" /\ dryRun = "no" => receipt = "success"

(* execution.ts:281 ("Gas estimation failed, will use configured limit"):  *)
(* a failed estimation does not make the transaction exceed the limit.     *)
ConfiguredLimitIsUsed == ~(outcome = "gasLimitExceeded" /\ estimated = 0)

=============================================================================
