-------------------------- MODULE ExecutionRefinement --------------------------
(***************************************************************************)
(* The loop of execute keeps what Submission promises to the prover: how   *)
(* the abstract state is read off the loop and its mempool.                *)
(***************************************************************************)
EXTENDS Execution

Batches == 1..MaxBatches

NoBatch == 0

onRecord == {b \in Batches : b < batch \/ (b = batch /\ penalty = "recorded")}

batchesOf(transactions) == [i \in DOMAIN transactions |-> transactions[i].batch]

inFlight == batchesOf(mempool)

call == IF pc = "idle" THEN NoBatch ELSE batch

answer == IF outcome \in {"threw", "gasLimitExceeded"} THEN "failed"
          ELSE IF outcome = "returned" THEN "completed" ELSE "none"

Promise == INSTANCE Submission

(* What prover.service.ts:955 may rely on when it adds the validators of a *)
(* batch to the reported set because execute has returned: the call sent   *)
(* one transaction, it is mined, and no transaction of an earlier call,    *)
(* given up on after a timeout or a lost answer, is still under way.  If   *)
(* its receipt is a success the batch is on record; execute returns all    *)
(* the same if it is not.                                                  *)
KeepsSubmissionPromise == Promise!Spec

=============================================================================
