------------------------------- MODULE Submission ------------------------------
(***************************************************************************)
(* What a call of execute promises to the prover, without the loop, the    *)
(* fees and the estimates.                                                 *)
(*                                                                         *)
(* A call reports one batch of late validators.  It sends one report at    *)
(* most.  The account's reports are mined in the order they were sent,     *)
(* whoever still waits for them; a report that is mined with success puts  *)
(* its batch on record, one that reverts does not.  A call completes only  *)
(* when its own report is mined, either way, and no report of the bot is   *)
(* under way.  What it means that a call fails is left open: the report    *)
(* was never sent, is under way, or is mined.                              *)
(***************************************************************************)
EXTENDS Naturals, Sequences

CONSTANTS
    Batches,
    NoBatch        \* none of them

VARIABLES
    dryRun,        \* "yes" or "no"
    onRecord,      \* the batches the module has on record
    inFlight,      \* reports sent and not mined, the oldest first
    call,          \* the batch a call is reporting, NoBatch between calls
    sent,          \* how many reports this call, or else the last, has sent
    receipt,       \* of that report, seen by its call: "success", "reverted", or
                   \* "none"
    answer         \* of the last call: "completed", "failed", "none" so far

submissionVars == <<dryRun, onRecord, inFlight, call, sent, receipt, answer>>

-----------------------------------------------------------------------------
Init ==
    /\ dryRun \in {"yes", "no"}
    /\ onRecord = {}
    /\ inFlight = <<>>
    /\ call = NoBatch
    /\ sent = 0
    /\ receipt = "none"
    /\ answer = "none"

(* The prover calls for a batch whose penalty still applies. *)
Call(b) ==
    /\ call = NoBatch
    /\ b \notin onRecord
    /\ call' = b
    /\ sent' = 0
    /\ receipt' = "none"
    /\ answer' = "none"
    /\ UNCHANGED <<dryRun, onRecord, inFlight>>

SendsReport ==
    /\ call # NoBatch
    /\ dryRun = "no"
    /\ sent = 0
    /\ sent' = 1
    /\ inFlight' = Append(inFlight, call)
    /\ UNCHANGED <<dryRun, onRecord, receipt>>

Send == SendsReport /\ UNCHANGED <<call, answer>>

(* The report is under way, and the call does not know it. *)
SendAndFail ==
    /\ SendsReport
    /\ call' = NoBatch
    /\ answer' = "failed"

Complete ==
    /\ call # NoBatch
    /\ IF dryRun = "yes" THEN sent = 0
       ELSE sent = 1 /\ receipt # "none" /\ inFlight = <<>>
    /\ call' = NoBatch
    /\ answer' = "completed"
    /\ UNCHANGED <<dryRun, onRecord, inFlight, sent, receipt>>

Fail ==
    /\ call # NoBatch
    /\ call' = NoBatch
    /\ answer' = "failed"
    /\ UNCHANGED <<dryRun, onRecord, inFlight, sent, receipt>>

(* The report of a call under way is the newest one. *)
OwnIsOldest == call # NoBatch /\ sent = 1 /\ Len(inFlight) = 1

(* The oldest report is mined.  If another was faster it reverts, and it   *)
(* may revert for other reasons.                                           *)
Mine ==
    /\ inFlight # <<>>
    /\ inFlight' = Tail(inFlight)
    /\ \E status \in {"success", "reverted"} :
        /\ onRecord' = IF status = "success" THEN onRecord \cup {Head(inFlight)} ELSE onRecord
        /\ receipt' = IF OwnIsOldest THEN status ELSE receipt
    /\ UNCHANGED <<dryRun, call, sent, answer>>

ReportedElsewhere(b) ==
    /\ onRecord' = onRecord \cup {b}
    /\ UNCHANGED <<dryRun, inFlight, call, sent, receipt, answer>>

Next ==
    \/ \E b \in Batches : Call(b) \/ ReportedElsewhere(b)
    \/ Send
    \/ SendAndFail
    \/ Complete
    \/ Fail
    \/ Mine

Spec == Init /\ [][Next]_submissionVars

=============================================================================
