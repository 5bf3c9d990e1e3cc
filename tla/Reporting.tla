------------------------------- MODULE Reporting ------------------------------
(***************************************************************************)
(* What the bot promises, without how it keeps the promise.                *)
(*                                                                         *)
(* A case is a validator asked to exit by a request.  It stays open until  *)
(* finality decides whether the validator was out in time; the decision is *)
(* final.  A validator is accused only in a case it lost, and a case the   *)
(* bot has filed is laid aside only when there is nothing left to do in    *)
(* it, or when the bot loses its memory.                                   *)
(***************************************************************************)
CONSTANTS
    Validators,
    Cases          \* pairs <<request, validator>>

VARIABLES
    verdict,       \* of each case: "open", "late" or "timely"
    filed,         \* the cases the bot keeps
    inFlight,      \* reports sent and not mined, each a set of validators
    onRecord       \* validators whose late exit is on record

reportingVars == <<verdict, filed, inFlight, onRecord>>

Subject(c) == c[2]

LateIn(v) == \E c \in Cases : Subject(c) = v /\ verdict[c] = "late"

Closed(c) == verdict[c] = "timely" \/ Subject(c) \in onRecord

-----------------------------------------------------------------------------
Init ==
    /\ verdict = [c \in Cases |-> "open"]
    /\ filed = {}
    /\ inFlight = {}
    /\ onRecord = {}

(* Finality decides open cases, and only those. *)
Decide ==
    /\ UNCHANGED <<inFlight, onRecord, filed>>
    /\ verdict' \in [Cases -> {"open", "late", "timely"}]
    /\ \A c \in Cases : verdict[c] # "open" => verdict'[c] = verdict[c]

File ==
    /\ UNCHANGED <<inFlight, onRecord, verdict>>
    /\ filed' \in SUBSET Cases
    /\ filed \subseteq filed'

(* A report is sent and nobody waits for it any longer. *)
Send(V) ==
    /\ inFlight' = inFlight \cup {V}
    /\ \A v \in V : LateIn(v)
    /\ UNCHANGED <<onRecord, verdict, filed>>

(* A report is sent and mined. *)
Record(V) ==
    /\ onRecord' = onRecord \cup V
    /\ \A v \in V : LateIn(v)
    /\ UNCHANGED <<inFlight, verdict, filed>>

(* A report sent before is mined. *)
Mine(V) ==
    /\ inFlight' = inFlight \ {V}
    /\ onRecord' = onRecord \cup V
    /\ UNCHANGED <<verdict, filed>>

(* Only closed cases are laid aside. *)
Drop ==
    /\ UNCHANGED <<inFlight, onRecord, verdict>>
    /\ filed' \in SUBSET filed
    /\ \A c \in filed \ filed' : Closed(c)

(* The memory is gone; the reports that are under way are not. *)
Restart ==
    /\ filed' = {}
    /\ UNCHANGED <<inFlight, onRecord, verdict>>

Next ==
    \/ File
    \/ Decide
    \/ \E V \in SUBSET Validators : Send(V) \/ Record(V)
    \/ \E V \in inFlight : Mine(V)
    \/ Drop
    \/ Restart

Spec == Init /\ [][Next]_reportingVars

=============================================================================
