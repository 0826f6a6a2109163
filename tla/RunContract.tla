----------------------------- MODULE RunContract -----------------------------
(***************************************************************************)
(* What the database shows of a run, as the code commits it: a run is      *)
(* submitted, a process run is validated, and then the run ends once, with *)
(* its business result, its result file and its summary audit appearing in *)
(* one step.                                                               *)
(*                                                                         *)
(* This is less than docs/06 asks for.  There (8.1, 8.2) a check is        *)
(* "checking" before it ends, a process run "validating" before it fails   *)
(* and "processing" before it is completed, and polling shows these (25.1, *)
(* 27.5).  execute_run sets the three statuses, but "checking",            *)
(* "processing" and the "validating" of a run that fails exist only inside *)
(* the transaction that also ends the run: nobody else ever reads them.    *)
(***************************************************************************)
CONSTANTS Lines, RunId, Absent

VARIABLES
    runs,           \* [RunId -> run or Absent]
    summarised      \* the runs that have a summary audit

Submit(r) ==
    /\ runs[r] = Absent
    /\ \E line \in Lines, op \in {"check", "process"} :
        runs' = [runs EXCEPT ![r] = [line |-> line, op |-> op, status |-> "created",
                                     business |-> "null", result |-> FALSE]]
    /\ UNCHANGED summarised

Validated(r) ==
    /\ runs[r] # Absent
    /\ runs[r].op = "process" /\ runs[r].status = "created"
    /\ runs' = [runs EXCEPT ![r].status = "validating"]
    /\ UNCHANGED summarised

\* a process run succeeds only after its validation; docs/06 has neither of the two
\* transitions (created -> completed, validating -> completed)
Succeeded(r) ==
    /\ runs[r] # Absent
    /\ runs[r].status = IF runs[r].op = "process" THEN "validating" ELSE "created"
    /\ runs' = [runs EXCEPT ![r] = [@ EXCEPT !.status = "completed", !.business = "success",
                                           !.result = (runs[r].op = "process")]]
    /\ summarised' = summarised \cup {r}

\* also before it was seen to start, which docs/06 leaves to the reconciliation
Rejected(r) ==
    /\ runs[r] # Absent
    /\ runs[r].status \in {"created", "validating"}
    /\ runs' = [runs EXCEPT ![r] = [@ EXCEPT !.status = "failed", !.business = "failure"]]
    /\ summarised' = summarised \cup {r}

Init == runs = [r \in RunId |-> Absent] /\ summarised = {}

Next == \E r \in RunId : Submit(r) \/ Validated(r) \/ Succeeded(r) \/ Rejected(r)

Spec == Init /\ [][Next]_<<runs, summarised>>
=============================================================================
