------------------------------ MODULE RunEngine ------------------------------
(***************************************************************************)
(* The run engine of promo_WB_Ozon: how a check or process run is created  *)
(* by an HTTP request, executed by the worker thread and, when its hard    *)
(* timeout has passed, failed by the maintenance thread.                   *)
(*                                                                         *)
(* The threads share the database (committed rows of `runs' and            *)
(* `run_summary_audit'), the in-memory lock table (one entry per line, a   *)
(* (store, module) pair) and the in-memory job queue.  The database is     *)
(* PostgreSQL at READ COMMITTED: a transaction's writes are invisible      *)
(* until its commit, an UPDATE waits for the row lock of another           *)
(* transaction, an INSERT waits for another transaction that has inserted  *)
(* the same primary key and fails if that one commits.  The lock table and *)
(* the queue change at once and are never rolled back.                     *)
(*                                                                         *)
(* A definition marked "Mutant" is not part of the specification: it is a  *)
(* plausible bug in the definition that follows it, kept to show that a    *)
(* property notices it.                                                    *)
(***************************************************************************)
EXTENDS Naturals, Sequences, FiniteSetsExt

CONSTANTS
    Lines,          \* (store_id, module_code) pairs
    Clients,        \* request threads that may create runs
    Absent,         \* "no such row"
    MaxRuns,        \* bound: primary keys of runs that are ever used
    MaxRetries,     \* max_run_visibility_retries
    MaxRestarts,    \* bound: process restarts
    HardTimeouts,   \* TRUE: wall-clock time may exceed a run's hard timeout
    MaxFaults       \* bound: file operations and commits that fail

RunId  == 1..MaxRuns
NoRun  == 0
Ops    == {"check", "process"}
Final  == {"completed", "failed"}
Status == {"created", "checking", "validating", "processing"} \cup Final

Row == [line : Lines, op : Ops, status : Status,
        business : {"null", "success", "failure"}, result : BOOLEAN]
Job == [run : RunId, phase : {"validate", "execute"}, attempt : 0..MaxRetries]

ASSUME RunEngineAssumption ==
    /\ MaxRuns \in Nat /\ MaxRetries \in Nat /\ MaxRestarts \in Nat
    /\ MaxFaults \in Nat /\ HardTimeouts \in BOOLEAN
    /\ Absent \notin Row /\ Absent \notin Lines

VARIABLES
    runs,           \* committed runs: [RunId -> Row or Absent]
    summaries,      \* committed run_summary_audit: the row with primary key i
                    \* is for run summaries[i]
    locks,          \* InMemoryRunLockManager._locks
    queue,          \* RunExecutionQueue._jobs
    overdue,        \* runs started longer ago than their hard timeout
    req,            \* per request thread: _create_run in progress
    w,              \* the worker thread
    m,              \* the maintenance thread
    restarts, faults,   \* used up of the bounds
    validated       \* history: runs whose validation succeeded

dbVars  == <<runs, summaries>>
memVars == <<locks, queue>>
vars == <<dbVars, memVars, overdue, req, w, m, restarts, faults, validated>>

-----------------------------------------------------------------------------
(* Rows, keys, locks.                                                      *)

Exists(r)   == runs[r] # Absent
Terminal(r) == Exists(r) /\ runs[r].status \in Final
Active(r)   == Exists(r) /\ runs[r].status \notin Final

\* max(id) + 1 over the committed rows
NextRunId     == Max({r \in RunId : Exists(r)} \cup {0}) + 1
NextSummaryId == Len(summaries) + 1

NewRow(line, op) == [line |-> line, op |-> op, status |-> "created",
                     business |-> "null", result |-> FALSE]

\* SqlAlchemyRepository.update: SELECT the row (base), set every column from
\* the caller's copy (dto), UPDATE the columns that differ from base
Merge(dto, base, current) ==
    [current EXCEPT
        !.status   = IF dto.status # base.status THEN dto.status ELSE @,
        !.business = IF dto.business # base.business THEN dto.business ELSE @,
        !.result   = IF dto.result # base.result THEN dto.result ELSE @]

\* Mutant: a business result that is already there is kept.
CompletedKeepingResult(row) ==
    [row EXCEPT !.status = "completed", !.result = @ \/ row.op = "process",
                !.business = IF @ = "null" THEN "success" ELSE @]
\* the columns _finalize_success sets
Completed(row) == [row EXCEPT !.status = "completed", !.business = "success",
                              !.result = @ \/ row.op = "process"]

\* the columns _finalize_failure sets
Failed(row) == [row EXCEPT !.status = "failed", !.business = "failure"]

\* Mutant: the lock is dropped whoever holds it.
ReleaseAny(r, line) == locks' = [locks EXCEPT ![line] = NoRun]
Release(r, line) ==
    locks' = [locks EXCEPT ![line] = IF @ = r THEN NoRun ELSE @]

Enqueue(r, phase) ==
    queue' = Append(queue, [run |-> r, phase |-> phase, attempt |-> 0])

-----------------------------------------------------------------------------
(* Initial state: an empty database and a process that has just started.   *)

NoRequest == [pc |-> "idle", line |-> Absent, op |-> "check", id |-> NoRun]

\* pc, TRUE while it records an unexpected failure, the job's run and phase,
\* its copy of the run, the row selected before an update, the end it is
\* recording, the summary key it computed, its uncommitted writes
IdleWorker == [pc |-> "idle", recovery |-> FALSE, run |-> NoRun,
               phase |-> "execute", attempt |-> 0, dto |-> Absent,
               base |-> Absent, end |-> "failed", key |-> 0,
               row |-> Absent, summary |-> FALSE]

\* pc, the runs still to fail as list() returned them, the one in progress,
\* the row selected before the update, the summary key it computed, its
\* uncommitted writes
IdleMaint == [pc |-> "idle", todo |-> [r \in RunId |-> Absent], run |-> NoRun,
              base |-> Absent, key |-> 0,
              rows |-> [r \in RunId |-> Absent], summaries |-> <<>>]

Init ==
    /\ runs = [r \in RunId |-> Absent] /\ summaries = <<>>
    /\ locks = [l \in Lines |-> NoRun] /\ queue = <<>>
    /\ overdue = {}
    /\ req = [c \in Clients |-> NoRequest]
    /\ w = IdleWorker /\ m = IdleMaint
    /\ restarts = 0 /\ faults = 0
    /\ validated = {}

Fault   == faults < MaxFaults /\ faults' = faults + 1
NoFault == UNCHANGED faults

-----------------------------------------------------------------------------
(* Request threads: RunService._create_run, then the controller's commit.  *)

\* primary keys inserted by requests whose transactions are still open
Inserted(c) == req[c].pc \in {"inserted", "locked", "enqueued"}

clientFrame == UNCHANGED <<summaries, overdue, w, m, restarts, validated>>

EndRequest(c) == req' = [req EXCEPT ![c] = NoRequest]
MoveTo(c, pc) == req' = [req EXCEPT ![c].pc = pc]

\* the policy finds no active run of the line in the lock table
BeginRun(c, line, op) ==
    /\ req[c].pc = "idle"
    /\ locks[line] = NoRun
    /\ req' = [req EXCEPT ![c] = [pc |-> "checked", line |-> line, op |-> op,
                                 id |-> NoRun]]
    /\ UNCHANGED <<runs, memVars>> /\ clientFrame /\ NoFault

\* the active temporary set is missing or does not fit the module
RejectInputSet(c) ==
    /\ req[c].pc = "checked"
    /\ EndRequest(c)
    /\ UNCHANGED <<runs, memVars>> /\ clientFrame /\ NoFault

\* Mutant: the key comes from a sequence instead of max + 1.
NumberRunFromSequence(c) ==
    /\ req[c].pc = "checked"
    /\ \E r \in RunId :
        /\ ~ Exists(r) /\ \A d \in Clients : req[d].id # r
        /\ req' = [req EXCEPT ![c] = [@ EXCEPT !.id = r, !.pc = "numbered"]]
    /\ UNCHANGED <<runs, memVars>> /\ clientFrame /\ NoFault
NumberRun(c) ==
    /\ req[c].pc = "checked"
    /\ NextRunId \in RunId
    /\ req' = [req EXCEPT ![c] = [@ EXCEPT !.id = NextRunId, !.pc = "numbered"]]
    /\ UNCHANGED <<runs, memVars>> /\ clientFrame /\ NoFault

\* runs.add: waits for another request that inserted the same key, and fails
\* with an IntegrityError if that one has committed
InsertRun(c) ==
    /\ req[c].pc = "numbered"
    /\ \A d \in Clients : Inserted(d) => req[d].id # req[c].id
    /\ IF Exists(req[c].id) THEN EndRequest(c) ELSE MoveTo(c, "inserted")
    /\ UNCHANGED <<runs, memVars>> /\ clientFrame /\ NoFault

AcquireLock(c) ==
    /\ req[c].pc = "inserted"
    /\ locks[req[c].line] \in {NoRun, req[c].id}
    /\ locks' = [locks EXCEPT ![req[c].line] = req[c].id]
    /\ MoveTo(c, "locked")
    /\ UNCHANGED <<runs, queue>> /\ clientFrame /\ NoFault

\* ActiveRunConflictError: the run is deleted, the holder keeps its lock
LockConflict(c) ==
    /\ req[c].pc = "inserted"
    /\ locks[req[c].line] \notin {NoRun, req[c].id}
    /\ EndRequest(c)
    /\ UNCHANGED <<runs, memVars>> /\ clientFrame /\ NoFault

CopyAndEnqueue(c) ==
    /\ req[c].pc = "locked"
    /\ Enqueue(req[c].id, IF req[c].op = "process" THEN "validate" ELSE "execute")
    /\ MoveTo(c, "enqueued")
    /\ UNCHANGED <<runs, locks>> /\ clientFrame /\ NoFault

\* the first input cannot be copied: nothing refers to the run yet, so the
\* handler deletes it and releases the lock
FirstCopyFails(c) ==
    /\ Fault
    /\ req[c].pc = "locked"
    /\ Release(req[c].id, req[c].line)
    /\ EndRequest(c)
    /\ UNCHANGED <<runs, queue>> /\ clientFrame

\* a run_files row was flushed, or its flush failed: deleting the run raises
\* inside the handler, before the release
LaterCopyFails(c) ==
    /\ Fault
    /\ req[c].pc = "locked"
    /\ EndRequest(c)
    /\ UNCHANGED <<runs, memVars>> /\ clientFrame

CommitRun(c) ==
    /\ req[c].pc = "enqueued"
    /\ runs' = [runs EXCEPT ![req[c].id] = NewRow(req[c].line, req[c].op)]
    /\ EndRequest(c)
    /\ UNCHANGED memVars /\ clientFrame /\ NoFault

\* the row of the system log cannot be inserted, or the commit fails: outside the
\* handler, so neither the lock nor the job is taken back
CommitRunFails(c) ==
    /\ Fault
    /\ req[c].pc = "enqueued"
    /\ EndRequest(c)
    /\ UNCHANGED <<runs, memVars>> /\ clientFrame

CreateStep(c) ==
    \/ InsertRun(c) \/ AcquireLock(c) \/ LockConflict(c) \/ CopyAndEnqueue(c)
    \/ FirstCopyFails(c) \/ LaterCopyFails(c)
    \/ CommitRun(c) \/ CommitRunFails(c)

Client(c) ==
    \/ \E line \in Lines, op \in Ops : BeginRun(c, line, op)
    \/ RejectInputSet(c) \/ NumberRun(c) \/ CreateStep(c)

-----------------------------------------------------------------------------
(* The worker thread: InProcessRunWorkerRuntime._run_loop around           *)
(* RunService.execute_run.  From TakeJob to the end of the job it runs one *)
(* transaction, and a second one if an unexpected failure is to be         *)
(* recorded.                                                               *)

workerFrame == UNCHANGED <<overdue, req, m, restarts>>
workerOnly  == UNCHANGED <<dbVars, memVars, faults, validated>> /\ workerFrame

\* row locks and summary keys of the other thread's open transaction
WorkerHoldsRow(r) == w.row # Absent /\ w.run = r
MaintHoldsRow(r)  == m.rows[r] # Absent
WorkerHoldsKey(k) == w.summary /\ k = NextSummaryId
MaintHoldsKey(k)  == k \in Len(summaries) + 1 .. Len(summaries) + Len(m.summaries)

\* a transaction sees its own uncommitted write of the row
WorkerView == IF w.row = Absent THEN runs[w.run] ELSE w.row

\* an exception leaves the job's transaction: it is rolled back and the
\* failure is recorded in a second one; an exception there is only logged
Aborted == IF w.recovery THEN IdleWorker
           ELSE [IdleWorker EXCEPT !.pc = "recover", !.recovery = TRUE, !.run = w.run]

TakeJob ==
    /\ w.pc = "idle"
    /\ queue # <<>>
    /\ w' = [w EXCEPT !.pc = "load", !.run = Head(queue).run,
                     !.phase = Head(queue).phase, !.attempt = Head(queue).attempt]
    /\ queue' = Tail(queue)
    /\ UNCHANGED <<dbVars, locks, validated>> /\ workerFrame /\ NoFault

\* Mutant: one retry too many.
CanRetryOnceMore == w.attempt <= MaxRetries
CanRetry == w.attempt < MaxRetries

\* the creating request has not committed: the job goes back to the queue
\* max_run_visibility_retries times and is then dropped
RunNotVisible ==
    /\ w.pc = "load"
    /\ ~ Exists(w.run)
    /\ queue' = IF CanRetry
                THEN Append(queue, [run |-> w.run, phase |-> w.phase,
                                    attempt |-> w.attempt + 1])
                ELSE queue
    /\ w' = IdleWorker
    /\ UNCHANGED <<dbVars, locks, validated>> /\ workerFrame /\ NoFault

RunAlreadyFinal ==
    /\ w.pc \in {"load", "recover"}
    /\ Terminal(w.run)
    /\ w' = IdleWorker
    /\ workerOnly

\* Mutant: execute_run does not return early for a final run.
LoadAnyRun ==
    /\ w.pc = "load"
    /\ Exists(w.run)
    /\ w' = [w EXCEPT !.pc = "begin", !.dto = runs[w.run]]
    /\ workerOnly
LoadRun ==
    /\ w.pc = "load"
    /\ Active(w.run)
    /\ w' = [w EXCEPT !.pc = "begin", !.dto = runs[w.run]]
    /\ workerOnly

\* Mutant: the job's phase alone decides.
StageByPhase == IF w.dto.op = "check" THEN "checking"
                ELSE IF w.phase = "validate" THEN "validating" ELSE "processing"
\* the status the run moves to: a process run is validated first, whatever the
\* job's phase, while it is still "created"
Stage ==
    IF w.dto.op = "check" THEN "checking"
    ELSE IF w.phase = "validate" \/ w.dto.status = "created" THEN "validating"
    ELSE "processing"

SelectBeforeTransition ==
    /\ w.pc = "begin"
    /\ w' = [w EXCEPT !.pc = "transition", !.base = runs[w.run]]
    /\ workerOnly

Transition ==
    /\ w.pc = "transition"
    /\ ~ MaintHoldsRow(w.run)
    /\ LET moved == [w.dto EXCEPT !.status = Stage] IN
        w' = [w EXCEPT !.pc = IF Stage = "validating" THEN "validate" ELSE "execute",
                       !.dto = moved, !.base = Absent,
                       !.row = Merge(moved, w.base, runs[w.run])]
    /\ workerOnly

\* Mutant: the lock is released when the validation is over.
ValidateAndRelease ==
    /\ w.pc = "validate"
    /\ Enqueue(w.run, "execute")
    /\ Release(w.run, w.dto.line)
    /\ validated' = validated \cup {w.run}
    /\ w' = [w EXCEPT !.pc = "commit"]
    /\ UNCHANGED dbVars /\ workerFrame /\ NoFault
\* the validation of a process run succeeds: the execution job is queued
\* before the new status is committed
ValidateRun ==
    /\ w.pc = "validate"
    /\ Enqueue(w.run, "execute")
    /\ validated' = validated \cup {w.run}
    /\ w' = [w EXCEPT !.pc = "commit"]
    /\ UNCHANGED <<dbVars, locks>> /\ workerFrame /\ NoFault

ExecuteRun ==
    /\ w.pc = "execute"
    /\ w' = [w EXCEPT !.pc = "number", !.end = "completed"]
    /\ workerOnly

\* Mutant: a failed run gets no summary audit.
StrategyFailsSilently ==
    /\ w.pc \in {"validate", "execute"}
    /\ w' = [w EXCEPT !.pc = "select", !.end = "failed"]
    /\ workerOnly
\* ValidationFailedError, or any other exception of the strategy
StrategyFails ==
    /\ w.pc \in {"validate", "execute"}
    /\ w' = [w EXCEPT !.pc = "number", !.end = "failed"]
    /\ workerOnly

\* _next_summary_id
NumberSummary ==
    /\ w.pc = "number"
    /\ w' = [w EXCEPT !.pc = "summary", !.key = NextSummaryId]
    /\ workerOnly

\* Mutant: the summary audit is committed on its own.
InsertSummaryAtOnce ==
    /\ w.pc = "summary"
    /\ ~ MaintHoldsKey(w.key)
    /\ w.key > Len(summaries)
    /\ summaries' = Append(summaries, w.run)
    /\ w' = [w EXCEPT !.pc = "select"]
    /\ UNCHANGED <<runs, memVars, faults, validated>> /\ workerFrame
InsertSummary ==
    /\ w.pc = "summary"
    /\ ~ MaintHoldsKey(w.key)
    /\ w.key > Len(summaries)
    /\ w' = [w EXCEPT !.pc = "select", !.key = 0, !.summary = TRUE]
    /\ workerOnly

\* IntegrityError: the maintenance thread has committed a row with that key
SummaryKeyTaken ==
    /\ w.pc = "summary"
    /\ w.key <= Len(summaries)
    /\ w' = Aborted
    /\ workerOnly

\* each transaction waits for the other; the database aborts one of them
Deadlocked ==
    /\ w.pc = "summary" /\ MaintHoldsKey(w.key)
    /\ m.pc = "update" /\ WorkerHoldsRow(m.run)

WorkerIsVictim ==
    /\ Deadlocked
    /\ w' = Aborted
    /\ workerOnly

SelectBeforeFinish ==
    /\ w.pc = "select"
    /\ w' = [w EXCEPT !.pc = "update", !.base = WorkerView]
    /\ workerOnly

\* runs.update and, for a result, run_files.add
FinishRun ==
    /\ w.pc = "update"
    /\ ~ MaintHoldsRow(w.run)
    /\ LET final == IF w.end = "completed" THEN Completed(w.dto) ELSE Failed(w.dto) IN
        w' = [w EXCEPT !.pc = "release", !.base = Absent,
                       !.row = Merge(final, w.base, WorkerView)]
    /\ workerOnly

\* the primary key of the result file was taken by a request's input copies
ResultNotStored ==
    /\ Fault
    /\ w.pc = "update" /\ w.end = "completed" /\ w.dto.op = "process"
    /\ w' = Aborted
    /\ UNCHANGED <<dbVars, memVars, validated>> /\ workerFrame

\* Mutant: the lock is released for completed runs only.
WorkerReleasesOnSuccess ==
    /\ w.pc = "release"
    /\ IF w.end = "completed" THEN Release(w.run, w.dto.line) ELSE UNCHANGED locks
    /\ w' = [w EXCEPT !.pc = "commit"]
    /\ UNCHANGED <<dbVars, queue, validated>> /\ workerFrame /\ NoFault
\* release_by_run, before the commit
WorkerReleasesLock ==
    /\ w.pc = "release"
    /\ Release(w.run, w.dto.line)
    /\ w' = [w EXCEPT !.pc = "commit"]
    /\ UNCHANGED <<dbVars, queue, validated>> /\ workerFrame /\ NoFault

WorkerCommits ==
    /\ w.pc = "commit"
    /\ runs' = [runs EXCEPT ![w.run] = w.row]
    /\ summaries' = IF w.summary THEN Append(summaries, w.run) ELSE summaries
    /\ w' = IdleWorker
    /\ UNCHANGED <<memVars, validated>> /\ workerFrame /\ NoFault

\* the row of the system log cannot be inserted, or the commit fails
WorkerCommitFails ==
    /\ Fault
    /\ w.pc = "commit"
    /\ w' = Aborted
    /\ UNCHANGED <<dbVars, memVars, validated>> /\ workerFrame

\* finalize_runtime_execution_failure
RecoverRun ==
    /\ w.pc = "recover"
    /\ Active(w.run)
    /\ w' = [w EXCEPT !.pc = "number", !.dto = runs[w.run]]
    /\ workerOnly

Worker ==
    \/ TakeJob \/ RunNotVisible \/ RunAlreadyFinal \/ LoadRun
    \/ SelectBeforeTransition \/ Transition
    \/ ValidateRun \/ ExecuteRun \/ StrategyFails
    \/ NumberSummary \/ InsertSummary \/ SummaryKeyTaken \/ WorkerIsVictim
    \/ SelectBeforeFinish \/ FinishRun \/ ResultNotStored
    \/ WorkerReleasesLock \/ WorkerCommits \/ WorkerCommitFails
    \/ RecoverRun

-----------------------------------------------------------------------------
(* The maintenance thread: reconcile_timed_out_runs, one transaction for   *)
(* all the runs of a cycle, in the order of their ids.                     *)

maintFrame == UNCHANGED <<queue, overdue, req, w, restarts, validated>>
maintOnly  == UNCHANGED <<dbVars, locks, faults>> /\ maintFrame

Todo == {r \in RunId : m.todo[r] # Absent}

\* Mutant: runs that were never started are not listed.
StartedTimedOut(r) == r \in overdue /\ Active(r) /\ runs[r].status # "created"
TimedOut(r) == r \in overdue /\ Active(r)

\* a cycle that lists no overdue active run changes nothing
ListOverdueRuns ==
    /\ m.pc = "idle"
    /\ \E r \in RunId : TimedOut(r)
    /\ m' = [m EXCEPT !.pc = "next",
                     !.todo = [r \in RunId |-> IF TimedOut(r) THEN runs[r] ELSE Absent]]
    /\ maintOnly

NextOverdueRun ==
    /\ m.pc = "next"
    /\ \E r \in Todo :
        /\ \A s \in Todo : r <= s
        /\ m' = [m EXCEPT !.pc = "summary", !.run = r,
                         !.key = NextSummaryId + Len(m.summaries)]
    /\ maintOnly

InsertTimeoutSummary ==
    /\ m.pc = "summary"
    /\ ~ WorkerHoldsKey(m.key)
    /\ m.key > Len(summaries)
    /\ m' = [m EXCEPT !.pc = "select", !.key = 0, !.summaries = Append(@, m.run)]
    /\ maintOnly

\* IntegrityError: the cycle is rolled back, its lock releases are not
TimeoutSummaryKeyTaken ==
    /\ m.pc = "summary"
    /\ m.key <= Len(summaries)
    /\ m' = IdleMaint
    /\ maintOnly

SelectOverdueRun ==
    /\ m.pc = "select"
    /\ m' = [m EXCEPT !.pc = "update", !.base = runs[m.run]]
    /\ maintOnly

FailOverdueRun ==
    /\ m.pc = "update"
    /\ ~ WorkerHoldsRow(m.run)
    /\ m' = [m EXCEPT !.pc = "release", !.base = Absent,
                     !.rows[m.run] = Merge(Failed(m.todo[m.run]), m.base, runs[m.run])]
    /\ maintOnly

MaintIsVictim ==
    /\ Deadlocked
    /\ m' = IdleMaint
    /\ maintOnly

\* Mutant: a run failed by the reconciliation keeps its lock.
MaintKeepsLock ==
    /\ m.pc = "release"
    /\ m' = [m EXCEPT !.pc = IF Todo = {m.run} THEN "commit" ELSE "next",
                     !.todo[m.run] = Absent]
    /\ maintOnly
MaintReleasesLock ==
    /\ m.pc = "release"
    /\ Release(m.run, m.todo[m.run].line)
    /\ m' = [m EXCEPT !.pc = IF Todo = {m.run} THEN "commit" ELSE "next",
                     !.todo[m.run] = Absent]
    /\ UNCHANGED dbVars /\ maintFrame /\ NoFault

MaintCommits ==
    /\ m.pc = "commit"
    /\ runs' = [r \in RunId |-> IF MaintHoldsRow(r) THEN m.rows[r] ELSE runs[r]]
    /\ summaries' = summaries \o m.summaries
    /\ m' = IdleMaint
    /\ UNCHANGED locks /\ maintFrame /\ NoFault

\* the row of the system log written after a release cannot be inserted, or the
\* commit fails
MaintCommitFails ==
    /\ Fault
    /\ m.pc = "commit" \/ (m.pc = "next" /\ m.summaries # <<>>)
    /\ m' = IdleMaint
    /\ UNCHANGED <<dbVars, locks>> /\ maintFrame

Maintenance ==
    \/ ListOverdueRuns \/ NextOverdueRun
    \/ InsertTimeoutSummary \/ TimeoutSummaryKeyTaken
    \/ SelectOverdueRun \/ FailOverdueRun \/ MaintIsVictim
    \/ MaintReleasesLock \/ MaintCommits \/ MaintCommitFails

-----------------------------------------------------------------------------
(* The environment, and the specification.                                 *)

RunBecomesOverdue(r) ==
    /\ HardTimeouts
    /\ Active(r)
    /\ r \notin overdue
    /\ overdue' = overdue \cup {r}
    /\ UNCHANGED <<dbVars, memVars, req, w, m, restarts, faults, validated>>

\* the process stops and starts again: open transactions are rolled back, the
\* lock table and the queue start empty
Restart ==
    /\ restarts < MaxRestarts
    /\ restarts' = restarts + 1
    /\ locks' = [l \in Lines |-> NoRun] /\ queue' = <<>>
    /\ req' = [c \in Clients |-> NoRequest]
    /\ w' = IdleWorker /\ m' = IdleMaint
    /\ UNCHANGED <<dbVars, overdue, faults, validated>>

Next ==
    \/ \E c \in Clients : Client(c)
    \/ Worker
    \/ Maintenance
    \/ \E r \in RunId : RunBecomesOverdue(r)
    \/ Restart

Spec == Init /\ [][Next]_vars

\* The two daemon threads keep running, a request that has started to write is
\* run to its end, and wall-clock time passes.  An INSERT of the worker that
\* waits for the maintenance transaction is woken when that one ends, long
\* before the maintenance thread starts its next cycle: hence strong fairness.
FairSpec ==
    /\ Spec
    /\ WF_vars(Worker)
    /\ WF_vars(Maintenance)
    /\ SF_vars(InsertSummary)
    /\ \A c \in Clients : WF_vars(CreateStep(c))
    /\ \A r \in RunId : WF_vars(RunBecomesOverdue(r))

-----------------------------------------------------------------------------
(* Type invariant.                                                         *)

Pc == [client |-> {"idle", "checked", "numbered", "inserted", "locked", "enqueued"},
       worker |-> {"idle", "load", "begin", "transition", "validate", "execute",
                   "number", "summary", "select", "update", "release", "commit",
                   "recover"},
       maint  |-> {"idle", "next", "summary", "select", "update", "release", "commit"}]

RowOrAbsent == Row \cup {Absent}

Request == [pc : Pc.client, line : Lines \cup {Absent}, op : Ops,
            id : RunId \cup {NoRun}]
WorkerState == [pc : Pc.worker, recovery : BOOLEAN, run : RunId \cup {NoRun},
                phase : {"validate", "execute"}, attempt : 0..MaxRetries,
                dto : RowOrAbsent, base : RowOrAbsent, end : Final, key : Nat,
                row : RowOrAbsent, summary : BOOLEAN]
MaintState == [pc : Pc.maint, todo : [RunId -> RowOrAbsent],
               run : RunId \cup {NoRun}, base : RowOrAbsent, key : Nat,
               rows : [RunId -> RowOrAbsent], summaries : Seq(RunId)]

\* Every variable keeps its type; in particular a job is never retried more
\* often than max_run_visibility_retries allows.
TypeOK ==
    /\ runs \in [RunId -> RowOrAbsent]
    /\ summaries \in Seq(RunId)
    /\ locks \in [Lines -> RunId \cup {NoRun}]
    /\ queue \in Seq(Job)
    /\ overdue \subseteq RunId
    /\ req \in [Clients -> Request]
    /\ w \in WorkerState
    /\ m \in MaintState
    /\ restarts \in Nat /\ faults \in Nat
    /\ validated \subseteq RunId

-----------------------------------------------------------------------------
(* What holds in every environment.                                        *)

\* Two requests never hold uncommitted runs at the same time: the key max + 1
\* is the same for both, so the second INSERT waits for the first commit.
\* This is what makes the check-then-set of acquire() safe without a mutex.
CreatesSerialised ==
    \A c, d \in Clients : Inserted(c) /\ Inserted(d) => c = d

\* From acquire() to its commit, the creating request owns its line's lock:
\* neither the worker, nor the reconciliation, nor a stale job of an earlier
\* run with the same id takes it away.
CreatorHoldsLock ==
    \A c \in Clients : req[c].pc \in {"locked", "enqueued"} =>
        locks[req[c].line] = req[c].id

\* A run that reached a final status no longer holds the lock of its line,
\* whoever finalised it and however the worker and the reconciliation raced.
FinalRunHoldsNoLock ==
    \A r \in RunId : Terminal(r) => locks[runs[r].line] # r

\* No silent end: a final run has a summary audit, committed with it.
FinalRunIsSummarised ==
    \A r \in RunId : Terminal(r) => \E i \in 1..Len(summaries) : summaries[i] = r

\* A completed run says so in all its columns, also when it was finalised on
\* top of another thread's update of the row.
CompletedRunIsConsistent ==
    \A r \in RunId : Exists(r) /\ runs[r].status = "completed" =>
        /\ runs[r].business = "success"
        /\ runs[r].result = (runs[r].op = "process")

\* A process run completes only after a validation of that run succeeded,
\* even if a stale "execute" job of a rolled-back run with its id is served.
ValidatedBeforeCompleted ==
    \A r \in RunId :
        Exists(r) /\ runs[r].status = "completed" /\ runs[r].op = "process"
            => r \in validated

-----------------------------------------------------------------------------
(* What holds while no run exceeds its hard timeout.                       *)

\* Whatever the worker's several steps, retries, stale jobs, failed commits and
\* restarts, the committed runs and summaries change only as RunContract says.
Contract == INSTANCE RunContract WITH summarised <- Range(summaries)
ImplementsContract == Contract!Spec

\* A final status never changes again.
FinalStatusIsFinal ==
    [][\A r \in RunId : Terminal(r) => runs'[r].status = runs[r].status]_runs

\* A run is summarised once.
OneSummaryPerRun ==
    \A i, j \in 1..Len(summaries) : summaries[i] = summaries[j] => i = j

-----------------------------------------------------------------------------
(* What holds while commits and file operations succeed.                   *)

\* While nothing has failed, a lock is the lock of a request that will commit its
\* run, or of an active run: no step of the worker or of the reconciliation leaves
\* a lock behind.
LockHasOwner ==
    faults = 0 => \A l \in Lines : locks[l] # NoRun =>
        \/ \E c \in Clients : /\ req[c].pc \in {"locked", "enqueued"}
                              /\ req[c].line = l /\ req[c].id = locks[l]
        \/ Active(locks[l]) /\ runs[locks[l]].line = l

\* Without timeouts, and until something fails or the process restarts, an active
\* run holds its line's lock until the worker, about to commit its final status,
\* has released it.
ActiveRunHoldsLock ==
    faults = 0 /\ restarts = 0 => \A r \in RunId : Active(r) =>
        \/ locks[runs[r].line] = r
        \/ w.pc = "commit" /\ w.run = r /\ w.row.status \in Final

-----------------------------------------------------------------------------
(* Liveness.                                                               *)

\* A committed run does not stay active for ever: the worker finishes it or
\* the reconciliation fails it, after a restart too.
EveryRunEnds == \A r \in RunId : Exists(r) ~> Terminal(r)

\* A lock is not held for ever.
EveryLockIsReleased == \A l \in Lines : (locks[l] # NoRun) ~> (locks[l] = NoRun)

=============================================================================
