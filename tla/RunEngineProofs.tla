--------------------------- MODULE RunEngineProofs ---------------------------
(* Theorems about RunEngine, for every number of lines, clients, runs,       *)
(* retries, restarts and faults: first about types and locks, then about     *)
(* what the database says of a run, and last, while no run exceeds its hard  *)
(* timeout, that the committed rows follow RunContract.                      *)
EXTENDS RunEngine, TLAPS

Numbered(c) == req[c].pc = "numbered" \/ Inserted(c)

\* The primary keys in use are 1..k: committed runs are never deleted and the
\* next key is max + 1.
RunsDense == \E k \in 0..MaxRuns : \A r \in RunId : Exists(r) <=> r <= k

\* A numbered request holds the key that was free next when it looked; from
\* its insert to its commit, nobody else's commit takes that key.
RequestOK ==
    \A c \in Clients :
        /\ req[c].pc # "idle" => req[c].line \in Lines
        /\ Numbered(c) => /\ req[c].id \in RunId
                          /\ \A r \in RunId : r < req[c].id => Exists(r)
        /\ Inserted(c) => ~ Exists(req[c].id)

\* Once it has read the run, the worker works on a committed run whose line
\* its copies agree about; a final row it is about to commit has lost the lock.
WorkerOK ==
    /\ w.pc # "idle" => w.run \in RunId
    /\ w.pc \notin {"idle", "load", "recover"} =>
        /\ Exists(w.run)
        /\ w.dto # Absent /\ w.dto.line = runs[w.run].line
    /\ w.pc \in {"validate", "release", "commit"} => w.row # Absent
    /\ w.pc \in {"idle", "load", "recover"} => w.row = Absent
    /\ w.row # Absent =>
        /\ w.row.line = runs[w.run].line
        /\ w.row.status \in Final /\ w.pc # "release" =>
            locks[runs[w.run].line] # w.run

\* The same for the reconciliation: every run it has updated has lost its lock,
\* except the one whose lock it is about to release.
MaintOK ==
    /\ m.pc \in {"summary", "select", "update", "release"} =>
        m.run \in RunId /\ m.todo[m.run] # Absent
    /\ \A r \in RunId : m.todo[r] # Absent =>
        Exists(r) /\ m.todo[r].line = runs[r].line
    /\ \A r \in RunId : m.rows[r] # Absent =>
        /\ Exists(r) /\ m.rows[r].line = runs[r].line
        /\ locks[runs[r].line] # r \/ (m.pc = "release" /\ m.run = r)

IInv ==
    /\ TypeOK
    /\ RunsDense
    /\ RequestOK
    /\ CreatesSerialised
    /\ CreatorHoldsLock
    /\ FinalRunHoldsNoLock
    /\ WorkerOK
    /\ MaintOK

USE RunEngineAssumption

LEMMA InitIInv == Init => IInv
<1> SUFFICES ASSUME Init PROVE IInv
  OBVIOUS
<1>1. TypeOK
  <2>1. NoRequest \in Request
    BY DEF NoRequest, Request, Pc, Ops, NoRun
  <2>2. IdleWorker \in WorkerState
    BY DEF IdleWorker, WorkerState, Pc, RowOrAbsent, Final, NoRun
  <2>3. IdleMaint \in MaintState
    BY DEF IdleMaint, MaintState, Pc, RowOrAbsent, NoRun
  <2> QED
    BY <2>1, <2>2, <2>3 DEF Init, TypeOK, RowOrAbsent, NoRun
<1>2. \A r \in RunId : ~ Exists(r)
  BY DEF Init, Exists
<1>3. RunsDense
  BY <1>2 DEF RunsDense, RunId
<1>4. RequestOK /\ CreatesSerialised /\ CreatorHoldsLock
  BY DEF Init, RequestOK, CreatesSerialised, CreatorHoldsLock, Numbered, Inserted,
    NoRequest
<1>5. FinalRunHoldsNoLock
  BY <1>2 DEF FinalRunHoldsNoLock, Terminal
<1>6. WorkerOK
  BY DEF Init, WorkerOK, IdleWorker
<1>7. MaintOK
  BY DEF Init, MaintOK, IdleMaint
<1> QED
  BY <1>1, <1>3, <1>4, <1>5, <1>6, <1>7 DEF IInv

LEMMA NewRowType ==
    \A line \in Lines, op \in Ops :
        NewRow(line, op) \in Row /\ NewRow(line, op) # Absent
<1>1. \A line \in Lines, op \in Ops : NewRow(line, op) \in Row
  BY DEF NewRow, Row, Status, Final
<1> QED
  BY <1>1, RunEngineAssumption DEF RunEngineAssumption

\* max + 1 is the smallest key that is not in use
LEMMA NextRunIdFree ==
    ASSUME RunsDense, NextRunId \in RunId
    PROVE  /\ ~ Exists(NextRunId)
           /\ \A r \in RunId : r < NextRunId => Exists(r)
<1>1. PICK k \in 0..MaxRuns : \A r \in RunId : Exists(r) <=> r <= k
  BY DEF RunsDense
<1> DEFINE S == {r \in RunId : Exists(r)} \cup {0}
<1>2. S = 0..k
  BY <1>1 DEF RunId
<1>3. Max(S) = k
  BY <1>2 DEF Max
<1>4. NextRunId = k + 1
  BY <1>3 DEF NextRunId
<1> QED
  BY <1>1, <1>4 DEF RunId

\* a request record changes at one client, to another request record
LEMMA RequestType ==
    ASSUME TypeOK, NEW c \in Clients
    PROVE  /\ EndRequest(c) => req' \in [Clients -> Request]
           /\ \A pc \in Pc.client : MoveTo(c, pc) => req' \in [Clients -> Request]
           /\ \A line \in Lines, op \in Ops :
                [pc |-> "checked", line |-> line, op |-> op, id |-> NoRun] \in Request
           /\ \A r \in RunId :
                [req[c] EXCEPT !.id = r, !.pc = "numbered"] \in Request
<1>1. req[c] \in Request
  BY DEF TypeOK
<1>2. EndRequest(c) => req' \in [Clients -> Request]
  BY DEF TypeOK, Request, Pc, EndRequest, NoRequest, Ops, NoRun
<1>3. ASSUME NEW pc \in Pc.client, MoveTo(c, pc)
      PROVE  req' \in [Clients -> Request]
  BY <1>3 DEF TypeOK, Request, MoveTo
<1>4. \A line \in Lines, op \in Ops :
        [pc |-> "checked", line |-> line, op |-> op, id |-> NoRun] \in Request
  BY DEF Request, Pc, NoRun
<1>5. \A r \in RunId : [req[c] EXCEPT !.id = r, !.pc = "numbered"] \in Request
  BY <1>1 DEF Request, Pc
<1> QED
  BY <1>2, <1>3, <1>4, <1>5

LEMMA FaultType == TypeOK /\ Fault => faults' \in Nat
BY DEF TypeOK, Fault

LEMMA ReleaseType ==
    ASSUME TypeOK, NEW r, NEW line, Release(r, line)
    PROVE  locks' \in [Lines -> RunId \cup {NoRun}]
BY DEF TypeOK, Release

-----------------------------------------------------------------------------
(* Request threads.                                                        *)

LEMMA ClientStep ==
    ASSUME IInv, NEW c \in Clients, Client(c)
    PROVE  IInv'
<1> USE DEF IInv, Exists, Terminal, Final, Inserted, Numbered, clientFrame, memVars,
        NoFault, Fault, NoRun, NoRequest, EndRequest, MoveTo, RunId
<1>1. ASSUME NEW line \in Lines, NEW op \in Ops, BeginRun(c, line, op)
      PROVE  IInv'
  <2>1. TypeOK'
    BY <1>1, RequestType DEF BeginRun, TypeOK
  <2>2. RunsDense'
    BY <1>1 DEF BeginRun, RunsDense
  <2>3. RequestOK'
    BY <1>1 DEF BeginRun, RequestOK, TypeOK, Request
  <2>4. CreatesSerialised'
    BY <1>1 DEF BeginRun, CreatesSerialised, RequestOK, TypeOK, Request
  <2>5. CreatorHoldsLock'
    BY <1>1 DEF BeginRun, CreatorHoldsLock, CreatesSerialised, RequestOK, TypeOK, Request
  <2>6. FinalRunHoldsNoLock'
    BY <1>1 DEF BeginRun, FinalRunHoldsNoLock, RequestOK
  <2>7. WorkerOK'
    BY <1>1 DEF BeginRun, WorkerOK, RequestOK
  <2>8. MaintOK'
    BY <1>1 DEF BeginRun, MaintOK, RequestOK
  <2> QED
    BY <2>1, <2>2, <2>3, <2>4, <2>5, <2>6, <2>7, <2>8
<1>2. CASE RejectInputSet(c)
  <2>1. TypeOK'
    BY <1>2, RequestType DEF RejectInputSet, TypeOK
  <2>2. RunsDense'
    BY <1>2 DEF RejectInputSet, RunsDense
  <2>3. RequestOK'
    BY <1>2 DEF RejectInputSet, RequestOK, TypeOK, Request
  <2>4. CreatesSerialised'
    BY <1>2 DEF RejectInputSet, CreatesSerialised, RequestOK, TypeOK, Request
  <2>5. CreatorHoldsLock'
    BY <1>2 DEF RejectInputSet, CreatorHoldsLock, CreatesSerialised, RequestOK, TypeOK, Request
  <2>6. FinalRunHoldsNoLock'
    BY <1>2 DEF RejectInputSet, FinalRunHoldsNoLock, RequestOK
  <2>7. WorkerOK'
    BY <1>2 DEF RejectInputSet, WorkerOK, RequestOK
  <2>8. MaintOK'
    BY <1>2 DEF RejectInputSet, MaintOK, RequestOK
  <2> QED
    BY <2>1, <2>2, <2>3, <2>4, <2>5, <2>6, <2>7, <2>8
<1>3. CASE NumberRun(c)
  <2>1. TypeOK'
    BY <1>3, RequestType DEF NumberRun, TypeOK
  <2>2. RunsDense'
    BY <1>3 DEF NumberRun, RunsDense
  <2>3. RequestOK'
    BY <1>3, NextRunIdFree DEF NumberRun, RequestOK, TypeOK, Request
  <2>4. CreatesSerialised'
    BY <1>3 DEF NumberRun, CreatesSerialised, RequestOK, TypeOK, Request
  <2>5. CreatorHoldsLock'
    BY <1>3 DEF NumberRun, CreatorHoldsLock, CreatesSerialised, RequestOK, TypeOK, Request
  <2>6. FinalRunHoldsNoLock'
    BY <1>3 DEF NumberRun, FinalRunHoldsNoLock, RequestOK
  <2>7. WorkerOK'
    BY <1>3 DEF NumberRun, WorkerOK, RequestOK
  <2>8. MaintOK'
    BY <1>3 DEF NumberRun, MaintOK, RequestOK
  <2> QED
    BY <2>1, <2>2, <2>3, <2>4, <2>5, <2>6, <2>7, <2>8
<1>4. CASE InsertRun(c)
  <2>1. TypeOK'
    BY <1>4, RequestType DEF InsertRun, TypeOK, Pc
  <2>2. RunsDense'
    BY <1>4 DEF InsertRun, RunsDense
  <2>3. RequestOK'
    <3>1. CASE Exists(req[c].id)
      BY <1>4, <3>1 DEF InsertRun, RequestOK, TypeOK, Request
    <3>2. CASE ~ Exists(req[c].id)
      <4>1. req' = [req EXCEPT ![c].pc = "inserted"] /\ runs' = runs
        BY <1>4, <3>2 DEF InsertRun
      <4>2. req[c].pc = "numbered"
        BY <1>4 DEF InsertRun
      <4> QED
        BY <3>2, <4>1, <4>2 DEF RequestOK, TypeOK, Request
    <3> QED
      BY <3>1, <3>2
  <2>4. CreatesSerialised'
    <3>1. CASE Exists(req[c].id)
      <4>1. req' = [req EXCEPT ![c] = NoRequest]
        BY <1>4, <3>1 DEF InsertRun
      <4>2. \A d \in Clients : Inserted(d)' => Inserted(d)
        BY <4>1 DEF TypeOK, Inserted, NoRequest
      <4> QED
        BY <4>2 DEF CreatesSerialised
    <3>2. CASE ~ Exists(req[c].id)
      <4>1. req' = [req EXCEPT ![c].pc = "inserted"] /\ req[c].pc = "numbered"
        BY <1>4, <3>2 DEF InsertRun
      <4>2. ASSUME NEW d \in Clients, Inserted(d) PROVE FALSE
        <5>1. req[d].id # req[c].id
          BY <1>4, <4>2 DEF InsertRun
        <5>2. /\ req[c].id \in RunId
              /\ \A r \in RunId : r < req[c].id => Exists(r)
          BY <4>1 DEF RequestOK
        <5>3. /\ req[d].id \in RunId /\ ~ Exists(req[d].id)
              /\ \A r \in RunId : r < req[d].id => Exists(r)
          BY <4>2 DEF RequestOK, Inserted
        <5> QED
          BY <3>2, <5>1, <5>2, <5>3 DEF RunId
      <4>3. \A d \in Clients : Inserted(d)' => d = c
        BY <4>1, <4>2 DEF TypeOK, Inserted
      <4> QED
        BY <4>3 DEF CreatesSerialised
    <3> QED
      BY <3>1, <3>2
  <2>5. CreatorHoldsLock'
    <3>1. locks' = locks
      BY <1>4 DEF InsertRun
    <3>2. \A d \in Clients : req'[d].pc \in {"locked", "enqueued"} => req'[d] = req[d]
      BY <1>4 DEF InsertRun, EndRequest, MoveTo, NoRequest, TypeOK, Request
    <3> QED
      BY <3>1, <3>2 DEF CreatorHoldsLock
  <2>6. FinalRunHoldsNoLock'
    BY <1>4 DEF InsertRun, FinalRunHoldsNoLock, RequestOK
  <2>7. WorkerOK'
    BY <1>4 DEF InsertRun, WorkerOK, RequestOK
  <2>8. MaintOK'
    BY <1>4 DEF InsertRun, MaintOK, RequestOK
  <2> QED
    BY <2>1, <2>2, <2>3, <2>4, <2>5, <2>6, <2>7, <2>8
<1>5. CASE AcquireLock(c)
  <2>1. TypeOK'
    BY <1>5, RequestType DEF AcquireLock, RequestOK, TypeOK, Pc
  <2>2. RunsDense'
    BY <1>5 DEF AcquireLock, RunsDense
  <2>3. RequestOK'
    BY <1>5 DEF AcquireLock, RequestOK, TypeOK, Request
  <2>4. CreatesSerialised'
    BY <1>5 DEF AcquireLock, CreatesSerialised, RequestOK, TypeOK, Request
  <2>5. CreatorHoldsLock'
    BY <1>5 DEF AcquireLock, CreatorHoldsLock, CreatesSerialised, RequestOK, TypeOK, Request
  <2>6. FinalRunHoldsNoLock'
    BY <1>5 DEF AcquireLock, FinalRunHoldsNoLock, RequestOK
  <2>7. WorkerOK'
    BY <1>5 DEF AcquireLock, WorkerOK, RequestOK
  <2>8. MaintOK'
    BY <1>5 DEF AcquireLock, MaintOK, RequestOK
  <2> QED
    BY <2>1, <2>2, <2>3, <2>4, <2>5, <2>6, <2>7, <2>8
<1>6. CASE LockConflict(c)
  <2>1. TypeOK'
    BY <1>6, RequestType DEF LockConflict, TypeOK
  <2>2. RunsDense'
    BY <1>6 DEF LockConflict, RunsDense
  <2>3. RequestOK'
    BY <1>6 DEF LockConflict, RequestOK, TypeOK, Request
  <2>4. CreatesSerialised'
    BY <1>6 DEF LockConflict, CreatesSerialised, RequestOK, TypeOK, Request
  <2>5. CreatorHoldsLock'
    BY <1>6 DEF LockConflict, CreatorHoldsLock, CreatesSerialised, RequestOK, TypeOK, Request
  <2>6. FinalRunHoldsNoLock'
    BY <1>6 DEF LockConflict, FinalRunHoldsNoLock, RequestOK
  <2>7. WorkerOK'
    BY <1>6 DEF LockConflict, WorkerOK, RequestOK
  <2>8. MaintOK'
    BY <1>6 DEF LockConflict, MaintOK, RequestOK
  <2> QED
    BY <2>1, <2>2, <2>3, <2>4, <2>5, <2>6, <2>7, <2>8
<1>7. CASE CopyAndEnqueue(c)
  <2>1. TypeOK'
    <3>1. [run |-> req[c].id, phase |-> IF req[c].op = "process" THEN "validate" ELSE "execute",
           attempt |-> 0] \in Job
      BY <1>7 DEF CopyAndEnqueue, RequestOK, Job
    <3>2. queue' \in Seq(Job)
      BY <1>7, <3>1 DEF CopyAndEnqueue, Enqueue, TypeOK
    <3> QED
      BY <1>7, <3>2, RequestType DEF CopyAndEnqueue, TypeOK, Pc
  <2>2. RunsDense'
    BY <1>7 DEF CopyAndEnqueue, RunsDense, Enqueue
  <2>3. RequestOK'
    BY <1>7 DEF CopyAndEnqueue, RequestOK, TypeOK, Request, Enqueue
  <2>4. CreatesSerialised'
    BY <1>7 DEF CopyAndEnqueue, CreatesSerialised, RequestOK, TypeOK, Request, Enqueue
  <2>5. CreatorHoldsLock'
    BY <1>7 DEF CopyAndEnqueue, CreatorHoldsLock, CreatesSerialised, RequestOK, TypeOK, Request, Enqueue
  <2>6. FinalRunHoldsNoLock'
    BY <1>7 DEF CopyAndEnqueue, FinalRunHoldsNoLock, RequestOK, Enqueue
  <2>7. WorkerOK'
    BY <1>7 DEF CopyAndEnqueue, WorkerOK, RequestOK, Enqueue
  <2>8. MaintOK'
    BY <1>7 DEF CopyAndEnqueue, MaintOK, RequestOK, Enqueue
  <2> QED
    BY <2>1, <2>2, <2>3, <2>4, <2>5, <2>6, <2>7, <2>8
<1>8. CASE FirstCopyFails(c)
  <2>1. TypeOK'
    BY <1>8, RequestType, ReleaseType, FaultType DEF FirstCopyFails, TypeOK
  <2>2. RunsDense'
    BY <1>8 DEF FirstCopyFails, RunsDense, Release
  <2>3. RequestOK'
    BY <1>8 DEF FirstCopyFails, RequestOK, TypeOK, Request, Release
  <2>4. CreatesSerialised'
    BY <1>8 DEF FirstCopyFails, CreatesSerialised, RequestOK, TypeOK, Request, Release
  <2>5. CreatorHoldsLock'
    BY <1>8 DEF FirstCopyFails, CreatorHoldsLock, CreatesSerialised, RequestOK, TypeOK, Request, Release
  <2>6. FinalRunHoldsNoLock'
    BY <1>8 DEF FirstCopyFails, FinalRunHoldsNoLock, RequestOK, Release
  <2>7. WorkerOK'
    BY <1>8 DEF FirstCopyFails, WorkerOK, RequestOK, Release
  <2>8. MaintOK'
    BY <1>8 DEF FirstCopyFails, MaintOK, RequestOK, Release
  <2> QED
    BY <2>1, <2>2, <2>3, <2>4, <2>5, <2>6, <2>7, <2>8
<1>9. CASE LaterCopyFails(c)
  <2>1. TypeOK'
    BY <1>9, RequestType, FaultType DEF LaterCopyFails, TypeOK
  <2>2. RunsDense'
    BY <1>9 DEF LaterCopyFails, RunsDense
  <2>3. RequestOK'
    BY <1>9 DEF LaterCopyFails, RequestOK, TypeOK, Request
  <2>4. CreatesSerialised'
    BY <1>9 DEF LaterCopyFails, CreatesSerialised, RequestOK, TypeOK, Request
  <2>5. CreatorHoldsLock'
    BY <1>9 DEF LaterCopyFails, CreatorHoldsLock, CreatesSerialised, RequestOK, TypeOK, Request
  <2>6. FinalRunHoldsNoLock'
    BY <1>9 DEF LaterCopyFails, FinalRunHoldsNoLock, RequestOK
  <2>7. WorkerOK'
    BY <1>9 DEF LaterCopyFails, WorkerOK, RequestOK
  <2>8. MaintOK'
    BY <1>9 DEF LaterCopyFails, MaintOK, RequestOK
  <2> QED
    BY <2>1, <2>2, <2>3, <2>4, <2>5, <2>6, <2>7, <2>8
<1>10. CASE CommitRun(c)
  <2>0. /\ NewRow(req[c].line, req[c].op) \in Row
        /\ NewRow(req[c].line, req[c].op) # Absent
    <3>1. req[c].pc = "enqueued"
      BY <1>10 DEF CommitRun
    <3>2. req[c].line \in Lines /\ req[c].op \in Ops
      BY <3>1 DEF RequestOK, TypeOK, Request
    <3> QED
      BY <3>2, NewRowType
  <2>1. TypeOK'
    BY <1>10, <2>0, RequestType DEF CommitRun, TypeOK, RowOrAbsent
  <2>2. RunsDense'
    <3>2. PICK k \in 0..MaxRuns : \A r \in RunId : Exists(r) <=> r <= k
      BY DEF RunsDense
    <3>3. req[c].id = k + 1
      BY <1>10, <3>2 DEF CommitRun, RequestOK
    <3>4. \A r \in RunId : Exists(r)' <=> r <= k + 1
      BY <1>10, <2>0, <3>2, <3>3 DEF CommitRun, TypeOK, RequestOK
    <3>5. k + 1 \in 0..MaxRuns
      BY <1>10, <3>3 DEF CommitRun, RequestOK
    <3> QED
      BY <3>4, <3>5 DEF RunsDense
  <2>3. RequestOK'
    BY <1>10, <2>0 DEF CommitRun, CreatesSerialised, RequestOK, TypeOK, Request
  <2>4. CreatesSerialised'
    BY <1>10 DEF CommitRun, CreatesSerialised, RequestOK, TypeOK, Request, NewRow
  <2>5. CreatorHoldsLock'
    BY <1>10 DEF CommitRun, CreatorHoldsLock, CreatesSerialised, RequestOK, TypeOK, Request, NewRow
  <2>6. FinalRunHoldsNoLock'
    BY <1>10 DEF CommitRun, FinalRunHoldsNoLock, RequestOK, NewRow
  <2>7. WorkerOK'
    BY <1>10 DEF CommitRun, WorkerOK, RequestOK, NewRow
  <2>8. MaintOK'
    BY <1>10 DEF CommitRun, MaintOK, RequestOK, NewRow
  <2> QED
    BY <2>1, <2>2, <2>3, <2>4, <2>5, <2>6, <2>7, <2>8
<1>11. CASE CommitRunFails(c)
  <2>1. TypeOK'
    BY <1>11, RequestType, FaultType DEF CommitRunFails, TypeOK
  <2>2. RunsDense'
    BY <1>11 DEF CommitRunFails, RunsDense
  <2>3. RequestOK'
    BY <1>11 DEF CommitRunFails, RequestOK, TypeOK, Request
  <2>4. CreatesSerialised'
    BY <1>11 DEF CommitRunFails, CreatesSerialised, RequestOK, TypeOK, Request
  <2>5. CreatorHoldsLock'
    BY <1>11 DEF CommitRunFails, CreatorHoldsLock, CreatesSerialised, RequestOK, TypeOK, Request
  <2>6. FinalRunHoldsNoLock'
    BY <1>11 DEF CommitRunFails, FinalRunHoldsNoLock, RequestOK
  <2>7. WorkerOK'
    BY <1>11 DEF CommitRunFails, WorkerOK, RequestOK
  <2>8. MaintOK'
    BY <1>11 DEF CommitRunFails, MaintOK, RequestOK
  <2> QED
    BY <2>1, <2>2, <2>3, <2>4, <2>5, <2>6, <2>7, <2>8
<1> QED
  BY <1>1, <1>2, <1>3, <1>4, <1>5, <1>6, <1>7, <1>8, <1>9, <1>10, <1>11
  DEF Client, CreateStep

-----------------------------------------------------------------------------
(* The worker thread.                                                      *)

\* an update keeps the line of the row it is applied to, and its status is
\* the copy's or the row's
LEMMA MergeType ==
    ASSUME NEW dto \in Row, NEW base, NEW current \in Row
    PROVE  /\ Merge(dto, base, current) \in Row
           /\ Merge(dto, base, current).line = current.line
           /\ Merge(dto, base, current).status \in {dto.status, current.status}
BY DEF Merge, Row

LEMMA FinalRowType ==
    ASSUME NEW row \in Row
    PROVE  /\ Completed(row) \in Row /\ Completed(row).status = "completed"
           /\ Failed(row) \in Row /\ Failed(row).status = "failed"
BY DEF Completed, Failed, Row, Status, Final

LEMMA StageType ==
    ASSUME w \in WorkerState, w.dto \in Row
    PROVE  /\ [w.dto EXCEPT !.status = Stage] \in Row
           /\ Stage \notin Final
BY DEF Stage, Row, Status, Final

\* what a step of the worker keeps when it touches neither the database nor
\* the lock table
LEMMA WorkerFrame ==
    ASSUME IInv, UNCHANGED <<runs, locks, req, m>>
    PROVE  /\ RunsDense' /\ RequestOK' /\ CreatesSerialised'
           /\ CreatorHoldsLock' /\ FinalRunHoldsNoLock' /\ MaintOK'
BY DEF IInv, RunsDense, RequestOK, CreatesSerialised, CreatorHoldsLock,
    FinalRunHoldsNoLock, MaintOK, Exists, Terminal, Numbered, Inserted

LEMMA IdleWorkerType == IdleWorker \in WorkerState
BY DEF IdleWorker, WorkerState, Pc, Final, NoRun, RowOrAbsent

LEMMA AbortedType ==
    ASSUME w \in WorkerState
    PROVE  /\ Aborted \in WorkerState
           /\ Aborted.pc \in {"idle", "recover"}
           /\ Aborted.pc = "recover" => Aborted.run = w.run
           /\ Aborted.row = Absent
<1> DEFINE again == [IdleWorker EXCEPT !.pc = "recover", !.recovery = TRUE, !.run = w.run]
<1>1. again \in WorkerState
  BY IdleWorkerType DEF WorkerState, Pc
<1>2. IdleWorker.pc = "idle" /\ IdleWorker.row = Absent
  BY DEF IdleWorker
<1>3. again.pc = "recover" /\ again.run = w.run /\ again.row = Absent
  BY DEF IdleWorker
<1>4. Aborted = IdleWorker \/ Aborted = again
  BY DEF Aborted
<1> QED
  BY <1>1, <1>2, <1>3, <1>4, IdleWorkerType

LEMMA NextSummaryIdType == summaries \in Seq(RunId) => NextSummaryId \in Nat
BY DEF NextSummaryId

LEMMA WorkerOnlyStep ==
    ASSUME IInv, workerOnly,
           \/ RunAlreadyFinal \/ LoadRun \/ SelectBeforeTransition \/ Transition
           \/ ExecuteRun \/ StrategyFails \/ NumberSummary \/ InsertSummary
           \/ SummaryKeyTaken \/ WorkerIsVictim \/ SelectBeforeFinish
           \/ FinishRun \/ RecoverRun
    PROVE  IInv'
<1>1. UNCHANGED <<runs, summaries, locks, queue, faults, validated, overdue, req, m,
                  restarts>>
  BY DEF workerOnly, workerFrame, dbVars, memVars
<1>2. SUFFICES w' \in WorkerState /\ WorkerOK'
  BY <1>1, WorkerFrame DEF IInv, TypeOK
<1>3. w \in WorkerState /\ runs \in [RunId -> RowOrAbsent] /\ summaries \in Seq(RunId)
  BY DEF IInv, TypeOK
<1>4. WorkerOK /\ FinalRunHoldsNoLock
  BY DEF IInv
<1> USE DEF Exists, Terminal, Active, Final
<1>5. CASE RunAlreadyFinal
  <2>1. w' \in WorkerState
    BY <1>1, <1>3, <1>4, <1>5, IdleWorkerType DEF RunAlreadyFinal, WorkerOK, WorkerState, Pc, RowOrAbsent
  <2>2. WorkerOK'
    BY <1>1, <1>3, <1>4, <1>5, IdleWorkerType DEF RunAlreadyFinal, WorkerOK, FinalRunHoldsNoLock, WorkerState, RowOrAbsent, IdleWorker
  <2> QED
    BY <2>1, <2>2
<1>6. CASE LoadRun
  <2>1. w' \in WorkerState
    BY <1>1, <1>3, <1>4, <1>6 DEF LoadRun, WorkerOK, WorkerState, Pc, RowOrAbsent
  <2>2. WorkerOK'
    BY <1>1, <1>3, <1>4, <1>6 DEF LoadRun, WorkerOK, FinalRunHoldsNoLock, WorkerState, RowOrAbsent
  <2> QED
    BY <2>1, <2>2
<1>7. CASE SelectBeforeTransition
  <2>1. w' \in WorkerState
    BY <1>1, <1>3, <1>4, <1>7 DEF SelectBeforeTransition, WorkerOK, WorkerState, Pc, RowOrAbsent
  <2>2. WorkerOK'
    BY <1>1, <1>3, <1>4, <1>7 DEF SelectBeforeTransition, WorkerOK, FinalRunHoldsNoLock, WorkerState, RowOrAbsent
  <2> QED
    BY <2>1, <2>2
<1>8. CASE Transition
  <2> DEFINE moved == [w.dto EXCEPT !.status = Stage]
             row == Merge(moved, w.base, runs[w.run])
  <2>1. w.dto \in Row /\ runs[w.run] \in Row /\ w.run \in RunId
    BY <1>3, <1>4, <1>8 DEF Transition, WorkerOK, WorkerState, RowOrAbsent
  <2>2. moved \in Row /\ moved.status \notin Final /\ moved.line = w.dto.line
    BY <1>3, <2>1, StageType
  <2> HIDE DEF moved
  <2>3. /\ row \in Row /\ row.line = runs[w.run].line
        /\ row.status \in {moved.status, runs[w.run].status}
    BY <2>1, <2>2, MergeType
  <2>4. row.status \in Final => runs[w.run].status \in Final
    BY <2>2, <2>3
  <2>5. w' = [w EXCEPT !.pc = IF Stage = "validating" THEN "validate" ELSE "execute",
                       !.dto = moved, !.base = Absent, !.row = row]
    BY <1>8 DEF Transition, moved
  <2> HIDE DEF row
  <2> DEFINE pc == IF Stage = "validating" THEN "validate" ELSE "execute"
  <2>51. pc \in {"validate", "execute"} /\ pc \in Pc.worker
    BY DEF Pc
  <2>52. w' = [w EXCEPT !.pc = pc, !.dto = moved, !.base = Absent, !.row = row]
    BY <2>5
  <2> HIDE DEF pc
  <2>6. w' \in WorkerState
    BY <1>3, <2>2, <2>3, <2>51, <2>52 DEF WorkerState, RowOrAbsent
  <2>7. /\ w'.pc \in {"validate", "execute"} /\ w'.run = w.run
        /\ w'.dto = moved /\ w'.row = row
    BY <1>3, <2>51, <2>52 DEF WorkerState
  <2>8. Exists(w.run) /\ moved.line = runs[w.run].line
    BY <1>4, <1>8, <2>2 DEF Transition, WorkerOK
  <2>9. row.status \in Final => locks[runs[w.run].line] # w.run
    BY <1>4, <2>1, <2>4, <2>8 DEF FinalRunHoldsNoLock
  <2>10. WorkerOK'
    BY <1>1, <2>1, <2>2, <2>3, <2>7, <2>8, <2>9 DEF WorkerOK
  <2> QED
    BY <2>6, <2>10
<1>9. CASE ExecuteRun
  <2>1. w' \in WorkerState
    BY <1>1, <1>3, <1>4, <1>9 DEF ExecuteRun, WorkerOK, WorkerState, Pc, RowOrAbsent
  <2>2. WorkerOK'
    BY <1>1, <1>3, <1>4, <1>9 DEF ExecuteRun, WorkerOK, FinalRunHoldsNoLock, WorkerState, RowOrAbsent
  <2> QED
    BY <2>1, <2>2
<1>10. CASE StrategyFails
  <2>1. w' \in WorkerState
    BY <1>1, <1>3, <1>4, <1>10 DEF StrategyFails, WorkerOK, WorkerState, Pc, RowOrAbsent
  <2>2. WorkerOK'
    BY <1>1, <1>3, <1>4, <1>10 DEF StrategyFails, WorkerOK, FinalRunHoldsNoLock, WorkerState, RowOrAbsent
  <2> QED
    BY <2>1, <2>2
<1>11. CASE NumberSummary
  <2>1. w' \in WorkerState
    BY <1>1, <1>3, <1>4, <1>11, NextSummaryIdType DEF NumberSummary, WorkerOK, WorkerState, Pc, RowOrAbsent
  <2>2. WorkerOK'
    BY <1>1, <1>3, <1>4, <1>11, NextSummaryIdType DEF NumberSummary, WorkerOK, FinalRunHoldsNoLock, WorkerState, RowOrAbsent
  <2> QED
    BY <2>1, <2>2
<1>12. CASE InsertSummary
  <2>1. w' \in WorkerState
    BY <1>1, <1>3, <1>4, <1>12 DEF InsertSummary, WorkerOK, WorkerState, Pc, RowOrAbsent
  <2>2. WorkerOK'
    BY <1>1, <1>3, <1>4, <1>12 DEF InsertSummary, WorkerOK, FinalRunHoldsNoLock, WorkerState, RowOrAbsent
  <2> QED
    BY <2>1, <2>2
<1>13. CASE SummaryKeyTaken
  <2>1. w' \in WorkerState
    BY <1>1, <1>3, <1>4, <1>13, AbortedType DEF SummaryKeyTaken, WorkerOK, WorkerState, Pc, RowOrAbsent
  <2>2. WorkerOK'
    BY <1>1, <1>3, <1>4, <1>13, AbortedType DEF SummaryKeyTaken, WorkerOK, FinalRunHoldsNoLock, WorkerState, RowOrAbsent
  <2> QED
    BY <2>1, <2>2
<1>14. CASE WorkerIsVictim
  <2>1. w' \in WorkerState
    BY <1>1, <1>3, <1>4, <1>14, AbortedType DEF WorkerIsVictim, WorkerOK, WorkerState, Pc, RowOrAbsent, Deadlocked
  <2>2. WorkerOK'
    BY <1>1, <1>3, <1>4, <1>14, AbortedType DEF WorkerIsVictim, WorkerOK, FinalRunHoldsNoLock, WorkerState, RowOrAbsent, Deadlocked
  <2> QED
    BY <2>1, <2>2
<1>15. CASE SelectBeforeFinish
  <2>1. w' \in WorkerState
    BY <1>1, <1>3, <1>4, <1>15 DEF SelectBeforeFinish, WorkerOK, WorkerState, Pc, RowOrAbsent, WorkerView
  <2>2. WorkerOK'
    BY <1>1, <1>3, <1>4, <1>15 DEF SelectBeforeFinish, WorkerOK, FinalRunHoldsNoLock, WorkerState, RowOrAbsent, WorkerView
  <2> QED
    BY <2>1, <2>2
<1>16. CASE FinishRun
  <2> DEFINE final == IF w.end = "completed" THEN Completed(w.dto) ELSE Failed(w.dto)
             row == Merge(final, w.base, WorkerView)
  <2>1. w.dto \in Row /\ runs[w.run] \in Row /\ w.run \in RunId
    BY <1>3, <1>4, <1>16 DEF FinishRun, WorkerOK, WorkerState, RowOrAbsent
  <2>2. WorkerView \in Row /\ WorkerView.line = runs[w.run].line
    BY <1>3, <1>4, <2>1 DEF WorkerView, WorkerOK, WorkerState, RowOrAbsent
  <2>3. final \in Row
    BY <2>1, FinalRowType
  <2>4. row \in Row /\ row.line = runs[w.run].line
    BY <2>2, <2>3, MergeType
  <2>5. w' = [w EXCEPT !.pc = "release", !.base = Absent, !.row = row]
    BY <1>16 DEF FinishRun
  <2> HIDE DEF final, row
  <2>6. w' \in WorkerState
    BY <1>3, <2>4, <2>5 DEF WorkerState, Pc, RowOrAbsent
  <2>7. /\ w'.pc = "release" /\ w'.run = w.run
        /\ w'.dto = w.dto /\ w'.row = row
    BY <1>3, <2>5 DEF WorkerState
  <2>8. Exists(w.run) /\ w.dto.line = runs[w.run].line
    BY <1>4, <1>16 DEF FinishRun, WorkerOK
  <2>9. WorkerOK'
    BY <1>1, <2>1, <2>4, <2>7, <2>8 DEF WorkerOK
  <2> QED
    BY <2>6, <2>9
<1>17. CASE RecoverRun
  <2>1. w' \in WorkerState
    BY <1>1, <1>3, <1>4, <1>17 DEF RecoverRun, WorkerOK, WorkerState, Pc, RowOrAbsent
  <2>2. WorkerOK'
    BY <1>1, <1>3, <1>4, <1>17 DEF RecoverRun, WorkerOK, FinalRunHoldsNoLock, WorkerState, RowOrAbsent
  <2> QED
    BY <2>1, <2>2
<1> QED
  BY <1>5, <1>6, <1>7, <1>8, <1>9, <1>10, <1>11, <1>12, <1>13, <1>14, <1>15, <1>16, <1>17

\* the steps that also take, add or repeat a job, or meet a fault
LEMMA WorkerQueueStep ==
    ASSUME IInv,
           TakeJob \/ RunNotVisible \/ ValidateRun \/ ResultNotStored \/ WorkerCommitFails
    PROVE  IInv'
<1>1. UNCHANGED <<runs, summaries, locks, overdue, req, m, restarts>>
  BY DEF TakeJob, RunNotVisible, ValidateRun, ResultNotStored, WorkerCommitFails,
     workerFrame, dbVars, memVars
<1>2. /\ w \in WorkerState /\ queue \in Seq(Job) /\ faults \in Nat
      /\ validated \subseteq RunId /\ WorkerOK
  BY DEF IInv, TypeOK
<1>3. SUFFICES /\ w' \in WorkerState /\ queue' \in Seq(Job) /\ faults' \in Nat
               /\ validated' \subseteq RunId /\ WorkerOK'
  BY <1>1, WorkerFrame DEF IInv, TypeOK
<1> USE DEF NoFault, Fault
<1>4. CASE TakeJob
  <2>1. Head(queue) \in Job /\ Tail(queue) \in Seq(Job)
    BY <1>2, <1>4 DEF TakeJob
  <2>2. w' \in WorkerState
    BY <1>2, <1>4, <2>1 DEF TakeJob, WorkerState, Job, Pc
  <2>3. WorkerOK'
    BY <1>1, <1>2, <1>4, <2>1 DEF TakeJob, WorkerOK, WorkerState, Job
  <2> QED
    BY <1>2, <1>4, <2>1, <2>2, <2>3 DEF TakeJob
<1>5. CASE RunNotVisible
  <2>1. CanRetry => [run |-> w.run, phase |-> w.phase, attempt |-> w.attempt + 1] \in Job
    BY <1>2, <1>5 DEF RunNotVisible, CanRetry, WorkerOK, WorkerState, Job
  <2>2. queue' \in Seq(Job)
    BY <1>2, <1>5, <2>1 DEF RunNotVisible
  <2>3. WorkerOK'
    BY <1>5, IdleWorkerType DEF RunNotVisible, IdleWorker, WorkerOK
  <2> QED
    BY <1>2, <1>5, <2>2, <2>3, IdleWorkerType DEF RunNotVisible
<1>6. CASE ValidateRun
  <2>1. [run |-> w.run, phase |-> "execute", attempt |-> 0] \in Job
    BY <1>2, <1>6 DEF ValidateRun, WorkerOK, Job
  <2>2. queue' \in Seq(Job)
    BY <1>2, <1>6, <2>1 DEF ValidateRun, Enqueue
  <2>3. w' \in WorkerState
    BY <1>2, <1>6 DEF ValidateRun, WorkerState, Pc
  <2>4. WorkerOK'
    BY <1>1, <1>2, <1>6 DEF ValidateRun, WorkerOK, WorkerState, Exists
  <2>5. validated' \subseteq RunId
    BY <1>2, <1>6 DEF ValidateRun, WorkerOK
  <2> QED
    BY <1>2, <1>6, <2>2, <2>3, <2>4, <2>5 DEF ValidateRun
<1>7. CASE ResultNotStored
  <2>1. w' \in WorkerState
    BY <1>2, <1>7, AbortedType DEF ResultNotStored
  <2>2. WorkerOK'
    BY <1>1, <1>2, <1>7, AbortedType DEF ResultNotStored, WorkerOK
  <2> QED
    BY <1>2, <1>7, <2>1, <2>2 DEF ResultNotStored, memVars
<1>8. CASE WorkerCommitFails
  <2>1. w' \in WorkerState
    BY <1>2, <1>8, AbortedType DEF WorkerCommitFails
  <2>2. WorkerOK'
    BY <1>1, <1>2, <1>8, AbortedType DEF WorkerCommitFails, WorkerOK
  <2> QED
    BY <1>2, <1>8, <2>1, <2>2 DEF WorkerCommitFails, memVars
<1> QED
  BY <1>4, <1>5, <1>6, <1>7, <1>8

LEMMA WorkerReleaseStep ==
    ASSUME IInv, WorkerReleasesLock
    PROVE  IInv'
<1> USE DEF IInv, Exists, Terminal, Inserted, Numbered, workerFrame, dbVars, NoFault
<1>1. TypeOK'
  <2>1. w' \in WorkerState
    BY DEF WorkerReleasesLock, TypeOK, WorkerState, Pc
  <2> QED
    BY <2>1, ReleaseType DEF WorkerReleasesLock, TypeOK
<1>2. RunsDense' /\ RequestOK' /\ CreatesSerialised'
  BY DEF WorkerReleasesLock, RunsDense, RequestOK, CreatesSerialised
<1>3. CreatorHoldsLock'
  BY DEF WorkerReleasesLock, Release, CreatorHoldsLock, RequestOK, WorkerOK, TypeOK
<1>4. FinalRunHoldsNoLock'
  BY DEF WorkerReleasesLock, Release, FinalRunHoldsNoLock, TypeOK, NoRun, RunId
<1>5. WorkerOK'
  <2>1. /\ w'.pc = "commit" /\ w'.run = w.run /\ w'.dto = w.dto /\ w'.row = w.row
        /\ runs' = runs
    BY DEF WorkerReleasesLock, TypeOK, WorkerState
  <2>2. /\ w.run \in RunId /\ Exists(w.run)
        /\ w.dto # Absent /\ w.dto.line = runs[w.run].line
        /\ w.row # Absent /\ w.row.line = runs[w.run].line
    BY DEF WorkerReleasesLock, WorkerOK
  <2>3. w.dto.line \in Lines
    BY <2>2 DEF TypeOK, WorkerState, RowOrAbsent, Row
  <2>4. locks'[runs[w.run].line] # w.run
    BY <2>2, <2>3 DEF WorkerReleasesLock, Release, TypeOK, NoRun, RunId
  <2> QED
    BY <2>1, <2>2, <2>4 DEF WorkerOK
<1>6. MaintOK'
  BY DEF WorkerReleasesLock, Release, MaintOK, TypeOK, NoRun, RunId
<1> QED
  BY <1>1, <1>2, <1>3, <1>4, <1>5, <1>6

LEMMA WorkerCommitStep ==
    ASSUME IInv, WorkerCommits
    PROVE  IInv'
<1> USE DEF IInv, Exists, Terminal, Inserted, Numbered, workerFrame, memVars, NoFault
<1>1. /\ w.run \in RunId /\ Exists(w.run)
      /\ w.row \in Row /\ w.row.line = runs[w.run].line
      /\ w.row.status \in Final => locks[runs[w.run].line] # w.run
  BY DEF WorkerCommits, WorkerOK, TypeOK, WorkerState, RowOrAbsent
<1>2. \A r \in RunId : Exists(r)' <=> Exists(r)
  BY <1>1 DEF WorkerCommits, TypeOK
<1>3. \A r \in RunId : Exists(r) => runs'[r].line = runs[r].line
  BY <1>1 DEF WorkerCommits, TypeOK
<1>4. TypeOK'
  BY <1>1, IdleWorkerType DEF WorkerCommits, TypeOK, RowOrAbsent
<1>5. RunsDense' /\ RequestOK' /\ CreatesSerialised' /\ CreatorHoldsLock'
  BY <1>2 DEF WorkerCommits, RunsDense, RequestOK, CreatesSerialised, CreatorHoldsLock,
     TypeOK, Request
<1>6. FinalRunHoldsNoLock'
  BY <1>1 DEF WorkerCommits, FinalRunHoldsNoLock, TypeOK
<1>7. WorkerOK'
  BY DEF WorkerCommits, WorkerOK, IdleWorker
<1>8. MaintOK'
  BY <1>2, <1>3 DEF WorkerCommits, MaintOK
<1> QED
  BY <1>4, <1>5, <1>6, <1>7, <1>8

LEMMA WorkerStep == IInv /\ Worker => IInv'
<1>1. CASE \/ RunAlreadyFinal \/ LoadRun \/ SelectBeforeTransition \/ Transition
           \/ ExecuteRun \/ StrategyFails \/ NumberSummary \/ InsertSummary
           \/ SummaryKeyTaken \/ WorkerIsVictim \/ SelectBeforeFinish
           \/ FinishRun \/ RecoverRun
  <2>1. workerOnly
    BY <1>1 DEF RunAlreadyFinal, LoadRun, SelectBeforeTransition, Transition, ExecuteRun,
       StrategyFails, NumberSummary, InsertSummary, SummaryKeyTaken, WorkerIsVictim,
       SelectBeforeFinish, FinishRun, RecoverRun
  <2> QED
    BY <1>1, <2>1, WorkerOnlyStep
<1> QED
  BY <1>1, WorkerQueueStep, WorkerReleaseStep, WorkerCommitStep DEF Worker

-----------------------------------------------------------------------------
(* The maintenance thread.                                                 *)

LEMMA IdleMaintType == IdleMaint \in MaintState
BY DEF IdleMaint, MaintState, Pc, NoRun, RowOrAbsent

\* what a step of the reconciliation keeps when it touches neither the
\* database nor the lock table
LEMMA MaintFrame ==
    ASSUME IInv, UNCHANGED <<runs, locks, req, w>>
    PROVE  /\ RunsDense' /\ RequestOK' /\ CreatesSerialised'
           /\ CreatorHoldsLock' /\ FinalRunHoldsNoLock' /\ WorkerOK'
BY DEF IInv, RunsDense, RequestOK, CreatesSerialised, CreatorHoldsLock,
    FinalRunHoldsNoLock, WorkerOK, Exists, Terminal, Numbered, Inserted

LEMMA MaintOnlyStep ==
    ASSUME IInv,
           \/ ListOverdueRuns \/ NextOverdueRun \/ InsertTimeoutSummary
           \/ TimeoutSummaryKeyTaken \/ SelectOverdueRun \/ FailOverdueRun
           \/ MaintIsVictim \/ MaintCommitFails
    PROVE  IInv'
<1>1. /\ UNCHANGED <<runs, summaries, locks, queue, validated, overdue, req, w, restarts>>
      /\ faults' \in Nat
  BY FaultType DEF IInv, TypeOK, ListOverdueRuns, NextOverdueRun, InsertTimeoutSummary,
     TimeoutSummaryKeyTaken, SelectOverdueRun, FailOverdueRun, MaintIsVictim,
     MaintCommitFails, maintOnly, maintFrame, dbVars
<1>2. SUFFICES m' \in MaintState /\ MaintOK'
  BY <1>1, MaintFrame DEF IInv, TypeOK
<1>3. m \in MaintState /\ runs \in [RunId -> RowOrAbsent] /\ summaries \in Seq(RunId)
  BY DEF IInv, TypeOK
<1>4. MaintOK /\ FinalRunHoldsNoLock
  BY DEF IInv
<1> USE DEF Exists, Active, Terminal, Final
<1>5. CASE ListOverdueRuns
  <2> DEFINE todo == [r \in RunId |-> IF TimedOut(r) THEN runs[r] ELSE Absent]
  <2>1. todo \in [RunId -> RowOrAbsent]
    BY <1>3 DEF RowOrAbsent
  <2>2. m' = [m EXCEPT !.pc = "next", !.todo = todo]
    BY <1>5 DEF ListOverdueRuns
  <2>3. \A r \in RunId : todo[r] # Absent => Exists(r) /\ todo[r].line = runs[r].line
    BY DEF TimedOut
  <2> HIDE DEF todo
  <2>4. m' \in MaintState
    BY <1>3, <2>1, <2>2 DEF MaintState, Pc
  <2>5. MaintOK'
    BY <1>1, <1>3, <1>4, <1>5, <2>2, <2>3 DEF ListOverdueRuns, MaintOK, MaintState
  <2> QED
    BY <2>4, <2>5
<1>6. CASE NextOverdueRun
  <2>1. PICK r \in Todo : m' = [m EXCEPT !.pc = "summary", !.run = r,
                                        !.key = NextSummaryId + Len(m.summaries)]
    BY <1>6 DEF NextOverdueRun
  <2>2. r \in RunId /\ m.todo[r] # Absent
    BY DEF Todo
  <2>3. NextSummaryId + Len(m.summaries) \in Nat
    BY <1>3 DEF NextSummaryId, MaintState
  <2>4. m' \in MaintState
    BY <1>3, <2>1, <2>2, <2>3 DEF MaintState, Pc
  <2>5. MaintOK'
    BY <1>1, <1>3, <1>4, <1>6, <2>1, <2>2 DEF NextOverdueRun, MaintOK, MaintState
  <2> QED
    BY <2>4, <2>5
<1>7. CASE InsertTimeoutSummary
  <2>1. m.run \in RunId
    BY <1>4, <1>7 DEF InsertTimeoutSummary, MaintOK
  <2>2. Append(m.summaries, m.run) \in Seq(RunId)
    BY <1>3, <2>1 DEF MaintState
  <2>3. m' = [m EXCEPT !.pc = "select", !.key = 0, !.summaries = Append(m.summaries, m.run)]
    BY <1>3, <1>7 DEF InsertTimeoutSummary, MaintState
  <2>4. m' \in MaintState
    BY <1>3, <2>2, <2>3 DEF MaintState, Pc
  <2>5. MaintOK'
    BY <1>1, <1>3, <1>4, <1>7 DEF InsertTimeoutSummary, MaintOK, MaintState
  <2> QED
    BY <2>4, <2>5
<1>8. CASE TimeoutSummaryKeyTaken \/ MaintIsVictim \/ MaintCommitFails
  <2>1. m' = IdleMaint
    BY <1>8 DEF TimeoutSummaryKeyTaken, MaintIsVictim, MaintCommitFails
  <2> QED
    BY <2>1, IdleMaintType DEF MaintOK, IdleMaint
<1>9. CASE SelectOverdueRun
  <2>1. m' \in MaintState
    BY <1>3, <1>4, <1>9 DEF SelectOverdueRun, MaintOK, MaintState, Pc
  <2>2. MaintOK'
    BY <1>1, <1>3, <1>4, <1>9 DEF SelectOverdueRun, MaintOK, MaintState
  <2> QED
    BY <2>1, <2>2
<1>10. CASE FailOverdueRun
  <2> DEFINE row == Merge(Failed(m.todo[m.run]), m.base, runs[m.run])
  <2>1. m.run \in RunId /\ m.todo[m.run] \in Row /\ runs[m.run] \in Row
    BY <1>3, <1>4, <1>10 DEF FailOverdueRun, MaintOK, MaintState, RowOrAbsent
  <2>2. row \in Row /\ row.line = runs[m.run].line
    BY <2>1, FinalRowType, MergeType
  <2>3. m' = [m EXCEPT !.pc = "release", !.base = Absent, !.rows[m.run] = row]
    BY <1>10 DEF FailOverdueRun
  <2> HIDE DEF row
  <2>4. m' \in MaintState
    BY <1>3, <2>1, <2>2, <2>3 DEF MaintState, Pc, RowOrAbsent
  <2>5. /\ m'.pc = "release" /\ m'.run = m.run /\ m'.todo = m.todo
        /\ \A r \in RunId : m'.rows[r] = IF r = m.run THEN row ELSE m.rows[r]
    <3>1. m'.pc = "release" /\ m'.run = m.run /\ m'.todo = m.todo
      BY <1>3, <2>3 DEF MaintState
    <3>2. m'.rows = [m.rows EXCEPT ![m.run] = row]
      BY <1>3, <2>3 DEF MaintState
    <3>3. m.rows \in [RunId -> RowOrAbsent]
      BY <1>3 DEF MaintState
    <3> QED
      BY <2>1, <3>1, <3>2, <3>3
  <2>6. Exists(m.run) /\ m.todo[m.run] # Absent
    BY <1>4, <1>10 DEF FailOverdueRun, MaintOK
  <2>7. MaintOK'
    BY <1>1, <1>4, <1>10, <2>1, <2>2, <2>5, <2>6 DEF FailOverdueRun, MaintOK
  <2> QED
    BY <2>4, <2>7
<1> QED
  BY <1>5, <1>6, <1>7, <1>8, <1>9, <1>10

LEMMA MaintReleaseStep ==
    ASSUME IInv, MaintReleasesLock
    PROVE  IInv'
<1> USE DEF IInv, Exists, Terminal, Inserted, Numbered, maintFrame, dbVars, NoFault
<1>1. /\ m.run \in RunId /\ m.todo[m.run] # Absent /\ Exists(m.run)
      /\ m.todo[m.run].line = runs[m.run].line
      /\ m.todo[m.run].line \in Lines
  BY DEF MaintReleasesLock, MaintOK, TypeOK, MaintState, RowOrAbsent, Row
<1>2. locks'[runs[m.run].line] # m.run
  BY <1>1 DEF MaintReleasesLock, Release, TypeOK, NoRun, RunId
<1>3. \A line \in Lines : locks'[line] \in {locks[line], NoRun}
  BY DEF MaintReleasesLock, Release, TypeOK
<1>4. TypeOK'
  <2>1. m' \in MaintState
    BY DEF MaintReleasesLock, TypeOK, MaintState, Pc, RowOrAbsent
  <2> QED
    BY <2>1, ReleaseType DEF MaintReleasesLock, TypeOK
<1>5. RunsDense' /\ RequestOK' /\ CreatesSerialised'
  BY DEF MaintReleasesLock, RunsDense, RequestOK, CreatesSerialised
<1>6. CreatorHoldsLock'
  BY <1>1 DEF MaintReleasesLock, Release, CreatorHoldsLock, RequestOK, TypeOK
<1>7. FinalRunHoldsNoLock'
  BY DEF MaintReleasesLock, Release, FinalRunHoldsNoLock, TypeOK, NoRun, RunId
<1>8. WorkerOK'
  BY DEF MaintReleasesLock, Release, WorkerOK, TypeOK, NoRun, RunId
<1>9. MaintOK'
  <2>1. runs' = runs /\ m'.run = m.run /\ m'.rows = m.rows /\ m'.pc \in {"commit", "next"}
    BY DEF MaintReleasesLock, TypeOK, MaintState
  <2>2. \A r \in RunId : m'.todo[r] # Absent => m'.todo[r] = m.todo[r]
    BY <1>1 DEF MaintReleasesLock, TypeOK, MaintState
  <2>3. \A r \in RunId : Exists(r) => runs[r].line \in Lines
    BY DEF TypeOK, RowOrAbsent, Row
  <2> QED
    BY <1>2, <1>3, <2>1, <2>2, <2>3 DEF MaintOK, NoRun, RunId
<1> QED
  BY <1>4, <1>5, <1>6, <1>7, <1>8, <1>9

LEMMA MaintCommitStep ==
    ASSUME IInv, MaintCommits
    PROVE  IInv'
<1> USE DEF IInv, Exists, Terminal, Inserted, Numbered, maintFrame, NoFault
<1>1. \A r \in RunId : MaintHoldsRow(r) =>
        /\ Exists(r) /\ m.rows[r] \in Row /\ m.rows[r].line = runs[r].line
        /\ locks[runs[r].line] # r
  BY DEF MaintCommits, MaintHoldsRow, MaintOK, TypeOK, MaintState, RowOrAbsent
<1>2. \A r \in RunId : runs'[r] = IF MaintHoldsRow(r) THEN m.rows[r] ELSE runs[r]
  BY DEF MaintCommits
<1>3. \A r \in RunId : (Exists(r)' <=> Exists(r)) /\ (Exists(r) => runs'[r].line = runs[r].line)
  BY <1>1, <1>2
<1>4. TypeOK'
  BY <1>1, IdleMaintType DEF MaintCommits, TypeOK, MaintState, RowOrAbsent
<1>5. RunsDense' /\ RequestOK' /\ CreatesSerialised' /\ CreatorHoldsLock'
  BY <1>3 DEF MaintCommits, RunsDense, RequestOK, CreatesSerialised, CreatorHoldsLock,
     TypeOK, Request
<1>6. FinalRunHoldsNoLock'
  BY <1>1, <1>2, <1>3 DEF MaintCommits, FinalRunHoldsNoLock
<1>7. WorkerOK'
  BY <1>3 DEF MaintCommits, WorkerOK
<1>8. MaintOK'
  BY DEF MaintCommits, MaintOK, IdleMaint
<1> QED
  BY <1>4, <1>5, <1>6, <1>7, <1>8

-----------------------------------------------------------------------------
(* The theorems.                                                           *)

LEMMA OverdueStep ==
    ASSUME IInv, NEW r \in RunId, RunBecomesOverdue(r)
    PROVE  IInv'
BY DEF RunBecomesOverdue, IInv, TypeOK, RunsDense, RequestOK, CreatesSerialised,
    CreatorHoldsLock, FinalRunHoldsNoLock, WorkerOK, MaintOK, Exists, Terminal, Numbered,
    Inserted, dbVars, memVars

LEMMA RestartStep == IInv /\ Restart => IInv'
<1> SUFFICES ASSUME IInv, Restart
             PROVE  IInv'
  OBVIOUS
<1> USE DEF IInv, Restart, dbVars, Exists, Terminal, Inserted, Numbered, NoRequest
<1>1. TypeOK'
  <2>1. req' \in [Clients -> Request]
    BY DEF Request, Pc, Ops, NoRun
  <2> QED
    BY <2>1, IdleWorkerType, IdleMaintType DEF TypeOK, NoRun
<1>2. RunsDense' /\ RequestOK' /\ CreatesSerialised' /\ CreatorHoldsLock'
  BY DEF RunsDense, RequestOK, CreatesSerialised, CreatorHoldsLock
<1>3. FinalRunHoldsNoLock'
  BY DEF FinalRunHoldsNoLock, TypeOK, RowOrAbsent, Row, NoRun, RunId
<1>4. WorkerOK' /\ MaintOK'
  BY DEF WorkerOK, MaintOK, IdleWorker, IdleMaint
<1> QED
  BY <1>1, <1>2, <1>3, <1>4

LEMMA StutterStep == IInv /\ UNCHANGED vars => IInv'
BY DEF vars, dbVars, memVars, IInv, TypeOK, RunsDense, RequestOK, CreatesSerialised,
    CreatorHoldsLock, FinalRunHoldsNoLock, WorkerOK, MaintOK, Exists, Terminal, Numbered,
    Inserted

\* The inductive invariant: keys are dense, requests hold the key they think
\* they hold, and the working copies of both threads belong to committed runs.
THEOREM Invariance == Spec => []IInv
<1>1. IInv /\ [Next]_vars => IInv'
  BY ClientStep, WorkerStep, MaintOnlyStep, MaintReleaseStep, MaintCommitStep,
     OverdueStep, RestartStep, StutterStep
  DEF Next, Maintenance
<1> QED
  BY InitIInv, <1>1, PTL DEF Spec

\* Type correctness, including the bound on the retries of a job
\* (InProcessRunWorkerRuntime.max_run_visibility_retries).
THEOREM TypeCorrectness == Spec => []TypeOK
BY Invariance, PTL DEF IInv

\* RunService._create_run: at most one request has inserted a run it has not
\* committed, so the unsynchronised check-then-set of the lock table is safe.
THEOREM CreatesAreSerialised == Spec => []CreatesSerialised
BY Invariance, PTL DEF IInv

\* RunService._create_run: nobody takes the line's lock from the request that
\* is creating a run, stale jobs of rolled-back runs with its id included.
THEOREM CreatorKeepsLock == Spec => []CreatorHoldsLock
BY Invariance, PTL DEF IInv

\* _finalize_success, _finalize_failure and reconcile_timed_out_runs: a run in
\* a final status never holds its line's lock.
THEOREM FinalRunsHoldNoLock == Spec => []FinalRunHoldsNoLock
BY Invariance, PTL DEF IInv

HIDE RunEngineAssumption
-----------------------------------------------------------------------------
(* What holds in every environment: the columns of the runs, and the copies *)
(* the two threads keep of them.                                            *)

\* the worker has read the run and its transaction is open
Working == w.pc \notin {"idle", "load", "recover"}

Unfinished(row) == row.status # "completed" /\ row.business # "success" /\ ~ row.result
Sound(row) ==
    /\ row.status \notin Final => Unfinished(row)
    /\ row.status = "completed" =>
        row.business = "success" /\ row.result = (row.op = "process")

Summarised(r)        == \E i \in 1..Len(summaries) : summaries[i] = r
MaintSummarises(r)   == \E i \in 1..Len(m.summaries) : m.summaries[i] = r
NeedsValidation(row) == row.op = "process" /\ row.status \notin {"created", "failed"}

\* A run that is not final has no result yet, whoever wrote it last.
RunsSound ==
    \A r \in RunId : Exists(r) =>
        /\ Sound(runs[r])
        /\ NeedsValidation(runs[r]) => r \in validated

\* The run the worker works on may have been failed behind its back, but it has
\* not been completed; the worker's copies are copies of an unfinished run, and
\* a copy becomes final only after the summary audit was inserted.
CopiesSound ==
    /\ Working =>
        /\ Unfinished(runs[w.run]) /\ Unfinished(w.dto)
        /\ w.dto.status \notin Final /\ w.dto.op = runs[w.run].op
    /\ w.pc \in {"transition", "update"} => w.base # Absent /\ Unfinished(w.base)
    /\ w.row # Absent => Sound(w.row) /\ w.row.op = runs[w.run].op
    /\ w.row # Absent /\ w.pc \notin {"release", "commit"} => Unfinished(w.row)
    /\ w.pc \in {"select", "update", "release"} => w.summary
    /\ w.row # Absent /\ w.row.status \in Final => w.summary \/ Summarised(w.run)

\* A process run is executed after a validation that succeeded, although the
\* "execute" job is queued before the validation is committed.
CopiesValidated ==
    /\ w.end = "completed" =>
        w.pc \in {"number", "summary", "select", "update", "release", "commit"}
    /\ w.pc \in {"begin", "transition"} /\ NeedsValidation(w.dto) => w.run \in validated
    /\ w.pc = "execute" \/ w.end = "completed" =>
        (w.dto.op = "process" => w.run \in validated)
    /\ w.pc = "update" /\ w.row # Absent => w.base = w.row
    /\ w.pc \in {"release", "commit"} /\ NeedsValidation(w.row) => w.run \in validated

\* The reconciliation fails every run it has updated, also the one the worker
\* ended between its SELECT and its UPDATE, and has summarised it first.
TimeoutsSound ==
    /\ \A r \in RunId : m.todo[r] # Absent => Unfinished(m.todo[r])
    /\ m.pc = "update" =>
        /\ m.base # Absent
        /\ IF m.base.status \in Final THEN runs[m.run] = m.base ELSE Unfinished(m.base)
    /\ m.pc \in {"select", "update", "release"} => MaintSummarises(m.run)
    /\ \A r \in RunId : m.rows[r] # Absent =>
        /\ m.rows[r].status = "failed" /\ m.rows[r].op = runs[r].op
        /\ Active(r) => Unfinished(m.rows[r])
        /\ MaintSummarises(r)

\* The threads meet on a run only while it is not final, and never both hold
\* its row.
Apart ==
    /\ Working /\ (m.todo[w.run] # Absent \/ m.rows[w.run] # Absent) => Active(w.run)
    /\ w.row # Absent => m.rows[w.run] = Absent

\* A lock is the lock of a request that will commit its run, or of a committed
\* run of that line.
LocksOwned ==
    faults = 0 => \A l \in Lines : locks[l] # NoRun =>
        \/ \E c \in Clients : /\ req[c].pc \in {"locked", "enqueued"}
                              /\ req[c].line = l /\ req[c].id = locks[l]
        \/ Exists(locks[l]) /\ runs[locks[l]].line = l

AuditInv ==
    /\ RunsSound
    /\ CopiesSound
    /\ CopiesValidated
    /\ TimeoutsSound
    /\ Apart
    /\ FinalRunIsSummarised
    /\ LocksOwned

LEMMA InitAuditInv == Init => AuditInv
<1> SUFFICES ASSUME Init PROVE AuditInv
  OBVIOUS
<1>1. \A r \in RunId : ~ Exists(r)
  BY DEF Init, Exists
<1>2. RunsSound /\ FinalRunIsSummarised
  BY <1>1 DEF RunsSound, FinalRunIsSummarised, Terminal
<1>3. CopiesSound /\ CopiesValidated /\ Apart
  BY DEF Init, IdleWorker, CopiesSound, CopiesValidated, Apart, Working
<1>4. TimeoutsSound
  BY DEF Init, IdleMaint, TimeoutsSound
<1>5. LocksOwned
  BY DEF Init, LocksOwned
<1> QED
  BY <1>2, <1>3, <1>4, <1>5 DEF AuditInv

-----------------------------------------------------------------------------
(* Lemmas about the copies and the columns.                                 *)

LEMMA WorkerTypes ==
    ASSUME IInv
    PROVE  /\ w \in WorkerState
           /\ w.pc # "idle" => w.run \in RunId
           /\ Working => /\ w.run \in RunId /\ Exists(w.run)
                         /\ runs[w.run] \in Row /\ w.dto \in Row
           /\ w.row # Absent => w.row \in Row /\ Working
           /\ w.base # Absent => w.base \in Row
           /\ w.pc \in {"validate", "release", "commit"} => w.row # Absent
<1>1. w \in WorkerState /\ runs \in [RunId -> RowOrAbsent] /\ WorkerOK
  BY DEF IInv, TypeOK
<1>2. w.dto \in RowOrAbsent /\ w.base \in RowOrAbsent /\ w.row \in RowOrAbsent
  BY <1>1 DEF WorkerState
<1> QED
  BY <1>1, <1>2 DEF WorkerOK, Working, Exists, RowOrAbsent

LEMMA MaintTypes ==
    ASSUME IInv
    PROVE  /\ m \in MaintState
           /\ m.pc \in {"summary", "select", "update", "release"} =>
                /\ m.run \in RunId /\ Exists(m.run) /\ runs[m.run] \in Row
                /\ m.todo[m.run] # Absent
           /\ m.base # Absent => m.base \in Row
           /\ \A r \in RunId : m.todo[r] # Absent => m.todo[r] \in Row /\ Exists(r)
           /\ \A r \in RunId : m.rows[r] # Absent => m.rows[r] \in Row /\ Exists(r)
           /\ \A r \in RunId : Exists(r) => runs[r] \in Row
<1>1. m \in MaintState /\ runs \in [RunId -> RowOrAbsent] /\ MaintOK
  BY DEF IInv, TypeOK
<1>2. /\ m.todo \in [RunId -> RowOrAbsent] /\ m.base \in RowOrAbsent
      /\ m.rows \in [RunId -> RowOrAbsent]
  BY <1>1 DEF MaintState
<1> QED
  BY <1>1, <1>2 DEF MaintOK, Exists, RowOrAbsent

\* an update writes the columns the copy has changed
LEMMA MergeColumns ==
    ASSUME NEW dto \in Row, NEW base, NEW current \in Row,
           NEW new, new = Merge(dto, base, current)
    PROVE  /\ new \in Row
           /\ new.line = current.line /\ new.op = current.op
           /\ new.status = IF dto.status # base.status THEN dto.status ELSE current.status
           /\ new.business = IF dto.business # base.business THEN dto.business
                             ELSE current.business
           /\ new.result = IF dto.result # base.result THEN dto.result ELSE current.result
BY DEF Merge, Row

LEMMA MergeUnfinished ==
    ASSUME NEW dto \in Row, NEW base, NEW current \in Row, NEW new,
           new = Merge(dto, base, current), Unfinished(dto), Unfinished(current)
    PROVE  Unfinished(new)
BY MergeColumns DEF Unfinished

LEMMA EndColumns ==
    ASSUME NEW row \in Row
    PROVE  /\ Completed(row) \in Row /\ Failed(row) \in Row
           /\ Completed(row).status = "completed" /\ Completed(row).business = "success"
           /\ Completed(row).result = (row.result \/ row.op = "process")
           /\ Failed(row).status = "failed" /\ Failed(row).business = "failure"
           /\ Failed(row).result = row.result
           /\ Failed(row).op = row.op /\ Completed(row).op = row.op
BY DEF Completed, Failed, Row, Status, Final

LEMMA UnfinishedIsSound == \A row : Unfinished(row) => Sound(row)
BY DEF Unfinished, Sound

\* a worker that has no transaction open claims nothing
LEMMA WorkerRests ==
    ASSUME w'.pc \in {"idle", "load", "recover"}, w'.row = Absent, w'.end = "failed"
    PROVE  CopiesSound' /\ CopiesValidated' /\ Apart'
BY DEF CopiesSound, CopiesValidated, Apart, Working

LEMMA Resting ==
    /\ IdleWorker.pc = "idle" /\ IdleWorker.row = Absent /\ IdleWorker.end = "failed"
    /\ Aborted.pc \in {"idle", "recover"} /\ Aborted.row = Absent /\ Aborted.end = "failed"
BY DEF IdleWorker, Aborted

\* nothing is committed
LEMMA NothingCommitted ==
    ASSUME AuditInv, UNCHANGED <<runs, summaries>>, validated \subseteq validated'
    PROVE  RunsSound' /\ FinalRunIsSummarised'
BY DEF AuditInv, RunsSound, FinalRunIsSummarised, Exists, Terminal

\* nothing that the reconciliation relies on changes
LEMMA TimeoutsUndisturbed ==
    ASSUME AuditInv, UNCHANGED <<runs, m>>
    PROVE  TimeoutsSound'
BY DEF AuditInv, TimeoutsSound, MaintSummarises, Active, Exists

-----------------------------------------------------------------------------
(* The worker thread.                                                       *)

\* the steps that end or begin a transaction without a commit
LEMMA AuditWorkerRests ==
    ASSUME IInv, AuditInv,
           \/ TakeJob \/ RunNotVisible \/ RunAlreadyFinal \/ SummaryKeyTaken
           \/ WorkerIsVictim \/ ResultNotStored \/ WorkerCommitFails
    PROVE  CopiesSound' /\ CopiesValidated' /\ Apart'
<1>1. CASE TakeJob
  <2>1. w'.pc = "load" /\ w'.row = w.row /\ w'.end = w.end /\ w.pc = "idle"
    BY <1>1, WorkerTypes DEF TakeJob, WorkerState
  <2>2. w.row = Absent
    BY <2>1, WorkerTypes DEF Working
  <2>3. w.end = "failed"
    BY <2>1, WorkerTypes DEF AuditInv, CopiesValidated, WorkerState, Final
  <2> QED
    BY <2>1, <2>2, <2>3, WorkerRests
<1>2. CASE ~ TakeJob
  <2>1. w' \in {IdleWorker, Aborted}
    BY <1>2 DEF RunNotVisible, RunAlreadyFinal, SummaryKeyTaken, WorkerIsVictim,
       ResultNotStored, WorkerCommitFails
  <2> QED
    BY <2>1, Resting, WorkerRests
<1> QED
  BY <1>1, <1>2

LEMMA AuditLoads ==
    ASSUME IInv, AuditInv, LoadRun \/ RecoverRun
    PROVE  CopiesSound' /\ CopiesValidated' /\ Apart'
<1>1. w.pc \in {"load", "recover"} /\ Active(w.run) /\ w.run \in RunId
  BY WorkerTypes DEF LoadRun, RecoverRun
<1>2. UNCHANGED <<runs, summaries, m, validated>>
  BY DEF LoadRun, RecoverRun, workerOnly, workerFrame, dbVars
<1>3. /\ w'.pc = IF w.pc = "load" THEN "begin" ELSE "number"
      /\ w'.dto = runs[w.run] /\ w'.run = w.run /\ w'.row = w.row /\ w'.end = w.end
  BY WorkerTypes DEF LoadRun, RecoverRun, WorkerState
<1>4. w.row = Absent /\ w.end = "failed"
  BY <1>1, WorkerTypes DEF Working, AuditInv, CopiesValidated, WorkerState, Final
<1>5. /\ Unfinished(runs[w.run]) /\ runs[w.run].status \notin Final
      /\ NeedsValidation(runs[w.run]) => w.run \in validated
  BY <1>1 DEF AuditInv, RunsSound, Sound, Active, Exists
<1>6. CopiesSound'
  BY <1>1, <1>2, <1>3, <1>4, <1>5 DEF CopiesSound, Working
<1>7. CopiesValidated'
  BY <1>1, <1>2, <1>3, <1>4, <1>5 DEF CopiesValidated
<1>8. Apart'
  BY <1>1, <1>2, <1>3, <1>4 DEF Apart, Active, Exists
<1> QED
  BY <1>6, <1>7, <1>8

\* a step within a transaction that leaves the row as it is
LEMMA AuditSameRow ==
    ASSUME IInv, AuditInv,
           \/ SelectBeforeTransition \/ ValidateRun \/ ExecuteRun \/ StrategyFails
           \/ NumberSummary \/ InsertSummary \/ SelectBeforeFinish \/ WorkerReleasesLock
    PROVE  CopiesSound' /\ CopiesValidated' /\ Apart'
<1>1. /\ UNCHANGED <<runs, summaries, m>>
      /\ validated' = IF w.pc = "validate" /\ w'.pc = "commit"
                      THEN validated \cup {w.run} ELSE validated
  BY WorkerTypes DEF SelectBeforeTransition, ValidateRun, ExecuteRun, StrategyFails, NumberSummary,
     InsertSummary, SelectBeforeFinish, WorkerReleasesLock, workerOnly, workerFrame, dbVars,
     WorkerState
<1>2. /\ UNCHANGED <<w.run, w.dto, w.row>> /\ Working /\ Working'
      /\ w.pc \in Pc.worker
  BY WorkerTypes DEF SelectBeforeTransition, ValidateRun, ExecuteRun, StrategyFails, NumberSummary,
     InsertSummary, SelectBeforeFinish, WorkerReleasesLock, WorkerState, Working
<1>3. \/ /\ w.pc = "begin" /\ w'.pc = "transition" /\ w'.base = runs[w.run]
         /\ w'.end = w.end /\ w'.summary = w.summary
      \/ /\ w.pc = "validate" /\ w'.pc = "commit"
         /\ w'.end = w.end /\ w'.summary = w.summary
      \/ w.pc = "execute" /\ w'.pc = "number" /\ w'.end = "completed" /\ w'.summary = w.summary
      \/ /\ w.pc \in {"validate", "execute"} /\ w'.pc = "number" /\ w'.end = "failed"
         /\ w'.summary = w.summary
      \/ w.pc = "number" /\ w'.pc = "summary" /\ w'.end = w.end /\ w'.summary = w.summary
      \/ w.pc = "summary" /\ w'.pc = "select" /\ w'.end = w.end /\ w'.summary = TRUE
      \/ /\ w.pc = "select" /\ w'.pc = "update" /\ w'.base = WorkerView
         /\ w'.end = w.end /\ w'.summary = w.summary
      \/ w.pc = "release" /\ w'.pc = "commit" /\ w'.end = w.end /\ w'.summary = w.summary
  BY ZenonT(60), WorkerTypes DEF SelectBeforeTransition, ValidateRun, ExecuteRun, StrategyFails, NumberSummary,
     InsertSummary, SelectBeforeFinish, WorkerReleasesLock, WorkerState
<1>4. w.run \in RunId /\ runs[w.run] # Absent /\ Active(w.run)' = Active(w.run)
  BY <1>1, <1>2, WorkerTypes DEF Exists, Active
<1>5. CopiesSound /\ CopiesValidated /\ Apart
  BY DEF AuditInv
<1>6. CopiesSound'
  BY <1>1, <1>2, <1>3, <1>4, <1>5 DEF CopiesSound, WorkerView, Summarised
<1>7. CopiesValidated'
  BY <1>1, <1>2, <1>3, <1>4, <1>5, WorkerTypes DEF CopiesValidated, WorkerView
<1>8. Apart'
  BY <1>1, <1>2, <1>4, <1>5 DEF Apart
<1> QED
  BY <1>6, <1>7, <1>8

LEMMA AuditTransition ==
    ASSUME IInv, AuditInv, Transition
    PROVE  CopiesSound' /\ CopiesValidated' /\ Apart'
<1> DEFINE moved == [w.dto EXCEPT !.status = Stage]
           row   == Merge(moved, w.base, runs[w.run])
           pc    == IF Stage = "validating" THEN "validate" ELSE "execute"
<1>1. Working /\ w.pc = "transition" /\ ~ MaintHoldsRow(w.run)
  BY DEF Transition, Working
<1>2. /\ w \in WorkerState /\ w.run \in RunId /\ Exists(w.run)
      /\ runs[w.run] \in Row /\ w.dto \in Row
  BY <1>1, WorkerTypes
<1>3. CopiesSound /\ CopiesValidated /\ Apart
  BY DEF AuditInv
<1>4. /\ moved \in Row /\ moved.status = Stage /\ Stage \notin Final
      /\ moved.op = w.dto.op /\ Unfinished(moved)
  <2>1. moved \in Row /\ Stage \notin Final
    BY <1>2, StageType
  <2>2. /\ moved.status = Stage /\ moved.op = w.dto.op
        /\ moved.business = w.dto.business /\ moved.result = w.dto.result
    BY <1>2 DEF Row
  <2>3. Unfinished(w.dto)
    BY <1>1, <1>3 DEF CopiesSound
  <2> QED
    BY <2>1, <2>2, <2>3 DEF Unfinished, Final
<1>5. w' = [w EXCEPT !.pc = pc, !.dto = moved, !.base = Absent, !.row = row]
  BY DEF Transition
<1>6. UNCHANGED <<runs, summaries, m, validated>>
  BY DEF Transition, workerOnly, workerFrame, dbVars
<1>7. pc \in {"validate", "execute"}
  OBVIOUS
<1>8. pc = "execute" /\ w.dto.op = "process" => w.dto.status # "created"
  BY DEF Stage
<1> HIDE DEF moved, pc
<1>9. /\ row \in Row /\ row.op = runs[w.run].op /\ Unfinished(row)
      /\ row.status \in Final => runs[w.run].status \in Final
  <2>1. Unfinished(runs[w.run])
    BY <1>1, <1>3 DEF CopiesSound
  <2> QED
    BY <1>2, <1>4, <2>1, MergeUnfinished, MergeColumns
<1> HIDE DEF row
<1>10. /\ w'.pc = pc /\ w'.dto = moved /\ w'.base = Absent /\ w'.row = row
       /\ w'.run = w.run /\ w'.end = w.end /\ w'.summary = w.summary
  BY <1>2, <1>5 DEF WorkerState
<1>11. row # Absent
  BY <1>9, RunEngineAssumption DEF RunEngineAssumption
<1>12. row.status \in Final => Summarised(w.run)
  BY <1>2, <1>9 DEF AuditInv, FinalRunIsSummarised, Terminal, Summarised
<1>13. CopiesSound'
  <2>1. w.dto.op = runs[w.run].op /\ Unfinished(runs[w.run])
    BY <1>1, <1>3 DEF CopiesSound
  <2>2. row.status \in Final => Summarised(w.run)'
    BY <1>6, <1>10, <1>12 DEF Summarised
  <2> QED
    BY <1>4, <1>6, <1>7, <1>9, <1>10, <2>1, <2>2, UnfinishedIsSound DEF CopiesSound
<1>14. CopiesValidated'
  <2>1. w.end # "completed"
    BY <1>1, <1>3 DEF CopiesValidated
  <2>2. pc = "execute" /\ w.dto.op = "process" => w.run \in validated
    BY <1>1, <1>3, <1>8 DEF CopiesValidated, CopiesSound, NeedsValidation, Final
  <2> QED
    BY <1>4, <1>6, <1>7, <1>10, <2>1, <2>2 DEF CopiesValidated
<1>15. Apart'
  BY <1>1, <1>2, <1>3, <1>6, <1>10 DEF Apart, MaintHoldsRow, Active, Exists, Working
<1> QED
  BY <1>13, <1>14, <1>15

LEMMA AuditFinish ==
    ASSUME IInv, AuditInv, FinishRun
    PROVE  CopiesSound' /\ CopiesValidated' /\ Apart'
<1> DEFINE final == IF w.end = "completed" THEN Completed(w.dto) ELSE Failed(w.dto)
           row   == Merge(final, w.base, WorkerView)
<1>1. Working /\ w.pc = "update" /\ ~ MaintHoldsRow(w.run)
  BY DEF FinishRun, Working
<1>2. /\ w \in WorkerState /\ w.run \in RunId /\ Exists(w.run)
      /\ runs[w.run] \in Row /\ w.dto \in Row
      /\ w.row # Absent => w.row \in Row
  BY <1>1, WorkerTypes
<1>3. CopiesSound /\ CopiesValidated /\ Apart
  BY DEF AuditInv
<1>4. /\ Unfinished(runs[w.run]) /\ Unfinished(w.dto) /\ Unfinished(w.base) /\ w.base # Absent
      /\ w.dto.op = runs[w.run].op /\ w.summary
      /\ w.row # Absent => Unfinished(w.row) /\ w.row.op = runs[w.run].op
  BY <1>1, <1>3 DEF CopiesSound
<1>5. w.base \in Row
  BY <1>4, WorkerTypes
<1>6. WorkerView \in Row /\ Unfinished(WorkerView) /\ WorkerView.op = runs[w.run].op
  BY <1>2, <1>4 DEF WorkerView
<1>7. w' = [w EXCEPT !.pc = "release", !.base = Absent, !.row = row]
  BY DEF FinishRun
<1>8. UNCHANGED <<runs, summaries, m, validated>>
  BY DEF FinishRun, workerOnly, workerFrame, dbVars
<1>9. final \in Row
  BY <1>2, EndColumns
<1>10. /\ row \in Row /\ row.op = WorkerView.op
       /\ row.status = IF final.status # w.base.status THEN final.status ELSE WorkerView.status
       /\ row.business = IF final.business # w.base.business THEN final.business
                         ELSE WorkerView.business
       /\ row.result = IF final.result # w.base.result THEN final.result ELSE WorkerView.result
  <2> HIDE DEF final
  <2> QED
    BY <1>6, <1>9, MergeColumns
<1>11. CASE w.end = "completed"
  <2>1. /\ final.status = "completed" /\ final.business = "success"
        /\ final.result = (w.dto.result \/ w.dto.op = "process")
    BY <1>2, <1>11, EndColumns
  <2>2. row.status = "completed" /\ row.business = "success"
    BY <1>4, <1>6, <1>10, <2>1 DEF Unfinished
  <2>3. row.result = (row.op = "process")
    <3>1. final.result \in BOOLEAN /\ WorkerView.result \in BOOLEAN /\ w.base.result \in BOOLEAN
      BY <1>5, <1>6, <1>9 DEF Row
    <3>2. ~ w.dto.result /\ ~ w.base.result /\ ~ WorkerView.result
      BY <1>4, <1>6 DEF Unfinished
    <3>3. final.result <=> row.op = "process"
      BY <1>4, <1>6, <1>10, <2>1, <3>2
    <3>4. row.result <=> final.result
      BY <1>10, <3>1, <3>2
    <3>5. row.result \in BOOLEAN
      BY <1>10 DEF Row
    <3> QED
      BY <3>3, <3>4, <3>5
  <2>4. Sound(row)
    BY <2>2, <2>3 DEF Sound, Final
  <2>5. NeedsValidation(row) => w.run \in validated
    BY <1>3, <1>4, <1>6, <1>10, <1>11 DEF CopiesValidated, NeedsValidation
  <2> HIDE DEF row
  <2>6. /\ w'.pc = "release" /\ w'.row = row /\ w'.run = w.run /\ w'.dto = w.dto
        /\ w'.end = w.end /\ w'.summary = w.summary /\ w'.base = Absent
    BY <1>2, <1>7 DEF WorkerState
  <2>7. CopiesSound' /\ CopiesValidated'
    BY <1>1, <1>3, <1>4, <1>6, <1>8, <1>10, <2>4, <2>5, <2>6
    DEF CopiesSound, CopiesValidated, Working
  <2>8. Apart'
    BY <1>1, <1>2, <1>3, <1>8, <2>6 DEF Apart, MaintHoldsRow, Active, Exists, Working
  <2> QED
    BY <2>7, <2>8
<1>12. CASE w.end # "completed"
  <2>1. final = Failed(w.dto)
    BY <1>12
  <2>2. /\ final.status = "failed" /\ final.business = "failure"
        /\ final.result = w.dto.result
    BY <1>2, <2>1, EndColumns
  <2>3. Unfinished(row)
    <3>1. Unfinished(final)
      BY <1>4, <2>2 DEF Unfinished
    <3> HIDE DEF final
    <3> QED
      BY <1>6, <1>9, <3>1, MergeUnfinished
  <2>4. NeedsValidation(row) => w.run \in validated
    <3>1. CASE w.row = Absent
      <4>1. NeedsValidation(row) => NeedsValidation(runs[w.run])
        BY <1>10, <2>2, <3>1 DEF NeedsValidation, WorkerView
      <4> QED
        BY <1>2, <4>1 DEF AuditInv, RunsSound
    <3>2. CASE w.row # Absent
      <4>1. w.base = WorkerView
        BY <1>1, <1>3, <3>2 DEF CopiesValidated, WorkerView
      <4>2. row.status = "failed"
        BY <1>10, <2>2, <4>1
      <4> QED
        BY <4>2 DEF NeedsValidation
    <3> QED
      BY <3>1, <3>2
  <2> HIDE DEF row
  <2>6. /\ w'.pc = "release" /\ w'.row = row /\ w'.run = w.run /\ w'.dto = w.dto
        /\ w'.end = w.end /\ w'.summary = w.summary /\ w'.base = Absent
    BY <1>2, <1>7 DEF WorkerState
  <2>7. CopiesSound' /\ CopiesValidated'
    BY <1>1, <1>3, <1>4, <1>6, <1>8, <1>10, <1>12, <2>3, <2>4, <2>6, UnfinishedIsSound
    DEF CopiesSound, CopiesValidated, Working
  <2>8. Apart'
    BY <1>1, <1>2, <1>3, <1>8, <2>6 DEF Apart, MaintHoldsRow, Active, Exists, Working
  <2> QED
    BY <2>7, <2>8
<1> QED
  BY <1>11, <1>12

\* the commit of a validation or of an end
LEMMA AuditWorkerCommits ==
    ASSUME IInv, AuditInv, WorkerCommits
    PROVE  /\ RunsSound' /\ CopiesSound' /\ CopiesValidated' /\ Apart'
           /\ TimeoutsSound' /\ FinalRunIsSummarised'
<1>1. /\ w.pc = "commit" /\ w.run \in RunId /\ w.row \in Row /\ w.row # Absent
      /\ Exists(w.run) /\ Working
  BY WorkerTypes DEF WorkerCommits, Working
<1>2. /\ runs' = [runs EXCEPT ![w.run] = w.row]
      /\ summaries' = IF w.summary THEN Append(summaries, w.run) ELSE summaries
      /\ UNCHANGED <<m, validated>>
      /\ w' = IdleWorker
  BY DEF WorkerCommits, workerFrame
<1>3. runs \in [RunId -> RowOrAbsent] /\ summaries \in Seq(RunId)
  BY DEF IInv, TypeOK
<1>4. CopiesSound' /\ CopiesValidated' /\ Apart'
  BY <1>2, Resting, WorkerRests
<1>5. \A r \in RunId : runs'[r] = IF r = w.run THEN w.row ELSE runs[r]
  BY <1>1, <1>2, <1>3
<1>6. RunsSound'
  BY <1>1, <1>2, <1>5 DEF AuditInv, RunsSound, CopiesSound, CopiesValidated, Exists
<1>7. FinalRunIsSummarised'
  <2>1. \A r : Summarised(r) => Summarised(r)'
    BY <1>1, <1>2, <1>3 DEF Summarised
  <2>2. w.summary => \E i \in 1..Len(summaries') : summaries'[i] = w.run
    <3>1. CASE w.summary
      <4>1. /\ Len(summaries') = Len(summaries) + 1 /\ Len(summaries) \in Nat
            /\ summaries'[Len(summaries) + 1] = w.run
        BY <1>1, <1>2, <1>3, <3>1
      <4> QED
        BY <4>1
    <3> QED
      BY <3>1
  <2>3. ASSUME NEW r \in RunId, Terminal(r)'
        PROVE  \E i \in 1..Len(summaries') : summaries'[i] = r
    <3>1. CASE r # w.run
      BY <1>5, <2>1, <2>3, <3>1 DEF AuditInv, FinalRunIsSummarised, Summarised, Terminal, Exists
    <3>2. CASE r = w.run
      <4>1. w.row.status \in Final
        BY <1>5, <2>3, <3>2 DEF Terminal
      <4>2. w.summary \/ Summarised(w.run)
        BY <1>1, <4>1 DEF AuditInv, CopiesSound
      <4> QED
        BY <1>1, <2>1, <2>2, <3>2, <4>2 DEF Summarised
    <3> QED
      BY <3>1, <3>2
  <2> QED
    BY <2>3 DEF FinalRunIsSummarised
<1>8. TimeoutsSound'
  <2>1. m.rows[w.run] = Absent /\ (m.todo[w.run] # Absent => Active(w.run))
    BY <1>1 DEF AuditInv, Apart
  <2>2. m.pc = "update" /\ m.base.status \in Final => m.run # w.run
    <3> SUFFICES ASSUME m.pc = "update", m.base.status \in Final, m.run = w.run
                 PROVE  FALSE
      OBVIOUS
    <3>1. runs[w.run] = m.base
      BY DEF AuditInv, TimeoutsSound
    <3>2. m.todo[w.run] # Absent
      BY MaintTypes
    <3> QED
      BY <2>1, <3>1, <3>2 DEF Active
  <2>3. m.pc \in {"select", "update", "release"} => m.run \in RunId
    BY MaintTypes
  <2>4. \A r \in RunId : m.rows[r] # Absent => runs'[r] = runs[r]
    BY <1>5, <2>1
  <2> QED
    BY <1>2, <1>5, <2>2, <2>3, <2>4
    DEF AuditInv, TimeoutsSound, MaintSummarises, Active, Exists
<1> QED
  BY <1>4, <1>6, <1>7, <1>8

-----------------------------------------------------------------------------
(* The maintenance thread.                                                  *)

\* nothing that the worker relies on changes
LEMMA CopiesUndisturbed ==
    ASSUME AuditInv, UNCHANGED <<runs, summaries, w, validated>>
    PROVE  CopiesSound' /\ CopiesValidated'
BY DEF AuditInv, CopiesSound, CopiesValidated, Summarised, Working

\* a reconciliation that has no transaction open claims nothing
LEMMA MaintRests ==
    ASSUME IInv, m' = IdleMaint, UNCHANGED w
    PROVE  TimeoutsSound' /\ Apart'
<1>1. /\ IdleMaint.pc = "idle"
      /\ IdleMaint.todo = [r \in RunId |-> Absent]
      /\ IdleMaint.rows = [r \in RunId |-> Absent]
  BY DEF IdleMaint
<1>2. TimeoutsSound'
  BY <1>1 DEF TimeoutsSound
<1>3. Apart'
  BY <1>1, WorkerTypes DEF Apart, Working
<1> QED
  BY <1>2, <1>3

LEMMA AuditMaintOnly ==
    ASSUME IInv, AuditInv,
           \/ ListOverdueRuns \/ NextOverdueRun \/ InsertTimeoutSummary
           \/ TimeoutSummaryKeyTaken \/ SelectOverdueRun \/ FailOverdueRun
           \/ MaintIsVictim \/ MaintReleasesLock \/ MaintCommitFails
    PROVE  TimeoutsSound' /\ Apart'
<1>1. UNCHANGED <<runs, summaries, w>>
  BY DEF ListOverdueRuns, NextOverdueRun, InsertTimeoutSummary, TimeoutSummaryKeyTaken,
     SelectOverdueRun, FailOverdueRun, MaintIsVictim, MaintReleasesLock, MaintCommitFails,
     maintOnly, maintFrame, dbVars
<1>2. TimeoutsSound /\ Apart /\ RunsSound
  BY DEF AuditInv
<1>3. /\ m \in MaintState /\ m.todo \in [RunId -> RowOrAbsent]
      /\ m.rows \in [RunId -> RowOrAbsent] /\ m.summaries \in Seq(RunId)
  BY MaintTypes DEF MaintState
<1>4. Working => w.run \in RunId
  BY WorkerTypes
<1>5. CASE TimeoutSummaryKeyTaken \/ MaintIsVictim \/ MaintCommitFails
  BY <1>1, <1>5, MaintRests DEF TimeoutSummaryKeyTaken, MaintIsVictim, MaintCommitFails
<1>6. CASE ListOverdueRuns
  <2> DEFINE todo == [r \in RunId |-> IF TimedOut(r) THEN runs[r] ELSE Absent]
  <2>1. m' = [m EXCEPT !.pc = "next", !.todo = todo]
    BY <1>6 DEF ListOverdueRuns
  <2>2. \A r \in RunId : todo[r] # Absent => Active(r) /\ todo[r] = runs[r]
    BY DEF TimedOut
  <2> HIDE DEF todo
  <2>3. m'.pc = "next" /\ m'.todo = todo /\ m'.rows = m.rows /\ m'.summaries = m.summaries
    BY <1>3, <2>1 DEF MaintState
  <2>4. \A r \in RunId : todo[r] # Absent => Unfinished(todo[r])
    BY <1>2, <2>2 DEF RunsSound, Sound, Active
  <2>5. TimeoutsSound'
    BY <1>1, <1>2, <2>3, <2>4 DEF TimeoutsSound, MaintSummarises, Active, Exists
  <2>6. Apart'
    BY <1>1, <1>2, <1>4, <2>2, <2>3 DEF Apart, Active, Exists, Working
  <2> QED
    BY <2>5, <2>6
<1>7. CASE NextOverdueRun
  <2>1. PICK r \in Todo : m' = [m EXCEPT !.pc = "summary", !.run = r,
                                        !.key = NextSummaryId + Len(m.summaries)]
    BY <1>7 DEF NextOverdueRun
  <2>2. m'.pc = "summary" /\ UNCHANGED <<m.todo, m.rows, m.summaries>>
    BY <1>3, <2>1 DEF MaintState
  <2> QED
    BY <1>1, <1>2, <2>2 DEF TimeoutsSound, Apart, MaintSummarises, Active, Exists, Working
<1>8. CASE InsertTimeoutSummary
  <2>1. /\ m'.pc = "select" /\ UNCHANGED <<m.todo, m.rows, m.run>>
        /\ m'.summaries = Append(m.summaries, m.run)
    BY <1>3, <1>8 DEF InsertTimeoutSummary, MaintState
  <2>2. m.run \in RunId
    BY <1>8, MaintTypes DEF InsertTimeoutSummary
  <2>3. /\ Len(m'.summaries) = Len(m.summaries) + 1 /\ Len(m.summaries) \in Nat
        /\ m'.summaries[Len(m.summaries) + 1] = m.run
        /\ \A i \in 1..Len(m.summaries) : m'.summaries[i] = m.summaries[i]
    BY <1>3, <2>1, <2>2
  <2>4. MaintSummarises(m.run)'
    BY <2>1, <2>3 DEF MaintSummarises
  <2>5. \A r : MaintSummarises(r) => MaintSummarises(r)'
    BY <2>3 DEF MaintSummarises
  <2>6. TimeoutsSound'
    BY <1>1, <1>2, <2>1, <2>4, <2>5 DEF TimeoutsSound, Active, Exists
  <2> QED
    BY <1>1, <1>2, <2>1, <2>6 DEF Apart, Active, Exists, Working
<1>9. CASE SelectOverdueRun
  <2>1. /\ m'.pc = "update" /\ UNCHANGED <<m.todo, m.rows, m.run, m.summaries>>
        /\ m'.base = runs[m.run] /\ m.pc = "select"
    BY <1>3, <1>9 DEF SelectOverdueRun, MaintState
  <2>2. m.run \in RunId /\ Exists(m.run)
    BY <2>1, MaintTypes
  <2>3. m'.base # Absent /\ (m'.base.status \notin Final => Unfinished(m'.base))
    BY <1>2, <2>1, <2>2 DEF RunsSound, Sound, Exists
  <2>4. TimeoutsSound'
    BY <1>1, <1>2, <2>1, <2>3 DEF TimeoutsSound, MaintSummarises, Active, Exists, Unfinished
  <2> QED
    BY <1>1, <1>2, <2>1, <2>4 DEF Apart, Active, Exists, Working
<1>10. CASE FailOverdueRun
  <2> DEFINE failed == Failed(m.todo[m.run])
             row == Merge(failed, m.base, runs[m.run])
  <2>1. m.pc = "update" /\ ~ WorkerHoldsRow(m.run)
    BY <1>10 DEF FailOverdueRun
  <2>2. /\ m.run \in RunId /\ Exists(m.run) /\ runs[m.run] \in Row
        /\ m.todo[m.run] # Absent /\ m.todo[m.run] \in Row
    BY <2>1, MaintTypes
  <2>3. /\ m.base # Absent /\ Unfinished(m.todo[m.run]) /\ MaintSummarises(m.run)
        /\ IF m.base.status \in Final THEN runs[m.run] = m.base ELSE Unfinished(m.base)
    BY <1>2, <2>1, <2>2 DEF TimeoutsSound
  <2>4. m.base \in Row
    BY <2>3, MaintTypes
  <2>5. /\ failed \in Row /\ failed.status = "failed" /\ failed.business = "failure"
        /\ failed.result = m.todo[m.run].result
    BY <2>2, EndColumns
  <2>6. m' = [m EXCEPT !.pc = "release", !.base = Absent, !.rows[m.run] = row]
    BY <1>10 DEF FailOverdueRun
  <2> HIDE DEF failed
  <2>7. /\ row \in Row /\ row.op = runs[m.run].op
        /\ row.status = IF failed.status # m.base.status THEN failed.status
                        ELSE runs[m.run].status
    BY <2>2, <2>5, MergeColumns
  <2>8. row.status = "failed"
    BY <2>3, <2>5, <2>7 DEF Final, Unfinished
  <2>9. Active(m.run) => Unfinished(row)
    <3>1. Unfinished(failed)
      BY <2>3, <2>5 DEF Unfinished
    <3>2. Active(m.run) => Unfinished(runs[m.run])
      BY <1>2, <2>2 DEF RunsSound, Sound, Active
    <3> QED
      BY <2>2, <2>5, <3>1, <3>2, MergeUnfinished
  <2> HIDE DEF row
  <2>10. /\ m'.pc = "release" /\ UNCHANGED <<m.todo, m.run, m.summaries>>
         /\ m'.rows = [m.rows EXCEPT ![m.run] = row]
    BY <1>3, <2>6 DEF MaintState
  <2>11. \A r \in RunId : m'.rows[r] = IF r = m.run THEN row ELSE m.rows[r]
    BY <1>3, <2>2, <2>10
  <2>12. TimeoutsSound'
    BY <1>1, <1>2, <2>2, <2>3, <2>7, <2>8, <2>9, <2>10, <2>11
    DEF TimeoutsSound, MaintSummarises, Active, Exists
  <2>13. w.row # Absent => w.run # m.run /\ w.run \in RunId
    BY <2>1, WorkerTypes DEF WorkerHoldsRow
  <2>14. Apart'
    BY <1>1, <1>2, <1>4, <2>2, <2>10, <2>11, <2>13 DEF Apart, Active, Exists, Working
  <2> QED
    BY <2>12, <2>14
<1>11. CASE MaintReleasesLock
  <2> DEFINE pc == IF Todo = {m.run} THEN "commit" ELSE "next"
  <2>1. m' = [m EXCEPT !.pc = pc, !.todo[m.run] = Absent]
    BY <1>11 DEF MaintReleasesLock
  <2>2. pc \in {"commit", "next"}
    OBVIOUS
  <2> HIDE DEF pc
  <2>3. /\ m'.pc = pc /\ UNCHANGED <<m.rows, m.summaries>>
        /\ m'.todo = [m.todo EXCEPT ![m.run] = Absent]
    BY <1>3, <2>1 DEF MaintState
  <2>4. \A r \in RunId : m'.todo[r] # Absent => m'.todo[r] = m.todo[r]
    BY <1>3, <2>3
  <2> QED
    BY <1>1, <1>2, <1>4, <2>2, <2>3, <2>4
    DEF TimeoutsSound, Apart, MaintSummarises, Active, Exists, Working
<1> QED
  BY <1>5, <1>6, <1>7, <1>8, <1>9, <1>10, <1>11

LEMMA AuditMaintCommits ==
    ASSUME IInv, AuditInv, MaintCommits
    PROVE  /\ RunsSound' /\ CopiesSound' /\ CopiesValidated' /\ Apart'
           /\ TimeoutsSound' /\ FinalRunIsSummarised'
<1>1. /\ summaries' = summaries \o m.summaries /\ UNCHANGED <<w, validated>>
      /\ m' = IdleMaint
      /\ \A r \in RunId : runs'[r] = IF m.rows[r] # Absent THEN m.rows[r] ELSE runs[r]
  BY DEF MaintCommits, maintFrame, MaintHoldsRow
<1>2. summaries \in Seq(RunId) /\ m.summaries \in Seq(RunId)
  BY MaintTypes DEF IInv, TypeOK, MaintState
<1>3. TimeoutsSound' /\ Apart'
  BY <1>1, MaintRests
<1>4. /\ TimeoutsSound /\ Apart /\ RunsSound /\ CopiesSound /\ CopiesValidated
      /\ FinalRunIsSummarised
  BY DEF AuditInv
<1>5. \A r : Summarised(r) \/ MaintSummarises(r) => \E i \in 1..Len(summaries') : summaries'[i] = r
  <2>1. /\ Len(summaries') = Len(summaries) + Len(m.summaries)
        /\ Len(summaries) \in Nat /\ Len(m.summaries) \in Nat
        /\ \A i \in 1..Len(summaries) : summaries'[i] = summaries[i]
        /\ \A i \in 1..Len(m.summaries) : summaries'[Len(summaries) + i] = m.summaries[i]
    BY <1>1, <1>2
  <2>2. ASSUME NEW r, Summarised(r)
        PROVE  \E i \in 1..Len(summaries') : summaries'[i] = r
    BY <2>1, <2>2 DEF Summarised
  <2>3. ASSUME NEW r, MaintSummarises(r)
        PROVE  \E i \in 1..Len(summaries') : summaries'[i] = r
    <3>1. PICK i \in 1..Len(m.summaries) : m.summaries[i] = r
      BY <2>3 DEF MaintSummarises
    <3>2. Len(summaries) + i \in 1..Len(summaries')
      BY <2>1
    <3>3. summaries'[Len(summaries) + i] = r
      BY <2>1, <3>1
    <3> QED
      BY <3>2, <3>3
  <2> QED
    BY <2>2, <2>3
<1>6. \A r \in RunId : m.rows[r] # Absent =>
        m.rows[r].status = "failed" /\ m.rows[r].op = runs[r].op /\ MaintSummarises(r)
  BY <1>4 DEF TimeoutsSound
<1>7. \A r \in RunId : m.rows[r] # Absent => Exists(r)
  BY MaintTypes
<1>8. RunsSound'
  BY <1>1, <1>4, <1>6, <1>7 DEF RunsSound, Sound, NeedsValidation, Final, Exists
<1>9. FinalRunIsSummarised'
  <2>1. ASSUME NEW r \in RunId, Terminal(r)'
        PROVE  Summarised(r) \/ MaintSummarises(r)
    BY <1>1, <1>4, <1>6, <2>1 DEF FinalRunIsSummarised, Summarised, Terminal, Exists
  <2> QED
    BY <1>5, <2>1 DEF FinalRunIsSummarised
<1>10. Working => Unfinished(runs'[w.run]) /\ runs'[w.run].op = runs[w.run].op
  <2> SUFFICES ASSUME Working
               PROVE  Unfinished(runs'[w.run]) /\ runs'[w.run].op = runs[w.run].op
    OBVIOUS
  <2>1. w.run \in RunId /\ Unfinished(runs[w.run])
    BY <1>4, WorkerTypes DEF CopiesSound
  <2>2. m.rows[w.run] # Absent => Active(w.run)
    BY <1>4 DEF Apart
  <2>3. m.rows[w.run] # Absent => Unfinished(m.rows[w.run])
    BY <1>4, <2>1, <2>2 DEF TimeoutsSound
  <2> QED
    BY <1>1, <1>6, <2>1, <2>3
<1>11. CopiesSound'
  <2>1. w.row # Absent => Working
    BY WorkerTypes
  <2>2. Summarised(w.run) => Summarised(w.run)'
    BY <1>1, <1>5 DEF Summarised
  <2> QED
    BY <1>1, <1>4, <1>10, <2>1, <2>2 DEF CopiesSound, Working
<1>12. CopiesValidated'
  BY <1>1, <1>4 DEF CopiesValidated
<1> QED
  BY <1>3, <1>8, <1>9, <1>11, <1>12

-----------------------------------------------------------------------------
(* Request threads and the environment.                                     *)

\* the only commit of a request: a new run
LEMMA AuditCommitRun ==
    ASSUME IInv, AuditInv, NEW c \in Clients, CommitRun(c)
    PROVE  /\ RunsSound' /\ CopiesSound' /\ CopiesValidated' /\ Apart'
           /\ TimeoutsSound' /\ FinalRunIsSummarised'
<1> DEFINE r0  == req[c].id
           row == NewRow(req[c].line, req[c].op)
<1>1. r0 \in RunId /\ ~ Exists(r0)
  BY DEF CommitRun, IInv, RequestOK, Numbered, Inserted
<1>2. row.status = "created" /\ row.business = "null" /\ row.result = FALSE
  BY DEF NewRow
<1>3. /\ runs' = [runs EXCEPT ![r0] = row]
      /\ UNCHANGED <<summaries, w, m, validated>>
  BY DEF CommitRun, clientFrame
<1> HIDE DEF r0, row
<1>4. \A r \in RunId : runs'[r] = IF r = r0 THEN row ELSE runs[r]
  BY <1>1, <1>3 DEF IInv, TypeOK
<1>5. \A r \in RunId : Exists(r) => runs'[r] = runs[r] /\ Exists(r)'
  BY <1>1, <1>4 DEF Exists
<1>6. Sound(row) /\ ~ NeedsValidation(row)
  BY <1>2 DEF Sound, Unfinished, NeedsValidation, Final
<1>7. RunsSound'
  BY <1>3, <1>4, <1>6 DEF AuditInv, RunsSound, Exists
<1>8. Working => w.run \in RunId /\ runs'[w.run] = runs[w.run] /\ Exists(w.run)
  BY <1>5, WorkerTypes
<1>9. w.row # Absent => Working
  BY WorkerTypes
<1>10. CopiesSound' /\ CopiesValidated'
  BY <1>3, <1>8, <1>9
  DEF AuditInv, CopiesSound, CopiesValidated, Summarised, Working
<1>11. Apart'
  BY <1>3, <1>8, <1>9 DEF AuditInv, Apart, Working, Active, Exists
<1>12. TimeoutsSound'
  BY <1>3, <1>5, MaintTypes DEF AuditInv, TimeoutsSound, MaintSummarises, Active, Exists
<1>13. FinalRunIsSummarised'
  BY <1>2, <1>3, <1>4 DEF AuditInv, FinalRunIsSummarised, Terminal, Exists, Final
<1> QED
  BY <1>7, <1>10, <1>11, <1>12, <1>13

LEMMA AuditClient ==
    ASSUME IInv, AuditInv, NEW c \in Clients, Client(c)
    PROVE  /\ RunsSound' /\ CopiesSound' /\ CopiesValidated' /\ Apart'
           /\ TimeoutsSound' /\ FinalRunIsSummarised'
<1>1. CASE CommitRun(c)
  BY <1>1, AuditCommitRun
<1>2. CASE ~ CommitRun(c)
  <2>1. UNCHANGED <<runs, summaries, w, m, validated>>
    BY <1>2 DEF Client, CreateStep, BeginRun, RejectInputSet, NumberRun, InsertRun,
       AcquireLock, LockConflict, CopyAndEnqueue, FirstCopyFails, LaterCopyFails,
       CommitRunFails, clientFrame
  <2>2. Apart'
    BY <2>1 DEF AuditInv, Apart, Working, Active, Exists
  <2> QED
    BY <2>1, <2>2, NothingCommitted, CopiesUndisturbed, TimeoutsUndisturbed
<1> QED
  BY <1>1, <1>2

LEMMA AuditWorker ==
    ASSUME IInv, AuditInv, Worker
    PROVE  /\ RunsSound' /\ CopiesSound' /\ CopiesValidated' /\ Apart'
           /\ TimeoutsSound' /\ FinalRunIsSummarised'
<1>1. CASE WorkerCommits
  BY <1>1, AuditWorkerCommits
<1>2. CASE ~ WorkerCommits
  <2>1. UNCHANGED <<runs, summaries, m>> /\ validated \subseteq validated'
    BY <1>2 DEF Worker, TakeJob, RunNotVisible, RunAlreadyFinal, LoadRun,
       SelectBeforeTransition, Transition, ValidateRun, ExecuteRun, StrategyFails,
       NumberSummary, InsertSummary, SummaryKeyTaken, WorkerIsVictim, SelectBeforeFinish,
       FinishRun, ResultNotStored, WorkerReleasesLock, WorkerCommitFails, RecoverRun,
       workerOnly, workerFrame, dbVars
  <2>2. CopiesSound' /\ CopiesValidated' /\ Apart'
    BY <1>2, AuditWorkerRests, AuditLoads, AuditSameRow, AuditTransition, AuditFinish
    DEF Worker
  <2> QED
    BY <2>1, <2>2, NothingCommitted, TimeoutsUndisturbed
<1> QED
  BY <1>1, <1>2

LEMMA AuditMaintenance ==
    ASSUME IInv, AuditInv, Maintenance
    PROVE  /\ RunsSound' /\ CopiesSound' /\ CopiesValidated' /\ Apart'
           /\ TimeoutsSound' /\ FinalRunIsSummarised'
<1>1. CASE MaintCommits
  BY <1>1, AuditMaintCommits
<1>2. CASE ~ MaintCommits
  <2>1. UNCHANGED <<runs, summaries, w, validated>>
    BY <1>2 DEF Maintenance, ListOverdueRuns, NextOverdueRun, InsertTimeoutSummary,
       TimeoutSummaryKeyTaken, SelectOverdueRun, FailOverdueRun, MaintIsVictim,
       MaintReleasesLock, MaintCommitFails, maintOnly, maintFrame, dbVars
  <2>2. TimeoutsSound' /\ Apart'
    BY <1>2, AuditMaintOnly DEF Maintenance
  <2> QED
    BY <2>1, <2>2, NothingCommitted, CopiesUndisturbed
<1> QED
  BY <1>1, <1>2

LEMMA AuditEnvironment ==
    ASSUME IInv, AuditInv,
           \/ \E r \in RunId : RunBecomesOverdue(r)
           \/ Restart
           \/ UNCHANGED vars
    PROVE  /\ RunsSound' /\ CopiesSound' /\ CopiesValidated' /\ Apart'
           /\ TimeoutsSound' /\ FinalRunIsSummarised'
<1>1. UNCHANGED <<runs, summaries, validated>>
  BY DEF RunBecomesOverdue, Restart, vars, dbVars
<1>2. CASE Restart
  <2>1. CopiesSound' /\ CopiesValidated' /\ Apart'
    BY <1>2, Resting, WorkerRests DEF Restart
  <2>2. TimeoutsSound'
    BY <1>2 DEF Restart, IdleMaint, TimeoutsSound
  <2> QED
    BY <1>1, <2>1, <2>2, NothingCommitted
<1>3. CASE ~ Restart
  <2>1. UNCHANGED <<w, m>>
    BY <1>3 DEF RunBecomesOverdue, vars
  <2>2. Apart'
    BY <1>1, <2>1 DEF AuditInv, Apart, Working, Active, Exists
  <2> QED
    BY <1>1, <2>1, <2>2, NothingCommitted, CopiesUndisturbed, TimeoutsUndisturbed
<1> QED
  BY <1>2, <1>3

-----------------------------------------------------------------------------
(* The owners of the locks.                                                 *)

\* a step of which no lock gets a new owner
LEMMA LocksKept ==
    ASSUME IInv, LocksOwned, UNCHANGED req,
           faults' = 0 => faults = 0,
           \A l \in Lines : locks'[l] \in {locks[l], NoRun},
           \A r \in RunId : Exists(r) => Exists(r)' /\ runs'[r].line = runs[r].line
    PROVE  LocksOwned'
<1>1. \A l \in Lines : locks[l] # NoRun => locks[l] \in RunId
  BY DEF IInv, TypeOK
<1> QED
  BY <1>1 DEF LocksOwned

\* a fault, or a restart
LEMMA LocksForgotten ==
    ASSUME faults' # 0 \/ \A l \in Lines : locks'[l] = NoRun
    PROVE  LocksOwned'
BY DEF LocksOwned

LEMMA FaultCounts == IInv /\ Fault => faults' # 0
BY DEF IInv, TypeOK, Fault

LEMMA LocksClient ==
    ASSUME IInv, LocksOwned, NEW c \in Clients, Client(c)
    PROVE  LocksOwned'
<1>1. req \in [Clients -> Request] /\ locks \in [Lines -> RunId \cup {NoRun}]
  BY DEF IInv, TypeOK
<1>2. CASE FirstCopyFails(c) \/ LaterCopyFails(c) \/ CommitRunFails(c)
  BY <1>2, FaultCounts, LocksForgotten DEF FirstCopyFails, LaterCopyFails, CommitRunFails
<1>3. CASE \/ \E line \in Lines, op \in Ops : BeginRun(c, line, op)
           \/ RejectInputSet(c) \/ NumberRun(c) \/ InsertRun(c) \/ LockConflict(c)
           \/ CopyAndEnqueue(c)
  <2>1. UNCHANGED <<runs, locks, faults>>
    BY <1>3 DEF BeginRun, RejectInputSet, NumberRun, InsertRun, LockConflict, CopyAndEnqueue,
       memVars, NoFault
  <2>2. \A d \in Clients : req[d].pc \in {"locked", "enqueued"} =>
          /\ req'[d].pc \in {"locked", "enqueued"}
          /\ req'[d].line = req[d].line /\ req'[d].id = req[d].id
    BY <1>1, <1>3 DEF BeginRun, RejectInputSet, NumberRun, InsertRun, LockConflict,
       CopyAndEnqueue, EndRequest, MoveTo, Request
  <2> QED
    BY <2>1, <2>2 DEF LocksOwned, Exists
<1>4. CASE AcquireLock(c)
  <2>1. /\ UNCHANGED <<runs, faults>>
        /\ locks' = [locks EXCEPT ![req[c].line] = req[c].id]
        /\ req' = [req EXCEPT ![c].pc = "locked"] /\ req[c].pc = "inserted"
    BY <1>4 DEF AcquireLock, MoveTo, NoFault
  <2>2. \A d \in Clients : req'[d].line = req[d].line /\ req'[d].id = req[d].id
    BY <1>1, <2>1 DEF Request
  <2>3. req'[c].pc = "locked" /\ \A d \in Clients : d # c => req'[d].pc = req[d].pc
    BY <1>1, <2>1 DEF Request
  <2>4. \A l \in Lines : locks'[l] = IF l = req[c].line THEN req[c].id ELSE locks[l]
    BY <1>1, <2>1
  <2> QED
    BY <2>1, <2>2, <2>3, <2>4 DEF LocksOwned, Exists
<1>5. CASE CommitRun(c)
  <2> DEFINE row == NewRow(req[c].line, req[c].op)
  <2>1. req[c].pc = "enqueued"
    BY <1>5 DEF CommitRun
  <2>2. /\ req[c].id \in RunId /\ ~ Exists(req[c].id)
        /\ req[c].line \in Lines /\ req[c].op \in Ops
    BY <1>1, <2>1 DEF IInv, RequestOK, Numbered, Inserted, Request
  <2>3. row # Absent /\ row.line = req[c].line
    BY <2>2, NewRowType DEF NewRow
  <2>4. /\ UNCHANGED <<locks, faults>>
        /\ runs' = [runs EXCEPT ![req[c].id] = row]
        /\ req' = [req EXCEPT ![c] = NoRequest]
    BY <1>5 DEF CommitRun, EndRequest, NoFault, memVars
  <2> HIDE DEF row
  <2>5. \A r \in RunId : runs'[r] = IF r = req[c].id THEN row ELSE runs[r]
    BY <2>2, <2>4 DEF IInv, TypeOK
  <2>6. \A d \in Clients : d # c => req'[d] = req[d]
    BY <1>1, <2>4
  <2> QED
    BY <1>1, <2>2, <2>3, <2>4, <2>5, <2>6 DEF LocksOwned, Exists
<1> QED
  BY <1>2, <1>3, <1>4, <1>5 DEF Client, CreateStep

\* a release gives the lock to nobody
LEMMA ReleaseFrees ==
    ASSUME IInv, NEW r, NEW line, Release(r, line)
    PROVE  \A l \in Lines : locks'[l] \in {locks[l], NoRun}
BY DEF IInv, TypeOK, Release

LEMMA LocksStep ==
    ASSUME IInv, LocksOwned, [Next]_vars
    PROVE  LocksOwned'
<1>1. CASE \E c \in Clients : Client(c)
  BY <1>1, LocksClient
<1>2. CASE Restart
  BY <1>2, LocksForgotten DEF Restart
<1>3. CASE WorkerCommits
  <2>1. w.run \in RunId /\ Exists(w.run) /\ w.row # Absent /\ w.row.line = runs[w.run].line
    BY <1>3, WorkerTypes DEF WorkerCommits, Working, IInv, WorkerOK
  <2>2. runs' = [runs EXCEPT ![w.run] = w.row] /\ UNCHANGED <<locks, req, faults>>
    BY <1>3 DEF WorkerCommits, workerFrame, memVars, NoFault
  <2>3. \A r \in RunId : Exists(r) => Exists(r)' /\ runs'[r].line = runs[r].line
    BY <2>1, <2>2 DEF IInv, TypeOK, Exists
  <2> QED
    BY <2>2, <2>3, LocksKept
<1>4. CASE MaintCommits
  <2>1. UNCHANGED <<locks, req, faults>>
    BY <1>4 DEF MaintCommits, maintFrame, NoFault
  <2>2. \A r \in RunId : m.rows[r] # Absent => m.rows[r].line = runs[r].line
    BY DEF IInv, MaintOK
  <2>3. \A r \in RunId : Exists(r) => Exists(r)' /\ runs'[r].line = runs[r].line
    BY <1>4, <2>2 DEF MaintCommits, MaintHoldsRow, Exists
  <2> QED
    BY <2>1, <2>3, LocksKept
<1>5. CASE \/ Worker /\ ~ WorkerCommits
           \/ Maintenance /\ ~ MaintCommits
           \/ \E r \in RunId : RunBecomesOverdue(r)
           \/ UNCHANGED vars
  <2>1. UNCHANGED <<runs, req>>
    BY <1>5 DEF Worker, TakeJob, RunNotVisible, RunAlreadyFinal, LoadRun,
       SelectBeforeTransition, Transition, ValidateRun, ExecuteRun, StrategyFails,
       NumberSummary, InsertSummary, SummaryKeyTaken, WorkerIsVictim, SelectBeforeFinish,
       FinishRun, ResultNotStored, WorkerReleasesLock, WorkerCommitFails, RecoverRun,
       workerOnly, workerFrame, Maintenance, ListOverdueRuns, NextOverdueRun,
       InsertTimeoutSummary, TimeoutSummaryKeyTaken, SelectOverdueRun, FailOverdueRun,
       MaintIsVictim, MaintReleasesLock, MaintCommitFails, maintOnly, maintFrame,
       RunBecomesOverdue, vars, dbVars
  <2>2. faults' = faults \/ Fault
    BY <1>5 DEF Worker, TakeJob, RunNotVisible, RunAlreadyFinal, LoadRun,
       SelectBeforeTransition, Transition, ValidateRun, ExecuteRun, StrategyFails,
       NumberSummary, InsertSummary, SummaryKeyTaken, WorkerIsVictim, SelectBeforeFinish,
       FinishRun, ResultNotStored, WorkerReleasesLock, WorkerCommitFails, RecoverRun,
       workerOnly, Maintenance, ListOverdueRuns, NextOverdueRun,
       InsertTimeoutSummary, TimeoutSummaryKeyTaken, SelectOverdueRun, FailOverdueRun,
       MaintIsVictim, MaintReleasesLock, MaintCommitFails, maintOnly,
       RunBecomesOverdue, vars, NoFault
  <2>3. locks' = locks \/ \E r, line : Release(r, line)
    <3>1. CASE WorkerReleasesLock
      BY <3>1 DEF WorkerReleasesLock
    <3>2. CASE MaintReleasesLock
      BY <3>2 DEF MaintReleasesLock
    <3>3. CASE ~ WorkerReleasesLock /\ ~ MaintReleasesLock
      BY <1>5, <3>3 DEF Worker, TakeJob, RunNotVisible, RunAlreadyFinal, LoadRun,
         SelectBeforeTransition, Transition, ValidateRun, ExecuteRun, StrategyFails,
         NumberSummary, InsertSummary, SummaryKeyTaken, WorkerIsVictim,
         SelectBeforeFinish, FinishRun, ResultNotStored, WorkerCommitFails, RecoverRun,
         workerOnly, Maintenance, ListOverdueRuns, NextOverdueRun, InsertTimeoutSummary,
         TimeoutSummaryKeyTaken, SelectOverdueRun, FailOverdueRun, MaintIsVictim,
         MaintCommitFails, maintOnly, RunBecomesOverdue, vars, memVars
    <3> QED
      BY <3>1, <3>2, <3>3
  <2>4. \A l \in Lines : locks'[l] \in {locks[l], NoRun}
    BY <2>3, ReleaseFrees
  <2>5. faults' = 0 => faults = 0
    BY <2>2, FaultCounts
  <2> QED
    BY <2>1, <2>4, <2>5, LocksKept DEF Exists
<1> QED
  BY <1>1, <1>2, <1>3, <1>4, <1>5 DEF Next

-----------------------------------------------------------------------------
(* The theorems for every environment.                                      *)

LEMMA AuditStep ==
    ASSUME IInv, AuditInv, [Next]_vars
    PROVE  AuditInv'
<1>1. /\ RunsSound' /\ CopiesSound' /\ CopiesValidated' /\ Apart'
      /\ TimeoutsSound' /\ FinalRunIsSummarised'
  BY AuditClient, AuditWorker, AuditMaintenance, AuditEnvironment DEF Next
<1>2. LocksOwned'
  BY LocksStep DEF AuditInv
<1> QED
  BY <1>1, <1>2 DEF AuditInv

\* The second inductive invariant: the threads' copies of a run are unfinished
\* copies of an unfinished run, whatever the other thread does meanwhile.
THEOREM AuditInvariance == Spec => []AuditInv
<1>1. IInv /\ AuditInv /\ [Next]_vars => AuditInv'
  BY AuditStep
<1> QED
  BY InitAuditInv, Invariance, <1>1, PTL DEF Spec

\* _finalize_success, _finalize_failure and reconcile_timed_out_runs: a final run
\* has a summary audit, whichever thread ended it and however often it was tried.
THEOREM FinalRunsAreSummarised == Spec => []FinalRunIsSummarised
BY AuditInvariance, PTL DEF AuditInv

\* _finalize_success over SqlAlchemyRepository.update: a completed run has its
\* business result and its result file in every column, although an update
\* writes only the columns the worker's copy has changed.
THEOREM CompletedRunsAreConsistent == Spec => []CompletedRunIsConsistent
<1>1. AuditInv => CompletedRunIsConsistent
  BY DEF AuditInv, RunsSound, Sound, CompletedRunIsConsistent, Final
<1> QED
  BY <1>1, AuditInvariance, PTL

\* RunService.execute_run: no process run is completed whose validation has not
\* succeeded, although jobs outlive the transactions that queued them.
THEOREM CompletedRunsWereValidated == Spec => []ValidatedBeforeCompleted
<1>1. AuditInv => ValidatedBeforeCompleted
  BY DEF AuditInv, RunsSound, NeedsValidation, ValidatedBeforeCompleted
<1> QED
  BY <1>1, AuditInvariance, PTL

\* InMemoryRunLockManager: while nothing fails, no lock is left behind.
THEOREM LocksHaveOwners == Spec => []LockHasOwner
<1>1. IInv /\ AuditInv => LockHasOwner
  <2> SUFFICES ASSUME IInv, AuditInv, faults = 0, NEW l \in Lines, locks[l] # NoRun
               PROVE  \/ \E c \in Clients : /\ req[c].pc \in {"locked", "enqueued"}
                                            /\ req[c].line = l /\ req[c].id = locks[l]
                      \/ Active(locks[l]) /\ runs[locks[l]].line = l
    BY DEF LockHasOwner
  <2>1. locks[l] \in RunId
    BY DEF IInv, TypeOK
  <2> QED
    BY <2>1 DEF AuditInv, LocksOwned, IInv, FinalRunHoldsNoLock, Terminal, Active
<1> QED
  BY <1>1, Invariance, AuditInvariance, PTL
-----------------------------------------------------------------------------
(* What holds while no run exceeds its hard timeout.                        *)

\* what WorkerCommits will write, relative to the committed row
Ended(row, end) ==
    IF end = "completed"
    THEN [row EXCEPT !.status = "completed", !.business = "success",
                     !.result = (row.op = "process")]
    ELSE [row EXCEPT !.status = "failed", !.business = "failure"]

\* the committed status from which a run is executed
Executable(row) == row.status = IF row.op = "process" THEN "validating" ELSE "created"

OnlyWorkerWrites ==
    /\ overdue = {} /\ m = IdleMaint
    /\ \A r \in RunId : Active(r) =>
        /\ runs[r].business = "null" /\ runs[r].result = FALSE
        /\ runs[r].status = "created" \/ (runs[r].op = "process" /\ runs[r].status = "validating")

CopiesExact ==
    /\ Working => Active(w.run)
    /\ w.pc \in {"begin", "transition"} => w.row = Absent
    /\ w.pc = "transition" => w.base = runs[w.run]
    /\ Working => w.dto = [runs[w.run] EXCEPT !.status = w.dto.status]
    /\ w.pc \in {"begin", "transition"} => w.dto = runs[w.run]
    /\ w.pc \in {"validate", "execute"} => w.row = w.dto
    /\ w.pc = "validate" => w.dto.status = "validating" /\ w.dto.op = "process"
    /\ w.pc = "execute" => Executable(runs[w.run])
    /\ w.pc \in {"number", "summary", "select", "update"} =>
        /\ IF w.row = Absent THEN w.dto = runs[w.run] ELSE w.row = w.dto
        /\ w.end = "completed" => Executable(runs[w.run])
    /\ w.pc = "update" => w.base = w.dto
    /\ w.pc = "release" \/ (w.pc = "commit" /\ w.summary) =>
        /\ w.row = Ended(runs[w.run], w.end)
        /\ w.end = "completed" => Executable(runs[w.run])
    /\ w.pc = "commit" /\ ~ w.summary =>
        /\ w.row = [runs[w.run] EXCEPT !.status = "validating"]
        /\ w.row.op = "process"
    /\ w.summary => w.pc \in {"select", "update", "release", "commit"}

SummariesExact ==
    /\ \A i \in 1..Len(summaries) : Terminal(summaries[i])
    /\ OneSummaryPerRun

ContractInv ==
    /\ OnlyWorkerWrites
    /\ CopiesExact
    /\ SummariesExact
    /\ ActiveRunHoldsLock


LEMMA InitContractInv == Init => ContractInv
<1> SUFFICES ASSUME Init PROVE ContractInv
  OBVIOUS
<1>1. \A r \in RunId : ~ Exists(r)
  BY DEF Init, Exists
<1>2. OnlyWorkerWrites /\ ActiveRunHoldsLock
  BY <1>1 DEF Init, OnlyWorkerWrites, ActiveRunHoldsLock, Active
<1>3. CopiesExact
  BY DEF Init, IdleWorker, CopiesExact, Working
<1>4. SummariesExact
  BY DEF Init, SummariesExact, OneSummaryPerRun
<1> QED
  BY <1>2, <1>3, <1>4 DEF ContractInv

LEMMA NothingToReconcile ==
    ASSUME ~ HardTimeouts, OnlyWorkerWrites
    PROVE  ~ Maintenance /\ \A r \in RunId : ~ RunBecomesOverdue(r)
<1>1. m.pc = "idle" /\ overdue = {}
  BY DEF OnlyWorkerWrites, IdleMaint
<1> QED
  BY <1>1 DEF Maintenance, ListOverdueRuns, TimedOut, NextOverdueRun, InsertTimeoutSummary,
     TimeoutSummaryKeyTaken, SelectOverdueRun, FailOverdueRun, MaintIsVictim, Deadlocked,
     MaintReleasesLock, MaintCommits, MaintCommitFails, RunBecomesOverdue

\* an update from an exact copy writes exactly the copy
LEMMA MergeExact ==
    ASSUME NEW dto \in Row, NEW base \in Row, dto.line = base.line, dto.op = base.op
    PROVE  Merge(dto, base, base) = dto
<1>1. /\ Merge(dto, base, base) \in Row
      /\ Merge(dto, base, base).line = dto.line /\ Merge(dto, base, base).op = dto.op
      /\ Merge(dto, base, base).status = dto.status
      /\ Merge(dto, base, base).business = dto.business
      /\ Merge(dto, base, base).result = dto.result
  <2>1. \A a, b : (IF a # b THEN a ELSE b) = a
    OBVIOUS
  <2> DEFINE new == Merge(dto, base, base)
  <2>2. new = Merge(dto, base, base)
    OBVIOUS
  <2> HIDE DEF new
  <2>3. /\ new \in Row /\ new.line = base.line /\ new.op = base.op
        /\ new.status = IF dto.status # base.status THEN dto.status ELSE base.status
        /\ new.business = IF dto.business # base.business THEN dto.business ELSE base.business
        /\ new.result = IF dto.result # base.result THEN dto.result ELSE base.result
    BY <2>2, MergeColumns
  <2> QED
    BY <2>1, <2>2, <2>3
<1> QED
  BY <1>1 DEF Row

\* the columns of a run while the worker works on it
LEMMA ActiveColumns ==
    ASSUME OnlyWorkerWrites, NEW r \in RunId, Active(r)
    PROVE  /\ Exists(r) /\ runs[r].business = "null" /\ runs[r].result = FALSE
           /\ \/ runs[r].status = "created"
              \/ runs[r].op = "process" /\ runs[r].status = "validating"
BY DEF OnlyWorkerWrites, Active

\* a worker that has no transaction open claims nothing
LEMMA ExactRests ==
    ASSUME w'.pc \in {"idle", "load", "recover"}, ~ w'.summary
    PROVE  CopiesExact'
BY DEF CopiesExact, Working

LEMMA ExactWorkerRests ==
    ASSUME IInv, CopiesExact,
           \/ TakeJob \/ RunNotVisible \/ RunAlreadyFinal \/ SummaryKeyTaken
           \/ WorkerIsVictim \/ ResultNotStored \/ WorkerCommitFails
    PROVE  CopiesExact'
<1>1. CASE TakeJob
  <2>1. w'.pc = "load" /\ w'.summary = w.summary /\ w.pc = "idle"
    BY <1>1, WorkerTypes DEF TakeJob, WorkerState
  <2>2. ~ w.summary
    BY <2>1 DEF CopiesExact
  <2> QED
    BY <2>1, <2>2, ExactRests
<1>2. CASE ~ TakeJob
  <2>1. w' \in {IdleWorker, Aborted}
    BY <1>2 DEF RunNotVisible, RunAlreadyFinal, SummaryKeyTaken, WorkerIsVictim,
       ResultNotStored, WorkerCommitFails
  <2>2. ~ IdleWorker.summary /\ ~ Aborted.summary
    BY DEF IdleWorker, Aborted
  <2> QED
    BY <2>1, <2>2, Resting, ExactRests
<1> QED
  BY <1>1, <1>2

LEMMA ExactLoads ==
    ASSUME IInv, AuditInv, CopiesExact, LoadRun \/ RecoverRun
    PROVE  CopiesExact'
<1>1. w.pc \in {"load", "recover"} /\ Active(w.run) /\ w.run \in RunId /\ ~ w.summary
  BY WorkerTypes DEF LoadRun, RecoverRun, CopiesExact
<1>2. UNCHANGED runs
  BY DEF LoadRun, RecoverRun, workerOnly, dbVars
<1>3. /\ w'.pc = IF w.pc = "load" THEN "begin" ELSE "number"
      /\ w'.dto = runs[w.run] /\ w'.run = w.run /\ w'.row = w.row /\ w'.end = w.end
      /\ w'.summary = w.summary
  BY WorkerTypes DEF LoadRun, RecoverRun, WorkerState
<1>4. w.row = Absent /\ (w.pc = "recover" => w.end # "completed")
  BY <1>1, WorkerTypes DEF Working, AuditInv, CopiesValidated
<1>5. runs[w.run] = [runs[w.run] EXCEPT !.status = runs[w.run].status]
  <2>1. runs[w.run] \in Row
    BY <1>1, MaintTypes DEF Active
  <2> QED
    BY <2>1 DEF Row
<1> QED
  BY <1>1, <1>2, <1>3, <1>4, <1>5 DEF CopiesExact, Working, Active, Exists

\* a step within a transaction that leaves the row as it is
LEMMA ExactSameRow ==
    ASSUME IInv, AuditInv, OnlyWorkerWrites, CopiesExact,
           \/ SelectBeforeTransition \/ ValidateRun \/ ExecuteRun \/ StrategyFails
           \/ NumberSummary \/ InsertSummary \/ SelectBeforeFinish \/ WorkerReleasesLock
    PROVE  CopiesExact'
<1>1. UNCHANGED runs
  BY DEF SelectBeforeTransition, ValidateRun, ExecuteRun, StrategyFails, NumberSummary,
     InsertSummary, SelectBeforeFinish, WorkerReleasesLock, workerOnly, dbVars
<1>2. UNCHANGED <<w.run, w.dto, w.row>> /\ Working /\ Working'
  BY WorkerTypes DEF SelectBeforeTransition, ValidateRun, ExecuteRun, StrategyFails, NumberSummary,
     InsertSummary, SelectBeforeFinish, WorkerReleasesLock, WorkerState, Working
<1>3. \/ /\ w.pc = "begin" /\ w'.pc = "transition" /\ w'.base = runs[w.run]
         /\ w'.end = w.end /\ w'.summary = w.summary
      \/ /\ w.pc = "validate" /\ w'.pc = "commit"
         /\ w'.end = w.end /\ w'.summary = w.summary
      \/ w.pc = "execute" /\ w'.pc = "number" /\ w'.end = "completed" /\ w'.summary = w.summary
      \/ /\ w.pc \in {"validate", "execute"} /\ w'.pc = "number" /\ w'.end = "failed"
         /\ w'.summary = w.summary
      \/ w.pc = "number" /\ w'.pc = "summary" /\ w'.end = w.end /\ w'.summary = w.summary
      \/ w.pc = "summary" /\ w'.pc = "select" /\ w'.end = w.end /\ w'.summary = TRUE
      \/ /\ w.pc = "select" /\ w'.pc = "update" /\ w'.base = WorkerView
         /\ w'.end = w.end /\ w'.summary = w.summary
      \/ w.pc = "release" /\ w'.pc = "commit" /\ w'.end = w.end /\ w'.summary = w.summary
  BY ZenonT(60), WorkerTypes DEF SelectBeforeTransition, ValidateRun, ExecuteRun, StrategyFails, NumberSummary,
     InsertSummary, SelectBeforeFinish, WorkerReleasesLock, WorkerState
<1>4. /\ w.run \in RunId /\ Active(w.run) /\ Active(w.run)'
      /\ w.dto = [runs[w.run] EXCEPT !.status = w.dto.status]
  BY <1>1, <1>2, WorkerTypes DEF CopiesExact, Exists, Active
<1>5. w.pc = "release" => w.summary /\ w.row # Absent
  BY WorkerTypes DEF AuditInv, CopiesSound
<1>6. w.pc \in {"validate", "execute"} => w.row # Absent
  BY <1>2, WorkerTypes, RunEngineAssumption DEF CopiesExact, RunEngineAssumption
<1>7. w.pc = "validate" => w.dto = [runs[w.run] EXCEPT !.status = "validating"]
  BY <1>4 DEF CopiesExact
<1>8. CASE \/ w.pc = "begin" /\ w'.pc = "transition"
           \/ w.pc = "validate" /\ w'.pc = "commit"
  BY <1>1, <1>2, <1>3, <1>4, <1>7, <1>8 DEF CopiesExact, Working
<1>9. CASE w.pc \in {"validate", "execute"} /\ w'.pc = "number"
  BY <1>1, <1>2, <1>3, <1>4, <1>6, <1>9 DEF CopiesExact, Working
<1>10. CASE w.pc \in {"number", "summary"}
  BY <1>1, <1>2, <1>3, <1>4, <1>10 DEF CopiesExact, Working
<1>11. CASE w.pc = "select"
  BY <1>1, <1>2, <1>3, <1>4, <1>11 DEF CopiesExact, Working, WorkerView
<1>12. CASE w.pc = "release"
  BY <1>1, <1>2, <1>3, <1>4, <1>5, <1>12 DEF CopiesExact, Working
<1> QED
  BY <1>3, <1>8, <1>9, <1>10, <1>11, <1>12

LEMMA ExactTransition ==
    ASSUME IInv, OnlyWorkerWrites, CopiesExact, Transition
    PROVE  CopiesExact'
<1> DEFINE moved == [w.dto EXCEPT !.status = Stage]
           row   == Merge(moved, w.base, runs[w.run])
           pc    == IF Stage = "validating" THEN "validate" ELSE "execute"
<1>1. Working /\ w.pc = "transition"
  BY DEF Transition, Working
<1>2. /\ w \in WorkerState /\ w.run \in RunId /\ w.dto \in Row /\ runs[w.run] \in Row
  BY <1>1, WorkerTypes
<1>3. /\ Active(w.run) /\ w.base = runs[w.run] /\ w.dto = runs[w.run]
      /\ ~ w.summary
  BY <1>1 DEF CopiesExact
<1>4. moved \in Row /\ moved.line = w.dto.line /\ moved.op = w.dto.op /\ moved.status = Stage
  BY <1>2, StageType DEF Row
<1>5. row = moved
  <2> HIDE DEF moved
  <2> QED
    BY <1>2, <1>3, <1>4, MergeExact
<1>6. w' = [w EXCEPT !.pc = pc, !.dto = moved, !.base = Absent, !.row = row]
  BY DEF Transition
<1>7. UNCHANGED runs
  BY DEF Transition, workerOnly, dbVars
<1>8. \/ pc = "validate" /\ moved.status = "validating" /\ moved.op = "process"
      \/ pc = "execute" /\ Executable(runs[w.run])
  <2>1. w.dto.op \in {"check", "process"}
    BY <1>2 DEF Row, Ops
  <2> QED
    BY <1>2, <1>3, <1>4, <2>1, ActiveColumns DEF Stage, Executable
<1>9. moved = [runs[w.run] EXCEPT !.status = moved.status]
  BY <1>3, <1>4
<1> HIDE DEF moved, pc, row
<1>10. /\ w'.pc = pc /\ w'.dto = moved /\ w'.row = moved /\ w'.run = w.run
       /\ w'.end = w.end /\ w'.summary = w.summary
  BY <1>2, <1>5, <1>6 DEF WorkerState
<1> QED
  BY <1>3, <1>7, <1>8, <1>9, <1>10 DEF CopiesExact, Working, Active, Exists

LEMMA ExactFinish ==
    ASSUME IInv, AuditInv, OnlyWorkerWrites, CopiesExact, FinishRun
    PROVE  CopiesExact'
<1> DEFINE final == IF w.end = "completed" THEN Completed(w.dto) ELSE Failed(w.dto)
           row   == Merge(final, w.base, WorkerView)
<1>1. Working /\ w.pc = "update"
  BY DEF FinishRun, Working
<1>2. w \in WorkerState /\ w.run \in RunId /\ w.dto \in Row /\ runs[w.run] \in Row
  BY <1>1, WorkerTypes
<1>3. /\ Active(w.run) /\ w.dto = [runs[w.run] EXCEPT !.status = w.dto.status]
      /\ w.base = w.dto /\ WorkerView = w.dto
      /\ w.end = "completed" => Executable(runs[w.run])
  BY <1>1 DEF CopiesExact, WorkerView
<1>4. final \in Row /\ final.line = w.dto.line /\ final.op = w.dto.op
  BY <1>2, EndColumns DEF Completed, Failed, Row
<1>5. row = final
  <2> HIDE DEF final
  <2> QED
    BY <1>2, <1>3, <1>4, MergeExact
<1>6. final = Ended(runs[w.run], w.end)
  <2>1. runs[w.run].result = FALSE
    BY <1>2, <1>3, ActiveColumns
  <2> DEFINE ended == Ended(runs[w.run], w.end)
  <2>2. ended \in Row /\ ended.line = runs[w.run].line /\ ended.op = runs[w.run].op
    BY <1>2 DEF Ended, Row, Status, Final
  <2>3. w.dto.line = runs[w.run].line /\ w.dto.op = runs[w.run].op /\ w.dto.result = FALSE
        /\ w.dto.business = runs[w.run].business
    BY <1>2, <1>3, <2>1 DEF Row
  <2>4. CASE w.end = "completed"
    <3>1. ended.status = "completed" /\ ended.business = "success"
          /\ ended.result = (runs[w.run].op = "process")
      BY <1>2, <2>4 DEF Ended, Row
    <3>2. final = Completed(w.dto)
      BY <2>4
    <3>3. final.status = "completed" /\ final.business = "success"
          /\ final.result = (w.dto.result \/ w.dto.op = "process")
      BY <1>2, <3>2, EndColumns
    <3>4. final.result = ended.result
      BY <2>3, <3>1, <3>3, Zenon
    <3> HIDE DEF final, ended
    <3>5. final = ended
      BY <1>4, <2>2, <2>3, <3>1, <3>3, <3>4 DEF Row
    <3> QED
      BY <3>5 DEF ended
  <2>5. CASE w.end # "completed"
    <3>1. ended.status = "failed" /\ ended.business = "failure"
          /\ ended.result = runs[w.run].result
      BY <1>2, <2>5 DEF Ended, Row
    <3>2. final = Failed(w.dto)
      BY <2>5
    <3>3. final.status = "failed" /\ final.business = "failure" /\ final.result = w.dto.result
      BY <1>2, <3>2, EndColumns
    <3> HIDE DEF final, ended
    <3>4. final = ended
      BY <1>4, <2>1, <2>2, <2>3, <3>1, <3>3 DEF Row
    <3> QED
      BY <3>4 DEF ended
  <2> QED
    BY <2>4, <2>5
<1>7. w' = [w EXCEPT !.pc = "release", !.base = Absent, !.row = row] /\ UNCHANGED runs
  BY DEF FinishRun, workerOnly, dbVars
<1> HIDE DEF final, row
<1>8. /\ w'.pc = "release" /\ w'.dto = w.dto /\ w'.row = row /\ w'.run = w.run
      /\ w'.end = w.end /\ w'.summary = w.summary
  BY <1>2, <1>7 DEF WorkerState
<1> QED
  BY <1>3, <1>5, <1>6, <1>7, <1>8 DEF CopiesExact, Working, Active, Exists

\* what a commit of the worker writes
LEMMA CommitColumns ==
    ASSUME IInv, OnlyWorkerWrites, CopiesExact, WorkerCommits
    PROVE  /\ w.run \in RunId /\ Active(w.run) /\ runs[w.run] \in Row /\ w.row \in Row
           /\ runs' = [runs EXCEPT ![w.run] = w.row]
           /\ \A r \in RunId : runs'[r] = IF r = w.run THEN w.row ELSE runs[r]
           /\ IF w.summary
              THEN /\ w.row = Ended(runs[w.run], w.end) /\ w.row.status \in Final
                   /\ w.end = "completed" => Executable(runs[w.run])
              ELSE /\ w.row = [runs[w.run] EXCEPT !.status = "validating"]
                   /\ w.row.op = "process" /\ w.row.status = "validating"
<1>1. w.pc = "commit" /\ Working /\ runs' = [runs EXCEPT ![w.run] = w.row]
  BY DEF WorkerCommits, Working
<1>2. /\ w.run \in RunId /\ Active(w.run) /\ runs[w.run] \in Row /\ w.row \in Row
  BY <1>1, WorkerTypes DEF CopiesExact
<1>3. \A r \in RunId : runs'[r] = IF r = w.run THEN w.row ELSE runs[r]
  BY <1>1, <1>2 DEF IInv, TypeOK
<1>4. CASE w.summary
  <2>1. w.row = Ended(runs[w.run], w.end) /\ (w.end = "completed" => Executable(runs[w.run]))
    BY <1>1, <1>4 DEF CopiesExact
  <2>2. Ended(runs[w.run], w.end).status \in Final
    BY <1>2 DEF Ended, Row, Final
  <2> QED
    BY <1>1, <1>2, <1>3, <1>4, <2>1, <2>2
<1>5. CASE ~ w.summary
  <2>1. w.row = [runs[w.run] EXCEPT !.status = "validating"] /\ w.row.op = "process"
    BY <1>1, <1>5 DEF CopiesExact
  <2> QED
    BY <1>1, <1>2, <1>3, <1>5, <2>1 DEF Row
<1> QED
  BY <1>4, <1>5

-----------------------------------------------------------------------------
(* The steps that commit, and the refinement of RunContract.                *)

\* a step that commits nothing keeps what is said of the committed rows
LEMMA CommittedUndisturbed ==
    ASSUME OnlyWorkerWrites, SummariesExact, UNCHANGED <<runs, summaries, overdue, m>>
    PROVE  OnlyWorkerWrites' /\ SummariesExact'
BY DEF OnlyWorkerWrites, SummariesExact, OneSummaryPerRun, Terminal, Active, Exists

LEMMA ExactWorkerCommits ==
    ASSUME IInv, ContractInv, WorkerCommits
    PROVE  OnlyWorkerWrites' /\ CopiesExact' /\ SummariesExact' /\ ActiveRunHoldsLock'
<1>1. OnlyWorkerWrites /\ CopiesExact /\ SummariesExact /\ ActiveRunHoldsLock
  BY DEF ContractInv
<1>2. /\ w.run \in RunId /\ Active(w.run) /\ runs[w.run] \in Row /\ w.row \in Row
      /\ \A r \in RunId : runs'[r] = IF r = w.run THEN w.row ELSE runs[r]
      /\ IF w.summary
         THEN w.row.status \in Final
         ELSE /\ w.row = [runs[w.run] EXCEPT !.status = "validating"]
              /\ w.row.op = "process" /\ w.row.status = "validating"
  BY <1>1, CommitColumns
<1>3. /\ summaries' = IF w.summary THEN Append(summaries, w.run) ELSE summaries
      /\ w' = IdleWorker /\ w.pc = "commit"
      /\ UNCHANGED <<m, overdue, locks, faults, restarts>>
  BY DEF WorkerCommits, workerFrame, memVars, NoFault
<1>4. w.row # Absent /\ w.row.line = runs[w.run].line
  BY <1>3, WorkerTypes DEF IInv, WorkerOK
<1>5. runs[w.run].business = "null" /\ runs[w.run].result = FALSE
  BY <1>1, <1>2, ActiveColumns
<1>6. ~ w.summary => w.row.business = "null" /\ w.row.result = FALSE
  BY <1>2, <1>5 DEF Row
<1>7. OnlyWorkerWrites'
  BY <1>1, <1>2, <1>3, <1>6 DEF OnlyWorkerWrites, Active, Exists
<1>8. CopiesExact'
  BY <1>3, Resting, ExactRests DEF IdleWorker
<1>9. SummariesExact'
  <2>1. \A r \in RunId : Terminal(r) => r # w.run /\ Terminal(r)'
    BY <1>2 DEF Terminal, Active, Exists
  <2>2. \A i \in 1..Len(summaries) : summaries[i] \in RunId
    BY DEF IInv, TypeOK
  <2>3. CASE ~ w.summary
    BY <1>1, <1>3, <2>1, <2>2, <2>3 DEF SummariesExact, OneSummaryPerRun
  <2>4. CASE w.summary
    <3>1. /\ Len(summaries') = Len(summaries) + 1 /\ Len(summaries) \in Nat
          /\ summaries'[Len(summaries) + 1] = w.run
          /\ \A i \in 1..Len(summaries) : summaries'[i] = summaries[i]
      BY <1>2, <1>3, <2>4 DEF IInv, TypeOK
    <3>2. runs'[w.run] # Absent /\ runs'[w.run].status \in Final
      BY <1>2, <1>4, <2>4
    <3>3. \A i \in 1..Len(summaries) : Terminal(summaries[i]) /\ summaries[i] # w.run
      BY <1>1, <2>1, <2>2 DEF SummariesExact
    <3>4. \A i \in 1..Len(summaries') : i \in 1..Len(summaries) \/ i = Len(summaries) + 1
      BY <3>1
    <3>5. ASSUME NEW i \in 1..Len(summaries')
          PROVE  Terminal(summaries[i])'
      <4>1. CASE i \in 1..Len(summaries)
        <5>1. summaries'[i] = summaries[i] /\ summaries[i] \in RunId
          BY <2>2, <3>1, <4>1
        <5>2. runs'[summaries[i]] # Absent /\ runs'[summaries[i]].status \in Final
          BY <2>1, <3>3, <4>1, <5>1 DEF Terminal, Exists
        <5> QED
          BY <5>1, <5>2 DEF Terminal, Exists
      <4>2. CASE i = Len(summaries) + 1
        BY <3>1, <3>2, <4>2 DEF Terminal, Exists
      <4> QED
        BY <3>4, <4>1, <4>2
    <3>6. OneSummaryPerRun'
      BY <1>1, <3>1, <3>3, <3>4 DEF SummariesExact, OneSummaryPerRun
    <3> QED
      BY <3>5, <3>6 DEF SummariesExact
  <2> QED
    BY <2>3, <2>4
<1>10. ActiveRunHoldsLock'
  <2> SUFFICES ASSUME faults' = 0, restarts' = 0, NEW r \in RunId, Active(r)'
               PROVE  locks'[runs'[r].line] = r
    BY DEF ActiveRunHoldsLock
  <2>1. faults = 0 /\ restarts = 0
    BY <1>3
  <2>2. CASE r # w.run
    BY <1>1, <1>2, <1>3, <2>1, <2>2 DEF ActiveRunHoldsLock, Active, Exists
  <2>3. CASE r = w.run
    <3>1. w.row.status \notin Final
      BY <1>2, <2>3 DEF Active
    <3>2. locks[runs[r].line] = r
      BY <1>1, <1>2, <2>1, <2>3, <3>1 DEF ActiveRunHoldsLock
    <3> QED
      BY <1>2, <1>3, <1>4, <2>3, <3>2
  <2> QED
    BY <2>2, <2>3
<1> QED
  BY <1>7, <1>8, <1>9, <1>10

LEMMA ExactCommitRun ==
    ASSUME IInv, ContractInv, NEW c \in Clients, CommitRun(c)
    PROVE  OnlyWorkerWrites' /\ CopiesExact' /\ SummariesExact' /\ ActiveRunHoldsLock'
<1> DEFINE r0  == req[c].id
           row == NewRow(req[c].line, req[c].op)
<1>1. OnlyWorkerWrites /\ CopiesExact /\ SummariesExact /\ ActiveRunHoldsLock
  BY DEF ContractInv
<1>2. r0 \in RunId /\ ~ Exists(r0)
  BY DEF CommitRun, IInv, RequestOK, Numbered, Inserted
<1>3. row.status = "created" /\ row.business = "null" /\ row.result = FALSE
      /\ row.line = req[c].line
  BY DEF NewRow
<1>4. locks[row.line] = r0
  BY <1>3 DEF CommitRun, IInv, CreatorHoldsLock
<1>5. /\ runs' = [runs EXCEPT ![r0] = row]
      /\ UNCHANGED <<summaries, w, m, overdue, locks, faults, restarts>>
  BY DEF CommitRun, clientFrame, memVars, NoFault
<1> HIDE DEF r0, row
<1>6. \A r \in RunId : runs'[r] = IF r = r0 THEN row ELSE runs[r]
  BY <1>2, <1>5 DEF IInv, TypeOK
<1>7. OnlyWorkerWrites'
  BY <1>1, <1>3, <1>5, <1>6 DEF OnlyWorkerWrites, Active, Exists
<1>8. Working => w.run \in RunId /\ runs'[w.run] = runs[w.run]
  BY <1>2, <1>6, WorkerTypes
<1>9. CopiesExact'
  BY <1>1, <1>5, <1>8 DEF CopiesExact, Working, Active, Exists
<1>10. SummariesExact'
  <2>1. \A i \in 1..Len(summaries) : summaries[i] \in RunId
    BY DEF IInv, TypeOK
  <2>2. \A r \in RunId : Terminal(r) => runs'[r] = runs[r]
    BY <1>2, <1>6 DEF Terminal
  <2> QED
    BY <1>1, <1>5, <2>1, <2>2 DEF SummariesExact, OneSummaryPerRun, Terminal, Exists
<1>11. ActiveRunHoldsLock'
  BY <1>1, <1>4, <1>5, <1>6 DEF ActiveRunHoldsLock, Active, Exists
<1> QED
  BY <1>7, <1>9, <1>10, <1>11

LEMMA ExactClient ==
    ASSUME IInv, ContractInv, NEW c \in Clients, Client(c)
    PROVE  OnlyWorkerWrites' /\ CopiesExact' /\ SummariesExact' /\ ActiveRunHoldsLock'
<1>1. CASE CommitRun(c)
  BY <1>1, ExactCommitRun
<1>2. CASE ~ CommitRun(c)
  <2>1. UNCHANGED <<runs, summaries, overdue, w, m, restarts>>
    BY <1>2 DEF Client, CreateStep, BeginRun, RejectInputSet, NumberRun, InsertRun,
       AcquireLock, LockConflict, CopyAndEnqueue, FirstCopyFails, LaterCopyFails,
       CommitRunFails, clientFrame
  <2>2. CopiesExact'
    BY <2>1 DEF ContractInv, CopiesExact, Working, Active, Exists
  <2>3. ActiveRunHoldsLock'
    <3>1. CASE FirstCopyFails(c) \/ LaterCopyFails(c) \/ CommitRunFails(c)
      BY <3>1, FaultCounts
      DEF FirstCopyFails, LaterCopyFails, CommitRunFails, ActiveRunHoldsLock
    <3>2. CASE AcquireLock(c)
      <4>1. ~ Exists(req[c].id) /\ locks[req[c].line] \in {NoRun, req[c].id}
        BY <3>2 DEF AcquireLock, IInv, RequestOK, Inserted
      <4>2. locks' = [locks EXCEPT ![req[c].line] = req[c].id] /\ UNCHANGED faults
        BY <3>2 DEF AcquireLock, NoFault
      <4>3. \A r \in RunId : Active(r) => runs[r].line \in Lines /\ r # NoRun /\ r # req[c].id
        BY <4>1, MaintTypes DEF Active, Row, RunId, NoRun
      <4>4. \A l \in Lines : locks'[l] = IF l = req[c].line THEN req[c].id ELSE locks[l]
        BY <4>2 DEF IInv, TypeOK
      <4>5. \A r \in RunId : Active(r) /\ locks[runs[r].line] = r =>
                locks'[runs[r].line] = r
        BY <4>1, <4>3, <4>4
      <4> QED
        BY <2>1, <4>2, <4>5 DEF ContractInv, ActiveRunHoldsLock, Active, Exists
    <3>3. CASE ~ AcquireLock(c) /\ ~ FirstCopyFails(c) /\ ~ LaterCopyFails(c)
               /\ ~ CommitRunFails(c)
      <4>1. UNCHANGED <<locks, faults>>
        BY <1>2, <3>3 DEF Client, CreateStep, BeginRun, RejectInputSet, NumberRun,
           InsertRun, LockConflict, CopyAndEnqueue, NoFault, memVars
      <4> QED
        BY <2>1, <4>1 DEF ContractInv, ActiveRunHoldsLock, Active, Exists
    <3> QED
      BY <3>1, <3>2, <3>3
  <2> QED
    BY <2>1, <2>2, <2>3, CommittedUndisturbed DEF ContractInv
<1> QED
  BY <1>1, <1>2

LEMMA ExactWorker ==
    ASSUME IInv, AuditInv, ContractInv, Worker
    PROVE  OnlyWorkerWrites' /\ CopiesExact' /\ SummariesExact' /\ ActiveRunHoldsLock'
<1>1. CASE WorkerCommits
  BY <1>1, ExactWorkerCommits
<1>2. CASE ~ WorkerCommits
  <2>1. UNCHANGED <<runs, summaries, overdue, m, restarts>>
    BY <1>2 DEF Worker, TakeJob, RunNotVisible, RunAlreadyFinal, LoadRun,
       SelectBeforeTransition, Transition, ValidateRun, ExecuteRun, StrategyFails,
       NumberSummary, InsertSummary, SummaryKeyTaken, WorkerIsVictim, SelectBeforeFinish,
       FinishRun, ResultNotStored, WorkerReleasesLock, WorkerCommitFails, RecoverRun,
       workerOnly, workerFrame, dbVars
  <2>2. CopiesExact'
    BY <1>2, ExactWorkerRests, ExactLoads, ExactSameRow, ExactTransition, ExactFinish
    DEF ContractInv, Worker
  <2>3. ActiveRunHoldsLock'
    <3>1. CASE WorkerReleasesLock
      <4>1. w.pc = "release" /\ Release(w.run, w.dto.line) /\ UNCHANGED faults
        BY <3>1 DEF WorkerReleasesLock, NoFault
      <4>2. w'.pc = "commit" /\ w'.run = w.run /\ w'.row = w.row
        BY <3>1, WorkerTypes DEF WorkerReleasesLock, WorkerState
      <4>3. w.run \in RunId /\ runs[w.run] \in Row /\ w.row = Ended(runs[w.run], w.end)
        BY <4>1, WorkerTypes DEF Working, ContractInv, CopiesExact
      <4>4. w.row.status \in Final
        BY <4>3 DEF Ended, Row, Final
      <4>5. \A r \in RunId : Active(r) => runs[r].line \in Lines /\ r # NoRun
        BY MaintTypes DEF Active, Row, RunId, NoRun
      <4>6. \A r \in RunId : Active(r) /\ r # w.run /\ locks[runs[r].line] = r =>
                locks'[runs[r].line] = r
        BY <4>1, <4>5 DEF Release, IInv, TypeOK
      <4> QED
        BY <2>1, <4>1, <4>2, <4>4, <4>6 DEF ContractInv, ActiveRunHoldsLock, Active, Exists
    <3>2. CASE WorkerCommitFails \/ ResultNotStored
      BY <3>2, FaultCounts DEF WorkerCommitFails, ResultNotStored, ActiveRunHoldsLock
    <3>3. CASE ~ WorkerReleasesLock /\ ~ WorkerCommitFails /\ ~ ResultNotStored
      <4>1. UNCHANGED <<locks, faults>> /\ w.pc # "commit"
        BY <1>2, <3>3 DEF Worker, TakeJob, RunNotVisible, RunAlreadyFinal, LoadRun,
           SelectBeforeTransition, Transition, ValidateRun, ExecuteRun, StrategyFails,
           NumberSummary, InsertSummary, SummaryKeyTaken, WorkerIsVictim,
           SelectBeforeFinish, FinishRun, RecoverRun, Deadlocked, workerOnly, memVars,
           NoFault
      <4> QED
        BY <2>1, <4>1 DEF ContractInv, ActiveRunHoldsLock, Active, Exists
    <3> QED
      BY <3>1, <3>2, <3>3
  <2> QED
    BY <2>1, <2>2, <2>3, CommittedUndisturbed DEF ContractInv
<1> QED
  BY <1>1, <1>2

LEMMA ExactEnvironment ==
    ASSUME IInv, ContractInv, Restart \/ UNCHANGED vars
    PROVE  OnlyWorkerWrites' /\ CopiesExact' /\ SummariesExact' /\ ActiveRunHoldsLock'
<1>1. UNCHANGED <<runs, summaries, overdue>>
  BY DEF Restart, vars, dbVars
<1>2. CASE Restart
  <2>1. m' = m
    BY <1>2 DEF Restart, ContractInv, OnlyWorkerWrites
  <2>2. CopiesExact'
    BY <1>2, Resting, ExactRests DEF Restart, IdleWorker
  <2>3. ActiveRunHoldsLock'
    BY <1>2 DEF Restart, ActiveRunHoldsLock, IInv, TypeOK
  <2> QED
    BY <1>1, <2>1, <2>2, <2>3, CommittedUndisturbed DEF ContractInv
<1>3. CASE UNCHANGED vars
  <2>1. UNCHANGED <<m, w, locks, faults, restarts>>
    BY <1>3 DEF vars, memVars
  <2>2. CopiesExact' /\ ActiveRunHoldsLock'
    BY <1>1, <2>1 DEF ContractInv, CopiesExact, ActiveRunHoldsLock, Working, Active, Exists
  <2> QED
    BY <1>1, <2>1, <2>2, CommittedUndisturbed DEF ContractInv
<1> QED
  BY <1>2, <1>3

LEMMA ContractStep ==
    ASSUME ~ HardTimeouts, IInv, AuditInv, ContractInv, [Next]_vars
    PROVE  ContractInv'
<1>1. ~ Maintenance /\ \A r \in RunId : ~ RunBecomesOverdue(r)
  BY NothingToReconcile DEF ContractInv
<1>2. OnlyWorkerWrites' /\ CopiesExact' /\ SummariesExact' /\ ActiveRunHoldsLock'
  BY <1>1, ExactClient, ExactWorker, ExactEnvironment DEF Next
<1> QED
  BY <1>2 DEF ContractInv

\* The third inductive invariant: while no run exceeds its hard timeout, the
\* worker's copies differ from the committed row only in what it is changing.
THEOREM ContractInvariance ==
    ASSUME ~ HardTimeouts
    PROVE  Spec => []ContractInv
<1>1. IInv /\ AuditInv /\ ContractInv /\ [Next]_vars => ContractInv'
  BY ContractStep
<1> QED
  BY InitContractInv, Invariance, AuditInvariance, <1>1, PTL DEF Spec

\* RunService._next_summary_id and RunService.execute_run: a run is summarised
\* once, however often its job is repeated.
THEOREM RunsAreSummarisedOnce ==
    ASSUME ~ HardTimeouts
    PROVE  Spec => []OneSummaryPerRun
<1>1. ContractInv => OneSummaryPerRun
  BY DEF ContractInv, SummariesExact
<1> QED
  BY <1>1, ContractInvariance, PTL

\* InMemoryRunLockManager: an active run holds its line's lock until the worker
\* is about to commit its final status.
THEOREM ActiveRunsHoldTheirLock ==
    ASSUME ~ HardTimeouts
    PROVE  Spec => []ActiveRunHoldsLock
<1>1. ContractInv => ActiveRunHoldsLock
  BY DEF ContractInv
<1> QED
  BY <1>1, ContractInvariance, PTL

-----------------------------------------------------------------------------
(* The refinement.  Only two steps commit rows: CommitRun, which submits a  *)
(* run, and WorkerCommits, which validates it or ends it.                   *)

LEMMA Submits ==
    ASSUME IInv, NEW c \in Clients, CommitRun(c)
    PROVE  Contract!Submit(req[c].id) /\ req[c].id \in RunId
<1>1. req[c].id \in RunId /\ ~ Exists(req[c].id) /\ req[c].line \in Lines
  BY DEF CommitRun, IInv, RequestOK, Numbered, Inserted
<1>2. req[c].op \in Ops
  BY DEF IInv, TypeOK, Request
<1>3. UNCHANGED summaries
  BY DEF CommitRun, clientFrame
<1>4. runs' = [runs EXCEPT ![req[c].id] =
                [line |-> req[c].line, op |-> req[c].op, status |-> "created",
                 business |-> "null", result |-> FALSE]]
  BY DEF CommitRun, NewRow
<1> QED
  BY <1>1, <1>2, <1>3, <1>4 DEF Contract!Submit, Exists, Ops

LEMMA EndsOrValidates ==
    ASSUME IInv, ContractInv, WorkerCommits
    PROVE  Contract!Next \/ UNCHANGED <<runs, Range(summaries)>>
<1>1. OnlyWorkerWrites /\ CopiesExact
  BY DEF ContractInv
<1> DEFINE r == w.run
<1>2. /\ r \in RunId /\ Active(r) /\ runs[r] \in Row /\ w.row \in Row
      /\ runs' = [runs EXCEPT ![r] = w.row]
  BY <1>1, CommitColumns
<1>3. runs[r] # Absent /\ \/ runs[r].status = "created"
                          \/ runs[r].op = "process" /\ runs[r].status = "validating"
  BY <1>1, <1>2, ActiveColumns DEF Exists
<1>4. CASE w.summary
  <2>1. w.row = Ended(runs[r], w.end) /\ (w.end = "completed" => Executable(runs[r]))
    BY <1>1, <1>4, CommitColumns
  <2>2. Range(summaries') = Range(summaries) \cup {r}
    <3>1. summaries' = Append(summaries, r) /\ summaries \in Seq(RunId)
      BY <1>4 DEF WorkerCommits, IInv, TypeOK
    <3>2. /\ DOMAIN summaries = 1..Len(summaries) /\ Len(summaries) \in Nat
          /\ DOMAIN summaries' = 1..(Len(summaries) + 1)
          /\ summaries'[Len(summaries) + 1] = r
          /\ \A i \in 1..Len(summaries) : summaries'[i] = summaries[i]
      BY <1>2, <3>1
    <3> QED
      BY <3>2 DEF Range
  <2>3. CASE w.end = "completed"
    <3>1. Contract!Succeeded(r)
      BY <1>2, <1>3, <2>1, <2>2, <2>3 DEF Contract!Succeeded, Ended, Executable
    <3> QED
      BY <1>2, <3>1 DEF Contract!Next
  <2>4. CASE w.end # "completed"
    <3>1. Contract!Rejected(r)
      BY <1>2, <1>3, <2>1, <2>2, <2>4 DEF Contract!Rejected, Ended
    <3> QED
      BY <1>2, <3>1 DEF Contract!Next
  <2> QED
    BY <2>3, <2>4
<1>5. CASE ~ w.summary
  <2>1. w.row = [runs[r] EXCEPT !.status = "validating"] /\ w.row.op = "process"
    BY <1>1, <1>5, CommitColumns
  <2>2. runs[r].op = "process"
    BY <1>2, <2>1 DEF Row
  <2>3. UNCHANGED summaries
    BY <1>5 DEF WorkerCommits
  <2>4. CASE runs[r].status = "created"
    <3>1. Contract!Validated(r)
      BY <1>2, <1>3, <2>1, <2>2, <2>3, <2>4 DEF Contract!Validated
    <3> QED
      BY <1>2, <3>1 DEF Contract!Next
  <2>5. CASE runs[r].status = "validating"
    <3>1. w.row = runs[r]
      BY <1>2, <2>1, <2>5 DEF Row
    <3>2. runs' = runs
      BY <1>2, <3>1 DEF IInv, TypeOK
    <3> QED
      BY <2>3, <3>2
  <2> QED
    BY <1>3, <2>4, <2>5
<1> QED
  BY <1>4, <1>5

LEMMA StepSimulates ==
    ASSUME ~ HardTimeouts, IInv, ContractInv, [Next]_vars
    PROVE  [Contract!Next]_<<runs, Range(summaries)>>
<1>1. ~ Maintenance /\ \A r \in RunId : ~ RunBecomesOverdue(r)
  BY NothingToReconcile DEF ContractInv
<1>2. CASE \E c \in Clients : CommitRun(c)
  BY <1>2, Submits DEF Contract!Next
<1>3. CASE WorkerCommits
  BY <1>3, EndsOrValidates
<1>4. CASE ~ WorkerCommits /\ \A c \in Clients : ~ CommitRun(c)
  <2>1. UNCHANGED <<runs, summaries>>
    <3>1. CASE \E c \in Clients : Client(c)
      BY <1>4, <3>1 DEF Client, CreateStep, BeginRun, RejectInputSet, NumberRun, InsertRun,
         AcquireLock, LockConflict, CopyAndEnqueue, FirstCopyFails, LaterCopyFails,
         CommitRunFails, clientFrame
    <3>2. CASE Worker
      BY <1>4, <3>2 DEF Worker, TakeJob, RunNotVisible, RunAlreadyFinal, LoadRun,
         SelectBeforeTransition, Transition, ValidateRun, ExecuteRun, StrategyFails,
         NumberSummary, InsertSummary, SummaryKeyTaken, WorkerIsVictim,
         SelectBeforeFinish, FinishRun, ResultNotStored, WorkerReleasesLock,
         WorkerCommitFails, RecoverRun, workerOnly, dbVars
    <3>3. CASE Restart \/ UNCHANGED vars
      BY <3>3 DEF Restart, vars, dbVars
    <3> QED
      BY <1>1, <3>1, <3>2, <3>3 DEF Next
  <2> QED
    BY <2>1
<1> QED
  BY <1>2, <1>3, <1>4

\* RunService, InProcessRunWorkerRuntime and the repositories: while no run
\* exceeds its hard timeout, the committed runs and summaries change only as
\* RunContract says, whatever fails, is repeated or is restarted.
THEOREM ContractIsImplemented ==
    ASSUME ~ HardTimeouts
    PROVE  Spec => ImplementsContract
<1>1. Init => Contract!Init
  BY DEF Init, Contract!Init, Range
<1>2. IInv /\ ContractInv /\ [Next]_vars => [Contract!Next]_<<runs, Range(summaries)>>
  BY StepSimulates
<1> QED
  BY <1>1, <1>2, Invariance, ContractInvariance, PTL
  DEF Spec, ImplementsContract, Contract!Spec

\* RunService.execute_run: without a timeout no step takes a final status back;
\* with timeouts the reconciliation and the worker can (FinalStatusOverwritten).
THEOREM FinalStatusStays ==
    ASSUME ~ HardTimeouts
    PROVE  Spec => FinalStatusIsFinal
<1>1. ASSUME IInv, ContractInv, [Next]_vars
      PROVE  [\A r \in RunId : Terminal(r) => runs'[r].status = runs[r].status]_runs
  <2> SUFFICES ASSUME runs' # runs, NEW r \in RunId, Terminal(r)
               PROVE  runs'[r] = runs[r]
    OBVIOUS
  <2>1. PICK s \in RunId : \/ Contract!Submit(s) \/ Contract!Validated(s)
                           \/ Contract!Succeeded(s) \/ Contract!Rejected(s)
    BY <1>1, StepSimulates DEF Contract!Next
  <2>2. /\ \E row : runs' = [runs EXCEPT ![s] = row]
        /\ ~ Terminal(s)
    BY <2>1 DEF Contract!Submit, Contract!Validated, Contract!Succeeded, Contract!Rejected,
       Terminal, Exists, Final
  <2> QED
    BY <1>1, <2>2 DEF IInv, TypeOK
<1> QED
  BY <1>1, Invariance, ContractInvariance, PTL DEF Spec, FinalStatusIsFinal
=============================================================================
