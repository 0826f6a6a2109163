-------------------------- MODULE ResultFilesProofs --------------------------
(* Theorems about ResultFiles, for every number of clients, files, expired   *)
(* files and faults.                                                         *)
EXTENDS ResultFiles, MinMaxSum, TLAPS

\* A transaction that adds or reads a file knows a stored one; with a key, it has
\* a key of the table.
FileOK(t) ==
    /\ tx[t].pc \in {"number", "insert", "read"} => tx[t].path \in 1..stored
    /\ tx[t].pc = "insert" => tx[t].key \in Id

\* What may be written: "expired" for a deleted file, "superseded" by the worker
\* for a result; an existing row keeps its file and its role and is withdrawn.
WriteOK(t, i, row) ==
    /\ row.path <= stored
    /\ row.reason = "expired" => row.path \notin disk
    /\ row.reason = "superseded" => t = Worker /\ row.result
    /\ rows[i] # Absent => /\ row.path = rows[i].path
                           /\ row.result = rows[i].result
                           /\ ~row.available

WritesOK(t) == \A i \in Id : tx[t].writes[i] # Keep => WriteOK(t, i, tx[t].writes[i])

\* A written row is locked.
Exclusive ==
    \A t, u \in Threads, i \in Id :
        tx[t].writes[i] # Keep /\ tx[u].writes[i] # Keep => t = u

\* A stored file that is gone is past its time, and rows name stored files.
DiskOK ==
    /\ \A p \in 1..stored : p \notin disk => p <= expired
    /\ \A i \in Id : rows[i] # Absent => rows[i].path <= stored

\* Retention has only existing rows on its list, which are past their time, and
\* has deleted the file of the row that it is about to mark.
MaintOK ==
    /\ \A i \in tx[Maint].todo : rows[i] # Absent /\ rows[i].path <= expired
    /\ tx[Maint].pc \in {"unlink", "mark"} => tx[Maint].todo # {}
    /\ tx[Maint].pc = "mark" => rows[Current(Maint)].path \notin disk

\* Until it inserts, the worker has written nothing; from then on, its new result
\* is neither committed nor marked.
WorkerResultOK ==
    /\ tx[Worker].pc \in {"idle", "number", "insert"} =>
         \A i \in Id : tx[Worker].writes[i] = Keep
    /\ tx[Worker].pc \in {"candidates", "resolve", "mark", "commit"} =>
         LET k == tx[Worker].key
         IN  /\ k \in Id /\ rows[k] = Absent /\ tx[Worker].writes[k] # Keep
             /\ tx[Worker].writes[k].reason = "none" /\ tx[Worker].writes[k].result
    /\ tx[Worker].pc \notin {"read", "unlink"}

\* While it supersedes, every older result is on its list or withdrawn in its view.
WorkerListOK ==
    /\ tx[Worker].pc \in {"resolve", "mark"} => tx[Worker].todo # {}
    /\ tx[Worker].pc \notin {"resolve", "mark"} => tx[Worker].todo = {}
    /\ tx[Worker].todo \subseteq Older
    /\ tx[Worker].pc \in {"resolve", "mark", "commit"} =>
         \A i \in Older \ tx[Worker].todo : ~View(Worker, i).available

\* Results are existing rows, none of them counted twice.
ResultsOK ==
    /\ \A n \in DOMAIN results : rows[results[n]] # Absent /\ rows[results[n]].result
    /\ \A n, k \in DOMAIN results : results[n] = results[k] => n = k

IInv ==
    /\ TypeOK
    /\ \A t \in Threads : FileOK(t)
    /\ \A t \in Threads : WritesOK(t)
    /\ Exclusive
    /\ DiskOK
    /\ ExpiredMeansDeleted
    /\ BrokenDownloadIsExpired
    /\ MaintOK
    /\ WorkerResultOK
    /\ WorkerListOK
    /\ ResultsOK
    /\ OneCurrentResult

USE ResultFilesAssumption

-----------------------------------------------------------------------------
(* Least and greatest elements.                                            *)

\* the row a transaction looks at next is one of those it still has to look at
LEMMA MinIsMember == ASSUME NEW S \in SUBSET Id, S # {} PROVE Min(S) \in S
BY MinOfNaturals DEF Id

\* the highest key of a table is one of its keys, or 0 when it is empty
LEMMA MaxIsMember == ASSUME NEW S \in SUBSET Id PROVE Max({0} \cup S) \in {0} \cup S
<1>1. /\ {0} \cup S \in SUBSET Nat /\ {0} \cup S # {}
      /\ \A x \in {0} \cup S : x <= MaxFiles
  BY DEF Id
<1> QED
  BY <1>1, MaxOfBounded

-----------------------------------------------------------------------------
(* Types.                                                                  *)

LEMMA RowNotSpecial == \A row \in Row : row # Absent /\ row # Keep
OBVIOUS

\* an idle transaction is one
LEMMA IdleType == Idle \in Transaction
BY DEF Idle, Transaction

\* one transaction takes a step, to another transaction
LEMMA TxChange ==
    ASSUME TypeOK, NEW t \in Threads, NEW x \in Transaction, tx' = [tx EXCEPT ![t] = x]
    PROVE  /\ tx' \in [Threads -> Transaction]
           /\ tx'[t] = x
           /\ \A u \in Threads \ {t} : tx'[u] = tx[u]
BY DEF TypeOK

\* what a transaction sees of a row is a row
LEMMA ViewType ==
    ASSUME TypeOK, NEW t \in Threads, NEW i \in Id
    PROVE  View(t, i) \in Row \cup {Absent}
<1>1. tx[t].writes \in [Id -> Row \cup {Keep}]
  BY DEF TypeOK, Transaction
<1> QED
  BY <1>1 DEF TypeOK, View

LEMMA InitIInv == Init => IInv
<1> SUFFICES ASSUME Init PROVE IInv
  OBVIOUS
<1>1. \A t \in Threads : tx[t] = Idle
  BY DEF Init
<1>2. TypeOK
  BY IdleType DEF Init, TypeOK
<1>3. \A t \in Threads : FileOK(t) /\ WritesOK(t)
  BY <1>1 DEF FileOK, WritesOK, Idle
<1>4. Exclusive
  BY <1>1 DEF Exclusive, Idle
<1>5. DiskOK /\ ExpiredMeansDeleted /\ BrokenDownloadIsExpired /\ ResultsOK /\ OneCurrentResult
  BY DEF Init, DiskOK, ExpiredMeansDeleted, BrokenDownloadIsExpired, ResultsOK, OneCurrentResult
<1>6. Worker \in Threads /\ Maint \in Threads
  BY DEF Threads
<1>7. MaintOK
  BY <1>1, <1>6 DEF MaintOK, Idle
<1>8. WorkerResultOK /\ WorkerListOK
  BY <1>1, <1>6 DEF WorkerResultOK, WorkerListOK, Idle
<1> QED
  BY <1>2, <1>3, <1>4, <1>5, <1>7, <1>8 DEF IInv

-----------------------------------------------------------------------------
(* What a step leaves alone.                                               *)

\* a step that writes no row and deletes only files past their time
LEMMA QuietStep ==
    ASSUME IInv, TypeOK', UNCHANGED <<rows, results>>,
           \A p \in disk' \ disk : p > stored, stored <= stored',
           \A p \in 1..stored' : p \notin disk' => p <= expired',
           \A t \in Threads, i \in Id : tx'[t].writes[i] \in {Keep, tx[t].writes[i]}
    PROVE  /\ \A t \in Threads : WritesOK(t)'
           /\ (Exclusive /\ DiskOK /\ ExpiredMeansDeleted /\ ResultsOK /\ OneCurrentResult)'
<1>1. stored \in Nat /\ stored' \in Nat
  BY DEF IInv, TypeOK
<1>2. ASSUME NEW t \in Threads, NEW i \in Id, tx'[t].writes[i] # Keep
      PROVE  WriteOK(t, i, tx[t].writes[i])'
  <2>1. tx'[t].writes[i] = tx[t].writes[i] /\ WriteOK(t, i, tx[t].writes[i])
    BY <1>2 DEF IInv, WritesOK
  <2>2. tx[t].writes[i].path \in Nat
    <3>1. tx[t].writes \in [Id -> Row \cup {Keep}]
      BY DEF IInv, TypeOK, Transaction
    <3> QED
      BY <1>2, <2>1, <3>1 DEF Row, Id
  <2> QED
    BY <1>1, <2>1, <2>2 DEF WriteOK
<1>3. \A t \in Threads : WritesOK(t)'
  BY <1>2 DEF WritesOK
<1>4. Exclusive'
  BY DEF IInv, Exclusive
<1>5. \A i \in Id : rows[i] # Absent => rows[i].path \in 1..stored
  BY <1>1 DEF IInv, DiskOK, TypeOK, Row, Id
<1>6. DiskOK'
  BY <1>1, <1>5 DEF IInv, DiskOK
<1>7. ExpiredMeansDeleted'
  BY <1>1, <1>5 DEF IInv, ExpiredMeansDeleted
<1>8. ResultsOK' /\ OneCurrentResult'
  BY DEF IInv, ResultsOK, OneCurrentResult
<1> QED
  BY <1>3, <1>4, <1>6, <1>7, <1>8

\* a step of another thread that keeps the rows of retention and deletes no file
LEMMA MaintFrame ==
    ASSUME IInv, tx'[Maint] = tx[Maint], expired' >= expired, expired' \in Nat,
           \A p \in 1..stored : p \in disk' => p \in disk,
           \A i \in Id : rows[i] # Absent => rows'[i] # Absent /\ rows'[i].path = rows[i].path
    PROVE  MaintOK'
<1>1. tx[Maint].todo \in SUBSET Id
  BY DEF IInv, TypeOK, Transaction, Threads
<1>2. expired \in Nat /\ stored \in Nat
  BY DEF IInv, TypeOK
<1>3. \A i \in Id : rows[i] # Absent => rows[i].path \in 1..stored
  BY <1>2 DEF IInv, DiskOK, TypeOK, Row, Id
<1>4. \A i \in tx'[Maint].todo : rows'[i] # Absent /\ rows'[i].path <= expired'
  BY <1>1, <1>2, <1>3 DEF IInv, MaintOK
<1>5. ASSUME tx'[Maint].pc = "mark"
      PROVE  rows'[Current(Maint)'].path \notin disk'
  <2>1. Current(Maint)' = Current(Maint) /\ Current(Maint) \in tx[Maint].todo
    BY <1>1, <1>5, MinIsMember DEF IInv, MaintOK, Current
  <2> QED
    BY <1>1, <1>3, <1>5, <2>1 DEF IInv, MaintOK
<1> QED
  BY <1>4, <1>5 DEF IInv, MaintOK

\* a step that leaves the worker and the rows alone
LEMMA WorkerFrame ==
    ASSUME IInv, tx'[Worker] = tx[Worker], UNCHANGED <<rows, results>>
    PROVE  WorkerResultOK' /\ WorkerListOK'
BY DEF IInv, WorkerResultOK, WorkerListOK, View, Older

\* another transaction writes one row
LEMMA WriteStep ==
    ASSUME IInv, TypeOK', NEW t \in Threads, NEW i \in Id, NEW row \in Row,
           ~Held(t, i), WriteOK(t, i, row),
           tx'[t].writes = [tx[t].writes EXCEPT ![i] = row],
           \A u \in Threads \ {t} : tx'[u] = tx[u],
           UNCHANGED <<rows, results, disk, stored, expired>>
    PROVE  /\ \A u \in Threads : WritesOK(u)'
           /\ (Exclusive /\ DiskOK /\ ExpiredMeansDeleted /\ ResultsOK /\ OneCurrentResult)'
<1>1. tx[t].writes \in [Id -> Row \cup {Keep}]
  BY DEF IInv, TypeOK, Transaction
<1>2. \A k \in Id : tx'[t].writes[k] = IF k = i THEN row ELSE tx[t].writes[k]
  BY <1>1
<1>3. ASSUME NEW u \in Threads, NEW k \in Id, tx'[u].writes[k] # Keep
      PROVE  WriteOK(u, k, tx[u].writes[k])'
  <2>1. WriteOK(u, k, tx'[u].writes[k])
    BY <1>2, <1>3 DEF IInv, WritesOK
  <2> QED
    BY <2>1 DEF WriteOK
<1>4. \A u \in Threads : WritesOK(u)'
  BY <1>3 DEF WritesOK
<1>5. Exclusive'
  <2>1. \A u \in Threads \ {t} : tx[u].writes[i] = Keep
    BY DEF Held
  <2>2. \A u, v \in Threads, k \in Id :
            tx[u].writes[k] # Keep /\ tx[v].writes[k] # Keep => u = v
    BY DEF IInv, Exclusive
  <2>3. ASSUME NEW u \in Threads, NEW v \in Threads, NEW k \in Id,
               tx'[u].writes[k] # Keep, tx'[v].writes[k] # Keep
        PROVE  u = v
    <3>1. CASE k = i
      BY <2>1, <2>3, <3>1
    <3>2. CASE k # i
      <4>1. ASSUME NEW w \in Threads PROVE tx'[w].writes[k] = tx[w].writes[k]
        <5>1. CASE w = t
          BY <1>2, <3>2, <5>1
        <5>2. CASE w # t
          BY <5>2
        <5> QED
          BY <5>1, <5>2
      <4> QED
        BY <2>2, <2>3, <4>1
    <3> QED
      BY <3>1, <3>2
  <2> QED
    BY <2>3 DEF Exclusive
<1>6. (DiskOK /\ ExpiredMeansDeleted /\ ResultsOK /\ OneCurrentResult)'
  BY DEF IInv, DiskOK, ExpiredMeansDeleted, ResultsOK, OneCurrentResult
<1> QED
  BY <1>4, <1>5, <1>6

-----------------------------------------------------------------------------
(* Adding a file.                                                          *)

LEMMA StoreFileStep ==
    ASSUME IInv, NEW t \in Clients \cup {Worker}, StoreFile(t) PROVE IInv'
<1> DEFINE x == [Idle EXCEPT !.pc = "number", !.path = stored + 1]
<1>0. t \in Threads /\ Worker \in Threads /\ Maint \in Threads \ {t}
  BY DEF Threads
<1>1. stored \in Nat /\ stored + 1 \in Id /\ stored' = stored + 1 /\ disk' = disk \cup {stored + 1}
  BY DEF IInv, TypeOK, StoreFile, Id
<1>2. x \in Transaction
  BY <1>1 DEF Idle, Transaction
<1>3. tx' = [tx EXCEPT ![t] = x] /\ UNCHANGED <<rows, results, faults, expired, broken>>
  BY DEF StoreFile, Steady
<1>4. /\ tx' \in [Threads -> Transaction] /\ tx'[t] = x
      /\ \A u \in Threads \ {t} : tx'[u] = tx[u]
  BY <1>0, <1>2, <1>3, TxChange DEF IInv
<1>5. /\ x.pc = "number" /\ x.todo = {} /\ x.path = stored + 1
      /\ \A i \in Id : x.writes[i] = Keep
  BY DEF Idle
<1> HIDE DEF x
<1>6. TypeOK'
  <2>1. stored' \in 0..MaxFiles
    BY <1>1 DEF Id
  <2>2. disk' \subseteq 1..stored' /\ broken' \subseteq 1..stored' /\ expired' \in 0..stored'
    BY <1>1, <1>3 DEF IInv, TypeOK
  <2> QED
    BY <1>3, <1>4, <2>1, <2>2 DEF IInv, TypeOK
<1>7. \A u \in Threads, i \in Id : tx'[u].writes[i] \in {Keep, tx[u].writes[i]}
  BY <1>4, <1>5
<1>8. /\ \A u \in Threads : WritesOK(u)'
      /\ (Exclusive /\ DiskOK /\ ExpiredMeansDeleted /\ ResultsOK /\ OneCurrentResult)'
  <2>1. stored <= stored' /\ \A p \in disk' \ disk : p > stored
    BY <1>1
  <2>2. \A p \in 1..stored' : p \notin disk' => p <= expired'
    BY <1>1, <1>3 DEF IInv, DiskOK
  <2> QED
    BY <1>3, <1>6, <1>7, <2>1, <2>2, QuietStep
<1>9. \A u \in Threads : FileOK(u)'
  BY <1>0, <1>1, <1>4, <1>5 DEF IInv, FileOK
<1>10. MaintOK'
  <2>1. expired \in Nat /\ expired' >= expired
    BY <1>3 DEF IInv, TypeOK
  <2>2. \A p \in 1..stored : p \in disk' => p \in disk
    BY <1>1
  <2> QED
    BY <1>0, <1>3, <1>4, <2>1, <2>2, MaintFrame
<1>11. WorkerResultOK' /\ WorkerListOK'
  <2>1. CASE t = Worker
    BY <1>4, <1>5, <2>1 DEF WorkerResultOK, WorkerListOK
  <2>2. CASE t # Worker
    BY <1>0, <1>3, <1>4, <2>2, WorkerFrame
  <2> QED
    BY <2>1, <2>2
<1>12. BrokenDownloadIsExpired'
  BY <1>3 DEF IInv, BrokenDownloadIsExpired
<1> QED
  BY <1>6, <1>8, <1>9, <1>10, <1>11, <1>12 DEF IInv

\* a step that touches neither rows nor files
LEMMA TxOnlyStep ==
    ASSUME IInv, NEW t \in Threads, NEW x \in Transaction,
           tx' = [tx EXCEPT ![t] = x],
           UNCHANGED <<rows, results, disk, stored, expired>>,
           broken' \subseteq 1..expired, faults' \in 0..MaxFaults,
           \A i \in Id : x.writes[i] \in {Keep, tx[t].writes[i]},
           FileOK(t)',
           t = Maint => MaintOK',
           t = Worker => WorkerResultOK' /\ WorkerListOK'
    PROVE  IInv'
<1>1. /\ tx' \in [Threads -> Transaction] /\ tx'[t] = x
      /\ \A u \in Threads \ {t} : tx'[u] = tx[u]
  BY TxChange DEF IInv
<1>2. stored \in Nat /\ expired \in 0..stored
  BY DEF IInv, TypeOK
<1>3. TypeOK'
  <2>1. broken' \subseteq 1..stored'
    BY <1>2
  <2> QED
    BY <1>1, <2>1 DEF IInv, TypeOK
<1>4. /\ \A u \in Threads : WritesOK(u)'
      /\ (Exclusive /\ DiskOK /\ ExpiredMeansDeleted /\ ResultsOK /\ OneCurrentResult)'
  <2>1. \A u \in Threads, i \in Id : tx'[u].writes[i] \in {Keep, tx[u].writes[i]}
    BY <1>1
  <2>2. \A p \in 1..stored' : p \notin disk' => p <= expired'
    BY DEF IInv, DiskOK
  <2> QED
    BY <1>2, <1>3, <2>1, <2>2, QuietStep
<1>5. \A u \in Threads : FileOK(u)'
  BY <1>1 DEF IInv, FileOK
<1>6. MaintOK'
  <2>1. CASE t # Maint
    BY <1>1, <1>2, <2>1, MaintFrame DEF Threads
  <2> QED
    BY <2>1
<1>7. WorkerResultOK' /\ WorkerListOK'
  <2>1. CASE t # Worker
    BY <1>1, <2>1, WorkerFrame DEF Threads
  <2> QED
    BY <2>1
<1>8. BrokenDownloadIsExpired'
  BY DEF BrokenDownloadIsExpired
<1> QED
  BY <1>3, <1>4, <1>5, <1>6, <1>7, <1>8 DEF IInv

LEMMA NumberRowStep ==
    ASSUME IInv, NEW t \in Clients \cup {Worker}, NumberRow(t) PROVE IInv'
<1> DEFINE k == Max({0} \cup {i \in Id : View(t, i) # Absent})
           x == [tx[t] EXCEPT !.pc = "insert", !.key = k + 1]
<1>0. t \in Threads \ {Maint} /\ Worker \in Threads
  BY DEF Threads
<1>1. k \in {0} \cup Id /\ k < MaxFiles
  BY MaxIsMember DEF NumberRow
<1>2. k + 1 \in Id
  BY <1>1 DEF Id
<1>3. tx[t] \in Transaction
  BY <1>0 DEF IInv, TypeOK
<1>4. x \in Transaction
  BY <1>2, <1>3 DEF Transaction
<1>5. /\ tx' = [tx EXCEPT ![t] = x]
      /\ UNCHANGED <<rows, results, disk, stored, expired, broken, faults>>
  BY DEF NumberRow, Files, Steady
<1>6. tx'[t] = x
  BY <1>0, <1>4, <1>5, TxChange DEF IInv
<1>7. /\ x.pc = "insert" /\ x.key = k + 1 /\ x.path = tx[t].path
      /\ x.writes = tx[t].writes /\ x.todo = tx[t].todo
  BY <1>3 DEF Transaction
<1>8. FileOK(t)'
  BY <1>0, <1>2, <1>5, <1>6, <1>7 DEF IInv, FileOK, NumberRow
<1>9. t = Worker => WorkerResultOK' /\ WorkerListOK'
  BY <1>5, <1>6, <1>7 DEF IInv, WorkerResultOK, WorkerListOK, NumberRow, Older
<1>10. broken' \subseteq 1..expired /\ faults' \in 0..MaxFaults
  BY <1>5 DEF IInv, TypeOK, BrokenDownloadIsExpired
<1> HIDE DEF x
<1> QED
  BY <1>0, <1>4, <1>5, <1>7, <1>8, <1>9, <1>10, TxOnlyStep

\* a transaction that ends without a commit
LEMMA GiveUp ==
    ASSUME IInv, NEW t \in Threads, tx' = [tx EXCEPT ![t] = Idle],
           UNCHANGED <<rows, results, disk, stored, expired>>,
           broken' \subseteq 1..expired, faults' \in 0..MaxFaults
    PROVE  IInv'
<1>1. tx'[t] = Idle
  BY IdleType, TxChange DEF IInv
<1>2. FileOK(t)'
  BY <1>1 DEF FileOK, Idle
<1>3. t = Maint => MaintOK'
  BY <1>1 DEF MaintOK, Idle
<1>4. t = Worker => WorkerResultOK' /\ WorkerListOK'
  BY <1>1 DEF WorkerResultOK, WorkerListOK, Idle
<1>5. \A i \in Id : Idle.writes[i] = Keep
  BY DEF Idle
<1> QED
  BY <1>2, <1>3, <1>4, <1>5, IdleType, TxOnlyStep

LEMMA KeyTakenStep ==
    ASSUME IInv, NEW t \in Clients \cup {Worker}, KeyTaken(t) PROVE IInv'
<1>1. t \in Threads
  BY DEF Threads
<1>2. broken' \subseteq 1..expired /\ faults' \in 0..MaxFaults
  BY DEF IInv, TypeOK, BrokenDownloadIsExpired, KeyTaken, Steady
<1> QED
  BY <1>1, <1>2, GiveUp DEF KeyTaken, Files, Steady

LEMMA FailStep == ASSUME IInv, NEW t \in Threads, Fail(t) PROVE IInv'
<1>1. broken' \subseteq 1..expired /\ faults' \in 0..MaxFaults
  BY DEF IInv, TypeOK, BrokenDownloadIsExpired, Fail, Steady
<1> QED
  BY <1>1, GiveUp DEF Fail, Files, Steady

LEMMA InsertRowStep ==
    ASSUME IInv, NEW t \in Clients \cup {Worker}, InsertRow(t) PROVE IInv'
<1> DEFINE k == tx[t].key
           pc == IF t = Worker THEN "candidates" ELSE "commit"
           x == [tx[t] EXCEPT !.writes[k] = NewRow(t), !.pc = pc]
<1>0. t \in Threads /\ Worker \in Threads /\ Maint \in Threads \ {t}
  BY DEF Threads
<1>1. tx[t] \in Transaction
  BY <1>0 DEF IInv, TypeOK
<1>2. tx[t].pc = "insert" /\ k \in Id /\ tx[t].path \in 1..stored /\ rows[k] = Absent /\ ~Held(t, k)
  BY <1>0 DEF IInv, FileOK, InsertRow
<1>3. NewRow(t) \in Row /\ NewRow(t) # Keep
  <2>1. tx[t].path \in Id
    BY <1>2 DEF IInv, TypeOK, Id
  <2>2. (t = Worker) \in BOOLEAN
    BY Zenon
  <2>3. NewRow(t) \in Row
    BY <2>1, <2>2 DEF NewRow, Row, Reasons
  <2> QED
    BY <2>3, RowNotSpecial
<1>4. x \in Transaction
  BY <1>1, <1>2, <1>3 DEF Transaction
<1>5. /\ tx' = [tx EXCEPT ![t] = x]
      /\ UNCHANGED <<rows, results, disk, stored, expired, broken, faults>>
  BY DEF InsertRow, Write, Files, Steady
<1>6. /\ tx' \in [Threads -> Transaction] /\ tx'[t] = x
      /\ \A u \in Threads \ {t} : tx'[u] = tx[u]
  BY <1>0, <1>4, <1>5, TxChange DEF IInv
<1>7. /\ x.pc = pc /\ x.key = k /\ x.path = tx[t].path /\ x.todo = tx[t].todo
      /\ x.writes = [tx[t].writes EXCEPT ![k] = NewRow(t)]
  BY <1>1 DEF Transaction
<1>8. x.writes[k] = NewRow(t)
  BY <1>1, <1>2, <1>7 DEF Transaction
<1>9. TypeOK'
  BY <1>5, <1>6 DEF IInv, TypeOK
<1> HIDE DEF x
<1>10. WriteOK(t, k, NewRow(t))
  BY <1>2 DEF WriteOK, NewRow, IInv, TypeOK
<1>11. /\ \A u \in Threads : WritesOK(u)'
       /\ (Exclusive /\ DiskOK /\ ExpiredMeansDeleted /\ ResultsOK /\ OneCurrentResult)'
  BY <1>0, <1>2, <1>3, <1>5, <1>6, <1>7, <1>9, <1>10, WriteStep
<1>12. \A u \in Threads : FileOK(u)'
  BY <1>0, <1>5, <1>6, <1>7 DEF IInv, FileOK
<1>13. MaintOK'
  <2>1. expired \in Nat
    BY DEF IInv, TypeOK
  <2> QED
    BY <1>0, <1>5, <1>6, <2>1, MaintFrame
<1>14. WorkerResultOK' /\ WorkerListOK'
  <2>1. CASE t = Worker
    <3>1. /\ tx'[Worker].pc = "candidates" /\ tx'[Worker].key = k
          /\ tx'[Worker].writes[k] = NewRow(Worker) /\ tx'[Worker].todo = tx[Worker].todo
      BY <1>6, <1>7, <1>8, <2>1
    <3>2. NewRow(Worker).reason = "none" /\ NewRow(Worker).result
      BY DEF NewRow
    <3>3. NewRow(Worker) # Keep
      BY <1>3, <2>1
    <3>4. WorkerResultOK'
      BY <1>2, <1>5, <3>1, <3>2, <3>3 DEF WorkerResultOK
    <3>5. WorkerListOK'
      BY <1>2, <1>5, <2>1, <3>1 DEF IInv, WorkerListOK, Older
    <3> QED
      BY <3>4, <3>5
  <2>2. CASE t # Worker
    BY <1>0, <1>5, <1>6, <2>2, WorkerFrame
  <2> QED
    BY <2>1, <2>2
<1>15. BrokenDownloadIsExpired'
  BY <1>5 DEF IInv, BrokenDownloadIsExpired
<1> QED
  BY <1>9, <1>11, <1>12, <1>13, <1>14, <1>15 DEF IInv

-----------------------------------------------------------------------------
(* Superseding.                                                            *)

\* the worker's transaction, and the older results on its list
LEMMA WorkerFacts ==
    ASSUME IInv
    PROVE  /\ Worker \in Threads /\ Maint \in Threads \ {Worker}
           /\ tx[Worker] \in Transaction
           /\ Older \subseteq Id
           /\ \A i \in Older : rows[i] \in Row /\ rows[i].result
           /\ tx[Worker].todo # {} =>
                Current(Worker) \in tx[Worker].todo /\ Current(Worker) \in Older
<1>1. Worker \in Threads /\ Maint \in Threads \ {Worker}
  BY DEF Threads
<1>2. tx[Worker] \in Transaction
  BY <1>1 DEF IInv, TypeOK
<1>3. Older \subseteq Id
  BY DEF IInv, TypeOK, Older
<1>4. \A i \in Older : rows[i] \in Row /\ rows[i].result
  BY <1>3 DEF IInv, TypeOK, ResultsOK, Older
<1>5. tx[Worker].todo \in SUBSET Id /\ tx[Worker].todo \subseteq Older
  BY <1>2 DEF IInv, WorkerListOK, Transaction
<1>6. tx[Worker].todo # {} =>
        Current(Worker) \in tx[Worker].todo /\ Current(Worker) \in Older
  BY <1>5, MinIsMember DEF Current
<1> QED
  BY <1>1, <1>2, <1>3, <1>4, <1>6

\* a step of the worker that changes its list and its program counter only
LEMMA ListStep ==
    ASSUME IInv, NEW todo \in SUBSET Older, NEW pc \in {"resolve", "mark", "commit"},
           tx[Worker].pc \in {"candidates", "resolve", "mark"},
           tx' = [tx EXCEPT ![Worker] = [@ EXCEPT !.todo = todo, !.pc = pc]],
           UNCHANGED <<rows, results, disk, stored, expired, broken, faults>>,
           pc = "commit" <=> todo = {},
           \A i \in Older \ todo : ~View(Worker, i).available
    PROVE  IInv'
<1> DEFINE x == [tx[Worker] EXCEPT !.todo = todo, !.pc = pc]
<1>1. x \in Transaction
  BY WorkerFacts DEF Transaction
<1>2. /\ x.todo = todo /\ x.pc = pc /\ x.key = tx[Worker].key
      /\ x.writes = tx[Worker].writes
  BY WorkerFacts DEF Transaction
<1>3. tx' = [tx EXCEPT ![Worker] = x]
  OBVIOUS
<1> HIDE DEF x
<1>4. tx'[Worker] = x
  BY <1>1, <1>3, WorkerFacts, TxChange DEF IInv
<1>5. FileOK(Worker)'
  BY <1>2, <1>4 DEF FileOK
<1>6. WorkerResultOK'
  BY <1>2, <1>4 DEF IInv, WorkerResultOK
<1>7. WorkerListOK'
  BY <1>2, <1>4 DEF WorkerListOK, Older, View
<1>8. broken' \subseteq 1..expired /\ faults' \in 0..MaxFaults
  BY DEF IInv, TypeOK, BrokenDownloadIsExpired
<1> QED
  BY <1>1, <1>2, <1>3, <1>5, <1>6, <1>7, <1>8, WorkerFacts, TxOnlyStep

LEMMA ListCandidatesStep == ASSUME IInv, ListCandidates PROVE IInv'
<1> DEFINE pc == IF Older = {} THEN "commit" ELSE "resolve"
<1>1. tx' = [tx EXCEPT ![Worker] = [@ EXCEPT !.todo = Older, !.pc = pc]]
  BY DEF ListCandidates
<1>2. pc \in {"resolve", "mark", "commit"} /\ (pc = "commit" <=> Older = {})
  OBVIOUS
<1> HIDE DEF pc
<1> QED
  BY <1>1, <1>2, ListStep DEF ListCandidates, Files, Steady

LEMMA SkipCandidateStep == ASSUME IInv, SkipCandidate PROVE IInv'
<1> DEFINE todo == Rest(Worker)
           pc == IF todo = {} THEN "commit" ELSE "resolve"
<1>1. tx' = [tx EXCEPT ![Worker] = [@ EXCEPT !.todo = todo, !.pc = pc]]
  BY DEF SkipCandidate, NextCandidate
<1>2. pc \in {"resolve", "mark", "commit"} /\ (pc = "commit" <=> todo = {})
  OBVIOUS
<1>3. todo \in SUBSET Older
  BY DEF IInv, WorkerListOK, Rest
<1>4. \A i \in Older \ todo : ~View(Worker, i).available
  BY DEF SkipCandidate, IInv, WorkerListOK, Rest
<1> HIDE DEF pc, todo
<1> QED
  BY <1>1, <1>2, <1>3, <1>4, ListStep DEF SkipCandidate, Files, Steady

LEMMA ResolveCandidateStep == ASSUME IInv, ResolveCandidate PROVE IInv'
<1> DEFINE todo == tx[Worker].todo
<1>1. tx' = [tx EXCEPT ![Worker] = [@ EXCEPT !.todo = todo, !.pc = "mark"]]
  <2>1. [tx[Worker] EXCEPT !.todo = todo, !.pc = "mark"] = [tx[Worker] EXCEPT !.pc = "mark"]
    BY WorkerFacts DEF Transaction
  <2>2. tx' = [tx EXCEPT ![Worker] = [tx[Worker] EXCEPT !.pc = "mark"]]
    BY DEF ResolveCandidate
  <2> QED
    BY <2>1, <2>2
<1>2. todo \in SUBSET Older /\ todo # {}
  BY DEF IInv, WorkerListOK, ResolveCandidate
<1>3. \A i \in Older \ todo : ~View(Worker, i).available
  BY DEF ResolveCandidate, IInv, WorkerListOK
<1> HIDE DEF todo
<1> QED
  BY <1>1, <1>2, <1>3, ListStep DEF ResolveCandidate, Files, Steady

LEMMA SupersedeStep == ASSUME IInv, Supersede PROVE IInv'
<1> DEFINE k == Current(Worker)
           row == Unavailable(View(Worker, k), "superseded")
           todo == Rest(Worker)
           pc == IF todo = {} THEN "commit" ELSE "resolve"
           x == [tx[Worker] EXCEPT !.writes[k] = row, !.todo = todo, !.pc = pc]
<1>1. tx[Worker].pc = "mark" /\ k \in Older /\ k \in Id /\ ~Held(Worker, k)
  BY WorkerFacts DEF Supersede, IInv, WorkerListOK
<1>2. /\ View(Worker, k) \in Row /\ View(Worker, k).path = rows[k].path
      /\ View(Worker, k).result = rows[k].result
  <2>1. CASE tx[Worker].writes[k] = Keep
    BY <1>1, <2>1, WorkerFacts DEF View
  <2>2. CASE tx[Worker].writes[k] # Keep
    <3>1. WriteOK(Worker, k, tx[Worker].writes[k])
      BY <1>1, <2>2, WorkerFacts DEF IInv, WritesOK
    <3>2. tx[Worker].writes[k] \in Row
      BY <1>1, <2>2, WorkerFacts DEF Transaction
    <3>3. rows[k] # Absent
      BY <1>1, WorkerFacts, RowNotSpecial
    <3> QED
      BY <2>2, <3>1, <3>2, <3>3 DEF WriteOK, View
  <2> QED
    BY <2>1, <2>2
<1>3. /\ row \in Row /\ row.path = rows[k].path /\ row.result = rows[k].result
      /\ row.reason = "superseded" /\ ~row.available
  BY <1>2 DEF Unavailable, Row, Reasons
<1> HIDE DEF row
<1>4. todo \subseteq Older /\ todo \subseteq Id
  BY WorkerFacts DEF IInv, WorkerListOK, Rest
<1>5. x \in Transaction
  BY <1>1, <1>3, <1>4, WorkerFacts DEF Transaction
<1>6. /\ x.pc = pc /\ x.key = tx[Worker].key /\ x.path = tx[Worker].path /\ x.todo = todo
      /\ x.writes = [tx[Worker].writes EXCEPT ![k] = row]
  BY WorkerFacts DEF Transaction
<1>7. \A i \in Id : x.writes[i] = IF i = k THEN row ELSE tx[Worker].writes[i]
  BY <1>6, WorkerFacts DEF Transaction
<1>8. /\ tx' = [tx EXCEPT ![Worker] = x]
      /\ UNCHANGED <<rows, results, disk, stored, expired, broken, faults>>
  BY DEF Supersede, Files, Steady, row
<1> HIDE DEF x
<1>9. /\ tx' \in [Threads -> Transaction] /\ tx'[Worker] = x
      /\ \A u \in Threads \ {Worker} : tx'[u] = tx[u]
  BY <1>5, <1>8, WorkerFacts, TxChange DEF IInv
<1>10. TypeOK'
  BY <1>8, <1>9 DEF IInv, TypeOK
<1>11. WriteOK(Worker, k, row)
  <2>1. rows[k] # Absent /\ rows[k].result
    BY <1>1, WorkerFacts, RowNotSpecial
  <2>2. rows[k].path <= stored
    BY <1>1, <2>1 DEF IInv, DiskOK
  <2> QED
    BY <1>3, <2>1, <2>2 DEF WriteOK
<1>12. /\ \A u \in Threads : WritesOK(u)'
       /\ (Exclusive /\ DiskOK /\ ExpiredMeansDeleted /\ ResultsOK /\ OneCurrentResult)'
  BY <1>1, <1>3, <1>6, <1>8, <1>9, <1>10, <1>11, WorkerFacts, WriteStep
<1>13. \A u \in Threads : FileOK(u)'
  BY <1>6, <1>8, <1>9 DEF IInv, FileOK
<1>14. MaintOK'
  <2>1. expired \in Nat
    BY DEF IInv, TypeOK
  <2> QED
    BY <1>8, <1>9, <2>1, WorkerFacts, MaintFrame
<1>15. WorkerResultOK'
  <2>1. tx[Worker].key # k
    BY <1>1, WorkerFacts, RowNotSpecial DEF IInv, WorkerResultOK
  <2> DEFINE n == tx[Worker].key
  <2>2. /\ n \in Id /\ rows[n] = Absent /\ tx[Worker].writes[n] # Keep
        /\ tx[Worker].writes[n].reason = "none" /\ tx[Worker].writes[n].result
    BY <1>1 DEF IInv, WorkerResultOK
  <2>3. tx'[Worker].writes[n] = tx[Worker].writes[n] /\ tx'[Worker].key = n /\ rows'[n] = Absent
    <3>1. x.writes[n] = tx[Worker].writes[n]
      BY <1>7, <2>1, <2>2
    <3>2. rows' = rows /\ x.key = n /\ tx'[Worker] = x
      BY <1>6, <1>8, <1>9
    <3> HIDE DEF n
    <3> QED
      BY <2>2, <3>1, <3>2
  <2>4. tx'[Worker].pc \in {"resolve", "commit"}
    BY <1>6, <1>9
  <2> QED
    BY <2>2, <2>3, <2>4 DEF WorkerResultOK
<1>16. WorkerListOK'
  <2>1. ASSUME NEW i \in Older \ todo PROVE ~View(Worker, i)'.available
    <3>1. CASE i = k
      BY <1>1, <1>3, <1>7, <1>9, <3>1, RowNotSpecial DEF View
    <3>2. CASE i # k
      <4>1. i \in Older \ tx[Worker].todo
        BY <3>2 DEF Rest
      <4>2. ~View(Worker, i).available
        BY <1>1, <4>1 DEF IInv, WorkerListOK
      <4>3. View(Worker, i)' = View(Worker, i)
        BY <1>7, <1>8, <1>9, <3>2, <4>1, WorkerFacts DEF View
      <4> QED
        BY <4>2, <4>3
    <3> QED
      BY <3>1, <3>2
  <2>2. Older' = Older
    BY <1>8 DEF Older
  <2> QED
    BY <1>4, <1>6, <1>9, <2>1, <2>2 DEF WorkerListOK
<1>17. BrokenDownloadIsExpired'
  BY <1>8 DEF IInv, BrokenDownloadIsExpired
<1> QED
  BY <1>10, <1>12, <1>13, <1>14, <1>15, <1>16, <1>17 DEF IInv

-----------------------------------------------------------------------------
(* Retention.                                                              *)

\* the maintenance transaction, and the rows on its list
LEMMA MaintFacts ==
    ASSUME IInv
    PROVE  /\ Maint \in Threads /\ Worker \in Threads \ {Maint}
           /\ tx[Maint] \in Transaction /\ tx[Maint].todo \in SUBSET Id
           /\ stored \in Nat /\ expired \in Nat /\ expired <= stored
           /\ \A i \in tx[Maint].todo : rows[i] \in Row /\ rows[i].path <= expired
           /\ tx[Maint].todo # {} => Current(Maint) \in tx[Maint].todo
<1>1. Maint \in Threads /\ Worker \in Threads \ {Maint}
  BY DEF Threads
<1>2. tx[Maint] \in Transaction /\ tx[Maint].todo \in SUBSET Id
  BY <1>1 DEF IInv, TypeOK, Transaction
<1>3. \A i \in tx[Maint].todo : rows[i] \in Row /\ rows[i].path <= expired
  BY <1>2 DEF IInv, TypeOK, MaintOK
<1>4. tx[Maint].todo # {} => Current(Maint) \in tx[Maint].todo
  BY <1>2, MinIsMember DEF Current
<1>5. stored \in Nat /\ expired \in Nat /\ expired <= stored
  BY DEF IInv, TypeOK
<1> QED
  BY <1>1, <1>2, <1>3, <1>4, <1>5

LEMMA ListExpiredStep == ASSUME IInv, ListExpired PROVE IInv'
<1> DEFINE x == [Idle EXCEPT !.todo = DueRows, !.pc = "unlink"]
<1>1. DueRows \in SUBSET Id /\ DueRows # {}
  BY DEF DueRows, ListExpired
<1>2. x \in Transaction
  BY <1>1 DEF Idle, Transaction
<1>3. x.pc = "unlink" /\ x.todo = DueRows /\ \A i \in Id : x.writes[i] = Keep
  BY DEF Idle
<1>4. /\ tx' = [tx EXCEPT ![Maint] = x]
      /\ UNCHANGED <<rows, results, disk, stored, expired, broken, faults>>
  BY DEF ListExpired, Files, Steady
<1> HIDE DEF x
<1>5. tx'[Maint] = x
  BY <1>2, <1>4, MaintFacts, TxChange DEF IInv
<1>6. FileOK(Maint)'
  BY <1>3, <1>5 DEF FileOK
<1>7. MaintOK'
  BY <1>1, <1>3, <1>4, <1>5 DEF MaintOK, DueRows
<1>8. broken' \subseteq 1..expired /\ faults' \in 0..MaxFaults
  BY <1>4 DEF IInv, TypeOK, BrokenDownloadIsExpired
<1> QED
  BY <1>2, <1>3, <1>4, <1>6, <1>7, <1>8, MaintFacts, TxOnlyStep

LEMMA DeleteFileStep == ASSUME IInv, DeleteFile PROVE IInv'
<1> DEFINE k == Current(Maint)
           x == [tx[Maint] EXCEPT !.pc = "mark"]
<1>1. /\ tx[Maint].pc = "unlink" /\ tx[Maint].todo # {} /\ k \in tx[Maint].todo
      /\ rows[k].path <= expired
  BY MaintFacts DEF IInv, MaintOK, DeleteFile
<1>2. x \in Transaction
  BY MaintFacts DEF Transaction
<1>3. x.pc = "mark" /\ x.todo = tx[Maint].todo /\ x.writes = tx[Maint].writes
  BY MaintFacts DEF Transaction
<1>4. /\ tx' = [tx EXCEPT ![Maint] = x] /\ disk' = disk \ {rows[k].path}
      /\ UNCHANGED <<rows, results, stored, expired, broken, faults>>
  BY DEF DeleteFile, Steady
<1> HIDE DEF x
<1>5. /\ tx' \in [Threads -> Transaction] /\ tx'[Maint] = x
      /\ \A u \in Threads \ {Maint} : tx'[u] = tx[u]
  BY <1>2, <1>4, MaintFacts, TxChange DEF IInv
<1>6. TypeOK'
  BY <1>4, <1>5 DEF IInv, TypeOK
<1>7. /\ \A u \in Threads : WritesOK(u)'
      /\ (Exclusive /\ DiskOK /\ ExpiredMeansDeleted /\ ResultsOK /\ OneCurrentResult)'
  <2>1. \A u \in Threads, i \in Id : tx'[u].writes[i] \in {Keep, tx[u].writes[i]}
    BY <1>3, <1>5
  <2>2. stored <= stored' /\ \A p \in disk' \ disk : p > stored
    BY <1>4, MaintFacts
  <2>3. \A p \in 1..stored' : p \notin disk' => p <= expired'
    BY <1>1, <1>4 DEF IInv, DiskOK
  <2> QED
    BY <1>4, <1>6, <2>1, <2>2, <2>3, QuietStep
<1>8. \A u \in Threads : FileOK(u)'
  BY <1>3, <1>4, <1>5 DEF IInv, FileOK
<1>9. MaintOK'
  <2>1. Current(Maint)' = k
    BY <1>3, <1>5 DEF Current
  <2>2. rows'[k].path \notin disk'
    BY <1>4
  <2> HIDE DEF k
  <2> QED
    BY <1>1, <1>3, <1>4, <1>5, <2>1, <2>2 DEF IInv, MaintOK
<1>10. WorkerResultOK' /\ WorkerListOK'
  BY <1>4, <1>5, MaintFacts, WorkerFrame
<1>11. BrokenDownloadIsExpired'
  BY <1>4 DEF IInv, BrokenDownloadIsExpired
<1> QED
  BY <1>6, <1>7, <1>8, <1>9, <1>10, <1>11 DEF IInv

LEMMA ExpireStep == ASSUME IInv, Expire PROVE IInv'
<1> DEFINE k == Current(Maint)
           row == Unavailable(rows[k], "expired")
           todo == Rest(Maint)
           pc == IF todo = {} THEN "commit" ELSE "unlink"
           x == [tx[Maint] EXCEPT !.writes[k] = row, !.todo = todo, !.pc = pc]
<1>1. /\ tx[Maint].pc = "mark" /\ k \in tx[Maint].todo /\ k \in Id /\ ~Held(Maint, k)
      /\ rows[k].path \notin disk /\ rows[k] \in Row
  BY MaintFacts DEF Expire, IInv, MaintOK
<1>2. /\ row \in Row /\ row.path = rows[k].path /\ row.result = rows[k].result
      /\ row.reason = "expired" /\ ~row.available
  BY <1>1 DEF Unavailable, Row, Reasons
<1> HIDE DEF row
<1>3. todo \subseteq tx[Maint].todo /\ todo \subseteq Id
  BY MaintFacts DEF Rest
<1>4. x \in Transaction
  BY <1>1, <1>2, <1>3, MaintFacts DEF Transaction
<1>5. /\ x.pc = pc /\ x.key = tx[Maint].key /\ x.path = tx[Maint].path /\ x.todo = todo
      /\ x.writes = [tx[Maint].writes EXCEPT ![k] = row]
  BY MaintFacts DEF Transaction
<1>6. /\ tx' = [tx EXCEPT ![Maint] = x]
      /\ UNCHANGED <<rows, results, disk, stored, expired, broken, faults>>
  BY DEF Expire, Files, Steady, row
<1> HIDE DEF x
<1>7. /\ tx' \in [Threads -> Transaction] /\ tx'[Maint] = x
      /\ \A u \in Threads \ {Maint} : tx'[u] = tx[u]
  BY <1>4, <1>6, MaintFacts, TxChange DEF IInv
<1>8. TypeOK'
  BY <1>6, <1>7 DEF IInv, TypeOK
<1>9. WriteOK(Maint, k, row)
  <2>1. rows[k].path <= stored
    BY <1>1, RowNotSpecial DEF IInv, DiskOK
  <2> QED
    BY <1>1, <1>2, <2>1 DEF WriteOK
<1>10. /\ \A u \in Threads : WritesOK(u)'
       /\ (Exclusive /\ DiskOK /\ ExpiredMeansDeleted /\ ResultsOK /\ OneCurrentResult)'
  BY <1>1, <1>2, <1>5, <1>6, <1>7, <1>8, <1>9, MaintFacts, WriteStep
<1>11. \A u \in Threads : FileOK(u)'
  BY <1>5, <1>6, <1>7 DEF IInv, FileOK
<1>12. MaintOK'
  BY <1>3, <1>5, <1>6, <1>7 DEF IInv, MaintOK
<1>13. WorkerResultOK' /\ WorkerListOK'
  BY <1>6, <1>7, MaintFacts, WorkerFrame
<1>14. BrokenDownloadIsExpired'
  BY <1>6 DEF IInv, BrokenDownloadIsExpired
<1> QED
  BY <1>8, <1>10, <1>11, <1>12, <1>13, <1>14 DEF IInv

-----------------------------------------------------------------------------
(* Downloads and time.                                                     *)

LEMMA CheckDownloadStep ==
    ASSUME IInv, NEW c \in Clients, NEW i \in Id, CheckDownload(c, i) PROVE IInv'
<1> DEFINE x == [Idle EXCEPT !.pc = "read", !.path = rows[i].path]
<1>0. c \in Threads \ {Worker, Maint}
  BY DEF Threads
<1>1. rows[i] \in Row /\ rows[i].path \in 1..stored /\ rows[i].path \in Id
  BY DEF CheckDownload, Offered, IInv, TypeOK, Row
<1>2. x \in Transaction
  BY <1>1 DEF Idle, Transaction
<1>3. x.pc = "read" /\ x.path = rows[i].path /\ \A k \in Id : x.writes[k] = Keep
  BY DEF Idle
<1>4. /\ tx' = [tx EXCEPT ![c] = x]
      /\ UNCHANGED <<rows, results, disk, stored, expired, broken, faults>>
  BY DEF CheckDownload, Files, Steady
<1> HIDE DEF x
<1>5. tx'[c] = x
  BY <1>0, <1>2, <1>4, TxChange DEF IInv
<1>6. FileOK(c)'
  BY <1>1, <1>3, <1>4, <1>5 DEF FileOK
<1>7. broken' \subseteq 1..expired /\ faults' \in 0..MaxFaults
  BY <1>4 DEF IInv, TypeOK, BrokenDownloadIsExpired
<1> QED
  BY <1>0, <1>2, <1>3, <1>4, <1>6, <1>7, TxOnlyStep

LEMMA ReadDownloadStep == ASSUME IInv, NEW c \in Clients, ReadDownload(c) PROVE IInv'
<1>1. c \in Threads
  BY DEF Threads
<1>2. tx[c].path \in 1..stored
  BY <1>1 DEF IInv, FileOK, ReadDownload
<1>3. broken' \subseteq 1..expired
  BY <1>2, MaintFacts DEF ReadDownload, IInv, DiskOK, BrokenDownloadIsExpired
<1>4. faults' \in 0..MaxFaults
  BY DEF IInv, TypeOK, ReadDownload
<1> QED
  BY <1>1, <1>3, <1>4, GiveUp DEF ReadDownload, Files

LEMMA FileExpiresStep == ASSUME IInv, FileExpires PROVE IInv'
<1>1. /\ expired \in Nat /\ stored \in Nat /\ expired' = expired + 1 /\ expired' <= stored
      /\ UNCHANGED <<rows, results, disk, stored, tx, broken, faults>>
  BY DEF IInv, TypeOK, FileExpires
<1>2. TypeOK'
  BY <1>1 DEF IInv, TypeOK
<1>3. /\ \A u \in Threads : WritesOK(u)'
      /\ (Exclusive /\ DiskOK /\ ExpiredMeansDeleted /\ ResultsOK /\ OneCurrentResult)'
  <2>1. \A p \in 1..stored' : p \notin disk' => p <= expired'
    BY <1>1 DEF IInv, DiskOK
  <2> QED
    BY <1>1, <1>2, <2>1, QuietStep
<1>4. \A u \in Threads : FileOK(u)'
  BY <1>1 DEF IInv, FileOK
<1>5. MaintOK'
  BY <1>1, MaintFrame
<1>6. WorkerResultOK' /\ WorkerListOK'
  BY <1>1, WorkerFrame
<1>7. BrokenDownloadIsExpired'
  BY <1>1 DEF IInv, BrokenDownloadIsExpired
<1> QED
  BY <1>2, <1>3, <1>4, <1>5, <1>6, <1>7 DEF IInv

-----------------------------------------------------------------------------
(* The commit.                                                             *)

\* what a commit makes of the rows: those that exist keep their file and role, and
\* change only to be withdrawn
LEMMA CommitRows ==
    ASSUME IInv, NEW t \in Threads, Commit(t)
    PROVE  /\ rows' \in [Id -> Row \cup {Absent}]
           /\ \A i \in Id : tx[t].writes[i] = Keep => rows'[i] = rows[i]
           /\ \A i \in Id : tx[t].writes[i] # Keep =>
                rows'[i] = tx[t].writes[i] /\ rows'[i] \in Row /\ WriteOK(t, i, rows'[i])
           /\ \A i \in Id : rows[i] # Absent => /\ rows'[i] # Absent
                                                /\ rows'[i].path = rows[i].path
                                                /\ rows'[i].result = rows[i].result
<1>1. rows' = [i \in Id |-> View(t, i)]
  BY DEF Commit, Committed
<1>2. rows' \in [Id -> Row \cup {Absent}]
  BY <1>1, ViewType DEF IInv
<1>3. \A i \in Id : tx[t].writes[i] = Keep => rows'[i] = rows[i]
  BY <1>1 DEF View
<1>4. ASSUME NEW i \in Id, tx[t].writes[i] # Keep
      PROVE  rows'[i] = tx[t].writes[i] /\ rows'[i] \in Row /\ WriteOK(t, i, rows'[i])
  <2>1. tx[t].writes[i] \in Row
    BY <1>4 DEF IInv, TypeOK, Transaction
  <2>2. rows'[i] = tx[t].writes[i]
    BY <1>1, <1>4 DEF View
  <2> QED
    BY <1>4, <2>1, <2>2 DEF IInv, WritesOK
<1>5. ASSUME NEW i \in Id, rows[i] # Absent
      PROVE  /\ rows'[i] # Absent /\ rows'[i].path = rows[i].path
             /\ rows'[i].result = rows[i].result
  <2>1. CASE tx[t].writes[i] = Keep
    BY <1>3, <1>5, <2>1
  <2>2. CASE tx[t].writes[i] # Keep
    BY <1>4, <1>5, <2>2, RowNotSpecial DEF WriteOK
  <2> QED
    BY <2>1, <2>2
<1> QED
  BY <1>2, <1>3, <1>4, <1>5

\* a commit leaves older results withdrawn and the last one current
LEMMA CommitResults ==
    ASSUME IInv, NEW t \in Threads, Commit(t)
    PROVE  ResultsOK' /\ OneCurrentResult'
<1>1. results \in Seq(Id) /\ \A n \in DOMAIN results : results[n] \in Id
  BY DEF IInv, TypeOK
<1>2. \A n \in DOMAIN results : rows[results[n]] # Absent /\ rows[results[n]].result
  BY DEF IInv, ResultsOK
<1>3. \A n \in DOMAIN results : rows'[results[n]] # Absent /\ rows'[results[n]].result
  BY <1>1, <1>2, CommitRows
<1>4. \A n, k \in DOMAIN results : results[n] = results[k] => n = k
  BY DEF IInv, ResultsOK
<1>5. \A i \in Id : rows'[i] # Absent /\ rows'[i].reason = "superseded" => rows'[i].result
  <2>1. ASSUME NEW i \in Id, rows'[i] # Absent, rows'[i].reason = "superseded"
        PROVE  rows'[i].result
    <3>1. CASE tx[t].writes[i] = Keep
      BY <2>1, <3>1, CommitRows DEF IInv, OneCurrentResult
    <3>2. CASE tx[t].writes[i] # Keep
      BY <2>1, <3>2, CommitRows DEF WriteOK
    <3> QED
      BY <3>1, <3>2
  <2> QED
    BY <2>1
<1>6. CASE t # Worker
  <2>1. results' = results
    BY <1>6 DEF Commit
  <2>2. ASSUME NEW n \in DOMAIN results
        PROVE  IF n < Len(results) THEN ~rows'[results[n]].available
               ELSE rows'[results[n]].reason # "superseded"
    <3> DEFINE i == results[n]
    <3>1. i \in Id /\ rows[i] # Absent
      BY <1>1, <1>2
    <3>2. IF n < Len(results) THEN ~rows[i].available ELSE rows[i].reason # "superseded"
      BY DEF IInv, OneCurrentResult
    <3> HIDE DEF i
    <3>3. CASE tx[t].writes[i] = Keep
      BY <3>1, <3>2, <3>3, CommitRows DEF i
    <3>4. CASE tx[t].writes[i] # Keep
      BY <1>6, <3>1, <3>4, CommitRows DEF WriteOK, i
    <3> QED
      BY <3>3, <3>4
  <2>3. ResultsOK'
    BY <1>3, <1>4, <2>1 DEF ResultsOK
  <2>4. OneCurrentResult'
    BY <1>5, <2>1, <2>2 DEF OneCurrentResult
  <2> QED
    BY <2>3, <2>4
<1>7. CASE t = Worker
  <2> DEFINE k == tx[Worker].key
             z == Len(results) + 1
  <2>1. tx[Worker].pc = "commit" /\ results' = Append(results, k)
    BY <1>7 DEF Commit
  <2>2. /\ k \in Id /\ rows[k] = Absent /\ tx[Worker].writes[k] # Keep
        /\ tx[Worker].writes[k].reason = "none" /\ tx[Worker].writes[k].result
    BY <2>1 DEF IInv, WorkerResultOK
  <2>3. rows'[k] = tx[Worker].writes[k] /\ rows'[k] # Absent
    BY <1>7, <2>2, CommitRows, RowNotSpecial
  <2>4. \A i \in Older : ~View(Worker, i).available
    BY <2>1 DEF IInv, WorkerListOK
  <2>5. \A n \in DOMAIN results : ~rows'[results[n]].available
    <3>1. ASSUME NEW n \in DOMAIN results PROVE ~rows'[results[n]].available
      <4>1. results[n] \in Older /\ results[n] \in Id
        BY <1>1 DEF Older
      <4>2. rows'[results[n]] = View(Worker, results[n])
        BY <1>7, <4>1 DEF Commit, Committed
      <4> QED
        BY <2>4, <4>1, <4>2
    <3> QED
      BY <3>1
  <2> HIDE DEF k
  <2>6. /\ DOMAIN results = 1..Len(results) /\ Len(results) \in Nat
        /\ DOMAIN results' = 1..z /\ Len(results') = z /\ results'[z] = k
        /\ \A n \in 1..Len(results) : results'[n] = results[n]
    BY <1>1, <2>1, <2>2
  <2>7. ASSUME NEW n \in DOMAIN results'
        PROVE  /\ n = z \/ n \in DOMAIN results
               /\ n = z => ~(n < Len(results'))
               /\ n \in DOMAIN results => n < Len(results') /\ results'[n] = results[n]
    BY <2>6
  <2>8. ResultsOK'
    <3>1. ASSUME NEW n \in DOMAIN results'
          PROVE  rows'[results'[n]] # Absent /\ rows'[results'[n]].result
      BY <1>3, <2>2, <2>3, <2>6, <2>7
    <3>2. \A n \in DOMAIN results : results[n] # k
      BY <1>2, <2>2
    <3>3. ASSUME NEW n \in DOMAIN results', NEW j \in DOMAIN results', results'[n] = results'[j]
          PROVE  n = j
      BY <1>4, <2>6, <2>7, <3>2, <3>3
    <3> QED
      BY <3>1, <3>3 DEF ResultsOK
  <2>9. OneCurrentResult'
    <3>1. ASSUME NEW n \in DOMAIN results'
          PROVE  IF n < Len(results') THEN ~rows'[results'[n]].available
                 ELSE rows'[results'[n]].reason # "superseded"
      <4>1. CASE n = z
        BY <2>2, <2>3, <2>6, <2>7, <4>1
      <4>2. CASE n \in DOMAIN results
        BY <2>5, <2>7, <4>2
      <4> QED
        BY <2>7, <4>1, <4>2
    <3> QED
      BY <1>5, <3>1 DEF OneCurrentResult
  <2> QED
    BY <2>8, <2>9
<1> QED
  BY <1>6, <1>7

LEMMA CommitStep == ASSUME IInv, NEW t \in Threads, Commit(t) PROVE IInv'
<1>1. /\ tx' = [tx EXCEPT ![t] = Idle] /\ tx[t].pc = "commit"
      /\ UNCHANGED <<disk, stored, expired, broken, faults>>
  BY DEF Commit, Files, Steady
<1>2. /\ tx' \in [Threads -> Transaction] /\ tx'[t] = Idle
      /\ \A u \in Threads \ {t} : tx'[u] = tx[u]
  BY <1>1, IdleType, TxChange DEF IInv
<1>3. Worker \in Threads /\ Maint \in Threads
  BY DEF Threads
<1>4. results' \in Seq(Id)
  <2>1. CASE t = Worker
    <3>1. tx[Worker].key \in Id
      BY <1>1, <2>1 DEF IInv, WorkerResultOK
    <3> QED
      BY <2>1, <3>1 DEF Commit, IInv, TypeOK
  <2>2. CASE t # Worker
    BY <2>2 DEF Commit, IInv, TypeOK
  <2> QED
    BY <2>1, <2>2
<1>5. TypeOK'
  BY <1>1, <1>2, <1>4, CommitRows DEF IInv, TypeOK
<1>6. \A u \in Threads : FileOK(u)'
  BY <1>1, <1>2 DEF IInv, FileOK, Idle
<1>7. ASSUME NEW u \in Threads PROVE WritesOK(u)'
  <2>1. CASE u = t
    BY <1>2, <2>1 DEF WritesOK, Idle
  <2>2. CASE u # t
    <3>1. ASSUME NEW i \in Id, tx[u].writes[i] # Keep
          PROVE  WriteOK(u, i, tx[u].writes[i]) /\ rows'[i] = rows[i]
      <4>1. tx[t].writes[i] = Keep
        BY <2>2, <3>1 DEF IInv, Exclusive
      <4> QED
        BY <3>1, <4>1, CommitRows DEF IInv, WritesOK
    <3> QED
      BY <1>1, <1>2, <2>2, <3>1 DEF WritesOK, WriteOK
  <2> QED
    BY <2>1, <2>2
<1>8. Exclusive'
  BY <1>2 DEF IInv, Exclusive, Idle
<1>9. ASSUME NEW i \in Id, rows'[i] # Absent
      PROVE  /\ rows'[i].path <= stored
             /\ rows'[i].reason = "expired" => rows'[i].path \notin disk
  <2>1. CASE tx[t].writes[i] = Keep
    BY <1>9, <2>1, CommitRows DEF IInv, DiskOK, ExpiredMeansDeleted
  <2>2. CASE tx[t].writes[i] # Keep
    BY <2>2, CommitRows DEF WriteOK
  <2> QED
    BY <2>1, <2>2
<1>10. DiskOK' /\ ExpiredMeansDeleted'
  BY <1>1, <1>9 DEF IInv, DiskOK, ExpiredMeansDeleted
<1>11. BrokenDownloadIsExpired'
  BY <1>1 DEF IInv, BrokenDownloadIsExpired
<1>12. MaintOK'
  <2>1. CASE t = Maint
    BY <1>2, <2>1 DEF MaintOK, Idle
  <2>2. CASE t # Maint
    BY <1>1, <1>2, <1>3, <2>2, CommitRows, MaintFacts, MaintFrame
  <2> QED
    BY <2>1, <2>2
<1>13. WorkerResultOK' /\ WorkerListOK'
  <2>1. CASE t = Worker
    BY <1>2, <2>1 DEF WorkerResultOK, WorkerListOK, Idle
  <2>2. CASE t # Worker
    <3>1. tx'[Worker] = tx[Worker] /\ results' = results
      BY <1>2, <1>3, <2>2 DEF Commit
    <3>2. \A i \in Id : tx[Worker].writes[i] # Keep => rows'[i] = rows[i]
      BY <1>3, <2>2, CommitRows DEF IInv, Exclusive
    <3>3. WorkerResultOK'
      BY <3>1, <3>2 DEF IInv, WorkerResultOK
    <3>4. ASSUME NEW i \in Older, ~View(Worker, i).available
          PROVE  ~View(Worker, i)'.available
      <4>1. CASE tx[Worker].writes[i] # Keep
        BY <3>1, <3>4, <4>1 DEF View
      <4>2. CASE tx[Worker].writes[i] = Keep
        <5>1. rows[i] \in Row /\ i \in Id
          BY WorkerFacts
        <5>2. ~rows'[i].available
          <6>1. CASE tx[t].writes[i] = Keep
            BY <3>4, <4>2, <5>1, <6>1, CommitRows DEF View
          <6>2. CASE tx[t].writes[i] # Keep
            BY <5>1, <6>2, CommitRows, RowNotSpecial DEF WriteOK
          <6> QED
            BY <6>1, <6>2
        <5> QED
          BY <3>1, <4>2, <5>2 DEF View
      <4> QED
        BY <4>1, <4>2
    <3>5. Older' = Older
      BY <3>1 DEF Older
    <3>6. WorkerListOK'
      BY <3>1, <3>4, <3>5 DEF IInv, WorkerListOK
    <3> QED
      BY <3>3, <3>6
  <2> QED
    BY <2>1, <2>2
<1> QED
  BY <1>5, <1>6, <1>7, <1>8, <1>10, <1>11, <1>12, <1>13, CommitResults DEF IInv

-----------------------------------------------------------------------------
(* Theorems.                                                               *)

LEMMA NextIInv == IInv /\ [Next]_vars => IInv'
<1> SUFFICES ASSUME IInv, [Next]_vars PROVE IInv'
  OBVIOUS
<1>1. ASSUME NEW t \in Clients \cup {Worker}, AddFile(t) PROVE IInv'
  BY <1>1, StoreFileStep, NumberRowStep, InsertRowStep, KeyTakenStep DEF AddFile
<1>2. ASSUME NEW t \in Clients \cup {Worker}, Commit(t) PROVE IInv'
  BY <1>2, CommitStep DEF Threads
<1>3. CASE SupersedeOlder
  BY <1>3, ListCandidatesStep, SkipCandidateStep, ResolveCandidateStep, SupersedeStep
    DEF SupersedeOlder
<1>4. CASE Retention
  BY <1>4, MaintFacts, ListExpiredStep, DeleteFileStep, ExpireStep, CommitStep DEF Retention
<1>5. ASSUME NEW t \in Threads, Fail(t) PROVE IInv'
  BY <1>5, FailStep
<1>6. ASSUME NEW c \in Clients, NEW i \in Id, CheckDownload(c, i) PROVE IInv'
  BY <1>6, CheckDownloadStep
<1>7. ASSUME NEW c \in Clients, ReadDownload(c) PROVE IInv'
  BY <1>7, ReadDownloadStep
<1>8. CASE FileExpires
  BY <1>8, FileExpiresStep
<1>9. CASE UNCHANGED vars
  BY <1>9 DEF vars, IInv, TypeOK, FileOK, WritesOK, WriteOK, Exclusive, DiskOK,
    ExpiredMeansDeleted, BrokenDownloadIsExpired, MaintOK, Current, WorkerResultOK,
    WorkerListOK, View, Older, ResultsOK, OneCurrentResult
<1> QED
  BY <1>1, <1>2, <1>3, <1>4, <1>5, <1>6, <1>7, <1>8, <1>9 DEF Next

(* The inductive invariant of the files of a line: what every open          *)
(* transaction may have written, and what the worker and the retention      *)
(* cycle know at each step (_apply_result_supersede, expire_run_files).     *)
THEOREM ResultFilesInvariance == Spec => []IInv
BY InitIInv, NextIInv, PTL DEF Spec

(* Every variable has its type.                                             *)
THEOREM ResultFilesTypes == Spec => []TypeOK
<1>1. IInv => TypeOK
  BY DEF IInv
<1> QED
  BY <1>1, ResultFilesInvariance, PTL

(* Of the results of a line only the last one is ever offered, and no other *)
(* thread marks it as superseded (_apply_result_supersede).                 *)
THEOREM OnlyLastResultIsOffered == Spec => []OneCurrentResult
<1>1. IInv => OneCurrentResult
  BY DEF IInv
<1> QED
  BY <1>1, ResultFilesInvariance, PTL

(* An offered row without its file is past its time, so that retention sees *)
(* it again after a rollback behind its unlink (retention.py:62).           *)
THEOREM MissingFilesAreExpired == Spec => []MissingFileIsExpired
<1>1. IInv => MissingFileIsExpired
  <2> SUFFICES ASSUME IInv, NEW i \in Id, rows[i] # Absent, rows[i].path \notin disk
               PROVE  rows[i].path <= expired
    BY DEF MissingFileIsExpired
  <2>1. rows[i].path \in 1..stored
    BY DEF IInv, TypeOK, DiskOK, Row, Id
  <2> QED
    BY <2>1 DEF IInv, DiskOK
<1> QED
  BY <1>1, ResultFilesInvariance, PTL

(* "expired" is only said of a deleted file (expire_run_files), whatever    *)
(* commits or fails in between.                                             *)
THEOREM ExpiredFilesAreDeleted == Spec => []ExpiredMeansDeleted
<1>1. IInv => ExpiredMeansDeleted
  BY DEF IInv
<1> QED
  BY <1>1, ResultFilesInvariance, PTL

(* A download that breaks after it was accepted is one of a file past its   *)
(* time (download_run_file, app.py:437).                                    *)
THEOREM BrokenDownloadsAreExpired == Spec => []BrokenDownloadIsExpired
<1>1. IInv => BrokenDownloadIsExpired
  BY DEF IInv
<1> QED
  BY <1>1, ResultFilesInvariance, PTL
=============================================================================
