----------------------------- MODULE ResultFiles -----------------------------
(***************************************************************************)
(* The files of the runs of one line (store and module): input copies and  *)
(* results are added, an older result is superseded, expired files are     *)
(* deleted, and users download what is offered.                            *)
(*                                                                         *)
(* Threads, transactions and the numbering of stored files are those of    *)
(* TempFiles: rows change at commit, the disk at once.                     *)
(***************************************************************************)
EXTENDS Naturals, Sequences, FiniteSetsExt

CONSTANTS
    Clients,      \* request threads
    Worker,       \* the run worker
    Maint,        \* the maintenance thread
    Absent,       \* "no such row"
    Keep,         \* "this transaction has not written the row"
    MaxFiles,     \* bound: files ever stored
    MaxExpired,   \* bound: files that get older than five days
    MaxFaults     \* bound: transactions that fail

Threads == Clients \cup {Worker, Maint}
Id      == 1..MaxFiles
Reasons == {"none", "superseded", "expired"}
Row     == [path : Id, result : BOOLEAN, available : BOOLEAN, reason : Reasons]

ASSUME ResultFilesAssumption ==
    /\ Worker \notin Clients /\ Maint \notin Clients \cup {Worker}
    /\ MaxFiles \in Nat /\ MaxExpired \in Nat /\ MaxFaults \in Nat
    /\ Absent \notin Row /\ Keep \notin Row /\ Absent # Keep

VARIABLES
    rows,       \* committed run_files: [Id -> Row or Absent]
    results,    \* result_file_id of the successful process runs, as they finished
    disk,       \* stored files that exist
    stored,     \* number of files stored so far
    expired,    \* files 1..expired are older than five days
    tx,         \* the open transaction of each thread
    broken,     \* files whose download was accepted and then could not be read
    faults      \* used up of the bound

vars == <<rows, results, disk, stored, expired, tx, broken, faults>>

-----------------------------------------------------------------------------
(* Transactions.                                                           *)

\* the step it is at, the rows it still has to look at, the new file and its
\* primary key, its uncommitted writes
Idle == [pc |-> "idle", todo |-> {}, path |-> 0, key |-> 0,
         writes |-> [i \in Id |-> Keep]]

Init ==
    /\ rows = [i \in Id |-> Absent] /\ results = <<>>
    /\ disk = {} /\ stored = 0 /\ expired = 0
    /\ tx = [t \in Threads |-> Idle] /\ broken = {} /\ faults = 0

View(t, i) == IF tx[t].writes[i] = Keep THEN rows[i] ELSE tx[t].writes[i]
Held(t, i) == \E u \in Threads \ {t} : tx[u].writes[i] # Keep
Current(t) == Min(tx[t].todo)
Write(t, i, row, pc) ==
    tx' = [tx EXCEPT ![t] = [@ EXCEPT !.writes[i] = row, !.pc = pc]]
Rest(t) == tx[t].todo \ {Current(t)}

Committed(t) == [i \in Id |-> View(t, i)]
Files == UNCHANGED <<disk, stored>>
Steady == UNCHANGED <<expired, broken>>

-----------------------------------------------------------------------------
(* Adding a file: an input copy of a new run, or the result of a process    *)
(* run.  The file is stored, then numbered max(id) + 1, then inserted.     *)

StoreFile(t) ==
    /\ tx[t].pc = "idle" /\ stored < MaxFiles
    /\ stored' = stored + 1 /\ disk' = disk \cup {stored + 1}
    /\ tx' = [tx EXCEPT ![t] = [Idle EXCEPT !.pc = "number", !.path = stored + 1]]
    /\ UNCHANGED <<rows, results, faults>> /\ Steady

NumberRow(t) ==
    /\ tx[t].pc = "number" /\ Max({0} \cup {i \in Id : View(t, i) # Absent}) < MaxFiles
    /\ tx' = [tx EXCEPT ![t] = [@ EXCEPT !.pc = "insert",
            !.key = Max({0} \cup {i \in Id : View(t, i) # Absent}) + 1]]
    /\ UNCHANGED <<rows, results, faults>> /\ Files /\ Steady

NewRow(t) == [path |-> tx[t].path, result |-> t = Worker,
              available |-> TRUE, reason |-> "none"]

InsertRow(t) ==
    /\ tx[t].pc = "insert" /\ ~Held(t, tx[t].key) /\ rows[tx[t].key] = Absent
    /\ Write(t, tx[t].key, NewRow(t), IF t = Worker THEN "candidates" ELSE "commit")
    /\ UNCHANGED <<rows, results, faults>> /\ Files /\ Steady

\* the key was taken: the run is deleted, or fails; its file stays on disk
KeyTaken(t) ==
    /\ tx[t].pc = "insert" /\ rows[tx[t].key] # Absent
    /\ tx' = [tx EXCEPT ![t] = Idle]
    /\ UNCHANGED <<rows, results, faults>> /\ Files /\ Steady

-----------------------------------------------------------------------------
(* Superseding the older results of the line.                              *)

\* Mutant: nothing is superseded.
NoOlder == {}

Older == {results[n] : n \in DOMAIN results}

ListCandidates ==
    /\ tx[Worker].pc = "candidates"
    /\ tx' = [tx EXCEPT ![Worker] = [@ EXCEPT !.todo = Older,
            !.pc = IF Older = {} THEN "commit" ELSE "resolve"]]
    /\ UNCHANGED <<rows, results, faults>> /\ Files /\ Steady

NextCandidate(pc) ==
    tx' = [tx EXCEPT ![Worker] = [@ EXCEPT !.todo = Rest(Worker),
            !.pc = IF Rest(Worker) = {} THEN "commit" ELSE pc]]

\* _resolve_result_file_for_run: an unavailable one is left alone
SkipCandidate ==
    /\ tx[Worker].pc = "resolve"
    /\ ~View(Worker, Current(Worker)).available
    /\ NextCandidate("resolve")
    /\ UNCHANGED <<rows, results, faults>> /\ Files /\ Steady

ResolveCandidate ==
    /\ tx[Worker].pc = "resolve"
    /\ View(Worker, Current(Worker)).available
    /\ tx' = [tx EXCEPT ![Worker].pc = "mark"]
    /\ UNCHANGED <<rows, results, faults>> /\ Files /\ Steady

\* mark_run_file_unavailable, on the row as it is when its lock is free
Unavailable(row, reason) == [row EXCEPT !.available = FALSE, !.reason = reason]

Supersede ==
    /\ tx[Worker].pc = "mark" /\ ~Held(Worker, Current(Worker))
    /\ tx' = [tx EXCEPT ![Worker] = [@ EXCEPT
            !.writes[Current(Worker)] = Unavailable(View(Worker, Current(Worker)), "superseded"),
            !.todo = Rest(Worker),
            !.pc = IF Rest(Worker) = {} THEN "commit" ELSE "resolve"]]
    /\ UNCHANGED <<rows, results, faults>> /\ Files /\ Steady

-----------------------------------------------------------------------------
(* Retention: expire_run_files in one transaction.                         *)

\* Mutant: files of any age are expired.
AllAvailable == {i \in Id : rows[i] # Absent /\ rows[i].available}

\* Mutant: the file that has just expired is not due.
DueLater == {i \in Id : rows[i] # Absent /\ rows[i].available /\ rows[i].path < expired}

DueRows == {i \in Id : rows[i] # Absent /\ rows[i].available /\ rows[i].path <= expired}

ListExpired ==
    /\ tx[Maint].pc = "idle" /\ DueRows # {}
    /\ tx' = [tx EXCEPT ![Maint] = [Idle EXCEPT !.todo = DueRows, !.pc = "unlink"]]
    /\ UNCHANGED <<rows, results, faults>> /\ Files /\ Steady

\* Mutant: the row is marked and its file is kept.
KeepFile ==
    /\ tx[Maint].pc = "unlink"
    /\ tx' = [tx EXCEPT ![Maint].pc = "mark"]
    /\ UNCHANGED <<rows, results, faults>> /\ Files /\ Steady

DeleteFile ==
    /\ tx[Maint].pc = "unlink"
    /\ disk' = disk \ {rows[Current(Maint)].path}
    /\ tx' = [tx EXCEPT ![Maint].pc = "mark"]
    /\ UNCHANGED <<rows, results, stored, faults>> /\ Steady

Expire ==
    /\ tx[Maint].pc = "mark" /\ ~Held(Maint, Current(Maint))
    /\ tx' = [tx EXCEPT ![Maint] = [@ EXCEPT
            !.writes[Current(Maint)] = Unavailable(rows[Current(Maint)], "expired"),
            !.todo = Rest(Maint),
            !.pc = IF Rest(Maint) = {} THEN "commit" ELSE "unlink"]]
    /\ UNCHANGED <<rows, results, faults>> /\ Files /\ Steady

-----------------------------------------------------------------------------
(* The end of a transaction.                                               *)

Commit(t) ==
    /\ tx[t].pc = "commit"
    /\ rows' = Committed(t)
    /\ results' = IF t = Worker THEN Append(results, tx[t].key) ELSE results
    /\ tx' = [tx EXCEPT ![t] = Idle]
    /\ UNCHANGED faults /\ Files /\ Steady

\* a log row, a statement or the commit fails: the rows are as before, the
\* disk is not
Fail(t) ==
    /\ tx[t].pc \notin {"idle", "read"} /\ faults < MaxFaults
    /\ faults' = faults + 1
    /\ tx' = [tx EXCEPT ![t] = Idle]
    /\ UNCHANGED <<rows, results>> /\ Files /\ Steady

-----------------------------------------------------------------------------
(* Downloads: _load_accessible_run_file checks in a transaction of its own, *)
(* download_run_file reads the file after it.                              *)

Offered(i) == rows[i] # Absent /\ rows[i].available /\ rows[i].path \in disk

CheckDownload(c, i) ==
    /\ tx[c].pc = "idle" /\ Offered(i)
    /\ tx' = [tx EXCEPT ![c] = [Idle EXCEPT !.pc = "read", !.path = rows[i].path]]
    /\ UNCHANGED <<rows, results, faults>> /\ Files /\ Steady

ReadDownload(c) ==
    /\ tx[c].pc = "read"
    /\ broken' = IF tx[c].path \in disk THEN broken ELSE broken \cup {tx[c].path}
    /\ tx' = [tx EXCEPT ![c] = Idle]
    /\ UNCHANGED <<rows, results, expired, faults>> /\ Files

-----------------------------------------------------------------------------

\* all files live for five days and expire in the order of storing
FileExpires ==
    /\ expired < stored /\ expired < MaxExpired
    /\ expired' = expired + 1
    /\ UNCHANGED <<rows, results, disk, stored, tx, broken, faults>>

AddFile(t) == StoreFile(t) \/ NumberRow(t) \/ InsertRow(t) \/ KeyTaken(t)
SupersedeOlder == ListCandidates \/ SkipCandidate \/ ResolveCandidate \/ Supersede
Retention == ListExpired \/ DeleteFile \/ Expire \/ Commit(Maint)

Next ==
    \/ \E t \in Clients \cup {Worker} : AddFile(t) \/ Commit(t)
    \/ SupersedeOlder
    \/ Retention
    \/ \E t \in Threads : Fail(t)
    \/ \E c \in Clients, i \in Id : CheckDownload(c, i)
    \/ \E c \in Clients : ReadDownload(c)
    \/ FileExpires

Spec == Init /\ [][Next]_vars

\* the worker and the maintenance thread run for ever
FairSpec == Spec /\ WF_vars(Retention) /\ WF_vars(SupersedeOlder)
                 /\ WF_vars(NumberRow(Worker) \/ InsertRow(Worker) \/ KeyTaken(Worker))
                 /\ WF_vars(Commit(Worker))

-----------------------------------------------------------------------------
(* Properties.                                                             *)

Transaction ==
    [pc : {"idle", "number", "insert", "candidates", "resolve", "unlink", "mark", "commit", "read"},
     todo : SUBSET Id, path : Id \cup {0}, key : Id \cup {0}, writes : [Id -> Row \cup {Keep}]]

(* Every variable has its type: the columns of run_files that the three    *)
(* writers change, and their transactions.                                 *)
TypeOK ==
    /\ rows \in [Id -> Row \cup {Absent}] /\ results \in Seq(Id)
    /\ disk \subseteq 1..stored /\ stored \in 0..MaxFiles /\ expired \in 0..stored
    /\ tx \in [Threads -> Transaction]
    /\ broken \subseteq 1..stored /\ faults \in 0..MaxFaults

(* Only the last successful process run of a line still offers its result, *)
(* and no other thread makes that one "superseded"; input copies never are *)
(* (_apply_result_supersede next to expire_run_files; docs/07, 15).        *)
OneCurrentResult ==
    /\ \A n \in DOMAIN results :
         IF n < Len(results) THEN ~rows[results[n]].available
         ELSE rows[results[n]].reason # "superseded"
    /\ \A i \in Id : rows[i] # Absent /\ rows[i].reason = "superseded" => rows[i].result

(* A row that is offered although its file is gone is a row past its time, *)
(* which the next retention cycle will see again: a rollback after the      *)
(* unlink (retention.py:62) loses nothing that was to be kept.             *)
MissingFileIsExpired ==
    \A i \in Id : rows[i] # Absent /\ rows[i].available /\ rows[i].path \notin disk
                    => rows[i].path <= expired

(* "expired" is only said of a file that is deleted (expire_run_files),    *)
(* also when the worker supersedes the row in between.                     *)
ExpiredMeansDeleted ==
    \A i \in Id : rows[i] # Absent /\ rows[i].reason = "expired" => rows[i].path \notin disk

(* A download that was accepted and then finds no file (app.py:437) is one *)
(* of a file past its time: superseding never breaks a download.           *)
BrokenDownloadIsExpired == broken \subseteq 1..expired

(* A file past its time is not offered for ever: whatever transaction      *)
(* fails, a later retention cycle marks its row (runtime.py:82).           *)
ExpiredIsWithdrawn ==
    \A i \in Id : (rows[i] # Absent /\ rows[i].path <= expired)
                    ~> (rows[i] # Absent /\ ~rows[i].available)
=============================================================================
