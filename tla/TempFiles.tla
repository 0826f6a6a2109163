------------------------------ MODULE TempFiles ------------------------------
(***************************************************************************)
(* The temporary files of one module: uploads, replacements and deletions  *)
(* by request threads, and the purge of expired files by the maintenance   *)
(* thread.  Every (user, store) pair owns a set of its own, but the rows   *)
(* of all of them are in one table and share its keys.                     *)
(*                                                                         *)
(* Every operation is one database transaction, but it deletes and writes  *)
(* files on disk while it runs: the disk changes at once and is not rolled *)
(* back.  The database is PostgreSQL at READ COMMITTED, as in RunEngine:   *)
(* rows are read one statement at a time, an UPDATE, a DELETE or an INSERT *)
(* waits for the open transaction that has written the same primary key.   *)
(*                                                                         *)
(* Stored files are numbered in the order in which they are written (their *)
(* names are random and never repeat); a row is identified by its primary  *)
(* key, max(id) + 1, which is used again after a deletion.                 *)
(***************************************************************************)
EXTENDS Naturals, FiniteSetsExt

CONSTANTS
    Clients,            \* request threads
    Purger,             \* the maintenance thread
    Owners,             \* (user, store) pairs
    Absent,             \* "no such row"
    Keep,               \* "this transaction has not written the row"
    Module,             \* "wb" or "ozon"
    Sizes,              \* file sizes
    MaxTotal,           \* MAX_WB_TOTAL_SIZE_BYTES
    MaxPromo,           \* MAX_WB_PROMO_FILES
    ReplaceAnything,    \* TRUE: a replacement may name a file that has left the
                        \* set, or change the kind of the file it replaces
    MaxFiles,           \* bound: files ever stored
    MaxExpired,         \* bound: files that get older than their ttl
    MaxFaults           \* bound: file operations and commits that fail

Threads == Clients \cup {Purger}
Kinds   == IF Module = "wb" THEN {"price", "promo"} ELSE {"none"}
Id      == 1..MaxFiles
NoId    == 0
Row     == [path : Id, owner : Owners, kind : Kinds, size : Sizes, active : BOOLEAN]

ASSUME TempFilesAssumption ==
    /\ IsFiniteSet(Clients) /\ Clients # {} /\ Purger \notin Clients
    /\ Module \in {"wb", "ozon"} /\ ReplaceAnything \in BOOLEAN
    /\ Sizes \subseteq Nat /\ "none" \notin Owners
    /\ MaxTotal \in Nat /\ MaxPromo \in Nat
    /\ MaxFiles \in Nat /\ MaxExpired \in Nat /\ MaxFaults \in Nat
    /\ Absent \notin Row /\ Keep \notin Row /\ Absent # Keep

VARIABLES
    rows,       \* committed temporary_uploaded_files: [Id -> Row or Absent]
    disk,       \* stored files that exist
    stored,     \* number of files stored so far
    expired,    \* files 1..expired are older than their ttl
    tx,         \* the open transaction of each thread
    mixed,      \* history: an update has mixed the columns of two files
    faults      \* used up of the bound

vars == <<rows, disk, stored, expired, tx, mixed, faults>>

-----------------------------------------------------------------------------
(* The active set and its limits.                                          *)

ActiveIds   == {i \in Id : rows[i] # Absent /\ rows[i].active}
\* _active_files
ActiveOf(o) == {i \in ActiveIds : rows[i].owner = o}

\* Mutant: only Ozon files are replaced.
SlotOfOzonOnly(kind) == IF Module = "ozon" THEN {kind} ELSE {}
\* the kinds of active files an upload of this kind replaces
Slot(kind) == IF kind = "promo" THEN {} ELSE {kind}

\* _project_active_set: the files that are to stay next to the new one
Staying(o, replaced, kind) ==
    {i \in ActiveOf(o) : i # replaced /\ rows[i].kind \notin Slot(kind)}

\* Mutant: the set is validated without the new file.
FitsBeforeUpload(staying, kind, size) ==
    Module = "wb" =>
        /\ MapThenSumSet(LAMBDA i : rows[i].size, staying) <= MaxTotal
        /\ Cardinality({i \in staying : rows[i].kind = "promo"}) <= MaxPromo
\* _validate_projected_set, with the new file
Fits(staying, kind, size) ==
    Module = "wb" =>
        /\ MapThenSumSet(LAMBDA i : rows[i].size, staying) + size <= MaxTotal
        /\ Cardinality({i \in staying : rows[i].kind = "promo"})
            + (IF kind = "promo" THEN 1 ELSE 0) <= MaxPromo

-----------------------------------------------------------------------------
(* Transactions.                                                           *)

NoRows == [i \in Id |-> Absent]

\* the step it is at, the operation, the new file's owner, kind and size, the rows
\* it still has to drop as it read them, the row selected before an update or a
\* delete, the new file and its primary key, its uncommitted writes
Idle == [pc |-> "idle", op |-> "purge", owner |-> "none", kind |-> "none", size |-> 0,
         todo |-> NoRows, base |-> Absent, path |-> 0, key |-> NoId,
         writes |-> [i \in Id |-> Keep]]

Init ==
    /\ rows = NoRows /\ disk = {} /\ stored = 0 /\ expired = 0
    /\ tx = [t \in Threads |-> Idle] /\ mixed = FALSE /\ faults = 0

\* a transaction sees its own uncommitted writes
View(t, i) == IF tx[t].writes[i] = Keep THEN rows[i] ELSE tx[t].writes[i]

\* row lock, or uncommitted primary key, of another open transaction
Held(t, i) == \E u \in Threads \ {t} : tx[u].writes[i] # Keep

Todo(t) == {i \in Id : tx[t].todo[i] # Absent}
\* Mutant: the purge takes the newest row first.
CurrentFromNewest(t) == IF t = Purger THEN Max(Todo(t)) ELSE Min(Todo(t))
Current(t) == Min(Todo(t))

\* the rows still to drop decide where the transaction goes next
After(t, i, done) == IF Todo(t) = {i} THEN done ELSE "drop"

dbFrame   == UNCHANGED <<rows, disk, stored, expired, mixed, faults>>
Rollback(t) == tx' = [tx EXCEPT ![t] = Idle]

-----------------------------------------------------------------------------
(* Requests.                                                               *)

\* bound: every upload that begins can store its file
Room == stored + Cardinality({c \in Clients : tx[c].op \in {"upload", "replace"}
                                              /\ tx[c].path = 0}) < MaxFiles

\* Mutant: the row is written without a stored file.
BeginUploadUnstored(c, o, kind, size) ==
    /\ tx[c].pc = "idle" /\ Room
    /\ Fits(Staying(o, NoId, kind), kind, size)
    /\ tx' = [tx EXCEPT ![c] = [Idle EXCEPT !.op = "upload", !.owner = o, !.kind = kind,
                    !.size = size, !.pc = IF Slot(kind) = {} THEN "number" ELSE "list"]]
    /\ dbFrame
\* upload_file reads the active set and checks the limits
BeginUpload(c, o, kind, size) ==
    /\ tx[c].pc = "idle" /\ Room
    /\ Fits(Staying(o, NoId, kind), kind, size)
    /\ tx' = [tx EXCEPT ![c] = [Idle EXCEPT !.op = "upload", !.owner = o, !.kind = kind,
                    !.size = size, !.pc = IF Slot(kind) = {} THEN "store" ELSE "list"]]
    /\ dbFrame

\* _replace_active_pair, _replace_active_price_slot: read the set once more
ListSlot(c) ==
    /\ tx[c].pc = "list"
    /\ LET slot == {i \in ActiveOf(tx[c].owner) : rows[i].kind \in Slot(tx[c].kind)} IN
        tx' = [tx EXCEPT ![c] = [@ EXCEPT
                    !.pc = IF slot = {} THEN "store" ELSE "drop",
                    !.todo = [i \in Id |-> IF i \in slot THEN rows[i] ELSE Absent]]]
    /\ dbFrame

\* replace_file finds the row it replaces, active or not
BeginReplace(c, id, kind, size) ==
    /\ tx[c].pc = "idle" /\ Room
    /\ rows[id] # Absent
    /\ ReplaceAnything \/ (rows[id].active /\ rows[id].kind = kind)
    /\ tx' = [tx EXCEPT ![c] = [Idle EXCEPT !.op = "replace", !.owner = rows[id].owner,
                    !.kind = kind, !.size = size, !.pc = "check", !.todo = [NoRows EXCEPT ![id] = rows[id]]]]
    /\ dbFrame

CheckReplacement(c) ==
    /\ tx[c].pc = "check"
    /\ IF Fits(Staying(tx[c].owner, Current(c), tx[c].kind), tx[c].kind, tx[c].size)
       THEN tx' = [tx EXCEPT ![c].pc = "drop"]
       ELSE Rollback(c)
    /\ dbFrame

BeginDelete(c, id) ==
    /\ tx[c].pc = "idle"
    /\ rows[id] # Absent
    /\ tx' = [tx EXCEPT ![c] = [Idle EXCEPT !.op = "delete", !.pc = "drop",
                    !.todo = [NoRows EXCEPT ![id] = rows[id]]]]
    /\ dbFrame

\* Mutant: only files that are in a set are purged.
BeginPurgeOfActive ==
    /\ tx[Purger].pc = "idle"
    /\ \E i \in ActiveIds : rows[i].path <= expired
    /\ tx' = [tx EXCEPT ![Purger] = [Idle EXCEPT !.pc = "drop",
                    !.todo = [i \in Id |->
                        IF i \in ActiveIds /\ rows[i].path <= expired
                        THEN rows[i] ELSE Absent]]]
    /\ dbFrame
\* purge_temporary_files lists the rows whose ttl is over
BeginPurge ==
    /\ tx[Purger].pc = "idle"
    /\ \E i \in Id : rows[i] # Absent /\ rows[i].path <= expired
    /\ tx' = [tx EXCEPT ![Purger] = [Idle EXCEPT !.pc = "drop",
                    !.todo = [i \in Id |->
                        IF rows[i] # Absent /\ rows[i].path <= expired
                        THEN rows[i] ELSE Absent]]]
    /\ dbFrame

\* Mutant: a replaced file stays on disk.
DropFileOfDeleted(t) ==
    /\ tx[t].pc = "drop"
    /\ disk' = IF tx[t].op \in {"delete", "purge"}
                THEN disk \ {tx[t].todo[Current(t)].path} ELSE disk
    /\ tx' = [tx EXCEPT ![t].pc = "select"]
    /\ UNCHANGED <<rows, stored, expired, mixed, faults>>
\* delete_relative_path: at once, before anything is written to the database
DropFile(t) ==
    /\ tx[t].pc = "drop"
    /\ disk' = disk \ {tx[t].todo[Current(t)].path}
    /\ tx' = [tx EXCEPT ![t].pc = "select"]
    /\ UNCHANGED <<rows, stored, expired, mixed, faults>>

\* SqlAlchemyRepository.update and delete select the row first
SelectRow(t) ==
    /\ tx[t].pc = "select"
    /\ tx' = [tx EXCEPT ![t] = [@ EXCEPT !.pc = "write", !.base = View(t, Current(t))]]
    /\ dbFrame

\* Mutant: the flag is not written.
MergeKeepingActive(dto, base, current) ==
    [dto EXCEPT !.active = current.active]
\* the columns of the caller's copy that differ from the selected row
Merge(dto, base, current) ==
    [path   |-> IF dto.path # base.path THEN dto.path ELSE current.path,
     owner  |-> IF dto.owner # base.owner THEN dto.owner ELSE current.owner,
     kind   |-> IF dto.kind # base.kind THEN dto.kind ELSE current.kind,
     size   |-> IF dto.size # base.size THEN dto.size ELSE current.size,
     active |-> IF dto.active # base.active THEN dto.active ELSE current.active]

\* the key has been given to another file since the copy, or since the selection
Mixes(dto, base, current) ==
    base # Absent /\ ~ (dto.path = base.path /\ base.path = current.path)

Dropped(t, i, done, write) ==
    tx' = [tx EXCEPT ![t] = [@ EXCEPT
                !.pc = After(t, i, done), !.todo[i] = Absent, !.base = Absent,
                !.writes[i] = write]]

\* update(replace(item, is_active_in_current_set=False)).  A row that is gone
\* is inserted again; one that goes while the UPDATE waits raises an error.
DeactivateRow(c) ==
    /\ tx[c].pc = "write" /\ tx[c].op \in {"upload", "replace"}
    /\ LET i       == Current(c)
           dto     == [tx[c].todo[i] EXCEPT !.active = FALSE]
           base    == tx[c].base
           current == View(c, i)
       IN
        \/ /\ base = dto
           /\ Dropped(c, i, "store", tx[c].writes[i])
           /\ mixed' = mixed
        \/ /\ base # dto
           /\ ~ Held(c, i)
           /\ (base = Absent) = (current = Absent)
           /\ Dropped(c, i, "store",
                IF base = Absent THEN dto ELSE Merge(dto, base, current))
           /\ mixed' = (mixed \/ Mixes(dto, base, current))
        \/ /\ base # dto
           /\ ~ Held(c, i)
           /\ (base = Absent) # (current = Absent)
           /\ Rollback(c)
           /\ mixed' = mixed
    /\ UNCHANGED <<rows, disk, stored, expired, faults>>

DeleteRow(t) ==
    /\ tx[t].pc = "write" /\ tx[t].op \in {"delete", "purge"}
    /\ tx[t].base # Absent => ~ Held(t, Current(t))
    /\ LET i == Current(t) IN
        Dropped(t, i, "commit",
            IF tx[t].base # Absent /\ View(t, i) # Absent THEN Absent ELSE tx[t].writes[i])
    /\ dbFrame

\* write_temp_upload
StoreFile(c) ==
    /\ tx[c].pc = "store"
    /\ stored' = stored + 1
    /\ disk' = disk \cup {stored + 1}
    /\ tx' = [tx EXCEPT ![c] = [@ EXCEPT !.pc = "number", !.path = stored + 1]]
    /\ UNCHANGED <<rows, expired, mixed, faults>>

\* _next_id: above the rows of all owners
NumberRow(c) ==
    /\ tx[c].pc = "number"
    /\ tx' = [tx EXCEPT ![c] = [@ EXCEPT !.pc = "insert",
                    !.key = Max({i \in Id : View(c, i) # Absent} \cup {NoId}) + 1]]
    /\ dbFrame

\* waits for another request with the same key, and fails if that one committed
InsertRow(c) ==
    /\ tx[c].pc = "insert"
    /\ ~ Held(c, tx[c].key)
    /\ IF rows[tx[c].key] # Absent
       THEN Rollback(c)
       ELSE tx' = [tx EXCEPT ![c] = [@ EXCEPT !.pc = "commit",
                        !.writes[tx[c].key] =
                            [path |-> tx[c].path, owner |-> tx[c].owner, kind |-> tx[c].kind,
                             size |-> tx[c].size, active |-> TRUE]]]
    /\ dbFrame

Commit(t) ==
    /\ tx[t].pc = "commit"
    /\ rows' = [i \in Id |-> View(t, i)]
    /\ tx' = [tx EXCEPT ![t] = Idle]
    /\ UNCHANGED <<disk, stored, expired, mixed, faults>>

\* a file cannot be deleted (another thread was faster) or written, the row of the
\* system log cannot be inserted, or the commit fails
Fail(t) ==
    /\ faults < MaxFaults
    /\ tx[t].pc \in {"drop", "select", "store", "commit"}
    /\ faults' = faults + 1
    /\ Rollback(t)
    /\ UNCHANGED <<rows, disk, stored, expired, mixed>>

DropStep(t) == DropFile(t) \/ SelectRow(t) \/ DeleteRow(t) \/ Commit(t) \/ Fail(t)

\* a request that has begun
Proceed(c) ==
    \/ ListSlot(c) \/ CheckReplacement(c) \/ DeactivateRow(c)
    \/ StoreFile(c) \/ NumberRow(c) \/ InsertRow(c)
    \/ DropStep(c)

Request(c) ==
    \/ \E kind \in Kinds, size \in Sizes :
        \/ \E o \in Owners : BeginUpload(c, o, kind, size)
        \/ \E id \in Id : BeginReplace(c, id, kind, size)
    \/ \E id \in Id : BeginDelete(c, id)
    \/ Proceed(c)

Purge == BeginPurge \/ DropStep(Purger)

\* no request lasts as long as the ttl
FileExpires ==
    /\ expired < MaxExpired
    /\ expired < stored
    /\ \A c \in Clients : tx[c].path # expired + 1
    /\ expired' = expired + 1
    /\ UNCHANGED <<rows, disk, stored, tx, mixed, faults>>

Next ==
    \/ \E c \in Clients : Request(c)
    \/ Purge
    \/ FileExpires

Spec == Init /\ [][Next]_vars

\* the maintenance thread keeps running its cycles
FairSpec == Spec /\ WF_vars(Purge) /\ \A c \in Clients : WF_vars(Proceed(c))

-----------------------------------------------------------------------------
(* Type invariant.                                                         *)

RowOrAbsent == Row \cup {Absent}
Transaction ==
    [pc : {"idle", "list", "check", "drop", "select", "write", "store", "number",
           "insert", "commit"},
     op : {"upload", "replace", "delete", "purge"}, owner : Owners \cup {"none"},
     kind : Kinds \cup {"none"}, size : Sizes \cup {0}, todo : [Id -> RowOrAbsent], base : RowOrAbsent,
     path : Id \cup {0}, key : Id \cup {NoId}, writes : [Id -> RowOrAbsent \cup {Keep}]]

\* Every variable keeps its type; in particular a row always names a stored file.
TypeOK ==
    /\ rows \in [Id -> RowOrAbsent]
    /\ disk \subseteq 1..stored
    /\ stored \in 0..MaxFiles /\ expired \in 0..stored
    /\ tx \in [Threads -> Transaction]
    /\ mixed \in BOOLEAN
    /\ faults \in 0..MaxFaults

-----------------------------------------------------------------------------
(* Properties.                                                             *)

\* An Ozon set of an owner holds one file, a WB set one price file: _replace_active_pair and
\* _replace_active_price_slot empty the slot before the new row is inserted.
OneFilePerSlot ==
    \A i, j \in ActiveIds :
        /\ rows[i].owner = rows[j].owner
        /\ rows[i].kind # "promo" /\ rows[j].kind = rows[i].kind
        => i = j

\* Requests that run _validate_projected_set at the same time can exceed the promo
\* limit, but by no more than the number of requests next to each other, although
\* each of them replaces and inserts rows it read before the others committed.  An
\* update() that mixes two files can make an inactive promo file active again.
PromoOvershoot ==
    ~ mixed => \A o \in Owners :
        Cardinality({i \in ActiveOf(o) : rows[i].kind = "promo"})
            <= MaxPromo + Cardinality(Clients) - 1

\* the transaction waits for another one to end
Waits(t) ==
    \/ tx[t].pc = "insert" /\ Held(t, tx[t].key)
    \/ /\ tx[t].pc = "write" /\ Held(t, Current(t))
       /\ IF tx[t].op \in {"delete", "purge"} THEN tx[t].base # Absent
          ELSE tx[t].base # [tx[t].todo[Current(t)] EXCEPT !.active = FALSE]

\* No circle of waits: when a transaction waits for a row lock or a key of another
\* one (update, delete and add of the repository), some open transaction can go on.
NoWaitCycle ==
    (\E t \in Threads : Waits(t)) =>
        \E t \in Threads : tx[t].pc # "idle" /\ ~ Waits(t)

\* Until a row is purged or an operation fails, and between transactions, the
\* files on disk are those of the active rows: a request that deactivates or
\* deletes a row has deleted its file, and no other.
FilesMatchRows ==
    expired = 0 /\ faults = 0 /\ (\A t \in Threads : tx[t].pc = "idle") =>
        disk = {rows[i].path : i \in ActiveIds}

\* A row whose ttl is over disappears, whatever requests do to it meanwhile:
\* purge_temporary_files comes back for a row that update() has inserted again.
ExpiredRowsDisappear ==
    \A p \in Id :
        (\E i \in Id : rows[i] # Absent /\ rows[i].path = p /\ p <= expired)
            ~> ~ \E i \in Id : rows[i] # Absent /\ rows[i].path = p

\* What the users see: a set changes by whole uploads, replacements and removals
\* and is always one that may be used for a run.
Files == INSTANCE TempSet WITH
    set <- {[path |-> rows[i].path, owner |-> rows[i].owner, kind |-> rows[i].kind,
             size |-> rows[i].size] : i \in ActiveIds}
ImplementsTempSet == Files!Spec

=============================================================================
