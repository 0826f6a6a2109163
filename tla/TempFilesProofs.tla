-------------------------- MODULE TempFilesProofs --------------------------
(***************************************************************************)
(* Proofs about TempFiles, for every number of clients, owners, files and  *)
(* faults: its types, that waits never form a circle, and by how much      *)
(* concurrent requests can exceed the promo limit of an owner.  For one    *)
(* request at a time, by whichever owner, that replaces files by files of  *)
(* their kind: one file per slot of each owner, a disk that matches the    *)
(* rows, and that TempFiles implements TempSet.                            *)
(***************************************************************************)
EXTENDS TempFiles, MinMaxSum, FiniteSetTheorems, TLAPS

-----------------------------------------------------------------------------
(* The inductive invariant. *)

Uploads     == {"upload", "replace"}
Dropping(t) == tx[t].pc \in {"check", "drop", "select", "write"}
Locked(t, i) == tx[t].writes[i] # Keep
IsRow(r)    == r # Absent /\ r # Keep

(* What a transaction is at, by its program counter: the rows it still has *)
(* to drop, the stored file, the key.                                      *)
ShapeOK(t) ==
    /\ tx[t].pc = "idle" => tx[t] = Idle
    /\ t = Purger => tx[t].op = "purge"
    /\ t # Purger /\ tx[t].pc # "idle" => tx[t].op # "purge"
    /\ tx[t].pc \in {"list", "check", "store", "number", "insert"} => tx[t].op \in Uploads
    /\ Dropping(t) <=> Todo(t) # {}
    /\ tx[t].op \in Uploads => tx[t].owner \in Owners /\ tx[t].kind \in Kinds /\ tx[t].size \in Sizes
    /\ tx[t].path # 0 <=> tx[t].op \in Uploads /\ tx[t].pc \in {"number", "insert", "commit"}
    /\ tx[t].pc = "insert" => tx[t].key # NoId

(* A transaction writes in the order of the keys, and inserts above all.   *)
WritesOK(t) == \A i \in Id : Locked(t, i) =>
    /\ tx[t].pc \notin {"list", "check"}
    /\ \A j \in Todo(t) : i < j
    /\ tx[t].pc = "insert" => i < tx[t].key
    /\ (tx[t].writes[i] = Absent) = (tx[t].op \notin Uploads)

(* The row a request is about to commit belongs to a free key.             *)
NewRow(c)   == [path |-> tx[c].path, owner |-> tx[c].owner, kind |-> tx[c].kind,
                size |-> tx[c].size, active |-> TRUE]
NewRowOK(c) == tx[c].op \in Uploads /\ tx[c].pc = "commit" =>
    /\ tx[c].key # NoId /\ rows[tx[c].key] = Absent
    /\ tx[c].writes[tx[c].key] = NewRow(c)

Exclusive == \A t, u \in Threads, i \in Id : Locked(t, i) /\ Locked(u, i) => t = u

(* Every upload that has begun can store its file.                         *)
Unstored == {c \in Clients : tx[c].op \in Uploads /\ tx[c].path = 0}
RoomOK   == stored + Cardinality(Unstored) <= MaxFiles

(* No key is above the number of files that are no longer on their way to  *)
(* the table, so the next key never leaves the bound.                      *)
InFlight == {c \in Clients : tx[c].pc \in {"number", "insert"}}
Settled  == stored - Cardinality(InFlight)
KeysOK ==
    /\ Settled >= 0
    /\ \A i \in Id : rows[i] # Absent => i <= Settled
    /\ \A t \in Threads, i \in Id :
        /\ tx[t].todo[i] # Absent => i <= Settled
        /\ IsRow(tx[t].writes[i]) => i <= Settled
    /\ \A c \in Clients : tx[c].pc = "insert" => tx[c].key <= Settled + 1

(* The name of a stored file is in no row but the one inserted for it.     *)
InTable(p)  == \E i \in Id : rows[i] # Absent /\ rows[i].path = p
Names(t, p) ==
    \/ tx[t].path = p
    \/ tx[t].base # Absent /\ tx[t].base.path = p
    \/ \E i \in Id : \/ tx[t].todo[i] # Absent /\ tx[t].todo[i].path = p
                     \/ IsRow(tx[t].writes[i]) /\ tx[t].writes[i].path = p
PathsOK == \A p \in Id : InTable(p) \/ (\E t \in Threads : Names(t, p)) => p <= stored
FreshOK(d) == \A p \in Id : tx[d].path = p =>
    ~ InTable(p) /\ \A t \in Threads \ {d} : ~ Names(t, p)
Paths == PathsOK /\ \A d \in Threads : FreshOK(d)

(* Unless files are mixed, a file that was inactive when its row was       *)
(* selected stays so.                                                      *)
RetiredOK(t) == ~ mixed /\ tx[t].pc = "write" /\ tx[t].base # Absent /\ ~ tx[t].base.active =>
    LET row == rows[Current(t)] IN
    row # Absent /\ row.path = tx[t].base.path => ~ row.active

(* Unless files are mixed, the only active row a request writes is the new *)
(* one.                                                                    *)
InactiveOK(t) == ~ mixed => \A i \in Id :
    IsRow(tx[t].writes[i]) /\ tx[t].writes[i].active => tx[t].pc = "commit" /\ i = tx[t].key

(* The requests that are to add a promo file to the set of an owner, and    *)
(* the active promo files in it that none of them replaces.                *)
Adds(c, o) == /\ tx[c].op \in Uploads /\ tx[c].owner = o /\ tx[c].kind = "promo"
              /\ tx[c].pc # "check"
Adding(o)  == {c \in Clients : Adds(c, o)}
ActivePromos(o) == {i \in ActiveOf(o) : rows[i].kind = "promo"}
Releases(c, i) ==
    \/ tx[c].pc \in {"drop", "select"} /\ tx[c].todo[i] # Absent
    \/ /\ tx[c].pc = "write" /\ tx[c].todo[i] # Absent
       /\ tx[c].base # Absent /\ tx[c].base.path = rows[i].path
    \/ Locked(c, i)
Unreleased(o) == {i \in ActivePromos(o) : \A c \in Adding(o) : ~ Releases(c, i)}
Replaces(c, i) == tx[c].todo[i] # Absent
    \/ (Locked(c, i) /\ ~ (tx[c].pc = "commit" /\ i = tx[c].key))
OneReplaced(c) == tx[c].op \in Uploads /\ tx[c].kind = "promo" =>
    \A i, j \in Id : Replaces(c, i) /\ Replaces(c, j) => i = j
Flags ==
    /\ \A t \in Threads : RetiredOK(t) /\ InactiveOK(t)
    /\ \A c \in Clients : OneReplaced(c)
PromoFor(o) == ~ mixed =>
    Cardinality(Unreleased(o)) + Cardinality(Adding(o)) <= MaxPromo + Cardinality(Clients) - 1
PromoOK == \A o \in Owners : PromoFor(o)

Core ==
    /\ TypeOK
    /\ \A t \in Threads : ShapeOK(t) /\ WritesOK(t)
    /\ \A c \in Clients : NewRowOK(c)
    /\ Exclusive /\ RoomOK /\ KeysOK
IInv == Core /\ Paths /\ Flags /\ PromoOK
-----------------------------------------------------------------------------
(* What the steps do to a transaction, field by field. *)

NoWrites == [i \in Id |-> Keep]
Becomes(t, pc, op, owner, kind, size, todo, base, path, key, writes) ==
    /\ \A u \in Threads \ {t} : tx'[u] = tx[u]
    /\ tx'[t].pc = pc /\ tx'[t].op = op /\ tx'[t].owner = owner
    /\ tx'[t].kind = kind /\ tx'[t].size = size
    /\ tx'[t].todo = todo /\ tx'[t].base = base /\ tx'[t].path = path
    /\ tx'[t].key = key /\ tx'[t].writes = writes
\* the same transaction at another step
At(t, pc) == Becomes(t, pc, tx[t].op, tx[t].owner, tx[t].kind, tx[t].size, tx[t].todo, tx[t].base, tx[t].path,
                     tx[t].key, tx[t].writes)
Ends(t) == tx'[t] = Idle /\ \A u \in Threads \ {t} : tx'[u] = tx[u]

\* The fields of a transaction.
LEMMA Fields ==
    ASSUME TypeOK, NEW t \in Threads
    PROVE  /\ tx[t] = [tx[t] EXCEPT !.pc = tx[t].pc]
           /\ tx[t].pc \in {"idle", "list", "check", "drop", "select", "write", "store", "number",
                            "insert", "commit"}
           /\ tx[t].op \in {"upload", "replace", "delete", "purge"}
           /\ tx[t].owner \in Owners \cup {"none"}
           /\ tx[t].kind \in Kinds \cup {"none"} /\ tx[t].size \in Sizes \cup {0}
           /\ tx[t].todo \in [Id -> RowOrAbsent] /\ tx[t].base \in RowOrAbsent
           /\ tx[t].path \in Id \cup {0} /\ tx[t].key \in Id \cup {NoId}
           /\ tx[t].writes \in [Id -> RowOrAbsent \cup {Keep}]
BY DEF TypeOK, Transaction

\* A connection that has been returned carries nothing over.
LEMMA IdleIs ==
    /\ Idle.pc = "idle" /\ Idle.op = "purge" /\ Idle.owner = "none" /\ Idle.kind = "none" /\ Idle.size = 0
    /\ Idle.todo = NoRows /\ Idle.base = Absent /\ Idle.path = 0 /\ Idle.key = NoId
    /\ Idle.writes = NoWrites
BY DEF Idle, NoWrites

\* Every step, as what it does to the fields of its transaction.
LEMMA BeginUploadPost ==
    ASSUME TypeOK, NEW c \in Clients, NEW o \in Owners, NEW kind \in Kinds, NEW size \in Sizes,
           BeginUpload(c, o, kind, size)
    PROVE  Becomes(c, IF Slot(kind) = {} THEN "store" ELSE "list", "upload", o, kind, size,
                         NoRows, Absent, 0, NoId, NoWrites)
BY DEF TypeOK, Threads, BeginUpload, Becomes, Idle, NoWrites

LEMMA BeginReplacePost ==
    ASSUME TypeOK, NEW c \in Clients, NEW id \in Id, NEW kind \in Kinds, NEW size \in Sizes,
           BeginReplace(c, id, kind, size)
    PROVE  Becomes(c, "check", "replace", rows[id].owner, kind, size, [NoRows EXCEPT ![id] = rows[id]],
                         Absent, 0, NoId, NoWrites)
BY DEF TypeOK, Threads, BeginReplace, Becomes, Idle, NoWrites

LEMMA BeginDeletePost ==
    ASSUME TypeOK, NEW c \in Clients, NEW id \in Id, BeginDelete(c, id)
    PROVE  Becomes(c, "drop", "delete", "none", "none", 0, [NoRows EXCEPT ![id] = rows[id]],
                         Absent, 0, NoId, NoWrites)
BY DEF TypeOK, Threads, BeginDelete, Becomes, Idle, NoWrites

Expired == [i \in Id |-> IF rows[i] # Absent /\ rows[i].path <= expired THEN rows[i] ELSE Absent]
LEMMA BeginPurgePost ==
    ASSUME TypeOK, BeginPurge
    PROVE  Becomes(Purger, "drop", "purge", "none", "none", 0, Expired, Absent, 0, NoId, NoWrites)
BY DEF TypeOK, Threads, BeginPurge, Becomes, Idle, NoWrites, Expired

SlotIds(c)  == {i \in ActiveOf(tx[c].owner) : rows[i].kind \in Slot(tx[c].kind)}
SlotRows(c) == [i \in Id |-> IF i \in SlotIds(c) THEN rows[i] ELSE Absent]
LEMMA ListSlotPost ==
    ASSUME TypeOK, NEW c \in Clients, ListSlot(c)
    PROVE  Becomes(c, IF SlotIds(c) = {} THEN "store" ELSE "drop", tx[c].op, tx[c].owner, tx[c].kind,
                         tx[c].size, SlotRows(c), tx[c].base, tx[c].path, tx[c].key,
                         tx[c].writes)
<1> c \in Threads
  BY DEF Threads
<1> QED
  BY Fields DEF TypeOK, ListSlot, Becomes, At, SlotIds, SlotRows

LEMMA DropFilePost ==
    ASSUME TypeOK, NEW t \in Threads, DropFile(t)
    PROVE  At(t, "select")
BY Fields DEF TypeOK, DropFile, Becomes, At

LEMMA SelectRowPost ==
    ASSUME TypeOK, NEW t \in Threads, SelectRow(t)
    PROVE  Becomes(t, "write", tx[t].op, tx[t].owner, tx[t].kind, tx[t].size, tx[t].todo,
                         View(t, Current(t)), tx[t].path, tx[t].key, tx[t].writes)
BY Fields DEF TypeOK, SelectRow, Becomes, At

LEMMA DroppedPost ==
    ASSUME TypeOK, NEW t \in Threads, NEW i, NEW done, NEW write, Dropped(t, i, done, write)
    PROVE  Becomes(t, After(t, i, done), tx[t].op, tx[t].owner, tx[t].kind, tx[t].size,
                         [tx[t].todo EXCEPT ![i] = Absent], Absent, tx[t].path, tx[t].key,
                         [tx[t].writes EXCEPT ![i] = write])
BY Fields DEF TypeOK, Dropped, Becomes, At

LEMMA StoreFilePost ==
    ASSUME TypeOK, NEW c \in Clients, StoreFile(c)
    PROVE  Becomes(c, "number", tx[c].op, tx[c].owner, tx[c].kind, tx[c].size, tx[c].todo, tx[c].base,
                         stored + 1, tx[c].key, tx[c].writes)
<1> c \in Threads
  BY DEF Threads
<1> QED
  BY Fields DEF TypeOK, StoreFile, Becomes, At

NextKey(c) == Max({i \in Id : View(c, i) # Absent} \cup {NoId}) + 1
LEMMA NumberRowPost ==
    ASSUME TypeOK, NEW c \in Clients, NumberRow(c)
    PROVE  Becomes(c, "insert", tx[c].op, tx[c].owner, tx[c].kind, tx[c].size, tx[c].todo, tx[c].base,
                         tx[c].path, NextKey(c), tx[c].writes)
<1> c \in Threads
  BY DEF Threads
<1> QED
  BY Fields DEF TypeOK, NumberRow, Becomes, At, NextKey

LEMMA InsertRowPost ==
    ASSUME TypeOK, NEW c \in Clients, InsertRow(c)
    PROVE  \/ rows[tx[c].key] # Absent /\ Ends(c)
           \/ /\ rows[tx[c].key] = Absent
              /\ Becomes(c, "commit", tx[c].op, tx[c].owner, tx[c].kind, tx[c].size, tx[c].todo, tx[c].base,
                               tx[c].path, tx[c].key,
                               [tx[c].writes EXCEPT ![tx[c].key] = NewRow(c)])
<1> c \in Threads
  BY DEF Threads
<1> DEFINE k == tx[c].key
<1>1. CASE rows[k] # Absent
  BY <1>1, Fields DEF TypeOK, InsertRow, Rollback, Ends
<1>2. CASE rows[k] = Absent
  <2>1. tx' = [tx EXCEPT ![c] = [@ EXCEPT !.pc = "commit", !.writes[k] = NewRow(c)]]
    BY <1>2 DEF InsertRow, NewRow
  <2>2. Becomes(c, "commit", tx[c].op, tx[c].owner, tx[c].kind, tx[c].size, tx[c].todo, tx[c].base,
                tx[c].path, tx[c].key, [tx[c].writes EXCEPT ![k] = NewRow(c)])
    BY <2>1, Fields DEF TypeOK, Becomes
  <2> QED
    BY <1>2, <2>2
<1> QED
  BY <1>1, <1>2

LEMMA CheckReplacementPost ==
    ASSUME TypeOK, NEW c \in Clients, CheckReplacement(c)
    PROVE  \/ /\ Fits(Staying(tx[c].owner, Current(c), tx[c].kind), tx[c].kind, tx[c].size)
              /\ At(c, "drop")
           \/ Ends(c)
<1> c \in Threads
  BY DEF Threads
<1>1. CASE Fits(Staying(tx[c].owner, Current(c), tx[c].kind), tx[c].kind, tx[c].size)
  <2>1. tx' = [tx EXCEPT ![c].pc = "drop"]
    BY <1>1 DEF CheckReplacement
  <2>2. At(c, "drop")
    BY <2>1, Fields DEF TypeOK, At, Becomes
  <2> QED
    BY <1>1, <2>2
<1>2. CASE ~ Fits(Staying(tx[c].owner, Current(c), tx[c].kind), tx[c].kind, tx[c].size)
  BY <1>2 DEF CheckReplacement, Rollback, Ends, TypeOK
<1> QED
  BY <1>1, <1>2

\* what _replace_active_pair and replace_file hand to update()
Dto(c) == [tx[c].todo[Current(c)] EXCEPT !.active = FALSE]

\* the row is what an earlier transaction left, an inserted copy, or an updated row
Deactivates(c, w) ==
    \/ /\ tx[c].base = Dto(c) /\ w = tx[c].writes[Current(c)]
       /\ mixed' = mixed
    \/ /\ ~ Held(c, Current(c)) /\ tx[c].base # Dto(c)
       /\ tx[c].base = Absent /\ View(c, Current(c)) = Absent /\ w = Dto(c)
       /\ mixed' = mixed
    \/ /\ ~ Held(c, Current(c)) /\ tx[c].base # Dto(c)
       /\ tx[c].base # Absent /\ View(c, Current(c)) # Absent
       /\ w = Merge(Dto(c), tx[c].base, View(c, Current(c)))
       /\ mixed' = (mixed \/ Mixes(Dto(c), tx[c].base, View(c, Current(c))))

Drops(t, done, w) ==
    Becomes(t, After(t, Current(t), done), tx[t].op, tx[t].owner, tx[t].kind, tx[t].size,
            [tx[t].todo EXCEPT ![Current(t)] = Absent], Absent, tx[t].path, tx[t].key,
            [tx[t].writes EXCEPT ![Current(t)] = w])

LEMMA DeactivateRowPost ==
    ASSUME TypeOK, NEW c \in Clients, DeactivateRow(c)
    PROVE  \/ Ends(c) /\ mixed' = mixed
           \/ \E w : Deactivates(c, w) /\ Drops(c, "store", w)
<1> c \in Threads
  BY DEF Threads
<1> DEFINE i == Current(c)  base == tx[c].base  current == View(c, i)
<1>1. CASE /\ base = Dto(c)
           /\ Dropped(c, i, "store", tx[c].writes[i])
           /\ mixed' = mixed
  BY <1>1, DroppedPost DEF Deactivates, Drops
<1>2. CASE /\ base # Dto(c) /\ ~ Held(c, i) /\ (base = Absent) = (current = Absent)
           /\ Dropped(c, i, "store",
                IF base = Absent THEN Dto(c) ELSE Merge(Dto(c), base, current))
           /\ mixed' = (mixed \/ Mixes(Dto(c), base, current))
  <2>1. CASE base = Absent
    <3>1. mixed' = mixed
      BY <1>2, <2>1 DEF Mixes, TypeOK
    <3> QED
      BY <1>2, <2>1, <3>1, DroppedPost DEF Deactivates, Drops
  <2>2. CASE base # Absent
    BY <1>2, <2>2, DroppedPost DEF Deactivates, Drops
  <2> QED
    BY <2>1, <2>2
<1>3. CASE Rollback(c) /\ mixed' = mixed
  BY <1>3 DEF Rollback, Ends, TypeOK
<1> QED
  BY <1>1, <1>2, <1>3 DEF DeactivateRow, Dto

Deletes(t, w) ==
    \/ /\ tx[t].base # Absent /\ View(t, Current(t)) # Absent /\ ~ Held(t, Current(t))
       /\ w = Absent
    \/ (tx[t].base = Absent \/ View(t, Current(t)) = Absent) /\ w = tx[t].writes[Current(t)]

LEMMA DeleteRowPost ==
    ASSUME TypeOK, NEW t \in Threads, DeleteRow(t)
    PROVE  \E w : Deletes(t, w) /\ Drops(t, "commit", w)
<1> DEFINE w == IF tx[t].base # Absent /\ View(t, Current(t)) # Absent THEN Absent
                ELSE tx[t].writes[Current(t)]
<1>1. Dropped(t, Current(t), "commit", w)
  BY DEF DeleteRow
<1>2. Deletes(t, w)
  BY DEF DeleteRow, Deletes
<1> HIDE DEF w
<1> QED
  BY <1>1, <1>2, DroppedPost DEF Drops

LEMMA CommitPost ==
    ASSUME TypeOK, NEW t \in Threads, Commit(t)
    PROVE  Ends(t) /\ rows' = [i \in Id |-> View(t, i)]
BY DEF Commit, Ends, TypeOK

LEMMA FailPost ==
    ASSUME TypeOK, NEW t \in Threads, Fail(t)
    PROVE  Ends(t)
BY DEF Fail, Rollback, Ends, TypeOK

-----------------------------------------------------------------------------
(* Facts about the operators. *)

\* list() yields rows in the order of their keys: the first of them is one of them.
LEMMA CurrentIsFirst ==
    ASSUME NEW t \in Threads, Todo(t) # {}
    PROVE  Current(t) \in Todo(t) /\ Current(t) \in Id /\ \A i \in Todo(t) : Current(t) <= i
<1>1. Todo(t) \in SUBSET Nat
  BY TempFilesAssumption DEF Todo, Id
<1>2. Min(Todo(t)) \in Todo(t) /\ \A i \in Todo(t) : Min(Todo(t)) <= i
  BY <1>1, MinOfNaturals
<1> QED
  BY <1>2 DEF Current, Todo

\* A row is neither missing nor unwritten.
LEMMA RowsAreRows ==
    /\ \A r \in Row : r # Absent /\ r # Keep
    /\ Absent # Keep
    /\ \A r \in RowOrAbsent : r = Absent \/ r \in Row
    /\ \A r \in Row : /\ r.path \in Id /\ r.owner \in Owners /\ r.kind \in Kinds /\ r.size \in Sizes
                      /\ r.active \in BOOLEAN
BY TempFilesAssumption DEF RowOrAbsent, Row

\* A transaction sees rows.
LEMMA ViewTypes ==
    ASSUME TypeOK, NEW t \in Threads, NEW i \in Id
    PROVE  View(t, i) \in RowOrAbsent
BY Fields, RowsAreRows DEF View, TypeOK

\* update() writes a row: each column comes from a row.
LEMMA MergeTypes ==
    ASSUME NEW dto \in Row, NEW base \in Row, NEW current \in Row
    PROVE  /\ Merge(dto, base, current) \in Row
           /\ Merge(dto, base, current).path \in {dto.path, current.path}
           /\ Merge(dto, base, current).active
                = IF dto.active # base.active THEN dto.active ELSE current.active
           /\ Merge(dto, base, current).path
                = IF dto.path # base.path THEN dto.path ELSE current.path
BY DEF Merge, Row

\* The copy of a row that update() is given.
LEMMA DtoTypes ==
    ASSUME TypeOK, NEW c \in Threads, Todo(c) # {}
    PROVE  /\ Dto(c) \in Row /\ ~ Dto(c).active /\ Dto(c).path = tx[c].todo[Current(c)].path
           /\ Dto(c).owner = tx[c].todo[Current(c)].owner
           /\ Dto(c).kind = tx[c].todo[Current(c)].kind /\ Dto(c).size = tx[c].todo[Current(c)].size
           /\ tx[c].todo[Current(c)] \in Row
<1>1. Current(c) \in Id /\ tx[c].todo[Current(c)] # Absent
  BY CurrentIsFirst DEF Todo
<1>2. tx[c].todo[Current(c)] \in Row
  BY <1>1, Fields, RowsAreRows
<1> HIDE DEF Current
<1> QED
  BY <1>2 DEF Dto, Row

-----------------------------------------------------------------------------
(* Types. *)

\* list() on a table of the right type yields rows of the right type.
LEMMA TableTypes ==
    ASSUME TypeOK
    PROVE  /\ rows \in [Id -> RowOrAbsent]
           /\ NoRows \in [Id -> RowOrAbsent] /\ NoWrites \in [Id -> RowOrAbsent \cup {Keep}]
           /\ Expired \in [Id -> RowOrAbsent]
           /\ \A c \in Clients : SlotRows(c) \in [Id -> RowOrAbsent]
           /\ \A i \in Id : rows[i] = Absent \/ rows[i] \in Row
BY DEF TypeOK, NoRows, NoWrites, Expired, SlotRows, RowOrAbsent

LEMMA IdleTyped == Idle \in Transaction
BY DEF Idle, Transaction, RowOrAbsent, NoRows, NoId

\* A transaction that takes a step of its own is a transaction again.
LEMMA StepTyped ==
    ASSUME TypeOK, NEW t \in Threads, NEW x \in Transaction, tx' = [tx EXCEPT ![t] = x]
    PROVE  tx' \in [Threads -> Transaction]
BY DEF TypeOK

LEMMA EndTyped ==
    ASSUME TypeOK, NEW t \in Threads, Rollback(t)
    PROVE  tx' \in [Threads -> Transaction]
BY IdleTyped DEF Rollback, TypeOK

LEMMA DroppedTyped ==
    ASSUME TypeOK, NEW t \in Threads, NEW i \in Id, NEW done \in {"store", "commit"},
           NEW w \in RowOrAbsent \cup {Keep}, Dropped(t, i, done, w)
    PROVE  tx' \in [Threads -> Transaction]
<1>1. /\ [tx[t].todo EXCEPT ![i] = Absent] \in [Id -> RowOrAbsent]
      /\ [tx[t].writes EXCEPT ![i] = w] \in [Id -> RowOrAbsent \cup {Keep}]
      /\ Absent \in RowOrAbsent
      /\ After(t, i, done) \in {"drop", "store", "commit"}
  BY Fields DEF RowOrAbsent, After
<1>2. tx[t] \in Transaction
  BY DEF TypeOK
<1>3. [tx[t] EXCEPT !.pc = After(t, i, done), !.todo[i] = Absent, !.base = Absent,
                    !.writes[i] = w] \in Transaction
  BY <1>1, <1>2 DEF Transaction
<1> QED
  BY <1>3, StepTyped DEF Dropped

\* Every step keeps the type of its transaction.
LEMMA BeginUploadTyped ==
    ASSUME TypeOK, NEW c \in Clients, NEW o \in Owners, NEW kind \in Kinds, NEW size \in Sizes,
           BeginUpload(c, o, kind, size)
    PROVE  tx' \in [Threads -> Transaction]
<1> DEFINE x == [Idle EXCEPT !.op = "upload", !.owner = o, !.kind = kind, !.size = size,
                             !.pc = IF Slot(kind) = {} THEN "store" ELSE "list"]
<1>1. x \in Transaction
  BY IdleTyped DEF Transaction
<1>2. tx' = [tx EXCEPT ![c] = x] /\ c \in Threads
  BY DEF BeginUpload, Threads
<1> HIDE DEF x
<1> QED
  BY <1>1, <1>2, StepTyped

LEMMA BeginReplaceTyped ==
    ASSUME TypeOK, NEW c \in Clients, NEW id \in Id, NEW kind \in Kinds, NEW size \in Sizes,
           BeginReplace(c, id, kind, size)
    PROVE  tx' \in [Threads -> Transaction]
<1> DEFINE x == [Idle EXCEPT !.op = "replace", !.owner = rows[id].owner, !.kind = kind,
                             !.size = size, !.pc = "check", !.todo = [NoRows EXCEPT ![id] = rows[id]]]
<1>1. [NoRows EXCEPT ![id] = rows[id]] \in [Id -> RowOrAbsent]
  BY TableTypes DEF TypeOK
<1>2. x \in Transaction
  <2>1. rows[id].owner \in Owners
    BY RowsAreRows DEF BeginReplace, TypeOK
  <2> QED
    BY <1>1, <2>1, IdleTyped DEF Transaction
<1>3. tx' = [tx EXCEPT ![c] = x] /\ c \in Threads
  BY DEF BeginReplace, Threads
<1> HIDE DEF x
<1> QED
  BY <1>2, <1>3, StepTyped

LEMMA BeginDeleteTyped ==
    ASSUME TypeOK, NEW c \in Clients, NEW id \in Id, BeginDelete(c, id)
    PROVE  tx' \in [Threads -> Transaction]
<1> DEFINE x == [Idle EXCEPT !.op = "delete", !.pc = "drop",
                             !.todo = [NoRows EXCEPT ![id] = rows[id]]]
<1>1. [NoRows EXCEPT ![id] = rows[id]] \in [Id -> RowOrAbsent]
  BY TableTypes DEF TypeOK
<1>2. x \in Transaction
  BY <1>1, IdleTyped DEF Transaction
<1>3. tx' = [tx EXCEPT ![c] = x] /\ c \in Threads
  BY DEF BeginDelete, Threads
<1> HIDE DEF x
<1> QED
  BY <1>2, <1>3, StepTyped

LEMMA BeginPurgeTyped ==
    ASSUME TypeOK, BeginPurge
    PROVE  tx' \in [Threads -> Transaction]
<1> DEFINE x == [Idle EXCEPT !.pc = "drop", !.todo = Expired]
<1>1. x \in Transaction
  BY TableTypes, IdleTyped DEF Transaction
<1>2. tx' = [tx EXCEPT ![Purger] = x] /\ Purger \in Threads
  BY DEF BeginPurge, Threads, Expired
<1> HIDE DEF x
<1> QED
  BY <1>1, <1>2, StepTyped

LEMMA ListSlotTyped ==
    ASSUME TypeOK, NEW c \in Clients, ListSlot(c)
    PROVE  tx' \in [Threads -> Transaction]
<1> DEFINE x == [tx[c] EXCEPT !.pc = IF SlotIds(c) = {} THEN "store" ELSE "drop",
                              !.todo = SlotRows(c)]
<1>1. tx[c] \in Transaction /\ c \in Threads
  BY DEF TypeOK, Threads
<1>2. x \in Transaction
  BY <1>1, TableTypes DEF Transaction
<1>3. tx' = [tx EXCEPT ![c] = x]
  BY DEF ListSlot, SlotIds, SlotRows
<1> HIDE DEF x
<1> QED
  BY <1>1, <1>2, <1>3, StepTyped

\* a step that only moves to another program counter
LEMMA MoveTyped ==
    ASSUME TypeOK, NEW t \in Threads, NEW pc \in {"drop", "select"}, tx' = [tx EXCEPT ![t].pc = pc]
    PROVE  tx' \in [Threads -> Transaction]
<1>1. [tx[t] EXCEPT !.pc = pc] \in Transaction
  BY ZenonT(60) DEF TypeOK, Transaction
<1> QED
  BY <1>1, StepTyped

LEMMA CheckReplacementTyped ==
    ASSUME TypeOK, NEW c \in Clients, CheckReplacement(c)
    PROVE  tx' \in [Threads -> Transaction]
BY MoveTyped, EndTyped DEF CheckReplacement, Threads

LEMMA DropFileTyped ==
    ASSUME TypeOK, NEW t \in Threads, DropFile(t)
    PROVE  tx' \in [Threads -> Transaction]
BY MoveTyped DEF DropFile

LEMMA SelectRowTyped ==
    ASSUME TypeOK, NEW t \in Threads, Todo(t) # {}, SelectRow(t)
    PROVE  tx' \in [Threads -> Transaction]
<1> DEFINE v == View(t, Current(t))
<1>1. v \in RowOrAbsent
  BY CurrentIsFirst, ViewTypes
<1>2. tx' = [tx EXCEPT ![t] = [tx[t] EXCEPT !.pc = "write", !.base = v]]
  BY DEF SelectRow
<1> HIDE DEF v
<1>4. tx[t] \in Transaction
  BY DEF TypeOK
<1>3. [tx[t] EXCEPT !.pc = "write", !.base = v] \in Transaction
  BY <1>1, <1>4 DEF Transaction
<1> QED
  BY <1>2, <1>3, StepTyped

LEMMA DeactivateRowTyped ==
    ASSUME TypeOK, NEW c \in Clients, Todo(c) # {}, DeactivateRow(c)
    PROVE  tx' \in [Threads -> Transaction]
<1>0. c \in Threads
  BY DEF Threads
<1> DEFINE i == Current(c)  base == tx[c].base  current == View(c, i)
           w == IF base = Absent THEN Dto(c) ELSE Merge(Dto(c), base, current)
<1>1. i \in Id /\ Dto(c) \in Row /\ current \in RowOrAbsent /\ base \in RowOrAbsent
      /\ tx[c].writes[i] \in RowOrAbsent \cup {Keep}
  BY <1>0, CurrentIsFirst, DtoTypes, ViewTypes, Fields
<1>2. CASE Dropped(c, i, "store", tx[c].writes[i])
  BY <1>0, <1>1, <1>2, DroppedTyped
<1>3. CASE (base = Absent) = (current = Absent) /\ Dropped(c, i, "store", w)
  <2>1. w \in RowOrAbsent
    <3>1. base # Absent => base \in Row /\ current \in Row
      BY <1>1, <1>3, RowsAreRows
    <3> QED
      BY <1>1, <3>1, MergeTypes DEF RowOrAbsent
  <2> HIDE DEF w
  <2> QED
    BY <1>0, <1>1, <1>3, <2>1, DroppedTyped
<1>4. CASE Rollback(c)
  BY <1>0, <1>4, EndTyped
<1> QED
  BY <1>2, <1>3, <1>4 DEF DeactivateRow, Dto

LEMMA DeleteRowTyped ==
    ASSUME TypeOK, NEW t \in Threads, Todo(t) # {}, DeleteRow(t)
    PROVE  tx' \in [Threads -> Transaction]
<1> DEFINE i == Current(t)
           w == IF tx[t].base # Absent /\ View(t, i) # Absent THEN Absent ELSE tx[t].writes[i]
<1>1. i \in Id /\ w \in RowOrAbsent \cup {Keep}
  BY CurrentIsFirst, Fields DEF RowOrAbsent
<1>2. Dropped(t, i, "commit", w)
  BY DEF DeleteRow
<1> HIDE DEF w
<1> QED
  BY <1>1, <1>2, DroppedTyped

LEMMA StoreFileTyped ==
    ASSUME TypeOK, NEW c \in Clients, stored + 1 <= MaxFiles, StoreFile(c)
    PROVE  tx' \in [Threads -> Transaction]
<1>1. stored + 1 \in Id
  BY TempFilesAssumption DEF TypeOK, Id
<1>2. tx' = [tx EXCEPT ![c] = [tx[c] EXCEPT !.pc = "number", !.path = stored + 1]] /\ c \in Threads
  BY DEF StoreFile, Threads
<1>3. [tx[c] EXCEPT !.pc = "number", !.path = stored + 1] \in Transaction
  <2>1. tx[c] \in Transaction
    BY <1>2 DEF TypeOK
  <2> QED
    BY <1>1, <2>1 DEF Transaction
<1> QED
  BY <1>2, <1>3, StepTyped

LEMMA NumberRowTyped ==
    ASSUME TypeOK, NEW c \in Clients, NextKey(c) \in Id, NumberRow(c)
    PROVE  tx' \in [Threads -> Transaction]
<1>1. tx' = [tx EXCEPT ![c] = [tx[c] EXCEPT !.pc = "insert", !.key = NextKey(c)]] /\ c \in Threads
  BY DEF NumberRow, Threads, NextKey
<1>2. [tx[c] EXCEPT !.pc = "insert", !.key = NextKey(c)] \in Transaction
  <2>1. tx[c] \in Transaction
    BY <1>1 DEF TypeOK
  <2> HIDE DEF NextKey
  <2> QED
    BY <2>1 DEF Transaction
<1> QED
  BY <1>1, <1>2, StepTyped

LEMMA InsertRowTyped ==
    ASSUME TypeOK, NEW c \in Clients, ShapeOK(c), InsertRow(c)
    PROVE  tx' \in [Threads -> Transaction]
<1>0. c \in Threads
  BY DEF Threads
<1> DEFINE k == tx[c].key
<1>1. CASE rows[k] # Absent
  BY <1>0, <1>1, EndTyped DEF InsertRow
<1>2. CASE rows[k] = Absent
  <2>1. NewRow(c) \in Row /\ k \in Id
    BY <1>0, Fields DEF ShapeOK, InsertRow, NewRow, Row
  <2>2. [tx[c].writes EXCEPT ![k] = NewRow(c)] \in [Id -> RowOrAbsent \cup {Keep}]
    BY <1>0, <2>1, Fields DEF RowOrAbsent
  <2>3. tx' = [tx EXCEPT ![c] = [tx[c] EXCEPT !.pc = "commit", !.writes[k] = NewRow(c)]]
    BY <1>2 DEF InsertRow, NewRow
  <2>4. [tx[c] EXCEPT !.pc = "commit", !.writes[k] = NewRow(c)] \in Transaction
    <3>1. tx[c] \in Transaction
      BY <1>0 DEF TypeOK
    <3> QED
      BY <2>2, <3>1 DEF Transaction
  <2> QED
    BY <1>0, <2>3, <2>4, StepTyped
<1> QED
  BY <1>1, <1>2

-----------------------------------------------------------------------------
(* Counting clients. *)

\* Sets of clients are finite, and lose or win one member at a time.
LEMMA ClientSets ==
    ASSUME NEW S \in SUBSET Clients
    PROVE  /\ IsFiniteSet(S) /\ Cardinality(S) \in Nat /\ Cardinality(S) <= Cardinality(Clients)
           /\ \A c \in S : Cardinality(S \ {c}) = Cardinality(S) - 1 /\ Cardinality(S) >= 1
           /\ \A c \in Clients \ S : Cardinality(S \cup {c}) = Cardinality(S) + 1
           /\ Cardinality(Clients) \in Nat /\ Cardinality(Clients) >= 1
<1>1. IsFiniteSet(S) /\ Cardinality(S) <= Cardinality(Clients)
  BY TempFilesAssumption, FS_Subset
<1>2. Cardinality(S) \in Nat /\ Cardinality(Clients) \in Nat
  BY <1>1, TempFilesAssumption, FS_CardinalityType
<1>3. ASSUME NEW c \in S PROVE Cardinality(S \ {c}) = Cardinality(S) - 1 /\ Cardinality(S) >= 1
  <2>1. Cardinality(S \ {c}) = Cardinality(S) - 1 /\ IsFiniteSet(S \ {c})
    BY <1>1, FS_RemoveElement
  <2>2. Cardinality(S \ {c}) \in Nat
    BY <2>1, FS_CardinalityType
  <2> QED
    BY <1>2, <2>1, <2>2
<1>4. ASSUME NEW c \in Clients \ S PROVE Cardinality(S \cup {c}) = Cardinality(S) + 1
  BY <1>1, FS_AddElement
<1>5. Cardinality(Clients) >= 1
  <2>1. Cardinality(Clients) # 0
    BY TempFilesAssumption, FS_EmptySet
  <2> QED
    BY <1>2, <2>1
<1> QED
  BY <1>1, <1>2, <1>3, <1>4, <1>5

\* Fewer clients are not more.
LEMMA ClientSubset ==
    ASSUME NEW S \in SUBSET Clients, NEW T \in SUBSET S
    PROVE  Cardinality(T) <= Cardinality(S)
BY ClientSets, FS_Subset

OthersSame(t) == \A u \in Threads \ {t} : tx'[u] = tx[u]

\* A step that puts no file on its way to the table leaves the settled keys settled.
LEMMA SettledGrows ==
    ASSUME TypeOK, NEW t \in Threads, OthersSame(t), stored' = stored,
           tx'[t].pc \in {"number", "insert"} => t \in InFlight
    PROVE  Settled' \in Int /\ Settled \in Int /\ Settled <= Settled'
<1>1. InFlight' \subseteq InFlight
  BY DEF InFlight, OthersSame, Threads
<1>2. InFlight \in SUBSET Clients
  BY DEF InFlight
<1>3. /\ Cardinality(InFlight) \in Nat
      /\ Cardinality(InFlight') \in Nat
      /\ Cardinality(InFlight') <= Cardinality(InFlight)
  BY <1>1, <1>2, ClientSets, ClientSubset
<1> QED
  BY <1>3 DEF Settled, TypeOK

\* A step that begins no upload leaves room for those that have begun.
LEMMA RoomKept ==
    ASSUME TypeOK, RoomOK, NEW t \in Threads, OthersSame(t), stored' = stored,
           tx'[t].op \in Uploads /\ tx'[t].path = 0 => t \in Unstored
    PROVE  RoomOK'
<1>1. Unstored' \subseteq Unstored
  BY DEF Unstored, OthersSame, Threads
<1>2. Unstored \in SUBSET Clients
  BY DEF Unstored
<1>3. /\ Cardinality(Unstored) \in Nat
      /\ Cardinality(Unstored') \in Nat
      /\ Cardinality(Unstored') <= Cardinality(Unstored)
  BY <1>1, <1>2, ClientSets, ClientSubset
<1> QED
  BY <1>3, TempFilesAssumption DEF RoomOK, TypeOK

-----------------------------------------------------------------------------
(* One step of one transaction, on unchanged tables. *)

\* What is known of a transaction by itself does not change with others' steps.
LEMMA OthersLocal ==
    ASSUME NEW t \in Threads, OthersSame(t), NEW u \in Threads \ {t}, ShapeOK(u), WritesOK(u)
    PROVE  ShapeOK(u)' /\ WritesOK(u)'
BY DEF OthersSame, ShapeOK, WritesOK, Dropping, Todo, Locked

\* A transaction that has ended holds nothing.
LEMMA IdleLocal ==
    ASSUME NEW t \in Threads, tx'[t] = Idle
    PROVE  /\ ShapeOK(t)' /\ WritesOK(t)' /\ NewRowOK(t)'
           /\ \A i \in Id : /\ tx'[t].todo[i] = Absent /\ tx'[t].writes[i] = Keep
                            /\ ~ Locked(t, i)'
<1>1. /\ tx'[t].pc = "idle" /\ tx'[t].op = "purge" /\ tx'[t].path = 0
      /\ tx'[t].todo = NoRows /\ tx'[t].writes = NoWrites
  BY IdleIs
<1>2. \A i \in Id : tx'[t].todo[i] = Absent /\ tx'[t].writes[i] = Keep
  BY <1>1 DEF NoRows, NoWrites
<1>3. Todo(t)' = {}
  BY <1>2 DEF Todo
<1>4. ShapeOK(t)'
  BY <1>1, <1>3 DEF ShapeOK, Dropping, Uploads
<1>5. WritesOK(t)' /\ NewRowOK(t)' /\ \A i \in Id : ~ Locked(t, i)'
  BY <1>1, <1>2 DEF WritesOK, NewRowOK, Locked, Uploads
<1> QED
  BY <1>2, <1>4, <1>5

\* To show Core for a step of one transaction on unchanged rows is to show it for
\* that transaction, and to count the clients.
LEMMA CoreStep ==
    ASSUME Core, NEW t \in Threads, OthersSame(t), tx' \in [Threads -> Transaction],
           rows' = rows, expired' = expired, mixed' \in BOOLEAN, faults' \in 0..MaxFaults,
           stored' \in stored..MaxFiles, disk' \subseteq 1..stored',
           ShapeOK(t)', WritesOK(t)', NewRowOK(t)', RoomOK',
           Settled' \in Int, Settled <= Settled',
           \A i \in Id : /\ tx'[t].todo[i] # Absent => i <= Settled'
                         /\ IsRow(tx'[t].writes[i]) => i <= Settled'
                         /\ Locked(t, i)' => Locked(t, i) \/ ~ Held(t, i),
           t \in Clients /\ tx'[t].pc = "insert" => tx'[t].key <= Settled' + 1
    PROVE  Core'
<1>1. TypeOK'
  BY DEF Core, TypeOK
<1>2. \A u \in Threads : ShapeOK(u)' /\ WritesOK(u)'
  BY OthersLocal DEF Core
<1>3. ASSUME NEW c \in Clients PROVE NewRowOK(c)'
  <2>1. c \in Threads
    BY DEF Threads
  <2>2. CASE c = t
    BY <2>2
  <2>3. CASE c # t
    BY <2>1, <2>3 DEF Core, NewRowOK, NewRow, OthersSame
  <2> QED
    BY <2>2, <2>3
<1>4. Exclusive'
  <2>1. SUFFICES ASSUME NEW a \in Threads, NEW b \in Threads, NEW i \in Id,
                        Locked(a, i)', Locked(b, i)', a # b
                 PROVE  FALSE
    BY DEF Exclusive
  <2>2. \A u \in Threads \ {t} : Locked(u, i)' = Locked(u, i)
    BY DEF OthersSame, Locked
  <2>3. \A u \in Threads \ {t} : Locked(u, i)' => Held(t, i) /\ ~ Locked(t, i)
    BY <2>2 DEF Held, Locked, Core, Exclusive
  <2> QED
    BY <2>1, <2>2, <2>3 DEF Core, Exclusive
<1>5. KeysOK'
  <2>1. \A i \in Id : i \in Nat
    BY TempFilesAssumption DEF Id
  <2>2. Settled \in Int
    BY ClientSets DEF Settled, InFlight, Core, TypeOK
  <2>3. ASSUME NEW c \in Clients PROVE c \in Threads /\ tx[c].key \in Nat
    <3>1. c \in Threads
      BY DEF Threads
    <3>2. tx[c].key \in Id \cup {NoId}
      BY <3>1, Fields DEF Core
    <3> QED
      BY <2>1, <3>1, <3>2 DEF NoId
  <2>4. \A i \in Id : rows'[i] # Absent => i <= Settled'
    BY <2>1, <2>2 DEF Core, KeysOK
  <2>5. ASSUME NEW u \in Threads, NEW i \in Id
        PROVE  /\ tx'[u].todo[i] # Absent => i <= Settled'
               /\ IsRow(tx'[u].writes[i]) => i <= Settled'
    BY <2>1, <2>2 DEF Core, KeysOK, OthersSame
  <2>6. ASSUME NEW c \in Clients, tx'[c].pc = "insert" PROVE tx'[c].key <= Settled' + 1
    <3>1. CASE c = t
      BY <2>6, <3>1
    <3>2. CASE c # t
      BY <2>2, <2>3, <2>6, <3>2 DEF Core, KeysOK, OthersSame
    <3> QED
      BY <3>1, <3>2
  <2>7. Settled' >= 0
    BY <2>2 DEF Core, KeysOK
  <2> QED
    BY <2>4, <2>5, <2>6, <2>7 DEF KeysOK
<1> QED
  BY <1>1, <1>2, <1>3, <1>4, <1>5 DEF Core

-----------------------------------------------------------------------------
(* The steps, one by one, keep Core. *)

\* What Core says of one transaction.
LEMMA CoreOf ==
    ASSUME Core, NEW t \in Threads
    PROVE  /\ TypeOK /\ ShapeOK(t) /\ WritesOK(t) /\ RoomOK
           /\ t \in Clients => NewRowOK(t)
           /\ t # Purger => t \in Clients
           /\ stored \in Nat /\ stored <= MaxFiles /\ MaxFiles \in Nat
           /\ Settled \in Int /\ 0 <= Settled /\ Settled <= stored
           /\ t \in InFlight => Settled + 1 <= stored
           /\ \A i \in Id : i \in Nat /\ i >= 1
           /\ \A i \in Id : /\ rows[i] # Absent => i <= Settled
                            /\ tx[t].todo[i] # Absent => i <= Settled
                            /\ IsRow(tx[t].writes[i]) => i <= Settled
<1>1. Cardinality(InFlight) \in Nat /\ (t \in InFlight => Cardinality(InFlight) >= 1)
  BY ClientSets DEF InFlight
<1>2. stored \in 0..MaxFiles /\ MaxFiles \in Nat
  BY TempFilesAssumption DEF Core, TypeOK
<1>3. \A i \in Id : i \in Nat /\ i >= 1
  BY <1>2 DEF Id
<1> QED
  BY <1>1, <1>2, <1>3 DEF Core, KeysOK, Settled, Threads

\* The files on disk are files that have been stored.
LEMMA DiskGrows ==
    ASSUME TypeOK, stored' = stored, disk' \subseteq disk
    PROVE  stored' \in stored..MaxFiles /\ disk' \subseteq 1..stored'
BY TempFilesAssumption DEF TypeOK

\* A transaction that ends without a commit.
LEMMA EndCore ==
    ASSUME Core, NEW t \in Threads, Ends(t), tx' \in [Threads -> Transaction], rows' = rows,
           disk' = disk, stored' = stored, expired' = expired, mixed' = mixed,
           faults' \in 0..MaxFaults
    PROVE  Core'
<1>1. OthersSame(t) /\ tx'[t] = Idle
  BY DEF Ends, OthersSame
<1>2. tx'[t].pc = "idle" /\ tx'[t].op = "purge"
  BY <1>1, IdleIs
<1>3. ShapeOK(t)' /\ WritesOK(t)' /\ NewRowOK(t)'
      /\ \A i \in Id : tx'[t].todo[i] = Absent /\ tx'[t].writes[i] = Keep /\ ~ Locked(t, i)'
  BY <1>1, IdleLocal
<1>4. TypeOK /\ RoomOK /\ mixed \in BOOLEAN
  BY DEF Core, TypeOK
<1>5. Settled' \in Int /\ Settled <= Settled'
  BY <1>1, <1>2, <1>4, SettledGrows
<1>6. RoomOK'
  BY <1>1, <1>2, <1>4, RoomKept DEF Uploads
<1>7. stored' \in stored..MaxFiles /\ disk' \subseteq 1..stored'
  BY <1>4, DiskGrows
<1> QED
  BY <1>1, <1>2, <1>3, <1>4, <1>5, <1>6, <1>7, CoreStep DEF IsRow

\* A transaction that begins with rows to drop, or with none, as it read them.
LEMMA BeginCore ==
    ASSUME Core, NEW t \in Threads, tx[t].pc = "idle", NEW pc, NEW op, NEW owner, NEW kind,
           NEW size, NEW todo,
           Becomes(t, pc, op, owner, kind, size, todo, Absent, 0, NoId, NoWrites),
           tx' \in [Threads -> Transaction], dbFrame, RoomOK',
           todo \in [Id -> RowOrAbsent], \A i \in Id : todo[i] \in {rows[i], Absent},
           \/ t \in Clients /\ op = "upload" /\ owner \in Owners /\ kind \in Kinds /\ size \in Sizes
                /\ pc \in {"store", "list"} /\ \A i \in Id : todo[i] = Absent
           \/ /\ t \in Clients /\ op = "replace" /\ owner \in Owners /\ kind \in Kinds
              /\ size \in Sizes /\ pc = "check"
              /\ \E i \in Id : todo[i] # Absent
           \/ t \in Clients /\ op = "delete" /\ pc = "drop" /\ \E i \in Id : todo[i] # Absent
           \/ t = Purger /\ op = "purge" /\ pc = "drop" /\ \E i \in Id : todo[i] # Absent
    PROVE  Core'
<1>1. OthersSame(t)
  BY DEF Becomes, OthersSame
<1>2. /\ tx'[t].pc = pc /\ tx'[t].op = op /\ tx'[t].owner = owner
      /\ tx'[t].kind = kind /\ tx'[t].size = size
      /\ tx'[t].todo = todo /\ tx'[t].base = Absent /\ tx'[t].path = 0 /\ tx'[t].key = NoId
      /\ tx'[t].writes = NoWrites
  BY DEF Becomes
<1>3. \A i \in Id : tx'[t].writes[i] = Keep
  BY <1>2 DEF NoWrites
<1>4. Todo(t)' = {i \in Id : todo[i] # Absent}
  BY <1>2 DEF Todo
<1>5. t \in Clients => t # Purger
  BY TempFilesAssumption
<1>6. ShapeOK(t)'
  <2>1. Dropping(t)' <=> Todo(t)' # {}
    BY <1>2, <1>4 DEF Dropping
  <2> QED
    BY <1>2, <1>5, <2>1 DEF ShapeOK, Uploads
<1>7. WritesOK(t)' /\ NewRowOK(t)' /\ \A i \in Id : ~ Locked(t, i)'
  BY <1>2, <1>3 DEF WritesOK, NewRowOK, Locked
<1>8. /\ rows' = rows /\ disk' = disk /\ stored' = stored /\ expired' = expired
      /\ mixed' \in BOOLEAN /\ faults' \in 0..MaxFaults /\ TypeOK
  BY DEF dbFrame, Core, TypeOK
<1>9. Settled' \in Int /\ Settled <= Settled'
  BY <1>1, <1>2, <1>8, SettledGrows
<1>10. stored' \in stored..MaxFiles /\ disk' \subseteq 1..stored'
  BY <1>8, DiskGrows
<1>11. \A i \in Id : todo[i] # Absent => i <= Settled'
  BY <1>9, CoreOf
<1> QED
  BY <1>1, <1>2, <1>3, <1>6, <1>7, <1>8, <1>9, <1>10, <1>11, CoreStep DEF IsRow

\* delete_file takes the row it has found.
LEMMA BeginDeleteCore ==
    ASSUME Core, NEW c \in Clients, NEW id \in Id, BeginDelete(c, id)
    PROVE  Core'
<1>1. c \in Threads /\ TypeOK /\ RoomOK
  BY DEF Threads, Core
<1>2. Becomes(c, "drop", "delete", "none", "none", 0, [NoRows EXCEPT ![id] = rows[id]], Absent, 0, NoId,
              NoWrites)
  BY <1>1, BeginDeletePost
<1>3. tx' \in [Threads -> Transaction]
  BY <1>1, BeginDeleteTyped
<1>4. RoomOK'
  BY <1>1, <1>2, RoomKept DEF BeginDelete, dbFrame, Becomes, OthersSame, Uploads
<1>5. tx[c].pc = "idle" /\ dbFrame /\ rows[id] # Absent
  BY DEF BeginDelete
<1> DEFINE todo == [NoRows EXCEPT ![id] = rows[id]]
<1>6. /\ todo \in [Id -> RowOrAbsent] /\ \A i \in Id : todo[i] \in {rows[i], Absent}
      /\ todo[id] # Absent
  BY <1>1, <1>5, TableTypes DEF NoRows
<1> HIDE DEF todo
<1> QED
  BY <1>1, <1>2, <1>3, <1>4, <1>5, <1>6, BeginCore DEF todo

\* purge_temporary_files takes the expired rows as it has listed them.
LEMMA BeginPurgeCore ==
    ASSUME Core, BeginPurge
    PROVE  Core'
<1>1. Purger \in Threads /\ TypeOK /\ RoomOK
  BY DEF Threads, Core
<1>2. Becomes(Purger, "drop", "purge", "none", "none", 0, Expired, Absent, 0, NoId, NoWrites)
  BY <1>1, BeginPurgePost
<1>3. tx' \in [Threads -> Transaction]
  BY <1>1, BeginPurgeTyped
<1>4. RoomOK'
  BY <1>1, <1>2, RoomKept DEF BeginPurge, dbFrame, Becomes, OthersSame, Uploads
<1>5. tx[Purger].pc = "idle" /\ dbFrame
  BY DEF BeginPurge
<1>6. /\ Expired \in [Id -> RowOrAbsent] /\ \A i \in Id : Expired[i] \in {rows[i], Absent}
      /\ \E i \in Id : Expired[i] # Absent
  BY <1>1, TableTypes DEF Expired, BeginPurge
<1> QED
  BY <1>1, <1>2, <1>3, <1>4, <1>5, <1>6, BeginCore

\* An upload begins when there is room for one more.
LEMMA RoomTaken ==
    ASSUME Core, NEW c \in Clients, Room, OthersSame(c), stored' = stored
    PROVE  RoomOK'
<1>1. Unstored \in SUBSET Clients /\ Unstored' \in SUBSET Clients
  BY DEF Unstored
<1>2. Unstored' \subseteq Unstored \cup {c}
  BY DEF Unstored, OthersSame, Threads
<1>3. Cardinality(Unstored') <= Cardinality(Unstored) + 1
  <2>1. Unstored \cup {c} \in SUBSET Clients
    BY <1>1
  <2>2. Cardinality(Unstored') <= Cardinality(Unstored \cup {c})
    BY <1>2, <2>1, ClientSubset
  <2>3. Cardinality(Unstored \cup {c}) <= Cardinality(Unstored) + 1
    <3>1. CASE c \in Unstored
      <4>1. Unstored \cup {c} = Unstored
        BY <3>1
      <4>2. Cardinality(Unstored \cup {c}) = Cardinality(Unstored)
        BY <4>1
      <4>3. Cardinality(Unstored) \in Nat
        BY <1>1, ClientSets
      <4> QED
        BY <4>2, <4>3
    <3>2. CASE c \notin Unstored
      BY <1>1, <3>2, ClientSets
    <3> QED
      BY <3>1, <3>2
  <2>4. /\ Cardinality(Unstored') \in Nat /\ Cardinality(Unstored) \in Nat
        /\ Cardinality(Unstored \cup {c}) \in Nat
    BY <1>1, <2>1, ClientSets
  <2> QED
    BY <2>2, <2>3, <2>4
<1>4. Cardinality(Unstored') \in Nat /\ Cardinality(Unstored) \in Nat
  BY <1>1, ClientSets
<1>5. stored + Cardinality(Unstored) < MaxFiles
  BY DEF Room, Unstored, Uploads
<1> QED
  BY <1>3, <1>4, <1>5, TempFilesAssumption DEF RoomOK, Core, TypeOK

\* upload_file begins with nothing to drop.
LEMMA BeginUploadCore ==
    ASSUME Core, NEW c \in Clients, NEW o \in Owners, NEW kind \in Kinds, NEW size \in Sizes,
           BeginUpload(c, o, kind, size)
    PROVE  Core'
<1>1. c \in Threads /\ TypeOK
  BY DEF Threads, Core
<1> DEFINE pc == IF Slot(kind) = {} THEN "store" ELSE "list"
<1>2. Becomes(c, pc, "upload", o, kind, size, NoRows, Absent, 0, NoId, NoWrites)
  BY <1>1, BeginUploadPost
<1>3. tx' \in [Threads -> Transaction]
  BY <1>1, BeginUploadTyped
<1>4. RoomOK'
  BY <1>1, <1>2, RoomTaken DEF BeginUpload, dbFrame, Becomes, OthersSame
<1>5. tx[c].pc = "idle" /\ dbFrame
  BY DEF BeginUpload
<1>6. NoRows \in [Id -> RowOrAbsent] /\ \A i \in Id : NoRows[i] = Absent
  BY <1>1, TableTypes DEF NoRows
<1>7. pc \in {"store", "list"}
  OBVIOUS
<1> HIDE DEF pc
<1> QED
  BY <1>1, <1>2, <1>3, <1>4, <1>5, <1>6, <1>7, BeginCore

\* replace_file takes the row it has found, active or not.
LEMMA BeginReplaceCore ==
    ASSUME Core, NEW c \in Clients, NEW id \in Id, NEW kind \in Kinds, NEW size \in Sizes,
           BeginReplace(c, id, kind, size)
    PROVE  Core'
<1>1. c \in Threads /\ TypeOK
  BY DEF Threads, Core
<1> DEFINE todo == [NoRows EXCEPT ![id] = rows[id]]
<1>2. Becomes(c, "check", "replace", rows[id].owner, kind, size, todo, Absent, 0, NoId, NoWrites)
  BY <1>1, BeginReplacePost
<1>3. tx' \in [Threads -> Transaction]
  BY <1>1, BeginReplaceTyped
<1>4. RoomOK'
  BY <1>1, <1>2, RoomTaken DEF BeginReplace, dbFrame, Becomes, OthersSame
<1>5. tx[c].pc = "idle" /\ dbFrame /\ rows[id] # Absent
  BY DEF BeginReplace
<1>6. /\ todo \in [Id -> RowOrAbsent] /\ \A i \in Id : todo[i] \in {rows[i], Absent}
      /\ todo[id] # Absent
  BY <1>1, <1>5, TableTypes DEF NoRows
<1>7. rows[id].owner \in Owners
  BY <1>1, <1>5, RowsAreRows DEF TypeOK
<1> HIDE DEF todo
<1> QED
  BY <1>1, <1>2, <1>3, <1>4, <1>5, <1>6, <1>7, BeginCore

\* A transaction that goes on: what it is to do next is named by its new step.
GoesOn(t, pc, todo, base, writes) ==
    /\ Becomes(t, pc, tx[t].op, tx[t].owner, tx[t].kind, tx[t].size, todo, base, tx[t].path,
               tx[t].key, writes)
    /\ tx' \in [Threads -> Transaction] /\ rows' = rows /\ disk' \subseteq disk
    /\ stored' = stored /\ expired' = expired /\ mixed' \in BOOLEAN /\ faults' = faults
    /\ tx[t].pc \in {"list", "check", "drop", "select", "write"}
    /\ pc \in {"drop", "select", "write", "store", "commit"}
    /\ pc = "store" => tx[t].op \in Uploads
    /\ pc = "commit" => tx[t].op \notin Uploads
    /\ pc \in {"drop", "select", "write"} <=> \E i \in Id : todo[i] # Absent
    /\ \A i \in Id :
        /\ todo[i] \in {tx[t].todo[i], rows[i], Absent}
        /\ \/ writes[i] = tx[t].writes[i]
           \/ /\ i \in Todo(t) /\ ~ Held(t, i)
              /\ (writes[i] = Absent) = (tx[t].op \notin Uploads)
        /\ writes[i] # Keep => \A j \in Id : todo[j] # Absent => i < j

\* A request or the purge goes on with what it has.
LEMMA GoOnCore ==
    ASSUME Core, NEW t \in Threads, NEW pc, NEW todo, NEW base, NEW writes,
           GoesOn(t, pc, todo, base, writes)
    PROVE  Core'
<1>0. /\ tx' \in [Threads -> Transaction] /\ rows' = rows /\ disk' \subseteq disk
      /\ stored' = stored /\ expired' = expired /\ mixed' \in BOOLEAN /\ faults' = faults
      /\ tx[t].pc \in {"list", "check", "drop", "select", "write"}
      /\ pc \in {"drop", "select", "write", "store", "commit"}
      /\ pc = "store" => tx[t].op \in Uploads
      /\ pc = "commit" => tx[t].op \notin Uploads
      /\ pc \in {"drop", "select", "write"} <=> \E i \in Id : todo[i] # Absent
      /\ Becomes(t, pc, tx[t].op, tx[t].owner, tx[t].kind, tx[t].size, todo, base, tx[t].path, tx[t].key,
                 writes)
  BY DEF GoesOn
<1>00. \A i \in Id :
        /\ todo[i] \in {tx[t].todo[i], rows[i], Absent}
        /\ \/ writes[i] = tx[t].writes[i]
           \/ /\ i \in Todo(t) /\ ~ Held(t, i)
              /\ (writes[i] = Absent) = (tx[t].op \notin Uploads)
        /\ writes[i] # Keep => \A j \in Id : todo[j] # Absent => i < j
  BY DEF GoesOn
<1>1. OthersSame(t)
  BY <1>0 DEF Becomes, OthersSame
<1>2. /\ tx'[t].pc = pc /\ tx'[t].op = tx[t].op /\ tx'[t].owner = tx[t].owner
      /\ tx'[t].kind = tx[t].kind /\ tx'[t].size = tx[t].size /\ tx'[t].todo = todo /\ tx'[t].base = base
      /\ tx'[t].path = tx[t].path /\ tx'[t].key = tx[t].key /\ tx'[t].writes = writes
  BY <1>0 DEF Becomes
<1>3. /\ TypeOK /\ RoomOK /\ ShapeOK(t) /\ WritesOK(t) /\ faults \in 0..MaxFaults
  BY DEF Core, TypeOK
<1>4. Todo(t)' = {i \in Id : todo[i] # Absent}
  BY <1>0, <1>00, <1>2 DEF Todo
<1>5. tx[t].path = 0
  BY <1>0, <1>00, <1>3 DEF ShapeOK
<1>6. ShapeOK(t)'
  <2>1. Dropping(t)' <=> Todo(t)' # {}
    BY <1>0, <1>00, <1>2, <1>4 DEF Dropping
  <2>2. tx[t].op \in Uploads
          => tx[t].owner \in Owners /\ tx[t].kind \in Kinds /\ tx[t].size \in Sizes
    BY <1>0, <1>00, <1>3 DEF ShapeOK
  <2>3. (t = Purger => tx[t].op = "purge") /\ (t # Purger => tx[t].op # "purge")
    BY <1>0, <1>00, <1>3 DEF ShapeOK
  <2> QED
    BY <1>0, <1>00, <1>2, <1>5, <2>1, <2>2, <2>3 DEF ShapeOK, Uploads
<1>7. WritesOK(t)'
  <2>1. ASSUME NEW i \in Id, Locked(t, i)'
        PROVE  /\ tx'[t].pc \notin {"list", "check"}
               /\ \A j \in Todo(t)' : i < j
               /\ (tx'[t].writes[i] = Absent) = (tx'[t].op \notin Uploads)
    <3>1. writes[i] # Keep
      BY <1>0, <1>00, <1>2, <2>1 DEF Locked
    <3>2. tx'[t].pc \notin {"list", "check"} /\ \A j \in Todo(t)' : i < j
      BY <1>0, <1>00, <1>2, <1>4, <3>1
    <3>3. CASE writes[i] = tx[t].writes[i]
      BY <1>0, <1>00, <1>2, <1>3, <3>1, <3>2, <3>3 DEF WritesOK, Locked
    <3>4. CASE (writes[i] = Absent) = (tx[t].op \notin Uploads)
      BY <1>0, <1>00, <1>2, <3>2, <3>4
    <3> QED
      BY <1>0, <1>00, <3>3, <3>4
  <2> QED
    BY <1>0, <1>00, <1>2, <2>1 DEF WritesOK
<1>8. NewRowOK(t)'
  BY <1>0, <1>00, <1>2 DEF NewRowOK
<1>9. tx'[t].pc \notin {"number", "insert"}
  BY <1>0, <1>00, <1>2
<1>10. Settled' \in Int /\ Settled <= Settled'
  BY <1>0, <1>00, <1>1, <1>3, <1>9, SettledGrows
<1>11. tx'[t].op \in Uploads => t \in Unstored
  BY <1>0, <1>00, <1>2, <1>3, <1>5 DEF Unstored, ShapeOK, Uploads, Threads
<1>12. RoomOK'
  BY <1>0, <1>00, <1>1, <1>3, <1>11, RoomKept
<1>13. stored' \in stored..MaxFiles /\ disk' \subseteq 1..stored'
  BY <1>0, <1>00, <1>3, DiskGrows
<1>14. ASSUME NEW i \in Id
       PROVE  /\ tx'[t].todo[i] # Absent => i <= Settled'
              /\ IsRow(tx'[t].writes[i]) => i <= Settled'
              /\ Locked(t, i)' => Locked(t, i) \/ ~ Held(t, i)
  <2>1. i \in Nat /\ Settled \in Int
    BY CoreOf
  <2>2. tx'[t].todo[i] # Absent => i <= Settled
    BY <1>0, <1>00, <1>2, CoreOf
  <2>3. IsRow(tx'[t].writes[i]) => i <= Settled
    BY <1>0, <1>00, <1>2, CoreOf DEF Todo, IsRow
  <2>4. Locked(t, i)' => Locked(t, i) \/ ~ Held(t, i)
    BY <1>0, <1>00, <1>2 DEF Locked
  <2> QED
    BY <1>0, <1>00, <1>10, <2>1, <2>2, <2>3, <2>4
<1> QED
  BY <1>0, <1>00, <1>1, <1>2, <1>3, <1>6, <1>7, <1>8, <1>9, <1>10, <1>12, <1>13, <1>14, CoreStep

\* _replace_active_pair lists active rows, none of which it has written.
LEMMA ListSlotCore ==
    ASSUME Core, NEW c \in Clients, ListSlot(c)
    PROVE  Core'
<1>1. c \in Threads /\ TypeOK /\ ShapeOK(c) /\ WritesOK(c) /\ mixed \in BOOLEAN
  BY DEF Threads, Core, TypeOK
<1> DEFINE pc == IF SlotIds(c) = {} THEN "store" ELSE "drop"
<1>2. Becomes(c, pc, tx[c].op, tx[c].owner, tx[c].kind, tx[c].size, SlotRows(c), tx[c].base, tx[c].path,
              tx[c].key, tx[c].writes)
  BY <1>1, ListSlotPost
<1>3. tx' \in [Threads -> Transaction]
  BY <1>1, ListSlotTyped
<1>4. tx[c].pc = "list" /\ dbFrame /\ tx[c].op \in Uploads
  BY <1>1 DEF ListSlot, ShapeOK
<1>5. \A i \in Id : /\ SlotRows(c)[i] \in {rows[i], Absent}
                    /\ SlotRows(c)[i] # Absent <=> i \in SlotIds(c)
  BY DEF SlotRows, SlotIds, ActiveOf, ActiveIds
<1>6. pc = "drop" <=> \E i \in Id : SlotRows(c)[i] # Absent
  BY <1>5 DEF SlotIds, ActiveOf, ActiveIds
<1>7. \A i \in Id : tx[c].writes[i] # Keep => \A j \in Id : SlotRows(c)[j] # Absent => i < j
  <2> SUFFICES ASSUME NEW i \in Id, tx[c].writes[i] # Keep PROVE FALSE
    OBVIOUS
  <2> QED
    BY <1>1, <1>4 DEF WritesOK, Locked
<1>8. pc \in {"drop", "store"}
  OBVIOUS
<1>9. /\ rows' = rows /\ disk' \subseteq disk /\ stored' = stored /\ expired' = expired
      /\ mixed' \in BOOLEAN /\ faults' = faults
  BY <1>1, <1>4 DEF dbFrame
<1> HIDE DEF pc
<1>10. GoesOn(c, pc, SlotRows(c), tx[c].base, tx[c].writes)
  BY <1>2, <1>3, <1>4, <1>5, <1>6, <1>7, <1>8, <1>9 DEF GoesOn
<1> QED
  BY <1>1, <1>10, GoOnCore

\* A replacement that does not fit ends before it has done anything.
LEMMA CheckReplacementCore ==
    ASSUME Core, NEW c \in Clients, CheckReplacement(c)
    PROVE  Core'
<1>1. c \in Threads /\ TypeOK /\ ShapeOK(c) /\ WritesOK(c) /\ mixed \in BOOLEAN
      /\ faults \in 0..MaxFaults
  BY DEF Threads, Core, TypeOK
<1>2. tx' \in [Threads -> Transaction]
  BY <1>1, CheckReplacementTyped
<1>3. tx[c].pc = "check" /\ dbFrame
  BY DEF CheckReplacement
<1>4. CASE Ends(c)
  BY <1>1, <1>2, <1>3, <1>4, EndCore DEF dbFrame
<1>5. CASE At(c, "drop")
  <2>1. /\ rows' = rows /\ disk' \subseteq disk /\ stored' = stored /\ expired' = expired
        /\ mixed' \in BOOLEAN /\ faults' = faults
    BY <1>1, <1>3 DEF dbFrame
  <2>2. \E i \in Id : tx[c].todo[i] # Absent
    BY <1>1, <1>3 DEF ShapeOK, Dropping, Todo
  <2>3. \A i \in Id : tx[c].writes[i] = Keep
    BY <1>1, <1>3 DEF WritesOK, Locked
  <2>4. GoesOn(c, "drop", tx[c].todo, tx[c].base, tx[c].writes)
    BY <1>2, <1>3, <1>5, <2>1, <2>2, <2>3 DEF At, GoesOn
  <2> QED
    BY <1>1, <2>4, GoOnCore
<1> QED
  BY <1>1, <1>4, <1>5, CheckReplacementPost

\* a transaction in the middle of its list
LEMMA Amid ==
    ASSUME Core, NEW t \in Threads, tx[t].pc \in {"drop", "select", "write"}
    PROVE  /\ TypeOK /\ ShapeOK(t) /\ WritesOK(t) /\ mixed \in BOOLEAN /\ faults \in 0..MaxFaults
           /\ Todo(t) # {} /\ Current(t) \in Todo(t) /\ Current(t) \in Id
           /\ \A i \in Todo(t) : Current(t) <= i
           /\ \A i \in Id : tx[t].writes[i] # Keep => \A j \in Id : tx[t].todo[j] # Absent => i < j
           /\ \E i \in Id : tx[t].todo[i] # Absent
<1>1. TypeOK /\ ShapeOK(t) /\ WritesOK(t) /\ mixed \in BOOLEAN /\ faults \in 0..MaxFaults
  BY DEF Core, TypeOK
<1>2. Todo(t) # {}
  BY <1>1 DEF ShapeOK, Dropping
<1>3. Current(t) \in Todo(t) /\ Current(t) \in Id /\ \A i \in Todo(t) : Current(t) <= i
  BY <1>2, CurrentIsFirst
<1>4. \A i \in Id : tx[t].writes[i] # Keep => \A j \in Id : tx[t].todo[j] # Absent => i < j
  BY <1>1 DEF WritesOK, Locked, Todo
<1>5. \E i \in Id : tx[t].todo[i] # Absent
  BY <1>2 DEF Todo
<1> QED
  BY <1>1, <1>2, <1>3, <1>4, <1>5

\* delete_relative_path leaves the transaction as it is.
LEMMA DropFileCore ==
    ASSUME Core, NEW t \in Threads, DropFile(t)
    PROVE  Core'
<1>1. tx[t].pc = "drop"
  BY DEF DropFile
<1>2. At(t, "select") /\ tx' \in [Threads -> Transaction]
  BY <1>1, Amid, DropFilePost, DropFileTyped
<1>3. /\ rows' = rows /\ disk' \subseteq disk /\ stored' = stored /\ expired' = expired
      /\ mixed' \in BOOLEAN /\ faults' = faults
  BY <1>1, Amid DEF DropFile
<1>4. GoesOn(t, "select", tx[t].todo, tx[t].base, tx[t].writes)
  BY <1>1, <1>2, <1>3, Amid DEF At, GoesOn
<1> QED
  BY <1>4, GoOnCore

\* What update() and delete() select is a row, or nothing.
LEMMA SelectRowCore ==
    ASSUME Core, NEW t \in Threads, SelectRow(t)
    PROVE  Core'
<1>1. tx[t].pc = "select" /\ dbFrame
  BY DEF SelectRow
<1> DEFINE v == View(t, Current(t))
<1>2. Becomes(t, "write", tx[t].op, tx[t].owner, tx[t].kind, tx[t].size, tx[t].todo, v, tx[t].path, tx[t].key,
              tx[t].writes)
  BY <1>1, Amid, SelectRowPost
<1>3. tx' \in [Threads -> Transaction]
  BY <1>1, Amid, SelectRowTyped
<1>4. /\ rows' = rows /\ disk' \subseteq disk /\ stored' = stored /\ expired' = expired
      /\ mixed' \in BOOLEAN /\ faults' = faults
  BY <1>1, Amid DEF dbFrame
<1> HIDE DEF v
<1>5. GoesOn(t, "write", tx[t].todo, v, tx[t].writes)
  BY <1>1, <1>2, <1>3, <1>4, Amid DEF GoesOn
<1> QED
  BY <1>5, GoOnCore

\* A row has been dropped: the next one, or what comes after the list.
LEMMA DropsCore ==
    ASSUME Core, NEW t \in Threads, tx[t].pc = "write", NEW done \in {"store", "commit"}, NEW w,
           done = "store" <=> tx[t].op \in Uploads,
           Drops(t, done, w), tx' \in [Threads -> Transaction],
           rows' = rows, disk' = disk, stored' = stored, expired' = expired, mixed' \in BOOLEAN,
           faults' = faults,
           \/ w = tx[t].writes[Current(t)]
           \/ ~ Held(t, Current(t)) /\ (w = Absent) = (tx[t].op \notin Uploads)
    PROVE  Core'
<1> DEFINE i == Current(t)
           todo   == [tx[t].todo EXCEPT ![i] = Absent]
           writes == [tx[t].writes EXCEPT ![i] = w]
           pc     == After(t, i, done)
<1>1. Becomes(t, pc, tx[t].op, tx[t].owner, tx[t].kind, tx[t].size, todo, Absent, tx[t].path,
              tx[t].key, writes)
  BY DEF Drops
<1>2. tx[t].todo \in [Id -> RowOrAbsent] /\ tx[t].writes \in [Id -> RowOrAbsent \cup {Keep}]
  BY Amid, Fields
<1>3. i \in Id /\ i \in Todo(t) /\ \A j \in Todo(t) : i <= j
  BY Amid
<1> HIDE DEF i
<1>4. \A j \in Id : todo[j] = IF j = i THEN Absent ELSE tx[t].todo[j]
  BY <1>2, <1>3
<1>5. \A j \in Id : writes[j] = IF j = i THEN w ELSE tx[t].writes[j]
  BY <1>2, <1>3
<1>6. pc = IF Todo(t) = {i} THEN done ELSE "drop"
  BY DEF After
<1>7. pc = "drop" <=> \E j \in Id : todo[j] # Absent
  BY <1>3, <1>4, <1>6 DEF Todo
<1>8. \A j \in Id : writes[j] # Keep => \A k \in Id : todo[k] # Absent => j < k
  <2>1. ASSUME NEW j \in Id, writes[j] # Keep, NEW k \in Id, todo[k] # Absent PROVE j < k
    <3>1. k # i /\ k \in Todo(t)
      BY <1>4, <2>1 DEF Todo
    <3>2. CASE j = i
      BY <1>3, <3>1, <3>2, CoreOf
    <3>3. CASE j # i
      BY <1>5, <2>1, <3>1, <3>3, Amid DEF Todo
    <3> QED
      BY <3>2, <3>3
  <2> QED
    BY <2>1
<1>9. \A j \in Id : \/ writes[j] = tx[t].writes[j]
                    \/ /\ j \in Todo(t) /\ ~ Held(t, j)
                       /\ (writes[j] = Absent) = (tx[t].op \notin Uploads)
  BY <1>3, <1>5 DEF i
<1>10. \A j \in Id : todo[j] \in {tx[t].todo[j], rows[j], Absent}
  BY <1>4
<1>11. pc \in {"drop", "store", "commit"} /\ (pc # "drop" => pc = done)
  BY <1>6
<1> HIDE DEF todo, writes, pc
<1>12. pc = "store" => tx[t].op \in Uploads
  BY <1>11
<1>13. pc = "commit" => tx[t].op \notin Uploads
  BY <1>11
<1>14. GoesOn(t, pc, todo, Absent, writes)
  BY <1>1, <1>7, <1>8, <1>9, <1>10, <1>11, <1>12, <1>13 DEF GoesOn
<1> QED
  BY <1>14, GoOnCore

\* update() of a row of the slot.
LEMMA DeactivateRowCore ==
    ASSUME Core, NEW c \in Clients, DeactivateRow(c)
    PROVE  Core'
<1>1. /\ tx[c].pc = "write" /\ tx[c].op \in Uploads
      /\ rows' = rows /\ disk' = disk /\ stored' = stored /\ expired' = expired /\ faults' = faults
  BY DEF DeactivateRow, Uploads
<1>2. c \in Threads
  BY DEF Threads
<1>3. tx' \in [Threads -> Transaction]
  BY <1>1, <1>2, Amid, DeactivateRowTyped
<1>4. CASE Ends(c) /\ mixed' = mixed
  BY <1>1, <1>2, <1>3, <1>4, Amid, EndCore
<1>5. ASSUME NEW w, Deactivates(c, w), Drops(c, "store", w) PROVE Core'
  <2>1. mixed' \in BOOLEAN
    BY <1>1, <1>2, <1>5, Amid DEF Deactivates
  <2>2. w = tx[c].writes[Current(c)] \/ (~ Held(c, Current(c)) /\ w # Absent)
    <3>1. Dto(c) \in Row /\ tx[c].base \in RowOrAbsent /\ View(c, Current(c)) \in RowOrAbsent
      BY <1>1, <1>2, Amid, DtoTypes, Fields, ViewTypes
    <3>2. tx[c].base # Absent /\ View(c, Current(c)) # Absent
            => Merge(Dto(c), tx[c].base, View(c, Current(c))) \in Row
      BY <3>1, RowsAreRows, MergeTypes
    <3> QED
      BY <1>5, <3>1, <3>2, RowsAreRows DEF Deactivates
  <2> QED
    BY <1>1, <1>2, <1>3, <1>5, <2>1, <2>2, DropsCore
<1> QED
  BY <1>1, <1>2, <1>4, <1>5, Amid, DeactivateRowPost

\* delete() of a row.
LEMMA DeleteRowCore ==
    ASSUME Core, NEW t \in Threads, DeleteRow(t)
    PROVE  Core'
<1>1. tx[t].pc = "write" /\ tx[t].op \notin Uploads /\ dbFrame
  BY DEF DeleteRow, Uploads
<1>2. tx' \in [Threads -> Transaction]
  BY <1>1, Amid, DeleteRowTyped
<1>3. PICK w : Deletes(t, w) /\ Drops(t, "commit", w)
  BY <1>1, Amid, DeleteRowPost
<1>4. w = tx[t].writes[Current(t)] \/ (~ Held(t, Current(t)) /\ w = Absent)
  BY <1>3 DEF Deletes
<1> QED
  BY <1>1, <1>2, <1>3, <1>4, Amid, DropsCore DEF dbFrame

\* write_temp_upload uses the room that the upload has found when it began.
LEMMA StoreFileCore ==
    ASSUME Core, NEW c \in Clients, StoreFile(c)
    PROVE  Core'
<1>1. /\ c \in Threads /\ TypeOK /\ ShapeOK(c) /\ WritesOK(c) /\ tx[c].pc = "store"
      /\ stored' = stored + 1 /\ disk' = disk \cup {stored + 1}
      /\ rows' = rows /\ expired' = expired /\ mixed' = mixed /\ faults' = faults
  BY DEF Threads, Core, StoreFile
<1>2. Becomes(c, "number", tx[c].op, tx[c].owner, tx[c].kind, tx[c].size, tx[c].todo, tx[c].base,
              stored + 1, tx[c].key, tx[c].writes)
  BY <1>1, StoreFilePost
<1>3. OthersSame(c)
  BY <1>2 DEF Becomes, OthersSame
<1>4. tx[c].op \in Uploads /\ tx[c].path = 0
  BY <1>1 DEF ShapeOK
<1>5. c \in Unstored /\ Unstored \in SUBSET Clients /\ Unstored' = Unstored \ {c}
  <2>1. stored + 1 # 0
    BY <1>1 DEF TypeOK
  <2> QED
    BY <1>2, <1>3, <1>4, <2>1 DEF Unstored, Becomes, OthersSame, Threads
<1>6. stored + 1 <= MaxFiles /\ RoomOK'
  <2>1. Cardinality(Unstored') = Cardinality(Unstored) - 1 /\ Cardinality(Unstored) >= 1
        /\ Cardinality(Unstored) \in Nat
    BY <1>5, ClientSets
  <2>2. stored + Cardinality(Unstored) <= MaxFiles /\ stored \in Nat /\ MaxFiles \in Nat
    BY CoreOf, <1>1 DEF RoomOK
  <2> QED
    BY <1>1, <2>1, <2>2 DEF RoomOK
<1>7. tx' \in [Threads -> Transaction]
  BY <1>1, <1>6, StoreFileTyped
<1>8. Settled' = Settled
  <2>1. InFlight \in SUBSET Clients /\ c \in Clients \ InFlight /\ InFlight' = InFlight \cup {c}
    BY <1>1, <1>2, <1>3 DEF InFlight, Becomes, OthersSame, Threads
  <2>2. Cardinality(InFlight') = Cardinality(InFlight) + 1 /\ Cardinality(InFlight) \in Nat
    BY <2>1, ClientSets
  <2>3. stored \in Nat
    BY CoreOf, <1>1
  <2> QED
    BY <1>1, <2>2, <2>3 DEF Settled
<1>9. Settled' \in Int /\ Settled <= Settled'
  BY <1>1, <1>8, CoreOf
<1>10. ShapeOK(c)'
  <2>1. Todo(c) = {} /\ Todo(c)' = Todo(c)
    BY <1>1, <1>2 DEF ShapeOK, Dropping, Todo, Becomes
  <2>2. /\ tx[c].owner \in Owners /\ tx[c].kind \in Kinds /\ tx[c].size \in Sizes
        /\ c # Purger /\ stored + 1 # 0
    BY <1>1, <1>4, TempFilesAssumption DEF ShapeOK, TypeOK
  <2> QED
    BY <1>2, <1>4, <2>1, <2>2 DEF ShapeOK, Dropping, Becomes, Uploads
<1>11. WritesOK(c)'
  BY <1>1, <1>2 DEF WritesOK, Becomes, Locked, Todo
<1>12. NewRowOK(c)'
  BY <1>2 DEF NewRowOK, Becomes
<1>13. stored' \in stored..MaxFiles /\ disk' \subseteq 1..stored'
  BY <1>1, <1>6, TempFilesAssumption DEF TypeOK
<1>14. ASSUME NEW i \in Id
       PROVE  /\ tx'[c].todo[i] # Absent => i <= Settled'
              /\ IsRow(tx'[c].writes[i]) => i <= Settled'
              /\ Locked(c, i)' => Locked(c, i)
  BY <1>1, <1>2, <1>8, CoreOf DEF Becomes, Locked
<1>15. tx'[c].pc # "insert" /\ mixed' \in BOOLEAN /\ faults' \in 0..MaxFaults
  BY <1>1, <1>2 DEF Becomes, TypeOK
<1> QED
  BY <1>1, <1>3, <1>6, <1>7, <1>9, <1>10, <1>11, <1>12, <1>13, <1>14, <1>15, CoreStep

\* max(id) + 1 leaves the settled keys by one at most.
LEMMA NextKeyBounded ==
    ASSUME Core, NEW c \in Clients, tx[c].pc \in {"number", "insert"}
    PROVE  /\ NextKey(c) \in Id /\ NextKey(c) <= Settled + 1
           /\ \A i \in Id : View(c, i) # Absent => i < NextKey(c)
<1>1. c \in Threads /\ TypeOK
  BY DEF Threads, Core
<1> DEFINE S == {i \in Id : View(c, i) # Absent}
<1>2. \A i \in S : i <= Settled /\ i \in Nat
  <2>1. ASSUME NEW i \in Id, View(c, i) # Absent PROVE i <= Settled
    BY <1>1, <2>1, CoreOf DEF View, IsRow
  <2> QED
    BY <1>1, <2>1, CoreOf
<1>3. Settled \in Int /\ 0 <= Settled /\ Settled + 1 <= stored /\ stored <= MaxFiles
      /\ stored \in Nat /\ MaxFiles \in Nat
  BY <1>1, CoreOf DEF InFlight
<1>4. S \cup {NoId} \in SUBSET Nat /\ S \cup {NoId} # {} /\ \A i \in S \cup {NoId} : i <= Settled
  BY <1>2, <1>3 DEF NoId
<1>5. Max(S \cup {NoId}) \in S \cup {NoId} /\ \A i \in S \cup {NoId} : i <= Max(S \cup {NoId})
  BY SMTT(30), <1>3, <1>4, MaxOfBounded
<1> DEFINE m == Max(S \cup {NoId})
<1>6. m \in Nat /\ m <= Settled /\ NextKey(c) = m + 1
  BY <1>4, <1>5 DEF NextKey
<1>7. \A i \in Id : View(c, i) # Absent => i <= m
  BY <1>5
<1> HIDE DEF m
<1>8. m + 1 \in Id
  BY <1>3, <1>6 DEF Id
<1>9. \A i \in Id : View(c, i) # Absent => i < m + 1
  BY <1>6, <1>7, <1>1, CoreOf
<1> QED
  BY <1>3, <1>6, <1>8, <1>9

\* max(id) + 1 is a key: there are no more keys than stored files.
LEMMA NumberRowCore ==
    ASSUME Core, NEW c \in Clients, NumberRow(c)
    PROVE  Core'
<1>1. /\ c \in Threads /\ TypeOK /\ ShapeOK(c) /\ WritesOK(c) /\ RoomOK /\ tx[c].pc = "number"
      /\ dbFrame
  BY DEF Threads, Core, NumberRow
<1>2. Becomes(c, "insert", tx[c].op, tx[c].owner, tx[c].kind, tx[c].size, tx[c].todo, tx[c].base,
              tx[c].path, NextKey(c), tx[c].writes)
  BY <1>1, NumberRowPost
<1>3. OthersSame(c)
  BY <1>2 DEF Becomes, OthersSame
<1>4. NextKey(c) \in Id /\ NextKey(c) <= Settled + 1
      /\ \A i \in Id : View(c, i) # Absent => i < NextKey(c)
  BY <1>1, NextKeyBounded
<1> HIDE DEF NextKey
<1>5. tx' \in [Threads -> Transaction]
  BY <1>1, <1>4, NumberRowTyped
<1>6. c \in InFlight
  BY <1>1 DEF InFlight
<1>7. Settled' \in Int /\ Settled <= Settled' /\ Settled \in Int
  BY <1>1, <1>3, <1>6, SettledGrows DEF dbFrame
<1>8. tx[c].op \in Uploads /\ tx[c].path # 0
  BY <1>1 DEF ShapeOK
<1>9. RoomOK'
  BY <1>1, <1>2, <1>3, <1>8, RoomKept DEF Becomes, dbFrame
<1>10. NextKey(c) # NoId /\ NextKey(c) \in Nat
  BY <1>1, <1>4, CoreOf DEF NoId
<1>11. ShapeOK(c)'
  <2>1. Todo(c) = {} /\ Todo(c)' = Todo(c)
    BY <1>1, <1>2 DEF ShapeOK, Dropping, Todo, Becomes
  <2>2. tx[c].owner \in Owners /\ tx[c].kind \in Kinds /\ tx[c].size \in Sizes /\ c # Purger
    BY <1>1, <1>8, TempFilesAssumption DEF ShapeOK
  <2> QED
    BY <1>2, <1>8, <1>10, <2>1, <2>2 DEF ShapeOK, Dropping, Becomes, Uploads
<1>12. WritesOK(c)'
  <2>1. ASSUME NEW i \in Id, Locked(c, i) PROVE i < NextKey(c)
    <3>1. tx[c].writes[i] # Absent
      BY <1>1, <1>8, <2>1 DEF WritesOK
    <3> QED
      BY <1>4, <2>1, <3>1 DEF View, Locked
  <2> QED
    BY <1>1, <1>2, <2>1 DEF WritesOK, Becomes, Locked, Todo
<1>13. NewRowOK(c)'
  BY <1>2 DEF NewRowOK, Becomes
<1>14. /\ rows' = rows /\ expired' = expired /\ mixed' \in BOOLEAN /\ faults' \in 0..MaxFaults
       /\ stored' = stored /\ disk' = disk
  BY <1>1 DEF dbFrame, TypeOK
<1>15. stored' \in stored..MaxFiles /\ disk' \subseteq 1..stored'
  BY <1>1, <1>14, DiskGrows
<1>16. ASSUME NEW i \in Id
       PROVE  /\ tx'[c].todo[i] # Absent => i <= Settled'
              /\ IsRow(tx'[c].writes[i]) => i <= Settled'
              /\ Locked(c, i)' => Locked(c, i)
  <2>1. i \in Nat
    BY <1>1, CoreOf
  <2>2. /\ tx'[c].todo[i] # Absent => i <= Settled
        /\ IsRow(tx'[c].writes[i]) => i <= Settled
        /\ Locked(c, i)' => Locked(c, i)
    BY <1>1, <1>2, CoreOf DEF Becomes, Locked
  <2> QED
    BY <1>7, <2>1, <2>2
<1>17. tx'[c].key <= Settled' + 1
  BY <1>2, <1>4, <1>7, <1>10 DEF Becomes
<1> QED
  BY <1>1, <1>3, <1>5, <1>7, <1>9, <1>11, <1>12, <1>13, <1>14, <1>15, <1>16, <1>17, CoreStep

\* A key that is free in the table and in every open transaction is free.
LEMMA InsertRowCore ==
    ASSUME Core, NEW c \in Clients, InsertRow(c)
    PROVE  Core'
<1> DEFINE k == tx[c].key
<1>1. /\ c \in Threads /\ TypeOK /\ ShapeOK(c) /\ WritesOK(c) /\ RoomOK /\ tx[c].pc = "insert"
      /\ dbFrame /\ ~ Held(c, k)
  BY DEF Threads, Core, InsertRow
<1>2. tx' \in [Threads -> Transaction]
  BY <1>1, InsertRowTyped
<1>3. /\ rows' = rows /\ expired' = expired /\ mixed' = mixed /\ mixed \in BOOLEAN
      /\ faults' \in 0..MaxFaults /\ stored' = stored /\ disk' = disk
  BY <1>1 DEF dbFrame, TypeOK
<1>4. CASE Ends(c)
  BY <1>1, <1>2, <1>3, <1>4, EndCore
<1>5. CASE /\ rows[k] = Absent
           /\ Becomes(c, "commit", tx[c].op, tx[c].owner, tx[c].kind, tx[c].size, tx[c].todo, tx[c].base,
                      tx[c].path, k, [tx[c].writes EXCEPT ![k] = NewRow(c)])
  <2> DEFINE writes == [tx[c].writes EXCEPT ![k] = NewRow(c)]
  <2>1. OthersSame(c)
    BY <1>5 DEF Becomes, OthersSame
  <2>2. /\ tx'[c].pc = "commit" /\ tx'[c].op = tx[c].op /\ tx'[c].owner = tx[c].owner
        /\ tx'[c].kind = tx[c].kind /\ tx'[c].size = tx[c].size /\ tx'[c].todo = tx[c].todo
        /\ tx'[c].path = tx[c].path
        /\ tx'[c].key = k /\ tx'[c].writes = writes
    BY <1>5 DEF Becomes
  <2>3. k \in Id /\ k # NoId /\ tx[c].writes \in [Id -> RowOrAbsent \cup {Keep}]
        /\ tx[c].op \in Uploads /\ tx[c].path # 0
    BY <1>1, Fields DEF ShapeOK
  <2>4. NewRow(c) \in Row
    BY <1>1, <2>3, Fields DEF ShapeOK, NewRow, Row
  <2>5. \A i \in Id : writes[i] = IF i = k THEN NewRow(c) ELSE tx[c].writes[i]
    BY <2>3
  <2>6. NewRow(c) # Absent /\ NewRow(c) # Keep /\ NewRow(c)' = NewRow(c)
    BY <2>2, <2>4, RowsAreRows DEF NewRow
  <2> HIDE DEF writes
  <2>7. Todo(c) = {} /\ Todo(c)' = Todo(c)
    BY <1>1, <2>2 DEF ShapeOK, Dropping, Todo
  <2>8. ShapeOK(c)'
    <3>1. /\ tx[c].owner \in Owners /\ tx[c].kind \in Kinds /\ tx[c].size \in Sizes
          /\ c # Purger
      BY <1>1, <2>3, TempFilesAssumption DEF ShapeOK
    <3> QED
      BY <2>2, <2>3, <2>7, <3>1 DEF ShapeOK, Dropping, Uploads
  <2>9. WritesOK(c)'
    <3>1. \A i \in Id : Locked(c, i)' => tx'[c].writes[i] # Absent
      BY <1>1, <2>2, <2>3, <2>5, <2>6 DEF WritesOK, Locked
    <3> QED
      BY <2>2, <2>3, <2>7, <3>1 DEF WritesOK
  <2>10. NewRowOK(c)'
    BY <1>3, <1>5, <2>2, <2>3, <2>5, <2>6 DEF NewRowOK
  <2>11. Settled' = Settled + 1
    <3>1. InFlight \in SUBSET Clients /\ c \in InFlight /\ InFlight' = InFlight \ {c}
      BY <1>1, <2>1, <2>2 DEF InFlight, OthersSame, Threads
    <3>2. Cardinality(InFlight') = Cardinality(InFlight) - 1 /\ Cardinality(InFlight) \in Nat
      BY <3>1, ClientSets
    <3>3. stored \in Nat
      BY CoreOf, <1>1
    <3> QED
      BY <1>3, <3>2, <3>3 DEF Settled
  <2>12. Settled \in Int /\ Settled' \in Int /\ Settled <= Settled'
    BY <1>1, <2>11, CoreOf
  <2>13. RoomOK'
    BY <1>1, <1>3, <2>1, <2>2, <2>3, RoomKept
  <2>14. stored' \in stored..MaxFiles /\ disk' \subseteq 1..stored'
    BY <1>1, <1>3, DiskGrows
  <2>15. k <= Settled + 1
    BY <1>1 DEF Core, KeysOK
  <2>16. ASSUME NEW i \in Id
         PROVE  /\ tx'[c].todo[i] # Absent => i <= Settled'
                /\ IsRow(tx'[c].writes[i]) => i <= Settled'
                /\ Locked(c, i)' => Locked(c, i) \/ ~ Held(c, i)
    <3>1. i \in Nat
      BY <1>1, CoreOf
    <3>2. tx[c].todo[i] # Absent => i <= Settled
      BY <1>1, CoreOf
    <3>3. IsRow(tx[c].writes[i]) => i <= Settled
      BY <1>1, CoreOf
    <3>4. Locked(c, i)' => Locked(c, i) \/ ~ Held(c, i)
      BY <1>1, <2>2, <2>5 DEF Locked
    <3>5. IsRow(tx'[c].writes[i]) => i <= Settled'
      BY <2>2, <2>5, <2>11, <2>12, <2>15, <3>1, <3>3
    <3> QED
      BY <2>2, <2>12, <3>1, <3>2, <3>4, <3>5
  <2> QED
    BY <1>1, <1>2, <1>3, <2>1, <2>2, <2>8, <2>9, <2>10, <2>12, <2>13, <2>14, <2>16, CoreStep
<1> QED
  BY <1>1, <1>4, <1>5, InsertRowPost

\* An operation that fails rolls its transaction back.
LEMMA FailCore ==
    ASSUME Core, NEW t \in Threads, Fail(t)
    PROVE  Core'
<1>1. TypeOK
  BY DEF Core
<1>2. tx' \in [Threads -> Transaction] /\ Ends(t)
  BY <1>1, EndTyped, FailPost DEF Fail
<1>3. faults' \in 0..MaxFaults
  BY <1>1, TempFilesAssumption DEF TypeOK, Fail
<1> QED
  BY <1>2, <1>3, EndCore DEF Fail

\* Time passes.
LEMMA FileExpiresCore ==
    ASSUME Core, FileExpires
    PROVE  Core'
<1>1. tx' = tx /\ rows' = rows /\ disk' = disk /\ stored' = stored /\ mixed' = mixed /\ faults' = faults
  BY DEF FileExpires
<1>2. expired' \in 0..stored'
  BY DEF FileExpires, Core, TypeOK
<1>3. TypeOK'
  BY <1>1, <1>2 DEF Core, TypeOK
<1>4. (\A t \in Threads : ShapeOK(t)' /\ WritesOK(t)') /\ \A c \in Clients : NewRowOK(c)'
  BY <1>1 DEF Core, ShapeOK, WritesOK, NewRowOK, Dropping, Todo, Locked, NewRow
<1>5. Exclusive'
  BY <1>1 DEF Core, Exclusive, Locked
<1>6. Unstored' = Unstored /\ InFlight' = InFlight
  BY <1>1 DEF Unstored, InFlight
<1>7. RoomOK' /\ Settled' = Settled
  BY <1>1, <1>6 DEF Core, RoomOK, Settled
<1>8. KeysOK'
  BY <1>1, <1>7 DEF Core, KeysOK
<1> QED
  BY <1>3, <1>4, <1>5, <1>7, <1>8 DEF Core

\* What a commit makes of a row.
LEMMA CommittedRow ==
    ASSUME Core, NEW t \in Threads, Commit(t), NEW i \in Id
    PROVE  /\ Locked(t, i) => rows'[i] = tx[t].writes[i]
           /\ ~ Locked(t, i) => rows'[i] = rows[i]
           /\ \A u \in Threads \ {t} : Locked(u, i) => rows'[i] = rows[i]
BY CommitPost DEF Core, View, Locked, Exclusive

\* The rows that commit() publishes are those that nobody else has written.
LEMMA CommitCore ==
    ASSUME Core, NEW t \in Threads, Commit(t)
    PROVE  Core'
<1>1. /\ TypeOK /\ RoomOK /\ ShapeOK(t) /\ tx[t].pc = "commit"
      /\ disk' = disk /\ stored' = stored /\ expired' = expired /\ mixed' = mixed /\ faults' = faults
  BY DEF Core, Commit
<1>2. tx'[t] = Idle /\ OthersSame(t) /\ rows' = [i \in Id |-> View(t, i)]
  BY <1>1, CommitPost DEF Ends, OthersSame
<1>3. tx' \in [Threads -> Transaction]
  BY <1>1, IdleTyped DEF Commit, TypeOK
<1>4. TypeOK'
  BY <1>1, <1>2, <1>3, ViewTypes DEF TypeOK
<1>5. ShapeOK(t)' /\ WritesOK(t)' /\ NewRowOK(t)'
      /\ \A i \in Id : tx'[t].todo[i] = Absent /\ tx'[t].writes[i] = Keep /\ ~ Locked(t, i)'
  BY <1>2, IdleLocal
<1>6. \A u \in Threads : ShapeOK(u)' /\ WritesOK(u)'
  BY <1>2, <1>5, OthersLocal DEF Core
<1>7. ASSUME NEW c \in Clients, c # t PROVE NewRowOK(c)'
  <2>1. c \in Threads /\ tx'[c] = tx[c] /\ NewRowOK(c) /\ ShapeOK(c) /\ tx[c].key \in Id \cup {NoId}
    BY <1>1, <1>2, <1>7, Fields DEF Threads, OthersSame, Core
  <2>2. SUFFICES ASSUME tx[c].op \in Uploads, tx[c].pc = "commit"
                 PROVE  /\ tx[c].key # NoId /\ rows'[tx[c].key] = Absent
                        /\ tx[c].writes[tx[c].key] = NewRow(c)
    BY <2>1 DEF NewRowOK, NewRow
  <2>3. /\ tx[c].key # NoId /\ rows[tx[c].key] = Absent
        /\ tx[c].writes[tx[c].key] = NewRow(c)
    BY <2>1, <2>2 DEF NewRowOK
  <2>4. NewRow(c) \in Row
    BY <1>1, <2>1, <2>2, Fields DEF ShapeOK, NewRow, Row
  <2>5. Locked(c, tx[c].key)
    BY <2>3, <2>4, RowsAreRows DEF Locked
  <2> QED
    BY <1>7, <2>1, <2>3, <2>5, CommittedRow
<1>8. Exclusive'
  BY <1>2, <1>5 DEF Exclusive, Core, OthersSame, Locked
<1>9. tx'[t].pc = "idle" /\ tx'[t].op = "purge"
  BY <1>2, IdleIs
<1>10. Settled' \in Int /\ Settled <= Settled' /\ Settled \in Int
  BY <1>1, <1>2, <1>9, SettledGrows
<1>11. RoomOK'
  BY <1>1, <1>2, <1>9, RoomKept DEF Uploads
<1>12. KeysOK'
  <2>1. ASSUME NEW i \in Id, rows'[i] # Absent PROVE i <= Settled'
    <3>1. i \in Nat /\ i <= Settled
      BY <1>2, <2>1, CoreOf DEF View, IsRow
    <3> QED
      BY <1>10, <3>1
  <2>2. ASSUME NEW u \in Threads, NEW i \in Id
        PROVE  /\ tx'[u].todo[i] # Absent => i <= Settled'
               /\ IsRow(tx'[u].writes[i]) => i <= Settled'
    <3>1. CASE u = t
      BY <1>5, <3>1 DEF IsRow
    <3>2. CASE u # t
      <4>1. /\ tx'[u].todo[i] # Absent => i <= Settled
            /\ IsRow(tx'[u].writes[i]) => i <= Settled
            /\ i \in Nat
        BY <1>2, <3>2, CoreOf DEF OthersSame
      <4> QED
        BY <1>10, <4>1
    <3> QED
      BY <3>1, <3>2
  <2>3. ASSUME NEW c \in Clients, tx'[c].pc = "insert" PROVE tx'[c].key <= Settled' + 1
    <3>1. c \in Threads /\ c # t /\ tx'[c] = tx[c] /\ tx[c].key \in Id \cup {NoId}
      BY <1>1, <1>2, <1>9, <2>3, Fields DEF Threads, OthersSame
    <3>2. tx[c].key \in Nat /\ tx[c].key <= Settled + 1
      BY <2>3, <3>1, CoreOf DEF Core, KeysOK, NoId
    <3> QED
      BY <1>10, <3>1, <3>2
  <2>4. Settled' >= 0
    BY <1>10 DEF Core, KeysOK
  <2> QED
    BY <2>1, <2>2, <2>3, <2>4 DEF KeysOK
<1>13. \A c \in Clients : NewRowOK(c)'
  BY <1>5, <1>7
<1> QED
  BY <1>4, <1>6, <1>8, <1>11, <1>12, <1>13 DEF Core


\* Nothing happens.
LEMMA StutterCore ==
    ASSUME Core, UNCHANGED vars
    PROVE  Core'
<1>1. tx' = tx /\ rows' = rows /\ disk' = disk /\ stored' = stored /\ expired' = expired
      /\ mixed' = mixed /\ faults' = faults
  BY DEF vars
<1>2. TypeOK' /\ Exclusive'
  BY <1>1 DEF Core, TypeOK, Exclusive, Locked
<1>3. (\A t \in Threads : ShapeOK(t)' /\ WritesOK(t)') /\ \A c \in Clients : NewRowOK(c)'
  BY <1>1 DEF Core, ShapeOK, WritesOK, NewRowOK, Dropping, Todo, Locked, NewRow
<1>4. Unstored' = Unstored /\ InFlight' = InFlight
  BY <1>1 DEF Unstored, InFlight
<1>5. RoomOK' /\ Settled' = Settled
  BY <1>1, <1>4 DEF Core, RoomOK, Settled
<1>6. KeysOK'
  BY <1>1, <1>5 DEF Core, KeysOK
<1> QED
  BY <1>2, <1>3, <1>5, <1>6 DEF Core

\* Nothing is stored and every thread is idle.
LEMMA InitCore ==
    ASSUME Init
    PROVE  Core
<1>1. /\ rows = NoRows /\ disk = {} /\ stored = 0 /\ expired = 0
      /\ tx = [t \in Threads |-> Idle] /\ mixed = FALSE /\ faults = 0
  BY DEF Init
<1>2. MaxFiles \in Nat /\ MaxFaults \in Nat
  BY TempFilesAssumption
<1>3. TypeOK
  <2>1. rows \in [Id -> RowOrAbsent]
    BY <1>1 DEF NoRows, RowOrAbsent
  <2>2. tx \in [Threads -> Transaction]
    BY <1>1, IdleTyped
  <2>3. disk \subseteq 1..stored /\ stored \in 0..MaxFiles /\ expired \in 0..stored
        /\ faults \in 0..MaxFaults
    BY <1>1, <1>2
  <2>4. mixed \in BOOLEAN
    BY <1>1
  <2> QED
    BY <2>1, <2>2, <2>3, <2>4 DEF TypeOK
<1>4. \A t \in Threads : /\ tx[t] = Idle /\ tx[t].pc = "idle" /\ tx[t].op = "purge"
                         /\ tx[t].path = 0 /\ Todo(t) = {}
                         /\ \A i \in Id : tx[t].todo[i] = Absent /\ tx[t].writes[i] = Keep
  BY <1>1, IdleIs DEF NoRows, NoWrites, Todo
<1>5. \A t \in Threads : ShapeOK(t) /\ WritesOK(t)
  BY <1>4 DEF ShapeOK, WritesOK, Dropping, Uploads, Locked
<1>6. (\A c \in Clients : NewRowOK(c)) /\ Exclusive
  BY <1>4 DEF NewRowOK, Exclusive, Uploads, Locked, Threads
<1>7. Unstored = {} /\ InFlight = {}
  BY <1>4 DEF Unstored, InFlight, Uploads, Threads
<1>8. Cardinality({}) = 0
  BY FS_EmptySet
<1>9. RoomOK /\ Settled = 0
  BY <1>1, <1>2, <1>7, <1>8 DEF RoomOK, Settled
<1>10. KeysOK
  <2>1. \A i \in Id : rows[i] = Absent
    BY <1>1 DEF NoRows
  <2> QED
    BY <1>4, <1>9, <2>1 DEF KeysOK, IsRow, Threads
<1> QED
  BY <1>3, <1>5, <1>6, <1>9, <1>10 DEF Core

\* Every step of every thread keeps Core.
LEMMA CoreNext ==
    ASSUME Core, Next
    PROVE  Core'
<1>1. ASSUME NEW t \in Threads, DropStep(t) PROVE Core'
  BY <1>1, DropFileCore, SelectRowCore, DeleteRowCore, CommitCore, FailCore DEF DropStep
<1>2. ASSUME NEW c \in Clients, Request(c) PROVE Core'
  <2>1. ASSUME NEW o \in Owners, NEW kind \in Kinds, NEW size \in Sizes,
               BeginUpload(c, o, kind, size) PROVE Core'
    BY <2>1, BeginUploadCore
  <2>2. ASSUME NEW kind \in Kinds, NEW size \in Sizes, NEW id \in Id, BeginReplace(c, id, kind, size)
        PROVE Core'
    BY <2>2, BeginReplaceCore
  <2>3. ASSUME NEW id \in Id, BeginDelete(c, id) PROVE Core'
    BY <2>3, BeginDeleteCore
  <2>4. CASE Proceed(c)
    <3>1. c \in Threads
      BY DEF Threads
    <3> QED
      BY <1>1, <2>4, <3>1, ListSlotCore, CheckReplacementCore, DeactivateRowCore, StoreFileCore,
         NumberRowCore, InsertRowCore DEF Proceed
  <2> QED
    BY <1>2, <2>1, <2>2, <2>3, <2>4 DEF Request
<1>3. CASE Purge
  <2>1. Purger \in Threads
    BY DEF Threads
  <2> QED
    BY <1>1, <1>3, <2>1, BeginPurgeCore DEF Purge
<1>4. CASE FileExpires
  BY <1>4, FileExpiresCore
<1> QED
  BY <1>2, <1>3, <1>4 DEF Next

(* A transaction locks rows in the order of their keys and never two of     *)
(* them one row (SqlAlchemyRepository.add, update and delete in lists that  *)
(* are sorted by key); an upload that has begun finds its primary key free  *)
(* and below the bound (_next_id, TemporaryFileService).                    *)
THEOREM CoreInvariance == Spec => []Core
<1>1. Core /\ [Next]_vars => Core'
  BY CoreNext, StutterCore
<1> QED
  BY InitCore, <1>1, PTL DEF Spec

(* Every variable keeps its type: a row always names a stored file, and the *)
(* key that max(id) + 1 gives an upload is one the table can hold           *)
(* (TemporaryFileService.upload_file, replace_file, _next_id).              *)
THEOREM TypesHold == Spec => []TypeOK
BY CoreInvariance, PTL DEF Core

-----------------------------------------------------------------------------
(* Waits. *)

\* the row lock or key that a transaction wants next
Wanted(t) == IF tx[t].pc = "insert" THEN tx[t].key ELSE Current(t)
\* a transaction waits for another one that has written what it wants, and all
\* that it has written itself comes before
LEMMA WaitsForHolder ==
    ASSUME Core, NEW t \in Threads, Waits(t)
    PROVE  /\ Wanted(t) \in Id
           /\ \A i \in Id : Locked(t, i) => i < Wanted(t)
           /\ \E u \in Threads : Locked(u, Wanted(t))
<1>1. TypeOK /\ ShapeOK(t) /\ WritesOK(t)
  BY DEF Core
<1>2. CASE tx[t].pc = "insert"
  <2>1. tx[t].key \in Id /\ Wanted(t) = tx[t].key
    BY <1>1, <1>2, Fields DEF ShapeOK, Wanted
  <2>2. \A i \in Id : Locked(t, i) => i < tx[t].key
    BY <1>1, <1>2 DEF WritesOK
  <2>3. \E u \in Threads : Locked(u, tx[t].key)
    BY <1>2 DEF Waits, Held, Locked
  <2> QED
    BY <2>1, <2>2, <2>3
<1>3. CASE tx[t].pc = "write"
  <2>1. Wanted(t) = Current(t) /\ Current(t) \in Id /\ Current(t) \in Todo(t)
    BY <1>3, Amid DEF Wanted
  <2>2. \A i \in Id : Locked(t, i) => i < Current(t)
    BY <1>1, <2>1 DEF WritesOK
  <2>3. \E u \in Threads : Locked(u, Current(t))
    BY <1>3 DEF Waits, Held, Locked
  <2> QED
    BY <2>1, <2>2, <2>3
<1> QED
  BY <1>2, <1>3 DEF Waits

\* Every transaction waits for one that wants a higher row: some wait for none.
LEMMA CoreForbidsCircles ==
    ASSUME Core
    PROVE  NoWaitCycle
<1>1. SUFFICES ASSUME NEW t0 \in Threads, Waits(t0),
                      \A u \in Threads : tx[u].pc # "idle" => Waits(u)
               PROVE  FALSE
  BY DEF NoWaitCycle
<1> DEFINE W == {i \in Id : \E t \in Threads : Waits(t) /\ Wanted(t) = i}
<1>2. W \in SUBSET Nat /\ MaxFiles \in Nat /\ \A i \in W : i <= MaxFiles
  BY TempFilesAssumption DEF Id
<1>3. W # {}
  BY <1>1, WaitsForHolder
<1> HIDE DEF W
<1>4. Max(W) \in W /\ \A i \in W : i <= Max(W)
  BY <1>2, <1>3, MaxOfBounded
<1> DEFINE m == Max(W)
<1>5. m \in W /\ m \in Nat /\ \A i \in W : i <= m
  BY <1>2, <1>4
<1> HIDE DEF m
<1>6. PICK t \in Threads : Waits(t) /\ Wanted(t) = m
  BY <1>5 DEF W
<1>7. PICK u \in Threads : Locked(u, m) /\ m \in Id
  BY <1>6, WaitsForHolder
<1>8. tx[u].pc # "idle"
  <2>1. SUFFICES ASSUME tx[u].pc = "idle" PROVE FALSE
    OBVIOUS
  <2>2. tx[u] = Idle
    BY <2>1 DEF Core, ShapeOK
  <2>3. tx[u].writes[m] = Keep
    BY <1>7, <2>2, IdleIs DEF NoWrites
  <2> QED
    BY <1>7, <2>3 DEF Locked
<1>9. Waits(u) /\ Wanted(u) \in Id /\ m < Wanted(u)
  BY <1>1, <1>7, <1>8, WaitsForHolder
<1>10. Wanted(u) \in W
  BY <1>9 DEF W
<1>11. Wanted(u) \in Nat /\ Wanted(u) <= m
  BY <1>2, <1>5, <1>10
<1> QED
  BY <1>5, <1>9, <1>11

(* When requests and the purge wait for each other's rows and keys (update, *)
(* delete and add of the repository), the one that wants the highest key    *)
(* waits for a transaction that can go on: list() sorts by key, and an      *)
(* insert takes a key above all the rows it has read.                       *)
THEOREM WaitsEnd == Spec => []NoWaitCycle
<1>1. Core => NoWaitCycle
  BY CoreForbidsCircles
<1> QED
  BY CoreInvariance, <1>1, PTL

-----------------------------------------------------------------------------
(* File names. *)

Seen(t, p) == InTable(p) \/ Names(t, p)

\* What a transaction can have seen.
LEMMA SeenIs ==
    ASSUME NEW t \in Threads
    PROVE  /\ Seen(t, tx[t].path)
           /\ tx[t].base # Absent => Seen(t, tx[t].base.path)
           /\ \A i \in Id :
                /\ rows[i] # Absent => Seen(t, rows[i].path)
                /\ tx[t].todo[i] # Absent => Seen(t, tx[t].todo[i].path)
                /\ IsRow(tx[t].writes[i]) => Seen(t, tx[t].writes[i].path)
                /\ IsRow(View(t, i)) => Seen(t, View(t, i).path)
<1>1. /\ Seen(t, tx[t].path)
      /\ tx[t].base # Absent => Seen(t, tx[t].base.path)
  BY DEF Seen, Names
<1>2. ASSUME NEW i \in Id
      PROVE  /\ rows[i] # Absent => Seen(t, rows[i].path)
             /\ tx[t].todo[i] # Absent => Seen(t, tx[t].todo[i].path)
             /\ IsRow(tx[t].writes[i]) => Seen(t, tx[t].writes[i].path)
  BY DEF Seen, InTable, Names
<1>3. ASSUME NEW i \in Id, IsRow(View(t, i)) PROVE Seen(t, View(t, i).path)
  BY <1>2, <1>3 DEF View, IsRow
<1> QED
  BY <1>1, <1>2, <1>3

\* A step after which tables and transaction name only files seen before.
LEMMA PathsKept ==
    ASSUME Core, Paths, NEW t \in Threads, OthersSame(t), stored' = stored,
           \A p \in Id : InTable(p)' => Seen(t, p),
           \A p \in Id : Names(t, p)' => Seen(t, p),
           tx'[t].path = 0 \/ (tx'[t].path = tx[t].path /\ rows' = rows)
    PROVE  Paths'
<1>1. \A u \in Threads \ {t} : tx'[u] = tx[u]
  BY DEF OthersSame
<1>2. \A u \in Threads \ {t}, p \in Id : Names(u, p)' = Names(u, p)
  BY <1>1 DEF Names
<1>3. PathsOK'
  BY <1>2 DEF Paths, PathsOK, Seen
<1>4. ASSUME NEW d \in Threads, NEW p \in Id, tx'[d].path = p
      PROVE  ~ InTable(p)' /\ \A u \in Threads \ {d} : ~ Names(u, p)'
  <2>0. p # 0
    BY TempFilesAssumption DEF Id
  <2>1. tx[d].path = p /\ (d = t => rows' = rows)
    BY <1>1, <1>4, <2>0
  <2>2. ~ InTable(p) /\ \A u \in Threads \ {d} : ~ Names(u, p)
    BY <2>1 DEF Paths, FreshOK
  <2>3. CASE d # t
    BY <1>2, <2>2, <2>3 DEF Seen
  <2>4. CASE d = t
    BY <1>2, <2>1, <2>2, <2>4 DEF InTable
  <2> QED
    BY <2>3, <2>4
<1> QED
  BY <1>3, <1>4 DEF Paths, FreshOK

\* To show Paths for a step is to show it for the files its transaction names.
LEMMA PathsStep ==
    ASSUME Core, Paths, NEW t \in Threads, NEW pc, NEW op, NEW owner, NEW kind, NEW size, NEW todo, NEW base,
           NEW path, NEW key, NEW writes,
           Becomes(t, pc, op, owner, kind, size, todo, base, path, key, writes),
           rows' = rows, stored' = stored, path \in {0, tx[t].path},
           base # Absent => Seen(t, base.path),
           \A i \in Id : /\ todo[i] # Absent => Seen(t, todo[i].path)
                         /\ IsRow(writes[i]) => Seen(t, writes[i].path)
    PROVE  Paths'
<1>1. OthersSame(t)
  BY DEF Becomes, OthersSame
<1>2. /\ tx'[t].todo = todo /\ tx'[t].base = base /\ tx'[t].path = path /\ tx'[t].writes = writes
  BY DEF Becomes
<1>3. \A p \in Id : InTable(p)' => Seen(t, p)
  BY DEF InTable, Seen
<1>4. \A p \in Id : Names(t, p)' => Seen(t, p)
  <2>1. SUFFICES ASSUME NEW p \in Id, Names(t, p)' PROVE Seen(t, p)
    OBVIOUS
  <2>2. 0 \notin Id
    BY TempFilesAssumption DEF Id
  <2>3. \/ path = p \/ (base # Absent /\ base.path = p)
        \/ \E i \in Id : \/ todo[i] # Absent /\ todo[i].path = p
                         \/ IsRow(writes[i]) /\ writes[i].path = p
    BY <1>2, <2>1 DEF Names
  <2> QED
    BY <2>2, <2>3, SeenIs
<1> QED
  BY <1>1, <1>2, <1>3, <1>4, PathsKept

\* A transaction that has ended names no file.
LEMMA PathsEnd ==
    ASSUME Core, Paths, NEW t \in Threads, Ends(t), rows' = rows, stored' = stored
    PROVE  Paths'
<1>1. Becomes(t, "idle", "purge", "none", "none", 0, NoRows, Absent, 0, NoId, NoWrites)
  BY IdleIs DEF Ends, Becomes
<1>2. \A i \in Id : NoRows[i] = Absent /\ ~ IsRow(NoWrites[i])
  BY DEF NoRows, NoWrites, IsRow
<1> QED
  BY <1>1, <1>2, PathsStep

\* A transaction begins with files of the table.
LEMMA PathsBegin ==
    ASSUME Core, Paths, NEW t \in Threads, NEW pc, NEW op, NEW owner, NEW kind, NEW size, NEW todo,
           Becomes(t, pc, op, owner, kind, size, todo, Absent, 0, NoId, NoWrites), dbFrame,
           \A i \in Id : todo[i] \in {rows[i], Absent}
    PROVE  Paths'
<1>1. \A i \in Id : ~ IsRow(NoWrites[i])
  BY DEF NoWrites, IsRow
<1>2. \A i \in Id : todo[i] # Absent => Seen(t, todo[i].path)
  BY SeenIs
<1>3. rows' = rows /\ stored' = stored
  BY DEF dbFrame
<1> QED
  BY <1>1, <1>2, <1>3, PathsStep

\* A row that is written names a file of the copy or of the selected row.
LEMMA PathsDrops ==
    ASSUME Core, Paths, NEW t \in Threads, tx[t].pc = "write", NEW done, NEW w, Drops(t, done, w),
           rows' = rows, stored' = stored, IsRow(w) => Seen(t, w.path)
    PROVE  Paths'
<1> DEFINE i      == Current(t)
           todo   == [tx[t].todo EXCEPT ![i] = Absent]
           writes == [tx[t].writes EXCEPT ![i] = w]
           pc     == After(t, i, done)
<1>1. Becomes(t, pc, tx[t].op, tx[t].owner, tx[t].kind, tx[t].size, todo, Absent, tx[t].path,
              tx[t].key, writes)
  BY DEF Drops
<1>2. tx[t].todo \in [Id -> RowOrAbsent] /\ tx[t].writes \in [Id -> RowOrAbsent \cup {Keep}]
  BY Amid, Fields
<1> HIDE DEF i
<1>3. \A j \in Id : /\ todo[j] # Absent => todo[j] = tx[t].todo[j]
                    /\ writes[j] \in {w, tx[t].writes[j]}
  BY <1>2
<1>4. \A j \in Id : /\ todo[j] # Absent => Seen(t, todo[j].path)
                    /\ IsRow(writes[j]) => Seen(t, writes[j].path)
  BY <1>3, SeenIs
<1> HIDE DEF todo, writes, pc
<1> QED
  BY <1>1, <1>4, PathsStep

\* update() mixes the columns of rows, it names no new file.
LEMMA DeactivateRowPaths ==
    ASSUME Core, Paths, NEW c \in Clients, DeactivateRow(c)
    PROVE  Paths'
<1>1. tx[c].pc = "write" /\ rows' = rows /\ stored' = stored
  BY DEF DeactivateRow
<1>2. c \in Threads
  BY DEF Threads
<1>3. CASE Ends(c)
  BY <1>1, <1>2, <1>3, PathsEnd
<1>4. ASSUME NEW w, Deactivates(c, w), Drops(c, "store", w) PROVE Paths'
  <2>1. Dto(c) \in Row /\ tx[c].base \in RowOrAbsent /\ View(c, Current(c)) \in RowOrAbsent
        /\ Dto(c).path = tx[c].todo[Current(c)].path
    BY <1>1, <1>2, Amid, DtoTypes, Fields, ViewTypes
  <2>2. Seen(c, Dto(c).path)
    BY <1>1, <1>2, <2>1, Amid, SeenIs DEF Todo
  <2>3. View(c, Current(c)) # Absent => Seen(c, View(c, Current(c)).path)
    BY <1>1, <1>2, <2>1, Amid, SeenIs, RowsAreRows DEF IsRow
  <2>4. tx[c].base # Absent /\ View(c, Current(c)) # Absent
            => Seen(c, Merge(Dto(c), tx[c].base, View(c, Current(c))).path)
    <3>1. tx[c].base # Absent /\ View(c, Current(c)) # Absent
            => Merge(Dto(c), tx[c].base, View(c, Current(c))).path
                 \in {Dto(c).path, View(c, Current(c)).path}
      BY <2>1, RowsAreRows, MergeTypes
    <3> QED
      BY <2>2, <2>3, <3>1
  <2>5. IsRow(w) => Seen(c, w.path)
    BY <1>1, <1>2, <1>4, <2>2, <2>4, Amid, SeenIs DEF Deactivates
  <2> QED
    BY <1>1, <1>2, <1>4, <2>5, PathsDrops
<1> QED
  BY <1>1, <1>2, <1>3, <1>4, Amid, DeactivateRowPost

\* The new file is in no row and in no copy.
LEMMA StoreFilePaths ==
    ASSUME Core, Paths, NEW c \in Clients, StoreFile(c)
    PROVE  Paths'
<1>1. c \in Threads /\ TypeOK /\ ShapeOK(c) /\ tx[c].pc = "store" /\ stored' = stored + 1
      /\ rows' = rows
  BY DEF Threads, Core, StoreFile
<1>2. Becomes(c, "number", tx[c].op, tx[c].owner, tx[c].kind, tx[c].size, tx[c].todo, tx[c].base,
              stored + 1, tx[c].key, tx[c].writes)
  BY <1>1, StoreFilePost
<1>3. \A u \in Threads \ {c} : tx'[u] = tx[u]
  BY <1>2 DEF Becomes
<1>4. stored \in Nat /\ \A p \in Id : p \in Nat
  BY <1>1, CoreOf
<1>5. \A p \in Id : Names(c, p)' => p = stored + 1 \/ Names(c, p)
  BY <1>2 DEF Becomes, Names
<1>6. \A p \in Id : InTable(p)' = InTable(p)
  BY <1>1 DEF InTable
<1>7. \A u \in Threads \ {c}, p \in Id : Names(u, p)' = Names(u, p)
  BY <1>3 DEF Names
<1>8. \A p \in Id, u \in Threads : InTable(p) \/ Names(u, p) => p <= stored
  BY DEF Paths, PathsOK
<1>9. PathsOK'
  BY <1>1, <1>4, <1>5, <1>6, <1>7, <1>8 DEF PathsOK
<1>10. ASSUME NEW d \in Threads, NEW p \in Id, tx'[d].path = p
       PROVE  ~ InTable(p)' /\ \A u \in Threads \ {d} : ~ Names(u, p)'
  <2>1. CASE d = c
    <3>1. p = stored + 1
      BY <1>2, <1>10, <2>1 DEF Becomes
    <3>2. ~ (p <= stored)
      BY <1>4, <3>1
    <3>3. ~ InTable(p) /\ \A u \in Threads : ~ Names(u, p)
      BY <1>8, <3>2
    <3> QED
      BY <1>6, <1>7, <2>1, <3>3
  <2>2. CASE d # c
    <3>1. tx[d].path = p
      BY <1>3, <1>10, <2>2
    <3>2. ~ InTable(p) /\ \A u \in Threads \ {d} : ~ Names(u, p)
      BY <3>1 DEF Paths, FreshOK
    <3>3. p <= stored /\ p # stored + 1
      <4>1. p <= stored
        BY <1>8, <3>1 DEF Names
      <4> QED
        BY <1>4, <4>1
    <3>4. ~ Names(c, p)'
      BY <1>1, <1>5, <2>2, <3>2, <3>3
    <3> QED
      BY <1>6, <1>7, <3>2, <3>4
  <2> QED
    BY <2>1, <2>2
<1> QED
  BY <1>9, <1>10 DEF Paths, FreshOK

\* The new file gets into the table with its row.
LEMMA CommitPaths ==
    ASSUME Core, Paths, NEW t \in Threads, Commit(t)
    PROVE  Paths'
<1>1. TypeOK /\ stored' = stored
  BY DEF Core, Commit
<1>2. tx'[t] = Idle /\ OthersSame(t) /\ rows' = [i \in Id |-> View(t, i)]
  BY <1>1, CommitPost DEF Ends, OthersSame
<1>3. \A p \in Id : InTable(p)' => Seen(t, p)
  <2>1. \A i \in Id : rows'[i] # Absent => IsRow(View(t, i))
    BY <1>1, <1>2, ViewTypes, RowsAreRows DEF IsRow
  <2> QED
    BY <1>2, <2>1, SeenIs DEF InTable
<1>4. tx'[t].path = 0 /\ \A p \in Id : ~ Names(t, p)'
  <2>1. 0 \notin Id
    BY TempFilesAssumption DEF Id
  <2> QED
    BY <1>2, <2>1, IdleIs DEF Names, NoRows, NoWrites, IsRow
<1> QED
  BY <1>1, <1>2, <1>3, <1>4, PathsKept

\* Nothing happens to the names.
LEMMA PathsStutter ==
    ASSUME Paths, tx' = tx, rows' = rows, stored' = stored
    PROVE  Paths'
BY DEF Paths, PathsOK, FreshOK, InTable, Names

\* The steps that requests and the purge have in common.
LEMMA DropStepPaths ==
    ASSUME Core, Paths, NEW t \in Threads, DropStep(t)
    PROVE  Paths'
<1>1. TypeOK
  BY DEF Core
<1>2. CASE DropFile(t)
  <2>1. At(t, "select") /\ rows' = rows /\ stored' = stored
    BY <1>1, <1>2, DropFilePost DEF DropFile
  <2> QED
    BY <2>1, SeenIs, PathsStep DEF At
<1>3. CASE SelectRow(t)
  <2> DEFINE v == View(t, Current(t))
  <2>1. Becomes(t, "write", tx[t].op, tx[t].owner, tx[t].kind, tx[t].size, tx[t].todo, v, tx[t].path,
                tx[t].key, tx[t].writes)
        /\ rows' = rows /\ stored' = stored /\ tx[t].pc = "select"
    BY <1>1, <1>3, SelectRowPost DEF SelectRow, dbFrame
  <2>2. v # Absent => Seen(t, v.path)
    BY <1>1, <2>1, Amid, ViewTypes, SeenIs, RowsAreRows DEF IsRow
  <2> HIDE DEF v
  <2> QED
    BY <2>1, <2>2, SeenIs, PathsStep
<1>4. CASE DeleteRow(t)
  <2>1. PICK w : Deletes(t, w) /\ Drops(t, "commit", w)
    BY <1>1, <1>4, DeleteRowPost
  <2>2. tx[t].pc = "write" /\ rows' = rows /\ stored' = stored
    BY <1>4 DEF DeleteRow, dbFrame
  <2>3. IsRow(w) => Seen(t, w.path)
    BY <2>1, <2>2, Amid, SeenIs DEF Deletes, IsRow
  <2> QED
    BY <2>1, <2>2, <2>3, PathsDrops
<1>5. CASE Commit(t)
  BY <1>5, CommitPaths
<1>6. CASE Fail(t)
  BY <1>1, <1>6, FailPost, PathsEnd DEF Fail
<1> QED
  BY <1>2, <1>3, <1>4, <1>5, <1>6 DEF DropStep

\* The steps of a request.
LEMMA ProceedPaths ==
    ASSUME Core, Paths, NEW c \in Clients, Proceed(c)
    PROVE  Paths'
<1>1. TypeOK /\ c \in Threads /\ ShapeOK(c)
  BY DEF Core, Threads
<1>2. CASE ListSlot(c)
  <2>1. /\ rows' = rows /\ stored' = stored
        /\ \A i \in Id : SlotRows(c)[i] # Absent => SlotRows(c)[i] = rows[i]
    BY <1>2 DEF ListSlot, dbFrame, SlotRows
  <2>2. \A i \in Id : SlotRows(c)[i] # Absent => Seen(c, SlotRows(c)[i].path)
    BY <1>1, <2>1, SeenIs
  <2> HIDE DEF SlotRows
  <2> QED
    BY <1>1, <1>2, <2>1, <2>2, ListSlotPost, SeenIs, PathsStep
<1>3. CASE CheckReplacement(c)
  <2>1. rows' = rows /\ stored' = stored
    BY <1>3 DEF CheckReplacement, dbFrame
  <2>2. CASE At(c, "drop")
    BY <1>1, <2>1, <2>2, SeenIs, PathsStep DEF At
  <2> QED
    BY <1>1, <1>3, <2>1, <2>2, CheckReplacementPost, PathsEnd
<1>4. CASE NumberRow(c)
  <2>1. Becomes(c, "insert", tx[c].op, tx[c].owner, tx[c].kind, tx[c].size, tx[c].todo, tx[c].base,
                tx[c].path, NextKey(c), tx[c].writes)
        /\ rows' = rows /\ stored' = stored
    BY <1>1, <1>4, NumberRowPost DEF NumberRow, dbFrame
  <2> HIDE DEF NextKey
  <2> QED
    BY <1>1, <2>1, SeenIs, PathsStep
<1>5. CASE InsertRow(c)
  <2> DEFINE k == tx[c].key
             writes == [tx[c].writes EXCEPT ![k] = NewRow(c)]
  <2>1. rows' = rows /\ stored' = stored /\ tx[c].pc = "insert"
    BY <1>5 DEF InsertRow, dbFrame
  <2>2. CASE Becomes(c, "commit", tx[c].op, tx[c].owner, tx[c].kind, tx[c].size, tx[c].todo, tx[c].base,
                     tx[c].path, k, writes)
    <3>1. k \in Id /\ tx[c].writes \in [Id -> RowOrAbsent \cup {Keep}]
      BY <1>1, <2>1, Fields DEF ShapeOK
    <3>2. \A i \in Id : writes[i] \in {NewRow(c), tx[c].writes[i]}
      BY <3>1
    <3>3. NewRow(c).path = tx[c].path
      BY DEF NewRow
    <3>4. \A i \in Id : IsRow(writes[i]) => Seen(c, writes[i].path)
      BY <1>1, <3>2, <3>3, SeenIs
    <3> HIDE DEF writes
    <3> QED
      BY <1>1, <2>1, <2>2, <3>4, SeenIs, PathsStep
  <2> QED
    BY <1>1, <1>5, <2>1, <2>2, InsertRowPost, PathsEnd
<1> QED
  BY <1>1, <1>2, <1>3, <1>4, <1>5, DeactivateRowPaths, StoreFilePaths, DropStepPaths DEF Proceed

\* All steps.
LEMMA PathsNext ==
    ASSUME Core, Paths, [Next]_vars
    PROVE  Paths'
<1>1. TypeOK /\ Purger \in Threads /\ \A c \in Clients : c \in Threads
  BY DEF Core, Threads
<1>2. ASSUME NEW c \in Clients, NEW o \in Owners, NEW kind \in Kinds, NEW size \in Sizes,
             BeginUpload(c, o, kind, size)
      PROVE  Paths'
  <2>1. \A i \in Id : NoRows[i] = Absent
    BY DEF NoRows
  <2> QED
    BY <1>1, <1>2, <2>1, BeginUploadPost, PathsBegin DEF BeginUpload
<1>3. ASSUME NEW id \in Id PROVE \A i \in Id : [NoRows EXCEPT ![id] = rows[id]][i] \in {rows[i], Absent}
  BY DEF NoRows
<1>4. ASSUME NEW c \in Clients, NEW id \in Id, NEW kind \in Kinds, NEW size \in Sizes,
             BeginReplace(c, id, kind, size)
      PROVE  Paths'
  <2>1. Becomes(c, "check", "replace", rows[id].owner, kind, size, [NoRows EXCEPT ![id] = rows[id]],
                Absent, 0, NoId, NoWrites) /\ dbFrame
    BY <1>1, <1>4, BeginReplacePost DEF BeginReplace
  <2> QED
    BY <1>1, <1>3, <2>1, PathsBegin
<1>5. ASSUME NEW c \in Clients, NEW id \in Id, BeginDelete(c, id)
      PROVE  Paths'
  <2>1. Becomes(c, "drop", "delete", "none", "none", 0, [NoRows EXCEPT ![id] = rows[id]],
                Absent, 0, NoId, NoWrites) /\ dbFrame
    BY <1>1, <1>5, BeginDeletePost DEF BeginDelete
  <2> QED
    BY <1>1, <1>3, <2>1, PathsBegin
<1>6. CASE BeginPurge
  <2>1. \A i \in Id : Expired[i] \in {rows[i], Absent}
    BY DEF Expired
  <2>2. dbFrame
    BY <1>6 DEF BeginPurge
  <2> QED
    BY <1>1, <1>6, <2>1, <2>2, BeginPurgePost, PathsBegin
<1>7. CASE FileExpires \/ UNCHANGED vars
  BY <1>7, PathsStutter DEF FileExpires, vars
<1> QED
  BY <1>1, <1>2, <1>4, <1>5, <1>6, <1>7, ProceedPaths, DropStepPaths DEF Next, Request, Purge

-----------------------------------------------------------------------------
(* Flags. *)

\* To show Flags for a step of one transaction on unchanged rows.
LEMMA FlagsStep ==
    ASSUME Flags, NEW t \in Threads, OthersSame(t), rows' = rows, mixed => mixed',
           mixed \in BOOLEAN, mixed' \in BOOLEAN,
           RetiredOK(t)', InactiveOK(t)', OneReplaced(t)'
    PROVE  Flags'
<1>1. \A u \in Threads \ {t} : tx'[u] = tx[u]
  BY DEF OthersSame
<1>2. ASSUME NEW u \in Threads \ {t} PROVE RetiredOK(u)'
  <2>1. tx'[u] = tx[u] /\ Current(u)' = Current(u) /\ RetiredOK(u)
    BY <1>1 DEF Flags, Current, Todo
  <2> HIDE DEF Current
  <2> QED
    BY <2>1 DEF RetiredOK
<1>3. ASSUME NEW u \in Threads \ {t} PROVE InactiveOK(u)'
  BY <1>1 DEF Flags, InactiveOK
<1>4. ASSUME NEW c \in Clients PROVE OneReplaced(c)'
  <2>1. CASE c = t
    BY <2>1
  <2>2. CASE c # t
    <3>1. c \in Threads \ {t} /\ OneReplaced(c)
      BY <2>2 DEF Threads, Flags
    <3> QED
      BY <1>1, <3>1 DEF OneReplaced, Replaces, Locked
  <2> QED
    BY <2>1, <2>2
<1>5. \A u \in Threads : RetiredOK(u)' /\ InactiveOK(u)'
  BY <1>2, <1>3
<1> QED
  BY <1>4, <1>5 DEF Flags

\* A transaction that has ended.
LEMMA FlagsEnd ==
    ASSUME Core, Flags, NEW t \in Threads, Ends(t), rows' = rows, mixed' = mixed
    PROVE  Flags'
<1>1. tx'[t].pc = "idle" /\ tx'[t].op = "purge" /\ \A i \in Id : tx'[t].writes[i] = Keep
  BY IdleIs DEF Ends, NoWrites
<1>2. RetiredOK(t)' /\ InactiveOK(t)' /\ OneReplaced(t)'
  BY <1>1 DEF RetiredOK, InactiveOK, OneReplaced, Uploads, IsRow
<1>3. OthersSame(t) /\ mixed \in BOOLEAN
  BY DEF Ends, OthersSame, Core, TypeOK
<1> QED
  BY <1>2, <1>3, FlagsStep

\* A transaction that begins.
LEMMA FlagsBegin ==
    ASSUME Core, Flags, NEW t \in Threads, NEW pc, NEW op, NEW owner, NEW kind, NEW size, NEW todo,
           Becomes(t, pc, op, owner, kind, size, todo, Absent, 0, NoId, NoWrites), dbFrame,
           pc # "write",
           op \in Uploads => \A i, j \in Id : todo[i] # Absent /\ todo[j] # Absent => i = j
    PROVE  Flags'
<1>1. tx'[t].pc = pc /\ tx'[t].op = op /\ tx'[t].todo = todo /\ \A i \in Id : tx'[t].writes[i] = Keep
  BY DEF Becomes, NoWrites
<1>2. RetiredOK(t)' /\ InactiveOK(t)'
  BY <1>1 DEF RetiredOK, InactiveOK, IsRow
<1>3. OneReplaced(t)'
  BY <1>1 DEF OneReplaced, Replaces, Locked
<1>4. OthersSame(t) /\ rows' = rows /\ mixed' = mixed /\ mixed \in BOOLEAN
  BY DEF Becomes, OthersSame, dbFrame, Core, TypeOK
<1> QED
  BY <1>2, <1>3, <1>4, FlagsStep

\* a step that leaves the list and the writes alone
LEMMA FlagsMove ==
    ASSUME Core, Flags, NEW t \in Threads, NEW base, NEW path, NEW key,
           NEW pc \in {"drop", "select", "write", "store", "number", "insert"},
           Becomes(t, pc, tx[t].op, tx[t].owner, tx[t].kind, tx[t].size, tx[t].todo, base, path, key,
                   tx[t].writes),
           tx[t].pc # "commit", rows' = rows, mixed' = mixed,
           pc = "write" => base = rows[Current(t)]
    PROVE  Flags'
<1>1. /\ tx'[t].pc = pc /\ tx'[t].op = tx[t].op /\ tx'[t].kind = tx[t].kind
      /\ tx'[t].todo = tx[t].todo /\ tx'[t].base = base /\ tx'[t].writes = tx[t].writes
  BY DEF Becomes
<1>2. OthersSame(t) /\ mixed \in BOOLEAN
  BY DEF Becomes, OthersSame, Core, TypeOK
<1>3. RetiredOK(t)'
  <2>1. Current(t)' = Current(t)
    BY <1>1 DEF Current, Todo
  <2> HIDE DEF Current
  <2> QED
    BY <1>1, <2>1 DEF RetiredOK
<1>4. InactiveOK(t)'
  BY <1>1 DEF InactiveOK, Flags
<1>5. OneReplaced(t)'
  <2>1. tx[t].op \in Uploads => t \in Clients
    BY DEF Core, ShapeOK, Uploads, Threads
  <2>2. \A i \in Id : Replaces(t, i)' => Replaces(t, i)
    BY <1>1 DEF Replaces, Locked
  <2>3. tx[t].op \in Uploads => OneReplaced(t)
    BY <2>1 DEF Flags
  <2> QED
    BY <1>1, <2>2, <2>3 DEF OneReplaced
<1> QED
  BY <1>2, <1>3, <1>4, <1>5, FlagsStep

\* a row has been dropped
LEMMA FlagsDrops ==
    ASSUME Core, Flags, NEW t \in Threads, tx[t].pc = "write", NEW done \in {"store", "commit"},
           NEW w, Drops(t, done, w), done = "commit" => tx[t].op \notin Uploads,
           rows' = rows, mixed => mixed', mixed' \in BOOLEAN,
           ~ mixed' /\ IsRow(w) => w = tx[t].writes[Current(t)] \/ w.active = FALSE
    PROVE  Flags'
<1> DEFINE i      == Current(t)
           todo   == [tx[t].todo EXCEPT ![i] = Absent]
           writes == [tx[t].writes EXCEPT ![i] = w]
           pc     == After(t, i, done)
<1>1. Becomes(t, pc, tx[t].op, tx[t].owner, tx[t].kind, tx[t].size, todo, Absent, tx[t].path,
              tx[t].key, writes)
  BY DEF Drops
<1>2. tx[t].todo \in [Id -> RowOrAbsent] /\ tx[t].writes \in [Id -> RowOrAbsent \cup {Keep}]
  BY Amid, Fields
<1>3. i \in Id /\ tx[t].todo[i] # Absent
  BY Amid DEF Todo
<1>0. w = tx[t].writes[i] \/ ~ IsRow(w) \/ mixed' \/ w.active = FALSE
  OBVIOUS
<1> HIDE DEF i
<1>4. \A j \in Id : /\ todo[j] # Absent => tx[t].todo[j] # Absent
                    /\ writes[j] = IF j = i THEN w ELSE tx[t].writes[j]
  BY <1>2, <1>3
<1>5. pc \in {"drop", "store", "commit"} /\ (pc = "commit" => tx[t].op \notin Uploads)
  BY DEF After
<1> HIDE DEF todo, writes, pc
<1>6. /\ tx'[t].pc = pc /\ tx'[t].op = tx[t].op /\ tx'[t].kind = tx[t].kind
      /\ tx'[t].todo = todo /\ tx'[t].base = Absent /\ tx'[t].writes = writes
      /\ OthersSame(t) /\ mixed \in BOOLEAN
  BY <1>1 DEF Becomes, OthersSame, Core, TypeOK
<1>7. RetiredOK(t)'
  BY <1>6 DEF RetiredOK
<1>8. InactiveOK(t)'
  <2>1. SUFFICES ASSUME ~ mixed', NEW j \in Id, IsRow(writes[j]), writes[j].active PROVE FALSE
    BY <1>6 DEF InactiveOK
  <2>2. ~ mixed
    BY <2>1
  <2>3. ~ (IsRow(tx[t].writes[j]) /\ tx[t].writes[j].active)
    BY <2>2 DEF Flags, InactiveOK
  <2> QED
    BY <1>0, <1>4, <2>1, <2>3
<1>9. OneReplaced(t)'
  <2>1. SUFFICES ASSUME tx[t].op \in Uploads, tx[t].kind = "promo",
                        NEW j \in Id, NEW k \in Id, Replaces(t, j)', Replaces(t, k)'
                 PROVE  j = k
    BY <1>6 DEF OneReplaced
  <2>2. \A l \in Id : Replaces(t, l)' => Replaces(t, l)
    BY <1>3, <1>4, <1>6 DEF Replaces, Locked
  <2>3. t \in Clients
    BY <2>1 DEF Core, ShapeOK, Uploads, Threads
  <2> QED
    BY <2>1, <2>2, <2>3 DEF Flags, OneReplaced
<1> QED
  BY <1>6, <1>7, <1>8, <1>9, FlagsStep

\* update() writes an inactive row unless it mixes two files.
LEMMA DeactivatedRow ==
    ASSUME Core, Flags, NEW c \in Clients, tx[c].pc = "write", NEW w, Deactivates(c, w)
    PROVE  /\ mixed => mixed'
           /\ mixed' \in BOOLEAN
           /\ w = tx[c].writes[Current(c)] \/ w \in Row
           /\ ~ mixed' /\ IsRow(w) => w = tx[c].writes[Current(c)] \/ w.active = FALSE
           /\ ~ mixed' /\ w \in Row /\ w # tx[c].writes[Current(c)] =>
                w.path = Dto(c).path /\ (tx[c].base # Absent => w.path = tx[c].base.path)
<1> DEFINE i == Current(c)  base == tx[c].base  v == View(c, i)
<1>1. c \in Threads
  BY DEF Threads
<1>2. /\ Dto(c) \in Row /\ ~ Dto(c).active /\ Dto(c).active = FALSE /\ base \in RowOrAbsent
      /\ v \in RowOrAbsent
      /\ i \in Id /\ mixed \in BOOLEAN
  <2>1. Dto(c) \in Row /\ ~ Dto(c).active
    BY <1>1, Amid, DtoTypes
  <2>2. Dto(c).active \in BOOLEAN
    BY <2>1, RowsAreRows
  <2> QED
    BY <1>1, <2>1, <2>2, Amid, Fields, ViewTypes
<1>3. v = rows[i]
  BY <1>1, Amid, CoreOf DEF WritesOK, Locked, View
<1>4. CASE w = tx[c].writes[i] /\ mixed' = mixed
  BY <1>2, <1>4
<1>5. CASE w = Dto(c) /\ base = Absent /\ mixed' = mixed
  BY <1>2, <1>5
<1>6. CASE /\ base # Absent /\ v # Absent /\ w = Merge(Dto(c), base, v)
           /\ mixed' = (mixed \/ Mixes(Dto(c), base, v))
  <2>1. base \in Row /\ v \in Row /\ w \in Row
    BY <1>2, <1>6, RowsAreRows, MergeTypes
  <2>2. /\ w.active = IF Dto(c).active # base.active THEN Dto(c).active ELSE v.active
        /\ w.path = IF Dto(c).path # base.path THEN Dto(c).path ELSE v.path
    BY <1>2, <1>6, <2>1, MergeTypes
  <2>3. mixed' \in BOOLEAN /\ (mixed => mixed')
    BY <1>2, <1>6
  <2>4. ASSUME ~ mixed' PROVE w.active = FALSE /\ w.path = Dto(c).path /\ w.path = base.path
    <3>1. ~ mixed /\ Dto(c).path = base.path /\ base.path = v.path
      BY <1>6, <2>4 DEF Mixes
    <3>2. CASE base.active
      BY <1>2, <2>2, <3>1, <3>2
    <3>3. CASE ~ base.active
      <4>1. ~ v.active
        BY <1>1, <1>3, <1>6, <3>1, <3>3 DEF Flags, RetiredOK
      <4>2. base.active = FALSE /\ v.active = FALSE
        BY <2>1, <3>3, <4>1, RowsAreRows
      <4> QED
        BY <1>2, <2>2, <3>1, <4>2
    <3> QED
      BY <3>2, <3>3
  <2> HIDE DEF base, v, i
  <2> QED
    BY <2>1, <2>3, <2>4 DEF base
<1> QED
  BY <1>4, <1>5, <1>6 DEF Deactivates

\* update() writes inactive rows, unless it mixes files.
LEMMA DeactivateRowFlags ==
    ASSUME Core, Flags, NEW c \in Clients, DeactivateRow(c)
    PROVE  Flags'
<1>1. tx[c].pc = "write" /\ rows' = rows /\ c \in Threads /\ TypeOK
  BY DEF DeactivateRow, Threads, Core
<1>2. CASE Ends(c) /\ mixed' = mixed
  BY <1>1, <1>2, FlagsEnd
<1>3. ASSUME NEW w, Deactivates(c, w), Drops(c, "store", w) PROVE Flags'
  BY <1>1, <1>3, DeactivatedRow, FlagsDrops
<1> QED
  BY <1>1, <1>2, <1>3, DeactivateRowPost

\* The new row is the active one.
LEMMA InsertRowFlags ==
    ASSUME Core, Flags, NEW c \in Clients, InsertRow(c)
    PROVE  Flags'
<1> DEFINE k == tx[c].key
           writes == [tx[c].writes EXCEPT ![k] = NewRow(c)]
<1>1. /\ c \in Threads /\ TypeOK /\ ShapeOK(c) /\ rows' = rows /\ mixed' = mixed /\ tx[c].pc = "insert"
      /\ mixed \in BOOLEAN
  BY DEF InsertRow, dbFrame, Threads, Core, TypeOK
<1>2. CASE Ends(c)
  BY <1>1, <1>2, FlagsEnd
<1>3. CASE Becomes(c, "commit", tx[c].op, tx[c].owner, tx[c].kind, tx[c].size, tx[c].todo, tx[c].base,
                   tx[c].path, k, writes)
  <2>1. k \in Id /\ tx[c].writes \in [Id -> RowOrAbsent \cup {Keep}]
    BY <1>1, Fields DEF ShapeOK
  <2>2. \A i \in Id : i # k => writes[i] = tx[c].writes[i]
    BY <2>1
  <2> HIDE DEF writes
  <2>3. /\ tx'[c].pc = "commit" /\ tx'[c].op = tx[c].op /\ tx'[c].kind = tx[c].kind
        /\ tx'[c].todo = tx[c].todo /\ tx'[c].key = k /\ tx'[c].writes = writes /\ OthersSame(c)
    BY <1>3 DEF Becomes, OthersSame
  <2>4. RetiredOK(c)'
    BY <2>3 DEF RetiredOK
  <2>5. InactiveOK(c)'
    BY <1>1, <2>2, <2>3 DEF InactiveOK, Flags
  <2>6. OneReplaced(c)'
    <3>1. \A i \in Id : Replaces(c, i)' => Replaces(c, i)
      BY <1>1, <2>2, <2>3 DEF Replaces, Locked
    <3> QED
      BY <2>3, <3>1 DEF OneReplaced, Flags
  <2> QED
    BY <1>1, <2>3, <2>4, <2>5, <2>6, FlagsStep
<1> QED
  BY <1>1, <1>2, <1>3, InsertRowPost

\* What a commit can make active again: nothing but the new file.
LEMMA CommittedActive ==
    ASSUME Core, Flags, ~ mixed, NEW t \in Threads, Commit(t), NEW i \in Id,
           rows'[i] # Absent, rows'[i].active
    PROVE  \/ rows'[i] = rows[i] /\ ~ Locked(t, i)
           \/ /\ t \in Clients /\ tx[t].op \in Uploads /\ tx[t].path # 0 /\ rows'[i] = NewRow(t)
              /\ i = tx[t].key
<1>1. /\ TypeOK /\ ShapeOK(t) /\ WritesOK(t) /\ tx[t].pc = "commit"
      /\ (t \in Clients => NewRowOK(t)) /\ (t # Purger => t \in Clients)
  BY CoreOf DEF Commit
<1>2. CASE ~ Locked(t, i)
  BY <1>2, CommittedRow
<1>3. CASE Locked(t, i)
  <2>1. rows'[i] = tx[t].writes[i] /\ tx[t].writes[i] # Keep
    BY <1>3, CommittedRow DEF Locked
  <2>2. IsRow(tx[t].writes[i]) /\ tx[t].writes[i].active
    BY <2>1 DEF IsRow
  <2>3. i = tx[t].key
    BY <2>2 DEF Flags, InactiveOK
  <2>4. tx[t].op \in Uploads
    BY <1>1, <1>3, <2>2 DEF WritesOK, IsRow
  <2>5. t \in Clients
    BY <1>1, <2>4 DEF ShapeOK, Uploads
  <2> QED
    BY <1>1, <2>1, <2>3, <2>4, <2>5 DEF NewRowOK, ShapeOK
<1> QED
  BY <1>2, <1>3

\* commit() makes no file active but the new one.
LEMMA CommitFlags ==
    ASSUME Core, Paths, Flags, NEW t \in Threads, Commit(t)
    PROVE  Flags'
<1>1. /\ TypeOK /\ mixed' = mixed /\ OthersSame(t) /\ tx'[t] = Idle
      /\ \A u \in Threads \ {t} : tx'[u] = tx[u]
  BY CommitPost DEF Core, Commit, Ends, OthersSame
<1>2. tx'[t].pc = "idle" /\ tx'[t].op = "purge" /\ \A i \in Id : tx'[t].writes[i] = Keep
  BY <1>1, IdleIs DEF NoWrites
<1>3. RetiredOK(t)' /\ InactiveOK(t)' /\ OneReplaced(t)'
  BY <1>2 DEF RetiredOK, InactiveOK, OneReplaced, Uploads, IsRow
<1>4. ASSUME NEW u \in Threads, u # t PROVE RetiredOK(u)'
  <2> DEFINE i == Current(u)
  <2>1. tx'[u] = tx[u] /\ Current(u)' = Current(u) /\ RetiredOK(u)
    BY <1>1, <1>4 DEF Flags, Current, Todo
  <2>2. SUFFICES ASSUME ~ mixed, tx[u].pc = "write", tx[u].base # Absent, ~ tx[u].base.active,
                        rows'[i] # Absent, rows'[i].path = tx[u].base.path, rows'[i].active
                 PROVE  FALSE
    <3> HIDE DEF i
    <3> QED
      BY <1>1, <2>1 DEF RetiredOK, i
  <2>3. i \in Id
    BY <2>2, Amid
  <2>4. ~ (rows'[i] = rows[i])
    BY <2>1, <2>2 DEF RetiredOK
  <2> HIDE DEF i
  <2>5. /\ t \in Clients /\ tx[t].path # 0 /\ rows'[i] = NewRow(t)
    BY <2>2, <2>3, <2>4, CommittedActive
  <2>6. tx[t].path \in Id /\ tx[u].base.path = tx[t].path
    <3>1. NewRow(t).path = tx[t].path
      BY DEF NewRow
    <3>2. tx[t].path \in Id \cup {0}
      BY <1>1, Fields
    <3>3. tx[u].base.path = tx[t].path
      BY <2>2, <2>5, <3>1
    <3> QED
      BY <2>5, <3>2, <3>3
  <2>7. ~ Names(u, tx[t].path)
    BY <1>4, <2>6 DEF Paths, FreshOK
  <2> QED
    BY <2>2, <2>6, <2>7 DEF Names
<1>5. ASSUME NEW u \in Threads, u # t PROVE InactiveOK(u)'
  BY <1>1, <1>5 DEF Flags, InactiveOK
<1>6. ASSUME NEW c \in Clients, c # t PROVE OneReplaced(c)'
  <2>1. c \in Threads \ {t} /\ OneReplaced(c)
    BY <1>6 DEF Threads, Flags
  <2> QED
    BY <1>1, <2>1 DEF OneReplaced, Replaces, Locked
<1> QED
  BY <1>3, <1>4, <1>5, <1>6 DEF Flags

\* The steps that requests and the purge have in common.
LEMMA DropStepFlags ==
    ASSUME Core, Paths, Flags, NEW t \in Threads, DropStep(t)
    PROVE  Flags'
<1>1. TypeOK
  BY DEF Core
<1>2. CASE DropFile(t)
  <2>1. At(t, "select") /\ rows' = rows /\ mixed' = mixed /\ tx[t].pc # "commit"
    BY <1>1, <1>2, DropFilePost DEF DropFile
  <2> QED
    BY <2>1, FlagsMove DEF At
<1>3. CASE SelectRow(t)
  <2> DEFINE v == View(t, Current(t))
  <2>1. Becomes(t, "write", tx[t].op, tx[t].owner, tx[t].kind, tx[t].size, tx[t].todo, v, tx[t].path,
                tx[t].key, tx[t].writes)
        /\ rows' = rows /\ mixed' = mixed /\ tx[t].pc = "select"
    BY <1>1, <1>3, SelectRowPost DEF SelectRow, dbFrame
  <2>2. v = rows[Current(t)]
    BY <2>1, Amid, CoreOf DEF WritesOK, Locked, View
  <2> HIDE DEF v
  <2> QED
    BY <2>1, <2>2, FlagsMove
<1>4. CASE DeleteRow(t)
  <2>1. PICK w : Deletes(t, w) /\ Drops(t, "commit", w)
    BY <1>1, <1>4, DeleteRowPost
  <2>2. tx[t].pc = "write" /\ rows' = rows /\ mixed' = mixed /\ tx[t].op \notin Uploads
        /\ mixed \in BOOLEAN
    BY <1>1, <1>4 DEF DeleteRow, dbFrame, Uploads, TypeOK
  <2>3. IsRow(w) => w = tx[t].writes[Current(t)]
    BY <2>1 DEF Deletes, IsRow
  <2> QED
    BY <2>1, <2>2, <2>3, FlagsDrops
<1>5. CASE Commit(t)
  BY <1>5, CommitFlags
<1>6. CASE Fail(t)
  BY <1>1, <1>6, FailPost, FlagsEnd DEF Fail
<1> QED
  BY <1>2, <1>3, <1>4, <1>5, <1>6 DEF DropStep

\* A promo file replaces nothing but what replace_file names.
LEMMA ListSlotFlags ==
    ASSUME Core, Flags, NEW c \in Clients, ListSlot(c)
    PROVE  Flags'
<1>1. TypeOK /\ c \in Threads /\ WritesOK(c) /\ tx[c].pc = "list" /\ rows' = rows /\ mixed' = mixed
      /\ mixed \in BOOLEAN
  BY DEF Core, Threads, ListSlot, dbFrame, TypeOK
<1>2. /\ tx'[c].pc = IF SlotIds(c) = {} THEN "store" ELSE "drop"
      /\ tx'[c].kind = tx[c].kind /\ tx'[c].todo = SlotRows(c) /\ tx'[c].writes = tx[c].writes
      /\ OthersSame(c)
  BY <1>1, ListSlotPost DEF Becomes, OthersSame
<1>3. \A i \in Id : tx[c].writes[i] = Keep
  BY <1>1 DEF WritesOK, Locked
<1>4. RetiredOK(c)' /\ InactiveOK(c)'
  BY <1>2, <1>3 DEF RetiredOK, InactiveOK, IsRow
<1>5. tx[c].kind = "promo" => \A i \in Id : SlotRows(c)[i] = Absent
  BY DEF SlotRows, SlotIds, Slot
<1>6. OneReplaced(c)'
  BY <1>2, <1>3, <1>5 DEF OneReplaced, Replaces, Locked
<1> QED
  BY <1>1, <1>2, <1>4, <1>6, FlagsStep

\* The steps of a request.
LEMMA ProceedFlags ==
    ASSUME Core, Paths, Flags, NEW c \in Clients, Proceed(c)
    PROVE  Flags'
<1>1. TypeOK /\ c \in Threads
  BY DEF Core, Threads
<1>2. CASE CheckReplacement(c)
  <2>1. rows' = rows /\ mixed' = mixed /\ tx[c].pc # "commit"
    BY <1>2 DEF CheckReplacement, dbFrame
  <2>2. CASE At(c, "drop")
    BY <1>1, <2>1, <2>2, FlagsMove DEF At
  <2> QED
    BY <1>1, <1>2, <2>1, <2>2, CheckReplacementPost, FlagsEnd
<1>3. CASE StoreFile(c)
  <2>1. rows' = rows /\ mixed' = mixed /\ tx[c].pc # "commit"
    BY <1>3 DEF StoreFile
  <2> QED
    BY <1>1, <1>3, <2>1, StoreFilePost, FlagsMove
<1>4. CASE NumberRow(c)
  <2>1. rows' = rows /\ mixed' = mixed /\ tx[c].pc # "commit"
    BY <1>4 DEF NumberRow, dbFrame
  <2> HIDE DEF NextKey
  <2> QED
    BY <1>1, <1>4, <2>1, NumberRowPost, FlagsMove
<1> QED
  BY <1>1, <1>2, <1>3, <1>4, ListSlotFlags, DeactivateRowFlags, InsertRowFlags, DropStepFlags
  DEF Proceed

\* Nothing happens.
LEMMA FlagsStutter ==
    ASSUME Flags, tx' = tx, rows' = rows, mixed' = mixed
    PROVE  Flags'
BY DEF Flags, RetiredOK, InactiveOK, OneReplaced, Replaces, Locked, Current, Todo

\* All steps.
LEMMA FlagsNext ==
    ASSUME Core, Paths, Flags, [Next]_vars
    PROVE  Flags'
<1>1. TypeOK /\ Purger \in Threads /\ \A c \in Clients : c \in Threads
  BY DEF Core, Threads
<1>2. ASSUME NEW c \in Clients, NEW o \in Owners, NEW kind \in Kinds, NEW size \in Sizes,
             BeginUpload(c, o, kind, size)
      PROVE  Flags'
  <2>1. \A i \in Id : NoRows[i] = Absent
    BY DEF NoRows
  <2>2. (IF Slot(kind) = {} THEN "store" ELSE "list") # "write"
    OBVIOUS
  <2> QED
    BY ZenonT(60), <1>1, <1>2, <2>1, <2>2, BeginUploadPost, FlagsBegin DEF BeginUpload
<1>3. ASSUME NEW c \in Clients, NEW id \in Id, NEW kind \in Kinds, NEW size \in Sizes,
             BeginReplace(c, id, kind, size)
      PROVE  Flags'
  <2> DEFINE todo == [NoRows EXCEPT ![id] = rows[id]]
  <2>1. Becomes(c, "check", "replace", rows[id].owner, kind, size, todo, Absent, 0, NoId, NoWrites) /\ dbFrame
    BY <1>1, <1>3, BeginReplacePost DEF BeginReplace
  <2>2. \A i \in Id : todo[i] # Absent => i = id
    BY DEF NoRows
  <2> HIDE DEF todo
  <2> QED
    BY <1>1, <2>1, <2>2, FlagsBegin
<1>4. ASSUME NEW c \in Clients, NEW id \in Id, BeginDelete(c, id)
      PROVE  Flags'
  <2>1. Becomes(c, "drop", "delete", "none", "none", 0, [NoRows EXCEPT ![id] = rows[id]],
                Absent, 0, NoId, NoWrites) /\ dbFrame
    BY <1>1, <1>4, BeginDeletePost DEF BeginDelete
  <2> QED
    BY <1>1, <2>1, FlagsBegin DEF Uploads
<1>5. CASE BeginPurge
  <2>1. dbFrame
    BY <1>5 DEF BeginPurge
  <2> QED
    BY <1>1, <1>5, <2>1, BeginPurgePost, FlagsBegin DEF Uploads
<1>6. CASE FileExpires \/ UNCHANGED vars
  BY <1>6, FlagsStutter DEF FileExpires, vars
<1> QED
  BY <1>1, <1>2, <1>3, <1>4, <1>5, <1>6, ProceedFlags, DropStepFlags DEF Next, Request, Purge

-----------------------------------------------------------------------------
(* The promo limit. *)

\* Sets of keys are finite.
LEMMA IdSets ==
    ASSUME NEW S \in SUBSET Id
    PROVE  IsFiniteSet(S) /\ Cardinality(S) \in Nat
<1>1. IsFiniteSet(1..MaxFiles)
  BY TempFilesAssumption, FS_Interval
<1> QED
  BY <1>1, FS_Subset, FS_CardinalityType DEF Id

\* Fewer rows are not more.
LEMMA FewerIds ==
    ASSUME NEW T \in SUBSET Id, NEW S \in SUBSET T
    PROVE  Cardinality(S) <= Cardinality(T)
BY IdSets, FS_Subset

\* One more row is one more.
LEMMA OneMoreId ==
    ASSUME NEW T \in SUBSET Id, NEW x \in Id, NEW S \in SUBSET (T \cup {x})
    PROVE  Cardinality(S) <= Cardinality(T) + 1
<1>1. Cardinality(S) <= Cardinality(T \cup {x})
  BY FewerIds
<1>2. Cardinality(T \cup {x}) <= Cardinality(T) + 1
  <2>1. CASE x \in T
    <3>1. T \cup {x} = T
      BY <2>1
    <3>2. Cardinality(T \cup {x}) = Cardinality(T)
      BY <3>1
    <3> QED
      BY <3>2, IdSets
  <2>2. CASE x \notin T
    <3>1. Cardinality(T \cup {x}) = Cardinality(T) + 1
      BY <2>2, IdSets, FS_AddElement
    <3> QED
      BY <3>1, IdSets
  <2> QED
    BY <2>1, <2>2
<1>3. Cardinality(S) \in Nat /\ Cardinality(T) \in Nat /\ Cardinality(T \cup {x}) \in Nat
  <2>1. S \in SUBSET Id /\ T \cup {x} \in SUBSET Id
    OBVIOUS
  <2> QED
    BY <2>1, IdSets
<1> QED
  BY <1>1, <1>2, <1>3

\* What is counted.
LEMMA PromoTypes ==
    ASSUME NEW o \in Owners
    PROVE  /\ Unreleased(o) \in SUBSET Id /\ Unreleased(o)' \in SUBSET Id
           /\ Adding(o) \in SUBSET Clients /\ Adding(o)' \in SUBSET Clients
           /\ MaxPromo \in Nat
           /\ Cardinality(Clients) \in Nat
           /\ Cardinality(Unreleased(o)) \in Nat /\ Cardinality(Unreleased(o)') \in Nat
           /\ Cardinality(Adding(o)) \in Nat /\ Cardinality(Adding(o)') \in Nat
           /\ Cardinality(Adding(o)') <= Cardinality(Clients)
<1>1. Unreleased(o) \in SUBSET Id /\ Unreleased(o)' \in SUBSET Id
  BY DEF Unreleased, ActivePromos, ActiveOf, ActiveIds
<1>2. Adding(o) \in SUBSET Clients /\ Adding(o)' \in SUBSET Clients
  BY DEF Adding
<1> QED
  BY <1>1, <1>2, IdSets, ClientSets, TempFilesAssumption

\* Nobody joins the requests that add, and nothing is added.
LEMMA PromoSame ==
    ASSUME NEW o \in Owners, PromoFor(o), mixed => mixed', Adding(o)' = Adding(o),
           Unreleased(o)' \subseteq Unreleased(o)
    PROVE  PromoFor(o)'
<1>1. Cardinality(Unreleased(o)') <= Cardinality(Unreleased(o))
  BY PromoTypes, FewerIds
<1> QED
  BY <1>1, PromoTypes DEF PromoFor

\* A request that adds ends: with its file, or without what it was to replace.
LEMMA PromoLeaves ==
    ASSUME NEW o \in Owners, PromoFor(o), mixed => mixed', NEW c \in Adding(o), Adding(o)' = Adding(o) \ {c},
           NEW x \in Id, Unreleased(o)' \subseteq Unreleased(o) \cup {x}
    PROVE  PromoFor(o)'
<1>1. Cardinality(Unreleased(o)') <= Cardinality(Unreleased(o)) + 1
  BY PromoTypes, OneMoreId
<1>2. Cardinality(Adding(o)') = Cardinality(Adding(o)) - 1
  BY PromoTypes, ClientSets
<1> QED
  BY <1>1, <1>2, PromoTypes DEF PromoFor

\* A request joins when there is room for its file.
LEMMA PromoJoins ==
    ASSUME NEW o \in Owners, Cardinality(Unreleased(o)') + 1 <= MaxPromo
    PROVE  PromoFor(o)'
BY PromoTypes DEF PromoFor

\* Steps of others do not change what a request releases.
LEMMA ReleasesKept ==
    ASSUME NEW o \in Owners, NEW c, NEW i, tx'[c] = tx[c], rows'[i] = rows[i]
    PROVE  Releases(c, i)' = Releases(c, i) /\ Adds(c, o)' = Adds(c, o)
BY DEF Releases, Adds, Locked

\* The count does not grow when no request joins and no file becomes unreleased.
LEMMA PromoKept ==
    ASSUME NEW o \in Owners, PromoFor(o), NEW t \in Threads, OthersSame(t), rows' = rows, mixed => mixed',
           Adds(t, o)' = Adds(t, o), mixed \in BOOLEAN, mixed' \in BOOLEAN,
           \A i \in ActivePromos(o) : Adds(t, o) /\ Releases(t, i) => Releases(t, i)' \/ mixed'
    PROVE  PromoFor(o)'
<1>1. \A u \in Threads \ {t} : tx'[u] = tx[u]
  BY DEF OthersSame
<1>2. ASSUME NEW c \in Clients PROVE Adds(c, o)' = Adds(c, o)
  BY <1>1 DEF Adds, Threads
<1>3. Adding(o)' = Adding(o)
  BY <1>2 DEF Adding
<1>4. CASE mixed'
  BY <1>4 DEF PromoFor
<1>5. CASE ~ mixed'
  <2>1. Unreleased(o)' \subseteq Unreleased(o)
    <3>1. SUFFICES ASSUME NEW i \in Unreleased(o)' PROVE i \in Unreleased(o)
      OBVIOUS
    <3>2. i \in ActivePromos(o) /\ \A c \in Adding(o) : ~ Releases(c, i)'
      BY <1>3, <3>1 DEF Unreleased, ActivePromos, ActiveOf, ActiveIds
    <3>3. ASSUME NEW c \in Adding(o), Releases(c, i) PROVE FALSE
      <4>1. CASE c = t
        BY <1>5, <3>2, <3>3, <4>1 DEF Adding
      <4>2. CASE c # t
        <5>1. tx'[c] = tx[c]
          BY <1>1, <4>2 DEF Adding, Threads
        <5> QED
          BY <3>2, <3>3, <5>1, ReleasesKept
      <4> QED
        BY <4>1, <4>2
    <3> QED
      BY <3>2, <3>3 DEF Unreleased
  <2> QED
    BY <1>3, <2>1, PromoSame
<1> QED
  BY <1>4, <1>5

\* A request that ends gives back the file it would have replaced, and its own place.
LEMMA PromoEnd ==
    ASSUME NEW o \in Owners, Core, Flags, PromoFor(o), NEW t \in Threads, Ends(t), rows' = rows,
           mixed' = mixed
    PROVE  PromoFor(o)'
<1>1. /\ OthersSame(t) /\ tx'[t].op = "purge" /\ TypeOK /\ ShapeOK(t)
      /\ \A u \in Threads \ {t} : tx'[u] = tx[u]
  BY IdleIs DEF Ends, OthersSame, Core
<1>2. ~ Adds(t, o)'
  BY <1>1 DEF Adds, Uploads
<1>3. CASE ~ Adds(t, o)
  <2>1. Adds(t, o)' = Adds(t, o)
    BY <1>2, <1>3 DEF Adds
  <2>2. mixed \in BOOLEAN /\ mixed' \in BOOLEAN
    BY <1>1 DEF TypeOK
  <2> QED
    BY <1>1, <1>3, <2>1, <2>2, PromoKept
<1>4. CASE Adds(t, o)
  <2>1. t \in Clients /\ t \in Adding(o) /\ Adding(o)' = Adding(o) \ {t}
    <3>1. t \in Clients
      BY <1>1, <1>4 DEF ShapeOK, Adds, Uploads, Threads
    <3>2. \A c \in Clients \ {t} : Adds(c, o)' = Adds(c, o)
      BY <1>1 DEF Adds, Threads
    <3> QED
      BY <1>2, <1>4, <3>1, <3>2 DEF Adding
  <2>2. ASSUME NEW i \in Unreleased(o)', i \notin Unreleased(o) PROVE Replaces(t, i)
    <3>1. i \in ActivePromos(o)
      BY <2>2 DEF Unreleased, ActivePromos, ActiveOf, ActiveIds
    <3>2. PICK c \in Adding(o) : Releases(c, i)
      BY <2>2, <3>1 DEF Unreleased
    <3>3. c = t
      <4>1. SUFFICES ASSUME c # t PROVE FALSE
        OBVIOUS
      <4>2. tx'[c] = tx[c] /\ c \in Adding(o)'
        BY <1>1, <2>1, <4>1 DEF Adding, Threads
      <4>3. Releases(c, i)'
        BY <3>2, <4>2, ReleasesKept
      <4> QED
        BY <2>2, <4>2, <4>3 DEF Unreleased
    <3>4. CASE tx[t].todo[i] # Absent
      BY <3>4 DEF Replaces
    <3>5. CASE Locked(t, i)
      <4>1. SUFFICES ASSUME tx[t].pc = "commit", i = tx[t].key PROVE FALSE
        BY <3>5 DEF Replaces
      <4>2. rows[i] = Absent
        BY <1>4, <2>1, <4>1 DEF Core, NewRowOK, Adds
      <4> QED
        BY <3>1, <4>2 DEF ActivePromos, ActiveOf, ActiveIds
    <3> QED
      BY <3>2, <3>3, <3>4, <3>5 DEF Releases
  <2>3. CASE Unreleased(o)' \subseteq Unreleased(o)
    <3>1. CASE Id = {}
      <4>1. Unreleased(o)' = {} /\ Unreleased(o) = {}
        BY <3>1, PromoTypes
      <4>2. Cardinality(Adding(o)') = Cardinality(Adding(o)) - 1
        BY <2>1, PromoTypes, ClientSets
      <4>3. Cardinality(Unreleased(o)') = Cardinality(Unreleased(o))
        BY <4>1
      <4>4. mixed => mixed'
        OBVIOUS
      <4>5. /\ Cardinality(Unreleased(o)) \in Nat /\ Cardinality(Adding(o)) \in Nat
            /\ Cardinality(Clients) \in Nat /\ MaxPromo \in Nat
        BY PromoTypes
      <4> QED
        BY <4>2, <4>3, <4>4, <4>5 DEF PromoFor
    <3>2. CASE Id # {}
      <4>1. PICK x \in Id : TRUE
        BY <3>2
      <4>2. Unreleased(o)' \subseteq Unreleased(o) \cup {x}
        BY <2>3
      <4> QED
        BY <2>1, <4>2, PromoLeaves
    <3> QED
      BY <3>1, <3>2
  <2>4. CASE ~ (Unreleased(o)' \subseteq Unreleased(o))
    <3>1. PICK x \in Unreleased(o)' : x \notin Unreleased(o)
      BY <2>4
    <3>2. x \in Id
      BY <3>1, PromoTypes
    <3>3. OneReplaced(t) /\ tx[t].op \in Uploads /\ tx[t].kind = "promo"
      BY <1>4, <2>1 DEF Flags, Adds
    <3>4. Unreleased(o)' \subseteq Unreleased(o) \cup {x}
      BY <2>2, <3>1, <3>2, <3>3, PromoTypes DEF OneReplaced
    <3> QED
      BY <2>1, <3>2, <3>4, PromoLeaves
  <2> QED
    BY <2>3, <2>4
<1> QED
  BY <1>3, <1>4

\* A step that leaves the list and the writes alone.
LEMMA PromoMove ==
    ASSUME NEW o \in Owners, Core, PromoFor(o), NEW t \in Threads, NEW base, NEW path, NEW key,
           NEW pc \in {"drop", "select", "store", "number", "insert"},
           Becomes(t, pc, tx[t].op, tx[t].owner, tx[t].kind, tx[t].size, tx[t].todo, base, path, key,
                   tx[t].writes),
           tx[t].pc \in {"drop", "store", "number"},
           tx[t].pc = "drop" => pc \in {"drop", "select"},
           rows' = rows, mixed' = mixed
    PROVE  PromoFor(o)'
<1>1. /\ tx'[t].pc = pc /\ tx'[t].op = tx[t].op /\ tx'[t].owner = tx[t].owner /\ tx'[t].kind = tx[t].kind
      /\ tx'[t].todo = tx[t].todo /\ tx'[t].writes = tx[t].writes /\ OthersSame(t)
  BY DEF Becomes, OthersSame
<1>2. Adds(t, o)' = Adds(t, o) /\ mixed \in BOOLEAN
  BY <1>1 DEF Adds, Core, TypeOK
<1>3. \A i \in Id : Releases(t, i) => Releases(t, i)'
  BY <1>1 DEF Releases, Locked
<1>4. \A i \in ActivePromos(o) : Adds(t, o) /\ Releases(t, i) => Releases(t, i)' \/ mixed'
  BY <1>3 DEF ActivePromos, ActiveOf, ActiveIds
<1> QED
  BY <1>1, <1>2, <1>4, PromoKept

\* A step of a transaction that does not add.
LEMMA PromoOther ==
    ASSUME NEW o \in Owners, Core, PromoFor(o), NEW t \in Threads, OthersSame(t), rows' = rows,
           mixed => mixed',
           mixed' \in BOOLEAN, ~ Adds(t, o), ~ Adds(t, o)'
    PROVE  PromoFor(o)'
<1>1. Adds(t, o)' = Adds(t, o) /\ mixed \in BOOLEAN
  BY DEF Adds, Core, TypeOK
<1> QED
  BY <1>1, PromoKept

\* The limit, as the requests that add read it.
LEMMA FitsLimits ==
    ASSUME NEW o \in Owners, NEW replaced, NEW size, "promo" \in Kinds,
           Fits(Staying(o, replaced, "promo"), "promo", size)
    PROVE  Cardinality(ActivePromos(o) \ {replaced}) + 1 <= MaxPromo
<1>1. Module = "wb"
  BY DEF Kinds
<1>2. {i \in Staying(o, replaced, "promo") : rows[i].kind = "promo"} = ActivePromos(o) \ {replaced}
  BY DEF Staying, Slot, ActivePromos
<1> QED
  BY <1>1, <1>2 DEF Fits

\* upload_file counts the files it sees: the others that are about to add one are
\* at most all the other clients.
LEMMA BeginUploadPromo ==
    ASSUME NEW o \in Owners, Core, PromoFor(o), NEW c \in Clients, NEW owner \in Owners,
           NEW kind \in Kinds, NEW size \in Sizes, BeginUpload(c, owner, kind, size)
    PROVE  PromoFor(o)'
<1>1. c \in Threads /\ TypeOK /\ ShapeOK(c) /\ tx[c].pc = "idle" /\ dbFrame
  BY DEF Threads, Core, BeginUpload
<1>2. tx'[c].op = "upload" /\ tx'[c].owner = owner /\ tx'[c].kind = kind /\ OthersSame(c)
  BY <1>1, BeginUploadPost DEF Becomes, OthersSame
<1>3. ~ Adds(c, o)
  BY <1>1, IdleIs DEF Adds, ShapeOK, Uploads
<1>4. CASE owner = o /\ kind = "promo"
  <2>1. Cardinality(ActivePromos(o) \ {NoId}) + 1 <= MaxPromo
    BY <1>4, FitsLimits DEF BeginUpload
  <2>2. Unreleased(o)' \subseteq ActivePromos(o) \ {NoId}
    <3>1. NoId \notin Id
      BY TempFilesAssumption DEF Id, NoId
    <3> QED
      BY <1>1, <3>1 DEF Unreleased, ActivePromos, ActiveOf, ActiveIds, dbFrame
  <2>3. ActivePromos(o) \ {NoId} \in SUBSET Id
    BY DEF ActivePromos, ActiveOf, ActiveIds
  <2>4. /\ Cardinality(Unreleased(o)') <= Cardinality(ActivePromos(o) \ {NoId})
        /\ Cardinality(ActivePromos(o) \ {NoId}) \in Nat
    BY <2>2, <2>3, FewerIds, IdSets
  <2> QED
    BY <2>1, <2>4, PromoTypes, PromoJoins
<1>5. CASE ~ (owner = o /\ kind = "promo")
  BY <1>1, <1>2, <1>3, <1>5, PromoOther DEF Adds, dbFrame, TypeOK
<1> QED
  BY <1>4, <1>5

\* replace_file counts all promo files but the one it replaces.
LEMMA CheckReplacementPromo ==
    ASSUME NEW o \in Owners, Core, Flags, PromoFor(o), NEW c \in Clients, CheckReplacement(c)
    PROVE  PromoFor(o)'
<1>1. /\ c \in Threads /\ TypeOK /\ ShapeOK(c) /\ tx[c].pc = "check" /\ dbFrame
      /\ rows' = rows /\ mixed' = mixed /\ mixed \in BOOLEAN
  BY DEF Threads, Core, CheckReplacement, dbFrame, TypeOK
<1>2. CASE Ends(c)
  BY <1>1, <1>2, PromoEnd
<1>3. CASE Fits(Staying(tx[c].owner, Current(c), tx[c].kind), tx[c].kind, tx[c].size) /\ At(c, "drop")
  <2>1. /\ tx'[c].pc = "drop" /\ tx'[c].op = tx[c].op /\ tx'[c].owner = tx[c].owner
        /\ tx'[c].kind = tx[c].kind
        /\ tx'[c].todo = tx[c].todo /\ OthersSame(c)
    BY <1>3 DEF At, Becomes, OthersSame
  <2>2. ~ Adds(c, o)
    BY <1>1 DEF Adds
  <2>3. CASE tx[c].owner = o /\ tx[c].kind = "promo"
    <3>0. PICK r : r = Current(c)
      OBVIOUS
    <3>1. r \in Id /\ r \in Todo(c) /\ tx[c].op \in Uploads /\ tx[c].kind \in Kinds
      BY <1>1, <3>0, CurrentIsFirst DEF ShapeOK, Dropping
    <3>2. Cardinality(ActivePromos(o) \ {r}) + 1 <= MaxPromo
      BY <1>3, <2>3, <3>0, <3>1, FitsLimits
    <3>3. Unreleased(o)' \subseteq ActivePromos(o) \ {r}
      <4>1. ActivePromos(o)' = ActivePromos(o)
        BY <1>1 DEF ActivePromos, ActiveOf, ActiveIds
      <4>2. c \in Adding(o)'
        BY <2>1, <2>3, <3>1 DEF Adding, Adds
      <4>3. Releases(c, r)'
        BY <2>1, <3>1 DEF Releases, Todo
      <4>4. Unreleased(o)' \subseteq ActivePromos(o)'
        BY DEF Unreleased
      <4>5. r \notin Unreleased(o)'
        BY <4>2, <4>3 DEF Unreleased
      <4> QED
        BY <4>1, <4>4, <4>5
    <3>4. ActivePromos(o) \ {r} \in SUBSET Id
      BY DEF ActivePromos, ActiveOf, ActiveIds
    <3>5. /\ Cardinality(Unreleased(o)') <= Cardinality(ActivePromos(o) \ {r})
          /\ Cardinality(ActivePromos(o) \ {r}) \in Nat
      BY <3>3, <3>4, FewerIds, IdSets
    <3> QED
      BY <3>2, <3>5, PromoTypes, PromoJoins
  <2>4. CASE ~ (tx[c].owner = o /\ tx[c].kind = "promo")
    BY <1>1, <2>1, <2>2, <2>4, PromoOther DEF Adds
  <2> QED
    BY <2>3, <2>4
<1> QED
  BY <1>1, <1>2, <1>3, CheckReplacementPost

\* The slot of a price file has no promo files.
LEMMA ListSlotPromo ==
    ASSUME NEW o \in Owners, Core, PromoFor(o), NEW c \in Clients, ListSlot(c)
    PROVE  PromoFor(o)'
<1>1. TypeOK /\ c \in Threads /\ WritesOK(c) /\ tx[c].pc = "list" /\ rows' = rows /\ mixed' = mixed
      /\ mixed \in BOOLEAN
  BY DEF Core, Threads, ListSlot, dbFrame, TypeOK
<1>2. /\ tx'[c].pc = (IF SlotIds(c) = {} THEN "store" ELSE "drop") /\ tx'[c].op = tx[c].op
      /\ tx'[c].owner = tx[c].owner /\ tx'[c].kind = tx[c].kind /\ OthersSame(c)
  BY <1>1, ListSlotPost DEF Becomes, OthersSame
<1>3. \A i \in Id : ~ Releases(c, i)
  BY <1>1 DEF WritesOK, Locked, Releases
<1>4. Adds(c, o)' = Adds(c, o)
  BY <1>1, <1>2 DEF Adds
<1>5. \A i \in ActivePromos(o) : ~ Releases(c, i)
  BY <1>3 DEF ActivePromos, ActiveOf, ActiveIds
<1> QED
  BY <1>1, <1>2, <1>4, <1>5, PromoKept

\* What is dropped next is the file that is replaced.
LEMMA ReplacesCurrent ==
    ASSUME NEW o \in Owners, Core, Flags, NEW c \in Threads, Adds(c, o),
           tx[c].pc \in {"select", "write"}, NEW i \in Id,
           tx[c].todo[i] # Absent
    PROVE  i = Current(c)
<1>1. c \in Clients
  BY DEF Core, ShapeOK, Adds, Uploads, Threads
<1>2. Current(c) \in Id /\ tx[c].todo[Current(c)] # Absent
  BY Amid DEF Todo
<1>3. \A j, k \in Id : tx[c].todo[j] # Absent /\ tx[c].todo[k] # Absent => j = k
  BY <1>1 DEF Flags, OneReplaced, Replaces, Adds
<1> HIDE DEF Current
<1> QED
  BY <1>2, <1>3

\* A row that has changed its file since the copy is no longer released: the
\* transaction that gave it the file had counted it.
LEMMA SelectRowPromo ==
    ASSUME NEW o \in Owners, Core, Flags, PromoFor(o), NEW t \in Threads, SelectRow(t)
    PROVE  PromoFor(o)'
<1> DEFINE v == View(t, Current(t))
<1>1. /\ TypeOK
      /\ Becomes(t, "write", tx[t].op, tx[t].owner, tx[t].kind, tx[t].size, tx[t].todo, v,
                 tx[t].path,
              tx[t].key, tx[t].writes)
      /\ rows' = rows /\ mixed' = mixed /\ mixed \in BOOLEAN /\ tx[t].pc = "select"
  BY SelectRowPost DEF SelectRow, dbFrame, Core, TypeOK
<1>2. v = rows[Current(t)]
  BY <1>1, Amid, CoreOf DEF WritesOK, Locked, View
<1> HIDE DEF v
<1>3. /\ tx'[t].pc = "write" /\ tx'[t].op = tx[t].op /\ tx'[t].owner = tx[t].owner /\ tx'[t].kind = tx[t].kind
      /\ tx'[t].todo = tx[t].todo /\ tx'[t].base = v /\ tx'[t].writes = tx[t].writes
      /\ OthersSame(t)
  BY <1>1 DEF Becomes, OthersSame
<1>4. Adds(t, o)' = Adds(t, o)
  BY <1>1, <1>3 DEF Adds
<1>5. ASSUME NEW i \in ActivePromos(o), Adds(t, o), Releases(t, i) PROVE Releases(t, i)'
  <2>1. i \in Id /\ rows[i] # Absent
    BY DEF ActivePromos, ActiveOf, ActiveIds
  <2>2. CASE Locked(t, i)
    BY <1>3, <2>2 DEF Releases, Locked
  <2>3. CASE tx[t].todo[i] # Absent
    <3>1. i = Current(t)
      BY <1>1, <1>5, <2>1, <2>3, ReplacesCurrent
    <3>2. v = rows[i]
      BY <1>2, <3>1
    <3> QED
      BY <1>1, <1>3, <2>1, <2>3, <3>2 DEF Releases
  <2> QED
    BY <1>1, <1>5, <2>2, <2>3 DEF Releases
<1> QED
  BY <1>1, <1>3, <1>4, <1>5, PromoKept

\* update() writes the row it has released.
LEMMA DeactivateRowPromo ==
    ASSUME NEW o \in Owners, Core, Flags, PromoFor(o), NEW c \in Clients, DeactivateRow(c)
    PROVE  PromoFor(o)'
<1>1. tx[c].pc = "write" /\ rows' = rows /\ c \in Threads /\ TypeOK /\ mixed \in BOOLEAN
      /\ tx[c].op \in Uploads
  BY DEF DeactivateRow, Threads, Core, TypeOK, Uploads
<1>2. CASE Ends(c) /\ mixed' = mixed
  BY <1>1, <1>2, PromoEnd
<1>3. ASSUME NEW w, Deactivates(c, w), Drops(c, "store", w) PROVE PromoFor(o)'
  <2> DEFINE i      == Current(c)
             todo   == [tx[c].todo EXCEPT ![i] = Absent]
             writes == [tx[c].writes EXCEPT ![i] = w]
             pc     == After(c, i, "store")
  <2>1. Becomes(c, pc, tx[c].op, tx[c].owner, tx[c].kind, tx[c].size, todo, Absent, tx[c].path,
                tx[c].key, writes)
    BY <1>3 DEF Drops
  <2>2. tx[c].writes \in [Id -> RowOrAbsent \cup {Keep}] /\ i \in Id /\ i \in Todo(c)
    BY <1>1, Amid, Fields
  <2>3. (mixed => mixed') /\ mixed' \in BOOLEAN /\ (w = tx[c].writes[i] \/ w \in Row)
    BY <1>1, <1>3, DeactivatedRow
  <2>4. ASSUME ~ mixed', Adds(c, o), NEW j \in ActivePromos(o), Releases(c, j) PROVE writes[j] # Keep
    <3>1. j \in Id /\ rows[j] # Absent /\ rows[j].active
      BY DEF ActivePromos, ActiveOf, ActiveIds
    <3>2. CASE Locked(c, j)
      <4>1. w = tx[c].writes[i] \/ w # Keep
        BY <2>3, RowsAreRows
      <4>2. writes[j] = IF j = i THEN w ELSE tx[c].writes[j]
        BY <2>2, <3>1
      <4> QED
        BY <3>2, <4>1, <4>2 DEF Locked
    <3>3. CASE tx[c].todo[j] # Absent /\ tx[c].base # Absent /\ tx[c].base.path = rows[j].path
      <4>1. j = i
        BY <1>1, <2>4, <3>1, <3>3, ReplacesCurrent
      <4>2. ~ mixed /\ Dto(c).active = FALSE
        <5>1. Dto(c) \in Row /\ ~ Dto(c).active
          BY <1>1, Amid, DtoTypes
        <5>2. Dto(c).active \in BOOLEAN
          BY <5>1, RowsAreRows
        <5> QED
          BY <2>3, <2>4, <5>1, <5>2
      <4>3. tx[c].base # Dto(c)
        <5>1. SUFFICES ASSUME tx[c].base = Dto(c) PROVE FALSE
          OBVIOUS
        <5>2. tx[c].base.active = FALSE
          BY <4>2, <5>1
        <5> QED
          BY <1>1, <3>1, <3>3, <4>1, <4>2, <5>2 DEF Flags, RetiredOK
      <4>4. w \in Row
        <5>1. tx[c].base \in Row /\ Dto(c) \in Row
          BY <1>1, <3>3, Amid, Fields, RowsAreRows, DtoTypes
        <5>2. View(c, i) # Absent => Merge(Dto(c), tx[c].base, View(c, i)) \in Row
          BY <1>1, <2>2, <5>1, ViewTypes, RowsAreRows, MergeTypes
        <5> QED
          BY <1>3, <3>3, <4>3, <5>2 DEF Deactivates
      <4> QED
        BY <2>2, <4>1, <4>4, RowsAreRows
    <3> QED
      BY <1>1, <2>4, <3>2, <3>3 DEF Releases
  <2>5. pc \in {"drop", "store"}
    BY DEF After
  <2> HIDE DEF writes, todo, pc, i
  <2>6. /\ tx'[c].pc = pc /\ tx'[c].op = tx[c].op /\ tx'[c].owner = tx[c].owner /\ tx'[c].kind = tx[c].kind
        /\ tx'[c].writes = writes /\ OthersSame(c)
    BY <2>1 DEF Becomes, OthersSame
  <2>7. Adds(c, o)' = Adds(c, o)
    BY <1>1, <2>5, <2>6 DEF Adds
  <2>8. \A j \in ActivePromos(o) : Adds(c, o) /\ Releases(c, j) => Releases(c, j)' \/ mixed'
    BY <2>4, <2>6 DEF Releases, Locked
  <2> QED
    BY <1>1, <2>3, <2>6, <2>7, <2>8, PromoKept
<1> QED
  BY <1>1, <1>2, <1>3, DeactivateRowPost

\* The new row does not count before it is committed.
LEMMA InsertRowPromo ==
    ASSUME NEW o \in Owners, Core, Flags, PromoFor(o), NEW c \in Clients, InsertRow(c)
    PROVE  PromoFor(o)'
<1> DEFINE k == tx[c].key
           writes == [tx[c].writes EXCEPT ![k] = NewRow(c)]
<1>1. /\ c \in Threads /\ TypeOK /\ ShapeOK(c) /\ rows' = rows /\ mixed' = mixed /\ tx[c].pc = "insert"
      /\ mixed \in BOOLEAN
  BY DEF InsertRow, dbFrame, Threads, Core, TypeOK
<1>2. CASE Ends(c)
  BY <1>1, <1>2, PromoEnd
<1>3. CASE Becomes(c, "commit", tx[c].op, tx[c].owner, tx[c].kind, tx[c].size, tx[c].todo, tx[c].base,
                   tx[c].path, k, writes)
  <2>1. k \in Id /\ tx[c].writes \in [Id -> RowOrAbsent \cup {Keep}]
    BY <1>1, Fields DEF ShapeOK
  <2>2. NewRow(c) # Keep
    <3>1. NewRow(c) \in Row
      BY <1>1, Fields DEF ShapeOK, NewRow, Row
    <3> QED
      BY <3>1, RowsAreRows
  <2>3. \A i \in Id : writes[i] = Keep => tx[c].writes[i] = Keep
    BY <2>1, <2>2
  <2> HIDE DEF writes
  <2>4. /\ tx'[c].pc = "commit" /\ tx'[c].op = tx[c].op /\ tx'[c].owner = tx[c].owner
        /\ tx'[c].kind = tx[c].kind
        /\ tx'[c].writes = writes /\ OthersSame(c)
    BY <1>3 DEF Becomes, OthersSame
  <2>5. Adds(c, o)' = Adds(c, o)
    BY <1>1, <2>4 DEF Adds
  <2>6. \A i \in ActivePromos(o) : Releases(c, i) => Releases(c, i)'
    BY <1>1, <2>3, <2>4 DEF Releases, Locked, ActivePromos, ActiveOf, ActiveIds
  <2> QED
    BY <1>1, <2>4, <2>5, <2>6, PromoKept
<1> QED
  BY <1>1, <1>2, <1>3, InsertRowPost

\* The new promo file replaces its request in the count.
LEMMA CommitPromo ==
    ASSUME NEW o \in Owners, Core, Flags, PromoFor(o), NEW t \in Threads, Commit(t)
    PROVE  PromoFor(o)'
<1>1. /\ TypeOK /\ ShapeOK(t) /\ mixed' = mixed /\ tx'[t] = Idle /\ tx[t].pc = "commit"
      /\ \A u \in Threads \ {t} : tx'[u] = tx[u]
  BY CommitPost DEF Core, Commit, Ends
<1>2. ~ Adds(t, o)' /\ \A c \in Clients \ {t} : Adds(c, o)' = Adds(c, o)
  BY <1>1, IdleIs DEF Adds, Uploads, Threads
<1>3. SUFFICES ASSUME ~ mixed PROVE PromoFor(o)'
  BY <1>1 DEF PromoFor
<1>4. ASSUME NEW i \in Unreleased(o)'
      PROVE  i \in Unreleased(o) \/ (i = tx[t].key /\ Adds(t, o) /\ t \in Clients)
  <2>1. i \in Id /\ rows'[i] # Absent /\ rows'[i].active /\ rows'[i].owner = o /\ rows'[i].kind = "promo"
        /\ \A c \in Adding(o)' : ~ Releases(c, i)'
    BY <1>4 DEF Unreleased, ActivePromos, ActiveOf, ActiveIds
  <2>2. CASE rows'[i] = rows[i] /\ ~ Locked(t, i)
    <3>1. i \in ActivePromos(o)
      BY <2>1, <2>2 DEF ActivePromos, ActiveOf, ActiveIds
    <3>2. ASSUME NEW c \in Adding(o) PROVE ~ Releases(c, i)
      <4>1. CASE c = t
        BY <1>1, <2>2, <4>1 DEF Releases
      <4>2. CASE c # t
        <5>1. c \in Adding(o)' /\ tx'[c] = tx[c]
          BY <1>1, <1>2, <4>2 DEF Adding, Threads
        <5> QED
          BY <2>1, <2>2, <5>1, ReleasesKept
      <4> QED
        BY <4>1, <4>2
    <3> QED
      BY <3>1, <3>2 DEF Unreleased
  <2>3. CASE t \in Clients /\ tx[t].op \in Uploads /\ rows'[i] = NewRow(t) /\ i = tx[t].key
    <3>1. NewRow(t).owner = tx[t].owner /\ NewRow(t).kind = tx[t].kind
      BY DEF NewRow
    <3> QED
      BY <1>1, <2>1, <2>3, <3>1 DEF Adds
  <2> QED
    BY <1>3, <2>1, <2>2, <2>3, CommittedActive
<1>5. CASE t \in Adding(o)
  <2>1. Adding(o)' = Adding(o) \ {t}
    BY <1>2 DEF Adding
  <2>2. tx[t].key \in Id
    BY <1>1, <1>5, Fields DEF Core, NewRowOK, Adding, Adds
  <2>3. Unreleased(o)' \subseteq Unreleased(o) \cup {tx[t].key}
    BY <1>4
  <2> QED
    BY <1>1, <1>5, <2>1, <2>2, <2>3, PromoLeaves
<1>6. CASE t \notin Adding(o)
  <2>1. Adding(o)' = Adding(o)
    BY <1>2, <1>6 DEF Adding
  <2>2. Unreleased(o)' \subseteq Unreleased(o)
    BY <1>4, <1>6 DEF Adding
  <2> QED
    BY <1>1, <2>1, <2>2, PromoSame
<1> QED
  BY <1>5, <1>6

\* The steps that requests and the purge have in common.
LEMMA DropStepPromo ==
    ASSUME NEW o \in Owners, Core, Flags, PromoFor(o), NEW t \in Threads, DropStep(t)
    PROVE  PromoFor(o)'
<1>1. TypeOK
  BY DEF Core
<1>2. CASE DropFile(t)
  <2>1. At(t, "select") /\ rows' = rows /\ mixed' = mixed /\ tx[t].pc = "drop"
    BY <1>1, <1>2, DropFilePost DEF DropFile
  <2> QED
    BY <2>1, PromoMove DEF At
<1>3. CASE DeleteRow(t)
  <2>1. PICK w : Drops(t, "commit", w)
    BY <1>1, <1>3, DeleteRowPost
  <2>2. rows' = rows /\ mixed' = mixed /\ tx[t].op \notin Uploads /\ mixed \in BOOLEAN
    BY <1>1, <1>3 DEF DeleteRow, dbFrame, Uploads, TypeOK
  <2>3. tx'[t].op = tx[t].op /\ OthersSame(t)
    BY <2>1 DEF Drops, Becomes, OthersSame
  <2> QED
    BY <2>2, <2>3, PromoOther DEF Adds
<1>4. CASE Fail(t)
  BY <1>1, <1>4, FailPost, PromoEnd DEF Fail
<1> QED
  BY <1>2, <1>3, <1>4, SelectRowPromo, CommitPromo DEF DropStep

\* The steps of a request.
LEMMA ProceedPromo ==
    ASSUME NEW o \in Owners, Core, Flags, PromoFor(o), NEW c \in Clients, Proceed(c)
    PROVE  PromoFor(o)'
<1>1. TypeOK /\ c \in Threads
  BY DEF Core, Threads
<1>2. CASE StoreFile(c)
  <2>1. rows' = rows /\ mixed' = mixed /\ tx[c].pc = "store"
    BY <1>2 DEF StoreFile
  <2> QED
    BY <1>1, <1>2, <2>1, StoreFilePost, PromoMove
<1>3. CASE NumberRow(c)
  <2>1. rows' = rows /\ mixed' = mixed /\ tx[c].pc = "number"
    BY <1>3 DEF NumberRow, dbFrame
  <2> HIDE DEF NextKey
  <2> QED
    BY <1>1, <1>3, <2>1, NumberRowPost, PromoMove
<1> QED
  BY <1>1, <1>2, <1>3, ListSlotPromo, CheckReplacementPromo, DeactivateRowPromo, InsertRowPromo,
     DropStepPromo DEF Proceed

\* Nothing happens.
LEMMA PromoStutter ==
    ASSUME NEW o \in Owners, PromoFor(o), tx' = tx, rows' = rows, mixed' = mixed
    PROVE  PromoFor(o)'
<1>1. Adding(o)' = Adding(o)
  BY DEF Adding, Adds
<1>2. Unreleased(o)' = Unreleased(o)
  BY <1>1 DEF Unreleased, ActivePromos, ActiveOf, ActiveIds, Releases, Locked
<1> QED
  BY <1>1, <1>2 DEF PromoFor

\* All steps.
LEMMA PromoNext ==
    ASSUME NEW o \in Owners, Core, Flags, PromoFor(o), [Next]_vars
    PROVE  PromoFor(o)'
<1>1. TypeOK /\ mixed \in BOOLEAN /\ Purger \in Threads /\ \A c \in Clients : c \in Threads
  BY DEF Core, Threads, TypeOK
<1>2. ASSUME NEW t \in Threads, tx[t].pc = "idle" PROVE ~ Adds(t, o)
  <2>1. tx[t].op = "purge"
    BY <1>2, IdleIs DEF Core, ShapeOK
  <2> QED
    BY <2>1 DEF Adds, Uploads
<1>3. ASSUME NEW c \in Clients, NEW id \in Id, NEW kind \in Kinds, NEW size \in Sizes,
             BeginReplace(c, id, kind, size)
      PROVE  PromoFor(o)'
  <2>1. tx'[c].pc = "check" /\ OthersSame(c) /\ dbFrame /\ tx[c].pc = "idle"
    <3>1. Becomes(c, "check", "replace", rows[id].owner, kind, size,
                  [NoRows EXCEPT ![id] = rows[id]], Absent, 0,
                  NoId, NoWrites)
      BY <1>1, <1>3, BeginReplacePost
    <3> QED
      BY <1>3, <3>1 DEF BeginReplace, Becomes, OthersSame
  <2> QED
    BY <1>1, <1>2, <2>1, PromoOther DEF Adds, dbFrame
<1>4. ASSUME NEW c \in Clients, NEW id \in Id, BeginDelete(c, id)
      PROVE  PromoFor(o)'
  <2>1. tx'[c].op = "delete" /\ OthersSame(c) /\ dbFrame /\ tx[c].pc = "idle"
    BY <1>1, <1>4, BeginDeletePost DEF BeginDelete, Becomes, OthersSame
  <2> QED
    BY <1>1, <1>2, <2>1, PromoOther DEF Adds, dbFrame, Uploads
<1>5. CASE BeginPurge
  <2>1. tx'[Purger].op = "purge" /\ OthersSame(Purger) /\ dbFrame /\ tx[Purger].pc = "idle"
    BY <1>1, <1>5, BeginPurgePost DEF BeginPurge, Becomes, OthersSame
  <2> QED
    BY <1>1, <1>2, <2>1, PromoOther DEF Adds, dbFrame, Uploads
<1>6. CASE FileExpires \/ UNCHANGED vars
  BY <1>6, PromoStutter DEF FileExpires, vars
<1> QED
  BY <1>1, <1>3, <1>4, <1>5, <1>6, BeginUploadPromo, ProceedPromo, DropStepPromo
  DEF Next, Request, Purge

\* The table is empty at first.
LEMMA InitIInv ==
    ASSUME Init
    PROVE  IInv
<1>1. Core
  BY InitCore
<1>2. /\ rows = NoRows /\ mixed = FALSE
      /\ \A t \in Threads : tx[t].pc = "idle" /\ tx[t].op = "purge" /\ tx[t].path = 0
                            /\ tx[t].base = Absent
                            /\ \A i \in Id : tx[t].todo[i] = Absent /\ tx[t].writes[i] = Keep
  BY IdleIs DEF Init, NoRows, NoWrites
<1>3. 0 \notin Id /\ \A i \in Id : rows[i] = Absent
  BY <1>2, TempFilesAssumption DEF Id, NoRows
<1>4. \A p \in Id : ~ InTable(p) /\ \A t \in Threads : ~ Names(t, p)
  BY <1>2, <1>3 DEF InTable, Names, IsRow
<1>5. Paths
  BY <1>2, <1>3, <1>4 DEF Paths, PathsOK, FreshOK
<1>6. Flags
  BY <1>2 DEF Flags, RetiredOK, InactiveOK, OneReplaced, Uploads, IsRow, Threads
<1>7. PromoOK
  <2> SUFFICES ASSUME NEW o \in Owners PROVE PromoFor(o)
    BY DEF PromoOK
  <2>1. Adding(o) = {} /\ Unreleased(o) = {}
    BY <1>2, <1>3 DEF Adding, Adds, Uploads, Threads, Unreleased, ActivePromos, ActiveOf, ActiveIds
  <2>2. Cardinality({}) = 0
    BY FS_EmptySet
  <2>3. Cardinality(Clients) >= 1 /\ Cardinality(Clients) \in Nat
    <3>1. {} \in SUBSET Clients
      OBVIOUS
    <3> QED
      BY <3>1, ClientSets
  <2> QED
    BY <2>1, <2>2, <2>3, TempFilesAssumption DEF PromoFor
<1> QED
  BY <1>1, <1>5, <1>6, <1>7 DEF IInv

(* File names are never used twice, a file that has been deactivated is not *)
(* made active again, and every request that is to add a promo file will    *)
(* have replaced at most one (write_temp_upload, update of the repository,  *)
(* TemporaryFileService.replace_file).                                      *)
THEOREM Invariance == Spec => []IInv
<1>1. IInv /\ [Next]_vars => IInv'
  BY CoreNext, StutterCore, PathsNext, FlagsNext, PromoNext DEF IInv, PromoOK
<1> QED
  BY InitIInv, <1>1, PTL DEF Spec

\* A request that adds stands for at most one active file.
LEMMA ReleasesOne ==
    ASSUME NEW o \in Owners, Core, Flags, NEW c \in Adding(o), NEW i \in ActivePromos(o),
           NEW j \in ActivePromos(o),
           Releases(c, i), Releases(c, j)
    PROVE  i = j
<1>1. c \in Clients /\ Adds(c, o) /\ OneReplaced(c) /\ NewRowOK(c)
  BY DEF Adding, Flags, Core
<1>2. ASSUME NEW k \in ActivePromos(o), Releases(c, k) PROVE k \in Id /\ Replaces(c, k)
  <2>1. k \in Id /\ rows[k] # Absent
    BY DEF ActivePromos, ActiveOf, ActiveIds
  <2>2. ~ (tx[c].pc = "commit" /\ k = tx[c].key)
    BY <1>1, <2>1 DEF NewRowOK, Adds
  <2> QED
    BY <1>2, <2>1, <2>2 DEF Releases, Replaces
<1> QED
  BY <1>1, <1>2 DEF OneReplaced, Adds

\* Every unreleased file and every request counts once; a released file belongs to a
\* request.
LEMMA OvershootIsBounded ==
    ASSUME IInv
    PROVE  PromoOvershoot
<1>1. SUFFICES ASSUME NEW o \in Owners, ~ mixed
               PROVE  Cardinality(ActivePromos(o)) <= MaxPromo + Cardinality(Clients) - 1
  BY DEF PromoOvershoot, ActivePromos
<1>2. Core /\ Flags
  BY DEF IInv
<1> DEFINE Released == {i \in ActivePromos(o) : \E c \in Adding(o) : Releases(c, i)}
           Busy     == {c \in Adding(o) : \E i \in ActivePromos(o) : Releases(c, i)}
           f        == [c \in Busy |-> CHOOSE i \in ActivePromos(o) : Releases(c, i)]
<1>3. Released \in SUBSET Id /\ ActivePromos(o) \in SUBSET Id /\ Busy \in SUBSET Adding(o)
      /\ ActivePromos(o) = Unreleased(o) \cup Released
  BY DEF ActivePromos, ActiveOf, ActiveIds, Unreleased
<1>4. \A c \in Busy : f[c] \in ActivePromos(o) /\ Releases(c, f[c])
  OBVIOUS
<1>5. f \in Surjection(Busy, Released)
  <2>1. f \in [Busy -> Released]
    BY <1>4
  <2>2. ASSUME NEW i \in Released PROVE \E c \in Busy : f[c] = i
    <3>1. PICK c \in Adding(o) : Releases(c, i)
      OBVIOUS
    <3>2. c \in Busy /\ i \in ActivePromos(o)
      BY <3>1
    <3> HIDE DEF f
    <3> QED
      BY <1>2, <1>4, <3>1, <3>2, ReleasesOne
  <2> HIDE DEF f, Busy, Released
  <2> QED
    BY <2>1, <2>2 DEF Surjection
<1> HIDE DEF f, Busy, Released
<1>6. Cardinality(Released) <= Cardinality(Busy)
  BY <1>3, <1>5, PromoTypes, ClientSets, FS_Surjection
<1>7. Cardinality(Busy) <= Cardinality(Adding(o))
  BY <1>3, PromoTypes, ClientSubset
<1>8. Cardinality(ActivePromos(o)) <= Cardinality(Unreleased(o)) + Cardinality(Released)
  <2>1. IsFiniteSet(Unreleased(o)) /\ IsFiniteSet(Released)
    BY <1>3, PromoTypes, IdSets
  <2>2. Cardinality(Unreleased(o) \cup Released)
          = Cardinality(Unreleased(o)) + Cardinality(Released) - Cardinality(Unreleased(o) \cap Released)
    BY <2>1, FS_Union
  <2>3. Cardinality(Unreleased(o) \cap Released) \in Nat
    <3>1. Unreleased(o) \cap Released \in SUBSET Id
      BY <1>3
    <3> QED
      BY <3>1, IdSets
  <2> QED
    BY <1>3, <2>2, <2>3, IdSets, PromoTypes
<1>9. Cardinality(Released) \in Nat /\ Cardinality(Busy) \in Nat /\ Cardinality(ActivePromos(o)) \in Nat
  BY <1>3, IdSets, PromoTypes, ClientSets
<1> QED
  BY <1>1, <1>6, <1>7, <1>8, <1>9, PromoTypes DEF IInv, PromoOK, PromoFor

(* Requests that run _validate_projected_set at the same time exceed the    *)
(* promo limit by less than their number: each of them has read a set with  *)
(* room for its file, and replaces at most one file of it.                  *)
THEOREM OvershootBounded == Spec => []PromoOvershoot
<1>1. IInv => PromoOvershoot
  BY OvershootIsBounded
<1> QED
  BY Invariance, <1>1, PTL

-----------------------------------------------------------------------------
(* One client that replaces files by files of their kind. *)

OneClient == (\A c, d \in Clients : c = d) /\ ~ ReplaceAnything

(* Only the purge changes rows while a request is under way.               *)
UndisturbedOK(c) == tx[c].op \in Uploads =>
    /\ \A i \in Todo(c) : rows[i] \in {tx[c].todo[i], Absent}
    /\ tx[c].pc = "write" =>
        /\ tx[c].base \in {tx[c].todo[Current(c)], Absent}
        /\ rows[Current(c)] \in {tx[c].base, Absent}
(* The rows of the slot are dropped before the new one is inserted.        *)
InSlot(c, i) == LET row == View(c, i) IN
    row # Absent /\ row.active /\ row.owner = tx[c].owner /\ row.kind = tx[c].kind
SlotOK(c) == tx[c].op \in Uploads /\ tx[c].kind # "promo" =>
    /\ Dropping(c) => \A i \in Id : InSlot(c, i) => i \in Todo(c)
    /\ tx[c].pc \in {"store", "number", "insert"} => \A i \in Id : ~ InSlot(c, i)
    /\ tx[c].pc = "commit" => \A i \in Id : InSlot(c, i) => i = tx[c].key
SlotInv ==
    /\ ~ mixed /\ OneFilePerSlot
    /\ \A c \in Clients : UndisturbedOK(c) /\ SlotOK(c)

\* The purge only deletes rows.
LEMMA SlotOthers ==
    ASSUME Core, SlotInv, \A c \in Clients : tx'[c] = tx[c], mixed' = mixed,
           \A i \in Id : rows'[i] \in {rows[i], Absent}
    PROVE  SlotInv'
<1>1. OneFilePerSlot'
  BY DEF SlotInv, OneFilePerSlot, ActiveIds
<1>2. ASSUME NEW c \in Clients PROVE UndisturbedOK(c)'
  <2>1. Todo(c)' = Todo(c) /\ Current(c)' = Current(c) /\ UndisturbedOK(c) /\ tx'[c] = tx[c]
    BY DEF SlotInv, Current, Todo
  <2>2. tx[c].pc = "write" => Current(c) \in Id
    BY Amid DEF Threads
  <2>3. \A i \in Todo(c) : i \in Id
    BY DEF Todo
  <2> HIDE DEF Current, Todo
  <2> QED
    BY <2>1, <2>2, <2>3 DEF UndisturbedOK
<1>3. ASSUME NEW c \in Clients PROVE SlotOK(c)'
  <2>1. Todo(c)' = Todo(c) /\ SlotOK(c) /\ tx'[c] = tx[c]
    BY DEF SlotInv, Todo
  <2>2. \A i \in Id : InSlot(c, i)' => InSlot(c, i)
    BY <2>1 DEF InSlot, View
  <2> HIDE DEF InSlot, Todo
  <2> QED
    BY <2>1, <2>2 DEF SlotOK, Dropping
<1> QED
  BY <1>1, <1>2, <1>3 DEF SlotInv

\* To show SlotInv for a step of the client that does not commit.
LEMMA SlotStep ==
    ASSUME OneClient, SlotInv, NEW c \in Clients, rows' = rows, ~ mixed', UndisturbedOK(c)', SlotOK(c)'
    PROVE  SlotInv'
<1>1. OneFilePerSlot'
  BY DEF SlotInv, OneFilePerSlot, ActiveIds
<1>2. \A d \in Clients : d = c
  BY DEF OneClient
<1> QED
  BY <1>1, <1>2 DEF SlotInv

\* A request that is not, or no longer, an upload or a replacement.
LEMMA SlotNoUpload ==
    ASSUME OneClient, SlotInv, NEW c \in Clients, rows' = rows, ~ mixed', tx'[c].op \notin Uploads
    PROVE  SlotInv'
<1>1. UndisturbedOK(c)' /\ SlotOK(c)'
  BY DEF UndisturbedOK, SlotOK
<1> QED
  BY <1>1, SlotStep

\* A step that leaves the list and the writes alone.
LEMMA SlotMove ==
    ASSUME OneClient, Core, SlotInv, NEW c \in Clients, NEW pc, NEW base, NEW path, NEW key,
           Becomes(c, pc, tx[c].op, tx[c].owner, tx[c].kind, tx[c].size, tx[c].todo, base, path, key,
                   tx[c].writes),
           \/ tx[c].pc \in {"check", "drop", "select"} /\ pc \in {"drop", "select", "write"}
           \/ tx[c].pc \in {"store", "number"} /\ pc \in {"number", "insert"},
           pc = "write" => base = rows[Current(c)],
           rows' = rows, ~ mixed'
    PROVE  SlotInv'
<1>1. /\ tx'[c].pc = pc /\ tx'[c].op = tx[c].op /\ tx'[c].owner = tx[c].owner /\ tx'[c].kind = tx[c].kind
      /\ tx'[c].todo = tx[c].todo /\ tx'[c].base = base /\ tx'[c].writes = tx[c].writes
  BY DEF Becomes
<1>2. Todo(c)' = Todo(c) /\ Current(c)' = Current(c)
  BY <1>1 DEF Todo, Current
<1>3. \A i \in Id : InSlot(c, i)' = InSlot(c, i)
  BY <1>1 DEF InSlot, View
<1>4. UndisturbedOK(c) /\ SlotOK(c) /\ c \in Threads
  BY DEF SlotInv, Threads
<1>5. pc = "write" => Current(c) \in Todo(c)
  <2>1. pc = "write" => Todo(c) # {}
    BY <1>4 DEF Core, ShapeOK, Dropping
  <2> QED
    BY <1>4, <2>1, CurrentIsFirst
<1> HIDE DEF Todo, Current, InSlot
<1>6. UndisturbedOK(c)'
  BY <1>1, <1>2, <1>4, <1>5 DEF UndisturbedOK
<1>7. SlotOK(c)'
  BY <1>1, <1>2, <1>3, <1>4 DEF SlotOK, Dropping
<1> QED
  BY <1>6, <1>7, SlotStep

\* upload_file and replace_file take the slot with all its rows.
LEMMA BeginSlot ==
    ASSUME OneClient, Core, SlotInv, NEW c \in Clients, NEW kind \in Kinds, NEW size \in Sizes,
           \/ \E o \in Owners : BeginUpload(c, o, kind, size)
           \/ \E id \in Id : BeginReplace(c, id, kind, size)
    PROVE  SlotInv'
<1>1. c \in Threads /\ TypeOK
  BY DEF Threads, Core
<1>2. ASSUME NEW o \in Owners, BeginUpload(c, o, kind, size) PROVE SlotInv'
  <2>1. /\ tx'[c].pc = IF Slot(kind) = {} THEN "store" ELSE "list"
        /\ tx'[c].kind = kind /\ tx'[c].todo = NoRows
    BY <1>1, <1>2, BeginUploadPost DEF Becomes
  <2>2. kind # "promo" => tx'[c].pc = "list"
    BY <2>1 DEF Slot
  <2>3. SlotOK(c)'
    BY <2>1, <2>2 DEF SlotOK, Dropping
  <2>4. Todo(c)' = {} /\ tx'[c].pc # "write"
    BY <2>1 DEF Todo, NoRows
  <2>5. UndisturbedOK(c)'
    BY <2>4 DEF UndisturbedOK
  <2>6. rows' = rows /\ ~ mixed'
    BY <1>2 DEF BeginUpload, dbFrame, SlotInv
  <2> QED
    BY <2>3, <2>5, <2>6, SlotStep
<1>3. ASSUME NEW id \in Id, BeginReplace(c, id, kind, size) PROVE SlotInv'
  <2> DEFINE todo == [NoRows EXCEPT ![id] = rows[id]]
  <2>1. /\ tx'[c].pc = "check" /\ tx'[c].owner = rows[id].owner /\ tx'[c].kind = kind /\ tx'[c].todo = todo
        /\ tx'[c].writes = NoWrites
    <3>1. Becomes(c, "check", "replace", rows[id].owner, kind, size, todo, Absent, 0, NoId, NoWrites)
      BY <1>1, <1>3, BeginReplacePost
    <3> QED
      BY <3>1 DEF Becomes
  <2>2. /\ rows[id] # Absent /\ rows[id].active /\ rows[id].kind = kind
        /\ rows' = rows /\ ~ mixed'
    BY <1>3 DEF BeginReplace, OneClient, dbFrame, SlotInv
  <2>3. Todo(c)' = {id}
    BY <2>1, <2>2 DEF Todo, NoRows
  <2>4. UndisturbedOK(c)'
    <3>1. todo[id] = rows[id]
      BY DEF NoRows
    <3> QED
      BY <2>1, <2>2, <2>3, <3>1 DEF UndisturbedOK
  <2>5. ASSUME kind # "promo", NEW i \in Id, InSlot(c, i)' PROVE i = id
    <3>1. rows[i] # Absent /\ rows[i].active /\ rows[i].owner = rows[id].owner
          /\ rows[i].kind = kind
      BY <2>1, <2>2, <2>5 DEF InSlot, View, NoWrites
    <3> QED
      BY <2>2, <2>5, <3>1 DEF SlotInv, OneFilePerSlot, ActiveIds
  <2>6. SlotOK(c)'
    BY <2>1, <2>3, <2>5 DEF SlotOK
  <2> QED
    BY <2>2, <2>4, <2>6, SlotStep
<1> QED
  BY <1>2, <1>3

\* _replace_active_pair and _replace_active_price_slot list all rows of the slot.
LEMMA ListSlotSlot ==
    ASSUME OneClient, Core, SlotInv, NEW c \in Clients, ListSlot(c)
    PROVE  SlotInv'
<1>1. /\ c \in Threads /\ TypeOK /\ ShapeOK(c) /\ WritesOK(c) /\ tx[c].pc = "list"
      /\ rows' = rows /\ ~ mixed'
  BY DEF Threads, Core, ListSlot, dbFrame, SlotInv
<1>2. /\ tx'[c].pc = (IF SlotIds(c) = {} THEN "store" ELSE "drop") /\ tx'[c].op = tx[c].op
      /\ tx'[c].owner = tx[c].owner /\ tx'[c].kind = tx[c].kind /\ tx'[c].todo = SlotRows(c)
      /\ tx'[c].writes = tx[c].writes
  BY <1>1, ListSlotPost DEF Becomes
<1>3. \A i \in Id : tx[c].writes[i] = Keep
  BY <1>1 DEF WritesOK, Locked
<1>4. \A i \in SlotIds(c) : i \in Id /\ rows[i] # Absent
  BY DEF SlotIds, ActiveOf, ActiveIds
<1>5. Todo(c)' = SlotIds(c) /\ \A i \in Id : i \in SlotIds(c) => SlotRows(c)[i] = rows[i]
  BY <1>2, <1>4 DEF Todo, SlotRows
<1>6. UndisturbedOK(c)'
  BY <1>1, <1>2, <1>4, <1>5 DEF UndisturbedOK
<1>7. ASSUME tx[c].kind # "promo", NEW i \in Id, InSlot(c, i)' PROVE i \in SlotIds(c)
  BY <1>1, <1>2, <1>3, <1>7 DEF InSlot, View, SlotIds, ActiveOf, ActiveIds, Slot
<1>8. SlotOK(c)'
  BY <1>2, <1>5, <1>7 DEF SlotOK
<1> QED
  BY <1>1, <1>6, <1>8, SlotStep

\* A row is its columns.
LEMMA RowsEqual ==
    ASSUME NEW r \in Row, NEW s \in Row,
           r.path = s.path, r.owner = s.owner, r.kind = s.kind, r.size = s.size, r.active = s.active
    PROVE  r = s
BY DEF Row

\* update() deactivates the file it is given, or finds that it has been purged.
LEMMA UndisturbedUpdate ==
    ASSUME Core, Flags, SlotInv, NEW c \in Clients, tx[c].pc = "write", tx[c].op \in Uploads,
           NEW w, Deactivates(c, w)
    PROVE  /\ ~ mixed'
           /\ w = Dto(c) \/ (w = Keep /\ rows[Current(c)] \in {Dto(c), Absent})
<1> DEFINE i == Current(c)  base == tx[c].base  v == View(c, i)
<1>1. c \in Threads /\ UndisturbedOK(c) /\ ~ mixed /\ mixed \in BOOLEAN
  BY DEF Threads, SlotInv, Core, TypeOK
<1>2. i \in Id /\ i \in Todo(c) /\ tx[c].todo[i] \in Row /\ Dto(c) \in Row
  BY <1>1, Amid, DtoTypes
<1>3. tx[c].writes[i] = Keep /\ v = rows[i]
  BY <1>1, <1>2, CoreOf DEF WritesOK, Locked, View
<1>4. base \in {tx[c].todo[i], Absent} /\ rows[i] \in {base, Absent}
  BY <1>1 DEF UndisturbedOK
<1>5. CASE base = Dto(c) /\ w = tx[c].writes[i] /\ mixed' = mixed
  BY <1>1, <1>3, <1>4, <1>5
<1>6. CASE base = Absent /\ w = Dto(c) /\ mixed' = mixed
  BY <1>1, <1>6
<1>7. CASE /\ base # Dto(c) /\ base # Absent /\ v # Absent /\ w = Merge(Dto(c), base, v)
           /\ mixed' = (mixed \/ Mixes(Dto(c), base, v))
  <2>1. base = tx[c].todo[i] /\ v = base /\ base \in Row
    BY <1>2, <1>3, <1>4, <1>7
  <2>2. /\ Dto(c).path = base.path /\ Dto(c).owner = base.owner /\ Dto(c).kind = base.kind
        /\ Dto(c).size = base.size
        /\ ~ Dto(c).active
    BY <1>1, <2>1, Amid, DtoTypes
  <2>4. ~ mixed'
    BY <1>1, <1>7, <2>1, <2>2 DEF Mixes
  <2>5. w = Dto(c)
    <3>1. w.path = base.path /\ w.owner = base.owner /\ w.kind = base.kind /\ w.size = base.size
      BY <1>7, <2>1, <2>2 DEF Merge
    <3>2. w \in Row /\ w.active = IF Dto(c).active # base.active THEN Dto(c).active ELSE base.active
      BY <1>2, <1>7, <2>1, MergeTypes
    <3>3. Dto(c).active \in BOOLEAN /\ base.active \in BOOLEAN
      BY <1>2, <2>1, RowsAreRows
    <3>4. w.active = Dto(c).active
      BY <2>2, <3>2, <3>3
    <3> HIDE DEF base
    <3> QED
      BY <1>2, <2>2, <3>1, <3>2, <3>4, RowsEqual
  <2> QED
    BY <2>4, <2>5
<1> QED
  BY <1>5, <1>6, <1>7 DEF Deactivates

\* update() takes one row out of the slot.
LEMMA DeactivateRowSlot ==
    ASSUME OneClient, Core, Flags, SlotInv, NEW c \in Clients, DeactivateRow(c)
    PROVE  SlotInv'
<1>1. /\ tx[c].pc = "write" /\ rows' = rows /\ c \in Threads /\ TypeOK /\ tx[c].op \in Uploads
      /\ ~ mixed
  BY DEF DeactivateRow, Threads, Core, Uploads, SlotInv
<1>2. CASE Ends(c) /\ mixed' = mixed
  <2>1. tx'[c].op \notin Uploads
    BY <1>2, IdleIs DEF Ends, Uploads
  <2> QED
    BY <1>1, <1>2, <2>1, SlotNoUpload
<1>3. ASSUME NEW w, Deactivates(c, w), Drops(c, "store", w) PROVE SlotInv'
  <2> DEFINE todo(i)   == [tx[c].todo EXCEPT ![i] = Absent]
             writes(i) == [tx[c].writes EXCEPT ![i] = w]
  <2>0. PICK i : i = Current(c)
    OBVIOUS
  <2>1. /\ tx'[c].pc = After(c, i, "store") /\ tx'[c].op = tx[c].op
        /\ tx'[c].owner = tx[c].owner /\ tx'[c].kind = tx[c].kind
        /\ tx'[c].todo = todo(i) /\ tx'[c].writes = writes(i)
    BY <1>3, <2>0 DEF Drops, Becomes
  <2>2. i \in Id /\ i \in Todo(c) /\ tx[c].todo \in [Id -> RowOrAbsent]
        /\ tx[c].writes \in [Id -> RowOrAbsent \cup {Keep}] /\ tx[c].writes[i] = Keep
    <3>1. i \in Id /\ i \in Todo(c)
      BY <1>1, <2>0, Amid
    <3>2. tx[c].writes[i] = Keep
      BY <1>1, <3>1, CoreOf DEF WritesOK, Locked
    <3> QED
      BY <1>1, <3>1, <3>2, Fields
  <2>3. Dto(c) \in Row /\ ~ Dto(c).active
    BY <1>1, Amid, DtoTypes
  <2>4. ~ mixed' /\ (w = Dto(c) \/ (w = Keep /\ rows[i] \in {Dto(c), Absent}))
    BY <1>1, <1>3, <2>0, UndisturbedUpdate
  <2>5. \A j \in Id : /\ todo(i)[j] = IF j = i THEN Absent ELSE tx[c].todo[j]
                      /\ writes(i)[j] = IF j = i THEN w ELSE tx[c].writes[j]
    BY <2>2
  <2> HIDE DEF todo, writes
  <2>6. Todo(c)' = Todo(c) \ {i}
    BY <2>1, <2>5 DEF Todo
  <2>7. tx'[c].pc = (IF Todo(c) = {i} THEN "store" ELSE "drop")
    BY <2>1 DEF After
  <2>8. UndisturbedOK(c)'
    <3>1. UndisturbedOK(c)
      BY DEF SlotInv
    <3>2. \A j \in Todo(c) : j \in Id
      BY DEF Todo
    <3> HIDE DEF Todo
    <3> QED
      BY <1>1, <2>1, <2>5, <2>6, <2>7, <3>1, <3>2 DEF UndisturbedOK
  <2>9. ASSUME NEW j \in Id, InSlot(c, j)' PROVE j # i /\ InSlot(c, j)
    <3>1. CASE j = i
      <4>1. View(c, i)' \in {Dto(c), Absent}
        <5>1. View(c, i)' = IF w = Keep THEN rows[i] ELSE w
          BY <1>1, <2>1, <2>2, <2>5 DEF View
        <5> QED
          BY <2>3, <2>4, <5>1, RowsAreRows
      <4> HIDE DEF View
      <4> QED
        BY <2>3, <2>9, <3>1, <4>1 DEF InSlot
    <3>2. CASE j # i
      BY <1>1, <2>1, <2>5, <2>9, <3>2 DEF InSlot, View
    <3> QED
      BY <3>1, <3>2
  <2>10. SlotOK(c)'
    <3>1. SlotOK(c) /\ Dropping(c)
      BY <1>1 DEF SlotInv, Dropping
    <3> HIDE DEF Todo, InSlot
    <3> QED
      BY <1>1, <2>1, <2>6, <2>7, <2>9, <3>1 DEF SlotOK
  <2> QED
    BY <1>1, <2>4, <2>8, <2>10, SlotStep
<1> QED
  BY <1>1, <1>2, <1>3, DeactivateRowPost

\* The new row comes into an empty slot.
LEMMA InsertRowSlot ==
    ASSUME OneClient, Core, SlotInv, NEW c \in Clients, InsertRow(c)
    PROVE  SlotInv'
<1>1. /\ c \in Threads /\ TypeOK /\ ShapeOK(c) /\ rows' = rows /\ ~ mixed' /\ tx[c].pc = "insert"
  BY DEF InsertRow, dbFrame, Threads, Core, SlotInv
<1>2. CASE Ends(c)
  <2>1. tx'[c].op \notin Uploads
    BY <1>2, IdleIs DEF Ends, Uploads
  <2> QED
    BY <1>1, <2>1, SlotNoUpload
<1>3. CASE Becomes(c, "commit", tx[c].op, tx[c].owner, tx[c].kind, tx[c].size, tx[c].todo, tx[c].base,
                   tx[c].path, tx[c].key, [tx[c].writes EXCEPT ![tx[c].key] = NewRow(c)])
  <2>1. PICK k : k = tx[c].key
    OBVIOUS
  <2>2. k \in Id /\ tx[c].writes \in [Id -> RowOrAbsent \cup {Keep}]
    BY <1>1, <2>1, Fields DEF ShapeOK
  <2>3. \A i \in Id : i # k => [tx[c].writes EXCEPT ![k] = NewRow(c)][i] = tx[c].writes[i]
    BY <2>2
  <2>4. /\ tx'[c].pc = "commit" /\ tx'[c].op = tx[c].op /\ tx'[c].owner = tx[c].owner
        /\ tx'[c].kind = tx[c].kind
        /\ tx'[c].todo = tx[c].todo /\ tx'[c].key = k
        /\ \A i \in Id : i # k => tx'[c].writes[i] = tx[c].writes[i]
    BY <1>3, <2>1, <2>3 DEF Becomes
  <2>5. \A i \in Id : InSlot(c, i)' /\ i # k => InSlot(c, i)
    BY <1>1, <2>4 DEF InSlot, View
  <2>6. SlotOK(c)'
    BY <1>1, <2>4, <2>5 DEF SlotOK, Dropping, SlotInv
  <2>7. UndisturbedOK(c)'
    <3>1. Todo(c)' = {}
      BY <1>1, <2>4 DEF ShapeOK, Dropping, Todo
    <3> QED
      BY <2>4, <3>1 DEF UndisturbedOK
  <2> QED
    BY <1>1, <2>6, <2>7, SlotStep
<1> QED
  BY <1>1, <1>2, <1>3, InsertRowPost

\* The purge, and a client that deletes, remove rows and change none.
LEMMA CommittedRemoval ==
    ASSUME Core, NEW t \in Threads, Commit(t), tx[t].op \notin Uploads, NEW i \in Id
    PROVE  rows'[i] \in {rows[i], Absent}
BY CommittedRow DEF Core, WritesOK

\* commit() publishes a slot with the new row alone.
LEMMA CommitSlot ==
    ASSUME OneClient, Core, Flags, SlotInv, NEW c \in Clients, Commit(c)
    PROVE  SlotInv'
<1>1. /\ c \in Threads /\ TypeOK /\ tx[c].pc = "commit" /\ mixed' = mixed /\ ~ mixed
      /\ tx'[c] = Idle
  BY CommitPost DEF Threads, Core, Commit, SlotInv, Ends
<1>2. UndisturbedOK(c)' /\ SlotOK(c)'
  BY <1>1, IdleIs DEF UndisturbedOK, SlotOK, Uploads
<1>3. ASSUME NEW i \in Id, NEW j \in Id, rows'[i] # Absent, rows'[i].active,
             rows'[j] # Absent, rows'[j].active,
             rows'[j].owner = rows'[i].owner,
             rows'[i].kind # "promo", rows'[j].kind = rows'[i].kind
      PROVE  i = j
  <2>1. rows'[i] = View(c, i) /\ rows'[j] = View(c, j)
    BY <1>1, CommitPost
  <2>2. CASE tx[c].op \in Uploads /\ rows'[i].owner = tx[c].owner /\ rows'[i].kind = tx[c].kind
    <3>1. InSlot(c, i) /\ InSlot(c, j)
      BY <1>3, <2>1, <2>2 DEF InSlot
    <3>2. SlotOK(c)
      BY DEF SlotInv
    <3> QED
      BY <1>1, <1>3, <2>2, <3>1, <3>2 DEF SlotOK
  <2>3. CASE ~ (tx[c].op \in Uploads /\ rows'[i].owner = tx[c].owner /\ rows'[i].kind = tx[c].kind)
    <3>1. ASSUME NEW k \in {i, j} PROVE rows'[k] = rows[k]
      <4>1. SUFFICES ASSUME c \in Clients, tx[c].op \in Uploads, rows'[k] = NewRow(c) PROVE FALSE
        BY <1>1, <1>3, CommittedActive
      <4>2. NewRow(c).owner = tx[c].owner /\ NewRow(c).kind = tx[c].kind
        BY DEF NewRow
      <4> QED
        BY <1>3, <2>3, <4>1, <4>2
    <3> QED
      BY <1>3, <3>1 DEF SlotInv, OneFilePerSlot, ActiveIds
  <2> QED
    BY <2>2, <2>3
<1>4. OneFilePerSlot'
  BY <1>3 DEF OneFilePerSlot, ActiveIds
<1>5. \A d \in Clients : d = c
  BY DEF OneClient
<1> QED
  BY <1>1, <1>2, <1>4, <1>5 DEF SlotInv

\* The purge only deletes rows, and leaves the requests alone.
LEMMA PurgeRemoves ==
    ASSUME Core, Purge \/ FileExpires \/ UNCHANGED vars
    PROVE  /\ \A c \in Clients : tx'[c] = tx[c]
           /\ \A i \in Id : rows'[i] \in {rows[i], Absent}
           /\ mixed' = mixed
<1>1. Purger \in Threads /\ Purger \notin Clients /\ TypeOK
  BY TempFilesAssumption DEF Threads, Core
<1>2. CASE FileExpires \/ UNCHANGED vars
  BY <1>2 DEF FileExpires, vars
<1>3. CASE Purge
  <2>1. mixed' = mixed
    BY <1>3 DEF Purge, BeginPurge, DropStep, DropFile, SelectRow, DeleteRow, Commit, Fail, dbFrame
  <2>2. \A c \in Clients : tx'[c] = tx[c]
    <3>1. tx' = [tx EXCEPT ![Purger] = tx'[Purger]]
      BY <1>1, <1>3 DEF Purge, BeginPurge, DropStep, DropFile, SelectRow, DeleteRow, Dropped, Commit,
                        Fail, Rollback, TypeOK
    <3> QED
      BY <1>1, <3>1 DEF TypeOK, Threads
  <2>3. \A i \in Id : rows'[i] \in {rows[i], Absent}
    <3>1. CASE Commit(Purger)
      <4>1. tx[Purger].op \notin Uploads
        BY <1>1 DEF Core, ShapeOK, Uploads
      <4> QED
        BY <1>1, <3>1, <4>1, CommittedRemoval
    <3>2. CASE ~ Commit(Purger)
      BY <1>3, <3>2 DEF Purge, BeginPurge, DropStep, DropFile, SelectRow, DeleteRow, Fail, dbFrame
    <3> QED
      BY <3>1, <3>2
  <2> QED
    BY <2>1, <2>2, <2>3
<1> QED
  BY <1>2, <1>3

\* The purge deletes rows, and time passes.
LEMMA PurgeSlot ==
    ASSUME Core, SlotInv, Purge \/ FileExpires \/ UNCHANGED vars
    PROVE  SlotInv'
BY PurgeRemoves, SlotOthers

\* The steps of a request.
LEMMA ProceedSlot ==
    ASSUME OneClient, Core, Flags, SlotInv, NEW c \in Clients, Proceed(c)
    PROVE  SlotInv'
<1>1. TypeOK /\ c \in Threads
  BY DEF Core, Threads
<1>2. CASE CheckReplacement(c)
  <2>1. rows' = rows /\ ~ mixed' /\ tx[c].pc = "check"
    BY <1>2 DEF CheckReplacement, dbFrame, SlotInv
  <2>2. CASE At(c, "drop")
    BY <1>1, <2>1, <2>2, SlotMove DEF At
  <2>3. CASE Ends(c)
    <3>1. tx'[c].op \notin Uploads
      BY <2>3, IdleIs DEF Ends, Uploads
    <3> QED
      BY <2>1, <3>1, SlotNoUpload
  <2> QED
    BY <1>1, <1>2, <2>2, <2>3, CheckReplacementPost
<1>3. CASE StoreFile(c)
  <2>1. rows' = rows /\ ~ mixed' /\ tx[c].pc = "store"
    BY <1>3 DEF StoreFile, SlotInv
  <2> QED
    BY <1>1, <1>3, <2>1, StoreFilePost, SlotMove
<1>4. CASE NumberRow(c)
  <2>1. rows' = rows /\ ~ mixed' /\ tx[c].pc = "number"
    BY <1>4 DEF NumberRow, dbFrame, SlotInv
  <2> HIDE DEF NextKey
  <2> QED
    BY <1>1, <1>4, <2>1, NumberRowPost, SlotMove
<1>5. CASE DropFile(c)
  <2>1. At(c, "select") /\ rows' = rows /\ ~ mixed' /\ tx[c].pc = "drop"
    BY <1>1, <1>5, DropFilePost DEF DropFile, SlotInv
  <2> QED
    BY <2>1, SlotMove DEF At
<1>6. CASE SelectRow(c)
  <2> DEFINE v == View(c, Current(c))
  <2>1. Becomes(c, "write", tx[c].op, tx[c].owner, tx[c].kind, tx[c].size, tx[c].todo, v, tx[c].path,
                tx[c].key, tx[c].writes)
        /\ rows' = rows /\ ~ mixed' /\ tx[c].pc = "select"
    BY <1>1, <1>6, SelectRowPost DEF SelectRow, dbFrame, SlotInv
  <2>2. v = rows[Current(c)]
    BY <1>1, <2>1, Amid, CoreOf DEF WritesOK, Locked, View
  <2> HIDE DEF v
  <2> QED
    BY <2>1, <2>2, SlotMove
<1>7. CASE DeleteRow(c)
  <2>1. PICK w : Drops(c, "commit", w)
    BY <1>1, <1>7, DeleteRowPost
  <2>2. rows' = rows /\ ~ mixed' /\ tx'[c].op \notin Uploads
    BY <1>7, <2>1 DEF DeleteRow, dbFrame, Uploads, SlotInv, Drops, Becomes
  <2> QED
    BY <2>2, SlotNoUpload
<1>8. CASE Fail(c)
  <2>1. rows' = rows /\ ~ mixed' /\ tx'[c].op \notin Uploads
    BY <1>1, <1>8, FailPost, IdleIs DEF Fail, SlotInv, Ends, Uploads
  <2> QED
    BY <2>1, SlotNoUpload
<1> QED
  BY <1>2, <1>3, <1>4, <1>5, <1>6, <1>7, <1>8, ListSlotSlot, DeactivateRowSlot, InsertRowSlot,
     CommitSlot DEF Proceed, DropStep

\* All steps.
LEMMA SlotNext ==
    ASSUME OneClient, Core, Flags, SlotInv, [Next]_vars
    PROVE  SlotInv'
<1>1. ASSUME NEW c \in Clients, NEW id \in Id, BeginDelete(c, id) PROVE SlotInv'
  <2>1. TypeOK /\ c \in Threads
    BY DEF Core, Threads
  <2>2. tx'[c].op = "delete" /\ rows' = rows /\ ~ mixed'
    BY <1>1, <2>1, BeginDeletePost DEF BeginDelete, Becomes, dbFrame, SlotInv
  <2> QED
    BY <2>2, SlotNoUpload DEF Uploads
<1>2. ASSUME NEW c \in Clients, Request(c) PROVE SlotInv'
  BY <1>1, <1>2, BeginSlot, ProceedSlot DEF Request
<1> QED
  BY <1>2, PurgeSlot DEF Next

\* The table is empty at first.
LEMMA InitSlot ==
    ASSUME Init
    PROVE  SlotInv
<1>1. rows = NoRows /\ mixed = FALSE /\ \A c \in Clients : tx[c].op = "purge"
  BY IdleIs DEF Init, Threads
<1>2. OneFilePerSlot
  BY <1>1 DEF OneFilePerSlot, ActiveIds, NoRows
<1> QED
  BY <1>1, <1>2 DEF SlotInv, UndisturbedOK, SlotOK, Uploads

(* A user who sends one request at a time and replaces files by files of    *)
(* their kind has one price file, or one Ozon file, at most, while the      *)
(* purge deletes rows that requests are about to update                     *)
(* (_replace_active_pair, _replace_active_price_slot, replace_file).        *)
THEOREM SlotHasOneFile == ASSUME OneClient PROVE Spec => []OneFilePerSlot
<1>1. Init => IInv /\ SlotInv
  BY InitIInv, InitSlot
<1>2. IInv /\ SlotInv /\ [Next]_vars => SlotInv'
  BY SlotNext DEF IInv
<1>3. Spec => []SlotInv
  BY <1>1, <1>2, Invariance, PTL DEF Spec
<1>4. SlotInv => OneFilePerSlot
  BY DEF SlotInv
<1> QED
  BY <1>3, <1>4, PTL

-----------------------------------------------------------------------------
(* The disk of one client, until a row expires or an operation fails. *)

Calm == expired = 0 /\ faults = 0
(* The files that are to be on disk: those of the rows that are active for *)
(* the request, but for the one it has just deleted, and the new one.      *)
Live(c, i)   == View(c, i) # Absent /\ View(c, i).active
Active(c, p) == \E i \in Id : Live(c, i) /\ View(c, i).path = p
Expect(c, p) ==
    \/ Active(c, p) /\ ~ (tx[c].pc \in {"select", "write"} /\ p = tx[c].todo[Current(c)].path)
    \/ tx[c].pc \in {"number", "insert"} /\ p = tx[c].path
DiskOK(c) == \A p \in Id : p \in disk <=> Expect(c, p)
Distinct  == \A i, j \in Id :
    rows[i] # Absent /\ rows[j] # Absent /\ rows[i].path = rows[j].path => i = j
(* Nobody else has changed the rows that the request is to drop.           *)
AsReadOK(c) ==
    /\ \A i \in Todo(c) : rows[i] = tx[c].todo[i]
    /\ tx[c].pc = "write" => tx[c].base = tx[c].todo[Current(c)]
    /\ tx[c].pc = "insert" => \A i \in Id : rows[i] # Absent => i < tx[c].key
    /\ \A i \in Id : IsRow(tx[c].writes[i]) =>
        \/ tx[c].pc = "commit" /\ i = tx[c].key
        \/ /\ rows[i] # Absent /\ tx[c].writes[i].path = rows[i].path
           /\ ~ tx[c].writes[i].active
TidyInv == Calm =>
    /\ tx[Purger] = Idle /\ Distinct
    /\ \A c \in Clients : AsReadOK(c) /\ DiskOK(c)

\* To show TidyInv for a step of the client that does not commit.
LEMMA TidyStep ==
    ASSUME OneClient, TidyInv, Calm, NEW c \in Clients, OthersSame(c), rows' = rows,
           AsReadOK(c)', DiskOK(c)'
    PROVE  TidyInv'
<1>1. tx'[Purger] = Idle
  BY TempFilesAssumption DEF TidyInv, OthersSame, Threads
<1>2. Distinct'
  BY DEF TidyInv, Distinct
<1>3. \A d \in Clients : d = c
  BY DEF OneClient
<1> QED
  BY <1>1, <1>2, <1>3 DEF TidyInv

\* What a transaction sees when it has not written, or writes nothing new.
LEMMA SameView ==
    ASSUME NEW c \in Clients, rows' = rows, \A i \in Id : tx'[c].writes[i] = tx[c].writes[i]
    PROVE  /\ \A i \in Id : Live(c, i)' = Live(c, i) /\ View(c, i)' = View(c, i)
           /\ \A p \in Id : Active(c, p)' = Active(c, p)
<1>1. \A i \in Id : View(c, i)' = View(c, i)
  BY DEF View
<1> QED
  BY <1>1 DEF Live, Active

\* A step within the part of a request that does not touch the disk.
LEMMA TidyMove ==
    ASSUME OneClient, Core, TidyInv, Calm, NEW c \in Clients, OthersSame(c), rows' = rows, disk' = disk,
           \A i \in Id : tx'[c].writes[i] = tx[c].writes[i],
           tx[c].pc \notin {"select", "write", "number", "insert"},
           tx'[c].pc \notin {"select", "write", "number", "insert", "commit"},
           tx[c].pc # "commit", \A i \in Id : tx'[c].todo[i] \in {rows[i], Absent}
    PROVE  TidyInv'
<1>1. \A p \in Id : Active(c, p)' = Active(c, p)
  BY SameView
<1>2. AsReadOK(c) /\ DiskOK(c)
  BY DEF TidyInv
<1>3. DiskOK(c)'
  <2>1. \A p \in Id : Expect(c, p) = Active(c, p)
    BY DEF Expect, Active
  <2>2. \A p \in Id : Expect(c, p)' = Active(c, p)'
    BY DEF Expect, Active
  <2> QED
    BY <1>1, <1>2, <2>1, <2>2 DEF DiskOK
<1>4. AsReadOK(c)'
  BY <1>2 DEF AsReadOK, Todo
<1> QED
  BY <1>3, <1>4, TidyStep

\* A request begins, or ends before it has done anything.
LEMMA TidyBegin ==
    ASSUME OneClient, Core, TidyInv, Calm, NEW c \in Clients, OthersSame(c), rows' = rows, disk' = disk,
           tx[c].pc \in {"idle", "check", "list"}, \A i \in Id : tx'[c].writes[i] = Keep,
           tx'[c].pc \in {"idle", "list", "check", "drop", "store"},
           \A i \in Id : tx'[c].todo[i] \in {rows[i], Absent}
    PROVE  TidyInv'
<1>1. c \in Threads
  BY DEF Threads
<1>2. \A i \in Id : tx[c].writes[i] = Keep
  <2>1. CASE tx[c].pc = "idle"
    BY <1>1, <2>1, IdleIs DEF Core, ShapeOK, NoWrites
  <2>2. CASE tx[c].pc \in {"check", "list"}
    BY <1>1, <2>2 DEF Core, WritesOK, Locked
  <2> QED
    BY <2>1, <2>2
<1> QED
  BY <1>2, TidyMove

\* A request begins: it has read, and changed nothing.
LEMMA BeginTidy ==
    ASSUME OneClient, Core, TidyInv, Calm, NEW c \in Clients,
           \/ \E kind \in Kinds, size \in Sizes :
                \/ \E o \in Owners : BeginUpload(c, o, kind, size)
                \/ \E id \in Id : BeginReplace(c, id, kind, size)
           \/ \E id \in Id : BeginDelete(c, id)
    PROVE  TidyInv'
<1>1. TypeOK /\ c \in Threads
  BY DEF Core, Threads
<1>2. \A i \in Id : NoWrites[i] = Keep /\ NoRows[i] = Absent
  BY DEF NoWrites, NoRows
<1>3. \A i, id \in Id : [NoRows EXCEPT ![id] = rows[id]][i] \in {rows[i], Absent}
  BY DEF NoRows
<1>4. ASSUME NEW o \in Owners, NEW kind \in Kinds, NEW size \in Sizes,
             BeginUpload(c, o, kind, size)
      PROVE  TidyInv'
  <2>1. /\ tx'[c].pc \in {"store", "list"} /\ tx'[c].todo = NoRows /\ tx'[c].writes = NoWrites
        /\ OthersSame(c)
    BY <1>1, <1>4, BeginUploadPost DEF Becomes, OthersSame
  <2>2. rows' = rows /\ disk' = disk /\ tx[c].pc = "idle"
    BY <1>4 DEF BeginUpload, dbFrame
  <2> QED
    BY <1>2, <2>1, <2>2, TidyBegin
<1>5. ASSUME NEW kind \in Kinds, NEW size \in Sizes, NEW id \in Id, BeginReplace(c, id, kind, size)
      PROVE TidyInv'
  <2>1. Becomes(c, "check", "replace", rows[id].owner, kind, size,
                [NoRows EXCEPT ![id] = rows[id]], Absent, 0,
                NoId, NoWrites)
    BY <1>1, <1>5, BeginReplacePost
  <2>2. rows' = rows /\ disk' = disk /\ tx[c].pc = "idle"
    BY <1>5 DEF BeginReplace, dbFrame
  <2>3. /\ tx'[c].pc = "check" /\ tx'[c].todo = [NoRows EXCEPT ![id] = rows[id]]
        /\ tx'[c].writes = NoWrites /\ OthersSame(c)
    BY <2>1 DEF Becomes, OthersSame
  <2> QED
    BY <1>2, <1>3, <2>2, <2>3, TidyBegin
<1>6. ASSUME NEW id \in Id, BeginDelete(c, id) PROVE TidyInv'
  <2>1. Becomes(c, "drop", "delete", "none", "none", 0, [NoRows EXCEPT ![id] = rows[id]], Absent, 0,
                NoId, NoWrites)
    BY <1>1, <1>6, BeginDeletePost
  <2>2. rows' = rows /\ disk' = disk /\ tx[c].pc = "idle"
    BY <1>6 DEF BeginDelete, dbFrame
  <2>3. /\ tx'[c].pc = "drop" /\ tx'[c].todo = [NoRows EXCEPT ![id] = rows[id]]
        /\ tx'[c].writes = NoWrites /\ OthersSame(c)
    BY <2>1 DEF Becomes, OthersSame
  <2> QED
    BY <1>2, <1>3, <2>2, <2>3, TidyBegin
<1> QED
  BY <1>4, <1>5, <1>6

\* _replace_active_pair lists the slot: it has read, and changed nothing.
LEMMA ListSlotTidy ==
    ASSUME OneClient, Core, TidyInv, Calm, NEW c \in Clients, ListSlot(c)
    PROVE  TidyInv'
<1>1. TypeOK /\ c \in Threads /\ tx[c].pc = "list" /\ rows' = rows /\ disk' = disk
      /\ \A i \in Id : tx[c].writes[i] = Keep
  BY DEF Core, Threads, ListSlot, dbFrame, WritesOK, Locked
<1>2. /\ tx'[c].pc \in {"store", "drop"} /\ tx'[c].todo = SlotRows(c) /\ tx'[c].writes = tx[c].writes
      /\ OthersSame(c)
  BY <1>1, ListSlotPost DEF Becomes, OthersSame
<1>3. \A i \in Id : SlotRows(c)[i] \in {rows[i], Absent}
  BY DEF SlotRows
<1> QED
  BY <1>1, <1>2, <1>3, TidyBegin

\* A replacement is checked, or refused, before anything is deleted.
LEMMA CheckReplacementTidy ==
    ASSUME OneClient, Core, TidyInv, Calm, NEW c \in Clients, CheckReplacement(c)
    PROVE  TidyInv'
<1>1. TypeOK /\ c \in Threads /\ tx[c].pc = "check" /\ rows' = rows /\ disk' = disk
      /\ \A i \in Id : tx[c].writes[i] = Keep
  BY DEF Core, Threads, CheckReplacement, dbFrame, WritesOK, Locked
<1>2. CASE Ends(c)
  BY <1>1, <1>2, IdleIs, TidyBegin DEF Ends, OthersSame, NoRows, NoWrites
<1>3. CASE At(c, "drop")
  <2>1. /\ tx'[c].pc = "drop" /\ tx'[c].todo = tx[c].todo /\ tx'[c].writes = tx[c].writes
        /\ OthersSame(c)
    BY <1>3 DEF At, Becomes, OthersSame
  <2>2. \A i \in Id : tx[c].todo[i] \in {rows[i], Absent}
    BY DEF TidyInv, AsReadOK, Todo
  <2> QED
    BY <1>1, <2>1, <2>2, TidyBegin
<1> QED
  BY <1>1, <1>2, <1>3, CheckReplacementPost

\* delete_relative_path deletes the file of the first row that is to go.
LEMMA DropFileTidy ==
    ASSUME OneClient, Core, TidyInv, Calm, NEW c \in Clients, DropFile(c)
    PROVE  TidyInv'
<1>1. TypeOK /\ c \in Threads /\ tx[c].pc = "drop" /\ rows' = rows
      /\ disk' = disk \ {tx[c].todo[Current(c)].path} /\ AsReadOK(c) /\ DiskOK(c)
  BY DEF Core, Threads, DropFile, TidyInv
<1>2. /\ tx'[c].pc = "select" /\ tx'[c].todo = tx[c].todo /\ tx'[c].writes = tx[c].writes
      /\ OthersSame(c)
  BY <1>1, DropFilePost DEF At, Becomes, OthersSame
<1>3. Current(c)' = Current(c) /\ Todo(c)' = Todo(c)
  BY <1>2 DEF Current, Todo
<1>4. \A p \in Id : Active(c, p)' = Active(c, p)
  BY <1>1, <1>2, SameView
<1> HIDE DEF Current, Todo
<1>5. AsReadOK(c)'
  BY <1>1, <1>2, <1>3 DEF AsReadOK
<1>6. \A p \in Id : Expect(c, p) = Active(c, p)
  BY <1>1 DEF Expect, Active
<1>7. \A p \in Id : Expect(c, p)' = (Active(c, p)' /\ p # tx[c].todo[Current(c)].path)
  BY <1>2, <1>3 DEF Expect
<1>8. DiskOK(c)'
  BY <1>1, <1>4, <1>6, <1>7 DEF DiskOK
<1> QED
  BY <1>1, <1>2, <1>5, <1>8, TidyStep

\* update() and delete() select the row that has been read.
LEMMA SelectRowTidy ==
    ASSUME OneClient, Core, TidyInv, Calm, NEW c \in Clients, SelectRow(c)
    PROVE  TidyInv'
<1> DEFINE v == View(c, Current(c))
<1>1. TypeOK /\ c \in Threads /\ tx[c].pc = "select" /\ rows' = rows /\ disk' = disk
      /\ AsReadOK(c) /\ DiskOK(c)
  BY DEF Core, Threads, SelectRow, dbFrame, TidyInv
<1>2. /\ tx'[c].pc = "write" /\ tx'[c].todo = tx[c].todo /\ tx'[c].writes = tx[c].writes
      /\ tx'[c].base = v /\ OthersSame(c)
  BY <1>1, SelectRowPost DEF Becomes, OthersSame
<1>3. Current(c)' = Current(c) /\ Todo(c)' = Todo(c)
  BY <1>2 DEF Current, Todo
<1>4. Current(c) \in Todo(c) /\ v = rows[Current(c)]
  BY <1>1, Amid, CoreOf DEF WritesOK, Locked, View
<1>5. v = tx[c].todo[Current(c)]
  BY <1>1, <1>4 DEF AsReadOK
<1> HIDE DEF v, Current, Todo
<1>6. AsReadOK(c)'
  BY <1>1, <1>2, <1>3, <1>5 DEF AsReadOK
<1>7. \A p \in Id : Active(c, p)' = Active(c, p)
  BY <1>1, <1>2, SameView
<1>8. \A p \in Id : Expect(c, p)' = Expect(c, p)
  BY <1>1, <1>2, <1>3, <1>7 DEF Expect
<1>9. DiskOK(c)'
  BY <1>1, <1>8 DEF DiskOK
<1> QED
  BY <1>1, <1>2, <1>6, <1>9, TidyStep

\* A row is the only one of its file, for the request as in the table.
LEMMA ViewIsDistinct ==
    ASSUME Core, TidyInv, Calm, NEW c \in Clients, NEW i \in Id, NEW j \in Id,
           tx[c].pc # "commit", View(c, i) # Absent, View(c, j) # Absent,
           View(c, i).path = View(c, j).path
    PROVE  i = j
<1>1. AsReadOK(c) /\ Distinct
  BY DEF TidyInv
<1>2. ASSUME NEW k \in Id, View(c, k) # Absent
      PROVE  rows[k] # Absent /\ View(c, k).path = rows[k].path
  BY <1>1, <1>2 DEF View, AsReadOK, IsRow
<1> QED
  BY <1>1, <1>2 DEF Distinct

\* A row has been dropped, after its file.
LEMMA TidyDrops ==
    ASSUME OneClient, Core, TidyInv, Calm, NEW c \in Clients, tx[c].pc = "write",
           NEW done \in {"store", "commit"}, NEW w, Drops(c, done, w), rows' = rows, disk' = disk,
           \/ w = Absent
           \/ w = Keep /\ rows[Current(c)] # Absent /\ ~ rows[Current(c)].active
           \/ w = Dto(c)
    PROVE  TidyInv'
<1>1. PICK i : i = Current(c)
  OBVIOUS
<1>2. c \in Threads /\ TypeOK /\ AsReadOK(c) /\ DiskOK(c)
  BY DEF Threads, Core, TidyInv
<1>3. i \in Id /\ i \in Todo(c) /\ rows[i] = tx[c].todo[i] /\ rows[i] # Absent
  <2>1. i \in Id /\ i \in Todo(c)
    BY <1>1, <1>2, Amid
  <2> QED
    BY <1>2, <2>1 DEF AsReadOK, Todo
<1>4. tx[c].writes[i] = Keep /\ View(c, i) = rows[i]
  BY <1>2, <1>3, CoreOf DEF WritesOK, Locked, View
<1>5. tx[c].todo \in [Id -> RowOrAbsent] /\ tx[c].writes \in [Id -> RowOrAbsent \cup {Keep}]
  BY <1>2, Fields
<1>6. Dto(c) \in Row /\ ~ Dto(c).active /\ Dto(c).path = rows[i].path
  BY <1>1, <1>2, <1>3, Amid, DtoTypes
<1> DEFINE todo == [tx[c].todo EXCEPT ![i] = Absent]
           writes == [tx[c].writes EXCEPT ![i] = w]
<1>7. /\ tx'[c].pc = After(c, i, done) /\ tx'[c].todo = todo /\ tx'[c].writes = writes
      /\ OthersSame(c)
  BY <1>1 DEF Drops, Becomes, OthersSame
<1>8. \A j \in Id : /\ todo[j] = IF j = i THEN Absent ELSE tx[c].todo[j]
                    /\ writes[j] = IF j = i THEN w ELSE tx[c].writes[j]
  BY <1>3, <1>5
<1>9. tx'[c].pc \in {"drop", "store", "commit"}
  BY <1>7 DEF After
<1> HIDE DEF todo, writes
<1>10. \A j \in Id \ {i} : View(c, j)' = View(c, j) /\ Live(c, j)' = Live(c, j)
  <2>1. \A j \in Id \ {i} : View(c, j)' = View(c, j)
    BY <1>7, <1>8 DEF View
  <2> QED
    BY <2>1 DEF Live
<1>11. ~ Live(c, i)'
  <2>1. View(c, i)' = IF w = Keep THEN rows[i] ELSE w
    BY <1>3, <1>7, <1>8 DEF View
  <2>2. View(c, i)' = Absent \/ ~ View(c, i)'.active
    BY <1>1, <1>6, <2>1, RowsAreRows
  <2> HIDE DEF View
  <2> QED
    BY <2>2 DEF Live
<1>12. AsReadOK(c)'
  <2>1. \A j \in Todo(c)' : rows[j] = tx'[c].todo[j]
    BY <1>2, <1>7, <1>8 DEF Todo, AsReadOK
  <2>2. ASSUME NEW j \in Id, IsRow(writes[j])
        PROVE  rows[j] # Absent /\ writes[j].path = rows[j].path /\ ~ writes[j].active
    <3>1. CASE j = i
      BY <1>3, <1>6, <1>8, <2>2, <3>1 DEF IsRow
    <3>2. CASE j # i
      BY <1>2, <1>8, <2>2, <3>2 DEF AsReadOK
    <3> QED
      BY <3>1, <3>2
  <2> QED
    BY <1>7, <1>9, <2>1, <2>2 DEF AsReadOK
<1>13. \A p \in Id : Active(c, p)' <=> Active(c, p) /\ p # rows[i].path
  <2>1. ASSUME NEW p \in Id, NEW j \in Id, Live(c, j)', View(c, j)'.path = p
        PROVE  Active(c, p) /\ p # rows[i].path
    <3>1. j # i
      BY <1>11, <2>1
    <3>2. Live(c, j) /\ View(c, j).path = p
      BY <1>10, <2>1, <3>1
    <3>3. p # rows[i].path
      <4>1. SUFFICES ASSUME p = rows[i].path PROVE FALSE
        OBVIOUS
      <4>2. View(c, j) # Absent /\ View(c, i) # Absent /\ View(c, j).path = View(c, i).path
        BY <1>3, <1>4, <3>2, <4>1 DEF Live
      <4> QED
        BY <1>3, <3>1, <4>2, ViewIsDistinct
    <3> QED
      BY <3>2, <3>3 DEF Active
  <2>2. ASSUME NEW p \in Id, NEW j \in Id, Live(c, j), View(c, j).path = p, p # rows[i].path
        PROVE  Live(c, j)' /\ View(c, j)'.path = p
    BY <1>4, <1>10, <2>2
  <2> QED
    BY <2>1, <2>2 DEF Active
<1>14. \A p \in Id : Expect(c, p) <=> Active(c, p) /\ p # rows[i].path
  BY <1>1, <1>3 DEF Expect
<1>15. \A p \in Id : Expect(c, p)' <=> Active(c, p)'
  BY <1>9 DEF Expect
<1>16. DiskOK(c)'
  BY <1>2, <1>13, <1>14, <1>15 DEF DiskOK
<1> QED
  BY <1>7, <1>12, <1>16, TidyStep

\* update() leaves an inactive row: the copy of an idle user is as the row.
LEMMA DeactivateRowTidy ==
    ASSUME OneClient, Core, Flags, SlotInv, TidyInv, Calm, NEW c \in Clients, DeactivateRow(c)
    PROVE  TidyInv'
<1>1. PICK i : i = Current(c)
  OBVIOUS
<1>2. /\ c \in Threads /\ TypeOK /\ tx[c].pc = "write" /\ tx[c].op \in Uploads /\ AsReadOK(c)
      /\ rows' = rows /\ disk' = disk
  BY DEF DeactivateRow, Threads, Core, Uploads, TidyInv
<1>3. /\ i \in Id /\ i \in Todo(c) /\ rows[i] # Absent /\ tx[c].base = rows[i]
      /\ Dto(c) \in Row /\ ~ Dto(c).active
  <2>1. i \in Id /\ i \in Todo(c) /\ Dto(c) \in Row /\ ~ Dto(c).active
    BY <1>1, <1>2, Amid, DtoTypes
  <2> QED
    BY <1>1, <1>2, <2>1 DEF AsReadOK, Todo
<1>4. View(c, i) = rows[i]
  BY <1>2, <1>3, CoreOf DEF WritesOK, Locked, View
<1>5. \/ tx[c].base = Dto(c) /\ Dropped(c, i, "store", tx[c].writes[i]) /\ mixed' = mixed
      \/ /\ tx[c].base # Dto(c) /\ ~ Held(c, i)
         /\ Dropped(c, i, "store", Merge(Dto(c), tx[c].base, View(c, i)))
         /\ mixed' = (mixed \/ Mixes(Dto(c), tx[c].base, View(c, i)))
  BY <1>1, <1>3, <1>4 DEF DeactivateRow, Dto
<1>6. \E w : Deactivates(c, w) /\ Drops(c, "store", w)
  <2>1. CASE tx[c].base = Dto(c) /\ Dropped(c, i, "store", tx[c].writes[i]) /\ mixed' = mixed
    BY <1>1, <1>2, <2>1, DroppedPost DEF Deactivates, Drops
  <2>2. CASE /\ tx[c].base # Dto(c) /\ ~ Held(c, i)
             /\ Dropped(c, i, "store", Merge(Dto(c), tx[c].base, View(c, i)))
             /\ mixed' = (mixed \/ Mixes(Dto(c), tx[c].base, View(c, i)))
    BY <1>1, <1>2, <1>3, <1>4, <2>2, DroppedPost DEF Deactivates, Drops
  <2> QED
    BY <1>5, <2>1, <2>2
<1>7. PICK w : Deactivates(c, w) /\ Drops(c, "store", w)
  BY <1>6
<1>8. w = Dto(c) \/ (w = Keep /\ rows[i] \in {Dto(c), Absent})
  BY <1>1, <1>2, <1>7, UndisturbedUpdate
<1>9. w = Dto(c) \/ (w = Keep /\ rows[Current(c)] # Absent /\ ~ rows[Current(c)].active)
  <2>1. w = Dto(c) \/ (w = Keep /\ rows[i] # Absent /\ ~ rows[i].active)
    BY <1>3, <1>8
  <2> QED
    BY <1>1, <2>1
<1> QED
  BY <1>2, <1>7, <1>9, TidyDrops

\* delete() finds the row it has selected.
LEMMA DeleteRowTidy ==
    ASSUME OneClient, Core, TidyInv, Calm, NEW c \in Clients, DeleteRow(c)
    PROVE  TidyInv'
<1>1. PICK i : i = Current(c)
  OBVIOUS
<1>2. /\ c \in Threads /\ TypeOK /\ tx[c].pc = "write" /\ AsReadOK(c) /\ rows' = rows /\ disk' = disk
  BY DEF DeleteRow, dbFrame, Threads, Core, TidyInv
<1>3. i \in Id /\ i \in Todo(c) /\ rows[i] # Absent /\ tx[c].base = rows[i]
  <2>1. i \in Id /\ i \in Todo(c)
    BY <1>1, <1>2, Amid
  <2> QED
    BY <1>1, <1>2, <2>1 DEF AsReadOK, Todo
<1>4. View(c, i) = rows[i]
  BY <1>2, <1>3, CoreOf DEF WritesOK, Locked, View
<1>5. PICK w : Deletes(c, w) /\ Drops(c, "commit", w)
  BY <1>2, DeleteRowPost
<1>6. w = Absent
  BY <1>1, <1>3, <1>4, <1>5 DEF Deletes
<1> QED
  BY <1>2, <1>5, <1>6, TidyDrops

\* write_temp_upload adds the new file.
LEMMA StoreFileTidy ==
    ASSUME OneClient, Core, TidyInv, Calm, NEW c \in Clients, StoreFile(c)
    PROVE  TidyInv'
<1>1. TypeOK /\ c \in Threads /\ tx[c].pc = "store" /\ rows' = rows /\ disk' = disk \cup {stored + 1}
      /\ AsReadOK(c) /\ DiskOK(c)
  BY DEF Core, Threads, StoreFile, TidyInv
<1>2. /\ tx'[c].pc = "number" /\ tx'[c].todo = tx[c].todo /\ tx'[c].writes = tx[c].writes
      /\ tx'[c].path = stored + 1 /\ OthersSame(c)
  BY <1>1, StoreFilePost DEF Becomes, OthersSame
<1>3. \A p \in Id : Active(c, p)' = Active(c, p)
  BY <1>1, <1>2, SameView
<1>4. AsReadOK(c)'
  BY <1>1, <1>2 DEF AsReadOK, Todo
<1>5. \A p \in Id : Expect(c, p) = Active(c, p)
  BY <1>1 DEF Expect, Active
<1>6. \A p \in Id : Expect(c, p)' <=> Active(c, p)' \/ p = stored + 1
  BY <1>2 DEF Expect
<1>7. DiskOK(c)'
  BY <1>1, <1>3, <1>5, <1>6 DEF DiskOK
<1> QED
  BY <1>1, <1>2, <1>4, <1>7, TidyStep

\* max(id) + 1 is above all rows.
LEMMA NumberRowTidy ==
    ASSUME OneClient, Core, TidyInv, Calm, NEW c \in Clients, NumberRow(c)
    PROVE  TidyInv'
<1>1. /\ TypeOK /\ c \in Threads /\ tx[c].pc = "number" /\ rows' = rows /\ disk' = disk
      /\ AsReadOK(c) /\ DiskOK(c)
  BY DEF Core, Threads, NumberRow, dbFrame, TidyInv
<1>2. PICK k : k = NextKey(c)
  OBVIOUS
<1>3. /\ tx'[c].pc = "insert" /\ tx'[c].todo = tx[c].todo /\ tx'[c].writes = tx[c].writes
      /\ tx'[c].path = tx[c].path /\ tx'[c].key = k /\ OthersSame(c)
  BY <1>1, <1>2, NumberRowPost DEF Becomes, OthersSame
<1>4. ASSUME NEW i \in Id, rows[i] # Absent PROVE i < k
  <2>1. ShapeOK(c) /\ WritesOK(c)
    BY <1>1, CoreOf
  <2>2. tx[c].writes[i] # Absent
    <3>1. tx[c].op \in Uploads
      BY <1>1, <2>1 DEF ShapeOK
    <3>2. CASE tx[c].writes[i] = Keep
      BY <3>2, RowsAreRows
    <3>3. CASE tx[c].writes[i] # Keep
      BY <2>1, <3>1, <3>3 DEF WritesOK, Locked
    <3> QED
      BY <3>2, <3>3
  <2>3. View(c, i) # Absent
    BY <1>4, <2>2 DEF View
  <2> QED
    BY <1>1, <1>2, <2>3, NextKeyBounded
<1>5. AsReadOK(c)'
  BY <1>1, <1>3, <1>4 DEF AsReadOK, Todo
<1>6. \A p \in Id : Active(c, p)' = Active(c, p)
  BY <1>1, <1>3, SameView
<1>7. \A p \in Id : /\ Expect(c, p) <=> Active(c, p) \/ p = tx[c].path
                    /\ Expect(c, p)' <=> Active(c, p)' \/ p = tx[c].path
  BY <1>1, <1>3 DEF Expect
<1>8. DiskOK(c)'
  BY <1>1, <1>6, <1>7 DEF DiskOK
<1> QED
  BY <1>1, <1>3, <1>5, <1>8, TidyStep

\* The new row names the new file, and its key is free.
LEMMA InsertRowTidy ==
    ASSUME OneClient, Core, TidyInv, Calm, NEW c \in Clients, InsertRow(c)
    PROVE  TidyInv'
<1>1. /\ TypeOK /\ c \in Threads /\ tx[c].pc = "insert" /\ rows' = rows /\ disk' = disk
      /\ AsReadOK(c) /\ DiskOK(c) /\ ShapeOK(c) /\ WritesOK(c)
  BY DEF Core, Threads, InsertRow, dbFrame, TidyInv
<1>2. PICK k : k = tx[c].key
  OBVIOUS
<1>3. k \in Id /\ k \in Nat /\ tx[c].writes \in [Id -> RowOrAbsent \cup {Keep}] /\ tx[c].op \in Uploads
  BY <1>1, <1>2, Fields, CoreOf DEF ShapeOK
<1>4. rows[k] = Absent
  BY <1>1, <1>2, <1>3 DEF AsReadOK
<1>5. tx[c].writes[k] = Keep /\ View(c, k) = Absent
  BY <1>1, <1>2, <1>3, <1>4 DEF WritesOK, Locked, View
<1> DEFINE writes == [tx[c].writes EXCEPT ![k] = NewRow(c)]
<1>6. /\ tx'[c].pc = "commit" /\ tx'[c].todo = tx[c].todo /\ tx'[c].writes = writes
      /\ tx'[c].path = tx[c].path /\ tx'[c].key = k /\ OthersSame(c)
  <2>1. Becomes(c, "commit", tx[c].op, tx[c].owner, tx[c].kind, tx[c].size, tx[c].todo,
                tx[c].base, tx[c].path,
                tx[c].key, [tx[c].writes EXCEPT ![tx[c].key] = NewRow(c)])
    BY <1>1, <1>2, <1>4, InsertRowPost
  <2> QED
    BY <1>2, <2>1 DEF Becomes, OthersSame
<1>7. \A j \in Id : writes[j] = IF j = k THEN NewRow(c) ELSE tx[c].writes[j]
  BY <1>3
<1>8. NewRow(c).path = tx[c].path /\ NewRow(c).active /\ NewRow(c) \in Row
  <2>1. tx[c].path \in Id
    BY <1>1, <1>3, Fields DEF ShapeOK
  <2> QED
    BY <1>1, <1>3, <2>1 DEF NewRow, Row, ShapeOK
<1> HIDE DEF writes
<1>9. View(c, k)' = NewRow(c) /\ Live(c, k)'
  <2>1. View(c, k)' = NewRow(c)
    BY <1>3, <1>6, <1>7, <1>8, RowsAreRows DEF View
  <2> HIDE DEF View
  <2> QED
    BY <1>8, <2>1, RowsAreRows DEF Live
<1>10. \A j \in Id \ {k} : View(c, j)' = View(c, j) /\ Live(c, j)' = Live(c, j)
  <2>1. \A j \in Id \ {k} : View(c, j)' = View(c, j)
    BY <1>1, <1>6, <1>7 DEF View
  <2> QED
    BY <2>1 DEF Live
<1>11. ~ Live(c, k)
  BY <1>5 DEF Live
<1>12. \A p \in Id : Active(c, p)' <=> Active(c, p) \/ p = tx[c].path
  <2>1. ASSUME NEW p \in Id, NEW j \in Id, Live(c, j)', View(c, j)'.path = p
        PROVE  Active(c, p) \/ p = tx[c].path
    BY <1>8, <1>9, <1>10, <2>1 DEF Active
  <2>2. ASSUME NEW p \in Id, NEW j \in Id, Live(c, j), View(c, j).path = p
        PROVE  Live(c, j)' /\ View(c, j)'.path = p
    BY <1>10, <1>11, <2>2
  <2>3. Live(c, k)' /\ View(c, k)'.path = tx[c].path
    BY <1>8, <1>9
  <2> QED
    BY <1>3, <2>1, <2>2, <2>3 DEF Active
<1>13. \A p \in Id : /\ Expect(c, p) <=> Active(c, p) \/ p = tx[c].path
                     /\ Expect(c, p)' <=> Active(c, p)'
  BY <1>1, <1>6 DEF Expect
<1>14. DiskOK(c)'
  BY <1>1, <1>12, <1>13 DEF DiskOK
<1>15. AsReadOK(c)'
  <2>1. Todo(c)' = {}
    BY <1>1, <1>6 DEF ShapeOK, Dropping, Todo
  <2>2. ASSUME NEW j \in Id, IsRow(writes[j]), j # k
        PROVE  rows[j] # Absent /\ writes[j].path = rows[j].path /\ ~ writes[j].active
    BY <1>1, <1>7, <2>2 DEF AsReadOK
  <2> QED
    BY <1>1, <1>6, <2>1, <2>2 DEF AsReadOK
<1> QED
  BY <1>1, <1>6, <1>14, <1>15, TidyStep

\* commit() publishes what the request has seen.
LEMMA CommitTidy ==
    ASSUME OneClient, Core, Paths, TidyInv, Calm, NEW c \in Clients, Commit(c)
    PROVE  TidyInv'
<1>1. /\ TypeOK /\ c \in Threads /\ tx[c].pc = "commit" /\ disk' = disk
      /\ AsReadOK(c) /\ DiskOK(c) /\ Distinct /\ ShapeOK(c) /\ WritesOK(c) /\ NewRowOK(c)
      /\ tx[Purger] = Idle
  BY DEF Core, Threads, Commit, TidyInv
<1>2. tx'[c] = Idle /\ OthersSame(c) /\ \A i \in Id : rows'[i] = View(c, i)
  BY <1>1, CommitPost DEF Ends, OthersSame
<1>3. ASSUME NEW i \in Id, View(c, i) # Absent
      PROVE  \/ rows[i] # Absent /\ View(c, i).path = rows[i].path
             \/ i = tx[c].key /\ View(c, i).path = tx[c].path /\ ~ InTable(tx[c].path)
  <2>1. CASE tx[c].writes[i] = Keep
    BY <1>3, <2>1 DEF View
  <2>2. CASE tx[c].writes[i] # Keep
    <3>1. View(c, i) = tx[c].writes[i] /\ IsRow(tx[c].writes[i])
      BY <1>3, <2>2 DEF View, IsRow
    <3>2. CASE i # tx[c].key
      BY <1>1, <3>1, <3>2 DEF AsReadOK
    <3>3. CASE i = tx[c].key
      <4>1. tx[c].op \in Uploads
        BY <1>1, <2>2, <3>1 DEF WritesOK, Locked, IsRow
      <4>2. View(c, i) = NewRow(c)
        BY <1>1, <3>1, <3>3, <4>1 DEF NewRowOK
      <4>3. tx[c].path \in Id
        BY <1>1, <4>1, Fields DEF ShapeOK
      <4>4. ~ InTable(tx[c].path)
        BY <1>1, <4>3 DEF Paths, FreshOK
      <4>5. NewRow(c).path = tx[c].path
        BY DEF NewRow
      <4> QED
        BY <3>3, <4>2, <4>4, <4>5
    <3> QED
      BY <3>2, <3>3
  <2> QED
    BY <2>1, <2>2
<1>4. Distinct'
  <2>1. SUFFICES ASSUME NEW i \in Id, NEW j \in Id, View(c, i) # Absent, View(c, j) # Absent,
                        View(c, i).path = View(c, j).path
                 PROVE  i = j
    BY <1>2 DEF Distinct
  <2> HIDE DEF View
  <2> QED
    BY <1>1, <1>3, <2>1 DEF Distinct, InTable
<1>5. tx'[c].pc = "idle" /\ \A i \in Id : tx'[c].todo[i] = Absent /\ tx'[c].writes[i] = Keep
  BY <1>2, IdleIs DEF NoRows, NoWrites
<1>6. AsReadOK(c)'
  BY <1>5 DEF AsReadOK, Todo, IsRow
<1>7. \A i \in Id : View(c, i)' = View(c, i)
  BY <1>2, <1>5 DEF View
<1>8. \A p \in Id : Active(c, p)' = Active(c, p)
  BY <1>7 DEF Active, Live
<1>9. \A p \in Id : (Expect(c, p) <=> Active(c, p)) /\ (Expect(c, p)' <=> Active(c, p)')
  BY <1>1, <1>5 DEF Expect, Active
<1>10. DiskOK(c)'
  BY <1>1, <1>8, <1>9 DEF DiskOK
<1>11. tx'[Purger] = Idle
  BY <1>1, <1>2, TempFilesAssumption DEF OthersSame, Threads
<1>12. \A d \in Clients : d = c
  BY DEF OneClient
<1> QED
  BY <1>4, <1>6, <1>10, <1>11, <1>12 DEF TidyInv

\* Calm does not come back.
LEMMA CalmBefore ==
    ASSUME Core, [Next]_vars, Calm'
    PROVE  Calm /\ (\A t \in Threads : ~ Fail(t)) /\ ~ FileExpires
<1>1. expired \in Nat /\ faults \in Nat
  BY TempFilesAssumption DEF Core, TypeOK
<1>2. CASE UNCHANGED vars
  BY <1>1, <1>2 DEF vars, Calm, FileExpires, Fail
<1>3. CASE FileExpires
  BY <1>1, <1>3 DEF FileExpires, Calm
<1>4. CASE \E t \in Threads : Fail(t)
  BY <1>1, <1>4 DEF Fail, Calm
<1>5. CASE expired' = expired /\ faults' = faults
  BY <1>1, <1>5 DEF FileExpires, Fail, Calm
<1>6. ASSUME NEW t \in Threads, DropStep(t), ~ Fail(t) PROVE expired' = expired /\ faults' = faults
  BY <1>6 DEF DropStep, DropFile, SelectRow, DeleteRow, Commit, dbFrame
<1>7. ASSUME NEW c \in Clients, Request(c), ~ DropStep(c) PROVE expired' = expired /\ faults' = faults
  BY <1>7 DEF Request, Proceed, BeginUpload, BeginReplace, BeginDelete, ListSlot, CheckReplacement,
              DeactivateRow, StoreFile, NumberRow, InsertRow, dbFrame
<1>8. BeginPurge => expired' = expired /\ faults' = faults
  BY DEF BeginPurge, dbFrame
<1> QED
  BY <1>2, <1>3, <1>4, <1>5, <1>6, <1>7, <1>8 DEF Next, Purge, Threads

\* All steps: without expired files the purge has nothing to do.
LEMMA TidyNext ==
    ASSUME OneClient, Core, Paths, Flags, SlotInv, TidyInv, [Next]_vars
    PROVE  TidyInv'
<1>1. SUFFICES ASSUME Calm' PROVE TidyInv'
  BY DEF TidyInv
<1>2. Calm /\ (\A t \in Threads : ~ Fail(t)) /\ ~ FileExpires
  BY <1>1, CalmBefore
<1>3. CASE UNCHANGED vars
  <2>1. rows' = rows /\ disk' = disk /\ tx' = tx
    BY <1>3 DEF vars
  <2>2. \A c \in Clients : \A i \in Id : View(c, i)' = View(c, i)
    BY <2>1 DEF View
  <2>3. \A c \in Clients : Todo(c)' = Todo(c) /\ Current(c)' = Current(c)
    BY <2>1 DEF Todo, Current
  <2>4. \A c \in Clients : \A p \in Id : Active(c, p)' = Active(c, p)
    BY <2>2 DEF Active, Live
  <2> HIDE DEF View, Todo, Current
  <2>5. \A c \in Clients : DiskOK(c)'
    BY <1>2, <2>1, <2>3, <2>4 DEF TidyInv, DiskOK, Expect
  <2>6. \A c \in Clients : AsReadOK(c)'
    BY <1>2, <2>1, <2>3 DEF TidyInv, AsReadOK
  <2>7. Distinct'
    BY <1>2, <2>1 DEF TidyInv, Distinct
  <2> QED
    BY <1>2, <2>1, <2>5, <2>6, <2>7 DEF TidyInv
<1>4. ASSUME NEW c \in Clients, Request(c) PROVE TidyInv'
  <2>1. c \in Threads /\ ~ Fail(c)
    BY <1>2 DEF Threads
  <2>2. CASE Proceed(c)
    BY <1>2, <2>1, <2>2, ListSlotTidy, CheckReplacementTidy, DeactivateRowTidy, StoreFileTidy, NumberRowTidy,
       InsertRowTidy, DropFileTidy, SelectRowTidy, DeleteRowTidy, CommitTidy
       DEF Proceed, DropStep
  <2>3. CASE ~ Proceed(c)
    BY <1>2, <1>4, <2>3, BeginTidy DEF Request
  <2> QED
    BY <2>2, <2>3
<1>5. ~ Purge
  <2>1. tx[Purger].pc = "idle" /\ Purger \in Threads
    BY <1>2, IdleIs DEF TidyInv, Threads
  <2>2. ~ BeginPurge
    <3>1. SUFFICES ASSUME NEW i \in Id, rows[i] # Absent, rows[i].path <= expired PROVE FALSE
      BY DEF BeginPurge
    <3>2. rows[i].path \in Id
      BY <3>1, RowsAreRows DEF Core, TypeOK
    <3> QED
      BY <1>2, <3>1, <3>2, TempFilesAssumption DEF Calm, Id
  <2> QED
    BY <1>2, <2>1, <2>2 DEF Purge, DropStep, DropFile, SelectRow, DeleteRow, Commit
<1> QED
  BY <1>2, <1>3, <1>4, <1>5 DEF Next

\* No rows, no files.
LEMMA InitTidy ==
    ASSUME Init
    PROVE  TidyInv
<1>1. rows = NoRows /\ disk = {} /\ \A t \in Threads : tx[t] = Idle
  BY DEF Init
<1>2. tx[Purger] = Idle /\ \A c \in Clients : tx[c] = Idle
  BY <1>1 DEF Threads
<1>3. Distinct
  BY <1>1 DEF Distinct, NoRows
<1>4. ASSUME NEW c \in Clients PROVE AsReadOK(c) /\ DiskOK(c)
  <2>1. tx[c].pc = "idle" /\ \A i \in Id : tx[c].todo[i] = Absent /\ tx[c].writes[i] = Keep
    BY <1>2, IdleIs DEF NoRows, NoWrites
  <2>2. \A i \in Id : View(c, i) = Absent
    BY <1>1, <2>1 DEF View, NoRows
  <2>3. \A p \in Id : ~ Expect(c, p)
    BY <2>1, <2>2 DEF Expect, Active, Live
  <2> QED
    BY <1>1, <2>1, <2>3 DEF AsReadOK, DiskOK, Todo, IsRow
<1> QED
  BY <1>2, <1>3, <1>4 DEF TidyInv

(* A user who sends one request at a time and replaces files by files of    *)
(* their kind finds on disk, between requests, the files of the active rows *)
(* and no other, as long as no row is purged and no operation fails: what   *)
(* _project_active_set, delete_relative_path and write_temp_upload do to    *)
(* the disk is what the transaction does to the table.                      *)
THEOREM DiskMatchesRows == ASSUME OneClient PROVE Spec => []FilesMatchRows
<1>1. Init => SlotInv /\ TidyInv
  BY InitSlot, InitTidy
<1>2. IInv /\ SlotInv /\ TidyInv /\ [Next]_vars => SlotInv' /\ TidyInv'
  BY SlotNext, TidyNext DEF IInv
<1>3. Spec => [](SlotInv /\ TidyInv)
  BY <1>1, <1>2, Invariance, PTL DEF Spec
<1>4. ASSUME IInv, TidyInv PROVE FilesMatchRows
  <2>1. SUFFICES ASSUME Calm, \A t \in Threads : tx[t].pc = "idle"
                 PROVE  disk = {rows[i].path : i \in ActiveIds}
    BY DEF FilesMatchRows, Calm
  <2>2. PICK c \in Clients : TRUE
    BY TempFilesAssumption
  <2>3. TypeOK /\ c \in Threads /\ DiskOK(c) /\ tx[c] = Idle
    BY <1>4, <2>1 DEF IInv, Core, Threads, ShapeOK, TidyInv
  <2>4. tx[c].pc = "idle" /\ \A i \in Id : tx[c].writes[i] = Keep
    BY <2>3, IdleIs DEF NoWrites
  <2>5. \A i \in Id : View(c, i) = rows[i]
    BY <2>4 DEF View
  <2>6. \A p \in Id : p \in disk <=> \E i \in ActiveIds : rows[i].path = p
    BY <2>3, <2>4, <2>5 DEF DiskOK, Expect, Active, Live, ActiveIds
  <2>7. \A p \in disk : p \in Id
    BY <2>3, TempFilesAssumption DEF TypeOK, Id
  <2>8. \A i \in ActiveIds : rows[i].path \in Id
    BY <2>3, RowsAreRows DEF TypeOK, ActiveIds
  <2> QED
    BY <2>6, <2>7, <2>8
<1> QED
  BY <1>3, <1>4, Invariance, PTL

-----------------------------------------------------------------------------
(* The sizes of the rows with these keys, added up as                       *)
(* _validate_projected_set adds them.                                       *)
Total(table, S) == MapThenSumSet(LAMBDA i : table[i].size, S)
Size(table)     == [i \in Id |-> table[i].size]
HasRows(table, S) == S \in SUBSET Id /\ \A i \in S : table[i] \in Row

\* The sum counts the units of the rows.
LEMMA TotalIsWeight ==
    ASSUME NEW table, NEW S, HasRows(table, S)
    PROVE  /\ IsFiniteSet(S) /\ \A i \in S : Size(table)[i] \in Nat /\ Size(table)[i] = table[i].size
           /\ Total(table, S) = Weight(Size(table), S)
<1> DEFINE w == Size(table)
           x(s) == CHOOSE x \in s : TRUE
           E(f) == f = [s \in SUBSET S |-> IF s = {} THEN 0 ELSE table[x(s)].size + f[s \ {x(s)}]]
<1>1. IsFiniteSet(S) /\ \A i \in S : w[i] \in Nat /\ w[i] = table[i].size
  BY IdSets, RowsAreRows, TempFilesAssumption DEF HasRows, Size
<1>2. Total(table, S) = (CHOOSE f : E(f))[S]
  BY DEF Total, MapThenSumSet, MapThenFoldSet
<1> HIDE DEF w
<1>3. ASSUME NEW f PROVE E(f) <=> SumsUp(f, w, S)
  <2>1. ASSUME NEW s \in SUBSET S, s # {} PROVE w[x(s)] = table[x(s)].size
    BY <1>1, <2>1
  <2> QED
    BY <2>1 DEF SumsUp
<1>4. \E f : SumsUp(f, w, S)
  BY <1>1, WeightSumsUp
<1> HIDE DEF E
<1>5. SumsUp(CHOOSE f : E(f), w, S)
  BY <1>3, <1>4
<1>6. (CHOOSE f : E(f))[S] = Weight(w, S)
  BY <1>1, <1>5, SumIsWeight
<1> QED
  BY <1>1, <1>2, <1>6 DEF w

\* A table that has lost rows is not larger.
LEMMA LessTotal ==
    ASSUME NEW table, NEW T, HasRows(table, T), NEW S \in SUBSET T,
           NEW new, \A i \in S : new[i] = table[i]
    PROVE  /\ Total(new, S) \in Nat /\ Total(table, T) \in Nat
           /\ Total(new, S) <= Total(table, T)
<1>1. HasRows(new, S)
  BY DEF HasRows
<1>2. \A i \in S : Size(new)[i] = Size(table)[i]
  BY <1>1 DEF Size, HasRows
<1> QED
  BY <1>1, <1>2, TotalIsWeight, LessWeight

\* One more row adds its size.
LEMMA TotalWith ==
    ASSUME NEW table, NEW S, HasRows(table, S), NEW x \in S
    PROVE  Total(table, S) = Total(table, S \ {x}) + table[x].size
<1>1. HasRows(table, S \ {x})
  BY DEF HasRows
<1>2. IsFiniteSet(Units(Size(table), S \ {x}))
  BY <1>1, TotalIsWeight, UnitsFinite
<1>3. Weight(Size(table), S) = Weight(Size(table), S \ {x}) + Size(table)[x]
  BY <1>2, TotalIsWeight, WeightWith
<1>4. Total(table, S) = Weight(Size(table), S) /\ Size(table)[x] = table[x].size
  BY TotalIsWeight
<1>5. Total(table, S \ {x}) = Weight(Size(table), S \ {x})
  BY <1>1, TotalIsWeight
<1> QED
  BY <1>3, <1>4, <1>5

(* The set of files that the user sees. *)

FileOf(i) == [path |-> rows[i].path, owner |-> rows[i].owner, kind |-> rows[i].kind,
              size |-> rows[i].size]
FileSet   == {FileOf(i) : i \in ActiveIds}

\* An active row is a row.
LEMMA ActiveAreRows ==
    ASSUME TypeOK
    PROVE  /\ HasRows(rows, ActiveIds)
           /\ \A o \in Owners : HasRows(rows, ActiveOf(o))
BY RowsAreRows DEF TypeOK, HasRows, ActiveIds, ActiveOf

\* The sum that TempSet takes of the sizes of the files.
LEMMA FileSumIsWeight ==
    ASSUME NEW S, IsFiniteSet(S), NEW w, \A f \in S : w[f] \in Nat /\ w[f] = f.size
    PROVE  Files!MapThenSumSet(LAMBDA f : f.size, S) = Weight(w, S)
<1> DEFINE x(s) == CHOOSE x \in s : TRUE
           E(f) == f = [s \in SUBSET S |-> IF s = {} THEN 0 ELSE x(s).size + f[s \ {x(s)}]]
<1>2. Files!MapThenSumSet(LAMBDA f : f.size, S) = (CHOOSE f : E(f))[S]
  BY DEF Files!MapThenSumSet, Files!MapThenFoldSet
<1>3. ASSUME NEW f PROVE E(f) <=> SumsUp(f, w, S)
  <2>1. ASSUME NEW s \in SUBSET S, s # {} PROVE w[x(s)] = x(s).size
    BY <2>1
  <2> QED
    BY <2>1 DEF SumsUp
<1>4. \E f : SumsUp(f, w, S)
  BY WeightSumsUp
<1> HIDE DEF E
<1>5. SumsUp(CHOOSE f : E(f), w, S)
  BY <1>3, <1>4
<1>6. (CHOOSE f : E(f))[S] = Weight(w, S)
  BY <1>5, SumIsWeight
<1> QED
  BY <1>2, <1>6

\* TempSet counts as TempFiles does.
LEMMA SameCardinality == \A S : Files!Cardinality(S) = Cardinality(S)
BY DEF Files!Cardinality, Cardinality

FilesOf(o) == {FileOf(i) : i \in ActiveOf(o)}

\* Limits that hold for the rows hold for their files: each file stands for a row.
LEMMA FileSetOK ==
    ASSUME TypeOK, OneFilePerSlot, NEW o \in Owners,
           Module = "wb" => /\ Total(rows, ActiveOf(o)) <= MaxTotal
                            /\ Cardinality(ActivePromos(o)) <= MaxPromo
    PROVE  Files!SetOK(FilesOf(o))
<1> DEFINE h == [f \in FilesOf(o) |-> CHOOSE i \in ActiveOf(o) : FileOf(i) = f]
           w == [f \in FilesOf(o) |-> f.size]
<1>1. HasRows(rows, ActiveOf(o)) /\ ActiveOf(o) \in SUBSET Id
  BY ActiveAreRows DEF ActiveOf, ActiveIds
<1>2. IsFiniteSet(ActiveOf(o)) /\ \A i \in ActiveOf(o) : /\ Size(rows)[i] \in Nat
                                                     /\ Size(rows)[i] = rows[i].size
  BY <1>1, TotalIsWeight
<1>3. \A f \in FilesOf(o) : h[f] \in ActiveOf(o) /\ FileOf(h[f]) = f
  BY DEF FilesOf
<1>4. \A f \in FilesOf(o) : /\ f.path = rows[h[f]].path /\ f.owner = rows[h[f]].owner
                            /\ f.kind = rows[h[f]].kind
                         /\ f.size = rows[h[f]].size
  <2>1. \A i \in ActiveOf(o) : /\ FileOf(i).path = rows[i].path /\ FileOf(i).owner = rows[i].owner
                             /\ FileOf(i).kind = rows[i].kind /\ FileOf(i).size = rows[i].size
    BY DEF FileOf
  <2> HIDE DEF h
  <2> QED
    BY <1>3, <2>1
<1>5. w = [f \in FilesOf(o) |-> f.size] /\ h \in [FilesOf(o) -> ActiveOf(o)]
  BY <1>3
<1> HIDE DEF h, w
<1>6. h \in Injection(FilesOf(o), ActiveOf(o))
  BY <1>3, <1>5 DEF Injection, IsInjective
<1>7. IsFiniteSet(FilesOf(o))
  BY <1>2, <1>6, FS_Injection
<1>8. \A f \in FilesOf(o) : w[f] \in Nat /\ w[f] = f.size /\ w[f] = Size(rows)[h[f]]
  BY <1>2, <1>3, <1>4, <1>5
<1>9. ASSUME Module = "wb" PROVE Files!MapThenSumSet(LAMBDA f : f.size, FilesOf(o)) <= MaxTotal
  <2>1. Files!MapThenSumSet(LAMBDA f : f.size, FilesOf(o)) = Weight(w, FilesOf(o))
    BY <1>7, <1>8, FileSumIsWeight
  <2>2. Weight(w, FilesOf(o)) <= Weight(Size(rows), ActiveOf(o))
    BY <1>2, <1>6, <1>8, WeightThrough
  <2>3. Total(rows, ActiveOf(o)) = Weight(Size(rows), ActiveOf(o)) /\ Total(rows, ActiveOf(o)) <= MaxTotal
    BY <1>1, <1>9, TotalIsWeight
  <2>4. Total(rows, ActiveOf(o)) \in Nat /\ Weight(w, FilesOf(o)) \in Nat
    BY <1>1, <1>7, <1>8, LessTotal, UnitsFinite
  <2> QED
    BY <2>1, <2>2, <2>3, <2>4, TempFilesAssumption
<1>10. ASSUME Module = "wb" PROVE Cardinality({f \in FilesOf(o) : f.kind = "promo"}) <= MaxPromo
  <2> DEFINE P == {f \in FilesOf(o) : f.kind = "promo"}
             g == [f \in P |-> h[f]]
  <2>1. g \in [P -> ActivePromos(o)]
    BY <1>3, <1>4 DEF ActivePromos
  <2>2. \A a, b \in P : g[a] = g[b] => a = b
    BY <1>3
  <2>3. ActivePromos(o) \in SUBSET Id
    BY <1>1 DEF ActivePromos
  <2> HIDE DEF g, P
  <2>4. g \in Injection(P, ActivePromos(o))
    BY <2>1, <2>2 DEF Injection, IsInjective
  <2>5. Cardinality(P) <= Cardinality(ActivePromos(o)) /\ IsFiniteSet(P)
    BY <2>3, <2>4, IdSets, FS_Injection
  <2> QED
    BY <1>10, <2>3, <2>5, IdSets, FS_CardinalityType, TempFilesAssumption DEF P
<1>11. \A f, g \in FilesOf(o) : f.kind # "promo" /\ g.kind = f.kind => f = g
  BY <1>3, <1>4 DEF OneFilePerSlot, ActiveOf
<1> QED
  BY <1>9, <1>10, <1>11, SameCardinality DEF Files!SetOK

-----------------------------------------------------------------------------
(* What makes the set change by whole operations.                          *)

(* The limits hold for the files that are active, and for those that a     *)
(* request leaves next to its own.                                         *)
Stays(c) == {i \in ActiveOf(tx[c].owner) :
                               /\ rows[i].kind \notin Slot(tx[c].kind)
                               /\ tx[c].todo[i] = Absent /\ ~ Locked(c, i)}
Accepted(c) == tx[c].op \in Uploads /\ tx[c].pc # "check"
BudgetOK(c) == Module = "wb" /\ Accepted(c) => Total(rows, Stays(c)) + tx[c].size <= MaxTotal
TotalOK == Module = "wb" => \A o \in Owners : Total(rows, ActiveOf(o)) <= MaxTotal

(* A stored file belongs to one key, and a file that has no row yet to none. *)
Bears(c, i, p) ==
    \/ rows[i] # Absent /\ rows[i].path = p
    \/ tx[c].todo[i] # Absent /\ tx[c].todo[i].path = p
    \/ /\ IsRow(tx[c].writes[i]) /\ tx[c].writes[i].path = p
       /\ ~ (tx[c].pc = "commit" /\ i = tx[c].key)
BearsOK(c) == \A p \in Id :
    /\ \A i, j \in Id : Bears(c, i, p) /\ Bears(c, j, p) => i = j
    /\ tx[c].path = p => \A i \in Id : ~ Bears(c, i, p)

(* A request drops files of the owner and the kind of its own. *)
SameKind(c) == tx[c].op \in Uploads => \A i \in Id :
    /\ tx[c].todo[i] # Absent => tx[c].todo[i].owner = tx[c].owner /\ tx[c].todo[i].kind = tx[c].kind
    /\ Locked(c, i) /\ rows[i] # Absent => rows[i].owner = tx[c].owner /\ rows[i].kind = tx[c].kind

SetInv == TotalOK /\ \A c \in Clients : BudgetOK(c) /\ BearsOK(c) /\ SameKind(c)

\* The size of a request's file.
LEMMA SizeIsNatural ==
    ASSUME Core, NEW c \in Clients, tx[c].op \in Uploads
    PROVE  tx[c].size \in Nat
<1>1. ShapeOK(c)
  BY DEF Core, Threads
<1> QED
  BY <1>1, TempFilesAssumption DEF ShapeOK

\* rows disappear, and the request stays as it is
LEMMA SetOthers ==
    ASSUME Core, SetInv, \A c \in Clients : tx'[c] = tx[c],
           \A i \in Id : rows'[i] \in {rows[i], Absent}
    PROVE  SetInv'
<1>1. /\ ActiveIds' \in SUBSET ActiveIds /\ \A i \in ActiveIds' : rows'[i] = rows[i]
      /\ \A o \in Owners : ActiveOf(o)' \in SUBSET ActiveOf(o) /\ \A i \in ActiveOf(o)' : rows'[i] = rows[i]
  BY DEF ActiveIds, ActiveOf
<1>2. /\ HasRows(rows, ActiveIds) /\ \A o \in Owners : HasRows(rows, ActiveOf(o))
      /\ MaxTotal \in Nat /\ TypeOK
  BY ActiveAreRows, TempFilesAssumption DEF Core
<1>3. TotalOK'
  <2>1. ASSUME NEW o \in Owners
        PROVE  /\ Total(rows', ActiveOf(o)') <= Total(rows, ActiveOf(o))
               /\ Total(rows', ActiveOf(o)') \in Nat /\ Total(rows, ActiveOf(o)) \in Nat
    BY <1>1, <1>2, LessTotal
  <2> QED
    BY <1>2, <2>1 DEF TotalOK, SetInv
<1>4. ASSUME NEW c \in Clients PROVE BudgetOK(c)'
  <2>1. SUFFICES ASSUME Module = "wb", Accepted(c)' PROVE Total(rows', Stays(c)') + tx[c].size <= MaxTotal
    BY DEF BudgetOK
  <2>2. Stays(c)' \in SUBSET Stays(c) /\ \A i \in Stays(c)' : rows'[i] = rows[i]
    BY <1>1 DEF Stays, ActiveOf, Locked
  <2>3. HasRows(rows, Stays(c))
    BY <1>2 DEF HasRows, Stays, ActiveOf
  <2>4. /\ Total(rows', Stays(c)') <= Total(rows, Stays(c))
        /\ Total(rows', Stays(c)') \in Nat /\ Total(rows, Stays(c)) \in Nat
    BY <2>2, <2>3, LessTotal
  <2>5. tx[c].size \in Nat
    BY <2>1, SizeIsNatural DEF Accepted
  <2>6. Total(rows, Stays(c)) + tx[c].size <= MaxTotal
    BY <2>1 DEF SetInv, BudgetOK, Accepted
  <2> QED
    BY <1>2, <2>4, <2>5, <2>6
<1>5. ASSUME NEW c \in Clients PROVE BearsOK(c)' /\ SameKind(c)'
  <2>1. \A i, p \in Id : Bears(c, i, p)' => Bears(c, i, p)
    BY DEF Bears
  <2>2. BearsOK(c)'
    BY <2>1 DEF BearsOK, SetInv
  <2>3. SameKind(c)'
    BY DEF SameKind, SetInv, Locked
  <2> QED
    BY <2>2, <2>3
<1> QED
  BY <1>3, <1>4, <1>5 DEF SetInv

\* A step of the client that does not commit.
LEMMA SetStep ==
    ASSUME OneClient, SetInv, NEW c \in Clients, rows' = rows,
           BudgetOK(c)', BearsOK(c)', SameKind(c)'
    PROVE  SetInv'
<1>1. \A o \in Owners : ActiveOf(o)' = ActiveOf(o)
  BY DEF ActiveIds, ActiveOf
<1>2. TotalOK'
  BY <1>1 DEF TotalOK, SetInv
<1>3. \A d \in Clients : d = c
  BY DEF OneClient
<1> QED
  BY <1>2, <1>3 DEF SetInv

\* A request that goes on leaves no more files than before.
LEMMA BudgetKept ==
    ASSUME Core, SetInv, NEW c \in Clients, rows' = rows, Accepted(c),
           tx'[c].size = tx[c].size, Stays(c)' \in SUBSET Stays(c)
    PROVE  BudgetOK(c)'
<1>1. SUFFICES ASSUME Module = "wb" PROVE Total(rows', Stays(c)') + tx[c].size <= MaxTotal
  BY DEF BudgetOK
<1>2. HasRows(rows, ActiveIds) /\ MaxTotal \in Nat /\ TypeOK /\ c \in Threads
  BY ActiveAreRows, TempFilesAssumption DEF Core, Threads
<1>3. HasRows(rows, Stays(c))
  BY <1>2 DEF HasRows, Stays, ActiveOf
<1>4. /\ Total(rows', Stays(c)') <= Total(rows, Stays(c))
      /\ Total(rows', Stays(c)') \in Nat /\ Total(rows, Stays(c)) \in Nat
  BY <1>3, LessTotal
<1>5. tx[c].size \in Nat /\ Total(rows, Stays(c)) + tx[c].size <= MaxTotal
  BY <1>1, SizeIsNatural DEF SetInv, BudgetOK, Accepted
<1> QED
  BY <1>2, <1>4, <1>5

\* A request that is accepted has room for its file.
LEMMA BudgetBegins ==
    ASSUME Core, NEW c \in Clients, rows' = rows, NEW kind \in Kinds, NEW size \in Sizes,
           NEW o \in Owners, NEW replaced, Fits(Staying(o, replaced, kind), kind, size),
           tx'[c].size = size, Stays(c)' \in SUBSET Staying(o, replaced, kind)
    PROVE  BudgetOK(c)'
<1>1. SUFFICES ASSUME Module = "wb" PROVE Total(rows', Stays(c)') + size <= MaxTotal
  BY DEF BudgetOK
<1>2. HasRows(rows, ActiveIds) /\ MaxTotal \in Nat
  BY ActiveAreRows, TempFilesAssumption DEF Core
<1>3. HasRows(rows, Staying(o, replaced, kind))
  BY <1>2 DEF HasRows, Staying, ActiveOf
<1>4. /\ Total(rows', Stays(c)') <= Total(rows, Staying(o, replaced, kind))
      /\ Total(rows', Stays(c)') \in Nat /\ Total(rows, Staying(o, replaced, kind)) \in Nat
  BY <1>3, LessTotal
<1>5. size \in Nat /\ Total(rows, Staying(o, replaced, kind)) + size <= MaxTotal
  BY <1>1, TempFilesAssumption DEF Fits, Total
<1> QED
  BY <1>2, <1>4, <1>5

\* A request takes up no file that is not its own or in the table.
LEMMA BearsKept ==
    ASSUME Core, Paths, SetInv, NEW c \in Clients, rows' = rows,
           \A i, p \in Id : Bears(c, i, p)' => Bears(c, i, p),
           tx'[c].path \in {0, tx[c].path, stored + 1}
    PROVE  BearsOK(c)'
<1>1. BearsOK(c) /\ c \in Threads /\ stored \in Nat
  BY TempFilesAssumption DEF SetInv, Threads, Core, TypeOK
<1>2. ASSUME NEW p \in Id, tx'[c].path = p, NEW i \in Id, Bears(c, i, p) PROVE FALSE
  <2>1. p # 0 /\ p \in Nat
    BY TempFilesAssumption DEF Id
  <2>2. tx[c].path # p
    BY <1>1, <1>2 DEF BearsOK
  <2>3. p = stored + 1
    BY <1>2, <2>1, <2>2
  <2>4. InTable(p) \/ Names(c, p)
    BY <1>2 DEF Bears, InTable, Names
  <2>5. p <= stored
    BY <1>1, <2>4 DEF Paths, PathsOK
  <2> QED
    BY <1>1, <2>3, <2>5
<1> HIDE DEF Bears
<1> QED
  BY <1>1, <1>2 DEF BearsOK

\* A request that ends without a commit.
LEMMA EndSet ==
    ASSUME OneClient, Core, Paths, SetInv, NEW c \in Clients, rows' = rows, Ends(c)
    PROVE  SetInv'
<1>1. /\ tx'[c].op \notin Uploads /\ tx'[c].path = 0
      /\ \A i \in Id : tx'[c].todo[i] = Absent /\ tx'[c].writes[i] = Keep
  BY IdleIs DEF Ends, Uploads, NoRows, NoWrites
<1>2. \A i, p \in Id : Bears(c, i, p)' => Bears(c, i, p)
  BY <1>1 DEF Bears, IsRow
<1>3. BearsOK(c)'
  BY <1>1, <1>2, BearsKept
<1>4. BudgetOK(c)' /\ SameKind(c)'
  BY <1>1 DEF BudgetOK, SameKind, Accepted
<1> QED
  BY <1>3, <1>4, SetStep

\* A request begins, with at most one row to drop.
LEMMA BearsBegin ==
    ASSUME Core, Paths, SetInv, NEW c \in Clients, rows' = rows, tx'[c].path = 0,
           \A i \in Id : tx'[c].todo[i] \in {rows[i], Absent} /\ tx'[c].writes[i] = Keep
    PROVE  BearsOK(c)'
<1>1. \A i, p \in Id : Bears(c, i, p)' => Bears(c, i, p)
  BY DEF Bears, IsRow
<1> QED
  BY <1>1, BearsKept

\* upload_file, replace_file and delete_file begin.
LEMMA BeginSet ==
    ASSUME OneClient, Core, Paths, SetInv, NEW c \in Clients,
           \/ \E kind \in Kinds, size \in Sizes :
                \/ \E o \in Owners : BeginUpload(c, o, kind, size)
                \/ \E id \in Id : BeginReplace(c, id, kind, size)
           \/ \E id \in Id : BeginDelete(c, id)
    PROVE  SetInv'
<1>1. TypeOK /\ c \in Threads
  BY DEF Core, Threads
<1>2. \A i \in Id : NoWrites[i] = Keep /\ NoRows[i] = Absent
  BY DEF NoWrites, NoRows
<1>3. \A i, id \in Id : /\ [NoRows EXCEPT ![id] = rows[id]][i] \in {rows[i], Absent}
                        /\ [NoRows EXCEPT ![id] = rows[id]][i] # Absent => i = id
  BY DEF NoRows
<1>4. ASSUME NEW o \in Owners, NEW kind \in Kinds, NEW size \in Sizes,
             BeginUpload(c, o, kind, size)
      PROVE  SetInv'
  <2>1. /\ tx'[c].owner = o /\ tx'[c].kind = kind /\ tx'[c].size = size /\ tx'[c].todo = NoRows
        /\ tx'[c].writes = NoWrites /\ tx'[c].path = 0
    BY <1>1, <1>4, BeginUploadPost DEF Becomes
  <2>2. rows' = rows /\ Fits(Staying(o, NoId, kind), kind, size)
    BY <1>4 DEF BeginUpload, dbFrame
  <2>3. BearsOK(c)'
    BY <1>2, <2>1, <2>2, BearsBegin
  <2>4. Stays(c)' \in SUBSET Staying(o, NoId, kind)
    <3>1. \A i \in Id : i # NoId
      BY TempFilesAssumption DEF Id, NoId
    <3> QED
      BY <2>1, <2>2, <3>1 DEF Stays, Staying, ActiveOf, ActiveIds
  <2>5. BudgetOK(c)'
    BY <2>1, <2>2, <2>4, BudgetBegins
  <2>6. SameKind(c)'
    BY <1>2, <2>1 DEF SameKind, Locked
  <2> QED
    BY <2>2, <2>3, <2>5, <2>6, SetStep
<1>5. ASSUME NEW kind \in Kinds, NEW size \in Sizes, NEW id \in Id, BeginReplace(c, id, kind, size)
      PROVE SetInv'
  <2>1. Becomes(c, "check", "replace", rows[id].owner, kind, size,
                [NoRows EXCEPT ![id] = rows[id]], Absent, 0,
                NoId, NoWrites)
    BY <1>1, <1>5, BeginReplacePost
  <2>2. rows' = rows /\ rows[id].kind = kind
    BY <1>5 DEF BeginReplace, dbFrame, OneClient
  <2>3. /\ tx'[c].pc = "check" /\ tx'[c].owner = rows[id].owner /\ tx'[c].kind = kind /\ tx'[c].path = 0
        /\ tx'[c].todo = [NoRows EXCEPT ![id] = rows[id]] /\ tx'[c].writes = NoWrites
    BY <2>1 DEF Becomes
  <2>4. BearsOK(c)'
    BY <1>2, <1>3, <2>2, <2>3, BearsBegin
  <2>5. BudgetOK(c)'
    BY <2>3 DEF BudgetOK, Accepted
  <2>6. SameKind(c)'
    BY <1>2, <1>3, <2>2, <2>3 DEF SameKind, Locked
  <2> QED
    BY <2>2, <2>4, <2>5, <2>6, SetStep
<1>6. ASSUME NEW id \in Id, BeginDelete(c, id) PROVE SetInv'
  <2>1. Becomes(c, "drop", "delete", "none", "none", 0, [NoRows EXCEPT ![id] = rows[id]], Absent, 0,
                NoId, NoWrites)
    BY <1>1, <1>6, BeginDeletePost
  <2>2. rows' = rows
    BY <1>6 DEF BeginDelete, dbFrame
  <2>3. /\ tx'[c].op \notin Uploads /\ tx'[c].path = 0
        /\ tx'[c].todo = [NoRows EXCEPT ![id] = rows[id]] /\ tx'[c].writes = NoWrites
    BY <2>1 DEF Becomes, Uploads
  <2>4. BearsOK(c)'
    BY <1>2, <1>3, <2>2, <2>3, BearsBegin
  <2>5. BudgetOK(c)' /\ SameKind(c)'
    BY <2>3 DEF BudgetOK, Accepted, SameKind
  <2> QED
    BY <2>2, <2>4, <2>5, SetStep
<1> QED
  BY <1>4, <1>5, <1>6

\* A step that leaves the list and the writes alone.
LEMMA MoveSet ==
    ASSUME OneClient, Core, Paths, SetInv, NEW c \in Clients, NEW pc, NEW base, NEW path, NEW key,
           Becomes(c, pc, tx[c].op, tx[c].owner, tx[c].kind, tx[c].size, tx[c].todo, base, path, key,
                   tx[c].writes),
           tx[c].pc # "commit", pc # "commit", path \in {tx[c].path, stored + 1}, rows' = rows,
           tx[c].pc = "check" => BudgetOK(c)'
    PROVE  SetInv'
<1>1. /\ tx'[c].pc = pc /\ tx'[c].op = tx[c].op /\ tx'[c].owner = tx[c].owner /\ tx'[c].kind = tx[c].kind
      /\ tx'[c].size = tx[c].size /\ tx'[c].todo = tx[c].todo /\ tx'[c].writes = tx[c].writes
      /\ tx'[c].path = path
  BY DEF Becomes
<1>2. \A i, p \in Id : Bears(c, i, p)' => Bears(c, i, p)
  BY <1>1 DEF Bears
<1>3. BearsOK(c)'
  BY <1>1, <1>2, BearsKept
<1>4. SameKind(c)'
  BY <1>1 DEF SameKind, Locked, SetInv
<1>5. Stays(c)' \in SUBSET Stays(c)
  BY <1>1 DEF Stays, ActiveOf, ActiveIds, Locked
<1>6. BudgetOK(c)'
  <2>1. CASE tx[c].op \in Uploads /\ tx[c].pc # "check"
    BY <1>1, <1>5, <2>1, BudgetKept DEF Accepted
  <2>2. CASE tx[c].op \notin Uploads
    BY <1>1, <2>2 DEF BudgetOK, Accepted
  <2> QED
    BY <2>1, <2>2
<1> QED
  BY <1>3, <1>4, <1>6, SetStep

\* _project_active_set leaves out the file that is replaced.
LEMMA CheckReplacementSet ==
    ASSUME OneClient, Core, Paths, SetInv, NEW c \in Clients, CheckReplacement(c)
    PROVE  SetInv'
<1>1. /\ TypeOK /\ c \in Threads /\ tx[c].pc = "check" /\ rows' = rows /\ ShapeOK(c)
  BY DEF Core, Threads, CheckReplacement, dbFrame
<1>2. CASE Ends(c)
  BY <1>1, <1>2, EndSet
<1>3. CASE Fits(Staying(tx[c].owner, Current(c), tx[c].kind), tx[c].kind, tx[c].size) /\ At(c, "drop")
  <2>1. /\ tx'[c].owner = tx[c].owner /\ tx'[c].kind = tx[c].kind
        /\ tx'[c].size = tx[c].size /\ tx'[c].todo = tx[c].todo
    BY <1>3 DEF At, Becomes
  <2>2. tx[c].owner \in Owners /\ tx[c].kind \in Kinds /\ tx[c].size \in Sizes /\ Todo(c) # {}
    BY <1>1 DEF ShapeOK, Dropping
  <2>3. Current(c) \in Todo(c)
    BY <1>1, <2>2, CurrentIsFirst
  <2>4. Stays(c)' \in SUBSET Staying(tx[c].owner, Current(c), tx[c].kind)
    <3>1. tx[c].todo[Current(c)] # Absent
      BY <2>3 DEF Todo
    <3> HIDE DEF Current
    <3> QED
      BY <1>1, <2>1, <3>1 DEF Stays, Staying, ActiveOf, ActiveIds
  <2>5. BudgetOK(c)'
    BY <1>1, <1>3, <2>1, <2>2, <2>4, BudgetBegins
  <2> QED
    BY <1>1, <1>3, <2>5, MoveSet DEF At
<1> QED
  BY <1>1, <1>2, <1>3, CheckReplacementPost

\* The slot is listed after the files that are to stay.
LEMMA ListSlotSet ==
    ASSUME OneClient, Core, Paths, SetInv, NEW c \in Clients, ListSlot(c)
    PROVE  SetInv'
<1>1. /\ TypeOK /\ c \in Threads /\ tx[c].pc = "list" /\ rows' = rows /\ ShapeOK(c) /\ WritesOK(c)
  BY DEF Core, Threads, ListSlot, dbFrame
<1>2. /\ tx'[c].pc \in {"store", "drop"} /\ tx'[c].op = tx[c].op /\ tx'[c].owner = tx[c].owner
      /\ tx'[c].kind = tx[c].kind
      /\ tx'[c].size = tx[c].size /\ tx'[c].path = tx[c].path
      /\ tx'[c].todo = SlotRows(c) /\ tx'[c].writes = tx[c].writes
  BY <1>1, ListSlotPost DEF Becomes
<1>3. \A i \in Id : tx[c].writes[i] = Keep /\ tx[c].todo[i] = Absent
  BY <1>1 DEF WritesOK, Locked, ShapeOK, Dropping, Todo
<1>4. \A i \in Id : /\ SlotRows(c)[i] \in {rows[i], Absent}
                    /\ SlotRows(c)[i] # Absent => rows[i].owner = tx[c].owner /\ rows[i].kind = tx[c].kind
  BY DEF SlotRows, SlotIds, ActiveOf, Slot
<1>5. \A i, p \in Id : Bears(c, i, p)' => Bears(c, i, p)
  BY <1>1, <1>2, <1>3, <1>4 DEF Bears, IsRow
<1>6. BearsOK(c)'
  BY <1>1, <1>2, <1>5, BearsKept
<1>7. SameKind(c)'
  BY <1>1, <1>2, <1>3, <1>4 DEF SameKind, Locked
<1>8. Stays(c)' \in SUBSET Stays(c)
  BY <1>1, <1>2, <1>3 DEF Stays, ActiveOf, ActiveIds, Locked
<1>9. BudgetOK(c)'
  BY <1>1, <1>2, <1>8, BudgetKept DEF Accepted, ShapeOK
<1> QED
  BY <1>1, <1>6, <1>7, <1>9, SetStep

\* A row has been dropped: the request has written it, or it is not active.
LEMMA DropsSet ==
    ASSUME OneClient, Core, Paths, SlotInv, SetInv, NEW c \in Clients, tx[c].pc = "write",
           NEW done \in {"store", "commit"}, NEW w, Drops(c, done, w), rows' = rows,
           w \in {Dto(c), Absent, Keep},
           tx[c].op \in Uploads /\ w = Keep => rows[Current(c)] \in {Dto(c), Absent}
    PROVE  SetInv'
<1> DEFINE todo(i)   == [tx[c].todo EXCEPT ![i] = Absent]
           writes(i) == [tx[c].writes EXCEPT ![i] = w]
<1>1. PICK i : i = Current(c)
  OBVIOUS
<1>2. c \in Threads /\ TypeOK /\ i \in Id /\ i \in Todo(c) /\ tx[c].todo[i] # Absent
  BY <1>1, Amid DEF Threads, Core, Todo
<1>3. /\ tx'[c].pc = After(c, i, done) /\ tx'[c].op = tx[c].op /\ tx'[c].owner = tx[c].owner
      /\ tx'[c].kind = tx[c].kind
      /\ tx'[c].size = tx[c].size /\ tx'[c].todo = todo(i) /\ tx'[c].path = tx[c].path
      /\ tx'[c].writes = writes(i)
  BY <1>1 DEF Drops, Becomes
<1>4. \A j \in Id : /\ todo(i)[j] = IF j = i THEN Absent ELSE tx[c].todo[j]
                    /\ writes(i)[j] = IF j = i THEN w ELSE tx[c].writes[j]
  BY <1>2, Fields
<1>5. Dto(c) \in Row /\ ~ Dto(c).active /\ Dto(c).path = tx[c].todo[i].path
  BY <1>1, <1>2, DtoTypes, Amid
<1> HIDE DEF todo, writes
<1>6. ASSUME NEW j \in Id, NEW p \in Id, Bears(c, j, p)' PROVE Bears(c, j, p)
  <2>1. CASE j = i
    BY <1>2, <1>3, <1>4, <1>5, <1>6, <2>1, RowsAreRows DEF Bears, IsRow
  <2>2. CASE j # i
    BY <1>2, <1>3, <1>4, <1>6, <2>2 DEF Bears
  <2> QED
    BY <2>1, <2>2
<1>7. BearsOK(c)'
  BY <1>3, <1>6, BearsKept
<1>8. CASE tx[c].op \notin Uploads
  <2>1. BudgetOK(c)' /\ SameKind(c)'
    BY <1>3, <1>8 DEF BudgetOK, SameKind, Accepted
  <2> QED
    BY <1>7, <2>1, SetStep
<1>9. CASE tx[c].op \in Uploads
  <2>1. rows[i] \in {tx[c].todo[i], Absent}
    BY <1>2, <1>9 DEF SlotInv, UndisturbedOK
  <2>2. SameKind(c)'
    <3>1. SameKind(c)
      BY DEF SetInv
    <3> QED
      BY <1>2, <1>3, <1>4, <1>9, <2>1, <3>1 DEF SameKind, Locked
  <2>3. w # Keep \/ i \notin ActiveIds
    BY <1>1, <1>5, <1>9 DEF ActiveIds
  <2>4. Stays(c)' \in SUBSET Stays(c)
    BY <1>2, <1>3, <1>4, <2>3 DEF Stays, ActiveOf, ActiveIds, Locked
  <2>5. BudgetOK(c)'
    BY <1>3, <1>9, <2>4, BudgetKept DEF Accepted
  <2> QED
    BY <1>7, <2>2, <2>5, SetStep
<1> QED
  BY <1>8, <1>9

\* update() has deactivated the file, or it has been purged.
LEMMA DeactivateRowSet ==
    ASSUME OneClient, Core, Paths, Flags, SlotInv, SetInv, NEW c \in Clients, DeactivateRow(c)
    PROVE  SetInv'
<1>1. TypeOK /\ rows' = rows /\ tx[c].pc = "write" /\ tx[c].op \in Uploads
  BY DEF Core, DeactivateRow, Uploads
<1>2. CASE Ends(c)
  BY <1>1, <1>2, EndSet
<1>3. ASSUME NEW w, Deactivates(c, w), Drops(c, "store", w) PROVE SetInv'
  <2>1. w = Dto(c) \/ (w = Keep /\ rows[Current(c)] \in {Dto(c), Absent})
    BY <1>1, <1>3, UndisturbedUpdate
  <2>2. w = Keep => rows[Current(c)] \in {Dto(c), Absent}
    <3>1. Dto(c) # Keep
      BY <1>1, Amid, DtoTypes, RowsAreRows DEF Threads
    <3> QED
      BY <2>1, <3>1
  <2> QED
    BY <1>1, <1>3, <2>1, <2>2, DropsSet
<1> QED
  BY <1>1, <1>2, <1>3, DeactivateRowPost

\* delete() keeps no row.
LEMMA DeleteRowSet ==
    ASSUME OneClient, Core, Paths, SlotInv, SetInv, NEW c \in Clients, DeleteRow(c)
    PROVE  SetInv'
<1>1. TypeOK /\ c \in Threads /\ rows' = rows /\ tx[c].pc = "write" /\ tx[c].op \notin Uploads
  BY DEF Core, Threads, DeleteRow, Uploads, dbFrame
<1>2. PICK w : Deletes(c, w) /\ Drops(c, "commit", w)
  BY <1>1, DeleteRowPost
<1>3. tx[c].writes[Current(c)] = Keep
  <2>1. Current(c) \in Id /\ Current(c) \in Todo(c) /\ WritesOK(c)
    BY <1>1, Amid
  <2>2. \A i \in Id : tx[c].writes[i] # Keep => \A j \in Id : tx[c].todo[j] # Absent => i < j
    BY <1>1, Amid
  <2>3. tx[c].todo[Current(c)] # Absent /\ Current(c) \in Nat
    BY <2>1, TempFilesAssumption DEF Todo, Id
  <2> HIDE DEF Current
  <2> QED
    BY <2>1, <2>2, <2>3
<1>4. w \in {Absent, Keep}
  BY <1>2, <1>3 DEF Deletes
<1> QED
  BY <1>1, <1>2, <1>4, DropsSet

\* The new row is not in the table.
LEMMA InsertRowSet ==
    ASSUME OneClient, Core, Paths, SetInv, NEW c \in Clients, InsertRow(c)
    PROVE  SetInv'
<1>1. /\ c \in Threads /\ TypeOK /\ ShapeOK(c) /\ rows' = rows /\ tx[c].pc = "insert"
  BY DEF InsertRow, dbFrame, Threads, Core
<1>2. CASE Ends(c)
  BY <1>1, <1>2, EndSet
<1>3. CASE /\ rows[tx[c].key] = Absent
           /\ Becomes(c, "commit", tx[c].op, tx[c].owner, tx[c].kind, tx[c].size, tx[c].todo, tx[c].base,
                      tx[c].path, tx[c].key, [tx[c].writes EXCEPT ![tx[c].key] = NewRow(c)])
  <2>1. PICK k : k = tx[c].key
    OBVIOUS
  <2>2. k \in Id /\ tx[c].writes \in [Id -> RowOrAbsent \cup {Keep}]
    BY <1>1, <2>1, Fields DEF ShapeOK
  <2>3. \A i \in Id : i # k => [tx[c].writes EXCEPT ![k] = NewRow(c)][i] = tx[c].writes[i]
    BY <2>2
  <2>4. /\ tx'[c].pc = "commit" /\ tx'[c].op = tx[c].op /\ tx'[c].owner = tx[c].owner
        /\ tx'[c].kind = tx[c].kind
        /\ tx'[c].size = tx[c].size /\ tx'[c].path = tx[c].path
        /\ tx'[c].todo = tx[c].todo /\ tx'[c].key = k
        /\ \A i \in Id : i # k => tx'[c].writes[i] = tx[c].writes[i]
    BY <1>3, <2>1, <2>3 DEF Becomes
  <2>5. \A i, p \in Id : Bears(c, i, p)' => Bears(c, i, p)
    BY <1>1, <2>4 DEF Bears
  <2>6. BearsOK(c)'
    BY <1>1, <2>4, <2>5, BearsKept
  <2>7. SameKind(c)'
    BY <1>1, <1>3, <2>1, <2>4 DEF SameKind, Locked, SetInv
  <2>8. Stays(c)' \in SUBSET Stays(c)
    BY <1>1, <1>3, <2>1, <2>4 DEF Stays, ActiveOf, ActiveIds, Locked
  <2>9. BudgetOK(c)'
    BY <1>1, <2>4, <2>8, BudgetKept DEF Accepted, ShapeOK
  <2> QED
    BY <1>1, <2>6, <2>7, <2>9, SetStep
<1> QED
  BY <1>1, <1>2, <1>3, InsertRowPost

\* What commit() publishes: the new row, and the active rows that stay next to it.
LEMMA Published ==
    ASSUME Core, Flags, SlotInv, NEW c \in Clients, Commit(c), tx[c].op \in Uploads
    PROVE  /\ tx[c].key \in Id /\ rows[tx[c].key] = Absent /\ rows'[tx[c].key] = NewRow(c)
           /\ NewRow(c) \in Row /\ tx[c].path \in Id
           /\ \A i \in Id \ {tx[c].key} :
                /\ i \in Stays(c) <=> i \in ActiveIds' /\ rows'[i].owner = tx[c].owner
                /\ i \in ActiveIds' <=> i \in ActiveIds /\ ~ Locked(c, i)
                /\ i \in ActiveIds' => rows'[i] = rows[i]
<1>1. /\ c \in Threads /\ TypeOK /\ ShapeOK(c) /\ NewRowOK(c) /\ tx[c].pc = "commit" /\ ~ mixed
  BY DEF Core, Threads, Commit, SlotInv
<1>2. PICK k : k = tx[c].key
  OBVIOUS
<1>3. k \in Id /\ rows[k] = Absent /\ tx[c].writes[k] = NewRow(c)
  BY <1>1, <1>2, Fields DEF NewRowOK
<1>4. tx[c].path \in Id /\ NewRow(c) \in Row
  <2>1. tx[c].path \in Id /\ tx[c].owner \in Owners /\ tx[c].kind \in Kinds /\ tx[c].size \in Sizes
    BY <1>1, Fields DEF ShapeOK
  <2> QED
    BY <2>1 DEF NewRow, Row
<1>5. rows'[k] = NewRow(c)
  <2>1. Locked(c, k)
    BY <1>3, <1>4, RowsAreRows DEF Locked
  <2> QED
    BY <1>1, <1>3, <2>1, CommittedRow
<1>6. ASSUME NEW i \in Id, i # k, i \in ActiveIds'
      PROVE  i \in ActiveIds /\ ~ Locked(c, i) /\ rows'[i] = rows[i]
  <2>1. rows'[i] # Absent /\ rows'[i].active
    BY <1>6 DEF ActiveIds
  <2>2. rows'[i] = rows[i] /\ ~ Locked(c, i)
    BY <1>1, <1>2, <1>6, <2>1, CommittedActive
  <2> QED
    BY <2>1, <2>2 DEF ActiveIds
<1>7. ASSUME NEW i \in Id, i # k, i \in ActiveIds, ~ Locked(c, i)
      PROVE  /\ i \in ActiveIds' /\ rows'[i] = rows[i]
             /\ rows[i].owner = tx[c].owner => i \in Stays(c)
  <2>1. rows'[i] = rows[i]
    BY <1>1, <1>7, CommittedRow
  <2>2. i \in ActiveIds'
    BY <1>7, <2>1 DEF ActiveIds
  <2>3. tx[c].todo[i] = Absent
    BY <1>1 DEF ShapeOK, Dropping, Todo
  <2>4. rows[i].owner = tx[c].owner => rows[i].kind \notin Slot(tx[c].kind)
    <3>1. SUFFICES ASSUME rows[i].owner = tx[c].owner, tx[c].kind # "promo", rows[i].kind = tx[c].kind
                   PROVE  FALSE
      BY DEF Slot
    <3>2. InSlot(c, i)
      BY <1>7, <3>1 DEF InSlot, View, Locked, ActiveIds
    <3> QED
      BY <1>1, <1>2, <1>7, <3>1, <3>2 DEF SlotInv, SlotOK
  <2> QED
    BY <1>7, <2>1, <2>2, <2>3, <2>4 DEF Stays, ActiveOf
<1>8. \A i \in Id : i \in Stays(c) => /\ i \in ActiveIds /\ ~ Locked(c, i)
                                      /\ rows[i].owner = tx[c].owner
  BY DEF Stays, ActiveOf
<1> QED
  BY <1>2, <1>3, <1>4, <1>5, <1>6, <1>7, <1>8

\* The files that stay leave room for the new one.
LEMMA CommitTotal ==
    ASSUME Core, Flags, SlotInv, SetInv, NEW c \in Clients, Commit(c), tx[c].op \in Uploads
    PROVE  TotalOK'
<1> SUFFICES ASSUME Module = "wb", NEW o \in Owners PROVE Total(rows', ActiveOf(o)') <= MaxTotal
  BY DEF TotalOK
<1>1. PICK k : k = tx[c].key
  OBVIOUS
<1>2. /\ k \in Id /\ rows'[k] = NewRow(c) /\ NewRow(c) \in Row
      /\ \A i \in Id \ {k} : /\ i \in Stays(c) <=> i \in ActiveIds' /\ rows'[i].owner = tx[c].owner
                             /\ i \in ActiveIds' <=> i \in ActiveIds /\ ~ Locked(c, i)
                             /\ i \in ActiveIds' => rows'[i] = rows[i]
  BY <1>1, Published
<1>3. NewRow(c).active = TRUE /\ NewRow(c).size = tx[c].size /\ NewRow(c).owner = tx[c].owner
  BY DEF NewRow
<1>4. HasRows(rows, ActiveOf(o)) /\ MaxTotal \in Nat /\ tx[c].size \in Nat
  BY ActiveAreRows, SizeIsNatural, TempFilesAssumption DEF Core
<1>5. k \in ActiveIds' /\ ActiveOf(o)' \in SUBSET Id /\ ActiveOf(o)' \in SUBSET ActiveIds'
      /\ \A i \in ActiveOf(o)' : rows'[i].owner = o
  BY <1>2, <1>3, RowsAreRows DEF ActiveIds, ActiveOf
<1>6. CASE o = tx[c].owner
  <2>1. HasRows(rows, Stays(c))
    BY <1>4, <1>6 DEF HasRows, Stays
  <2>2. k \in ActiveOf(o)'
    BY <1>2, <1>3, <1>5, <1>6 DEF ActiveOf
  <2>3. ActiveOf(o)' \ {k} \in SUBSET Stays(c) /\ \A i \in ActiveOf(o)' \ {k} : rows'[i] = rows[i]
    BY <1>2, <1>5, <1>6
  <2>4. HasRows(rows', ActiveOf(o)')
    <3>1. ASSUME NEW i \in ActiveOf(o)' PROVE rows'[i] \in Row
      BY <1>2, <2>1, <2>3 DEF HasRows
    <3> QED
      BY <1>5, <3>1 DEF HasRows
  <2>5. Total(rows', ActiveOf(o)') = Total(rows', ActiveOf(o)' \ {k}) + tx[c].size
    BY <1>2, <1>3, <2>2, <2>4, TotalWith
  <2>6. /\ Total(rows', ActiveOf(o)' \ {k}) <= Total(rows, Stays(c))
        /\ Total(rows', ActiveOf(o)' \ {k}) \in Nat /\ Total(rows, Stays(c)) \in Nat
    BY <2>1, <2>3, LessTotal
  <2>7. Total(rows, Stays(c)) + tx[c].size <= MaxTotal
    BY DEF SetInv, BudgetOK, Accepted, Commit
  <2> QED
    BY <1>4, <2>5, <2>6, <2>7
<1>7. CASE o # tx[c].owner
  <2>1. k \notin ActiveOf(o)'
    BY <1>2, <1>3, <1>5, <1>7
  <2>2. ActiveOf(o)' \in SUBSET ActiveOf(o) /\ \A i \in ActiveOf(o)' : rows'[i] = rows[i]
    <3>1. ASSUME NEW i \in ActiveOf(o)' PROVE i \in ActiveOf(o) /\ rows'[i] = rows[i]
      BY <1>2, <1>5, <2>1, <3>1 DEF ActiveOf
    <3> QED
      BY <3>1
  <2>3. /\ Total(rows', ActiveOf(o)') <= Total(rows, ActiveOf(o))
        /\ Total(rows', ActiveOf(o)') \in Nat /\ Total(rows, ActiveOf(o)) \in Nat
    BY <1>4, <2>2, LessTotal
  <2> QED
    BY <1>4, <2>3 DEF SetInv, TotalOK
<1> QED
  BY <1>6, <1>7

\* commit() publishes a set within the limits, each file at one key.
LEMMA CommitSet ==
    ASSUME OneClient, Core, Paths, Flags, SlotInv, SetInv, NEW c \in Clients, Commit(c)
    PROVE  SetInv'
<1>1. /\ TypeOK /\ c \in Threads /\ tx[c].pc = "commit" /\ tx'[c] = Idle /\ BearsOK(c)
      /\ \A i \in Id : rows'[i] = View(c, i)
  BY CommitPost DEF Core, Threads, Commit, SetInv, Ends
<1>2. /\ tx'[c].op \notin Uploads /\ tx'[c].path = 0 /\ tx'[c].pc = "idle"
      /\ \A i \in Id : tx'[c].todo[i] = Absent /\ tx'[c].writes[i] = Keep
  BY <1>1, IdleIs DEF Uploads, NoRows, NoWrites
<1>3. ASSUME NEW i \in Id, NEW p \in Id, Bears(c, i, p)'
      PROVE  Bears(c, i, p) \/ (i = tx[c].key /\ p = tx[c].path)
  <2>1. rows'[i] # Absent /\ rows'[i].path = p
    BY <1>2, <1>3 DEF Bears, IsRow
  <2>2. CASE ~ Locked(c, i)
    BY <1>1, <2>1, <2>2 DEF View, Locked, Bears
  <2>3. CASE Locked(c, i)
    <3>1. IsRow(tx[c].writes[i]) /\ tx[c].writes[i].path = p
      BY <1>1, <2>1, <2>3 DEF View, Locked, IsRow
    <3>2. CASE i # tx[c].key
      BY <3>1, <3>2 DEF Bears
    <3>3. CASE i = tx[c].key
      <4>1. tx[c].op \in Uploads
        BY <1>1, <2>3, <3>1 DEF Core, WritesOK, IsRow
      <4>2. rows'[i] = NewRow(c)
        BY <3>3, <4>1, Published
      <4>3. NewRow(c).path = tx[c].path
        BY DEF NewRow
      <4> QED
        BY <2>1, <3>3, <4>2, <4>3
    <3> QED
      BY <3>2, <3>3
  <2> QED
    BY <2>2, <2>3
<1>4. BearsOK(c)'
  <2>1. \A p \in Id : p # 0
    BY TempFilesAssumption DEF Id
  <2> HIDE DEF Bears
  <2> QED
    BY <1>1, <1>2, <1>3, <2>1 DEF BearsOK
<1>5. BudgetOK(c)' /\ SameKind(c)'
  BY <1>2 DEF BudgetOK, SameKind, Accepted
<1>6. TotalOK'
  <2>1. CASE tx[c].op \in Uploads
    BY <2>1, CommitTotal
  <2>2. CASE tx[c].op \notin Uploads
    <3>1. \A i \in Id : rows'[i] \in {rows[i], Absent}
      BY <1>1, <2>2, CommittedRemoval
    <3>2. ASSUME NEW o \in Owners
          PROVE  ActiveOf(o)' \in SUBSET ActiveOf(o) /\ \A i \in ActiveOf(o)' : rows'[i] = rows[i]
      BY <3>1 DEF ActiveIds, ActiveOf
    <3>3. ASSUME NEW o \in Owners
          PROVE  /\ Total(rows', ActiveOf(o)') <= Total(rows, ActiveOf(o))
                 /\ Total(rows', ActiveOf(o)') \in Nat /\ Total(rows, ActiveOf(o)) \in Nat
      BY <1>1, <3>2, ActiveAreRows, LessTotal
    <3> QED
      BY <3>3, TempFilesAssumption DEF TotalOK, SetInv
  <2> QED
    BY <2>1, <2>2
<1>7. \A d \in Clients : d = c
  BY DEF OneClient
<1> QED
  BY <1>4, <1>5, <1>6, <1>7 DEF SetInv

\* The purge deletes rows, and time passes.
LEMMA PurgeSet ==
    ASSUME Core, SetInv, Purge \/ FileExpires \/ UNCHANGED vars
    PROVE  SetInv'
<1>1. (\A c \in Clients : tx'[c] = tx[c]) /\ \A i \in Id : rows'[i] \in {rows[i], Absent}
  BY PurgeRemoves
<1> QED
  BY <1>1, SetOthers

\* The steps of a request.
LEMMA ProceedSet ==
    ASSUME OneClient, Core, Paths, Flags, SlotInv, SetInv, NEW c \in Clients, Proceed(c)
    PROVE  SetInv'
<1>1. TypeOK /\ c \in Threads
  BY DEF Core, Threads
<1>2. CASE StoreFile(c)
  <2>1. rows' = rows /\ tx[c].pc = "store"
    BY <1>2 DEF StoreFile
  <2> QED
    BY <1>1, <1>2, <2>1, StoreFilePost, MoveSet
<1>3. CASE NumberRow(c)
  <2>1. rows' = rows /\ tx[c].pc = "number"
    BY <1>3 DEF NumberRow, dbFrame
  <2> HIDE DEF NextKey
  <2> QED
    BY <1>1, <1>3, <2>1, NumberRowPost, MoveSet
<1>4. CASE DropFile(c)
  <2>1. At(c, "select") /\ rows' = rows /\ tx[c].pc = "drop"
    BY <1>1, <1>4, DropFilePost DEF DropFile
  <2> QED
    BY <2>1, MoveSet DEF At
<1>5. CASE SelectRow(c)
  <2>1. rows' = rows /\ tx[c].pc = "select"
    BY <1>5 DEF SelectRow, dbFrame
  <2> QED
    BY <1>1, <1>5, <2>1, SelectRowPost, MoveSet
<1>6. CASE Fail(c)
  BY <1>1, <1>6, FailPost, EndSet DEF Fail
<1> QED
  BY <1>2, <1>3, <1>4, <1>5, <1>6, CheckReplacementSet, ListSlotSet, DeactivateRowSet, InsertRowSet,
     DeleteRowSet, CommitSet DEF Proceed, DropStep

\* All steps.
LEMMA SetNext ==
    ASSUME OneClient, Core, Paths, Flags, SlotInv, SetInv, [Next]_vars
    PROVE  SetInv'
<1>1. ASSUME NEW c \in Clients, Request(c) PROVE SetInv'
  BY <1>1, BeginSet, ProceedSet DEF Request
<1> QED
  BY <1>1, PurgeSet DEF Next

\* No rows, no files.
LEMMA InitSet ==
    ASSUME Init
    PROVE  SetInv
<1>1. rows = NoRows /\ \A c \in Clients : tx[c] = Idle
  BY DEF Init, Threads
<1>2. (\A o \in Owners : ActiveOf(o) = {}) /\ \A i \in Id : rows[i] = Absent
  BY <1>1 DEF ActiveOf, ActiveIds, NoRows
<1>3. HasRows(rows, {}) /\ Size(rows) = Size(rows)
  BY DEF HasRows
<1>4. TotalOK
  <2>1. Units(Size(rows), {}) = {}
    BY DEF Units
  <2>2. Total(rows, {}) = 0
    BY <1>3, <2>1, TotalIsWeight, FS_EmptySet DEF Weight
  <2> QED
    BY <1>2, <2>2, TempFilesAssumption DEF TotalOK
<1>5. ASSUME NEW c \in Clients PROVE BudgetOK(c) /\ BearsOK(c) /\ SameKind(c)
  <2>1. /\ tx[c].op \notin Uploads /\ tx[c].path = 0
        /\ \A i \in Id : tx[c].todo[i] = Absent /\ tx[c].writes[i] = Keep
    BY <1>1, IdleIs DEF Uploads, NoRows, NoWrites
  <2>2. \A i, p \in Id : ~ Bears(c, i, p)
    BY <1>2, <2>1 DEF Bears, IsRow
  <2>3. \A p \in Id : p # 0
    BY TempFilesAssumption DEF Id
  <2>4. BearsOK(c)
    BY <2>1, <2>2, <2>3 DEF BearsOK
  <2> QED
    BY <2>1, <2>4 DEF BudgetOK, SameKind, Accepted
<1> QED
  BY <1>4, <1>5 DEF SetInv

-----------------------------------------------------------------------------
(* Commits are operations on the set. *)

\* The operations of TempSet, on the files of the active rows.
LEMMA IsUpload ==
    ASSUME NEW f \in Files!File, \A g \in FileSet : g.path # f.path,
           FileSet' = {g \in FileSet : g.owner # f.owner \/ g.kind = "promo" \/ g.kind # f.kind} \cup {f},
           Files!SetsOK(FileSet)'
    PROVE  Files!Next
<1>1. Files!Upload(f)
  BY DEF Files!Upload, FileSet, FileOf
<1> QED
  BY <1>1 DEF Files!Next, FileSet, FileOf

\* A replacement.
LEMMA IsReplace ==
    ASSUME NEW f \in Files!File, NEW g \in FileSet, f.owner = g.owner, f.kind = g.kind,
           \A h \in FileSet : h.path # f.path,
           FileSet' = (FileSet \ {g}) \cup {f}, Files!SetsOK(FileSet)'
    PROVE  Files!Next
<1>1. Files!Replace(g, f)
  BY DEF Files!Replace, FileSet, FileOf
<1> QED
  BY <1>1 DEF Files!Next, FileSet, FileOf

\* A deletion or a purge.
LEMMA IsRemoval ==
    ASSUME FileSet' \in SUBSET FileSet, Files!SetsOK(FileSet)'
    PROVE  Files!Next
<1> DEFINE gone == FileSet \ FileSet'
<1>1. FileSet' = FileSet \ gone
  OBVIOUS
<1>2. gone \in SUBSET FileSet
  OBVIOUS
<1> HIDE DEF gone
<1>3. \E files \in SUBSET FileSet : FileSet' = FileSet \ files
  BY <1>1, <1>2
<1> QED
  BY <1>3 DEF Files!Next, Files!Remove, FileSet, FileOf

\* The new file, and the files that stay.
NewFile(c) == [path |-> tx[c].path, owner |-> tx[c].owner, kind |-> tx[c].kind,
               size |-> tx[c].size]
Kept(c)    == {i \in ActiveIds : ~ Locked(c, i)}

\* commit() adds one file to those that stay.
LEMMA PublishedFiles ==
    ASSUME Core, Paths, Flags, SlotInv, SetInv, NEW c \in Clients, Commit(c), tx[c].op \in Uploads
    PROVE  /\ NewFile(c) \in Files!File
           /\ \A g \in FileSet : g.path # NewFile(c).path
           /\ FileSet' = {FileOf(i) : i \in Kept(c)} \cup {NewFile(c)}
<1>1. PICK k : k = tx[c].key
  OBVIOUS
<1>2. /\ k \in Id /\ rows[k] = Absent /\ rows'[k] = NewRow(c) /\ NewRow(c) \in Row
      /\ tx[c].path \in Id
      /\ \A i \in Id \ {k} : /\ i \in ActiveIds' <=> i \in ActiveIds /\ ~ Locked(c, i)
                             /\ i \in ActiveIds' => rows'[i] = rows[i]
  BY <1>1, Published
<1>3. NewFile(c) \in Files!File
  <2>1. tx[c].owner \in Owners /\ tx[c].kind \in Kinds /\ tx[c].size \in Sizes
    BY DEF Core, ShapeOK, Threads
  <2> QED
    BY <1>2, <2>1 DEF NewFile, Files!File, Files!Kinds, Kinds, Id
<1>4. \A g \in FileSet : g.path # NewFile(c).path
  <2>1. ~ InTable(tx[c].path)
    BY <1>2 DEF Paths, FreshOK, Threads
  <2> QED
    BY <2>1 DEF InTable, FileSet, FileOf, NewFile, ActiveIds
<1>5. k \in ActiveIds' /\ FileOf(k)' = NewFile(c)
  <2>1. NewRow(c).active = TRUE /\ NewRow(c) # Absent
    BY <1>2, RowsAreRows DEF NewRow
  <2>2. k \in ActiveIds'
    BY <1>2, <2>1 DEF ActiveIds
  <2>3. FileOf(k)' = NewFile(c)
    BY <1>2 DEF FileOf, NewFile, NewRow
  <2> QED
    BY <2>2, <2>3
<1>6. \A i \in Id \ {k} : i \in ActiveIds' <=> i \in Kept(c)
  BY <1>2 DEF Kept
<1>7. \A i \in ActiveIds' \ {k} : FileOf(i)' = FileOf(i)
  <2>1. \A i \in ActiveIds' : i \in Id
    BY DEF ActiveIds
  <2> QED
    BY <1>2, <2>1 DEF FileOf
<1>8. ActiveIds' = Kept(c) \cup {k} /\ k \notin Kept(c)
  <2>1. k \notin Kept(c) /\ Kept(c) \in SUBSET Id /\ ActiveIds' \in SUBSET Id
    BY <1>2 DEF Kept, ActiveIds
  <2> QED
    BY <1>5, <1>6, <2>1
<1>9. FileSet' = {FileOf(i)' : i \in ActiveIds'}
  BY DEF FileSet
<1>10. \A i \in Kept(c) : FileOf(i)' = FileOf(i)
  BY <1>7, <1>8
<1>11. FileSet' = {FileOf(i) : i \in Kept(c)} \cup {NewFile(c)}
  <2> HIDE DEF Kept
  <2> QED
    BY <1>5, <1>8, <1>9, <1>10
<1> QED
  BY <1>3, <1>4, <1>11

\* commit() of an upload or a replacement.
LEMMA CommitIsOperation ==
    ASSUME Core, Paths, Flags, SlotInv, SetInv, NEW c \in Clients, Commit(c), tx[c].op \in Uploads,
           Files!SetsOK(FileSet)'
    PROVE  Files!Next
<1> DEFINE f == NewFile(c)
<1>1. /\ f \in Files!File /\ \A g \in FileSet : g.path # f.path
      /\ FileSet' = {FileOf(i) : i \in Kept(c)} \cup {f}
  BY PublishedFiles
<1>2. /\ f.owner = tx[c].owner /\ f.kind = tx[c].kind
      /\ \A i : /\ FileOf(i).owner = rows[i].owner /\ FileOf(i).kind = rows[i].kind
                /\ FileOf(i).path = rows[i].path
  BY DEF NewFile, FileOf
<1>3. \A i \in ActiveIds : Locked(c, i) => rows[i].owner = tx[c].owner /\ rows[i].kind = tx[c].kind
  BY DEF SetInv, SameKind, ActiveIds
<1> HIDE DEF f
<1>4. CASE tx[c].kind # "promo"
  <2>1. \A i \in ActiveIds : i \in Kept(c) <=> rows[i].owner # tx[c].owner \/ rows[i].kind # tx[c].kind
    <3>1. ASSUME NEW i \in Kept(c), rows[i].owner = tx[c].owner PROVE rows[i].kind # tx[c].kind
      <4>1. i \in Id /\ i \in ActiveIds /\ ~ Locked(c, i) /\ i # tx[c].key
        BY Published DEF Kept, ActiveIds
      <4>2. i \in Stays(c)
        BY <3>1, <4>1, Published
      <4> QED
        BY <1>4, <4>2 DEF Stays, Slot
    <3> QED
      BY <1>3, <3>1 DEF Kept
  <2>2. Kept(c) = {i \in ActiveIds : rows[i].owner # tx[c].owner \/ rows[i].kind # tx[c].kind}
    BY <2>1 DEF Kept
  <2>3. {FileOf(i) : i \in Kept(c)} 
          = {g \in FileSet : g.owner # f.owner \/ g.kind = "promo" \/ g.kind # f.kind}
    BY <1>2, <1>4, <2>2 DEF FileSet
  <2> QED
    BY <1>1, <2>3, IsUpload
<1>5. CASE tx[c].kind = "promo" /\ Kept(c) = ActiveIds
  <2>1. {FileOf(i) : i \in Kept(c)} 
          = {g \in FileSet : g.owner # f.owner \/ g.kind = "promo" \/ g.kind # f.kind}
    BY <1>2, <1>5 DEF FileSet
  <2> QED
    BY <1>1, <2>1, IsUpload
<1>6. CASE tx[c].kind = "promo" /\ Kept(c) # ActiveIds
  <2>1. PICK r \in ActiveIds : Locked(c, r)
    BY <1>6 DEF Kept
  <2>2. ASSUME NEW i \in ActiveIds, Locked(c, i) PROVE i = r
    <3>1. \A j \in ActiveIds : j \in Id /\ j # tx[c].key
      BY Published DEF ActiveIds
    <3>2. Replaces(c, i) /\ Replaces(c, r)
      BY <2>1, <2>2, <3>1 DEF Replaces
    <3> QED
      BY <1>6, <3>1, <3>2 DEF Flags, OneReplaced
  <2>3. Kept(c) = ActiveIds \ {r}
    BY <2>1, <2>2 DEF Kept
  <2>4. ASSUME NEW i \in ActiveIds, FileOf(i) = FileOf(r) PROVE i = r
    <3>1. i \in Id /\ r \in Id /\ rows[i] # Absent /\ rows[r] # Absent /\ rows[i].path = rows[r].path
      BY <1>2, <2>4 DEF ActiveIds
    <3>2. rows[r].path \in Id
      BY <3>1, RowsAreRows DEF Core, TypeOK
    <3>3. Bears(c, i, rows[r].path) /\ Bears(c, r, rows[r].path)
      BY <3>1 DEF Bears
    <3> HIDE DEF Bears
    <3> QED
      BY <3>1, <3>2, <3>3 DEF SetInv, BearsOK
  <2>5. {FileOf(i) : i \in Kept(c)} = FileSet \ {FileOf(r)}
    BY <2>3, <2>4 DEF FileSet
  <2>6. FileOf(r) \in FileSet /\ f.owner = FileOf(r).owner /\ f.kind = FileOf(r).kind
    BY <1>2, <1>3, <2>1 DEF FileSet
  <2> QED
    BY <1>1, <2>5, <2>6, IsReplace
<1> QED
  BY <1>4, <1>5, <1>6

\* Rows that disappear are removed from the set.
LEMMA RemovalIsOperation ==
    ASSUME \A i \in Id : rows'[i] \in {rows[i], Absent}, Files!SetsOK(FileSet)'
    PROVE  Files!Next
<1>1. \A i \in ActiveIds' : i \in ActiveIds /\ FileOf(i)' = FileOf(i)
  BY DEF ActiveIds, FileOf
<1>2. FileSet' \in SUBSET FileSet
  <2>1. FileSet' = {FileOf(i)' : i \in ActiveIds'}
    BY DEF FileSet
  <2> QED
    BY <1>1, <2>1 DEF FileSet
<1> QED
  BY <1>2, IsRemoval

\* Only commits change the table.
LEMMA OnlyCommitsWrite ==
    ASSUME Core, NEW c \in Clients, Request(c), ~ Commit(c)
    PROVE  rows' = rows
BY DEF Request, Proceed, DropStep, BeginUpload, BeginReplace, BeginDelete, ListSlot,
       CheckReplacement, DeactivateRow, StoreFile, NumberRow, InsertRow, DropFile, SelectRow,
       DeleteRow, Fail, dbFrame

\* Every step changes the set by an operation, or not at all.
LEMMA StepsAreOperations ==
    ASSUME Core, Paths, Flags, SlotInv, SetInv, [Next]_vars, Files!SetsOK(FileSet)'
    PROVE  Files!Next \/ FileSet' = FileSet
<1>1. CASE \A i \in Id : rows'[i] \in {rows[i], Absent}
  BY <1>1, RemovalIsOperation
<1>2. ASSUME NEW c \in Clients, Request(c) PROVE Files!Next \/ FileSet' = FileSet
  <2>1. CASE ~ Commit(c)
    BY <1>1, <1>2, <2>1, OnlyCommitsWrite
  <2>2. CASE Commit(c) /\ tx[c].op \in Uploads
    BY <2>2, CommitIsOperation
  <2>3. CASE Commit(c) /\ tx[c].op \notin Uploads
    BY <1>1, <2>3, CommittedRemoval DEF Threads
  <2> QED
    BY <2>1, <2>2, <2>3
<1> QED
  BY <1>1, <1>2, PurgeRemoves DEF Next

\* The limits hold at every state.
LEMMA LimitsHold ==
    ASSUME OneClient, IInv, SlotInv, SetInv
    PROVE  Files!SetsOK(FileSet)
<1>1. Cardinality(Clients) = 1
  <2>1. PICK c \in Clients : Clients = {c}
    BY TempFilesAssumption DEF OneClient
  <2> QED
    BY <2>1, FS_Singleton
<1>2. ASSUME NEW o \in Owners PROVE Cardinality(ActivePromos(o)) <= MaxPromo
  <2>1. Cardinality(ActivePromos(o)) <= MaxPromo + Cardinality(Clients) - 1
    BY OvershootIsBounded DEF PromoOvershoot, ActivePromos, SlotInv
  <2>2. ActivePromos(o) \in SUBSET Id
    BY DEF ActivePromos, ActiveOf, ActiveIds
  <2> QED
    BY <1>1, <2>1, <2>2, IdSets, TempFilesAssumption
<1>3. ASSUME NEW o \in Owners PROVE Files!Of(o, FileSet) = FilesOf(o)
  BY DEF Files!Of, FileSet, FilesOf, FileOf, ActiveOf
<1>4. ASSUME NEW o \in Owners PROVE Files!SetOK(FilesOf(o))
  BY <1>2, FileSetOK DEF IInv, Core, SlotInv, SetInv, TotalOK
<1> QED
  BY <1>3, <1>4 DEF Files!SetsOK

(* What a user sees who sends one request at a time and replaces files by   *)
(* files of their kind: whatever the purge does meanwhile and whichever     *)
(* operation fails, the set changes by whole uploads, replacements and      *)
(* removals, and always keeps its limits (_project_active_set,              *)
(* _validate_projected_set, replace_file).                                  *)
THEOREM SetImplemented == ASSUME OneClient PROVE Spec => ImplementsTempSet
<1>1. Init => IInv /\ SlotInv /\ SetInv
  BY InitIInv, InitSlot, InitSet
<1>2. IInv /\ SlotInv /\ SetInv /\ [Next]_vars => SlotInv' /\ SetInv'
  BY SlotNext, SetNext DEF IInv
<1>3. Spec => [](SlotInv /\ SetInv)
  BY <1>1, <1>2, Invariance, PTL DEF Spec
<1>4. IInv /\ SlotInv /\ SetInv => Files!SetsOK(FileSet)
  BY LimitsHold
<1>5. Init => Files!Init
  <2>1. Init => ActiveIds = {}
    BY DEF Init, ActiveIds, NoRows
  <2> QED
    BY <2>1 DEF Files!Init
<1>6. IInv /\ SlotInv /\ SetInv /\ Files!SetsOK(FileSet)' /\ [Next]_vars
        => [Files!Next]_FileSet
  BY StepsAreOperations DEF IInv
<1> QED
  BY <1>1, <1>3, <1>4, <1>5, <1>6, Invariance, PTL DEF Spec, ImplementsTempSet, Files!Spec, FileSet, FileOf
==============================================================================
