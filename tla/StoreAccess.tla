----------------------------- MODULE StoreAccess -----------------------------
(***************************************************************************)
(* Stores, and who may do what with them: the grants of store access and   *)
(* of permissions, the policy, and the operations that ask it.             *)
(*                                                                         *)
(* A request computes the context of its user in one transaction and uses  *)
(* it in a second one, which reads the store again.  Rows are copied,      *)
(* updated and numbered as in Accounts; a table of grants has no key but   *)
(* its number (models.py).                                                 *)
(***************************************************************************)
EXTENDS Naturals, FiniteSetsExt

CONSTANTS
    Clients,        \* request threads
    Users, Admins,  \* all users; those with the admin role
    StoreNames,     \* names, each within its marketplace
    Settings,       \* values of the three WB percentages
    InitialStores,  \* stores at the start: [Id -> Store or Absent]
    InitialGrants,  \* grants at the start: [Tables -> [Key -> Grant or Absent]]
    Absent,         \* "no such row", "not given"
    MaxStores,      \* bound: stores
    MaxGrants,      \* bound: rows in each table of grants
    MaxRequests,    \* bound: requests
    MaxFaults       \* bound: transactions that fail

Id      == 1..MaxStores
Key     == 1..MaxGrants
Tables  == {"access", "permission"}
Permissions == {"create", "edit"}
Objects(table) == IF table = "access" THEN Id ELSE Permissions
Columns == {"name", "settings", "status", "by", "creator"}
Store   == [name : StoreNames, settings : Settings, status : {"active", "archived"},
            by : Users \cup {"none"}, creator : Users]
Grant(table) == [user : Users, object : Objects(table)]

ASSUME StoreAccessAssumption ==
    /\ Admins \subseteq Users /\ "none" \notin Users
    /\ MaxStores \in Nat /\ MaxGrants \in Nat /\ MaxRequests \in Nat /\ MaxFaults \in Nat
    /\ Absent \notin Store /\ Absent \notin Grant("access") /\ Absent \notin Grant("permission")
    /\ Absent \notin StoreNames /\ Absent \notin Settings /\ Absent \notin Users
    /\ InitialStores \in [Id -> Store \cup {Absent}]
    /\ InitialGrants = [t \in Tables |-> [k \in Key |-> InitialGrants[t][k]]]
    /\ \A t \in Tables, k \in Key : InitialGrants[t][k] \in Grant(t) \cup {Absent}

\* no access has been deleted before the start
ASSUME CreatorsStartWithAccess ==
    \A i \in Id : InitialStores[i] # Absent =>
        LET creator == InitialStores[i].creator
        IN  \/ creator \in Admins
            \/ \E k \in Key : InitialGrants["access"][k] = [user |-> creator, object |-> i]

VARIABLES
    stores,     \* committed rows: [Id -> Store or Absent]
    grants,     \* committed rows: [Tables -> [Key -> Grant or Absent]]
    removed,    \* history: the pairs <<user, store>> whose access was ever deleted
    tx,         \* the request of each client
    requests,   \* used up of the bounds
    faults

vars == <<stores, grants, removed, tx, requests, faults>>

-----------------------------------------------------------------------------
(* Requests.                                                               *)

Nothing == [name |-> Absent, settings |-> Absent, status |-> Absent, by |-> Absent,
            creator |-> Absent]

\* the user and its context, the operation, its store and form, the copy, the
\* row it is compared with and the row written; a grant's table, pair and key,
\* whether it is inserted or deleted; history as in Accounts
Idle == [pc |-> "idle", op |-> "none", user |-> Absent, sees |-> {}, may |-> {},
         key |-> 0, form |-> Nothing, copy |-> Absent, base |-> Absent, new |-> Absent,
         table |-> "access", pair |-> Absent, gkey |-> 0, write |-> "none",
         fit |-> {}, overtaken |-> FALSE]

Init ==
    /\ stores = InitialStores /\ grants = InitialGrants
    /\ removed = {} /\ tx = [c \in Clients |-> Idle]
    /\ requests = 0 /\ faults = 0

Rows        == {i \in Id : stores[i] # Absent}
Granted(t)  == {k \in Key : grants[t][k] # Absent}
Held(g, t, u) == {g[t][k].object : k \in {j \in Key : g[t][j] # Absent /\ g[t][j].user = u}}
Stop(c)     == tx' = [tx EXCEPT ![c] = Idle]
Goto(c, pc) == tx' = [tx EXCEPT ![c].pc = pc]
Data        == UNCHANGED <<stores, grants, removed, requests, faults>>
Count       == /\ requests < MaxRequests /\ requests' = requests + 1
               /\ UNCHANGED <<stores, grants, removed, faults>>

\* an administrator sees every store and has every permission
Sees(u) == IF u \in Admins THEN Rows ELSE Held(grants, "access", u)
May(u)  == IF u \in Admins THEN Permissions ELSE Held(grants, "permission", u)

\* what entitles user u to an operation on store i, in the tables s and g
Standing(s, g, u, i) ==
    (IF u \in Admins THEN {"admin", "access"} \cup Permissions ELSE Held(g, "permission", u))
        \cup (IF i \in Held(g, "access", u) THEN {"access"} ELSE {})
        \cup (IF i \in Id /\ s[i] # Absent THEN {s[i].status} ELSE {})

Needs(op) == CASE op = "create" -> {"create"}
               [] op \in {"edit", "settings"} -> {"edit", "access", "active"}
               [] op = "run"     -> {"access", "active"}
               [] op = "archive" -> {"admin", "active"}
               [] op = "restore" -> {"admin", "archived"}
               [] OTHER          -> {"admin"}

\* _require_session_context, in a transaction of its own
Request(c, u, op, i, form) ==
    /\ tx[c].pc = "idle"
    /\ tx' = [tx EXCEPT ![c] = [Idle EXCEPT !.pc = "policy", !.op = op, !.user = u,
                !.sees = Sees(u), !.may = May(u), !.key = i, !.form = form,
                !.fit = Standing(stores, grants, u, i)]]
    /\ Count

CreateStore(c, u, name, s) ==
    Request(c, u, "create", 0, [name |-> name, settings |-> s, status |-> "active",
                                by |-> "none", creator |-> u])
EditStore(c, u, i, name) == Request(c, u, "edit", i, [Nothing EXCEPT !.name = name])
UpdateSettings(c, u, i, s) == Request(c, u, "settings", i, [Nothing EXCEPT !.settings = s])
ArchiveStore(c, u, i) ==
    Request(c, u, "archive", i, [Nothing EXCEPT !.status = "archived", !.by = u])
RestoreStore(c, u, i) ==
    Request(c, u, "restore", i, [Nothing EXCEPT !.status = "active", !.by = "none"])
StartRun(c, u, i) == Request(c, u, "run", i, Nothing)

ChangeGrant(c, u, op, table, pair) ==
    /\ tx[c].pc = "idle" /\ u \in Admins
    /\ tx' = [tx EXCEPT ![c] = [Idle EXCEPT !.pc = "find", !.op = op, !.user = u,
                !.table = table, !.pair = pair, !.fit = Standing(stores, grants, u, 0)]]
    /\ Count

GrantAccess(c, u, pair)      == ChangeGrant(c, u, "grant", "access", pair)
RevokeAccess(c, u, pair)     == ChangeGrant(c, u, "revoke", "access", pair)
AssignPermission(c, u, pair) == ChangeGrant(c, u, "grant", "permission", pair)
RemovePermission(c, u, pair) == ChangeGrant(c, u, "revoke", "permission", pair)

-----------------------------------------------------------------------------
(* The policy, on the context read before and the store read now.          *)

\* Mutant: an archived store can be used by whoever sees it.
CanUseArchived(r, store) == r.key \in r.sees

CanUseStoreInRun(r, store) == store.status = "active" /\ r.key \in r.sees

CanEditStore(r, store) ==
    /\ store.status = "active" /\ "edit" \in r.may /\ r.key \in r.sees

CanArchiveStore(r, store) == r.user \in Admins /\ store.status = "active"
CanRestoreStore(r, store) == r.user \in Admins /\ store.status = "archived"

Allowed(r) ==
    CASE r.op = "create"  -> "create" \in r.may
      [] r.op = "run"     -> CanUseStoreInRun(r, stores[r.key])
      [] r.op = "archive" -> CanArchiveStore(r, stores[r.key])
      [] r.op = "restore" -> CanRestoreStore(r, stores[r.key])
      [] OTHER            -> CanEditStore(r, stores[r.key])

NextStep(op) == CASE op \in {"create", "edit"} -> "name"
                  [] op = "run" -> "commit"
                  [] OTHER -> "select"

AskPolicy(c) ==
    /\ tx[c].pc = "policy" /\ Allowed(tx[c])
    /\ tx' = [tx EXCEPT ![c] = [@ EXCEPT !.pc = NextStep(tx[c].op), !.sees = {}, !.may = {},
                !.copy = IF tx[c].key = 0 THEN Absent ELSE stores[tx[c].key]]]
    /\ Data

Denied(c) ==
    /\ tx[c].pc = "policy" /\ ~Allowed(tx[c])
    /\ Stop(c) /\ Data

-----------------------------------------------------------------------------
(* Changing a store.                                                       *)

Taken(name, i) == \E j \in Rows \ {i} : stores[j].name = name

CheckName(c) ==
    /\ tx[c].pc = "name" /\ ~Taken(tx[c].form.name, tx[c].key)
    /\ tx' = [tx EXCEPT ![c] = [@ EXCEPT !.overtaken = FALSE,
                !.pc = IF tx[c].op = "create" THEN "number" ELSE "select"]]
    /\ Data

NameTaken(c) ==
    /\ tx[c].pc = "name" /\ Taken(tx[c].form.name, tx[c].key)
    /\ Stop(c) /\ Data

SelectBase(c) ==
    /\ tx[c].pc = "select"
    /\ tx' = [tx EXCEPT ![c] = [@ EXCEPT !.base = stores[tx[c].key], !.pc = "update"]]
    /\ Data

Changed(c) == [k \in Columns |-> IF tx[c].form[k] = Absent THEN tx[c].copy[k] ELSE tx[c].form[k]]

Merged(c) == [k \in Columns |-> IF Changed(c)[k] # tx[c].base[k] THEN Changed(c)[k]
                                ELSE stores[tx[c].key][k]]

Locked(c) == \E d \in Clients \ {c} : tx[d].key = tx[c].key /\ tx[d].new # Absent

UpdateRow(c) ==
    /\ tx[c].pc = "update" /\ ~Locked(c)
    /\ tx' = [tx EXCEPT ![c] = [@ EXCEPT !.new = Merged(c), !.base = Absent, !.pc = "commit"]]
    /\ Data

NumberStore(c) ==
    /\ tx[c].pc = "number" /\ Max(Rows \cup {0}) < MaxStores
    /\ tx' = [tx EXCEPT ![c] = [@ EXCEPT !.key = Max(Rows \cup {0}) + 1, !.pc = "insert"]]
    /\ Data

\* Mutant: whoever creates a store has to be granted it.
InsertWithoutAccess(c) ==
    /\ tx[c].pc = "insert" /\ stores[tx[c].key] = Absent /\ ~Locked(c)
    /\ tx' = [tx EXCEPT ![c] = [@ EXCEPT !.new = tx[c].form, !.pc = "commit"]]
    /\ Data

\* _ensure_creator_access follows in the same transaction
InsertStore(c) ==
    /\ tx[c].pc = "insert" /\ stores[tx[c].key] = Absent /\ ~Locked(c)
    /\ tx' = [tx EXCEPT ![c] = [@ EXCEPT !.new = tx[c].form,
                !.pc = IF tx[c].user \in Admins THEN "commit" ELSE "find",
                !.pair = [user |-> tx[c].user, object |-> tx[c].key]]]
    /\ Data

-----------------------------------------------------------------------------
(* Granting and revoking.                                                  *)

\* Mutant: a second grant of a pair is another row.
NoneFound(c) == {}

Found(c) == {k \in Granted(tx[c].table) : grants[tx[c].table][k] = tx[c].pair}

FindGrant(c) ==
    /\ tx[c].pc = "find" /\ tx[c].op # "revoke" /\ Found(c) = {}
    /\ tx' = [tx EXCEPT ![c] = [@ EXCEPT !.pc = "gnumber",
                        !.overtaken = IF tx[c].op = "create" THEN tx[c].overtaken ELSE FALSE]]
    /\ Data

NothingToDo(c) ==
    /\ tx[c].pc = "find" /\ (tx[c].op = "revoke") = (Found(c) = {})
    /\ IF tx[c].op = "create" THEN Goto(c, "commit") ELSE Stop(c)
    /\ Data

NumberGrant(c) ==
    /\ tx[c].pc = "gnumber" /\ Max(Granted(tx[c].table) \cup {0}) < MaxGrants
    /\ tx' = [tx EXCEPT ![c] = [@ EXCEPT !.pc = "ginsert",
                                !.gkey = Max(Granted(tx[c].table) \cup {0}) + 1]]
    /\ Data

GrantLocked(c) == \E d \in Clients \ {c} : /\ tx[d].write # "none" /\ tx[d].gkey = tx[c].gkey
                                           /\ tx[d].table = tx[c].table

InsertGrant(c) ==
    /\ tx[c].pc = "ginsert" /\ grants[tx[c].table][tx[c].gkey] = Absent /\ ~GrantLocked(c)
    /\ tx' = [tx EXCEPT ![c] = [@ EXCEPT !.pc = "commit", !.write = "insert"]]
    /\ Data

\* the first row of the pair; delete() selects it again by its key
FindRevoked(c) ==
    /\ tx[c].pc = "find" /\ tx[c].op = "revoke" /\ Found(c) # {}
    /\ tx' = [tx EXCEPT ![c] = [@ EXCEPT !.pc = "delete", !.gkey = Min(Found(c))]]
    /\ Data

DeleteGrant(c) ==
    /\ tx[c].pc = "delete" /\ ~GrantLocked(c)
    /\ tx' = [tx EXCEPT ![c] = [@ EXCEPT !.pc = "commit", !.write = "delete"]]
    /\ Data

\* a primary key is taken
Reject(c) ==
    /\ \/ tx[c].pc = "insert" /\ stores[tx[c].key] # Absent
       \/ tx[c].pc = "ginsert" /\ grants[tx[c].table][tx[c].gkey] # Absent
    /\ Stop(c) /\ Data

-----------------------------------------------------------------------------

Commit(c) ==
    /\ tx[c].pc = "commit"
    /\ stores' = IF tx[c].new = Absent THEN stores
                 ELSE [stores EXCEPT ![tx[c].key] = tx[c].new]
    /\ grants' = IF tx[c].write = "none" THEN grants
                 ELSE [grants EXCEPT ![tx[c].table][tx[c].gkey] =
                        IF tx[c].write = "insert" THEN tx[c].pair ELSE Absent]
    /\ LET gone == IF tx[c].write = "delete" THEN grants[tx[c].table][tx[c].gkey] ELSE Absent
       IN removed' = IF gone = Absent \/ tx[c].table # "access" THEN removed
                     ELSE removed \cup {<<gone.user, gone.object>>}
    /\ tx' = [d \in Clients |-> IF d = c \/ tx[d].pc = "idle" THEN Idle ELSE
                [tx[d] EXCEPT !.fit = @ \cup Standing(stores', grants', tx[d].user, tx[d].key),
                              !.overtaken = TRUE]]
    /\ UNCHANGED <<requests, faults>>

Fail(c) ==
    /\ tx[c].pc = "commit" /\ faults < MaxFaults
    /\ faults' = faults + 1 /\ Stop(c)
    /\ UNCHANGED <<stores, grants, removed, requests>>

Begin(c, u) ==
    \/ \E n \in StoreNames, s \in Settings : CreateStore(c, u, n, s)
    \/ \E i \in Rows : \/ \E n \in StoreNames : EditStore(c, u, i, n)
                       \/ \E s \in Settings : UpdateSettings(c, u, i, s)
                       \/ ArchiveStore(c, u, i) \/ RestoreStore(c, u, i) \/ StartRun(c, u, i)
    \/ \E v \in Users \ Admins :
         \/ \E i \in Rows : LET pair == [user |-> v, object |-> i]
                            IN GrantAccess(c, u, pair) \/ RevokeAccess(c, u, pair)
         \/ \E p \in Permissions : LET pair == [user |-> v, object |-> p]
                                   IN AssignPermission(c, u, pair) \/ RemovePermission(c, u, pair)

Next ==
    \E c \in Clients :
        \/ \E u \in Users : Begin(c, u)
        \/ AskPolicy(c) \/ Denied(c)
        \/ CheckName(c) \/ NameTaken(c) \/ SelectBase(c) \/ UpdateRow(c)
        \/ NumberStore(c) \/ InsertStore(c)
        \/ FindGrant(c) \/ NothingToDo(c) \/ NumberGrant(c) \/ InsertGrant(c)
        \/ FindRevoked(c) \/ DeleteGrant(c) \/ Reject(c)
        \/ Commit(c) \/ Fail(c)

Spec == Init /\ [][Next]_vars

-----------------------------------------------------------------------------
(* Properties.                                                             *)

(* Every variable has its type: the columns of stores that the operations  *)
(* change, the two tables of grants and the requests.                      *)
TypeOK ==
    /\ \A i \in Id : stores[i] = Absent \/ stores[i] \in Store
    /\ \A t \in Tables, k \in Key : grants[t][k] = Absent \/ grants[t][k] \in Grant(t)
    /\ \A c \in Clients : tx[c].new = Absent \/ tx[c].new \in Store
    /\ faults \in 0..MaxFaults

Committing(c) == tx[c].pc = "commit" /\ tx'[c].pc = "idle" /\ faults' = faults

(* Every run, edit, archive, restore and grant that commits was allowed:   *)
(* each thing it needs was true at some moment since the request began,    *)
(* although role, grants and store are read at different moments           *)
(* (_require_session_context, policy.py, get_store; docs/05, 4 and 20).    *)
OperationWasAllowed ==
    [][\A c \in Clients : Committing(c) => Needs(tx[c].op) \subseteq tx[c].fit]_vars

(* Whoever creates a store without being an administrator has access to it *)
(* from the first moment, until a grant of that pair is deleted            *)
(* (create_store, _ensure_creator_access; docs/05, 21).                    *)
CreatorHasAccess ==
    \A i \in Rows : \/ stores[i].creator \in Admins
                    \/ i \in Held(grants, "access", stores[i].creator)
                    \/ <<stores[i].creator, i>> \in removed

(* A name is used twice in a marketplace, or a pair granted twice, only if *)
(* another transaction committed after the check for it                    *)
(* (_ensure_unique_name, _find_access, _find_user_permission).             *)
DuplicatesNeedARace ==
    [][\A c \in Clients : Committing(c) /\ ~tx[c].overtaken =>
         /\ tx[c].form.name # Absent => ~Taken(tx[c].form.name, tx[c].key)
         /\ tx[c].write = "insert" =>
                \A k \in Granted(tx[c].table) : grants[tx[c].table][k] # tx[c].pair]_vars
=============================================================================
