------------------------------ MODULE Accounts ------------------------------
(***************************************************************************)
(* Users and sessions: logins, session checks, password changes and the    *)
(* administration of users, each in a request thread of its own.           *)
(*                                                                         *)
(* An operation reads a copy of the row, replaces some of its columns and  *)
(* hands the whole copy to update(), which selects the row again and       *)
(* writes the columns in which the copy differs from it.  Rows change at   *)
(* commit; a written row is locked until then.  Sessions are in memory and *)
(* change at once.                                                         *)
(***************************************************************************)
EXTENDS Naturals, FiniteSetsExt

CONSTANTS
    Clients,        \* request threads
    Names,          \* user names: pairs of a casefolded name and a spelling
    Passwords,
    Edits,          \* edit_user forms: records with a name, an admin role or neither
    NewUsers,       \* create_user forms
    InitialTables,  \* tables of users to start from: [Id -> User or Absent]
    Absent,         \* "no such row", "not given"
    MaxUsers,       \* bound: users
    MaxTokens,      \* bound: session tokens ever issued
    MaxFaults       \* bound: transactions that fail

Id      == 1..MaxUsers
Token   == 1..MaxTokens
User    == [name : Names, hash : Passwords, admin : BOOLEAN, blocked : BOOLEAN]
Columns == {"name", "hash", "admin", "blocked"}
Fold(name) == name[1]

ASSUME AccountsAssumption ==
    /\ MaxUsers \in Nat /\ MaxTokens \in Nat /\ MaxFaults \in Nat
    /\ Absent \notin User 
    /\ Absent \notin Names /\ Absent \notin Passwords /\ Absent \notin BOOLEAN
    /\ NewUsers \subseteq User
    /\ Edits \subseteq [name : Names \cup {Absent}, hash : {Absent},
                        admin : BOOLEAN \cup {Absent}, blocked : {Absent}]
    /\ InitialTables \subseteq [Id -> User \cup {Absent}]

VARIABLES
    users,      \* committed rows: [Id -> User or Absent]
    sessions,   \* the session store: [Token -> Id or 0]
    issued,     \* number of tokens issued so far
    handed,     \* tokens that a client has received
    tx,         \* the request of each client
    faults      \* used up of the bound

data == <<users, sessions, issued, handed>>
vars == <<data, tx, faults>>

-----------------------------------------------------------------------------
(* Requests.                                                               *)

Nothing == [name |-> Absent, hash |-> Absent, admin |-> Absent, blocked |-> Absent]

\* the session and the user it belongs to, the operation, its row and form, the
\* copy that the operation changes, the row update() compares it with, the row
\* it has written; three fields of history say what has happened since the
\* request began (what its actor has been), since the copy was read (another commit
\* changed the row) and since the name was checked (another commit came between)
Idle == [pc |-> "idle", op |-> "none", token |-> 0, actor |-> 0, admin |-> FALSE,
         key |-> 0, form |-> Nothing, copy |-> Absent, base |-> Absent, new |-> Absent,
         fit |-> {}, stale |-> FALSE, overtaken |-> FALSE]

Init ==
    /\ users \in InitialTables
    /\ sessions = [t \in Token |-> 0] /\ issued = 0 /\ handed = {}
    /\ tx = [c \in Clients |-> Idle] /\ faults = 0

Rows       == {i \in Id : users[i] # Absent}
Stop(c)    == tx' = [tx EXCEPT ![c] = Idle]
Held(c, i) == \E d \in Clients \ {c} : tx[d].key = i /\ tx[d].new # Absent

\* find_user_by_username returns the first match
Matches(name) == {i \in Rows : Fold(users[i].name) = Fold(name)}

\* what entitles a user to act, and what the operations ask for
Standing(table, i) ==
    IF i \notin Id \/ table[i] = Absent THEN {}
    ELSE (IF table[i].blocked THEN {} ELSE {"unblocked"})
             \cup (IF table[i].admin THEN {"admin"} ELSE {})
Needs(op) == CASE op = "bootstrap" -> {}
               [] op \in {"login", "password"} -> {"unblocked"}
               [] OTHER -> {"unblocked", "admin"}

-----------------------------------------------------------------------------
(* Sessions.                                                               *)

UseToken(c, t) ==
    /\ tx[c].pc = "idle" /\ t \in handed /\ sessions[t] # 0
    /\ tx' = [tx EXCEPT ![c] = [Idle EXCEPT !.pc = "identity",
                                            !.token = t, !.actor = sessions[t],
                                            !.fit = Standing(users, sessions[t])]]
    /\ UNCHANGED <<data, faults>>

\* Mutant: a blocked user keeps the sessions it has.
AuthoriseBlocked(c) ==
    /\ tx[c].pc = "identity"
    /\ sessions' = [sessions EXCEPT ![tx[c].token] = tx[c].actor]
    /\ tx' = [tx EXCEPT ![c] = [@ EXCEPT !.pc = "act", !.admin = users[tx[c].actor].admin]]
    /\ UNCHANGED <<users, issued, handed, faults>>

\* current_session_context: the session that was read is stored again
Authorise(c) ==
    /\ tx[c].pc = "identity" /\ ~users[tx[c].actor].blocked
    /\ sessions' = [sessions EXCEPT ![tx[c].token] = tx[c].actor]
    /\ tx' = [tx EXCEPT ![c] = [@ EXCEPT !.pc = "act", !.admin = users[tx[c].actor].admin]]
    /\ UNCHANGED <<users, issued, handed, faults>>

Deny(c) ==
    /\ tx[c].pc = "identity" /\ users[tx[c].actor].blocked
    /\ Stop(c)
    /\ UNCHANGED <<data, faults>>

\* the request only reads, or is not the actor's to make
EndRequest(c) ==
    /\ tx[c].pc = "act"
    /\ Stop(c)
    /\ UNCHANGED <<data, faults>>

Logout(t) ==
    /\ t \in handed /\ sessions[t] # 0
    /\ sessions' = [sessions EXCEPT ![t] = 0]
    /\ UNCHANGED <<users, issued, handed, tx, faults>>

-----------------------------------------------------------------------------
(* The beginning of the operations.                                        *)

\* login: identity, blocked and password are checked before the row is read
\* again for last_login_at_utc; what a denied login logs is rolled back
Login(c, i, password) ==
    /\ tx[c].pc = "idle" /\ issued < MaxTokens
    /\ i \in Rows /\ ~users[i].blocked /\ users[i].hash = password
    /\ tx' = [tx EXCEPT ![c] = [Idle EXCEPT !.pc = "read", !.op = "login",
                                            !.actor = i, !.key = i, !.copy = users[i],
                                            !.fit = Standing(users, i)]]
    /\ UNCHANGED <<data, faults>>

ChangeOwnPassword(c, current, password) ==
    /\ tx[c].pc = "identity"
    /\ ~users[tx[c].actor].blocked /\ users[tx[c].actor].hash = current
    /\ tx' = [tx EXCEPT ![c] = [@ EXCEPT !.pc = "read", !.op = "password",
                !.key = tx[c].actor, !.form.hash = password, !.copy = users[tx[c].actor]]]
    /\ UNCHANGED <<data, faults>>

\* the context computed by Authorise is used in a transaction of its own
Administer(c, op, i, form) ==
    /\ tx[c].pc = "act" /\ tx[c].admin
    /\ tx' = [tx EXCEPT ![c] = [Idle EXCEPT !.pc = IF op = "create" THEN "name" ELSE "read",
                !.op = op, !.actor = tx[c].actor, !.key = i, !.form = form, !.fit = tx[c].fit]]
    /\ UNCHANGED <<data, faults>>

BlockUser(c, i) == Administer(c, "block", i, [Nothing EXCEPT !.blocked = TRUE])
UnblockUser(c, i) == Administer(c, "unblock", i, [Nothing EXCEPT !.blocked = FALSE])
EditUser(c, i, form) == Administer(c, "edit", i, form)
CreateUser(c, form) == Administer(c, "create", 0, form)

\* create_first_admin, from the command line
CreateFirstAdmin(c, form) ==
    /\ tx[c].pc = "idle" /\ ~\E i \in Rows : users[i].admin
    /\ tx' = [tx EXCEPT ![c] = [Idle EXCEPT !.pc = "name", !.op = "bootstrap",
                                            !.form = [form EXCEPT !.admin = TRUE]]]
    /\ UNCHANGED <<data, faults>>

-----------------------------------------------------------------------------
(* Changing a row.                                                         *)

\* Mutant: the copy of the identity check is changed, not a new one.
ReuseCopy(c) == IF tx[c].copy = Absent THEN users[tx[c].key] ELSE tx[c].copy

TakeCopy(c) == users[tx[c].key]

\* block_user and unblock_user return when there is nothing to do
Pointless(c) == tx[c].form.blocked # Absent /\ users[tx[c].key].blocked = tx[c].form.blocked

ReadCopy(c) ==
    /\ tx[c].pc = "read" /\ ~Pointless(c)
    /\ tx' = [tx EXCEPT ![c] = [@ EXCEPT !.copy = TakeCopy(c),
                !.pc = IF tx[c].op = "edit" THEN "name" ELSE "select", !.stale = FALSE]]
    /\ UNCHANGED <<data, faults>>

AlreadyDone(c) ==
    /\ tx[c].pc = "read" /\ Pointless(c)
    /\ Stop(c)
    /\ UNCHANGED <<data, faults>>

\* Mutant: names are compared as they are spelled.
TakenAsSpelled(name, i) == \E j \in Rows \ {i} : users[j].name = name

Taken(name, i) == Matches(name) # {} /\ Min(Matches(name)) # i

WantedName(c) == IF tx[c].form.name = Absent THEN tx[c].copy.name ELSE tx[c].form.name

CheckName(c) ==
    /\ tx[c].pc = "name" /\ ~Taken(WantedName(c), tx[c].key)
    /\ tx' = [tx EXCEPT ![c] = [@ EXCEPT !.overtaken = FALSE,
                !.pc = IF tx[c].op = "edit" THEN "select" ELSE "number"]]
    /\ UNCHANGED <<data, faults>>

NameTaken(c) ==
    /\ tx[c].pc = "name" /\ Taken(WantedName(c), tx[c].key)
    /\ Stop(c)
    /\ UNCHANGED <<data, faults>>

\* update() selects the row again
SelectBase(c) ==
    /\ tx[c].pc = "select"
    /\ tx' = [tx EXCEPT ![c] = [@ EXCEPT !.base = users[tx[c].key], !.pc = "update"]]
    /\ UNCHANGED <<data, faults>>

Changed(c) == [k \in Columns |-> IF tx[c].form[k] = Absent THEN tx[c].copy[k] ELSE tx[c].form[k]]

Merged(c) == [k \in Columns |-> IF Changed(c)[k] # tx[c].base[k] THEN Changed(c)[k]
                                ELSE users[tx[c].key][k]]

\* the unique index on the exact name
Clashes(table, i, name) == \E j \in Id \ {i} : table[j] # Absent /\ table[j].name = name
NameFree(c, i, row) ==
    /\ ~Held(c, i) /\ ~Clashes(users, i, row.name)
    /\ \A d \in Clients \ {c} : tx[d].new # Absent => tx[d].new.name # row.name

\* login creates its session before its transaction commits
UpdateRow(c) ==
    /\ tx[c].pc = "update" /\ NameFree(c, tx[c].key, Merged(c))
    /\ IF tx[c].op = "login"
         THEN /\ issued < MaxTokens /\ issued' = issued + 1
              /\ sessions' = [sessions EXCEPT ![issued + 1] = tx[c].key]
              /\ tx' = [tx EXCEPT ![c] = [@ EXCEPT !.new = Merged(c), !.pc = "commit",
                                                   !.base = Absent, !.token = issued + 1]]
         ELSE /\ tx' = [tx EXCEPT ![c] = [@ EXCEPT !.new = Merged(c), !.pc = "commit",
                                                   !.base = Absent]]
              /\ UNCHANGED <<sessions, issued>>
    /\ UNCHANGED <<users, handed, faults>>

NumberUser(c) ==
    /\ tx[c].pc = "number" /\ Max(Rows \cup {0}) < MaxUsers
    /\ tx' = [tx EXCEPT ![c] = [@ EXCEPT !.key = Max(Rows \cup {0}) + 1, !.pc = "insert"]]
    /\ UNCHANGED <<data, faults>>

InsertUser(c) ==
    /\ tx[c].pc = "insert" /\ users[tx[c].key] = Absent
    /\ NameFree(c, tx[c].key, tx[c].form)
    /\ tx' = [tx EXCEPT ![c] = [@ EXCEPT !.new = tx[c].form, !.pc = "commit"]]
    /\ UNCHANGED <<data, faults>>

\* the primary key or the exact name is taken
Reject(c) ==
    /\ \/ tx[c].pc = "insert" /\ users[tx[c].key] # Absent
       \/ tx[c].pc = "insert" /\ Clashes(users, tx[c].key, tx[c].form.name)
       \/ tx[c].pc = "update" /\ Clashes(users, tx[c].key, Merged(c).name)
    /\ Stop(c)
    /\ UNCHANGED <<data, faults>>

-----------------------------------------------------------------------------

\* what the commit of row key means for another request
Seen(r, key) == [r EXCEPT !.fit = @ \cup Standing(users', r.actor),
                          !.stale = @ \/ (r.copy # Absent /\ r.key = key),
                          !.overtaken = r.pc # "idle"]

Commit(c) ==
    /\ tx[c].pc = "commit"
    /\ users' = [users EXCEPT ![tx[c].key] = tx[c].new]
    /\ handed' = IF tx[c].op = "login" THEN handed \cup {tx[c].token} ELSE handed
    /\ tx' = [d \in Clients |-> IF d = c THEN Idle ELSE Seen(tx[d], tx[c].key)]
    /\ UNCHANGED <<sessions, issued, faults>>

\* a log row, a statement or the commit fails: the row is as before, the
\* session store is not
Fail(c) ==
    /\ tx[c].pc \in {"update", "insert", "commit"} /\ faults < MaxFaults
    /\ faults' = faults + 1
    /\ Stop(c)
    /\ UNCHANGED data

Begin(c) ==
    \/ \E i \in Id, p \in Passwords : Login(c, i, p)
    \/ \E p, q \in Passwords : ChangeOwnPassword(c, p, q)
    \/ \E i \in Rows : BlockUser(c, i) \/ UnblockUser(c, i)
    \/ \E i \in Rows, form \in Edits : EditUser(c, i, form)
    \/ \E form \in NewUsers : CreateUser(c, form) \/ CreateFirstAdmin(c, form)

Next ==
    \/ \E c \in Clients, t \in Token : UseToken(c, t)
    \/ \E t \in Token : Logout(t)
    \/ \E c \in Clients :
         \/ Authorise(c) \/ Deny(c) \/ EndRequest(c)
         \/ Begin(c)
         \/ ReadCopy(c) \/ AlreadyDone(c) \/ CheckName(c) \/ NameTaken(c)
         \/ SelectBase(c) \/ UpdateRow(c) \/ NumberUser(c) \/ InsertUser(c)
         \/ Reject(c) \/ Commit(c) \/ Fail(c)

Spec == Init /\ [][Next]_vars

-----------------------------------------------------------------------------
(* Properties.                                                             *)

(* Every variable has its type: the columns of users that the operations   *)
(* change, the session store and the requests.                             *)
TypeOK ==
    /\ \A i \in Id : users[i] = Absent \/ users[i] \in User
    /\ sessions \in [Token -> Rows \cup {0}] /\ issued \in 0..MaxTokens
    /\ handed \subseteq 1..issued /\ faults \in 0..MaxFaults
    /\ \A c \in Clients : tx[c].new = Absent \/ tx[c].new \in User

Committing(c) == tx[c].pc = "commit" /\ users' = [users EXCEPT ![tx[c].key] = tx[c].new]
                                     /\ tx'[c].pc = "idle" /\ faults' = faults

(* Nobody acts who was blocked, or was no administrator, throughout the     *)
(* request: what commits was asked for by a user that was entitled to it    *)
(* at some moment since the session was read, although the context is       *)
(* computed in an earlier transaction (current_session_context, login,      *)
(* change_own_password, _ensure_admin; docs/05, 4).                         *)
ActorWasEntitled ==
    [][\A c \in Clients : Committing(c) => Needs(tx[c].op) \subseteq tx[c].fit]_vars

(* An operation undoes nothing that was committed before it read its own   *)
(* copy of the row: only a change that fell between that read and its      *)
(* UPDATE can be lost, for example a block while a password is verified    *)
(* is not (mark_last_login, change_password, edit_user, block_user).       *)
OnlyStaleCopiesOverwrite ==
    [][\A c \in Clients :
         Committing(c) /\ tx[c].op \notin {"create", "bootstrap"} /\ ~tx[c].stale =>
            \A k \in Columns :
                tx[c].form[k] = Absent => users'[tx[c].key][k] = users[tx[c].key][k]]_vars

Twins(table, i, j) == table[i] # Absent /\ table[j] # Absent
                        /\ Fold(table[i].name) = Fold(table[j].name)

(* Two users whose names differ in spelling only need a race: another user *)
(* was created or renamed between the check of find_user_by_username and   *)
(* the commit.  The index on users excludes equal names only.              *)
TwinNamesNeedARace ==
    [][\A c \in Clients :
         Committing(c) /\ tx[c].form.name # Absent /\ ~tx[c].overtaken =>
            \A i \in Rows \ {tx[c].key} :
                Twins(users', i, tx[c].key) => Twins(users, i, tx[c].key)]_vars
=============================================================================
