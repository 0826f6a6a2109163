--------------------------- MODULE AccountsProofs ---------------------------
(* Theorems about Accounts, for every number of clients, users, tokens and   *)
(* faults, every set of names, passwords and forms, and every initial table. *)
EXTENDS Accounts, MinMaxSum, TLAPS

Form == [name : Names \cup {Absent}, hash : Passwords \cup {Absent},
         admin : BOOLEAN \cup {Absent}, blocked : BOOLEAN \cup {Absent}]

Adding   == {"create", "bootstrap"}
Changing == {"login", "password", "block", "unblock", "edit"}

Request ==
    [pc : {"idle", "identity", "act", "read", "name", "select", "update",
           "number", "insert", "commit"},
     op : {"none"} \cup Adding \cup Changing,
     token : Token \cup {0}, actor : Id \cup {0}, admin : BOOLEAN, key : Id \cup {0},
     form : Form, copy : User \cup {Absent}, base : User \cup {Absent},
     new : User \cup {Absent}, fit : SUBSET {"unblocked", "admin"},
     stale : BOOLEAN, overtaken : BOOLEAN]

TypeInv ==
    /\ users \in [Id -> User \cup {Absent}]
    /\ sessions \in [Token -> Rows \cup {0}] /\ issued \in 0..MaxTokens
    /\ handed \subseteq 1..issued /\ faults \in 0..MaxFaults
    /\ tx \in [Clients -> Request]

\* Where a request stands determines its operation, its row and its copies.
ShapeOK(c) ==
    /\ tx[c].pc \in {"identity", "act"} => tx[c].actor \in Rows
    /\ tx[c].pc = "identity" => tx[c].token \in 1..issued /\ tx[c].form.name = Absent
    /\ tx[c].pc \in {"number", "insert"} => tx[c].op \in Adding
    /\ tx[c].pc \in {"read", "select", "update"} => tx[c].op \in Changing
    /\ tx[c].pc = "name" => tx[c].op \in Adding \cup {"edit"}
    /\ tx[c].pc = "commit" => tx[c].op \in Adding \cup Changing /\ tx[c].new \in User
    /\ tx[c].pc \in {"insert", "commit"} => tx[c].key \in Id
    /\ tx[c].pc # "idle" /\ tx[c].op \in Adding => tx[c].form \in User
    /\ tx[c].pc \in {"name", "number"} /\ tx[c].op \in Adding => tx[c].key = 0
    /\ tx[c].pc # "idle" /\ tx[c].op \in Changing => tx[c].key \in Rows
    /\ tx[c].pc \in {"name", "select", "update", "commit"} /\ tx[c].op \in Changing =>
         tx[c].copy \in User
    /\ tx[c].pc = "update" => tx[c].base \in User
    /\ tx[c].pc = "commit" /\ tx[c].op = "login" => tx[c].token \in 1..issued

\* fit holds what the actor is now and what it was when the request was let in.
FitOK(c) ==
    tx[c].pc # "idle" =>
        /\ Standing(users, tx[c].actor) \subseteq tx[c].fit
        /\ tx[c].pc = "act" => "unblocked" \in tx[c].fit /\ (tx[c].admin => "admin" \in tx[c].fit)
        /\ tx[c].pc \notin {"identity", "act"} => Needs(tx[c].op) \subseteq tx[c].fit

\* The copies agree with the row until another request commits it.
CopyOK(c) ==
    tx[c].op \in Changing =>
        /\ tx[c].pc \in {"name", "select", "update"} /\ ~tx[c].stale =>
             tx[c].copy = users[tx[c].key]
        /\ tx[c].pc = "update" /\ ~tx[c].overtaken => tx[c].base = users[tx[c].key]
        /\ tx[c].pc = "commit" /\ ~tx[c].stale =>
             \A k \in Columns : tx[c].form[k] = Absent => tx[c].new[k] = users[tx[c].key][k]

Bears(i, name) == i \in Rows /\ Fold(users[i].name) = Fold(name)

\* Until another request commits, nobody but the row itself bears a checked name.
NameOK(c) ==
    /\ tx[c].pc \in {"read", "name", "select", "update", "commit"} /\ tx[c].form.name # Absent =>
         tx[c].op \in Adding \cup {"edit"}
    /\ tx[c].pc \in {"number", "insert", "select", "update", "commit"} /\ tx[c].form.name # Absent
       /\ ~tx[c].overtaken =>
         /\ \A i \in Rows : Bears(i, tx[c].form.name) => Bears(tx[c].key, tx[c].form.name)
         /\ tx[c].pc = "commit" => tx[c].new.name = tx[c].form.name

IInv == TypeInv /\ \A c \in Clients : ShapeOK(c) /\ FitOK(c) /\ CopyOK(c) /\ NameOK(c)

-----------------------------------------------------------------------------
(* The initial states, and steps that leave other requests alone.           *)

USE AccountsAssumption

LEMMA NothingIsAForm == Nothing \in Form /\ User \subseteq Form
BY DEF Nothing, Form, User

LEMMA IdleIsARequest == Idle \in Request
<1>1. Nothing \in Form
  BY NothingIsAForm
<1> QED
  BY <1>1 DEF Idle, Request, Adding, Changing

LEMMA IdleIsOK ==
    ASSUME NEW c \in Clients, tx[c] = Idle
    PROVE  ShapeOK(c) /\ FitOK(c) /\ CopyOK(c) /\ NameOK(c)
<1>1. tx[c].pc = "idle" /\ tx[c].op = "none"
  BY DEF Idle
<1> QED
  BY <1>1 DEF ShapeOK, FitOK, CopyOK, NameOK, Adding, Changing

LEMMA InitIInv == Init => IInv
<1> SUFFICES ASSUME Init PROVE IInv
  OBVIOUS
<1>1. TypeInv
  BY IdleIsARequest DEF Init, TypeInv
<1>2. \A c \in Clients : tx[c] = Idle
  BY DEF Init
<1> QED
  BY <1>1, <1>2, IdleIsOK DEF IInv

\* requests that a step leaves alone, when it changes no row
LEMMA OtherRequests ==
    ASSUME IInv, NEW c \in Clients, UNCHANGED users, issued' \in Nat, issued' >= issued,
           \A d \in Clients \ {c} : tx'[d] = tx[d]
    PROVE  \A d \in Clients \ {c} : (ShapeOK(d) /\ FitOK(d) /\ CopyOK(d) /\ NameOK(d))'
<1> SUFFICES ASSUME NEW d \in Clients \ {c}
             PROVE  (ShapeOK(d) /\ FitOK(d) /\ CopyOK(d) /\ NameOK(d))'
  OBVIOUS
<1>1. tx'[d] = tx[d] /\ ShapeOK(d) /\ FitOK(d) /\ CopyOK(d) /\ NameOK(d)
  BY DEF IInv
<1>2. Rows' = Rows
  BY DEF Rows
<1>3. issued \in Nat /\ \A n \in 1..issued : n \in 1..issued'
  BY DEF IInv, TypeInv
<1>4. ShapeOK(d)'
  BY <1>1, <1>2, <1>3 DEF ShapeOK
<1>5. FitOK(d)'
  BY <1>1 DEF FitOK, Standing
<1>6. CopyOK(d)'
  BY <1>1 DEF CopyOK
<1>7. NameOK(d)'
  BY <1>1, <1>2 DEF NameOK, Bears
<1> QED
  BY <1>4, <1>5, <1>6, <1>7

\* one request moves and nothing else changes
LEMMA LocalStep ==
    ASSUME IInv, NEW c \in Clients, NEW r \in Request, tx' = [tx EXCEPT ![c] = r],
           UNCHANGED <<data, faults>>,
           tx'[c] = r => (ShapeOK(c) /\ FitOK(c) /\ CopyOK(c) /\ NameOK(c))'
    PROVE  IInv'
<1>1. tx' \in [Clients -> Request] /\ tx'[c] = r /\ \A d \in Clients \ {c} : tx'[d] = tx[d]
  BY DEF IInv, TypeInv
<1>2. TypeInv'
  BY <1>1 DEF IInv, TypeInv, data, Rows
<1>3. users' = users /\ issued' \in Nat /\ issued' >= issued
  BY DEF IInv, TypeInv, data
<1>4. \A d \in Clients \ {c} : (ShapeOK(d) /\ FitOK(d) /\ CopyOK(d) /\ NameOK(d))'
  BY <1>1, <1>3, OtherRequests
<1> QED
  BY <1>1, <1>2, <1>4 DEF IInv

\* a request that ends before its commit, or fails
LEMMA StopStep ==
    ASSUME IInv, NEW c \in Clients, Stop(c), UNCHANGED data, faults' \in 0..MaxFaults
    PROVE  IInv'
<1>1. /\ tx' \in [Clients -> Request] /\ tx'[c] = Idle
      /\ \A d \in Clients \ {c} : tx'[d] = tx[d]
  BY IdleIsARequest DEF IInv, TypeInv, Stop
<1>2. TypeInv'
  BY <1>1 DEF IInv, TypeInv, data, Rows
<1>3. users' = users /\ issued' \in Nat /\ issued' >= issued
  BY DEF IInv, TypeInv, data
<1>4. \A d \in Clients \ {c} : (ShapeOK(d) /\ FitOK(d) /\ CopyOK(d) /\ NameOK(d))'
  BY <1>1, <1>3, OtherRequests
<1>5. (ShapeOK(c) /\ FitOK(c) /\ CopyOK(c) /\ NameOK(c))'
  BY <1>1 DEF Idle, ShapeOK, FitOK, CopyOK, NameOK, Adding, Changing
<1> QED
  BY <1>1, <1>2, <1>4, <1>5 DEF IInv

LEMMA EndingSteps ==
    ASSUME IInv, NEW c \in Clients,
           Deny(c) \/ EndRequest(c) \/ AlreadyDone(c) \/ NameTaken(c) \/ Reject(c) \/ Fail(c)
    PROVE  IInv'
<1>1. Stop(c) /\ UNCHANGED data /\ faults' \in 0..MaxFaults
  BY DEF Deny, EndRequest, AlreadyDone, NameTaken, Reject, Fail, IInv, TypeInv
<1> QED
  BY <1>1, StopStep

-----------------------------------------------------------------------------
(* Sessions.                                                                *)

LEMMA StandingIsOfRows ==
    ASSUME IInv, NEW i \in Rows
    PROVE  /\ i \in Id /\ users[i] \in User
           /\ Standing(users, i) \subseteq {"unblocked", "admin"}
           /\ ~users[i].blocked => "unblocked" \in Standing(users, i)
           /\ users[i].admin => "admin" \in Standing(users, i)
<1>1. i \in Id /\ users[i] \in User /\ users[i] # Absent
  BY DEF IInv, TypeInv, Rows
<1> QED
  BY <1>1 DEF Standing

LEMMA UseTokenStep ==
    ASSUME IInv, NEW c \in Clients, NEW t \in Token, UseToken(c, t)
    PROVE  IInv'
<1> DEFINE r == [Idle EXCEPT !.pc = "identity", !.token = t, !.actor = sessions[t],
                             !.fit = Standing(users, sessions[t])]
<1>1. sessions[t] \in Rows /\ t \in 1..issued
  BY DEF IInv, TypeInv, UseToken
<1>2. sessions[t] \in Id /\ Standing(users, sessions[t]) \subseteq {"unblocked", "admin"}
  BY <1>1, StandingIsOfRows
<1>3. r \in Request
  BY <1>2, IdleIsARequest DEF Request
<1>4. /\ r.pc = "identity" /\ r.op = "none" /\ r.token = t /\ r.actor = sessions[t]
      /\ r.fit = Standing(users, sessions[t]) /\ r.form.name = Absent
  BY DEF Idle, Nothing
<1>5. tx' = [tx EXCEPT ![c] = r] /\ UNCHANGED <<data, faults>>
  BY DEF UseToken
<1> HIDE DEF r
<1>6. ASSUME tx'[c] = r PROVE (ShapeOK(c) /\ FitOK(c) /\ CopyOK(c) /\ NameOK(c))'
  <2>1. users' = users /\ issued' = issued /\ Rows' = Rows
    BY <1>5 DEF data, Rows
  <2>2. ShapeOK(c)'
    BY <1>1, <1>4, <1>6, <2>1 DEF ShapeOK, Adding, Changing
  <2>3. FitOK(c)'
    BY <1>4, <1>6, <2>1 DEF FitOK
  <2>4. CopyOK(c)' /\ NameOK(c)'
    BY <1>4, <1>6 DEF CopyOK, NameOK, Changing
  <2> QED
    BY <2>2, <2>3, <2>4
<1> QED
  BY <1>3, <1>5, <1>6, LocalStep

LEMMA LogoutStep ==
    ASSUME IInv, NEW t \in Token, Logout(t)
    PROVE  IInv'
<1>1. users' = users /\ tx' = tx /\ issued' = issued /\ Rows' = Rows
  BY DEF Logout, Rows
<1>2. sessions' \in [Token -> Rows' \cup {0}]
  BY <1>1 DEF IInv, TypeInv, Logout
<1>3. TypeInv'
  BY <1>1, <1>2 DEF IInv, TypeInv, Logout
<1>4. ASSUME NEW c \in Clients PROVE (ShapeOK(c) /\ FitOK(c) /\ CopyOK(c) /\ NameOK(c))'
  BY <1>1 DEF IInv, ShapeOK, FitOK, Standing, CopyOK, NameOK, Bears
<1> QED
  BY <1>3, <1>4 DEF IInv

LEMMA AuthoriseStep ==
    ASSUME IInv, NEW c \in Clients, Authorise(c)
    PROVE  IInv'
<1> DEFINE r == [tx[c] EXCEPT !.pc = "act", !.admin = users[tx[c].actor].admin]
<1>1. tx[c] \in Request /\ tx[c].pc = "identity" /\ ShapeOK(c) /\ FitOK(c)
  BY DEF IInv, TypeInv, Authorise
<1>2. tx[c].actor \in Rows /\ tx[c].token \in 1..issued /\ ~users[tx[c].actor].blocked
  BY <1>1 DEF ShapeOK, Authorise
<1>3. users[tx[c].actor] \in User
  BY <1>2, StandingIsOfRows
<1>4. r \in Request
  BY ZenonT(60), <1>1, <1>3 DEF Request, User
<1>5. /\ r.pc = "act" /\ r.op = tx[c].op /\ r.actor = tx[c].actor
      /\ r.admin = users[tx[c].actor].admin /\ r.fit = tx[c].fit /\ r.form = tx[c].form
      /\ r.key = tx[c].key
  BY <1>1 DEF Request
<1>6. tx' = [tx EXCEPT ![c] = r] /\ UNCHANGED <<users, issued, handed, faults>>
  BY DEF Authorise
<1> HIDE DEF r
<1>7. /\ tx' \in [Clients -> Request] /\ tx'[c] = r
      /\ \A d \in Clients \ {c} : tx'[d] = tx[d]
  BY <1>4, <1>6 DEF IInv, TypeInv
<1>8. users' = users /\ issued' = issued /\ Rows' = Rows /\ issued \in Nat
  BY <1>6 DEF Rows, IInv, TypeInv
<1>9. sessions' \in [Token -> Rows' \cup {0}]
  BY <1>2, <1>8 DEF IInv, TypeInv, Authorise
<1>10. TypeInv'
  BY <1>6, <1>7, <1>8, <1>9 DEF IInv, TypeInv
<1>11. \A d \in Clients \ {c} : (ShapeOK(d) /\ FitOK(d) /\ CopyOK(d) /\ NameOK(d))'
  BY <1>7, <1>8, OtherRequests
<1>12. ShapeOK(c)'
  BY <1>1, <1>2, <1>5, <1>7, <1>8 DEF ShapeOK
<1>13. FitOK(c)'
  <2>1. Standing(users, r.actor) \subseteq r.fit
    BY <1>1, <1>5 DEF FitOK
  <2>2. "unblocked" \in r.fit /\ (r.admin => "admin" \in r.fit)
    BY <1>2, <1>5, <2>1, StandingIsOfRows
  <2> QED
    BY <1>5, <1>7, <1>8, <2>1, <2>2 DEF FitOK
<1>14. CopyOK(c)' /\ NameOK(c)'
  BY <1>5, <1>7 DEF CopyOK, NameOK
<1> QED
  BY <1>7, <1>10, <1>11, <1>12, <1>13, <1>14 DEF IInv

-----------------------------------------------------------------------------
(* The beginning of the operations.                                         *)

LEMMA LoginStep ==
    ASSUME IInv, NEW c \in Clients, NEW i \in Id, NEW p \in Passwords, Login(c, i, p)
    PROVE  IInv'
<1> DEFINE r == [Idle EXCEPT !.pc = "read", !.op = "login", !.actor = i, !.key = i,
                             !.copy = users[i], !.fit = Standing(users, i)]
<1>1. i \in Rows /\ ~users[i].blocked
  BY DEF Login
<1>2. users[i] \in User /\ Standing(users, i) \subseteq {"unblocked", "admin"}
      /\ "unblocked" \in Standing(users, i)
  BY <1>1, StandingIsOfRows
<1>3. r \in Request
  BY <1>2, IdleIsARequest DEF Request, Changing
<1>4. /\ r.pc = "read" /\ r.op = "login" /\ r.actor = i /\ r.key = i
      /\ r.fit = Standing(users, i) /\ r.form.name = Absent
  BY DEF Idle, Nothing
<1>5. tx' = [tx EXCEPT ![c] = r] /\ UNCHANGED <<data, faults>>
  BY DEF Login
<1> HIDE DEF r
<1>6. ASSUME tx'[c] = r PROVE (ShapeOK(c) /\ FitOK(c) /\ CopyOK(c) /\ NameOK(c))'
  <2>1. users' = users /\ issued' = issued /\ Rows' = Rows
    BY <1>5 DEF data, Rows
  <2>2. ShapeOK(c)'
    BY <1>1, <1>4, <1>6, <2>1 DEF ShapeOK, Adding, Changing
  <2>3. FitOK(c)'
    BY <1>2, <1>4, <1>6, <2>1 DEF FitOK, Needs
  <2>4. CopyOK(c)' /\ NameOK(c)'
    BY <1>4, <1>6 DEF CopyOK, NameOK
  <2> QED
    BY <2>2, <2>3, <2>4
<1> QED
  BY <1>3, <1>5, <1>6, LocalStep

LEMMA ChangeOwnPasswordStep ==
    ASSUME IInv, NEW c \in Clients, NEW p \in Passwords, NEW q \in Passwords,
           ChangeOwnPassword(c, p, q)
    PROVE  IInv'
<1> DEFINE r == [tx[c] EXCEPT !.pc = "read", !.op = "password", !.key = tx[c].actor,
                              !.form.hash = q, !.copy = users[tx[c].actor]]
<1>1. tx[c] \in Request /\ tx[c].pc = "identity" /\ ShapeOK(c) /\ FitOK(c)
  BY DEF IInv, TypeInv, ChangeOwnPassword
<1>2. tx[c].actor \in Rows /\ ~users[tx[c].actor].blocked
  BY <1>1 DEF ShapeOK, ChangeOwnPassword
<1>3. users[tx[c].actor] \in User /\ tx[c].actor \in Id
      /\ "unblocked" \in Standing(users, tx[c].actor)
  BY <1>2, StandingIsOfRows
<1>4. [tx[c].form EXCEPT !.hash = q] \in Form
  BY <1>1 DEF Request, Form
<1>5. r \in Request
  BY <1>1, <1>3, <1>4 DEF Request, Changing
<1>6. /\ r.pc = "read" /\ r.op = "password" /\ r.actor = tx[c].actor /\ r.key = tx[c].actor
      /\ r.fit = tx[c].fit /\ r.form.name = tx[c].form.name
  BY <1>1 DEF Request, Form
<1>7. tx' = [tx EXCEPT ![c] = r] /\ UNCHANGED <<data, faults>>
  BY DEF ChangeOwnPassword
<1> HIDE DEF r
<1>8. ASSUME tx'[c] = r PROVE (ShapeOK(c) /\ FitOK(c) /\ CopyOK(c) /\ NameOK(c))'
  <2>1. users' = users /\ issued' = issued /\ Rows' = Rows
    BY <1>7 DEF data, Rows
  <2>2. ShapeOK(c)'
    BY <1>2, <1>6, <1>8, <2>1 DEF ShapeOK, Adding, Changing
  <2>3. FitOK(c)'
    BY <1>1, <1>3, <1>6, <1>8, <2>1 DEF FitOK, Needs
  <2>4. CopyOK(c)'
    BY <1>6, <1>8 DEF CopyOK
  <2>5. NameOK(c)'
    BY <1>1, <1>6, <1>8 DEF NameOK, ShapeOK
  <2> QED
    BY <2>2, <2>3, <2>4, <2>5
<1> QED
  BY <1>5, <1>7, <1>8, LocalStep

\* the forms of the four operations of an administrator
AdminForm(op, i, form) ==
    /\ op \in {"create", "block", "unblock", "edit"} /\ form \in Form
    /\ op = "create" => i = 0 /\ form \in User
    /\ op # "create" => i \in Rows
    /\ op \in {"block", "unblock"} => form.name = Absent

LEMMA AdministerStep ==
    ASSUME IInv, NEW c \in Clients, NEW op, NEW i, NEW form, AdminForm(op, i, form),
           Administer(c, op, i, form)
    PROVE  IInv'
<1> DEFINE pc == IF op = "create" THEN "name" ELSE "read"
           r  == [Idle EXCEPT !.pc = pc, !.op = op, !.actor = tx[c].actor, !.key = i, !.form = form,
                    !.fit = tx[c].fit]
<1>1. tx[c] \in Request /\ tx[c].pc = "act" /\ tx[c].admin /\ FitOK(c)
  BY DEF IInv, TypeInv, Administer
<1>2. i \in Id \cup {0}
  BY DEF AdminForm, Rows
<1>3. r \in Request
  <2>1. op \in Adding \cup Changing /\ form \in Form /\ tx[c].actor \in Id \cup {0}
        /\ tx[c].fit \in SUBSET {"unblocked", "admin"}
    BY <1>1 DEF Request, Adding, Changing, AdminForm
  <2>2. pc \in {"name", "read"}
    OBVIOUS
  <2> HIDE DEF pc
  <2> QED
    BY ZenonT(60), <1>2, <2>1, <2>2, IdleIsARequest DEF Request
<1>4. /\ r.pc = pc /\ r.op = op
      /\ r.actor = tx[c].actor /\ r.key = i /\ r.fit = tx[c].fit /\ r.form = form
  BY DEF Idle
<1>5. tx' = [tx EXCEPT ![c] = r] /\ UNCHANGED <<data, faults>>
  BY DEF Administer
<1> HIDE DEF r
<1>6. ASSUME tx'[c] = r PROVE (ShapeOK(c) /\ FitOK(c) /\ CopyOK(c) /\ NameOK(c))'
  <2>1. users' = users /\ issued' = issued /\ Rows' = Rows
    BY <1>5 DEF data, Rows
  <2>2. ShapeOK(c)'
    BY <1>4, <1>6, <2>1 DEF ShapeOK, Adding, Changing, AdminForm
  <2>3. FitOK(c)'
    BY <1>1, <1>4, <1>6, <2>1 DEF FitOK, Needs, AdminForm
  <2>4. CopyOK(c)'
    BY <1>4, <1>6 DEF CopyOK, Changing
  <2>5. NameOK(c)'
    BY <1>4, <1>6 DEF NameOK, Adding, AdminForm
  <2> QED
    BY <2>2, <2>3, <2>4, <2>5
<1> QED
  BY <1>3, <1>5, <1>6, LocalStep

LEMMA AdministrationSteps ==
    ASSUME IInv, NEW c \in Clients,
           \/ \E i \in Rows : BlockUser(c, i) \/ UnblockUser(c, i)
           \/ \E i \in Rows, form \in Edits : EditUser(c, i, form)
           \/ \E form \in NewUsers : CreateUser(c, form)
    PROVE  IInv'
<1>1. ASSUME NEW i \in Rows, NEW form \in Form,
             BlockUser(c, i) \/ UnblockUser(c, i) PROVE IInv'
  <2>1. \A b \in BOOLEAN : [Nothing EXCEPT !.blocked = b] \in Form
                           /\ [Nothing EXCEPT !.blocked = b].name = Absent
    BY NothingIsAForm DEF Nothing, Form
  <2>2. /\ AdminForm("block", i, [Nothing EXCEPT !.blocked = TRUE])
        /\ AdminForm("unblock", i, [Nothing EXCEPT !.blocked = FALSE])
    BY <2>1 DEF AdminForm
  <2> QED
    BY <1>1, <2>2, AdministerStep DEF BlockUser, UnblockUser
<1>2. ASSUME NEW i \in Rows, NEW form \in Edits, EditUser(c, i, form) PROVE IInv'
  <2>1. form \in Form
    BY DEF Form
  <2>2. AdminForm("edit", i, form)
    BY <2>1 DEF AdminForm
  <2> QED
    BY <1>2, <2>2, AdministerStep DEF EditUser
<1>3. ASSUME NEW form \in NewUsers, CreateUser(c, form) PROVE IInv'
  <2>1. AdminForm("create", 0, form)
    BY NothingIsAForm DEF AdminForm
  <2> QED
    BY <1>3, <2>1, AdministerStep DEF CreateUser
<1> QED
  BY <1>1, <1>2, <1>3, NothingIsAForm

LEMMA CreateFirstAdminStep ==
    ASSUME IInv, NEW c \in Clients, NEW form \in NewUsers, CreateFirstAdmin(c, form)
    PROVE  IInv'
<1> DEFINE f == [form EXCEPT !.admin = TRUE]
           r == [Idle EXCEPT !.pc = "name", !.op = "bootstrap", !.form = f]
<1>1. f \in User
  BY DEF User
<1>2. r \in Request
  BY <1>1, NothingIsAForm, IdleIsARequest DEF Request, Adding
<1>3. /\ r.pc = "name" /\ r.op = "bootstrap" /\ r.form = f /\ r.actor = 0 /\ r.key = 0
      /\ r.fit = {}
  BY DEF Idle
<1>4. tx' = [tx EXCEPT ![c] = r] /\ UNCHANGED <<data, faults>>
  BY DEF CreateFirstAdmin
<1> HIDE DEF r, f
<1>5. ASSUME tx'[c] = r PROVE (ShapeOK(c) /\ FitOK(c) /\ CopyOK(c) /\ NameOK(c))'
  <2>1. ShapeOK(c)'
    BY <1>1, <1>3, <1>5 DEF ShapeOK, Adding, Changing
  <2>2. Standing(users', 0) = {} /\ Needs("bootstrap") = {}
    BY DEF Standing, Needs, Id
  <2>3. FitOK(c)'
    BY <1>3, <1>5, <2>2 DEF FitOK
  <2>4. CopyOK(c)' /\ NameOK(c)'
    BY <1>3, <1>5 DEF CopyOK, NameOK, Adding, Changing
  <2> QED
    BY <2>1, <2>3, <2>4
<1> QED
  BY <1>2, <1>4, <1>5, LocalStep

-----------------------------------------------------------------------------
(* Changing a row.                                                          *)

\* what a step keeps of a request, once its operation has begun
Continues(r, c) ==
    /\ r \in Request /\ r.op = tx[c].op /\ r.actor = tx[c].actor /\ r.form = tx[c].form
    /\ r.fit = tx[c].fit /\ r.pc \notin {"idle", "identity", "act"}
    /\ tx[c].pc \notin {"idle", "identity", "act"}

LEMMA FitFrame ==
    ASSUME IInv, NEW c \in Clients, NEW r, Continues(r, c), tx'[c] = r, UNCHANGED users
    PROVE  FitOK(c)'
<1>1. FitOK(c)
  BY DEF IInv
<1> QED
  BY <1>1 DEF FitOK, Continues

LEMMA ReadCopyStep ==
    ASSUME IInv, NEW c \in Clients, ReadCopy(c)
    PROVE  IInv'
<1> DEFINE pc == IF tx[c].op = "edit" THEN "name" ELSE "select"
           r  == [tx[c] EXCEPT !.copy = users[tx[c].key], !.pc = pc, !.stale = FALSE]
<1>1. tx[c] \in Request /\ tx[c].pc = "read" /\ ShapeOK(c) /\ NameOK(c)
  BY DEF IInv, TypeInv, ReadCopy
<1>2. tx[c].op \in Changing /\ tx[c].key \in Rows
  BY <1>1 DEF ShapeOK
<1>3. users[tx[c].key] \in User
  BY <1>2, StandingIsOfRows
<1>4. pc \in {"name", "select"} /\ (pc = "select" => tx[c].op # "edit")
      /\ (pc = "name" => tx[c].op = "edit")
  OBVIOUS
<1>5. tx' = [tx EXCEPT ![c] = r] /\ UNCHANGED <<data, faults>>
  BY DEF ReadCopy, TakeCopy
<1> HIDE DEF pc
<1>6. Continues(r, c)
  BY ZenonT(60), <1>1, <1>3, <1>4 DEF Request, Continues
<1>7. r.pc = pc /\ r.key = tx[c].key /\ r.copy = users[tx[c].key]
  BY <1>1 DEF Request
<1> HIDE DEF r
<1>8. ASSUME tx'[c] = r PROVE (ShapeOK(c) /\ FitOK(c) /\ CopyOK(c) /\ NameOK(c))'
  <2>1. users' = users /\ issued' = issued /\ Rows' = Rows
    BY <1>5 DEF data, Rows
  <2>2. ShapeOK(c)'
    BY <1>2, <1>3, <1>4, <1>6, <1>7, <1>8, <2>1 DEF ShapeOK, Adding, Changing, Continues
  <2>3. FitOK(c)'
    BY <1>6, <1>8, <2>1, FitFrame
  <2>4. CopyOK(c)'
    BY <1>4, <1>7, <1>8, <2>1 DEF CopyOK
  <2>5. NameOK(c)'
    BY <1>1, <1>2, <1>4, <1>6, <1>7, <1>8 DEF NameOK, Adding, Changing, Continues
  <2> QED
    BY <2>2, <2>3, <2>4, <2>5
<1> QED
  BY <1>5, <1>6, <1>8, LocalStep DEF Continues

\* A free name is borne by no row, or the first row that bears it is the one asked for.
LEMMA FreeName ==
    ASSUME IInv, NEW name, NEW i, ~Taken(name, i)
    PROVE  \A j \in Rows : Bears(j, name) => Bears(i, name)
<1>1. Matches(name) \in SUBSET Nat /\ \A j \in Rows : Bears(j, name) <=> j \in Matches(name)
  BY DEF Matches, Bears, Rows, Id
<1>2. \A j \in Matches(name) : Bears(j, name)
  BY DEF Matches, Bears
<1>3. CASE Matches(name) = {}
  BY <1>1, <1>3
<1>4. CASE Matches(name) # {}
  BY <1>1, <1>2, <1>4, MinOfNaturals DEF Taken
<1> QED
  BY <1>3, <1>4

LEMMA CheckNameStep ==
    ASSUME IInv, NEW c \in Clients, CheckName(c)
    PROVE  IInv'
<1> DEFINE pc == IF tx[c].op = "edit" THEN "select" ELSE "number"
           r  == [tx[c] EXCEPT !.overtaken = FALSE, !.pc = pc]
<1>1. tx[c] \in Request /\ tx[c].pc = "name" /\ ShapeOK(c) /\ CopyOK(c) /\ NameOK(c)
  BY DEF IInv, TypeInv, CheckName
<1>2. tx[c].op \in Adding \cup {"edit"}
  BY <1>1 DEF ShapeOK
<1>3. pc \in {"select", "number"} /\ (pc = "select" => tx[c].op = "edit")
      /\ (pc = "number" => tx[c].op \in Adding)
  BY <1>2
<1>4. tx' = [tx EXCEPT ![c] = r] /\ UNCHANGED <<data, faults>>
  BY DEF CheckName
<1> HIDE DEF pc
<1>5. Continues(r, c)
  <2>1. pc \in {"select", "number"}
    BY <1>3
  <2>2. r \in Request
    BY ZenonT(60), <1>1, <2>1 DEF Request
  <2>3. /\ r.op = tx[c].op /\ r.actor = tx[c].actor /\ r.form = tx[c].form /\ r.fit = tx[c].fit
        /\ r.pc = pc
    BY <1>1 DEF Request
  <2> HIDE DEF r
  <2> QED
    BY <1>1, <2>1, <2>2, <2>3 DEF Continues
<1>6. r.pc = pc /\ r.key = tx[c].key /\ r.copy = tx[c].copy /\ r.stale = tx[c].stale
  BY <1>1 DEF Request
<1> HIDE DEF r
<1>7. ASSUME tx'[c] = r PROVE (ShapeOK(c) /\ FitOK(c) /\ CopyOK(c) /\ NameOK(c))'
  <2>1. users' = users /\ issued' = issued /\ Rows' = Rows
    BY <1>4 DEF data, Rows
  <2>2. ShapeOK(c)'
    BY <1>1, <1>2, <1>3, <1>5, <1>6, <1>7, <2>1 DEF ShapeOK, Adding, Changing, Continues
  <2>3. FitOK(c)'
    BY <1>5, <1>7, <2>1, FitFrame
  <2>4. CopyOK(c)'
    BY <1>1, <1>3, <1>5, <1>6, <1>7, <2>1 DEF CopyOK, Continues
  <2>5. ASSUME tx[c].form.name # Absent
        PROVE  \A i \in Rows : Bears(i, tx[c].form.name) => Bears(tx[c].key, tx[c].form.name)
    <3>1. ~Taken(tx[c].form.name, tx[c].key)
      BY <2>5 DEF CheckName, WantedName
    <3> QED
      BY <3>1, FreeName
  <2>6. NameOK(c)'
    BY <1>2, <1>3, <1>5, <1>6, <1>7, <2>1, <2>5 DEF NameOK, Bears, Continues
  <2> QED
    BY <2>2, <2>3, <2>4, <2>6
<1> QED
  BY <1>4, <1>5, <1>7, LocalStep DEF Continues

LEMMA SelectBaseStep ==
    ASSUME IInv, NEW c \in Clients, SelectBase(c)
    PROVE  IInv'
<1> DEFINE r == [tx[c] EXCEPT !.base = users[tx[c].key], !.pc = "update"]
<1>1. tx[c] \in Request /\ tx[c].pc = "select" /\ ShapeOK(c) /\ CopyOK(c) /\ NameOK(c)
  BY DEF IInv, TypeInv, SelectBase
<1>2. tx[c].op \in Changing /\ tx[c].key \in Rows /\ tx[c].copy \in User
  BY <1>1 DEF ShapeOK
<1>3. users[tx[c].key] \in User
  BY <1>2, StandingIsOfRows
<1>4. tx' = [tx EXCEPT ![c] = r] /\ UNCHANGED <<data, faults>>
  BY DEF SelectBase
<1>5. Continues(r, c)
  BY ZenonT(60), <1>1, <1>3 DEF Request, Continues
<1>6. /\ r.pc = "update" /\ r.key = tx[c].key /\ r.copy = tx[c].copy /\ r.stale = tx[c].stale
      /\ r.base = users[tx[c].key] /\ r.overtaken = tx[c].overtaken
  BY <1>1 DEF Request
<1> HIDE DEF r
<1>7. ASSUME tx'[c] = r PROVE (ShapeOK(c) /\ FitOK(c) /\ CopyOK(c) /\ NameOK(c))'
  <2>1. users' = users /\ issued' = issued /\ Rows' = Rows
    BY <1>4 DEF data, Rows
  <2>2. ShapeOK(c)'
    BY <1>2, <1>3, <1>5, <1>6, <1>7, <2>1 DEF ShapeOK, Adding, Changing, Continues
  <2>3. FitOK(c)'
    BY <1>5, <1>7, <2>1, FitFrame
  <2>4. CopyOK(c)'
    BY <1>1, <1>2, <1>5, <1>6, <1>7, <2>1 DEF CopyOK, Continues
  <2>5. NameOK(c)'
    BY <1>1, <1>5, <1>6, <1>7, <2>1 DEF NameOK, Bears, Continues
  <2> QED
    BY <2>2, <2>3, <2>4, <2>5
<1> QED
  BY <1>4, <1>5, <1>7, LocalStep DEF Continues

\* what update() writes: a row, in which a column without a new value is as it was
\* in the copy or in the row
LEMMA MergedIsAUser ==
    ASSUME IInv, NEW c \in Clients, tx[c].pc = "update"
    PROVE  /\ Merged(c) \in User
           /\ ~tx[c].stale =>
                \A k \in Columns : tx[c].form[k] = Absent => Merged(c)[k] = users[tx[c].key][k]
           /\ ~tx[c].overtaken /\ tx[c].form.name # Absent => Merged(c).name = tx[c].form.name
<1>1. tx[c] \in Request /\ ShapeOK(c) /\ CopyOK(c)
  BY DEF IInv, TypeInv
<1>2. tx[c].op \in Changing /\ tx[c].key \in Rows /\ tx[c].copy \in User /\ tx[c].form \in Form
  BY <1>1 DEF ShapeOK, Request
<1>3. users[tx[c].key] \in User
  BY <1>2, StandingIsOfRows
<1>4. Changed(c) \in User
  BY <1>2 DEF Changed, Columns, User, Form
<1>5. Merged(c) \in User
  BY <1>3, <1>4 DEF Merged, Columns, User
<1>6. ASSUME ~tx[c].stale, NEW k \in Columns, tx[c].form[k] = Absent
      PROVE  Merged(c)[k] = users[tx[c].key][k]
  <2>1. tx[c].copy = users[tx[c].key]
    BY <1>1, <1>2, <1>6 DEF CopyOK
  <2>2. Changed(c)[k] = users[tx[c].key][k]
    BY <1>6, <2>1 DEF Changed
  <2> QED
    BY <2>2 DEF Merged
<1>7. ASSUME ~tx[c].overtaken, tx[c].form.name # Absent
      PROVE  Merged(c).name = tx[c].form.name
  <2>1. tx[c].base = users[tx[c].key]
    BY <1>1, <1>2, <1>7 DEF CopyOK
  <2>2. Changed(c)["name"] = tx[c].form["name"]
    BY <1>7 DEF Changed, Columns
  <2>3. Merged(c)["name"] = tx[c].form["name"]
    BY <2>1, <2>2 DEF Merged, Columns
  <2> QED
    BY <2>3
<1> QED
  BY <1>5, <1>6, <1>7

LEMMA UpdateRowStep ==
    ASSUME IInv, NEW c \in Clients, UpdateRow(c)
    PROVE  IInv'
<1> DEFINE token == IF tx[c].op = "login" THEN issued + 1 ELSE tx[c].token
           r == [tx[c] EXCEPT !.new = Merged(c), !.pc = "commit", !.base = Absent,
                              !.token = token]
<1>1. tx[c] \in Request /\ tx[c].pc = "update" /\ ShapeOK(c) /\ CopyOK(c) /\ NameOK(c)
  BY DEF IInv, TypeInv, UpdateRow
<1>2. tx[c].op \in Changing /\ tx[c].key \in Rows /\ tx[c].copy \in User /\ tx[c].key \in Id
  BY <1>1 DEF ShapeOK, Rows
<1>3. issued \in Nat /\ issued' \in 0..MaxTokens /\ issued' >= issued
      /\ (tx[c].op = "login" => issued + 1 = issued')
  BY DEF IInv, TypeInv, UpdateRow
<1>4. token \in Token \cup {0} /\ (tx[c].op = "login" => token \in 1..issued')
  BY <1>1, <1>3 DEF Token, Request
<1>5. tx' = [tx EXCEPT ![c] = r] /\ users' = users /\ handed' = handed /\ faults' = faults
  <2>1. CASE tx[c].op = "login"
    BY <2>1 DEF UpdateRow
  <2>2. CASE tx[c].op # "login"
    <3>1. r = [tx[c] EXCEPT !.new = Merged(c), !.pc = "commit", !.base = Absent]
      BY <1>1, <2>2 DEF Request
    <3> HIDE DEF r
    <3> QED
      BY <2>2, <3>1 DEF UpdateRow
  <2> QED
    BY <2>1, <2>2
<1>6. sessions' \in [Token -> Rows \cup {0}]
  BY <1>2, <1>3 DEF IInv, TypeInv, UpdateRow, Token
<1> HIDE DEF token
<1>7. Continues(r, c)
  BY ZenonT(60), <1>1, <1>4, MergedIsAUser DEF Request, Continues
<1>8. /\ r.pc = "commit" /\ r.key = tx[c].key /\ r.copy = tx[c].copy /\ r.stale = tx[c].stale
      /\ r.new = Merged(c) /\ r.token = token /\ r.overtaken = tx[c].overtaken
  BY <1>1 DEF Request
<1> HIDE DEF r
<1>9. /\ tx' \in [Clients -> Request] /\ tx'[c] = r
      /\ \A d \in Clients \ {c} : tx'[d] = tx[d]
  BY <1>5, <1>7 DEF IInv, TypeInv, Continues
<1>10. Rows' = Rows
  BY <1>5 DEF Rows
<1>11. TypeInv'
  BY <1>3, <1>5, <1>6, <1>9, <1>10 DEF IInv, TypeInv
<1>12. \A d \in Clients \ {c} : (ShapeOK(d) /\ FitOK(d) /\ CopyOK(d) /\ NameOK(d))'
  BY <1>3, <1>5, <1>9, OtherRequests
<1>13. ShapeOK(c)'
  BY <1>1, <1>2, <1>4, <1>7, <1>8, <1>9, <1>10, MergedIsAUser
     DEF ShapeOK, Adding, Changing, Continues
<1>14. FitOK(c)'
  BY <1>5, <1>7, <1>9, FitFrame
<1>15. CopyOK(c)'
  BY <1>1, <1>5, <1>7, <1>8, <1>9, MergedIsAUser DEF CopyOK, Continues
<1>16. NameOK(c)'
  BY <1>1, <1>5, <1>7, <1>8, <1>9, <1>10, MergedIsAUser DEF NameOK, Bears, Continues
<1> QED
  BY <1>9, <1>11, <1>12, <1>13, <1>14, <1>15, <1>16 DEF IInv

LEMMA NumberUserStep ==
    ASSUME IInv, NEW c \in Clients, NumberUser(c)
    PROVE  IInv'
<1> DEFINE m == Max(Rows \cup {0})
           k == m + 1
           r == [tx[c] EXCEPT !.key = k, !.pc = "insert"]
<1>1. tx[c] \in Request /\ tx[c].pc = "number" /\ ShapeOK(c) /\ NameOK(c)
  BY DEF IInv, TypeInv, NumberUser
<1>2. tx[c].op \in Adding /\ tx[c].key = 0
  BY <1>1 DEF ShapeOK
<1>3. k \in Id
  <2>1. Rows \in SUBSET (1..MaxUsers)
    BY DEF Rows, Id
  <2>2. m \in 0..MaxUsers /\ m < MaxUsers
    BY <2>1, HighestKey DEF NumberUser
  <2> HIDE DEF m
  <2> QED
    BY <2>2 DEF Id
<1>4. tx' = [tx EXCEPT ![c] = r] /\ UNCHANGED <<data, faults>>
  BY DEF NumberUser
<1> HIDE DEF k
<1>5. Continues(r, c)
  BY ZenonT(60), <1>1, <1>3 DEF Request, Continues
<1>6. r.pc = "insert" /\ r.key = k /\ r.overtaken = tx[c].overtaken
  BY <1>1 DEF Request
<1> HIDE DEF r
<1>7. ASSUME tx'[c] = r PROVE (ShapeOK(c) /\ FitOK(c) /\ CopyOK(c) /\ NameOK(c))'
  <2>1. users' = users /\ issued' = issued /\ Rows' = Rows
    BY <1>4 DEF data, Rows
  <2>2. ShapeOK(c)'
    BY <1>1, <1>2, <1>3, <1>5, <1>6, <1>7, <2>1 DEF ShapeOK, Adding, Changing, Continues
  <2>3. FitOK(c)'
    BY <1>5, <1>7, <2>1, FitFrame
  <2>4. CopyOK(c)'
    BY <1>2, <1>5, <1>6, <1>7 DEF CopyOK, Continues, Adding, Changing
  <2>5. 0 \notin Rows
    BY DEF Rows, Id
  <2>6. NameOK(c)'
    BY <1>1, <1>2, <1>5, <1>6, <1>7, <2>1, <2>5 DEF NameOK, Bears, Continues
  <2> QED
    BY <2>2, <2>3, <2>4, <2>6
<1> QED
  BY <1>4, <1>5, <1>7, LocalStep DEF Continues

LEMMA InsertUserStep ==
    ASSUME IInv, NEW c \in Clients, InsertUser(c)
    PROVE  IInv'
<1> DEFINE r == [tx[c] EXCEPT !.new = tx[c].form, !.pc = "commit"]
<1>1. tx[c] \in Request /\ tx[c].pc = "insert" /\ ShapeOK(c) /\ NameOK(c)
  BY DEF IInv, TypeInv, InsertUser
<1>2. tx[c].op \in Adding /\ tx[c].key \in Id /\ tx[c].form \in User
  BY <1>1 DEF ShapeOK
<1>3. tx' = [tx EXCEPT ![c] = r] /\ UNCHANGED <<data, faults>>
  BY DEF InsertUser
<1>4. Continues(r, c)
  BY <1>1, <1>2 DEF Request, Continues
<1>5. /\ r.pc = "commit" /\ r.key = tx[c].key /\ r.overtaken = tx[c].overtaken
      /\ r.new = tx[c].form
  BY <1>1 DEF Request
<1> HIDE DEF r
<1>6. ASSUME tx'[c] = r PROVE (ShapeOK(c) /\ FitOK(c) /\ CopyOK(c) /\ NameOK(c))'
  <2>1. users' = users /\ issued' = issued /\ Rows' = Rows
    BY <1>3 DEF data, Rows
  <2>2. ShapeOK(c)'
    BY <1>2, <1>4, <1>5, <1>6, <2>1 DEF ShapeOK, Adding, Changing, Continues
  <2>3. FitOK(c)'
    BY <1>4, <1>6, <2>1, FitFrame
  <2>4. CopyOK(c)'
    BY <1>2, <1>4, <1>5, <1>6 DEF CopyOK, Continues, Adding, Changing
  <2>5. NameOK(c)'
    BY <1>1, <1>2, <1>4, <1>5, <1>6, <2>1 DEF NameOK, Bears, Continues
  <2> QED
    BY <2>2, <2>3, <2>4, <2>5
<1> QED
  BY <1>3, <1>4, <1>6, LocalStep DEF Continues

-----------------------------------------------------------------------------
(* Committing.                                                              *)

\* the other requests, when request c commits its row
LEMMA CommitOthers ==
    ASSUME IInv, TypeInv', NEW c \in Clients, NEW d \in Clients, c # d, Commit(c)
    PROVE  (ShapeOK(d) /\ FitOK(d) /\ CopyOK(d) /\ NameOK(d))'
<1> DEFINE s == Seen(tx[d], tx[c].key)
           r == tx[d]
<1>1. tx'[d] = s
  BY DEF Commit
<1>2. /\ s.pc = r.pc /\ s.op = r.op /\ s.token = r.token /\ s.actor = r.actor
      /\ s.admin = r.admin /\ s.key = r.key /\ s.form = r.form /\ s.copy = r.copy
      /\ s.base = r.base /\ s.new = r.new
      /\ s.fit = r.fit \cup Standing(users', r.actor)
      /\ ~s.stale => ~r.stale /\ (r.copy = Absent \/ r.key # tx[c].key)
      /\ s.overtaken = (r.pc # "idle")
  <2> DEFINE f == r.fit \cup Standing(users', r.actor)
             g == r.stale \/ (r.copy # Absent /\ r.key = tx[c].key)
             o == r.pc # "idle"
  <2>1. r \in Request
    BY DEF IInv, TypeInv
  <2>2. s = [r EXCEPT !.fit = f, !.stale = g, !.overtaken = o]
    BY Zenon DEF Seen
  <2>3. (~g => ~r.stale /\ (r.copy = Absent \/ r.key # tx[c].key)) /\ (o <=> r.pc # "idle")
    BY <2>1 DEF Request
  <2> HIDE DEF r, s, f, g, o
  <2>4. /\ s.pc = r.pc /\ s.op = r.op /\ s.token = r.token /\ s.actor = r.actor
        /\ s.admin = r.admin /\ s.key = r.key /\ s.form = r.form /\ s.copy = r.copy
        /\ s.base = r.base /\ s.new = r.new
        /\ s.fit = f /\ s.stale = g /\ s.overtaken = o
    BY <2>1, <2>2 DEF Request
  <2> QED
    BY <2>3, <2>4 DEF f, g, o
<1> HIDE DEF s
<1>3. ShapeOK(c) /\ ShapeOK(d) /\ FitOK(d) /\ CopyOK(d) /\ NameOK(d)
  BY DEF IInv
<1>4. tx[c].new \in User /\ tx[c].key \in Id
  BY <1>3 DEF ShapeOK, Commit
<1>5. /\ users' = [users EXCEPT ![tx[c].key] = tx[c].new] /\ issued' = issued
      /\ \A i \in Id : i # tx[c].key => users'[i] = users[i]
  BY <1>4 DEF Commit, IInv, TypeInv
<1>6. \A i \in Rows : i \in Rows'
  BY <1>4, <1>5 DEF Rows, IInv, TypeInv
<1>7. ShapeOK(d)'
  BY <1>1, <1>2, <1>3, <1>5, <1>6 DEF ShapeOK
<1>8. FitOK(d)'
  BY <1>1, <1>2, <1>3 DEF FitOK
<1>9. CopyOK(d)'
  <2>1. SUFFICES ASSUME r.op \in Changing, r.pc # "idle",
                        ~ (r.pc = "update" /\ ~s.overtaken)
                 PROVE  CopyOK(d)'
    BY <1>1, <1>2 DEF CopyOK
  <2>2. r.key \in Rows
    BY <1>3, <2>1 DEF ShapeOK
  <2>3. ASSUME r.pc \in {"name", "select", "update", "commit"}, ~s.stale
        PROVE  users'[r.key] = users[r.key] /\ ~r.stale
    <3>1. r.copy \in User
      BY <1>3, <2>1, <2>3 DEF ShapeOK
    <3> QED
      BY <1>2, <1>5, <2>2, <2>3, <3>1 DEF Rows
  <2> QED
    BY <1>1, <1>2, <1>3, <2>1, <2>3 DEF CopyOK
<1>10. NameOK(d)'
  BY <1>1, <1>2, <1>3 DEF NameOK
<1> QED
  BY <1>7, <1>8, <1>9, <1>10

LEMMA CommitTypes ==
    ASSUME IInv, NEW c \in Clients, Commit(c)
    PROVE  TypeInv'
<1>1. tx[c] \in Request /\ ShapeOK(c)
  BY DEF IInv, TypeInv
<1>2. tx[c].new \in User /\ tx[c].key \in Id
  BY <1>1 DEF ShapeOK, Commit
<1>3. users' \in [Id -> User \cup {Absent}] /\ Rows \subseteq Rows'
  BY <1>2 DEF Commit, IInv, TypeInv, Rows
<1>4. handed' \subseteq 1..issued
  BY <1>1 DEF ShapeOK, Commit, IInv, TypeInv
<1>5. sessions' \in [Token -> Rows' \cup {0}]
  BY <1>3 DEF Commit, IInv, TypeInv
<1>6. ASSUME NEW d \in Clients PROVE Seen(tx[d], tx[c].key) \in Request
  <2> DEFINE r == tx[d]
             f == r.fit \cup Standing(users', r.actor)
             g == r.stale \/ (r.copy # Absent /\ r.key = tx[c].key)
             o == r.pc # "idle"
  <2>1. r \in Request
    BY DEF IInv, TypeInv
  <2>2. Seen(tx[d], tx[c].key) = [r EXCEPT !.fit = f, !.stale = g, !.overtaken = o]
    BY Zenon DEF Seen
  <2>3. f \in SUBSET {"unblocked", "admin"}
    BY <2>1 DEF Request, Standing
  <2>4. g \in BOOLEAN /\ o \in BOOLEAN
    BY Zenon
  <2> HIDE DEF r, f, g, o
  <2> QED
    BY ZenonT(60), <2>1, <2>2, <2>3, <2>4 DEF Request
<1>7. tx' \in [Clients -> Request]
  BY <1>6, IdleIsARequest DEF Commit
<1> QED
  BY <1>3, <1>4, <1>5, <1>7 DEF Commit, IInv, TypeInv

LEMMA CommitStep ==
    ASSUME IInv, NEW c \in Clients, Commit(c)
    PROVE  IInv'
<1>1. TypeInv'
  BY CommitTypes
<1>2. ASSUME NEW d \in Clients, d # c
      PROVE  (ShapeOK(d) /\ FitOK(d) /\ CopyOK(d) /\ NameOK(d))'
  BY <1>1, <1>2, CommitOthers
<1>3. tx'[c] = Idle
  BY DEF Commit
<1>4. (ShapeOK(c) /\ FitOK(c) /\ CopyOK(c) /\ NameOK(c))'
  BY <1>3 DEF Idle, ShapeOK, FitOK, CopyOK, NameOK, Adding, Changing
<1> QED
  BY <1>1, <1>2, <1>4 DEF IInv

-----------------------------------------------------------------------------
(* The theorems.                                                            *)

LEMMA NextIInv == IInv /\ [Next]_vars => IInv'
<1> SUFFICES ASSUME IInv, [Next]_vars PROVE IInv'
  OBVIOUS
<1>1. CASE UNCHANGED vars
  BY <1>1 DEF vars, data, IInv, TypeInv, Rows, ShapeOK, FitOK, Standing, CopyOK, NameOK, Bears
<1>2. CASE \E c \in Clients, t \in Token : UseToken(c, t)
  BY <1>2, UseTokenStep
<1>3. CASE \E t \in Token : Logout(t)
  BY <1>3, LogoutStep
<1>4. ASSUME NEW c \in Clients, Begin(c) PROVE IInv'
  <2>1. CASE \E i \in Id, p \in Passwords : Login(c, i, p)
    BY <2>1, LoginStep
  <2>2. CASE \E p, q \in Passwords : ChangeOwnPassword(c, p, q)
    BY <2>2, ChangeOwnPasswordStep
  <2>3. CASE \E form \in NewUsers : CreateFirstAdmin(c, form)
    BY <2>3, CreateFirstAdminStep
  <2> QED
    BY <1>4, <2>1, <2>2, <2>3, AdministrationSteps DEF Begin
<1>5. ASSUME NEW c \in Clients,
             Deny(c) \/ EndRequest(c) \/ AlreadyDone(c) \/ NameTaken(c) \/ Reject(c) \/ Fail(c)
      PROVE  IInv'
  BY <1>5, EndingSteps
<1>6. ASSUME NEW c \in Clients,
             \/ Authorise(c) \/ ReadCopy(c) \/ CheckName(c) \/ SelectBase(c) \/ UpdateRow(c)
             \/ NumberUser(c) \/ InsertUser(c) \/ Commit(c)
      PROVE  IInv'
  BY <1>6, AuthoriseStep, ReadCopyStep, CheckNameStep, SelectBaseStep, UpdateRowStep,
     NumberUserStep, InsertUserStep, CommitStep
<1> QED
  BY <1>1, <1>2, <1>3, <1>4, <1>5, <1>6 DEF Next

(* The invariant that the properties of Accounts rest on.                   *)
THEOREM Invariance == Spec => []IInv
BY InitIInv, NextIInv, PTL DEF Spec

(* Every table, the session store and every written row have their types    *)
(* (models.py, InMemorySessionStore), and sessions belong to existing users. *)
THEOREM TypesHold == Spec => []TypeOK
<1>1. IInv => TypeOK
  BY DEF IInv, TypeInv, TypeOK, Request
<1> QED
  BY <1>1, Invariance, PTL

(* Nobody acts who was blocked, or was no administrator, throughout the     *)
(* request that commits (current_session_context, login,                    *)
(* change_own_password, _ensure_admin).                                     *)
THEOREM ActorsAreEntitled == Spec => ActorWasEntitled
<1>1. IInv => \A c \in Clients : Committing(c) => Needs(tx[c].op) \subseteq tx[c].fit
  BY DEF IInv, FitOK, Committing
<1> QED
  BY <1>1, Invariance, PTL DEF ActorWasEntitled

(* An operation on a user overwrites nothing that was committed before it   *)
(* read its copy of the row (mark_last_login, change_password, edit_user,   *)
(* block_user, unblock_user).                                               *)
THEOREM FreshCopiesKeepColumns == Spec => OnlyStaleCopiesOverwrite
<1> DEFINE P == \A c \in Clients :
                  Committing(c) /\ tx[c].op \notin {"create", "bootstrap"} /\ ~tx[c].stale =>
                    \A k \in Columns :
                      tx[c].form[k] = Absent => users'[tx[c].key][k] = users[tx[c].key][k]
<1>1. IInv => P
  <2> SUFFICES ASSUME IInv, NEW c \in Clients, Committing(c),
                      tx[c].op \notin {"create", "bootstrap"}, ~tx[c].stale,
                      NEW k \in Columns, tx[c].form[k] = Absent
               PROVE  users'[tx[c].key][k] = users[tx[c].key][k]
    OBVIOUS
  <2>1. ShapeOK(c) /\ CopyOK(c) /\ users \in [Id -> User \cup {Absent}]
    BY DEF IInv, TypeInv
  <2>2. tx[c].op \in Changing /\ tx[c].key \in Id
    BY <2>1 DEF ShapeOK, Committing, Adding
  <2>3. tx[c].new[k] = users[tx[c].key][k]
    BY <2>1, <2>2 DEF CopyOK, Committing
  <2> QED
    BY <2>1, <2>2, <2>3 DEF Committing
<1> QED
  BY <1>1, Invariance, PTL DEF OnlyStaleCopiesOverwrite

(* Two users whose names differ in spelling only need a race with another   *)
(* commit after the check of find_user_by_username.                         *)
THEOREM TwinsNeedARace == Spec => TwinNamesNeedARace
<1> DEFINE P == \A c \in Clients :
                  Committing(c) /\ tx[c].form.name # Absent /\ ~tx[c].overtaken =>
                    \A i \in Rows \ {tx[c].key} :
                      Twins(users', i, tx[c].key) => Twins(users, i, tx[c].key)
<1>1. IInv => P
  <2> SUFFICES ASSUME IInv, NEW c \in Clients, Committing(c), tx[c].form.name # Absent,
                      ~tx[c].overtaken, NEW i \in Rows \ {tx[c].key},
                      Twins(users', i, tx[c].key)
               PROVE  Twins(users, i, tx[c].key)
    OBVIOUS
  <2>1. ShapeOK(c) /\ NameOK(c) /\ users \in [Id -> User \cup {Absent}]
    BY DEF IInv, TypeInv
  <2>2. tx[c].key \in Id /\ i \in Id
    BY <2>1 DEF ShapeOK, Committing, Rows
  <2>3. users'[i] = users[i] /\ users'[tx[c].key] = tx[c].new
    BY <2>1, <2>2 DEF Committing
  <2>4. Fold(users[i].name) = Fold(tx[c].form.name)
    BY <2>1, <2>3 DEF Twins, NameOK, Committing
  <2>5. Bears(i, tx[c].form.name)
    BY <2>4 DEF Bears
  <2>6. Bears(tx[c].key, tx[c].form.name)
    BY <2>1, <2>5 DEF NameOK, Committing
  <2> QED
    BY <2>4, <2>5, <2>6 DEF Twins, Bears, Rows
<1> QED
  BY <1>1, Invariance, PTL DEF TwinNamesNeedARace
=============================================================================
