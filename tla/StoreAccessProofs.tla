-------------------------- MODULE StoreAccessProofs --------------------------
(* Theorems about StoreAccess, for every number of clients, users, stores,   *)
(* grants, requests and faults, and every database to start from.            *)
EXTENDS StoreAccess, MinMaxSum, TLAPS

Form == [name : StoreNames \cup {Absent}, settings : Settings \cup {Absent},
         status : {"active", "archived", Absent}, by : Users \cup {"none", Absent},
         creator : Users \cup {Absent}]

Changing == {"edit", "settings", "archive", "restore"}
Granting == {"grant", "revoke"}
Pairs    == [user : Users, object : Id \cup Permissions]

Steps == {"idle", "policy", "name", "select", "update", "number", "insert",
          "find", "gnumber", "ginsert", "delete", "commit"}
Operations   == {"none", "create", "run"} \cup Changing \cup Granting
Entitlements == {"admin", "access", "active", "archived"} \cup Permissions

TxRecord ==
    [pc : Steps, op : Operations,
     user : Users \cup {Absent}, sees : SUBSET Id, may : SUBSET Permissions,
     key : Id \cup {0}, form : Form, copy : Store \cup {Absent}, base : Store \cup {Absent},
     new : Store \cup {Absent}, table : Tables, pair : Pairs \cup {Absent},
     gkey : Key \cup {0}, write : {"none", "insert", "delete"}, fit : SUBSET Entitlements,
     overtaken : BOOLEAN]

TypeInv ==
    /\ stores \in [Id -> Store \cup {Absent}]
    /\ grants \in [Tables -> [Key -> Pairs \cup {Absent}]]
    /\ \A t \in Tables, k \in Key : grants[t][k] \in Grant(t) \cup {Absent}
    /\ tx \in [Clients -> TxRecord] /\ faults \in 0..MaxFaults

\* Where a request stands determines its operation, what it works on and what it has written.
ShapeOK(c) ==
    /\ tx[c].pc = "policy" => tx[c].op \in {"create", "run"} \cup Changing
    /\ tx[c].pc = "name" => tx[c].op \in {"create", "edit"}
    /\ tx[c].pc \in {"select", "update"} => tx[c].op \in Changing
    /\ tx[c].pc \in {"number", "insert"} => tx[c].op = "create"
    /\ tx[c].pc = "find" => tx[c].op \in {"create"} \cup Granting
    /\ tx[c].pc \in {"gnumber", "ginsert"} => tx[c].op \in {"create", "grant"}
    /\ tx[c].pc = "delete" => tx[c].op = "revoke"
    /\ tx[c].pc = "commit" => tx[c].op # "none"
    /\ tx[c].pc # "idle" => tx[c].user \in Users
    /\ tx[c].form.name # Absent => tx[c].op \in {"create", "edit"}
    /\ tx[c].new # Absent => \/ tx[c].op = "create" /\ tx[c].pc \in {"find", "gnumber", "ginsert", "commit"}
                             \/ tx[c].op \in Changing /\ tx[c].pc = "commit"
    /\ tx[c].write # "none" => tx[c].pc = "commit" /\ tx[c].op \in {"create"} \cup Granting
    /\ tx[c].pc \in {"ginsert", "delete"} \/ tx[c].write # "none" => tx[c].gkey \in Key

\* A new store has its creator, who is granted it with the same commit.
CreatingOK(c) ==
    tx[c].pc # "idle" /\ tx[c].op = "create" =>
        /\ tx[c].form \in Store /\ tx[c].form.creator = tx[c].user
        /\ tx[c].table = "access"
        /\ tx[c].pc \in {"policy", "name", "number"} => tx[c].key = 0
        /\ tx[c].pc \notin {"policy", "name", "number"} => tx[c].key \in Id
        /\ tx[c].pc \in {"find", "gnumber", "ginsert", "commit"} =>
             /\ tx[c].new = tx[c].form /\ stores[tx[c].key] = Absent
             /\ \/ tx[c].pair = [user |-> tx[c].user, object |-> tx[c].key]
                \/ tx[c].pc = "commit" /\ tx[c].user \in Admins
        /\ tx[c].pc = "commit" =>
             \/ tx[c].user \in Admins
             \/ tx[c].write = "insert"
             \/ tx[c].key \in Held(grants, "access", tx[c].user)
             \/ <<tx[c].user, tx[c].key>> \in removed

\* An operation on a store works on an existing one and keeps its creator.
ChangingOK(c) ==
    tx[c].pc # "idle" /\ tx[c].op \in Changing \cup {"run"} =>
        /\ tx[c].key \in Rows /\ tx[c].form.creator = Absent
        /\ tx[c].pc \in {"name", "select", "update"} =>
             tx[c].copy \in Store /\ tx[c].copy.creator = stores[tx[c].key].creator
        /\ tx[c].pc = "update" =>
             tx[c].base \in Store /\ tx[c].base.creator = stores[tx[c].key].creator
        /\ tx[c].pc = "commit" /\ tx[c].op \in Changing =>
             tx[c].new \in Store /\ tx[c].new.creator = stores[tx[c].key].creator

\* Grants are changed by administrators; the row to insert is still free.
GrantingOK(c) ==
    /\ tx[c].pc # "idle" /\ tx[c].op \in Granting =>
         tx[c].user \in Admins /\ tx[c].pair \in Grant(tx[c].table)
    /\ tx[c].write = "insert" => /\ grants[tx[c].table][tx[c].gkey] = Absent
                                 /\ tx[c].pair \in Grant(tx[c].table)
                                 /\ tx[c].op # "revoke"

\* The history holds what the context says, and after the policy all that is needed.
FitOK(c) ==
    /\ tx[c].pc = "policy" =>
         /\ Standing(stores, grants, tx[c].user, tx[c].key) \subseteq tx[c].fit
         /\ tx[c].may \subseteq tx[c].fit
         /\ tx[c].key \in tx[c].sees => "access" \in tx[c].fit
    /\ tx[c].pc \notin {"idle", "policy"} => Needs(tx[c].op) \subseteq tx[c].fit

\* Until another request commits, a checked name is free and a pair that was not
\* found is not there.
UniqueOK(c) ==
    ~tx[c].overtaken =>
        /\ tx[c].pc \notin {"idle", "policy", "name"} /\ tx[c].form.name # Absent =>
             ~Taken(tx[c].form.name, tx[c].key)
        /\ tx[c].pc \in {"gnumber", "ginsert"} \/ tx[c].write = "insert" => Found(c) = {}

RequestOK(c) == /\ ShapeOK(c) /\ CreatingOK(c) /\ ChangingOK(c)
                /\ GrantingOK(c) /\ FitOK(c) /\ UniqueOK(c)

\* Written rows are locked.
StoreLocks ==
    \A c, d \in Clients :
        c # d /\ tx[c].new # Absent /\ tx[d].new # Absent => tx[c].key # tx[d].key
GrantLocks ==
    \A c, d \in Clients :
        c # d /\ tx[c].write # "none" /\ tx[d].write # "none" /\ tx[c].table = tx[d].table =>
            tx[c].gkey # tx[d].gkey

IInv == /\ TypeInv /\ StoreLocks /\ GrantLocks /\ CreatorHasAccess
        /\ \A c \in Clients : RequestOK(c)

-----------------------------------------------------------------------------
(* The initial states, and steps that commit nothing.                       *)

USE StoreAccessAssumption

LEMMA NothingIsAForm == Nothing \in Form /\ Store \subseteq Form
BY DEF Nothing, Form, Store

LEMMA IdleIsTyped == Idle \in TxRecord
<1>1. Nothing \in Form
  BY NothingIsAForm
<1>2. "idle" \in Steps /\ "none" \in Operations /\ "access" \in Tables
  BY DEF Steps, Operations, Tables
<1> QED
  BY <1>1, <1>2 DEF Idle, TxRecord

LEMMA IdleIsOK ==
    ASSUME NEW c \in Clients, tx[c] = Idle
    PROVE  RequestOK(c)
<1>1. /\ tx[c].pc = "idle" /\ tx[c].op = "none" /\ tx[c].new = Absent /\ tx[c].write = "none"
      /\ tx[c].form.name = Absent
  BY DEF Idle, Nothing
<1> QED
  BY <1>1 DEF RequestOK, ShapeOK, CreatingOK, ChangingOK, GrantingOK, FitOK, UniqueOK

LEMMA InitIInv == Init => IInv
<1> SUFFICES ASSUME Init PROVE IInv
  OBVIOUS
<1>1. \A c \in Clients : tx[c] = Idle
  BY DEF Init
<1>2. \A c \in Clients : RequestOK(c) /\ tx[c].new = Absent /\ tx[c].write = "none"
  <2>1. Idle.new = Absent /\ Idle.write = "none"
    BY DEF Idle
  <2> QED
    BY <1>1, <2>1, IdleIsOK
<1>3. TypeInv
  <2>1. grants \in [Tables -> [Key -> Pairs \cup {Absent}]]
    <3>1. \A t \in Tables, k \in Key : grants[t][k] \in Pairs \cup {Absent}
      BY DEF Init, Grant, Objects, Pairs, Tables
    <3>2. grants = [t \in Tables |-> [k \in Key |-> grants[t][k]]]
      BY DEF Init
    <3> QED
      BY <3>1, <3>2
  <2> QED
    BY <2>1, IdleIsTyped DEF Init, TypeInv
<1>4. CreatorHasAccess
  <2> SUFFICES ASSUME NEW i \in Rows, stores[i].creator \notin Admins
               PROVE  i \in Held(grants, "access", stores[i].creator)
    BY DEF CreatorHasAccess
  <2>1. i \in Id /\ stores[i] # Absent /\ stores[i] \in Store
    BY <1>3 DEF Rows, TypeInv
  <2>2. PICK k \in Key : grants["access"][k] = [user |-> stores[i].creator, object |-> i]
    BY <2>1, CreatorsStartWithAccess DEF Init
  <2>3. grants["access"][k] \in Grant("access")
    BY <2>1, <2>2 DEF Grant, Objects, Store
  <2>4. /\ k \in {j \in Key : grants["access"][j] # Absent
                              /\ grants["access"][j].user = stores[i].creator}
        /\ grants["access"][k].object = i
    BY <2>2, <2>3
  <2> QED
    BY <2>4 DEF Held
<1> QED
  BY <1>2, <1>3, <1>4 DEF IInv, StoreLocks, GrantLocks

\* a request that a step leaves alone, when it commits nothing
LEMMA OtherRequest ==
    ASSUME NEW d \in Clients, RequestOK(d), tx'[d] = tx[d], UNCHANGED <<stores, grants, removed>>
    PROVE  RequestOK(d)'
<1>1. Rows' = Rows
  BY DEF Rows
<1>2. ShapeOK(d)'
  BY DEF RequestOK, ShapeOK
<1>3. CreatingOK(d)'
  BY DEF RequestOK, CreatingOK, Held
<1>4. ChangingOK(d)'
  BY <1>1 DEF RequestOK, ChangingOK
<1>5. GrantingOK(d)'
  BY DEF RequestOK, GrantingOK
<1>6. FitOK(d)'
  BY DEF RequestOK, FitOK, Standing, Held
<1>7. UniqueOK(d)'
  BY <1>1 DEF RequestOK, UniqueOK, Taken, Found, Granted
<1> QED
  BY <1>2, <1>3, <1>4, <1>5, <1>6, <1>7 DEF RequestOK

\* one request moves and nothing is committed
LEMMA LocalStep ==
    ASSUME IInv, NEW c \in Clients, NEW r \in TxRecord, tx' = [tx EXCEPT ![c] = r],
           UNCHANGED <<stores, grants, removed>>, faults' \in 0..MaxFaults,
           \/ r.new = Absent
           \/ r.new # Absent /\ tx[c].new # Absent /\ r.key = tx[c].key
           \/ \A d \in Clients \ {c} : tx[d].new # Absent => tx[d].key # r.key,
           \/ r.write = "none"
           \/ \A d \in Clients \ {c} :
                tx[d].write # "none" /\ tx[d].table = r.table => tx[d].gkey # r.gkey,
           tx'[c] = r => RequestOK(c)'
    PROVE  IInv'
<1>1. tx' \in [Clients -> TxRecord] /\ tx'[c] = r /\ \A d \in Clients \ {c} : tx'[d] = tx[d]
  BY DEF IInv, TypeInv
<1>2. TypeInv'
  BY <1>1 DEF IInv, TypeInv
<1>3. \A d \in Clients \ {c} : RequestOK(d)'
  BY <1>1, OtherRequest DEF IInv
<1>4. CreatorHasAccess'
  BY DEF IInv, CreatorHasAccess, Rows, Held
<1>5. StoreLocks'
  BY <1>1 DEF IInv, StoreLocks
<1>6. GrantLocks'
  BY <1>1 DEF IInv, GrantLocks
<1> QED
  BY <1>1, <1>2, <1>3, <1>4, <1>5, <1>6 DEF IInv

\* a request that ends without committing
LEMMA StopStep ==
    ASSUME IInv, NEW c \in Clients, Stop(c), UNCHANGED <<stores, grants, removed>>,
           faults' \in 0..MaxFaults
    PROVE  IInv'
<1>1. Idle.new = Absent /\ Idle.write = "none"
  BY DEF Idle
<1>2. ASSUME tx'[c] = Idle PROVE RequestOK(c)'
  <2>1. /\ tx'[c].pc = "idle" /\ tx'[c].op = "none" /\ tx'[c].new = Absent
        /\ tx'[c].write = "none" /\ tx'[c].form.name = Absent
    BY <1>2 DEF Idle, Nothing
  <2> QED
    BY <2>1 DEF RequestOK, ShapeOK, CreatingOK, ChangingOK, GrantingOK, FitOK, UniqueOK
<1> QED
  BY <1>1, <1>2, IdleIsTyped, LocalStep DEF Stop

LEMMA EndingSteps ==
    ASSUME IInv, NEW c \in Clients,
           Denied(c) \/ NameTaken(c) \/ Reject(c) \/ Fail(c)
    PROVE  IInv'
<1>1. Stop(c) /\ UNCHANGED <<stores, grants, removed>> /\ faults' \in 0..MaxFaults
  BY DEF Denied, NameTaken, Reject, Fail, Data, IInv, TypeInv
<1> QED
  BY <1>1, StopStep

-----------------------------------------------------------------------------
(* Requests and the policy.                                                 *)

\* what the tables of grants hold is of the right kind
LEMMA HeldObjects ==
    ASSUME IInv, NEW u
    PROVE  /\ Held(grants, "access", u) \subseteq Id
           /\ Held(grants, "permission", u) \subseteq Permissions
<1>1. /\ \A k \in Key : grants["access"][k] # Absent => grants["access"][k].object \in Id
      /\ \A k \in Key : grants["permission"][k] # Absent =>
                          grants["permission"][k].object \in Permissions
  BY DEF IInv, TypeInv, Tables, Grant, Objects
<1> QED
  BY <1>1 DEF Held

\* the context that a request computes says no more than its user's standing
LEMMA ContextIsStanding ==
    ASSUME IInv, NEW u \in Users, NEW i
    PROVE  /\ Sees(u) \subseteq Id /\ May(u) \subseteq Permissions
           /\ Standing(stores, grants, u, i) \subseteq Entitlements
           /\ May(u) \subseteq Standing(stores, grants, u, i)
           /\ i \in Sees(u) => "access" \in Standing(stores, grants, u, i)
           /\ u \in Admins => "admin" \in Standing(stores, grants, u, i)
           /\ i \in Rows => stores[i].status \in Standing(stores, grants, u, i)
<1>1. /\ Held(grants, "access", u) \subseteq Id
      /\ Held(grants, "permission", u) \subseteq Permissions
  BY HeldObjects
<1>2. Sees(u) \subseteq Id /\ May(u) \subseteq Permissions
  BY <1>1 DEF Sees, May, Rows
<1>3. i \in Id /\ stores[i] # Absent => stores[i].status \in {"active", "archived"}
  BY DEF IInv, TypeInv, Store
<1>4. Standing(stores, grants, u, i) \subseteq Entitlements
  BY <1>1, <1>3 DEF Standing, Entitlements
<1>5. /\ May(u) \subseteq Standing(stores, grants, u, i)
      /\ i \in Sees(u) => "access" \in Standing(stores, grants, u, i)
      /\ u \in Admins => "admin" \in Standing(stores, grants, u, i)
      /\ i \in Rows => stores[i].status \in Standing(stores, grants, u, i)
  BY DEF Standing, May, Sees, Rows
<1> QED
  BY <1>2, <1>4, <1>5

\* the stores and forms of the operations on stores
RequestForm(op, u, i, form) ==
    /\ op \in {"create", "run"} \cup Changing /\ u \in Users /\ form \in Form
    /\ op = "create" => i = 0 /\ form \in Store /\ form.creator = u
    /\ op # "create" => i \in Rows /\ form.creator = Absent
    /\ form.name # Absent => op \in {"create", "edit"}

LEMMA RequestStep ==
    ASSUME IInv, NEW c \in Clients, NEW op, NEW u, NEW i, NEW form,
           RequestForm(op, u, i, form), Request(c, u, op, i, form)
    PROVE  IInv'
<1> DEFINE sees == Sees(u)
           may  == May(u)
           fit  == Standing(stores, grants, u, i)
           r == [Idle EXCEPT !.pc = "policy", !.op = op, !.user = u, !.sees = sees,
                             !.may = may, !.key = i, !.form = form, !.fit = fit]
<1>1. u \in Users /\ form \in Form /\ i \in Id \cup {0}
      /\ op \in Operations /\ "policy" \in Steps
  BY DEF RequestForm, Rows, Operations, Steps
<1>2. tx' = [tx EXCEPT ![c] = r] /\ UNCHANGED <<stores, grants, removed, faults>>
  BY DEF Request, Count
<1>3. /\ sees \subseteq Id /\ may \subseteq Permissions /\ may \subseteq fit
      /\ fit \subseteq Entitlements
      /\ i \in sees => "access" \in fit
  BY <1>1, ContextIsStanding
<1> HIDE DEF sees, may, fit
<1>4. r \in TxRecord
  BY <1>1, <1>3, IdleIsTyped DEF TxRecord
<1>5. /\ r.pc = "policy" /\ r.op = op /\ r.user = u /\ r.sees = sees /\ r.may = may
      /\ r.key = i /\ r.form = form /\ r.new = Absent /\ r.table = "access"
      /\ r.write = "none" /\ r.fit = fit
  BY DEF Idle
<1> HIDE DEF r
<1>6. ASSUME tx'[c] = r PROVE RequestOK(c)'
  <2>1. stores' = stores /\ grants' = grants /\ Rows' = Rows
    BY <1>2 DEF Rows
  <2>2. ShapeOK(c)'
    BY <1>5, <1>6 DEF ShapeOK, RequestForm
  <2>3. CreatingOK(c)'
    BY <1>5, <1>6 DEF CreatingOK, RequestForm
  <2>4. ChangingOK(c)'
    BY <1>5, <1>6, <2>1 DEF ChangingOK, RequestForm, Changing
  <2>5. GrantingOK(c)'
    BY <1>5, <1>6 DEF GrantingOK, RequestForm, Changing, Granting
  <2>6. FitOK(c)'
    BY <1>3, <1>5, <1>6, <2>1 DEF FitOK, fit
  <2>7. UniqueOK(c)'
    BY <1>5, <1>6 DEF UniqueOK
  <2> QED
    BY <2>2, <2>3, <2>4, <2>5, <2>6, <2>7 DEF RequestOK
<1>7. faults' \in 0..MaxFaults
  BY <1>2 DEF IInv, TypeInv
<1> QED
  BY <1>2, <1>4, <1>5, <1>6, <1>7, LocalStep

LEMMA RequestSteps ==
    ASSUME IInv, NEW c \in Clients, NEW u \in Users,
           \/ \E n \in StoreNames, s \in Settings : CreateStore(c, u, n, s)
           \/ \E i \in Rows : \/ \E n \in StoreNames : EditStore(c, u, i, n)
                              \/ \E s \in Settings : UpdateSettings(c, u, i, s)
                              \/ ArchiveStore(c, u, i) \/ RestoreStore(c, u, i)
                              \/ StartRun(c, u, i)
    PROVE  IInv'
<1>1. ASSUME NEW n \in StoreNames, NEW s \in Settings, CreateStore(c, u, n, s) PROVE IInv'
  <2> DEFINE form == [name |-> n, settings |-> s, status |-> "active", by |-> "none",
                      creator |-> u]
  <2>1. form \in Store /\ form \in Form /\ form.creator = u
    BY DEF Store, Form
  <2> HIDE DEF form
  <2>2. RequestForm("create", u, 0, form)
    BY <2>1 DEF RequestForm
  <2> QED
    BY <1>1, <2>2, RequestStep DEF CreateStore, form
<1>2. ASSUME NEW i \in Rows, NEW n \in StoreNames, EditStore(c, u, i, n) PROVE IInv'
  <2>1. RequestForm("edit", u, i, [Nothing EXCEPT !.name = n])
    BY DEF RequestForm, Nothing, Form, Changing
  <2> QED
    BY <1>2, <2>1, RequestStep DEF EditStore
<1>3. ASSUME NEW i \in Rows, NEW s \in Settings, UpdateSettings(c, u, i, s) PROVE IInv'
  <2>1. RequestForm("settings", u, i, [Nothing EXCEPT !.settings = s])
    BY DEF RequestForm, Nothing, Form, Changing
  <2> QED
    BY <1>3, <2>1, RequestStep DEF UpdateSettings
<1>4. ASSUME NEW i \in Rows, ArchiveStore(c, u, i) PROVE IInv'
  <2>1. RequestForm("archive", u, i, [Nothing EXCEPT !.status = "archived", !.by = u])
    BY DEF RequestForm, Nothing, Form, Changing
  <2> QED
    BY <1>4, <2>1, RequestStep DEF ArchiveStore
<1>5. ASSUME NEW i \in Rows, RestoreStore(c, u, i) PROVE IInv'
  <2>1. RequestForm("restore", u, i, [Nothing EXCEPT !.status = "active", !.by = "none"])
    BY DEF RequestForm, Nothing, Form, Changing
  <2> QED
    BY <1>5, <2>1, RequestStep DEF RestoreStore
<1>6. ASSUME NEW i \in Rows, StartRun(c, u, i) PROVE IInv'
  <2>1. RequestForm("run", u, i, Nothing)
    BY NothingIsAForm DEF RequestForm, Nothing
  <2> QED
    BY <1>6, <2>1, RequestStep DEF StartRun
<1> QED
  BY <1>1, <1>2, <1>3, <1>4, <1>5, <1>6

LEMMA ChangeGrantStep ==
    ASSUME IInv, NEW c \in Clients, NEW u \in Users, NEW op \in Granting, NEW table \in Tables,
           NEW pair \in Grant(table), ChangeGrant(c, u, op, table, pair)
    PROVE  IInv'
<1> DEFINE fit == Standing(stores, grants, u, 0)
           r == [Idle EXCEPT !.pc = "find", !.op = op, !.user = u, !.table = table,
                             !.pair = pair, !.fit = fit]
<1>1. fit \subseteq Entitlements /\ "admin" \in fit /\ u \in Admins
  BY ContextIsStanding DEF ChangeGrant
<1>2. pair \in Pairs /\ op \in Operations /\ "find" \in Steps
  BY DEF Grant, Objects, Pairs, Operations, Steps
<1>3. tx' = [tx EXCEPT ![c] = r] /\ UNCHANGED <<stores, grants, removed, faults>>
  BY DEF ChangeGrant, Count
<1> HIDE DEF fit
<1>4. r \in TxRecord
  BY <1>1, <1>2, IdleIsTyped DEF TxRecord
<1>5. /\ r.pc = "find" /\ r.op = op /\ r.user = u /\ r.form.name = Absent /\ r.new = Absent
      /\ r.table = table /\ r.pair = pair /\ r.write = "none" /\ r.fit = fit
  BY DEF Idle, Nothing
<1> HIDE DEF r
<1>6. ASSUME tx'[c] = r PROVE RequestOK(c)'
  <2>1. ShapeOK(c)'
    BY <1>5, <1>6 DEF ShapeOK
  <2>2. CreatingOK(c)' /\ ChangingOK(c)'
    BY <1>5, <1>6 DEF CreatingOK, ChangingOK, Changing, Granting
  <2>3. GrantingOK(c)'
    BY <1>1, <1>5, <1>6 DEF GrantingOK
  <2>4. FitOK(c)'
    BY <1>1, <1>5, <1>6 DEF FitOK, Needs, Granting
  <2>5. UniqueOK(c)'
    BY <1>5, <1>6 DEF UniqueOK
  <2> QED
    BY <2>1, <2>2, <2>3, <2>4, <2>5 DEF RequestOK
<1>7. faults' \in 0..MaxFaults
  BY <1>3 DEF IInv, TypeInv
<1> QED
  BY <1>3, <1>4, <1>5, <1>6, <1>7, LocalStep

LEMMA ChangeGrantSteps ==
    ASSUME IInv, NEW c \in Clients, NEW u \in Users, NEW v \in Users \ Admins,
           \/ \E i \in Rows : LET pair == [user |-> v, object |-> i]
                              IN GrantAccess(c, u, pair) \/ RevokeAccess(c, u, pair)
           \/ \E p \in Permissions : LET pair == [user |-> v, object |-> p]
                                     IN AssignPermission(c, u, pair) \/ RemovePermission(c, u, pair)
    PROVE  IInv'
<1>1. "access" \in Tables /\ "permission" \in Tables /\ "grant" \in Granting /\ "revoke" \in Granting
  BY DEF Tables, Granting
<1>2. ASSUME NEW i \in Rows, NEW pair, pair = [user |-> v, object |-> i],
             GrantAccess(c, u, pair) \/ RevokeAccess(c, u, pair)
      PROVE  IInv'
  <2>1. pair \in Grant("access")
    BY <1>2 DEF Grant, Objects, Rows
  <2> QED
    BY <1>1, <1>2, <2>1, ChangeGrantStep DEF GrantAccess, RevokeAccess
<1>3. ASSUME NEW p \in Permissions, NEW pair, pair = [user |-> v, object |-> p],
             AssignPermission(c, u, pair) \/ RemovePermission(c, u, pair)
      PROVE  IInv'
  <2>1. pair \in Grant("permission")
    BY <1>3 DEF Grant, Objects
  <2> QED
    BY <1>1, <1>3, <2>1, ChangeGrantStep DEF AssignPermission, RemovePermission
<1> QED
  BY <1>2, <1>3

\* what is at hand about the request that moves
LEMMA RequestFacts ==
    ASSUME IInv, NEW c \in Clients
    PROVE  /\ tx[c] \in TxRecord /\ ShapeOK(c) /\ CreatingOK(c) /\ ChangingOK(c)
           /\ GrantingOK(c) /\ FitOK(c) /\ UniqueOK(c)
BY DEF IInv, TypeInv, RequestOK

LEMMA StoreOfRow ==
    ASSUME IInv, NEW i \in Rows
    PROVE  i \in Id /\ i # 0 /\ stores[i] \in Store /\ stores[i] # Absent
BY DEF IInv, TypeInv, Rows, Id

\* the policy lets a request through only with what its operation needs
LEMMA PolicyAsksForNeeds ==
    ASSUME IInv, NEW c \in Clients, tx[c].pc = "policy", Allowed(tx[c])
    PROVE  Needs(tx[c].op) \subseteq tx[c].fit
<1> DEFINE r == tx[c]
<1>1. /\ r.op \in {"create", "run"} \cup Changing /\ r.may \subseteq r.fit /\ r.user \in Users
      /\ r.key \in r.sees => "access" \in r.fit
      /\ Standing(stores, grants, r.user, r.key) \subseteq r.fit
      /\ r.op # "create" => r.key \in Rows
  BY RequestFacts DEF ShapeOK, FitOK, ChangingOK
<1>2. r.user \in Admins => "admin" \in r.fit
  BY <1>1, ContextIsStanding
<1>3. r.op # "create" => stores[r.key].status \in r.fit
  BY <1>1, ContextIsStanding
<1>4. CASE r.op = "create"
  BY <1>1, <1>4 DEF Allowed, Needs
<1>5. CASE r.op = "run"
  BY <1>1, <1>3, <1>5 DEF Allowed, Needs, CanUseStoreInRun
<1>6. CASE r.op = "archive"
  BY <1>2, <1>3, <1>6 DEF Allowed, Needs, CanArchiveStore
<1>7. CASE r.op = "restore"
  BY <1>2, <1>3, <1>7 DEF Allowed, Needs, CanRestoreStore
<1>8. CASE r.op \in {"edit", "settings"}
  <2>1. CanEditStore(r, stores[r.key])
    BY <1>8 DEF Allowed
  <2>2. Needs(r.op) = {"edit", "access", "active"}
    BY <1>8 DEF Needs
  <2> QED
    BY <1>1, <1>3, <1>8, <2>1, <2>2 DEF CanEditStore
<1> QED
  BY <1>1, <1>4, <1>5, <1>6, <1>7, <1>8 DEF Changing

LEMMA AskPolicyStep ==
    ASSUME IInv, NEW c \in Clients, AskPolicy(c)
    PROVE  IInv'
<1> DEFINE pc   == NextStep(tx[c].op)
           copy == IF tx[c].key = 0 THEN Absent ELSE stores[tx[c].key]
           r    == [tx[c] EXCEPT !.pc = pc, !.sees = {}, !.may = {}, !.copy = copy]
<1>1. /\ tx[c] \in TxRecord /\ tx[c].pc = "policy" /\ ShapeOK(c) /\ CreatingOK(c)
      /\ ChangingOK(c) /\ Needs(tx[c].op) \subseteq tx[c].fit
  BY RequestFacts, PolicyAsksForNeeds DEF AskPolicy
<1>2. tx[c].op \in {"create", "run"} \cup Changing /\ tx[c].new = Absent /\ tx[c].write = "none"
  BY <1>1 DEF ShapeOK
<1>3. /\ pc \in {"name", "select", "commit"}
      /\ pc = "name" => tx[c].op \in {"create", "edit"}
      /\ pc = "select" => tx[c].op \in {"settings", "archive", "restore"}
      /\ pc = "commit" => tx[c].op = "run"
  BY <1>2 DEF NextStep, Changing
<1>4. tx[c].op # "create" => tx[c].key \in Rows /\ copy \in Store /\ copy = stores[tx[c].key]
  BY <1>1, <1>2, StoreOfRow DEF ChangingOK
<1>5. copy \in Store \cup {Absent}
  BY <1>1, <1>4 DEF CreatingOK
<1>6. tx' = [tx EXCEPT ![c] = r] /\ UNCHANGED <<stores, grants, removed, faults>>
  BY DEF AskPolicy, Data
<1> HIDE DEF pc, copy
<1>7. r \in TxRecord
  BY ZenonT(60), <1>1, <1>3, <1>5 DEF TxRecord, Steps
<1>8. /\ r.pc = pc /\ r.op = tx[c].op /\ r.user = tx[c].user /\ r.key = tx[c].key
      /\ r.form = tx[c].form /\ r.copy = copy /\ r.new = Absent /\ r.table = tx[c].table
      /\ r.write = "none" /\ r.fit = tx[c].fit
  BY <1>1, <1>2 DEF TxRecord
<1> HIDE DEF r
<1>9. ASSUME tx'[c] = r PROVE RequestOK(c)'
  <2>1. stores' = stores /\ grants' = grants /\ Rows' = Rows
    BY <1>6 DEF Rows
  <2>2. ShapeOK(c)'
    BY <1>1, <1>2, <1>3, <1>8, <1>9 DEF ShapeOK, Changing
  <2>3. CreatingOK(c)'
    BY <1>1, <1>3, <1>8, <1>9, <2>1 DEF CreatingOK
  <2>4. ChangingOK(c)'
    BY <1>1, <1>3, <1>4, <1>8, <1>9, <2>1 DEF ChangingOK, Changing
  <2>5. GrantingOK(c)'
    BY <1>2, <1>8, <1>9 DEF GrantingOK, Changing, Granting
  <2>6. FitOK(c)'
    BY <1>1, <1>3, <1>8, <1>9 DEF FitOK
  <2>7. UniqueOK(c)'
    BY <1>1, <1>3, <1>8, <1>9 DEF UniqueOK, ShapeOK
  <2> QED
    BY <2>2, <2>3, <2>4, <2>5, <2>6, <2>7 DEF RequestOK
<1>10. faults' \in 0..MaxFaults
  BY <1>6 DEF IInv, TypeInv
<1> QED
  BY <1>6, <1>7, <1>8, <1>9, <1>10, LocalStep

-----------------------------------------------------------------------------
(* Changing a store.                                                        *)

\* what a step keeps of a request, once its operation has begun
Continues(r, c) ==
    /\ r \in TxRecord /\ r.op = tx[c].op /\ r.user = tx[c].user /\ r.form = tx[c].form
    /\ r.fit = tx[c].fit /\ r.pc \notin {"idle", "policy"}
    /\ r.table = tx[c].table
    /\ tx[c].pc \notin {"idle", "policy"}

LEMMA FitFrame ==
    ASSUME IInv, NEW c \in Clients, NEW r, Continues(r, c), tx'[c] = r
    PROVE  FitOK(c)'
BY RequestFacts DEF FitOK, Continues

LEMMA CheckNameStep ==
    ASSUME IInv, NEW c \in Clients, CheckName(c)
    PROVE  IInv'
<1> DEFINE pc == IF tx[c].op = "create" THEN "number" ELSE "select"
           r  == [tx[c] EXCEPT !.overtaken = FALSE, !.pc = pc]
<1>1. /\ tx[c] \in TxRecord /\ tx[c].pc = "name" /\ ShapeOK(c) /\ CreatingOK(c)
      /\ ChangingOK(c) /\ GrantingOK(c)
  BY RequestFacts DEF CheckName
<1>2. tx[c].op \in {"create", "edit"} /\ tx[c].new = Absent /\ tx[c].write = "none"
  BY <1>1 DEF ShapeOK
<1>3. /\ pc \in {"number", "select"}
      /\ pc = "number" => tx[c].op = "create"
      /\ pc = "select" => tx[c].op = "edit"
  BY <1>2
<1>4. /\ tx' = [tx EXCEPT ![c] = r] /\ UNCHANGED <<stores, grants, removed, faults>>
      /\ ~Taken(tx[c].form.name, tx[c].key)
  BY DEF CheckName, Data
<1> HIDE DEF pc
<1>5. r \in TxRecord
  <2>1. pc \in Steps
    BY <1>3 DEF Steps
  <2> QED
    BY <1>1, <2>1 DEF TxRecord
<1>6. /\ r.pc = pc /\ r.op = tx[c].op /\ r.user = tx[c].user /\ r.key = tx[c].key
      /\ r.form = tx[c].form /\ r.copy = tx[c].copy /\ r.new = Absent
      /\ r.table = tx[c].table /\ r.write = "none" /\ r.fit = tx[c].fit
  BY <1>1, <1>2 DEF TxRecord
<1> HIDE DEF r
<1>7. Continues(r, c)
  BY <1>1, <1>3, <1>5, <1>6 DEF Continues
<1>8. ASSUME tx'[c] = r PROVE RequestOK(c)'
  <2>1. stores' = stores /\ grants' = grants /\ Rows' = Rows
    BY <1>4 DEF Rows
  <2>2. ShapeOK(c)'
    BY <1>1, <1>2, <1>3, <1>6, <1>8 DEF ShapeOK, Changing
  <2>3. CreatingOK(c)'
    BY <1>1, <1>3, <1>6, <1>8, <2>1 DEF CreatingOK
  <2>4. ChangingOK(c)'
    BY <1>1, <1>3, <1>6, <1>8, <2>1 DEF ChangingOK, Changing
  <2>5. GrantingOK(c)'
    BY <1>2, <1>6, <1>8 DEF GrantingOK, Granting
  <2>6. FitOK(c)'
    BY <1>7, <1>8, FitFrame
  <2>7. UniqueOK(c)'
    BY <1>3, <1>4, <1>6, <1>8, <2>1 DEF UniqueOK, Taken
  <2> QED
    BY <2>2, <2>3, <2>4, <2>5, <2>6, <2>7 DEF RequestOK
<1>9. faults' \in 0..MaxFaults
  BY <1>4 DEF IInv, TypeInv
<1> QED
  BY <1>4, <1>5, <1>6, <1>8, <1>9, LocalStep

LEMMA SelectBaseStep ==
    ASSUME IInv, NEW c \in Clients, SelectBase(c)
    PROVE  IInv'
<1> DEFINE r == [tx[c] EXCEPT !.base = stores[tx[c].key], !.pc = "update"]
<1>1. /\ tx[c] \in TxRecord /\ tx[c].pc = "select" /\ ShapeOK(c) /\ ChangingOK(c)
      /\ UniqueOK(c)
  BY RequestFacts DEF SelectBase
<1>2. tx[c].op \in Changing /\ tx[c].new = Absent /\ tx[c].write = "none"
  BY <1>1 DEF ShapeOK
<1>3. tx[c].key \in Rows /\ stores[tx[c].key] \in Store
  BY <1>1, <1>2, StoreOfRow DEF ChangingOK
<1>4. tx' = [tx EXCEPT ![c] = r] /\ UNCHANGED <<stores, grants, removed, faults>>
  BY DEF SelectBase, Data
<1>5. r \in TxRecord
  BY <1>1, <1>3 DEF TxRecord, Steps
<1>6. /\ r.pc = "update" /\ r.op = tx[c].op /\ r.user = tx[c].user /\ r.key = tx[c].key
      /\ r.form = tx[c].form /\ r.copy = tx[c].copy /\ r.base = stores[tx[c].key]
      /\ r.new = Absent /\ r.table = tx[c].table /\ r.write = "none" /\ r.fit = tx[c].fit
      /\ r.overtaken = tx[c].overtaken
  BY <1>1, <1>2 DEF TxRecord
<1> HIDE DEF r
<1>7. Continues(r, c)
  BY <1>1, <1>5, <1>6 DEF Continues
<1>8. ASSUME tx'[c] = r PROVE RequestOK(c)'
  <2>1. stores' = stores /\ grants' = grants /\ Rows' = Rows
    BY <1>4 DEF Rows
  <2>2. ShapeOK(c)'
    BY <1>1, <1>2, <1>6, <1>8 DEF ShapeOK
  <2>3. CreatingOK(c)' /\ GrantingOK(c)'
    BY <1>2, <1>6, <1>8 DEF CreatingOK, GrantingOK, Changing, Granting
  <2>4. ChangingOK(c)'
    BY <1>1, <1>2, <1>3, <1>6, <1>8, <2>1 DEF ChangingOK
  <2>5. FitOK(c)'
    BY <1>7, <1>8, FitFrame
  <2>6. UniqueOK(c)'
    BY <1>1, <1>6, <1>8, <2>1 DEF UniqueOK, Taken
  <2> QED
    BY <2>2, <2>3, <2>4, <2>5, <2>6 DEF RequestOK
<1>9. faults' \in 0..MaxFaults
  BY <1>4 DEF IInv, TypeInv
<1> QED
  BY <1>4, <1>5, <1>6, <1>8, <1>9, LocalStep

\* update() writes a row of the same creator
LEMMA MergedKeepsCreator ==
    ASSUME IInv, NEW c \in Clients, tx[c].pc = "update"
    PROVE  Merged(c) \in Store /\ Merged(c).creator = stores[tx[c].key].creator
<1>1. tx[c] \in TxRecord /\ tx[c].op \in Changing
  BY RequestFacts DEF ShapeOK
<1>2. /\ tx[c].key \in Rows /\ tx[c].form.creator = Absent /\ tx[c].form \in Form
      /\ tx[c].copy \in Store /\ tx[c].copy.creator = stores[tx[c].key].creator
  BY <1>1, RequestFacts DEF ChangingOK, TxRecord
<1>3. stores[tx[c].key] \in Store
  BY <1>2, StoreOfRow
<1>4. Changed(c) \in Store
  BY <1>2 DEF Changed, Columns, Store, Form
<1>5. Merged(c) \in Store
  BY <1>3, <1>4 DEF Merged, Columns, Store
<1>6. Changed(c)["creator"] = stores[tx[c].key]["creator"]
  BY <1>2 DEF Changed, Columns
<1>7. Merged(c)["creator"] = stores[tx[c].key]["creator"]
  BY <1>6 DEF Merged, Columns
<1> QED
  BY <1>5, <1>7

LEMMA UpdateRowStep ==
    ASSUME IInv, NEW c \in Clients, UpdateRow(c)
    PROVE  IInv'
<1> DEFINE new == Merged(c)
           r   == [tx[c] EXCEPT !.new = new, !.base = Absent, !.pc = "commit"]
<1>1. /\ tx[c] \in TxRecord /\ tx[c].pc = "update" /\ ShapeOK(c) /\ ChangingOK(c)
      /\ UniqueOK(c)
  BY RequestFacts DEF UpdateRow
<1>2. tx[c].op \in Changing /\ tx[c].write = "none" /\ tx[c].key \in Rows
  BY <1>1 DEF ShapeOK, ChangingOK
<1>3. new \in Store /\ new.creator = stores[tx[c].key].creator
  BY <1>1, MergedKeepsCreator
<1>4. /\ tx' = [tx EXCEPT ![c] = r] /\ UNCHANGED <<stores, grants, removed, faults>>
      /\ \A d \in Clients \ {c} : tx[d].new # Absent => tx[d].key # tx[c].key
  BY DEF UpdateRow, Data, Locked
<1> HIDE DEF new
<1>5. r \in TxRecord
  BY <1>1, <1>3 DEF TxRecord, Steps
<1>6. /\ r.pc = "commit" /\ r.op = tx[c].op /\ r.user = tx[c].user /\ r.key = tx[c].key
      /\ r.form = tx[c].form /\ r.new = new /\ r.table = tx[c].table /\ r.write = "none"
      /\ r.fit = tx[c].fit /\ r.overtaken = tx[c].overtaken
  BY <1>1, <1>2 DEF TxRecord
<1> HIDE DEF r
<1>7. Continues(r, c)
  BY <1>1, <1>5, <1>6 DEF Continues
<1>8. ASSUME tx'[c] = r PROVE RequestOK(c)'
  <2>1. stores' = stores /\ grants' = grants /\ Rows' = Rows
    BY <1>4 DEF Rows
  <2>2. ShapeOK(c)'
    BY <1>1, <1>2, <1>6, <1>8 DEF ShapeOK, Changing
  <2>3. CreatingOK(c)' /\ GrantingOK(c)'
    BY <1>2, <1>6, <1>8 DEF CreatingOK, GrantingOK, Changing, Granting
  <2>4. ChangingOK(c)'
    BY <1>1, <1>2, <1>3, <1>6, <1>8, <2>1 DEF ChangingOK
  <2>5. FitOK(c)'
    BY <1>7, <1>8, FitFrame
  <2>6. UniqueOK(c)'
    BY <1>1, <1>6, <1>8, <2>1 DEF UniqueOK, Taken
  <2> QED
    BY <2>2, <2>3, <2>4, <2>5, <2>6 DEF RequestOK
<1>9. faults' \in 0..MaxFaults
  BY <1>4 DEF IInv, TypeInv
<1> QED
  BY ZenonT(60), <1>4, <1>5, <1>6, <1>8, <1>9, LocalStep

LEMMA NumberStoreStep ==
    ASSUME IInv, NEW c \in Clients, NumberStore(c)
    PROVE  IInv'
<1> DEFINE m == Max(Rows \cup {0})
           k == m + 1
           r == [tx[c] EXCEPT !.key = k, !.pc = "insert"]
<1>1. /\ tx[c] \in TxRecord /\ tx[c].pc = "number" /\ ShapeOK(c) /\ CreatingOK(c)
      /\ UniqueOK(c)
  BY RequestFacts DEF NumberStore
<1>2. tx[c].op = "create" /\ tx[c].new = Absent /\ tx[c].write = "none" /\ tx[c].key = 0
  BY <1>1 DEF ShapeOK, CreatingOK
<1>3. k \in Id
  <2>1. Rows \in SUBSET (1..MaxStores)
    BY DEF Rows, Id
  <2>2. m \in 0..MaxStores /\ m < MaxStores
    BY <2>1, HighestKey DEF NumberStore
  <2> HIDE DEF m
  <2> QED
    BY <2>2 DEF Id
<1>4. tx' = [tx EXCEPT ![c] = r] /\ UNCHANGED <<stores, grants, removed, faults>>
  BY DEF NumberStore, Data
<1> HIDE DEF k
<1>5. r \in TxRecord
  BY <1>1, <1>3 DEF TxRecord, Steps
<1>6. /\ r.pc = "insert" /\ r.op = "create" /\ r.user = tx[c].user /\ r.key = k
      /\ r.form = tx[c].form /\ r.new = Absent /\ r.table = tx[c].table /\ r.write = "none"
      /\ r.fit = tx[c].fit /\ r.overtaken = tx[c].overtaken
  BY <1>1, <1>2 DEF TxRecord
<1> HIDE DEF r
<1>7. Continues(r, c)
  BY <1>1, <1>2, <1>5, <1>6 DEF Continues
<1>8. ASSUME tx'[c] = r PROVE RequestOK(c)'
  <2>1. stores' = stores /\ grants' = grants /\ Rows' = Rows
    BY <1>4 DEF Rows
  <2>2. ShapeOK(c)'
    BY <1>1, <1>2, <1>6, <1>8 DEF ShapeOK
  <2>3. CreatingOK(c)'
    BY <1>1, <1>2, <1>3, <1>6, <1>8 DEF CreatingOK
  <2>4. ChangingOK(c)' /\ GrantingOK(c)'
    BY <1>6, <1>8 DEF ChangingOK, GrantingOK, Changing, Granting
  <2>5. FitOK(c)'
    BY <1>7, <1>8, FitFrame
  <2>6. 0 \notin Rows
    BY DEF Rows, Id
  <2>7. UniqueOK(c)'
    BY <1>1, <1>2, <1>6, <1>8, <2>1, <2>6 DEF UniqueOK, Taken
  <2> QED
    BY <2>2, <2>3, <2>4, <2>5, <2>7 DEF RequestOK
<1>9. faults' \in 0..MaxFaults
  BY <1>4 DEF IInv, TypeInv
<1> QED
  BY <1>4, <1>5, <1>6, <1>8, <1>9, LocalStep

LEMMA InsertStoreStep ==
    ASSUME IInv, NEW c \in Clients, InsertStore(c)
    PROVE  IInv'
<1> DEFINE pc   == IF tx[c].user \in Admins THEN "commit" ELSE "find"
           pair == [user |-> tx[c].user, object |-> tx[c].key]
           r    == [tx[c] EXCEPT !.new = tx[c].form, !.pc = pc, !.pair = pair]
<1>1. /\ tx[c] \in TxRecord /\ tx[c].pc = "insert" /\ ShapeOK(c) /\ CreatingOK(c)
      /\ UniqueOK(c)
  BY RequestFacts DEF InsertStore
<1>2. /\ tx[c].op = "create" /\ tx[c].write = "none" /\ tx[c].key \in Id /\ tx[c].user \in Users
      /\ tx[c].form \in Store
  BY <1>1 DEF ShapeOK, CreatingOK
<1>3. pair \in Pairs
  BY <1>2 DEF Pairs
<1>4. pc \in {"commit", "find"} /\ (pc = "commit" => tx[c].user \in Admins)
  OBVIOUS
<1>5. /\ tx' = [tx EXCEPT ![c] = r] /\ UNCHANGED <<stores, grants, removed, faults>>
      /\ stores[tx[c].key] = Absent
      /\ \A d \in Clients \ {c} : tx[d].new # Absent => tx[d].key # tx[c].key
  BY DEF InsertStore, Data, Locked
<1> HIDE DEF pc, pair
<1>6. r \in TxRecord
  <2>1. pc \in Steps
    BY <1>4 DEF Steps
  <2> QED
    BY <1>1, <1>2, <1>3, <2>1 DEF TxRecord
<1>7. /\ r.pc = pc /\ r.op = "create" /\ r.user = tx[c].user /\ r.key = tx[c].key
      /\ r.form = tx[c].form /\ r.new = tx[c].form /\ r.table = tx[c].table /\ r.pair = pair
      /\ r.write = "none" /\ r.fit = tx[c].fit /\ r.overtaken = tx[c].overtaken
  BY <1>1, <1>2 DEF TxRecord
<1> HIDE DEF r
<1>8. Continues(r, c)
  BY <1>1, <1>2, <1>4, <1>6, <1>7 DEF Continues
<1>9. ASSUME tx'[c] = r PROVE RequestOK(c)'
  <2>1. stores' = stores /\ grants' = grants /\ Rows' = Rows
    BY <1>5 DEF Rows
  <2>2. ShapeOK(c)'
    BY <1>1, <1>2, <1>4, <1>7, <1>9 DEF ShapeOK
  <2>3. CreatingOK(c)'
    BY <1>1, <1>2, <1>4, <1>5, <1>7, <1>9, <2>1 DEF CreatingOK, pair
  <2>4. ChangingOK(c)' /\ GrantingOK(c)'
    BY <1>7, <1>9 DEF ChangingOK, GrantingOK, Changing, Granting
  <2>5. FitOK(c)'
    BY <1>8, <1>9, FitFrame
  <2>6. UniqueOK(c)'
    BY <1>1, <1>4, <1>7, <1>9, <2>1 DEF UniqueOK, Taken
  <2> QED
    BY <2>2, <2>3, <2>4, <2>5, <2>6 DEF RequestOK
<1>10. faults' \in 0..MaxFaults
  BY <1>5 DEF IInv, TypeInv
<1> QED
  BY <1>5, <1>6, <1>7, <1>9, <1>10, LocalStep

-----------------------------------------------------------------------------
(* Granting and revoking.                                                   *)

\* the pair that a request looks for is one of its table
LEMMA PairIsTyped ==
    ASSUME IInv, NEW c \in Clients, tx[c].pc \in {"find", "gnumber", "ginsert", "delete"}
    PROVE  tx[c].pair \in Grant(tx[c].table) /\ tx[c].pair # Absent /\ tx[c].table \in Tables
<1>1. /\ tx[c] \in TxRecord /\ ShapeOK(c) /\ CreatingOK(c) /\ GrantingOK(c)
  BY RequestFacts
<1>2. tx[c].table \in Tables
  BY <1>1 DEF TxRecord
<1>3. tx[c].pair \in Grant(tx[c].table)
  <2>1. CASE tx[c].op = "create"
    <3>1. /\ tx[c].pair = [user |-> tx[c].user, object |-> tx[c].key] /\ tx[c].table = "access"
          /\ tx[c].user \in Users /\ tx[c].key \in Id
      BY <1>1, <2>1 DEF CreatingOK, ShapeOK
    <3> QED
      BY <3>1 DEF Grant, Objects
  <2>2. CASE tx[c].op \in Granting
    BY <1>1, <2>2 DEF GrantingOK
  <2> QED
    BY <1>1, <2>1, <2>2 DEF ShapeOK, Granting
<1>4. Absent \notin Grant(tx[c].table)
  BY <1>2 DEF Tables
<1> QED
  BY <1>2, <1>3, <1>4

\* a granting request that goes on: what it keeps, and what has to be shown of it
LEMMA GrantingStep ==
    ASSUME IInv, NEW c \in Clients, NEW r \in TxRecord, tx' = [tx EXCEPT ![c] = r],
           UNCHANGED <<stores, grants, removed, faults>>,
           tx[c].pc \in {"find", "gnumber", "ginsert", "delete"},
           r.pc \in {"gnumber", "ginsert", "delete", "commit"},
           r.op = tx[c].op, r.user = tx[c].user, r.key = tx[c].key, r.form = tx[c].form,
           r.new = tx[c].new, r.table = tx[c].table, r.pair = tx[c].pair, r.fit = tx[c].fit,
           r.pc \in {"gnumber", "ginsert"} => r.op \in {"create", "grant"},
           r.pc = "delete" => r.op = "revoke",
           r.write # "none" => r.pc = "commit",
           r.pc \in {"ginsert", "delete"} \/ r.write # "none" => r.gkey \in Key,
           r.pc = "commit" /\ r.op = "create" =>
             \/ r.write = "insert"
             \/ r.key \in Held(grants, "access", r.user),
           r.write = "insert" => grants[r.table][r.gkey] = Absent /\ r.op # "revoke",
           ~r.overtaken /\ r.form.name # Absent => ~tx[c].overtaken,
           ~r.overtaken /\ (r.pc \in {"gnumber", "ginsert"} \/ r.write = "insert") => Found(c) = {},
           \/ r.write = "none"
           \/ \A d \in Clients \ {c} :
                tx[d].write # "none" /\ tx[d].table = r.table => tx[d].gkey # r.gkey
    PROVE  IInv'
<1>1. /\ tx[c] \in TxRecord /\ ShapeOK(c) /\ CreatingOK(c) /\ GrantingOK(c) /\ UniqueOK(c)
  BY RequestFacts
<1>2. tx[c].op \in {"create"} \cup Granting /\ tx[c].pc # "idle" /\ tx[c].pc # "policy"
  BY <1>1 DEF ShapeOK, Granting
<1>3. tx[c].pair \in Grant(tx[c].table)
  BY PairIsTyped
<1>4. ASSUME tx'[c] = r PROVE RequestOK(c)'
  <2>1. stores' = stores /\ grants' = grants /\ Rows' = Rows /\ removed' = removed
    BY DEF Rows
  <2>2. ShapeOK(c)'
    <3>1. r.new # Absent => r.op = "create"
      BY <1>1 DEF ShapeOK
    <3> QED
      BY <1>1, <1>2, <1>4, <3>1 DEF ShapeOK, Granting
  <2>3. CreatingOK(c)'
    <3>1. ASSUME r.op = "create"
          PROVE  /\ r.form \in Store /\ r.form.creator = r.user /\ r.table = "access"
                 /\ r.key \in Id /\ r.new = r.form /\ stores[r.key] = Absent
                 /\ r.pair = [user |-> r.user, object |-> r.key]
      BY <1>1, <3>1 DEF CreatingOK, ShapeOK
    <3>2. r.pc \notin {"policy", "name", "number"}
      OBVIOUS
    <3> QED
      BY <1>4, <2>1, <3>1, <3>2 DEF CreatingOK
  <2>4. ChangingOK(c)'
    BY <1>2, <1>4 DEF ChangingOK, Changing, Granting
  <2>5. GrantingOK(c)'
    BY <1>1, <1>2, <1>3, <1>4, <2>1 DEF GrantingOK
  <2>6. FitOK(c)'
    BY <1>2, <1>4, RequestFacts DEF FitOK
  <2>7. Found(c)' = Found(c)
    BY <1>4, <2>1 DEF Found, Granted
  <2>8. Taken(tx[c].form.name, tx[c].key)' = Taken(tx[c].form.name, tx[c].key)
    BY <1>4, <2>1 DEF Taken
  <2>9. UniqueOK(c)'
    BY <1>1, <1>2, <1>4, <2>7, <2>8 DEF UniqueOK
  <2> QED
    BY <2>2, <2>3, <2>4, <2>5, <2>6, <2>9 DEF RequestOK
<1>5. faults' \in 0..MaxFaults
  BY DEF IInv, TypeInv
<1> QED
  BY <1>4, <1>5, LocalStep

LEMMA FindGrantStep ==
    ASSUME IInv, NEW c \in Clients, FindGrant(c)
    PROVE  IInv'
<1> DEFINE o == IF tx[c].op = "create" THEN tx[c].overtaken ELSE FALSE
           r == [tx[c] EXCEPT !.pc = "gnumber", !.overtaken = o]
<1>1. /\ tx[c] \in TxRecord /\ tx[c].pc = "find" /\ ShapeOK(c) /\ Found(c) = {}
      /\ tx[c].op \in {"create", "grant"}
  BY RequestFacts DEF FindGrant, ShapeOK, Granting
<1>2. tx[c].write = "none"
  BY <1>1 DEF ShapeOK
<1>3. o \in BOOLEAN
  BY <1>1 DEF TxRecord
<1>4. tx[c].form.name # Absent => o = tx[c].overtaken
  BY <1>1 DEF ShapeOK
<1>5. tx' = [tx EXCEPT ![c] = r] /\ UNCHANGED <<stores, grants, removed, faults>>
  BY DEF FindGrant, Data
<1> HIDE DEF o
<1>6. r \in TxRecord
  BY ZenonT(60), <1>1, <1>3 DEF TxRecord, Steps
<1>7. /\ r.pc = "gnumber" /\ r.op = tx[c].op /\ r.user = tx[c].user /\ r.key = tx[c].key
      /\ r.form = tx[c].form /\ r.new = tx[c].new /\ r.table = tx[c].table
      /\ r.pair = tx[c].pair /\ r.write = "none" /\ r.fit = tx[c].fit /\ r.overtaken = o
  BY <1>1, <1>2 DEF TxRecord
<1> HIDE DEF r
<1> QED
  BY <1>1, <1>4, <1>5, <1>6, <1>7, GrantingStep

LEMMA NothingToDoStep ==
    ASSUME IInv, NEW c \in Clients, NothingToDo(c)
    PROVE  IInv'
<1>1. CASE tx[c].op # "create"
  <2>1. Stop(c) /\ UNCHANGED <<stores, grants, removed>> /\ faults' \in 0..MaxFaults
    BY <1>1 DEF NothingToDo, Data, IInv, TypeInv
  <2> QED
    BY <2>1, StopStep
<1>2. CASE tx[c].op = "create"
  <2> DEFINE r == [tx[c] EXCEPT !.pc = "commit"]
  <2>1. /\ tx[c] \in TxRecord /\ tx[c].pc = "find" /\ ShapeOK(c) /\ CreatingOK(c)
        /\ UniqueOK(c)
    BY RequestFacts DEF NothingToDo
  <2>2. tx[c].write = "none"
    BY <2>1 DEF ShapeOK
  <2>3. Found(c) # {}
    BY <1>2 DEF NothingToDo
  <2>4. tx' = [tx EXCEPT ![c] = r] /\ UNCHANGED <<stores, grants, removed, faults>>
    BY <1>2, Zenon DEF NothingToDo, Goto, Data
  <2>5. r \in TxRecord
    BY <2>1 DEF TxRecord, Steps
  <2>6. /\ r.pc = "commit" /\ r.op = tx[c].op /\ r.user = tx[c].user /\ r.key = tx[c].key
        /\ r.form = tx[c].form /\ r.new = tx[c].new /\ r.table = tx[c].table
        /\ r.pair = tx[c].pair /\ r.write = "none" /\ r.fit = tx[c].fit
        /\ r.overtaken = tx[c].overtaken
    BY <2>1, <2>2 DEF TxRecord
  <2> HIDE DEF r
  <2>7. tx[c].key \in Held(grants, "access", tx[c].user)
    <3>1. /\ tx[c].table = "access"
          /\ tx[c].pair = [user |-> tx[c].user, object |-> tx[c].key]
      BY <1>2, <2>1 DEF CreatingOK
    <3>2. PICK k \in Key : grants["access"][k] # Absent /\ grants["access"][k] = tx[c].pair
      BY <2>3, <3>1 DEF Found, Granted
    <3>3. grants["access"][k].user = tx[c].user /\ grants["access"][k].object = tx[c].key
      BY <3>1, <3>2
    <3> QED
      BY <3>2, <3>3 DEF Held
  <2> QED
    BY <1>2, <2>1, <2>4, <2>5, <2>6, <2>7, GrantingStep
<1> QED
  BY <1>1, <1>2

LEMMA NumberGrantStep ==
    ASSUME IInv, NEW c \in Clients, NumberGrant(c)
    PROVE  IInv'
<1> DEFINE m == Max(Granted(tx[c].table) \cup {0})
           k == m + 1
           r == [tx[c] EXCEPT !.pc = "ginsert", !.gkey = k]
<1>1. /\ tx[c] \in TxRecord /\ tx[c].pc = "gnumber" /\ ShapeOK(c) /\ UniqueOK(c)
  BY RequestFacts DEF NumberGrant
<1>2. tx[c].op \in {"create", "grant"} /\ tx[c].write = "none"
  BY <1>1 DEF ShapeOK
<1>3. k \in Key
  <2>1. Granted(tx[c].table) \in SUBSET (1..MaxGrants)
    BY DEF Granted, Key
  <2>2. m \in 0..MaxGrants /\ m < MaxGrants
    BY <2>1, HighestKey DEF NumberGrant
  <2> HIDE DEF m
  <2> QED
    BY <2>2 DEF Key
<1>4. tx' = [tx EXCEPT ![c] = r] /\ UNCHANGED <<stores, grants, removed, faults>>
  BY DEF NumberGrant, Data
<1> HIDE DEF k
<1>5. r \in TxRecord
  BY <1>1, <1>3 DEF TxRecord, Steps
<1>6. /\ r.pc = "ginsert" /\ r.op = tx[c].op /\ r.user = tx[c].user /\ r.key = tx[c].key
      /\ r.form = tx[c].form /\ r.new = tx[c].new /\ r.table = tx[c].table
      /\ r.pair = tx[c].pair /\ r.write = "none" /\ r.fit = tx[c].fit /\ r.gkey = k
      /\ r.overtaken = tx[c].overtaken
  BY <1>1, <1>2 DEF TxRecord
<1> HIDE DEF r
<1>7. ~r.overtaken => Found(c) = {}
  BY <1>1, <1>6 DEF UniqueOK
<1> QED
  BY <1>1, <1>2, <1>3, <1>4, <1>5, <1>6, <1>7, GrantingStep

LEMMA InsertGrantStep ==
    ASSUME IInv, NEW c \in Clients, InsertGrant(c)
    PROVE  IInv'
<1> DEFINE r == [tx[c] EXCEPT !.pc = "commit", !.write = "insert"]
<1>1. /\ tx[c] \in TxRecord /\ tx[c].pc = "ginsert" /\ ShapeOK(c) /\ UniqueOK(c)
  BY RequestFacts DEF InsertGrant
<1>2. tx[c].op \in {"create", "grant"} /\ tx[c].gkey \in Key
  BY <1>1 DEF ShapeOK
<1>3. /\ tx' = [tx EXCEPT ![c] = r] /\ UNCHANGED <<stores, grants, removed, faults>>
      /\ grants[tx[c].table][tx[c].gkey] = Absent
      /\ \A d \in Clients \ {c} :
           tx[d].write # "none" /\ tx[d].table = tx[c].table => tx[d].gkey # tx[c].gkey
  BY DEF InsertGrant, Data, GrantLocked
<1>4. r \in TxRecord
  BY <1>1 DEF TxRecord, Steps
<1>5. /\ r.pc = "commit" /\ r.op = tx[c].op /\ r.user = tx[c].user /\ r.key = tx[c].key
      /\ r.form = tx[c].form /\ r.new = tx[c].new /\ r.table = tx[c].table
      /\ r.pair = tx[c].pair /\ r.write = "insert" /\ r.fit = tx[c].fit
      /\ r.gkey = tx[c].gkey /\ r.overtaken = tx[c].overtaken
  BY <1>1 DEF TxRecord
<1> HIDE DEF r
<1>6. ~r.overtaken => Found(c) = {}
  BY <1>1, <1>5 DEF UniqueOK
<1>7. \A d \in Clients \ {c} :
        tx[d].write # "none" /\ tx[d].table = r.table => tx[d].gkey # r.gkey
  BY <1>3, <1>5
<1>8. grants[r.table][r.gkey] = Absent /\ r.gkey \in Key
  BY <1>2, <1>3, <1>5
<1> QED
  BY <1>1, <1>2, <1>3, <1>4, <1>5, <1>6, <1>7, <1>8, GrantingStep

LEMMA FindRevokedStep ==
    ASSUME IInv, NEW c \in Clients, FindRevoked(c)
    PROVE  IInv'
<1> DEFINE k == Min(Found(c))
           r == [tx[c] EXCEPT !.pc = "delete", !.gkey = k]
<1>1. /\ tx[c] \in TxRecord /\ tx[c].pc = "find" /\ tx[c].op = "revoke" /\ ShapeOK(c)
      /\ Found(c) # {}
  BY RequestFacts DEF FindRevoked
<1>2. tx[c].write = "none"
  BY <1>1 DEF ShapeOK
<1>3. k \in Key
  <2>1. Found(c) \in SUBSET Nat /\ Found(c) \subseteq Key
    BY DEF Found, Granted, Key
  <2> QED
    BY <1>1, <2>1, MinOfNaturals
<1>4. tx' = [tx EXCEPT ![c] = r] /\ UNCHANGED <<stores, grants, removed, faults>>
  BY DEF FindRevoked, Data
<1> HIDE DEF k
<1>5. r \in TxRecord
  BY <1>1, <1>3 DEF TxRecord, Steps
<1>6. /\ r.pc = "delete" /\ r.op = tx[c].op /\ r.user = tx[c].user /\ r.key = tx[c].key
      /\ r.form = tx[c].form /\ r.new = tx[c].new /\ r.table = tx[c].table
      /\ r.pair = tx[c].pair /\ r.write = "none" /\ r.fit = tx[c].fit /\ r.gkey = k
      /\ r.overtaken = tx[c].overtaken
  BY <1>1, <1>2 DEF TxRecord
<1> HIDE DEF r
<1> QED
  BY <1>1, <1>3, <1>4, <1>5, <1>6, GrantingStep

LEMMA DeleteGrantStep ==
    ASSUME IInv, NEW c \in Clients, DeleteGrant(c)
    PROVE  IInv'
<1> DEFINE r == [tx[c] EXCEPT !.pc = "commit", !.write = "delete"]
<1>1. /\ tx[c] \in TxRecord /\ tx[c].pc = "delete" /\ tx[c].op = "revoke" /\ ShapeOK(c)
      /\ tx[c].gkey \in Key
  BY RequestFacts DEF DeleteGrant, ShapeOK
<1>2. /\ tx' = [tx EXCEPT ![c] = r] /\ UNCHANGED <<stores, grants, removed, faults>>
      /\ \A d \in Clients \ {c} :
           tx[d].write # "none" /\ tx[d].table = tx[c].table => tx[d].gkey # tx[c].gkey
  BY DEF DeleteGrant, Data, GrantLocked
<1>3. r \in TxRecord
  BY <1>1 DEF TxRecord, Steps
<1>4. /\ r.pc = "commit" /\ r.op = tx[c].op /\ r.user = tx[c].user /\ r.key = tx[c].key
      /\ r.form = tx[c].form /\ r.new = tx[c].new /\ r.table = tx[c].table
      /\ r.pair = tx[c].pair /\ r.write = "delete" /\ r.fit = tx[c].fit
      /\ r.gkey = tx[c].gkey /\ r.overtaken = tx[c].overtaken
  BY <1>1 DEF TxRecord
<1> HIDE DEF r
<1>5. \A d \in Clients \ {c} :
        tx[d].write # "none" /\ tx[d].table = r.table => tx[d].gkey # r.gkey
  BY <1>2, <1>4
<1>6. r.op = "revoke" /\ r.gkey \in Key
  BY <1>1, <1>4
<1> QED
  BY <1>1, <1>2, <1>3, <1>4, <1>5, <1>6, GrantingStep

-----------------------------------------------------------------------------
(* Committing.                                                              *)

\* the stores after a commit: rows stay, with their creators
LEMMA CommitStores ==
    ASSUME IInv, NEW c \in Clients, Commit(c)
    PROVE  /\ stores' \in [Id -> Store \cup {Absent}]
           /\ \A i \in Id : stores'[i] = IF tx[c].new # Absent /\ i = tx[c].key
                                         THEN tx[c].new ELSE stores[i]
           /\ tx[c].new # Absent => tx[c].new \in Store /\ tx[c].key \in Id
           /\ \A i \in Rows : i \in Rows' /\ stores'[i].creator = stores[i].creator
<1>1. /\ tx[c] \in TxRecord /\ tx[c].pc = "commit" /\ ShapeOK(c) /\ CreatingOK(c)
      /\ ChangingOK(c)
  BY RequestFacts DEF Commit
<1>2. stores \in [Id -> Store \cup {Absent}]
  BY DEF IInv, TypeInv
<1>3. ASSUME tx[c].new # Absent
      PROVE  /\ tx[c].new \in Store /\ tx[c].key \in Id
             /\ tx[c].key \in Rows => tx[c].new.creator = stores[tx[c].key].creator
  <2>1. CASE tx[c].op = "create"
    BY <1>1, <1>3, <2>1 DEF TxRecord, CreatingOK, Rows
  <2>2. CASE tx[c].op \in Changing
    BY <1>1, <1>3, <2>2 DEF TxRecord, ChangingOK, Rows
  <2> QED
    BY <1>1, <1>3, <2>1, <2>2 DEF ShapeOK
<1>4. \A i \in Id : stores'[i] = IF tx[c].new # Absent /\ i = tx[c].key
                                 THEN tx[c].new ELSE stores[i]
  <2>1. CASE tx[c].new = Absent
    BY <2>1 DEF Commit
  <2>2. CASE tx[c].new # Absent
    BY <1>2, <2>2 DEF Commit
  <2> QED
    BY <2>1, <2>2
<1>5. stores' \in [Id -> Store \cup {Absent}]
  BY <1>2, <1>3 DEF Commit
<1>6. \A i \in Rows : i \in Rows' /\ stores'[i].creator = stores[i].creator
  BY <1>3, <1>4 DEF Rows
<1> QED
  BY <1>3, <1>4, <1>5, <1>6

\* the grants after a commit, and what became of those that are gone
LEMMA CommitGrants ==
    ASSUME IInv, NEW c \in Clients, Commit(c)
    PROVE  /\ grants' \in [Tables -> [Key -> Pairs \cup {Absent}]]
           /\ \A t \in Tables, k \in Key : grants'[t][k] \in Grant(t) \cup {Absent}
           /\ \A t \in Tables, k \in Key :
                ~(tx[c].write # "none" /\ t = tx[c].table /\ k = tx[c].gkey) =>
                    grants'[t][k] = grants[t][k]
           /\ tx[c].write = "insert" => grants'[tx[c].table][tx[c].gkey] = tx[c].pair
           /\ removed \subseteq removed'
           /\ \A u, i : i \in Held(grants, "access", u) =>
                            i \in Held(grants', "access", u) \/ <<u, i>> \in removed'
<1> DEFINE t0 == tx[c].table
           k0 == tx[c].gkey
           v0 == IF tx[c].write = "insert" THEN tx[c].pair ELSE Absent
<1>1. /\ tx[c] \in TxRecord /\ tx[c].pc = "commit" /\ ShapeOK(c) /\ GrantingOK(c)
  BY RequestFacts DEF Commit
<1>2. /\ grants \in [Tables -> [Key -> Pairs \cup {Absent}]]
      /\ \A t \in Tables, k \in Key : grants[t][k] \in Grant(t) \cup {Absent}
  BY DEF IInv, TypeInv
<1>3. t0 \in Tables /\ (tx[c].write # "none" => k0 \in Key)
  BY <1>1 DEF TxRecord, ShapeOK
<1>4. /\ v0 \in Pairs \cup {Absent} /\ v0 \in Grant(t0) \cup {Absent}
      /\ tx[c].write = "insert" => v0 = tx[c].pair
  BY <1>1 DEF TxRecord, GrantingOK
<1>5. /\ tx[c].write = "none" => grants' = grants
      /\ tx[c].write # "none" => grants' = [grants EXCEPT ![t0][k0] = v0]
  BY DEF Commit
<1> HIDE DEF v0
<1>6. grants' \in [Tables -> [Key -> Pairs \cup {Absent}]]
  <2>1. tx[c].write # "none" => [grants[t0] EXCEPT ![k0] = v0] \in [Key -> Pairs \cup {Absent}]
    BY <1>2, <1>3, <1>4
  <2> QED
    BY <1>2, <1>3, <1>5, <2>1
<1>7. \A t \in Tables, k \in Key :
        ~(tx[c].write # "none" /\ t = t0 /\ k = k0) => grants'[t][k] = grants[t][k]
  BY <1>2, <1>3, <1>5
<1>8. tx[c].write # "none" => grants'[t0][k0] = v0
  BY <1>2, <1>3, <1>5
<1>9. \A t \in Tables, k \in Key : grants'[t][k] \in Grant(t) \cup {Absent}
  BY <1>2, <1>4, <1>7, <1>8
<1>10. removed \subseteq removed'
  BY DEF Commit
<1>11. ASSUME NEW u, NEW i, i \in Held(grants, "access", u), i \notin Held(grants', "access", u)
       PROVE  <<u, i>> \in removed'
  <2>1. PICK k \in Key : /\ grants["access"][k] # Absent /\ grants["access"][k].user = u
                         /\ grants["access"][k].object = i
    BY <1>11 DEF Held
  <2>2. "access" \in Tables
    BY DEF Tables
  <2>3. grants'["access"][k] # grants["access"][k]
    BY <1>11, <2>1 DEF Held
  <2>4. tx[c].write # "none" /\ t0 = "access" /\ k0 = k
    BY <1>7, <2>2, <2>3
  <2>5. tx[c].write = "delete"
    BY <1>1, <2>1, <2>4 DEF TxRecord, GrantingOK
  <2> QED
    BY <2>1, <2>4, <2>5 DEF Commit
<1> QED
  BY <1>4, <1>6, <1>7, <1>8, <1>9, <1>10, <1>11

\* the requests after a commit
LEMMA CommitRequests ==
    ASSUME IInv, NEW c \in Clients, Commit(c)
    PROVE  /\ tx' \in [Clients -> TxRecord] /\ tx'[c] = Idle
           /\ \A d \in Clients : d # c /\ tx[d].pc = "idle" => tx'[d] = Idle
           /\ \A d \in Clients : d # c /\ tx[d].pc # "idle" =>
                tx'[d] = [tx[d] EXCEPT !.fit = tx[d].fit \cup
                              Standing(stores', grants', tx[d].user, tx[d].key),
                            !.overtaken = TRUE]
<1>1. \A u, i : Standing(stores', grants', u, i) \subseteq Entitlements
  <2>1. \A k \in Key : grants'["permission"][k] \in Grant("permission") \cup {Absent}
    BY CommitGrants DEF Tables
  <2>2. \A u : Held(grants', "permission", u) \subseteq Permissions
    BY <2>1 DEF Held, Grant, Objects
  <2>3. \A i \in Id : stores'[i] # Absent => stores'[i].status \in {"active", "archived"}
    BY CommitStores DEF Store
  <2> QED
    BY <2>2, <2>3 DEF Standing, Entitlements
<1>2. ASSUME NEW d \in Clients
      PROVE  [tx[d] EXCEPT !.fit = tx[d].fit \cup
                  Standing(stores', grants', tx[d].user, tx[d].key),
                !.overtaken = TRUE] \in TxRecord
  <2> DEFINE f == tx[d].fit \cup Standing(stores', grants', tx[d].user, tx[d].key)
  <2>1. tx[d] \in TxRecord
    BY RequestFacts
  <2>2. f \in SUBSET Entitlements
    BY <1>1, <2>1 DEF TxRecord
  <2> HIDE DEF f
  <2>3. [tx[d] EXCEPT !.fit = f, !.overtaken = TRUE] \in TxRecord
    BY <2>1, <2>2 DEF TxRecord
  <2> QED
    BY <2>3 DEF f
<1>3. tx' \in [Clients -> TxRecord]
  BY <1>2, IdleIsTyped DEF Commit
<1> QED
  BY <1>3 DEF Commit

LEMMA CommitOthers ==
    ASSUME IInv, NEW c \in Clients, NEW d \in Clients, c # d, tx[d].pc # "idle", Commit(c)
    PROVE  RequestOK(d)'
<1> DEFINE f == tx[d].fit \cup Standing(stores', grants', tx[d].user, tx[d].key)
           s == [tx[d] EXCEPT !.fit = f, !.overtaken = TRUE]
<1>1. tx'[d] = s
  BY CommitRequests
<1>2. /\ tx[d] \in TxRecord /\ ShapeOK(d) /\ CreatingOK(d) /\ ChangingOK(d) /\ GrantingOK(d)
      /\ FitOK(d)
  BY RequestFacts
<1> HIDE DEF f
<1>3. /\ s.pc = tx[d].pc /\ s.op = tx[d].op /\ s.user = tx[d].user /\ s.sees = tx[d].sees
      /\ s.may = tx[d].may /\ s.key = tx[d].key /\ s.form = tx[d].form
      /\ s.copy = tx[d].copy /\ s.base = tx[d].base /\ s.new = tx[d].new
      /\ s.table = tx[d].table /\ s.pair = tx[d].pair /\ s.gkey = tx[d].gkey
      /\ s.write = tx[d].write /\ s.fit = f /\ s.overtaken = TRUE
  BY <1>2 DEF TxRecord
<1> HIDE DEF s
<1>4. ShapeOK(d)'
  BY <1>1, <1>2, <1>3 DEF ShapeOK
<1>5. CreatingOK(d)'
  <2>1. SUFFICES ASSUME tx[d].op = "create" PROVE CreatingOK(d)'
    BY <1>1, <1>3 DEF CreatingOK
  <2>2. ASSUME tx[d].pc \in {"find", "gnumber", "ginsert", "commit"}
        PROVE  stores'[tx[d].key] = Absent
    <3>1. /\ tx[d].new = tx[d].form /\ tx[d].form \in Store /\ stores[tx[d].key] = Absent
          /\ tx[d].key \in Id
      BY <1>2, <2>1, <2>2 DEF CreatingOK
    <3>2. tx[d].new # Absent
      BY <3>1
    <3>3. ~(tx[c].new # Absent /\ tx[d].key = tx[c].key)
      BY <3>2 DEF IInv, StoreLocks
    <3> QED
      BY <3>1, <3>3, CommitStores
  <2>3. tx[d].key \in Held(grants, "access", tx[d].user) =>
          \/ tx[d].key \in Held(grants', "access", tx[d].user)
          \/ <<tx[d].user, tx[d].key>> \in removed'
    BY CommitGrants
  <2>4. <<tx[d].user, tx[d].key>> \in removed => <<tx[d].user, tx[d].key>> \in removed'
    BY CommitGrants
  <2> QED
    BY <1>1, <1>2, <1>3, <2>1, <2>2, <2>3, <2>4 DEF CreatingOK
<1>6. ChangingOK(d)'
  <2>1. ASSUME tx[d].op \in Changing \cup {"run"}
        PROVE  /\ tx[d].key \in Rows'
               /\ stores'[tx[d].key].creator = stores[tx[d].key].creator
    BY <1>2, <2>1, CommitStores DEF ChangingOK
  <2> QED
    BY <1>1, <1>2, <1>3, <2>1 DEF ChangingOK
<1>7. GrantingOK(d)'
  <2>1. ASSUME tx[d].write = "insert"
        PROVE  grants'[tx[d].table][tx[d].gkey] = Absent
    <3>1. ~(tx[c].write # "none" /\ tx[d].table = tx[c].table /\ tx[d].gkey = tx[c].gkey)
      BY <2>1 DEF IInv, GrantLocks
    <3>2. tx[d].table \in Tables /\ tx[d].gkey \in Key
      BY <1>2, <2>1 DEF TxRecord, ShapeOK
    <3> QED
      BY <1>2, <2>1, <3>1, <3>2, CommitGrants DEF GrantingOK
  <2> QED
    BY <1>1, <1>2, <1>3, <2>1 DEF GrantingOK
<1>8. FitOK(d)'
  <2>1. /\ Standing(stores', grants', tx[d].user, tx[d].key) \subseteq f
        /\ tx[d].fit \subseteq f
    BY DEF f
  <2> QED
    BY <1>1, <1>2, <1>3, <2>1 DEF FitOK
<1>9. UniqueOK(d)'
  BY <1>1, <1>3 DEF UniqueOK
<1> QED
  BY <1>4, <1>5, <1>6, <1>7, <1>8, <1>9 DEF RequestOK

LEMMA CommitKeepsCreators ==
    ASSUME IInv, NEW c \in Clients, Commit(c)
    PROVE  CreatorHasAccess'
<1> SUFFICES ASSUME NEW i \in Rows', stores'[i].creator \notin Admins,
                    <<stores'[i].creator, i>> \notin removed'
             PROVE  i \in Held(grants', "access", stores'[i].creator)
  BY DEF CreatorHasAccess
<1> DEFINE u == stores'[i].creator
<1>1. i \in Id /\ stores'[i] # Absent
  BY DEF Rows
<1>2. CASE i \in Rows
  <2>1. stores[i].creator = u
    BY <1>2, CommitStores
  <2>2. i \in Held(grants, "access", u) \/ <<u, i>> \in removed
    BY <1>2, <2>1 DEF IInv, CreatorHasAccess
  <2> QED
    BY <2>2, CommitGrants
<1>3. CASE i \notin Rows
  <2>1. stores[i] = Absent
    BY <1>1, <1>3 DEF Rows
  <2>2. tx[c].new # Absent /\ i = tx[c].key /\ stores'[i] = tx[c].new
    BY <1>1, <2>1, CommitStores
  <2>3. /\ tx[c] \in TxRecord /\ tx[c].pc = "commit" /\ ShapeOK(c) /\ CreatingOK(c)
        /\ ChangingOK(c)
    BY RequestFacts DEF Commit
  <2>4. tx[c].op = "create"
    BY <1>3, <2>2, <2>3 DEF ShapeOK, ChangingOK
  <2>5. u = tx[c].user
    BY <2>2, <2>3, <2>4 DEF CreatingOK
  <2>6. CASE tx[c].write = "insert"
    <3>1. /\ tx[c].table = "access" /\ tx[c].gkey \in Key
          /\ tx[c].pair = [user |-> u, object |-> i]
      BY <2>2, <2>3, <2>4, <2>5, <2>6 DEF CreatingOK, ShapeOK
    <3>2. grants'["access"][tx[c].gkey] = [user |-> u, object |-> i]
      BY <2>6, <3>1, CommitGrants
    <3>3. [user |-> u, object |-> i] \in Grant("access")
      BY <1>1, <2>3, <2>5 DEF Grant, Objects, ShapeOK
    <3>4. grants'["access"][tx[c].gkey] # Absent
      BY <3>2, <3>3
    <3> QED
      BY <3>1, <3>2, <3>4 DEF Held
  <2>7. CASE tx[c].write # "insert"
    <3>1. i \in Held(grants, "access", u) \/ <<u, i>> \in removed
      BY <2>2, <2>3, <2>4, <2>5, <2>7 DEF CreatingOK
    <3> QED
      BY <3>1, CommitGrants
  <2> QED
    BY <2>6, <2>7
<1> QED
  BY <1>2, <1>3

LEMMA CommitStep ==
    ASSUME IInv, NEW c \in Clients, Commit(c)
    PROVE  IInv'
<1>1. TypeInv'
  BY ZenonT(60), CommitStores, CommitGrants, CommitRequests DEF TypeInv, IInv, Commit
<1>2. Idle.new = Absent /\ Idle.write = "none"
  BY DEF Idle
<1>3. \A d \in Clients : tx'[d] = Idle => RequestOK(d)'
  <2>1. SUFFICES ASSUME NEW d \in Clients, tx'[d] = Idle PROVE RequestOK(d)'
    OBVIOUS
  <2>2. /\ tx'[d].pc = "idle" /\ tx'[d].op = "none" /\ tx'[d].new = Absent
        /\ tx'[d].write = "none" /\ tx'[d].form.name = Absent
    BY <2>1 DEF Idle, Nothing
  <2> QED
    BY <2>2 DEF RequestOK, ShapeOK, CreatingOK, ChangingOK, GrantingOK, FitOK, UniqueOK
<1>4. ASSUME NEW d \in Clients PROVE RequestOK(d)'
  <2>1. CASE d = c \/ tx[d].pc = "idle"
    BY <1>3, <2>1, CommitRequests
  <2>2. CASE d # c /\ tx[d].pc # "idle"
    BY <2>2, CommitOthers
  <2> QED
    BY <2>1, <2>2
<1>5. ASSUME NEW d \in Clients
      PROVE  /\ tx'[d].new # Absent => d # c /\ tx[d].new = tx'[d].new /\ tx[d].key = tx'[d].key
             /\ tx'[d].write # "none" => /\ d # c /\ tx[d].write = tx'[d].write
                                         /\ tx[d].table = tx'[d].table
                                         /\ tx[d].gkey = tx'[d].gkey
  <2>1. CASE d = c \/ tx[d].pc = "idle"
    BY <1>2, <2>1, CommitRequests
  <2>2. CASE d # c /\ tx[d].pc # "idle"
    <3> DEFINE f == tx[d].fit \cup Standing(stores', grants', tx[d].user, tx[d].key)
    <3>1. tx'[d] = [tx[d] EXCEPT !.fit = f, !.overtaken = TRUE]
      BY <2>2, CommitRequests
    <3> HIDE DEF f
    <3>2. tx[d] \in TxRecord
      BY RequestFacts
    <3> QED
      BY <2>2, <3>1, <3>2 DEF TxRecord
  <2> QED
    BY <2>1, <2>2
<1>6. StoreLocks'
  BY <1>5 DEF IInv, StoreLocks
<1>7. GrantLocks'
  BY <1>5 DEF IInv, GrantLocks
<1> QED
  BY <1>1, <1>4, <1>6, <1>7, CommitKeepsCreators DEF IInv

-----------------------------------------------------------------------------
(* The theorems.                                                            *)

LEMMA NextIInv == IInv /\ [Next]_vars => IInv'
<1> SUFFICES ASSUME IInv, [Next]_vars PROVE IInv'
  OBVIOUS
<1>1. CASE UNCHANGED vars
  <2>1. /\ stores' = stores /\ grants' = grants /\ removed' = removed /\ tx' = tx
        /\ faults' = faults
    BY <1>1 DEF vars
  <2>2. \A c \in Clients : RequestOK(c)'
    BY <2>1, OtherRequest DEF IInv
  <2> QED
    BY <2>1, <2>2 DEF IInv, TypeInv, StoreLocks, GrantLocks, CreatorHasAccess, Rows
<1>2. ASSUME NEW c \in Clients, NEW u \in Users, Begin(c, u) PROVE IInv'
  <2>1. CASE \E v \in Users \ Admins :
               \/ \E i \in Rows : LET pair == [user |-> v, object |-> i]
                                  IN GrantAccess(c, u, pair) \/ RevokeAccess(c, u, pair)
               \/ \E p \in Permissions :
                    LET pair == [user |-> v, object |-> p]
                    IN AssignPermission(c, u, pair) \/ RemovePermission(c, u, pair)
    BY <2>1, ChangeGrantSteps
  <2> QED
    BY <1>2, <2>1, RequestSteps DEF Begin
<1>3. ASSUME NEW c \in Clients, Denied(c) \/ NameTaken(c) \/ Reject(c) \/ Fail(c) PROVE IInv'
  BY <1>3, EndingSteps
<1>4. ASSUME NEW c \in Clients,
             \/ AskPolicy(c) \/ CheckName(c) \/ SelectBase(c) \/ UpdateRow(c)
             \/ NumberStore(c) \/ InsertStore(c)
      PROVE  IInv'
  BY <1>4, AskPolicyStep, CheckNameStep, SelectBaseStep, UpdateRowStep, NumberStoreStep,
     InsertStoreStep
<1>5. ASSUME NEW c \in Clients,
             \/ FindGrant(c) \/ NothingToDo(c) \/ NumberGrant(c) \/ InsertGrant(c)
             \/ FindRevoked(c) \/ DeleteGrant(c) \/ Commit(c)
      PROVE  IInv'
  BY <1>5, FindGrantStep, NothingToDoStep, NumberGrantStep, InsertGrantStep, FindRevokedStep,
     DeleteGrantStep, CommitStep
<1> QED
  BY <1>1, <1>2, <1>3, <1>4, <1>5 DEF Next

(* The invariant that the properties of StoreAccess rest on.                *)
THEOREM Invariance == Spec => []IInv
BY InitIInv, NextIInv, PTL DEF Spec

(* Stores, grants and written rows have their types (models.py).            *)
THEOREM TypesHold == Spec => []TypeOK
<1>1. IInv => TypeOK
  BY DEF IInv, TypeInv, TypeOK, TxRecord
<1> QED
  BY <1>1, Invariance, PTL

(* Whoever creates a store without being an administrator has access to it  *)
(* until a grant of that pair is deleted (create_store,                     *)
(* _ensure_creator_access).                                                 *)
THEOREM CreatorsHaveAccess == Spec => []CreatorHasAccess
<1>1. IInv => CreatorHasAccess
  BY DEF IInv
<1> QED
  BY <1>1, Invariance, PTL

(* What commits was allowed: everything the operation needs was true at     *)
(* some moment since the request began (_require_session_context,           *)
(* policy.py, get_store).                                                   *)
THEOREM OperationsAreAllowed == Spec => OperationWasAllowed
<1>1. IInv => \A c \in Clients : Committing(c) => Needs(tx[c].op) \subseteq tx[c].fit
  BY DEF IInv, RequestOK, FitOK, Committing
<1> QED
  BY <1>1, Invariance, PTL DEF OperationWasAllowed

(* A name is used twice, or a pair granted twice, only when another         *)
(* transaction committed after the check (_ensure_unique_name,              *)
(* _find_access, _find_user_permission).                                    *)
THEOREM UniquenessNeedsNoRace == Spec => DuplicatesNeedARace
<1>1. IInv => \A c \in Clients : Committing(c) /\ ~tx[c].overtaken =>
         /\ tx[c].form.name # Absent => ~Taken(tx[c].form.name, tx[c].key)
         /\ tx[c].write = "insert" =>
                \A k \in Granted(tx[c].table) : grants[tx[c].table][k] # tx[c].pair
  BY DEF IInv, RequestOK, UniqueOK, Committing, Found
<1> QED
  BY <1>1, Invariance, PTL DEF DuplicatesNeedARace
=============================================================================
