---------------------------- MODULE MCStoreAccess ----------------------------
(* Model values and an initial database for checking StoreAccess with TLC. *)
EXTENDS StoreAccess, TLC

CONSTANTS c1, c2, root, lead

MCClients == {c1, c2}
MCUsers   == {root, lead}
MCAdmins  == {root}

\* the lead may create stores, and created the only one
MCStores == [i \in Id |-> IF i = 1 THEN [name |-> "first", settings |-> 1, status |-> "active",
                                         by |-> "none", creator |-> lead]
                          ELSE Absent]
MCGrants == [t \in Tables |-> [k \in Key |->
                IF k > 1 THEN Absent
                ELSE [user |-> lead, object |-> IF t = "access" THEN 1 ELSE "create"]]]

Symmetric == Permutations(MCClients)
=============================================================================
