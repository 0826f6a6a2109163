----------------------------- MODULE MCAccounts -----------------------------
(* Model values and initial tables for checking Accounts with TLC.         *)
EXTENDS Accounts, TLC

CONSTANTS c1, c2

MCClients   == {c1, c2}
MCNames     == {<<"ann", "lower">>, <<"ann", "upper">>, <<"bob", "lower">>}
MCPasswords == {"p", "q"}
MCEdits     == {[Nothing EXCEPT !.name = <<"ann", "upper">>], [Nothing EXCEPT !.admin = FALSE]}
MCNewUsers  == {[name |-> <<"ann", "lower">>, hash |-> "p", admin |-> TRUE, blocked |-> FALSE],
                [name |-> <<"ann", "upper">>, hash |-> "p", admin |-> FALSE, blocked |-> FALSE]}

Admin == [name |-> <<"ann", "lower">>, hash |-> "p", admin |-> TRUE, blocked |-> FALSE]
Other == [name |-> <<"bob", "lower">>, hash |-> "p", admin |-> FALSE, blocked |-> FALSE]

\* an installation without users, and one with an administrator and a user
MCTables == {[i \in Id |-> Absent], [i \in Id |-> IF i = 1 THEN Admin ELSE Other]}
Symmetric == Permutations(MCClients)
=============================================================================
