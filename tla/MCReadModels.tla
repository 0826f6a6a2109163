---------------------------- MODULE MCReadModels ----------------------------
(* Stores, symmetry and queries for checking ReadModels with TLC. *)
EXTENDS ReadModels, TLC

CONSTANTS s1, s2

MCStores  == {s1, s2}
Symmetric == Permutations(MCStores)

Newest == [listing |-> "history", via |-> "page", size |-> 2, sort |-> "time", desc |-> TRUE,
           equal |-> [f \in {} |-> None], search |-> Unset, from |-> Unset, to |-> Unset, key |-> Unset]

\* the set is symmetric in the stores
MCQueries == {
    Newest,
    [Newest EXCEPT !.desc = FALSE, !.sort = "name", !.size = 3],
    [Newest EXCEPT !.listing = "logs", !.via = "api"],
    [Newest EXCEPT !.listing = "detail", !.desc = FALSE],
    [Newest EXCEPT !.listing = "detail", !.sort = "key", !.key = TRUE, !.from = 1, !.size = 3],
    [Newest EXCEPT !.sort = "key"]} \cup
    {[Newest EXCEPT !.equal = [store |-> s], !.search = <<"file", "a">>, !.sort = "finished", !.to = 1]
        : s \in MCStores}

\* oldest runs first, from page to page by the links
MCOldest == {[Newest EXCEPT !.desc = FALSE]}
=============================================================================
