----------------------------- MODULE MCRunEngine -----------------------------
(* Model values and symmetry for checking RunEngine with TLC.              *)
EXTENDS RunEngine, TLC

CONSTANTS l1, l2, c1, c2

MCLines   == {l1, l2}
MCLine    == {l1}
MCClients == {c1, c2}
MCClient  == {c1}
Symmetric == Permutations(MCClients) \cup Permutations(MCLines)
SymmetricClients == Permutations(MCClients)
=============================================================================
