---------------------------- MODULE MCTempFiles ----------------------------
(* Model values and symmetry for checking TempFiles with TLC.              *)
EXTENDS TempFiles, TLC

CONSTANTS c1, c2, o1, o2

MCClients == {c1, c2}
MCClient  == {c1}
MCOwners  == {o1, o2}
Symmetric == Permutations(MCClients) \cup Permutations(MCOwners)
=============================================================================
