------------------------------- MODULE TempSet -------------------------------
(* What the temporary files of one module are for the users: every owner, a  *)
(* (user, store) pair, has a set that changes by whole operations, never     *)
(* breaks its limits, and is left alone by the uploads of the others.        *)
EXTENDS Naturals, FiniteSetsExt

CONSTANTS Owners, Module, Sizes, MaxTotal, MaxPromo, MaxFiles

VARIABLE set    \* the active files of all owners

Kinds == IF Module = "wb" THEN {"price", "promo"} ELSE {"none"}
File  == [path : 1..MaxFiles, owner : Owners, kind : Kinds, size : Sizes]

Of(o, files) == {f \in files : f.owner = o}

\* the files of one owner
SetOK(files) ==
    /\ \A f, g \in files : f.kind # "promo" /\ g.kind = f.kind => f = g
    /\ Module = "wb" =>
        /\ Cardinality({f \in files : f.kind = "promo"}) <= MaxPromo
        /\ MapThenSumSet(LAMBDA f : f.size, files) <= MaxTotal

SetsOK(files) == \A o \in Owners : SetOK(Of(o, files))

\* a new file takes the place of the file it supersedes, if there is one
Upload(f) ==
    /\ \A g \in set : g.path # f.path
    /\ set' = {g \in set : g.owner # f.owner \/ g.kind = "promo" \/ g.kind # f.kind}
                \cup {f}

Replace(g, f) ==
    /\ f.owner = g.owner /\ f.kind = g.kind
    /\ \A h \in set : h.path # f.path
    /\ set' = (set \ {g}) \cup {f}

\* deleted by the user or purged
Remove(files) == set' = set \ files

Init == set = {}
Next ==
    /\ \/ \E f \in File : Upload(f) \/ \E g \in set : Replace(g, f)
       \/ \E files \in SUBSET set : Remove(files)
    /\ SetsOK(set')
Spec == Init /\ [][Next]_set
=============================================================================
