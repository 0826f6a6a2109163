------------------------------ MODULE MinMaxSum ------------------------------
(* Facts about Min, Max and sums of natural numbers, for the proofs about    *)
(* the components that number rows (max + 1), pick the first of them or add  *)
(* up their sizes.                                                           *)
EXTENDS FiniteSetsExt, Naturals, FiniteSetTheorems, WellFoundedInduction, TLAPS

(* first() and min() return a member: a set of naturals that is not empty   *)
(* has a least one (find_user_by_username, delete_access).                  *)
LEMMA MinOfNaturals ==
    ASSUME NEW S \in SUBSET Nat, S # {}
    PROVE  Min(S) \in S /\ \A x \in S : Min(S) <= x
<1>1. PICK x \in S : \A y \in S : ~ (<<y, x>> \in OpToRel(<, Nat))
  BY NatLessThanWellFounded, WFMin
<1>2. ASSUME NEW y \in S, y < x PROVE FALSE
  <2>1. <<y, x>> \in OpToRel(<, Nat)
    BY <1>2 DEF OpToRel
  <2> QED
    BY <1>1, <2>1
<1>3. \A y \in S : x <= y
  BY <1>2
<1> QED
  BY <1>3 DEF Min

(* max() of the keys of a table returns one of them when there is a bound    *)
(* (_next_id).                                                               *)
LEMMA MaxOfBounded ==
    ASSUME NEW S \in SUBSET Nat, S # {}, NEW b \in Nat, \A x \in S : x <= b
    PROVE  Max(S) \in S /\ \A x \in S : x <= Max(S)
<1> DEFINE T == {n \in Nat : \A y \in S : y <= n}
<1>1. b \in T
  OBVIOUS
<1>2. PICK m \in T : \A y \in T : ~ (<<y, m>> \in OpToRel(<, Nat))
  BY <1>1, NatLessThanWellFounded, WFMin
<1>3. m \in Nat /\ \A y \in S : y <= m
  BY <1>2
<1>4. m \in S
  <2>1. SUFFICES ASSUME m \notin S PROVE FALSE
    OBVIOUS
  <2>2. m > 0
    <3>1. PICK x \in S : TRUE
      OBVIOUS
    <3> QED
      BY <1>3, <2>1, <3>1
  <2>3. m - 1 \in Nat /\ \A y \in S : y <= m - 1
    BY <1>3, <2>1, <2>2
  <2>4. m - 1 \in T /\ <<m - 1, m>> \in OpToRel(<, Nat)
    BY <1>3, <2>3 DEF OpToRel
  <2> QED
    BY <1>2, <2>4
<1>5. \E x \in S : \A y \in S : x >= y
  BY <1>3, <1>4
<1> QED
  BY <1>5 DEF Max

\* the highest key of a table, 0 when it is empty
LEMMA HighestKey ==
    ASSUME NEW n \in Nat, NEW S \in SUBSET (1..n)
    PROVE  /\ Max(S \cup {0}) \in 0..n
           /\ \A i \in S : i <= Max(S \cup {0})
<1>1. S \cup {0} \in SUBSET Nat /\ S \cup {0} # {} /\ \A x \in S \cup {0} : x <= n
  OBVIOUS
<1>2. Max(S \cup {0}) \in S \cup {0} /\ \A x \in S \cup {0} : x <= Max(S \cup {0})
  BY <1>1, MaxOfBounded
<1>3. ASSUME NEW m \in S \cup {0} PROVE m \in 0..n
  OBVIOUS
<1>4. \A i \in S : i <= Max(S \cup {0})
  BY <1>2
<1> QED
  BY <1>2, <1>3, <1>4

-----------------------------------------------------------------------------
(* Sums.  MapThenSumSet is a recursive function over the subsets of a set.  *)
(* Its value is the number of units that the members have, as many as their *)
(* weights say: induction over finite sets is a smallest counterexample,    *)
(* and what remains to be said of a sum is said of a cardinality.           *)

Units(w, S)  == {u \in S \X Nat : u[2] \in 1..w[u[1]]}
Weight(w, S) == Cardinality(Units(w, S))

\* The units of one member.
LEMMA UnitsOf ==
    ASSUME NEW n \in Nat, NEW x
    PROVE  IsFiniteSet({x} \X (1..n)) /\ Cardinality({x} \X (1..n)) = n
<1>1. IsFiniteSet(1..n) /\ Cardinality(1..n) = n
  BY FS_Interval
<1>2. IsFiniteSet({x}) /\ Cardinality({x}) = 1
  BY FS_Singleton
<1>3. IsFiniteSet({x} \X (1..n)) /\ Cardinality({x} \X (1..n)) = Cardinality({x}) * Cardinality(1..n)
  BY <1>1, <1>2, FS_Product
<1> QED
  BY <1>1, <1>2, <1>3

\* One more member adds its weight.
LEMMA WeightWith ==
    ASSUME NEW w, NEW S, NEW x \in S, \A y \in S : w[y] \in Nat,
           IsFiniteSet(Units(w, S \ {x}))
    PROVE  IsFiniteSet(Units(w, S)) /\ Weight(w, S) = Weight(w, S \ {x}) + w[x]
<1> DEFINE A == Units(w, S \ {x})
           B == {x} \X (1..w[x])
<1>1. Units(w, S) = A \cup B
  BY DEF Units
<1>2. A \cap B = {}
  BY DEF Units
<1>3. IsFiniteSet(B) /\ Cardinality(B) = w[x]
  BY UnitsOf
<1>. HIDE DEF A, B
<1>4. IsFiniteSet(A \cup B) /\ Cardinality(A \cup B) = Cardinality(A) + Cardinality(B) - Cardinality(A \cap B)
  BY <1>3, FS_Union DEF A
<1>5. Cardinality(A \cap B) = 0
  BY <1>2, FS_EmptySet
<1>6. Cardinality(A) \in Nat
  BY FS_CardinalityType DEF A
<1> QED
  BY <1>1, <1>3, <1>4, <1>5, <1>6 DEF Weight, A

\* Of some finite sets one loses the property with any of its members.
LEMMA SmallestSubset ==
    ASSUME NEW S, IsFiniteSet(S), NEW F \in SUBSET (SUBSET S), F # {}
    PROVE  \E s \in F : \A x \in s : s \ {x} \notin F
<1>1. IsWellFoundedOn(StrictSubsetOrdering(S), SUBSET S)
  BY FS_StrictSubsetOrderingWellFounded, FS_FiniteSubsetsOfFinite
<1>2. PICK s \in F : \A t \in F : ~ (<<t, s>> \in StrictSubsetOrdering(S))
  BY <1>1, WFMin
<1>3. ASSUME NEW x \in s, s \ {x} \in F PROVE FALSE
  <2>1. <<s \ {x}, s>> \in StrictSubsetOrdering(S)
    BY <1>3 DEF StrictSubsetOrdering
  <2> QED
    BY <1>2, <1>3, <2>1
<1> QED
  BY <1>3

\* Finitely many members have finitely many units.
LEMMA UnitsFinite ==
    ASSUME NEW w, NEW S, IsFiniteSet(S), \A y \in S : w[y] \in Nat
    PROVE  IsFiniteSet(Units(w, S)) /\ Weight(w, S) \in Nat
<1> DEFINE F == {s \in SUBSET S : ~ IsFiniteSet(Units(w, s))}
<1>1. SUFFICES ASSUME F # {} PROVE FALSE
  BY FS_CardinalityType DEF Weight
<1>2. PICK s \in F : \A x \in s : s \ {x} \notin F
  <2> HIDE DEF F
  <2>1. F \in SUBSET (SUBSET S)
    BY DEF F
  <2> QED
    BY <1>1, <2>1, SmallestSubset
<1>3. CASE s = {}
  <2>1. Units(w, s) = {}
    BY <1>3 DEF Units
  <2> QED
    BY <2>1, FS_EmptySet
<1>4. CASE s # {}
  <2>1. PICK x \in s : TRUE
    BY <1>4
  <2>2. IsFiniteSet(Units(w, s \ {x}))
    BY <1>2
  <2>3. \A y \in s : w[y] \in Nat
    OBVIOUS
  <2> QED
    BY <2>2, <2>3, WeightWith
<1> QED
  BY <1>3, <1>4

\* the recursion of MapThenFoldSet
SumsUp(f, w, S) ==
    f = [s \in SUBSET S |->
            IF s = {} THEN 0
            ELSE w[CHOOSE x \in s : TRUE] + f[s \ {CHOOSE x \in s : TRUE}]]

\* The weight is such a function,
LEMMA WeightSumsUp ==
    ASSUME NEW w, NEW S, IsFiniteSet(S), \A y \in S : w[y] \in Nat
    PROVE  SumsUp([s \in SUBSET S |-> Weight(w, s)], w, S)
<1> DEFINE g == [s \in SUBSET S |-> Weight(w, s)]
           x(s) == CHOOSE x \in s : TRUE
<1>1. ASSUME NEW s \in SUBSET S
      PROVE  g[s] = IF s = {} THEN 0 ELSE w[x(s)] + g[s \ {x(s)}]
  <2>1. CASE s = {}
    <3>1. Units(w, s) = {}
      BY <2>1 DEF Units
    <3> QED
      BY <2>1, <3>1, FS_EmptySet DEF Weight
  <2>2. CASE s # {}
    <3>1. x(s) \in s
      BY <2>2
    <3> HIDE DEF x
    <3>2. IsFiniteSet(s \ {x(s)}) /\ \A y \in s : w[y] \in Nat
      BY FS_Subset
    <3>3. IsFiniteSet(Units(w, s \ {x(s)})) /\ Weight(w, s \ {x(s)}) \in Nat
      BY <3>2, UnitsFinite
    <3>4. Weight(w, s) = Weight(w, s \ {x(s)}) + w[x(s)]
      BY <3>1, <3>2, <3>3, WeightWith
    <3>5. g[s] = Weight(w, s) /\ g[s \ {x(s)}] = Weight(w, s \ {x(s)})
      OBVIOUS
    <3>6. w[x(s)] \in Nat
      BY <3>1
    <3> HIDE DEF g
    <3> QED
      BY <2>2, <3>3, <3>4, <3>5, <3>6
  <2> QED
    BY <2>1, <2>2
<1> QED
  BY <1>1 DEF SumsUp

\* and the only one.
LEMMA SumIsWeight ==
    ASSUME NEW w, NEW S, IsFiniteSet(S), \A y \in S : w[y] \in Nat,
           NEW f, SumsUp(f, w, S)
    PROVE  f[S] = Weight(w, S)
<1> DEFINE F == {s \in SUBSET S : f[s] # Weight(w, s)}
           g == [s \in SUBSET S |-> Weight(w, s)]
           x(s) == CHOOSE x \in s : TRUE
<1>1. SUFFICES ASSUME F # {} PROVE FALSE
  OBVIOUS
<1>2. PICK s \in F : \A y \in s : s \ {y} \notin F
  <2> HIDE DEF F
  <2>1. F \in SUBSET (SUBSET S)
    BY DEF F
  <2> QED
    BY <1>1, <2>1, SmallestSubset
<1>3. f[s] = IF s = {} THEN 0 ELSE w[x(s)] + f[s \ {x(s)}]
  BY DEF SumsUp
<1>4. SumsUp(g, w, S)
  BY WeightSumsUp
<1>5. g[s] = IF s = {} THEN 0 ELSE w[x(s)] + g[s \ {x(s)}]
  <2> HIDE DEF g, x
  <2> QED
    BY <1>4 DEF SumsUp, x
<1>6. CASE s = {}
  BY <1>3, <1>5, <1>6
<1>7. CASE s # {}
  <2>1. x(s) \in s
    BY <1>7
  <2>2. f[s \ {x(s)}] = g[s \ {x(s)}]
    BY <1>2, <2>1
  <2> QED
    BY <1>3, <1>5, <1>7, <2>2
<1> QED
  BY <1>6, <1>7

\* Fewer members do not weigh more.
LEMMA LessWeight ==
    ASSUME NEW v, NEW w, NEW T, IsFiniteSet(T), \A y \in T : w[y] \in Nat,
           NEW S \in SUBSET T, \A y \in S : v[y] = w[y]
    PROVE  Weight(v, S) \in Nat /\ Weight(w, T) \in Nat /\ Weight(v, S) <= Weight(w, T)
<1>1. Units(v, S) \in SUBSET Units(w, T)
  BY DEF Units
<1>2. IsFiniteSet(Units(w, T)) /\ Weight(w, T) \in Nat
  BY UnitsFinite
<1>3. IsFiniteSet(Units(v, S)) /\ Cardinality(Units(v, S)) <= Cardinality(Units(w, T))
  BY <1>1, <1>2, FS_Subset
<1> QED
  BY <1>2, <1>3, FS_CardinalityType DEF Weight

\* Nor do members that stand for different ones of the same weight.
LEMMA WeightThrough ==
    ASSUME NEW S, IsFiniteSet(S), NEW v, \A y \in S : v[y] \in Nat,
           NEW T, NEW w, NEW h \in Injection(T, S), \A x \in T : w[x] = v[h[x]]
    PROVE  Weight(w, T) <= Weight(v, S)
<1> DEFINE g == [u \in Units(w, T) |-> <<h[u[1]], u[2]>>]
<1>1. h \in [T -> S] /\ \A x, y \in T : h[x] = h[y] => x = y
  BY DEF Injection, IsInjective
<1>2. ASSUME NEW u \in Units(w, T) PROVE u[1] \in T /\ u[2] \in Nat /\ g[u] \in Units(v, S) /\ u = <<u[1], u[2]>>
  BY <1>1 DEF Units
<1>3. ASSUME NEW a \in Units(w, T), NEW b \in Units(w, T), g[a] = g[b] PROVE a = b
  <2>1. h[a[1]] = h[b[1]] /\ a[2] = b[2]
    BY <1>3
  <2> HIDE DEF g
  <2> QED
    BY <1>1, <1>2, <2>1
<1>4. g \in Injection(Units(w, T), Units(v, S))
  <2>1. g \in [Units(w, T) -> Units(v, S)]
    BY <1>2
  <2> HIDE DEF g
  <2> QED
    BY <1>3, <2>1 DEF Injection, IsInjective
<1> HIDE DEF g
<1>5. IsFiniteSet(Units(v, S))
  BY UnitsFinite
<1> QED
  BY <1>4, <1>5, FS_Injection DEF Weight
==============================================================================
