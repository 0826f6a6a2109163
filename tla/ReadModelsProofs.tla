--------------------------- MODULE ReadModelsProofs ---------------------------
(* Theorems about ReadModels, for every number of stores, runs, detail rows  *)
(* and changes, all queries and all page sizes: what a page contains, that   *)
(* the two forms of a listing agree, and what a walk over all pages shows    *)
(* while the tables change.                                                  *)
EXTENDS ReadModels, MinMaxSum, FiniteSetTheorems, SequenceTheorems, TLAPS

-----------------------------------------------------------------------------
(* Places in an order.                                                     *)

LEMMA MinOfTwo ==
    ASSUME NEW a \in Int, NEW b \in Int
    PROVE  Min({a, b}) = IF a <= b THEN a ELSE b
<1> DEFINE m == IF a <= b THEN a ELSE b
<1>1. m \in {a, b} /\ \A y \in {a, b} : m <= y
  OBVIOUS
<1>2. \A x \in {a, b} : (\A y \in {a, b} : x <= y) => x = m
  OBVIOUS
<1> QED
  BY <1>1, <1>2 DEF Min

LEMMA MaxOfTwo ==
    ASSUME NEW a \in Int, NEW b \in Int
    PROVE  Max({a, b}) = IF a >= b THEN a ELSE b
<1> DEFINE m == IF a >= b THEN a ELSE b
<1>1. m \in {a, b} /\ \A y \in {a, b} : m >= y
  OBVIOUS
<1>2. \A x \in {a, b} : (\A y \in {a, b} : x >= y) => x = m
  OBVIOUS
<1> QED
  BY <1>1, <1>2 DEF Max

(* In a finite set under a strict order, A[x] being what is ahead of x, the *)
(* places 1 + |A[x]| number the elements from 1 on without a gap.           *)
LEMMA PlacesNumber ==
    ASSUME NEW S, IsFiniteSet(S), NEW A \in [S -> SUBSET S],
           \A x \in S : x \notin A[x],
           \A x, y \in S : x # y => x \in A[y] \/ y \in A[x],
           \A x, y \in S : x \in A[y] => A[x] \subseteq A[y]
    PROVE  /\ Cardinality(S) \in Nat
           /\ \A x \in S : Cardinality(A[x]) \in Nat /\ 1 + Cardinality(A[x]) \in 1..Cardinality(S)
           /\ \A x, y \in S : Cardinality(A[x]) = Cardinality(A[y]) => x = y
           /\ \A n \in 1..Cardinality(S) : \E x \in S : 1 + Cardinality(A[x]) = n
<1> DEFINE N == Cardinality(S)
           F == [x \in S |-> 1 + Cardinality(A[x])]
<1>1. N \in Nat
  BY FS_CardinalityType
<1>2. ASSUME NEW x \in S
      PROVE  IsFiniteSet(A[x]) /\ Cardinality(A[x]) \in Nat /\ 1 + Cardinality(A[x]) \in 1..N
  <2>1. A[x] \in SUBSET (S \ {x})
    OBVIOUS
  <2>2. IsFiniteSet(S \ {x}) /\ Cardinality(S \ {x}) = N - 1
    BY FS_RemoveElement
  <2>3. IsFiniteSet(A[x]) /\ Cardinality(A[x]) <= N - 1
    BY <2>1, <2>2, FS_Subset
  <2>4. Cardinality(A[x]) \in Nat
    BY <2>3, FS_CardinalityType
  <2> QED
    BY <1>1, <2>3, <2>4
<1>3. ASSUME NEW x \in S, NEW y \in S, x \in A[y] PROVE Cardinality(A[x]) < Cardinality(A[y])
  <2>1. A[x] \cup {x} \in SUBSET A[y]
    BY <1>3
  <2>2. Cardinality(A[x] \cup {x}) = Cardinality(A[x]) + 1
    BY <1>2, FS_AddElement
  <2>3. Cardinality(A[x] \cup {x}) <= Cardinality(A[y])
    BY <1>2, <2>1, FS_Subset
  <2> QED
    BY <1>2, <2>2, <2>3
<1>4. ASSUME NEW x \in S, NEW y \in S, Cardinality(A[x]) = Cardinality(A[y]) PROVE x = y
  <2>1. SUFFICES ASSUME x # y PROVE FALSE
    OBVIOUS
  <2>2. x \in A[y] \/ y \in A[x]
    BY <2>1
  <2> QED
    BY <1>2, <1>3, <1>4, <2>2
<1>5. F \in [S -> 1..N] /\ \A x, y \in S : F[x] = F[y] => x = y
  <2>1. \A x, y \in S : 1 + Cardinality(A[x]) = 1 + Cardinality(A[y]) => x = y
    BY <1>2, <1>4
  <2> QED
    BY <1>2, <2>1
<1>6. F \in Injection(S, 1..N)
  BY <1>5 DEF Injection, IsInjective
<1>7. IsFiniteSet(1..N) /\ Cardinality(1..N) = N
  BY <1>1, FS_Interval
<1>8. F \in Surjection(S, 1..N)
  BY <1>6, <1>7, FS_Injection
<1>9. \A n \in 1..N : \E x \in S : F[x] = n
  BY <1>8 DEF Surjection
<1> QED
  BY <1>1, <1>2, <1>4, <1>9

-----------------------------------------------------------------------------
(* Types.                                                                  *)

RunRow == [store : Stores, file : Files, started : Times, finished : Times \cup {None},
           rows : RowCounts \cup {0}]
TablesOK ==
    /\ runs \in Seq(RunRow) /\ Len(runs) <= MaxRuns
    /\ \A i \in DOMAIN runs : runs[i].finished = None => runs[i].rows = 0
    /\ names \in [Stores -> Names] /\ access \subseteq Stores /\ changes \in 0..MaxChanges

IsQuery(q) ==
    /\ DOMAIN q = {"listing", "via", "size", "sort", "desc", "equal", "search", "from", "to", "key"}
    /\ q.listing \in Listings /\ q.via \in {"page", "api"} /\ q.size \in Nat
    /\ q.desc \in BOOLEAN /\ q.key \in BOOLEAN \cup {Unset}
    /\ q.from \in Nat \cup {Unset} /\ q.to \in Nat \cup {Unset}

\* the run whose page is asked for exists
Asked(q, i) == q.listing = "detail" => i \in DOMAIN runs

(* What a link keeps of a query.                                           *)
LEMMA LinkIsQuery ==
    ASSUME NEW q, IsQuery(q)
    PROVE  /\ IsQuery(LinkQuery(q))
           /\ LinkQuery(q).listing = q.listing /\ LinkQuery(q).size = q.size
           /\ LinkQuery(q).via = q.via
BY DEF IsQuery, LinkQuery, Listings

LEMMA NaturalOrNull ==
    ASSUME NEW S, S \subseteq Nat, NEW x, x \in S \cup {0}
    PROVE  x \in Nat
<1>1. CASE x \in S
  BY <1>1
<1>2. CASE x = 0
  BY <1>2
<1> QED
  BY <1>1, <1>2

LEMMA RunsAre ==
    ASSUME TablesOK
    PROVE  /\ Len(runs) \in Nat /\ DOMAIN runs = 1..Len(runs)
           /\ \A i \in DOMAIN runs :
                /\ runs[i] \in RunRow /\ i \in Nat /\ i # 0
                /\ runs[i].store \in Stores
                /\ names[runs[i].store] \in Names /\ names[runs[i].store] \in Nat
                /\ runs[i].started \in Nat \ {0}
                /\ runs[i].finished \in Nat /\ runs[i].rows \in Nat
<1>1. Len(runs) \in Nat /\ DOMAIN runs = 1..Len(runs) /\ runs \in [1..Len(runs) -> RunRow]
  BY LenProperties DEF TablesOK
<1>2. ASSUME NEW r \in RunRow
      PROVE  /\ r.store \in Stores /\ r.started \in Nat \ {0}
             /\ r.finished \in Nat /\ r.rows \in Nat
  <2>1. Times \subseteq Nat \ {0} /\ Times \subseteq Nat
        /\ RowCounts \subseteq Nat
    BY ReadModelsAssumption
  <2>2. r.store \in Stores /\ r.started \in Times /\ r.finished \in Times \cup {None}
        /\ r.rows \in RowCounts \cup {0}
    BY DEF RunRow
  <2>3. r.started \in Nat \ {0}
    BY <2>1, <2>2
  <2>4. r.finished \in Nat
    BY <2>1, <2>2, NaturalOrNull DEF None
  <2>5. r.rows \in Nat
    BY <2>1, <2>2, NaturalOrNull
  <2> QED
    BY <2>2, <2>3, <2>4, <2>5
<1>3. ASSUME NEW i \in DOMAIN runs PROVE runs[i] \in RunRow /\ i \in Nat /\ i # 0
  BY <1>1
<1>4. \A s \in Stores : names[s] \in Names /\ names[s] \in Nat
  BY ReadModelsAssumption DEF TablesOK
<1> QED
  BY <1>1, <1>2, <1>3, <1>4

-----------------------------------------------------------------------------
(* The rows of a listing, by their ids.                                    *)

Ids(q, i)       == IF q.listing = "detail" THEN 1..runs[i].rows ELSE DOMAIN runs
RowAt(q, i, id) == CASE q.listing = "history" -> HistoryRow(id)
                     [] q.listing = "logs"    -> LogRow(id)
                     [] OTHER                 -> DetailRow(i, id)
Matching(q, i, scope) == {id \in Ids(q, i) : SqlSelects(q, scope, RowAt(q, i, id))}
Before(q, i, id, jd)  == SqlBefore(q, RowAt(q, i, id), RowAt(q, i, jd))
AheadOf(q, i, scope, id) == {jd \in Matching(q, i, scope) : Before(q, i, jd, id)}
PlaceOf(q, i, scope, id) == 1 + Cardinality(AheadOf(q, i, scope, id))

LEMMA RowFields ==
    ASSUME TablesOK, NEW q, IsQuery(q), NEW i, Asked(q, i), NEW id \in Ids(q, i)
    PROVE  LET x == RowAt(q, i, id) IN
           /\ x.id = id /\ id \in Nat
           /\ x.store \in Stores /\ x.run \in Nat /\ x.time \in Nat
           /\ q.listing # "detail" => x.name \in Nat
           /\ x.finished \in Nat /\ x.key \in Nat
<1>1. CASE q.listing = "history"
  BY <1>1, RunsAre DEF Ids, RowAt, HistoryRow
<1>2. CASE q.listing = "logs"
  BY <1>2, RunsAre DEF Ids, RowAt, LogRow, None
<1>3. CASE q.listing = "detail"
  <2>1. i \in DOMAIN runs /\ id \in 1..runs[i].rows /\ RowAt(q, i, id) = DetailRow(i, id)
    BY <1>3 DEF Ids, RowAt, Asked
  <2>2. id \in Nat /\ (IF id % 2 = 0 THEN None ELSE id) \in Nat
    BY <2>1, RunsAre DEF None
  <2> QED
    BY <1>3, <2>1, <2>2, RunsAre DEF DetailRow, None
<1> QED
  BY <1>1, <1>2, <1>3 DEF IsQuery, Listings

LEMMA RowsAre ==
    ASSUME TablesOK, NEW q, IsQuery(q), NEW i, Asked(q, i), NEW scope
    PROVE  /\ Rows(q.listing, i) = {RowAt(q, i, id) : id \in Ids(q, i)}
           /\ SqlRows(q, i, scope) = {RowAt(q, i, id) : id \in Matching(q, i, scope)}
<1>1. Rows(q.listing, i) = {RowAt(q, i, id) : id \in Ids(q, i)}
  <2>1. CASE q.listing = "history"
    BY <2>1 DEF Rows, Ids, RowAt
  <2>2. CASE q.listing = "logs"
    BY <2>2 DEF Rows, Ids, RowAt
  <2>3. CASE q.listing = "detail"
    BY <2>3 DEF Rows, Ids, RowAt
  <2> QED
    BY <2>1, <2>2, <2>3 DEF IsQuery, Listings
<1> QED
  BY <1>1 DEF SqlRows, Matching

LEMMA IdsFinite ==
    ASSUME TablesOK, NEW q, IsQuery(q), NEW i, Asked(q, i), NEW scope
    PROVE  IsFiniteSet(Matching(q, i, scope))
<1>1. /\ Len(runs) \in Nat /\ DOMAIN runs = 1..Len(runs)
      /\ \A j \in DOMAIN runs : runs[j].rows \in Nat
  BY RunsAre
<1>2. \A n \in Nat : IsFiniteSet(1..n)
  BY FS_Interval
<1>3. IsFiniteSet(Ids(q, i))
  BY <1>1, <1>2 DEF Ids, Asked
<1> QED
  BY <1>3, FS_Subset DEF Matching

(* Counting rows is counting ids.                                          *)
LEMMA RowsCounted ==
    ASSUME TablesOK, NEW q, IsQuery(q), NEW i, Asked(q, i), NEW scope,
           NEW I \in SUBSET Matching(q, i, scope)
    PROVE  LET R == {RowAt(q, i, id) : id \in I} IN
           IsFiniteSet(R) /\ Cardinality(R) = Cardinality(I) /\ Cardinality(R) \in Nat
<1> DEFINE R == {RowAt(q, i, id) : id \in I}
           F == [id \in I |-> RowAt(q, i, id)]
<1>1. IsFiniteSet(I)
  BY IdsFinite, FS_Subset
<1>2. \A id \in I : RowAt(q, i, id).id = id
  BY RowFields DEF Matching
<1>3. F \in Bijection(I, R)
  <2>1. F \in [I -> R] /\ \A a, b \in I : F[a] = F[b] => a = b
    BY <1>2
  <2>2. \A r \in R : \E id \in I : F[id] = r
    OBVIOUS
  <2> QED
    BY <2>1, <2>2 DEF Bijection, Injection, IsInjective, Surjection
<1>4. ExistsBijection(I, R)
  BY <1>3 DEF ExistsBijection
<1> QED
  BY <1>1, <1>4, FS_Bijection, FS_CardinalityType

-----------------------------------------------------------------------------
(* What the order of a query is, and what a page of it contains.           *)

LEMMA SortValue ==
    ASSUME TablesOK, NEW q, IsQuery(q), q.sort \in SortFields(q.listing), NEW i, Asked(q, i),
           NEW id \in Ids(q, i)
    PROVE  RowAt(q, i, id)[q.sort] \in Nat
<1> DEFINE x == RowAt(q, i, id)
<1>1. /\ x.time \in Nat /\ x.finished \in Nat /\ x.key \in Nat
      /\ q.listing # "detail" => x.name \in Nat
  BY RowFields
<1> HIDE DEF x
<1>2. q.sort \in {"time", "finished", "key"} \/ (q.sort = "name" /\ q.listing # "detail")
  BY DEF SortFields
<1>3. x[q.sort] \in Nat
  BY <1>1, <1>2
<1> QED
  BY <1>3 DEF x

LEMMA BelowIsOrder ==
    ASSUME NEW a \in Nat, NEW b \in Nat, NEW c \in Nat
    PROVE  /\ ~ Below(a, a)
           /\ a # b => Below(a, b) \/ Below(b, a)
           /\ Below(a, b) /\ Below(b, c) => Below(a, c)
           /\ ~ (Below(a, b) /\ Below(b, a))
BY DEF Below, None

\* the order by the values of the column, and by the ids where these are equal
ByValue(q, a, b) == IF q.desc THEN Below(b, a) ELSE Below(a, b)
ByIds(q, x, y)   == IF q.listing = "detail" THEN x < y ELSE x > y

LEMMA BeforeIs ==
    ASSUME TablesOK, NEW q, IsQuery(q), NEW i, Asked(q, i),
           NEW x \in Ids(q, i), NEW y \in Ids(q, i)
    PROVE  LET a == RowAt(q, i, x)[q.sort]
               b == RowAt(q, i, y)[q.sort]
           IN  /\ a # b => (Before(q, i, x, y) <=> ByValue(q, a, b))
               /\ a = b => (Before(q, i, x, y) <=> ByIds(q, x, y))
<1> DEFINE u == RowAt(q, i, x)
           v == RowAt(q, i, y)
<1>1. u.id = x /\ v.id = y
  BY RowFields
<1>2. Before(q, i, x, y) <=> SqlBefore(q, u, v)
  BY DEF Before
<1> HIDE DEF u, v
<1>3. u[q.sort] # v[q.sort] => (SqlBefore(q, u, v) <=> ByValue(q, u[q.sort], v[q.sort]))
  BY DEF SqlBefore, ByValue
<1>4. u[q.sort] = v[q.sort] => (SqlBefore(q, u, v) <=> ByIds(q, x, y))
  BY <1>1 DEF SqlBefore, ByIds
<1> QED
  BY <1>2, <1>3, <1>4 DEF u, v

(* ORDER BY with the id as the last column is a strict order.               *)
LEMMA BeforeIsOrder ==
    ASSUME TablesOK, NEW q, IsQuery(q), q.sort \in SortFields(q.listing), NEW i, Asked(q, i),
           NEW x \in Ids(q, i), NEW y \in Ids(q, i), NEW z \in Ids(q, i)
    PROVE  /\ ~ Before(q, i, x, x)
           /\ x # y => Before(q, i, x, y) \/ Before(q, i, y, x)
           /\ Before(q, i, x, y) /\ Before(q, i, y, z) => Before(q, i, x, z)
<1> DEFINE a == RowAt(q, i, x)[q.sort]
           b == RowAt(q, i, y)[q.sort]
           c == RowAt(q, i, z)[q.sort]
<1>1. a \in Nat /\ b \in Nat /\ c \in Nat
  BY SortValue
<1>2. /\ RowAt(q, i, x).id = x /\ RowAt(q, i, y).id = y /\ RowAt(q, i, z).id = z
      /\ x \in Nat /\ y \in Nat /\ z \in Nat
  BY RowFields
<1>3. /\ a # b => (Before(q, i, x, y) <=> ByValue(q, a, b))
      /\ a = b => (Before(q, i, x, y) <=> ByIds(q, x, y))
      /\ b # a => (Before(q, i, y, x) <=> ByValue(q, b, a))
      /\ b = a => (Before(q, i, y, x) <=> ByIds(q, y, x))
      /\ b # c => (Before(q, i, y, z) <=> ByValue(q, b, c))
      /\ b = c => (Before(q, i, y, z) <=> ByIds(q, y, z))
      /\ a # c => (Before(q, i, x, z) <=> ByValue(q, a, c))
      /\ a = c => (Before(q, i, x, z) <=> ByIds(q, x, z))
      /\ Before(q, i, x, x) <=> ByIds(q, x, x)
  BY BeforeIs
<1> HIDE DEF a, b, c
<1>4. /\ a # b => ByValue(q, a, b) \/ ByValue(q, b, a)
      /\ ByValue(q, a, b) /\ ByValue(q, b, c) => ByValue(q, a, c)
      /\ ~ (ByValue(q, a, b) /\ ByValue(q, b, a))
  BY <1>1, BelowIsOrder DEF ByValue
<1>5. /\ ~ ByIds(q, x, x)
      /\ x # y => ByIds(q, x, y) \/ ByIds(q, y, x)
      /\ ByIds(q, x, y) /\ ByIds(q, y, z) => ByIds(q, x, z)
  BY <1>2 DEF ByIds
<1>6. Before(q, i, x, y) /\ Before(q, i, y, z) => Before(q, i, x, z)
  <2>1. CASE a = b
    BY <1>3, <1>5, <2>1
  <2>2. CASE b = c
    BY <1>3, <1>5, <2>2
  <2>3. CASE a # b /\ b # c
    BY <1>3, <1>4, <2>3
  <2> QED
    BY <2>1, <2>2, <2>3
<1> QED
  BY <1>3, <1>4, <1>5, <1>6

(* The places of the matching rows number them from 1 on.                   *)
LEMMA Places ==
    ASSUME TablesOK, NEW q, IsQuery(q), q.sort \in SortFields(q.listing), NEW i, Asked(q, i),
           NEW scope
    PROVE  LET M == Matching(q, i, scope)
               Place(id) == PlaceOf(q, i, scope, id)
           IN  /\ Cardinality(M) \in Nat
               /\ \A id \in M : Place(id) \in 1..Cardinality(M)
               /\ \A x, y \in M : Place(x) = Place(y) => x = y
               /\ \A n \in 1..Cardinality(M) : \E id \in M : Place(id) = n
<1> DEFINE M == Matching(q, i, scope)
           A == [id \in M |-> AheadOf(q, i, scope, id)]
<1>1. IsFiniteSet(M)
  BY IdsFinite
<1>2. A \in [M -> SUBSET M]
  BY DEF AheadOf
<1>3. \A x, y \in M : x \in A[y] <=> Before(q, i, x, y)
  BY DEF AheadOf
<1>4. \A x \in M : x \in Ids(q, i)
  BY DEF Matching
<1>5. /\ \A x \in M : x \notin A[x]
      /\ \A x, y \in M : x # y => x \in A[y] \/ y \in A[x]
  BY <1>3, <1>4, BeforeIsOrder
<1>6. ASSUME NEW x \in M, NEW y \in M, x \in A[y], NEW z \in A[x] PROVE z \in A[y]
  <2>1. z \in M
    BY <1>2, <1>6
  <2> QED
    BY <1>3, <1>4, <1>6, <2>1, BeforeIsOrder
<1>7. \A x \in M : PlaceOf(q, i, scope, x) = 1 + Cardinality(A[x])
  BY DEF PlaceOf
<1> HIDE DEF A, M
<1>8. \A x, y \in M : x \in A[y] => A[x] \subseteq A[y]
  BY <1>6
<1>9. /\ Cardinality(M) \in Nat
      /\ \A x \in M : Cardinality(A[x]) \in Nat /\ 1 + Cardinality(A[x]) \in 1..Cardinality(M)
      /\ \A x, y \in M : Cardinality(A[x]) = Cardinality(A[y]) => x = y
      /\ \A n \in 1..Cardinality(M) : \E x \in M : 1 + Cardinality(A[x]) = n
  BY <1>1, <1>2, <1>5, <1>8, PlacesNumber
<1>10. \A x, y \in M : PlaceOf(q, i, scope, x) = PlaceOf(q, i, scope, y) => x = y
  BY <1>7, <1>9
<1>11. \A n \in 1..Cardinality(M) : \E id \in M : PlaceOf(q, i, scope, id) = n
  BY <1>7, <1>9
<1>12. \A id \in M : PlaceOf(q, i, scope, id) \in 1..Cardinality(M)
  BY <1>7, <1>9
<1> QED
  BY <1>9, <1>10, <1>11, <1>12 DEF M

LEMMA OffsetIs ==
    ASSUME NEW page \in Nat \ {0}, NEW size \in Nat
    PROVE  /\ Offset(page, size) \in Nat
           /\ Offset(page + 1, size) = Offset(page, size) + size
<1>1. page - 1 \in Nat
  OBVIOUS
<1>2. \A m \in Nat : m * size \in Nat /\ (m + 1) * size = m * size + size
  OBVIOUS
<1>3. (page + 1) - 1 = (page - 1) + 1
  OBVIOUS
<1> QED
  BY <1>1, <1>2, <1>3 DEF Offset

LEMMA PageLength ==
    ASSUME NEW c \in Nat, NEW first \in Nat, NEW size \in Nat
    PROVE  LET len == Max({0, Min({c, first + size}) - first}) IN
           /\ len \in Nat /\ len <= size
           /\ \A n \in 1..len : first + n \in 1..c
           /\ \A p \in 1..c : p > first /\ p <= first + size => p - first \in 1..len
<1> DEFINE last == Min({c, first + size})
           len  == Max({0, last - first})
<1>1. last = IF c <= first + size THEN c ELSE first + size
  BY MinOfTwo
<1>2. last \in Int /\ last - first \in Int
  BY <1>1
<1> HIDE DEF last
<1>3. len = IF 0 >= last - first THEN 0 ELSE last - first
  BY <1>2, MaxOfTwo
<1> HIDE DEF len
<1>4. len \in Nat /\ len <= size
  BY <1>1, <1>2, <1>3
<1>5. \A n \in 1..len : first + n \in 1..c
  BY <1>1, <1>2, <1>3
<1>6. \A p \in 1..c : p > first /\ p <= first + size => p - first \in 1..len
  BY <1>1, <1>2, <1>3
<1> QED
  BY <1>4, <1>5, <1>6 DEF len, last

(* The place of a row among the rows that the query selects.               *)
RowPlace(q, i, scope, x) == 1 + Cardinality({y \in SqlRows(q, i, scope) : SqlBefore(q, y, x)})

LEMMA RowPlaces ==
    ASSUME TablesOK, NEW q, IsQuery(q), q.sort \in SortFields(q.listing), NEW i, Asked(q, i),
           NEW scope
    PROVE  LET R == SqlRows(q, i, scope)
               M == Matching(q, i, scope)
           IN  /\ Cardinality(R) = Cardinality(M) /\ Cardinality(R) \in Nat
               /\ \A id \in M : RowPlace(q, i, scope, RowAt(q, i, id)) = PlaceOf(q, i, scope, id)
               /\ \A n \in 1..Cardinality(R) : \E x \in R : RowPlace(q, i, scope, x) = n
               /\ \A x, y \in R : RowPlace(q, i, scope, x) = RowPlace(q, i, scope, y) => x = y
<1> DEFINE R == SqlRows(q, i, scope)
           M == Matching(q, i, scope)
           Place(x) == RowPlace(q, i, scope, x)
<1>2. R = {RowAt(q, i, id) : id \in M} /\ \A id \in M : id \in Ids(q, i) /\ RowAt(q, i, id).id = id
  BY RowsAre, RowFields DEF Matching
<1>3. Cardinality(R) = Cardinality(M)
  <2>1. M \in SUBSET Matching(q, i, scope)
    OBVIOUS
  <2> HIDE DEF M, R
  <2>2. Cardinality({RowAt(q, i, id) : id \in M}) = Cardinality(M)
    BY <2>1, RowsCounted
  <2> QED
    BY <1>2, <2>2
<1>4. ASSUME NEW id \in M PROVE Place(RowAt(q, i, id)) = PlaceOf(q, i, scope, id)
  <2> DEFINE I == AheadOf(q, i, scope, id)
  <2>1. I \in SUBSET M
    BY DEF AheadOf
  <2>2. {y \in R : SqlBefore(q, y, RowAt(q, i, id))} = {RowAt(q, i, jd) : jd \in I}
    BY <1>2 DEF AheadOf, Before
  <2>3. PlaceOf(q, i, scope, id) = 1 + Cardinality(I)
    BY DEF PlaceOf
  <2> HIDE DEF I, M, R
  <2>5. I \in SUBSET Matching(q, i, scope)
    BY <2>1 DEF M
  <2>4. Cardinality({RowAt(q, i, jd) : jd \in I}) = Cardinality(I)
    BY <2>5, RowsCounted
  <2> QED
    BY <2>2, <2>3, <2>4 DEF R, RowPlace
<1>6. /\ Cardinality(M) \in Nat
      /\ \A id \in M : PlaceOf(q, i, scope, id) \in 1..Cardinality(M)
      /\ \A x, y \in M : PlaceOf(q, i, scope, x) = PlaceOf(q, i, scope, y) => x = y
      /\ \A n \in 1..Cardinality(M) : \E id \in M : PlaceOf(q, i, scope, id) = n
  BY Places
<1> HIDE DEF R, M, Place
<1>7. ASSUME NEW n \in 1..Cardinality(R) PROVE \E x \in R : Place(x) = n
  <2>1. PICK id \in M : PlaceOf(q, i, scope, id) = n
    BY <1>3, <1>6
  <2> QED
    BY <1>2, <1>4, <2>1
<1>8. ASSUME NEW x \in R, NEW y \in R, Place(x) = Place(y) PROVE x = y
  <2>1. PICK xd \in M : x = RowAt(q, i, xd)
    BY <1>2
  <2>2. PICK yd \in M : y = RowAt(q, i, yd)
    BY <1>2
  <2> QED
    BY <1>4, <1>6, <1>8, <2>1, <2>2
<1>9. Cardinality(R) = Cardinality(M) /\ Cardinality(R) \in Nat
  BY <1>3, <1>6
<1> QED
  BY <1>4, <1>7, <1>8, <1>9 DEF R, M, Place

\* a page shows the row of an id
OnPage(P, id) == \E n \in DOMAIN P : P[n].id = id

(* The row at a place, and the places of a page (LIMIT and OFFSET).         *)
LEMMA PageIs ==
    ASSUME TablesOK, NEW q, IsQuery(q), q.sort \in SortFields(q.listing), NEW i, Asked(q, i),
           NEW scope, NEW page \in Nat \ {0}
    PROVE  LET P == SqlPage(q, i, scope, page)
               first == Offset(page, q.size)
           IN  /\ P \in Seq(SqlRows(q, i, scope)) /\ Len(P) <= q.size
               /\ \A id \in Matching(q, i, scope) :
                    LET place == PlaceOf(q, i, scope, id) IN
                    place > first /\ place <= first + q.size => OnPage(P, id)
<1> DEFINE P == SqlPage(q, i, scope, page)
           first == Offset(page, q.size)
           R == SqlRows(q, i, scope)
           M == Matching(q, i, scope)
           Place(x) == 1 + Cardinality({y \in R : SqlBefore(q, y, x)})
           len == Max({0, Min({Cardinality(R), first + q.size}) - first})
<1>1. /\ DOMAIN SqlPlaces(q, R) = R /\ \A x \in R : SqlPlaces(q, R)[x] = Place(x)
      /\ P = [n \in 1..len |-> CHOOSE x \in R : SqlPlaces(q, R)[x] = first + n]
  <2>1. DOMAIN SqlPlaces(q, R) = R /\ \A x \in R : SqlPlaces(q, R)[x] = Place(x)
    BY DEF SqlPlaces
  <2> QED
    BY <2>1 DEF SqlPage, Page
<1>2. R = {RowAt(q, i, id) : id \in M} /\ \A id \in M : id \in Ids(q, i) /\ RowAt(q, i, id).id = id
  BY RowsAre, RowFields DEF Matching
<1>3. Cardinality(R) = Cardinality(M)
  BY <1>2, RowsCounted
<1>4. \A id \in M : Place(RowAt(q, i, id)) = PlaceOf(q, i, scope, id)
  BY RowPlaces DEF RowPlace
<1>5. first \in Nat /\ q.size \in Nat
  BY OffsetIs DEF IsQuery
<1>6. /\ Cardinality(M) \in Nat
      /\ \A id \in M : PlaceOf(q, i, scope, id) \in 1..Cardinality(M)
      /\ \A x, y \in M : PlaceOf(q, i, scope, x) = PlaceOf(q, i, scope, y) => x = y
      /\ \A n \in 1..Cardinality(M) : \E id \in M : PlaceOf(q, i, scope, id) = n
  BY Places
<1> HIDE DEF P, first, R, M, Place, len
<1>7. /\ len \in Nat /\ len <= q.size
      /\ \A n \in 1..len : first + n \in 1..Cardinality(M)
      /\ \A p \in 1..Cardinality(M) : p > first /\ p <= first + q.size => p - first \in 1..len
  BY <1>3, <1>5, <1>6, PageLength DEF len
<1>8. ASSUME NEW n \in 1..len PROVE P[n] \in R /\ Place(P[n]) = first + n
  <2>1. PICK id \in M : PlaceOf(q, i, scope, id) = first + n
    BY <1>6, <1>7
  <2>2. RowAt(q, i, id) \in R /\ Place(RowAt(q, i, id)) = first + n
    BY <1>2, <1>4, <2>1
  <2>3. P[n] = CHOOSE x \in R : SqlPlaces(q, R)[x] = first + n
    BY <1>1
  <2> QED
    BY <1>1, <2>2, <2>3
<1>9. ASSUME NEW id \in M, PlaceOf(q, i, scope, id) > first,
             PlaceOf(q, i, scope, id) <= first + q.size
      PROVE  \E n \in DOMAIN P : P[n].id = id
  <2> DEFINE n == PlaceOf(q, i, scope, id) - first
  <2>1. n \in 1..len /\ PlaceOf(q, i, scope, id) = first + n
    BY <1>5, <1>6, <1>7, <1>9
  <2>2. PICK jd \in M : P[n] = RowAt(q, i, jd)
    BY <1>2, <1>8, <2>1
  <2>3. PlaceOf(q, i, scope, jd) = first + n
    BY <1>4, <1>8, <2>1, <2>2
  <2>4. jd = id
    BY <1>6, <2>1, <2>3
  <2> QED
    BY <1>1, <1>2, <2>1, <2>2, <2>4
<1>10. P \in Seq(R) /\ Len(P) = len
  <2>1. P \in [1..len -> R]
    BY <1>1, <1>8
  <2>2. P \in Seq(R)
    BY <1>7, <2>1, SeqDef
  <2>3. 1..Len(P) = 1..len /\ Len(P) \in Nat
    BY <2>1, <2>2, LenProperties
  <2> QED
    BY <1>7, <2>2, <2>3
<1>11. \A id \in M : PlaceOf(q, i, scope, id) > first /\ PlaceOf(q, i, scope, id) <= first + q.size
                      => OnPage(P, id)
  BY <1>9 DEF OnPage
<1> QED
  BY <1>7, <1>10, <1>11 DEF P, R, M, first

-----------------------------------------------------------------------------
(* The two forms of a listing.                                             *)

LEMMA ServiceRowsAre ==
    ASSUME TablesOK, NEW q, IsQuery(q), NEW i, Asked(q, i), NEW scope
    PROVE  ServiceRows(q, i, scope) = SqlRows(q, i, scope)
<1>1. ASSUME NEW x \in Rows(q.listing, i)
      PROVE  (x.store \in scope /\ ~ServiceRejects(q, x)) <=> SqlSelects(q, scope, x)
  <2>1. PICK id \in Ids(q, i) : x = RowAt(q, i, id)
    BY RowsAre
  <2>2. x.time \in Nat
    BY <2>1, RowFields
  <2>3. /\ ~ (q.from # Unset /\ x.time < q.from) <=> (q.from # Unset => x.time >= q.from)
        /\ ~ (q.to # Unset /\ x.time > q.to) <=> (q.to # Unset => x.time <= q.to)
    BY <2>2 DEF IsQuery
  <2>4. ~ (q.key = TRUE /\ x.key = None) /\ ~ (q.key = FALSE /\ x.key # None)
        <=> (q.key # Unset => (x.key # None) = q.key)
    <3>1. Unset # TRUE /\ Unset # FALSE
      BY ReadModelsAssumption
    <3>2. q.key = TRUE \/ q.key = FALSE \/ q.key = Unset
      BY DEF IsQuery
    <3> QED
      BY <3>1, <3>2
  <2> QED
    BY <2>3, <2>4 DEF ServiceRejects, SqlSelects
<1> QED
  BY <1>1 DEF ServiceRows, SqlRows

(* The SQL query and the service's own filtering give the same page.        *)
LEMMA Agreement ==
    ASSUME TablesOK
    PROVE  PagesAgree
<1> SUFFICES ASSUME NEW q \in Queries, NEW i \in Run, NEW u \in Users, NEW page \in 1..MaxRuns,
                    q.sort \in SortFields(q.listing), q.listing = "detail" => i \in DOMAIN runs,
                    \A x, y \in SqlRows(q, i, Scope(u)) :
                        x[q.sort] # None /\ (x # y => x[q.sort] # y[q.sort])
             PROVE  SqlPage(q, i, Scope(u), page) = ServicePage(q, i, Scope(u), page)
  BY DEF PagesAgree
<1> DEFINE R == SqlRows(q, i, Scope(u))
<1>1. IsQuery(q) /\ Asked(q, i)
  BY ReadModelsAssumption DEF IsQuery, Asked
<1>2. ServiceRows(q, i, Scope(u)) = R
  BY <1>1, ServiceRowsAre
<1>3. ASSUME NEW x \in R PROVE ServiceKey(q, x) = x[q.sort] /\ x[q.sort] \in Nat /\ x[q.sort] # 0
  <2>1. x[q.sort] # None
    OBVIOUS
  <2>2. PICK id \in Matching(q, i, Scope(u)) : x = RowAt(q, i, id)
    BY <1>1, RowsAre
  <2>3. x[q.sort] \in Nat
    BY <1>1, <2>2, SortValue DEF Matching
  <2>4. q.sort = "finished" => x.finished = x[q.sort]
    OBVIOUS
  <2> QED
    BY <2>1, <2>3, <2>4 DEF ServiceKey, None
<1>4. ASSUME NEW x \in R, NEW y \in R PROVE ServiceAhead(q, x, y) <=> SqlBefore(q, x, y)
  <2>1. x.id \in Nat /\ y.id \in Nat
    BY <1>1, RowsAre, RowFields DEF Matching
  <2>2. q.desc \in BOOLEAN
    BY <1>1 DEF IsQuery
  <2>3. CASE x = y
    BY <1>3, <2>1, <2>3 DEF ServiceAhead, SqlBefore
  <2>4. CASE x # y
    <3>1. x[q.sort] # y[q.sort]
      BY <2>4
    <3> QED
      BY <1>3, <2>2, <3>1 DEF ServiceAhead, SqlBefore, Below, None
  <2> QED
    BY <2>3, <2>4
<1> DEFINE first == Offset(page, q.size)
           len   == Max({0, Min({Cardinality(R), first + q.size}) - first})
           Place(x) == 1 + Cardinality({y \in R : ServiceAhead(q, y, x)})
           P == SqlPage(q, i, Scope(u), page)
           S == ServicePage(q, i, Scope(u), page)
<1>5. /\ DOMAIN SqlPlaces(q, R) = R
      /\ \A x \in R : SqlPlaces(q, R)[x] = RowPlace(q, i, Scope(u), x)
      /\ P = [n \in 1..len |-> CHOOSE x \in R : SqlPlaces(q, R)[x] = first + n]
  <2>1. DOMAIN SqlPlaces(q, R) = R /\ \A x \in R : SqlPlaces(q, R)[x] = RowPlace(q, i, Scope(u), x)
    BY DEF SqlPlaces, RowPlace
  <2> QED
    BY <2>1 DEF SqlPage, Page
<1>6. /\ DOMAIN ServicePlaces(q, R) = R
      /\ \A x \in R : ServicePlaces(q, R)[x] = Place(x)
      /\ S = [n \in 1..len |-> CHOOSE x \in R : ServicePlaces(q, R)[x] = first + n]
  <2>1. DOMAIN ServicePlaces(q, R) = R /\ \A x \in R : ServicePlaces(q, R)[x] = Place(x)
    BY DEF ServicePlaces
  <2> QED
    BY <1>2, <2>1 DEF ServicePage, Page
<1>7. \A x \in R : Place(x) = RowPlace(q, i, Scope(u), x)
  <2>1. \A x \in R : {y \in R : ServiceAhead(q, y, x)} = {y \in R : SqlBefore(q, y, x)}
    BY <1>4
  <2> QED
    BY <2>1 DEF RowPlace
<1>8. /\ Cardinality(R) \in Nat
      /\ \A n \in 1..Cardinality(R) : \E x \in R : RowPlace(q, i, Scope(u), x) = n
      /\ \A x, y \in R : RowPlace(q, i, Scope(u), x) = RowPlace(q, i, Scope(u), y) => x = y
  BY <1>1, RowPlaces
<1>9. first \in Nat /\ q.size \in Nat
  <2>1. page \in Nat \ {0} /\ q.size \in Nat
    BY <1>1, ReadModelsAssumption DEF IsQuery
  <2> QED
    BY <2>1, OffsetIs
<1> HIDE DEF P, S, R, first, Place, len
<1>10. \A n \in 1..len : first + n \in 1..Cardinality(R)
  BY <1>8, <1>9, PageLength DEF len
<1>11. ASSUME NEW n \in 1..len PROVE P[n] = S[n]
  <2>1. PICK x \in R : RowPlace(q, i, Scope(u), x) = first + n
    BY <1>8, <1>10
  <2>2. Place(x) = first + n
    BY <1>7, <2>1
  <2>3. P[n] \in R /\ RowPlace(q, i, Scope(u), P[n]) = first + n
    BY <1>5, <2>1
  <2>4. S[n] \in R /\ Place(S[n]) = first + n
    BY <1>6, <2>2
  <2> QED
    BY <1>7, <1>8, <2>3, <2>4
<1>12. P = S
  BY <1>5, <1>6, <1>11
<1> QED
  BY <1>12 DEF P, S

-----------------------------------------------------------------------------
(* What holds of a request between its statements.                         *)

Typed(v) ==
    /\ DOMAIN v = {"pc", "step", "user", "query", "run", "page", "scope", "entitled", "final",
                   "summary", "file", "total", "items", "missing"}
    /\ v.user \in Users /\ IsQuery(v.query) /\ v.page \in Nat \ {0}
    /\ v.scope \subseteq Stores /\ v.entitled \subseteq Stores
    /\ v.total \in Nat /\ Len(v.items) <= v.query.size
    /\ v.final \in BOOLEAN /\ v.summary \in BOOLEAN /\ v.file \in BOOLEAN

\* the statements in their order
StepOK(v) ==
    \/ v.pc = "policy" /\ v.step = 1
    \/ /\ v.query.listing = "detail"
       /\ <<v.pc, v.step>> \in {<<"summary", 2>>, <<"files", 3>>, <<"count", 4>>, <<"fetch", 5>>}
    \/ v.query.listing # "detail" /\ <<v.pc, v.step>> \in {<<"count", 2>>, <<"fetch", 3>>}
    \/ v.pc \in {"shown", "done"}

\* a request is for accepted page sizes from its count on
SizeOK(v) == v.pc \in {"fetch", "shown", "done"} => v.query.size \in PageSizes

\* the scope is what was accessible at some moment of the request; past the policy, the reader is
\* one who may see the listing, and what is shown is of the scope
AccessOK(v) ==
    /\ v.scope \subseteq v.entitled
    /\ v.pc # "policy" =>
        /\ v.query.listing = "logs" => v.user = "admin"
        /\ v.query.listing = "detail" => runs[v.run].store \in v.scope
    /\ v.pc = "shown" => \A n \in DOMAIN v.items : v.items[n].store \in v.entitled

\* a run that was found finished has not changed since
FinalOK(v) ==
    v.query.listing = "detail" /\ v.final /\ v.pc \notin {"policy", "done"} =>
        /\ runs[v.run].finished # None
        /\ v.pc # "summary" => v.summary
        /\ v.pc \notin {"summary", "files"} => v.file
        /\ v.pc \in {"fetch", "shown"} => v.total = Cardinality(SqlRows(v.query, v.run, Stores))

RequestOK(v) ==
    /\ Typed(v) /\ Asked(v.query, v.run)
    /\ StepOK(v) /\ SizeOK(v) /\ AccessOK(v) /\ FinalOK(v)

IInv == TablesOK /\ (view = Idle \/ RequestOK(view))

(* A walk that can be held to its promise: by columns that last, with links  *)
(* that ask for the same rows again.                                         *)
LinksKeep == \A q \in Queries : q.via = "page" => LinkQuery(q) = q

\* the places up to this one have been on a page
Reached(v) == IF v.pc \in {"shown", "done"} THEN Offset(v.page + 1, v.query.size)
              ELSE Offset(v.page, v.query.size)

\* what has not been shown is still selected, and at a place behind the pages shown
WalkOK(v) ==
    /\ v.query \in Queries
    /\ v.user = "admin" => v.scope = Stores
    /\ Lasts(v.query) /\ v.missing # {} =>
        /\ v.user # "admin" => v.scope \subseteq access
        /\ \A id \in v.missing :
            /\ id \in Matching(v.query, v.run, v.scope)
            /\ PlaceOf(v.query, v.run, v.scope, id) > Reached(v)
        /\ v.pc = "fetch" => v.total = Cardinality(Matching(v.query, v.run, v.scope))
        /\ v.pc = "shown" => v.total > Reached(v)
        /\ v.pc # "done"

WalkInv == view = Idle \/ WalkOK(view)

-----------------------------------------------------------------------------
(* Runs only grow.                                                         *)

RunsGrow ==
    /\ DOMAIN runs \subseteq DOMAIN runs'
    /\ \A j \in DOMAIN runs :
        /\ runs'[j].store = runs[j].store /\ runs'[j].file = runs[j].file
        /\ runs'[j].started = runs[j].started /\ runs[j].rows <= runs'[j].rows
        /\ runs[j].finished # None => runs'[j] = runs[j]

LEMMA StartedRunsGrow ==
    ASSUME TablesOK, NEW s \in Stores, NEW f \in Files, NEW t \in Times, StartRun(s, f, t)
    PROVE  TablesOK' /\ RunsGrow
<1> DEFINE row == [store |-> s, file |-> f, started |-> t, finished |-> None, rows |-> 0]
<1>1. /\ runs' = Append(runs, row) /\ Len(runs) < MaxRuns /\ row \in RunRow
      /\ names' = names /\ access' = access /\ changes' = changes
  BY DEF StartRun, RunRow
<1>2. runs \in Seq(RunRow) /\ Len(runs) \in Nat /\ DOMAIN runs = 1..Len(runs)
  BY RunsAre DEF TablesOK
<1>3. /\ runs' \in Seq(RunRow) /\ Len(runs') = Len(runs) + 1
      /\ DOMAIN runs' = 1..(Len(runs) + 1)
      /\ \A j \in 1..Len(runs) : runs'[j] = runs[j]
      /\ runs'[Len(runs) + 1] = row
  <2> HIDE DEF row
  <2>1. runs' \in Seq(RunRow)
    BY <1>1, <1>2, AppendProperties
  <2>2. Len(runs') = Len(runs) + 1
    BY <1>1, <1>2, AppendProperties
  <2>3. (\A j \in 1..Len(runs) : runs'[j] = runs[j]) /\ runs'[Len(runs) + 1] = row
    BY <1>1, <1>2, AppendProperties
  <2>4. DOMAIN runs' = 1..Len(runs')
    BY <2>1, LenProperties
  <2>5. DOMAIN runs' = 1..(Len(runs) + 1)
    BY <2>2, <2>4
  <2> QED
    BY <2>1, <2>2, <2>3, <2>5
<1>4. row.finished = None /\ row.rows = 0
  OBVIOUS
<1> HIDE DEF row
<1>5. \A j \in DOMAIN runs' : runs'[j].finished = None => runs'[j].rows = 0
  <2>1. ASSUME NEW j \in DOMAIN runs', runs'[j].finished = None PROVE runs'[j].rows = 0
    <3>1. CASE j \in 1..Len(runs)
      BY <1>2, <1>3, <2>1, <3>1 DEF TablesOK
    <3>2. CASE j = Len(runs) + 1
      BY <1>3, <1>4, <3>2
    <3> QED
      BY <1>2, <1>3, <3>1, <3>2
  <2> QED
    BY <2>1
<1>6. Len(runs') <= MaxRuns
  BY <1>1, <1>2, <1>3, ReadModelsAssumption
<1>7. \A j \in DOMAIN runs : runs[j].rows \in Nat
  BY RunsAre
<1> QED
  BY <1>1, <1>2, <1>3, <1>5, <1>6, <1>7 DEF TablesOK, RunsGrow

LEMMA FinishedRunsGrow ==
    ASSUME TablesOK, NEW i \in DOMAIN runs, NEW t \in Times, NEW n \in RowCounts, FinishRun(i, t, n)
    PROVE  TablesOK' /\ RunsGrow
<1> DEFINE row == [runs[i] EXCEPT !.finished = t, !.rows = n]
<1>1. /\ runs' = [runs EXCEPT ![i] = row] /\ runs[i].finished = None
      /\ names' = names /\ access' = access /\ changes' = changes
  BY DEF FinishRun
<1>2. runs \in Seq(RunRow) /\ Len(runs) \in Nat /\ DOMAIN runs = 1..Len(runs)
  BY RunsAre DEF TablesOK
<1>3. runs[i] \in RunRow
  BY RunsAre
<1>4. /\ row \in RunRow /\ row.store = runs[i].store /\ row.file = runs[i].file
      /\ row.started = runs[i].started /\ row.finished = t /\ row.rows = n
  BY <1>3 DEF RunRow
<1> HIDE DEF row
<1>5. runs' \in Seq(RunRow) /\ Len(runs') = Len(runs)
  BY <1>1, <1>2, <1>4, ExceptSeq
<1>6. /\ DOMAIN runs' = DOMAIN runs /\ runs'[i] = row
      /\ \A j \in DOMAIN runs : j # i => runs'[j] = runs[j]
  BY <1>1
<1>7. t # None
  BY ReadModelsAssumption DEF None
<1>8. runs[i].rows = 0 /\ n \in Nat
  BY <1>1, ReadModelsAssumption DEF TablesOK
<1>9. \A j \in DOMAIN runs' : runs'[j].finished = None => runs'[j].rows = 0
  BY <1>4, <1>6, <1>7 DEF TablesOK
<1>10. \A j \in DOMAIN runs :
        /\ runs'[j].store = runs[j].store /\ runs'[j].file = runs[j].file
        /\ runs'[j].started = runs[j].started /\ runs[j].rows <= runs'[j].rows
        /\ runs[j].finished # None => runs'[j] = runs[j]
  <2>1. SUFFICES ASSUME NEW j \in DOMAIN runs
                 PROVE  /\ runs'[j].store = runs[j].store /\ runs'[j].file = runs[j].file
                        /\ runs'[j].started = runs[j].started /\ runs[j].rows <= runs'[j].rows
                        /\ runs[j].finished # None => runs'[j] = runs[j]
    OBVIOUS
  <2>2. CASE j = i
    BY <1>1, <1>4, <1>6, <1>8, <2>2
  <2>3. CASE j # i
    <3>1. runs'[j] = runs[j] /\ runs[j].rows \in Nat
      BY <1>6, <2>3, RunsAre
    <3> QED
      BY <3>1
  <2> QED
    BY <2>2, <2>3
<1> QED
  BY <1>1, <1>5, <1>6, <1>9, <1>10 DEF TablesOK, RunsGrow

-----------------------------------------------------------------------------
(* The invariant, step by step.                                            *)

\* as it was, but for the rows that it has not shown
SameRequest(v, w) ==
    /\ DOMAIN w = DOMAIN v
    /\ w.pc = v.pc /\ w.step = v.step /\ w.user = v.user /\ w.query = v.query /\ w.run = v.run
    /\ w.page = v.page /\ w.scope = v.scope /\ w.final = v.final /\ w.summary = v.summary
    /\ w.file = v.file /\ w.total = v.total /\ w.items = v.items

LEMMA TornIs ==
    ASSUME IInv, view' = Torn
    PROVE  /\ view = Idle => view' = Idle
           /\ view # Idle => /\ RequestOK(view) /\ SameRequest(view, view')
                             /\ view'.entitled = view.entitled
                             /\ view.pc = "fetch" => view'.missing = {}
                             /\ view.pc # "fetch" => view' = view
<1>1. CASE view = Idle
  BY <1>1 DEF Torn, Idle
<1>2. CASE view # Idle
  <2>1. RequestOK(view)
    BY <1>2 DEF IInv
  <2>2. CASE view.pc = "fetch"
    <3>1. view' = [view EXCEPT !.missing = {}]
      BY <2>2 DEF Torn
    <3> QED
      BY <1>2, <2>1, <2>2, <3>1 DEF SameRequest, RequestOK, Typed
  <2>3. CASE view.pc # "fetch"
    BY <1>2, <2>1, <2>3 DEF SameRequest, Torn
  <2> QED
    BY <2>2, <2>3
<1> QED
  BY <1>1, <1>2

LEMMA NotIdle ==
    ASSUME NEW v, StepOK(v)
    PROVE  v # Idle
BY DEF StepOK, Idle

(* A run that starts or finishes leaves the invariant as it was.            *)
LEMMA GrowthKeeps ==
    ASSUME IInv, TablesOK', RunsGrow, view' = Torn
    PROVE  IInv'
<1>1. CASE view = Idle
  BY <1>1, TornIs DEF IInv
<1>2. CASE view # Idle
  <2>1. RequestOK(view) /\ SameRequest(view, view') /\ view'.entitled = view.entitled
    BY <1>2, TornIs
  <2>2. Typed(view')
    BY <2>1 DEF RequestOK, Typed, SameRequest
  <2>3. Asked(view.query, view.run)'
    BY <2>1 DEF RequestOK, Asked, SameRequest, RunsGrow
  <2>4. StepOK(view') /\ SizeOK(view')
    BY <2>1 DEF RequestOK, StepOK, SizeOK, SameRequest
  <2>5. view.query.listing = "detail" =>
            /\ view.run \in DOMAIN runs
            /\ runs'[view.run].store = runs[view.run].store
            /\ runs[view.run].finished # None => runs'[view.run] = runs[view.run]
    BY <2>1 DEF RequestOK, Asked, RunsGrow
  <2>6. AccessOK(view)'
    BY <2>1, <2>5 DEF RequestOK, AccessOK, SameRequest
  <2>7. FinalOK(view)'
    <3>1. SUFFICES ASSUME view.query.listing = "detail", view.final, view.pc \notin {"policy", "done"}
                   PROVE  FinalOK(view)'
      BY <2>1 DEF FinalOK, SameRequest
    <3>2. runs[view.run].finished # None
      BY <2>1, <3>1 DEF RequestOK, FinalOK
    <3>3. runs'[view.run] = runs[view.run]
      BY <2>5, <3>1, <3>2
    <3>4. SqlRows(view.query, view.run, Stores)' = SqlRows(view.query, view.run, Stores)
      <4>1. view'.query = view.query /\ view'.run = view.run
        BY <2>1 DEF SameRequest
      <4>2. Rows(view.query.listing, view.run)' = Rows(view.query.listing, view.run)
        BY <3>1, <3>3, <4>1 DEF Rows, DetailRow
      <4> QED
        BY <4>1, <4>2 DEF SqlRows, SqlSelects
    <3> QED
      BY <2>1, <3>1, <3>2, <3>3, <3>4 DEF RequestOK, FinalOK, SameRequest
  <2> QED
    BY <2>2, <2>3, <2>4, <2>6, <2>7 DEF IInv, RequestOK
<1> QED
  BY <1>1, <1>2

(* The statement that follows each.                                        *)
LEMMA AfterIs ==
    ASSUME NEW v, StepOK(v), v.query.listing \in Listings
    PROVE  /\ v.pc = "policy" => /\ v.step = 1
                                 /\ After(v) = IF v.query.listing = "detail" THEN "summary" ELSE "count"
           /\ v.pc = "summary" => v.query.listing = "detail" /\ v.step = 2 /\ After(v) = "files"
           /\ v.pc = "files" => v.query.listing = "detail" /\ v.step = 3 /\ After(v) = "count"
           /\ v.pc = "count" => /\ v.step = IF v.query.listing = "detail" THEN 4 ELSE 2
                                /\ After(v) = "fetch"
           /\ v.pc = "fetch" => After(v) = "shown"
<1>1. CASE v.query.listing = "detail"
  BY <1>1 DEF StepOK, After, Steps
<1>2. CASE v.query.listing # "detail"
  BY <1>2 DEF StepOK, After, Steps
<1> QED
  BY <1>1, <1>2

LEMMA Advances ==
    ASSUME NEW v, RequestOK(v), v.pc \notin {"shown", "done"},
           NEW w, w.pc = After(v), w.step = v.step + 1, w.query = v.query
    PROVE  StepOK(w)
<1>1. v.query.listing \in Listings /\ StepOK(v)
  BY DEF RequestOK, Typed, IsQuery
<1>2. v.pc \in {"policy", "summary", "files", "count", "fetch"}
  BY <1>1 DEF StepOK
<1>3. CASE v.query.listing = "detail"
  BY <1>1, <1>2, <1>3, AfterIs DEF StepOK
<1>4. CASE v.query.listing # "detail"
  BY <1>1, <1>2, <1>4, AfterIs DEF StepOK
<1> QED
  BY <1>3, <1>4

\* a step of the reader
LEMMA TablesStay ==
    ASSUME IInv, UNCHANGED Tables
    PROVE  TablesOK' /\ runs' = runs /\ names' = names /\ access' = access
BY DEF IInv, TablesOK, Tables

LEMMA AdmitKeeps ==
    ASSUME IInv, Admit
    PROVE  IInv'
<1> DEFINE v == view
<1>1. v.pc = "policy" /\ Admitted(v) /\ RequestOK(v)
  BY DEF Admit, IInv, Idle
<1>2. TablesOK' /\ runs' = runs
  BY TablesStay DEF Admit
<1>3. v.query.listing \in Listings /\ StepOK(v)
  BY <1>1 DEF RequestOK, Typed, IsQuery
<1>4. view' = [v EXCEPT !.pc = After(v), !.step = @ + 1,
                        !.final = IF v.query.listing = "detail" THEN runs[v.run].finished # None
                                  ELSE FALSE]
  BY <1>1 DEF Admit, Proceed
<1>5. /\ DOMAIN view' = DOMAIN v
      /\ view'.pc = After(v) /\ view'.step = v.step + 1
      /\ view'.final = IF v.query.listing = "detail" THEN runs[v.run].finished # None ELSE FALSE
      /\ view'.user = v.user /\ view'.query = v.query /\ view'.run = v.run /\ view'.page = v.page
      /\ view'.scope = v.scope /\ view'.entitled = v.entitled /\ view'.summary = v.summary
      /\ view'.file = v.file /\ view'.total = v.total /\ view'.items = v.items
  BY <1>1, <1>4 DEF RequestOK, Typed
<1>6. After(v) = IF v.query.listing = "detail" THEN "summary" ELSE "count"
  BY <1>1, <1>3, AfterIs
<1>7. Typed(view') /\ StepOK(view')
  <2>1. StepOK(view')
    BY <1>1, <1>5, Advances
  <2> QED
    BY <1>1, <1>5, <2>1 DEF RequestOK, Typed
<1>8. Asked(view.query, view.run)'
  BY <1>1, <1>2, <1>5 DEF RequestOK, Asked
<1>9. SizeOK(view') /\ AccessOK(view)'
  BY <1>1, <1>2, <1>3, <1>5, <1>6 DEF RequestOK, SizeOK, AccessOK, Admitted, Listings
<1>10. FinalOK(view)'
  BY <1>2, <1>5, <1>6 DEF FinalOK
<1> QED
  BY <1>2, <1>7, <1>8, <1>9, <1>10 DEF IInv, RequestOK

LEMMA ReadSummaryKeeps ==
    ASSUME IInv, ReadSummary
    PROVE  IInv'
<1> DEFINE v == view
<1>1. v.pc = "summary" /\ RequestOK(v)
  BY DEF ReadSummary, IInv, Idle
<1>2. TablesOK' /\ runs' = runs
  BY TablesStay DEF ReadSummary
<1>3. v.query.listing \in Listings /\ StepOK(v)
  BY <1>1 DEF RequestOK, Typed, IsQuery
<1>4. view' = [v EXCEPT !.pc = After(v), !.step = @ + 1, !.summary = runs[v.run].finished # None]
  BY DEF ReadSummary, Proceed
<1>5. /\ DOMAIN view' = DOMAIN v
      /\ view'.pc = "files" /\ view'.pc = After(v) /\ view'.step = v.step + 1
      /\ view'.summary = (runs[v.run].finished # None)
      /\ view'.user = v.user /\ view'.query = v.query /\ view'.run = v.run /\ view'.page = v.page
      /\ view'.scope = v.scope /\ view'.entitled = v.entitled /\ view'.final = v.final
      /\ view'.file = v.file /\ view'.total = v.total /\ view'.items = v.items
  BY <1>1, <1>3, <1>4, AfterIs DEF RequestOK, Typed
<1>6. Typed(view') /\ StepOK(view')
  <2>1. StepOK(view')
    BY <1>1, <1>5, Advances
  <2> QED
    BY <1>1, <1>5, <2>1 DEF RequestOK, Typed
<1>7. Asked(view.query, view.run)'
  BY <1>1, <1>2, <1>5 DEF RequestOK, Asked
<1>8. SizeOK(view') /\ AccessOK(view)'
  BY <1>1, <1>2, <1>5 DEF RequestOK, SizeOK, AccessOK
<1>9. FinalOK(view)'
  BY <1>1, <1>2, <1>5 DEF RequestOK, FinalOK
<1> QED
  BY <1>2, <1>6, <1>7, <1>8, <1>9 DEF IInv, RequestOK

LEMMA ReadFilesKeeps ==
    ASSUME IInv, ReadFiles
    PROVE  IInv'
<1> DEFINE v == view
<1>1. v.pc = "files" /\ RequestOK(v)
  BY DEF ReadFiles, IInv, Idle
<1>2. TablesOK' /\ runs' = runs
  BY TablesStay DEF ReadFiles
<1>3. v.query.listing \in Listings /\ StepOK(v)
  BY <1>1 DEF RequestOK, Typed, IsQuery
<1>4. view' = [v EXCEPT !.pc = After(v), !.step = @ + 1, !.file = runs[v.run].finished # None]
  BY DEF ReadFiles, Proceed
<1>5. /\ DOMAIN view' = DOMAIN v
      /\ view'.pc = "count" /\ view'.pc = After(v) /\ view'.step = v.step + 1
      /\ view'.file = (runs[v.run].finished # None)
      /\ view'.user = v.user /\ view'.query = v.query /\ view'.run = v.run /\ view'.page = v.page
      /\ view'.scope = v.scope /\ view'.entitled = v.entitled /\ view'.final = v.final
      /\ view'.summary = v.summary /\ view'.total = v.total /\ view'.items = v.items
  BY <1>1, <1>3, <1>4, AfterIs DEF RequestOK, Typed
<1>6. Typed(view') /\ StepOK(view')
  <2>1. StepOK(view')
    BY <1>1, <1>5, Advances
  <2> QED
    BY <1>1, <1>5, <2>1 DEF RequestOK, Typed
<1>7. Asked(view.query, view.run)'
  BY <1>1, <1>2, <1>5 DEF RequestOK, Asked
<1>8. SizeOK(view') /\ AccessOK(view)'
  BY <1>1, <1>2, <1>5 DEF RequestOK, SizeOK, AccessOK
<1>9. FinalOK(view)'
  BY <1>1, <1>2, <1>5 DEF RequestOK, FinalOK
<1> QED
  BY <1>2, <1>6, <1>7, <1>8, <1>9 DEF IInv, RequestOK

LEMMA RowsTotal ==
    ASSUME TablesOK, NEW q, IsQuery(q), NEW i, Asked(q, i), NEW scope
    PROVE  /\ Cardinality(SqlRows(q, i, scope)) = Cardinality(Matching(q, i, scope))
           /\ Cardinality(SqlRows(q, i, scope)) \in Nat
<1> DEFINE M == Matching(q, i, scope)
<1>1. SqlRows(q, i, scope) = {RowAt(q, i, id) : id \in M}
  BY RowsAre
<1>2. M \in SUBSET Matching(q, i, scope)
  OBVIOUS
<1> HIDE DEF M
<1>3. /\ Cardinality({RowAt(q, i, id) : id \in M}) = Cardinality(M)
      /\ Cardinality({RowAt(q, i, id) : id \in M}) \in Nat
  BY <1>2, RowsCounted
<1> QED
  BY <1>1, <1>3 DEF M

(* Who may see a run sees all its detail rows.                             *)
LEMMA DetailScope ==
    ASSUME NEW q, q.listing = "detail", NEW i, NEW scope, runs[i].store \in scope,
           runs[i].store \in Stores
    PROVE  SqlRows(q, i, scope) = SqlRows(q, i, Stores)
<1>1. \A x \in Rows(q.listing, i) : x.store = runs[i].store
  BY DEF Rows, DetailRow
<1>2. \A x \in Rows(q.listing, i) : SqlSelects(q, scope, x) <=> SqlSelects(q, Stores, x)
  BY <1>1 DEF SqlSelects
<1> QED
  BY <1>2 DEF SqlRows

LEMMA CountKeeps ==
    ASSUME IInv, Count
    PROVE  IInv'
<1> DEFINE v == view
           n == Cardinality(SqlRows(v.query, v.run, v.scope))
<1>1. v.pc = "count" /\ RequestOK(v) /\ v.query.size \in PageSizes
  BY DEF Count, IInv, Idle
<1>2. TablesOK /\ TablesOK' /\ runs' = runs /\ names' = names
  BY TablesStay DEF Count, IInv
<1>3. v.query.listing \in Listings /\ StepOK(v) /\ IsQuery(v.query) /\ Asked(v.query, v.run)
  BY <1>1 DEF RequestOK, Typed, IsQuery
<1>4. view' = [v EXCEPT !.pc = After(v), !.step = @ + 1, !.total = n]
  BY DEF Count, Proceed
<1>5. n \in Nat
  BY <1>2, <1>3, RowsTotal
<1>6. v.query.listing = "detail" => n = Cardinality(SqlRows(v.query, v.run, Stores))
  <2>1. ASSUME v.query.listing = "detail"
        PROVE  runs[v.run].store \in v.scope /\ runs[v.run].store \in Stores
    BY <1>1, <1>2, <1>3, <2>1, RunsAre DEF RequestOK, AccessOK, Asked
  <2> QED
    BY <2>1, DetailScope
<1> HIDE DEF n
<1>7. /\ DOMAIN view' = DOMAIN v
      /\ view'.pc = "fetch" /\ view'.pc = After(v) /\ view'.step = v.step + 1
      /\ view'.total = n
      /\ view'.user = v.user /\ view'.query = v.query /\ view'.run = v.run /\ view'.page = v.page
      /\ view'.scope = v.scope /\ view'.entitled = v.entitled /\ view'.final = v.final
      /\ view'.summary = v.summary /\ view'.file = v.file /\ view'.items = v.items
  BY <1>1, <1>3, <1>4, AfterIs DEF RequestOK, Typed
<1>8. Typed(view') /\ StepOK(view')
  <2>1. StepOK(view')
    BY <1>1, <1>7, Advances
  <2> QED
    BY <1>1, <1>5, <1>7, <2>1 DEF RequestOK, Typed
<1>9. Asked(view.query, view.run)'
  BY <1>2, <1>3, <1>7 DEF Asked
<1>10. SizeOK(view') /\ AccessOK(view)'
  BY <1>1, <1>2, <1>7 DEF RequestOK, SizeOK, AccessOK
<1>11. FinalOK(view)'
  <2>1. SUFFICES ASSUME v.query.listing = "detail", v.final
                 PROVE  FinalOK(view)'
    BY <1>7 DEF FinalOK
  <2>2. SqlRows(view.query, view.run, Stores)' = SqlRows(view.query, view.run, Stores)
    BY <1>2, <1>7 DEF SqlRows, SqlSelects, Rows, HistoryRow, LogRow, DetailRow
  <2> QED
    BY <1>1, <1>2, <1>6, <1>7, <2>1, <2>2 DEF RequestOK, FinalOK
<1> QED
  BY <1>2, <1>8, <1>9, <1>10, <1>11 DEF IInv, RequestOK

LEMMA FetchKeeps ==
    ASSUME IInv, Fetch
    PROVE  IInv'
<1> DEFINE v == view
           items == SqlPage(v.query, v.run, v.scope, v.page)
<1>1. v.pc = "fetch" /\ RequestOK(v) /\ v.query.sort \in SortFields(v.query.listing)
  BY DEF Fetch, IInv, Idle
<1>2. TablesOK /\ TablesOK' /\ runs' = runs /\ names' = names
  BY TablesStay DEF Fetch, IInv
<1>3. /\ v.query.listing \in Listings /\ StepOK(v) /\ IsQuery(v.query) /\ Asked(v.query, v.run)
      /\ v.page \in Nat \ {0} /\ v.scope \subseteq v.entitled
  BY <1>1 DEF RequestOK, Typed, IsQuery, AccessOK
<1>4. view' = [v EXCEPT !.pc = After(v), !.step = @ + 1, !.items = items,
                        !.missing = @ \ {items[n].id : n \in DOMAIN items}]
  BY DEF Fetch, Proceed
<1>5. items \in Seq(SqlRows(v.query, v.run, v.scope)) /\ Len(items) <= v.query.size
  BY <1>1, <1>2, <1>3, PageIs
<1> HIDE DEF items
<1>6. \A n \in DOMAIN items : items[n].store \in v.entitled
  <2>1. \A n \in DOMAIN items : items[n] \in SqlRows(v.query, v.run, v.scope)
    BY <1>5, LenProperties
  <2> QED
    BY <1>3, <2>1 DEF SqlRows, SqlSelects
<1>7. /\ DOMAIN view' = DOMAIN v
      /\ view'.pc = "shown" /\ view'.items = items
      /\ view'.user = v.user /\ view'.query = v.query /\ view'.run = v.run /\ view'.page = v.page
      /\ view'.scope = v.scope /\ view'.entitled = v.entitled /\ view'.final = v.final
      /\ view'.summary = v.summary /\ view'.file = v.file /\ view'.total = v.total
  BY <1>1, <1>3, <1>4, AfterIs DEF RequestOK, Typed
<1>8. Typed(view') /\ StepOK(view')
  BY <1>1, <1>5, <1>7 DEF RequestOK, Typed, StepOK
<1>9. Asked(view.query, view.run)'
  BY <1>2, <1>3, <1>7 DEF Asked
<1>10. SizeOK(view') /\ AccessOK(view)'
  BY <1>1, <1>2, <1>6, <1>7 DEF RequestOK, SizeOK, AccessOK
<1>11. FinalOK(view)'
  <2>1. SqlRows(view.query, view.run, Stores)' = SqlRows(view.query, view.run, Stores)
    BY <1>2, <1>7 DEF SqlRows, SqlSelects, Rows, HistoryRow, LogRow, DetailRow
  <2> QED
    BY <1>1, <1>2, <1>7, <2>1 DEF RequestOK, FinalOK
<1> QED
  BY <1>2, <1>8, <1>9, <1>10, <1>11 DEF IInv, RequestOK

LEMMA OpenKeeps ==
    ASSUME IInv, NEW u \in Users, NEW q \in Queries, NEW i \in Run, Open(u, q, i)
    PROVE  IInv'
<1>1. TablesOK /\ TablesOK' /\ runs' = runs
  BY TablesStay DEF Open, IInv
<1>2. IsQuery(q) /\ Asked(q, i)
  BY ReadModelsAssumption DEF IsQuery, Open, Asked
<1>3. Steps(q.listing)[1] = "policy" /\ Scope(u) \subseteq Stores
  BY <1>1 DEF Steps, Scope, TablesOK
<1> DEFINE missing == {x.id : x \in SqlRows(q, i, Scope(u))}
<1>4. view' = [pc |-> "policy", step |-> 1, user |-> u, query |-> q, run |-> i, page |-> 1,
               scope |-> Scope(u), entitled |-> Scope(u), final |-> FALSE, summary |-> FALSE,
               file |-> FALSE, total |-> 0, items |-> <<>>, missing |-> missing]
  BY <1>3 DEF Open
<1> HIDE DEF missing
<1>5. Typed(view') /\ StepOK(view') /\ SizeOK(view')
  BY <1>2, <1>3, <1>4 DEF Typed, StepOK, SizeOK, IsQuery
<1>6. Asked(view.query, view.run)' /\ AccessOK(view)' /\ FinalOK(view)'
  BY <1>1, <1>2, <1>4 DEF Asked, AccessOK, FinalOK
<1> QED
  BY <1>1, <1>5, <1>6 DEF IInv, RequestOK

LEMMA TurnKeeps ==
    ASSUME IInv, NEW q, IsQuery(q), q.listing = view.query.listing, q.size = view.query.size, Turn(q)
    PROVE  IInv'
<1> DEFINE v == view
<1>1. v.pc = "shown" /\ RequestOK(v)
  BY DEF Turn, IInv, Idle
<1>2. TablesOK /\ TablesOK' /\ runs' = runs /\ names' = names
  BY TablesStay DEF Turn, IInv
<1>3. Steps(q.listing)[1] = "policy" /\ Scope(v.user) \subseteq Stores
  BY <1>2 DEF Steps, Scope, TablesOK
<1>4. view' = [v EXCEPT !.pc = "policy", !.step = 1, !.page = @ + 1, !.query = q,
                        !.scope = Scope(v.user), !.entitled = Scope(v.user),
                        !.items = <<>>, !.total = 0]
  BY <1>3 DEF Turn
<1>5. /\ DOMAIN view' = DOMAIN v
      /\ view'.pc = "policy" /\ view'.step = 1 /\ view'.items = <<>> /\ view'.total = 0
      /\ view'.user = v.user /\ view'.query = q /\ view'.run = v.run /\ view'.page = v.page + 1
      /\ view'.scope = Scope(v.user) /\ view'.entitled = Scope(v.user) /\ view'.final = v.final
      /\ view'.summary = v.summary /\ view'.file = v.file
  BY <1>1, <1>4 DEF RequestOK, Typed
<1>6. Typed(view') /\ StepOK(view') /\ SizeOK(view')
  BY <1>1, <1>3, <1>5 DEF RequestOK, Typed, StepOK, SizeOK, IsQuery
<1>7. Asked(view.query, view.run)' /\ AccessOK(view)' /\ FinalOK(view)'
  BY <1>1, <1>2, <1>5 DEF RequestOK, Asked, AccessOK, FinalOK
<1> QED
  BY <1>2, <1>6, <1>7 DEF IInv, RequestOK

LEMMA FinishKeeps ==
    ASSUME IInv, Finish
    PROVE  IInv'
<1> DEFINE v == view
<1>1. v.pc = "shown" /\ RequestOK(v)
  BY DEF Finish, IInv, Idle
<1>2. TablesOK /\ TablesOK' /\ runs' = runs /\ names' = names
  BY TablesStay DEF Finish, IInv
<1>3. /\ DOMAIN view' = DOMAIN v
      /\ view'.pc = "done" /\ view'.items = <<>> /\ view'.total = 0 /\ view'.step = v.step
      /\ view'.user = v.user /\ view'.query = v.query /\ view'.run = v.run /\ view'.page = v.page
      /\ view'.scope = v.scope /\ view'.entitled = v.entitled /\ view'.final = v.final
      /\ view'.summary = v.summary /\ view'.file = v.file
  BY <1>1 DEF Finish, RequestOK, Typed
<1>4. Typed(view') /\ StepOK(view') /\ SizeOK(view')
  BY <1>1, <1>3 DEF RequestOK, Typed, StepOK, SizeOK, IsQuery
<1>5. Asked(view.query, view.run)' /\ AccessOK(view)' /\ FinalOK(view)'
  BY <1>1, <1>2, <1>3 DEF RequestOK, Asked, AccessOK, FinalOK
<1> QED
  BY <1>2, <1>4, <1>5 DEF IInv, RequestOK

LEMMA ChangeAccessKeeps ==
    ASSUME IInv, NEW stores \in SUBSET Stores, ChangeAccess(stores)
    PROVE  IInv'
<1> DEFINE v == view
<1>1. runs' = runs /\ names' = names /\ access' = stores /\ changes' = changes + 1 /\ changes < MaxChanges
  BY DEF ChangeAccess
<1>2. TablesOK /\ TablesOK'
  BY <1>1, ReadModelsAssumption DEF IInv, TablesOK
<1>3. CASE v = Idle
  BY <1>2, <1>3 DEF ChangeAccess, IInv, Idle
<1>4. CASE v # Idle
  <2>1. RequestOK(v) /\ v.pc # "idle"
    BY <1>4 DEF IInv, RequestOK, StepOK
  <2>2. /\ SameRequest(v, view') /\ v.entitled \subseteq view'.entitled
        /\ view'.entitled \subseteq v.entitled \cup stores
    <3>1. CASE v.user = "admin"
      BY <2>1, <3>1 DEF ChangeAccess, SameRequest
    <3>2. CASE v.user # "admin"
      <4>1. PICK m : view' = [view EXCEPT !.entitled = @ \cup stores, !.missing = m]
        BY <2>1, <3>2 DEF ChangeAccess
      <4> QED
        BY <2>1, <4>1 DEF SameRequest, RequestOK, Typed
    <3> QED
      BY <3>1, <3>2
  <2>3. Typed(view')
    BY <2>1, <2>2 DEF RequestOK, Typed, SameRequest
  <2>4. Asked(view.query, view.run)' /\ StepOK(view') /\ SizeOK(view')
    BY <1>1, <2>1, <2>2 DEF RequestOK, Asked, StepOK, SizeOK, SameRequest
  <2>5. AccessOK(view)'
    BY <1>1, <2>1, <2>2 DEF RequestOK, AccessOK, SameRequest
  <2>6. FinalOK(view)'
    <3>1. SqlRows(view.query, view.run, Stores)' = SqlRows(view.query, view.run, Stores)
      BY <1>1, <2>2 DEF SqlRows, SqlSelects, Rows, HistoryRow, LogRow, DetailRow, SameRequest
    <3> QED
      BY <1>1, <2>1, <2>2, <3>1 DEF RequestOK, FinalOK, SameRequest
  <2> QED
    BY <1>2, <2>3, <2>4, <2>5, <2>6 DEF IInv, RequestOK
<1> QED
  BY <1>3, <1>4

LEMMA RenameStoreKeeps ==
    ASSUME IInv, NEW s \in Stores, NEW n \in Names, RenameStore(s, n)
    PROVE  IInv'
<1>1. runs' = runs /\ access' = access /\ view' = view
      /\ names' = [names EXCEPT ![s] = n] /\ changes' = changes + 1 /\ changes < MaxChanges
  BY DEF RenameStore
<1>2. TablesOK'
  BY <1>1, ReadModelsAssumption DEF IInv, TablesOK
<1>3. ASSUME view # Idle PROVE RequestOK(view)'
  <2>1. RequestOK(view)
    BY <1>3 DEF IInv
  <2>2. Typed(view') /\ Asked(view.query, view.run)' /\ StepOK(view') /\ SizeOK(view')
    BY <1>1, <2>1 DEF RequestOK, Typed, Asked, StepOK, SizeOK
  <2>3. AccessOK(view)'
    BY <1>1, <2>1 DEF RequestOK, AccessOK
  <2>4. view.query.listing = "detail" =>
            SqlRows(view.query, view.run, Stores)' = SqlRows(view.query, view.run, Stores)
    BY <1>1 DEF SqlRows, SqlSelects, Rows, DetailRow
  <2>5. FinalOK(view)'
    BY <1>1, <2>1, <2>4 DEF RequestOK, FinalOK
  <2> QED
    BY <2>2, <2>3, <2>5 DEF RequestOK
<1> QED
  BY <1>1, <1>2, <1>3 DEF IInv

LEMMA InitHolds ==
    ASSUME Init
    PROVE  IInv
<1>1. runs \in Seq(RunRow) /\ Len(runs) = 0 /\ DOMAIN runs = {}
  BY EmptySeq DEF Init
<1> QED
  BY <1>1, ReadModelsAssumption DEF Init, IInv, TablesOK

LEMMA StepHolds ==
    ASSUME IInv, [Next]_vars
    PROVE  IInv'
<1>1. ASSUME NEW s \in Stores, NEW f \in Files, NEW t \in Times, StartRun(s, f, t) PROVE IInv'
  <2>1. view' = Torn
    BY <1>1 DEF StartRun
  <2> QED
    BY <1>1, <2>1, StartedRunsGrow, GrowthKeeps DEF IInv
<1>2. ASSUME NEW i \in DOMAIN runs, NEW t \in Times, NEW n \in RowCounts, FinishRun(i, t, n)
      PROVE  IInv'
  <2>1. view' = Torn
    BY <1>2 DEF FinishRun
  <2> QED
    BY <1>2, <2>1, FinishedRunsGrow, GrowthKeeps DEF IInv
<1>3. ASSUME NEW stores \in SUBSET Stores, ChangeAccess(stores) PROVE IInv'
  BY <1>3, ChangeAccessKeeps
<1>4. ASSUME NEW u \in Users, NEW q \in Queries, NEW i \in Run, Open(u, q, i) PROVE IInv'
  BY <1>4, OpenKeeps
<1>5. CASE Admit
  BY <1>5, AdmitKeeps
<1>6. CASE ReadSummary
  BY <1>6, ReadSummaryKeeps
<1>7. CASE ReadFiles
  BY <1>7, ReadFilesKeeps
<1>8. CASE Count
  BY <1>8, CountKeeps
<1>9. CASE Fetch
  BY <1>9, FetchKeeps
<1>10. CASE Refuse \/ Leave
  BY <1>10, TablesStay DEF Refuse, Leave, IInv
<1>11. CASE FollowLink
  <2>1. IsQuery(view.query)
    BY <1>11 DEF IInv, FollowLink, Idle, RequestOK, Typed
  <2>2. Turn(LinkQuery(view.query))
    BY <1>11 DEF FollowLink
  <2> QED
    BY <2>1, <2>2, LinkIsQuery, TurnKeeps
<1>12. CASE AskNext
  <2>1. IsQuery(view.query)
    BY <1>12 DEF IInv, AskNext, Idle, RequestOK, Typed
  <2>2. Turn(view.query)
    BY <1>12 DEF AskNext
  <2> QED
    BY <2>1, <2>2, TurnKeeps
<1>13. CASE Finish
  BY <1>13, FinishKeeps
<1>14. CASE UNCHANGED vars
  <2>1. TablesOK' /\ view' = view /\ runs' = runs /\ names' = names
    BY <1>14, TablesStay DEF vars, Tables
  <2>2. view # Idle => RequestOK(view)'
    BY <2>1 DEF IInv, RequestOK, Typed, Asked, StepOK, SizeOK, AccessOK, FinalOK, SqlRows,
                SqlSelects, Rows, HistoryRow, LogRow, DetailRow
  <2> QED
    BY <2>1, <2>2 DEF IInv
<1>15. ASSUME NEW s \in Stores, NEW n \in Names, RenameStore(s, n) PROVE IInv'
  BY <1>15, RenameStoreKeeps
<1> QED
  BY <1>1, <1>2, <1>3, <1>4, <1>5, <1>6, <1>7, <1>8, <1>9, <1>10, <1>11, <1>12, <1>13, <1>14, <1>15
  DEF Next

(* Every reachable state has its tables and its request in order.          *)
THEOREM Invariance == Spec => []IInv
<1>1. Init => IInv
  BY InitHolds
<1>2. IInv /\ [Next]_vars => IInv'
  BY StepHolds
<1> QED
  BY <1>1, <1>2, PTL DEF Spec

(* Tables and request have their types, and no page is longer than asked    *)
(* (read_queries.py, _paginate), for every number of stores, runs and rows. *)
THEOREM TypesHold == Spec => []TypeOK
<1>1. IInv => TypeOK
  <2>1. SUFFICES ASSUME IInv PROVE TypeOK
    OBVIOUS
  <2>2. \A i \in DOMAIN runs : runs[i].store \in Stores /\ runs[i].rows \in RowCounts \cup {0}
    BY <2>1, RunsAre DEF IInv, RunRow
  <2> QED
    BY <2>1, <2>2 DEF IInv, TablesOK, RequestOK, Typed, TypeOK, Idle
<1> QED
  BY <1>1, Invariance, PTL

(* Whatever is granted and revoked meanwhile, a row that is shown is of a   *)
(* store accessible at some moment of the request, and logs are shown to    *)
(* administrators only (accessible_store_ids, can_view_logs).               *)
THEOREM ShownRowsHold == Spec => []ShownRowsWereAccessible
<1>1. IInv => ShownRowsWereAccessible
  BY DEF IInv, RequestOK, AccessOK, ShownRowsWereAccessible, Idle
<1> QED
  BY <1>1, Invariance, PTL

(* A run page that shows a finished run shows all of it, because the run is  *)
(* read before its summary, its files and its rows (get_run_page).          *)
THEOREM FinalPagesHold == Spec => []FinalPageIsComplete
<1>1. IInv => FinalPageIsComplete
  BY DEF IInv, RequestOK, FinalOK, FinalPageIsComplete, Idle
<1> QED
  BY <1>1, Invariance, PTL

(* The SQL queries and the services' own filtering, sorting and paging give  *)
(* the same page of any table the program can write (read_queries.py,       *)
(* _apply_filters, _apply_sort, _paginate).                                 *)
THEOREM PagesHold == Spec => []PagesAgree
<1>1. IInv => PagesAgree
  BY Agreement DEF IInv
<1> QED
  BY <1>1, Invariance, PTL

-----------------------------------------------------------------------------
(* A walk over all pages.  While runs start and finish, a row can only move *)
(* backwards in an order by columns that last; a new name moves none.       *)

\* in the columns that last; of the words, a new name may take the place of an old one
SameRow(x, y) ==
    /\ x.id = y.id /\ x.store = y.store /\ x.run = y.run /\ x.time = y.time
    /\ x.key = y.key
    /\ \A w : (\A n \in Names : w # <<"name", n>>) => (w \in x.words <=> w \in y.words)

LEMMA LastingColumns ==
    ASSUME NEW q, Lasts(q), NEW scope, NEW x, NEW y, SameRow(x, y)
    PROVE  /\ SqlSelects(q, scope, x) <=> SqlSelects(q, scope, y)
           /\ x[q.sort] = y[q.sort]
<1>1. \A f \in Lasting : x[f] = y[f]
  BY DEF Lasting, SameRow
<1>2. (\A f \in DOMAIN q.equal : x[f] = q.equal[f]) <=> (\A f \in DOMAIN q.equal : y[f] = q.equal[f])
  BY <1>1 DEF Lasts
<1> QED
  BY <1>1, <1>2 DEF Lasts, SqlSelects, SameRow

LEMMA LastingOrder ==
    ASSUME NEW q, Lasts(q), NEW x, NEW y, NEW u, NEW v, SameRow(x, u), SameRow(y, v)
    PROVE  SqlBefore(q, x, y) <=> SqlBefore(q, u, v)
<1>1. x[q.sort] = u[q.sort] /\ y[q.sort] = v[q.sort] /\ x.id = u.id /\ y.id = v.id
  BY LastingColumns DEF SameRow
<1> QED
  BY <1>1 DEF SqlBefore

LEMMA RowStays ==
    ASSUME IInv, TablesOK', RunsGrow, view # Idle, view' = view
    PROVE  \A id \in Ids(view.query, view.run) :
            /\ id \in Ids(view.query, view.run)'
            /\ SameRow(RowAt(view.query, view.run, id), RowAt(view.query, view.run, id)')
<1> DEFINE q == view.query
           i == view.run
<1>1. TablesOK /\ IsQuery(q) /\ Asked(q, i)
  BY DEF IInv, RequestOK, Typed
<1>2. CASE q.listing = "detail"
  <2>1. i \in DOMAIN runs /\ runs'[i].store = runs[i].store /\ runs[i].rows <= runs'[i].rows
        /\ runs[i].rows \in Nat
    BY <1>1, <1>2, RunsAre DEF Asked, RunsGrow
  <2>2. runs[i].finished = None => runs[i].rows = 0
    BY <1>1, <2>1 DEF TablesOK
  <2>3. CASE runs[i].rows = 0
    BY <1>2, <2>3 DEF Ids
  <2>4. CASE runs[i].rows # 0
    <3>1. runs'[i] = runs[i]
      BY <2>1, <2>2, <2>4 DEF RunsGrow
    <3> QED
      BY <1>2, <3>1 DEF Ids, RowAt, DetailRow, SameRow
  <2> QED
    BY <2>3, <2>4
<1>3. CASE q.listing = "history"
  <2>1. ASSUME NEW id \in DOMAIN runs
        PROVE  id \in DOMAIN runs' /\ SameRow(HistoryRow(id), HistoryRow(id)')
    <3>1. /\ id \in DOMAIN runs' /\ runs'[id].store = runs[id].store
          /\ runs'[id].file = runs[id].file /\ runs'[id].started = runs[id].started
      BY <2>1 DEF RunsGrow
    <3>2. names[runs[id].store] \in Names /\ names'[runs[id].store] \in Names
      BY <1>1, <2>1, RunsAre DEF TablesOK
    <3>3. \A w : (\A n \in Names : w # <<"name", n>>) =>
            (w \in HistoryRow(id).words <=> w \in HistoryRow(id)'.words)
      BY <3>1, <3>2 DEF HistoryRow
    <3>4. /\ HistoryRow(id)'.id = HistoryRow(id).id /\ HistoryRow(id)'.store = HistoryRow(id).store
          /\ HistoryRow(id)'.run = HistoryRow(id).run /\ HistoryRow(id)'.time = HistoryRow(id).time
          /\ HistoryRow(id)'.key = HistoryRow(id).key
      BY <3>1 DEF HistoryRow
    <3> QED
      BY <3>1, <3>3, <3>4 DEF SameRow
  <2> QED
    BY <1>3, <2>1 DEF Ids, RowAt
<1>4. CASE q.listing = "logs"
  <2>1. \A id \in DOMAIN runs : id \in DOMAIN runs'
    BY DEF RunsGrow
  <2> QED
    BY <1>4, <2>1 DEF Ids, RowAt, LogRow, SameRow, RunsGrow
<1> QED
  BY <1>1, <1>2, <1>3, <1>4 DEF IsQuery, Listings

LEMMA MoreRowsAhead ==
    ASSUME NEW S, NEW T, S \subseteq T, IsFiniteSet(T)
    PROVE  Cardinality(S) \in Nat /\ Cardinality(T) \in Nat /\ Cardinality(S) <= Cardinality(T)
BY FS_Subset, FS_CardinalityType

LEMMA RowsFinite ==
    ASSUME NEW r, r \in Seq(RunRow)
    PROVE  IsFiniteSet(DOMAIN r) /\ \A i \in DOMAIN r : IsFiniteSet(1..r[i].rows)
<1>1. Len(r) \in Nat /\ DOMAIN r = 1..Len(r) /\ \A i \in DOMAIN r : r[i] \in RunRow
  BY LenProperties
<1>2. ASSUME NEW i \in DOMAIN r PROVE r[i].rows \in Nat
  <2>1. r[i].rows \in RowCounts \cup {0} /\ RowCounts \subseteq Nat
    BY <1>1, ReadModelsAssumption DEF RunRow
  <2> QED
    BY <2>1, NaturalOrNull
<1>3. IsFiniteSet(1..Len(r))
  BY <1>1, FS_Interval
<1>4. \A i \in DOMAIN r : IsFiniteSet(1..r[i].rows)
  BY <1>2, FS_Interval
<1> QED
  BY <1>1, <1>3, <1>4

LEMMA PlacesGrow ==
    ASSUME IInv, TablesOK', RunsGrow, view # Idle, view' = view, Lasts(view.query)
    PROVE  \A id \in Matching(view.query, view.run, view.scope) :
            /\ id \in Matching(view.query, view.run, view.scope)'
            /\ PlaceOf(view.query, view.run, view.scope, id)
                 <= PlaceOf(view.query, view.run, view.scope, id)'
            /\ PlaceOf(view.query, view.run, view.scope, id) \in Nat
            /\ PlaceOf(view.query, view.run, view.scope, id)' \in Nat
<1> DEFINE q == view.query
           i == view.run
           M == Matching(q, i, view.scope)
<1>1. \A id \in Ids(q, i) : /\ id \in Ids(q, i)'
                            /\ SameRow(RowAt(q, i, id), RowAt(q, i, id)')
  BY RowStays
<1>2. \A id \in M : id \in Ids(q, i) /\ id \in M'
  BY <1>1, LastingColumns DEF Matching
<1>3. \A id, jd \in M : Before(q, i, jd, id) <=> Before(q, i, jd, id)'
  BY <1>1, <1>2, LastingOrder DEF Before
<1>4. IsFiniteSet(M')
  <2>1. Asked(q, i)'
    BY DEF IInv, RequestOK, Asked, RunsGrow
  <2>2. IsFiniteSet(Ids(q, i)')
    BY <2>1, RowsFinite DEF TablesOK, Ids, Asked
  <2>3. M' \subseteq Ids(q, i)'
    BY DEF Matching
  <2> QED
    BY <2>2, <2>3, FS_Subset
<1>5. ASSUME NEW id \in M
      PROVE  /\ Cardinality(AheadOf(q, i, view.scope, id)) \in Nat
             /\ Cardinality(AheadOf(q, i, view.scope, id)') \in Nat
             /\ Cardinality(AheadOf(q, i, view.scope, id))
                  <= Cardinality(AheadOf(q, i, view.scope, id)')
  <2>1. AheadOf(q, i, view.scope, id) \subseteq AheadOf(q, i, view.scope, id)'
    BY <1>2, <1>3 DEF AheadOf
  <2>2. AheadOf(q, i, view.scope, id)' \subseteq M'
    BY DEF AheadOf
  <2>3. IsFiniteSet(AheadOf(q, i, view.scope, id)')
    BY <1>4, <2>2, FS_Subset
  <2> QED
    BY <2>1, <2>3, MoreRowsAhead
<1> QED
  BY <1>2, <1>5 DEF PlaceOf

LEMMA OffsetGrows ==
    ASSUME IInv, view # Idle
    PROVE  /\ Offset(view.page, view.query.size) \in Nat
           /\ Offset(view.page + 1, view.query.size) \in Nat
           /\ Offset(view.page + 1, view.query.size)
                = Offset(view.page, view.query.size) + view.query.size
           /\ Reached(view) \in Nat
<1>1. view.page \in Nat \ {0} /\ view.page + 1 \in Nat \ {0} /\ view.query.size \in Nat
  BY DEF IInv, RequestOK, Typed, IsQuery
<1>2. /\ Offset(view.page, view.query.size) \in Nat
      /\ Offset(view.page + 1, view.query.size) \in Nat
      /\ Offset(view.page + 1, view.query.size)
           = Offset(view.page, view.query.size) + view.query.size
  BY <1>1, OffsetIs
<1> QED
  BY <1>2 DEF Reached

(* total_pages covers all rows that were counted.                           *)
LEMMA PagesCover ==
    ASSUME NEW total \in Nat, NEW size \in Nat \ {0}, NEW page \in Nat, page >= TotalPages(total, size)
    PROVE  total <= Offset(page + 1, size)
<1>1. CASE total = 0
  <2>1. page * size \in Nat
    OBVIOUS
  <2> QED
    BY <1>1, <2>1 DEF Offset
<1>2. CASE total # 0
  <2> DEFINE d == (total + size - 1) \div size
  <2>1. d \in Int /\ total + size - 1 < size * (d + 1)
    OBVIOUS
  <2>2. d <= page
    BY <1>2 DEF TotalPages
  <2> HIDE DEF d
  <2>3. size * (d + 1) <= size * (page + 1)
    BY <2>1, <2>2
  <2>4. size * (page + 1) = page * size + size /\ page * size \in Nat
    OBVIOUS
  <2>5. (page + 1) - 1 = page
    OBVIOUS
  <2>6. total <= page * size
    BY <2>1, <2>3, <2>4
  <2> QED
    BY <2>5, <2>6 DEF Offset
<1> QED
  BY <1>1, <1>2

LEMMA GrowthKeepsWalk ==
    ASSUME IInv, WalkInv, TablesOK', RunsGrow, access' = access, view' = Torn
    PROVE  WalkInv'
<1>1. CASE view = Idle
  BY <1>1, TornIs DEF WalkInv
<1>2. CASE view # Idle /\ view.pc = "fetch"
  <2>1. SameRequest(view, view') /\ view'.missing = {} /\ WalkOK(view)
    BY <1>2, TornIs DEF WalkInv
  <2> QED
    BY <2>1 DEF WalkInv, WalkOK, SameRequest
<1>3. CASE view # Idle /\ view.pc # "fetch"
  <2>1. view' = view /\ WalkOK(view)
    BY <1>3, TornIs DEF WalkInv
  <2>2. SUFFICES ASSUME Lasts(view.query), view.missing # {} PROVE WalkOK(view)'
    BY <2>1 DEF WalkInv, WalkOK
  <2>3. ASSUME NEW id \in view.missing
        PROVE  /\ id \in Matching(view.query, view.run, view.scope)'
               /\ PlaceOf(view.query, view.run, view.scope, id)' > Reached(view)
    <3>1. /\ id \in Matching(view.query, view.run, view.scope)
          /\ PlaceOf(view.query, view.run, view.scope, id) > Reached(view)
      BY <2>1, <2>2 DEF WalkOK
    <3>2. Reached(view) \in Nat
      BY <1>3, OffsetGrows
    <3>3. /\ id \in Matching(view.query, view.run, view.scope)'
          /\ PlaceOf(view.query, view.run, view.scope, id)
               <= PlaceOf(view.query, view.run, view.scope, id)'
          /\ PlaceOf(view.query, view.run, view.scope, id) \in Nat
          /\ PlaceOf(view.query, view.run, view.scope, id)' \in Nat
      BY <1>3, <2>1, <2>2, <3>1, PlacesGrow
    <3> QED
      BY <3>1, <3>2, <3>3
  <2>4. Reached(view)' = Reached(view)
    BY <2>1 DEF Reached
  <2> QED
    BY <1>3, <2>1, <2>2, <2>3, <2>4 DEF WalkOK
<1> QED
  BY <1>1, <1>2, <1>3

\* what does not change the tables and the request leaves the rows at their places
LEMMA PlacesStay ==
    ASSUME runs' = runs, names' = names, view'.query = view.query, view'.run = view.run,
           view'.scope = view.scope
    PROVE  /\ Matching(view.query, view.run, view.scope)' = Matching(view.query, view.run, view.scope)
           /\ \A id : PlaceOf(view.query, view.run, view.scope, id)'
                        = PlaceOf(view.query, view.run, view.scope, id)
<1> DEFINE q == view.query
           i == view.run
<1>1. \A id : RowAt(q, i, id)' = RowAt(q, i, id)
  BY DEF RowAt, HistoryRow, LogRow, DetailRow
<1>2. Ids(q, i)' = Ids(q, i)
  BY DEF Ids
<1>3. Matching(q, i, view.scope)' = Matching(q, i, view.scope)
  BY <1>1, <1>2 DEF Matching, SqlSelects
<1>4. \A id, jd : Before(q, i, id, jd)' <=> Before(q, i, id, jd)
  BY <1>1 DEF Before, SqlBefore
<1>5. \A id : AheadOf(q, i, view.scope, id)' = AheadOf(q, i, view.scope, id)
  BY <1>3, <1>4 DEF AheadOf
<1> QED
  BY <1>3, <1>5 DEF PlaceOf

(* A new name leaves the rows at their places, in an order by other columns. *)
LEMMA RenameStoreKeepsWalk ==
    ASSUME IInv, WalkInv, NEW s \in Stores, NEW n \in Names, RenameStore(s, n)
    PROVE  WalkInv'
<1>1. /\ runs' = runs /\ access' = access /\ view' = view
      /\ IInv'
  BY RenameStoreKeeps DEF RenameStore
<1>2. CASE view = Idle
  BY <1>1, <1>2 DEF WalkInv
<1>3. CASE view # Idle /\ ~ Lasts(view.query)
  BY <1>1, <1>3 DEF WalkInv, WalkOK
<1>4. CASE view # Idle /\ Lasts(view.query)
  <2> DEFINE q == view.query
             i == view.run
             M == Matching(q, i, view.scope)
  <2>1. WalkOK(view)
    BY <1>4 DEF WalkInv
  <2>2. RunsGrow
    BY <1>1, RunsAre DEF IInv, RunsGrow
  <2>3. \A id \in Ids(q, i) : SameRow(RowAt(q, i, id), RowAt(q, i, id)')
    BY <1>1, <1>4, <2>2, RowStays DEF IInv
  <2>4. Ids(q, i)' = Ids(q, i)
    BY <1>1 DEF Ids
  <2>5. M' = M
    BY <1>1, <1>4, <2>3, <2>4, LastingColumns DEF Matching
  <2>6. \A id, jd \in M : Before(q, i, jd, id)' <=> Before(q, i, jd, id)
    BY <1>1, <1>4, <2>3, LastingOrder DEF Before, Matching
  <2>7. \A id \in M : PlaceOf(q, i, view.scope, id)' = PlaceOf(q, i, view.scope, id)
    <3>1. \A id \in M : AheadOf(q, i, view.scope, id)' = AheadOf(q, i, view.scope, id)
      BY <2>5, <2>6 DEF AheadOf
    <3> QED
      BY <3>1 DEF PlaceOf
  <2>8. Reached(view)' = Reached(view)
    BY <1>1 DEF Reached
  <2> QED
    BY <1>1, <2>1, <2>5, <2>7, <2>8 DEF WalkInv, WalkOK
<1> QED
  BY <1>2, <1>3, <1>4

LEMMA ChangeAccessKeepsWalk ==
    ASSUME IInv, WalkInv, NEW stores \in SUBSET Stores, ChangeAccess(stores)
    PROVE  WalkInv'
<1>1. runs' = runs /\ names' = names /\ access' = stores
  BY DEF ChangeAccess
<1>2. CASE view = Idle
  BY <1>2 DEF ChangeAccess, WalkInv, Idle
<1>3. CASE view # Idle
  <2>1. RequestOK(view) /\ WalkOK(view) /\ view.pc # "idle"
    BY <1>3 DEF IInv, WalkInv, RequestOK, StepOK
  <2>2. /\ SameRequest(view, view')
        /\ view'.missing # {} => /\ view'.missing = view.missing
                                 /\ view.user # "admin" => view.scope \subseteq stores
    <3>1. CASE view.user = "admin"
      BY <2>1, <3>1 DEF ChangeAccess, SameRequest
    <3>2. CASE view.user # "admin"
      <4>1. view' = [view EXCEPT !.entitled = @ \cup stores,
                                 !.missing = IF view.scope \subseteq stores THEN @ ELSE {}]
        BY <2>1, <3>2 DEF ChangeAccess
      <4> QED
        BY <2>1, <4>1 DEF SameRequest, RequestOK, Typed
    <3> QED
      BY <3>1, <3>2
  <2>3. /\ Matching(view.query, view.run, view.scope)' = Matching(view.query, view.run, view.scope)
        /\ \A id : PlaceOf(view.query, view.run, view.scope, id)'
                     = PlaceOf(view.query, view.run, view.scope, id)
    BY <1>1, <2>2, PlacesStay DEF SameRequest
  <2>4. Reached(view)' = Reached(view)
    BY <2>2 DEF Reached, SameRequest
  <2>5. WalkOK(view)'
    BY <1>1, <2>1, <2>2, <2>3, <2>4 DEF WalkOK, SameRequest
  <2> QED
    BY <2>5 DEF WalkInv
<1> QED
  BY <1>2, <1>3

LEMMA OpenKeepsWalk ==
    ASSUME IInv, NEW u \in Users, NEW q \in Queries, NEW i \in Run, Open(u, q, i)
    PROVE  WalkInv'
<1>1. TablesOK /\ runs' = runs /\ names' = names /\ access' = access
  BY TablesStay DEF Open, IInv
<1>2. IsQuery(q) /\ Asked(q, i)
  BY ReadModelsAssumption DEF IsQuery, Open, Asked
<1>3. Steps(q.listing)[1] = "policy"
  BY DEF Steps
<1> DEFINE missing == {x.id : x \in SqlRows(q, i, Scope(u))}
<1>4. view' = [pc |-> "policy", step |-> 1, user |-> u, query |-> q, run |-> i, page |-> 1,
               scope |-> Scope(u), entitled |-> Scope(u), final |-> FALSE, summary |-> FALSE,
               file |-> FALSE, total |-> 0, items |-> <<>>, missing |-> missing]
  BY <1>3 DEF Open
<1>5. missing = Matching(q, i, Scope(u))
  <2>1. SqlRows(q, i, Scope(u)) = {RowAt(q, i, id) : id \in Matching(q, i, Scope(u))}
    BY <1>1, <1>2, RowsAre
  <2>2. \A id \in Matching(q, i, Scope(u)) : RowAt(q, i, id).id = id
    BY <1>1, <1>2, RowFields DEF Matching
  <2> QED
    BY <2>1, <2>2
<1> HIDE DEF missing
<1>6. \A id \in missing : PlaceOf(q, i, Scope(u), id) > 0
  <2>1. ASSUME NEW id \in missing PROVE Cardinality(AheadOf(q, i, Scope(u), id)) \in Nat
    <3>1. IsFiniteSet(Matching(q, i, Scope(u)))
      BY <1>1, <1>2, IdsFinite
    <3> QED
      BY <3>1, FS_Subset, FS_CardinalityType DEF AheadOf
  <2> QED
    BY <2>1 DEF PlaceOf
<1>7. /\ Matching(view.query, view.run, view.scope)' = Matching(q, i, Scope(u))
      /\ \A id : PlaceOf(view.query, view.run, view.scope, id)' = PlaceOf(q, i, Scope(u), id)
  <2>1. \A id : RowAt(view.query, view.run, id)' = RowAt(q, i, id)
    BY <1>1, <1>4 DEF RowAt, HistoryRow, LogRow, DetailRow
  <2>2. Ids(view.query, view.run)' = Ids(q, i)
    BY <1>1, <1>4 DEF Ids
  <2>3. Matching(view.query, view.run, view.scope)' = Matching(q, i, Scope(u))
    BY <1>4, <2>1, <2>2 DEF Matching, SqlSelects
  <2>4. \A id, jd : Before(view.query, view.run, id, jd)' <=> Before(q, i, id, jd)
    BY <1>4, <2>1 DEF Before, SqlBefore
  <2>5. \A id : AheadOf(view.query, view.run, view.scope, id)' = AheadOf(q, i, Scope(u), id)
    BY <2>3, <2>4 DEF AheadOf
  <2> QED
    BY <2>3, <2>5 DEF PlaceOf
<1>8. Reached(view)' = 0
  <2>1. (1 - 1) * q.size = 0
    BY <1>2 DEF IsQuery
  <2> QED
    BY <1>4, <2>1 DEF Reached, Offset
<1>9. WalkOK(view)'
  BY <1>1, <1>4, <1>5, <1>6, <1>7, <1>8 DEF WalkOK, Scope, Users
<1> QED
  BY <1>9 DEF WalkInv

(* The policy, the summary, the files and the count show nothing yet.       *)
LEMMA ReadingKeepsWalk ==
    ASSUME IInv, WalkInv, Admit \/ ReadSummary \/ ReadFiles \/ Count
    PROVE  WalkInv'
<1> DEFINE v == view
           n == Cardinality(SqlRows(v.query, v.run, v.scope))
<1>1. view # Idle /\ v.pc \in {"policy", "summary", "files", "count"}
  <2>1. v.pc \in {"policy", "summary", "files", "count"}
    BY DEF Admit, ReadSummary, ReadFiles, Count
  <2> QED
    BY <2>1 DEF Idle
<1>2. RequestOK(v) /\ WalkOK(v)
  BY <1>1 DEF IInv, WalkInv
<1>3. runs' = runs /\ names' = names /\ access' = access /\ TablesOK
  BY TablesStay DEF Admit, ReadSummary, ReadFiles, Count, IInv
<1>4. v.query.listing \in Listings /\ StepOK(v) /\ IsQuery(v.query) /\ Asked(v.query, v.run)
  BY <1>2 DEF RequestOK, Typed, IsQuery
<1>5. n = Cardinality(Matching(v.query, v.run, v.scope))
  BY <1>3, <1>4, RowsTotal
<1> HIDE DEF n
<1>6. After(v) \in {"summary", "files", "count", "fetch"} /\ (After(v) = "fetch" => v.pc = "count")
  BY <1>1, <1>4, AfterIs
<1>7. /\ view'.pc = After(v) /\ view'.page = v.page /\ view'.query = v.query /\ view'.run = v.run
      /\ view'.user = v.user /\ view'.scope = v.scope /\ view'.missing = v.missing
      /\ v.pc = "count" => view'.total = n
  <2>1. CASE Admit
    <3>1. PICK f : view' = [v EXCEPT !.pc = After(v), !.step = @ + 1, !.final = f]
      BY <2>1 DEF Admit, Proceed
    <3> QED
      BY <1>2, <2>1, <3>1 DEF RequestOK, Typed, Admit
  <2>2. CASE ReadSummary
    <3>1. PICK f : view' = [v EXCEPT !.pc = After(v), !.step = @ + 1, !.summary = f]
      BY <2>2 DEF ReadSummary, Proceed
    <3> QED
      BY <1>2, <2>2, <3>1 DEF RequestOK, Typed, ReadSummary
  <2>3. CASE ReadFiles
    <3>1. PICK f : view' = [v EXCEPT !.pc = After(v), !.step = @ + 1, !.file = f]
      BY <2>3 DEF ReadFiles, Proceed
    <3> QED
      BY <1>2, <2>3, <3>1 DEF RequestOK, Typed, ReadFiles
  <2>4. CASE Count
    <3>1. view' = [v EXCEPT !.pc = After(v), !.step = @ + 1, !.total = n]
      BY <2>4 DEF Count, Proceed, n
    <3> QED
      BY <1>2, <3>1 DEF RequestOK, Typed
  <2> QED
    BY <2>1, <2>2, <2>3, <2>4
<1>8. /\ Matching(view.query, view.run, view.scope)' = Matching(v.query, v.run, v.scope)
      /\ \A id : PlaceOf(view.query, view.run, view.scope, id)' = PlaceOf(v.query, v.run, v.scope, id)
  BY <1>3, <1>7, PlacesStay
<1>9. Reached(view)' = Reached(view)
  BY <1>1, <1>6, <1>7 DEF Reached
<1>10. WalkOK(view)'
  BY <1>2, <1>3, <1>5, <1>6, <1>7, <1>8, <1>9 DEF WalkOK
<1> QED
  BY <1>10 DEF WalkInv

(* What is on the page is shown; what is not is behind it.                  *)
LEMMA FetchKeepsWalk ==
    ASSUME IInv, WalkInv, Fetch
    PROVE  WalkInv'
<1> DEFINE v == view
           items == SqlPage(v.query, v.run, v.scope, v.page)
           shown == {items[n].id : n \in DOMAIN items}
<1>1. view # Idle /\ v.pc = "fetch" /\ v.query.sort \in SortFields(v.query.listing)
  BY DEF Fetch, Idle
<1>2. RequestOK(v) /\ WalkOK(v)
  BY <1>1 DEF IInv, WalkInv
<1>3. runs' = runs /\ names' = names /\ access' = access /\ TablesOK
  BY TablesStay DEF Fetch, IInv
<1>4. /\ v.query.listing \in Listings /\ StepOK(v) /\ IsQuery(v.query) /\ Asked(v.query, v.run)
      /\ v.page \in Nat \ {0}
  BY <1>2 DEF RequestOK, Typed, IsQuery
<1>5. \A id \in Matching(v.query, v.run, v.scope) :
        /\ PlaceOf(v.query, v.run, v.scope, id) > Offset(v.page, v.query.size)
        /\ PlaceOf(v.query, v.run, v.scope, id) <= Offset(v.page, v.query.size) + v.query.size
        => id \in shown
  <2>1. ASSUME NEW id \in Matching(v.query, v.run, v.scope),
               PlaceOf(v.query, v.run, v.scope, id) > Offset(v.page, v.query.size),
               PlaceOf(v.query, v.run, v.scope, id) <= Offset(v.page, v.query.size) + v.query.size
        PROVE  OnPage(items, id)
    BY <1>1, <1>3, <1>4, <2>1, PageIs
  <2> HIDE DEF items
  <2> QED
    BY <2>1 DEF OnPage
<1>6. \A id \in Matching(v.query, v.run, v.scope) :
        PlaceOf(v.query, v.run, v.scope, id) \in 1..Cardinality(Matching(v.query, v.run, v.scope))
  BY <1>1, <1>3, <1>4, Places
<1>7. Cardinality(Matching(v.query, v.run, v.scope)) \in Nat
  BY <1>3, <1>4, RowsTotal
<1>8. /\ view'.pc = "shown" /\ view'.page = v.page /\ view'.query = v.query /\ view'.run = v.run
      /\ view'.user = v.user /\ view'.scope = v.scope /\ view'.missing = v.missing \ shown
      /\ view'.total = v.total
  <2>1. view' = [v EXCEPT !.pc = After(v), !.step = @ + 1, !.items = items, !.missing = @ \ shown]
    BY DEF Fetch, Proceed
  <2>2. After(v) = "shown"
    BY <1>1, <1>4, AfterIs
  <2> HIDE DEF items, shown
  <2> QED
    BY <1>2, <2>1, <2>2 DEF RequestOK, Typed
<1> HIDE DEF items, shown
<1>9. /\ Matching(view.query, view.run, view.scope)' = Matching(v.query, v.run, v.scope)
      /\ \A id : PlaceOf(view.query, view.run, view.scope, id)' = PlaceOf(v.query, v.run, v.scope, id)
  BY <1>3, <1>8, PlacesStay
<1>10. /\ Offset(v.page, v.query.size) \in Nat /\ Offset(v.page + 1, v.query.size) \in Nat
       /\ Offset(v.page + 1, v.query.size) = Offset(v.page, v.query.size) + v.query.size
       /\ Reached(view) = Offset(v.page, v.query.size)
       /\ Reached(view)' = Offset(v.page + 1, v.query.size)
  BY <1>1, <1>8, OffsetGrows DEF Reached
<1>11. ASSUME Lasts(v.query), NEW id \in v.missing \ shown
       PROVE  /\ id \in Matching(v.query, v.run, v.scope)
              /\ PlaceOf(v.query, v.run, v.scope, id) > Offset(v.page + 1, v.query.size)
              /\ v.total > Offset(v.page + 1, v.query.size)
  <2>1. /\ id \in Matching(v.query, v.run, v.scope)
        /\ PlaceOf(v.query, v.run, v.scope, id) > Offset(v.page, v.query.size)
        /\ v.total = Cardinality(Matching(v.query, v.run, v.scope))
    BY <1>1, <1>2, <1>10, <1>11 DEF WalkOK
  <2> DEFINE place == PlaceOf(v.query, v.run, v.scope, id)
             total == Cardinality(Matching(v.query, v.run, v.scope))
  <2>2. place \in 1..total /\ total \in Nat
    BY <1>6, <1>7, <2>1
  <2>3. ~ (place <= Offset(v.page, v.query.size) + v.query.size)
    BY <1>5, <1>11, <2>1
  <2> HIDE DEF place, total
  <2>4. v.query.size \in Nat
    BY <1>4 DEF IsQuery
  <2>5. place > Offset(v.page + 1, v.query.size) /\ total > Offset(v.page + 1, v.query.size)
    BY <1>10, <2>2, <2>3, <2>4
  <2> QED
    BY <2>1, <2>5 DEF place, total
<1>12. WalkOK(view)'
  BY <1>2, <1>3, <1>8, <1>9, <1>10, <1>11 DEF WalkOK
<1> QED
  BY <1>12 DEF WalkInv

(* The last page is not left before every row that was counted is shown.    *)
LEMMA FinishKeepsWalk ==
    ASSUME IInv, WalkInv, Finish
    PROVE  WalkInv'
<1> DEFINE v == view
<1>1. /\ view # Idle /\ v.pc = "shown"
      /\ v.page >= TotalPages(v.total, v.query.size)
  BY DEF Finish, Idle
<1>2. RequestOK(v) /\ WalkOK(v)
  BY <1>1 DEF IInv, WalkInv
<1>3. /\ view'.pc = "done" /\ view'.query = v.query /\ view'.user = v.user
      /\ view'.scope = v.scope /\ view'.missing = v.missing
  BY <1>2 DEF Finish, RequestOK, Typed
<1>4. v.query.size \in Nat \ {0} /\ v.total \in Nat /\ v.page \in Nat
  BY <1>1, <1>2, ReadModelsAssumption DEF RequestOK, SizeOK, Typed
<1>5. v.total <= Offset(v.page + 1, v.query.size)
  BY <1>1, <1>4, PagesCover
<1>6. Reached(v) = Offset(v.page + 1, v.query.size) /\ Reached(v) \in Nat
  BY <1>1, OffsetGrows DEF Reached
<1>7. ~ (Lasts(v.query) /\ v.missing # {})
  BY <1>1, <1>2, <1>4, <1>5, <1>6 DEF WalkOK
<1>8. WalkOK(view)'
  BY <1>2, <1>3, <1>7 DEF WalkOK
<1> QED
  BY <1>8 DEF WalkInv

(* More stores only add rows.                                               *)
LEMMA WiderScope ==
    ASSUME TablesOK, NEW q, IsQuery(q), NEW i, Asked(q, i), NEW scope, NEW wider, scope \subseteq wider,
           NEW id \in Matching(q, i, scope)
    PROVE  /\ id \in Matching(q, i, wider)
           /\ PlaceOf(q, i, scope, id) \in Nat /\ PlaceOf(q, i, wider, id) \in Nat
           /\ PlaceOf(q, i, scope, id) <= PlaceOf(q, i, wider, id)
<1>1. Matching(q, i, scope) \subseteq Matching(q, i, wider)
  BY DEF Matching, SqlSelects
<1>2. AheadOf(q, i, scope, id) \subseteq AheadOf(q, i, wider, id)
  BY <1>1 DEF AheadOf
<1>3. IsFiniteSet(AheadOf(q, i, wider, id))
  BY IdsFinite, FS_Subset DEF AheadOf
<1>4. /\ Cardinality(AheadOf(q, i, scope, id)) \in Nat
      /\ Cardinality(AheadOf(q, i, wider, id)) \in Nat
      /\ Cardinality(AheadOf(q, i, scope, id)) <= Cardinality(AheadOf(q, i, wider, id))
  BY <1>2, <1>3, MoreRowsAhead
<1> QED
  BY <1>1, <1>4 DEF PlaceOf

LEMMA TurnKeepsWalk ==
    ASSUME IInv, WalkInv, Turn(view.query)
    PROVE  WalkInv'
<1> DEFINE v == view
           wider == Scope(v.user)
<1>1. view # Idle /\ v.pc = "shown"
  BY DEF Turn, Idle
<1>2. RequestOK(v) /\ WalkOK(v)
  BY <1>1 DEF IInv, WalkInv
<1>3. runs' = runs /\ names' = names /\ access' = access /\ TablesOK
  BY TablesStay DEF Turn, IInv
<1>4. IsQuery(v.query) /\ Asked(v.query, v.run) /\ v.user \in Users
  BY <1>2 DEF RequestOK, Typed
<1>5. /\ view'.pc = "policy" /\ view'.page = v.page + 1 /\ view'.query = v.query
      /\ view'.run = v.run /\ view'.user = v.user /\ view'.scope = wider
      /\ view'.missing = v.missing
  <2>1. Steps(v.query.listing)[1] = "policy"
    BY DEF Steps
  <2> QED
    BY <1>2, <2>1 DEF Turn, RequestOK, Typed
<1>6. /\ Matching(view.query, view.run, view.scope)' = Matching(v.query, v.run, wider)
      /\ \A id : PlaceOf(view.query, view.run, view.scope, id)' = PlaceOf(v.query, v.run, wider, id)
  <2> HIDE DEF wider
  <2>1. \A id : RowAt(view.query, view.run, id)' = RowAt(v.query, v.run, id)
    BY <1>3, <1>5 DEF RowAt, HistoryRow, LogRow, DetailRow
  <2>2. Ids(view.query, view.run)' = Ids(v.query, v.run)
    BY <1>3, <1>5 DEF Ids
  <2>3. Matching(view.query, view.run, view.scope)' = Matching(v.query, v.run, wider)
    BY <1>5, <2>1, <2>2 DEF Matching, SqlSelects
  <2>4. \A id, jd : Before(view.query, view.run, id, jd)' <=> Before(v.query, v.run, id, jd)
    BY <1>5, <2>1 DEF Before, SqlBefore
  <2>5. \A id : AheadOf(view.query, view.run, view.scope, id)' = AheadOf(v.query, v.run, wider, id)
    BY <2>3, <2>4 DEF AheadOf
  <2> QED
    BY <2>3, <2>5 DEF PlaceOf
<1>7. Reached(view)' = Reached(v) /\ Reached(v) \in Nat
  BY <1>1, <1>5, OffsetGrows DEF Reached
<1>8. ASSUME Lasts(v.query), NEW id \in v.missing
      PROVE  /\ id \in Matching(v.query, v.run, wider)
             /\ PlaceOf(v.query, v.run, wider, id) > Reached(v)
  <2>1. /\ id \in Matching(v.query, v.run, v.scope)
        /\ PlaceOf(v.query, v.run, v.scope, id) > Reached(v)
        /\ v.scope \subseteq wider
    BY <1>2, <1>8 DEF WalkOK, Scope
  <2>2. /\ id \in Matching(v.query, v.run, wider)
        /\ PlaceOf(v.query, v.run, v.scope, id) \in Nat /\ PlaceOf(v.query, v.run, wider, id) \in Nat
        /\ PlaceOf(v.query, v.run, v.scope, id) <= PlaceOf(v.query, v.run, wider, id)
    BY <1>3, <1>4, <2>1, WiderScope
  <2> QED
    BY <1>7, <2>1, <2>2
<1>9. WalkOK(view)'
  BY <1>2, <1>3, <1>5, <1>6, <1>7, <1>8 DEF WalkOK, Scope
<1> QED
  BY <1>9 DEF WalkInv

LEMMA WalkStepHolds ==
    ASSUME LinksKeep, IInv, WalkInv, [Next]_vars
    PROVE  WalkInv'
<1>1. ASSUME NEW s \in Stores, NEW f \in Files, NEW t \in Times, StartRun(s, f, t) PROVE WalkInv'
  <2>1. view' = Torn /\ access' = access
    BY <1>1 DEF StartRun
  <2> QED
    BY <1>1, <2>1, StartedRunsGrow, GrowthKeepsWalk DEF IInv
<1>2. ASSUME NEW i \in DOMAIN runs, NEW t \in Times, NEW n \in RowCounts, FinishRun(i, t, n)
      PROVE  WalkInv'
  <2>1. view' = Torn /\ access' = access
    BY <1>2 DEF FinishRun
  <2> QED
    BY <1>2, <2>1, FinishedRunsGrow, GrowthKeepsWalk DEF IInv
<1>3. ASSUME NEW stores \in SUBSET Stores, ChangeAccess(stores) PROVE WalkInv'
  BY <1>3, ChangeAccessKeepsWalk
<1>4. ASSUME NEW u \in Users, NEW q \in Queries, NEW i \in Run, Open(u, q, i) PROVE WalkInv'
  BY <1>4, OpenKeepsWalk
<1>5. CASE Admit \/ ReadSummary \/ ReadFiles \/ Count
  BY <1>5, ReadingKeepsWalk
<1>6. CASE Fetch
  BY <1>6, FetchKeepsWalk
<1>7. CASE Refuse \/ Leave
  BY <1>7 DEF Refuse, Leave, WalkInv
<1>8. CASE FollowLink
  <2>1. view # Idle /\ view.query.via = "page" /\ Turn(LinkQuery(view.query))
    BY <1>8 DEF FollowLink, Idle
  <2>2. LinkQuery(view.query) = view.query
    BY <2>1 DEF WalkInv, WalkOK, LinksKeep
  <2>3. Turn(view.query)
    BY <2>1, <2>2
  <2> QED
    BY <2>3, TurnKeepsWalk
<1>9. CASE AskNext
  BY <1>9, TurnKeepsWalk DEF AskNext
<1>10. CASE Finish
  BY <1>10, FinishKeepsWalk
<1>11. ASSUME NEW s \in Stores, NEW n \in Names, RenameStore(s, n) PROVE WalkInv'
  BY <1>11, RenameStoreKeepsWalk
<1>12. CASE UNCHANGED vars
  <2>1. view' = view /\ runs' = runs /\ names' = names /\ access' = access
    BY <1>12 DEF vars
  <2>2. view # Idle =>
          /\ Matching(view.query, view.run, view.scope)' = Matching(view.query, view.run, view.scope)
          /\ \A id : PlaceOf(view.query, view.run, view.scope, id)'
                       = PlaceOf(view.query, view.run, view.scope, id)
    BY <2>1, PlacesStay
  <2>3. Reached(view)' = Reached(view)
    BY <2>1 DEF Reached
  <2> QED
    BY <2>1, <2>2, <2>3 DEF WalkInv, WalkOK
<1> QED
  BY <1>1, <1>2, <1>3, <1>4, <1>5, <1>6, <1>7, <1>8, <1>9, <1>10, <1>11, <1>12 DEF Next

(* A walk over all pages by columns that last shows every row that matched   *)
(* when it began, whatever is started, finished and renamed in between -     *)
(* when the links of the HTML pages ask for the same listing again, which    *)
(* they do not for a parameter that is False (_pagination).                  *)
THEOREM NothingIsSkipped == ASSUME LinksKeep PROVE Spec => []NothingSkipped
<1>1. Init => WalkInv
  BY DEF Init, WalkInv
<1>2. IInv /\ WalkInv /\ [Next]_vars => WalkInv'
  BY WalkStepHolds
<1>3. WalkInv => NothingSkipped
  BY DEF WalkInv, WalkOK, NothingSkipped, Idle
<1> QED
  BY <1>1, <1>2, <1>3, Invariance, PTL DEF Spec

=============================================================================
