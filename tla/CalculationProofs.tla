-------------------------- MODULE CalculationProofs --------------------------
(***************************************************************************)
(* Proofs about Calculation, for all rows, settings and numbers of rows:   *)
(* what the dictionary of _aggregate_promos holds, that the discount       *)
(* formula of the code is the documented one, which Ozon rows participate, *)
(* and that summaries add up.                                              *)
(***************************************************************************)
EXTENDS Calculation, FiniteSetTheorems, TLAPS

-----------------------------------------------------------------------------
(* Arithmetic. *)

\* The strategies count with the same operator as the lemmas about it.
LEMMA SameCardinality ==
    /\ \A S : WB!Cardinality(S) = Cardinality(S)
    /\ \A S : Ozon!Cardinality(S) = Cardinality(S)
BY DEF Cardinality, WB!Cardinality, Ozon!Cardinality

\* Python's floor division of the price formula, by comparison.
LEMMA DivBound ==
    ASSUME NEW a \in Int, NEW b \in Nat \ {0}, NEW k \in Int
    PROVE  a \div b \in Int /\ (k <= a \div b <=> b * k <= a)
<1> DEFINE q == a \div b
<1>1. q \in Int /\ b * q <= a /\ a < b * (q + 1)
  OBVIOUS
<1> HIDE DEF q
<1>2. CASE k <= q
  <2>1. b * k <= b * q
    BY <1>1, <1>2
  <2> QED
    BY <1>1, <1>2, <2>1
<1>3. CASE k > q
  <2>1. q + 1 <= k
    BY <1>1, <1>3
  <2>2. b * (q + 1) <= b * k
    BY <1>1, <2>1
  <2> QED
    BY <1>1, <1>3, <2>2
<1> QED
  BY <1>1, <1>2, <1>3 DEF q

\* min() of a set that has a least element.
LEMMA LeastIs ==
    ASSUME NEW S \in SUBSET Int, NEW m \in S, \A y \in S : m <= y
    PROVE  WB!Least(S) = m
<1>1. WB!Least(S) \in S /\ \A y \in S : WB!Least(S) <= y
  <2>1. \E x \in S : \A y \in S : x <= y
    OBVIOUS
  <2> QED
    BY <2>1 DEF WB!Least
<1>2. WB!Least(S) <= m /\ m <= WB!Least(S) /\ WB!Least(S) \in Int /\ m \in Int
  BY <1>1
<1> HIDE DEF WB!Least
<1> QED
  BY <1>2

\* max() of a set that has a greatest element.
LEMMA GreatestIs ==
    ASSUME NEW S \in SUBSET Int, NEW m \in S, \A y \in S : y <= m
    PROVE  WB!Greatest(S) = m
<1>1. WB!Greatest(S) \in S /\ \A y \in S : y <= WB!Greatest(S)
  <2>1. \E x \in S : \A y \in S : y <= x
    OBVIOUS
  <2> QED
    BY <2>1 DEF WB!Greatest
<1>2. WB!Greatest(S) <= m /\ m <= WB!Greatest(S) /\ WB!Greatest(S) \in Int /\ m \in Int
  BY <1>1
<1> QED
  BY <1>2

\* min() and max() of two values.
LEMMA LeastOfTwo ==
    ASSUME NEW a \in Int, NEW b \in Int
    PROVE  WB!Least({a, b}) = IF a <= b THEN a ELSE b
<1>1. CASE a <= b
  BY <1>1, LeastIs
<1>2. CASE ~ (a <= b)
  <2>1. b <= a
    BY <1>2
  <2> QED
    BY <1>2, <2>1, LeastIs
<1> QED
  BY <1>1, <1>2

LEMMA GreatestOfTwo ==
    ASSUME NEW a \in Int, NEW b \in Int
    PROVE  WB!Greatest({a, b}) = IF a <= b THEN b ELSE a
<1>1. CASE a <= b
  BY <1>1, GreatestIs
<1>2. CASE ~ (a <= b)
  <2>1. b <= a
    BY <1>2
  <2> QED
    BY <1>2, <2>1, GreatestIs
<1> QED
  BY <1>1, <1>2

\* Discounts are cut off to percentages.
LEMMA ClampIs ==
    ASSUME NEW v \in Int
    PROVE  WB!Clamp(v) \in 0..100 /\ (v \in 0..100 => WB!Clamp(v) = v)
BY DEF WB!Clamp

\* The uploaded discount of a row is a percentage, or nothing.
LEMMA NormalDiscountIs ==
    ASSUME NEW cell \in WB!Cell, WB!NormalDiscount(cell) # None
    PROVE  cell \in Int /\ WB!NormalDiscount(cell) \in 0..100
<1>1. cell \in Int
  BY DEF WB!NormalDiscount, WB!Cell
<1>2. cell \notin {None, NotANumber}
  BY DEF WB!NormalDiscount
<1>3. (- cell) \div 10 \in Int
  <2>1. - cell \in Int
    BY <1>1
  <2> QED
    BY <2>1, DivBound
<1>4. WB!Ceiling(cell) \in Int
  BY <1>3 DEF WB!Ceiling
<1>5. WB!Clamp(WB!Ceiling(cell)) \in 0..100
  BY <1>4, ClampIs
<1> QED
  BY <1>1, <1>2, <1>5 DEF WB!NormalDiscount

\* The formula of _calculate_discount is the documented discount: the least whole
\* percentage that takes the price to the plan price.
LEMMA CalculatedReaches ==
    ASSUME NEW price \in Nat \ {0}, NEW plan \in Int
    PROVE  /\ WB!Calculated(price, plan) \in 0..100
           /\ WB!Reaching(price, plan) = WB!Calculated(price, plan)
<1> DEFINE q == (100 * plan) \div price
           enough == {d \in 0..100 : price * (100 - d) <= 100 * plan}
<1>1. q \in Int /\ \A k \in Int : k <= q <=> price * k <= 100 * plan
  BY DivBound
<1>2. enough = {d \in 0..100 : 100 - d <= q}
  BY <1>1
<1>3. WB!Calculated(price, plan) = WB!Clamp(100 - q)
  BY DEF WB!Calculated
<1>4. WB!Reaching(price, plan) = IF enough = {} THEN 100 ELSE WB!Least(enough)
  BY DEF WB!Reaching
<1> HIDE DEF q, enough
<1>5. CASE q < 0
  <2>1. enough = {}
    BY <1>1, <1>2, <1>5
  <2>2. WB!Clamp(100 - q) = 100
    BY <1>1, <1>5 DEF WB!Clamp
  <2> QED
    BY <1>3, <1>4, <2>1, <2>2
<1>6. CASE q >= 0
  <2> DEFINE m == WB!Clamp(100 - q)
  <2>1. m \in 0..100 /\ m = IF q > 100 THEN 0 ELSE 100 - q
    BY <1>1, <1>6 DEF WB!Clamp
  <2> HIDE DEF m
  <2>2. m \in enough /\ (\A d \in enough : m <= d) /\ enough \in SUBSET Int
    BY <1>1, <1>2, <1>6, <2>1
  <2>3. WB!Least(enough) = m
    BY <2>2, LeastIs
  <2> QED
    BY <1>3, <1>4, <2>1, <2>2, <2>3 DEF m
<1> QED
  BY <1>1, <1>5, <1>6

\* A higher plan price needs no higher discount.
LEMMA CalculatedFalls ==
    ASSUME NEW price \in Nat \ {0}, NEW plan \in Int, NEW other \in Int, other <= plan
    PROVE  WB!Calculated(price, plan) <= WB!Calculated(price, other)
<1> DEFINE p == (100 * plan) \div price
           q == (100 * other) \div price
<1>1. q \in Int /\ price * q <= 100 * other
  BY DivBound
<1>2. p \in Int /\ \A k \in Int : k <= p <=> price * k <= 100 * plan
  BY DivBound
<1>3. WB!Calculated(price, plan) = WB!Clamp(100 - p) /\ WB!Calculated(price, other) = WB!Clamp(100 - q)
  BY DEF WB!Calculated
<1> HIDE DEF p, q
<1>4. q <= p
  <2>1. price * q <= 100 * plan
    BY <1>1
  <2> QED
    BY <1>1, <1>2, <2>1
<1> QED
  BY <1>1, <1>2, <1>3, <1>4 DEF WB!Clamp

-----------------------------------------------------------------------------
(* The inductive invariant of a WB pass. *)

Aggregate    == [discount : 0..100, plan : Int \cup {NotANumber}]
Reasons      == WB!Unwritten \cup WB!Written
Decided      == [article : Articles \cup {None}, price : WB!Cell, reason : Reasons,
                 final : 0..100 \cup {None}, severity : {"warning", "info"}]
Discounts(a) == {WB!NormalDiscount(r.discount) : r \in WB!RowsOf(a)}
Plans(a)     == {r.plan : r \in WB!RowsOf(a)}

(* The entry of an article in the dictionary that _aggregate_promos carries *)
(* from row to row.  "nan" is in it only if it has been compared to nothing.*)
Summed(a) ==
    IF WB!RowsOf(a) = {} THEN aggregates[a] = None
    ELSE /\ aggregates[a] \in Aggregate
         /\ aggregates[a].discount \in Discounts(a)
         /\ \A d \in Discounts(a) : aggregates[a].discount <= d
         /\ aggregates[a].plan \in Plans(a)
         /\ IF aggregates[a].plan = NotANumber THEN Plans(a) = {NotANumber}
            ELSE \A p \in Plans(a) : p \in Int /\ p <= aggregates[a].plan

(* The discount of docs/10, 13-14, for a price of an article.               *)
Reachings(a, price) == {WB!Reaching(price, r.plan) : r \in WB!RowsOf(a)}
Hybrid(a, price)    == WB!Least(Discounts(a) \cup Reachings(a, price))
Rule(a, price) ==
    IF a = None \/ price = None \/ price <= 0 THEN None
    ELSE IF WB!RowsOf(a) = {} THEN WB!Clamp(settings.noPromo)
    ELSE IF Hybrid(a, price) > settings.threshold THEN WB!Clamp(settings.overThreshold)
    ELSE Hybrid(a, price)

(* A decision follows the rule, and has a discount unless it warns of a row *)
(* that cannot be decided.                                                  *)
DecisionOK(d) ==
    /\ d.final = Rule(d.article, d.price)
    /\ d.final = None <=> d.reason \in WB!Unwritten
    /\ d.reason \in WB!Unwritten \cup {"fallback_over_threshold"} => d.severity = "warning"

NoTwice == \A i, j \in DOMAIN decisions :
    i # j /\ decisions[i].article # None => decisions[i].article # decisions[j].article

TableOK ==
    /\ stage \in WB!Stages /\ settings \in Settings /\ input \in WB!Input
    /\ promos \in Seq(Seq(PromoRows)) /\ aggregates \in [Articles -> Aggregate \cup {None}]
    /\ stage = "open" => promos = <<>> /\ \A a \in Articles : aggregates[a] = None
    /\ stage = "promos" => promos # <<>>
    /\ stage \in {"open", "promos"} => decisions = <<>>
    /\ stage # "done" => column = None
    /\ column = None \/ column = [i \in WB!WithReason(WB!Written) |-> decisions[i].final]
    /\ decisions \in Seq(Decided)
SumsOK == stage \in {"promos", "prices", "done"} =>
    settings # None /\ \A a \in Articles : Summed(a)
WBInv ==
    /\ TableOK /\ SumsOK /\ NoTwice
    /\ (\A i \in DOMAIN decisions : DecisionOK(decisions[i]))
    /\ stage \in {"prices", "done"} => \E row \in WB!RowsRead : WB!Valid(row)

-----------------------------------------------------------------------------
(* The promo rows. *)

LEMMA WBConstants ==
    /\ \A row \in PromoRows : row.article \in Articles \cup {None} /\ row.plan \in WB!Cell
                              /\ row.discount \in WB!Cell
    /\ \A row \in PriceRows : row.article \in Articles \cup {None} /\ row.price \in WB!Cell
    /\ None \notin Articles /\ None \notin Int /\ NotANumber \notin Int /\ None # NotANumber
    /\ None \notin Aggregate
    /\ \A s \in Settings \ {None} : /\ s.threshold \in Int /\ s.noPromo \in Int
                                    /\ s.overThreshold \in Int
BY CalculationAssumption DEF WB!WBProcessingAssumption, WB!PromoRow, WB!PriceRow, Aggregate

LEMMA ValidIs ==
    ASSUME NEW row \in PromoRows, WB!Valid(row)
    PROVE  /\ row.article \in Articles /\ row.plan \in Int \cup {NotANumber}
           /\ WB!NormalDiscount(row.discount) \in 0..100
BY WBConstants, NormalDiscountIs DEF WB!Valid, WB!Cell

\* What has been read, once one more row has been read.
LEMMA RowAdded ==
    ASSUME promos \in Seq(Seq(PromoRows)), promos # <<>>, NEW row \in PromoRows,
           promos' = [promos EXCEPT ![Len(promos)] = Append(@, row)]
    PROVE  /\ promos' \in Seq(Seq(PromoRows)) /\ promos' # <<>>
           /\ WB!RowsRead' = WB!RowsRead \cup {row}
<1> DEFINE n == Len(promos)
<1>1. n \in 1..Len(promos) /\ n \in DOMAIN promos /\ promos[n] \in Seq(PromoRows)
  OBVIOUS
<1>2. promos'[n] = Append(promos[n], row) /\ DOMAIN promos' = DOMAIN promos
      /\ \A i \in DOMAIN promos : i # n => promos'[i] = promos[i]
  BY <1>1
<1>3. promos' \in Seq(Seq(PromoRows)) /\ promos' # <<>>
  BY <1>1
<1>4. \A j \in DOMAIN promos[n] : j \in DOMAIN Append(promos[n], row)
                                  /\ Append(promos[n], row)[j] = promos[n][j]
  BY <1>1
<1>5. \A j \in DOMAIN Append(promos[n], row) :
        j \in DOMAIN promos[n] \/ Append(promos[n], row)[j] = row
  BY <1>1
<1>6. \E j \in DOMAIN Append(promos[n], row) : Append(promos[n], row)[j] = row
  <2>1. \A s \in Seq(PromoRows) : Append(s, row)[Len(s) + 1] = row /\ Len(s) + 1 \in DOMAIN Append(s, row)
    OBVIOUS
  <2> QED
    BY <1>1, <2>1
<1> HIDE DEF n
<1>7. \A x : x \in WB!RowsRead <=> \E i \in DOMAIN promos : \E j \in DOMAIN promos[i] : x = promos[i][j]
  BY DEF WB!RowsRead
<1>8. \A x : x \in WB!RowsRead' <=> \E i \in DOMAIN promos' : \E j \in DOMAIN promos'[i] : x = promos'[i][j]
  BY DEF WB!RowsRead
<1>9. ASSUME NEW x \in WB!RowsRead PROVE x \in WB!RowsRead'
  <2>1. PICK i \in DOMAIN promos : \E j \in DOMAIN promos[i] : x = promos[i][j]
    BY <1>7, <1>9
  <2>2. CASE i = n
    BY <1>2, <1>4, <1>8, <2>1, <2>2
  <2>3. CASE i # n
    BY <1>2, <1>8, <2>1, <2>3
  <2> QED
    BY <2>2, <2>3
<1>10. row \in WB!RowsRead'
  BY <1>1, <1>2, <1>6, <1>8
<1>11. ASSUME NEW x \in WB!RowsRead' PROVE x \in WB!RowsRead \cup {row}
  <2>1. PICK i \in DOMAIN promos' : \E j \in DOMAIN promos'[i] : x = promos'[i][j]
    BY <1>8, <1>11
  <2>2. CASE i = n
    BY <1>1, <1>2, <1>5, <1>7, <2>1, <2>2
  <2>3. CASE i # n
    BY <1>2, <1>7, <2>1, <2>3
  <2> QED
    BY <2>2, <2>3
<1> QED
  BY <1>3, <1>9, <1>10, <1>11

LEMMA ReadTypes ==
    ASSUME promos \in Seq(Seq(PromoRows))
    PROVE  WB!RowsRead \in SUBSET PromoRows
<1>1. \A i \in DOMAIN promos : promos[i] \in Seq(PromoRows)
  OBVIOUS
<1>2. \A i \in DOMAIN promos : \A j \in DOMAIN promos[i] : promos[i][j] \in PromoRows
  BY <1>1
<1> QED
  BY <1>2 DEF WB!RowsRead

\* _aggregate_promos, for the row it reads next.
LEMMA CombineSums ==
    ASSUME TableOK, NEW row \in PromoRows, WB!Valid(row), WB!RowsRead' = WB!RowsRead \cup {row},
           NEW a \in Articles, a = row.article, Summed(a), WB!Comparable(aggregates[a], row),
           aggregates' = [aggregates EXCEPT ![a] = WB!Combine(aggregates[a], row)]
    PROVE  WB!Combine(aggregates[a], row) \in Aggregate /\ Summed(a)'
<1>1. PICK d : d = WB!NormalDiscount(row.discount)
  OBVIOUS
<1>2. PICK old : old = aggregates[a]
  OBVIOUS
<1>3. PICK new : new = WB!Combine(old, row)
  OBVIOUS
<1>4. row.plan \in Int \cup {NotANumber} /\ d \in 0..100
  BY <1>1, ValidIs
<1>5. aggregates'[a] = new /\ old \in Aggregate \cup {None}
  BY <1>2, <1>3 DEF TableOK
<1>6. WB!RowsOf(a)' = WB!RowsOf(a) \cup {row}
  BY DEF WB!RowsOf, WB!Valid, WB!NormalDiscount, WB!Clamp, WB!Ceiling
<1>7. Discounts(a)' = Discounts(a) \cup {d} /\ Plans(a)' = Plans(a) \cup {row.plan}
  BY <1>1, <1>6 DEF Discounts, Plans, WB!NormalDiscount, WB!Clamp, WB!Ceiling
<1>8. SUFFICES /\ new \in Aggregate /\ new.discount \in Discounts(a)'
               /\ \A x \in Discounts(a)' : new.discount <= x
               /\ new.plan \in Plans(a)'
               /\ IF new.plan = NotANumber THEN Plans(a)' = {NotANumber}
                  ELSE \A p \in Plans(a)' : p \in Int /\ p <= new.plan
  <2>1. WB!RowsOf(a)' # {}
    BY <1>6
  <2> QED
    BY <1>2, <1>3, <1>5, <2>1 DEF Summed
<1>9. CASE old = None
  <2>1. WB!RowsOf(a) = {}
    BY <1>2, <1>9, WBConstants DEF Summed
  <2>2. Discounts(a)' = {d} /\ Plans(a)' = {row.plan}
    BY <1>7, <2>1 DEF Discounts, Plans
  <2>3. new = [discount |-> d, plan |-> row.plan]
    BY <1>1, <1>3, <1>9 DEF WB!Combine
  <2>4. new \in Aggregate /\ new.discount = d /\ new.plan = row.plan
    BY <1>4, <2>3 DEF Aggregate
  <2> QED
    BY <1>4, <2>2, <2>4
<1>10. CASE old # None
  <2>1. /\ old \in Aggregate /\ old.discount \in Discounts(a) /\ old.discount \in 0..100
        /\ \A x \in Discounts(a) : old.discount <= x
        /\ old.plan \in Plans(a) /\ old.plan \in Int \cup {NotANumber}
        /\ IF old.plan = NotANumber THEN Plans(a) = {NotANumber}
           ELSE \A p \in Plans(a) : p \in Int /\ p <= old.plan
    BY <1>2, <1>5, <1>10 DEF Summed, Aggregate
  <2>2. old.plan \in Int /\ row.plan \in Int
    BY <1>2, <1>4, <1>10, <2>1 DEF WB!Comparable
  <2>3. new = [discount |-> WB!Least({old.discount, d}), plan |-> WB!Greatest({old.plan, row.plan})]
    BY <1>1, <1>3, <1>10 DEF WB!Combine
  <2>4. new.discount = IF old.discount <= d THEN old.discount ELSE d
    <3>1. old.discount \in Int /\ d \in Int
      BY <1>4, <2>1
    <3> QED
      BY <2>3, <3>1, LeastOfTwo
  <2>5. new.plan = IF old.plan <= row.plan THEN row.plan ELSE old.plan
    BY <2>2, <2>3, GreatestOfTwo
  <2>6. new \in Aggregate
    <3>1. new.discount \in 0..100 /\ new.plan \in Int
      BY <1>4, <2>1, <2>2, <2>4, <2>5
    <3> QED
      BY <2>3, <3>1 DEF Aggregate
  <2>7. new.discount \in Discounts(a)' /\ \A x \in Discounts(a)' : new.discount <= x
    <3>1. \A x \in Discounts(a) : x \in 0..100
      <4>1. \A r \in WB!RowsOf(a) : r \in PromoRows /\ WB!Valid(r)
        BY ReadTypes DEF WB!RowsOf, TableOK
      <4> QED
        BY <4>1, ValidIs DEF Discounts
    <3> QED
      BY <1>4, <1>7, <2>1, <2>4, <3>1
  <2>8. new.plan \in Plans(a)' /\ new.plan \in Int /\ \A p \in Plans(a)' : p \in Int /\ p <= new.plan
    <3>1. old.plan # NotANumber
      BY <2>2, WBConstants
    <3> QED
      BY <1>7, <2>1, <2>2, <2>5, <3>1
  <2>9. new.plan # NotANumber
    BY <2>8, WBConstants
  <2> QED
    BY <2>6, <2>7, <2>8, <2>9
<1> QED
  BY <1>9, <1>10

\* An article whose rows and entry have not changed.
LEMMA SummedKept ==
    ASSUME NEW a, WB!RowsOf(a)' = WB!RowsOf(a), aggregates'[a] = aggregates[a], Summed(a)
    PROVE  Summed(a)'
<1>1. Discounts(a)' = Discounts(a) /\ Plans(a)' = Plans(a)
  BY DEF Discounts, Plans, WB!NormalDiscount, WB!Clamp, WB!Ceiling
<1> QED
  BY <1>1 DEF Summed

LEMMA RowsOfKept ==
    ASSUME promos' = promos
    PROVE  WB!RowsRead' = WB!RowsRead /\ \A a : WB!RowsOf(a)' = WB!RowsOf(a)
<1>1. WB!RowsRead' = WB!RowsRead
  BY DEF WB!RowsRead
<1>2. \A row : WB!Valid(row)' = WB!Valid(row)
  BY DEF WB!Valid, WB!NormalDiscount, WB!Clamp, WB!Ceiling
<1> QED
  BY <1>1, <1>2 DEF WB!RowsOf

-----------------------------------------------------------------------------
(* The decisions. *)

\* What _aggregate_promos keeps of an article is enough to decide every price of it.
LEMMA HybridIs ==
    ASSUME TableOK, NEW a \in Articles, WB!RowsOf(a) # {}, Summed(a), aggregates[a].plan \in Int,
           NEW price \in Nat \ {0}
    PROVE  /\ WB!PreThreshold(aggregates[a], price) = Hybrid(a, price)
           /\ Hybrid(a, price) \in 0..100
           /\ Hybrid(a, price) = IF aggregates[a].discount <= WB!Calculated(price, aggregates[a].plan)
                                 THEN aggregates[a].discount
                                 ELSE WB!Calculated(price, aggregates[a].plan)
<1>1. PICK disc : disc = aggregates[a].discount
  OBVIOUS
<1>2. PICK plan : plan = aggregates[a].plan
  OBVIOUS
<1>3. PICK calc : calc = WB!Calculated(price, plan)
  OBVIOUS
<1>4. /\ disc \in 0..100 /\ disc \in Discounts(a) /\ \A d \in Discounts(a) : disc <= d
      /\ plan \in Int /\ plan \in Plans(a) /\ \A p \in Plans(a) : p \in Int /\ p <= plan
  <2>1. plan # NotANumber
    BY <1>2, WBConstants
  <2> QED
    BY <1>1, <1>2, <2>1 DEF Summed, Aggregate
<1>5. \A r \in WB!RowsOf(a) : r \in PromoRows /\ WB!Valid(r)
  BY ReadTypes DEF WB!RowsOf, TableOK
<1>6. \A d \in Discounts(a) : d \in 0..100
  BY <1>5, ValidIs DEF Discounts
<1>7. Reachings(a, price) = {WB!Calculated(price, p) : p \in Plans(a)}
  <2>1. \A r \in WB!RowsOf(a) : WB!Reaching(price, r.plan) = WB!Calculated(price, r.plan)
    <3>1. \A r \in WB!RowsOf(a) : r.plan \in Int
      BY <1>4 DEF Plans
    <3> QED
      BY <3>1, CalculatedReaches
  <2> QED
    BY <2>1 DEF Reachings, Plans
<1>8. calc \in 0..100 /\ calc \in Reachings(a, price)
      /\ \A x \in Reachings(a, price) : x \in 0..100 /\ calc <= x
  <2>1. calc \in 0..100
    BY <1>3, <1>4, CalculatedReaches
  <2>2. \A p \in Plans(a) : WB!Calculated(price, p) \in 0..100 /\ calc <= WB!Calculated(price, p)
    BY <1>3, <1>4, CalculatedReaches, CalculatedFalls
  <2> QED
    BY <1>3, <1>4, <1>7, <2>1, <2>2
<1>9. PICK m : m = IF disc <= calc THEN disc ELSE calc
  OBVIOUS
<1>10. PICK S : S = Discounts(a) \cup Reachings(a, price)
  OBVIOUS
<1>11. S \in SUBSET Int /\ m \in S /\ \A x \in S : m <= x
  <2>1. \A x \in S : x \in 0..100 /\ (disc <= x \/ calc <= x)
    BY <1>4, <1>6, <1>8, <1>10
  <2>2. m \in S /\ m <= disc /\ m <= calc /\ m \in Int
    BY <1>4, <1>8, <1>9, <1>10
  <2>3. disc \in Int /\ calc \in Int
    BY <1>4, <1>8
  <2>4. \A x \in S : m <= x
    BY <2>1, <2>2, <2>3
  <2>5. \A x \in S : x \in Int
    BY <2>1
  <2> QED
    BY <2>2, <2>4, <2>5
<1>12. WB!Least(S) = m
  BY <1>11, LeastIs
<1>13. WB!Least({disc, calc}) = m
  <2>1. disc \in Int /\ calc \in Int
    BY <1>4, <1>8
  <2> QED
    BY <1>9, <2>1, LeastOfTwo
<1>14. WB!PreThreshold(aggregates[a], price) = m
  BY <1>1, <1>2, <1>3, <1>13 DEF WB!PreThreshold
<1>15. Hybrid(a, price) = m
  BY <1>10, <1>12 DEF Hybrid
<1> QED
  BY <1>1, <1>2, <1>3, <1>4, <1>8, <1>9, <1>14, <1>15

\* _build_price_decisions, for the row it decides next.
LEMMA DecisionIs ==
    ASSUME TableOK, SumsOK, stage = "prices", NEW row \in PriceRows, ~ WB!Undecidable(row)
    PROVE  /\ WB!Decision(row) \in Decided /\ DecisionOK(WB!Decision(row))
           /\ WB!Decision(row).article = row.article
<1>1. PICK a : a = row.article
  OBVIOUS
<1>2. PICK price : price = row.price
  OBVIOUS
<1>3. /\ a \in Articles \cup {None} /\ price \in WB!Cell
      /\ settings.threshold \in Int /\ settings.noPromo \in Int /\ settings.overThreshold \in Int
      /\ None \notin Articles
  BY <1>1, <1>2, WBConstants DEF TableOK, SumsOK
<1> DEFINE reason == WB!Reason(row)
           final == WB!Final(row, reason)
<1>4. SUFFICES /\ reason \in Reasons /\ final \in 0..100 \cup {None}
               /\ final = Rule(a, price)
               /\ final = None <=> reason \in WB!Unwritten
  <2>1. WB!Decision(row) = [article |-> a, price |-> price, reason |-> reason, final |-> final,
            severity |-> IF reason \in WB!Unwritten \cup {"fallback_over_threshold"}
                         THEN "warning" ELSE "info"]
    BY <1>1, <1>2 DEF WB!Decision
  <2> HIDE DEF reason, final
  <2> QED
    BY <1>1, <1>3, <1>4, <2>1 DEF Decided, DecisionOK
<1>5. CASE a = None
  <2>1. reason = "missing_article"
    BY <1>1, <1>5 DEF WB!Reason
  <2>2. final = None
    BY <2>1 DEF WB!Final, WB!Unwritten
  <2> HIDE DEF reason, final
  <2> QED
    BY <1>5, <2>1, <2>2 DEF Rule, Reasons, WB!Unwritten
<1>6. CASE a # None /\ (price = None \/ price <= 0)
  <2>1. reason = "missing_current_price"
    BY <1>1, <1>2, <1>6 DEF WB!Reason
  <2>2. final = None
    BY <2>1 DEF WB!Final, WB!Unwritten
  <2> HIDE DEF reason, final
  <2> QED
    BY <1>6, <2>1, <2>2 DEF Rule, Reasons, WB!Unwritten
<1>7. CASE a # None /\ ~ (price = None \/ price <= 0)
  <2>1. price \in Nat \ {0}
    <3>1. price # NotANumber
      BY <1>1, <1>2, <1>7 DEF WB!Undecidable
    <3> QED
      BY <1>3, <1>7, <3>1 DEF WB!Cell
  <2>2. a \in Articles /\ Summed(a) /\ None \notin 0..100
    BY <1>3, <1>7, WBConstants DEF SumsOK
  <2>3. CASE aggregates[a] = None
    <3>1. WB!RowsOf(a) = {}
      BY <2>2, <2>3, WBConstants DEF Summed
    <3>2. reason = "fallback_no_promo"
      BY <1>1, <1>2, <1>7, <2>3 DEF WB!Reason
    <3>3. final = WB!Clamp(settings.noPromo)
      BY <3>2 DEF WB!Final, WB!Unwritten
    <3>4. final \in 0..100
      BY <1>3, <3>3, ClampIs
    <3> HIDE DEF reason, final
    <3> QED
      BY <1>7, <2>2, <3>1, <3>2, <3>3, <3>4 DEF Rule, Reasons, WB!Unwritten, WB!Written
  <2>4. CASE aggregates[a] # None
    <3>1. WB!RowsOf(a) # {} /\ aggregates[a].plan \in Int
      <4>1. WB!RowsOf(a) # {}
        BY <2>2, <2>4 DEF Summed
      <4>2. aggregates[a] \in Aggregate
        BY <2>2, <4>1 DEF Summed
      <4>3. aggregates[a].plan # NotANumber
        BY <1>1, <1>2, <1>7, <2>1, <2>4 DEF WB!Undecidable
      <4> QED
        BY <4>1, <4>2, <4>3 DEF Aggregate
    <3>2. PICK h : h = Hybrid(a, price)
      OBVIOUS
    <3>3. h \in 0..100 /\ WB!PreThreshold(aggregates[a], price) = h
      BY <2>1, <2>2, <3>1, <3>2, HybridIs
    <3>4. CASE h > settings.threshold
      <4>1. reason = "fallback_over_threshold"
        BY <1>1, <1>2, <1>7, <2>4, <3>3, <3>4 DEF WB!Reason, WB!Exceeds
      <4>2. final = WB!Clamp(settings.overThreshold)
        BY <4>1 DEF WB!Final, WB!Unwritten
      <4>3. final \in 0..100
        BY <1>3, <4>2, ClampIs
      <4> HIDE DEF reason, final
      <4> QED
        BY <1>7, <2>2, <3>1, <3>2, <3>4, <4>1, <4>2, <4>3 DEF Rule, Reasons, WB!Unwritten, WB!Written
    <3>5. CASE ~ (h > settings.threshold)
      <4>1. reason \in {"min_discount", "calculated_discount"}
        BY <1>1, <1>2, <1>7, <2>4, <3>3, <3>5 DEF WB!Reason, WB!Exceeds
      <4>2. final = WB!Clamp(h)
        BY <1>1, <1>2, <3>3, <4>1 DEF WB!Final, WB!Unwritten
      <4>3. final = h
        BY <3>3, <4>2, ClampIs
      <4> HIDE DEF reason, final
      <4> QED
        BY <1>7, <2>2, <3>1, <3>2, <3>3, <3>5, <4>1, <4>3 DEF Rule, Reasons, WB!Unwritten, WB!Written
    <3> QED
      BY <3>4, <3>5
  <2> QED
    BY <2>3, <2>4
<1> QED
  BY <1>5, <1>6, <1>7

LEMMA RuleKept ==
    ASSUME promos' = promos, settings' = settings
    PROVE  \A d : DecisionOK(d) => DecisionOK(d)'
<1>1. \A a : WB!RowsOf(a)' = WB!RowsOf(a)
  BY RowsOfKept
<1>2. \A a, price : Hybrid(a, price)' = Hybrid(a, price)
  <2>1. \A a : Discounts(a)' = Discounts(a)
    BY <1>1 DEF Discounts, WB!NormalDiscount, WB!Clamp, WB!Ceiling
  <2>2. \A a, price : Reachings(a, price)' = Reachings(a, price)
    BY <1>1 DEF Reachings, WB!Reaching, WB!Least
  <2> QED
    BY <2>1, <2>2 DEF Hybrid, WB!Least
<1>3. \A a, price : Rule(a, price)' = Rule(a, price)
  BY <1>1, <1>2 DEF Rule, WB!Clamp
<1> QED
  BY <1>3 DEF DecisionOK, WB!Unwritten

-----------------------------------------------------------------------------
(* Every step of a WB pass keeps the invariant. *)

LEMMA InitWB ==
    ASSUME WB!Init
    PROVE  WBInv
<1>1. /\ stage = "open" /\ settings \in Settings /\ input \in WB!Input
      /\ promos = <<>> /\ decisions = <<>> /\ column = None
      /\ aggregates = [a \in Articles |-> None]
  BY DEF WB!Init
<1>2. promos \in Seq(Seq(PromoRows)) /\ decisions \in Seq(Decided) /\ DOMAIN decisions = {}
  BY <1>1
<1>3. aggregates \in [Articles -> Aggregate \cup {None}]
  BY <1>1
<1>4. TableOK
  BY <1>1, <1>2, <1>3 DEF TableOK, WB!Stages
<1> QED
  BY <1>1, <1>2, <1>4 DEF WBInv, SumsOK, NoTwice

\* What the rows that have been read say, after a step that reads none.
LEMMA SameRows ==
    ASSUME WBInv, promos' = promos, aggregates' = aggregates, settings' = settings
    PROVE  /\ \A a : Summed(a) => Summed(a)'
           /\ \A d : DecisionOK(d) => DecisionOK(d)'
           /\ (\E row \in WB!RowsRead : WB!Valid(row)) => (\E row \in WB!RowsRead : WB!Valid(row))'
<1>1. \A a : Summed(a) => Summed(a)'
  BY RowsOfKept, SummedKept
<1>2. \A row : WB!Valid(row)' = WB!Valid(row)
  BY DEF WB!Valid, WB!NormalDiscount, WB!Clamp, WB!Ceiling
<1> QED
  BY <1>1, <1>2, RuleKept, RowsOfKept

\* A step that only moves the pass on.
LEMMA StageMoves ==
    ASSUME WBInv, stage \in {"promos", "prices"}, stage' \in {"prices", "done", "rejected", "crashed"},
           UNCHANGED <<promos, aggregates, decisions, column, settings, input>>,
           stage = "promos" /\ stage' \in {"prices", "done"} => \E row \in WB!RowsRead : WB!Valid(row)
    PROVE  WBInv'
<1>1. TableOK'
  <2>1. column' = None /\ stage' \in WB!Stages
    BY DEF WBInv, TableOK, WB!Stages
  <2> QED
    BY <2>1 DEF WBInv, TableOK, WB!Stages, WB!Input
<1>2. SumsOK'
  BY SameRows DEF WBInv, SumsOK
<1>3. NoTwice'
  BY DEF WBInv, NoTwice
<1>4. (\A i \in DOMAIN decisions : DecisionOK(decisions[i]))'
  <2>1. \A i \in DOMAIN decisions : DecisionOK(decisions[i])'
    BY SameRows DEF WBInv
  <2> QED
    BY <2>1
<1>5. (stage \in {"prices", "done"} => \E row \in WB!RowsRead : WB!Valid(row))'
  BY SameRows DEF WBInv
<1> QED
  BY <1>1, <1>2, <1>3, <1>4, <1>5 DEF WBInv

LEMMA OpenFilesKeeps ==
    ASSUME WBInv, WB!OpenFiles
    PROVE  WBInv'
<1>1. /\ stage = "open" /\ UNCHANGED <<aggregates, decisions, column, settings, input>>
      /\ \/ stage' = "promos" /\ promos' = <<<<>>>> /\ settings # None
         \/ stage' = "rejected" /\ promos' = promos
  BY DEF WB!OpenFiles, WB!Unread
<1>2. promos = <<>> /\ decisions = <<>> /\ column = None
  BY <1>1 DEF WBInv, TableOK
<1>3. promos' \in Seq(Seq(PromoRows)) /\ (stage' = "promos" => promos' # <<>>)
  <2>1. <<>> \in Seq(PromoRows)
    OBVIOUS
  <2>2. \A e : e \in Seq(PromoRows) => <<e>> \in Seq(Seq(PromoRows)) /\ <<e>> # <<>>
    OBVIOUS
  <2>3. <<>> \in Seq(Seq(PromoRows))
    OBVIOUS
  <2> QED
    BY <1>1, <1>2, <2>1, <2>2, <2>3
<1>4. TableOK'
  BY <1>1, <1>2, <1>3 DEF WBInv, TableOK, WB!Stages, WB!Input
<1>5. SumsOK'
  <2>1. CASE stage' = "promos"
    <3>1. WB!RowsRead = {} /\ WB!RowsRead' = {}
      BY <1>1, <1>2, <2>1 DEF WB!RowsRead
    <3>2. \A a : WB!RowsOf(a)' = {}
      BY <3>1 DEF WB!RowsOf
    <3>3. \A a \in Articles : aggregates'[a] = None
      BY <1>1 DEF WBInv, TableOK
    <3> QED
      BY <1>1, <2>1, <3>2, <3>3 DEF SumsOK, Summed
  <2> QED
    BY <1>1, <2>1 DEF SumsOK
<1> QED
  BY <1>1, <1>2, <1>4, <1>5 DEF WBInv, NoTwice

LEMMA ReadPromoRowKeeps ==
    ASSUME WBInv, WB!ReadPromoRow
    PROVE  WBInv'
<1>1. PICK row \in PromoRows :
        /\ stage = "promos" /\ UNCHANGED <<decisions, column, settings, input>>
        /\ promos' = [promos EXCEPT ![Len(promos)] = Append(@, row)]
        /\ IF ~ WB!Valid(row) THEN stage' = stage /\ aggregates' = aggregates
           ELSE IF WB!Comparable(aggregates[row.article], row)
           THEN /\ aggregates' = [aggregates EXCEPT
                     ![row.article] = WB!Combine(aggregates[row.article], row)]
                /\ stage' = stage
           ELSE stage' = "crashed" /\ aggregates' = aggregates
  BY DEF WB!ReadPromoRow, WB!Unread
<1>2. /\ TableOK /\ promos \in Seq(Seq(PromoRows)) /\ promos # <<>> /\ decisions = <<>>
      /\ column = None /\ \A a \in Articles : Summed(a)
  BY <1>1 DEF WBInv, TableOK, SumsOK
<1>3. promos' \in Seq(Seq(PromoRows)) /\ promos' # <<>> /\ WB!RowsRead' = WB!RowsRead \cup {row}
  BY <1>1, <1>2, RowAdded
<1>4. \A x : WB!Valid(x)' = WB!Valid(x)
  BY DEF WB!Valid, WB!NormalDiscount, WB!Clamp, WB!Ceiling
<1>5. stage' \in {"promos", "crashed"}
  BY <1>1
<1>6. /\ aggregates' \in [Articles -> Aggregate \cup {None}]
      /\ stage' = "promos" => \A a \in Articles : Summed(a)'
  <2>1. CASE ~ WB!Valid(row)
    <3>1. \A a : WB!RowsOf(a)' = WB!RowsOf(a)
      BY <1>3, <1>4, <2>1 DEF WB!RowsOf
    <3> QED
      BY <1>1, <1>2, <2>1, <3>1, SummedKept DEF TableOK
  <2>2. CASE WB!Valid(row) /\ WB!Comparable(aggregates[row.article], row)
    <3>1. PICK own : own = row.article
      OBVIOUS
    <3>2. own \in Articles
      BY <2>2, <3>1, ValidIs
    <3>3. aggregates' = [aggregates EXCEPT ![own] = WB!Combine(aggregates[own], row)]
      BY <1>1, <2>2, <3>1
    <3>4. WB!Combine(aggregates[own], row) \in Aggregate /\ Summed(own)'
      BY <1>2, <1>3, <2>2, <3>1, <3>2, <3>3, CombineSums
    <3>5. \A a \in Articles : a # own => aggregates'[a] = aggregates[a]
      BY <1>2, <3>3 DEF TableOK
    <3>6. \A a : a # own => WB!RowsOf(a)' = WB!RowsOf(a)
      BY <1>3, <1>4, <3>1 DEF WB!RowsOf
    <3>7. \A a \in Articles : a # own => Summed(a)'
      BY <1>2, <3>5, <3>6, SummedKept
    <3>8. aggregates' \in [Articles -> Aggregate \cup {None}]
      <4>1. PICK new : new = WB!Combine(aggregates[own], row)
        OBVIOUS
      <4>2. new \in Aggregate \cup {None} /\ aggregates' = [aggregates EXCEPT ![own] = new]
        BY <3>3, <3>4, <4>1
      <4>3. aggregates \in [Articles -> Aggregate \cup {None}]
        BY <1>2 DEF TableOK
      <4> QED
        BY <4>2, <4>3
    <3> QED
      BY <3>4, <3>7, <3>8
  <2>3. CASE WB!Valid(row) /\ ~ WB!Comparable(aggregates[row.article], row)
    BY <1>1, <1>2, <2>3 DEF TableOK
  <2> QED
    BY <2>1, <2>2, <2>3
<1>7. TableOK'
  BY <1>1, <1>2, <1>3, <1>5, <1>6 DEF TableOK, WB!Stages, WB!Input
<1> QED
  BY <1>1, <1>2, <1>5, <1>6, <1>7 DEF WBInv, SumsOK, NoTwice

LEMMA NextPromoFileKeeps ==
    ASSUME WBInv, WB!NextPromoFile
    PROVE  WBInv'
<1>1. /\ stage = "promos" /\ promos' = Append(promos, <<>>)
      /\ UNCHANGED <<stage, aggregates, decisions, column, settings, input>>
  BY DEF WB!NextPromoFile, WB!Unread
<1>2. promos \in Seq(Seq(PromoRows)) /\ decisions = <<>> /\ column = None
      /\ \A a \in Articles : Summed(a)
  BY <1>1 DEF WBInv, TableOK, SumsOK
<1>3. promos' \in Seq(Seq(PromoRows)) /\ promos' # <<>>
  <2>1. <<>> \in Seq(PromoRows)
    OBVIOUS
  <2>2. \A s, e : s \in Seq(Seq(PromoRows)) /\ e \in Seq(PromoRows) =>
          Append(s, e) \in Seq(Seq(PromoRows))
    OBVIOUS
  <2>3. \A s, e : s \in Seq(Seq(PromoRows)) => DOMAIN Append(s, e) = 1..(Len(s) + 1) /\ Len(s) + 1 \in Nat \ {0}
    OBVIOUS
  <2>4. DOMAIN <<>> = {}
    OBVIOUS
  <2> QED
    BY <1>1, <1>2, <2>1, <2>2, <2>3, <2>4
<1>4. WB!RowsRead' = WB!RowsRead
  <2>1. /\ \A i \in DOMAIN promos : i \in DOMAIN promos' /\ promos'[i] = promos[i]
        /\ \A i \in DOMAIN promos' : i \in DOMAIN promos \/ promos'[i] = <<>>
    BY <1>1, <1>2
  <2>2. \A x : x \in WB!RowsRead <=> \E i \in DOMAIN promos : \E j \in DOMAIN promos[i] : x = promos[i][j]
    BY DEF WB!RowsRead
  <2>3. \A x : x \in WB!RowsRead' <=> \E i \in DOMAIN promos' : \E j \in DOMAIN promos'[i] : x = promos'[i][j]
    BY DEF WB!RowsRead
  <2>4. DOMAIN <<>> = {}
    OBVIOUS
  <2>5. \A x : x \in WB!RowsRead => x \in WB!RowsRead'
    BY <2>1, <2>2, <2>3
  <2>6. \A x : x \in WB!RowsRead' => x \in WB!RowsRead
    BY <2>1, <2>2, <2>3, <2>4
  <2> QED
    BY <2>5, <2>6
<1>5. \A a : WB!RowsOf(a)' = WB!RowsOf(a)
  BY <1>4 DEF WB!RowsOf, WB!Valid, WB!NormalDiscount, WB!Clamp, WB!Ceiling
<1>6. TableOK'
  BY <1>1, <1>2, <1>3 DEF WBInv, TableOK, WB!Stages, WB!Input
<1>7. SumsOK'
  BY <1>1, <1>2, <1>5, SummedKept DEF WBInv, SumsOK
<1> QED
  BY <1>1, <1>2, <1>6, <1>7 DEF WBInv, NoTwice

\* _aggregate_promos goes on to the prices only if it has seen a valid row.
LEMMA EndPromosKeeps ==
    ASSUME WBInv, WB!EndPromos
    PROVE  WBInv'
<1>1. /\ stage = "promos" /\ UNCHANGED <<promos, aggregates, decisions, column, settings, input>>
      /\ stage' \in {"prices", "rejected"} /\ (stage' = "prices" => ~ WB!AllFilesInvalid)
  BY DEF WB!EndPromos, WB!Unread
<1>2. promos \in Seq(Seq(PromoRows)) /\ \A a \in Articles : Summed(a)
  BY <1>1 DEF WBInv, TableOK, SumsOK
<1>3. SUFFICES ASSUME \A row \in WB!RowsRead : ~ WB!Valid(row)
               PROVE  WB!AllFilesInvalid
  BY <1>1, StageMoves
<1>4. \A a \in Articles : aggregates[a] = None
  BY <1>2, <1>3 DEF Summed, WB!RowsOf
<1>5. WB!BadFiles = 1..Len(promos)
  <2>1. \A i \in DOMAIN promos : \A j \in DOMAIN promos[i] : ~ WB!Valid(promos[i][j])
    BY <1>3 DEF WB!RowsRead
  <2>2. DOMAIN promos = 1..Len(promos)
    BY <1>2
  <2> QED
    BY <2>1, <2>2 DEF WB!BadFiles
<1>6. Cardinality(WB!BadFiles) = Len(promos)
  <2>1. Len(promos) \in Nat
    BY <1>2
  <2>2. Cardinality(1..Len(promos)) = Len(promos)
    <3>1. PICK n \in Nat : n = Len(promos)
      BY <2>1
    <3>2. Cardinality(1..n) = n
      BY FS_Interval
    <3> QED
      BY <3>1, <3>2
  <2> QED
    BY <1>5, <2>2
<1>7. WB!Cardinality(WB!BadFiles) = Len(promos)
  BY <1>6, SameCardinality, Zenon
<1> QED
  BY <1>4, <1>7 DEF WB!AllFilesInvalid

LEMMA DecideRowKeeps ==
    ASSUME WBInv, WB!DecideRow
    PROVE  WBInv'
<1>1. PICK row \in PriceRows :
        /\ stage = "prices" /\ UNCHANGED <<promos, aggregates, column, settings, input>>
        /\ \/ stage' \in {"rejected", "crashed"} /\ decisions' = decisions
           \/ /\ row.article \notin WB!Seen /\ ~ WB!Undecidable(row) /\ stage' = stage
              /\ decisions' = Append(decisions, WB!Decision(row))
  BY DEF WB!DecideRow, WB!Unread
<1>2. CASE stage' \in {"rejected", "crashed"} /\ decisions' = decisions
  BY <1>1, <1>2, StageMoves
<1>3. CASE /\ row.article \notin WB!Seen /\ ~ WB!Undecidable(row) /\ stage' = stage
           /\ decisions' = Append(decisions, WB!Decision(row))
  <2>1. PICK d : d = WB!Decision(row)
    OBVIOUS
  <2>2. d \in Decided /\ DecisionOK(d) /\ d.article = row.article
    BY <1>1, <1>3, <2>1, DecisionIs DEF WBInv
  <2>3. decisions \in Seq(Decided) /\ column = None
    BY <1>1 DEF WBInv, TableOK
  <2>4. /\ decisions' \in Seq(Decided)
        /\ \A i \in DOMAIN decisions' : \/ decisions'[i] = d /\ i = Len(decisions) + 1
                                        \/ i \in DOMAIN decisions /\ decisions'[i] = decisions[i]
    <3>1. \A s, e : s \in Seq(Decided) /\ e \in Decided =>
            /\ Append(s, e) \in Seq(Decided)
            /\ \A i \in DOMAIN Append(s, e) : \/ Append(s, e)[i] = e /\ i = Len(s) + 1
                                              \/ i \in DOMAIN s /\ Append(s, e)[i] = s[i]
      OBVIOUS
    <3> QED
      BY <1>3, <2>1, <2>2, <2>3, <3>1
  <2>5. TableOK'
    BY <1>1, <1>3, <2>3, <2>4 DEF WBInv, TableOK, WB!Stages, WB!Input
  <2>6. SumsOK'
    BY <1>1, <1>3, SameRows DEF WBInv, SumsOK
  <2>7. NoTwice'
    <3>1. \A i \in DOMAIN decisions : decisions[i].article # None => decisions[i].article # row.article
      BY <1>3 DEF WB!Seen
    <3> QED
      BY <2>2, <2>4, <3>1 DEF WBInv, NoTwice
  <2>8. (\A i \in DOMAIN decisions : DecisionOK(decisions[i]))'
    <3>1. DecisionOK(d)' /\ \A i \in DOMAIN decisions : DecisionOK(decisions[i])'
      BY <1>1, <2>2, SameRows DEF WBInv
    <3>2. \A x : DecisionOK(x)' <=> (/\ x.final = Rule(x.article, x.price)'
                                     /\ x.final = None <=> x.reason \in WB!Unwritten
                                     /\ x.reason \in WB!Unwritten \cup {"fallback_over_threshold"}
                                          => x.severity = "warning")
      BY DEF DecisionOK, WB!Unwritten
    <3> QED
      BY <2>4, <3>1
  <2>9. (stage \in {"prices", "done"} => \E r \in WB!RowsRead : WB!Valid(r))'
    BY <1>1, <1>3, SameRows DEF WBInv
  <2> QED
    BY <2>5, <2>6, <2>7, <2>8, <2>9 DEF WBInv
<1> QED
  BY <1>1, <1>2, <1>3

LEMMA WriteOutputKeeps ==
    ASSUME WBInv, WB!WriteOutput
    PROVE  WBInv'
<1>1. /\ stage = "prices" /\ stage' = "done"
      /\ UNCHANGED <<promos, aggregates, decisions, settings, input>>
      /\ column' = [i \in WB!WithReason(WB!Written) |-> decisions[i].final]
  BY DEF WB!WriteOutput, WB!Unread
<1>2. column' = [i \in WB!WithReason(WB!Written) |-> decisions[i].final]'
  BY <1>1 DEF WB!WithReason, WB!Written
<1>3. TableOK'
  BY <1>1, <1>2 DEF WBInv, TableOK, WB!Stages, WB!Input
<1>4. SumsOK'
  BY <1>1, SameRows DEF WBInv, SumsOK
<1>5. NoTwice'
  BY <1>1 DEF WBInv, NoTwice
<1>6. (\A i \in DOMAIN decisions : DecisionOK(decisions[i]))'
  <2>1. \A i \in DOMAIN decisions : DecisionOK(decisions[i])'
    BY <1>1, SameRows DEF WBInv
  <2> QED
    BY <1>1, <2>1
<1>7. (stage \in {"prices", "done"} => \E row \in WB!RowsRead : WB!Valid(row))'
  BY <1>1, SameRows DEF WBInv
<1> QED
  BY <1>3, <1>4, <1>5, <1>6, <1>7 DEF WBInv

LEMMA NextWB ==
    ASSUME WBInv, WB!Next
    PROVE  WBInv'
<1>1. CASE WB!Validated \/ WB!RefuseToWrite
  BY <1>1, StageMoves DEF WB!Validated, WB!RefuseToWrite, WB!Unread
<1> QED
  BY <1>1, OpenFilesKeeps, ReadPromoRowKeeps, NextPromoFileKeeps, EndPromosKeeps,
     DecideRowKeeps, WriteOutputKeeps DEF WB!Next

LEMMA UnchangedWB ==
    ASSUME WBInv, UNCHANGED <<stage, settings, input, promos, aggregates, decisions, column>>
    PROVE  WBInv'
<1>1. TableOK'
  BY DEF WBInv, TableOK, WB!Stages, WB!Input, WB!WithReason, WB!Written
<1>2. SumsOK'
  BY SameRows DEF WBInv, SumsOK
<1>3. NoTwice'
  BY DEF WBInv, NoTwice
<1>4. (\A i \in DOMAIN decisions : DecisionOK(decisions[i]))'
  <2>1. \A i \in DOMAIN decisions : DecisionOK(decisions[i])'
    BY SameRows DEF WBInv
  <2> QED
    BY <2>1
<1>5. (stage \in {"prices", "done"} => \E row \in WB!RowsRead : WB!Valid(row))'
  BY SameRows DEF WBInv
<1> QED
  BY <1>1, <1>2, <1>3, <1>4, <1>5 DEF WBInv

-----------------------------------------------------------------------------
(* Counting. *)

LEMMA SplitCount ==
    ASSUME NEW S, IsFiniteSet(S), NEW A \in SUBSET S
    PROVE  /\ IsFiniteSet(A) /\ IsFiniteSet(S \ A)
           /\ Cardinality(A) \in Nat /\ Cardinality(S \ A) \in Nat
           /\ Cardinality(S) = Cardinality(A) + Cardinality(S \ A)
<1>1. IsFiniteSet(A) /\ IsFiniteSet(S \ A)
  BY FS_Subset
<1>2. Cardinality(A) \in Nat /\ Cardinality(S \ A) \in Nat /\ Cardinality(S) \in Nat
  BY <1>1, FS_CardinalityType
<1>3. A \cap (S \ A) = {} /\ A \cup (S \ A) = S
  OBVIOUS
<1>4. Cardinality({}) = 0
  BY FS_EmptySet
<1>5. Cardinality(A \cup (S \ A)) = Cardinality(A) + Cardinality(S \ A) - Cardinality(A \cap (S \ A))
  BY <1>1, FS_Union
<1>6. Cardinality(S) = Cardinality(A) + Cardinality(S \ A) - 0
  BY <1>3, <1>4, <1>5
<1> QED
  BY <1>1, <1>2, <1>6

LEMMA NoneCounted ==
    ASSUME NEW S, IsFiniteSet(S), Cardinality(S) = 0
    PROVE  S = {}
BY FS_EmptySet

LEMMA CountOfRows ==
    ASSUME NEW S, NEW s \in Seq(S)
    PROVE  /\ IsFiniteSet(DOMAIN s) /\ Cardinality(DOMAIN s) = Len(s) /\ Len(s) \in Nat
<1>1. PICK n \in Nat : n = Len(s)
  OBVIOUS
<1>2. DOMAIN s = 1..n
  BY <1>1
<1>3. IsFiniteSet(1..n) /\ Cardinality(1..n) = n
  BY FS_Interval
<1> QED
  BY <1>1, <1>2, <1>3

-----------------------------------------------------------------------------
(* What the invariant of a WB pass says of it. *)

LEMMA ExtremesOfWB ==
    ASSUME WBInv
    PROVE  WB!AggregatesAreExtremes
<1>1. SUFFICES ASSUME stage \in {"promos", "prices", "done"}, NEW a \in Articles
               PROVE  IF WB!RowsOf(a) = {} THEN aggregates[a] = None
                      ELSE /\ aggregates[a].discount = WB!Least(Discounts(a))
                           /\ \/ NotANumber \in Plans(a)
                              \/ aggregates[a].plan = WB!Greatest(Plans(a))
  BY DEF WB!AggregatesAreExtremes, Discounts, Plans
<1>2. Summed(a) /\ TableOK
  BY <1>1 DEF WBInv, SumsOK
<1>3. CASE WB!RowsOf(a) # {}
  <2>1. \A d \in Discounts(a) : d \in 0..100
    <3>1. \A r \in WB!RowsOf(a) : r \in PromoRows /\ WB!Valid(r)
      BY <1>2, ReadTypes DEF WB!RowsOf, TableOK
    <3> QED
      BY <3>1, ValidIs DEF Discounts
  <2>2. aggregates[a].discount = WB!Least(Discounts(a))
    <3>1. Discounts(a) \in SUBSET Int
      BY <2>1
    <3>2. aggregates[a].discount \in Discounts(a) /\ \A d \in Discounts(a) : aggregates[a].discount <= d
      BY <1>2, <1>3 DEF Summed
    <3> QED
      BY <3>1, <3>2, LeastIs
  <2>3. NotANumber \in Plans(a) \/ aggregates[a].plan = WB!Greatest(Plans(a))
    <3>1. CASE aggregates[a].plan = NotANumber
      BY <1>2, <1>3, <3>1 DEF Summed
    <3>2. CASE aggregates[a].plan # NotANumber
      <4>1. Plans(a) \in SUBSET Int /\ aggregates[a].plan \in Plans(a)
            /\ \A p \in Plans(a) : p <= aggregates[a].plan
        BY <1>2, <1>3, <3>2 DEF Summed
      <4> QED
        BY <4>1, GreatestIs
    <3> QED
      BY <3>1, <3>2
  <2> QED
    BY <1>3, <2>2, <2>3
<1> QED
  BY <1>2, <1>3 DEF Summed

LEMMA RulesOfWB ==
    ASSUME WBInv
    PROVE  WB!DecisionsFollowRules
<1>1. \A i \in DOMAIN decisions : decisions[i].final = Rule(decisions[i].article, decisions[i].price)
  BY DEF WBInv, DecisionOK
<1> QED
  BY <1>1 DEF WB!DecisionsFollowRules, Rule, Hybrid, Discounts, Reachings

LEMMA ReasonOfDecision ==
    ASSUME WBInv
    PROVE  \A i \in DOMAIN decisions : decisions[i].reason \in Reasons
<1>1. decisions \in Seq(Decided)
  BY DEF WBInv, TableOK
<1>2. \A i \in DOMAIN decisions : decisions[i] \in Decided
  BY <1>1
<1>3. \A d \in Decided : d.reason \in Reasons
  BY DEF Decided
<1> QED
  BY <1>2, <1>3

LEMMA CountsOfWB ==
    ASSUME WBInv
    PROVE  /\ WB!Summary.total = WB!Summary.processed + WB!Summary.skipped
           /\ WB!Summary.processed = WB!Summary.found + WB!Summary.notFound
           /\ WB!Summary.over <= WB!Summary.found
           /\ WB!BusinessResult = "clean" =>
                /\ WB!BadRows = {} /\ WB!BadFiles = {}
                /\ \A i \in DOMAIN decisions : decisions[i].severity # "warning"
<1> DEFINE D == DOMAIN decisions
           written == WB!WithReason(WB!Written)
           skipped == WB!WithReason(WB!Unwritten)
           plain == WB!WithReason({"fallback_no_promo"})
           over == WB!WithReason({"fallback_over_threshold"})
           found == WB!FoundRows
           loud == {i \in DOMAIN decisions : decisions[i].severity = "warning"}
<1>1. decisions \in Seq(Decided) /\ promos \in Seq(Seq(PromoRows))
  BY DEF WBInv, TableOK
<1>2. \A i \in D : decisions[i].reason \in Reasons
  BY ReasonOfDecision
<1>3. IsFiniteSet(D) /\ Cardinality(D) = Len(decisions)
  BY <1>1, CountOfRows
<1>4. written \in SUBSET D /\ skipped = D \ written
  BY <1>2 DEF WB!WithReason, WB!Unwritten, WB!Written, Reasons
<1>5. plain \in SUBSET written /\ found = written \ plain
  BY <1>2 DEF WB!WithReason, WB!FoundRows, WB!Unwritten, WB!Written, Reasons
<1>6. over \in SUBSET found
  BY DEF WB!WithReason, WB!FoundRows, WB!Unwritten
<1>7. loud \in SUBSET D
  OBVIOUS
<1>8. IsFiniteSet(WB!BadRows)
  <2>1. IsFiniteSet(DOMAIN promos)
    BY <1>1, CountOfRows
  <2>2. IsFiniteSet(1..MaxPromoRows)
    BY CalculationAssumption, FS_Interval DEF WB!WBProcessingAssumption
  <2>3. IsFiniteSet((DOMAIN promos) \X (1..MaxPromoRows))
    BY <2>1, <2>2, FS_Product
  <2>4. WB!BadRows \in SUBSET ((DOMAIN promos) \X (1..MaxPromoRows))
    BY DEF WB!BadRows, WB!RowPlaces
  <2> QED
    BY <2>3, <2>4, FS_Subset
<1>9. IsFiniteSet(WB!BadFiles)
  <2>1. IsFiniteSet(DOMAIN promos) /\ WB!BadFiles \in SUBSET DOMAIN promos
    BY <1>1, CountOfRows DEF WB!BadFiles
  <2> QED
    BY <2>1, FS_Subset
<1>10. /\ WB!Summary.total = Len(decisions)
       /\ WB!Summary.processed = Cardinality(written)
       /\ WB!Summary.skipped = Cardinality(skipped)
       /\ WB!Summary.found = Cardinality(found)
       /\ WB!Summary.notFound = Cardinality(plain)
       /\ WB!Summary.over = Cardinality(over)
       /\ WB!Summary.warnings = Cardinality(loud) + Cardinality(WB!BadRows) + Cardinality(WB!BadFiles)
  BY SameCardinality, Zenon DEF WB!Summary
<1> HIDE DEF D, written, skipped, plain, over, found, loud
<1>11. Cardinality(D) = Cardinality(written) + Cardinality(skipped) /\ IsFiniteSet(written)
  BY <1>3, <1>4, SplitCount
<1>12. /\ Cardinality(written) = Cardinality(plain) + Cardinality(found) /\ IsFiniteSet(found)
       /\ Cardinality(plain) \in Nat /\ Cardinality(found) \in Nat
  BY <1>5, <1>11, SplitCount
<1>13. Cardinality(over) <= Cardinality(found)
  BY <1>6, <1>12, FS_Subset
<1>14. /\ IsFiniteSet(loud) /\ Cardinality(loud) \in Nat
       /\ Cardinality(WB!BadRows) \in Nat /\ Cardinality(WB!BadFiles) \in Nat
  BY <1>3, <1>7, <1>8, <1>9, FS_Subset, FS_CardinalityType
<1>15. WB!BusinessResult = "clean" => WB!BadRows = {} /\ WB!BadFiles = {} /\ loud = {}
  <2>1. WB!BusinessResult = "clean" => WB!Summary.warnings = 0
    BY DEF WB!BusinessResult
  <2>2. WB!BusinessResult = "clean" =>
          Cardinality(loud) = 0 /\ Cardinality(WB!BadRows) = 0 /\ Cardinality(WB!BadFiles) = 0
    BY <1>10, <1>14, <2>1
  <2> QED
    BY <1>8, <1>9, <1>14, <2>2, NoneCounted
<1>16. loud = {} => \A i \in DOMAIN decisions : decisions[i].severity # "warning"
  BY DEF loud
<1> QED
  BY <1>3, <1>10, <1>11, <1>12, <1>13, <1>15, <1>16

LEMMA SoundOfWB ==
    ASSUME WBInv
    PROVE  WB!PassIsSound
<1>1. SUFFICES ASSUME stage = "done"
               PROVE  WB!PassIsSound
  BY DEF WB!PassIsSound
<1>2. \A i \in DOMAIN decisions : DecisionOK(decisions[i]) /\ decisions[i].reason \in Reasons
  BY ReasonOfDecision DEF WBInv
<1>3. column = None \/ \A i \in DOMAIN decisions : i \in DOMAIN column <=> decisions[i].final # None
  <2>1. column = None \/ DOMAIN column = WB!WithReason(WB!Written)
    BY DEF WBInv, TableOK
  <2>2. \A i \in DOMAIN decisions : i \in WB!WithReason(WB!Written) <=> decisions[i].reason \notin WB!Unwritten
    BY <1>2 DEF WB!WithReason, WB!Written, WB!Unwritten, Reasons
  <2> QED
    BY <1>2, <2>1, <2>2 DEF DecisionOK
<1>4. WB!BusinessResult = "clean" => \A i \in DOMAIN decisions : decisions[i].final # None
  BY <1>2, CountsOfWB DEF DecisionOK
<1> QED
  BY <1>1, <1>3, <1>4, CountsOfWB DEF WB!PassIsSound, WBInv, NoTwice

-----------------------------------------------------------------------------
(* The Ozon pass. *)

Decidable == {row \in Rows : ~ Ozon!Undecidable(row)}
Settled   == {Ozon!Decision(row) : row \in Decidable}

OzonInv ==
    /\ stage \in {"open", "rows", "done", "rejected", "crashed"}
    /\ decisions \in Seq(Settled)
    /\ stage # "done" => column = None
    /\ column = None \/ column = Ozon!WrittenPrices

Counters == {"missing_min_price", "no_stock", "no_boost_prices", "use_max_boost_price",
             "use_min_price", "below_min_price_threshold"}

\* A row participates iff it is worthwhile, and warns iff it does not.
Worthwhile(d) ==
    LET r == d.row
        offered == {r.max_boost, r.min_boost} \ {None}
    IN /\ d.participates <=>
            /\ None \notin {r.min_price, r.stock, r.max_boost}
            /\ r.stock > 0
            /\ \E p \in offered : p # NotANumber /\ p >= r.min_price
       /\ d.participates =>
            d.price = IF r.max_boost >= r.min_price THEN r.max_boost ELSE r.min_price

LEMMA CascadeIs ==
    ASSUME NEW row \in Decidable
    PROVE  LET d == Ozon!Decision(row)
           IN /\ Worthwhile(d)
              /\ d.reason \in Counters \cup {"insufficient_ozon_input_data"}
              /\ d.participates <=> d.severity # "warning"
              /\ d.participates <=> d.price # None
<1>1. /\ row.min_price \in Ozon!Cell /\ row.min_boost \in Ozon!Cell
      /\ row.max_boost \in Ozon!Cell /\ row.stock \in Ozon!Cell
      /\ ~ Ozon!Undecidable(row) /\ None \notin Int /\ NotANumber \notin Int /\ None # NotANumber
  BY CalculationAssumption DEF Decidable, Ozon!OzonProcessingAssumption, Ozon!Row
<1>2. PICK r : r = Ozon!Reason(row)
  OBVIOUS
<1>3. PICK d : d = Ozon!Decision(row)
  OBVIOUS
<1>4. /\ d.row = row /\ d.reason = r
      /\ d.participates = (r \in {"use_max_boost_price", "use_min_price"})
      /\ d.price = Ozon!Price(row)
      /\ d.severity = IF r \in Ozon!Warnings THEN "warning" ELSE "info"
  BY <1>2, <1>3 DEF Ozon!Decision, Ozon!Participates
<1>5. r \in Counters \cup {"insufficient_ozon_input_data"}
  BY <1>2 DEF Ozon!Reason, Counters
<1>6. d.participates <=> d.severity # "warning"
  BY <1>4, <1>5 DEF Counters, Ozon!Warnings
<1>7. CASE r = "use_max_boost_price"
  <2>1. /\ row.min_price # None /\ Ozon!InStock(row.stock)
        /\ Ozon!AtLeast(row.max_boost, row.min_price)
    BY <1>1, <1>2, <1>7 DEF Ozon!Reason
  <2>2. d.price = row.max_boost
    BY <1>2, <1>4, <1>7 DEF Ozon!Price
  <2>3. row.stock \in Int /\ row.max_boost \in Int /\ row.min_price \in Int
    BY <1>1, <2>1 DEF Ozon!Undecidable, Ozon!AtLeast, Ozon!InStock, Ozon!Cell
  <2> QED
    BY <1>1, <1>3, <1>4, <1>5, <1>6, <1>7, <2>1, <2>2, <2>3 DEF Worthwhile, Ozon!AtLeast, Ozon!InStock
<1>8. CASE r = "use_min_price"
  <2>1. /\ row.min_price # None /\ Ozon!InStock(row.stock)
        /\ ~ Ozon!AtLeast(row.max_boost, row.min_price)
        /\ Ozon!Below(row.max_boost, row.min_price) /\ Ozon!AtLeast(row.min_boost, row.min_price)
    BY <1>1, <1>2, <1>8 DEF Ozon!Reason
  <2>2. d.price = row.min_price
    BY <1>2, <1>4, <1>8 DEF Ozon!Price
  <2>3. row.stock \in Int /\ row.max_boost \in Int /\ row.min_price \in Int /\ row.min_boost \in Int
    BY <1>1, <2>1 DEF Ozon!Undecidable, Ozon!AtLeast, Ozon!Below, Ozon!InStock, Ozon!Cell
  <2> QED
    BY <1>1, <1>3, <1>4, <1>5, <1>6, <1>8, <2>1, <2>2, <2>3
    DEF Worthwhile, Ozon!AtLeast, Ozon!Below, Ozon!InStock
<1>9. CASE r \notin {"use_max_boost_price", "use_min_price"}
  <2>1. d.price = None /\ ~ d.participates
    BY <1>2, <1>4, <1>9 DEF Ozon!Price
  <2>2. ~ (/\ None \notin {row.min_price, row.stock, row.max_boost}
           /\ row.stock > 0
           /\ \E p \in {row.max_boost, row.min_boost} \ {None} :
                p # NotANumber /\ p >= row.min_price)
    <3>1. SUFFICES ASSUME row.min_price # None, row.stock # None, row.max_boost # None,
                          row.stock > 0
                   PROVE  \A p \in {row.max_boost, row.min_boost} \ {None} :
                            p = NotANumber \/ ~ (p >= row.min_price)
      OBVIOUS
    <3>2. Ozon!InStock(row.stock) /\ row.max_boost \in Int /\ row.min_price \in Int
      BY <1>1, <3>1 DEF Ozon!Undecidable, Ozon!InStock, Ozon!Cell
    <3>3. ~ Ozon!AtLeast(row.max_boost, row.min_price)
      BY <1>1, <1>2, <1>9, <3>1, <3>2 DEF Ozon!Reason
    <3>4. Ozon!Below(row.max_boost, row.min_price)
      BY <3>1, <3>2, <3>3 DEF Ozon!AtLeast, Ozon!Below
    <3>5. ~ Ozon!AtLeast(row.min_boost, row.min_price)
      <4>1. r \in {"no_boost_prices", "use_max_boost_price", "use_min_price",
                   "below_min_price_threshold", "insufficient_ozon_input_data"}
        BY <1>2, <3>1, <3>2 DEF Ozon!Reason
      <4>2. r # "no_boost_prices" /\ r # "use_max_boost_price"
        BY <1>2, <3>1, <3>2, <3>3 DEF Ozon!Reason
      <4>3. ASSUME Ozon!AtLeast(row.min_boost, row.min_price) PROVE r = "use_min_price"
        <5>1. row.min_price # None /\ ~ (row.min_boost = None /\ row.max_boost = None)
          BY <3>1
        <5>2. ~ Ozon!Below(row.min_boost, row.min_price)
          BY <1>1, <3>1, <3>2, <3>3, <4>3 DEF Ozon!AtLeast, Ozon!Below, Ozon!Undecidable, Ozon!Cell
        <5> QED
          BY <1>2, <3>2, <3>3, <3>4, <4>3, <5>1, <5>2 DEF Ozon!Reason
      <4> QED
        BY <1>9, <4>3
    <3> QED
      BY <3>1, <3>3, <3>5 DEF Ozon!AtLeast
  <2> QED
    BY <1>3, <1>4, <1>5, <1>6, <2>1, <2>2 DEF Worthwhile
<1> QED
  BY <1>7, <1>8, <1>9

LEMMA SettledRows ==
    ASSUME OzonInv
    PROVE  \A i \in DOMAIN decisions :
             /\ Worthwhile(decisions[i])
             /\ decisions[i].reason \in Counters \cup {"insufficient_ozon_input_data"}
             /\ decisions[i].participates <=> decisions[i].severity # "warning"
             /\ decisions[i].participates <=> decisions[i].price # None
<1>1. decisions \in Seq(Settled)
  BY DEF OzonInv
<1>2. \A i \in DOMAIN decisions : decisions[i] \in Settled
  BY <1>1
<1>3. \A i \in DOMAIN decisions : \E row \in Decidable : decisions[i] = Ozon!Decision(row)
  BY <1>2 DEF Settled
<1> QED
  BY <1>3, CascadeIs

\* Settled speaks of the sheet only.
LEMMA SameCascade == Settled' = Settled
<1>1. \A row : Ozon!Reason(row)' = Ozon!Reason(row)
  BY DEF Ozon!Reason, Ozon!InStock, Ozon!AtLeast, Ozon!Below
<1>2. \A row : Ozon!Decision(row)' = Ozon!Decision(row)
  BY <1>1 DEF Ozon!Decision, Ozon!Participates, Ozon!Price, Ozon!Warnings
<1>3. \A row : Ozon!Undecidable(row)' = Ozon!Undecidable(row)
  BY DEF Ozon!Undecidable, Ozon!InStock, Ozon!AtLeast
<1> QED
  BY <1>2, <1>3 DEF Settled, Decidable

LEMMA NextOzon ==
    ASSUME OzonInv, Ozon!Next \/ UNCHANGED <<stage, decisions, column>>
    PROVE  OzonInv'
<1>1. CASE \/ Ozon!OpenFile \/ Ozon!Validated \/ Ozon!RefuseToWrite
           \/ UNCHANGED <<stage, decisions, column>>
  <2>1. /\ decisions' = decisions /\ column' = column
        /\ stage' \in {"open", "rows", "done", "rejected", "crashed"}
        /\ stage' # "done" => stage # "done"
    BY <1>1 DEF OzonInv, Ozon!OpenFile, Ozon!Validated, Ozon!RefuseToWrite
  <2>2. Ozon!WrittenPrices' = Ozon!WrittenPrices
    BY <2>1 DEF Ozon!WrittenPrices
  <2> QED
    BY <2>1, <2>2, SameCascade DEF OzonInv
<1>2. CASE Ozon!DecideRow
  <2>1. PICK row \in Rows :
          /\ stage = "rows" /\ column' = column
          /\ \/ stage' = "crashed" /\ decisions' = decisions
             \/ ~ Ozon!Undecidable(row) /\ stage' = stage /\ decisions' = Append(decisions, Ozon!Decision(row))
    BY <1>2 DEF Ozon!DecideRow
  <2>2. decisions' \in Seq(Settled)
    <3>1. \A s, e : s \in Seq(Settled) /\ e \in Settled => Append(s, e) \in Seq(Settled)
      OBVIOUS
    <3>2. ~ Ozon!Undecidable(row) => Ozon!Decision(row) \in Settled
      BY DEF Settled, Decidable
    <3> QED
      BY <2>1, <3>1, <3>2 DEF OzonInv
  <2> QED
    BY <2>1, <2>2, SameCascade DEF OzonInv
<1>3. CASE Ozon!WriteOutput
  <2>1. decisions' = decisions /\ column' = Ozon!WrittenPrices /\ stage' = "done"
    BY <1>3 DEF Ozon!WriteOutput
  <2>2. column' = Ozon!WrittenPrices'
    BY <2>1 DEF Ozon!WrittenPrices
  <2> QED
    BY <2>1, <2>2, SameCascade DEF OzonInv
<1> QED
  BY <1>1, <1>2, <1>3 DEF Ozon!Next

LEMMA SoundOfOzon ==
    ASSUME OzonInv
    PROVE  Ozon!PassIsSound
<1> DEFINE D == DOMAIN decisions
           W(r) == Ozon!WithReason({r})
           R(rs) == Ozon!WithReason(rs)
           P == Ozon!Participating
           L == Ozon!WarningRows
<1>1. decisions \in Seq(Settled)
  BY DEF OzonInv
<1>2. IsFiniteSet(D) /\ Cardinality(D) = Len(decisions) /\ Len(decisions) \in Nat
  BY <1>1, CountOfRows
<1>3. P \in SUBSET D /\ L = D \ P
  BY SettledRows DEF Ozon!Participating, Ozon!WarningRows
<1>4. \A i \in D : decisions[i].reason \in Counters \cup {"insufficient_ozon_input_data"}
  BY SettledRows
<1>5. /\ Ozon!Summary.total = Len(decisions)
      /\ Ozon!Summary.participating = Cardinality(P)
      /\ Ozon!Summary.warnings = Cardinality(L)
  BY SameCardinality, Zenon DEF Ozon!Summary
<1>6. \A r \in Counters : Ozon!Summary.counted[r] = Cardinality(W(r))
  <2>1. PICK c : c = Ozon!Summary.counted
    OBVIOUS
  <2>2. c = [r \in (Ozon!Warnings \ {"insufficient_ozon_input_data"})
                   \cup {"use_max_boost_price", "use_min_price"} |->
               Ozon!Cardinality(Ozon!WithReason({r}))]
    BY <2>1 DEF Ozon!Summary
  <2>3. \A r \in Counters : r \in (Ozon!Warnings \ {"insufficient_ozon_input_data"})
                                   \cup {"use_max_boost_price", "use_min_price"}
    BY DEF Counters, Ozon!Warnings
  <2>4. \A r \in Counters : c[r] = Ozon!Cardinality(Ozon!WithReason({r}))
    BY <2>2, <2>3, Zenon
  <2> QED
    BY <2>1, <2>4, SameCardinality
<1>7. PICK last : last = W("insufficient_ozon_input_data")
  OBVIOUS
<1>8. /\ W("missing_min_price") \in SUBSET D
      /\ W("no_stock") \in SUBSET (D \ W("missing_min_price"))
      /\ W("no_boost_prices") \in SUBSET ((D \ W("missing_min_price")) \ W("no_stock"))
      /\ W("use_max_boost_price") \in SUBSET
           (((D \ W("missing_min_price")) \ W("no_stock")) \ W("no_boost_prices"))
      /\ W("use_min_price") \in SUBSET
           ((((D \ W("missing_min_price")) \ W("no_stock")) \ W("no_boost_prices"))
              \ W("use_max_boost_price"))
      /\ W("below_min_price_threshold") \in SUBSET
           (((((D \ W("missing_min_price")) \ W("no_stock")) \ W("no_boost_prices"))
              \ W("use_max_boost_price")) \ W("use_min_price"))
      /\ last = ((((((D \ W("missing_min_price")) \ W("no_stock")) \ W("no_boost_prices"))
              \ W("use_max_boost_price")) \ W("use_min_price")) \ W("below_min_price_threshold"))
  BY <1>4, <1>7 DEF Ozon!WithReason, Counters
<1> HIDE DEF D, W, R, P, L
<1>9. /\ Cardinality(D) = Cardinality(P) + Cardinality(L) /\ IsFiniteSet(P) /\ IsFiniteSet(L)
      /\ Cardinality(P) \in Nat /\ Cardinality(L) \in Nat
  BY <1>2, <1>3, SplitCount
<1>10. Cardinality(D) = Cardinality(W("missing_min_price")) + Cardinality(W("no_stock"))
         + Cardinality(W("no_boost_prices")) + Cardinality(W("use_max_boost_price"))
         + Cardinality(W("use_min_price")) + Cardinality(W("below_min_price_threshold"))
         + Cardinality(last)
       /\ Cardinality(last) \in Nat
       /\ \A r \in Counters : Cardinality(W(r)) \in Nat
  <2>1. PICK s1 : s1 = D \ W("missing_min_price")
    OBVIOUS
  <2>2. PICK s2 : s2 = s1 \ W("no_stock")
    OBVIOUS
  <2>3. PICK s3 : s3 = s2 \ W("no_boost_prices")
    OBVIOUS
  <2>4. PICK s4 : s4 = s3 \ W("use_max_boost_price")
    OBVIOUS
  <2>5. PICK s5 : s5 = s4 \ W("use_min_price")
    OBVIOUS
  <2>6. /\ IsFiniteSet(s1) /\ Cardinality(D) = Cardinality(W("missing_min_price")) + Cardinality(s1)
        /\ Cardinality(W("missing_min_price")) \in Nat /\ Cardinality(s1) \in Nat
    BY <1>2, <1>8, <2>1, SplitCount
  <2>7. /\ IsFiniteSet(s2) /\ Cardinality(s1) = Cardinality(W("no_stock")) + Cardinality(s2)
        /\ Cardinality(W("no_stock")) \in Nat /\ Cardinality(s2) \in Nat
    BY <1>8, <2>1, <2>2, <2>6, SplitCount
  <2>8. /\ IsFiniteSet(s3) /\ Cardinality(s2) = Cardinality(W("no_boost_prices")) + Cardinality(s3)
        /\ Cardinality(W("no_boost_prices")) \in Nat /\ Cardinality(s3) \in Nat
    BY <1>8, <2>1, <2>2, <2>3, <2>7, SplitCount
  <2>9. /\ IsFiniteSet(s4) /\ Cardinality(s3) = Cardinality(W("use_max_boost_price")) + Cardinality(s4)
        /\ Cardinality(W("use_max_boost_price")) \in Nat /\ Cardinality(s4) \in Nat
    BY <1>8, <2>1, <2>2, <2>3, <2>4, <2>8, SplitCount
  <2>10. /\ IsFiniteSet(s5) /\ Cardinality(s4) = Cardinality(W("use_min_price")) + Cardinality(s5)
         /\ Cardinality(W("use_min_price")) \in Nat /\ Cardinality(s5) \in Nat
    BY ZenonT(60), <1>8, <2>1, <2>2, <2>3, <2>4, <2>5, <2>9, SplitCount
  <2>11. /\ Cardinality(s5) = Cardinality(W("below_min_price_threshold")) + Cardinality(last)
         /\ Cardinality(W("below_min_price_threshold")) \in Nat /\ Cardinality(last) \in Nat
    BY ZenonT(60), <1>8, <2>1, <2>2, <2>3, <2>4, <2>5, <2>10, SplitCount
  <2>12. \A r \in Counters : Cardinality(W(r)) \in Nat
    BY <2>6, <2>7, <2>8, <2>9, <2>10, <2>11 DEF Counters
  <2> QED
    BY <2>6, <2>7, <2>8, <2>9, <2>10, <2>11, <2>12
<1>11. Ozon!BusinessResult = "clean" <=> Ozon!Summary.participating = Ozon!Summary.total
  <2>1. Ozon!BusinessResult = "clean" <=> Ozon!Summary.warnings = 0
    BY DEF Ozon!BusinessResult
  <2> QED
    BY <1>2, <1>5, <1>9, <2>1
<1>12. Ozon!Summary.participating + Ozon!Summary.warnings = Ozon!Summary.total
  BY <1>2, <1>5, <1>9
<1>13. Ozon!Cardinality(Ozon!WithReason({"insufficient_ozon_input_data"})) = Cardinality(last)
  <2>1. Ozon!WithReason({"insufficient_ozon_input_data"}) = last
    BY <1>7 DEF W
  <2> QED
    BY <2>1, SameCardinality, Zenon
<1>14. LET c == Ozon!Summary.counted
       IN c["missing_min_price"] + c["no_stock"] + c["no_boost_prices"]
          + c["use_max_boost_price"] + c["use_min_price"] + c["below_min_price_threshold"]
          = Ozon!Summary.total - Ozon!Cardinality(Ozon!WithReason({"insufficient_ozon_input_data"}))
  <2>1. /\ Ozon!Summary.counted["missing_min_price"] = Cardinality(W("missing_min_price"))
        /\ Ozon!Summary.counted["no_stock"] = Cardinality(W("no_stock"))
        /\ Ozon!Summary.counted["no_boost_prices"] = Cardinality(W("no_boost_prices"))
        /\ Ozon!Summary.counted["use_max_boost_price"] = Cardinality(W("use_max_boost_price"))
        /\ Ozon!Summary.counted["use_min_price"] = Cardinality(W("use_min_price"))
        /\ Ozon!Summary.counted["below_min_price_threshold"] = Cardinality(W("below_min_price_threshold"))
    BY <1>6 DEF Counters
  <2>2. /\ Cardinality(W("missing_min_price")) \in Nat /\ Cardinality(W("no_stock")) \in Nat
        /\ Cardinality(W("no_boost_prices")) \in Nat /\ Cardinality(W("use_max_boost_price")) \in Nat
        /\ Cardinality(W("use_min_price")) \in Nat /\ Cardinality(W("below_min_price_threshold")) \in Nat
    BY <1>10 DEF Counters
  <2>3. Cardinality(D) = Ozon!Summary.total /\ Cardinality(last) \in Nat
    BY <1>2, <1>5, <1>10
  <2>4. \A a, b, c, d, e, f, g \in Nat : \A t : t = a + b + c + d + e + f + g =>
          a + b + c + d + e + f = t - g
    OBVIOUS
  <2>5. Cardinality(W("missing_min_price")) + Cardinality(W("no_stock"))
          + Cardinality(W("no_boost_prices")) + Cardinality(W("use_max_boost_price"))
          + Cardinality(W("use_min_price")) + Cardinality(W("below_min_price_threshold"))
        = Ozon!Summary.total - Cardinality(last)
    BY <1>10, <2>2, <2>3, <2>4
  <2> QED
    BY <1>13, <2>1, <2>5
<1>15. column # None =>
         /\ DOMAIN column = DOMAIN decisions
         /\ \A i \in DOMAIN column : column[i] # None <=> decisions[i].participates
  BY SettledRows DEF OzonInv, Ozon!WrittenPrices
<1> QED
  BY <1>11, <1>12, <1>14, <1>15 DEF Ozon!PassIsSound

-----------------------------------------------------------------------------
(* The theorems. *)

IInv ==
    /\ module_code \in {"wb", "ozon"}
    /\ module_code = "wb" => WBInv
    /\ module_code = "ozon" => OzonInv

LEMMA InitIInv == Init => IInv
<1>1. ASSUME module_code = "wb", WB!Init
      PROVE  IInv
  BY <1>1, InitWB DEF IInv
<1>2. ASSUME module_code = "ozon", Ozon!Init
      PROVE  IInv
  <2>1. stage = "open" /\ decisions = <<>> /\ column = None
    BY <1>2 DEF Ozon!Init
  <2>2. decisions \in Seq(Settled)
    BY <2>1
  <2> QED
    BY <1>2, <2>1, <2>2 DEF IInv, OzonInv
<1> QED
  BY <1>1, <1>2 DEF Init

LEMMA NextIInv == IInv /\ [Next]_vars => IInv'
<1> SUFFICES ASSUME IInv, [Next]_vars
             PROVE  IInv'
  OBVIOUS
<1>1. module_code' = module_code /\ module_code \in {"wb", "ozon"}
  BY DEF IInv, Next, DispatchWB, DispatchOzon, vars
<1>2. CASE module_code = "wb"
  <2>1. WBInv /\ (WB!Next \/ UNCHANGED <<stage, settings, input, promos, aggregates, decisions, column>>)
    BY <1>2 DEF IInv, Next, DispatchWB, DispatchOzon, vars
  <2>2. WBInv'
    BY <2>1, NextWB, UnchangedWB
  <2> QED
    BY <1>1, <1>2, <2>2 DEF IInv
<1>3. CASE module_code = "ozon"
  <2>1. OzonInv /\ (Ozon!Next \/ UNCHANGED <<stage, decisions, column>>)
    BY <1>3 DEF IInv, Next, DispatchWB, DispatchOzon, vars
  <2>2. OzonInv'
    BY <2>1, NextOzon
  <2> QED
    BY <1>1, <1>3, <2>2 DEF IInv
<1> QED
  BY <1>1, <1>2, <1>3

(* What the calculation of a run holds at every point of a pass.           *)
THEOREM Invariance == Spec => []IInv
BY InitIInv, NextIInv, PTL DEF Spec

(* However many promo files a WB run has, and whatever their rows and the  *)
(* order they are read in, the dictionary of _aggregate_promos holds the   *)
(* least discount and the greatest plan price of an article's valid rows.  *)
THEOREM AggregatesHold == Spec => []AggregatesAreExtremes
<1>1. IInv => AggregatesAreExtremes
  BY ExtremesOfWB DEF IInv, AggregatesAreExtremes
<1> QED
  BY <1>1, Invariance, PTL

(* The discount _build_price_decisions decides, from the aggregate and by  *)
(* the rounded formula of _calculate_discount, is the one of docs/10,      *)
(* 13-14, which speaks of every row and of the least percentage that       *)
(* reaches the plan price: for all prices, plan prices and settings.       *)
THEOREM DecisionsAreDocumented == Spec => []DecisionsFollowRules
<1>1. IInv => DecisionsFollowRules
  BY RulesOfWB DEF IInv, DecisionsFollowRules
<1> QED
  BY <1>1, Invariance, PTL

(* A finished WB pass has seen a valid promo row, decided no article twice *)
(* and written what it decided, and its summary adds up (wb/service.py,    *)
(* _process and _build_summary).                                           *)
THEOREM WBPassHolds == Spec => []WBPassIsSound
<1>1. IInv => WBPassIsSound
  BY SoundOfWB DEF IInv, WBPassIsSound
<1> QED
  BY <1>1, Invariance, PTL

(* The cascade of ozon/service.py (_build_decisions) lets a row take part  *)
(* iff it has stock and an offered boost price at its minimum or above,    *)
(* whatever the numbers, the empty cells and the "nan" cells of the sheet. *)
THEOREM ParticipationHolds == Spec => []ParticipatesIffWorthwhile
<1>1. OzonInv => Ozon!ParticipatesIffWorthwhile
  BY SettledRows DEF Ozon!ParticipatesIffWorthwhile, Worthwhile
<1>2. IInv => ParticipatesIffWorthwhile
  BY <1>1 DEF IInv, ParticipatesIffWorthwhile
<1> QED
  BY <1>2, Invariance, PTL

(* The counters of a finished Ozon pass split its rows, it is clean iff    *)
(* every row takes part, and columns K and L of the saved file hold a      *)
(* decision in every row (_build_summary, _pick_business_result,           *)
(* _write_output_file).                                                    *)
THEOREM OzonPassHolds == Spec => []OzonPassIsSound
<1>1. IInv => OzonPassIsSound
  BY SoundOfOzon DEF IInv, OzonPassIsSound
<1> QED
  BY <1>1, Invariance, PTL
=============================================================================
