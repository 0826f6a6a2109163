---------------------------- MODULE WBProcessing ----------------------------
(***************************************************************************)
(* One pass of the WB calculation (wb/service.py): the promo files are     *)
(* aggregated row by row, then every row of the price file is decided, and *)
(* an executing pass writes the decided discounts into the price file.     *)
(*                                                                         *)
(* Prices are in a unit of money, uploaded discounts in tenths of a        *)
(* percent.  None is a cell without a number; NotANumber is a cell with    *)
(* the text "nan", which Decimal() accepts and comparisons refuse.         *)
(***************************************************************************)
EXTENDS Integers, Sequences, FiniteSets

CONSTANTS
  Articles,     \* normalised article codes
  PromoRows,    \* the rows promo files may hold
  PriceRows,    \* the rows price files may hold
  Settings,     \* the store settings that may be found: records or None
  Faults,       \* what can be wrong with a workbook before it is read
  MaxPromoRows, \* bound: rows of all promo files
  MaxPriceRows, \* bound: rows of the price file
  None, NotANumber

VARIABLES
  stage,        \* where the pass is: see Stages
  settings,     \* store.wb_*_percent
  input,        \* how many price and promo files the run has, and a fault of one
  promos,       \* the promo rows read so far, one sequence per file
  aggregates,   \* _aggregate_promos' dictionary
  decisions,    \* the WBDecision list
  column        \* "Новая скидка" of the saved file; None if none is saved

vars == <<stage, settings, input, promos, aggregates, decisions, column>>

Stages == {"idle", "open", "promos", "prices", "done", "rejected", "crashed"}
Input == [price : 0..2, promo : 0..2, fault : Faults \cup {None}]
Cell == Int \cup {None, NotANumber}
PromoRow == [article : Articles \cup {None}, plan : Cell, discount : Cell]
PriceRow == [article : Articles \cup {None}, price : Cell]
Unwritten == {"missing_article", "missing_current_price"}
Written == {"fallback_no_promo", "fallback_over_threshold", "min_discount",
            "calculated_discount"}

\* What Calculation assumes of the constants.
WBProcessingAssumption ==
  /\ \A row \in PromoRows : row \in PromoRow
  /\ \A row \in PriceRows : row \in PriceRow
  /\ MaxPromoRows \in Nat /\ MaxPriceRows \in Nat
  /\ None \notin Articles \cup Int /\ NotANumber \notin Int \cup {None}
  /\ None \notin [discount : Int, plan : Int \cup {NotANumber}]
  /\ \A s \in Settings \ {None} :
       {s.threshold, s.noPromo, s.overThreshold} \subseteq Int

----------------------------------------------------------------------------
(* Arithmetic *)

Least(S) == CHOOSE x \in S : \A y \in S : x <= y
Greatest(S) == CHOOSE x \in S : \A y \in S : y <= x

Clamp(value) == IF value < 0 THEN 0 ELSE IF value > 100 THEN 100 ELSE value

Ceiling(tenths) == -((-tenths) \div 10)

(* ceil((1 - plan / price) * 100) for a positive price. *)
\* Mutant: rounding down.
FloorDiscount(price, plan) == Clamp(100 + ((-100 * plan) \div price))

Calculated(price, plan) == Clamp(100 - ((100 * plan) \div price))

NormalDiscount(cell) ==
  IF cell \in {None, NotANumber} THEN None ELSE Clamp(Ceiling(cell))

----------------------------------------------------------------------------
(* Promo files *)

Valid(row) == row.article # None /\ row.plan # None /\ NormalDiscount(row.discount) # None

Comparable(aggregate, row) ==
  aggregate = None \/ NotANumber \notin {aggregate.plan, row.plan}

\* Mutant: a later row replaces the aggregate of an earlier file.
LastRow(aggregate, row) ==
  [discount |-> NormalDiscount(row.discount), plan |-> row.plan]

Combine(aggregate, row) ==
  IF aggregate = None
  THEN [discount |-> NormalDiscount(row.discount), plan |-> row.plan]
  ELSE [discount |-> Least({aggregate.discount, NormalDiscount(row.discount)}),
        plan |-> Greatest({aggregate.plan, row.plan})]

RowPlaces == {place \in (DOMAIN promos) \X (1..MaxPromoRows) :
                place[2] \in DOMAIN promos[place[1]]}
RowCount == Cardinality(RowPlaces)
RowsRead == UNION {{promos[i][j] : j \in DOMAIN promos[i]} : i \in DOMAIN promos}
RowsOf(article) == {row \in RowsRead : Valid(row) /\ row.article = article}
BadRows == {place \in RowPlaces : ~Valid(promos[place[1]][place[2]])}
BadFiles == {i \in DOMAIN promos :
               \A j \in DOMAIN promos[i] : ~Valid(promos[i][j])}

----------------------------------------------------------------------------
(* Price rows *)

PreThreshold(aggregate, price) ==
  Least({aggregate.discount, Calculated(price, aggregate.plan)})

Exceeds(discount) == discount > settings.threshold

Reason(row) ==
  LET aggregate == aggregates[row.article]
  IN CASE row.article = None -> "missing_article"
       [] row.article # None /\ (row.price = None \/ row.price <= 0) -> "missing_current_price"
       [] OTHER ->
            CASE aggregate = None -> "fallback_no_promo"
              [] aggregate # None /\ Exceeds(PreThreshold(aggregate, row.price))
                   -> "fallback_over_threshold"
              [] OTHER -> IF aggregate.discount <= Calculated(row.price, aggregate.plan)
                          THEN "min_discount" ELSE "calculated_discount"

Final(row, reason) ==
  CASE reason \in Unwritten -> None
    [] reason = "fallback_no_promo" -> Clamp(settings.noPromo)
    [] reason = "fallback_over_threshold" -> Clamp(settings.overThreshold)
    [] OTHER -> Clamp(PreThreshold(aggregates[row.article], row.price))

(* A price or a plan price without order stops the pass where it is compared. *)
Undecidable(row) ==
  /\ row.article # None
  /\ \/ row.price = NotANumber
     \/ /\ row.price # None /\ row.price > 0
        /\ aggregates[row.article] # None
        /\ aggregates[row.article].plan = NotANumber

Decision(row) ==
  [article |-> row.article, price |-> row.price, reason |-> Reason(row),
   final |-> Final(row, Reason(row)),
   severity |-> IF Reason(row) \in Unwritten \cup {"fallback_over_threshold"}
                THEN "warning" ELSE "info"]

Seen == {decisions[i].article : i \in DOMAIN decisions} \ {None}

----------------------------------------------------------------------------
(* Summary *)

WithReason(reasons) == {i \in DOMAIN decisions : decisions[i].reason \in reasons}

FoundRows == DOMAIN decisions \ WithReason(Unwritten \cup {"fallback_no_promo"})

Summary ==
  [total |-> Len(decisions),
   processed |-> Cardinality(WithReason(Written)),
   skipped |-> Cardinality(WithReason(Unwritten)),
   found |-> Cardinality(FoundRows),
   notFound |-> Cardinality(WithReason({"fallback_no_promo"})),
   over |-> Cardinality(WithReason({"fallback_over_threshold"})),
   warnings |-> Cardinality({i \in DOMAIN decisions : decisions[i].severity = "warning"})
                  + Cardinality(BadRows) + Cardinality(BadFiles)]

BusinessResult == IF Summary.warnings = 0 THEN "clean" ELSE "with_warnings"

----------------------------------------------------------------------------
(* The pass *)

Composed == input.price + input.promo >= 2 /\ input.price = 1 /\ input.promo >= 1

Init ==
  /\ stage = "open"
  /\ settings \in Settings
  /\ input \in Input
  /\ promos = <<>> /\ decisions = <<>> /\ column = None
  /\ aggregates = [a \in Articles |-> None]

Unread == UNCHANGED <<settings, input>>

(* The composition, the settings and every workbook are checked first. *)
OpenFiles ==
  /\ stage = "open"
  /\ IF Composed /\ settings # None /\ input.fault = None
     THEN stage' = "promos" /\ promos' = <<<<>>>>
     ELSE stage' = "rejected" /\ UNCHANGED promos
  /\ UNCHANGED <<aggregates, decisions, column>> /\ Unread

ReadPromoRow ==
  /\ stage = "promos"
  /\ RowCount < MaxPromoRows
  /\ \E row \in PromoRows :
       /\ promos' = [promos EXCEPT ![Len(promos)] = Append(@, row)]
       /\ IF ~Valid(row) THEN UNCHANGED <<stage, aggregates>>
          ELSE IF Comparable(aggregates[row.article], row)
          THEN /\ aggregates' = [aggregates EXCEPT ![row.article] = Combine(@, row)]
               /\ UNCHANGED stage
          ELSE stage' = "crashed" /\ UNCHANGED aggregates
  /\ UNCHANGED <<decisions, column>> /\ Unread

NextPromoFile ==
  /\ stage = "promos"
  /\ Len(promos) < input.promo
  /\ promos' = Append(promos, <<>>)
  /\ UNCHANGED <<stage, aggregates, decisions, column>> /\ Unread

\* Mutant: a run without a valid promo row is calculated.
NeverInvalid == FALSE

AllFilesInvalid ==
  (\A a \in Articles : aggregates[a] = None) /\ Cardinality(BadFiles) = Len(promos)

EndPromos ==
  /\ stage = "promos"
  /\ Len(promos) = input.promo
  /\ stage' = IF AllFilesInvalid THEN "rejected" ELSE "prices"
  /\ UNCHANGED <<promos, aggregates, decisions, column>> /\ Unread

DecideRow ==
  /\ stage = "prices"
  /\ Len(decisions) < MaxPriceRows
  /\ \E row \in PriceRows :
       IF row.article \in Seen THEN stage' = "rejected" /\ UNCHANGED decisions
       ELSE IF Undecidable(row) THEN stage' = "crashed" /\ UNCHANGED decisions
       ELSE decisions' = Append(decisions, Decision(row)) /\ UNCHANGED stage
  /\ UNCHANGED <<promos, aggregates, column>> /\ Unread

(* validate() saves nothing. *)
Validated ==
  /\ stage = "prices"
  /\ stage' = "done"
  /\ UNCHANGED <<promos, aggregates, decisions, column>> /\ Unread

(* execute() refuses a protected workbook or formulas in the column; else  *)
(* it writes the decided discounts and keeps the other cells.              *)
RefuseToWrite ==
  /\ stage = "prices"
  /\ stage' = "rejected"
  /\ UNCHANGED <<promos, aggregates, decisions, column>> /\ Unread

WriteOutput ==
  /\ stage = "prices"
  /\ column' = [i \in WithReason(Written) |-> decisions[i].final]
  /\ stage' = "done"
  /\ UNCHANGED <<promos, aggregates, decisions>> /\ Unread

Next == \/ OpenFiles \/ ReadPromoRow \/ NextPromoFile \/ EndPromos
        \/ DecideRow \/ Validated \/ RefuseToWrite \/ WriteOutput

Spec == Init /\ [][Next]_vars

----------------------------------------------------------------------------
(* Properties *)

(* However the promo rows are spread over files and in whatever order they *)
(* come, an article's aggregate is the least discount and the greatest     *)
(* plan price of its valid rows (docs/10, 12.2; the dictionary that         *)
(* _aggregate_promos carries from file to file).                           *)
AggregatesAreExtremes ==
  stage \in {"promos", "prices", "done"} =>
    \A a \in Articles :
      IF RowsOf(a) = {} THEN aggregates[a] = None
      ELSE /\ aggregates[a].discount = Least({NormalDiscount(r.discount) : r \in RowsOf(a)})
           /\ \/ NotANumber \in {r.plan : r \in RowsOf(a)}
              \/ aggregates[a].plan = Greatest({r.plan : r \in RowsOf(a)})

(* The discount that takes the price to the plan price or below: the least *)
(* whole percentage that does, or 100 if none does.                        *)
Reaching(price, plan) ==
  LET enough == {d \in 0..100 : price * (100 - d) <= 100 * plan}
  IN IF enough = {} THEN 100 ELSE Least(enough)

(* Every decided discount is the one of docs/10, 13-14, computed from the  *)
(* rows alone: the promo discount or the least one that reaches every plan *)
(* price, whichever is lower, unless it is above the store's threshold.    *)
DecisionsFollowRules ==
  \A i \in DOMAIN decisions :
    LET d == decisions[i]
        discounts == {NormalDiscount(r.discount) : r \in RowsOf(d.article)}
        reaching == {Reaching(d.price, r.plan) : r \in RowsOf(d.article)}
        hybrid == Least(discounts \cup reaching)
    IN d.final =
         IF d.article = None \/ d.price = None \/ d.price <= 0 THEN None
         ELSE IF RowsOf(d.article) = {} THEN Clamp(settings.noPromo)
         ELSE IF hybrid > settings.threshold THEN Clamp(settings.overThreshold)
         ELSE hybrid

(* A finished pass rests on a valid promo row, decides no article twice,   *)
(* and writes exactly the rows it decided.  The counters of its summary    *)
(* split the rows, and it is clean only if nothing was skipped or ignored  *)
(* (_process, _build_price_decisions, _build_summary, _write_output_file). *)
PassIsSound ==
  stage = "done" =>
    /\ \E row \in RowsRead : Valid(row)
    /\ \A i, j \in DOMAIN decisions :
         i # j /\ decisions[i].article # None => decisions[i].article # decisions[j].article
    /\ column = None \/ \A i \in DOMAIN decisions :
                          i \in DOMAIN column <=> decisions[i].final # None
    /\ Summary.total = Summary.processed + Summary.skipped
    /\ Summary.processed = Summary.found + Summary.notFound
    /\ Summary.over <= Summary.found
    /\ BusinessResult = "clean" =>
         /\ BadRows = {} /\ BadFiles = {}
         /\ \A i \in DOMAIN decisions : decisions[i].final # None
=============================================================================
