--------------------------- MODULE OzonProcessing ---------------------------
(***************************************************************************)
(* One pass of the Ozon calculation (ozon/service.py): every row of the    *)
(* sheet is decided, and an executing pass writes columns K and L.         *)
(* None is a cell without a number; NotANumber is a cell with the text     *)
(* "nan", which Decimal() accepts and comparisons refuse.                  *)
(***************************************************************************)
EXTENDS Integers, Sequences, FiniteSets

CONSTANTS
  Rows,      \* the rows a sheet may hold
  Faults,    \* what can be wrong with the workbook before it is read
  MaxRows,   \* bound: rows of the sheet
  None, NotANumber

VARIABLES
  stage,         \* open, rows, done, rejected or crashed
  input,         \* how many files the run has, and a fault of one
  decisions,     \* the OzonDecision list
  column         \* columns K and L of the saved file; None if none is saved

vars == <<stage, input, decisions, column>>

Cell == Int \cup {None, NotANumber}
Row == [min_price : Cell, min_boost : Cell, max_boost : Cell, stock : Cell]
Warnings == {"missing_min_price", "no_stock", "no_boost_prices",
             "below_min_price_threshold", "insufficient_ozon_input_data"}

\* What Calculation assumes of the constants.
OzonProcessingAssumption ==
  /\ (\A row \in Rows : row \in Row) /\ MaxRows \in Nat
  /\ None \notin Int /\ NotANumber \notin Int \cup {None}

----------------------------------------------------------------------------
(* The cascade of one row *)

\* Mutant: a price has to exceed the minimum.
Exceeds(cell, bound) == cell # None /\ cell > bound

AtLeast(cell, bound) == cell # None /\ cell >= bound
Below(cell, bound) == cell # None /\ cell < bound
InStock(cell) == cell # None /\ cell > 0

Reason(row) ==
  CASE row.min_price = None -> "missing_min_price"
    [] row.min_price # None /\ ~InStock(row.stock) -> "no_stock"
    [] OTHER ->
       CASE row.min_boost = None /\ row.max_boost = None -> "no_boost_prices"
         [] AtLeast(row.max_boost, row.min_price) -> "use_max_boost_price"
         [] OTHER ->
            CASE Below(row.max_boost, row.min_price) /\ AtLeast(row.min_boost, row.min_price)
                   -> "use_min_price"
              [] Below(row.min_boost, row.min_price) -> "below_min_price_threshold"
              [] OTHER -> "insufficient_ozon_input_data"

Participates(row) == Reason(row) \in {"use_max_boost_price", "use_min_price"}

Price(row) ==
  CASE Reason(row) = "use_max_boost_price" -> row.max_boost
    [] Reason(row) = "use_min_price" -> row.min_price
    [] OTHER -> None

(* The row holds a value without order where the cascade compares it. *)
Undecidable(row) ==
  /\ row.min_price # None
  /\ \/ row.stock = NotANumber
     \/ /\ InStock(row.stock)
        /\ \/ row.max_boost # None /\ NotANumber \in {row.max_boost, row.min_price}
           \/ /\ row.min_boost # None /\ NotANumber \in {row.min_boost, row.min_price}
              /\ ~AtLeast(row.max_boost, row.min_price)

Decision(row) ==
  [row |-> row, reason |-> Reason(row), participates |-> Participates(row),
   price |-> Price(row),
   severity |-> IF Reason(row) \in Warnings THEN "warning" ELSE "info"]

----------------------------------------------------------------------------
(* Summary *)

\* Mutant: a row with too little data is no warning.
ReportedRows == {i \in DOMAIN decisions : decisions[i].reason # "insufficient_ozon_input_data"
                                            /\ decisions[i].severity = "warning"}

WarningRows == {i \in DOMAIN decisions : decisions[i].severity = "warning"}

WithReason(reasons) == {i \in DOMAIN decisions : decisions[i].reason \in reasons}
Participating == {i \in DOMAIN decisions : decisions[i].participates}

Summary ==
  [total |-> Len(decisions),
   participating |-> Cardinality(Participating),
   not_participating |-> Len(decisions) - Cardinality(Participating),
   warnings |-> Cardinality(WarningRows),
   counted |-> [r \in (Warnings \ {"insufficient_ozon_input_data"})
                       \cup {"use_max_boost_price", "use_min_price"} |->
                  Cardinality(WithReason({r}))]]

BusinessResult == IF Summary.warnings = 0 THEN "clean" ELSE "with_warnings"

----------------------------------------------------------------------------
(* The pass *)

Init ==
  /\ stage = "open"
  /\ input \in [files : 0..2, fault : Faults \cup {None}]
  /\ decisions = <<>> /\ column = None

OpenFile ==
  /\ stage = "open"
  /\ stage' = IF input.files = 1 /\ input.fault = None
              THEN "rows" ELSE "rejected"
  /\ UNCHANGED <<input, decisions, column>>

DecideRow ==
  /\ stage = "rows"
  /\ Len(decisions) < MaxRows
  /\ \E row \in Rows :
       IF Undecidable(row) THEN stage' = "crashed" /\ UNCHANGED decisions
       ELSE decisions' = Append(decisions, Decision(row)) /\ UNCHANGED stage
  /\ UNCHANGED <<input, column>>

WrittenPrices == [i \in DOMAIN decisions |-> decisions[i].price]

(* validate() saves nothing. *)
Validated ==
  /\ stage = "rows"
  /\ stage' = "done"
  /\ UNCHANGED <<input, decisions, column>>

(* execute() refuses a protected workbook or formulas in K or L. *)
RefuseToWrite ==
  /\ stage = "rows"
  /\ stage' = "rejected"
  /\ UNCHANGED <<input, decisions, column>>

WriteOutput ==
  /\ stage = "rows"
  /\ column' = WrittenPrices
  /\ stage' = "done"
  /\ UNCHANGED <<input, decisions>>

Next == OpenFile \/ DecideRow \/ Validated \/ RefuseToWrite \/ WriteOutput

Spec == Init /\ [][Next]_vars

----------------------------------------------------------------------------
(* Properties *)

(* No row is sold without stock or below its minimal price, and a row that *)
(* could be sold at or above it with the boost it was offered is not left  *)
(* out (docs/11, 13; _build_decisions).  A row with a price for the        *)
(* minimal boost only is left out whatever that price is.                  *)
ParticipatesIffWorthwhile ==
  \A i \in DOMAIN decisions :
    LET d == decisions[i]
        r == d.row
        offered == {r.max_boost, r.min_boost} \ {None}
    IN /\ d.participates <=>
            /\ None \notin {r.min_price, r.stock, r.max_boost}
            /\ r.stock > 0
            /\ \E p \in offered : p # NotANumber /\ p >= r.min_price
       /\ d.participates =>
            d.price = IF r.max_boost >= r.min_price THEN r.max_boost ELSE r.min_price

(* A finished pass: the counters of the summary cover every row but the    *)
(* insufficient ones, it is clean iff every row participates, and a saved  *)
(* file has a decision in K and L of every row, so that a price of an      *)
(* earlier file never survives (_build_summary, _pick_business_result,     *)
(* _write_output_file).                                                    *)
PassIsSound ==
  stage = "done" =>
    /\ BusinessResult = "clean" <=> Summary.participating = Summary.total
    /\ Summary.participating + Summary.warnings = Summary.total
    /\ LET c == Summary.counted
       IN c["missing_min_price"] + c["no_stock"] + c["no_boost_prices"]
          + c["use_max_boost_price"] + c["use_min_price"] + c["below_min_price_threshold"]
          = Summary.total - Cardinality(WithReason({"insufficient_ozon_input_data"}))
    /\ column # None =>
         /\ DOMAIN column = DOMAIN decisions
         /\ \A i \in DOMAIN column : column[i] # None <=> decisions[i].participates
=============================================================================
