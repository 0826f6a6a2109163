---------------------------- MODULE MCCalculation ----------------------------
(* Values for TLC: rows on both sides of every boundary, thresholds at and    *)
(* outside the range of percentages.                                          *)
EXTENDS Calculation

CONSTANTS a1, a2

MCPromoRows ==
  [article : {a1}, plan : {2, 3}, discount : {333, 345}]
  \cup {[article |-> a1, plan |-> -1, discount |-> 1001],
        [article |-> a1, plan |-> NotANumber, discount |-> 333],
        [article |-> a2, plan |-> 2, discount |-> -5],
        [article |-> a2, plan |-> 2, discount |-> NotANumber],
        [article |-> None, plan |-> 2, discount |-> 333]}
MCPriceRows ==
  {[article |-> a1, price |-> p] : p \in {None, NotANumber, 0, 3}}
  \cup {[article |-> a2, price |-> 2], [article |-> None, price |-> 3]}
MCSettings ==
  {None, [threshold |-> 34, noPromo |-> 120, overThreshold |-> -5],
         [threshold |-> -1, noPromo |-> 10, overThreshold |-> 20]}
MCRows ==
  [min_price : {None, NotANumber, 1}, min_boost : {None, NotANumber, 0, 1},
   max_boost : {None, NotANumber, 0, 1, 2}, stock : {None, NotANumber, 0, 1}]
=============================================================================
