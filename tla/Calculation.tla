----------------------------- MODULE Calculation -----------------------------
(***************************************************************************)
(* The calculation of a run: MarketplaceRunExecutionStrategy chooses the   *)
(* strategy of the run's marketplace (runs/service.py).                    *)
(***************************************************************************)
EXTENDS Integers, Sequences, FiniteSets

CONSTANTS Articles, PromoRows, PriceRows, Settings, Faults, MaxPromoRows,
          MaxPriceRows, Rows, MaxRows, None, NotANumber

VARIABLES module_code, stage, settings, input, promos, aggregates,
          decisions, column

vars == <<module_code, stage, settings, input, promos, aggregates,
          decisions, column>>

WB == INSTANCE WBProcessing
Ozon == INSTANCE OzonProcessing

ASSUME CalculationAssumption == WB!WBProcessingAssumption /\ Ozon!OzonProcessingAssumption

Init ==
  \/ module_code = "wb" /\ WB!Init
  \/ /\ module_code = "ozon" /\ Ozon!Init
     /\ settings = None /\ promos = <<>> /\ aggregates = <<>>

DispatchWB == module_code = "wb" /\ WB!Next /\ UNCHANGED module_code

DispatchOzon ==
  module_code = "ozon" /\ Ozon!Next
  /\ UNCHANGED <<module_code, settings, promos, aggregates>>

Next == DispatchWB \/ DispatchOzon

Spec == Init /\ [][Next]_vars

----------------------------------------------------------------------------
(* The properties of the two strategies, for the run that is calculated    *)

(* A WB article's promo conditions are the least discount and the greatest *)
(* plan price of its valid rows, whatever their files and order            *)
(* (_aggregate_promos).                                                    *)
AggregatesAreExtremes == module_code = "wb" => WB!AggregatesAreExtremes

(* Every WB discount is the documented one, recomputed from the rows       *)
(* (_build_price_decisions).                                               *)
DecisionsFollowRules == module_code = "wb" => WB!DecisionsFollowRules

(* A finished WB pass is written and summarised as it was decided          *)
(* (wb/service.py, _process).                                              *)
WBPassIsSound == module_code = "wb" => WB!PassIsSound

(* An Ozon row participates iff it has stock and an offered boost price at *)
(* or above its minimum, and at no lower price (_build_decisions).         *)
ParticipatesIffWorthwhile == module_code = "ozon" => Ozon!ParticipatesIffWorthwhile

(* A finished Ozon pass is written and summarised as it was decided        *)
(* (ozon/service.py, _process).                                            *)
OzonPassIsSound == module_code = "ozon" => Ozon!PassIsSound
=============================================================================
