SPECIFICATION Spec
CONSTANTS
  a1 = a1
  a2 = a2
  Articles = {a1, a2}
  PromoRows <- MCPromoRows
  PriceRows <- MCPriceRows
  Settings <- MCSettings
  Faults = {fault}
  MaxPromoRows = 3
  MaxPriceRows = 2
  Rows <- MCRows
  MaxRows = 2
  None = None
  NotANumber = NotANumber
INVARIANTS
  AggregatesAreExtremes
  DecisionsFollowRules
  WBPassIsSound
  ParticipatesIffWorthwhile
  OzonPassIsSound
CHECK_DEADLOCK FALSE
