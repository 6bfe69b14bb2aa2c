SPECIFICATION Spec
CONSTANTS
  None = None
  Slots = {s1, s2}
  QuoteAsks <- AmountAsks
  SwapAsks <- MCSwapAsks
  CacheTtl = 1
  QuoteTtl = 1
  Second = 2
  Capacity = 2
  MaxQuotes = 3
  MaxTime = 3
SYMMETRY SlotSymmetry
INVARIANTS
  TypeOK
  FreshSwap
  QuoteHonoured
  StoreBounded
  QuoteFitsAsk
PROPERTIES
  KeepsOffers
