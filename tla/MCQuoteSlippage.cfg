SPECIFICATION Spec
CONSTANTS
  None = None
  Slots = {s1, s2}
  QuoteAsks <- SlippageAsks
  SwapAsks <- MCSwapAsks
  CacheTtl = 1
  QuoteTtl = 2
  Second = 2
  Capacity = 2
  MaxQuotes = 3
  MaxTime = 4
SYMMETRY SlotSymmetry
INVARIANTS
  QuoteSlippageKept
