SPECIFICATION Spec
CONSTANTS
  None = None
  V2Fee <- MCFee
  FeeUnit = 10
  Scale = 16
  MarginalScale = 128
  GasBase = 0
  GasCost <- MCGas
  GasPerHop = 1
  Intermediates <- MCIntermediates
  MinReserve = 5
  MinLiquidity = 5
  MaxHopDepth = 2
  MaxPartials = 1
  TopK = 3
  MaxSplitLegs = 3
  MaxRoutes = 4
  Convergence = 100
  MaxIterations = 6
  MinLegRatio = 1000
  SplitOverhead = 1
  EighteenDecimals = TRUE
  Order <- MCOrder
  Markets <- MCMarkets
  TokenIn = "A"
  TokenOut = "B"
  WrappedNative = "W"
  Requests <- MCRequests
  GasPrice = 1
  Traded <- MCTraded
  TradeSize = 4
  MaxTrades = 1
INVARIANTS
  TypeOK
  QuoteHonest
  SplitSound
  SearchComplete
PROPERTIES
  Ends
CHECK_DEADLOCK TRUE
