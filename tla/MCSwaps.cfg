SPECIFICATION Spec
CONSTANTS
  A = A
  M = M
  B = B
  WETH = WETH
  ETH = ETH
  NoToken = NoToken
  U1 = U1
  U2 = U2
  R1 = R1
  R2 = R2
  Self = Self
  Tokens = {A, M, B, WETH}
  Users = {U1, U2}
  Routers = {R1, R2}
  Requests <- AllRequests
  Swaps <- BuiltSwaps
  Wealth <- MCWealth
  BufferBps = 10
  MaxUint = 1000000
  Surplus = {0, 170}
  Strays = {3}
  MaxTime = 1
  MaxTxs = 2
INVARIANTS
  TypeOK
  NoStandingAllowance
  PlanFits
  PlanSound
PROPERTIES
  NothingStranded
  PriorFundsKept
  Settles
  InTime
CHECK_DEADLOCK FALSE
