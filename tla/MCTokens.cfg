SPECIFICATION ServiceSpec
CONSTANTS
  Requests = {c1, c2}
  Total = 3
  Fallbacks = 1
  MaxCalls = 3
  A = A
  B = B
  Tokens = {A, B}
  Decimals <- MCDecimals
  Native = Native
  Preloaded = {A}
  Ttl = 1
  Unknown = Unknown
  None = None
  Lists <- MCLists
  Losses <- MCLosses
  MaxAsks = 2
  MaxTime = 1
INVARIANTS
  TypeOK
  UndisturbedTriesAll
  AnswerFits
  DecimalsTrue
  AnswerFresh
  TokensTyped
PROPERTIES
  Answered
  TokensAnswered
CHECK_DEADLOCK FALSE
