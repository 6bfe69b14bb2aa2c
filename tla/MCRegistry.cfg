SPECIFICATION Spec
CONSTANTS
  Eth = Eth
  Bsc = Bsc
  U1 = U1
  U2 = U2
  U3 = U3
  Chains = {Eth, Bsc}
  Urls = {U1, U2, U3}
  Private = {Bsc}
  Configured <- MCConfigured
  Lists <- MCLists
  Outcomes <- MCOutcomes
  Callers = {c1, c2}
  MaxProbes = 2
  ListTtl = 1
  FailureTtl = 1
  RankTtl = 1
  MaxCalls = 3
  MaxTime = 1
INVARIANTS
  TypeOK
  OneDownload
  ResultComplete
  HealthyFirst
PROPERTIES
  Paced
  Resolved
CHECK_DEADLOCK FALSE
