SPECIFICATION Spec
CONSTANTS
  Requests = {r1, r2}
  Total = 3
  Fallbacks = 0
  MaxCalls = 4
INVARIANTS
  AllFailed
CHECK_DEADLOCK FALSE
