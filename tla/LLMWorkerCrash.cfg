CONSTANTS
  r1 = r1
  r2 = r2
  Requests <- MCOneRequest
  Concurrency = 1
  NumTokens = 2
  MaxFaults = 1
SPECIFICATION Spec
CHECK_DEADLOCK FALSE
INVARIANTS
  ShownIsSafe
