CONSTANTS
  r1 = r1
  s1 = s1
  Requests <- MCOneRequest
  Sessions <- MCSessions
  SessionOf <- MCSessionOf
  NumTokens = 1
  Threshold = 1
  MaxCrashes = 0
  MaxStops = 0
  MaxDbErrors = 1
SPECIFICATION Spec
INVARIANTS
  FailedFlushKeepsText
