CONSTANTS
  r1 = r1
  s1 = s1
  Requests <- MCOneRequest
  Sessions <- MCSessions
  SessionOf <- MCSessionOf
  NumTokens = 2
  Threshold = 1
  MaxCrashes = 0
  MaxStops = 1
  MaxDbErrors = 0
SPECIFICATION FairSpec
PROPERTIES
  UpsertKeepsText
