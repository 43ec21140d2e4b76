CONSTANTS
  r1 = r1
  s1 = s1
  Requests <- MCOneRequest
  Sessions <- MCSessions
  SessionOf <- MCSessionOf
  NumTokens = 2
  Threshold = 2
  MaxCrashes = 1
  MaxStops = 1
  MaxDbErrors = 1
SPECIFICATION FairSpec
INVARIANTS
  TypeOK
  OneFlushAtATime
  NothingLostOrRepeated
  NeverReordered
  RowsHaveSession
PROPERTIES
  StoredTextGrows
  EventuallyStored
