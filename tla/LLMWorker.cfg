CONSTANTS
  r1 = r1
  r2 = r2
  Requests <- MCRequests
  Concurrency = 1
  NumTokens = 1
  MaxFaults = 1
SPECIFICATION FairSpec
CHECK_DEADLOCK FALSE
INVARIANTS
  TypeOK
  TopicsAgree
  DoneMeansComplete
  OneAnswer
PROPERTIES
  RequestsAnswered
