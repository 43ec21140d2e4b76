CONSTANTS
  r1 = r1
  r2 = r2
  g1 = g1
  g2 = g2
  a1 = a1
  a2 = a2
  h1 = h1
  h2 = h2
  NoGoroutine = NoGoroutine
  NoRequest = NoRequest
  NoAddr = NoAddr
  Requests <- MCRequests
  Goroutines <- MCGoroutines
  Apis <- MCApis
  ApiOf <- MCApiOfOne
  Advertised <- MCOwnAddr
  NumTokens = 1
  ChanCap = 2
  HubCap = 2
  MaxStreams = 1
  MaxApiStops = 0
  MaxFaults = 0
SPECIFICATION FairSpec
CHECK_DEADLOCK FALSE
INVARIANTS
  TokenFindsHandler
  NoGapWithoutFault
PROPERTIES
  AcceptedIsAnswered
  EntriesReclaimed
