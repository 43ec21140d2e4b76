CONSTANTS
  r1 = r1
  r2 = r2
  g1 = g1
  g2 = g2
  a1 = a1
  a2 = a2
  h1 = h1
  h2 = h2
  NoGoroutine = NoGoroutine
  NoRequest = NoRequest
  NoAddr = NoAddr
  Requests <- MCOneRequest
  Goroutines <- MCGoroutines
  Apis <- MCApis
  ApiOf <- MCApiOf
  Advertised <- MCSharedAddr
  NumTokens = 1
  ChanCap = 1
  HubCap = 2
  MaxStreams = 1
  MaxApiStops = 0
  MaxFaults = 0
SYMMETRY MCSymmetry
SPECIFICATION Spec
CHECK_DEADLOCK FALSE
INVARIANTS
  TokenFindsHandler
