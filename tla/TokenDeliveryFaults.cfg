CONSTANTS
  r1 = r1
  r2 = r2
  g1 = g1
  g2 = g2
  a1 = a1
  a2 = a2
  h1 = h1
  h2 = h2
  NoGoroutine = NoGoroutine
  NoRequest = NoRequest
  NoAddr = NoAddr
  Requests <- MCOneRequest
  Goroutines <- MCGoroutines
  Apis <- MCApis
  ApiOf <- MCApiOf
  Advertised <- MCOwnAddr
  NumTokens = 2
  ChanCap = 1
  HubCap = 3
  MaxStreams = 2
  MaxApiStops = 1
  MaxFaults = 2
SPECIFICATION TimedSpec
CHECK_DEADLOCK FALSE
INVARIANTS
  TypeOK
  HubNeverFull
  NoStreamLeftBehind
PROPERTIES
  ImplementsChatStream
  EntriesReclaimed
  StopDrains
