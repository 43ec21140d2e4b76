CONSTANTS
  r1 = r1
  r2 = r2
  g1 = g1
  g2 = g2
  NoGoroutine = NoGoroutine
  NoRequest = NoRequest
  Requests <- MCRequests
  Goroutines <- MCGoroutines
  NumTokens = 1
  ChanCap = 1
  MaxCrashes = 1
  MaxStops = 1
SYMMETRY MCSymmetry
SPECIFICATION Spec
CHECK_DEADLOCK FALSE
INVARIANTS
  TypeOK
  SingleExecutor
  RoutedInFull
  EntryOwnsGoroutine
  ExecutedInOrder
