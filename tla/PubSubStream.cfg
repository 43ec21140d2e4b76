CONSTANTS
  t1 = t1
  t2 = t2
  t3 = t3
  NoTurn = NoTurn
  Turns <- MCTurns
  NumTokens = 1
  ChanCap = 1
  MaxFaults = 1
SPECIFICATION FairSpec
CHECK_DEADLOCK FALSE
INVARIANTS
  TypeOK
  EntryIsServed
  BoundedSubscriptions
  AtMostOneLate
PROPERTIES
  DispatchGoesOn
