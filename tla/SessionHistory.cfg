CONSTANTS
  c1 = c1
  c2 = c2
  c3 = c3
  h1 = h1
  h2 = h2
  h3 = h3
  u1 = u1
  u2 = u2
  s1 = s1
  Calls <- MCCalls
  Kind <- MCKind
  Users <- MCUsers
  UserOf <- MCUserOf
  Sessions <- MCSessions
  SessionOf <- MCSessionOf
  NoUser = NoUser
  MaxExpiries = 2
  MaxErrors = 1
SPECIFICATION Spec
CHECK_DEADLOCK FALSE
INVARIANTS
  TypeOK
  OneOwnerPerTerm
  GuardHoldsForItsTerm
  HistoryGrows
