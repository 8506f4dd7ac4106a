CONSTANTS
  c1 = c1
  c2 = c2
  c3 = c3
  u1 = u1
  u2 = u2
  d1 = d1
  d2 = d2
  Sid = {c1, c2, c3}
  User = {u1, u2}
  UserOf <- MCUserOf
  Data = {d1, d2}
  Clauses <- MCClauses
  NoData = NoData
  Broadcast = {b1}
  MaxChanges = 3
  b1 = b1
SPECIFICATION FairSpec
INVARIANTS
  RevokedReceivesNothing
  OnlyMatchingMembersReceive
  SteadyMembersReceive
PROPERTIES
  BroadcastsFinish
