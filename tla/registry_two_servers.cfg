CONSTANTS
  s1 = s1 s2 = s2 c1 = c1 c2 = c2 c3 = c3 t1 = t1 t2 = t2
  Server = {s1, s2}
  Sid = {c1, c2, c3}
  Home <- TwoServerHome
  Target = {t1}
  Clauses = {}
  NoTarget = NoTarget
  MaxPending = 1
  MaxFaults = 1
SPECIFICATION FairSpec
INVARIANTS NoLeak NoZombie DisconnectedHoldsNothing
PROPERTIES GateEventuallyCloses
