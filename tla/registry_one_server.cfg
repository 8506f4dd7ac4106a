CONSTANTS
  s1 = s1 s2 = s2 c1 = c1 c2 = c2 c3 = c3 t1 = t1 t2 = t2
  Server = {s1}
  Sid = {c1, c2}
  Home <- OneServerHome
  Target = {t1, t2}
  Clauses = {"by status"}
  NoTarget = NoTarget
  MaxPending = 1
  MaxFaults = 1
SPECIFICATION Spec
INVARIANTS NoStolenCount GateMatchesAudience
PROPERTIES DipsOnlyToResubscribe
SYMMETRY OneServerSymmetry
