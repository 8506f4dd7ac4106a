CONSTANTS
  s1 = s1 s2 = s2 d1 = d1 d2 = d2 w1 = w1 w2 = w2
  Server = {s1}
  Doc = {d1, d2}
  Writer = {w1, w2}
  Outside = Outside
  NoWriter = NoWriter
  NoChange = NoChange
  MaxWrites = 2
  MaxFaults = 1
SYMMETRY Symmetric
SPECIFICATION Spec
INVARIANTS SkippedChangesAreBroadcast
CHECK_DEADLOCK FALSE
