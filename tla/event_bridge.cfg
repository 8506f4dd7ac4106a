CONSTANTS
  s1 = s1 s2 = s2 d1 = d1 d2 = d2 w1 = w1 w2 = w2
  Server = {s1, s2}
  Doc = {d1}
  Writer = {w1, w2}
  Outside = Outside
  NoWriter = NoWriter
  NoChange = NoChange
  MaxWrites = 1
  MaxFaults = 2
SYMMETRY Symmetric
SPECIFICATION Spec
INVARIANTS SignalsAreOnceAndInOrder InbandSignalsAreCommitted UpdatesInCommitOrder
  QuietRelayHasSignalled HandlerBroadcasts
CHECK_DEADLOCK FALSE
