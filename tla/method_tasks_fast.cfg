CONSTANTS
  s1 = s1 j1 = j1 j2 = j2
  Server = {s1}
  Job = {j1}
  Home <- OneServer
  Realtime = {j1}
  NoJob = NoJob
  MaxProgress = 1
  MaxFaults = 0
SPECIFICATION Spec
INVARIANTS CallerHearsTheEnd
CHECK_DEADLOCK FALSE
