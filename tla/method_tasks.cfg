CONSTANTS
  s1 = s1 j1 = j1 j2 = j2
  Server = {s1}
  Job = {j1, j2}
  Home <- OneServer
  Realtime = {j1}
  NoJob = NoJob
  MaxProgress = 1
  MaxFaults = 1
  c1 = c1 c2 = c2 u1 = u1 u2 = u2 t1 = t1 t2 = t2
  Call = {c1, c2}
  User = {u1, u2}
  Guest = Guest
  Administrator = Administrator
  UserOf <- MCUserOf
  Thread = {t1, t2}
  NoThread = NoThread
  a1 = a1 a2 = a2 b1 = b1
  Unit = {a1, a2, b1}
  CallOf <- MCCallOf
SPECIFICATION MCSpec
INVARIANTS TaskIsToldAsItHappened EarlyCallerHearsAll QueueIsDecidedOnce WorkIsDoneAsItsCaller
PROPERTIES AcceptedJobsAreRun WorkSpec
CHECK_DEADLOCK FALSE
