CONSTANTS
  t1 = t1 t2 = t2
  Thread = {t1, t2}
  NoThread = NoThread
  TTL = 2
  MaxClock = 5
SYMMETRY Symmetric
SPECIFICATION Spec
INVARIANTS LastingSubscriptionIsSeen GoneSubscriptionIsForgotten RedisIsNotHammered
