---------------------------- MODULE GateSnapshot ----------------------------
(***************************************************************************)
(* sub_registry.is_active: how the threads of one Frappe process (web or   *)
(* worker) ask whether anybody subscribes to a document.  The answer comes *)
(* from module globals, a copy of the two Redis hashes and its timestamp,  *)
(* that one thread at a time refreshes under a lock when they are          *)
(* _SNAPSHOT_TTL old.  The other threads go on reading the globals without *)
(* the lock, subscriptions come and go in Redis, and Redis fails.          *)
(*                                                                         *)
(* One document is asked about: its field in the hash of the doctypes and  *)
(* its field in the hash of the documents.  Each assignment to a global    *)
(* and each read of one is a step, as threads switch between bytecodes.    *)
(***************************************************************************)
EXTENDS Integers

CONSTANTS
  Thread,     \* threads of the process
  NoThread,   \* holder of the lock when it is free
  TTL,        \* _SNAPSHOT_TTL, in ticks of the clock
  MaxClock    \* bound: ticks

ASSUME ThreadAssumption == NoThread \notin Thread
ASSUME TTLAssumption == TTL \in Nat \ {0}
ASSUME ClockAssumption == MaxClock \in Nat /\ TTL <= MaxClock

\* H_DT and H_DOC, standing for the field of the document in each.
Hash == {"doctype", "document"}

VARIABLES
  clock,      \* time.monotonic()
  held,       \* held[h]: the field in Redis has a positive count
  maps,       \* maps[h]: the field is in _snap_dt, in _snap_doc
  ts,         \* _snap_ts
  lock,       \* the thread that holds _snap_lock
  pc,         \* pc[t]: where t is in is_active
  now,        \* now[t]: the local now of _snapshot
  seen,       \* seen[t]: the maps in the locals of t
  answer,     \* answer[t]: what is_active returned last
  \* History, for the properties.
  lastHeld,   \* lastHeld[h]: the last time the field had a positive count
  lastFree,   \* lastFree[h]: the last time it had not
  blind,      \* the timestamp the last failed refresh left
  attempts    \* refreshes begun

redis  == <<clock, held, lastHeld, lastFree>>
global == <<maps, ts, blind>>
vars   == <<clock, held, maps, ts, lock, pc, now, seen, answer, lastHeld,
            lastFree, blind, attempts>>

\* "idle" before the first call, "answered" after each.
Places == {"idle", "answered", "check", "lock", "recheck", "hgetall_dt", "hgetall_doc",
           "store_dt", "store_doc", "store_ts", "load_dt", "load_doc"}

\* The snapshot is younger than the TTL, for a caller that came at now[t].
Fresh(t) == now[t] - ts < TTL

-----------------------------------------------------------------------------
\* No snapshot has been taken: the maps are empty and their timestamp is 0,
\* which lies TTL back already (the clock counts from the boot of the host).
Init ==
  /\ clock    = TTL
  /\ held     \in [Hash -> BOOLEAN]
  /\ maps     = [h \in Hash |-> FALSE]
  /\ ts       = 0
  /\ lock     = NoThread
  /\ pc       = [t \in Thread |-> "idle"]
  /\ now      = [t \in Thread |-> TTL]
  /\ seen     = [t \in Thread |-> [h \in Hash |-> FALSE]]
  /\ answer   = [t \in Thread |-> FALSE]
  /\ lastHeld = [h \in Hash |-> IF held[h] THEN clock ELSE 0]
  /\ lastFree = [h \in Hash |-> IF held[h] THEN 0 ELSE clock]
  /\ blind    = 0
  /\ attempts = 0

-----------------------------------------------------------------------------
(* The environment.                                                        *)

Tick ==
  /\ clock < MaxClock
  /\ clock' = clock + 1
  /\ lastHeld' = [h \in Hash |-> IF held[h] THEN clock + 1 ELSE lastHeld[h]]
  /\ lastFree' = [h \in Hash |-> IF held[h] THEN lastFree[h] ELSE clock + 1]
  /\ UNCHANGED <<held, global, lock, pc, now, seen, answer, attempts>>

\* The first subscriber of a target comes or the last one goes.
Resubscribed(h) ==
  /\ held' = [held EXCEPT ![h] = ~ @]
  /\ lastHeld' = [lastHeld EXCEPT ![h] = clock]
  /\ lastFree' = [lastFree EXCEPT ![h] = clock]
  /\ UNCHANGED <<clock, global, lock, pc, now, seen, answer, attempts>>

-----------------------------------------------------------------------------
(* is_active and _snapshot.                                                *)

Goto(t, place) == pc' = [pc EXCEPT ![t] = place]

\* A write to a document calls is_active: now = time.monotonic().
Call(t) ==
  /\ pc[t] \in {"idle", "answered"}
  /\ now' = [now EXCEPT ![t] = clock]
  /\ Goto(t, "check")
  /\ UNCHANGED <<redis, global, lock, seen, answer, attempts>>

\* The first look at the timestamp, without the lock.
Check(t) ==
  /\ pc[t] = "check"
  /\ Goto(t, IF Fresh(t) THEN "load_dt" ELSE "lock")
  /\ UNCHANGED <<redis, global, lock, now, seen, answer, attempts>>

Acquire(t) ==
  /\ pc[t] = "lock" /\ lock = NoThread
  /\ lock' = t
  /\ Goto(t, "recheck")
  /\ UNCHANGED <<redis, global, now, seen, answer, attempts>>

\* Mutant of Recheck: the timestamp is not looked at again under the lock.
RecheckNothing(t) ==
  /\ pc[t] = "recheck"
  /\ Goto(t, "hgetall_dt")
  /\ attempts' = attempts + 1
  /\ UNCHANGED <<redis, global, lock, now, seen, answer>>

\* The second look: another thread may have refreshed while t waited.
Recheck(t) ==
  /\ pc[t] = "recheck"
  /\ \/ /\ Fresh(t)
        /\ Goto(t, "load_dt")
        /\ UNCHANGED attempts
     \/ /\ ~ Fresh(t)
        /\ Goto(t, "hgetall_dt")
        /\ attempts' = attempts + 1
  /\ UNCHANGED <<redis, global, lock, now, seen, answer>>

\* The two hashes are read by two commands.
ReadDoctypes(t) ==
  /\ pc[t] = "hgetall_dt"
  /\ seen' = [seen EXCEPT ![t]["doctype"] = held["doctype"]]
  /\ Goto(t, "hgetall_doc")
  /\ UNCHANGED <<redis, global, lock, now, answer, attempts>>

ReadDocuments(t) ==
  /\ pc[t] = "hgetall_doc"
  /\ seen' = [seen EXCEPT ![t]["document"] = held["document"]]
  /\ Goto(t, "store_dt")
  /\ UNCHANGED <<redis, global, lock, now, answer, attempts>>

\* Redis fails: the maps stay, the timestamp moves on all the same.
ReadFails(t) ==
  /\ pc[t] \in {"hgetall_dt", "hgetall_doc"}
  /\ ts'    = now[t]
  /\ blind' = now[t]
  /\ lock'  = NoThread
  /\ Goto(t, "load_dt")
  /\ UNCHANGED <<redis, maps, now, seen, answer, attempts>>

\* _snap_dt, _snap_doc, _snap_ts = dt, doc, now: three stores, in this order.
StoreDoctypes(t) ==
  /\ pc[t] = "store_dt"
  /\ maps' = [maps EXCEPT !["doctype"] = seen[t]["doctype"]]
  /\ Goto(t, "store_doc")
  /\ UNCHANGED <<redis, ts, blind, lock, now, seen, answer, attempts>>

StoreDocuments(t) ==
  /\ pc[t] = "store_doc"
  /\ maps' = [maps EXCEPT !["document"] = seen[t]["document"]]
  /\ Goto(t, "store_ts")
  /\ UNCHANGED <<redis, ts, blind, lock, now, seen, answer, attempts>>

\* Mutant of StoreTimestamp: the time after the reads instead of before.
StoreTimestampLate(t) ==
  /\ pc[t] = "store_ts"
  /\ ts'   = clock
  /\ lock' = NoThread
  /\ Goto(t, "load_dt")
  /\ UNCHANGED <<redis, maps, blind, now, seen, answer, attempts>>

StoreTimestamp(t) ==
  /\ pc[t] = "store_ts"
  /\ ts'   = now[t]
  /\ lock' = NoThread
  /\ Goto(t, "load_dt")
  /\ UNCHANGED <<redis, maps, blind, now, seen, answer, attempts>>

\* return _snap_dt, _snap_doc: two reads, under the lock after the second
\* look at the timestamp, without it otherwise.
LoadDoctypes(t) ==
  /\ pc[t] = "load_dt"
  /\ seen' = [seen EXCEPT ![t]["doctype"] = maps["doctype"]]
  /\ Goto(t, "load_doc")
  /\ UNCHANGED <<redis, global, lock, now, answer, attempts>>

\* The document is active in one map or the other.
LoadDocuments(t) ==
  /\ pc[t] = "load_doc"
  /\ answer' = [answer EXCEPT ![t] = seen[t]["doctype"] \/ maps["document"]]
  /\ seen' = [seen EXCEPT ![t] = [h \in Hash |-> FALSE]]
  /\ lock' = IF lock = t THEN NoThread ELSE lock
  /\ Goto(t, "answered")
  /\ UNCHANGED <<redis, global, now, attempts>>

-----------------------------------------------------------------------------
Refresh(t) ==
  \/ ReadDoctypes(t) \/ ReadDocuments(t) \/ ReadFails(t)
  \/ StoreDoctypes(t) \/ StoreDocuments(t) \/ StoreTimestamp(t)

IsActive(t) ==
  \/ Call(t) \/ Check(t) \/ Acquire(t) \/ Recheck(t)
  \/ Refresh(t)
  \/ LoadDoctypes(t) \/ LoadDocuments(t)

Next ==
  \/ Tick
  \/ \E h \in Hash : Resubscribed(h)
  \/ \E t \in Thread : IsActive(t)

Spec == Init /\ [][Next]_vars

-----------------------------------------------------------------------------
(* Properties.                                                             *)

TypeOK ==
  /\ clock    \in TTL..MaxClock
  /\ held     \in [Hash -> BOOLEAN]
  /\ maps     \in [Hash -> BOOLEAN]
  /\ ts       \in 0..MaxClock
  /\ lock     \in Thread \cup {NoThread}
  /\ pc       \in [Thread -> Places]
  /\ now      \in [Thread -> TTL..MaxClock]
  /\ seen     \in [Thread -> [Hash -> BOOLEAN]]
  /\ answer   \in [Thread -> BOOLEAN]
  /\ lastHeld \in [Hash -> 0..MaxClock]
  /\ lastFree \in [Hash -> 0..MaxClock]
  /\ blind    \in 0..MaxClock
  /\ attempts \in Nat

\* t has been answered from a snapshot whose last refresh failed.
Blind(t) == blind > now[t] - TTL

\* No change of a watched document is missed for longer than the TTL: a "no"
\* for a caller that came at now means that neither the doctype nor the
\* document was subscribed to without interruption since now - TTL, unless
\* a refresh failed since then.
LastingSubscriptionIsSeen ==
  \A t \in Thread : pc[t] = "answered" /\ ~ answer[t] /\ ~ Blind(t) =>
    \A h \in Hash : lastFree[h] > now[t] - TTL

\* The gate goes back to dormant: a "yes" means that somebody subscribed to
\* the doctype or the document at some moment since now - TTL, unless a
\* refresh failed since then.
GoneSubscriptionIsForgotten ==
  \A t \in Thread : pc[t] = "answered" /\ answer[t] /\ ~ Blind(t) =>
    \E h \in Hash : lastHeld[h] > now[t] - TTL

\* "So we do not hammer a dead Redis on every ORM write": however many
\* threads find the snapshot old at the same time and however many reads
\* fail, there is no more than one refresh for each TTL that has gone by.
RedisIsNotHammered == attempts * TTL <= clock

=============================================================================
