------------------------- MODULE GateSnapshotProofs -------------------------
(***************************************************************************)
(* Proofs about GateSnapshot for any number of threads, any TTL and any    *)
(* time.                                                                   *)
(*                                                                         *)
(* The argument: the timestamp is never later than the reads it stands     *)
(* for, and it only moves forward, by the TTL or more, under the lock      *)
(* (Locking).  So a map loaded by a caller for whom the snapshot is fresh  *)
(* was read after now - TTL, unless the timestamp was left by a failed     *)
(* refresh (Freshness).                                                    *)
(***************************************************************************)
EXTENDS GateSnapshot, TLAPS

USE ThreadAssumption, TTLAssumption, ClockAssumption DEF redis, global, Goto

\* The places at which a thread holds the lock to refresh.
Refreshing == {"hgetall_dt", "hgetall_doc", "store_dt", "store_doc", "store_ts"}

LEMMA TypeStep == TypeOK /\ [Next]_vars => TypeOK'
<1> SUFFICES ASSUME TypeOK, [Next]_vars PROVE TypeOK'
  OBVIOUS
<1> USE DEF TypeOK, Places
<1>1. CASE Tick
  BY <1>1 DEF Tick
<1>2. ASSUME NEW h \in Hash, Resubscribed(h) PROVE TypeOK'
  BY <1>2 DEF Resubscribed
<1>3. ASSUME NEW t \in Thread, Call(t) \/ Check(t) \/ Acquire(t) \/ Recheck(t)
      PROVE  TypeOK'
  <2>1. CASE Call(t)
    BY <2>1 DEF Call
  <2>2. CASE Check(t)
    <3>1. pc' \in [Thread -> Places]
      BY <2>2 DEF Check
    <3> QED BY <2>2, <3>1 DEF Check
  <2>3. CASE Acquire(t)
    BY <2>3 DEF Acquire
  <2>4. CASE Recheck(t)
    <3>1. attempts' \in Nat
      BY <2>4 DEF Recheck
    <3> QED BY <2>4, <3>1 DEF Recheck
  <2> QED BY <1>3, <2>1, <2>2, <2>3, <2>4
<1>4. ASSUME NEW t \in Thread, ReadDoctypes(t) \/ ReadDocuments(t) PROVE TypeOK'
  <2>1. CASE ReadDoctypes(t)
    <3>1. seen' \in [Thread -> [Hash -> BOOLEAN]]
      BY <2>1 DEF ReadDoctypes, Hash
    <3> QED BY <2>1, <3>1 DEF ReadDoctypes
  <2>2. CASE ReadDocuments(t)
    <3>1. seen' \in [Thread -> [Hash -> BOOLEAN]]
      BY <2>2 DEF ReadDocuments, Hash
    <3> QED BY <2>2, <3>1 DEF ReadDocuments
  <2> QED BY <1>4, <2>1, <2>2
<1>5. ASSUME NEW t \in Thread, ReadFails(t) PROVE TypeOK'
  BY <1>5 DEF ReadFails
<1>6. ASSUME NEW t \in Thread,
             StoreDoctypes(t) \/ StoreDocuments(t) \/ StoreTimestamp(t)
      PROVE  TypeOK'
  BY <1>6 DEF StoreDoctypes, StoreDocuments, StoreTimestamp, Hash
<1>7. ASSUME NEW t \in Thread, LoadDoctypes(t) PROVE TypeOK'
  BY <1>7 DEF LoadDoctypes, Hash
<1>8. ASSUME NEW t \in Thread, LoadDocuments(t) PROVE TypeOK'
  <2>1. (seen[t]["doctype"] \/ maps["document"]) \in BOOLEAN
    OBVIOUS
  <2>2. answer' \in [Thread -> BOOLEAN]
    BY <1>8, <2>1 DEF LoadDocuments
  <2>3. seen' \in [Thread -> [Hash -> BOOLEAN]]
    BY <1>8 DEF LoadDocuments
  <2>4. lock' \in Thread \cup {NoThread} /\ pc' \in [Thread -> Places]
    BY <1>8 DEF LoadDocuments
  <2> QED BY <1>8, <2>2, <2>3, <2>4 DEF LoadDocuments
<1>9. CASE UNCHANGED vars
  BY <1>9 DEF vars
<1> QED BY <1>1, <1>2, <1>3, <1>4, <1>5, <1>6, <1>7, <1>8, <1>9
        DEF Next, IsActive, Refresh

\* Every variable of the snapshot keeps its type (the globals and locals of
\* _snapshot and is_active).
THEOREM SnapshotTypes == Spec => []TypeOK
<1>1. Init => TypeOK
  BY DEF Init, TypeOK, Places
<1> QED BY <1>1, TypeStep, PTL DEF Spec

-----------------------------------------------------------------------------
(* The lock and the timestamp.                                             *)

\* One thread at a time refreshes, with a now that is TTL or more after the
\* timestamp; no now and no timestamp lies in the future.
Locking ==
  /\ \A t \in Thread : pc[t] \in Refreshing \cup {"recheck"} => lock = t
  /\ \A t \in Thread : pc[t] \in Refreshing => now[t] - ts >= TTL
  /\ \A t \in Thread : now[t] <= clock
  /\ blind <= ts /\ ts <= clock

LEMMA LockStep == TypeOK /\ Locking /\ [Next]_vars => Locking'
<1> SUFFICES ASSUME TypeOK, Locking, [Next]_vars PROVE Locking'
  OBVIOUS
<1> USE DEF TypeOK, Locking, Refreshing
<1>1. CASE Tick
  BY <1>1 DEF Tick
<1>2. ASSUME NEW h \in Hash, Resubscribed(h) PROVE Locking'
  BY <1>2 DEF Resubscribed
<1>3. ASSUME NEW t \in Thread, Call(t) PROVE Locking'
  BY <1>3 DEF Call
<1>4. ASSUME NEW t \in Thread, Check(t) \/ Acquire(t) PROVE Locking'
  BY <1>4 DEF Check, Acquire
<1>5. ASSUME NEW t \in Thread, Recheck(t) PROVE Locking'
  BY <1>5 DEF Recheck, Fresh
<1>6. ASSUME NEW t \in Thread, ReadDoctypes(t) \/ ReadDocuments(t) PROVE Locking'
  BY <1>6 DEF ReadDoctypes, ReadDocuments
<1>7. ASSUME NEW t \in Thread, ReadFails(t) \/ StoreTimestamp(t) PROVE Locking'
  BY <1>7 DEF ReadFails, StoreTimestamp
<1>8. ASSUME NEW t \in Thread, StoreDoctypes(t) \/ StoreDocuments(t) PROVE Locking'
  BY <1>8 DEF StoreDoctypes, StoreDocuments
<1>9. ASSUME NEW t \in Thread, LoadDoctypes(t) \/ LoadDocuments(t) PROVE Locking'
  BY <1>9 DEF LoadDoctypes, LoadDocuments
<1>10. CASE UNCHANGED vars
  BY <1>10 DEF vars
<1> QED BY <1>1, <1>2, <1>3, <1>4, <1>5, <1>6, <1>7, <1>8, <1>9, <1>10
        DEF Next, IsActive, Refresh

LEMMA AlwaysLocking == Spec => [](TypeOK /\ Locking)
<1>1. Init => Locking
  BY DEF Init, Locking, Refreshing
<1> QED BY <1>1, SnapshotTypes, LockStep, PTL DEF Spec

-----------------------------------------------------------------------------
(* How many refreshes.                                                     *)

\* The refreshes that are over fit into the time up to the timestamp.
Paced ==
  IF \E t \in Thread : pc[t] \in Refreshing
    THEN (attempts - 1) * TTL <= ts
    ELSE attempts * TTL <= ts

LEMMA PaceStep == TypeOK /\ Locking /\ Paced /\ [Next]_vars => Paced'
<1> SUFFICES ASSUME TypeOK, Locking, Paced, [Next]_vars PROVE Paced'
  OBVIOUS
<1> USE DEF TypeOK, Paced, Refreshing
<1>1. CASE Tick \/ (\E h \in Hash : Resubscribed(h)) \/ UNCHANGED vars
  BY <1>1 DEF Tick, Resubscribed, vars
<1>2. ASSUME NEW t \in Thread, Call(t) \/ Check(t) \/ Acquire(t)
      PROVE  Paced'
  <2>1. \A r \in Thread : pc'[r] \in Refreshing <=> pc[r] \in Refreshing
    BY <1>2 DEF Call, Check, Acquire
  <2> QED BY <1>2, <2>1 DEF Call, Check, Acquire
<1>3. ASSUME NEW t \in Thread, LoadDoctypes(t) \/ LoadDocuments(t)
      PROVE  Paced'
  <2>1. \A r \in Thread : pc'[r] \in Refreshing <=> pc[r] \in Refreshing
    BY <1>3 DEF LoadDoctypes, LoadDocuments
  <2> QED BY <1>3, <2>1 DEF LoadDoctypes, LoadDocuments
<1>4. ASSUME NEW t \in Thread, Recheck(t) PROVE Paced'
  <2>1. lock = t /\ pc[t] = "recheck"
    BY <1>4 DEF Recheck, Locking
  <2>2. \A r \in Thread : pc[r] \notin Refreshing
    BY <2>1 DEF Locking
  <2>3. attempts * TTL <= ts /\ ts' = ts
    BY <1>4, <2>2 DEF Recheck
  <2>4. CASE Fresh(t)
    <3>1. \A r \in Thread : pc'[r] \notin Refreshing
      BY <1>4, <2>2, <2>4 DEF Recheck
    <3> QED BY <1>4, <2>3, <2>4, <3>1 DEF Recheck
  <2>5. CASE ~ Fresh(t)
    <3>1. attempts' - 1 = attempts /\ pc'[t] \in Refreshing
      BY <1>4, <2>5 DEF Recheck
    <3> QED BY <2>3, <3>1
  <2> QED BY <2>4, <2>5
<1>5. ASSUME NEW t \in Thread, ReadDoctypes(t) \/ ReadDocuments(t)
      PROVE  Paced'
  BY <1>5 DEF ReadDoctypes, ReadDocuments
<1>6. ASSUME NEW t \in Thread, StoreDoctypes(t) \/ StoreDocuments(t)
      PROVE  Paced'
  BY <1>6 DEF StoreDoctypes, StoreDocuments
<1>7. ASSUME NEW t \in Thread, ReadFails(t) \/ StoreTimestamp(t)
      PROVE  Paced'
  <2>1. /\ pc[t] \in Refreshing /\ ts' = now[t] /\ attempts' = attempts
        /\ pc' = [pc EXCEPT ![t] = "load_dt"]
    BY <1>7 DEF ReadFails, StoreTimestamp
  <2>2. ts + TTL <= ts'
    BY <2>1 DEF Locking
  <2>3. (attempts - 1) * TTL <= ts
    BY <2>1
  <2>4. attempts * TTL = (attempts - 1) * TTL + TTL
    OBVIOUS
  <2>5. attempts' * TTL <= ts'
    <3> HIDE DEF Paced
    <3>1. /\ attempts * TTL \in Int /\ (attempts - 1) * TTL \in Int
          /\ ts \in Int /\ ts' \in Int /\ TTL \in Int
      BY <2>1
    <3> QED BY <2>1, <2>2, <2>3, <2>4, <3>1
  <2>6. \A r \in Thread : pc'[r] \notin Refreshing
    BY <2>1 DEF Locking
  <2> QED BY <2>5, <2>6
<1> QED BY <1>1, <1>2, <1>3, <1>4, <1>5, <1>6, <1>7 DEF Next, IsActive, Refresh

\* However many threads call is_active at the same time and however many
\* refreshes fail, _snapshot does not ask Redis more than once for each TTL.
THEOREM RefreshesArePaced == Spec => []RedisIsNotHammered
<1>1. Init => Paced
  BY DEF Init, Paced, Refreshing
<1>2. TypeOK /\ Locking /\ Paced => RedisIsNotHammered
  <2> SUFFICES ASSUME TypeOK, Locking, Paced PROVE attempts * TTL <= clock
    BY DEF RedisIsNotHammered
  <2>1. attempts * TTL = (attempts - 1) * TTL + TTL
    BY DEF TypeOK
  <2>2. /\ attempts * TTL \in Int /\ (attempts - 1) * TTL \in Int
        /\ ts \in Int /\ clock \in Int
    BY DEF TypeOK
  <2>3. CASE \E t \in Thread : pc[t] \in Refreshing
    <3>1. ts + TTL <= clock
      BY <2>3 DEF Locking, TypeOK
    <3> QED BY <2>1, <2>2, <2>3, <3>1 DEF Paced
  <2>4. CASE ~ \E t \in Thread : pc[t] \in Refreshing
    BY <2>2, <2>4 DEF Paced, Locking
  <2> QED BY <2>3, <2>4
<1> QED BY <1>1, <1>2, AlwaysLocking, PaceStep, PTL DEF Spec

-----------------------------------------------------------------------------
(* How old what is loaded can be.                                          *)

\* The field of h had the value v at some moment since x.
Recent(h, v, x) == IF v THEN lastHeld[h] >= x ELSE lastFree[h] >= x

\* The history is up to date.
Marks ==
  \A h \in Hash : /\ lastHeld[h] <= clock /\ lastFree[h] <= clock
                  /\ IF held[h] THEN lastHeld[h] = clock ELSE lastFree[h] = clock

\* What the refreshing thread has read was so at or after its now.
RecentReads ==
  \A t \in Thread :
    /\ pc[t] \in {"hgetall_doc", "store_dt", "store_doc", "store_ts"} =>
         Recent("doctype", seen[t]["doctype"], now[t])
    /\ pc[t] \in {"store_dt", "store_doc", "store_ts"} =>
         Recent("document", seen[t]["document"], now[t])
    /\ pc[t] \in {"store_doc", "store_ts"} => maps["doctype"] = seen[t]["doctype"]
    /\ pc[t] = "store_ts" => maps["document"] = seen[t]["document"]

\* The maps were so at or after the timestamp, unless it was left by a failed
\* refresh (the first one, 0, counts as such).
RecentMaps == ts # blind => \A h \in Hash : Recent(h, maps[h], ts)

\* A thread that loads the maps found them fresh, or made them so.
RecentLoads ==
  \A t \in Thread :
    /\ pc[t] \in {"load_dt", "load_doc"} => Fresh(t)
    /\ pc[t] = "load_doc" =>
         Blind(t) \/ Recent("doctype", seen[t]["doctype"], now[t] - TTL + 1)

\* The answers given, as the properties have them.
RecentAnswers ==
  \A t \in Thread : pc[t] = "answered" =>
    \/ Blind(t)
    \/ IF answer[t] THEN \E h \in Hash : lastHeld[h] > now[t] - TTL
                    ELSE \A h \in Hash : lastFree[h] > now[t] - TTL

LEMMA MarksStep == TypeOK /\ Marks /\ [Next]_vars => Marks'
<1> SUFFICES ASSUME TypeOK, Marks, [Next]_vars PROVE Marks'
  OBVIOUS
<1> USE DEF TypeOK, Marks
<1>1. CASE Tick
  BY <1>1 DEF Tick
<1>2. ASSUME NEW h \in Hash, Resubscribed(h) PROVE Marks'
  BY <1>2 DEF Resubscribed
<1>3. CASE UNCHANGED redis
  BY <1>3
<1> QED BY <1>1, <1>2, <1>3
        DEF Next, IsActive, Refresh, Call, Check, Acquire, Recheck, ReadDoctypes,
            ReadDocuments, ReadFails, StoreDoctypes, StoreDocuments,
            StoreTimestamp, LoadDoctypes, LoadDocuments, vars

\* What was so at some moment since x stays so, and the timestamps move
\* forward only.
LEMMA RecentGrows ==
  ASSUME TypeOK, Locking, Marks, [Next]_vars
  PROVE  /\ \A h \in Hash, v \in BOOLEAN, x \in Int : Recent(h, v, x) => Recent(h, v, x)'
         /\ \A h \in Hash : lastHeld'[h] >= lastHeld[h] /\ lastFree'[h] >= lastFree[h]
         /\ ts' >= ts /\ blind' >= blind
<1> USE DEF TypeOK, Marks
<1>1. \A h \in Hash : lastHeld'[h] >= lastHeld[h] /\ lastFree'[h] >= lastFree[h]
  <2>1. CASE Tick
    BY <2>1 DEF Tick
  <2>2. ASSUME NEW h \in Hash, Resubscribed(h)
        PROVE  \A g \in Hash : lastHeld'[g] >= lastHeld[g] /\ lastFree'[g] >= lastFree[g]
    BY <2>2 DEF Resubscribed
  <2>3. CASE UNCHANGED redis
    BY <2>3
  <2> QED BY <2>1, <2>2, <2>3
          DEF Next, IsActive, Refresh, Call, Check, Acquire, Recheck, ReadDoctypes,
              ReadDocuments, ReadFails, StoreDoctypes, StoreDocuments,
              StoreTimestamp, LoadDoctypes, LoadDocuments, vars
<1>2. ts' >= ts /\ blind' >= blind
  <2>1. ASSUME NEW t \in Thread, ReadFails(t) \/ StoreTimestamp(t)
        PROVE  ts' >= ts /\ blind' >= blind
    BY <2>1 DEF ReadFails, StoreTimestamp, Locking, Refreshing
  <2>2. CASE UNCHANGED <<ts, blind>>
    BY <2>2
  <2> QED BY <2>1, <2>2
          DEF Next, IsActive, Refresh, Call, Check, Acquire, Recheck, ReadDoctypes,
              ReadDocuments, StoreDoctypes, StoreDocuments, LoadDoctypes,
              LoadDocuments, vars, Tick, Resubscribed
<1>3. \A h \in Hash : /\ lastHeld[h] \in Int /\ lastHeld'[h] \in Int
                      /\ lastFree[h] \in Int /\ lastFree'[h] \in Int
  BY TypeStep
<1>4. \A h \in Hash, v \in BOOLEAN, x \in Int : Recent(h, v, x) => Recent(h, v, x)'
  <2> HIDE DEF TypeOK, Marks
  <2> QED BY <1>1, <1>3 DEF Recent
<1> QED BY <1>1, <1>2, <1>4

LEMMA ReadsStep ==
  TypeOK /\ Locking /\ Marks /\ RecentReads /\ [Next]_vars => RecentReads'
<1> SUFFICES ASSUME TypeOK, Locking, Marks, RecentReads, [Next]_vars
             PROVE  RecentReads'
  OBVIOUS
<1>1. /\ \A h \in Hash, v \in BOOLEAN, x \in Int : Recent(h, v, x) => Recent(h, v, x)'
      /\ "doctype" \in Hash /\ "document" \in Hash
  BY RecentGrows DEF Hash
<1>2. \A t \in Thread : /\ seen[t]["doctype"] \in BOOLEAN
                        /\ seen[t]["document"] \in BOOLEAN
                        /\ now[t] \in Int
  BY DEF TypeOK, Hash
<1>3. ASSUME UNCHANGED <<pc, seen, now, maps>> PROVE RecentReads'
  <2>1. ASSUME NEW h \in Hash, NEW t \in Thread, Recent(h, seen[t][h], now[t])
        PROVE  Recent(h, seen[t][h], now[t])'
    <3>1. seen[t][h] \in BOOLEAN /\ now[t] \in Int
      BY DEF TypeOK
    <3>2. Recent(h, seen[t][h], now[t]) => (Recent(h, seen[t][h], now[t]))'
      BY <1>1, <1>3, <3>1 DEF Recent
    <3> QED BY <2>1, <3>2
  <2>2. ASSUME NEW t \in Thread
        PROVE  /\ pc'[t] \in {"hgetall_doc", "store_dt", "store_doc", "store_ts"} =>
                    Recent("doctype", seen[t]["doctype"], now[t])'
               /\ pc'[t] \in {"store_dt", "store_doc", "store_ts"} =>
                    Recent("document", seen[t]["document"], now[t])'
    BY <1>1, <1>3, <2>1 DEF RecentReads
  <2> QED BY <1>3, <2>2 DEF RecentReads
<1>4. ASSUME NEW t \in Thread, IsActive(t) PROVE RecentReads'
  <2> SUFFICES ASSUME NEW r \in Thread
               PROVE  /\ pc'[r] \in {"hgetall_doc", "store_dt", "store_doc", "store_ts"} =>
                           Recent("doctype", seen[r]["doctype"], now[r])'
                      /\ pc'[r] \in {"store_dt", "store_doc", "store_ts"} =>
                           Recent("document", seen[r]["document"], now[r])'
                      /\ pc'[r] \in {"store_doc", "store_ts"} =>
                           maps'["doctype"] = seen'[r]["doctype"]
                      /\ pc'[r] = "store_ts" => maps'["document"] = seen'[r]["document"]
    BY DEF RecentReads
  <2>1. /\ pc[r] \in {"hgetall_doc", "store_dt", "store_doc", "store_ts"} =>
             Recent("doctype", seen[r]["doctype"], now[r])
        /\ pc[r] \in {"store_dt", "store_doc", "store_ts"} =>
             Recent("document", seen[r]["document"], now[r])
        /\ pc[r] \in {"store_doc", "store_ts"} => maps["doctype"] = seen[r]["doctype"]
        /\ pc[r] = "store_ts" => maps["document"] = seen[r]["document"]
    BY DEF RecentReads
  <2>2. UNCHANGED redis
    BY <1>4 DEF IsActive, Refresh, Call, Check, Acquire, Recheck, ReadDoctypes,
                ReadDocuments, ReadFails, StoreDoctypes, StoreDocuments,
                StoreTimestamp, LoadDoctypes, LoadDocuments
  <2>3. CASE r # t
    <3>1. pc'[r] = pc[r] /\ seen'[r] = seen[r] /\ now'[r] = now[r]
      BY <1>4, <2>3 DEF IsActive, Refresh, Call, Check, Acquire, Recheck,
                ReadDoctypes, ReadDocuments, ReadFails, StoreDoctypes,
                StoreDocuments, StoreTimestamp, LoadDoctypes, LoadDocuments, TypeOK
    <3>2. pc[r] \in {"store_doc", "store_ts"} => maps' = maps
      <4>1. pc[r] \in {"store_doc", "store_ts"} => pc[t] \notin {"store_dt", "store_doc"}
        BY <2>3 DEF Locking, Refreshing
      <4> QED BY <1>4, <4>1 DEF IsActive, Refresh, Call, Check, Acquire, Recheck,
                ReadDoctypes, ReadDocuments, ReadFails, StoreDoctypes,
                StoreDocuments, StoreTimestamp, LoadDoctypes, LoadDocuments
    <3> QED BY <2>1, <2>2, <3>1, <3>2 DEF Recent
  <2>4. CASE r = t
    <3>1. CASE ReadDoctypes(t)
      <4>1. /\ pc'[t] = "hgetall_doc" /\ now'[t] = now[t]
            /\ seen'[t]["doctype"] = held["doctype"]
        BY <3>1 DEF ReadDoctypes, TypeOK, Hash
      <4>2. now[t] <= clock
        BY DEF Locking
      <4> QED BY <1>1, <2>2, <2>4, <4>1, <4>2 DEF Recent, Marks
    <3>2. CASE ReadDocuments(t)
      <4>1. /\ pc[t] = "hgetall_doc" /\ pc'[t] = "store_dt" /\ now'[t] = now[t]
            /\ seen'[t]["document"] = held["document"]
            /\ seen'[t]["doctype"] = seen[t]["doctype"]
        BY <3>2 DEF ReadDocuments, TypeOK, Hash
      <4>2. now[t] <= clock
        BY DEF Locking
      <4> QED BY <1>1, <2>1, <2>2, <2>4, <4>1, <4>2 DEF Recent, Marks
    <3>3. CASE StoreDoctypes(t)
      <4>1. /\ pc[t] = "store_dt" /\ pc'[t] = "store_doc" /\ now' = now
            /\ seen' = seen /\ maps'["doctype"] = seen[t]["doctype"]
        BY <3>3 DEF StoreDoctypes, TypeOK, Hash
      <4> QED BY <2>1, <2>2, <2>4, <4>1 DEF Recent
    <3>4. CASE StoreDocuments(t)
      <4>1. /\ pc[t] = "store_doc" /\ pc'[t] = "store_ts" /\ now' = now
            /\ seen' = seen /\ maps'["document"] = seen[t]["document"]
            /\ maps'["doctype"] = maps["doctype"]
        BY <3>4 DEF StoreDocuments, TypeOK, Hash
      <4> QED BY <2>1, <2>2, <2>4, <4>1 DEF Recent
    <3>5. CASE Call(t) \/ Check(t) \/ Acquire(t) \/ Recheck(t) \/ ReadFails(t)
                 \/ StoreTimestamp(t) \/ LoadDoctypes(t) \/ LoadDocuments(t)
      <4>1. pc'[t] \notin {"hgetall_doc", "store_dt", "store_doc", "store_ts"}
        BY <3>5 DEF Call, Check, Acquire, Recheck, ReadFails, StoreTimestamp,
                    LoadDoctypes, LoadDocuments, TypeOK
      <4> QED BY <2>4, <4>1
    <3> QED BY <1>4, <3>1, <3>2, <3>3, <3>4, <3>5 DEF IsActive, Refresh
  <2> QED BY <2>3, <2>4
<1> QED BY <1>3, <1>4 DEF Next, Tick, Resubscribed, vars

LEMMA MapsStep ==
  TypeOK /\ Locking /\ Marks /\ RecentReads /\ RecentMaps /\ [Next]_vars => RecentMaps'
<1> SUFFICES ASSUME TypeOK, Locking, Marks, RecentReads, RecentMaps, [Next]_vars,
                    ts' # blind', NEW h \in Hash
             PROVE  Recent(h, maps[h], ts)'
  BY DEF RecentMaps
<1>1. /\ \A g \in Hash, v \in BOOLEAN, x \in Int : Recent(g, v, x) => Recent(g, v, x)'
      /\ maps[h] \in BOOLEAN /\ ts \in Int
  BY RecentGrows DEF TypeOK
<1>2. CASE UNCHANGED <<maps, ts, blind>>
  <2>1. Recent(h, maps[h], ts)
    BY <1>2 DEF RecentMaps
  <2> QED BY <1>1, <1>2, <2>1 DEF Recent
<1>3. ASSUME NEW t \in Thread, StoreDoctypes(t) \/ StoreDocuments(t)
      PROVE  Recent(h, maps[h], ts)'
  <2>1. ts' = ts /\ blind' = blind /\ UNCHANGED redis /\ now[t] >= ts
    BY <1>3 DEF StoreDoctypes, StoreDocuments, Locking, Refreshing, TypeOK
  <2>2. Recent(h, maps[h], ts)
    BY <2>1 DEF RecentMaps
  <2>3. CASE maps'[h] = maps[h]
    BY <2>1, <2>2, <2>3 DEF Recent
  <2>4. CASE maps'[h] # maps[h]
    <3>1. maps'[h] = seen[t][h] /\ Recent(h, seen[t][h], now[t])
      BY <1>3, <2>4 DEF StoreDoctypes, StoreDocuments, RecentReads, TypeOK, Hash
    <3> QED BY <2>1, <3>1 DEF Recent, TypeOK
  <2> QED BY <2>3, <2>4
<1>4. ASSUME NEW t \in Thread, StoreTimestamp(t) PROVE Recent(h, maps[h], ts)'
  <2>1. /\ pc[t] = "store_ts" /\ maps' = maps /\ ts' = now[t] /\ UNCHANGED redis
    BY <1>4 DEF StoreTimestamp
  <2>2. maps[h] = seen[t][h] /\ Recent(h, seen[t][h], now[t])
    BY <2>1 DEF RecentReads, Hash
  <2> QED BY <2>1, <2>2 DEF Recent
<1>5. ASSUME NEW t \in Thread, ReadFails(t) PROVE ts' = blind'
  BY <1>5 DEF ReadFails
<1> QED BY <1>2, <1>3, <1>4, <1>5
        DEF Next, IsActive, Refresh, Call, Check, Acquire, Recheck, ReadDoctypes,
            ReadDocuments, LoadDoctypes, LoadDocuments, Tick, Resubscribed, vars

\* What a thread finds in the maps when they are fresh for it.
LEMMA FreshMaps ==
  ASSUME TypeOK, Locking, RecentMaps, NEW t \in Thread, Fresh(t), NEW h \in Hash
  PROVE  Blind(t) \/ Recent(h, maps[h], now[t] - TTL + 1)
<1>1. ts > now[t] - TTL
  BY DEF TypeOK, Fresh
<1>2. CASE ts = blind
  BY <1>1, <1>2 DEF Blind
<1>3. CASE ts # blind
  <2>1. Recent(h, maps[h], ts)
    BY <1>3 DEF RecentMaps
  <2> QED BY <1>1, <2>1 DEF Recent, TypeOK
<1> QED BY <1>2, <1>3

\* Everything the answers rest on.
Freshness == TypeOK /\ Locking /\ Marks /\ RecentReads /\ RecentMaps

LEMMA LoadsStep == Freshness /\ RecentLoads /\ [Next]_vars => RecentLoads'
<1> SUFFICES ASSUME Freshness, RecentLoads, [Next]_vars, NEW r \in Thread
             PROVE  /\ pc'[r] \in {"load_dt", "load_doc"} => Fresh(r)'
                    /\ pc'[r] = "load_doc" =>
                         \/ Blind(r)'
                         \/ Recent("doctype", seen[r]["doctype"], now[r] - TTL + 1)'
  BY DEF RecentLoads
<1>1. TypeOK /\ Locking /\ Marks /\ RecentReads /\ RecentMaps
  BY DEF Freshness
<1>2. /\ pc[r] \in {"load_dt", "load_doc"} => Fresh(r)
      /\ pc[r] = "load_doc" =>
           Blind(r) \/ Recent("doctype", seen[r]["doctype"], now[r] - TTL + 1)
  BY DEF RecentLoads
<1>3. /\ \A v \in BOOLEAN, x \in Int : Recent("doctype", v, x) => Recent("doctype", v, x)'
      /\ ts' >= ts /\ blind' >= blind
      /\ ts \in Int /\ ts' \in Int /\ blind \in Int /\ blind' \in Int
      /\ now[r] \in Int /\ seen[r]["doctype"] \in BOOLEAN
  <2>1. TypeOK'
    BY <1>1, TypeStep
  <2> QED BY <1>1, <2>1, RecentGrows DEF TypeOK, Hash
<1>4. CASE pc'[r] = pc[r] /\ seen'[r] = seen[r] /\ now'[r] = now[r]
  <2>1. Fresh(r) => Fresh(r)'
    BY <1>3, <1>4 DEF Fresh
  <2>2. Blind(r) => Blind(r)'
    BY <1>3, <1>4 DEF Blind
  <2>3. Recent("doctype", seen[r]["doctype"], now[r] - TTL + 1) =>
          Recent("doctype", seen[r]["doctype"], now[r] - TTL + 1)'
    BY <1>3, <1>4 DEF Recent
  <2> QED BY <1>2, <1>4, <2>1, <2>2, <2>3
<1>5. CASE Check(r) \/ Recheck(r)
  <2>1. pc'[r] \in {"load_dt", "load_doc"} => Fresh(r)' /\ pc'[r] = "load_dt"
    BY <1>1, <1>5 DEF Check, Recheck, Fresh, TypeOK
  <2> QED BY <2>1
<1>6. CASE ReadFails(r) \/ StoreTimestamp(r)
  <2>1. pc'[r] = "load_dt" /\ ts' = now'[r]
    BY <1>1, <1>6 DEF ReadFails, StoreTimestamp, TypeOK
  <2>2. Fresh(r)'
    BY <1>3, <2>1 DEF Fresh
  <2> QED BY <2>1, <2>2
<1>7. CASE LoadDoctypes(r)
  <2>1. /\ pc[r] = "load_dt" /\ seen'[r]["doctype"] = maps["doctype"]
        /\ UNCHANGED <<redis, ts, blind, now>>
    BY <1>1, <1>7 DEF LoadDoctypes, TypeOK, Hash
  <2>2. Blind(r) \/ Recent("doctype", maps["doctype"], now[r] - TTL + 1)
    BY <1>1, <1>2, <2>1, FreshMaps DEF Hash
  <2> QED BY <1>2, <2>1, <2>2 DEF Fresh, Blind, Recent
<1>8. CASE Call(r) \/ Acquire(r) \/ ReadDoctypes(r) \/ ReadDocuments(r)
             \/ StoreDoctypes(r) \/ StoreDocuments(r) \/ LoadDocuments(r)
  BY <1>1, <1>8 DEF Call, Acquire, ReadDoctypes, ReadDocuments, StoreDoctypes,
                    StoreDocuments, LoadDocuments, TypeOK
<1>9. ASSUME NEW t \in Thread, IsActive(t), t # r
      PROVE  pc'[r] = pc[r] /\ seen'[r] = seen[r] /\ now'[r] = now[r]
  BY <1>1, <1>9 DEF IsActive, Refresh, Call, Check, Acquire, Recheck,
            ReadDoctypes, ReadDocuments, ReadFails, StoreDoctypes, StoreDocuments,
            StoreTimestamp, LoadDoctypes, LoadDocuments, TypeOK
<1> QED BY <1>4, <1>5, <1>6, <1>7, <1>8, <1>9
        DEF Next, IsActive, Refresh, Tick, Resubscribed, vars

LEMMA AnswersStep ==
  Freshness /\ RecentLoads /\ RecentAnswers /\ [Next]_vars => RecentAnswers'
<1> SUFFICES ASSUME Freshness, RecentLoads, RecentAnswers, [Next]_vars,
                    NEW r \in Thread, pc'[r] = "answered"
             PROVE  \/ Blind(r)'
                    \/ IF answer'[r]
                         THEN \E h \in Hash : lastHeld'[h] > now'[r] - TTL
                         ELSE \A h \in Hash : lastFree'[h] > now'[r] - TTL
  BY DEF RecentAnswers
<1>1. TypeOK /\ Locking /\ Marks /\ RecentReads /\ RecentMaps
  BY DEF Freshness
<1>2. /\ \A h \in Hash : lastHeld'[h] >= lastHeld[h] /\ lastFree'[h] >= lastFree[h]
      /\ blind' >= blind
      /\ blind \in Int /\ blind' \in Int /\ now[r] \in Int
      /\ \A h \in Hash : /\ lastHeld[h] \in Int /\ lastHeld'[h] \in Int
                          /\ lastFree[h] \in Int /\ lastFree'[h] \in Int
  <2>1. TypeOK'
    BY <1>1, TypeStep
  <2> QED BY <1>1, <2>1, RecentGrows DEF TypeOK
<1>3. CASE LoadDocuments(r)
  <2>1. /\ pc[r] = "load_doc" /\ UNCHANGED <<redis, ts, blind, now>>
        /\ answer'[r] = (seen[r]["doctype"] \/ maps["document"])
    BY <1>1, <1>3 DEF LoadDocuments, TypeOK
  <2>2. Blind(r) \/ Recent("doctype", seen[r]["doctype"], now[r] - TTL + 1)
    BY <2>1 DEF RecentLoads
  <2>3. Fresh(r)
    BY <2>1 DEF RecentLoads
  <2>4. Blind(r) \/ Recent("document", maps["document"], now[r] - TTL + 1)
    BY <1>1, <2>3, FreshMaps DEF Hash
  <2>5. CASE Blind(r)
    BY <2>1, <2>5 DEF Blind
  <2>6. CASE ~ Blind(r)
    <3>1. IF answer'[r] THEN \E h \in Hash : lastHeld[h] >= now[r] - TTL + 1
                        ELSE \A h \in Hash : lastFree[h] >= now[r] - TTL + 1
      <4>1. CASE seen[r]["doctype"]
        BY <2>1, <2>2, <2>6, <4>1 DEF Recent, Hash
      <4>2. CASE ~ seen[r]["doctype"]
        <5>1. lastFree["doctype"] >= now[r] - TTL + 1
          BY <2>2, <2>6, <4>2 DEF Recent
        <5>2. CASE maps["document"]
          BY <2>1, <2>4, <2>6, <5>2 DEF Recent, Hash
        <5>3. CASE ~ maps["document"]
          <6>1. lastFree["document"] >= now[r] - TTL + 1
            BY <2>4, <2>6, <5>3 DEF Recent
          <6> QED BY <2>1, <4>2, <5>1, <5>3, <6>1 DEF Hash
        <5> QED BY <5>2, <5>3
      <4> QED BY <4>1, <4>2
    <3>2. \A h \in Hash : /\ lastHeld[h] >= now[r] - TTL + 1 => lastHeld[h] > now[r] - TTL
                          /\ lastFree[h] >= now[r] - TTL + 1 => lastFree[h] > now[r] - TTL
      BY <1>2
    <3>3. /\ lastHeld' = lastHeld /\ lastFree' = lastFree /\ now' = now
      BY <2>1
    <3> QED BY <3>1, <3>2, <3>3
  <2> QED BY <2>5, <2>6
<1>4. CASE pc'[r] = pc[r] /\ answer'[r] = answer[r] /\ now'[r] = now[r]
  <2>1. \/ Blind(r)
        \/ IF answer[r] THEN \E h \in Hash : lastHeld[h] > now[r] - TTL
                        ELSE \A h \in Hash : lastFree[h] > now[r] - TTL
    BY <1>4 DEF RecentAnswers
  <2>2. Blind(r) => Blind(r)'
    BY <1>2, <1>4 DEF Blind
  <2>3. \A h \in Hash : /\ lastHeld[h] > now[r] - TTL => lastHeld'[h] > now'[r] - TTL
                        /\ lastFree[h] > now[r] - TTL => lastFree'[h] > now'[r] - TTL
    BY <1>2, <1>4
  <2> QED BY <1>4, <2>1, <2>2, <2>3
<1>5. CASE Call(r) \/ Check(r) \/ Acquire(r) \/ Recheck(r) \/ Refresh(r)
             \/ LoadDoctypes(r)
  BY <1>1, <1>5 DEF Refresh, Call, Check, Acquire, Recheck, ReadDoctypes,
            ReadDocuments, ReadFails, StoreDoctypes, StoreDocuments,
            StoreTimestamp, LoadDoctypes, TypeOK
<1>6. ASSUME NEW t \in Thread, IsActive(t), t # r
      PROVE  pc'[r] = pc[r] /\ answer'[r] = answer[r] /\ now'[r] = now[r]
  BY <1>1, <1>6 DEF IsActive, Refresh, Call, Check, Acquire, Recheck,
            ReadDoctypes, ReadDocuments, ReadFails, StoreDoctypes, StoreDocuments,
            StoreTimestamp, LoadDoctypes, LoadDocuments, TypeOK
<1> QED BY <1>3, <1>4, <1>5, <1>6 DEF Next, IsActive, Tick, Resubscribed, vars

LEMMA AlwaysRecent == Spec => []RecentAnswers
<1>1. Init => Marks
  BY DEF Init, Marks
<1>2. Init => RecentReads /\ RecentMaps /\ RecentLoads /\ RecentAnswers
  BY DEF Init, RecentReads, RecentMaps, RecentLoads, RecentAnswers
<1>3. Freshness /\ [Next]_vars => Marks' /\ RecentReads' /\ RecentMaps'
  BY MarksStep, ReadsStep, MapsStep DEF Freshness
<1>4. TypeOK /\ Locking /\ Marks /\ RecentReads /\ RecentMaps => Freshness
  BY DEF Freshness
<1> QED BY <1>1, <1>2, <1>3, <1>4, AlwaysLocking, LoadsStep, AnswersStep, PTL DEF Spec

\* is_active misses no subscription that has lasted since now - TTL, unless
\* a refresh failed since then, however its threads interleave.
THEOREM NothingLastingIsMissed == Spec => []LastingSubscriptionIsSeen
<1>1. RecentAnswers => LastingSubscriptionIsSeen
  BY DEF RecentAnswers, LastingSubscriptionIsSeen
<1> QED BY <1>1, AlwaysRecent, PTL

\* is_active does not open for subscriptions that ended before now - TTL,
\* unless a refresh failed since then.
THEOREM GoneIsForgotten == Spec => []GoneSubscriptionIsForgotten
<1>1. RecentAnswers => GoneSubscriptionIsForgotten
  BY DEF RecentAnswers, GoneSubscriptionIsForgotten
<1> QED BY <1>1, AlwaysRecent, PTL

=============================================================================
