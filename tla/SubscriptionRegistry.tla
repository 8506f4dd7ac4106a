------------------------ MODULE SubscriptionRegistry ------------------------
(***************************************************************************)
(* Who listens to what: the subscriptions that the Socket.IO server        *)
(* processes keep per sid (rooms of the manager, "subs" and "filters" of   *)
(* the session) and the reference counts they keep for them in two Redis   *)
(* hashes, which the Frappe processes read to decide whether a document    *)
(* event is worth publishing (runtime/sub_registry.py and the session      *)
(* bookkeeping of fraxis_socket_io/base.py).                               *)
(*                                                                         *)
(* A server process runs one event loop.  A handler runs on it without     *)
(* interruption until it awaits the executor; its Redis commands are       *)
(* synchronous, so they block that loop but interleave freely with those   *)
(* of the other server processes.  The commands a handler has still to     *)
(* send are release, hdel and acquire of its sid, in that order.           *)
(***************************************************************************)
EXTENDS Integers, FiniteSets

CONSTANTS
  Server,      \* the Socket.IO server processes
  Sid,         \* connections, each within one namespace
  Home,        \* Home[c]: the server process that issued sid c
  Target,      \* what can be subscribed to: a doctype or one document;
               \* stands for the room, and for the field of H_DT or H_DOC
  Clauses,     \* normalised filters a subscription may carry
  NoTarget,    \* "no Redis command of this kind is left to send"
  MaxPending,  \* bound: subscribe requests of one sid awaiting permission
  MaxFaults    \* bound: failed Redis commands plus server crashes

Unfiltered == "no filter"
Untracked  == "not in subs"

ASSUME SidAssumption    == IsFiniteSet(Sid) /\ Home \in [Sid -> Server]
ASSUME TargetAssumption == NoTarget \notin Target
ASSUME FilterAssumption == Untracked \notin Clauses \cup {Unfiltered}
ASSUME BoundAssumption  == MaxPending \in Nat /\ MaxFaults \in Nat

VARIABLES
  phase,    \* phase[c]: "off", "admitted" (auth running) or "ready"
  session,  \* session[c][t]: filter kept for a tracked t, else Untracked
  room,     \* room[c]: the rooms the manager has put c in
  pending,  \* pending[c]: subscribe requests awaiting assert_read_permission
  release,  \* release[c]: fields whose sub_del is still to be sent
  hdel,     \* hdel[c]: field whose HDEL is still to be sent
  acquire,  \* acquire[c]: field whose sub_add is still to be sent
  count,    \* count[t]: value of the Redis field (0 when it is absent)
  field,    \* the fields present in the two hashes
  lost,     \* history: counts nobody will give back (failures and crashes)
  missed,   \* history: counts that sub_add failed to take
  faults    \* history: number of failures and crashes so far

local == <<phase, session, room, pending>>
todo  == <<release, hdel, acquire>>
redis == <<count, field>>
ghost == <<lost, missed, faults>>
vars  == <<phase, session, room, pending, release, hdel, acquire,
           count, field, lost, missed, faults>>

Filters  == Clauses \cup {Unfiltered}
Requests == [target : Target, filter : Filters]

NoSubs == [t \in Target |-> Untracked]

\* session["subs"] of c has an entry for the room of t.
Tracks(c, t) == session[c][t] # Untracked

\* The handler of c has Redis commands left to send.
Working(c) == release[c] # {} \/ hdel[c] # NoTarget \/ acquire[c] # NoTarget

\* The event loop that serves c can start or resume a handler.
LoopFree(c) == \A d \in Sid : Home[d] = Home[c] => ~Working(d)

-----------------------------------------------------------------------------
(* What the counts should add up to.                                       *)

\* Sids whose subscription to t has been counted, or should have been.
Holders(t) == {c \in Sid : Tracks(c, t) /\ acquire[c] # t}

\* Sids whose count for t is on its way back.
Releasing(t) == {c \in Sid : t \in release[c]}

Owed(t) == Cardinality(Holders(t)) + Cardinality(Releasing(t))

\* No handler is in the middle of changing the count of t.
Settled(t) ==
  \A c \in Sid : t \notin release[c] /\ hdel[c] # t /\ acquire[c] # t

-----------------------------------------------------------------------------
Init ==
  /\ phase   = [c \in Sid |-> "off"]
  /\ session = [c \in Sid |-> NoSubs]
  /\ room    = [c \in Sid |-> {}]
  /\ pending = [c \in Sid |-> {}]
  /\ release = [c \in Sid |-> {}]
  /\ hdel    = [c \in Sid |-> NoTarget]
  /\ acquire = [c \in Sid |-> NoTarget]
  /\ count   = [t \in Target |-> 0]
  /\ field   = {}
  /\ lost    = [t \in Target |-> 0]
  /\ missed  = [t \in Target |-> 0]
  /\ faults  = 0

-----------------------------------------------------------------------------
(* Connection lifecycle: on_connect and on_disconnect.                     *)

\* on_connect up to its await of the token resolution.  A slot of Sid stands
\* for a fresh sid once nothing of the previous connection is running.
Connect(c) ==
  /\ phase[c] = "off" /\ LoopFree(c) /\ pending[c] = {}
  /\ phase' = [phase EXCEPT ![c] = "admitted"]
  /\ UNCHANGED <<session, room, pending, todo, redis, ghost>>

\* save_session(sid, {"user": user}) replaces the whole session.
Authenticated(c) ==
  /\ phase[c] = "admitted" /\ LoopFree(c)
  /\ phase'   = [phase EXCEPT ![c] = "ready"]
  /\ session' = [session EXCEPT ![c] = NoSubs]
  /\ UNCHANGED <<room, pending, todo, redis, ghost>>

\* ConnectionRefusedError: the manager forgets the sid, on_disconnect does
\* not run.
AuthenticationFailed(c) ==
  /\ phase[c] = "admitted" /\ LoopFree(c)
  /\ phase'   = [phase EXCEPT ![c] = "off"]
  /\ session' = [session EXCEPT ![c] = NoSubs]
  /\ room'    = [room EXCEPT ![c] = {}]
  /\ UNCHANGED <<pending, todo, redis, ghost>>

\* Mutant of Disconnect: the session is dropped without releasing its counts.
DisconnectWithoutRelease(c) ==
  /\ phase[c] # "off" /\ LoopFree(c)
  /\ phase'   = [phase EXCEPT ![c] = "off"]
  /\ session' = [session EXCEPT ![c] = NoSubs]
  /\ room'    = [room EXCEPT ![c] = {}]
  /\ UNCHANGED <<pending, todo, redis, ghost>>

\* on_disconnect gives back every count in session["subs"]; the manager then
\* drops the sid with its session and rooms.  Requests awaiting permission
\* are left running.
Disconnect(c) ==
  /\ phase[c] # "off" /\ LoopFree(c)
  /\ phase'   = [phase EXCEPT ![c] = "off"]
  /\ release' = [release EXCEPT ![c] = {t \in Target : Tracks(c, t)}]
  /\ session' = [session EXCEPT ![c] = NoSubs]
  /\ room'    = [room EXCEPT ![c] = {}]
  /\ UNCHANGED <<pending, hdel, acquire, redis, ghost>>

-----------------------------------------------------------------------------
(* Subscribe and unsubscribe handlers of the document and doctype          *)
(* namespaces.                                                             *)

\* Mutant of MayHandle: require_user is forgotten.
MayHandleUnauthenticated(c) == phase[c] # "off" /\ LoopFree(c)

\* The caller is authenticated (require_user) and the loop is free to run it.
MayHandle(c) == phase[c] = "ready" /\ LoopFree(c)

\* Up to the await of assert_read_permission in the executor.
SubscribeRequest(c, t, f) ==
  /\ MayHandle(c)
  /\ Cardinality(pending[c]) < MaxPending
  /\ pending' = [pending EXCEPT ![c] = @ \cup {[target |-> t, filter |-> f]}]
  /\ UNCHANGED <<phase, session, room, todo, redis, ghost>>

\* Mutant of Track: a re-subscription does not release the earlier count.
TrackWithoutRelease(c, t, f) ==
  /\ session' = [session EXCEPT ![c][t] = f]
  /\ release' = [release EXCEPT ![c] = {}]
  /\ acquire' = [acquire EXCEPT ![c] = t]

\* _track_subscription: the count of an earlier subscription of the same room
\* is given back first, then a new one is taken.
Track(c, t, f) ==
  /\ session' = [session EXCEPT ![c][t] = f]
  /\ release' = [release EXCEPT ![c] = IF Tracks(c, t) THEN {t} ELSE {}]
  /\ acquire' = [acquire EXCEPT ![c] = t]

\* Mutant of SubscribeGranted: nothing notices that the sid has gone.
SubscribeGrantedToAnyone(c, r) ==
  /\ r \in pending[c] /\ LoopFree(c)
  /\ pending' = [pending EXCEPT ![c] = @ \ {r}]
  /\ room'    = [room EXCEPT ![c] = @ \cup {r.target}]
  /\ Track(c, r.target, r.filter)
  /\ UNCHANGED <<phase, hdel, redis, ghost>>

\* Permission granted: enter_room, then _track_subscription.  Both raise for
\* a sid that went away during the await.
SubscribeGranted(c, r) ==
  /\ r \in pending[c] /\ phase[c] # "off" /\ LoopFree(c)
  /\ pending' = [pending EXCEPT ![c] = @ \ {r}]
  /\ room'    = [room EXCEPT ![c] = @ \cup {r.target}]
  /\ Track(c, r.target, r.filter)
  /\ UNCHANGED <<phase, hdel, redis, ghost>>

\* Permission refused, or the sid is gone: _fail changes nothing.
SubscribeFailed(c, r) ==
  /\ r \in pending[c] /\ LoopFree(c)
  /\ pending' = [pending EXCEPT ![c] = @ \ {r}]
  /\ UNCHANGED <<phase, session, room, todo, redis, ghost>>

\* Mutant of Unsubscribe: a count is released for a room never subscribed.
UnsubscribeUntracked(c, t) ==
  /\ MayHandle(c)
  /\ room'    = [room EXCEPT ![c] = @ \ {t}]
  /\ session' = [session EXCEPT ![c][t] = Untracked]
  /\ release' = [release EXCEPT ![c] = {t}]
  /\ UNCHANGED <<phase, pending, hdel, acquire, redis, ghost>>

\* leave_room, then _untrack_subscription.
Unsubscribe(c, t) ==
  /\ MayHandle(c)
  /\ room'    = [room EXCEPT ![c] = @ \ {t}]
  /\ session' = [session EXCEPT ![c][t] = Untracked]
  /\ release' = [release EXCEPT ![c] = IF Tracks(c, t) THEN {t} ELSE {}]
  /\ UNCHANGED <<phase, pending, hdel, acquire, redis, ghost>>

-----------------------------------------------------------------------------
(* The Redis commands of sub_add and sub_del.                              *)

\* HINCRBY creates an absent field.
HIncrBy(t, n) ==
  /\ count' = [count EXCEPT ![t] = @ + n]
  /\ field' = field \cup {t}

RemoveField(t) ==
  /\ count' = [count EXCEPT ![t] = 0]
  /\ field' = field \ {t}

\* Mutant of SubDel: a field that reaches zero is kept.
SubDelKeepsZero(c, t) ==
  /\ t \in release[c] /\ hdel[c] = NoTarget
  /\ HIncrBy(t, -1)
  /\ release' = [release EXCEPT ![c] = @ \ {t}]
  /\ hdel'    = [hdel EXCEPT ![c] = IF count[t] - 1 < 0 THEN t ELSE NoTarget]
  /\ UNCHANGED <<local, acquire, ghost>>

\* sub_del, first command: HINCRBY -1, and what to do next from its reply.
SubDel(c, t) ==
  /\ t \in release[c] /\ hdel[c] = NoTarget
  /\ HIncrBy(t, -1)
  /\ release' = [release EXCEPT ![c] = @ \ {t}]
  /\ hdel'    = [hdel EXCEPT ![c] = IF count[t] - 1 <= 0 THEN t ELSE NoTarget]
  /\ UNCHANGED <<local, acquire, ghost>>

\* sub_del, second command.
HDel(c) ==
  /\ hdel[c] # NoTarget
  /\ RemoveField(hdel[c])
  /\ hdel' = [hdel EXCEPT ![c] = NoTarget]
  /\ UNCHANGED <<local, release, acquire, ghost>>

\* sub_add, once the previous count has been dealt with.
SubAdd(c) ==
  /\ acquire[c] # NoTarget /\ release[c] = {} /\ hdel[c] = NoTarget
  /\ HIncrBy(acquire[c], 1)
  /\ acquire' = [acquire EXCEPT ![c] = NoTarget]
  /\ UNCHANGED <<local, release, hdel, ghost>>

-----------------------------------------------------------------------------
(* Failures.  Every registry call is wrapped in try/except and carries on; *)
(* the command may or may not have reached Redis before the error.         *)

Fault == faults < MaxFaults /\ faults' = faults + 1

SubDelFails(c, t, applied) ==
  /\ Fault
  /\ t \in release[c] /\ hdel[c] = NoTarget
  /\ release' = [release EXCEPT ![c] = @ \ {t}]
  /\ \/ /\ applied
        /\ HIncrBy(t, -1)
        /\ UNCHANGED lost
     \/ /\ ~applied
        /\ lost' = [lost EXCEPT ![t] = @ + 1]
        /\ UNCHANGED redis
  /\ UNCHANGED <<local, hdel, acquire, missed>>

HDelFails(c, applied) ==
  /\ Fault
  /\ hdel[c] # NoTarget
  /\ IF applied THEN RemoveField(hdel[c]) ELSE UNCHANGED redis
  /\ hdel' = [hdel EXCEPT ![c] = NoTarget]
  /\ UNCHANGED <<local, release, acquire, lost, missed>>

SubAddFails(c, applied) ==
  /\ Fault
  /\ acquire[c] # NoTarget /\ release[c] = {} /\ hdel[c] = NoTarget
  /\ acquire' = [acquire EXCEPT ![c] = NoTarget]
  /\ \/ /\ applied
        /\ HIncrBy(acquire[c], 1)
        /\ UNCHANGED missed
     \/ /\ ~applied
        /\ missed' = [missed EXCEPT ![acquire[c]] = @ + 1]
        /\ UNCHANGED redis
  /\ UNCHANGED <<local, release, hdel, lost>>

\* A server process dies: its sessions, rooms and running handlers are gone,
\* the counts it took stay in Redis and nothing cleans them up at startup.
Crash(s) ==
  LET dead == {c \in Sid : Home[c] = s}
      Clear(f, v) == [c \in Sid |-> IF c \in dead THEN v ELSE f[c]]
  IN  /\ Fault
      /\ phase'   = Clear(phase, "off")
      /\ session' = Clear(session, NoSubs)
      /\ room'    = Clear(room, {})
      /\ pending' = Clear(pending, {})
      /\ release' = Clear(release, {})
      /\ hdel'    = Clear(hdel, NoTarget)
      /\ acquire' = Clear(acquire, NoTarget)
      /\ lost'    = [t \in Target |-> lost[t] + (Owed(t) - Owed(t)')]
      /\ UNCHANGED <<redis, missed>>

-----------------------------------------------------------------------------
Lifecycle(c) ==
  Connect(c) \/ Authenticated(c) \/ AuthenticationFailed(c) \/ Disconnect(c)

Requesting(c) ==
  \/ \E t \in Target, f \in Filters : SubscribeRequest(c, t, f)
  \/ \E t \in Target : Unsubscribe(c, t)

Answering(c) ==
  \E r \in pending[c] : SubscribeGranted(c, r) \/ SubscribeFailed(c, r)

RedisCommand(c) ==
  (\E t \in Target : SubDel(c, t)) \/ HDel(c) \/ SubAdd(c)

RedisFailure(c) ==
  \E applied \in BOOLEAN :
    \/ \E t \in Target : SubDelFails(c, t, applied)
    \/ HDelFails(c, applied)
    \/ SubAddFails(c, applied)

Next ==
  \/ \E c \in Sid : \/ Lifecycle(c)    \/ Requesting(c) \/ Answering(c)
                    \/ RedisCommand(c) \/ RedisFailure(c)
  \/ \E s \in Server : Crash(s)

Spec == Init /\ [][Next]_vars

\* A running handler keeps sending its commands (the calls are synchronous
\* and bounded by the client's timeouts).
Fairness == \A c \in Sid : WF_vars(RedisCommand(c))

FairSpec == Spec /\ Fairness

-----------------------------------------------------------------------------
(* Properties.                                                             *)

TypeOK ==
  /\ phase   \in [Sid -> {"off", "admitted", "ready"}]
  /\ session \in [Sid -> [Target -> Filters \cup {Untracked}]]
  /\ room    \in [Sid -> SUBSET Target]
  /\ pending \in [Sid -> SUBSET Requests]
  /\ release \in [Sid -> SUBSET Target]
  /\ hdel    \in [Sid -> Target \cup {NoTarget}]
  /\ acquire \in [Sid -> Target \cup {NoTarget}]
  /\ count   \in [Target -> Int]
  /\ field   \in SUBSET Target
  /\ lost    \in [Target -> Nat]
  /\ missed  \in [Target -> Nat]
  /\ faults  \in 0..MaxFaults

\* on_disconnect exists so that no refcount leaks and the gate is not left
\* stuck "active" (base.py:117-122): whatever servers interleave and whatever
\* fails, Redis never counts more subscriptions than live sessions hold,
\* handlers are about to give back, or failures and crashes have orphaned.
NoLeak == \A t \in Target : count[t] <= Owed(t) + lost[t]

\* With one server process, a count is short only by what sub_add failed to
\* take: re-subscriptions, unsubscriptions and disconnects of the sids of one
\* loop never steal a count from one another (sub_registry.py:19-21).
NoStolenCount == \A t \in Target : count[t] >= Owed(t) - missed[t]

\* sub_del leaves no field negative or as a zombie (sub_registry.py:20-21):
\* without failures, a field at or below zero is about to be removed by the
\* handler that brought it there, even when servers race on it.
NoZombie ==
  faults = 0 =>
    \A t \in field : count[t] <= 0 => \E c \in Sid : hdel[c] = t

\* The audience of a room is counted: once the commands of t are through,
\* without failures and with one server process, a room with a member keeps
\* the gate of its target open and an empty room keeps it closed.
GateMatchesAudience ==
  faults = 0 =>
    \A t \in Target :
      Settled(t) => (count[t] > 0 <=> \E c \in Sid : t \in room[c])

\* A sid that is gone holds nothing: a permission verdict that arrives after
\* the disconnect neither joins a room nor records a subscription.
DisconnectedHoldsNothing ==
  \A c \in Sid : phase[c] = "off" =>
    room[c] = {} /\ session[c] = NoSubs /\ acquire[c] = NoTarget

\* A filter answers for the room it was given with: leaving a room, by any
\* route, drops the filter, and being in a room means being tracked.
RoomsAreTracked ==
  \A c \in Sid, t \in Target : t \in room[c] <=> Tracks(c, t)

\* With one server process and without failures, the count of a target that
\* a session keeps falls to zero only while that very session re-subscribes
\* it: between the sub_del and the sub_add of _track_subscription, the one
\* window in which a publisher's snapshot can miss a long-standing subscriber.
DipsOnlyToResubscribe ==
  [][faults = 0 =>
       \A t \in Target, c \in Sid :
         count[t] > 0 /\ count'[t] <= 0 /\ Tracks(c, t) => acquire[c] = t]_vars

\* Once the last subscriber of a target has left for good, the gate closes,
\* unless a failure or a crash has orphaned a count.
GateEventuallyCloses ==
  \A t \in Target :
    <>[](lost[t] = 0 /\ \A c \in Sid : ~Tracks(c, t)) => <>[](count[t] <= 0)

-----------------------------------------------------------------------------
(* What the module's documentation promises and the code does not keep.    *)

\* "the gate deactivates only when the last subscriber for a target leaves"
\* (sub_registry.py:19-20): between two commands of nobody, and without any
\* failure, a target with a member has a positive count.
LastSubscriberKeepsGate ==
  faults = 0 =>
    \A t \in Target :
      Settled(t) /\ (\E c \in Sid : t \in room[c]) => count[t] > 0
=============================================================================
