--------------------- MODULE SubscriptionRegistryProofs ---------------------
(***************************************************************************)
(* Proofs about SubscriptionRegistry for every set of servers, sids and    *)
(* targets and every bound.                                                *)
(*                                                                         *)
(* The counting argument: an action of sid c changes what Redis is owed    *)
(* for t only through the two terms of c (OwedStep), so each action is     *)
(* arithmetic on four bits of c.                                           *)
(***************************************************************************)
EXTENDS SubscriptionRegistry, FiniteSetTheorems, TLAPS

USE SidAssumption, TargetAssumption, FilterAssumption, BoundAssumption

-----------------------------------------------------------------------------
(* Counting.                                                               *)

\* 1 if c belongs to A.
Bit(c, A) == IF c \in A THEN 1 ELSE 0

\* What c contributes to Owed(t).
Share(c, t) == Bit(c, Holders(t)) + Bit(c, Releasing(t))

\* The subscriptions and pending counts of every other sid stay.
OthersKept(c) ==
  \A d \in Sid \ {c} : /\ session'[d] = session[d]
                       /\ acquire'[d] = acquire[d]
                       /\ release'[d] = release[d]

\* The sids of a set are counted by counting one of them apart.
LEMMA CountApart ==
  ASSUME NEW A \in SUBSET Sid, NEW c \in Sid
  PROVE  /\ Cardinality(A) \in Nat
         /\ Cardinality(A \ {c}) \in Nat
         /\ Cardinality(A) = Cardinality(A \ {c}) + Bit(c, A)
<1>1. IsFiniteSet(A)
  BY FS_Subset
<1>2. IsFiniteSet(A \ {c})
  BY <1>1, FS_RemoveElement
<1>3. Cardinality(A) \in Nat /\ Cardinality(A \ {c}) \in Nat
  BY <1>1, <1>2, FS_CardinalityType
<1>4. Cardinality(A \ {c}) =
        IF c \in A THEN Cardinality(A) - 1 ELSE Cardinality(A)
  BY <1>1, FS_RemoveElement
<1> QED BY <1>3, <1>4 DEF Bit

\* Redis is never owed a negative number of counts.
LEMMA OwedNat ==
  ASSUME NEW t \in Target PROVE Owed(t) \in Nat
<1>1. Holders(t) \in SUBSET Sid /\ Releasing(t) \in SUBSET Sid
  BY DEF Holders, Releasing
<1>2. \A A \in SUBSET Sid : Cardinality(A) \in Nat
  BY FS_Subset, FS_CardinalityType
<1> QED BY <1>1, <1>2 DEF Owed

\* The same in the next state.
LEMMA OwedNatNext ==
  ASSUME NEW t \in Target PROVE Owed(t)' \in Nat
<1>1. Holders(t)' \in SUBSET Sid /\ Releasing(t)' \in SUBSET Sid
  BY DEF Holders, Releasing
<1>2. \A A \in SUBSET Sid : Cardinality(A) \in Nat
  BY FS_Subset, FS_CardinalityType
<1> QED BY <1>1, <1>2 DEF Owed

\* Two pairs of sets that differ in c only.
LEMMA CountDifference ==
  ASSUME NEW H \in SUBSET Sid, NEW R \in SUBSET Sid,
         NEW H2 \in SUBSET Sid, NEW R2 \in SUBSET Sid,
         NEW c \in Sid, H2 \ {c} = H \ {c}, R2 \ {c} = R \ {c}
  PROVE  Cardinality(H2) + Cardinality(R2) =
           (Cardinality(H) + Cardinality(R)) - (Bit(c, H) + Bit(c, R))
             + (Bit(c, H2) + Bit(c, R2))
<1>2. /\ Bit(c, H) \in Nat /\ Bit(c, R) \in Nat
      /\ Bit(c, H2) \in Nat /\ Bit(c, R2) \in Nat
  BY DEF Bit
<1>3. /\ Cardinality(H \ {c}) \in Nat /\ Cardinality(R \ {c}) \in Nat
      /\ Cardinality(H) = Cardinality(H \ {c}) + Bit(c, H)
      /\ Cardinality(R) = Cardinality(R \ {c}) + Bit(c, R)
  BY CountApart
<1>4. /\ Cardinality(H2) = Cardinality(H \ {c}) + Bit(c, H2)
      /\ Cardinality(R2) = Cardinality(R \ {c}) + Bit(c, R2)
  BY CountApart
<1> QED BY <1>2, <1>3, <1>4

\* A step of c changes what is owed by what c contributes.
LEMMA OwedStep ==
  ASSUME NEW c \in Sid, NEW t \in Target, OthersKept(c)
  PROVE  Owed(t)' = Owed(t) - Share(c, t) + Share(c, t)'
<1>1. /\ Holders(t) \in SUBSET Sid /\ Releasing(t) \in SUBSET Sid
      /\ Holders(t)' \in SUBSET Sid /\ Releasing(t)' \in SUBSET Sid
  BY DEF Holders, Releasing
<1>2. /\ Holders(t)' \ {c} = Holders(t) \ {c}
      /\ Releasing(t)' \ {c} = Releasing(t) \ {c}
  BY DEF Holders, Releasing, Tracks, OthersKept
<1>3. Cardinality(Holders(t)') + Cardinality(Releasing(t)') =
        (Cardinality(Holders(t)) + Cardinality(Releasing(t)))
          - (Bit(c, Holders(t)) + Bit(c, Releasing(t)))
          + (Bit(c, Holders(t)') + Bit(c, Releasing(t)'))
  BY <1>1, <1>2, CountDifference
<1>4. Owed(t)' = Cardinality(Holders(t)') + Cardinality(Releasing(t)')
  BY DEF Owed
<1>5. Share(c, t)' = Bit(c, Holders(t)') + Bit(c, Releasing(t)')
  BY DEF Share, Bit
<1>6. Owed(t) = Cardinality(Holders(t)) + Cardinality(Releasing(t))
  BY DEF Owed
<1>7. Share(c, t) = Bit(c, Holders(t)) + Bit(c, Releasing(t))
  BY DEF Share
<1> QED BY <1>3, <1>4, <1>5, <1>6, <1>7

-----------------------------------------------------------------------------
(* The shape of the sessions: what a sid can hold in each of its phases.   *)

\* What a sid holds in each phase, and that a count is only being taken for
\* a subscription the session already records.
PhaseInv ==
  /\ \A c \in Sid : phase[c] # "ready" => session[c] = NoSubs
  /\ \A c \in Sid : phase[c] = "admitted" => pending[c] = {}
  /\ \A c \in Sid : acquire[c] # NoTarget => Tracks(c, acquire[c])

Structure == TypeOK /\ PhaseInv /\ RoomsAreTracked

\* A crash only takes subscriptions and pending counts away.
LEMMA CrashOwes ==
  ASSUME NEW s \in Server, Crash(s), NEW t \in Target
  PROVE  Owed(t)' <= Owed(t)
<1>1. /\ Holders(t) \in SUBSET Sid /\ Releasing(t) \in SUBSET Sid
  BY DEF Holders, Releasing
<1>2. Holders(t)' \in SUBSET Holders(t)
  BY DEF Crash, Holders, Tracks, NoSubs
<1>3. Releasing(t)' \in SUBSET Releasing(t)
  BY DEF Crash, Releasing
<1>4. /\ Cardinality(Holders(t)') <= Cardinality(Holders(t))
      /\ Cardinality(Releasing(t)') <= Cardinality(Releasing(t))
  BY <1>1, <1>2, <1>3, FS_Subset
<1>5. \A A \in SUBSET Sid : Cardinality(A) \in Nat
  BY FS_Subset, FS_CardinalityType
<1>6. Owed(t)' = Cardinality(Holders(t)') + Cardinality(Releasing(t)')
  BY DEF Owed
<1>7. Owed(t) = Cardinality(Holders(t)) + Cardinality(Releasing(t))
  BY DEF Owed
<1>8. /\ Cardinality(Holders(t)') \in Nat /\ Cardinality(Releasing(t)') \in Nat
      /\ Cardinality(Holders(t)) \in Nat /\ Cardinality(Releasing(t)) \in Nat
  BY <1>1, <1>2, <1>3, <1>5
<1> QED BY <1>4, <1>6, <1>7, <1>8

\* Structure holds initially.
LEMMA StructureInit == Init => Structure
BY DEF Init, Structure, TypeOK, PhaseInv, RoomsAreTracked, Tracks, NoSubs

\* Every step keeps the types.
LEMMA TypeStep == TypeOK /\ [Next]_vars => TypeOK'
<1> SUFFICES ASSUME TypeOK, [Next]_vars PROVE TypeOK'
  OBVIOUS
<1> USE DEF TypeOK, Filters, Requests, NoSubs, local, todo, redis, ghost
<1>1. ASSUME NEW c \in Sid, Lifecycle(c) PROVE TypeOK'
  <2>1. CASE Connect(c)
    BY <2>1 DEF Connect
  <2>2. CASE Authenticated(c)
    BY <2>2 DEF Authenticated
  <2>3. CASE AuthenticationFailed(c)
    BY <2>3 DEF AuthenticationFailed
  <2>4. CASE Disconnect(c)
    BY <2>4 DEF Disconnect
  <2> QED BY <1>1, <2>1, <2>2, <2>3, <2>4 DEF Lifecycle
<1>2. ASSUME NEW c \in Sid, Requesting(c) PROVE TypeOK'
  <2>1. ASSUME NEW t \in Target, NEW f \in Filters, SubscribeRequest(c, t, f)
        PROVE  TypeOK'
    BY <2>1 DEF SubscribeRequest
  <2>2. ASSUME NEW t \in Target, Unsubscribe(c, t) PROVE TypeOK'
    BY <2>2 DEF Unsubscribe
  <2> QED BY <1>2, <2>1, <2>2 DEF Requesting
<1>3. ASSUME NEW c \in Sid, Answering(c) PROVE TypeOK'
  <2> PICK r \in pending[c] : SubscribeGranted(c, r) \/ SubscribeFailed(c, r)
    BY <1>3 DEF Answering
  <2> r \in Requests
    BY DEF Structure, TypeOK
  <2>1. CASE SubscribeGranted(c, r)
    BY <2>1 DEF SubscribeGranted, Track
  <2>2. CASE SubscribeFailed(c, r)
    BY <2>2 DEF SubscribeFailed
  <2> QED BY <2>1, <2>2
<1>4. ASSUME NEW c \in Sid, RedisCommand(c) PROVE TypeOK'
  <2>1. ASSUME NEW t \in Target, SubDel(c, t) PROVE TypeOK'
    BY <2>1 DEF SubDel, HIncrBy
  <2>2. CASE HDel(c)
    BY <2>2 DEF HDel, RemoveField
  <2>3. CASE SubAdd(c)
    BY <2>3 DEF SubAdd, HIncrBy
  <2> QED BY <1>4, <2>1, <2>2, <2>3 DEF RedisCommand
<1>5. ASSUME NEW c \in Sid, RedisFailure(c) PROVE TypeOK'
  <2> PICK applied \in BOOLEAN :
         \/ \E t \in Target : SubDelFails(c, t, applied)
         \/ HDelFails(c, applied)
         \/ SubAddFails(c, applied)
    BY <1>5 DEF RedisFailure
  <2>1. ASSUME NEW t \in Target, SubDelFails(c, t, applied) PROVE TypeOK'
    <3>1. CASE applied
      BY <2>1, <3>1 DEF SubDelFails, HIncrBy, Fault
    <3>2. CASE ~applied
      BY <2>1, <3>2 DEF SubDelFails, Fault
    <3> QED BY <3>1, <3>2
  <2>2. CASE HDelFails(c, applied)
    BY <2>2 DEF HDelFails, RemoveField, Fault
  <2>3. CASE SubAddFails(c, applied)
    <3>1. acquire[c] \in Target
      BY <2>3 DEF SubAddFails
    <3>2. CASE applied
      <4>1. count' = [count EXCEPT ![acquire[c]] = @ + 1]
            /\ field' = field \cup {acquire[c]} /\ missed' = missed
        BY <2>3, <3>2 DEF SubAddFails, HIncrBy
      <4>2. count' \in [Target -> Int] /\ field' \in SUBSET Target
        BY <3>1, <4>1
      <4> QED BY <2>3, <4>1, <4>2 DEF SubAddFails, Fault
    <3>3. CASE ~applied
      <4>1. /\ missed' = [missed EXCEPT ![acquire[c]] = @ + 1]
            /\ count' = count /\ field' = field
        BY <2>3, <3>3 DEF SubAddFails
      <4>2. missed' \in [Target -> Nat]
        BY <3>1, <4>1
      <4> QED BY <2>3, <4>1, <4>2 DEF SubAddFails, Fault
    <3> QED BY <3>2, <3>3
  <2> QED BY <2>1, <2>2, <2>3
<1>6. ASSUME NEW s \in Server, Crash(s) PROVE TypeOK'
  <2>1. lost' \in [Target -> Nat]
    <3>1. \A t \in Target : Owed(t)' <= Owed(t)
      BY <1>6, CrashOwes
    <3>2. \A t \in Target : Owed(t) \in Nat /\ Owed(t)' \in Nat
      BY OwedNat, OwedNatNext
    <3>3. lost' = [t \in Target |-> lost[t] + (Owed(t) - Owed(t)')]
      BY <1>6 DEF Crash
    <3> QED BY <3>1, <3>2, <3>3
  <2> QED BY <1>6, <2>1 DEF Crash, Fault
<1>7. CASE UNCHANGED vars
  BY <1>7 DEF vars
<1> QED BY <1>1, <1>2, <1>3, <1>4, <1>5, <1>6, <1>7 DEF Next

\* Every step keeps the shape of the sessions.
LEMMA StructureStep == Structure /\ [Next]_vars => Structure'
<1> SUFFICES ASSUME Structure, [Next]_vars
             PROVE  PhaseInv' /\ RoomsAreTracked'
  BY TypeStep DEF Structure
<1> USE DEF Structure, PhaseInv, RoomsAreTracked, TypeOK, Tracks, NoSubs,
            LoopFree, Working, local, todo, redis, ghost
<1>1. ASSUME NEW c \in Sid, Lifecycle(c) PROVE PhaseInv' /\ RoomsAreTracked'
  <2>1. CASE Connect(c)
    BY <2>1 DEF Connect
  <2>2. CASE Authenticated(c)
    <3>1. session' = session
      BY <2>2 DEF Authenticated
    <3> QED BY <2>2, <3>1 DEF Authenticated
  <2>3. CASE AuthenticationFailed(c)
    BY <2>3 DEF AuthenticationFailed
  <2>4. CASE Disconnect(c)
    BY <2>4 DEF Disconnect
  <2> QED BY <1>1, <2>1, <2>2, <2>3, <2>4 DEF Lifecycle
<1>2. ASSUME NEW c \in Sid, Requesting(c) PROVE PhaseInv' /\ RoomsAreTracked'
  <2>1. ASSUME NEW t \in Target, NEW f \in Filters, SubscribeRequest(c, t, f)
        PROVE  PhaseInv' /\ RoomsAreTracked'
    BY <2>1 DEF SubscribeRequest, MayHandle
  <2>2. ASSUME NEW t \in Target, Unsubscribe(c, t) PROVE PhaseInv' /\ RoomsAreTracked'
    BY <2>2 DEF Unsubscribe, MayHandle
  <2> QED BY <1>2, <2>1, <2>2 DEF Requesting
<1>3. ASSUME NEW c \in Sid, Answering(c) PROVE PhaseInv' /\ RoomsAreTracked'
  <2> PICK r \in pending[c] : SubscribeGranted(c, r) \/ SubscribeFailed(c, r)
    BY <1>3 DEF Answering
  <2> r \in Requests
    BY DEF Structure, TypeOK
  <2>1. CASE SubscribeGranted(c, r)
    BY <2>1 DEF SubscribeGranted, Track, Filters, Requests
  <2>2. CASE SubscribeFailed(c, r)
    BY <2>2 DEF SubscribeFailed
  <2> QED BY <2>1, <2>2
<1>4. ASSUME NEW c \in Sid, RedisCommand(c) PROVE PhaseInv' /\ RoomsAreTracked'
  <2>1. ASSUME NEW t \in Target, SubDel(c, t) PROVE PhaseInv' /\ RoomsAreTracked'
    BY <2>1 DEF SubDel, HIncrBy
  <2>2. CASE HDel(c)
    BY <2>2 DEF HDel, RemoveField
  <2>3. CASE SubAdd(c)
    BY <2>3 DEF SubAdd, HIncrBy
  <2> QED BY <1>4, <2>1, <2>2, <2>3 DEF RedisCommand
<1>5. ASSUME NEW c \in Sid, RedisFailure(c) PROVE PhaseInv' /\ RoomsAreTracked'
  <2> PICK applied \in BOOLEAN :
         \/ \E t \in Target : SubDelFails(c, t, applied)
         \/ HDelFails(c, applied)
         \/ SubAddFails(c, applied)
    BY <1>5 DEF RedisFailure
  <2>1. ASSUME NEW t \in Target, SubDelFails(c, t, applied) PROVE PhaseInv' /\ RoomsAreTracked'
    BY <2>1 DEF SubDelFails, HIncrBy, Fault
  <2>2. CASE HDelFails(c, applied)
    BY <2>2 DEF HDelFails, RemoveField, Fault
  <2>3. CASE SubAddFails(c, applied)
    BY <2>3 DEF SubAddFails, HIncrBy, Fault
  <2> QED BY <2>1, <2>2, <2>3
<1>6. ASSUME NEW s \in Server, Crash(s) PROVE PhaseInv' /\ RoomsAreTracked'
  BY <1>6 DEF Crash
<1>7. CASE UNCHANGED vars
  BY <1>7 DEF vars
<1> QED BY <1>1, <1>2, <1>3, <1>4, <1>5, <1>6, <1>7 DEF Next

\* The types, and the shape of the sessions, hold in every reachable state.
THEOREM StructureInvariant == Spec => []Structure
BY StructureInit, StructureStep, PTL DEF Spec

\* Every variable keeps its type.
THEOREM TypeCorrect == Spec => []TypeOK
<1>1. Structure => TypeOK
  BY DEF Structure
<1> QED BY <1>1, StructureInvariant, PTL

\* A sid is in exactly the rooms its session tracks.
THEOREM TrackedRooms == Spec => []RoomsAreTracked
<1>1. Structure => RoomsAreTracked
  BY DEF Structure
<1> QED BY <1>1, StructureInvariant, PTL

\* A sid that is gone is in no room, has no subscription and no count under
\* way, whatever verdicts arrive after the disconnect.
THEOREM DisconnectedIsClean == Spec => []DisconnectedHoldsNothing
<1>1. Structure => DisconnectedHoldsNothing
  BY DEF Structure, PhaseInv, RoomsAreTracked, DisconnectedHoldsNothing,
         TypeOK, Tracks, NoSubs
<1> QED BY <1>1, StructureInvariant, PTL

-----------------------------------------------------------------------------
(* How each kind of step changes what is owed.                             *)

\* A step of c that leaves its share alone leaves the sum alone.
LEMMA ShareKept ==
  ASSUME NEW c \in Sid, NEW t \in Target, OthersKept(c),
         Share(c, t)' = Share(c, t)
  PROVE  Owed(t)' = Owed(t)
<1>1. Owed(t) \in Nat
  BY OwedNat
<1>2. Share(c, t) \in Nat
  BY DEF Share, Bit
<1>3. Owed(t)' = Owed(t) - Share(c, t) + Share(c, t)'
  BY OwedStep
<1> QED BY <1>1, <1>2, <1>3

\* A step that touches no subscription and no pending command.
LEMMA OwedUnchanged ==
  ASSUME NEW t \in Target, UNCHANGED <<session, release, acquire>>
  PROVE  Owed(t)' = Owed(t)
BY DEF Owed, Holders, Releasing, Tracks

\* Handlers only move a count between "held" and "on its way back": what is
\* owed changes with the Redis commands, not before.
LEMMA HandlersOweTheSame ==
  ASSUME Structure, NEW c \in Sid, NEW t \in Target,
         Lifecycle(c) \/ Requesting(c) \/ Answering(c)
  PROVE  Owed(t)' = Owed(t)
<1> USE DEF Structure, TypeOK, local, todo, redis, ghost, NoSubs
<1> DEFINE Goal == Owed(t)' = Owed(t)
<1>1. ASSUME LoopFree(c)
      PROVE  release[c] = {} /\ acquire[c] = NoTarget
  BY <1>1 DEF LoopFree, Working
<1>2. ASSUME OthersKept(c),
             release[c] = {}, acquire[c] = NoTarget,
             Tracks(c, t) <=> \/ Tracks(c, t)' /\ acquire'[c] # t
                              \/ t \in release'[c],
             ~(Tracks(c, t)' /\ acquire'[c] # t /\ t \in release'[c])
      PROVE  Goal
  <2>1. Share(c, t)' = Share(c, t)
    BY <1>2 DEF Share, Bit, Holders, Releasing, Tracks
  <2> QED BY <1>2, <2>1, ShareKept
<1>3. CASE Lifecycle(c)
  <2>1. CASE Connect(c)
    BY <2>1, OwedUnchanged DEF Connect
  <2>2. CASE Authenticated(c)
    <3>1. session' = session
      BY <2>2 DEF Authenticated, PhaseInv
    <3> QED BY <2>2, <3>1, OwedUnchanged DEF Authenticated
  <2>3. CASE AuthenticationFailed(c)
    <3>1. session' = session
      BY <2>3 DEF AuthenticationFailed, PhaseInv
    <3> QED BY <2>3, <3>1, OwedUnchanged DEF AuthenticationFailed
  <2>4. CASE Disconnect(c)
    <3>1. release[c] = {} /\ acquire[c] = NoTarget
      BY <2>4, <1>1 DEF Disconnect
    <3>2. OthersKept(c)
      BY <2>4 DEF Disconnect, OthersKept
    <3> QED BY <2>4, <3>1, <3>2, <1>2 DEF Disconnect, Tracks
  <2> QED BY <1>3, <2>1, <2>2, <2>3, <2>4 DEF Lifecycle
<1>4. CASE Requesting(c)
  <2>1. ASSUME NEW u \in Target, NEW f \in Filters, SubscribeRequest(c, u, f)
        PROVE  Goal
    BY <2>1, OwedUnchanged DEF SubscribeRequest
  <2>2. ASSUME NEW u \in Target, Unsubscribe(c, u) PROVE Goal
    <3>1. release[c] = {} /\ acquire[c] = NoTarget
      BY <2>2, <1>1 DEF Unsubscribe, MayHandle
    <3>2. OthersKept(c)
      BY <2>2 DEF Unsubscribe, OthersKept
    <3> QED BY <2>2, <3>1, <3>2, <1>2 DEF Unsubscribe, Tracks
  <2> QED BY <1>4, <2>1, <2>2 DEF Requesting
<1>5. CASE Answering(c)
  <2> PICK r \in pending[c] : SubscribeGranted(c, r) \/ SubscribeFailed(c, r)
    BY <1>5 DEF Answering
  <2> r \in Requests
    OBVIOUS
  <2>1. CASE SubscribeGranted(c, r)
    <3>1. release[c] = {} /\ acquire[c] = NoTarget
      BY <2>1, <1>1 DEF SubscribeGranted
    <3>2. OthersKept(c)
      BY <2>1 DEF SubscribeGranted, Track, OthersKept
    <3> QED BY <2>1, <3>1, <3>2, <1>2
            DEF SubscribeGranted, Track, Tracks, Requests, Filters
  <2>2. CASE SubscribeFailed(c, r)
    BY <2>2, OwedUnchanged DEF SubscribeFailed
  <2> QED BY <2>1, <2>2
<1> QED BY <1>3, <1>4, <1>5

\* Giving a count back, or failing to, settles exactly that debt.
LEMMA ReleaseOwesOneLess ==
  ASSUME Structure, NEW c \in Sid, NEW t \in Target, NEW u \in Target,
         t \in release[c], release' = [release EXCEPT ![c] = @ \ {t}],
         UNCHANGED <<session, acquire>>
  PROVE  Owed(u)' = IF u = t THEN Owed(u) - 1 ELSE Owed(u)
<1>1. OthersKept(c)
  BY DEF OthersKept, Structure, TypeOK
<1>2. Share(c, u)' = IF u = t THEN Share(c, u) - 1 ELSE Share(c, u)
  BY DEF Share, Bit, Holders, Releasing, Tracks, Structure, TypeOK
<1>3. Owed(u) \in Nat /\ Share(c, u) \in Nat
  BY OwedNat DEF Share, Bit
<1> QED BY <1>1, <1>2, <1>3, OwedStep

\* Taking a count, or failing to, turns a recorded subscription into a debt.
LEMMA AcquireOwesOneMore ==
  ASSUME Structure, NEW c \in Sid, NEW u \in Target,
         acquire[c] # NoTarget,
         acquire' = [acquire EXCEPT ![c] = NoTarget],
         UNCHANGED <<session, release>>
  PROVE  Owed(u)' = IF u = acquire[c] THEN Owed(u) + 1 ELSE Owed(u)
<1>1. OthersKept(c)
  BY DEF OthersKept, Structure, TypeOK
<1>2. Share(c, u)' = IF u = acquire[c] THEN Share(c, u) + 1 ELSE Share(c, u)
  BY DEF Share, Bit, Holders, Releasing, Tracks, Structure, TypeOK, PhaseInv
<1>3. Owed(u) \in Nat /\ Share(c, u) \in Nat
  BY OwedNat DEF Share, Bit
<1> QED BY <1>1, <1>2, <1>3, OwedStep

-----------------------------------------------------------------------------
(* No leak, for any number of servers.                                     *)

\* The handlers leave Redis and its history alone.
LEMMA HandlersSpareRedis ==
  ASSUME NEW c \in Sid, Lifecycle(c) \/ Requesting(c) \/ Answering(c)
  PROVE  UNCHANGED <<hdel, redis, ghost>>
BY DEF Lifecycle, Connect, Authenticated, AuthenticationFailed, Disconnect,
       Requesting, SubscribeRequest, Unsubscribe, Answering, SubscribeGranted,
       SubscribeFailed, redis, ghost, todo

\* No step makes Redis count more than it is owed: an HDEL sets a count to
\* zero, which is never more than what is owed.
LEMMA NoLeakStep == Structure /\ NoLeak /\ [Next]_vars => NoLeak'
<1> SUFFICES ASSUME Structure, NoLeak, [Next]_vars, NEW t \in Target
             PROVE  count'[t] <= Owed(t)' + lost'[t]
  BY DEF NoLeak
<1> DEFINE Goal == count'[t] <= Owed(t)' + lost'[t]
<1>a. count[t] <= Owed(t) + lost[t]
  BY DEF NoLeak
<1>b. /\ count \in [Target -> Int] /\ lost \in [Target -> Nat]
      /\ Owed(t) \in Nat /\ Owed(t)' \in Nat
  BY OwedNat, OwedNatNext DEF Structure, TypeOK
<1> USE <1>a, <1>b DEF redis, ghost, local
<1>1. ASSUME NEW c \in Sid, Lifecycle(c) \/ Requesting(c) \/ Answering(c)
      PROVE  Goal
  BY <1>1, HandlersOweTheSame, HandlersSpareRedis
<1>2. ASSUME NEW c \in Sid, RedisCommand(c) PROVE Goal
  <2>1. ASSUME NEW u \in Target, SubDel(c, u) PROVE Goal
    <3>1. Owed(t)' = IF t = u THEN Owed(t) - 1 ELSE Owed(t)
      BY <2>1, ReleaseOwesOneLess DEF SubDel
    <3> QED BY <2>1, <3>1 DEF SubDel, HIncrBy
  <2>2. CASE HDel(c)
    <3>1. Owed(t)' = Owed(t)
      BY <2>2, OwedUnchanged DEF HDel
    <3> QED BY <2>2, <3>1 DEF HDel, RemoveField
  <2>3. CASE SubAdd(c)
    <3>1. Owed(t)' = IF t = acquire[c] THEN Owed(t) + 1 ELSE Owed(t)
      BY <2>3, AcquireOwesOneMore DEF SubAdd
    <3> QED BY <2>3, <3>1 DEF SubAdd, HIncrBy
  <2> QED BY <1>2, <2>1, <2>2, <2>3 DEF RedisCommand
<1>3. ASSUME NEW c \in Sid, RedisFailure(c) PROVE Goal
  <2> PICK applied \in BOOLEAN :
         \/ \E u \in Target : SubDelFails(c, u, applied)
         \/ HDelFails(c, applied)
         \/ SubAddFails(c, applied)
    BY <1>3 DEF RedisFailure
  <2>1. ASSUME NEW u \in Target, SubDelFails(c, u, applied) PROVE Goal
    <3>1. Owed(t)' = IF t = u THEN Owed(t) - 1 ELSE Owed(t)
      BY <2>1, ReleaseOwesOneLess DEF SubDelFails
    <3> QED BY <2>1, <3>1 DEF SubDelFails, HIncrBy
  <2>2. CASE HDelFails(c, applied)
    <3>1. Owed(t)' = Owed(t)
      BY <2>2, OwedUnchanged DEF HDelFails
    <3> QED BY <2>2, <3>1 DEF HDelFails, RemoveField
  <2>3. CASE SubAddFails(c, applied)
    <3>1. Owed(t)' = IF t = acquire[c] THEN Owed(t) + 1 ELSE Owed(t)
      BY <2>3, AcquireOwesOneMore DEF SubAddFails
    <3> QED BY <2>3, <3>1 DEF SubAddFails, HIncrBy
  <2> QED BY <2>1, <2>2, <2>3
<1>4. ASSUME NEW s \in Server, Crash(s) PROVE Goal
  BY <1>4 DEF Crash
<1>5. CASE UNCHANGED vars
  <2>1. Owed(t)' = Owed(t)
    BY <1>5, OwedUnchanged DEF vars
  <2> QED BY <1>5, <2>1 DEF vars
<1> QED BY <1>1, <1>2, <1>3, <1>4, <1>5 DEF Next

\* Nothing is owed, and nothing counted, before anybody subscribes.
LEMMA InitiallyBalanced ==
  Init => \A t \in Target : count[t] = 0 /\ Owed(t) \in Nat
BY OwedNat DEF Init

\* Whatever servers interleave and whatever fails, the count of a target is
\* at most the live subscriptions, the counts being given back and those
\* that failures and crashes orphaned: the gate is never stuck open because
\* of the order in which handlers of different servers ran.
THEOREM NeverLeaks == Spec => []NoLeak
<1>1. Init => NoLeak
  BY InitiallyBalanced, SMT DEF Init, NoLeak
<1>2. Structure /\ NoLeak /\ [Next]_vars => NoLeak'
  BY NoLeakStep
<1> QED BY <1>1, <1>2, StructureInvariant, PTL DEF Spec

-----------------------------------------------------------------------------
(* No zombie, for any number of servers.                                   *)

\* NoZombie needs that HINCRBY finds zero where there is no field.
ZombieInv == NoZombie /\ \A t \in Target \ field : count[t] = 0

\* Without failures, the command that empties a field is followed by its
\* HDEL, and no other command leaves a field at or below zero.
LEMMA ZombieStep == TypeOK /\ ZombieInv /\ [Next]_vars => ZombieInv'
<1> SUFFICES ASSUME TypeOK, ZombieInv, [Next]_vars PROVE ZombieInv'
  OBVIOUS
<1> USE DEF ZombieInv, NoZombie, TypeOK, redis, ghost, todo
<1>1. ASSUME NEW c \in Sid, Lifecycle(c) \/ Requesting(c) \/ Answering(c)
      PROVE  ZombieInv'
  BY <1>1, HandlersSpareRedis
<1>2. ASSUME NEW c \in Sid, RedisCommand(c) PROVE ZombieInv'
  <2>1. ASSUME NEW t \in Target, SubDel(c, t) PROVE ZombieInv'
    BY <2>1 DEF SubDel, HIncrBy
  <2>2. CASE HDel(c)
    BY <2>2 DEF HDel, RemoveField
  <2>3. CASE SubAdd(c)
    BY <2>3 DEF SubAdd, HIncrBy
  <2> QED BY <1>2, <2>1, <2>2, <2>3 DEF RedisCommand
<1>3. ASSUME NEW c \in Sid, RedisFailure(c) PROVE ZombieInv'
  <2> PICK applied \in BOOLEAN :
         \/ \E t \in Target : SubDelFails(c, t, applied)
         \/ HDelFails(c, applied)
         \/ SubAddFails(c, applied)
    BY <1>3 DEF RedisFailure
  <2>1. faults' # 0
    BY DEF SubDelFails, HDelFails, SubAddFails, Fault
  <2>2. ASSUME NEW t \in Target \ field' PROVE count'[t] = 0
    BY <2>2 DEF SubDelFails, HDelFails, SubAddFails, HIncrBy, RemoveField
  <2> QED BY <2>1, <2>2
<1>4. ASSUME NEW s \in Server, Crash(s) PROVE ZombieInv'
  BY <1>4 DEF Crash, Fault
<1>5. CASE UNCHANGED vars
  BY <1>5 DEF vars
<1> QED BY <1>1, <1>2, <1>3, <1>4, <1>5 DEF Next

\* As long as no command has failed, a field at or below zero is about to be
\* removed: the hashes keep no negative field and no zombie.
THEOREM NoZombieLeft == Spec => []NoZombie
<1>1. Init => ZombieInv
  BY DEF Init, ZombieInv, NoZombie
<1>2. ZombieInv => NoZombie
  BY DEF ZombieInv
<1> QED BY <1>1, <1>2, ZombieStep, TypeCorrect, PTL DEF Spec

-----------------------------------------------------------------------------
(* With one server process, no count is stolen either.                     *)

OneServer == \A c, d \in Sid : Home[c] = Home[d]

\* One loop runs one handler at a time, so a count stays at or below zero
\* until the HDEL that was decided on it.
LoopInv ==
  /\ \A c, d \in Sid : Working(c) /\ Working(d) => c = d
  /\ \A c \in Sid : hdel[c] # NoTarget => count[hdel[c]] <= 0

LEMMA LoopStep ==
  ASSUME OneServer
  PROVE  TypeOK /\ LoopInv /\ [Next]_vars => LoopInv'
<1> SUFFICES ASSUME TypeOK, LoopInv, [Next]_vars PROVE LoopInv'
  OBVIOUS
<1> USE DEF LoopInv, TypeOK, Working, redis, ghost, todo, local
<1>1. ASSUME NEW c \in Sid, Lifecycle(c) \/ Requesting(c) \/ Answering(c)
      PROVE  LoopInv'
  <2>1. UNCHANGED <<hdel, count>>
    BY <1>1, HandlersSpareRedis
  <2>2. \/ UNCHANGED <<release, acquire>>
        \/ /\ LoopFree(c)
           /\ \A d \in Sid \ {c} : release'[d] = release[d]
           /\ \A d \in Sid \ {c} : acquire'[d] = acquire[d]
    BY <1>1 DEF Lifecycle, Connect, Authenticated, AuthenticationFailed,
                Disconnect, Requesting, SubscribeRequest, Unsubscribe,
                MayHandle, Answering, SubscribeGranted, SubscribeFailed, Track
  <2>3. LoopFree(c) => \A d \in Sid : ~Working(d)
    BY DEF LoopFree, OneServer
  <2> QED BY <2>1, <2>2, <2>3
<1>2. ASSUME NEW c \in Sid, RedisCommand(c) PROVE LoopInv'
  <2>1. ASSUME NEW t \in Target, SubDel(c, t) PROVE LoopInv'
    BY <2>1 DEF SubDel, HIncrBy
  <2>2. CASE HDel(c)
    BY <2>2 DEF HDel, RemoveField
  <2>3. CASE SubAdd(c)
    BY <2>3 DEF SubAdd, HIncrBy
  <2> QED BY <1>2, <2>1, <2>2, <2>3 DEF RedisCommand
<1>3. ASSUME NEW c \in Sid, RedisFailure(c) PROVE LoopInv'
  <2> PICK applied \in BOOLEAN :
         \/ \E t \in Target : SubDelFails(c, t, applied)
         \/ HDelFails(c, applied)
         \/ SubAddFails(c, applied)
    BY <1>3 DEF RedisFailure
  <2>1. ASSUME NEW t \in Target, SubDelFails(c, t, applied) PROVE LoopInv'
    BY <2>1 DEF SubDelFails, HIncrBy
  <2>2. CASE HDelFails(c, applied)
    BY <2>2 DEF HDelFails, RemoveField
  <2>3. CASE SubAddFails(c, applied)
    BY <2>3 DEF SubAddFails, HIncrBy
  <2> QED BY <2>1, <2>2, <2>3
<1>4. ASSUME NEW s \in Server, Crash(s) PROVE LoopInv'
  BY <1>4 DEF Crash
<1>5. CASE UNCHANGED vars
  BY <1>5 DEF vars
<1> QED BY <1>1, <1>2, <1>3, <1>4, <1>5 DEF Next

\* With one server, no step leaves Redis short of what it is owed but a
\* sub_add that failed.
LEMMA NoStolenCountStep ==
  Structure /\ LoopInv /\ NoStolenCount /\ [Next]_vars => NoStolenCount'
<1> SUFFICES ASSUME Structure, LoopInv, NoStolenCount, [Next]_vars,
                    NEW t \in Target
             PROVE  count'[t] >= Owed(t)' - missed'[t]
  BY DEF NoStolenCount
<1> DEFINE Goal == count'[t] >= Owed(t)' - missed'[t]
<1>a. count[t] >= Owed(t) - missed[t]
  BY DEF NoStolenCount
<1>b. /\ count \in [Target -> Int] /\ missed \in [Target -> Nat]
      /\ Owed(t) \in Nat /\ Owed(t)' \in Nat
  BY OwedNat, OwedNatNext DEF Structure, TypeOK
<1> USE <1>a, <1>b DEF redis, ghost, local
<1>1. ASSUME NEW c \in Sid, Lifecycle(c) \/ Requesting(c) \/ Answering(c)
      PROVE  Goal
  BY <1>1, HandlersOweTheSame, HandlersSpareRedis
<1>2. ASSUME NEW c \in Sid, RedisCommand(c) PROVE Goal
  <2>1. ASSUME NEW u \in Target, SubDel(c, u) PROVE Goal
    <3>1. Owed(t)' = IF t = u THEN Owed(t) - 1 ELSE Owed(t)
      BY <2>1, ReleaseOwesOneLess DEF SubDel
    <3> QED BY <2>1, <3>1 DEF SubDel, HIncrBy
  <2>2. CASE HDel(c)
    <3>1. Owed(t)' = Owed(t)
      BY <2>2, OwedUnchanged DEF HDel
    <3>2. hdel[c] = t => count[t] <= 0
      BY <2>2 DEF LoopInv, HDel
    <3> QED BY <2>2, <3>1, <3>2 DEF HDel, RemoveField
  <2>3. CASE SubAdd(c)
    <3>1. Owed(t)' = IF t = acquire[c] THEN Owed(t) + 1 ELSE Owed(t)
      BY <2>3, AcquireOwesOneMore DEF SubAdd
    <3> QED BY <2>3, <3>1 DEF SubAdd, HIncrBy
  <2> QED BY <1>2, <2>1, <2>2, <2>3 DEF RedisCommand
<1>3. ASSUME NEW c \in Sid, RedisFailure(c) PROVE Goal
  <2> PICK applied \in BOOLEAN :
         \/ \E u \in Target : SubDelFails(c, u, applied)
         \/ HDelFails(c, applied)
         \/ SubAddFails(c, applied)
    BY <1>3 DEF RedisFailure
  <2>1. ASSUME NEW u \in Target, SubDelFails(c, u, applied) PROVE Goal
    <3>1. Owed(t)' = IF t = u THEN Owed(t) - 1 ELSE Owed(t)
      BY <2>1, ReleaseOwesOneLess DEF SubDelFails
    <3> QED BY <2>1, <3>1 DEF SubDelFails, HIncrBy
  <2>2. CASE HDelFails(c, applied)
    <3>1. Owed(t)' = Owed(t)
      BY <2>2, OwedUnchanged DEF HDelFails
    <3>2. hdel[c] = t => count[t] <= 0
      BY <2>2 DEF LoopInv, HDelFails
    <3> QED BY <2>2, <3>1, <3>2 DEF HDelFails, RemoveField
  <2>3. CASE SubAddFails(c, applied)
    <3>1. Owed(t)' = IF t = acquire[c] THEN Owed(t) + 1 ELSE Owed(t)
      BY <2>3, AcquireOwesOneMore DEF SubAddFails
    <3> QED BY <2>3, <3>1 DEF SubAddFails, HIncrBy
  <2> QED BY <2>1, <2>2, <2>3
<1>4. ASSUME NEW s \in Server, Crash(s) PROVE Goal
  <2>1. Owed(t)' <= Owed(t)
    BY <1>4, CrashOwes
  <2> QED BY <1>4, <2>1 DEF Crash
<1>5. CASE UNCHANGED vars
  <2>1. Owed(t)' = Owed(t)
    BY <1>5, OwedUnchanged DEF vars
  <2> QED BY <1>5, <2>1 DEF vars
<1> QED BY <1>1, <1>2, <1>3, <1>4, <1>5 DEF Next

\* Before anybody subscribes, nothing is owed.
LEMMA InitiallyNothingOwed == Init => \A t \in Target : Owed(t) = 0
<1> SUFFICES ASSUME Init, NEW t \in Target PROVE Owed(t) = 0
  OBVIOUS
<1>1. Holders(t) = {} /\ Releasing(t) = {}
  BY DEF Init, Holders, Releasing, Tracks, NoSubs
<1> QED BY <1>1, FS_EmptySet DEF Owed

\* One loop runs one handler at a time from the beginning.
LEMMA LoopInvariant == OneServer => (Spec => []LoopInv)
<1> SUFFICES ASSUME OneServer PROVE Spec => []LoopInv
  OBVIOUS
<1>1. Init => LoopInv
  BY DEF Init, LoopInv, Working
<1>2. TypeOK /\ LoopInv /\ [Next]_vars => LoopInv'
  BY LoopStep
<1> QED BY <1>1, <1>2, TypeCorrect, PTL DEF Spec

\* With one server process, the count of a target falls short of its
\* subscriptions by no more than the number of sub_adds that failed.
THEOREM NothingStolen == OneServer => (Spec => []NoStolenCount)
<1> SUFFICES ASSUME OneServer PROVE Spec => []NoStolenCount
  OBVIOUS
<1>1. Spec => []LoopInv
  BY LoopInvariant
<1>2. Init => NoStolenCount
  BY InitiallyNothingOwed, SMT DEF Init, NoStolenCount
<1>3. Structure /\ LoopInv /\ NoStolenCount /\ [Next]_vars => NoStolenCount'
  BY NoStolenCountStep
<1> QED BY <1>1, <1>2, <1>3, StructureInvariant, PTL DEF Spec

\* History counters move with failures only.
FaultFree == faults = 0 => \A t \in Target : lost[t] = 0 /\ missed[t] = 0

LEMMA FaultFreeInvariant == Spec => []FaultFree
<1>1. Init => FaultFree
  BY DEF Init, FaultFree
<1>2. TypeOK /\ FaultFree /\ [Next]_vars => FaultFree'
  <2> SUFFICES ASSUME TypeOK, FaultFree, [Next]_vars PROVE FaultFree'
    OBVIOUS
  <2>1. UNCHANGED ghost \/ faults' = faults + 1
    BY HandlersSpareRedis
       DEF Next, RedisCommand, SubDel, HDel, SubAdd, RedisFailure,
           SubDelFails, HDelFails, SubAddFails, Crash, Fault, vars, ghost
  <2> QED BY <2>1 DEF FaultFree, TypeOK, ghost
<1> QED BY <1>1, <1>2, TypeCorrect, PTL DEF Spec

\* When nothing about t is under way, what is owed is what the rooms hold.
LEMMA SettledOwesAudience ==
  ASSUME RoomsAreTracked, NEW t \in Target, Settled(t)
  PROVE  Owed(t) = Cardinality({c \in Sid : t \in room[c]})
<1>1. Holders(t) = {c \in Sid : t \in room[c]}
  BY DEF Holders, Settled, RoomsAreTracked
<1>2. Releasing(t) = {}
  BY DEF Releasing, Settled
<1>3. Cardinality({c \in Sid : t \in room[c]}) \in Nat
  BY FS_Subset, FS_CardinalityType
<1> QED BY <1>1, <1>2, <1>3, FS_EmptySet DEF Owed

\* With one server process and no failure, the gate of a settled target is
\* open exactly when its room has a member.
THEOREM GateIsExact == OneServer => (Spec => []GateMatchesAudience)
<1> SUFFICES ASSUME OneServer PROVE Spec => []GateMatchesAudience
  OBVIOUS
<1>1. ASSUME Structure, NoLeak, NoStolenCount, FaultFree
      PROVE  GateMatchesAudience
  <2> SUFFICES ASSUME faults = 0, NEW t \in Target, Settled(t)
               PROVE  count[t] > 0 <=> \E c \in Sid : t \in room[c]
    BY DEF GateMatchesAudience
  <2> DEFINE A == {c \in Sid : t \in room[c]}
  <2>1. count[t] = Owed(t)
    BY <1>1, OwedNat DEF NoLeak, NoStolenCount, FaultFree, Structure, TypeOK
  <2>2. Owed(t) = Cardinality(A)
    BY <1>1, SettledOwesAudience DEF Structure
  <2>3. IsFiniteSet(A)
    BY FS_Subset
  <2>4. Cardinality(A) \in Nat /\ (Cardinality(A) = 0 <=> A = {})
    BY <2>3, FS_CardinalityType, FS_EmptySet
  <2> QED BY <2>1, <2>2, <2>4
<1>2. Spec => []NoStolenCount
  BY NothingStolen
<1> QED BY <1>1, <1>2, StructureInvariant, NeverLeaks, FaultFreeInvariant, PTL

\* With one loop, a count falls by the sub_del of a handler only, and is then
\* still what the holders are owed.
LEMMA DipStep ==
  ASSUME Structure, LoopInv, FaultFree, NoStolenCount', [Next]_vars, faults = 0,
         NEW t \in Target, NEW c \in Sid,
         count[t] > 0, count'[t] <= 0, Tracks(c, t)
  PROVE  acquire[c] = t
<1> SUFFICES ASSUME acquire[c] # t PROVE FALSE
  OBVIOUS
<1>t. count \in [Target -> Int] /\ missed \in [Target -> Nat] /\ missed[t] = 0
  BY DEF Structure, TypeOK, FaultFree
<1>k. ASSUME count'[t] = count[t] PROVE FALSE
  BY <1>t, <1>k
<1>1. ASSUME NEW d \in Sid, Lifecycle(d) \/ Requesting(d) \/ Answering(d) PROVE FALSE
  BY <1>1, <1>k, HandlersSpareRedis DEF redis
<1>2. ASSUME NEW d \in Sid, NEW u \in Target,
             SubDel(d, u) \/ \E applied \in BOOLEAN : SubDelFails(d, u, applied)
      PROVE  FALSE
  <2>1. UNCHANGED <<session, acquire, missed>> /\ (HIncrBy(u, -1) \/ count' = count)
    BY <1>2 DEF SubDel, SubDelFails, local, ghost, redis
  <2>2. c \in Holders(t)'
    BY <2>1 DEF Holders, Tracks
  <2>3. Owed(t)' >= 1
    <3>1. /\ Holders(t)' \in SUBSET Sid /\ Releasing(t)' \in SUBSET Sid
      BY DEF Holders, Releasing
    <3>2. /\ Cardinality(Holders(t)') = Cardinality(Holders(t)' \ {c}) + Bit(c, Holders(t)')
          /\ Cardinality(Holders(t)' \ {c}) \in Nat
          /\ Cardinality(Releasing(t)') \in Nat
      BY <3>1, CountApart
    <3>3. Owed(t)' = Cardinality(Holders(t)') + Cardinality(Releasing(t)')
      BY DEF Owed
    <3> QED BY <2>2, <3>2, <3>3 DEF Bit
  <2>4. count'[t] >= Owed(t)' - missed'[t]
    BY DEF NoStolenCount
  <2>5. count'[t] \in Int /\ Owed(t)' \in Nat
    BY <1>t, <2>1, OwedNatNext DEF HIncrBy
  <2> QED BY <1>t, <2>1, <2>3, <2>4, <2>5
<1>3. ASSUME NEW d \in Sid, HDel(d) \/ \E applied \in BOOLEAN : HDelFails(d, applied) PROVE FALSE
  <2>1. count' = count \/ (hdel[d] # NoTarget /\ count' = [count EXCEPT ![hdel[d]] = 0])
    BY <1>3 DEF HDel, HDelFails, RemoveField, redis
  <2>2. hdel[d] # NoTarget => count[hdel[d]] <= 0
    BY DEF LoopInv
  <2> QED BY <1>t, <2>1, <2>2
<1>4. ASSUME NEW d \in Sid, SubAdd(d) \/ \E applied \in BOOLEAN : SubAddFails(d, applied) PROVE FALSE
  <2>1. count' = count \/ HIncrBy(acquire[d], 1)
    BY <1>4 DEF SubAdd, SubAddFails, redis
  <2> QED BY <1>t, <2>1 DEF HIncrBy
<1>5. ASSUME NEW s \in Server, Crash(s) PROVE FALSE
  BY <1>5, <1>k DEF Crash, redis
<1>6. CASE UNCHANGED vars
  BY <1>6, <1>k DEF vars
<1> QED
  BY <1>1, <1>2, <1>3, <1>4, <1>5, <1>6 DEF Next, RedisCommand, RedisFailure

\* With one server process and no failure, publishers can miss a subscriber
\* that stays only while its own re-subscription is between its sub_del and
\* its sub_add.
THEOREM DipsAreResubscriptions == OneServer => (Spec => DipsOnlyToResubscribe)
<1> SUFFICES ASSUME OneServer PROVE Spec => DipsOnlyToResubscribe
  OBVIOUS
<1>1. Structure /\ LoopInv /\ FaultFree /\ NoStolenCount' /\ [Next]_vars =>
        [faults = 0 =>
           \A t \in Target, c \in Sid :
             count[t] > 0 /\ count'[t] <= 0 /\ Tracks(c, t) => acquire[c] = t]_vars
  BY DipStep
<1>2. Spec => []LoopInv
  BY LoopInvariant
<1>3. Spec => []NoStolenCount
  BY NothingStolen
<1> QED BY <1>1, <1>2, <1>3, StructureInvariant, FaultFreeInvariant, PTL
        DEF Spec, DipsOnlyToResubscribe

=============================================================================
