---------------------- MODULE PermittedBroadcastProofs ----------------------
(***************************************************************************)
(* Proofs about PermittedBroadcast for any connections, users, filters,    *)
(* documents and number of concurrent broadcasts.                          *)
(*                                                                         *)
(* A broadcast that is running works with what it read when it started, so *)
(* the inductive invariants relate that snapshot to the history: Soundness *)
(* says that the snapshot and the verdicts are covered by what was true at *)
(* some time, Completeness that what was true all the time is covered by   *)
(* the snapshot and by the verdicts still to come.                         *)
(***************************************************************************)
EXTENDS PermittedBroadcast, TLAPS

\* A change of the room or the permissions keeps the types.
LEMMA ChangeTypes ==
  ASSUME TypeOK, Change, UNCHANGED tasks,
         member' \in SUBSET Sid, clauses' \in [Sid -> Clauses],
         reader' \in SUBSET User
  PROVE  TypeOK'
<1> USE DEF TypeOK, Change, tasks
<1>1. changes' \in 0..MaxChanges
  BY ChangesAssumption
<1>2. /\ eligible'  \in [Broadcast -> SUBSET Sid]
      /\ steadfast' \in [Broadcast -> SUBSET Sid]
  BY DEF Entitled
<1>3. /\ reading'   \in [Broadcast -> SUBSET User]
      /\ trusted'   \in [Broadcast -> SUBSET User]
  OBVIOUS
<1> QED BY <1>1, <1>2, <1>3

LEMMA TypeStep == TypeOK /\ [Next]_vars => TypeOK'
<1> SUFFICES ASSUME TypeOK, [Next]_vars PROVE TypeOK'
  OBVIOUS
<1> USE UserAssumption, DataAssumption
<1>1. ASSUME NEW c \in Sid, NEW f \in Clauses, Subscribe(c, f) PROVE TypeOK'
  BY <1>1, ChangeTypes DEF Subscribe, TypeOK
<1>2. ASSUME NEW c \in Sid, Leave(c) PROVE TypeOK'
  BY <1>2, ChangeTypes DEF Leave, TypeOK
<1>3. ASSUME NEW u \in User, Grant(u) \/ Revoke(u) PROVE TypeOK'
  BY <1>3, ChangeTypes DEF Grant, Revoke, TypeOK
<1>4. ASSUME NEW b \in Broadcast, NEW d \in Data \cup {NoData}, Start(b, d)
      PROVE  TypeOK'
  <2>1. [c \in Sid |-> IF d # NoData /\ c \in member THEN clauses[c] ELSE Data]
          \in [Sid -> Clauses]
    BY DEF TypeOK
  <2>2. {UserOf[c] : c \in member} \in SUBSET User
    BY DEF TypeOK
  <2>3. Entitled(member, clauses, d) \in SUBSET Sid
    BY DEF TypeOK, Entitled
  <2>4. captured' \in [Broadcast -> [Sid -> Clauses]]
    BY <1>4, <2>1 DEF TypeOK, Start
  <2>5. unchecked' \in [Broadcast -> SUBSET User]
    BY <1>4, <2>2 DEF TypeOK, Start
  <2>6. /\ eligible'  \in [Broadcast -> SUBSET Sid]
        /\ steadfast' \in [Broadcast -> SUBSET Sid]
    BY <1>4, <2>3 DEF TypeOK, Start
  <2>7. /\ stage' \in [Broadcast -> {"checking", "emitting", "done"}]
        /\ data' \in [Broadcast -> Data \cup {NoData}]
        /\ audience' \in [Broadcast -> SUBSET Sid]
        /\ verdict' \in [Broadcast -> SUBSET User]
        /\ delivered' \in [Broadcast -> SUBSET Sid]
    BY <1>4 DEF TypeOK, Start
  <2>8. /\ reading' \in [Broadcast -> SUBSET User]
        /\ trusted' \in [Broadcast -> SUBSET User]
    BY <1>4 DEF TypeOK, Start
  <2> QED BY <1>4, <2>4, <2>5, <2>6, <2>7, <2>8 DEF TypeOK, Start, room
<1>5. ASSUME NEW b \in Broadcast, NEW u \in User, Check(b, u) PROVE TypeOK'
  BY <1>5 DEF TypeOK, Check, room, past
<1>6. ASSUME NEW b \in Broadcast, NEW u \in User, CheckFails(b, u) PROVE TypeOK'
  BY <1>6 DEF TypeOK, CheckFails, room
<1>7. ASSUME NEW b \in Broadcast, Gathered(b) PROVE TypeOK'
  <2>1. Recipients(b) \in SUBSET Sid
    BY DEF Recipients, TypeOK
  <2> QED BY <1>7, <2>1 DEF TypeOK, Gathered, room, past
<1>8. ASSUME NEW b \in Broadcast, NEW c \in Sid, Deliver(b, c) PROVE TypeOK'
  BY <1>8 DEF TypeOK, Deliver, room, past
<1>9. ASSUME NEW b \in Broadcast, Finish(b) PROVE TypeOK'
  BY <1>9 DEF TypeOK, Finish, room, past
<1>10. CASE UNCHANGED vars
  BY <1>10 DEF TypeOK, vars
<1> QED BY <1>1, <1>2, <1>3, <1>4, <1>5, <1>6, <1>7, <1>8, <1>9, <1>10
        DEF Next, Environment, Progress

\* Every variable of the broadcasts keeps its type (the state read and
\* assigned by emit_to_permitted).
THEOREM BroadcastTypes == Spec => []TypeOK
<1>1. Init => TypeOK
  BY DataAssumption, ChangesAssumption DEF Init, TypeOK
<1>2. QED BY <1>1, TypeStep, PTL DEF Spec

-----------------------------------------------------------------------------
(* Soundness: who gets an event was entitled to it.                        *)

\* What a running broadcast has read was true at some moment of it, and so
\* are the verdicts; nothing is left to be emitted by one that is over.
SoundSnapshot(b) ==
  /\ Running(b) => /\ \A c \in audience[b] :
                        Matches(captured[b][c], data[b]) => c \in eligible[b]
                   /\ reader \subseteq reading[b]
  /\ stage[b] = "done" => todo[b] = {}
  /\ verdict[b] \subseteq reading[b]

\* Every sid an event is emitted to, or will be.
SoundDelivery(b) ==
  \A c \in todo[b] \cup delivered[b] :
    c \in eligible[b] /\ UserOf[c] \in reading[b]

Soundness == \A b \in Broadcast : SoundSnapshot(b) /\ SoundDelivery(b)

\* A change only adds to what was true at some time.
LEMMA ChangeSound ==
  ASSUME TypeOK, Soundness, Change, UNCHANGED tasks
  PROVE  Soundness'
<1> SUFFICES ASSUME NEW b \in Broadcast
             PROVE  SoundSnapshot(b)' /\ SoundDelivery(b)'
  BY DEF Soundness
<1>1. SoundSnapshot(b) /\ SoundDelivery(b)
  BY DEF Soundness
<1>2. /\ eligible[b] \subseteq eligible'[b]
      /\ reading[b] \subseteq reading'[b]
      /\ Running(b) => reader' \subseteq reading'[b]
  BY DEF Change, TypeOK
<1>3. /\ Running(b)' <=> Running(b)
      /\ stage'[b] = stage[b] /\ audience'[b] = audience[b]
      /\ captured'[b] = captured[b] /\ data'[b] = data[b]
      /\ todo'[b] = todo[b] /\ delivered'[b] = delivered[b]
      /\ verdict'[b] = verdict[b]
  BY DEF tasks, Running
<1>4. SoundSnapshot(b)'
  BY <1>1, <1>2, <1>3 DEF SoundSnapshot, Matches
<1>5. SoundDelivery(b)'
  BY <1>1, <1>2, <1>3 DEF SoundDelivery
<1> QED BY <1>4, <1>5

\* Soundness of a broadcast speaks only of its own state.
LEMMA SoundFrame ==
  ASSUME NEW a \in Broadcast, SoundSnapshot(a), SoundDelivery(a),
         reader' = reader,
         stage'[a] = stage[a], audience'[a] = audience[a],
         captured'[a] = captured[a], data'[a] = data[a], todo'[a] = todo[a],
         delivered'[a] = delivered[a], verdict'[a] = verdict[a],
         eligible'[a] = eligible[a], reading'[a] = reading[a]
  PROVE  SoundSnapshot(a)' /\ SoundDelivery(a)'
BY DEF SoundSnapshot, SoundDelivery, Running, Matches

LEMMA SoundStep == TypeOK /\ Soundness /\ [Next]_vars => Soundness'
<1> SUFFICES ASSUME TypeOK, Soundness, [Next]_vars PROVE Soundness'
  OBVIOUS
<1>1. ASSUME Environment PROVE Soundness'
  BY <1>1, ChangeSound DEF Environment, Subscribe, Leave, Grant, Revoke
<1>2. ASSUME NEW b \in Broadcast, NEW d \in Data \cup {NoData}, Start(b, d)
      PROVE  Soundness'
  <2> SUFFICES ASSUME NEW a \in Broadcast
               PROVE  SoundSnapshot(a)' /\ SoundDelivery(a)'
    BY DEF Soundness
  <2>1. SoundSnapshot(a) /\ SoundDelivery(a)
    BY DEF Soundness
  <2>2. CASE a # b
    BY <1>2, <2>1, <2>2, SoundFrame DEF Start, room, TypeOK
  <2>3. CASE a = b
    <3>1. /\ todo'[b] = {} /\ delivered'[b] = {} /\ verdict'[b] = {}
          /\ reading'[b] = reader /\ reader' = reader
          /\ audience'[b] = member /\ data'[b] = d
          /\ eligible'[b] = Entitled(member, clauses, d)
      BY <1>2, <2>1, <2>3 DEF Start, room, TypeOK, SoundSnapshot
    <3>2. ASSUME NEW c \in member, Matches(captured'[b][c], d)
          PROVE  c \in Entitled(member, clauses, d)
      <4>1. c \in Sid
        BY DEF TypeOK
      <4>2. captured'[b][c] = IF d # NoData THEN clauses[c] ELSE Data
        BY <1>2, <4>1 DEF Start, TypeOK
      <4> QED BY <3>2, <4>2 DEF Matches, Entitled
    <3>3. SoundSnapshot(b)'
      BY <3>1, <3>2 DEF SoundSnapshot, Matches
    <3> QED BY <2>3, <3>1, <3>3 DEF SoundDelivery
  <2> QED BY <2>2, <2>3
<1>3. ASSUME NEW b \in Broadcast, Progress(b) PROVE Soundness'
  <2> SUFFICES ASSUME NEW a \in Broadcast
               PROVE  SoundSnapshot(a)' /\ SoundDelivery(a)'
    BY DEF Soundness
  <2>1. SoundSnapshot(a) /\ SoundDelivery(a)
    BY DEF Soundness
  <2>2. /\ reader' = reader /\ audience' = audience /\ captured' = captured
        /\ data' = data /\ eligible' = eligible /\ reading' = reading
    BY <1>3 DEF Progress, Check, CheckFails, Gathered, Deliver, Finish, room, past
  <2>3. CASE a # b
    <3>1. /\ stage'[a] = stage[a] /\ todo'[a] = todo[a]
          /\ delivered'[a] = delivered[a] /\ verdict'[a] = verdict[a]
      BY <1>3, <2>3 DEF Progress, Check, CheckFails, Gathered, Deliver, Finish,
                        room, past, TypeOK
    <3> QED BY <2>1, <2>2, <3>1, SoundFrame
  <2>4. ASSUME NEW u \in User, Check(b, u), a = b
        PROVE  SoundSnapshot(a)' /\ SoundDelivery(a)'
    <3>1. /\ stage' = stage /\ todo' = todo /\ delivered' = delivered
          /\ verdict'[b] \subseteq verdict[b] \cup reader
          /\ Running(b)
      BY <2>4 DEF Check, TypeOK, Running
    <3>2. verdict'[b] \subseteq reading[b]
      BY <2>1, <2>4, <3>1 DEF SoundSnapshot
    <3>3. SoundSnapshot(b)'
      BY <2>1, <2>2, <2>4, <3>1, <3>2 DEF SoundSnapshot, Running, Matches
    <3>4. SoundDelivery(b)'
      BY <2>1, <2>2, <2>4, <3>1 DEF SoundDelivery
    <3> QED BY <2>4, <3>3, <3>4
  <2>5. ASSUME NEW u \in User, CheckFails(b, u) PROVE SoundSnapshot(a)' /\ SoundDelivery(a)'
    BY <2>1, <2>2, <2>5, SoundFrame DEF CheckFails
  <2>6. ASSUME Gathered(b), a = b PROVE SoundSnapshot(a)' /\ SoundDelivery(a)'
    <3>1. /\ delivered' = delivered /\ verdict' = verdict
          /\ stage'[b] = "emitting" /\ todo'[b] = Recipients(b)
          /\ Running(b)
      BY <2>6 DEF Gathered, TypeOK, Running
    <3>2. \A c \in Recipients(b) : c \in eligible[b] /\ UserOf[c] \in reading[b]
      BY <2>1, <2>6, <3>1 DEF Recipients, SoundSnapshot
    <3>3. SoundSnapshot(b)'
      BY <2>1, <2>2, <2>6, <3>1 DEF SoundSnapshot, Running, Matches
    <3>4. SoundDelivery(b)'
      BY <2>1, <2>2, <2>6, <3>1, <3>2 DEF SoundDelivery
    <3> QED BY <2>6, <3>3, <3>4
  <2>7. ASSUME NEW c \in Sid, Deliver(b, c), a = b
        PROVE  SoundSnapshot(a)' /\ SoundDelivery(a)'
    <3>1. /\ stage' = stage /\ verdict' = verdict /\ stage[b] = "emitting"
          /\ todo'[b] \cup delivered'[b] = todo[b] \cup delivered[b]
      BY <2>7 DEF Deliver, TypeOK
    <3>2. SoundSnapshot(b)'
      BY <2>1, <2>2, <2>7, <3>1 DEF SoundSnapshot, Running, Matches
    <3>3. SoundDelivery(b)'
      BY <2>1, <2>2, <2>7, <3>1 DEF SoundDelivery
    <3> QED BY <2>7, <3>2, <3>3
  <2>8. ASSUME Finish(b), a = b PROVE SoundSnapshot(a)' /\ SoundDelivery(a)'
    <3>1. /\ todo' = todo /\ delivered' = delivered /\ verdict' = verdict
          /\ stage'[b] = "done" /\ todo[b] = {}
      BY <2>8 DEF Finish, TypeOK
    <3>2. SoundSnapshot(b)'
      BY <2>1, <2>2, <2>8, <3>1 DEF SoundSnapshot, Running
    <3>3. SoundDelivery(b)'
      BY <2>1, <2>2, <2>8, <3>1 DEF SoundDelivery
    <3> QED BY <2>8, <3>2, <3>3
  <2> QED BY <1>3, <2>3, <2>4, <2>5, <2>6, <2>7, <2>8 DEF Progress
<1>4. CASE UNCHANGED vars
  BY <1>4, SoundFrame DEF vars, Soundness
<1> QED BY <1>1, <1>2, <1>3, <1>4 DEF Next

LEMMA AlwaysSound == Spec => []Soundness
<1>1. Init => Soundness
  BY DEF Init, Soundness, SoundSnapshot, SoundDelivery, Running
<1> QED BY <1>1, SoundStep, BroadcastTypes, PTL DEF Spec

\* emit_to_permitted emits to a sid only if its user could read the doctype
\* at some moment since the broadcast started: a user revoked before it gets
\* nothing of it.
THEOREM RevocationHolds == Spec => []RevokedReceivesNothing
<1>1. Soundness => RevokedReceivesNothing
  BY DEF Soundness, SoundDelivery, RevokedReceivesNothing
<1> QED BY <1>1, AlwaysSound, PTL

\* emit_to_permitted emits to a sid only if it was, at some moment since the
\* broadcast started, a member with a filter that lets the document through.
THEOREM FiltersHold == Spec => []OnlyMatchingMembersReceive
<1>1. Soundness => OnlyMatchingMembersReceive
  BY DEF Soundness, SoundDelivery, OnlyMatchingMembersReceive
<1> QED BY <1>1, AlwaysSound, PTL

-----------------------------------------------------------------------------
(* Completeness: who was entitled all the time gets the event.             *)

\* The sids a broadcast must not miss.
Owed(b) == {c \in steadfast[b] : UserOf[c] \in trusted[b]}

\* A running broadcast has the steadfast sids in its snapshot, and its
\* trusted users can read now.
FullSnapshot(b) ==
  Running(b) => /\ \A c \in steadfast[b] : /\ c \in audience[b]
                                          /\ Matches(captured[b][c], data[b])
                /\ trusted[b] \subseteq reader

\* At each stage, where a sid it must not miss is to be found.
NobodyLost(b) ==
  \A c \in Owed(b) :
    /\ stage[b] = "checking" => UserOf[c] \in verdict[b] \cup unchecked[b]
    /\ stage[b] = "emitting" => c \in todo[b] \cup delivered[b]
    /\ stage[b] = "done"     => c \in delivered[b]

Completeness == \A b \in Broadcast : FullSnapshot(b) /\ NobodyLost(b)

\* A change only takes away from what was true all the time.
LEMMA ChangeComplete ==
  ASSUME TypeOK, Completeness, Change, UNCHANGED tasks
  PROVE  Completeness'
<1> SUFFICES ASSUME NEW b \in Broadcast
             PROVE  FullSnapshot(b)' /\ NobodyLost(b)'
  BY DEF Completeness
<1>1. FullSnapshot(b) /\ NobodyLost(b)
  BY DEF Completeness
<1>2. /\ steadfast'[b] \subseteq steadfast[b]
      /\ trusted'[b] \subseteq trusted[b]
      /\ Running(b) => trusted'[b] \subseteq reader'
  BY DEF Change, TypeOK
<1>3. /\ Running(b)' <=> Running(b)
      /\ stage'[b] = stage[b] /\ audience'[b] = audience[b]
      /\ captured'[b] = captured[b] /\ data'[b] = data[b]
      /\ todo'[b] = todo[b] /\ delivered'[b] = delivered[b]
      /\ verdict'[b] = verdict[b] /\ unchecked'[b] = unchecked[b]
  BY DEF tasks, Running
<1>4. FullSnapshot(b)'
  BY <1>1, <1>2, <1>3 DEF FullSnapshot, Matches
<1>5. NobodyLost(b)'
  BY <1>1, <1>2, <1>3 DEF NobodyLost, Owed
<1> QED BY <1>4, <1>5

\* Completeness of a broadcast speaks only of its own state.
LEMMA CompleteFrame ==
  ASSUME NEW a \in Broadcast, FullSnapshot(a), NobodyLost(a),
         reader' = reader,
         stage'[a] = stage[a], audience'[a] = audience[a],
         captured'[a] = captured[a], data'[a] = data[a], todo'[a] = todo[a],
         delivered'[a] = delivered[a], verdict'[a] = verdict[a],
         unchecked'[a] = unchecked[a],
         steadfast'[a] = steadfast[a], trusted'[a] = trusted[a]
  PROVE  FullSnapshot(a)' /\ NobodyLost(a)'
BY DEF FullSnapshot, NobodyLost, Owed, Running, Matches

\* The snapshot a broadcast starts with is complete.
LEMMA StartComplete ==
  ASSUME TypeOK, NEW b \in Broadcast, NEW d \in Data \cup {NoData}, Start(b, d)
  PROVE  FullSnapshot(b)' /\ NobodyLost(b)'
<1>1. /\ audience'[b] = member /\ data'[b] = d /\ reader' = reader
      /\ trusted'[b] = reader
      /\ steadfast'[b] = Entitled(member, clauses, d)
      /\ unchecked'[b] = {UserOf[c] : c \in member}
      /\ stage'[b] = IF member = {} THEN "done" ELSE "checking"
  BY DEF Start, room, TypeOK
<1>2. ASSUME NEW c \in Entitled(member, clauses, d)
      PROVE  Matches(captured'[b][c], d)
  <2>1. c \in member /\ c \in Sid /\ Matches(clauses[c], d)
    BY DEF Entitled, TypeOK
  <2>2. captured'[b][c] = IF d # NoData THEN clauses[c] ELSE Data
    BY <2>1 DEF Start, TypeOK
  <2> QED BY <2>1, <2>2 DEF Matches
<1>3. FullSnapshot(b)'
  BY <1>1, <1>2 DEF FullSnapshot, Matches, Entitled
<1>4. NobodyLost(b)'
  BY <1>1 DEF NobodyLost, Owed, Entitled
<1> QED BY <1>3, <1>4

LEMMA CompleteStep == TypeOK /\ Completeness /\ [Next]_vars => Completeness'
<1> SUFFICES ASSUME TypeOK, Completeness, [Next]_vars PROVE Completeness'
  OBVIOUS
<1>1. ASSUME Environment PROVE Completeness'
  BY <1>1, ChangeComplete DEF Environment, Subscribe, Leave, Grant, Revoke
<1>2. ASSUME NEW b \in Broadcast, NEW d \in Data \cup {NoData}, Start(b, d)
      PROVE  Completeness'
  <2> SUFFICES ASSUME NEW a \in Broadcast
               PROVE  FullSnapshot(a)' /\ NobodyLost(a)'
    BY DEF Completeness
  <2>1. FullSnapshot(a) /\ NobodyLost(a)
    BY DEF Completeness
  <2>2. CASE a # b
    BY <1>2, <2>1, <2>2, CompleteFrame DEF Start, room, TypeOK
  <2>3. CASE a = b
    BY <1>2, <2>3, StartComplete
  <2> QED BY <2>2, <2>3
<1>3. ASSUME NEW b \in Broadcast, Progress(b) PROVE Completeness'
  <2> SUFFICES ASSUME NEW a \in Broadcast
               PROVE  FullSnapshot(a)' /\ NobodyLost(a)'
    BY DEF Completeness
  <2>1. FullSnapshot(a) /\ NobodyLost(a)
    BY DEF Completeness
  <2>2. /\ reader' = reader /\ audience' = audience /\ captured' = captured
        /\ data' = data /\ steadfast' = steadfast
        /\ trusted'[a] \subseteq trusted[a]
    BY <1>3 DEF Progress, Check, CheckFails, Gathered, Deliver, Finish, room,
                past, TypeOK
  <2>3. FullSnapshot(a)'
    <3>1. Running(a)' => Running(a)
      BY <1>3 DEF Progress, Check, CheckFails, Gathered, Deliver, Finish, Running,
                  TypeOK
    <3> QED BY <2>1, <2>2, <3>1 DEF FullSnapshot, Matches
  <2>4. CASE a # b
    <3>1. /\ stage'[a] = stage[a] /\ todo'[a] = todo[a]
          /\ delivered'[a] = delivered[a] /\ verdict'[a] = verdict[a]
          /\ unchecked'[a] = unchecked[a] /\ trusted'[a] = trusted[a]
      BY <1>3, <2>4 DEF Progress, Check, CheckFails, Gathered, Deliver, Finish,
                        room, past, TypeOK
    <3> QED BY <2>1, <2>2, <3>1, CompleteFrame
  <2>5. ASSUME NEW u \in User, Check(b, u) \/ CheckFails(b, u), a = b
        PROVE  NobodyLost(a)'
    <3>1. stage' = stage /\ stage[b] = "checking" /\ Running(b)
      BY <2>5 DEF Check, CheckFails, Running
    <3>2. \A v \in trusted'[b] :
            v \in verdict[b] \cup unchecked[b] =>
              v \in verdict'[b] \cup unchecked'[b]
      <4>1. trusted[b] \subseteq reader
        BY <2>1, <2>5, <3>1 DEF FullSnapshot
      <4>2. CASE Check(b, u)
        BY <4>1, <4>2 DEF Check, past, TypeOK
      <4>3. CASE CheckFails(b, u)
        BY <4>3 DEF CheckFails, TypeOK
      <4> QED BY <2>5, <4>2, <4>3
    <3> QED BY <2>1, <2>2, <2>5, <3>1, <3>2 DEF NobodyLost, Owed
  <2>6. ASSUME Gathered(b), a = b PROVE NobodyLost(a)'
    <3>1. /\ stage[b] = "checking" /\ stage'[b] = "emitting"
          /\ todo'[b] = Recipients(b) /\ unchecked[b] = {} /\ Running(b)
      BY <2>6 DEF Gathered, TypeOK, Running
    <3>2. Owed(b) \subseteq Recipients(b)
      BY <2>1, <2>6, <3>1 DEF NobodyLost, FullSnapshot, Owed, Recipients
    <3>3. trusted' = trusted
      BY <2>6 DEF Gathered, past
    <3> QED BY <2>2, <2>6, <3>1, <3>2, <3>3 DEF NobodyLost, Owed
  <2>7. ASSUME NEW c \in Sid, Deliver(b, c), a = b PROVE NobodyLost(a)'
    <3>1. /\ stage' = stage /\ stage[b] = "emitting" /\ trusted' = trusted
          /\ todo'[b] \cup delivered'[b] = todo[b] \cup delivered[b]
      BY <2>7 DEF Deliver, TypeOK, past
    <3> QED BY <2>1, <2>2, <2>7, <3>1 DEF NobodyLost, Owed
  <2>8. ASSUME Finish(b), a = b PROVE NobodyLost(a)'
    <3>1. /\ stage[b] = "emitting" /\ stage'[b] = "done" /\ todo[b] = {}
          /\ delivered' = delivered /\ trusted' = trusted
      BY <2>8 DEF Finish, TypeOK, past
    <3> QED BY <2>1, <2>2, <2>8, <3>1 DEF NobodyLost, Owed
  <2> QED BY <1>3, <2>3, <2>4, <2>5, <2>6, <2>7, <2>8 DEF Progress
<1>4. CASE UNCHANGED vars
  BY <1>4, CompleteFrame DEF vars, Completeness
<1> QED BY <1>1, <1>2, <1>3, <1>4 DEF Next

\* When emit_to_permitted returns, it has emitted to every sid that was a
\* member with a matching filter all the time and whose user could read all
\* the time and was checked without an error.
THEOREM NobodyForgotten == Spec => []SteadyMembersReceive
<1>1. Init => Completeness
  BY DEF Init, Completeness, FullSnapshot, NobodyLost, Owed, Running
<1>2. Completeness => SteadyMembersReceive
  BY DEF Completeness, NobodyLost, Owed, SteadyMembersReceive
<1> QED BY <1>1, <1>2, CompleteStep, BroadcastTypes, PTL DEF Spec

=============================================================================
