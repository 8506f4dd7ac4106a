----------------------- MODULE DocEventBridgeProofs -----------------------
(***************************************************************************)
(* Theorems of DocEventBridge, for any number of servers, documents and    *)
(* transactions, any length of a transaction and any number of faults:     *)
(* whatever is interleaved and whatever fails, a server signals each event *)
(* of a change at most once and in order, in band only what is committed,  *)
(* takes updates in the order of their commits, and loses no fact.         *)
(***************************************************************************)
EXTENDS DocEventBridge, SequenceTheorems, TLAPS

-----------------------------------------------------------------------------
(* The inductive invariant.                                                *)

Running  == {"ready", "hook", "erase"}
Durable  == {"emitting", "done", "cancelled"}
Finished == Durable \cup {"aborted"}

\* How a transaction goes: it writes a document once, and is among the
\* commits once, when it is durable.
TransactionOK(w) ==
  /\ Len(writes[w]) <= MaxWrites
  /\ place[w] = "idle" => writes[w] = <<>>
  /\ place[w] \in {"hook", "erase"} \cup Durable => writes[w] # <<>>
  /\ place[w] \in Durable <=> Committed(w)
  /\ place[w] = "emitting" => home[w] # Outside
  /\ \A i, j \in 1..Len(writes[w]) : writes[w][i].doc = writes[w][j].doc => i = j

\* It holds the rows that it has created or updated.
LocksOK(w) ==
  place[w] \in Running =>
    \A i \in 1..Len(writes[w]) :
      writes[w][i].action # "delete" => locked[writes[w][i].doc] = w

\* What the bridge knows of: a write that has passed its hook, out of band.
Fact(x) ==
  /\ x \in Change
  /\ x[2] <= Len(writes[x[1]])
  /\ home[x[1]] = Outside
  /\ place[x[1]] # "idle"
  /\ place[x[1]] = "hook" => x[2] # Len(writes[x[1]])

\* Of two updates of a document the first was finished before the second was
\* published, and so it was committed first.
InOrder(x, y) ==
  /\ x # y
  /\ WriteOf(x).doc = WriteOf(y).doc /\ "delete" \notin {WriteOf(x).action, WriteOf(y).action} =>
       /\ place[x[1]] \in Finished
       /\ Committed(x[1]) /\ Committed(y[1]) => CommitsBefore(x[1], y[1])

\* What the relay of s was sent, and what it was sent first; the facts that
\* it has taken are before those that wait.
Sent(s, x) == Contains(relayed[s], x) \/ Contains(queue[s], x)

SentBefore(s, x, y) ==
  \/ \E i, j \in 1..Len(relayed[s]) : i < j /\ relayed[s][i] = x /\ relayed[s][j] = y
  \/ Contains(relayed[s], x) /\ Contains(queue[s], y)
  \/ \E i, j \in 1..Len(queue[s]) : i < j /\ queue[s][i] = x /\ queue[s][j] = y

FactsOK(s) ==
  \A x, y \in Change :
    /\ Sent(s, x) => Fact(x)
    /\ SentBefore(s, x, y) => InOrder(x, y)

Events(x) == RelayEvents(WriteOf(x).action)

\* The change x is what a handler of server s was asked for.
Asked(s, x) == home[x[1]] = s /\ x[2] = 1

\* Server s signals of x what its relay has taken, or its handler committed;
\* what it has signalled and what it has still to signal are the events of x.
SignalOK(s, x) ==
  /\ x[2] <= Len(writes[x[1]]) => IsPrefix(signalled[s][x], Events(x))
  /\ signalled[s][x] # <<>> =>
       Contains(relayed[s], x) \/ (Asked(s, x) /\ place[x[1]] \in Durable)
  /\ current[s] = x =>
       /\ Contains(relayed[s], x)
       /\ toRelay[s] # <<>> /\ signalled[s][x] \o toRelay[s] = Events(x)
  /\ Asked(s, x) /\ place[x[1]] = "emitting" =>
       toEmit[x[1]] # <<>> /\ signalled[s][x] \o toEmit[x[1]] = Events(x)
  /\ Asked(s, x) /\ place[x[1]] = "done" => signalled[s][x] = Events(x)

\* Where a fact is that is owed.
OwedOK(s) ==
  \A x \in owed[s] :
    /\ Fact(x)
    /\ Contains(queue[s], x) \/ current[s] = x \/ signalled[s][x] = Events(x)

IInv ==
  /\ TypeOK
  /\ \A w \in Writer : TransactionOK(w) /\ LocksOK(w)
  /\ \A s \in Server : FactsOK(s) /\ OwedOK(s) /\ \A x \in Change : SignalOK(s, x)

-----------------------------------------------------------------------------
(* The events of a change, and what is left of them.                       *)

\* The two ways signal the same events of a change, at least one.
LEMMA SameEvents ==
  ASSUME NEW action \in Action
  PROVE  /\ InbandEvents(action) = RelayEvents(action)
         /\ RelayEvents(action) \in Seq(Event)
         /\ RelayEvents(action) # <<>>
<1>1. Created \in Event /\ Changed \in Event /\ Updated \in Event /\ Deleted \in Event
  BY DEF Event
<1>2. \A e \in Event : <<>> \o <<e>> = <<e>> /\ <<e>> \o <<>> = <<e>>
  OBVIOUS
<1>3. ASSUME NEW e \in Event, NEW f \in Event PROVE <<e>> \o <<f>> = <<e, f>>
  <2> DEFINE a == <<e>> \o <<f>>
             b == <<e, f>>
  <2>1. a \in Seq(Event) /\ b \in Seq(Event) /\ Len(a) = 2 /\ Len(b) = 2
    OBVIOUS
  <2>2. a[1] = b[1] /\ a[2] = b[2]
    OBVIOUS
  <2>3. \A i \in 1..Len(a) : a[i] = b[i]
    <3>1. \A i \in 1..Len(a) : i = 1 \/ i = 2
      BY <2>1
    <3> QED BY <2>2, <3>1
  <2> HIDE DEF a, b
  <2>4. a = b
    BY <2>1, <2>3, SeqEqual
  <2> QED BY <2>4 DEF a, b
<1>4. CASE action = "create"
  BY <1>1, <1>2, <1>3, <1>4 DEF InbandEvents, RelayEvents
<1>5. CASE action = "update"
  <2>1. RelayEvents(action) = (<<>> \o <<Changed>>) \o <<Updated>>
    BY <1>5 DEF RelayEvents
  <2>2. RelayEvents(action) = <<Changed, Updated>>
    BY <1>1, <1>2, <1>3, <2>1
  <2>3. InbandEvents(action) = <<Changed, Updated>>
    BY <1>5 DEF InbandEvents
  <2> QED BY <1>1, <2>2, <2>3
<1>6. CASE action = "delete"
  <2>1. RelayEvents(action) = (<<>> \o <<Changed>>) \o <<Deleted>>
    BY <1>6 DEF RelayEvents
  <2>2. RelayEvents(action) = <<Changed, Deleted>>
    BY <1>1, <1>2, <1>3, <2>1
  <2>3. InbandEvents(action) = <<Changed, Deleted>>
    BY <1>6 DEF InbandEvents
  <2> QED BY <1>1, <2>2, <2>3
<1> QED BY <1>4, <1>5, <1>6 DEF Action

\* One event goes from what is left to what has been signalled; what has been
\* signalled is always a prefix.
LEMMA EventMoves ==
  ASSUME NEW done \in Seq(Event), NEW left \in Seq(Event), left # <<>>
  PROVE  /\ Append(done, Head(left)) \in Seq(Event) /\ Tail(left) \in Seq(Event)
         /\ Append(done, Head(left)) \o Tail(left) = done \o left
         /\ Len(left) = 1 => Append(done, Head(left)) = done \o left
         /\ Len(left) # 1 => Tail(left) # <<>>
         /\ done \o left # done
<1>1. Head(left) \in Event /\ Tail(left) \in Seq(Event) /\ Append(done, Head(left)) \in Seq(Event)
  OBVIOUS
<1>2. Append(done, Head(left)) \o Tail(left) = done \o left
  <2> DEFINE a == Append(done, Head(left)) \o Tail(left)
             b == done \o left
  <2>1. a \in Seq(Event) /\ b \in Seq(Event)
    BY <1>1
  <2>2. Len(a) = Len(b)
    BY <1>1
  <2>3. ASSUME NEW i \in 1..Len(a) PROVE a[i] = b[i]
    <3>1. CASE i <= Len(done)
      BY <1>1, <3>1
    <3>2. CASE i = Len(done) + 1
      BY <1>1, <3>2
    <3>3. CASE i > Len(done) + 1
      <4>1. a[i] = Tail(left)[i - (Len(done) + 1)]
        BY <1>1, <3>3
      <4>2. b[i] = left[i - Len(done)]
        BY <1>1, <3>3, <2>2
      <4> QED BY <1>1, <2>2, <3>3, <4>1, <4>2
    <3> QED BY <3>1, <3>2, <3>3
  <2> HIDE DEF a, b
  <2>4. a = b
    BY <2>1, <2>2, <2>3, SeqEqual
  <2> QED BY <2>4 DEF a, b
<1>3. ASSUME Len(left) = 1 PROVE Append(done, Head(left)) = done \o left
  <2>1. Tail(left) = <<>>
    <3>1. Tail(left) \in Seq(Event) /\ Len(Tail(left)) = 0
      BY <1>3
    <3> QED BY <3>1, EmptySeq
  <2>2. Append(done, Head(left)) \o <<>> = Append(done, Head(left))
    BY <1>1, ConcatEmptySeq
  <2> QED BY <1>2, <2>1, <2>2
<1>4. Len(left) # 1 => Tail(left) # <<>>
  <2>1. Len(Tail(left)) = Len(left) - 1 /\ Len(left) \in Nat
    OBVIOUS
  <2>2. Tail(left) = <<>> => Len(Tail(left)) = Len(<<>>)
    BY Zenon
  <2>3. Len(<<>>) = 0
    OBVIOUS
  <2> QED BY <2>1, <2>2, <2>3
<1>5. done \o left # done
  <2>1. Len(left) # 0 /\ Len(done) \in Nat /\ Len(left) \in Nat
    BY EmptySeq
  <2>2. Len(done \o left) = Len(done) + Len(left)
    OBVIOUS
  <2>3. Len(done \o left) # Len(done)
    BY <2>1, <2>2
  <2> QED BY <2>3
<1> QED BY <1>1, <1>2, <1>3, <1>4, <1>5

\* A part of the events of a change that is signalled first is a prefix of them.
LEMMA PartIsPrefix ==
  ASSUME NEW done \in Seq(Event), NEW left \in Seq(Event)
  PROVE  IsPrefix(done, done \o left)
<1>1. done \o left \in Seq(Event) /\ Len(done) <= Len(done \o left)
  OBVIOUS
<1>2. SubSeq(done, 1, Len(done)) = SubSeq(done \o left, 1, Len(done))
  <2>1. SubSeq(done, 1, Len(done)) \in Seq(Event) /\ SubSeq(done \o left, 1, Len(done)) \in Seq(Event)
    BY <1>1
  <2> QED BY <1>1, <2>1
<1> QED BY <1>1, <1>2 DEF IsPrefix

\* What has the type of a change, and its write.
LEMMA WriteIsTyped ==
  ASSUME TypeOK, NEW x \in Change, x[2] <= Len(writes[x[1]])
  PROVE  /\ x[1] \in Writer /\ x[2] \in 1..Len(writes[x[1]]) /\ x = <<x[1], x[2]>>
         /\ WriteOf(x).doc \in Doc /\ WriteOf(x).action \in Action
         /\ Events(x) \in Seq(Event) /\ Events(x) # <<>>
<1>1. x[1] \in Writer /\ x[2] \in 1..MaxWrites /\ x = <<x[1], x[2]>>
  BY DEF Change
<1>2. x[2] \in 1..Len(writes[x[1]])
  BY <1>1, BoundsAssumption DEF TypeOK
<1>3. writes[x[1]] \in Seq([doc : Doc, action : Action])
  BY <1>1 DEF TypeOK
<1>4. writes[x[1]][x[2]] \in [doc : Doc, action : Action]
  BY <1>2, <1>3, ElementOfSeq
<1> QED BY <1>1, <1>2, <1>4, SameEvents DEF WriteOf, Events

\* The write a transaction is at.
LEMMA LatestIsTyped ==
  ASSUME TypeOK, NEW w \in Writer, TransactionOK(w), writes[w] # <<>>
  PROVE  /\ Latest(w) \in Change /\ Latest(w)[1] = w /\ Latest(w)[2] = Len(writes[w])
         /\ Len(writes[w]) \in 1..MaxWrites
         /\ WriteOf(Latest(w)).doc \in Doc /\ WriteOf(Latest(w)).action \in Action
<1>1. Len(writes[w]) \in 1..MaxWrites
  BY BoundsAssumption DEF TypeOK, TransactionOK
<1>2. Latest(w) \in Change /\ Latest(w)[1] = w /\ Latest(w)[2] = Len(writes[w])
  BY <1>1 DEF Latest, Change
<1>3. Latest(w)[2] <= Len(writes[Latest(w)[1]])
  BY <1>1, <1>2
<1> QED BY <1>1, <1>2, <1>3, WriteIsTyped

\* A fault is counted.
LEMMA FaultIsTyped == TypeOK /\ Fault => faults' \in 0..MaxFaults
  BY BoundsAssumption DEF TypeOK, Fault

\* A write is noted.
LEMMA NoteIsTyped ==
  ASSUME TypeOK, NEW w \in Writer, NEW d \in Doc, NEW action \in Action, Note(w, d, action)
  PROVE  /\ writes' \in [Writer -> Seq([doc : Doc, action : Action])]
         /\ writes'[w] = Append(writes[w], [doc |-> d, action |-> action])
         /\ Len(writes'[w]) = Len(writes[w]) + 1
         /\ writes'[w][Len(writes[w]) + 1] = [doc |-> d, action |-> action]
         /\ \A i \in 1..Len(writes[w]) : writes'[w][i] = writes[w][i]
         /\ \A v \in Writer \ {w} : writes'[v] = writes[v]
<1> DEFINE r == [doc |-> d, action |-> action]
           R == [doc : Doc, action : Action]
<1>1. writes \in [Writer -> Seq(R)] /\ r \in R
  BY DEF TypeOK
<1>2. writes' = [writes EXCEPT ![w] = Append(writes[w], r)]
  BY DEF Note
<1> HIDE DEF r, R
<1>3. writes[w] \in Seq(R) /\ Append(writes[w], r) \in Seq(R)
  BY <1>1
<1>4. writes' \in [Writer -> Seq(R)] /\ writes'[w] = Append(writes[w], r)
      /\ \A v \in Writer \ {w} : writes'[v] = writes[v]
  BY <1>1, <1>2, <1>3
<1>5. /\ Len(writes'[w]) = Len(writes[w]) + 1 /\ writes'[w][Len(writes[w]) + 1] = r
      /\ \A i \in 1..Len(writes[w]) : writes'[w][i] = writes[w][i]
  BY <1>1, <1>3, <1>4, AppendProperties
<1> QED BY <1>4, <1>5 DEF r, R

-----------------------------------------------------------------------------
(* Types.                                                                  *)

\* Every step keeps the types.
LEMMA TypeStep == IInv /\ [Next]_vars => TypeOK'
<1> SUFFICES ASSUME IInv, [Next]_vars PROVE TypeOK'
  OBVIOUS
<1>t. TypeOK
  BY DEF IInv
<1>1. ASSUME NEW w \in Writer, NEW h \in Server \cup {Outside}, Begin(w, h) PROVE TypeOK'
  BY <1>t, <1>1 DEF TypeOK, Begin, db, relay
<1>2. ASSUME NEW w \in Writer, NEW d \in Doc, NEW action \in Action, Write(w, d, action) PROVE TypeOK'
  <2>1. writes' \in [Writer -> Seq([doc : Doc, action : Action])]
    BY <1>t, <1>2, NoteIsTyped DEF Write
  <2> QED BY <1>t, <1>2, <2>1 DEF TypeOK, Write, relay
<1>3. ASSUME NEW w \in Writer, NEW d \in Doc, Trash(w, d) PROVE TypeOK'
  <2>1. writes' \in [Writer -> Seq([doc : Doc, action : Action])]
    BY <1>t, <1>3, NoteIsTyped DEF Trash, Action
  <2> QED BY <1>t, <1>3, <2>1 DEF TypeOK, Trash, db, relay
<1>4. ASSUME NEW w \in Writer, Erase(w) PROVE TypeOK'
  BY <1>t, <1>4 DEF TypeOK, Erase, db, relay
<1>5. ASSUME NEW w \in Writer, Hook(w) PROVE TypeOK'
  <2>1. place[w] = "hook" /\ AfterHook(w)
    BY <1>5 DEF Hook, HookInBand, HookDormant, HookPublishes, HookFails
  <2>2. place' \in [Writer -> {"idle", "ready", "hook", "erase", "emitting", "done", "cancelled", "aborted"}]
    BY <1>t, <2>1 DEF TypeOK, AfterHook
  <2>3. Latest(w) \in Change
    BY <1>t, <2>1, LatestIsTyped DEF IInv, TransactionOK
  <2>4. CASE HookInBand(w)
    BY <1>t, <2>2, <2>3, <2>4 DEF TypeOK, HookInBand, db, relay
  <2>5. CASE HookDormant(w)
    BY <1>t, <2>2, <2>5 DEF TypeOK, HookDormant, db, relay
  <2>6. CASE HookPublishes(w)
    <3>1. queue' \in [Server -> Seq(Change)] /\ owed' \in [Server -> SUBSET Change]
      BY <1>t, <2>3, <2>6 DEF TypeOK, HookPublishes
    <3> QED BY <1>t, <2>2, <2>6, <3>1 DEF TypeOK, HookPublishes, db, relay
  <2>7. CASE HookFails(w)
    BY <1>t, <2>2, <2>7, FaultIsTyped DEF TypeOK, HookFails, db, relay
  <2> QED BY <1>5, <2>4, <2>5, <2>6, <2>7 DEF Hook
<1>6. ASSUME NEW w \in Writer, Commit(w) PROVE TypeOK'
  <2>1. locked' \in [Doc -> Writer \cup {NoWriter}]
    BY <1>t, <1>6 DEF TypeOK, Commit, Released
  <2>2. commits' \in Seq(Writer)
    BY <1>t, <1>6 DEF TypeOK, Commit
  <2>3. toEmit' \in [Writer -> Seq(Event)]
    <3>1. <<w, 1>> \in Change /\ 1 <= Len(writes[w])
      BY <1>t, <1>6, LatestIsTyped, BoundsAssumption DEF IInv, Commit, Change
    <3>2. writes[w][1].action \in Action
      BY <1>t, <3>1, WriteIsTyped DEF WriteOf
    <3>3. InbandEvents(writes[w][1].action) \in Seq(Event)
      BY <3>2, SameEvents
    <3> QED BY <1>t, <1>6, <3>3 DEF TypeOK, Commit
  <2>4. place' \in [Writer -> {"idle", "ready", "hook", "erase", "emitting", "done", "cancelled", "aborted"}]
    BY <1>t, <1>6 DEF TypeOK, Commit
  <2> QED BY <1>t, <1>6, <2>1, <2>2, <2>3, <2>4 DEF TypeOK, Commit, relay
<1>7. ASSUME NEW w \in Writer, Rollback(w) PROVE TypeOK'
  <2>1. locked' \in [Doc -> Writer \cup {NoWriter}]
    BY <1>t, <1>7 DEF TypeOK, Rollback, Released
  <2>2. exists' \in SUBSET Doc
    BY <1>t, <1>7 DEF TypeOK, Rollback
  <2>3. place' \in [Writer -> {"idle", "ready", "hook", "erase", "emitting", "done", "cancelled", "aborted"}]
    BY <1>t, <1>7 DEF TypeOK, Rollback
  <2>4. UNCHANGED <<gate, home, writes, toEmit, queue, connected, current, toRelay, faults, commits,
                    skipped, owed, relayed, signalled>>
    BY <1>7 DEF Rollback, relay
  <2> QED BY <1>t, <2>1, <2>2, <2>3, <2>4 DEF TypeOK
<1>8. ASSUME NEW w \in Writer, EmitInBand(w) PROVE TypeOK'
  <2>1. home[w] \in Server
    BY <1>t, <1>8 DEF TypeOK, IInv, TransactionOK, EmitInBand
  <2>2. <<w, 1>> \in Change
    BY BoundsAssumption DEF Change
  <2>3. toEmit[w] \in Seq(Event) /\ Head(toEmit[w]) \in Event /\ Tail(toEmit[w]) \in Seq(Event)
    BY <1>t, <1>8 DEF TypeOK, EmitInBand
  <2>4. signalled' \in [Server -> [Change -> Seq(Event)]]
    BY <1>t, <1>8, <2>1, <2>2, <2>3 DEF TypeOK, EmitInBand, Signal
  <2>5. toEmit' \in [Writer -> Seq(Event)]
    BY <1>t, <1>8, <2>3 DEF TypeOK, EmitInBand
  <2>6. place' \in [Writer -> {"idle", "ready", "hook", "erase", "emitting", "done", "cancelled", "aborted"}]
    BY <1>t, <1>8 DEF TypeOK, EmitInBand
  <2> QED BY <1>t, <1>8, <2>4, <2>5, <2>6 DEF TypeOK, EmitInBand, db, relay
<1>9. ASSUME NEW w \in Writer, Cancelled(w) PROVE TypeOK'
  <2>1. faults' \in 0..MaxFaults
    BY <1>t, <1>9, FaultIsTyped DEF Cancelled
  <2>2. toEmit' \in [Writer -> Seq(Event)]
    BY <1>t, <1>9 DEF TypeOK, Cancelled
  <2> QED BY <1>t, <1>9, <2>1, <2>2 DEF TypeOK, Cancelled, db, relay
<1>10. ASSUME NEW s \in Server, Dispatch(s) PROVE TypeOK'
  <2>1. /\ queue[s] \in Seq(Change) /\ queue[s] # <<>>
        /\ Head(queue[s]) \in Change /\ Tail(queue[s]) \in Seq(Change)
    BY <1>t, <1>10 DEF TypeOK, Dispatch
  <2>2. Fact(Head(queue[s]))
    <3>1. Contains(queue[s], Head(queue[s]))
      BY <2>1 DEF Contains
    <3> QED BY <2>1, <3>1 DEF IInv, FactsOK, Sent
  <2>3. RelayEvents(WriteOf(Head(queue[s])).action) \in Seq(Event)
    BY <1>t, <2>1, <2>2, WriteIsTyped DEF Fact, Events
  <2>4. /\ queue' \in [Server -> Seq(Change)] /\ relayed' \in [Server -> Seq(Change)]
        /\ current' \in [Server -> Change \cup {NoChange}] /\ toRelay' \in [Server -> Seq(Event)]
    BY <1>t, <1>10, <2>1, <2>3 DEF TypeOK, Dispatch
  <2> QED BY <1>t, <1>10, <2>4 DEF TypeOK, Dispatch, db, work
<1>11. ASSUME NEW s \in Server, EmitRelayed(s) PROVE TypeOK'
  <2>1. toRelay[s] \in Seq(Event) /\ toRelay[s] # <<>> /\ current[s] \in Change
    BY <1>t, <1>11 DEF TypeOK, IInv, SignalOK, EmitRelayed
  <2>2. Head(toRelay[s]) \in Event /\ Tail(toRelay[s]) \in Seq(Event)
    BY <2>1
  <2>3. signalled' \in [Server -> [Change -> Seq(Event)]]
    BY <1>t, <1>11, <2>1, <2>2 DEF TypeOK, EmitRelayed, Signal
  <2>4. toRelay' \in [Server -> Seq(Event)] /\ current' \in [Server -> Change \cup {NoChange}]
    BY <1>t, <1>11, <2>1, <2>2 DEF TypeOK, EmitRelayed
  <2> QED BY <1>t, <1>11, <2>3, <2>4 DEF TypeOK, EmitRelayed, db, work
<1>12. ASSUME NEW s \in Server, RelayFails(s) PROVE TypeOK'
  <2>1. /\ toRelay' \in [Server -> Seq(Event)] /\ current' \in [Server -> Change \cup {NoChange}]
        /\ owed' \in [Server -> SUBSET Change] /\ faults' \in 0..MaxFaults
    BY <1>t, <1>12, BoundsAssumption DEF TypeOK, RelayFails, Fault
  <2> QED BY <1>t, <1>12, <2>1 DEF TypeOK, RelayFails, db, work
<1>13. ASSUME NEW s \in Server, Disconnect(s) PROVE TypeOK'
  <2>1. /\ queue' \in [Server -> Seq(Change)] /\ connected' \in SUBSET Server
        /\ owed' \in [Server -> SUBSET Change] /\ faults' \in 0..MaxFaults
    BY <1>t, <1>13, BoundsAssumption DEF TypeOK, Disconnect, Fault
  <2> QED BY <1>t, <1>13, <2>1 DEF TypeOK, Disconnect, db, work, relay
<1>14. ASSUME NEW s \in Server, Reconnect(s) PROVE TypeOK'
  BY <1>t, <1>14 DEF TypeOK, Reconnect, db, work, relay
<1>15. ASSUME NEW d \in Doc, Turn(d) PROVE TypeOK'
  BY <1>t, <1>15 DEF TypeOK, Turn, db, work, relay
<1>16. ASSUME NEW d \in Doc, NEW state \in {"open", "closed"}, Settle(d, state) PROVE TypeOK'
  BY <1>t, <1>16 DEF TypeOK, Settle, db, work, relay
<1>17. CASE UNCHANGED vars
  BY <1>t, <1>17 DEF TypeOK, vars
<1> QED
  BY <1>1, <1>2, <1>3, <1>4, <1>5, <1>6, <1>7, <1>8, <1>9, <1>10, <1>11, <1>12, <1>13, <1>14,
     <1>15, <1>16, <1>17 DEF Next, Transaction, Relay

-----------------------------------------------------------------------------
(* What any step may do to a transaction, whoever takes it.                *)

\* A transaction goes on: its writes stay, and it writes, commits or is
\* rolled back from the places it may.
Moves(w) ==
  /\ Len(writes[w]) <= Len(writes'[w])
  /\ \A i \in 1..Len(writes[w]) : writes'[w][i] = writes[w][i]
  /\ place[w] \in Finished => place'[w] \in Finished /\ writes'[w] = writes[w]
  /\ place[w] # "idle" => place'[w] # "idle" /\ home'[w] = home[w]
  /\ place'[w] = "hook" => \/ place[w] = "hook" /\ writes'[w] = writes[w]
                           \/ Len(writes'[w]) = Len(writes[w]) + 1
  /\ place[w] \in Durable => place'[w] \in Durable
  /\ place[w] = "idle" => writes'[w] = writes[w]

\* The commits stay and may be followed by that of a transaction that was
\* ready.
CommitsMove ==
  \/ commits' = commits
  \/ \E w \in Writer : place[w] = "ready" /\ place'[w] \in Durable /\ commits' = Append(commits, w)

\* The transactions but w are where they are.
OthersStay(w) ==
  \A v \in Writer \ {w} : place'[v] = place[v] /\ writes'[v] = writes[v] /\ home'[v] = home[v]

\* A step that leaves the transactions alone moves none of them backwards.
LEMMA StayMoves ==
  ASSUME TypeOK, NEW v \in Writer, place'[v] = place[v], writes'[v] = writes[v], home'[v] = home[v]
  PROVE  Moves(v)
<1>1. Len(writes[v]) \in Nat
  BY DEF TypeOK
<1> QED BY <1>1 DEF Moves

\* Whatever the step, a write that was made stays as it was, and a transaction goes
\* forward only.
LEMMA StepMoves ==
  IInv /\ [Next]_vars => (\A w \in Writer : Moves(w)) /\ CommitsMove
<1> SUFFICES ASSUME IInv, [Next]_vars PROVE (\A w \in Writer : Moves(w)) /\ CommitsMove
  OBVIOUS
<1> DEFINE Goal == (\A w \in Writer : Moves(w)) /\ CommitsMove
<1>t. TypeOK
  BY DEF IInv
<1>n. \A w \in Writer : Len(writes[w]) \in Nat
  BY <1>t DEF TypeOK
<1>g. ASSUME NEW w \in Writer, OthersStay(w), Moves(w), CommitsMove PROVE Goal
  <2>1. ASSUME NEW v \in Writer, v # w PROVE Moves(v)
    BY <1>t, <1>g, <2>1, StayMoves DEF OthersStay
  <2> QED BY <1>g, <2>1
<1>u. ASSUME UNCHANGED <<place, writes, home, commits>> PROVE Goal
  <2>1. ASSUME NEW v \in Writer PROVE Moves(v)
    BY <1>t, <1>u, StayMoves
  <2> QED BY <1>u, <2>1 DEF CommitsMove
<1>1. ASSUME NEW w \in Writer, NEW h \in Server \cup {Outside}, Begin(w, h) PROVE Goal
  <2>1. OthersStay(w) /\ place[w] = "idle" /\ place'[w] = "ready" /\ writes' = writes /\ commits' = commits
    BY <1>t, <1>1 DEF Begin, OthersStay, TypeOK
  <2>2. Moves(w) /\ CommitsMove
    BY <1>n, <2>1 DEF Moves, CommitsMove, Durable, Finished
  <2> QED BY <1>g, <2>1, <2>2
<1>2. ASSUME NEW w \in Writer, NEW d \in Doc, NEW action \in Action,
             Write(w, d, action) \/ (Trash(w, d) /\ action = "delete")
      PROVE  Goal
  <2>1. Note(w, d, action) /\ place[w] = "ready" /\ place' = [place EXCEPT ![w] = "hook"]
        /\ home' = home /\ commits' = commits
    BY <1>2 DEF Write, Trash
  <2>2. /\ Len(writes'[w]) = Len(writes[w]) + 1
        /\ \A i \in 1..Len(writes[w]) : writes'[w][i] = writes[w][i]
        /\ \A v \in Writer \ {w} : writes'[v] = writes[v]
    BY <1>t, <2>1, NoteIsTyped
  <2>3. OthersStay(w) /\ place'[w] = "hook"
    BY <1>t, <2>1, <2>2 DEF OthersStay, TypeOK
  <2>4. Moves(w) /\ CommitsMove
    BY <1>n, <2>1, <2>2, <2>3 DEF Moves, CommitsMove, Durable, Finished
  <2> QED BY <1>g, <2>3, <2>4
<1>4. ASSUME NEW w \in Writer, Erase(w) \/ Hook(w) \/ Rollback(w) PROVE Goal
  <2>1. UNCHANGED <<writes, home, commits>>
    BY <1>4 DEF Erase, Hook, HookInBand, HookDormant, HookPublishes, HookFails, Rollback
  <2>2. /\ place[w] \in Running /\ \E p \in {"ready", "erase", "aborted"} : place' = [place EXCEPT ![w] = p]
    BY <1>4 DEF Erase, Hook, HookInBand, HookDormant, HookPublishes, HookFails, Rollback, AfterHook, Running
  <2>3. OthersStay(w) /\ place'[w] \in {"ready", "erase", "aborted"}
    BY <1>t, <2>1, <2>2 DEF OthersStay, TypeOK
  <2>4. Moves(w) /\ CommitsMove
    BY <1>n, <2>1, <2>2, <2>3 DEF Moves, CommitsMove, Durable, Finished, Running
  <2> QED BY <1>g, <2>3, <2>4
<1>5. ASSUME NEW w \in Writer, Commit(w) PROVE Goal
  <2>1. UNCHANGED <<writes, home>> /\ commits' = Append(commits, w) /\ place[w] = "ready"
        /\ \E p \in {"done", "emitting"} : place' = [place EXCEPT ![w] = p]
    BY <1>5 DEF Commit
  <2>3. OthersStay(w) /\ place'[w] \in {"done", "emitting"}
    BY <1>t, <2>1 DEF OthersStay, TypeOK
  <2>4. Moves(w) /\ CommitsMove
    BY <1>n, <2>1, <2>3 DEF Moves, CommitsMove, Durable, Finished
  <2> QED BY <1>g, <2>3, <2>4
<1>6. ASSUME NEW w \in Writer, EmitInBand(w) \/ Cancelled(w) PROVE Goal
  <2>1. UNCHANGED <<writes, home, commits>> /\ place[w] = "emitting"
        /\ \E p \in Durable : place' = [place EXCEPT ![w] = p]
    BY <1>6 DEF EmitInBand, Cancelled, Durable
  <2>3. OthersStay(w) /\ place'[w] \in Durable
    BY <1>t, <2>1 DEF OthersStay, TypeOK
  <2>4. Moves(w) /\ CommitsMove
    BY <1>n, <2>1, <2>3 DEF Moves, CommitsMove, Durable, Finished
  <2> QED BY <1>g, <2>3, <2>4
<1>7. ASSUME NEW s \in Server, Dispatch(s) \/ EmitRelayed(s) \/ RelayFails(s) \/ Disconnect(s) \/ Reconnect(s)
      PROVE  Goal
  <2>1. UNCHANGED <<place, writes, home, commits>>
    BY <1>7 DEF Dispatch, EmitRelayed, RelayFails, Disconnect, Reconnect, work
  <2> QED BY <1>u, <2>1
<1>8. ASSUME NEW d \in Doc, Turn(d) \/ \E state \in {"open", "closed"} : Settle(d, state) PROVE Goal
  <2>1. UNCHANGED <<place, writes, home, commits>>
    BY <1>8 DEF Turn, Settle, work
  <2> QED BY <1>u, <2>1
<1>9. CASE UNCHANGED vars
  BY <1>9, <1>u DEF vars
<1> QED
  BY <1>1, <1>2, <1>4, <1>5, <1>6, <1>7, <1>8, <1>9 DEF Next, Transaction, Relay, Action

-----------------------------------------------------------------------------
(* Transactions, their locks and their commits.                            *)

\* A commit appends the transaction to the order of commits, once.
LEMMA CommitAppends ==
  ASSUME TypeOK, NEW w \in Writer, commits' = Append(commits, w)
  PROVE  /\ \A v : Committed(v)' <=> Committed(v) \/ v = w
         /\ \A u, v : CommitsBefore(u, v) => CommitsBefore(u, v)'
         /\ \A u : Committed(u) => CommitsBefore(u, w)'
<1>1. commits \in Seq(Writer) /\ Len(commits) \in Nat
  BY DEF TypeOK
<1>2. /\ Len(commits') = Len(commits) + 1 /\ commits'[Len(commits) + 1] = w
      /\ \A i \in 1..Len(commits) : commits'[i] = commits[i]
  BY <1>1
<1>3. ASSUME NEW v PROVE Committed(v)' <=> Committed(v) \/ v = w
  <2>1. ASSUME NEW i \in 1..Len(commits'), commits'[i] = v PROVE Committed(v) \/ v = w
    <3>1. i \in 1..Len(commits) \/ i = Len(commits) + 1
      BY <1>1, <1>2
    <3> QED BY <1>2, <2>1, <3>1 DEF Committed, Contains
  <2>2. ASSUME NEW i \in 1..Len(commits), commits[i] = v PROVE Committed(v)'
    <3>1. i \in 1..Len(commits') /\ commits'[i] = v
      BY <1>1, <1>2, <2>2
    <3> QED BY <3>1 DEF Committed, Contains
  <2>3. ASSUME v = w PROVE Committed(v)'
    <3>1. Len(commits) + 1 \in 1..Len(commits')
      BY <1>1, <1>2
    <3> QED BY <1>2, <2>3, <3>1 DEF Committed, Contains
  <2> QED BY <2>1, <2>2, <2>3 DEF Committed, Contains
<1>4. ASSUME NEW u, NEW v, CommitsBefore(u, v) PROVE CommitsBefore(u, v)'
  <2>1. PICK i \in 1..Len(commits), j \in 1..Len(commits) : i < j /\ commits[i] = u /\ commits[j] = v
    BY <1>4 DEF CommitsBefore
  <2>2. i \in 1..Len(commits') /\ j \in 1..Len(commits') /\ commits'[i] = u /\ commits'[j] = v
    BY <1>1, <1>2, <2>1
  <2> QED BY <2>1, <2>2 DEF CommitsBefore
<1>5. ASSUME NEW u, Committed(u) PROVE CommitsBefore(u, w)'
  <2>1. PICK i \in 1..Len(commits) : commits[i] = u
    BY <1>5 DEF Committed, Contains
  <2> DEFINE j == Len(commits) + 1
  <2>2. i \in 1..Len(commits') /\ j \in 1..Len(commits') /\ i < j /\ commits'[i] = u /\ commits'[j] = w
    BY <1>1, <1>2, <2>1
  <2> QED BY <2>2 DEF CommitsBefore
<1> QED BY <1>3, <1>4, <1>5

\* A transaction that stays, while others may commit.
LEMMA TransactionKept ==
  ASSUME NEW v \in Writer, TransactionOK(v), place'[v] = place[v], writes'[v] = writes[v],
         home'[v] = home[v], Committed(v)' <=> Committed(v)
  PROVE  TransactionOK(v)'
  BY DEF TransactionOK

\* Every step keeps the invariant of the transactions.
LEMMA TransactionStep ==
  IInv /\ [Next]_vars => \A w \in Writer : TransactionOK(w)'
<1> SUFFICES ASSUME IInv, [Next]_vars PROVE \A w \in Writer : TransactionOK(w)'
  OBVIOUS
<1> DEFINE Goal == \A w \in Writer : TransactionOK(w)'
<1>t. TypeOK /\ \A w \in Writer : TransactionOK(w)
  BY DEF IInv
<1>n. \A w \in Writer : Len(writes[w]) \in Nat
  BY <1>t DEF TypeOK
<1>g. ASSUME NEW w \in Writer, OthersStay(w), \A v \in Writer \ {w} : Committed(v)' <=> Committed(v),
             TransactionOK(w)'
      PROVE  Goal
  <2>1. ASSUME NEW v \in Writer, v # w PROVE TransactionOK(v)'
    BY <1>t, <1>g, <2>1, TransactionKept DEF OthersStay
  <2> QED BY <1>g, <2>1
<1>c. ASSUME commits' = commits PROVE \A v : Committed(v)' <=> Committed(v)
  BY <1>c DEF Committed
<1>u. ASSUME UNCHANGED <<place, writes, home, commits>> PROVE Goal
  <2>1. ASSUME NEW v \in Writer PROVE TransactionOK(v)'
    BY <1>t, <1>u, <1>c, TransactionKept
  <2> QED BY <2>1
<1>1. ASSUME NEW w \in Writer, NEW h \in Server \cup {Outside}, Begin(w, h) PROVE Goal
  <2>1. OthersStay(w) /\ place[w] = "idle" /\ place'[w] = "ready" /\ writes' = writes /\ commits' = commits
    BY <1>t, <1>1 DEF Begin, OthersStay, TypeOK
  <2>2. TransactionOK(w)'
    BY <1>t, <1>c, <2>1 DEF TransactionOK, Durable
  <2> QED BY <1>g, <1>c, <2>1, <2>2
<1>2. ASSUME NEW w \in Writer, NEW d \in Doc, NEW action \in Action,
             Write(w, d, action) \/ (Trash(w, d) /\ action = "delete")
      PROVE  Goal
  <2>1. /\ Note(w, d, action) /\ place[w] = "ready" /\ place' = [place EXCEPT ![w] = "hook"]
        /\ home' = home /\ commits' = commits
        /\ Len(writes[w]) < MaxWrites /\ d \notin Written(w)
    BY <1>2 DEF Write, Trash
  <2>2. /\ Len(writes'[w]) = Len(writes[w]) + 1
        /\ \A i \in 1..Len(writes[w]) : writes'[w][i] = writes[w][i]
        /\ writes'[w][Len(writes[w]) + 1] = [doc |-> d, action |-> action]
        /\ \A v \in Writer \ {w} : writes'[v] = writes[v]
    BY <1>t, <2>1, NoteIsTyped
  <2>3. OthersStay(w) /\ place'[w] = "hook"
    BY <1>t, <2>1, <2>2 DEF OthersStay, TypeOK
  <2>4. \A i, j \in 1..Len(writes'[w]) : writes'[w][i].doc = writes'[w][j].doc => i = j
    <3>1. \A i \in 1..Len(writes[w]) : writes[w][i].doc # d
      BY <2>1 DEF Written
    <3>2. \A i \in 1..Len(writes'[w]) : i \in 1..Len(writes[w]) \/ i = Len(writes[w]) + 1
      BY <1>n, <2>2
    <3>3. \A i, j \in 1..Len(writes[w]) : writes[w][i].doc = writes[w][j].doc => i = j
      BY <1>t DEF TransactionOK
    <3>4. \A i \in 1..Len(writes[w]) : writes'[w][i].doc = writes[w][i].doc /\ writes'[w][i].doc # d
      BY <2>2, <3>1
    <3>5. writes'[w][Len(writes[w]) + 1].doc = d
      BY <2>2
    <3> QED BY <3>2, <3>3, <3>4, <3>5
  <2>5. Len(writes'[w]) <= MaxWrites /\ writes'[w] # <<>>
    <3>1. Len(writes'[w]) # 0
      BY <1>n, <2>2
    <3>2. writes'[w] # <<>>
      BY <3>1
    <3> QED BY <1>n, <2>1, <2>2, <3>2, BoundsAssumption
  <2>6. ~ Committed(w)
    BY <1>t, <2>1 DEF TransactionOK, Durable
  <2>7. TransactionOK(w)'
    BY <1>c, <2>1, <2>3, <2>4, <2>5, <2>6 DEF TransactionOK, Durable
  <2> QED BY <1>g, <1>c, <2>1, <2>3, <2>7
<1>4. ASSUME NEW w \in Writer, Erase(w) \/ Hook(w) \/ Rollback(w) PROVE Goal
  <2>1. UNCHANGED <<writes, home, commits>>
    BY <1>4 DEF Erase, Hook, HookInBand, HookDormant, HookPublishes, HookFails, Rollback
  <2>2. /\ place[w] \in Running /\ \E p \in {"ready", "erase", "aborted"} : place' = [place EXCEPT ![w] = p]
        /\ place[w] = "ready" => place' = [place EXCEPT ![w] = "aborted"]
    BY <1>4 DEF Erase, Hook, HookInBand, HookDormant, HookPublishes, HookFails, Rollback, AfterHook, Running
  <2>3. /\ OthersStay(w) /\ place'[w] \in {"ready", "erase", "aborted"}
        /\ place[w] = "ready" => place'[w] = "aborted"
    BY <1>t, <2>1, <2>2 DEF OthersStay, TypeOK
  <2>4. TransactionOK(w)'
    BY <1>t, <1>c, <2>1, <2>2, <2>3 DEF TransactionOK, Durable, Running
  <2> QED BY <1>g, <1>c, <2>1, <2>3, <2>4
<1>5. ASSUME NEW w \in Writer, Commit(w) PROVE Goal
  <2>1. UNCHANGED <<writes, home>> /\ commits' = Append(commits, w) /\ place[w] = "ready" /\ writes[w] # <<>>
        /\ place' = [place EXCEPT ![w] = IF home[w] = Outside THEN "done" ELSE "emitting"]
    BY <1>5 DEF Commit
  <2>2. OthersStay(w) /\ place'[w] = IF home[w] = Outside THEN "done" ELSE "emitting"
    BY <1>t, <2>1 DEF OthersStay, TypeOK
  <2>3. \A v : Committed(v)' <=> Committed(v) \/ v = w
    BY <1>t, <2>1, CommitAppends
  <2>4. TransactionOK(w)'
    BY <1>t, <2>1, <2>2, <2>3 DEF TransactionOK, Durable
  <2> QED BY <1>g, <2>2, <2>3, <2>4
<1>6. ASSUME NEW w \in Writer, EmitInBand(w) \/ Cancelled(w) PROVE Goal
  <2>1. UNCHANGED <<writes, home, commits>> /\ place[w] = "emitting"
        /\ \E p \in Durable : place' = [place EXCEPT ![w] = p]
    BY <1>6 DEF EmitInBand, Cancelled, Durable
  <2>3. OthersStay(w) /\ place'[w] \in Durable
    BY <1>t, <2>1 DEF OthersStay, TypeOK
  <2>4. TransactionOK(w)'
    BY <1>t, <1>c, <2>1, <2>3 DEF TransactionOK, Durable
  <2> QED BY <1>g, <1>c, <2>1, <2>3, <2>4
<1>7. ASSUME NEW s \in Server, Dispatch(s) \/ EmitRelayed(s) \/ RelayFails(s) \/ Disconnect(s) \/ Reconnect(s)
      PROVE  Goal
  <2>1. UNCHANGED <<place, writes, home, commits>>
    BY <1>7 DEF Dispatch, EmitRelayed, RelayFails, Disconnect, Reconnect, work
  <2> QED BY <1>u, <2>1
<1>8. ASSUME NEW d \in Doc, Turn(d) \/ \E state \in {"open", "closed"} : Settle(d, state) PROVE Goal
  <2>1. UNCHANGED <<place, writes, home, commits>>
    BY <1>8 DEF Turn, Settle, work
  <2> QED BY <1>u, <2>1
<1>9. CASE UNCHANGED vars
  BY <1>9, <1>u DEF vars
<1> QED
  BY <1>1, <1>2, <1>4, <1>5, <1>6, <1>7, <1>8, <1>9 DEF Next, Transaction, Relay, Action

\* A running transaction that writes nothing and loses no row.
LEMMA LocksKept ==
  ASSUME TypeOK, NEW v \in Writer, LocksOK(v),
         writes'[v] = writes[v],
         place'[v] \in Running => place[v] \in Running,
         \A d \in Doc : locked[d] = v => locked'[d] = v
  PROVE  LocksOK(v)'
<1>1. \A i \in 1..Len(writes[v]) : writes[v][i].doc \in Doc
  <2>1. writes[v] \in Seq([doc : Doc, action : Action])
    BY DEF TypeOK
  <2>2. \A i \in 1..Len(writes[v]) : writes[v][i] \in [doc : Doc, action : Action]
    BY <2>1, ElementOfSeq
  <2> QED BY <2>2
<1> QED BY <1>1 DEF LocksOK

\* Every step keeps the row locks exclusive until the commit.
LEMMA LocksStep ==
  IInv /\ [Next]_vars => \A w \in Writer : LocksOK(w)'
<1> SUFFICES ASSUME IInv, [Next]_vars PROVE \A w \in Writer : LocksOK(w)'
  OBVIOUS
<1> DEFINE Goal == \A w \in Writer : LocksOK(w)'
<1>t. TypeOK /\ \A w \in Writer : TransactionOK(w) /\ LocksOK(w)
  BY DEF IInv
<1>n. \A w \in Writer : Len(writes[w]) \in Nat
  BY <1>t DEF TypeOK
<1>k. ASSUME \A v \in Writer : /\ writes'[v] = writes[v]
                               /\ place'[v] \in Running => place[v] \in Running
                               /\ \A d \in Doc : locked[d] = v => locked'[d] = v
      PROVE  Goal
  BY <1>t, <1>k, LocksKept
<1>1. ASSUME NEW w \in Writer, NEW h \in Server \cup {Outside}, Begin(w, h) PROVE Goal
  <2>1. OthersStay(w) /\ place[w] = "idle" /\ writes' = writes /\ locked' = locked
    BY <1>t, <1>1 DEF Begin, OthersStay, TypeOK, db
  <2>2. LocksOK(w)'
    BY <1>t, <2>1 DEF LocksOK, TransactionOK
  <2>3. ASSUME NEW v \in Writer, v # w PROVE LocksOK(v)'
    BY <1>t, <2>1, <2>3, LocksKept DEF OthersStay
  <2> QED BY <2>2, <2>3
<1>2. ASSUME NEW w \in Writer, NEW d \in Doc, NEW action \in Action,
             Write(w, d, action) \/ (Trash(w, d) /\ action = "delete")
      PROVE  Goal
  <2>1. /\ Note(w, d, action) /\ place[w] = "ready" /\ place' = [place EXCEPT ![w] = "hook"]
        /\ \/ locked[d] = NoWriter /\ locked' = [locked EXCEPT ![d] = w]
           \/ locked' = locked /\ action = "delete"
    BY <1>2 DEF Write, Trash, db
  <2>2. /\ Len(writes'[w]) = Len(writes[w]) + 1
        /\ \A i \in 1..Len(writes[w]) : writes'[w][i] = writes[w][i]
        /\ writes'[w][Len(writes[w]) + 1] = [doc |-> d, action |-> action]
        /\ \A v \in Writer \ {w} : writes'[v] = writes[v]
    BY <1>t, <2>1, NoteIsTyped
  <2>3. \A v \in Writer, e \in Doc : locked[e] = v => locked'[e] = v
    BY <1>t, <2>1, NamesAssumption DEF TypeOK
  <2>4. \A v \in Writer \ {w} : place'[v] = place[v]
    BY <1>t, <2>1 DEF TypeOK
  <2>5. ASSUME NEW v \in Writer, v # w PROVE LocksOK(v)'
    BY <1>t, <2>2, <2>3, <2>4, <2>5, LocksKept
  <2>6. LocksOK(w)'
    <3>1. ASSUME NEW i \in 1..Len(writes[w]), writes[w][i].action # "delete"
          PROVE  locked'[writes[w][i].doc] = w
      <4>1. locked[writes[w][i].doc] = w
        BY <1>t, <2>1, <3>1 DEF LocksOK, Running
      <4>2. writes[w] \in Seq([doc : Doc, action : Action])
        BY <1>t DEF TypeOK
      <4>3. writes[w][i] \in [doc : Doc, action : Action]
        BY <4>2, ElementOfSeq
      <4> QED BY <2>3, <4>1, <4>3
    <3>2. action # "delete" => locked'[d] = w
      BY <1>t, <2>1 DEF TypeOK
    <3>3. \A i \in 1..Len(writes'[w]) : i \in 1..Len(writes[w]) \/ i = Len(writes[w]) + 1
      BY <1>n, <2>2
    <3> QED BY <2>2, <3>1, <3>2, <3>3 DEF LocksOK
  <2> QED BY <2>5, <2>6
<1>3. ASSUME NEW w \in Writer, Erase(w) PROVE Goal
  <2> DEFINE e == WriteOf(Latest(w)).doc
  <2>1. /\ writes' = writes /\ place[w] = "erase" /\ place' = [place EXCEPT ![w] = "ready"]
        /\ locked' = locked \/ (locked[e] = NoWriter /\ locked' = [locked EXCEPT ![e] = w])
    BY <1>3 DEF Erase, db
  <2> HIDE DEF e
  <2>2. \A v \in Writer, d \in Doc : locked[d] = v => locked'[d] = v
    BY <1>t, <2>1, NamesAssumption DEF TypeOK
  <2>3. \A v \in Writer : place'[v] \in Running => place[v] \in Running
    BY <1>t, <2>1 DEF TypeOK, Running
  <2> QED BY <1>k, <2>1, <2>2, <2>3
<1>4. ASSUME NEW w \in Writer, Hook(w) PROVE Goal
  <2>1. writes' = writes /\ locked' = locked /\ place[w] = "hook" /\ \E p : place' = [place EXCEPT ![w] = p]
    BY <1>4 DEF Hook, HookInBand, HookDormant, HookPublishes, HookFails, AfterHook, db
  <2>2. \A v \in Writer : place'[v] \in Running => place[v] \in Running
    BY <1>t, <2>1 DEF TypeOK, Running
  <2> QED BY <1>k, <2>1, <2>2
<1>5. ASSUME NEW w \in Writer, Commit(w) \/ Rollback(w) PROVE Goal
  <2>1. /\ writes' = writes /\ locked' = Released(w)
        /\ \E p \in {"done", "emitting", "aborted"} : place' = [place EXCEPT ![w] = p]
    BY <1>5 DEF Commit, Rollback
  <2>2. OthersStay(w) /\ place'[w] \notin Running
    <3>1. home' = home
      BY <1>5 DEF Commit, Rollback
    <3> QED BY <1>t, <2>1, <3>1 DEF OthersStay, TypeOK, Running
  <2>3. LocksOK(w)'
    BY <2>2 DEF LocksOK
  <2>4. ASSUME NEW v \in Writer, v # w PROVE LocksOK(v)'
    <3>1. \A d \in Doc : locked[d] = v => locked'[d] = v
      BY <2>1, <2>4 DEF Released
    <3> QED BY <1>t, <2>2, <2>4, <3>1, LocksKept DEF OthersStay
  <2> QED BY <2>3, <2>4
<1>6. ASSUME NEW w \in Writer, EmitInBand(w) \/ Cancelled(w) PROVE Goal
  <2>1. writes' = writes /\ locked' = locked /\ \E p \in Durable : place' = [place EXCEPT ![w] = p]
    BY <1>6 DEF EmitInBand, Cancelled, Durable, db
  <2>2. \A v \in Writer : place'[v] \in Running => place[v] \in Running
    BY <1>t, <2>1 DEF TypeOK, Running, Durable
  <2> QED BY <1>k, <2>1, <2>2
<1>7. ASSUME NEW s \in Server, Dispatch(s) \/ EmitRelayed(s) \/ RelayFails(s) \/ Disconnect(s) \/ Reconnect(s)
      PROVE  Goal
  <2>1. UNCHANGED <<place, writes, locked>>
    BY <1>7 DEF Dispatch, EmitRelayed, RelayFails, Disconnect, Reconnect, work, db
  <2> QED BY <1>k, <2>1
<1>8. ASSUME NEW d \in Doc, Turn(d) \/ \E state \in {"open", "closed"} : Settle(d, state) PROVE Goal
  <2>1. UNCHANGED <<place, writes, locked>>
    BY <1>8 DEF Turn, Settle, work, db
  <2> QED BY <1>k, <2>1
<1>9. CASE UNCHANGED vars
  BY <1>9, <1>k DEF vars
<1> QED
  BY <1>1, <1>2, <1>3, <1>4, <1>5, <1>6, <1>7, <1>8, <1>9 DEF Next, Transaction, Relay, Action

-----------------------------------------------------------------------------
(* Facts: what they are about stays, and so does their order.              *)

\* Whatever the step, a fact stays one.
LEMMA FactKept ==
  ASSUME IInv, [Next]_vars, NEW x, Fact(x)
  PROVE  /\ Fact(x)' /\ WriteOf(x)' = WriteOf(x) /\ Events(x)' = Events(x)
<1>1. TypeOK /\ x \in Change
  BY DEF IInv, Fact
<1>2. x[1] \in Writer /\ x[2] \in 1..Len(writes[x[1]])
  BY <1>1, WriteIsTyped DEF Fact
<1>3. Moves(x[1])
  BY <1>2, StepMoves
<1>4. Len(writes[x[1]]) \in Nat /\ Len(writes'[x[1]]) \in Nat
  BY <1>1, <1>2, TypeStep DEF TypeOK
<1>5. WriteOf(x)' = WriteOf(x)
  BY <1>2, <1>3 DEF Moves, WriteOf
<1>6. x[2] <= Len(writes'[x[1]])
  BY <1>2, <1>3, <1>4 DEF Moves
<1>7. home'[x[1]] = Outside /\ place'[x[1]] # "idle"
  BY <1>3 DEF Fact, Moves
<1>8. place'[x[1]] = "hook" => x[2] # Len(writes'[x[1]])
  BY <1>2, <1>3, <1>4 DEF Fact, Moves
<1> QED BY <1>1, <1>5, <1>6, <1>7, <1>8 DEF Fact, Events

\* Two facts stay in order: the first is finished, so only the second can
\* still be committed.
LEMMA OrderKept ==
  ASSUME IInv, [Next]_vars, NEW x, NEW y, Fact(x), Fact(y), InOrder(x, y)
  PROVE  InOrder(x, y)'
<1>1. TypeOK /\ WriteOf(x)' = WriteOf(x) /\ WriteOf(y)' = WriteOf(y)
  BY FactKept DEF IInv
<1>2. x[1] \in Writer /\ y[1] \in Writer
  BY <1>1, WriteIsTyped DEF Fact
<1>3. Moves(x[1]) /\ Moves(y[1]) /\ CommitsMove
  BY <1>2, StepMoves
<1>4. ASSUME WriteOf(x).doc = WriteOf(y).doc, "delete" \notin {WriteOf(x).action, WriteOf(y).action}
      PROVE  /\ place'[x[1]] \in Finished
             /\ Committed(x[1])' /\ Committed(y[1])' => CommitsBefore(x[1], y[1])'
  <2>1. /\ place[x[1]] \in Finished
        /\ Committed(x[1]) /\ Committed(y[1]) => CommitsBefore(x[1], y[1])
    BY <1>4 DEF InOrder
  <2>2. place'[x[1]] \in Finished
    BY <1>3, <2>1 DEF Moves
  <2>3. CASE commits' = commits
    BY <2>1, <2>2, <2>3 DEF Committed, CommitsBefore
  <2>4. ASSUME NEW w \in Writer, place[w] = "ready", commits' = Append(commits, w)
        PROVE  Committed(x[1])' /\ Committed(y[1])' => CommitsBefore(x[1], y[1])'
    <3>1. x[1] # w
      BY <2>1, <2>4 DEF Finished, Durable
    <3> QED BY <1>1, <2>1, <2>4, <3>1, CommitAppends
  <2> QED BY <1>3, <2>2, <2>3, <2>4 DEF CommitsMove
<1> QED BY <1>1, <1>4 DEF InOrder

\* A server that is sent nothing new.
LEMMA FactsKept ==
  ASSUME IInv, [Next]_vars, NEW s \in Server,
         \A x, y \in Change : (Sent(s, x)' => Sent(s, x)) /\ (SentBefore(s, x, y)' => SentBefore(s, x, y))
  PROVE  FactsOK(s)'
<1>1. FactsOK(s)
  BY DEF IInv
<1>2. ASSUME NEW x \in Change, Sent(s, x)' PROVE Fact(x)'
  BY <1>1, <1>2, FactKept DEF FactsOK
<1>3. ASSUME NEW x \in Change, NEW y \in Change, SentBefore(s, x, y)' PROVE InOrder(x, y)'
  <2>1. SentBefore(s, x, y)
    BY <1>3
  <2>2. Sent(s, x) /\ Sent(s, y)
    BY <2>1 DEF SentBefore, Sent, Contains
  <2>3. Fact(x) /\ Fact(y) /\ InOrder(x, y)
    BY <1>1, <2>1, <2>2 DEF FactsOK
  <2> QED BY <2>3, OrderKept
<1> QED BY <1>2, <1>3 DEF FactsOK

\* A server is sent a new fact.
LEMMA FactsAppended ==
  ASSUME IInv, [Next]_vars, NEW s \in Server, NEW new \in Change,
         relayed'[s] = relayed[s], queue'[s] = Append(queue[s], new),
         Fact(new)', \A y : Fact(y) => InOrder(y, new)'
  PROVE  FactsOK(s)'
<1> DEFINE n == Len(queue[s]) + 1
<1>1. FactsOK(s)
  BY DEF IInv
<1>2. /\ Len(queue[s]) \in Nat /\ Len(queue'[s]) = n /\ queue'[s][n] = new
      /\ \A i \in 1..Len(queue[s]) : queue'[s][i] = queue[s][i]
      /\ \A i \in 1..Len(queue'[s]) : i \in 1..Len(queue[s]) \/ i = n
  <2>1. queue[s] \in Seq(Change)
    BY DEF IInv, TypeOK
  <2> QED BY <2>1
<1>3. ASSUME NEW x \in Change, Sent(s, x)' PROVE Sent(s, x) \/ x = new
  BY <1>2, <1>3 DEF Sent, Contains
<1>4. ASSUME NEW x \in Change, NEW y \in Change, SentBefore(s, x, y)'
      PROVE  SentBefore(s, x, y) \/ (Sent(s, x) /\ y = new)
  <2>1. CASE \E i, j \in 1..Len(relayed'[s]) : i < j /\ relayed'[s][i] = x /\ relayed'[s][j] = y
    BY <2>1 DEF SentBefore
  <2>2. CASE Contains(relayed'[s], x) /\ Contains(queue'[s], y)
    <3>1. Contains(relayed[s], x)
      BY <2>2
    <3>2. Contains(queue[s], y) \/ y = new
      BY <1>2, <2>2 DEF Contains
    <3> QED BY <3>1, <3>2 DEF SentBefore, Sent
  <2>3. ASSUME NEW i \in 1..Len(queue'[s]), NEW j \in 1..Len(queue'[s]), i < j,
               queue'[s][i] = x, queue'[s][j] = y
        PROVE  SentBefore(s, x, y) \/ (Sent(s, x) /\ y = new)
    <3>1. i \in 1..Len(queue[s]) /\ queue[s][i] = x
      BY <1>2, <2>3
    <3>2. CASE j = n
      BY <1>2, <2>3, <3>1, <3>2 DEF Sent, Contains
    <3>3. CASE j \in 1..Len(queue[s])
      BY <1>2, <2>3, <3>1, <3>3 DEF SentBefore
    <3> QED BY <1>2, <3>2, <3>3
  <2> QED BY <1>4, <2>1, <2>2, <2>3 DEF SentBefore, Contains
<1>5. ASSUME NEW x \in Change, Sent(s, x)' PROVE Fact(x)'
  BY <1>1, <1>3, <1>5, FactKept DEF FactsOK
<1>6. ASSUME NEW x \in Change, NEW y \in Change, SentBefore(s, x, y)' PROVE InOrder(x, y)'
  <2>1. CASE SentBefore(s, x, y)
    <3>1. Sent(s, x) /\ Sent(s, y)
      BY <2>1 DEF SentBefore, Sent, Contains
    <3>2. Fact(x) /\ Fact(y) /\ InOrder(x, y)
      BY <1>1, <2>1, <3>1 DEF FactsOK
    <3> QED BY <3>2, OrderKept
  <2>2. CASE Sent(s, x) /\ y = new
    BY <1>1, <2>2 DEF FactsOK
  <2> QED BY <1>4, <1>6, <2>1, <2>2
<1> QED BY <1>5, <1>6 DEF FactsOK

\* The relay takes the first of the facts it was sent: it was sent the same
\* facts as before, in the same order.
LEMMA FactsDispatched ==
  ASSUME IInv, [Next]_vars, NEW s \in Server, Dispatch(s)
  PROVE  FactsOK(s)'
<1> DEFINE first == Head(queue[s])
           n == Len(relayed[s]) + 1
<1>1. queue[s] \in Seq(Change) /\ relayed[s] \in Seq(Change) /\ queue[s] # <<>>
  BY DEF IInv, TypeOK, Dispatch
<1>2. relayed'[s] = Append(relayed[s], first) /\ queue'[s] = Tail(queue[s])
  BY DEF IInv, TypeOK, Dispatch
<1>3. /\ Len(relayed[s]) \in Nat /\ Len(relayed'[s]) = n /\ relayed'[s][n] = first
      /\ \A i \in 1..Len(relayed[s]) : relayed'[s][i] = relayed[s][i]
      /\ \A i \in 1..Len(relayed'[s]) : i \in 1..Len(relayed[s]) \/ i = n
  BY <1>1, <1>2
<1>4. /\ Len(queue[s]) \in Nat /\ 1 \in 1..Len(queue[s]) /\ first = queue[s][1]
      /\ Len(queue'[s]) = Len(queue[s]) - 1
      /\ \A i \in 1..Len(queue'[s]) : i + 1 \in 1..Len(queue[s]) /\ queue'[s][i] = queue[s][i + 1]
  BY <1>1, <1>2
<1> HIDE DEF first
<1>5. ASSUME NEW x, Contains(relayed'[s], x) PROVE Contains(relayed[s], x) \/ x = first
  BY <1>3, <1>5 DEF Contains
<1>6. ASSUME NEW x, Contains(queue'[s], x)
      PROVE  Contains(queue[s], x) /\ \E j \in 1..Len(queue[s]) : 1 < j /\ queue[s][j] = x
  <2>1. PICK i \in 1..Len(queue'[s]) : queue'[s][i] = x
    BY <1>6 DEF Contains
  <2>2. i + 1 \in 1..Len(queue[s]) /\ queue[s][i + 1] = x /\ 1 < i + 1
    BY <1>4, <2>1
  <2> QED BY <2>2 DEF Contains
<1>7. Contains(queue[s], first)
  BY <1>4 DEF Contains
<1>8. ASSUME NEW x \in Change, Sent(s, x)' PROVE Sent(s, x)
  <2>1. Contains(relayed'[s], x) \/ Contains(queue'[s], x)
    BY <1>8 DEF Sent, Contains
  <2> QED BY <1>5, <1>6, <1>7, <2>1 DEF Sent
<1>9. ASSUME NEW x \in Change, NEW y \in Change, SentBefore(s, x, y)' PROVE SentBefore(s, x, y)
  <2>1. ASSUME NEW i \in 1..Len(relayed'[s]), NEW j \in 1..Len(relayed'[s]), i < j,
               relayed'[s][i] = x, relayed'[s][j] = y
        PROVE  SentBefore(s, x, y)
    <3>1. i \in 1..Len(relayed[s]) /\ relayed[s][i] = x
      BY <1>3, <2>1
    <3>2. CASE j \in 1..Len(relayed[s])
      BY <1>3, <2>1, <3>1, <3>2 DEF SentBefore
    <3>3. CASE j = n
      BY <1>3, <1>7, <2>1, <3>1, <3>3 DEF SentBefore, Contains
    <3> QED BY <1>3, <3>2, <3>3
  <2>2. ASSUME Contains(relayed'[s], x), Contains(queue'[s], y) PROVE SentBefore(s, x, y)
    <3>1. PICK j \in 1..Len(queue[s]) : 1 < j /\ queue[s][j] = y
      BY <1>6, <2>2
    <3>2. CASE Contains(relayed[s], x)
      BY <1>6, <2>2, <3>2 DEF SentBefore
    <3>3. CASE x = first
      BY <1>4, <3>1, <3>3 DEF SentBefore
    <3> QED BY <1>5, <2>2, <3>2, <3>3
  <2>3. ASSUME NEW i \in 1..Len(queue'[s]), NEW j \in 1..Len(queue'[s]), i < j,
               queue'[s][i] = x, queue'[s][j] = y
        PROVE  SentBefore(s, x, y)
    <3>1. /\ i + 1 \in 1..Len(queue[s]) /\ j + 1 \in 1..Len(queue[s]) /\ i + 1 < j + 1
          /\ queue[s][i + 1] = x /\ queue[s][j + 1] = y
      BY <1>4, <2>3
    <3> QED BY <3>1 DEF SentBefore
  <2> QED BY <1>9, <2>1, <2>2, <2>3 DEF SentBefore, Contains
<1> QED BY <1>8, <1>9, FactsKept

\* What the hook publishes is a fact from now on; whoever updated the same
\* document before, and has passed its hook, has let go of the row.
LEMMA FactPublished ==
  ASSUME IInv, [Next]_vars, NEW w \in Writer, HookPublishes(w), NEW x, x = Latest(w)
  PROVE  x \in Change /\ Fact(x)' /\ \A y : Fact(y) => InOrder(y, x)'
<1>1. TypeOK /\ TransactionOK(w) /\ LocksOK(w) /\ place[w] = "hook" /\ home[w] = Outside
      /\ UNCHANGED <<writes, home, commits>>
  BY DEF IInv, HookPublishes
<1>2. place'[w] \in {"ready", "erase"} /\ \A v \in Writer \ {w} : place'[v] = place[v]
  BY <1>1 DEF HookPublishes, AfterHook, TypeOK
<1>3. /\ x \in Change /\ x[1] = w /\ x[2] = Len(writes[w]) /\ Len(writes[w]) \in 1..MaxWrites
      /\ WriteOf(x) = writes[w][Len(writes[w])]
  BY <1>1, LatestIsTyped DEF TransactionOK, WriteOf
<1>4. Len(writes[w]) \in 1..Len(writes[w])
  BY <1>1, <1>3, BoundsAssumption
<1>5. Fact(x)'
  <2>1. x[2] <= Len(writes'[x[1]])
    BY <1>1, <1>3, <1>4, BoundsAssumption
  <2> QED BY <1>1, <1>2, <1>3, <2>1 DEF Fact
<1>6. ASSUME NEW y, Fact(y) PROVE InOrder(y, x)'
  <2>1. y \in Change /\ y[1] \in Writer /\ y[2] \in 1..Len(writes[y[1]]) /\ y = <<y[1], y[2]>>
        /\ WriteOf(y) = writes[y[1]][y[2]] /\ WriteOf(y).doc \in Doc
    BY <1>1, <1>6, WriteIsTyped DEF Fact, WriteOf
  <2>2. x # y
    BY <1>1, <1>3, <1>6 DEF Fact
  <2>3. WriteOf(x)' = WriteOf(x) /\ WriteOf(y)' = WriteOf(y)
    BY <1>1 DEF WriteOf
  <2>4. ~ Committed(w)'
    BY <1>1 DEF Committed, TransactionOK, Durable
  <2>5. ASSUME WriteOf(x).doc = WriteOf(y).doc, WriteOf(x).action # "delete", WriteOf(y).action # "delete"
        PROVE  place'[y[1]] \in Finished
    <3>1. y[1] # w
      BY <1>1, <1>3, <1>4, <1>6, <2>1, <2>5 DEF Fact, TransactionOK
    <3>2. locked[WriteOf(x).doc] = w
      BY <1>1, <1>3, <1>4, <2>5 DEF LocksOK, Running
    <3>3. place[y[1]] \in Running => locked[WriteOf(y).doc] = y[1]
      BY <2>1, <2>5 DEF IInv, LocksOK
    <3>4. place[y[1]] \notin Running /\ place[y[1]] # "idle"
      BY <1>6, <2>5, <3>1, <3>2, <3>3 DEF Fact
    <3>5. place[y[1]] \in Finished
      BY <1>1, <2>1, <3>4 DEF TypeOK, Running, Finished, Durable
    <3> QED BY <1>2, <2>1, <3>1, <3>5
  <2> QED BY <1>3, <2>2, <2>3, <2>4, <2>5 DEF InOrder
<1> QED BY <1>3, <1>5, <1>6

\* Every step keeps the facts that servers were sent, and their order.
LEMMA FactsStep ==
  IInv /\ [Next]_vars => \A s \in Server : FactsOK(s)'
<1> SUFFICES ASSUME IInv, [Next]_vars, NEW s \in Server PROVE FactsOK(s)'
  OBVIOUS
<1>t. TypeOK
  BY DEF IInv
<1>u. ASSUME relayed'[s] = relayed[s], queue'[s] = queue[s] PROVE FactsOK(s)'
  <2>1. \A x, y \in Change : (Sent(s, x)' => Sent(s, x)) /\ (SentBefore(s, x, y)' => SentBefore(s, x, y))
    BY <1>u DEF Sent, SentBefore, Contains
  <2> QED BY <2>1, FactsKept
<1>1. ASSUME NEW w \in Writer, HookPublishes(w) PROVE FactsOK(s)'
  <2>1. PICK x : x = Latest(w)
    OBVIOUS
  <2>2. x \in Change /\ Fact(x)' /\ \A y : Fact(y) => InOrder(y, x)'
    BY <1>1, <2>1, FactPublished
  <2>3. relayed' = relayed /\ queue'[s] = IF s \in connected THEN Append(queue[s], x) ELSE queue[s]
    BY <1>1, <2>1 DEF HookPublishes
  <2> QED BY <1>u, <2>2, <2>3, FactsAppended
<1>2. ASSUME NEW r \in Server, Dispatch(r) PROVE FactsOK(s)'
  <2>1. CASE r = s
    BY <1>2, <2>1, FactsDispatched
  <2>2. CASE r # s
    <3>1. relayed'[s] = relayed[s] /\ queue'[s] = queue[s]
      BY <1>t, <1>2, <2>2 DEF TypeOK, Dispatch
    <3> QED BY <1>u, <3>1
  <2> QED BY <2>1, <2>2
<1>3. ASSUME NEW r \in Server, Disconnect(r) PROVE FactsOK(s)'
  <2>1. CASE r = s
    <3>1. relayed'[s] = relayed[s] /\ queue'[s] = <<>> /\ Len(queue'[s]) = 0
      BY <1>t, <1>3, <2>1 DEF TypeOK, Disconnect
    <3>2. \A x, y \in Change : (Sent(s, x)' => Sent(s, x)) /\ (SentBefore(s, x, y)' => SentBefore(s, x, y))
      BY <3>1 DEF Sent, SentBefore, Contains
    <3> QED BY <3>2, FactsKept
  <2>2. CASE r # s
    <3>1. relayed'[s] = relayed[s] /\ queue'[s] = queue[s]
      BY <1>t, <1>3, <2>2 DEF TypeOK, Disconnect
    <3> QED BY <1>u, <3>1
  <2> QED BY <2>1, <2>2
<1>4. ASSUME UNCHANGED <<relayed, queue>> PROVE FactsOK(s)'
  BY <1>4, <1>u
<1>5. ASSUME NEW w \in Writer, Transaction(w) \/ EmitInBand(w) \/ Cancelled(w), ~ HookPublishes(w)
      PROVE  UNCHANGED <<relayed, queue>>
  BY <1>5 DEF Transaction, Begin, Write, Trash, Erase, Hook, HookInBand, HookDormant, HookFails, Commit,
              Rollback, EmitInBand, Cancelled
<1>6. ASSUME NEW r \in Server, EmitRelayed(r) \/ RelayFails(r) \/ Reconnect(r) PROVE UNCHANGED <<relayed, queue>>
  BY <1>6 DEF EmitRelayed, RelayFails, Reconnect
<1>7. ASSUME NEW d \in Doc, Turn(d) \/ \E state \in {"open", "closed"} : Settle(d, state)
      PROVE  UNCHANGED <<relayed, queue>>
  BY <1>7 DEF Turn, Settle
<1> QED
  BY <1>1, <1>2, <1>3, <1>4, <1>5, <1>6, <1>7 DEF Next, Relay, vars

-----------------------------------------------------------------------------
(* What is signalled.                                                      *)

\* Nothing is signalled of a write that has not been made, or by a handler
\* that has not committed; and the relay signals nothing of handlers.
LEMMA NotYetSignalled ==
  ASSUME IInv, NEW s \in Server, NEW x \in Change, signalled[s][x] # <<>>
  PROVE  x[1] \in Writer /\ x[2] <= Len(writes[x[1]]) /\ (home[x[1]] = Outside \/ place[x[1]] \in Durable)
<1>1. x[1] \in Writer
  BY DEF Change
<1>2. SignalOK(s, x) /\ FactsOK(s) /\ TypeOK /\ TransactionOK(x[1])
  BY <1>1 DEF IInv
<1>3. CASE Contains(relayed[s], x)
  BY <1>1, <1>2, <1>3 DEF FactsOK, Sent, Fact
<1>4. CASE Asked(s, x) /\ place[x[1]] \in Durable
  <2>1. writes[x[1]] # <<>> /\ x[2] = 1
    BY <1>2, <1>4 DEF TransactionOK, Asked
  <2>2. Len(writes[x[1]]) >= 1
    BY <1>1, <1>2, <2>1, LatestIsTyped, BoundsAssumption
  <2> QED BY <1>1, <1>4, <2>1, <2>2
<1> QED BY <1>2, <1>3, <1>4 DEF SignalOK

\* The types of what SignalOK is about.
LEMMA SignalIsTyped ==
  ASSUME TypeOK, NEW s \in Server, NEW x \in Change
  PROVE  /\ x[1] \in Writer /\ x[2] \in 1..MaxWrites /\ x = <<x[1], x[2]>>
         /\ signalled[s][x] \in Seq(Event) /\ toRelay[s] \in Seq(Event) /\ toEmit[x[1]] \in Seq(Event)
<1>1. x[1] \in Writer /\ x[2] \in 1..MaxWrites /\ x = <<x[1], x[2]>>
  BY DEF Change
<1> QED BY <1>1 DEF TypeOK

\* A change of which s signals nothing now, and which nobody begins to signal.
LEMMA SignalKept ==
  ASSUME IInv, [Next]_vars, NEW s \in Server, NEW x \in Change,
         signalled'[s][x] = signalled[s][x],
         Contains(relayed[s], x) => Contains(relayed'[s], x),
         current'[s] = x => current[s] = x /\ toRelay'[s] = toRelay[s],
         Asked(s, x)' => \/ place'[x[1]] = place[x[1]] /\ toEmit'[x[1]] = toEmit[x[1]]
                         \/ place'[x[1]] \notin {"emitting", "done"}
  PROVE  SignalOK(s, x)'
<1> DEFINE w == x[1]
<1>1. w \in Writer /\ TypeOK /\ TypeOK' /\ SignalOK(s, x) /\ Moves(w) /\ FactsOK(s)
  BY SignalIsTyped, TypeStep, StepMoves DEF IInv
<1> HIDE DEF w
<1>2. CASE x[2] <= Len(writes[w])
  <2>1. Events(x)' = Events(x)
    <3>1. x[2] \in 1..Len(writes[w])
      BY <1>1, <1>2, WriteIsTyped DEF w
    <3> QED BY <1>1, <3>1 DEF Events, WriteOf, Moves, w
  <2>2. Asked(s, x)' /\ place'[w] \in {"emitting", "done"} => place[w] # "idle"
    BY <1>1 DEF w
  <2>3. place[w] # "idle" => home'[w] = home[w]
    BY <1>1 DEF Moves
  <2>4. signalled'[s][x] # <<>> => Contains(relayed'[s], x) \/ (Asked(s, x)' /\ place'[x[1]] \in Durable)
    BY <1>1, <2>3 DEF SignalOK, Asked, Moves, Durable, w
  <2>5. current'[s] = x =>
          /\ Contains(relayed'[s], x)
          /\ toRelay'[s] # <<>> /\ signalled'[s][x] \o toRelay'[s] = Events(x)'
    BY <1>1, <2>1 DEF SignalOK
  <2>6. Asked(s, x)' /\ place'[x[1]] = "emitting" =>
          toEmit'[x[1]] # <<>> /\ signalled'[s][x] \o toEmit'[x[1]] = Events(x)'
    BY <1>1, <2>1, <2>2, <2>3 DEF SignalOK, Asked, w
  <2>7. Asked(s, x)' /\ place'[x[1]] = "done" => signalled'[s][x] = Events(x)'
    BY <1>1, <2>1, <2>2, <2>3 DEF SignalOK, Asked, w
  <2>8. IsPrefix(signalled'[s][x], Events(x)')
    BY <1>1, <1>2, <2>1 DEF SignalOK, w
  <2> QED BY <2>4, <2>5, <2>6, <2>7, <2>8 DEF SignalOK, Contains, IsPrefix
<1>3. CASE ~ x[2] <= Len(writes[w])
  <2>1. signalled'[s][x] = <<>>
    BY <1>3, NotYetSignalled DEF w
  <2>2. current[s] # x
    BY <1>1, <1>3 DEF SignalOK, FactsOK, Sent, Fact, w
  <2>3. x[2] <= Len(writes'[w]) => IsPrefix(signalled'[s][x], Events(x)')
    <3>1. ASSUME x[2] <= Len(writes'[w]) PROVE Events(x)' \in Seq(Event)
      <4>w. writes'[w] \in Seq([doc : Doc, action : Action])
        BY <1>1 DEF TypeOK
      <4>1. x[2] \in 1..Len(writes'[w])
        <5>1. x[2] \in 1..MaxWrites /\ Len(writes'[w]) \in Nat
          BY <1>1, <4>w, SignalIsTyped
        <5> QED BY <3>1, <5>1, BoundsAssumption
      <4>2. writes'[w][x[2]] \in [doc : Doc, action : Action]
        BY <4>1, <4>w, ElementOfSeq
      <4>3. RelayEvents(writes'[w][x[2]].action) \in Seq(Event)
        BY <4>2, SameEvents
      <4> QED BY <4>3 DEF Events, WriteOf, w
    <3> QED BY <2>1, <3>1, PartIsPrefix DEF IsPrefix
  <2>4. ~ (Asked(s, x)' /\ place'[w] \in {"emitting", "done"})
    <3>1. ASSUME place[w] \in Durable, x[2] = 1 PROVE FALSE
      <4>1. writes[w] # <<>> /\ TransactionOK(w)
        BY <1>1, <3>1 DEF IInv, TransactionOK
      <4>2. Len(writes[w]) >= 1
        BY <1>1, <4>1, LatestIsTyped, BoundsAssumption
      <4> QED BY <1>3, <3>1, <4>2
    <3> QED BY <3>1 DEF Asked, w, Durable
  <2> QED BY <2>1, <2>2, <2>3, <2>4 DEF SignalOK, Asked, Contains, IsPrefix, w
<1> QED BY <1>2, <1>3

\* A handler has committed: it has signalled nothing, and is to signal all.
LEMMA SignalsCommitted ==
  ASSUME IInv, [Next]_vars, NEW w \in Writer, Commit(w), NEW s \in Server, NEW x \in Change, x[1] = w
  PROVE  SignalOK(s, x)'
<1>1. /\ TypeOK /\ UNCHANGED <<writes, home, signalled, relayed, current, toRelay>>
      /\ place[w] = "ready" /\ writes[w] # <<>>
      /\ place'[w] = IF home[w] = Outside THEN "done" ELSE "emitting"
      /\ toEmit'[w] = IF home[w] = Outside THEN <<>> ELSE InbandEvents(writes[w][1].action)
  <2>1. /\ TypeOK /\ UNCHANGED <<writes, home, signalled, relayed, current, toRelay>>
        /\ place[w] = "ready" /\ writes[w] # <<>>
    BY DEF IInv, Commit, relay
  <2>2. place \in [Writer -> {"idle", "ready", "hook", "erase", "emitting", "done", "cancelled", "aborted"}]
        /\ toEmit \in [Writer -> Seq(Event)]
    BY <2>1 DEF TypeOK
  <2>3. place'[w] = IF home[w] = Outside THEN "done" ELSE "emitting"
    BY <2>2 DEF Commit
  <2>4. toEmit'[w] = IF home[w] = Outside THEN <<>> ELSE InbandEvents(writes[w][1].action)
    BY <2>2 DEF Commit
  <2> QED BY <2>1, <2>3, <2>4
<1>2. SignalOK(s, x) /\ s # Outside
  BY NamesAssumption DEF IInv
<1>3. CASE ~ Asked(s, x)
  <2>1. /\ x[2] <= Len(writes'[x[1]]) => IsPrefix(signalled'[s][x], Events(x)')
        /\ signalled'[s][x] # <<>> => Contains(relayed'[s], x) \/ (Asked(s, x)' /\ place'[x[1]] \in Durable)
        /\ current'[s] = x =>
             /\ Contains(relayed'[s], x)
             /\ toRelay'[s] # <<>> /\ signalled'[s][x] \o toRelay'[s] = Events(x)'
        /\ ~ Asked(s, x)'
    BY <1>1, <1>2, <1>3 DEF SignalOK, Asked, Events, WriteOf
  <2> QED BY <2>1 DEF SignalOK, Contains, IsPrefix
<1>4. CASE Asked(s, x)
  <2>1. home[w] = s /\ x[2] = 1
    BY <1>4 DEF Asked
  <2>2. signalled[s][x] = <<>>
    BY <1>1, <1>2, <2>1, NotYetSignalled DEF Durable
  <2>3. current[s] # x
    BY <1>2, <2>1 DEF IInv, SignalOK, FactsOK, Sent, Fact
  <2>4. x[2] <= Len(writes[w])
    <3>1. TransactionOK(w)
      BY DEF IInv
    <3>2. Len(writes[w]) \in 1..MaxWrites
      BY <1>1, <3>1, LatestIsTyped DEF TransactionOK
    <3> QED BY <2>1, <3>2, BoundsAssumption
  <2>5. /\ Events(x)' = Events(x) /\ Events(x) \in Seq(Event) /\ Events(x) # <<>>
        /\ toEmit'[w] = Events(x)
    <3>1. /\ Events(x) \in Seq(Event) /\ Events(x) # <<>> /\ WriteOf(x).action \in Action
      BY <1>1, <2>4, WriteIsTyped
    <3>2. toEmit'[w] = InbandEvents(WriteOf(x).action)
      BY <1>1, <1>2, <2>1 DEF WriteOf
    <3>3. toEmit'[w] = Events(x)
      BY <3>1, <3>2, SameEvents DEF Events
    <3>4. Events(x)' = Events(x)
      BY <1>1 DEF Events, WriteOf
    <3> QED BY <3>1, <3>3, <3>4
  <2>6. signalled'[s][x] \o toEmit'[x[1]] = Events(x)'
    <3>1. <<>> \o Events(x) = Events(x)
      BY <2>5, ConcatEmptySeq
    <3> QED BY <1>1, <2>2, <2>5, <3>1
  <2>7. IsPrefix(signalled'[s][x], Events(x)')
    <3>1. <<>> \in Seq(Event)
      OBVIOUS
    <3>2. IsPrefix(<<>>, Events(x))
      BY <2>5, <3>1, PartIsPrefix, ConcatEmptySeq
    <3> QED BY <1>1, <2>2, <2>5, <3>2
  <2>8. place'[x[1]] = "emitting" /\ current'[s] # x /\ signalled'[s][x] = <<>> /\ toEmit'[x[1]] # <<>>
    BY <1>1, <1>2, <2>1, <2>2, <2>3, <2>5
  <2> QED BY <2>6, <2>7, <2>8 DEF SignalOK, Contains, IsPrefix
<1> QED BY <1>3, <1>4

\* A handler signals the next event.
LEMMA SignalsEmitted ==
  ASSUME IInv, [Next]_vars, NEW w \in Writer, EmitInBand(w), NEW s \in Server, NEW x \in Change, x = <<w, 1>>, s = home[w]
  PROVE  SignalOK(s, x)'
<1> DEFINE done == signalled[s][x]
           left == toEmit[w]
<1>1. TypeOK /\ SignalOK(s, x) /\ s # Outside /\ x[1] = w /\ x[2] = 1 /\ Asked(s, x)
  BY NamesAssumption DEF IInv, Asked
<1>2. /\ writes' = writes /\ home' = home /\ relayed' = relayed /\ current' = current /\ toRelay' = toRelay
      /\ place[w] = "emitting" /\ left # <<>>
      /\ toEmit'[w] = Tail(left)
      /\ place'[w] = IF Len(left) = 1 THEN "done" ELSE "emitting"
  BY <1>1 DEF EmitInBand, TypeOK, relay
<1>3. signalled'[s][x] = Append(done, Head(left))
  BY <1>1 DEF EmitInBand, Signal, TypeOK
<1>4. done \in Seq(Event) /\ left \in Seq(Event) /\ done \o left = Events(x)
  BY <1>1, <1>2, SignalIsTyped DEF SignalOK
<1> HIDE DEF done, left
<1>5. Events(x)' = Events(x)
  BY <1>2 DEF Events, WriteOf
<1>6. current[s] # x
  BY <1>1 DEF IInv, SignalOK, FactsOK, Sent, Fact, Asked
<1>7. /\ Append(done, Head(left)) \in Seq(Event) /\ Tail(left) \in Seq(Event)
      /\ Append(done, Head(left)) \o Tail(left) = Events(x)
      /\ Len(left) = 1 => Append(done, Head(left)) = Events(x)
      /\ Len(left) # 1 => Tail(left) # <<>>
  BY <1>2, <1>4, EventMoves
<1>8. IsPrefix(Append(done, Head(left)), Events(x))
  BY <1>7, PartIsPrefix
<1>9. /\ IsPrefix(signalled'[s][x], Events(x)')
      /\ Asked(s, x)' /\ place'[x[1]] \in Durable
      /\ current'[s] # x
      /\ place'[x[1]] = "emitting" => toEmit'[x[1]] # <<>> /\ signalled'[s][x] \o toEmit'[x[1]] = Events(x)'
      /\ place'[x[1]] = "done" => signalled'[s][x] = Events(x)'
  BY <1>1, <1>2, <1>3, <1>5, <1>6, <1>7, <1>8 DEF Asked, Durable
<1> QED BY <1>9 DEF SignalOK, IsPrefix

\* The relay takes a fact, of which it has signalled nothing yet.
LEMMA SignalsDispatched ==
  ASSUME IInv, [Next]_vars, NEW s \in Server, Dispatch(s), NEW x \in Change, x = Head(queue[s])
  PROVE  SignalOK(s, x)'
<1>1. TypeOK /\ FactsOK(s) /\ SignalOK(s, x) /\ queue[s] # <<>> /\ queue[s] \in Seq(Change) /\ relayed[s] \in Seq(Change)
  BY DEF IInv, Dispatch, TypeOK
<1>2. Contains(queue[s], x)
  <2>1. 1 \in 1..Len(queue[s]) /\ queue[s][1] = x
    BY <1>1
  <2> QED BY <2>1 DEF Contains
<1>3. Fact(x)
  BY <1>1, <1>2 DEF FactsOK, Sent
<1>4. ~ Contains(relayed[s], x)
  BY <1>1, <1>2 DEF FactsOK, SentBefore, InOrder
<1>5. signalled[s][x] = <<>>
  BY <1>1, <1>3, <1>4, NamesAssumption DEF SignalOK, Asked, Fact
<1>6. /\ UNCHANGED <<writes, home, place, signalled>> /\ current'[s] = x
      /\ toRelay'[s] = RelayEvents(WriteOf(x).action) /\ relayed'[s] = Append(relayed[s], x)
  BY <1>1 DEF Dispatch, TypeOK, work
<1>7. /\ Events(x)' = Events(x) /\ toRelay'[s] = Events(x) /\ Events(x) \in Seq(Event) /\ Events(x) # <<>>
  BY <1>1, <1>3, <1>6, WriteIsTyped DEF Events, WriteOf, Fact
<1>8. <<>> \o Events(x) = Events(x) /\ IsPrefix(<<>>, Events(x))
  <2>1. <<>> \in Seq(Event) /\ <<>> \o Events(x) = Events(x)
    BY <1>7, ConcatEmptySeq
  <2> QED BY <1>7, <2>1, PartIsPrefix
<1>9. Contains(relayed'[s], x)
  <2>1. Len(relayed[s]) + 1 \in 1..Len(relayed'[s]) /\ relayed'[s][Len(relayed[s]) + 1] = x
    BY <1>1, <1>6
  <2> QED BY <2>1 DEF Contains
<1>10. ~ Asked(s, x)'
  BY <1>3, <1>6, NamesAssumption DEF Fact, Asked
<1>11. /\ signalled'[s][x] = <<>> /\ IsPrefix(signalled'[s][x], Events(x)')
       /\ toRelay'[s] # <<>> /\ signalled'[s][x] \o toRelay'[s] = Events(x)'
  BY <1>5, <1>6, <1>7, <1>8
<1> QED BY <1>9, <1>10, <1>11 DEF SignalOK, Contains, IsPrefix

\* The relay signals the next event of the change it has taken.
LEMMA SignalsRelayed ==
  ASSUME IInv, [Next]_vars, NEW s \in Server, EmitRelayed(s), NEW x \in Change, current[s] = x
  PROVE  /\ SignalOK(s, x)'
         /\ current'[s] = x \/ signalled'[s][x] = Events(x)'
<1> DEFINE done == signalled[s][x]
           left == toRelay[s]
<1>1. TypeOK /\ FactsOK(s) /\ SignalOK(s, x)
  BY DEF IInv
<1>2. /\ UNCHANGED <<writes, home, place, relayed>>
      /\ toRelay'[s] = Tail(left)
      /\ current'[s] = IF Len(left) = 1 THEN NoChange ELSE x
  BY <1>1 DEF EmitRelayed, TypeOK, work
<1>3. signalled'[s][x] = Append(done, Head(left))
  BY <1>1 DEF EmitRelayed, Signal, TypeOK
<1>4. done \in Seq(Event) /\ left \in Seq(Event) /\ left # <<>> /\ done \o left = Events(x)
  BY <1>1, SignalIsTyped DEF SignalOK
<1> HIDE DEF done, left
<1>5. Events(x)' = Events(x) /\ x # NoChange
  BY <1>2, NamesAssumption DEF Events, WriteOf, Change
<1>6. ~ Asked(s, x)' /\ Contains(relayed[s], x)
  BY <1>1, <1>2, NamesAssumption DEF SignalOK, FactsOK, Sent, Fact, Asked
<1>7. /\ Append(done, Head(left)) \in Seq(Event) /\ Tail(left) \in Seq(Event)
      /\ Append(done, Head(left)) \o Tail(left) = Events(x)
      /\ Len(left) = 1 => Append(done, Head(left)) = Events(x)
      /\ Len(left) # 1 => Tail(left) # <<>>
  BY <1>4, EventMoves
<1>8. IsPrefix(Append(done, Head(left)), Events(x))
  BY <1>7, PartIsPrefix
<1>9. /\ IsPrefix(signalled'[s][x], Events(x)')
      /\ Contains(relayed'[s], x)
      /\ current'[s] = x => toRelay'[s] # <<>> /\ signalled'[s][x] \o toRelay'[s] = Events(x)'
      /\ current'[s] = x \/ signalled'[s][x] = Events(x)'
  BY <1>2, <1>3, <1>5, <1>6, <1>7, <1>8
<1> QED BY <1>6, <1>9 DEF SignalOK, Contains, IsPrefix

\* Every step keeps what has been signalled a prefix of what is to be.
LEMMA SignalsStep ==
  IInv /\ [Next]_vars => \A s \in Server : \A x \in Change : SignalOK(s, x)'
<1> SUFFICES ASSUME IInv, [Next]_vars, NEW s \in Server, NEW x \in Change PROVE SignalOK(s, x)'
  OBVIOUS
<1>t. TypeOK /\ x[1] \in Writer /\ x[2] \in 1..MaxWrites /\ x = <<x[1], x[2]>>
  BY SignalIsTyped DEF IInv
<1>r. relayed[s] \in Seq(Change)
  BY <1>t DEF TypeOK
<1>p. /\ place \in [Writer -> {"idle", "ready", "hook", "erase", "emitting", "done", "cancelled", "aborted"}]
      /\ toEmit \in [Writer -> Seq(Event)]
  BY <1>t DEF TypeOK
<1>k. ASSUME UNCHANGED <<signalled, relayed, current, toRelay>>,
             (place'[x[1]] = place[x[1]] /\ toEmit'[x[1]] = toEmit[x[1]]) \/ place'[x[1]] \notin {"emitting", "done"}
      PROVE  SignalOK(s, x)'
  BY <1>k, SignalKept
<1>1. ASSUME NEW w \in Writer, NEW h \in Server \cup {Outside}, Begin(w, h) PROVE SignalOK(s, x)'
  <2>1. UNCHANGED <<signalled, relayed, current, toRelay, toEmit>> /\ place' = [place EXCEPT ![w] = "ready"]
    BY <1>1 DEF Begin, relay
  <2> QED BY <1>k, <1>t, <1>p, <2>1
<1>2. ASSUME NEW w \in Writer, NEW d \in Doc, NEW action \in Action, Write(w, d, action) \/ Trash(w, d)
      PROVE  SignalOK(s, x)'
  <2>1. UNCHANGED <<signalled, relayed, current, toRelay, toEmit>> /\ place' = [place EXCEPT ![w] = "hook"]
    BY <1>2 DEF Write, Trash, relay
  <2> QED BY <1>k, <1>t, <1>p, <2>1
<1>3. ASSUME NEW w \in Writer, Erase(w) \/ Hook(w) \/ Rollback(w) PROVE SignalOK(s, x)'
  <2>1. UNCHANGED <<signalled, relayed, current, toRelay, toEmit>>
        /\ \E p \in {"ready", "erase", "aborted"} : place' = [place EXCEPT ![w] = p]
    BY <1>3 DEF Erase, Hook, HookInBand, HookDormant, HookPublishes, HookFails, AfterHook, Rollback, relay
  <2> QED BY <1>k, <1>t, <1>p, <2>1
<1>4. ASSUME NEW w \in Writer, Commit(w) PROVE SignalOK(s, x)'
  <2>1. UNCHANGED <<signalled, relayed, current, toRelay>>
        /\ \A v \in Writer \ {w} : place'[v] = place[v] /\ toEmit'[v] = toEmit[v]
    BY <1>4, <1>p DEF Commit, relay
  <2>2. CASE x[1] = w
    BY <1>4, <2>2, SignalsCommitted
  <2> QED BY <1>k, <1>t, <2>1, <2>2
<1>5. ASSUME NEW w \in Writer, EmitInBand(w) PROVE SignalOK(s, x)'
  <2>1. CASE s = home[w] /\ x = <<w, 1>>
    BY <1>5, <2>1, SignalsEmitted
  <2>2. CASE ~ (s = home[w] /\ x = <<w, 1>>)
    <3>1. UNCHANGED <<home, relayed, current, toRelay>>
          /\ \A v \in Writer \ {w} : place'[v] = place[v] /\ toEmit'[v] = toEmit[v]
      BY <1>5, <1>p DEF EmitInBand, relay
    <3>2. signalled'[s][x] = signalled[s][x]
      <4>1. signalled \in [Server -> [Change -> Seq(Event)]]
        BY <1>t DEF TypeOK
      <4>2. signalled' = [signalled EXCEPT ![home[w]][<<w, 1>>] = Append(@, Head(toEmit[w]))]
        BY <1>5 DEF EmitInBand, Signal
      <4> QED BY <2>2, <4>1, <4>2
    <3>3. Asked(s, x)' => x[1] # w
      BY <1>t, <2>2, <3>1 DEF Asked
    <3>4. Asked(s, x)' => place'[x[1]] = place[x[1]] /\ toEmit'[x[1]] = toEmit[x[1]]
      BY <1>t, <3>1, <3>3
    <3> QED BY <3>1, <3>2, <3>4, SignalKept
  <2> QED BY <2>1, <2>2
<1>6. ASSUME NEW w \in Writer, Cancelled(w) PROVE SignalOK(s, x)'
  <2>1. UNCHANGED <<signalled, relayed, current, toRelay>>
        /\ place'[w] = "cancelled"
        /\ \A v \in Writer \ {w} : place'[v] = place[v] /\ toEmit'[v] = toEmit[v]
    BY <1>6, <1>p DEF Cancelled, relay
  <2> QED BY <1>k, <1>t, <2>1
<1>o. ASSUME UNCHANGED <<place, toEmit>>, signalled'[s][x] = signalled[s][x],
             Contains(relayed[s], x) => Contains(relayed'[s], x),
             current'[s] = x => current[s] = x /\ toRelay'[s] = toRelay[s]
      PROVE  SignalOK(s, x)'
  BY <1>o, SignalKept
<1>7. ASSUME NEW r \in Server, Dispatch(r) PROVE SignalOK(s, x)'
  <2>1. CASE r = s /\ x = Head(queue[s])
    BY <1>7, <2>1, SignalsDispatched
  <2>2. CASE r = s /\ x # Head(queue[s])
    <3>1. UNCHANGED <<place, toEmit, signalled>> /\ current'[s] = Head(queue[s])
          /\ relayed'[s] = Append(relayed[s], Head(queue[s])) /\ Head(queue[s]) \in Change
      BY <1>t, <1>7, <2>2 DEF TypeOK, Dispatch, work
    <3>2. Contains(relayed[s], x) => Contains(relayed'[s], x)
      BY <1>r, <3>1 DEF Contains
    <3> QED BY <1>o, <2>2, <3>1, <3>2
  <2>3. CASE r # s
    <3>1. UNCHANGED <<place, toEmit, signalled>> /\ current'[s] = current[s] /\ relayed'[s] = relayed[s]
          /\ toRelay'[s] = toRelay[s]
      BY <1>t, <1>7, <2>3 DEF TypeOK, Dispatch, work
    <3> QED BY <1>o, <3>1
  <2> QED BY <2>1, <2>2, <2>3
<1>8. ASSUME NEW r \in Server, EmitRelayed(r) PROVE SignalOK(s, x)'
  <2>1. CASE r = s /\ current[s] = x
    BY <1>8, <2>1, SignalsRelayed
  <2>2. CASE ~ (r = s /\ current[s] = x)
    <3>1. UNCHANGED <<place, toEmit, relayed>> /\ current[r] # NoChange
      BY <1>8 DEF EmitRelayed, work
    <3>2. signalled'[s][x] = signalled[s][x]
      <4>1. signalled \in [Server -> [Change -> Seq(Event)]] /\ current[r] \in Change
        BY <1>t, <3>1 DEF TypeOK
      <4>2. signalled' = [signalled EXCEPT ![r][current[r]] = Append(@, Head(toRelay[r]))]
        BY <1>8 DEF EmitRelayed, Signal
      <4> QED BY <2>2, <4>1, <4>2
    <3>3. r # s => current'[s] = current[s] /\ toRelay'[s] = toRelay[s]
      BY <1>t, <1>8 DEF TypeOK, EmitRelayed
    <3>4. r = s => current'[s] \in {current[s], NoChange}
      BY <1>t, <1>8 DEF TypeOK, EmitRelayed
    <3>5. current'[s] = x => current[s] = x /\ toRelay'[s] = toRelay[s]
      BY <2>2, <3>3, <3>4, NamesAssumption DEF Change
    <3> QED BY <1>o, <3>1, <3>2, <3>5
  <2> QED BY <2>1, <2>2
<1>9. ASSUME NEW r \in Server, RelayFails(r) PROVE SignalOK(s, x)'
  <2>1. UNCHANGED <<place, toEmit, relayed, signalled>>
    BY <1>9 DEF RelayFails, work
  <2>2. r # s => current'[s] = current[s] /\ toRelay'[s] = toRelay[s]
    BY <1>t, <1>9 DEF TypeOK, RelayFails
  <2>3. r = s => current'[s] = NoChange
    BY <1>t, <1>9 DEF TypeOK, RelayFails
  <2>4. current'[s] = x => current[s] = x /\ toRelay'[s] = toRelay[s]
    BY <2>2, <2>3, NamesAssumption DEF Change
  <2> QED BY <1>o, <2>1, <2>4
<1>10. ASSUME NEW r \in Server, Disconnect(r) \/ Reconnect(r) PROVE SignalOK(s, x)'
  <2>1. UNCHANGED <<signalled, relayed, current, toRelay, place, toEmit>>
    BY <1>10 DEF Disconnect, Reconnect, relay, work
  <2> QED BY <1>k, <2>1
<1>11. ASSUME NEW d \in Doc, Turn(d) \/ \E state \in {"open", "closed"} : Settle(d, state) PROVE SignalOK(s, x)'
  <2>1. UNCHANGED <<signalled, relayed, current, toRelay, place, toEmit>>
    BY <1>11 DEF Turn, Settle, relay, work
  <2> QED BY <1>k, <2>1
<1>12. CASE UNCHANGED vars
  BY <1>12, <1>k DEF vars
<1> QED
  BY <1>1, <1>2, <1>3, <1>4, <1>5, <1>6, <1>7, <1>8, <1>9, <1>10, <1>11, <1>12
     DEF Next, Transaction, Relay, Action

-----------------------------------------------------------------------------
(* What is owed.                                                           *)

\* A fact that is owed is owed still, and is where it was.
LEMMA OwedKept ==
  ASSUME IInv, [Next]_vars, NEW s \in Server,
         owed'[s] \subseteq owed[s],
         \A x \in owed'[s] :
           /\ signalled[s][x] = Events(x) => signalled'[s][x] = Events(x)
           /\ Contains(queue[s], x) => Contains(queue'[s], x) \/ current'[s] = x
           /\ current[s] = x => current'[s] = x \/ signalled'[s][x] = Events(x)
  PROVE  OwedOK(s)'
<1>1. OwedOK(s)
  BY DEF IInv
<1>2. ASSUME NEW x \in owed'[s]
      PROVE  /\ Fact(x)'
             /\ Contains(queue'[s], x) \/ current'[s] = x \/ signalled'[s][x] = Events(x)'
  <2>1. Fact(x) /\ (Contains(queue[s], x) \/ current[s] = x \/ signalled[s][x] = Events(x))
    BY <1>1 DEF OwedOK
  <2>2. Fact(x)' /\ Events(x)' = Events(x)
    BY <2>1, FactKept
  <2> QED BY <2>1, <2>2
<1> QED BY <1>2 DEF OwedOK, Contains

\* Every step keeps an owed fact in the queue or with the relay of its server.
LEMMA OwedStep ==
  IInv /\ [Next]_vars => \A s \in Server : OwedOK(s)'
<1> SUFFICES ASSUME IInv, [Next]_vars, NEW s \in Server PROVE OwedOK(s)'
  OBVIOUS
<1>t. TypeOK /\ OwedOK(s) /\ FactsOK(s) /\ \A x \in Change : SignalOK(s, x)
  BY DEF IInv
<1>q. /\ queue[s] \in Seq(Change) /\ relayed[s] \in Seq(Change) /\ owed[s] \in SUBSET Change
      /\ signalled \in [Server -> [Change -> Seq(Event)]]
  BY <1>t DEF TypeOK
<1>k. ASSUME owed'[s] = owed[s], queue'[s] = queue[s], current'[s] = current[s], signalled'[s] = signalled[s]
      PROVE  OwedOK(s)'
  BY <1>k, OwedKept
<1>1. ASSUME NEW w \in Writer, HookPublishes(w) PROVE OwedOK(s)'
  <2>1. PICK new : new = Latest(w)
    OBVIOUS
  <2>2. new \in Change /\ Fact(new)'
    BY <1>1, <2>1, FactPublished
  <2>3. /\ UNCHANGED <<current, signalled>>
        /\ queue'[s] = IF s \in connected THEN Append(queue[s], new) ELSE queue[s]
        /\ owed'[s] \in {owed[s], IF s \in connected THEN owed[s] \cup {new} ELSE owed[s]}
    BY <1>1, <2>1 DEF HookPublishes, relay
  <2>4. ASSUME NEW x, Contains(queue[s], x) PROVE Contains(queue'[s], x)
    BY <1>q, <2>2, <2>3, <2>4 DEF Contains
  <2>5. s \in connected => Contains(queue'[s], new)
    <3>1. ASSUME s \in connected
          PROVE  Len(queue[s]) + 1 \in 1..Len(queue'[s]) /\ queue'[s][Len(queue[s]) + 1] = new
      BY <1>q, <2>2, <2>3, <3>1
    <3> QED BY <3>1 DEF Contains
  <2>6. ASSUME NEW x \in owed'[s]
        PROVE  /\ Fact(x)'
               /\ Contains(queue'[s], x) \/ current'[s] = x \/ signalled'[s][x] = Events(x)'
    <3>1. CASE x \in owed[s]
      <4>1. Fact(x) /\ (Contains(queue[s], x) \/ current[s] = x \/ signalled[s][x] = Events(x))
        BY <1>t, <3>1 DEF OwedOK
      <4>2. Fact(x)' /\ Events(x)' = Events(x)
        BY <4>1, FactKept
      <4> QED BY <2>3, <2>4, <4>1, <4>2
    <3>2. CASE x = new /\ s \in connected
      BY <2>2, <2>5, <3>2
    <3> QED BY <2>3, <2>6, <3>1, <3>2
  <2> QED BY <2>6 DEF OwedOK, Contains
<1>2. ASSUME NEW w \in Writer, EmitInBand(w) PROVE OwedOK(s)'
  <2>1. UNCHANGED <<owed, queue, current>>
        /\ signalled' = [signalled EXCEPT ![home[w]][<<w, 1>>] = Append(@, Head(toEmit[w]))]
    BY <1>2 DEF EmitInBand, Signal, relay
  <2>2. home[w] # Outside
    BY <1>2 DEF IInv, TransactionOK, EmitInBand
  <2>3. ASSUME NEW x \in owed'[s] PROVE signalled'[s][x] = signalled[s][x]
    <3>1. x \in Change /\ x # <<w, 1>>
      BY <1>t, <2>1, <2>2 DEF OwedOK, Fact
    <3> QED BY <1>q, <2>1, <3>1
  <2> QED BY <2>1, <2>3, OwedKept
<1>3. ASSUME NEW r \in Server, r # s, Dispatch(r) \/ EmitRelayed(r) \/ RelayFails(r) \/ Disconnect(r) PROVE OwedOK(s)'
  BY <1>t, <1>k, <1>3 DEF TypeOK, Dispatch, EmitRelayed, Signal, RelayFails, Disconnect, relay
<1>4. CASE Dispatch(s)
  <2>1. /\ UNCHANGED <<owed, signalled>> /\ current[s] = NoChange /\ current'[s] = Head(queue[s])
        /\ queue'[s] = Tail(queue[s]) /\ queue[s] # <<>>
    BY <1>t, <1>4 DEF TypeOK, Dispatch
  <2>2. ASSUME NEW x, Contains(queue[s], x) PROVE Contains(queue'[s], x) \/ current'[s] = x
    <3>1. PICK i \in 1..Len(queue[s]) : queue[s][i] = x
      BY <2>2 DEF Contains
    <3>2. CASE i = 1
      BY <1>q, <2>1, <3>1, <3>2
    <3>3. CASE i # 1
      <4>1. i - 1 \in 1..Len(queue'[s]) /\ queue'[s][i - 1] = x
        BY <1>q, <2>1, <3>1, <3>3
      <4> QED BY <4>1 DEF Contains
    <3> QED BY <3>2, <3>3
  <2>3. ASSUME NEW x \in owed'[s] PROVE current[s] # x
    BY <1>q, <2>1, <2>3, NamesAssumption DEF Change
  <2> QED BY <2>1, <2>2, <2>3, OwedKept
<1>5. CASE EmitRelayed(s)
  <2>1. PICK y : y = current[s]
    OBVIOUS
  <2>2. /\ UNCHANGED <<owed, queue, writes>> /\ y \in Change
        /\ signalled' = [signalled EXCEPT ![s][y] = Append(@, Head(toRelay[s]))]
    BY <1>t, <1>5, <2>1 DEF TypeOK, EmitRelayed, Signal, work
  <2>3. current'[s] = y \/ signalled'[s][y] = Events(y)'
    BY <1>5, <2>1, <2>2, SignalsRelayed
  <2>4. \A x : Events(x)' = Events(x)
    BY <2>2 DEF Events, WriteOf
  <2>5. ASSUME NEW x \in owed'[s]
        PROVE  /\ signalled[s][x] = Events(x) => signalled'[s][x] = Events(x)
               /\ current[s] = x => current'[s] = x \/ signalled'[s][x] = Events(x)
    <3>1. x \in Change
      BY <1>q, <2>2
    <3>2. CASE x = y
      <4>1. /\ signalled[s][x] \in Seq(Event) /\ toRelay[s] \in Seq(Event) /\ toRelay[s] # <<>>
            /\ signalled[s][x] \o toRelay[s] = Events(x)
        BY <1>t, <2>1, <3>1, <3>2, SignalIsTyped DEF SignalOK
      <4>2. signalled[s][x] # Events(x)
        BY <4>1, EventMoves
      <4> QED BY <2>3, <2>4, <3>2, <4>2
    <3>3. CASE x # y
      BY <1>q, <2>1, <2>2, <3>1, <3>3
    <3> QED BY <3>2, <3>3
  <2> QED BY <2>2, <2>5, OwedKept
<1>6. CASE RelayFails(s)
  <2>1. UNCHANGED <<queue, signalled>> /\ owed'[s] = owed[s] \ {current[s]}
    BY <1>t, <1>6 DEF TypeOK, RelayFails
  <2> QED BY <2>1, OwedKept
<1>7. CASE Disconnect(s)
  <2>1. UNCHANGED <<current, signalled>>
        /\ owed'[s] = {x \in owed[s] : \A i \in 1..Len(queue[s]) : queue[s][i] # x}
    BY <1>t, <1>7 DEF TypeOK, Disconnect, relay
  <2>2. ASSUME NEW x \in owed'[s] PROVE ~ Contains(queue[s], x)
    BY <2>1, <2>2 DEF Contains
  <2> QED BY <2>1, <2>2, OwedKept
<1>8. ASSUME NEW w \in Writer, Transaction(w) \/ Cancelled(w), ~ HookPublishes(w) PROVE OwedOK(s)'
  <2>1. UNCHANGED <<owed, queue, current, signalled>>
    BY <1>8 DEF Transaction, Begin, Write, Trash, Erase, Hook, HookInBand, HookDormant, HookFails, Commit,
                Rollback, Cancelled, relay
  <2> QED BY <1>k, <2>1
<1>9. ASSUME NEW r \in Server, Reconnect(r) PROVE OwedOK(s)'
  BY <1>k, <1>9 DEF Reconnect, relay
<1>10. ASSUME NEW d \in Doc, Turn(d) \/ \E state \in {"open", "closed"} : Settle(d, state) PROVE OwedOK(s)'
  BY <1>k, <1>10 DEF Turn, Settle, relay
<1>11. CASE UNCHANGED vars
  BY <1>11, <1>k DEF vars
<1> QED
  BY <1>1, <1>2, <1>3, <1>4, <1>5, <1>6, <1>7, <1>8, <1>9, <1>10, <1>11 DEF Next, Relay

-----------------------------------------------------------------------------
(* The invariant holds.                                                    *)

\* The invariant holds before anything has been written.
LEMMA IInvInit == Init => IInv
<1> SUFFICES ASSUME Init PROVE IInv
  OBVIOUS
<1>1. TypeOK
  <2>1. home \in [Writer -> Server \cup {Outside}] /\ current \in [Server -> Change \cup {NoChange}]
    BY DEF Init
  <2>2. \A S : <<>> \in Seq(S)
    OBVIOUS
  <2>3. 0 \in 0..MaxFaults
    BY BoundsAssumption
  <2>4. exists \in SUBSET Doc /\ connected \in SUBSET Server /\ skipped \in SUBSET Change /\ faults \in 0..MaxFaults
    BY <2>3 DEF Init
  <2>5. /\ locked \in [Doc -> Writer \cup {NoWriter}]
        /\ gate \in [Doc -> {"open", "turning", "closed"}]
        /\ place \in [Writer -> {"idle", "ready", "hook", "erase", "emitting", "done", "cancelled", "aborted"}]
        /\ owed \in [Server -> SUBSET Change]
    BY DEF Init
  <2>6. /\ writes \in [Writer -> Seq([doc : Doc, action : Action])]
        /\ toEmit \in [Writer -> Seq(Event)]
        /\ queue \in [Server -> Seq(Change)]
        /\ toRelay \in [Server -> Seq(Event)]
        /\ commits \in Seq(Writer)
        /\ relayed \in [Server -> Seq(Change)]
        /\ signalled \in [Server -> [Change -> Seq(Event)]]
    BY <2>2 DEF Init
  <2> QED BY <2>1, <2>4, <2>5, <2>6 DEF TypeOK
<1>2. ASSUME NEW w \in Writer PROVE TransactionOK(w) /\ LocksOK(w)
  <2>1. writes[w] = <<>> /\ place[w] = "idle" /\ ~ Committed(w) /\ Len(writes[w]) = 0
    BY <1>2 DEF Init, Committed, Contains
  <2> QED BY <2>1, BoundsAssumption DEF TransactionOK, LocksOK, Durable, Running
<1>3. ASSUME NEW s \in Server PROVE FactsOK(s) /\ OwedOK(s) /\ \A x \in Change : SignalOK(s, x)
  <2>1. /\ queue[s] = <<>> /\ relayed[s] = <<>> /\ owed[s] = {} /\ current[s] = NoChange
        /\ \A x \in Change : signalled[s][x] = <<>>
        /\ \A w \in Writer : place[w] = "idle" /\ writes[w] = <<>>
    BY <1>3 DEF Init
  <2>2. FactsOK(s)
    BY <2>1 DEF FactsOK, Sent, SentBefore, Contains
  <2>3. ASSUME NEW x \in Change PROVE SignalOK(s, x)
    <3>1. x[1] \in Writer /\ x[2] \in 1..MaxWrites
      BY <1>1, SignalIsTyped
    <3>2. current[s] # x
      BY <2>1, NamesAssumption DEF Change
    <3>3. ~ x[2] <= Len(writes[x[1]])
      BY <2>1, <3>1, BoundsAssumption
    <3> QED BY <2>1, <3>1, <3>2, <3>3 DEF SignalOK
  <2> QED BY <2>1, <2>2, <2>3 DEF OwedOK
<1> QED BY <1>1, <1>2, <1>3 DEF IInv

\* The invariant is inductive: each part is preserved with the help of the others.
LEMMA IInvStep == IInv /\ [Next]_vars => IInv'
  BY TypeStep, TransactionStep, LocksStep, FactsStep, SignalsStep, OwedStep DEF IInv

\* The invariant holds always.
LEMMA Inductive == Spec => []IInv
  BY IInvInit, IInvStep, PTL DEF Spec

-----------------------------------------------------------------------------
(* The theorems.                                                           *)

\* The state of the transactions, of the bridge and of the relays is well
\* formed after any commits, rollbacks, lost connections and cancellations.
THEOREM BridgeIsTyped == Spec => []TypeOK
<1>1. IInv => TypeOK
  BY DEF IInv
<1> QED BY <1>1, Inductive, PTL

\* However a handler, the hook and the relays overlap, no server signals an
\* event of a change twice, or one of them before its turn.
THEOREM SignalsOnceAndInOrder == Spec => []SignalsAreOnceAndInOrder
<1>1. IInv => SignalsAreOnceAndInOrder
  <2> SUFFICES ASSUME IInv, NEW s \in Server, NEW w \in Writer, NEW i \in 1..Len(writes[w])
               PROVE  IsPrefix(signalled[s][<<w, i>>], RelayEvents(writes[w][i].action))
    BY DEF SignalsAreOnceAndInOrder
  <2>1. Len(writes[w]) \in Nat /\ Len(writes[w]) <= MaxWrites
    BY DEF IInv, TypeOK, TransactionOK
  <2>2. PICK x : x = <<w, i>>
    OBVIOUS
  <2>3. x \in Change /\ x[1] = w /\ x[2] = i
    BY <2>1, <2>2, BoundsAssumption DEF Change
  <2>4. SignalOK(s, x) /\ x[2] <= Len(writes[x[1]])
    BY <2>1, <2>3 DEF IInv
  <2> QED BY <2>2, <2>3, <2>4 DEF SignalOK, Events, WriteOf
<1> QED BY <1>1, Inductive, PTL

\* A handler broadcasts after its commit, and the bridge leaves its writes to
\* it: nobody hears of an in-band change that is rolled back.
THEOREM InbandSignalsCommitted == Spec => []InbandSignalsAreCommitted
<1>1. IInv => InbandSignalsAreCommitted
  <2> SUFFICES ASSUME IInv, NEW s \in Server, NEW w \in Writer, NEW i \in 1..MaxWrites,
                      home[w] # Outside, signalled[s][<<w, i>>] # <<>>
               PROVE  Committed(w)
    BY DEF InbandSignalsAreCommitted
  <2>1. PICK x : x = <<w, i>>
    OBVIOUS
  <2>2. x \in Change /\ x[1] = w /\ signalled[s][x] # <<>>
    BY <2>1 DEF Change
  <2>3. place[w] \in Durable
    BY <2>2, NotYetSignalled
  <2> QED BY <2>3 DEF IInv, TransactionOK
<1> QED BY <1>1, Inductive, PTL

\* Row locks are held to the end of a transaction, a fact is published while
\* its lock is held, and queues keep their order: the relays take the updates
\* of a document in the order of their commits.
THEOREM UpdatesAreInCommitOrder == Spec => []UpdatesInCommitOrder
<1>1. IInv => UpdatesInCommitOrder
  <2> SUFFICES ASSUME IInv, NEW s \in Server, NEW j \in 1..Len(relayed[s]), NEW i \in 1..(j - 1),
                      NEW x, NEW y, x = relayed[s][i], y = relayed[s][j],
                      Committed(x[1]), Committed(y[1]), WriteOf(x).doc = WriteOf(y).doc,
                      "delete" \notin {WriteOf(x).action, WriteOf(y).action}
               PROVE  CommitsBefore(x[1], y[1])
    BY DEF UpdatesInCommitOrder
  <2>1. relayed[s] \in Seq(Change)
    BY DEF IInv, TypeOK
  <2>2. i \in 1..Len(relayed[s]) /\ i < j
    BY <2>1
  <2>3. x \in Change /\ y \in Change
    BY <2>1, <2>2
  <2>4. SentBefore(s, x, y)
    BY <2>2 DEF SentBefore
  <2> QED BY <2>3, <2>4 DEF IInv, FactsOK, InOrder
<1> QED BY <1>1, Inductive, PTL

\* A relay that has nothing left to do has signalled to the end each fact it
\* was sent through an open gate, but for those a fault took from it.
THEOREM QuietRelaySignals == Spec => []QuietRelayHasSignalled
<1>1. IInv => QuietRelayHasSignalled
  <2> SUFFICES ASSUME IInv, NEW s \in Server, current[s] = NoChange, queue[s] = <<>>, NEW x \in owed[s]
               PROVE  Signalled(s, x)
    BY DEF QuietRelayHasSignalled
  <2>1. Fact(x) /\ (Contains(queue[s], x) \/ current[s] = x \/ signalled[s][x] = Events(x))
    BY DEF IInv, OwedOK
  <2>2. x # NoChange
    BY <2>1, NamesAssumption DEF Fact, Change
  <2>3. ~ Contains(queue[s], x)
    BY DEF Contains
  <2> QED BY <2>1, <2>2, <2>3 DEF Fact, Signalled, Events
<1> QED BY <1>1, Inductive, PTL

\* A handler that has come to its end has committed what it was asked for
\* and has signalled each event of it on its server.
THEOREM HandlersBroadcast == Spec => []HandlerBroadcasts
<1>1. IInv => HandlerBroadcasts
  <2> SUFFICES ASSUME IInv, NEW w \in Writer, home[w] # Outside, place[w] = "done"
               PROVE  Committed(w) /\ Signalled(home[w], <<w, 1>>)
    BY DEF HandlerBroadcasts
  <2>1. TypeOK /\ TransactionOK(w) /\ home[w] \in Server /\ writes[w] # <<>> /\ Committed(w)
    BY DEF IInv, TypeOK, TransactionOK, Durable
  <2>2. PICK x : x = <<w, 1>>
    OBVIOUS
  <2>3. Len(writes[w]) \in 1..MaxWrites
    BY <2>1, LatestIsTyped
  <2>4. x \in Change /\ x[1] = w /\ x[2] = 1 /\ x[2] <= Len(writes[x[1]])
    BY <2>2, <2>3, BoundsAssumption DEF Change
  <2>5. signalled[home[w]][x] = Events(x)
    BY <2>1, <2>4 DEF IInv, SignalOK, Asked
  <2> QED BY <2>1, <2>2, <2>4, <2>5 DEF Signalled, Events
<1> QED BY <1>1, Inductive, PTL

=============================================================================
