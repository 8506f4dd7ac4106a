-------------------------- MODULE MethodTasksProofs --------------------------
(***************************************************************************)
(* Theorems of MethodTasks: what a caller hears of its job is a part of    *)
(* what happened, whoever disconnects and whatever is lost; and a server   *)
(* process decides about a queue once, however many threads ask.           *)
(* Theorems of MethodExecution: what is done for a caller is done in its   *)
(* name, as one unit of work, however many share the loop and the threads. *)
(***************************************************************************)
EXTENDS MethodTasks, MethodExecution, SequenceTheorems, TLAPS

\* What a worker may publish.
Event == {"progress"} \cup Terminal

\* What a caller may be told.
Word == {"start", "accepted", "progress"} \cup Terminal

-----------------------------------------------------------------------------
(* The inductive invariant.                                                *)

\* Before its thread has pushed the job there is none.
NotPushed == {"idle", "resolve", "lock", "decide", "store", "push"}

\* Who holds the lock decides, and only while there is no decision; what is
\* pushed goes where the decision says.
DecisionOK ==
  /\ \A s \in Server : lock[s] # NoJob => Home[lock[s]] = s
  /\ \A j \in Job :
       /\ lock[Home[j]] = j <=> place[j] \in {"decide", "store"}
       /\ place[j] \in {"decide", "store"} => cached[Home[j]] = "none"
       /\ place[j] = "store" => queue[j] # "none"
       /\ place[j] \in NotPushed => job[j] = "none"
       /\ job[j] # "none" \/ place[j] = "push" =>
            queue[j] # "none" /\ queue[j] = cached[Home[j]]

\* How a call goes, for its caller.
CallOK(j) ==
  /\ place[j] = "idle" => heard[j] = <<>>
  /\ place[j] \notin {"idle", "failed"} => Len(heard[j]) >= 1 /\ heard[j][1] = "start"
  /\ place[j] \notin {"idle", "failed", "accepted"} => Len(heard[j]) = 1
  /\ place[j] = "failed" => Len(heard[j]) <= 2
  /\ place[j] = "accepted" /\ Len(heard[j]) >= 2 => heard[j][2] = "accepted"
  /\ j \in room => place[j] = "accepted" /\ Len(heard[j]) >= 2
  /\ j \in early /\ j \in online => j \in room

\* A terminal event tells the outcome, and is the last one anywhere.
LastOK(j) ==
  /\ job[j] \in {"callback", "done"} => outcome[j] \in Terminal
  /\ \A i \in 1..Len(published[j]) : published[j][i] \in Terminal =>
       job[j] = "done" /\ i = Len(published[j]) /\ published[j][i] = outcome[j]
  /\ \A i \in 1..Len(onWay[j]) : onWay[j][i] \in Terminal =>
       job[j] = "done" /\ i = Len(onWay[j]) /\ onWay[j][i] = outcome[j]
  /\ \A i \in 3..Len(heard[j]) : heard[j][i] \in Terminal =>
       job[j] = "done" /\ i = Len(heard[j]) /\ heard[j][i] = outcome[j] /\ Len(onWay[j]) = 0

\* How many events of its job the caller has heard; how many were delivered.
Count(j) == IF Len(heard[j]) > 2 THEN Len(heard[j]) - 2 ELSE 0
Taken(j) == Len(published[j]) - Len(onWay[j])

\* What is on its way is the end of what was published; what was heard is a
\* part of the rest, and the end of it for who is in the room.
PartOK(j) ==
  /\ Len(onWay[j]) <= Len(published[j])
  /\ \A i \in 1..Len(onWay[j]) : onWay[j][i] = published[j][Taken(j) + i]
  /\ \E before \in 0..Taken(j) :
       /\ before + Count(j) <= Taken(j)
       /\ \A i \in 1..Count(j) : heard[j][i + 2] = published[j][before + i]
       /\ j \in room => before + Count(j) = Taken(j)
       /\ j \in early /\ j \in online => before = 0

JobOK(j) == CallOK(j) /\ LastOK(j) /\ (j \notin dropped => PartOK(j))

IInv == TypeOK /\ DecisionOK /\ \A j \in Job : JobOK(j)

-----------------------------------------------------------------------------
(* Types, and the decision about the queue.                                *)

\* What _emit_state does to what was heard.
LEMMA TellTypes ==
  ASSUME TypeOK, NEW j \in Job, NEW events \in Seq(Word), Tell(j, events)
  PROVE  /\ heard' \in [Job -> Seq(Word)]
         /\ \A k \in Job : k # j => heard'[k] = heard[k]
         /\ heard'[j] = IF j \in online THEN heard[j] \o events ELSE heard[j]
<1>1. heard \in [Job -> Seq(Word)]
  BY DEF TypeOK, Word
<1>2. heard[j] \o events \in Seq(Word)
  BY <1>1
<1> QED BY <1>1, <1>2 DEF Tell

\* Publishing adds an event at the end, for the server too if nothing is lost.
LEMMA PublishTypes ==
  ASSUME TypeOK, NEW j \in Job, NEW event \in Event,
         (Publish(j, event) /\ UNCHANGED faults) \/ PublishFails(j, event)
  PROVE  /\ onWay' \in [Job -> Seq(Event)] /\ published' \in [Job -> Seq(Event)]
         /\ dropped' \subseteq Job /\ dropped \subseteq dropped' /\ faults' \in 0..MaxFaults
         /\ \A k \in Job : k # j =>
              onWay'[k] = onWay[k] /\ published'[k] = published[k] /\ (k \in dropped' <=> k \in dropped)
         /\ published'[j] = Append(published[j], event)
         /\ onWay'[j] = Append(onWay[j], event) \/ (onWay'[j] = onWay[j] /\ j \in dropped')
<1>1. onWay \in [Job -> Seq(Event)] /\ published \in [Job -> Seq(Event)]
  BY DEF TypeOK, Event
<1>2. Append(published[j], event) \in Seq(Event) /\ Append(onWay[j], event) \in Seq(Event)
  BY <1>1
<1>3. CASE Publish(j, event) /\ UNCHANGED faults
  BY <1>1, <1>2, <1>3 DEF Publish, TypeOK
<1>4. CASE PublishFails(j, event)
  BY <1>1, <1>2, <1>4, BoundAssumption DEF PublishFails, Fault, TypeOK
<1> QED BY <1>3, <1>4

\* The types are kept; that an outcome is published needs the job to have one.
LEMMA TypeStep == TypeOK /\ (\A j \in Job : LastOK(j)) /\ [Next]_vars => TypeOK'
<1> SUFFICES ASSUME TypeOK, \A j \in Job : LastOK(j), [Next]_vars PROVE TypeOK'
  OBVIOUS
<1> USE JobAssumption, BoundAssumption DEF TypeOK
<1>1. CASE StartWorker
  BY <1>1 DEF StartWorker, client, channel
<1>2. CASE StopWorker
  <2>1. Fault /\ alive' = FALSE
    BY <1>2, Zenon DEF StopWorker
  <2>2. faults' \in 0..MaxFaults
    BY <2>1 DEF Fault
  <2> QED BY <2>2, <1>2, <2>1 DEF StopWorker, client, channel
<1>3. ASSUME NEW j \in Job, Request(j) PROVE TypeOK'
  BY <1>3 DEF Request, Tell, Goto, Places, router, channel
<1>4. ASSUME NEW j \in Job, Refuse(j) PROVE TypeOK'
  <2>1. heard' \in [Job -> Seq(Word)]
    <3>1. PICK events \in {<<"failure">>, <<"start", "failure">>} : Tell(j, events)
      BY <1>4 DEF Refuse
    <3>2. <<"failure">> \in Seq(Word) /\ <<"start", "failure">> \in Seq(Word)
      BY DEF Word, Terminal
    <3>3. events \in Seq(Word)
      BY <3>1, <3>2
    <3> QED BY <3>1, <3>3, TellTypes
  <2> QED BY <1>4, <2>1 DEF Refuse, Goto, Places, Word, router, channel
<1>5. ASSUME NEW j \in Job, Accept(j) PROVE TypeOK'
  <2>1. heard' \in [Job -> Seq(Word)]
    <3>1. <<"accepted">> \in Seq(Word)
      BY DEF Word
    <3> QED BY <1>5, <3>1, TellTypes DEF Accept
  <2>2. room' \subseteq online /\ early' \subseteq Job
    BY <1>5 DEF Accept
  <2>3. place' \in [Job -> Places]
    BY <1>5 DEF Accept, Goto, Places
  <2> QED BY <1>5, <2>1, <2>2, <2>3 DEF Accept, Word, router, channel
<1>6. ASSUME NEW j \in Job, Fail(j) PROVE TypeOK'
  <2>1. heard' \in [Job -> Seq(Word)]
    <3>1. <<"failure">> \in Seq(Word)
      BY DEF Word, Terminal
    <3> QED BY <1>6, <3>1, TellTypes DEF Fail
  <2>2. place' \in [Job -> Places]
    BY <1>6 DEF Fail, Goto, Places
  <2> QED BY <1>6, <2>1, <2>2 DEF Fail, Word, router, channel
<1>7. ASSUME NEW j \in Job, Disconnect(j) PROVE TypeOK'
  BY <1>7 DEF Disconnect, router, channel
<1>8. ASSUME NEW j \in Job, NotConnected(j) PROVE TypeOK'
  BY <1>8 DEF NotConnected, Fault, Goto, Places, router, thread, channel
<1>9. ASSUME NEW j \in Job, Lookup(j) PROVE TypeOK'
  BY <1>9 DEF Lookup, Goto, Places, Queue, router, thread, channel
<1>10. ASSUME NEW j \in Job, Recheck(j) PROVE TypeOK'
  <2>1. Home[j] \in Server
    OBVIOUS
  <2>2. place' \in [Job -> Places] /\ lock' \in [Server -> Job \cup {NoJob}]
    <3>1. CASE cached[Home[j]] = "none"
      <4>1. place' = [place EXCEPT ![j] = "decide"] /\ lock' = [lock EXCEPT ![Home[j]] = j]
        BY <1>10, <3>1 DEF Recheck, Goto
      <4>2. place' \in [Job -> Places]
        BY <4>1 DEF Places
      <4>3. lock' \in [Server -> Job \cup {NoJob}]
        BY <2>1, <4>1
      <4> QED BY <4>2, <4>3
    <3>2. CASE cached[Home[j]] # "none"
      BY <1>10, <2>1, <3>2 DEF Recheck, Goto, Places
    <3> QED BY <3>1, <3>2
  <2>3. queue' \in [Job -> Queue \cup {"none"}]
    BY <1>10, <2>1 DEF Recheck
  <2> QED BY <1>10, <2>2, <2>3 DEF Recheck, thread, channel
<1>11. ASSUME NEW j \in Job, Decide(j) PROVE TypeOK'
  BY <1>11 DEF Decide, Goto, Places, Queue, router, thread, channel
<1>12. ASSUME NEW j \in Job, Store(j) PROVE TypeOK'
  BY <1>12 DEF Store, Goto, Places, thread, channel
<1>13. ASSUME NEW j \in Job, Push(j) PROVE TypeOK'
  BY <1>13 DEF Push, Goto, Places, JobState, router, client, channel
<1>14. ASSUME NEW j \in Job, PushFails(j) PROVE TypeOK'
  BY <1>14 DEF PushFails, Fault, Goto, Places, router, thread, channel
<1>15. ASSUME NEW j \in Job, CommitThread(j) PROVE TypeOK'
  BY <1>15 DEF CommitThread, Goto, Places, router, thread, channel
<1>16. ASSUME NEW j \in Job, CommitFails(j) PROVE TypeOK'
  BY <1>16 DEF CommitFails, Fault, Goto, Places, router, thread, channel
<1>17. ASSUME NEW j \in Job, StartJob(j) PROVE TypeOK'
  BY <1>17 DEF StartJob, JobState, router, client, channel
<1>18. ASSUME NEW j \in Job, EndMethod(j) PROVE TypeOK'
  BY <1>18 DEF EndMethod, JobState, Terminal, router, client, channel
<1>19. ASSUME NEW j \in Job, Kill(j) PROVE TypeOK'
  BY <1>19 DEF Kill, Fault, JobState, router, client, channel
<1>20. ASSUME NEW j \in Job, Deliver(j) PROVE TypeOK'
  BY <1>20 DEF Deliver, Terminal, router
<1>21. ASSUME NEW j \in Job, Lose(j) PROVE TypeOK'
  BY <1>21 DEF Lose, Fault, router, client
<1>22. ASSUME NEW j \in Job, Progress(j) PROVE TypeOK'
  <2>1. /\ onWay' \in [Job -> Seq(Event)] /\ published' \in [Job -> Seq(Event)]
        /\ dropped' \subseteq Job /\ faults' \in 0..MaxFaults
    BY <1>22, PublishTypes DEF Progress, Event
  <2> QED BY <1>22, <2>1 DEF Progress, Event, router, client
<1>23. ASSUME NEW j \in Job, Callback(j) PROVE TypeOK'
  <2>1. outcome[j] \in Event
    BY <1>23 DEF Callback, LastOK, Event
  <2>2. /\ onWay' \in [Job -> Seq(Event)] /\ published' \in [Job -> Seq(Event)]
        /\ dropped' \subseteq Job /\ faults' \in 0..MaxFaults
    BY <1>23, <2>1, PublishTypes DEF Callback
  <2> QED BY <1>23, <2>2 DEF Callback, JobState, Event, router, client
<1>24. CASE UNCHANGED vars
  BY <1>24 DEF vars
<1> QED
  BY <1>1, <1>2, <1>3, <1>4, <1>5, <1>6, <1>7, <1>8, <1>9, <1>10, <1>11, <1>12, <1>13, <1>14,
     <1>15, <1>16, <1>17, <1>18, <1>19, <1>20, <1>21, <1>22, <1>23, <1>24
     DEF Next, Handler, Executor, Worker, Faulty

-----------------------------------------------------------------------------
\* Where a call is does not matter, but that it holds the lock, that it is to
\* push, and that it has pushed.
LEMMA DecisionKept ==
  ASSUME TypeOK, DecisionOK, NEW j \in Job,
         cached' = cached, lock' = lock, queue' = queue,
         \A k \in Job : k # j => place'[k] = place[k] /\ job'[k] = job[k],
         place'[j] \in {"decide", "store"} <=> place[j] \in {"decide", "store"},
         place'[j] = "store" => place[j] = "store",
         place'[j] = "push" => place[j] = "push",
         place'[j] \in NotPushed => job'[j] = "none",
         job'[j] # "none" => job[j] # "none" \/ place[j] = "push"
  PROVE  DecisionOK'
<1>1. ASSUME NEW k \in Job
      PROVE  /\ lock'[Home[k]] = k <=> place'[k] \in {"decide", "store"}
             /\ place'[k] \in {"decide", "store"} => cached'[Home[k]] = "none"
             /\ place'[k] = "store" => queue'[k] # "none"
             /\ place'[k] \in NotPushed => job'[k] = "none"
             /\ job'[k] # "none" \/ place'[k] = "push" =>
                  queue'[k] # "none" /\ queue'[k] = cached'[Home[k]]
  <2>1. CASE k = j
    BY <2>1 DEF DecisionOK
  <2>2. CASE k # j
    BY <2>2 DEF DecisionOK
  <2> QED BY <2>1, <2>2
<1>2. \A s \in Server : lock'[s] # NoJob => Home[lock'[s]] = s
  BY DEF DecisionOK
<1> QED BY <1>1, <1>2 DEF DecisionOK

\* Only the call that holds the lock of its server decides and stores.
LEMMA DecisionStep == TypeOK /\ DecisionOK /\ [Next]_vars => DecisionOK'
<1> SUFFICES ASSUME TypeOK, DecisionOK, [Next]_vars PROVE DecisionOK'
  OBVIOUS
<1> USE JobAssumption
<1>0. place \in [Job -> Places] /\ job \in [Job -> JobState]
  BY DEF TypeOK
<1>1. CASE StartWorker \/ StopWorker \/ UNCHANGED vars
  <2>1. UNCHANGED <<cached, lock, place, queue, job>>
    BY <1>1, Zenon DEF StartWorker, StopWorker, vars
  <2> QED BY <2>1 DEF DecisionOK
<1>3. ASSUME NEW j \in Job, Request(j) PROVE DecisionOK'
  BY <1>0, <1>3, DecisionKept DEF Request, Goto, router, DecisionOK, NotPushed
<1>4. ASSUME NEW j \in Job, Refuse(j) PROVE DecisionOK'
  BY <1>0, <1>4, DecisionKept DEF Refuse, Goto, router, DecisionOK, NotPushed
<1>5. ASSUME NEW j \in Job, Accept(j) PROVE DecisionOK'
  BY <1>0, <1>5, DecisionKept DEF Accept, Goto, router, NotPushed
<1>6. ASSUME NEW j \in Job, Fail(j) PROVE DecisionOK'
  BY <1>0, <1>6, DecisionKept DEF Fail, Goto, router, NotPushed
<1>7. ASSUME NEW j \in Job, Disconnect(j) PROVE DecisionOK'
  BY <1>0, <1>7, DecisionKept DEF Disconnect, router, DecisionOK
<1>8. ASSUME NEW j \in Job, NotConnected(j) PROVE DecisionOK'
  BY <1>0, <1>8, DecisionKept DEF NotConnected, Goto, router, thread, NotPushed
<1>9. ASSUME NEW j \in Job, Lookup(j) PROVE DecisionOK'
  <2>1. CASE cached[Home[j]] = "none"
    BY <1>0, <1>9, <2>1, DecisionKept DEF Lookup, Goto, router, thread, DecisionOK, NotPushed
  <2>2. CASE cached[Home[j]] # "none"
    <3>1. /\ place' = [place EXCEPT ![j] = "push"] /\ queue' = [queue EXCEPT ![j] = cached[Home[j]]]
          /\ place[j] = "resolve" /\ UNCHANGED <<cached, lock, job>>
      BY <1>9, <2>2 DEF Lookup, Goto, router, thread
    <3> QED BY <1>0, <2>2, <3>1 DEF DecisionOK, TypeOK, NotPushed
  <2> QED BY <2>1, <2>2
<1>10. ASSUME NEW j \in Job, Recheck(j) PROVE DecisionOK'
  <2>0. place[j] = "lock" /\ lock[Home[j]] = NoJob /\ Home[j] \in Server /\ UNCHANGED <<cached, job>>
    BY <1>10 DEF Recheck, thread
  <2>1. CASE cached[Home[j]] = "none"
    <3>1. /\ place' = [place EXCEPT ![j] = "decide"] /\ queue' = queue
          /\ lock' = [lock EXCEPT ![Home[j]] = j]
      BY <1>10, <2>1 DEF Recheck, Goto
    <3>2. \A s \in Server : lock'[s] # NoJob => Home[lock'[s]] = s
      BY <2>0, <3>1 DEF DecisionOK, TypeOK
    <3>3. \A k \in Job : lock'[Home[k]] = k <=> place'[k] \in {"decide", "store"}
      BY <1>0, <2>0, <3>1 DEF DecisionOK, TypeOK
    <3> QED BY <1>0, <2>0, <2>1, <3>1, <3>2, <3>3 DEF DecisionOK, NotPushed
  <2>2. CASE cached[Home[j]] # "none"
    <3>1. /\ place' = [place EXCEPT ![j] = "push"] /\ queue' = [queue EXCEPT ![j] = cached[Home[j]]]
          /\ lock' = lock
      BY <1>10, <2>2 DEF Recheck, Goto
    <3> QED BY <1>0, <2>0, <2>2, <3>1 DEF DecisionOK, TypeOK, NotPushed
  <2> QED BY <2>1, <2>2
<1>11. ASSUME NEW j \in Job, Decide(j) PROVE DecisionOK'
  <2>1. PICK q \in Queue : queue' = [queue EXCEPT ![j] = q]
    BY <1>11 DEF Decide
  <2>2. q # "none"
    BY DEF Queue
  <2>3. place[j] = "decide" /\ place' = [place EXCEPT ![j] = "store"] /\ UNCHANGED <<cached, lock, job>>
    BY <1>11 DEF Decide, Goto, router, thread
  <2> QED BY <1>0, <2>1, <2>2, <2>3 DEF DecisionOK, TypeOK, NotPushed
<1>12. ASSUME NEW j \in Job, Store(j) PROVE DecisionOK'
  <2>1. /\ place[j] = "store" /\ place' = [place EXCEPT ![j] = "push"]
        /\ cached' = [cached EXCEPT ![Home[j]] = queue[j]]
        /\ lock' = [lock EXCEPT ![Home[j]] = NoJob]
        /\ UNCHANGED <<queue, job>> /\ Home[j] \in Server
    BY <1>12 DEF Store, Goto, thread
  <2>2. lock[Home[j]] = j /\ cached[Home[j]] = "none" /\ queue[j] # "none"
    BY <2>1 DEF DecisionOK
  <2>3. \A s \in Server : lock'[s] # NoJob => Home[lock'[s]] = s
    BY <2>1 DEF DecisionOK, TypeOK
  <2>4. \A k \in Job : lock'[Home[k]] = k <=> place'[k] \in {"decide", "store"}
    BY <1>0, <2>1, <2>2 DEF DecisionOK, TypeOK
  <2>5. \A k \in Job : place'[k] \in {"decide", "store"} => cached'[Home[k]] = "none"
    BY <1>0, <2>1, <2>2 DEF DecisionOK, TypeOK
  <2>6. \A k \in Job : job'[k] # "none" \/ place'[k] = "push" =>
                         queue'[k] # "none" /\ queue'[k] = cached'[Home[k]]
    BY <1>0, <2>1, <2>2 DEF DecisionOK, TypeOK
  <2> QED BY <1>0, <2>1, <2>3, <2>4, <2>5, <2>6 DEF DecisionOK, NotPushed
<1>13. ASSUME NEW j \in Job, Push(j) PROVE DecisionOK'
  BY <1>0, <1>13, DecisionKept DEF Push, Goto, router, NotPushed
<1>14. ASSUME NEW j \in Job, PushFails(j) PROVE DecisionOK'
  BY <1>0, <1>14, DecisionKept DEF PushFails, Goto, router, thread, NotPushed
<1>15. ASSUME NEW j \in Job, CommitThread(j) PROVE DecisionOK'
  BY <1>0, <1>15, DecisionKept DEF CommitThread, Goto, router, thread, NotPushed
<1>16. ASSUME NEW j \in Job, CommitFails(j) PROVE DecisionOK'
  BY <1>0, <1>16, DecisionKept DEF CommitFails, Goto, router, thread, NotPushed
<1>17. ASSUME NEW j \in Job, StartJob(j) \/ EndMethod(j) \/ Callback(j) \/ Kill(j) PROVE DecisionOK'
  <2>1. /\ job[j] # "none" /\ \E new : job' = [job EXCEPT ![j] = new]
        /\ UNCHANGED <<cached, lock, queue, place>>
    BY <1>17 DEF StartJob, EndMethod, Callback, Kill, router
  <2> QED BY <1>0, <2>1, DecisionKept DEF DecisionOK
<1>18. ASSUME NEW j \in Job, Progress(j) \/ Deliver(j) \/ Lose(j) PROVE DecisionOK'
  <2>1. UNCHANGED <<cached, lock, place, queue, job>>
    BY <1>18 DEF Progress, Deliver, Lose, router
  <2> QED BY <2>1 DEF DecisionOK
<1> QED
  BY <1>1, <1>3, <1>4, <1>5, <1>6, <1>7, <1>8, <1>9, <1>10, <1>11, <1>12, <1>13, <1>14,
     <1>15, <1>16, <1>17, <1>18
     DEF Next, Handler, Executor, Worker, Faulty

-----------------------------------------------------------------------------
(* The calls and their jobs: a step is one of a single call.               *)

Step(j) ==
  \/ Request(j) \/ Refuse(j) \/ Disconnect(j) \/ Handler(j) \/ Executor(j)
  \/ Worker(j) \/ Progress(j) \/ Deliver(j) \/ Faulty(j)

\* The steps of the thread that push no job, by which only the place changes.
Waits(j) ==
  \/ NotConnected(j) \/ Lookup(j) \/ Recheck(j) \/ Decide(j) \/ Store(j)
  \/ PushFails(j) \/ CommitThread(j) \/ CommitFails(j)

\* Nothing of call k changes.
Same(k) ==
  /\ place'[k] = place[k] /\ job'[k] = job[k] /\ outcome'[k] = outcome[k]
  /\ published'[k] = published[k] /\ onWay'[k] = onWay[k] /\ heard'[k] = heard[k]
  /\ k \in online' <=> k \in online
  /\ k \in room' <=> k \in room
  /\ k \in early' <=> k \in early
  /\ k \in dropped' <=> k \in dropped

\* A call of which nothing changes is as good as before.
LEMMA SameKept ==
  ASSUME NEW k \in Job, Same(k), JobOK(k)
  PROVE  JobOK(k)'
<1>1. CallOK(k)'
  BY DEF Same, JobOK, CallOK
<1>2. LastOK(k)'
  BY DEF Same, JobOK, LastOK
<1>3. ASSUME k \notin dropped' PROVE PartOK(k)'
  BY <1>3 DEF Same, JobOK, PartOK, Taken, Count
<1> QED BY <1>1, <1>2, <1>3 DEF JobOK

\* A step of a call changes nothing of another.
LEMMA OthersSame ==
  ASSUME TypeOK, NEW j \in Job, Step(j), LastOK(j), NEW k \in Job, k # j
  PROVE  Same(k)
<1> USE DEF TypeOK, Same
<1>1. CASE Request(j)
  BY <1>1 DEF Request, Tell, Goto, channel
<1>2. CASE Refuse(j)
  BY <1>2 DEF Refuse, Tell, Goto, channel
<1>3. CASE Disconnect(j)
  BY <1>3 DEF Disconnect, channel
<1>4. CASE Accept(j)
  BY <1>4 DEF Accept, Tell, Goto, channel
<1>5. CASE Fail(j)
  BY <1>5 DEF Fail, Tell, Goto, channel
<1>6. CASE Waits(j)
  <2>1. (\E p : Goto(j, p)) /\ UNCHANGED thread
    BY <1>6, Zenon DEF Waits, NotConnected, Lookup, Recheck, Decide, Store, PushFails, CommitThread, CommitFails
  <2> QED BY <2>1 DEF Goto, thread, channel
<1>7. CASE Push(j)
  BY <1>7 DEF Push, Goto, client, channel
<1>8. CASE StartJob(j)
  BY <1>8 DEF StartJob, client, channel
<1>9. CASE EndMethod(j)
  BY <1>9 DEF EndMethod, client, channel
<1>10. CASE Callback(j)
  <2>1. outcome[j] \in Event
    BY <1>10 DEF Callback, LastOK, Event
  <2> QED BY <1>10, <2>1, PublishTypes DEF Callback, client
<1>11. CASE Progress(j)
  <2>1. "progress" \in Event
    BY DEF Event
  <2> QED BY <1>11, <2>1, PublishTypes DEF Progress, client
<1>12. CASE Deliver(j)
  BY <1>12 DEF Deliver
<1>13. CASE Kill(j)
  BY <1>13 DEF Kill, client, channel
<1>14. CASE Lose(j)
  BY <1>14 DEF Lose, client
<1> QED
  BY <1>1, <1>2, <1>3, <1>4, <1>5, <1>6, <1>7, <1>8, <1>9, <1>10, <1>11, <1>12, <1>13, <1>14
     DEF Step, Waits, Handler, Executor, Worker, Faulty

\* One word more, for a caller that is there.
LEMMA TellOne ==
  ASSUME TypeOK, NEW j \in Job, NEW word \in Word, j \in online, Tell(j, <<word>>)
  PROVE  /\ Len(heard'[j]) = Len(heard[j]) + 1
         /\ \A i \in 1..Len(heard[j]) : heard'[j][i] = heard[j][i]
         /\ heard'[j][Len(heard[j]) + 1] = word
<1>1. heard[j] \in Seq(Word) /\ heard \in [Job -> Seq(Word)]
  BY DEF TypeOK, Word
<1>2. heard'[j] = Append(heard[j], word)
  BY <1>1 DEF Tell
<1> QED BY <1>1, <1>2

\* How a call goes.
LEMMA CallStep ==
  ASSUME TypeOK, TypeOK', NEW j \in Job, Step(j), CallOK(j), LastOK(j)
  PROVE  CallOK(j)'
<1>0. heard[j] \in Seq(Word) /\ heard \in [Job -> Seq(Word)] /\ place \in [Job -> Places] /\ room \subseteq online
  BY DEF TypeOK, Word
<1>00. Len(heard'[j]) \in Nat
  BY DEF TypeOK
<1>1. CASE Request(j)
  <2>1. heard[j] = <<>> /\ j \in online /\ place'[j] = "resolve" /\ heard'[j] = <<"start">>
    BY <1>0, <1>1 DEF Request, Tell, Goto, CallOK
  <2> QED BY <1>0, <1>1, <2>1 DEF Request, CallOK
<1>2. CASE Refuse(j)
  <2>1. heard[j] = <<>> /\ j \in online /\ place'[j] = "failed" /\ place[j] = "idle"
    BY <1>0, <1>2 DEF Refuse, Goto, CallOK
  <2>2. heard'[j] = <<"failure">> \/ heard'[j] = <<"start", "failure">>
    BY <1>0, <1>2, <2>1 DEF Refuse, Tell
  <2>3. Len(heard'[j]) <= 2 /\ UNCHANGED <<online, room, early>>
    <3>1. Len(<<"failure">>) = 1 /\ Len(<<"start", "failure">>) = 2
      OBVIOUS
    <3>2. Len(heard'[j]) = 1 \/ Len(heard'[j]) = 2
      BY <2>2, <3>1, Zenon
    <3>3. UNCHANGED <<online, room, early>>
      BY <1>2 DEF Refuse
    <3>4. Len(heard'[j]) <= 2
      <4>1. CASE Len(heard'[j]) = 1
        BY <4>1
      <4>2. CASE Len(heard'[j]) = 2
        BY <4>2
      <4> QED BY <3>2, <4>1, <4>2
    <3> QED BY <3>3, <3>4
  <2> QED BY <2>1, <2>3 DEF CallOK
<1>3. CASE Disconnect(j)
  BY <1>0, <1>3 DEF Disconnect, CallOK
<1>4. CASE Accept(j)
  <2>1. Len(heard[j]) = 1 /\ heard[j][1] = "start" /\ place'[j] = "accepted"
    BY <1>0, <1>4 DEF Accept, Goto, CallOK
  <2>2. (j \in room' <=> j \in online) /\ online' = online
    BY <1>0, <1>4 DEF Accept
  <2>3. CASE j \in online
    <3>2. Len(heard'[j]) = 2 /\ heard'[j][1] = "start" /\ heard'[j][2] = "accepted"
      <4>1. "accepted" \in Word
        BY DEF Word
      <4>2. Tell(j, <<"accepted">>)
        BY <1>4 DEF Accept
      <4>3. /\ Len(heard'[j]) = Len(heard[j]) + 1
            /\ \A i \in 1..Len(heard[j]) : heard'[j][i] = heard[j][i]
            /\ heard'[j][Len(heard[j]) + 1] = "accepted"
        BY <2>3, <4>1, <4>2, TellOne
      <4> QED BY <2>1, <4>3
    <3> QED BY <2>1, <2>2, <2>3, <3>2 DEF CallOK
  <2>4. CASE j \notin online
    <3>1. heard'[j] = heard[j]
      BY <1>4, <2>4 DEF Accept, Tell
    <3> QED BY <2>1, <2>2, <2>4, <3>1 DEF CallOK
  <2> QED BY <2>3, <2>4
<1>5. CASE Fail(j)
  <2>1. Len(heard[j]) = 1 /\ place'[j] = "failed" /\ place[j] = "raised" /\ UNCHANGED <<online, room, early>>
    BY <1>0, <1>5 DEF Fail, Goto, CallOK
  <2>2. Len(heard'[j]) <= 2
    <3>1. "failure" \in Word
      BY DEF Word, Terminal
    <3>2. Tell(j, <<"failure">>)
      BY <1>5 DEF Fail
    <3>3. j \in online => Len(heard'[j]) = Len(heard[j]) + 1
      BY <3>1, <3>2, TellOne
    <3>4. j \notin online => heard'[j] = heard[j]
      BY <1>0, <3>2 DEF Tell
    <3>5. CASE j \in online
      <4>1. Len(heard'[j]) = 2
        BY <2>1, <3>3, <3>5
      <4> QED BY <4>1
    <3>6. CASE j \notin online
      <4>1. Len(heard'[j]) = 1
        BY <2>1, <3>4, <3>6
      <4> QED BY <1>00, <4>1
    <3> QED BY <3>5, <3>6
  <2> QED BY <2>1, <2>2 DEF CallOK
<1>6. CASE Waits(j)
  <2>1. (\E p : Goto(j, p)) /\ UNCHANGED thread
    BY <1>6, Zenon DEF Waits, NotConnected, Lookup, Recheck, Decide, Store, PushFails, CommitThread, CommitFails
  <2>2. /\ place[j] \notin {"idle", "failed", "accepted"}
        /\ place'[j] \notin {"idle", "failed", "accepted"}
    BY <1>0, <1>6 DEF Waits, NotConnected, Lookup, Recheck, Decide, Store, PushFails, CommitThread, CommitFails, Goto
  <2> QED BY <2>1, <2>2 DEF thread, CallOK
<1>7. CASE Push(j)
  BY <1>0, <1>7 DEF Push, Goto, client, CallOK
<1>8. CASE StartJob(j) \/ EndMethod(j) \/ Callback(j) \/ Progress(j) \/ Kill(j) \/ Lose(j)
  <2>1. UNCHANGED <<place, online, room, early, heard>>
    BY <1>8, Zenon DEF StartJob, EndMethod, Callback, Progress, Kill, Lose, client
  <2> QED BY <2>1 DEF CallOK
<1>9. CASE Deliver(j)
  <2>1. UNCHANGED <<place, online, room, early>>
    BY <1>9 DEF Deliver
  <2>2. CASE j \notin room
    BY <1>9, <2>1, <2>2 DEF Deliver, CallOK
  <2>3. CASE j \in room
    <3>1. heard'[j] = Append(heard[j], Head(onWay[j])) /\ Head(onWay[j]) \in Word
      BY <1>0, <1>9, <2>3 DEF Deliver, Word, TypeOK
    <3>2. /\ Len(heard'[j]) = Len(heard[j]) + 1
          /\ \A i \in 1..Len(heard[j]) : heard'[j][i] = heard[j][i]
      BY <1>0, <3>1
    <3>3. place[j] = "accepted" /\ Len(heard[j]) \in Nat /\ Len(heard[j]) >= 2
      BY <1>0, <2>3 DEF CallOK
    <3> QED BY <2>1, <3>2, <3>3 DEF CallOK
  <2> QED BY <2>2, <2>3
<1> QED
  BY <1>1, <1>2, <1>3, <1>4, <1>5, <1>6, <1>7, <1>8, <1>9
     DEF Step, Waits, Handler, Executor, Worker, Faulty

\* A terminal event tells the outcome, and is the last one.
LEMMA LastKept ==
  ASSUME NEW j \in Job, LastOK(j),
         published'[j] = published[j], onWay'[j] = onWay[j], outcome'[j] = outcome[j],
         heard'[j] = heard[j] \/ 3..Len(heard'[j]) = {},
         job'[j] = job[j] \/ (job[j] # "done" /\ job'[j] \notin {"callback", "done"})
  PROVE  LastOK(j)'
<1>1. job'[j] \in {"callback", "done"} => outcome'[j] \in Terminal
  BY DEF LastOK
<1>2. \A i \in 1..Len(published'[j]) : published'[j][i] \in Terminal =>
        job'[j] = "done" /\ i = Len(published'[j]) /\ published'[j][i] = outcome'[j]
  BY DEF LastOK
<1>3. \A i \in 1..Len(onWay'[j]) : onWay'[j][i] \in Terminal =>
        job'[j] = "done" /\ i = Len(onWay'[j]) /\ onWay'[j][i] = outcome'[j]
  BY DEF LastOK
<1>4. \A i \in 3..Len(heard'[j]) : heard'[j][i] \in Terminal =>
        job'[j] = "done" /\ i = Len(heard'[j]) /\ heard'[j][i] = outcome'[j] /\ Len(onWay'[j]) = 0
  <2>1. CASE heard'[j] = heard[j]
    BY <2>1 DEF LastOK
  <2>2. CASE 3..Len(heard'[j]) = {}
    BY <2>2
  <2> QED BY <2>1, <2>2
<1> QED BY <1>1, <1>2, <1>3, <1>4 DEF LastOK

\* Publishing: a job that still runs has published no terminal event.
LEMMA LastPublished ==
  ASSUME TypeOK, NEW j \in Job, LastOK(j), job[j] \in {"running", "callback"},
         NEW event \in Event, published'[j] = Append(published[j], event),
         onWay'[j] = Append(onWay[j], event) \/ onWay'[j] = onWay[j],
         heard'[j] = heard[j], outcome'[j] = outcome[j],
         event \in Terminal => event = outcome[j] /\ job'[j] = "done",
         event \notin Terminal => job'[j] = job[j]
  PROVE  LastOK(j)'
<1>0. published[j] \in Seq(Event) /\ onWay[j] \in Seq(Event) /\ heard[j] \in Seq(Word)
  BY DEF TypeOK, Event, Word
<1>1. job'[j] \in {"callback", "done"} => outcome'[j] \in Terminal
  BY DEF LastOK, Event
<1>2. \A i \in 1..Len(published[j]) : published[j][i] \notin Terminal
  BY DEF LastOK
<1>3. \A i \in 1..Len(onWay[j]) : onWay[j][i] \notin Terminal
  BY DEF LastOK
<1>4. \A i \in 3..Len(heard[j]) : heard[j][i] \notin Terminal
  BY DEF LastOK
<1>5. \A i \in 1..Len(published'[j]) : published'[j][i] \in Terminal =>
        job'[j] = "done" /\ i = Len(published'[j]) /\ published'[j][i] = outcome'[j]
  BY <1>0, <1>2
<1>6. \A i \in 1..Len(onWay'[j]) : onWay'[j][i] \in Terminal =>
        job'[j] = "done" /\ i = Len(onWay'[j]) /\ onWay'[j][i] = outcome'[j]
  <2>1. CASE onWay'[j] = Append(onWay[j], event)
    BY <1>0, <1>3, <2>1
  <2>2. CASE onWay'[j] = onWay[j]
    BY <1>3, <2>2
  <2> QED BY <2>1, <2>2
<1> QED BY <1>1, <1>4, <1>5, <1>6 DEF LastOK

\* Every step of a call keeps the terminal event last.
LEMMA LastStep ==
  ASSUME TypeOK, TypeOK', DecisionOK, NEW j \in Job, Step(j), CallOK(j), CallOK(j)', LastOK(j)
  PROVE  LastOK(j)'
<1>0. /\ job \in [Job -> JobState] /\ outcome \in [Job -> Terminal \cup {"none"}]
      /\ published[j] \in Seq(Event) /\ onWay[j] \in Seq(Event) /\ heard[j] \in Seq(Word)
      /\ Len(heard'[j]) \in Nat /\ heard \in [Job -> Seq(Word)] /\ onWay \in [Job -> Seq(Event)]
  BY DEF TypeOK, Event, Word
<1>1. CASE Request(j)
  <2>1. Len(heard'[j]) = 1
    BY <1>0, <1>1 DEF Request, Goto, CallOK, TypeOK
  <2>2. 3..Len(heard'[j]) = {}
    BY <2>1
  <2>3. UNCHANGED <<job, channel, outcome>>
    BY <1>1 DEF Request
  <2> QED BY <2>2, <2>3, LastKept DEF channel
<1>2. CASE Refuse(j) \/ Fail(j)
  <2>1. place'[j] = "failed" /\ UNCHANGED <<job, channel, outcome>>
    BY <1>2 DEF Refuse, Fail, Goto, TypeOK
  <2>2. Len(heard'[j]) <= 2
    BY <2>1 DEF CallOK
  <2>3. 3..Len(heard'[j]) = {}
    BY <1>0, <2>2
  <2> QED BY <2>1, <2>3, LastKept DEF channel
<1>3. CASE Disconnect(j)
  BY <1>3, LastKept DEF Disconnect, channel
<1>4. CASE Accept(j)
  <2>1. Len(heard[j]) = 1 /\ UNCHANGED <<job, channel, outcome>>
    BY <1>4 DEF Accept, CallOK
  <2>2. CASE j \in online
    <3>1. "accepted" \in Word /\ Tell(j, <<"accepted">>)
      BY <1>4 DEF Accept, Word
    <3>2. Len(heard'[j]) = Len(heard[j]) + 1
      BY <2>2, <3>1, TellOne
    <3>3. 3..Len(heard'[j]) = {}
      BY <2>1, <3>2
    <3> QED BY <2>1, <3>3, LastKept DEF channel
  <2>3. CASE j \notin online
    <3>1. heard'[j] = heard[j]
      BY <1>0, <1>4, <2>3 DEF Accept, Tell
    <3> QED BY <2>1, <3>1, LastKept DEF channel
  <2> QED BY <2>2, <2>3
<1>6. CASE Waits(j)
  <2>1. UNCHANGED thread
    BY <1>6, Zenon DEF Waits, NotConnected, Lookup, Recheck, Decide, Store, PushFails, CommitThread, CommitFails
  <2> QED BY <2>1, LastKept DEF thread, channel
<1>7. CASE Push(j)
  <2>1. job[j] = "none" /\ job'[j] = "waiting" /\ UNCHANGED <<client, channel, outcome>>
    BY <1>0, <1>7 DEF Push, DecisionOK, NotPushed
  <2> QED BY <2>1, LastKept DEF client, channel
<1>8. CASE StartJob(j)
  <2>1. job[j] = "waiting" /\ job'[j] = "running" /\ UNCHANGED <<client, channel, outcome>>
    BY <1>0, <1>8 DEF StartJob
  <2> QED BY <2>1, LastKept DEF client, channel
<1>9. CASE Kill(j)
  <2>1. job[j] # "done" /\ job'[j] = "lost" /\ UNCHANGED <<client, channel, outcome>>
    BY <1>0, <1>9 DEF Kill
  <2> QED BY <2>1, LastKept DEF client, channel
<1>10. CASE EndMethod(j)
  <2>1. /\ job[j] = "running" /\ job'[j] = "callback" /\ outcome'[j] \in Terminal
        /\ UNCHANGED <<client, channel>>
    BY <1>0, <1>10 DEF EndMethod
  <2> QED BY <2>1 DEF LastOK, client, channel
<1>11. CASE Progress(j)
  <2>1. "progress" \in Event /\ "progress" \notin Terminal
    BY DEF Event, Terminal
  <2>2. /\ published'[j] = Append(published[j], "progress")
        /\ onWay'[j] = Append(onWay[j], "progress") \/ onWay'[j] = onWay[j]
    BY <1>11, <2>1, PublishTypes DEF Progress
  <2>3. /\ job[j] \in {"running", "callback"} /\ job'[j] = job[j]
        /\ outcome'[j] = outcome[j] /\ heard'[j] = heard[j]
    BY <1>11 DEF Progress, client
  <2> QED BY <2>1, <2>2, <2>3, LastPublished
<1>12. CASE Callback(j)
  <2>1. outcome[j] \in Event /\ outcome[j] \in Terminal
    BY <1>12 DEF Callback, LastOK, Event
  <2>2. /\ published'[j] = Append(published[j], outcome[j])
        /\ onWay'[j] = Append(onWay[j], outcome[j]) \/ onWay'[j] = onWay[j]
    BY <1>12, <2>1, PublishTypes DEF Callback
  <2> QED BY <1>0, <1>12, <2>1, <2>2, LastPublished DEF Callback, client
<1>13. CASE Deliver(j) \/ Lose(j)
  <2>1. onWay[j] # <<>> /\ onWay'[j] = Tail(onWay[j]) /\ UNCHANGED <<published, outcome, job>>
    BY <1>0, <1>13 DEF Deliver, Lose
  <2>2. \A i \in 1..Len(onWay'[j]) : onWay'[j][i] = onWay[j][i + 1] /\ i + 1 \in 1..Len(onWay[j])
    BY <1>0, <2>1
  <2>3. Len(onWay[j]) = Len(onWay'[j]) + 1 /\ Len(onWay'[j]) \in Nat
    BY <1>0, <2>1
  <2>4. \A i \in 1..Len(onWay'[j]) : onWay'[j][i] \in Terminal =>
          job'[j] = "done" /\ i = Len(onWay'[j]) /\ onWay'[j][i] = outcome'[j]
    BY <2>1, <2>2, <2>3 DEF LastOK
  <2>5. \A i \in 3..Len(heard[j]) : heard[j][i] \notin Terminal
    BY <2>3 DEF LastOK
  <2>6. \A i \in 3..Len(heard'[j]) : heard'[j][i] \in Terminal =>
          job'[j] = "done" /\ i = Len(heard'[j]) /\ heard'[j][i] = outcome'[j] /\ Len(onWay'[j]) = 0
    <3>1. CASE heard'[j] = heard[j]
      BY <2>5, <3>1
    <3>2. CASE heard'[j] = Append(heard[j], onWay[j][1])
      <4>1. onWay[j][1] \in Word /\ 1 \in 1..Len(onWay[j])
        BY <1>0, <2>1 DEF Event, Word
      <4>2. onWay[j][1] \in Terminal => job[j] = "done" /\ Len(onWay[j]) = 1 /\ onWay[j][1] = outcome[j]
        BY <4>1 DEF LastOK
      <4> QED BY <1>0, <2>1, <2>3, <2>5, <3>2, <4>1, <4>2
    <3>3. heard'[j] = heard[j] \/ heard'[j] = Append(heard[j], onWay[j][1])
      BY <1>0, <1>13, <2>1 DEF Deliver, Lose, client
    <3> QED BY <3>1, <3>2, <3>3
  <2> QED BY <2>1, <2>4, <2>6 DEF LastOK
<1> QED
  BY <1>1, <1>2, <1>3, <1>4, <1>6, <1>7, <1>8, <1>9, <1>10, <1>11, <1>12, <1>13
     DEF Step, Waits, Handler, Executor, Worker, Faulty

\* What was heard and what is on its way are parts of what was published.
LEMMA PartKept ==
  ASSUME NEW j \in Job, PartOK(j),
         published'[j] = published[j], onWay'[j] = onWay[j],
         Count(j)' = Count(j), \A i \in 1..Count(j) : heard'[j][i + 2] = heard[j][i + 2],
         j \in room' => j \in room,
         j \in early' /\ j \in online' => j \in early /\ j \in online
  PROVE  PartOK(j)'
<1>1. Taken(j)' = Taken(j)
  BY DEF Taken
<1>2. PICK before \in 0..Taken(j) :
        /\ before + Count(j) <= Taken(j)
        /\ \A i \in 1..Count(j) : heard[j][i + 2] = published[j][before + i]
        /\ j \in room => before + Count(j) = Taken(j)
        /\ j \in early /\ j \in online => before = 0
  BY DEF PartOK
<1>3. /\ before \in 0..Taken(j)' /\ before + Count(j)' <= Taken(j)'
      /\ \A i \in 1..Count(j)' : heard'[j][i + 2] = published'[j][before + i]
      /\ j \in room' => before + Count(j)' = Taken(j)'
      /\ j \in early' /\ j \in online' => before = 0
  BY <1>1, <1>2
<1>4. /\ Len(onWay'[j]) <= Len(published'[j])
      /\ \A i \in 1..Len(onWay'[j]) : onWay'[j][i] = published'[j][Taken(j)' + i]
  BY <1>1 DEF PartOK
<1> QED BY <1>3, <1>4 DEF PartOK

\* An event goes on its way: it is the last of both.
LEMMA PartPublished ==
  ASSUME TypeOK, NEW j \in Job, PartOK(j), NEW event \in Event,
         published'[j] = Append(published[j], event), onWay'[j] = Append(onWay[j], event),
         heard'[j] = heard[j], j \in room' <=> j \in room,
         j \in early' /\ j \in online' <=> j \in early /\ j \in online
  PROVE  PartOK(j)'
<1> DEFINE P == Len(published[j])
           O == Len(onWay[j])
           T == Taken(j)
           C == Count(j)
<1>0. published[j] \in Seq(Event) /\ onWay[j] \in Seq(Event)
  BY DEF TypeOK, Event
<1>1. P \in Nat /\ O \in Nat /\ O <= P /\ T = P - O
  BY <1>0 DEF Taken, PartOK
<1>2. C \in Nat
  <2>1. Len(heard[j]) \in Nat
    BY DEF TypeOK
  <2> QED BY <2>1 DEF Count
<1>3. /\ Len(published'[j]) = P + 1 /\ Len(onWay'[j]) = O + 1
      /\ \A i \in 1..P : published'[j][i] = published[j][i]
      /\ \A i \in 1..O : onWay'[j][i] = onWay[j][i]
      /\ published'[j][P + 1] = event /\ onWay'[j][O + 1] = event
  BY <1>0
<1>4. \A i \in 1..O : onWay[j][i] = published[j][T + i]
  BY DEF PartOK
<1>5. PICK before \in 0..T :
        /\ before + C <= T
        /\ \A i \in 1..C : heard[j][i + 2] = published[j][before + i]
        /\ j \in room => before + C = T
        /\ j \in early /\ j \in online => before = 0
  BY DEF PartOK
<1>6. Taken(j)' = (P + 1) - (O + 1)
  BY <1>3 DEF Taken
<1>7. Count(j)' = C
  BY DEF Count
<1> HIDE DEF P, O, T, C
<1>8. Taken(j)' = T
  BY <1>1, <1>6
<1>9. \A i \in 1..(O + 1) : onWay'[j][i] = published'[j][T + i]
  <2>1. \A i \in 1..O : T + i \in 1..P
    BY <1>1
  <2>2. T + (O + 1) = P + 1
    BY <1>1
  <2>3. \A i \in 1..(O + 1) : i = O + 1 \/ i \in 1..O
    BY <1>1
  <2> QED BY <1>3, <1>4, <2>1, <2>2, <2>3
<1>10. \A i \in 1..C : heard'[j][i + 2] = published'[j][before + i]
  <2>1. \A i \in 1..C : before + i \in 1..P
    BY <1>1, <1>2, <1>5
  <2> QED BY <1>3, <1>5, <2>1
<1>11. Len(onWay'[j]) <= Len(published'[j])
  BY <1>1, <1>3
<1>12. \A i \in 1..Len(onWay'[j]) : onWay'[j][i] = published'[j][Taken(j)' + i]
  BY <1>3, <1>8, <1>9
<1>13. \E b \in 0..Taken(j)' :
         /\ b + Count(j)' <= Taken(j)'
         /\ \A i \in 1..Count(j)' : heard'[j][i + 2] = published'[j][b + i]
         /\ j \in room' => b + Count(j)' = Taken(j)'
         /\ j \in early' /\ j \in online' => b = 0
  BY <1>5, <1>7, <1>8, <1>10
<1> QED BY <1>11, <1>12, <1>13 DEF PartOK

\* An event leaves: who is in the room has heard up to it, and hears it.
LEMMA PartDelivered ==
  ASSUME TypeOK, NEW j \in Job, CallOK(j), PartOK(j), Deliver(j)
  PROVE  PartOK(j)'
<1> DEFINE P == Len(published[j])
           O == Len(onWay'[j])
           T == Taken(j)
           C == Count(j)
<1>0. /\ published[j] \in Seq(Event) /\ onWay[j] \in Seq(Event) /\ heard[j] \in Seq(Word)
      /\ onWay \in [Job -> Seq(Event)] /\ heard \in [Job -> Seq(Word)]
  BY DEF TypeOK, Event, Word
<1>1. onWay[j] # <<>> /\ onWay'[j] = Tail(onWay[j]) /\ UNCHANGED <<published, room, online, early>>
  BY <1>0 DEF Deliver
<1>2. /\ P \in Nat /\ O \in Nat /\ Len(onWay[j]) = O + 1
      /\ \A i \in 1..O : onWay'[j][i] = onWay[j][i + 1]
  BY <1>0, <1>1
<1>3. O + 1 <= P /\ T = P - (O + 1)
  BY <1>2 DEF Taken, PartOK
<1>4. Taken(j)' = P - O
  BY <1>1 DEF Taken
<1>5. \A i \in 1..(O + 1) : onWay[j][i] = published[j][T + i]
  BY <1>2 DEF PartOK
<1>6. PICK before \in 0..T :
        /\ before + C <= T
        /\ \A i \in 1..C : heard[j][i + 2] = published[j][before + i]
        /\ j \in room => before + C = T
        /\ j \in early /\ j \in online => before = 0
  BY DEF PartOK
<1>7. C \in Nat
  BY <1>0 DEF Count
<1>8. \/ /\ j \notin room /\ Count(j)' = C
         /\ \A i \in 1..C : heard'[j][i + 2] = heard[j][i + 2]
      \/ /\ j \in room /\ Count(j)' = C + 1
         /\ \A i \in 1..C : heard'[j][i + 2] = heard[j][i + 2]
         /\ heard'[j][(C + 1) + 2] = onWay[j][1]
  <2>1. CASE j \in room
    <3> DEFINE H == Len(heard[j])
    <3>1. heard'[j] = Append(heard[j], onWay[j][1]) /\ onWay[j][1] \in Word
      BY <1>0, <1>1, <2>1 DEF Deliver, Event, Word
    <3>2. H \in Nat /\ H >= 2
      BY <1>0, <2>1 DEF CallOK
    <3>3. /\ Len(heard'[j]) = H + 1
          /\ \A i \in 1..H : heard'[j][i] = heard[j][i]
          /\ heard'[j][H + 1] = onWay[j][1]
      BY <1>0, <3>1
    <3>4. C = IF H > 2 THEN H - 2 ELSE 0
      BY DEF Count
    <3>5. Count(j)' = IF H + 1 > 2 THEN (H + 1) - 2 ELSE 0
      BY <3>3 DEF Count
    <3> HIDE DEF H, C
    <3>6. C = H - 2 /\ Count(j)' = C + 1 /\ (C + 1) + 2 = H + 1
      BY <3>2, <3>4, <3>5
    <3>7. \A i \in 1..C : i + 2 \in 1..H
      BY <3>2, <3>6
    <3> QED BY <2>1, <3>3, <3>6, <3>7
  <2>2. CASE j \notin room
    <3>1. heard' = heard
      BY <2>2 DEF Deliver
    <3> QED BY <2>2, <3>1 DEF Count
  <2> QED BY <2>1, <2>2
<1> HIDE DEF P, O, T, C
<1>9. Taken(j)' = T + 1 /\ T \in Nat
  BY <1>2, <1>3, <1>4
<1>10. O <= P
  BY <1>2, <1>3
<1>11. \A i \in 1..O : onWay'[j][i] = published[j][(T + 1) + i]
  <2>1. \A i \in 1..O : i + 1 \in 1..(O + 1) /\ T + (i + 1) = (T + 1) + i
    BY <1>2, <1>9
  <2> QED BY <1>2, <1>5, <2>1
<1>12. \E b \in 0..(T + 1) :
         /\ b + Count(j)' <= T + 1
         /\ \A i \in 1..Count(j)' : heard'[j][i + 2] = published[j][b + i]
         /\ j \in room => b + Count(j)' = T + 1
         /\ j \in early /\ j \in online => b = 0
  <2>1. CASE j \notin room
    <3>1. before \in 0..(T + 1) /\ before + C <= T + 1
      BY <1>6, <1>7, <1>9
    <3> QED BY <1>6, <1>8, <2>1, <3>1
  <2>2. CASE j \in room
    <3>1. before + C = T /\ before \in Nat
      BY <1>6, <1>9, <2>2
    <3>2. before \in 0..(T + 1) /\ before + (C + 1) = T + 1
      BY <1>7, <1>9, <3>1
    <3>3. onWay[j][1] = published[j][before + (C + 1)]
      BY <1>2, <1>5, <3>2
    <3>4. \A i \in 1..(C + 1) : i = C + 1 \/ i \in 1..C
      BY <1>7
    <3>5. \A i \in 1..(C + 1) : heard'[j][i + 2] = published[j][before + i]
      BY <1>6, <1>8, <2>2, <3>3, <3>4
    <3>6. before + (C + 1) <= T + 1
      BY <1>9, <3>2
    <3> QED BY <1>6, <1>8, <2>2, <3>2, <3>5, <3>6
  <2> QED BY <2>1, <2>2
<1>13. published'[j] = published[j] /\ Len(published'[j]) = P /\ Len(onWay'[j]) = O
  BY <1>1 DEF P, O
<1> QED BY <1>1, <1>9, <1>10, <1>11, <1>12, <1>13 DEF PartOK

\* Who joins has heard nothing, and hears what is not delivered yet.
LEMMA PartAccepted ==
  ASSUME TypeOK, NEW j \in Job, CallOK(j), CallOK(j)', PartOK(j), Accept(j), Count(j)' = 0
  PROVE  PartOK(j)'
<1>1. published'[j] = published[j] /\ onWay'[j] = onWay[j] /\ place[j] = "queued" /\ online' = online
  BY DEF Accept, channel
<1>2. Taken(j)' = Taken(j) /\ Taken(j) \in Nat
  <2>1. Len(published[j]) \in Nat /\ Len(onWay[j]) \in Nat
    BY DEF TypeOK
  <2> QED BY <1>1, <2>1 DEF Taken, PartOK
<1>3. j \in early' /\ j \in online' => Taken(j) = 0
  <2>1. j \notin room /\ ~ (j \in early /\ j \in online)
    BY <1>1 DEF CallOK
  <2>2. j \in early' /\ j \in online' => published[j] = <<>>
    BY <1>1, <2>1 DEF Accept
  <2>3. published[j] = <<>> => Len(published[j]) = 0
    OBVIOUS
  <2>4. Len(published[j]) = 0 => Taken(j) = 0
    <3>1. Len(onWay[j]) \in Nat
      BY DEF TypeOK
    <3> QED BY <1>2, <3>1 DEF Taken
  <2> QED BY <2>2, <2>3, <2>4
<1>4. /\ Taken(j) \in 0..Taken(j)' /\ Taken(j) + Count(j)' = Taken(j)' /\ Taken(j) + Count(j)' <= Taken(j)'
      /\ \A i \in 1..Count(j)' : heard'[j][i + 2] = published'[j][Taken(j) + i]
  BY <1>2
<1>5. /\ Len(onWay'[j]) <= Len(published'[j])
      /\ \A i \in 1..Len(onWay'[j]) : onWay'[j][i] = published'[j][Taken(j)' + i]
  BY <1>1, <1>2 DEF PartOK
<1> QED BY <1>3, <1>4, <1>5 DEF PartOK

\* Every step of a call keeps the parts.
LEMMA PartStep ==
  ASSUME TypeOK, TypeOK', NEW j \in Job, Step(j), CallOK(j), CallOK(j)', LastOK(j),
         j \notin dropped => PartOK(j), j \notin dropped'
  PROVE  PartOK(j)'
<1>0. /\ job \in [Job -> JobState] /\ heard \in [Job -> Seq(Word)]
      /\ Len(heard[j]) \in Nat /\ Len(heard'[j]) \in Nat
  BY DEF TypeOK, Word
<1>1. ASSUME UNCHANGED <<published, onWay, dropped, heard, early>>,
             room' \subseteq room, online' \subseteq online
      PROVE  PartOK(j)'
  <2>1. Count(j)' = Count(j) /\ PartOK(j)
    BY <1>1 DEF Count
  <2> QED BY <1>1, <2>1, PartKept
<1>2. ASSUME UNCHANGED <<published, onWay, dropped, room, online, early>>,
             Len(heard[j]) <= 2, Len(heard'[j]) <= 2
      PROVE  PartOK(j)'
  <2>1. Count(j) = 0 /\ Count(j)' = 0
    BY <1>2 DEF Count
  <2>2. \A i \in 1..Count(j) : heard'[j][i + 2] = heard[j][i + 2]
    BY <2>1
  <2>3. PartOK(j)
    BY <1>2
  <2> QED BY <1>2, <2>1, <2>2, <2>3, PartKept
<1>3. CASE Request(j) \/ Refuse(j) \/ Fail(j)
  <2>1. UNCHANGED <<published, onWay, dropped, room, online, early>>
    BY <1>3 DEF Request, Refuse, Fail, channel
  <2>2. place[j] \in {"idle", "raised"} /\ place'[j] \in {"resolve", "failed"}
    BY <1>3 DEF Request, Refuse, Fail, Goto, TypeOK
  <2>3. Len(heard[j]) = 0 \/ Len(heard[j]) = 1
    BY <2>2 DEF CallOK
  <2>4. Len(heard[j]) <= 2
    <3>1. CASE Len(heard[j]) = 0
      BY <3>1
    <3>2. CASE Len(heard[j]) = 1
      BY <3>2
    <3> QED BY <2>3, <3>1, <3>2
  <2>5. Len(heard'[j]) <= 2
    <3>1. CASE place'[j] = "failed"
      BY <3>1 DEF CallOK
    <3>2. CASE place'[j] = "resolve"
      <4>1. Len(heard'[j]) = 1
        BY <3>2 DEF CallOK
      <4> QED BY <4>1
    <3> QED BY <2>2, <3>1, <3>2
  <2> QED BY <1>2, <2>1, <2>4, <2>5
<1>4. CASE Disconnect(j)
  <2>1. UNCHANGED <<published, onWay, dropped, heard, early>> /\ room' \subseteq room /\ online' \subseteq online
    BY <1>4 DEF Disconnect, channel
  <2> QED BY <1>1, <2>1
<1>5. CASE Accept(j)
  <2>1. Len(heard[j]) = 1 /\ PartOK(j)
    BY <1>5 DEF Accept, CallOK, channel
  <2>2. CASE j \in online
    <3>1. "accepted" \in Word /\ Tell(j, <<"accepted">>)
      BY <1>5 DEF Accept, Word
    <3>2. Len(heard'[j]) = Len(heard[j]) + 1
      BY <2>2, <3>1, TellOne
    <3>3. Len(heard'[j]) = 2
      BY <2>1, <3>2
    <3>4. Count(j)' = 0
      BY <3>3 DEF Count
    <3> QED BY <1>5, <2>1, <3>4, PartAccepted
  <2>3. CASE j \notin online
    <3>1. heard'[j] = heard[j]
      BY <1>0, <1>5, <2>3 DEF Accept, Tell
    <3>2. Len(heard'[j]) = 1
      BY <2>1, <3>1
    <3>3. Count(j)' = 0
      BY <3>2 DEF Count
    <3> QED BY <1>5, <2>1, <3>3, PartAccepted
  <2> QED BY <2>2, <2>3
<1>6. CASE Waits(j)
  <2>1. UNCHANGED thread
    BY <1>6, Zenon DEF Waits, NotConnected, Lookup, Recheck, Decide, Store, PushFails, CommitThread, CommitFails
  <2>2. UNCHANGED <<published, onWay, dropped, heard, early>> /\ room' \subseteq room /\ online' \subseteq online
    BY <2>1 DEF thread, channel
  <2> QED BY <1>1, <2>2
<1>7. CASE Push(j) \/ StartJob(j) \/ EndMethod(j) \/ Kill(j)
  <2>1. UNCHANGED <<client, channel>>
    BY <1>7, Zenon DEF Push, StartJob, EndMethod, Kill
  <2>2. UNCHANGED <<published, onWay, dropped, heard, early>> /\ room' \subseteq room /\ online' \subseteq online
    BY <2>1 DEF client, channel
  <2> QED BY <1>1, <2>2
<1>8. ASSUME NEW event \in Event, UNCHANGED client,
             (Publish(j, event) /\ UNCHANGED faults) \/ PublishFails(j, event)
      PROVE  PartOK(j)'
  <2>1. /\ published'[j] = Append(published[j], event) /\ dropped \subseteq dropped'
        /\ onWay'[j] = Append(onWay[j], event) \/ (onWay'[j] = onWay[j] /\ j \in dropped')
    BY <1>8, PublishTypes
  <2>2. onWay'[j] = Append(onWay[j], event) /\ PartOK(j)
    BY <2>1
  <2>3. heard'[j] = heard[j] /\ UNCHANGED <<room, online, early>>
    BY <1>8 DEF client
  <2> QED BY <2>1, <2>2, <2>3, PartPublished
<1>9. CASE Progress(j)
  <2>1. "progress" \in Event /\ UNCHANGED client
    BY <1>9 DEF Event, Progress
  <2>2. (Publish(j, "progress") /\ UNCHANGED faults) \/ PublishFails(j, "progress")
    BY <1>9 DEF Progress
  <2> QED BY <1>8, <2>1, <2>2
<1>10. CASE Callback(j)
  <2>1. outcome[j] \in Event /\ UNCHANGED client
    BY <1>10 DEF Callback, LastOK, Event
  <2>2. (Publish(j, outcome[j]) /\ UNCHANGED faults) \/ PublishFails(j, outcome[j])
    BY <1>10 DEF Callback
  <2> QED BY <1>8, <2>1, <2>2
<1>11. CASE Deliver(j)
  <2>1. PartOK(j)
    BY <1>11 DEF Deliver
  <2> QED BY <1>11, <2>1, PartDelivered
<1>12. CASE Lose(j)
  BY <1>12 DEF Lose
<1> QED
  BY <1>3, <1>4, <1>5, <1>6, <1>7, <1>9, <1>10, <1>11, <1>12
     DEF Step, Waits, Handler, Executor, Worker, Faulty

-----------------------------------------------------------------------------
(* The theorems.                                                           *)

\* What is told after the first two words.
LEMMA ToldIsTheRest ==
  ASSUME TypeOK, NEW j \in Job
  PROVE  /\ Told(j) \in Seq(Word) /\ Len(Told(j)) = Count(j)
         /\ \A i \in 1..Count(j) : Told(j)[i] = heard[j][i + 2]
<1> DEFINE H == Len(heard[j])
           C == Count(j)
<1>1. heard[j] \in Seq(Word) /\ H \in Nat
  BY DEF TypeOK, Word
<1>2. C = IF H > 2 THEN H - 2 ELSE 0
  BY DEF Count
<1>3. \A i \in 3..H : i \in 1..H
  BY <1>1
<1>4. /\ Told(j) \in Seq(Word)
      /\ Len(Told(j)) = IF 3 <= H THEN H - 3 + 1 ELSE 0
      /\ \A i \in 1..(H - 3 + 1) : Told(j)[i] = heard[j][3 + i - 1]
  BY <1>1, <1>3, SubSeqProperties DEF Told
<1> HIDE DEF H, C
<1>5. C \in Nat /\ Len(Told(j)) = C /\ \A i \in 1..C : i \in 1..(H - 3 + 1) /\ 3 + i - 1 = i + 2
  BY <1>1, <1>2, <1>4
<1> QED BY <1>4, <1>5 DEF C

LEMMA IInvInit == Init => IInv
<1> SUFFICES ASSUME Init PROVE IInv
  OBVIOUS
<1>1. TypeOK
  BY JobAssumption, BoundAssumption DEF Init, TypeOK, Queue, Places, JobState
<1>2. DecisionOK
  BY JobAssumption DEF Init, DecisionOK
<1>3. ASSUME NEW j \in Job PROVE JobOK(j)
  <2>1. /\ place[j] = "idle" /\ heard[j] = <<>> /\ published[j] = <<>> /\ onWay[j] = <<>>
        /\ room = {} /\ early = {} /\ job[j] = "none"
    BY DEF Init
  <2>2. Len(heard[j]) = 0 /\ Len(published[j]) = 0 /\ Len(onWay[j]) = 0
    BY <2>1
  <2>3. Count(j) = 0 /\ Taken(j) = 0
    BY <2>2 DEF Count, Taken
  <2>4. CallOK(j)
    BY <2>1 DEF CallOK
  <2>5. LastOK(j)
    BY <2>1, <2>2 DEF LastOK
  <2>6. PartOK(j)
    <3>1. 0 \in 0..Taken(j) /\ 0 + Count(j) <= Taken(j) /\ 0 + Count(j) = Taken(j)
      BY <2>3
    <3>2. \A i \in 1..Count(j) : heard[j][i + 2] = published[j][0 + i]
      BY <2>3
    <3> QED BY <2>2, <3>1, <3>2 DEF PartOK
  <2> QED BY <2>4, <2>5, <2>6 DEF JobOK
<1> QED BY <1>1, <1>2, <1>3 DEF IInv

LEMMA IInvStep == IInv /\ [Next]_vars => IInv'
<1> SUFFICES ASSUME IInv, [Next]_vars PROVE IInv'
  OBVIOUS
<1>1. TypeOK /\ DecisionOK /\ \A j \in Job : JobOK(j)
  BY DEF IInv
<1>2. \A j \in Job : CallOK(j) /\ LastOK(j) /\ (j \notin dropped => PartOK(j))
  BY <1>1 DEF JobOK
<1>3. TypeOK'
  BY <1>1, <1>2, TypeStep
<1>4. DecisionOK'
  BY <1>1, DecisionStep
<1>5. ASSUME NEW k \in Job PROVE JobOK(k)'
  <2>1. CASE StartWorker \/ StopWorker \/ UNCHANGED vars
    <3>1. UNCHANGED <<place, job, client, channel, outcome>>
      BY <2>1, Zenon DEF StartWorker, StopWorker, vars, client, channel
    <3>2. Same(k)
      BY <3>1 DEF Same, client, channel
    <3> QED BY <1>1, <3>2, SameKept
  <2>2. ASSUME NEW j \in Job, Step(j) PROVE JobOK(k)'
    <3>1. CASE k # j
      <4>1. Same(k)
        BY <1>1, <1>2, <2>2, <3>1, OthersSame
      <4> QED BY <1>1, <4>1, SameKept
    <3>2. CASE k = j
      <4>1. CallOK(j)'
        BY <1>1, <1>2, <1>3, <2>2, CallStep
      <4>2. LastOK(j)'
        BY <1>1, <1>2, <1>3, <2>2, <4>1, LastStep
      <4>3. j \notin dropped' => PartOK(j)'
        BY <1>1, <1>2, <1>3, <2>2, <4>1, PartStep
      <4> QED BY <3>2, <4>1, <4>2, <4>3 DEF JobOK
    <3> QED BY <3>1, <3>2
  <2> QED BY <2>1, <2>2 DEF Next, Step
<1> QED BY <1>3, <1>4, <1>5 DEF IInv

\* The invariant all the others follow from.
THEOREM Inductive == Spec => []IInv
<1> QED BY IInvInit, IInvStep, PTL DEF Spec

\* Every variable has its type: what a caller is sent is what the handler and
\* the hooks of the job emit.
THEOREM TaskTypes == Spec => []TypeOK
<1>1. IInv => TypeOK
  BY DEF IInv
<1> QED BY <1>1, Inductive, PTL

\* resolve_queue decides once in a process, whatever its threads and the worker
\* do: a decision is stored by the one that holds the lock, and never changes.
THEOREM DecidedOnce == Spec => []QueueIsDecidedOnce
<1>1. IInv => QueueIsDecidedOnce
  BY DEF IInv, DecisionOK, QueueIsDecidedOnce
<1> QED BY <1>1, Inductive, PTL

\* What the caller hears of its job after "accepted" is a part of what the worker
\* published, without gaps or repetitions unless Redis lost an event, and a
\* terminal event is the last one and tells how the method ended.
THEOREM ToldAsItHappened == Spec => []TaskIsToldAsItHappened
<1>1. ASSUME IInv, NEW j \in Job
      PROVE  /\ Len(heard[j]) > 2 => heard[j][1] = "start" /\ heard[j][2] = "accepted"
             /\ j \notin dropped => \E before \in 0..Len(published[j]) :
                  /\ before + Len(Told(j)) <= Len(published[j])
                  /\ \A i \in 1..Len(Told(j)) : Told(j)[i] = published[j][before + i]
             /\ \A i \in 1..Len(Told(j)) : Told(j)[i] \in Terminal =>
                  i = Len(Told(j)) /\ Told(j)[i] = outcome[j]
  <2>1. TypeOK /\ CallOK(j) /\ LastOK(j) /\ (j \notin dropped => PartOK(j))
    BY <1>1 DEF IInv, JobOK
  <2> DEFINE H == Len(heard[j])
             P == Len(published[j])
             O == Len(onWay[j])
             T == Taken(j)
             C == Count(j)
  <2>2. H \in Nat /\ P \in Nat /\ O \in Nat
    BY <2>1 DEF TypeOK
  <2>3. C = (IF H > 2 THEN H - 2 ELSE 0) /\ T = P - O
    BY DEF Count, Taken
  <2>4. Len(Told(j)) = C /\ \A i \in 1..C : Told(j)[i] = heard[j][i + 2]
    BY <1>1, ToldIsTheRest DEF IInv
  <2>5. H > 2 => heard[j][1] = "start" /\ heard[j][2] = "accepted"
    BY <2>1, <2>2 DEF CallOK
  <2>6. ASSUME j \notin dropped
        PROVE  \E before \in 0..P :
                 before + C <= P /\ \A i \in 1..C : heard[j][i + 2] = published[j][before + i]
    <3>1. PICK before \in 0..T :
            before + C <= T /\ \A i \in 1..C : heard[j][i + 2] = published[j][before + i]
      BY <2>1, <2>6 DEF PartOK
    <3>2. O <= P
      BY <2>1, <2>6 DEF PartOK
    <3> HIDE DEF H, P, O, T, C
    <3>3. before \in 0..P /\ before + C <= P
      BY <2>2, <2>3, <3>1, <3>2
    <3> QED BY <3>1, <3>3
  <2>7. \A i \in 3..H : heard[j][i] \in Terminal => i = H /\ heard[j][i] = outcome[j]
    BY <2>1 DEF LastOK
  <2>8. \A i \in 1..C : heard[j][i + 2] \in Terminal => i = C /\ heard[j][i + 2] = outcome[j]
    <3> HIDE DEF H, P, O, T, C
    <3>1. \A i \in 1..C : i + 2 \in 3..H /\ (i + 2 = H => i = C)
      BY <2>2, <2>3
    <3> QED BY <2>7, <3>1
  <2> HIDE DEF C
  <2> QED BY <2>4, <2>5, <2>6, <2>8
<1>2. IInv => TaskIsToldAsItHappened
  BY <1>1 DEF TaskIsToldAsItHappened
<1> QED BY <1>2, Inductive, PTL

\* A caller that was in the room of its task before anything was published, and
\* stays connected, has heard all of it when nothing is on its way.
THEOREM EarlyHearsAll == Spec => []EarlyCallerHearsAll
<1>1. ASSUME IInv, NEW j \in (early \cap online) \ dropped, onWay[j] = <<>>
      PROVE  Told(j) = published[j]
  <2>1. j \in Job
    BY <1>1 DEF IInv, TypeOK
  <2>2. TypeOK /\ CallOK(j) /\ PartOK(j)
    BY <1>1, <2>1 DEF IInv, JobOK
  <2> DEFINE P == Len(published[j])
             T == Taken(j)
             C == Count(j)
  <2>3. published[j] \in Seq(Event) /\ Told(j) \in Seq(Word) /\ P \in Nat /\ Len(onWay[j]) = 0
    <3>1. published[j] \in Seq(Event) /\ heard[j] \in Seq(Word)
      BY <2>1, <2>2 DEF TypeOK, Event, Word
    <3>2. Told(j) \in Seq(Word)
      BY <2>1, <2>2, ToldIsTheRest
    <3>3. Len(onWay[j]) = 0
      BY <1>1
    <3> QED BY <3>1, <3>2, <3>3
  <2>4. T = P - 0
    BY <2>3 DEF Taken
  <2>5. Len(Told(j)) = C /\ \A i \in 1..C : Told(j)[i] = heard[j][i + 2]
    BY <2>1, <2>2, ToldIsTheRest
  <2>6. j \in room
    BY <1>1, <2>2 DEF CallOK
  <2>7. 0 + C = T /\ \A i \in 1..C : heard[j][i + 2] = published[j][0 + i]
    BY <1>1, <2>2, <2>6 DEF PartOK
  <2>8. C \in Nat
    BY <2>3, <2>5
  <2> HIDE DEF P, T, C
  <2>9. C = P /\ \A i \in 1..C : 0 + i = i
    BY <2>3, <2>4, <2>7, <2>8
  <2>10. Len(Told(j)) = Len(published[j]) /\ \A i \in 1..Len(Told(j)) : Told(j)[i] = published[j][i]
    BY <2>5, <2>7, <2>9 DEF P
  <2> QED BY <2>3, <2>10, SeqEqual
<1>2. IInv => EarlyCallerHearsAll
  BY <1>1 DEF EarlyCallerHearsAll
<1> QED BY <1>2, Inductive, PTL

-----------------------------------------------------------------------------
(* method:execute and the executor.                                        *)

\* A handler that may ask for units has authenticated its caller, and what it
\* has in its context variable is the user of that caller.
CallersKnown ==
  \A c \in Call :
    /\ handler[c] \in {"start", "sync", "async"} => UserOf[c] # Guest
    /\ handler[c] \in {"sync", "async"} => context[c] = UserOf[c]

\* A unit carries the user of its caller from the moment it is asked for.
CarriesItsUser(u) == unit[u].user = UserOf[CallOf[u]] /\ unit[u].user # Guest
UnitsCarryUsers == \A u \in Unit : unit[u].at # "none" => CarriesItsUser(u)

\* A unit is on a thread as long as _run goes on, and alone there.
OnThreads == \A u \in Unit : unit[u].at \in InThread <=> unit[u].on # NoThread
Alone == \A u, v \in Unit : unit[u].on = unit[v].on /\ unit[u].on # NoThread => u = v

\* What _run has made of frappe.local at each of its places, whatever a unit
\* before it left there.
Mine(u) == [unit |-> u, user |-> unit[u].user]
Made(u) ==
  /\ unit[u].at \in {"session", "ran"} => local[unit[u].on].user = unit[u].user
  /\ unit[u].at \in {"connected", "session"} => local[unit[u].on].work = {}
  /\ unit[u].at = "ran" => local[unit[u].on].work = {Mine(u)}
ThreadsAreClean == \A u \in Unit : Made(u)

\* The database holds the units that are behind their commit, as their callers.
Behind == {"committed", "returned", "raised"}
Recorded ==
  /\ \A w \in committed : unit[w.unit].at \in Behind /\ CarriesItsUser(w.unit) /\ w.user = unit[w.unit].user
  /\ \A u \in Unit : unit[u].at \in {"committed", "returned"} => Mine(u) \in committed

ExecutionInv ==
  /\ ExecutionTypeOK
  /\ CallersKnown
  /\ UnitsCarryUsers
  /\ OnThreads
  /\ Alone
  /\ ThreadsAreClean
  /\ Recorded

\* On the event loop nothing but the handler and the context of c change.
OtherCalls(c) ==
  \A d \in Call \ {c} : handler'[d] = handler[d] /\ context'[d] = context[d]

\* Of the units only u changes, to x; of the threads only t, to l.
BecomesUnit(u, x) == unit'[u] = x /\ \A v \in Unit \ {u} : unit'[v] = unit[v]
BecomesLocal(t, l) == local'[t] = l /\ \A s \in Thread \ {t} : local'[s] = local[s]

LEMMA ExecutionStarts == ExecutionInit => ExecutionInv
BY UserAssumption, ThreadAssumption
DEF ExecutionInit, ExecutionInv, ExecutionTypeOK, CallersKnown, UnitsCarryUsers, OnThreads, Alone,
    ThreadsAreClean, Made, Recorded, NoUnit, Blank, HandlerPlaces, UnitPlaces, InThread, Done, Footprint

\* The steps that leave units, threads and database alone need only keep what
\* is known of the callers.
LEMMA ExecutionHandlerStep ==
  ASSUME ExecutionInv, UNCHANGED <<unit, local, committed>>,
         pool' \in {"open", "closed"}, handler' \in [Call -> HandlerPlaces],
         context' \in [Call -> User \cup {Guest}], CallersKnown'
  PROVE  ExecutionInv'
BY DEF ExecutionInv, ExecutionTypeOK, UnitsCarryUsers, CarriesItsUser, OnThreads, Alone,
    ThreadsAreClean, Made, Mine, Recorded

\* The steps on the event loop.
LEMMA OnLoopKeepsExecutionInv ==
  ASSUME ExecutionInv, NEW c \in Call,
         Execute(c) \/ Authenticate(c) \/ Refused(c) \/ RunAsync(c) \/ EndAsync(c) \/ EndSync(c)
  PROVE  ExecutionInv'
<1>1. UNCHANGED <<unit, local, committed, pool>>
  BY DEF Execute, Authenticate, Refused, RunAsync, EndAsync, EndSync
<1>2. /\ handler \in [Call -> HandlerPlaces] /\ context \in [Call -> User \cup {Guest}]
      /\ pool \in {"open", "closed"} /\ CallersKnown
  BY DEF ExecutionInv, ExecutionTypeOK
<1>3. handler' \in [Call -> HandlerPlaces] /\ context' \in [Call -> User \cup {Guest}]
  BY <1>2, UserAssumption
  DEF Execute, Authenticate, Refused, RunAsync, EndAsync, EndSync, Handle, Bind, HandlerPlaces
<1>4. CallersKnown'
  BY <1>2, UserAssumption
  DEF Execute, Authenticate, Refused, RunAsync, EndAsync, EndSync, Handle, Bind, HandlerPlaces, CallersKnown
<1>5. QED BY <1>1, <1>2, <1>3, <1>4, ExecutionHandlerStep

\* The unit that run_frappe makes: of the caller, with its user.
Queued(user) == [at |-> "queued", user |-> user, on |-> NoThread]

LEMMA SubmitKeepsExecutionInv ==
  ASSUME ExecutionInv, NEW c \in Call, UserOf[c] # Guest,
         Submit(c, UserOf[c]), UNCHANGED <<pool, local, committed>>,
         handler' \in [Call -> HandlerPlaces],
         context' \in [Call -> User \cup {Guest}], CallersKnown'
  PROVE  ExecutionInv'
<1>1. PICK u \in Unit : CallOf[u] = c /\ unit[u].at = "none" /\ unit' = [unit EXCEPT ![u] = Queued(UserOf[c])]
  BY DEF Submit, Queued
<1>2. /\ ExecutionTypeOK /\ UnitsCarryUsers /\ OnThreads /\ Alone /\ ThreadsAreClean /\ Recorded
  BY DEF ExecutionInv
<1>3. unit \in [Unit -> [at : UnitPlaces, user : User \cup {Guest}, on : Thread \cup {NoThread}]]
  BY <1>2 DEF ExecutionTypeOK
<1>4. BecomesUnit(u, Queued(UserOf[c]))
  BY <1>1, <1>3 DEF BecomesUnit
<1>5. ExecutionTypeOK'
  <2>1. Queued(UserOf[c]) \in [at : UnitPlaces, user : User \cup {Guest}, on : Thread \cup {NoThread}]
    BY UserAssumption DEF Queued, UnitPlaces
  <2>2. unit' \in [Unit -> [at : UnitPlaces, user : User \cup {Guest}, on : Thread \cup {NoThread}]]
    BY <1>1, <1>3, <2>1
  <2>3. QED BY <1>2, <2>2 DEF ExecutionTypeOK
<1>6. UnitsCarryUsers'
  <2>1. CarriesItsUser(u)' BY <1>1, <1>4 DEF CarriesItsUser, BecomesUnit, Queued
  <2>2. ASSUME NEW v \in Unit \ {u}, unit'[v].at # "none" PROVE CarriesItsUser(v)'
    BY <1>2, <1>4, <2>2 DEF UnitsCarryUsers, CarriesItsUser, BecomesUnit
  <2>3. QED BY <2>1, <2>2 DEF UnitsCarryUsers
<1>7. OnThreads' BY <1>2, <1>4 DEF OnThreads, BecomesUnit, Queued, InThread
<1>8. Alone' BY <1>2, <1>4 DEF Alone, BecomesUnit, Queued
<1>9. ThreadsAreClean'
  <2>1. local' = local OBVIOUS
  <2>2. Made(u)' BY <1>4 DEF Made, BecomesUnit, Queued
  <2>3. ASSUME NEW v \in Unit \ {u} PROVE Made(v)'
    BY <1>2, <1>4, <2>1 DEF ThreadsAreClean, Made, Mine, BecomesUnit
  <2>4. QED BY <2>2, <2>3 DEF ThreadsAreClean
<1>10. Recorded'
  <2>1. \A w \in committed : w.unit \in Unit /\ w.unit # u
    BY <1>1, <1>2 DEF Recorded, ExecutionTypeOK, Footprint, Behind
  <2>2. QED BY <1>2, <1>4, <2>1 DEF Recorded, CarriesItsUser, Mine, BecomesUnit, Queued, Behind
<1>11. QED BY <1>5, <1>6, <1>7, <1>8, <1>9, <1>10 DEF ExecutionInv

LEMMA AsksKeepExecutionInv ==
  ASSUME ExecutionInv, NEW c \in Call, RunSync(c) \/ Offload(c)
  PROVE  ExecutionInv'
<1>1. /\ handler \in [Call -> HandlerPlaces] /\ context \in [Call -> User \cup {Guest}] /\ CallersKnown
  BY DEF ExecutionInv, ExecutionTypeOK
<1>2. CASE RunSync(c)
  <2>1. handler' \in [Call -> HandlerPlaces] /\ context' \in [Call -> User \cup {Guest}]
    BY <1>1, <1>2, UserAssumption DEF RunSync, Handle, Bind, HandlerPlaces
  <2>2. CallersKnown' BY <1>1, <1>2 DEF RunSync, Handle, Bind, CallersKnown
  <2>3. UserOf[c] # Guest BY <1>1, <1>2 DEF RunSync, CallersKnown
  <2>4. QED BY <1>2, <2>1, <2>2, <2>3, SubmitKeepsExecutionInv DEF RunSync
<1>3. CASE Offload(c)
  <2>1. UNCHANGED <<handler, context, pool, local, committed>> BY <1>3 DEF Offload
  <2>2. CallersKnown' BY <1>1, <2>1 DEF CallersKnown
  <2>3. UserOf[c] # Guest /\ context[c] = UserOf[c] BY <1>1, <1>3 DEF Offload, CallersKnown
  <2>4. Submit(c, UserOf[c]) BY <1>3, <2>3 DEF Offload
  <2>5. QED BY <1>1, <2>1, <2>2, <2>3, <2>4, SubmitKeepsExecutionInv
<1>4. QED BY <1>2, <1>3

LEMMA StopKeepsExecutionInv == ASSUME ExecutionInv, Stop PROVE ExecutionInv'
<1>1. /\ ExecutionTypeOK /\ CallersKnown /\ UnitsCarryUsers /\ OnThreads /\ Alone /\ ThreadsAreClean /\ Recorded
  BY DEF ExecutionInv
<1>2. unit \in [Unit -> [at : UnitPlaces, user : User \cup {Guest}, on : Thread \cup {NoThread}]]
  BY <1>1 DEF ExecutionTypeOK
<1>3. \A u \in Unit :
        /\ unit'[u].user = unit[u].user /\ unit'[u].on = unit[u].on
        /\ unit[u].at = "queued" => unit'[u].at = "dropped"
        /\ unit[u].at # "queued" => unit'[u].at = unit[u].at
  BY <1>2 DEF Stop
<1>4. ExecutionTypeOK'
  <2>1. unit' \in [Unit -> [at : UnitPlaces, user : User \cup {Guest}, on : Thread \cup {NoThread}]]
    BY <1>2 DEF Stop, UnitPlaces, Done
  <2>2. pool' \in {"open", "closed"} /\ handler' \in [Call -> HandlerPlaces]
    BY <1>1 DEF Stop, ExecutionTypeOK, HandlerPlaces
  <2>3. QED BY <1>1, <2>1, <2>2 DEF ExecutionTypeOK, Stop
<1>5. CallersKnown' BY <1>1 DEF CallersKnown, Stop, ExecutionTypeOK
<1>6. UnitsCarryUsers' BY <1>1, <1>3 DEF UnitsCarryUsers, CarriesItsUser
<1>7. OnThreads' BY <1>1, <1>3 DEF OnThreads, InThread
<1>8. Alone' BY <1>1, <1>3 DEF Alone
<1>9. ThreadsAreClean'
  <2>1. local' = local BY DEF Stop
  <2>2. QED BY <1>1, <1>3, <2>1 DEF ThreadsAreClean, Made, Mine
<1>10. Recorded'
  <2>1. committed' = committed BY DEF Stop
  <2>2. \A w \in committed : w.unit \in Unit /\ unit'[w.unit].at = unit[w.unit].at
    BY <1>1, <1>3 DEF Recorded, ExecutionTypeOK, Footprint, Behind
  <2>3. QED BY <1>1, <1>3, <2>1, <2>2 DEF Recorded, CarriesItsUser, Mine, Behind
<1>11. QED BY <1>4, <1>5, <1>6, <1>7, <1>8, <1>9, <1>10 DEF ExecutionInv


\* The two sorts of records.
UnitRecord == [at : UnitPlaces, user : User \cup {Guest}, on : Thread \cup {NoThread}]
LocalRecord == [user : User \cup {Guest, Administrator}, work : SUBSET Footprint]

LEMMA GoesChanges ==
  ASSUME ExecutionTypeOK, NEW u \in Unit, NEW p, NEW t, Goes(u, p, t)
  PROVE  BecomesUnit(u, [at |-> p, user |-> unit[u].user, on |-> t])
<1>1. unit \in [Unit -> UnitRecord] BY DEF ExecutionTypeOK, UnitRecord
<1>2. QED BY <1>1 DEF Goes, BecomesUnit

LEMMA GoesTypes ==
  ASSUME ExecutionTypeOK, NEW u \in Unit, NEW p \in UnitPlaces, NEW t \in Thread \cup {NoThread}, Goes(u, p, t)
  PROVE  unit' \in [Unit -> UnitRecord]
<1>1. unit \in [Unit -> UnitRecord] BY DEF ExecutionTypeOK, UnitRecord
<1>2. [at |-> p, user |-> unit[u].user, on |-> t] \in UnitRecord BY <1>1 DEF UnitRecord
<1>3. QED BY <1>1, <1>2 DEF Goes

\* The threads beside that of u are as they were.
OthersKeepLocal(u) == \A v \in Unit \ {u} : unit[v].on # NoThread => local'[unit[v].on] = local[unit[v].on]

LEMMA ThreadStep ==
  ASSUME ExecutionInv, UNCHANGED loop,
         NEW u \in Unit, NEW p \in InThread \cup {"returned", "raised"}, NEW t \in Thread \cup {NoThread},
         Goes(u, p, t), unit[u].at # "none",
         p \in InThread <=> t # NoThread,
         \A v \in Unit \ {u} : unit[v].on = t => t = NoThread,
         local' \in [Thread -> LocalRecord], committed' \subseteq Footprint,
         OthersKeepLocal(u), Made(u)', Recorded'
  PROVE  ExecutionInv'
<1>1. /\ ExecutionTypeOK /\ CallersKnown /\ UnitsCarryUsers /\ OnThreads /\ Alone /\ ThreadsAreClean
  BY DEF ExecutionInv
<1>2. BecomesUnit(u, [at |-> p, user |-> unit[u].user, on |-> t]) BY <1>1, GoesChanges
<1>3. p \in UnitPlaces BY DEF UnitPlaces, Done
<1>4. ExecutionTypeOK'
  <2>1. unit' \in [Unit -> UnitRecord] BY <1>1, <1>3, GoesTypes
  <2>2. QED BY <1>1, <2>1 DEF ExecutionTypeOK, loop, UnitRecord, LocalRecord
<1>5. CallersKnown' BY <1>1 DEF CallersKnown, loop
<1>6. UnitsCarryUsers'
  <2>1. CarriesItsUser(u)' BY <1>1, <1>2 DEF UnitsCarryUsers, CarriesItsUser, BecomesUnit
  <2>2. ASSUME NEW v \in Unit \ {u}, unit'[v].at # "none" PROVE CarriesItsUser(v)'
    BY <1>1, <1>2, <2>2 DEF UnitsCarryUsers, CarriesItsUser, BecomesUnit
  <2>3. QED BY <2>1, <2>2 DEF UnitsCarryUsers
<1>7. OnThreads'
  <2>1. unit'[u].at \in InThread <=> unit'[u].on # NoThread BY <1>2 DEF BecomesUnit
  <2>2. ASSUME NEW v \in Unit \ {u} PROVE unit'[v].at \in InThread <=> unit'[v].on # NoThread
    BY <1>1, <1>2 DEF OnThreads, BecomesUnit
  <2>3. QED BY <2>1, <2>2 DEF OnThreads
<1>8. Alone' BY <1>1, <1>2 DEF Alone, BecomesUnit
<1>9. ThreadsAreClean'
  <2>1. ASSUME NEW v \in Unit \ {u} PROVE Made(v)'
    <3>1. unit'[v] = unit[v] /\ Made(v) BY <1>1, <1>2 DEF BecomesUnit, ThreadsAreClean
    <3>2. CASE unit[v].at \in InThread
      <4>1. local'[unit[v].on] = local[unit[v].on] BY <1>1, <3>2 DEF OthersKeepLocal, OnThreads
      <4>2. QED BY <3>1, <4>1 DEF Made, Mine
    <3>3. CASE unit[v].at \notin InThread BY <3>1, <3>3 DEF Made, InThread
    <3>4. QED BY <3>2, <3>3
  <2>2. QED BY <2>1 DEF ThreadsAreClean
<1>10. QED BY <1>4, <1>5, <1>6, <1>7, <1>8, <1>9 DEF ExecutionInv

\* A step that neither commits nor undoes a commit.
LEMMA RecordedKept ==
  ASSUME ExecutionInv, committed' = committed, NEW u \in Unit, NEW p, NEW t, Goes(u, p, t),
         unit[u].at \in Behind => p \in Behind,
         p \in {"committed", "returned"} => unit[u].at \in {"committed", "returned"}
  PROVE  Recorded'
<1>1. ExecutionTypeOK /\ Recorded BY DEF ExecutionInv
<1>2. BecomesUnit(u, [at |-> p, user |-> unit[u].user, on |-> t]) BY <1>1, GoesChanges
<1>3. ASSUME NEW w \in committed
      PROVE  unit'[w.unit].at \in Behind /\ CarriesItsUser(w.unit)' /\ w.user = unit'[w.unit].user
  <2>1. w.unit \in Unit BY <1>1 DEF ExecutionTypeOK, Footprint
  <2>2. QED BY <1>1, <1>2, <2>1 DEF Recorded, CarriesItsUser, BecomesUnit
<1>4. ASSUME NEW v \in Unit, unit'[v].at \in {"committed", "returned"} PROVE Mine(v)' \in committed
  BY <1>1, <1>2, <1>4 DEF Recorded, Mine, BecomesUnit
<1>5. QED BY <1>3, <1>4 DEF Recorded

\* What _run does in its thread t is seen by no unit on another one.
LEMMA LocalStep ==
  ASSUME ExecutionInv, NEW u \in Unit, unit[u].at \in InThread,
         NEW l \in LocalRecord, local' = [local EXCEPT ![unit[u].on] = l]
  PROVE  /\ local' \in [Thread -> LocalRecord]
         /\ OthersKeepLocal(u)
         /\ unit[u].on \in Thread
         /\ local'[unit[u].on] = l
<1>1. ExecutionTypeOK /\ OnThreads /\ Alone BY DEF ExecutionInv
<1>2. unit[u].on \in Thread BY <1>1 DEF ExecutionTypeOK, OnThreads
<1>3. local \in [Thread -> LocalRecord] BY <1>1 DEF ExecutionTypeOK, LocalRecord
<1>4. ASSUME NEW v \in Unit \ {u}, unit[v].on # NoThread PROVE local'[unit[v].on] = local[unit[v].on]
  <2>1. unit[v].on \in Thread BY <1>1, <1>4 DEF ExecutionTypeOK
  <2>2. unit[v].on # unit[u].on BY <1>1, <1>2, <1>4, ThreadAssumption DEF Alone
  <2>3. QED BY <1>2, <1>3, <2>1, <2>2
<1>5. QED BY <1>2, <1>3, <1>4 DEF OthersKeepLocal


\* A step in the thread of u that stays there, with l for frappe.local.
LEMMA InThreadStep ==
  ASSUME ExecutionInv, NEW u \in Unit, unit[u].at \in InThread, NEW p \in InThread,
         NEW l \in LocalRecord, local' = [local EXCEPT ![unit[u].on] = l],
         Advance(u, p), UNCHANGED loop, committed' \subseteq Footprint,
         Recorded',
         p \in {"session", "ran"} => l.user = unit[u].user,
         p \in {"connected", "session"} => l.work = {},
         p = "ran" => l.work = {Mine(u)}
  PROVE  ExecutionInv'
<1>1. ExecutionTypeOK /\ OnThreads /\ Alone BY DEF ExecutionInv
<1>3. Goes(u, p, unit[u].on) BY DEF Advance
<1>4. /\ local' \in [Thread -> LocalRecord] /\ OthersKeepLocal(u)
      /\ unit[u].on \in Thread /\ local'[unit[u].on] = l
  BY LocalStep
<1>5. unit'[u] = [at |-> p, user |-> unit[u].user, on |-> unit[u].on]
  BY <1>1, <1>3, GoesChanges DEF BecomesUnit
<1>6. Made(u)' BY <1>4, <1>5 DEF Made, Mine
<1>7. p \in InThread <=> unit[u].on # NoThread BY <1>4, ThreadAssumption
<1>8. \A v \in Unit \ {u} : unit[v].on = unit[u].on => unit[u].on = NoThread BY <1>1 DEF Alone
<1>9. unit[u].at # "none" BY DEF InThread
<1>10. unit[u].on \in Thread \cup {NoThread} /\ p \in InThread \cup {"returned", "raised"} BY <1>4
<1>11. QED BY <1>3, <1>4, <1>6, <1>7, <1>8, <1>9, <1>10, ThreadStep

\* The unit leaves its thread, which keeps l.
LEMMA LeaveStep ==
  ASSUME ExecutionInv, NEW u \in Unit, unit[u].at \in InThread, NEW p \in {"returned", "raised"},
         NEW l \in LocalRecord, local' = [local EXCEPT ![unit[u].on] = l],
         Leave(u, p), UNCHANGED <<loop, committed>>,
         p = "returned" => unit[u].at = "committed"
  PROVE  ExecutionInv'
<1>1. ExecutionTypeOK BY DEF ExecutionInv
<1>2. Goes(u, p, NoThread) BY DEF Leave
<1>3. local' \in [Thread -> LocalRecord] /\ OthersKeepLocal(u) BY LocalStep
<1>4. unit'[u].at = p
  <2>1. BecomesUnit(u, [at |-> p, user |-> unit[u].user, on |-> NoThread]) BY <1>1, <1>2, GoesChanges
  <2>2. QED BY <2>1 DEF BecomesUnit
<1>5. Made(u)' BY <1>4 DEF Made
<1>6. Recorded' BY <1>2, RecordedKept DEF Behind
<1>7. committed' \subseteq Footprint BY <1>1 DEF ExecutionTypeOK
<1>8. p \in InThread <=> NoThread # NoThread BY DEF InThread
<1>9. /\ unit[u].at # "none" /\ p \in InThread \cup {"returned", "raised"}
      /\ NoThread \in Thread \cup {NoThread}
      /\ \A v \in Unit \ {u} : unit[v].on = NoThread => NoThread = NoThread
  BY DEF InThread
<1>10. UNCHANGED loop OBVIOUS
<1>11. QED BY <1>2, <1>3, <1>5, <1>6, <1>7, <1>8, <1>9, <1>10, ThreadStep

LEMMA TakeKeepsExecutionInv ==
  ASSUME ExecutionInv, NEW u \in Unit, NEW t \in Thread, Take(u, t)
  PROVE  ExecutionInv'
<1>1. ExecutionTypeOK BY DEF ExecutionInv
<1>2. Goes(u, "taken", t) BY DEF Take
<1>3. unit'[u].at = "taken"
  <2>1. BecomesUnit(u, [at |-> "taken", user |-> unit[u].user, on |-> t]) BY <1>1, <1>2, GoesChanges
  <2>2. QED BY <2>1 DEF BecomesUnit
<1>4. Made(u)' BY <1>3 DEF Made
<1>5. Recorded' BY <1>2, RecordedKept DEF Behind, Take
<1>6. "taken" \in InThread <=> t # NoThread BY ThreadAssumption DEF InThread
<1>7. \A v \in Unit \ {u} : unit[v].on = t => t = NoThread BY DEF Take
<1>8. /\ local' \in [Thread -> LocalRecord] /\ committed' \subseteq Footprint /\ OthersKeepLocal(u)
  BY <1>1 DEF Take, ExecutionTypeOK, LocalRecord, OthersKeepLocal
<1>9. /\ unit[u].at # "none" /\ UNCHANGED loop
      /\ "taken" \in InThread \cup {"returned", "raised"} /\ t \in Thread \cup {NoThread}
  BY DEF Take, InThread
<1>10. QED BY <1>2, <1>4, <1>5, <1>6, <1>7, <1>8, <1>9, ThreadStep

\* A new user, or new work, in the frappe.local of a thread.
LEMMA LocalUpdates ==
  ASSUME local \in [Thread -> LocalRecord], NEW t \in Thread, NEW x
  PROVE  /\ [local EXCEPT ![t].user = x] = [local EXCEPT ![t] = [user |-> x, work |-> local[t].work]]
         /\ [local EXCEPT ![t].work = x] = [local EXCEPT ![t] = [user |-> local[t].user, work |-> x]]
<1>1. /\ [local[t] EXCEPT !.user = x] = [user |-> x, work |-> local[t].work]
      /\ [local[t] EXCEPT !.work = x] = [user |-> local[t].user, work |-> x]
  BY DEF LocalRecord
<1>2. QED BY <1>1

\* What is known of a unit in a thread, and of that thread.
LEMMA LocalParts ==
  ASSUME ExecutionInv, NEW u \in Unit, unit[u].at \in InThread
  PROVE  /\ local \in [Thread -> LocalRecord] /\ unit[u].on \in Thread
         /\ local[unit[u].on] \in LocalRecord
         /\ unit \in [Unit -> UnitRecord] /\ unit[u].user \in User \cup {Guest}
         /\ Made(u) /\ committed \subseteq Footprint /\ Recorded /\ Alone
         /\ CarriesItsUser(u)
<1>1. ExecutionTypeOK /\ OnThreads BY DEF ExecutionInv
<1>2. unit \in [Unit -> UnitRecord] /\ local \in [Thread -> LocalRecord]
  BY <1>1 DEF ExecutionTypeOK, UnitRecord, LocalRecord
<1>3. unit[u].on \in Thread /\ unit[u].user \in User \cup {Guest} BY <1>1, <1>2 DEF UnitRecord, OnThreads
<1>4. unit[u].at # "none" BY DEF InThread
<1>5. QED BY <1>1, <1>2, <1>3, <1>4 DEF ExecutionInv, ExecutionTypeOK, ThreadsAreClean, UnitsCarryUsers

LEMMA BeginningKeepsExecutionInv ==
  ASSUME ExecutionInv, NEW u \in Unit, Connect(u) \/ ConnectFails(u) \/ SetUser(u)
  PROVE  ExecutionInv'
<1>1. unit[u].at \in InThread BY DEF Connect, ConnectFails, SetUser, InThread
<1>2. /\ local \in [Thread -> LocalRecord] /\ unit[u].on \in Thread
      /\ local[unit[u].on] \in LocalRecord /\ unit[u].user \in User \cup {Guest}
      /\ Made(u) /\ committed \subseteq Footprint
  BY <1>1, LocalParts
<1>3. CASE Connect(u)
  <2> DEFINE l == [user |-> Administrator, work |-> {}]
  <2>1. l \in LocalRecord BY DEF LocalRecord
  <2>2. local' = [local EXCEPT ![unit[u].on] = l] /\ l.work = {} BY <1>3 DEF Connect
  <2>3. Goes(u, "connected", unit[u].on) BY <1>3 DEF Connect, Advance
  <2>4. Recorded' BY <1>3, <2>3, RecordedKept DEF Connect, Behind
  <2>5. /\ Advance(u, "connected") /\ UNCHANGED loop /\ committed' \subseteq Footprint
        /\ "connected" \in InThread
    BY <1>2, <1>3 DEF Connect, InThread
  <2> HIDE DEF l
  <2>6. QED BY <1>1, <2>1, <2>2, <2>4, <2>5, InThreadStep
<1>4. CASE ConnectFails(u)
  <2>1. PICK user \in {Administrator, local[unit[u].on].user} :
          local' = [local EXCEPT ![unit[u].on].user = user]
    BY <1>4 DEF ConnectFails
  <2> DEFINE l == [user |-> user, work |-> local[unit[u].on].work]
  <2>2. l \in LocalRecord BY <1>2 DEF LocalRecord
  <2>3. local' = [local EXCEPT ![unit[u].on] = l] BY <1>2, <2>1, LocalUpdates
  <2>4. Leave(u, "raised") /\ UNCHANGED <<loop, committed>> BY <1>4 DEF ConnectFails
  <2> HIDE DEF l
  <2>5. QED BY <1>1, <2>2, <2>3, <2>4, LeaveStep
<1>5. CASE SetUser(u)
  <2> DEFINE l == [user |-> unit[u].user, work |-> local[unit[u].on].work]
  <2>1. l \in LocalRecord BY <1>2 DEF LocalRecord
  <2>2. local' = [local EXCEPT ![unit[u].on] = l] BY <1>2, <1>5, LocalUpdates DEF SetUser
  <2>3. l.work = {} /\ l.user = unit[u].user BY <1>2, <1>5 DEF SetUser, Made
  <2>4. Goes(u, "session", unit[u].on) BY <1>5 DEF SetUser, Advance
  <2>5. Recorded' BY <1>5, <2>4, RecordedKept DEF SetUser, Behind
  <2>6. /\ Advance(u, "session") /\ UNCHANGED loop /\ committed' \subseteq Footprint
        /\ "session" \in InThread
    BY <1>2, <1>5 DEF SetUser, InThread
  <2> HIDE DEF l
  <2>7. QED BY <1>1, <2>1, <2>2, <2>3, <2>5, <2>6, InThreadStep
<1>6. QED BY <1>3, <1>4, <1>5

LEMMA RunKeepsExecutionInv == ASSUME ExecutionInv, NEW u \in Unit, Run(u) PROVE ExecutionInv'
<1>1. unit[u].at \in InThread BY DEF Run, InThread
<1>2. /\ local \in [Thread -> LocalRecord] /\ unit[u].on \in Thread
      /\ local[unit[u].on] \in LocalRecord /\ unit[u].user \in User \cup {Guest}
      /\ Made(u) /\ committed \subseteq Footprint
  BY <1>1, LocalParts
<1>3. local[unit[u].on].user = unit[u].user /\ local[unit[u].on].work = {} BY <1>2 DEF Run, Made
<1> DEFINE l == [user |-> unit[u].user, work |-> {Mine(u)}]
<1>4. l \in LocalRecord BY <1>2 DEF LocalRecord, Mine, Footprint
<1>5. local' = [local EXCEPT ![unit[u].on] = l]
  <2>1. local[unit[u].on].work \cup {[unit |-> u, user |-> local[unit[u].on].user]} = {Mine(u)}
    BY <1>3 DEF Mine
  <2>2. local' = [local EXCEPT ![unit[u].on].work = {Mine(u)}] BY <2>1 DEF Run
  <2>3. local' = [local EXCEPT ![unit[u].on] = [user |-> local[unit[u].on].user, work |-> {Mine(u)}]]
    BY <1>2, <2>2, LocalUpdates
  <2>4. QED BY <1>3, <2>3
<1>6. l.user = unit[u].user /\ l.work = {Mine(u)} OBVIOUS
<1>7. Goes(u, "ran", unit[u].on) BY DEF Run, Advance
<1>8. Recorded' BY <1>7, RecordedKept DEF Run, Behind
<1>9. /\ Advance(u, "ran") /\ UNCHANGED loop /\ committed' \subseteq Footprint
      /\ "ran" \in InThread
  BY <1>2 DEF Run, InThread
<1> HIDE DEF l
<1>10. QED BY <1>1, <1>4, <1>5, <1>6, <1>8, <1>9, InThreadStep

\* What is committed with u is the work of u, and of no other unit.
LEMMA CommitsItsOwn ==
  ASSUME ExecutionInv, NEW u \in Unit, Commit(u)
  PROVE  committed' = committed \cup {Mine(u)} /\ \A w \in committed : w.unit # u
<1>1. unit[u].at \in InThread /\ unit[u].at = "ran" BY DEF Commit, InThread
<1>2. Made(u) /\ Recorded BY <1>1, LocalParts
<1>3. local[unit[u].on].work = {Mine(u)} BY <1>1, <1>2 DEF Made
<1>4. QED BY <1>1, <1>2, <1>3 DEF Commit, Recorded, Behind

LEMMA EndingKeepsExecutionInv ==
  ASSUME ExecutionInv, NEW u \in Unit, Commit(u) \/ Rollback(u) \/ Destroy(u)
  PROVE  ExecutionInv'
<1>1. unit[u].at \in InThread BY DEF Commit, Rollback, Destroy, InThread
<1>2. /\ local \in [Thread -> LocalRecord] /\ unit[u].on \in Thread
      /\ local[unit[u].on] \in LocalRecord /\ unit[u].user \in User \cup {Guest}
      /\ Made(u) /\ committed \subseteq Footprint /\ Recorded /\ CarriesItsUser(u)
  BY <1>1, LocalParts
<1> DEFINE l == [user |-> local[unit[u].on].user, work |-> {}]
<1>3. l \in LocalRecord BY <1>2 DEF LocalRecord
<1>4. ExecutionTypeOK BY DEF ExecutionInv
<1>5. CASE Commit(u)
  <2>1. local' = [local EXCEPT ![unit[u].on] = l] BY <1>2, <1>5, LocalUpdates DEF Commit
  <2>2. committed' = committed \cup {Mine(u)} /\ \A w \in committed : w.unit # u BY <1>5, CommitsItsOwn
  <2>3. committed' \subseteq Footprint BY <1>2, <2>2 DEF Mine, Footprint
  <2>4. Goes(u, "committed", unit[u].on) BY <1>5 DEF Commit, Advance
  <2>5. /\ unit'[u].at = "committed" /\ unit'[u].user = unit[u].user
        /\ \A v \in Unit \ {u} : unit'[v] = unit[v]
    <3>1. BecomesUnit(u, [at |-> "committed", user |-> unit[u].user, on |-> unit[u].on])
      BY <1>4, <2>4, GoesChanges
    <3>2. QED BY <3>1 DEF BecomesUnit
  <2>6. ASSUME NEW w \in committed'
        PROVE  unit'[w.unit].at \in Behind /\ CarriesItsUser(w.unit)' /\ w.user = unit'[w.unit].user
    <3>1. CASE w = Mine(u) BY <1>2, <2>5, <3>1 DEF Mine, Behind, CarriesItsUser
    <3>2. CASE w \in committed
      <4>1. w.unit \in Unit \ {u} BY <1>2, <2>2, <3>2 DEF Footprint
      <4>2. QED BY <1>2, <2>5, <3>2, <4>1 DEF Recorded, CarriesItsUser
    <3>3. QED BY <2>2, <3>1, <3>2
  <2>7. ASSUME NEW v \in Unit, unit'[v].at \in {"committed", "returned"} PROVE Mine(v)' \in committed'
    <3>1. Mine(v)' = Mine(v) BY <2>5 DEF Mine
    <3>2. CASE v = u BY <2>2, <3>1, <3>2
    <3>3. CASE v # u BY <1>2, <2>2, <2>5, <2>7, <3>1, <3>3 DEF Recorded
    <3>4. QED BY <3>2, <3>3
  <2>8. Recorded' BY <2>6, <2>7 DEF Recorded
  <2>9. /\ Advance(u, "committed") /\ UNCHANGED loop /\ "committed" \in InThread
    BY <1>5 DEF Commit, InThread
  <2> HIDE DEF l
  <2>10. QED BY <1>1, <1>3, <2>1, <2>3, <2>8, <2>9, InThreadStep
<1>6. CASE Rollback(u)
  <2>1. local' = [local EXCEPT ![unit[u].on] = l] BY <1>2, <1>6, LocalUpdates DEF Rollback
  <2>2. Goes(u, "undone", unit[u].on) BY <1>6 DEF Rollback, Advance
  <2>3. Recorded' BY <1>6, <2>2, RecordedKept DEF Rollback, Behind
  <2>4. /\ Advance(u, "undone") /\ UNCHANGED loop /\ committed' \subseteq Footprint
        /\ "undone" \in InThread
    BY <1>2, <1>6 DEF Rollback, InThread
  <2> HIDE DEF l
  <2>5. QED BY <1>1, <1>3, <2>1, <2>3, <2>4, InThreadStep
<1>7. CASE Destroy(u)
  <2>1. PICK p \in {"returned", "raised"} : (p = "returned" => unit[u].at = "committed") /\ Leave(u, p)
    BY <1>7 DEF Destroy
  <2>2. Blank \in LocalRecord BY DEF Blank, LocalRecord
  <2>3. local' = [local EXCEPT ![unit[u].on] = Blank] /\ UNCHANGED <<loop, committed>> BY <1>7 DEF Destroy
  <2>4. QED BY <1>1, <2>1, <2>2, <2>3, LeaveStep
<1>8. QED BY <1>5, <1>6, <1>7

LEMMA ExecutionStep == ExecutionInv /\ [ExecutionNext]_executions => ExecutionInv'
<1>1. SUFFICES ASSUME ExecutionInv, [ExecutionNext]_executions PROVE ExecutionInv' OBVIOUS
<1>2. CASE UNCHANGED executions
  BY <1>1, <1>2 DEF executions, ExecutionInv, ExecutionTypeOK, CallersKnown, UnitsCarryUsers, CarriesItsUser,
     OnThreads, Alone, ThreadsAreClean, Made, Mine, Recorded
<1>3. CASE Stop BY <1>1, <1>3, StopKeepsExecutionInv
<1>4. ASSUME NEW c \in Call, OnLoop(c) PROVE ExecutionInv'
  BY <1>1, <1>4, OnLoopKeepsExecutionInv, AsksKeepExecutionInv DEF OnLoop
<1>5. ASSUME NEW u \in Unit, OffLoop(u) PROVE ExecutionInv'
  BY <1>1, <1>5, TakeKeepsExecutionInv, BeginningKeepsExecutionInv, RunKeepsExecutionInv, EndingKeepsExecutionInv
  DEF OffLoop
<1>6. QED BY <1>1, <1>2, <1>3, <1>4, <1>5 DEF ExecutionNext

LEMMA ExecutionInvariant == ExecutionSpec => []ExecutionInv
BY ExecutionStarts, ExecutionStep, PTL DEF ExecutionSpec

\* Every variable of the executor and of its callers keeps its type, for any
\* calls, units, users and threads.
THEOREM ExecutionTypes == ExecutionSpec => []ExecutionTypeOK
BY ExecutionInvariant, PTL DEF ExecutionInv

\* What is in the database for a call was done as the user of that call.
THEOREM DoneAsItsCaller == ExecutionSpec => []WorkIsDoneAsItsCaller
<1>1. ExecutionInv => WorkIsDoneAsItsCaller
  BY DEF ExecutionInv, Recorded, CarriesItsUser, WorkIsDoneAsItsCaller
<1>2. QED BY <1>1, ExecutionInvariant, PTL

-----------------------------------------------------------------------------
(* The executor implements UnitsOfWork.                                    *)

AskedUnits == {u \in Unit : unit[u].at # "none"}
DoneUnits  == {w.unit : w \in committed}
EndedUnits == [u \in Unit |-> IF unit[u].at \in Done THEN unit[u].at ELSE "none"]

\* A step of a unit that is neither asked for by it nor ends with it.
LEMMA GoesUnseen ==
  ASSUME ExecutionTypeOK, NEW u \in Unit, NEW p, NEW t, Goes(u, p, t),
         unit[u].at # "none", p # "none", unit[u].at \notin Done, p \notin Done
  PROVE  AskedUnits' = AskedUnits /\ EndedUnits' = EndedUnits
<1>1. BecomesUnit(u, [at |-> p, user |-> unit[u].user, on |-> t]) BY GoesChanges
<1>2. unit'[u].at = p /\ \A v \in Unit \ {u} : unit'[v] = unit[v] BY <1>1 DEF BecomesUnit
<1>3. QED BY <1>2 DEF AskedUnits, EndedUnits

\* A step that ends u.
LEMMA GoesToItsEnd ==
  ASSUME ExecutionTypeOK, NEW u \in Unit, NEW p \in {"returned", "raised"}, Leave(u, p),
         unit[u].at # "none", unit[u].at \notin Done, committed' = committed,
         p = "returned" => u \in DoneUnits
  PROVE  Work!End(u)
<1>1. BecomesUnit(u, [at |-> p, user |-> unit[u].user, on |-> NoThread]) BY GoesChanges DEF Leave
<1>2. unit'[u].at = p /\ \A v \in Unit \ {u} : unit'[v] = unit[v] BY <1>1 DEF BecomesUnit
<1>3. u \in AskedUnits /\ EndedUnits[u] = "none" BY DEF AskedUnits, EndedUnits
<1>4. AskedUnits' = AskedUnits BY <1>2 DEF AskedUnits
<1>5. DoneUnits' = DoneUnits BY DEF DoneUnits
<1>6. EndedUnits' = [EndedUnits EXCEPT ![u] = p] BY <1>2 DEF EndedUnits, Done
<1>7. QED BY <1>3, <1>4, <1>5, <1>6 DEF Work!End, Work!Open, AskedUnits, DoneUnits, EndedUnits

LEMMA SubmitAsks ==
  ASSUME ExecutionTypeOK, NEW c \in Call, NEW user, Submit(c, user), committed' = committed
  PROVE  \E u \in Unit : Work!Ask(u)
<1>1. PICK u \in Unit : unit[u].at = "none" /\ unit' = [unit EXCEPT ![u] = Queued(user)]
  BY DEF Submit, Queued
<1>2. unit'[u].at = "queued" /\ \A v \in Unit \ {u} : unit'[v] = unit[v]
  BY <1>1 DEF ExecutionTypeOK, Queued
<1>3. u \notin AskedUnits BY <1>1 DEF AskedUnits
<1>4. AskedUnits' = AskedUnits \cup {u} BY <1>2 DEF AskedUnits
<1>5. DoneUnits' = DoneUnits BY DEF DoneUnits
<1>6. EndedUnits' = EndedUnits BY <1>1, <1>2 DEF EndedUnits, Done
<1>7. Work!Ask(u) BY <1>3, <1>4, <1>5, <1>6 DEF Work!Ask, AskedUnits, DoneUnits, EndedUnits
<1>8. QED BY <1>7

LEMMA StopDrops == ASSUME ExecutionInv, Stop PROVE Work!Drop
<1>1. ExecutionTypeOK /\ Recorded BY DEF ExecutionInv
<1> DEFINE waiting == {u \in Unit : unit[u].at = "queued"}
<1>2. waiting \subseteq AskedUnits \ DoneUnits
  BY <1>1 DEF AskedUnits, DoneUnits, Recorded, Behind
<1>3. \A u \in waiting : u \in AskedUnits /\ EndedUnits[u] = "none" BY DEF AskedUnits, EndedUnits, Done
<1>4. \A u \in Unit : unit'[u].at = IF u \in waiting THEN "dropped" ELSE unit[u].at
  BY <1>1 DEF Stop, ExecutionTypeOK
<1>5. AskedUnits' = AskedUnits BY <1>4 DEF AskedUnits
<1>6. DoneUnits' = DoneUnits BY DEF DoneUnits, Stop
<1>7. EndedUnits' = [u \in Unit |-> IF u \in waiting THEN "dropped" ELSE EndedUnits[u]]
  BY <1>4 DEF EndedUnits, Done
<1>8. waiting \in SUBSET (AskedUnits \ DoneUnits) BY <1>2
<1> HIDE DEF waiting
<1>9. QED BY <1>3, <1>5, <1>6, <1>7, <1>8 DEF Work!Drop, Work!Open, AskedUnits, DoneUnits, EndedUnits

LEMMA CommitDoes == ASSUME ExecutionInv, NEW u \in Unit, Commit(u) PROVE Work!Do(u)
<1>1. ExecutionTypeOK BY DEF ExecutionInv
<1>2. committed' = committed \cup {Mine(u)} /\ \A w \in committed : w.unit # u BY CommitsItsOwn
<1>3. unit[u].at = "ran" /\ Goes(u, "committed", unit[u].on) BY DEF Commit, Advance
<1>4. AskedUnits' = AskedUnits /\ EndedUnits' = EndedUnits BY <1>1, <1>3, GoesUnseen DEF Done
<1>5. u \in AskedUnits /\ EndedUnits[u] = "none" BY <1>3 DEF AskedUnits, EndedUnits, Done
<1>6. u \notin DoneUnits /\ DoneUnits' = DoneUnits \cup {u}
  <2>1. u \notin DoneUnits BY <1>2 DEF DoneUnits
  <2>2. Mine(u).unit = u BY DEF Mine
  <2>3. DoneUnits' = {w.unit : w \in committed \cup {Mine(u)}} BY <1>2 DEF DoneUnits
  <2>4. {w.unit : w \in committed \cup {Mine(u)}} = DoneUnits \cup {Mine(u).unit} BY DEF DoneUnits
  <2>5. QED BY <2>1, <2>2, <2>3, <2>4
<1>7. QED BY <1>4, <1>5, <1>6 DEF Work!Do, Work!Open, AskedUnits, DoneUnits, EndedUnits

\* What else a thread does.
LEMMA ThreadIsUnseen ==
  ASSUME ExecutionInv, NEW u \in Unit,
         (\E t \in Thread : Take(u, t)) \/ Connect(u) \/ SetUser(u) \/ Run(u) \/ Rollback(u)
  PROVE  UNCHANGED <<AskedUnits, DoneUnits, EndedUnits>>
<1>1. ExecutionTypeOK BY DEF ExecutionInv
<1>2. committed' = committed /\ unit[u].at \in {"queued", "taken", "connected", "session", "ran"}
  BY DEF Take, Connect, SetUser, Run, Rollback
<1>3. PICK p \in {"taken", "connected", "session", "ran", "undone"}, t \in Thread \cup {NoThread} : Goes(u, p, t)
  <2>1. unit[u].on \in Thread \cup {NoThread} BY <1>1 DEF ExecutionTypeOK
  <2>2. QED BY <2>1 DEF Take, Connect, SetUser, Run, Rollback, Advance
<1>4. AskedUnits' = AskedUnits /\ EndedUnits' = EndedUnits BY <1>1, <1>2, <1>3, GoesUnseen DEF Done
<1>5. QED BY <1>2, <1>4 DEF DoneUnits

LEMMA ThreadEnds ==
  ASSUME ExecutionInv, NEW u \in Unit, ConnectFails(u) \/ Destroy(u)
  PROVE  Work!End(u)
<1>1. ExecutionTypeOK /\ Recorded BY DEF ExecutionInv
<1>2. CASE ConnectFails(u) BY <1>1, <1>2, GoesToItsEnd DEF ConnectFails, Done
<1>3. CASE Destroy(u)
  <2>1. PICK p \in {"returned", "raised"} : (p = "returned" => unit[u].at = "committed") /\ Leave(u, p)
    BY <1>3 DEF Destroy
  <2>2. p = "returned" => u \in DoneUnits
    <3>1. SUFFICES ASSUME p = "returned" PROVE u \in DoneUnits OBVIOUS
    <3>2. Mine(u) \in committed BY <1>1, <2>1, <3>1 DEF Recorded
    <3>3. QED BY <3>2 DEF DoneUnits, Mine
  <2>3. committed' = committed /\ unit[u].at # "none" /\ unit[u].at \notin Done BY <1>3 DEF Destroy, Done
  <2>4. QED BY <1>1, <2>1, <2>2, <2>3, GoesToItsEnd
<1>4. QED BY <1>2, <1>3

LEMMA ExecutionStepIsWork ==
  ExecutionInv /\ [ExecutionNext]_executions => [Work!Next]_<<AskedUnits, DoneUnits, EndedUnits>>
<1>1. SUFFICES ASSUME ExecutionInv, [ExecutionNext]_executions
               PROVE  Work!Next \/ UNCHANGED <<AskedUnits, DoneUnits, EndedUnits>>
  OBVIOUS
<1>2. ExecutionTypeOK BY <1>1 DEF ExecutionInv
<1>3. CASE UNCHANGED <<unit, committed>> BY <1>3 DEF AskedUnits, DoneUnits, EndedUnits
<1>4. CASE Stop BY <1>1, <1>4, StopDrops DEF Work!Next
<1>5. ASSUME NEW c \in Call, OnLoop(c), ~ UNCHANGED <<unit, committed>> PROVE Work!Next
  <2>1. PICK user : Submit(c, user) /\ committed' = committed
    BY <1>5 DEF OnLoop, Execute, Authenticate, Refused, RunSync, RunAsync, Offload, EndAsync, EndSync
  <2>2. QED BY <1>2, <2>1, SubmitAsks DEF Work!Next
<1>6. ASSUME NEW u \in Unit, OffLoop(u) PROVE Work!Next \/ UNCHANGED <<AskedUnits, DoneUnits, EndedUnits>>
  BY <1>1, <1>6, ThreadIsUnseen, ThreadEnds, CommitDoes DEF OffLoop, Work!Next
<1>7. CASE UNCHANGED executions BY <1>3, <1>7 DEF executions
<1>8. QED BY <1>1, <1>3, <1>4, <1>5, <1>6, <1>7 DEF ExecutionNext

\* The executor with its threads, sessions and transactions implements the
\* units of UnitsOfWork: each is done in one step, once, and alone.
THEOREM ExecutorImplementsWork == ExecutionSpec => WorkSpec
<1>1. ExecutionInit => Work!Init
  BY DEF ExecutionInit, NoUnit, Done, Work!Init
<1>2. ExecutionInv /\ [ExecutionNext]_executions => [Work!Next]_Work!work
  BY ExecutionStepIsWork DEF Work!work, AskedUnits, DoneUnits, EndedUnits
<1>3. QED BY <1>1, <1>2, ExecutionInvariant, PTL DEF ExecutionSpec, WorkSpec, Work!Spec

=============================================================================
