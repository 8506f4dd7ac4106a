----------------------------- MODULE MethodTasks -----------------------------
(***************************************************************************)
(* method:enqueue: a call becomes a job of an RQ worker, and the worker    *)
(* tells the caller about it (namespaces/method.py, runtime/queue_router,  *)
(* utils/job_hooks, utils/realtime, runtime/emitter).                      *)
(*                                                                         *)
(* The handler awaits a thread of the executor, which decides on the queue *)
(* (once per server process, under a lock) and pushes the job.  The thread *)
(* is not the event loop: the handler resumes some time after the push,    *)
(* and only then joins the room of the task.  The worker runs meanwhile;   *)
(* what it publishes goes through Redis to the server, which delivers it   *)
(* to whoever is in the room then.                                         *)
(*                                                                         *)
(* A job stands for one call, which comes over a connection of its own     *)
(* and asks for the dedicated queue of its method.                         *)
(***************************************************************************)
EXTENDS Naturals, Sequences

CONSTANTS
  Server,       \* server processes, each with its cache of decisions
  Job,          \* calls of method:enqueue
  Home,         \* Home[j]: the server that call j comes to
  Realtime,     \* jobs whose method is registered with realtime=True
  NoJob,        \* holder of the lock of queue_router when it is free
  MaxProgress,  \* bound: progress events of one job
  MaxFaults     \* bound: faults of the workers, of Redis and of the database

ASSUME JobAssumption == Home \in [Job -> Server] /\ Realtime \subseteq Job /\ NoJob \notin Job
ASSUME BoundAssumption == MaxProgress \in Nat /\ MaxFaults \in Nat

Queue == {"dedicated", "default"}

VARIABLES
  alive,      \* the dedicated queue has a live worker; the default always has
  cached,     \* cached[s]: the queue in _resolved for the dedicated one, or "none"
  lock,       \* lock[s]: the call whose thread holds _lock
  place,      \* place[j]: where the call is
  queue,      \* queue[j]: the queue its thread has resolved, or "none"
  job,        \* job[j]: where the job is
  online,     \* calls whose connection is open
  room,       \* calls whose connection is in the room of their task
  onWay,      \* onWay[j]: events published that the server has not taken
  faults,     \* faults so far
  \* History, for the properties.
  outcome,    \* outcome[j]: how the method of the job ended, or "none"
  published,  \* published[j]: what the worker has published
  early,      \* calls that joined their room before anything was published
  dropped,    \* calls of which an event was lost between worker and server
  heard       \* heard[j]: the method:enqueue:* events its connection was sent

router  == <<alive, cached, lock>>
channel == <<onWay, published, dropped>>
client  == <<online, room, early, heard>>
vars    == <<alive, cached, lock, place, queue, job, online, room, onWay, faults,
             outcome, published, early, dropped, heard>>

\* The handler waits for its thread at "resolve" .. "commit"; the thread is
\* done at "queued" and "raised", the handler at "accepted" and "failed".
Places == {"idle", "resolve", "lock", "decide", "store", "push", "commit",
           "queued", "raised", "accepted", "failed"}

\* "callback" when the method has ended and RQ is to call on_success or
\* on_failure; "lost" when the worker has died with it.
JobState == {"none", "waiting", "running", "callback", "done", "lost"}

Terminal == {"success", "failure"}

Goto(j, p) == place' = [place EXCEPT ![j] = p]
Fault == faults < MaxFaults /\ faults' = faults + 1

\* _emit_state to the connection of j, if it is still open.
Tell(j, events) == heard' = [heard EXCEPT ![j] = IF j \in online THEN @ \o events ELSE @]

-----------------------------------------------------------------------------
\* At its start the server has decided about "fraxis" (validate_startup_queue);
\* about the queue of another name a method may ask for it has not.
Init ==
  /\ alive     \in BOOLEAN
  /\ cached    \in [Server -> {"none", IF alive THEN "dedicated" ELSE "default"}]
  /\ lock      = [s \in Server |-> NoJob]
  /\ place     = [j \in Job |-> "idle"]
  /\ queue     = [j \in Job |-> "none"]
  /\ job       = [j \in Job |-> "none"]
  /\ online    = Job
  /\ room      = {}
  /\ onWay     = [j \in Job |-> <<>>]
  /\ faults    = 0
  /\ outcome   = [j \in Job |-> "none"]
  /\ published = [j \in Job |-> <<>>]
  /\ early     = {}
  /\ dropped   = {}
  /\ heard     = [j \in Job |-> <<>>]

-----------------------------------------------------------------------------
(* The handler, on the event loop.                                         *)

\* on_method_enqueue until it awaits the executor.
Request(j) ==
  /\ place[j] = "idle" /\ j \in online
  /\ Tell(j, <<"start">>)
  /\ Goto(j, "resolve")
  /\ UNCHANGED <<router, queue, job, online, room, channel, faults, outcome, early>>

\* The arguments are no good, or the method is not found or not permitted.
Refuse(j) ==
  /\ place[j] = "idle" /\ j \in online
  /\ \E events \in {<<"failure">>, <<"start", "failure">>} : Tell(j, events)
  /\ Goto(j, "failed")
  /\ UNCHANGED <<router, queue, job, online, room, channel, faults, outcome, early>>

\* The handler resumes: enter_room, then method:enqueue:accepted.
Accept(j) ==
  /\ place[j] = "queued"
  /\ room'  = IF j \in online THEN room \cup {j} ELSE room
  /\ early' = IF j \in online /\ published[j] = <<>> THEN early \cup {j} ELSE early
  /\ Tell(j, <<"accepted">>)
  /\ Goto(j, "accepted")
  /\ UNCHANGED <<router, queue, job, online, channel, faults, outcome>>

\* The handler resumes with what its thread raised: _fail.
Fail(j) ==
  /\ place[j] = "raised"
  /\ Tell(j, <<"failure">>)
  /\ Goto(j, "failed")
  /\ UNCHANGED <<router, queue, job, online, room, channel, faults, outcome, early>>

\* The connection closes: the manager takes it out of its rooms.
Disconnect(j) ==
  /\ j \in online
  /\ online' = online \ {j}
  /\ room'   = room \ {j}
  /\ UNCHANGED <<router, place, queue, job, channel, faults, outcome, early, heard>>

-----------------------------------------------------------------------------
(* Its thread, in the executor: resolve_queue, frappe.enqueue, commit.     *)

thread == <<job, online, room, channel, outcome, early, heard>>

\* _run cannot connect to the database.
NotConnected(j) ==
  /\ Fault
  /\ place[j] = "resolve"
  /\ Goto(j, "raised")
  /\ UNCHANGED <<router, queue, thread>>

\* The decision is looked up without the lock.
Lookup(j) ==
  /\ place[j] = "resolve"
  /\ IF cached[Home[j]] = "none"
     THEN Goto(j, "lock") /\ UNCHANGED queue
     ELSE Goto(j, "push") /\ queue' = [queue EXCEPT ![j] = cached[Home[j]]]
  /\ UNCHANGED <<router, faults, thread>>

\* Mutant of Recheck: under the lock nothing is looked up again.
RecheckNothing(j) ==
  /\ place[j] = "lock" /\ lock[Home[j]] = NoJob
  /\ lock' = [lock EXCEPT ![Home[j]] = j]
  /\ Goto(j, "decide")
  /\ UNCHANGED <<alive, cached, queue, faults, thread>>

\* The lock is taken and the decision looked up again; one that is there by
\* now is taken, and the lock let go.
Recheck(j) ==
  /\ place[j] = "lock" /\ lock[Home[j]] = NoJob
  /\ IF cached[Home[j]] = "none"
     THEN /\ lock' = [lock EXCEPT ![Home[j]] = j]
          /\ Goto(j, "decide")
          /\ UNCHANGED queue
     ELSE /\ queue' = [queue EXCEPT ![j] = cached[Home[j]]]
          /\ Goto(j, "push")
          /\ UNCHANGED lock
  /\ UNCHANGED <<alive, cached, faults, thread>>

\* Mutant of Decide: no fallback.
DecideAsAsked(j) ==
  /\ place[j] = "decide"
  /\ queue' = [queue EXCEPT ![j] = "dedicated"]
  /\ Goto(j, "store")
  /\ UNCHANGED <<router, faults, thread>>

\* _has_live_worker asks Redis; any error there counts as no.
Decide(j) ==
  /\ place[j] = "decide"
  /\ \E q \in Queue :
       /\ q = "dedicated" => alive
       /\ queue' = [queue EXCEPT ![j] = q]
  /\ Goto(j, "store")
  /\ UNCHANGED <<router, faults, thread>>

\* The decision is cached, for the life of the process, and the lock let go.
Store(j) ==
  /\ place[j] = "store"
  /\ cached' = [cached EXCEPT ![Home[j]] = queue[j]]
  /\ lock'   = [lock EXCEPT ![Home[j]] = NoJob]
  /\ Goto(j, "push")
  /\ UNCHANGED <<alive, queue, faults, thread>>

\* frappe.enqueue puts the job in the queue at once.
Push(j) ==
  /\ place[j] = "push"
  /\ job' = [job EXCEPT ![j] = "waiting"]
  /\ Goto(j, "commit")
  /\ UNCHANGED <<router, queue, client, channel, faults, outcome>>

\* frappe.enqueue raises: no such queue, or no Redis.
PushFails(j) ==
  /\ Fault
  /\ place[j] = "push"
  /\ Goto(j, "raised")
  /\ UNCHANGED <<router, queue, thread>>

\* _run commits and hands over the id of the job.
CommitThread(j) ==
  /\ place[j] = "commit"
  /\ Goto(j, "queued")
  /\ UNCHANGED <<router, queue, faults, thread>>

\* The commit fails, and _run rolls back: the job stays in its queue.
CommitFails(j) ==
  /\ Fault
  /\ place[j] = "commit"
  /\ Goto(j, "raised")
  /\ UNCHANGED <<router, queue, thread>>

-----------------------------------------------------------------------------
(* The worker.                                                             *)

\* The events of j go to Redis in the order of their publication.
Publish(j, event) ==
  /\ onWay'     = [onWay EXCEPT ![j] = Append(@, event)]
  /\ published' = [published EXCEPT ![j] = Append(@, event)]
  /\ UNCHANGED dropped

\* emit never raises: an event that cannot be published is lost.
PublishFails(j, event) ==
  /\ Fault
  /\ published' = [published EXCEPT ![j] = Append(@, event)]
  /\ dropped'   = dropped \cup {j}
  /\ UNCHANGED onWay

\* A worker takes the job from its queue.
StartJob(j) ==
  /\ job[j] = "waiting"
  /\ queue[j] = "dedicated" => alive
  /\ job' = [job EXCEPT ![j] = "running"]
  /\ UNCHANGED <<router, place, queue, client, channel, faults, outcome>>

\* The method calls publish_progress.
Progress(j) ==
  /\ job[j] = "running" /\ j \in Realtime
  /\ Len(published[j]) < MaxProgress
  /\ \/ Publish(j, "progress") /\ UNCHANGED faults
     \/ PublishFails(j, "progress")
  /\ UNCHANGED <<router, place, queue, job, client, outcome>>

\* The method returns or raises.
EndMethod(j) ==
  /\ job[j] = "running"
  /\ \E end \in Terminal : outcome' = [outcome EXCEPT ![j] = end]
  /\ job' = [job EXCEPT ![j] = "callback"]
  /\ UNCHANGED <<router, place, queue, client, channel, faults>>

\* Mutant of Callback: a hook for all jobs, called after any of them.
AlwaysSuccess(j) ==
  /\ job[j] = "callback"
  /\ Publish(j, "success")
  /\ job' = [job EXCEPT ![j] = "done"]
  /\ UNCHANGED <<router, place, queue, client, faults, outcome>>

\* RQ calls on_job_success or on_job_failure, which emit the terminal event.
Callback(j) ==
  /\ job[j] = "callback"
  /\ \/ Publish(j, outcome[j]) /\ UNCHANGED faults
     \/ PublishFails(j, outcome[j])
  /\ job' = [job EXCEPT ![j] = "done"]
  /\ UNCHANGED <<router, place, queue, client, outcome>>

\* The worker dies with the job.
Kill(j) ==
  /\ Fault
  /\ job[j] \in {"running", "callback"}
  /\ job' = [job EXCEPT ![j] = "lost"]
  /\ UNCHANGED <<router, place, queue, client, channel, outcome>>

\* The dedicated worker is started; it is stopped.
StartWorker ==
  /\ ~ alive
  /\ alive' = TRUE
  /\ UNCHANGED <<cached, lock, place, queue, job, client, channel, faults, outcome>>

StopWorker ==
  /\ Fault
  /\ alive
  /\ alive' = FALSE
  /\ UNCHANGED <<cached, lock, place, queue, job, client, channel, outcome>>

-----------------------------------------------------------------------------
(* From Redis to the caller.                                               *)

\* Mutant of Deliver: the connection leaves the room with its first event.
DeliverOnce(j) ==
  /\ onWay[j] # <<>>
  /\ onWay' = [onWay EXCEPT ![j] = Tail(@)]
  /\ heard' = IF j \in room THEN [heard EXCEPT ![j] = Append(@, Head(onWay[j]))] ELSE heard
  /\ room'  = room \ {j}
  /\ UNCHANGED <<router, place, queue, job, online, published, dropped, faults, outcome, early>>

\* The server takes the next event and sends it to the room of the task, in
\* which the caller is or is not.
Deliver(j) ==
  /\ onWay[j] # <<>>
  /\ onWay' = [onWay EXCEPT ![j] = Tail(@)]
  /\ heard' = IF j \in room THEN [heard EXCEPT ![j] = Append(@, Head(onWay[j]))] ELSE heard
  /\ UNCHANGED <<router, place, queue, job, online, room, published, dropped, faults, outcome, early>>

\* The server is not connected to Redis when the event comes.
Lose(j) ==
  /\ Fault
  /\ onWay[j] # <<>>
  /\ onWay'   = [onWay EXCEPT ![j] = Tail(@)]
  /\ dropped' = dropped \cup {j}
  /\ UNCHANGED <<router, place, queue, job, client, published, outcome>>

-----------------------------------------------------------------------------
Handler(j) == Accept(j) \/ Fail(j)

Executor(j) ==
  \/ Lookup(j) \/ Recheck(j) \/ Decide(j) \/ Store(j) \/ Push(j) \/ CommitThread(j)

Worker(j) == StartJob(j) \/ EndMethod(j) \/ Callback(j)

Faulty(j) ==
  \/ NotConnected(j) \/ PushFails(j) \/ CommitFails(j)
  \/ Kill(j) \/ Lose(j)

Next ==
  \/ StartWorker \/ StopWorker
  \/ \E j \in Job :
       \/ Request(j) \/ Refuse(j) \/ Disconnect(j)
       \/ Handler(j) \/ Executor(j)
       \/ Worker(j) \/ Progress(j)
       \/ Deliver(j)
       \/ Faulty(j)

Spec == Init /\ [][Next]_vars

\* The loop resumes its handlers, the executor runs its threads, a live worker
\* takes the jobs of its queue, and methods end.
Fairness ==
  \A j \in Job : WF_vars(Handler(j)) /\ WF_vars(Executor(j)) /\ WF_vars(Worker(j))

FairSpec == Spec /\ Fairness

-----------------------------------------------------------------------------
(* Properties.                                                             *)

TypeOK ==
  /\ alive     \in BOOLEAN
  /\ cached    \in [Server -> Queue \cup {"none"}]
  /\ lock      \in [Server -> Job \cup {NoJob}]
  /\ place     \in [Job -> Places]
  /\ queue     \in [Job -> Queue \cup {"none"}]
  /\ job       \in [Job -> JobState]
  /\ room      \subseteq online /\ online \subseteq Job
  /\ onWay     \in [Job -> Seq({"progress"} \cup Terminal)]
  /\ faults    \in 0..MaxFaults
  /\ outcome   \in [Job -> Terminal \cup {"none"}]
  /\ published \in [Job -> Seq({"progress"} \cup Terminal)]
  /\ early     \subseteq Job
  /\ dropped   \subseteq Job
  /\ heard     \in [Job -> Seq({"start", "accepted", "progress"} \cup Terminal)]

\* What the caller hears of its job after "accepted".
Told(j) == SubSeq(heard[j], 3, Len(heard[j]))

\* "Delivered exactly once": when the caller joins late, disconnects early or
\* is told that the call failed though the job was pushed, what it hears of
\* the job comes after "accepted" and is a part, in order and without gaps or
\* repetitions, of what the worker published, whose last event tells how the
\* method really ended.
TaskIsToldAsItHappened ==
  \A j \in Job :
    /\ Len(heard[j]) > 2 => heard[j][1] = "start" /\ heard[j][2] = "accepted"
    /\ j \notin dropped => \E before \in 0..Len(published[j]) :
         /\ before + Len(Told(j)) <= Len(published[j])
         /\ \A i \in 1..Len(Told(j)) : Told(j)[i] = published[j][before + i]
    /\ \A i \in 1..Len(Told(j)) : Told(j)[i] \in Terminal =>
         i = Len(Told(j)) /\ Told(j)[i] = outcome[j]

\* A caller that was in the room before the worker published anything, and
\* whose connection stays, hears all of it once it is delivered.
EarlyCallerHearsAll ==
  \A j \in (early \cap online) \ dropped : onWay[j] = <<>> => Told(j) = published[j]

\* However many threads ask for a queue at the same time, and whatever the
\* worker does meanwhile, a server process decides about it once: all of its
\* calls go the same way.
QueueIsDecidedOnce ==
  \A i, j \in Job :
    Home[i] = Home[j] /\ job[i] # "none" /\ job[j] # "none" => queue[i] = queue[j]

\* No job is stranded in a queue without a worker: as long as the dedicated
\* worker, if there is one, goes on, every job that was accepted is run and
\* its terminal event published.
AcceptedJobsAreRun ==
  \A j \in Job : place[j] = "accepted" ~> job[j] = "done" \/ faults > 0

\* "Join ONLY the canonical per-task room so each terminal/progress event is
\* delivered exactly once" (method.py:164): without any fault, a caller that
\* stays has heard the terminal event when it has been delivered.
CallerHearsTheEnd ==
  faults = 0 =>
    \A j \in online : place[j] = "accepted" /\ job[j] = "done" /\ onWay[j] = <<>> =>
      \E i \in 1..Len(heard[j]) : heard[j][i] \in Terminal

=============================================================================
