---------------------------- MODULE MethodExecution ----------------------------
(***************************************************************************)
(* method:execute and the executor of Frappe units of work (namespaces/    *)
(* method.py, runtime/frappe_executor.py).                                 *)
(*                                                                         *)
(* Each call is handled by a task of its own on the event loop.  A sync    *)
(* method is one unit of work of the executor, for the user of the call.   *)
(* An async method runs in the task itself and may have any number of      *)
(* units done by run_frappe, one after the other or at once, for the user  *)
(* in the context variable of the task.  A thread of the pool does a unit  *)
(* with what it keeps in frappe.local: connection, transaction, session.   *)
(*                                                                         *)
(* The handlers of documents and doctypes await units in the way of a sync *)
(* method.  A method neither commits by itself nor changes its user.       *)
(***************************************************************************)

CONSTANTS
  Call,           \* calls of method:execute
  User,           \* users that can be authenticated
  Guest,          \* the user in a context variable nobody has set
  Administrator,  \* the user frappe.connect begins with
  UserOf,         \* UserOf[c]: the user of the session of c, Guest if none
  Thread,         \* the threads of the pool
  NoThread,       \* where a unit is that no thread does
  Unit,           \* bound: the units of work the calls may ask for
  CallOf          \* CallOf[u]: the call whose unit u is

ASSUME UserAssumption == UserOf \in [Call -> User \cup {Guest}]
ASSUME ThreadAssumption == NoThread \notin Thread
ASSUME UnitAssumption == CallOf \in [Unit -> Call]

VARIABLES
  pool,      \* "open", or "closed" when the server has stopped
  handler,   \* handler[c]: where the handler of c is
  context,   \* context[c]: _current_user in the task of c
  unit,      \* unit[u]: where it is, for which user, and in which thread
  local,     \* local[t]: the user of the session and the open transaction
  committed  \* what is in the database: which unit did it, as which user

executions == <<pool, handler, context, unit, local, committed>>

\* "session" and "start" are awaits of on_method_execute; then it awaits its
\* unit or runs its coroutine; "cancelled" when the loop has ended.
HandlerPlaces == {"idle", "session", "start", "sync", "async", "success", "failure", "cancelled"}

\* The steps of _run: a unit is "taken" by a thread, "connected", has its
\* session, has "ran", and is "committed" or "undone" when destroy is called.
Done       == {"returned", "raised", "dropped"}
InThread   == {"taken", "connected", "session", "ran", "committed", "undone"}
UnitPlaces == {"none", "queued"} \cup InThread \cup Done

NoUnit == [at |-> "none", user |-> Guest, on |-> NoThread]
Blank  == [user |-> Guest, work |-> {}]

ExecutionInit ==
  /\ pool      = "open"
  /\ handler   = [c \in Call |-> "idle"]
  /\ context   = [c \in Call |-> Guest]
  /\ unit      = [u \in Unit |-> NoUnit]
  /\ local     = [t \in Thread |-> Blank]
  /\ committed = {}

-----------------------------------------------------------------------------
(* on_method_execute, on the event loop.                                   *)

Handle(c, p) == handler' = [handler EXCEPT ![c] = p]

\* run_frappe: the user is resolved here, in the task that calls it.
Submit(c, user) ==
  \E u \in Unit :
    /\ CallOf[u] = c /\ unit[u].at = "none"
    /\ unit' = [unit EXCEPT ![u] = [at |-> "queued", user |-> user, on |-> NoThread]]

\* The call comes in: require_user awaits the session.
Execute(c) ==
  /\ pool = "open" /\ handler[c] = "idle"
  /\ Handle(c, "session")
  /\ UNCHANGED <<pool, context, unit, local, committed>>

\* A user and proper arguments, or a failure; the start event is awaited.
Authenticate(c) ==
  /\ handler[c] = "session"
  /\ \E p \in {"start", "failure"} : (p = "start" => UserOf[c] # Guest) /\ Handle(c, p)
  /\ UNCHANGED <<pool, context, unit, local, committed>>

\* Mutant of Bind: the identity in a global of the module.
BindGlobal(c) == context' = [d \in Call |-> UserOf[c]]

\* set_current_user: a context variable is of the task.
Bind(c) == context' = [context EXCEPT ![c] = UserOf[c]]

\* The method is not there or not whitelisted; it is async and not registered.
Refused(c) ==
  /\ handler[c] = "start"
  /\ UNCHANGED context \/ Bind(c)
  /\ Handle(c, "failure")
  /\ UNCHANGED <<pool, unit, local, committed>>

\* A sync method: its unit is handed over with the user of the call.
RunSync(c) ==
  /\ handler[c] = "start"
  /\ Bind(c)
  /\ Submit(c, UserOf[c])
  /\ Handle(c, "sync")
  /\ UNCHANGED <<pool, local, committed>>

\* An async method, registered: its coroutine runs in the task.
RunAsync(c) ==
  /\ handler[c] = "start"
  /\ Bind(c)
  /\ Handle(c, "async")
  /\ UNCHANGED <<pool, unit, local, committed>>

\* The coroutine calls run_frappe, itself or in tasks it has created, which
\* begin with a copy of its context.
Offload(c) ==
  /\ handler[c] = "async"
  /\ Submit(c, context[c])
  /\ UNCHANGED <<pool, handler, context, local, committed>>

\* The coroutine returns or raises; gather may have left units behind.
EndAsync(c) ==
  /\ handler[c] = "async"
  /\ \E p \in {"success", "failure"} : Handle(c, p)
  /\ UNCHANGED <<pool, context, unit, local, committed>>

\* The handler resumes with what its unit returned or raised; a result that
\* cannot be sent is a failure too.
EndSync(c) ==
  /\ handler[c] = "sync"
  /\ \E u \in Unit, p \in {"success", "failure"} :
       /\ CallOf[u] = c /\ unit[u].at \in {"returned", "raised"}
       /\ p = "success" => unit[u].at = "returned"
       /\ Handle(c, p)
  /\ UNCHANGED <<pool, context, unit, local, committed>>

\* The server stops.  The loop cancels its tasks, and with them the units
\* that wait; shutdown lets the threads finish those they have taken.
Stop ==
  /\ pool = "open"
  /\ pool'    = "closed"
  /\ handler' = [c \in Call |-> IF handler[c] \in {"session", "start", "sync", "async"}
                                THEN "cancelled" ELSE handler[c]]
  /\ unit'    = [u \in Unit |-> IF unit[u].at = "queued" THEN [unit[u] EXCEPT !.at = "dropped"] ELSE unit[u]]
  /\ UNCHANGED <<context, local, committed>>

-----------------------------------------------------------------------------
(* _run, in a thread.                                                      *)

loop == <<pool, handler, context>>

\* u is at p, and on t.
Goes(u, p, t) == unit' = [unit EXCEPT ![u] = [at |-> p, user |-> @.user, on |-> t]]
Advance(u, p) == Goes(u, p, unit[u].on)
Leave(u, p)   == Goes(u, p, NoThread)

\* Mutant of Take: a thread, and its connection, for units that run at once.
TakeAny(u, t) ==
  /\ unit[u].at = "queued"
  /\ Goes(u, "taken", t)
  /\ UNCHANGED <<loop, local, committed>>

\* A thread without work takes a unit that waits.
Take(u, t) ==
  /\ unit[u].at = "queued"
  /\ \A v \in Unit : unit[v].on # t
  /\ Goes(u, "taken", t)
  /\ UNCHANGED <<loop, local, committed>>

\* frappe.init, frappe.connect: a connection, with a session of its own.
Connect(u) ==
  /\ unit[u].at = "taken"
  /\ local' = [local EXCEPT ![unit[u].on] = [user |-> Administrator, work |-> {}]]
  /\ Advance(u, "connected")
  /\ UNCHANGED <<loop, committed>>

\* They raise before the try: what they have made stays in the thread.
ConnectFails(u) ==
  /\ unit[u].at = "taken"
  /\ \E user \in {Administrator, local[unit[u].on].user} :
       local' = [local EXCEPT ![unit[u].on].user = user]
  /\ Leave(u, "raised")
  /\ UNCHANGED <<loop, committed>>

\* frappe.set_user(user).
SetUser(u) ==
  /\ unit[u].at = "connected"
  /\ local' = [local EXCEPT ![unit[u].on].user = unit[u].user]
  /\ Advance(u, "session")
  /\ UNCHANGED <<loop, committed>>

\* fn: what it does is done by the user of the session.
Run(u) ==
  /\ unit[u].at = "session"
  /\ local' = [local EXCEPT ![unit[u].on].work = @ \cup {[unit |-> u, user |-> local[unit[u].on].user]}]
  /\ Advance(u, "ran")
  /\ UNCHANGED <<loop, committed>>

Commit(u) ==
  /\ unit[u].at = "ran"
  /\ committed' = committed \cup local[unit[u].on].work
  /\ local' = [local EXCEPT ![unit[u].on].work = {}]
  /\ Advance(u, "committed")
  /\ UNCHANGED loop

\* set_user, fn or the commit raises: rollback.
Rollback(u) ==
  /\ unit[u].at \in {"connected", "session", "ran"}
  /\ local' = [local EXCEPT ![unit[u].on].work = {}]
  /\ Advance(u, "undone")
  /\ UNCHANGED <<loop, committed>>

\* frappe.destroy, in the finally; it may raise after a commit, as the commit
\* may when the connection breaks after it.
Destroy(u) ==
  /\ unit[u].at \in {"committed", "undone"}
  /\ local' = [local EXCEPT ![unit[u].on] = Blank]
  /\ \E p \in {"returned", "raised"} : (p = "returned" => unit[u].at = "committed") /\ Leave(u, p)
  /\ UNCHANGED <<loop, committed>>

-----------------------------------------------------------------------------
OnLoop(c) ==
  \/ Execute(c) \/ Authenticate(c) \/ Refused(c) \/ RunSync(c) \/ RunAsync(c)
  \/ Offload(c) \/ EndAsync(c) \/ EndSync(c)

OffLoop(u) ==
  \/ \E t \in Thread : Take(u, t)
  \/ Connect(u) \/ ConnectFails(u) \/ SetUser(u) \/ Run(u) \/ Commit(u) \/ Rollback(u) \/ Destroy(u)

ExecutionNext == Stop \/ (\E c \in Call : OnLoop(c)) \/ (\E u \in Unit : OffLoop(u))

ExecutionSpec == ExecutionInit /\ [][ExecutionNext]_executions

-----------------------------------------------------------------------------
(* What the callers of run_frappe see: the units of module UnitsOfWork.    *)

Work == INSTANCE UnitsOfWork WITH
  asked <- {u \in Unit : unit[u].at # "none"},
  done  <- {w.unit : w \in committed},
  ended <- [u \in Unit |-> IF unit[u].at \in Done THEN unit[u].at ELSE "none"]

-----------------------------------------------------------------------------
(* Properties.                                                             *)

Footprint == [unit : Unit, user : User \cup {Guest, Administrator}]

ExecutionTypeOK ==
  /\ pool      \in {"open", "closed"}
  /\ handler   \in [Call -> HandlerPlaces]
  /\ context   \in [Call -> User \cup {Guest}]
  /\ unit      \in [Unit -> [at : UnitPlaces, user : User \cup {Guest}, on : Thread \cup {NoThread}]]
  /\ local     \in [Thread -> [user : User \cup {Guest, Administrator}, work : SUBSET Footprint]]
  /\ committed \subseteq Footprint

\* "The authenticated user for the in-flight operation, carried on the event
\* loop": whatever is done for a call is done as the user of its connection,
\* however many calls of other users share the loop and the threads, and
\* whatever is left in a thread by a unit that failed before.
WorkIsDoneAsItsCaller ==
  \A w \in committed : w.user = UserOf[CallOf[w.unit]] /\ w.user # Guest

\* "Isolates every blocking Frappe operation in its own thread": a unit is
\* done once and at once, or not at all; it is never committed, in part or in
\* full, by another one; it returns only if it was done; and one that was
\* dropped is not done later.
WorkSpec == Work!Spec

================================================================================
