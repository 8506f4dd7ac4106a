--------------------------- MODULE DocEventBridge ---------------------------
(***************************************************************************)
(* How a change of a document becomes an event of a server process.        *)
(*                                                                         *)
(* There are two ways.  In band: a document:* handler of a server writes   *)
(* the document in the executor, with frappe.flags.fraxis_inband set, and  *)
(* after the commit broadcasts to the rooms of its own server.  Out of     *)
(* band: any other Frappe process writes; the doc_events hook runs inside  *)
(* the transaction and, if the gate is open, publishes a fact in Redis;    *)
(* the relay of every server that is connected broadcasts it.  The gate is *)
(* what GateSnapshot promises of is_active: open when the document has     *)
(* been subscribed for long, closed when it has not, either in between.    *)
(*                                                                         *)
(* Whom a broadcast reaches is the matter of PermittedBroadcast; here an   *)
(* event of a server is one call of emit_to_permitted.                     *)
(***************************************************************************)
EXTENDS Naturals, SequencesExt

CONSTANTS
  Server,     \* server processes, each with its relay
  Doc,        \* documents
  Writer,     \* transactions, each of one handler call or other request
  Outside,    \* where a writer runs that is no handler of a server
  NoWriter,   \* holder of a row lock that is free
  NoChange,   \* what an idle relay is dispatching
  MaxWrites,  \* bound: writes of one transaction, hooks included
  MaxFaults   \* bound: failed publishes, lost connections, failed broadcasts

ASSUME NamesAssumption ==
  /\ Outside \notin Server
  /\ NoWriter \notin Writer
  /\ NoChange \notin Writer \X (1..MaxWrites)
ASSUME BoundsAssumption == MaxWrites \in Nat \ {0} /\ MaxFaults \in Nat

\* The i-th write of a transaction; the first one is the one asked for, the
\* others are writes its controllers and hooks cause.
Change == Writer \X (1..MaxWrites)

Action == {"create", "update", "delete"}

VARIABLES
  exists,     \* documents there are, uncommitted changes included
  locked,     \* locked[d]: the writer that holds the row lock of d
  gate,       \* gate[d]: "open", "closed" or, for a TTL, "turning"
  home,       \* home[w]: the server whose handler w is, or Outside
  place,      \* place[w]: where the transaction is
  writes,     \* writes[w]: the sequence of its writes
  toEmit,     \* toEmit[w]: events its handler has still to broadcast
  queue,      \* queue[s]: facts Redis has sent to the relay of s
  connected,  \* servers whose relay is subscribed to the channel
  current,    \* current[s]: the change the relay of s dispatches
  toRelay,    \* toRelay[s]: events of it that are still to be broadcast
  faults,     \* faults so far
  \* History, for the properties.
  commits,    \* transactions in the order of their commits
  skipped,    \* changes the hook passed over because they are in band
  owed,       \* owed[s]: changes a fact was queued for while the gate was
              \* open, and nothing has gone wrong with it at s since
  relayed,    \* relayed[s]: changes in the order their dispatch began
  signalled   \* signalled[s][x]: the events of change x, in order

db    == <<exists, locked>>
work  == <<home, place, writes, toEmit>>
relay == <<current, toRelay>>
vars  == <<exists, locked, gate, home, place, writes, toEmit, queue, connected,
           current, toRelay, faults, commits, skipped, owed, relayed, signalled>>

\* An event and the room it goes to.
Created  == <<"document:created", "collection">>
Changed  == <<"document:changed", "collection">>
Updated  == <<"document:updated", "document">>
Deleted  == <<"document:deleted", "document">>

\* What the document:* handlers broadcast after their write.
InbandEvents(action) ==
  CASE action = "create" -> <<Created, Changed>>
    [] action = "update" -> <<Changed, Updated>>
    [] action = "delete" -> <<Changed, Deleted>>

\* What the relay broadcasts for a fact.
RelayEvents(action) ==
  (IF action = "create" THEN <<Created>> ELSE <<>>)
    \o <<Changed>>
    \o (IF action \in {"update", "delete"}
          THEN <<IF action = "update" THEN Updated ELSE Deleted>>
          ELSE <<>>)

WriteOf(x) == writes[x[1]][x[2]]

\* The write that w is at.
Latest(w) == <<w, Len(writes[w])>>

Fault == faults < MaxFaults /\ faults' = faults + 1

-----------------------------------------------------------------------------
Init ==
  /\ exists    \in SUBSET Doc
  /\ locked    = [d \in Doc |-> NoWriter]
  /\ gate      \in [Doc -> {"open", "closed"}]
  /\ home      = [w \in Writer |-> Outside]
  /\ place     = [w \in Writer |-> "idle"]
  /\ writes    = [w \in Writer |-> <<>>]
  /\ toEmit    = [w \in Writer |-> <<>>]
  /\ queue     = [s \in Server |-> <<>>]
  /\ connected = Server
  /\ current   = [s \in Server |-> NoChange]
  /\ toRelay   = [s \in Server |-> <<>>]
  /\ faults    = 0
  /\ commits   = <<>>
  /\ skipped   = {}
  /\ owed      = [s \in Server |-> {}]
  /\ relayed   = [s \in Server |-> <<>>]
  /\ signalled = [s \in Server |-> [x \in Change |-> <<>>]]

-----------------------------------------------------------------------------
(* The transaction.                                                        *)

\* A handler call or some other request begins.
Begin(w, h) ==
  /\ place[w] = "idle"
  /\ home'  = [home EXCEPT ![w] = h]
  /\ place' = [place EXCEPT ![w] = "ready"]
  /\ UNCHANGED <<db, gate, writes, toEmit, queue, connected, relay, faults,
                 commits, skipped, owed, relayed, signalled>>

Written(w) == {writes[w][i].doc : i \in 1..Len(writes[w])}

Note(w, d, action) ==
  writes' = [writes EXCEPT ![w] = Append(@, [doc |-> d, action |-> action])]

\* doc.insert() and doc.save(): the row is written and locked, then the hook
\* runs.  (insert() runs on_update after after_insert; its shim returns at
\* once when in_insert is set, so one hook stands for both.)
Write(w, d, action) ==
  /\ place[w] = "ready" /\ Len(writes[w]) < MaxWrites /\ d \notin Written(w)
  /\ locked[d] = NoWriter
  /\ \/ action = "create" /\ d \notin exists
     \/ action = "update" /\ d \in exists
  /\ exists' = exists \cup {d}
  /\ locked' = [locked EXCEPT ![d] = w]
  /\ Note(w, d, action)
  /\ place'  = [place EXCEPT ![w] = "hook"]
  /\ UNCHANGED <<gate, home, toEmit, queue, connected, relay, faults, commits,
                 skipped, owed, relayed, signalled>>

\* frappe.delete_doc: on_trash runs before the row is touched.
Trash(w, d) ==
  /\ place[w] = "ready" /\ Len(writes[w]) < MaxWrites /\ d \notin Written(w)
  /\ d \in exists
  /\ Note(w, d, "delete")
  /\ place' = [place EXCEPT ![w] = "hook"]
  /\ UNCHANGED <<db, gate, home, toEmit, queue, connected, relay, faults,
                 commits, skipped, owed, relayed, signalled>>

\* The row is deleted, unless another transaction has done so meanwhile.
Erase(w) ==
  LET d == WriteOf(Latest(w)).doc IN
  /\ place[w] = "erase"
  /\ locked[d] = NoWriter
  /\ \/ /\ d \in exists
        /\ exists' = exists \ {d}
        /\ locked' = [locked EXCEPT ![d] = w]
     \/ /\ d \notin exists
        /\ UNCHANGED db
  /\ place'  = [place EXCEPT ![w] = "ready"]
  /\ UNCHANGED <<gate, home, writes, toEmit, queue, connected, relay, faults,
                 commits, skipped, owed, relayed, signalled>>

\* The place after the hook.
AfterHook(w) ==
  place' = [place EXCEPT ![w] = IF WriteOf(Latest(w)).action = "delete"
                                  THEN "erase" ELSE "ready"]

\* publish_doc_event in a handler's executor call: the flag is set.
HookInBand(w) ==
  /\ place[w] = "hook" /\ home[w] # Outside
  /\ AfterHook(w)
  /\ skipped' = skipped \cup {Latest(w)}
  /\ UNCHANGED <<db, gate, home, writes, toEmit, queue, connected, relay, faults,
                 commits, owed, relayed, signalled>>

\* publish_doc_event elsewhere with a closed gate.
HookDormant(w) ==
  /\ place[w] = "hook" /\ home[w] = Outside
  /\ gate[WriteOf(Latest(w)).doc] # "open"
  /\ AfterHook(w)
  /\ UNCHANGED <<db, gate, home, writes, toEmit, queue, connected, relay, faults,
                 commits, skipped, owed, relayed, signalled>>

\* Mutant of HookPublishes: the in-band flag is not looked at.
HookPublishesAll(w) ==
  LET x == Latest(w) IN
  /\ place[w] = "hook" /\ gate[WriteOf(x).doc] # "closed"
  /\ AfterHook(w)
  /\ queue' = [s \in Server |-> IF s \in connected THEN Append(queue[s], x)
                                                   ELSE queue[s]]
  /\ UNCHANGED <<db, gate, home, writes, toEmit, connected, relay, faults,
                 commits, skipped, owed, relayed, signalled>>

\* publish_doc_event elsewhere with an open gate: Redis hands the fact to
\* every relay that is connected.
HookPublishes(w) ==
  LET x == Latest(w)
      open == gate[WriteOf(x).doc] IN
  /\ place[w] = "hook" /\ home[w] = Outside /\ open # "closed"
  /\ AfterHook(w)
  /\ queue' = [s \in Server |-> IF s \in connected THEN Append(queue[s], x)
                                                   ELSE queue[s]]
  /\ owed'  = [s \in Server |-> IF s \in connected /\ open = "open"
                                  THEN owed[s] \cup {x} ELSE owed[s]]
  /\ UNCHANGED <<db, gate, home, writes, toEmit, connected, relay, faults,
                 commits, skipped, relayed, signalled>>

\* The publish fails; the exception is swallowed.
HookFails(w) ==
  /\ place[w] = "hook" /\ home[w] = Outside
  /\ gate[WriteOf(Latest(w)).doc] # "closed"
  /\ Fault
  /\ AfterHook(w)
  /\ UNCHANGED <<db, gate, home, writes, toEmit, queue, connected, relay,
                 commits, skipped, owed, relayed, signalled>>

Released(w) == [d \in Doc |-> IF locked[d] = w THEN NoWriter ELSE locked[d]]

\* The transaction commits; a handler goes on to broadcast the change it was
\* asked for.
Commit(w) ==
  /\ place[w] = "ready" /\ writes[w] # <<>>
  /\ locked'  = Released(w)
  /\ commits' = Append(commits, w)
  /\ place'   = [place EXCEPT ![w] = IF home[w] = Outside THEN "done"
                                                          ELSE "emitting"]
  /\ toEmit'  = [toEmit EXCEPT ![w] = IF home[w] = Outside THEN <<>>
                                        ELSE InbandEvents(writes[w][1].action)]
  /\ UNCHANGED <<exists, gate, home, writes, queue, connected, relay, faults,
                 skipped, owed, relayed, signalled>>

\* Mutant of Rollback: the handler broadcasts whether its write failed or not.
RollbackBroadcasts(w) ==
  /\ place[w] \in {"ready", "hook", "erase"} /\ writes[w] # <<>>
  /\ home[w] # Outside
  /\ locked' = Released(w)
  /\ place'  = [place EXCEPT ![w] = "emitting"]
  /\ toEmit' = [toEmit EXCEPT ![w] = InbandEvents(writes[w][1].action)]
  /\ UNCHANGED <<exists, gate, home, writes, queue, connected, relay, faults,
                 commits, skipped, owed, relayed, signalled>>

\* An exception after any step: the transaction is rolled back, the facts it
\* has published stay published.
Rollback(w) ==
  LET made(d, action) == \E i \in 1..Len(writes[w]) :
                           writes[w][i] = [doc |-> d, action |-> action] IN
  /\ place[w] \in {"ready", "hook", "erase"}
  /\ exists' = {d \in exists : ~ (locked[d] = w /\ made(d, "create"))}
                 \cup {d \in Doc : locked[d] = w /\ made(d, "delete")}
  /\ locked' = Released(w)
  /\ place'  = [place EXCEPT ![w] = "aborted"]
  /\ UNCHANGED <<gate, home, writes, toEmit, queue, connected, relay, faults,
                 commits, skipped, owed, relayed, signalled>>

-----------------------------------------------------------------------------
(* The broadcasts.                                                         *)

Signal(s, x, event) ==
  signalled' = [signalled EXCEPT ![s][x] = Append(@, event)]

\* Mutant of EmitInBand: only the first event is broadcast.
EmitInBandFirst(w) ==
  /\ place[w] = "emitting" /\ toEmit[w] # <<>>
  /\ Signal(home[w], <<w, 1>>, Head(toEmit[w]))
  /\ toEmit' = [toEmit EXCEPT ![w] = <<>>]
  /\ place'  = [place EXCEPT ![w] = "done"]
  /\ UNCHANGED <<db, gate, home, writes, queue, connected, relay, faults,
                 commits, skipped, owed, relayed>>

\* The handler awaits one emit_to_permitted.
EmitInBand(w) ==
  /\ place[w] = "emitting" /\ toEmit[w] # <<>>
  /\ Signal(home[w], <<w, 1>>, Head(toEmit[w]))
  /\ toEmit' = [toEmit EXCEPT ![w] = Tail(@)]
  /\ place'  = [place EXCEPT ![w] = IF Len(toEmit[w]) = 1 THEN "done" ELSE @]
  /\ UNCHANGED <<db, gate, home, writes, queue, connected, relay, faults,
                 commits, skipped, owed, relayed>>

\* The client is gone and its handler is cancelled, or an emit fails: the
\* write stays, the rest of the broadcast is not made.
Cancelled(w) ==
  /\ place[w] = "emitting"
  /\ Fault
  /\ place'  = [place EXCEPT ![w] = "cancelled"]
  /\ toEmit' = [toEmit EXCEPT ![w] = <<>>]
  /\ UNCHANGED <<db, gate, home, writes, queue, connected, relay, commits,
                 skipped, owed, relayed, signalled>>

\* Mutant of Dispatch: the relay takes the newest fact first.
DispatchNewest(s) ==
  /\ current[s] = NoChange /\ queue[s] # <<>>
  /\ current' = [current EXCEPT ![s] = Last(queue[s])]
  /\ toRelay' = [toRelay EXCEPT ![s] = RelayEvents(WriteOf(Last(queue[s])).action)]
  /\ queue'   = [queue EXCEPT ![s] = Front(@)]
  /\ relayed' = [relayed EXCEPT ![s] = Append(@, Last(queue[s]))]
  /\ UNCHANGED <<db, gate, work, connected, faults, commits, skipped, owed,
                 signalled>>

\* Mutant of Dispatch: of several facts that wait only the last is dispatched.
DispatchCollapsed(s) ==
  /\ current[s] = NoChange /\ queue[s] # <<>>
  /\ current' = [current EXCEPT ![s] = Last(queue[s])]
  /\ toRelay' = [toRelay EXCEPT ![s] = RelayEvents(WriteOf(Last(queue[s])).action)]
  /\ queue'   = [queue EXCEPT ![s] = <<>>]
  /\ relayed' = [relayed EXCEPT ![s] = Append(@, Last(queue[s]))]
  /\ UNCHANGED <<db, gate, work, connected, faults, commits, skipped, owed,
                 signalled>>

\* The relay takes the next fact; it dispatches one at a time.
Dispatch(s) ==
  /\ current[s] = NoChange /\ queue[s] # <<>>
  /\ current' = [current EXCEPT ![s] = Head(queue[s])]
  /\ toRelay' = [toRelay EXCEPT ![s] = RelayEvents(WriteOf(Head(queue[s])).action)]
  /\ queue'   = [queue EXCEPT ![s] = Tail(@)]
  /\ relayed' = [relayed EXCEPT ![s] = Append(@, Head(queue[s]))]
  /\ UNCHANGED <<db, gate, work, connected, faults, commits, skipped, owed,
                 signalled>>

EmitRelayed(s) ==
  /\ current[s] # NoChange
  /\ Signal(s, current[s], Head(toRelay[s]))
  /\ toRelay' = [toRelay EXCEPT ![s] = Tail(@)]
  /\ current' = [current EXCEPT ![s] = IF Len(toRelay[s]) = 1 THEN NoChange ELSE @]
  /\ UNCHANGED <<db, gate, work, queue, connected, faults, commits, skipped, owed,
                 relayed>>

\* A broadcast raises: the fact is given up, the relay goes on.
RelayFails(s) ==
  /\ current[s] # NoChange
  /\ Fault
  /\ current' = [current EXCEPT ![s] = NoChange]
  /\ toRelay' = [toRelay EXCEPT ![s] = <<>>]
  /\ owed'    = [owed EXCEPT ![s] = @ \ {current[s]}]
  /\ UNCHANGED <<db, gate, work, queue, connected, commits, skipped, relayed,
                 signalled>>

\* The connection of the relay breaks: the facts it has not taken are lost,
\* and so are those published until it is back.
Disconnect(s) ==
  /\ s \in connected
  /\ Fault
  /\ connected' = connected \ {s}
  /\ queue'     = [queue EXCEPT ![s] = <<>>]
  /\ owed'      = [owed EXCEPT ![s] =
                     {x \in @ : \A i \in 1..Len(queue[s]) : queue[s][i] # x}]
  /\ UNCHANGED <<db, gate, work, relay, commits, skipped, relayed, signalled>>

Reconnect(s) ==
  /\ s \notin connected /\ current[s] = NoChange
  /\ connected' = connected \cup {s}
  /\ UNCHANGED <<db, gate, work, queue, relay, faults, commits, skipped, owed,
                 relayed, signalled>>

\* Subscribers come or go; for a TTL processes may see it or not.
Turn(d) ==
  /\ gate' = [gate EXCEPT ![d] = "turning"]
  /\ gate[d] # "turning"
  /\ UNCHANGED <<db, work, queue, connected, relay, faults, commits, skipped,
                 owed, relayed, signalled>>

Settle(d, state) ==
  /\ gate[d] = "turning"
  /\ gate' = [gate EXCEPT ![d] = state]
  /\ UNCHANGED <<db, work, queue, connected, relay, faults, commits, skipped,
                 owed, relayed, signalled>>

-----------------------------------------------------------------------------
Hook(w) == HookInBand(w) \/ HookDormant(w) \/ HookPublishes(w) \/ HookFails(w)

Transaction(w) ==
  \/ \E h \in Server \cup {Outside} : Begin(w, h)
  \/ \E d \in Doc : Trash(w, d) \/ \E action \in Action : Write(w, d, action)
  \/ Erase(w) \/ Hook(w) \/ Commit(w) \/ Rollback(w)

Relay(s) == Dispatch(s) \/ EmitRelayed(s)

Next ==
  \/ \E w \in Writer : Transaction(w) \/ EmitInBand(w) \/ Cancelled(w)
  \/ \E s \in Server : Relay(s) \/ RelayFails(s) \/ Disconnect(s) \/ Reconnect(s)
  \/ \E d \in Doc : Turn(d) \/ \E state \in {"open", "closed"} : Settle(d, state)

Spec == Init /\ [][Next]_vars

-----------------------------------------------------------------------------
(* Properties.                                                             *)

Event == {Created, Changed, Updated, Deleted}

TypeOK ==
  /\ exists    \in SUBSET Doc
  /\ locked    \in [Doc -> Writer \cup {NoWriter}]
  /\ gate      \in [Doc -> {"open", "turning", "closed"}]
  /\ home      \in [Writer -> Server \cup {Outside}]
  /\ place     \in [Writer -> {"idle", "ready", "hook", "erase", "emitting",
                              "done", "cancelled", "aborted"}]
  /\ writes    \in [Writer -> Seq([doc : Doc, action : Action])]
  /\ toEmit    \in [Writer -> Seq(Event)]
  /\ queue     \in [Server -> Seq(Change)]
  /\ connected \in SUBSET Server
  /\ current   \in [Server -> Change \cup {NoChange}]
  /\ toRelay   \in [Server -> Seq(Event)]
  /\ faults    \in 0..MaxFaults
  /\ commits   \in Seq(Writer)
  /\ skipped   \in SUBSET Change
  /\ owed      \in [Server -> SUBSET Change]
  /\ relayed   \in [Server -> Seq(Change)]
  /\ signalled \in [Server -> [Change -> Seq(Event)]]

Committed(w) == Contains(commits, w)
CommitsBefore(v, w) ==
  \E i, j \in 1..Len(commits) : i < j /\ commits[i] = v /\ commits[j] = w

\* Server s has signalled change x to the end.
Signalled(s, x) ==
  /\ x[2] <= Len(writes[x[1]])
  /\ signalled[s][x] = RelayEvents(WriteOf(x).action)

\* No double emission: in band and out of band together, a server signals
\* each event of a change at most once, and "changed" between "created" and
\* "updated" or "deleted", whoever else broadcasts in the meantime.
SignalsAreOnceAndInOrder ==
  \A s \in Server : \A w \in Writer : \A i \in 1..Len(writes[w]) :
    IsPrefix(signalled[s][<<w, i>>], RelayEvents(writes[w][i].action))

\* What a handler broadcasts has been committed: no client of the server
\* hears of an in-band change that is rolled back.
InbandSignalsAreCommitted ==
  \A s \in Server, w \in Writer, i \in 1..MaxWrites :
    home[w] # Outside /\ signalled[s][<<w, i>>] # <<>> => Committed(w)

\* The facts are published before the commit, by transactions that run at
\* the same time, and cross a queue.  Still every relay takes two committed
\* creations or updates of a document in the order of their commits: the
\* last data signalled is the data that stays.
UpdatesInCommitOrder ==
  \A s \in Server : \A j \in 1..Len(relayed[s]) : \A i \in 1..(j - 1) :
    LET x == relayed[s][i]
        y == relayed[s][j] IN
    /\ Committed(x[1]) /\ Committed(y[1])
    /\ WriteOf(x).doc = WriteOf(y).doc
    /\ "delete" \notin {WriteOf(x).action, WriteOf(y).action}
    => CommitsBefore(x[1], y[1])

\* No fact is lost on the way: when a relay has nothing left to do it has
\* signalled to the end every fact queued for it while the gate was open,
\* except those its connection lost or a broadcast that raised gave up.
QuietRelayHasSignalled ==
  \A s \in Server : current[s] = NoChange /\ queue[s] = <<>> =>
    \A x \in owed[s] : Signalled(s, x)

\* A handler that is done, and was not cancelled, has committed its change
\* and signalled it to the end, though the bridge skipped it.
HandlerBroadcasts ==
  \A w \in Writer : home[w] # Outside /\ place[w] = "done" =>
    Committed(w) /\ Signalled(home[w], <<w, 1>>)

\* "In-band fraxis CRUD writes are already broadcast by their socket handler;
\* skip the bridge for them": what the hook skips, the handler has broadcast
\* when it is done.
SkippedChangesAreBroadcast ==
  \A x \in skipped : place[x[1]] = "done" =>
    signalled[home[x[1]]][x] # <<>>

=============================================================================
