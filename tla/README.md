# A verification project for fraxis

fraxis gives a Frappe site two more doors: a Socket.IO server (documents, doctypes
and methods as events, with subscriptions and change events) and a REST gateway
(routes, OData queries, tokens). The interesting part of both is what happens
*between* processes: server processes with an event loop and a pool of threads,
Frappe web and worker processes, RQ workers, and two shared stores, MariaDB and
Redis, of which only the first has transactions.

The modules here model that part in TLA+. TLC checks them on small instances;
TLAPS proves the theorems in the `*Proofs` modules for all values of the constants.

    tlc -config registry_two_servers.cfg MCSubscriptionRegistry
    tlc -config gateway.cfg MCGateway
    tlapm RefreshTokensProofs.tla

Paths below are relative to `src/fraxis/`.

## 1. The system

| part | state | operations | meets |
|---|---|---|---|
| subscription registry, `runtime/sub_registry.py`, session part of `fraxis_socket_io/base.py` | per server: session of each sid (`subs`, `filters`), rooms; in Redis: two hashes of counts | connect, authenticate, subscribe, unsubscribe, disconnect | gate snapshot (reads the counts) |
| gate snapshot, `is_active` | per Frappe process: two maps, a timestamp, a lock | `is_active` on every ORM write | registry, bridge |
| permission-filtered broadcast, `emit_to_permitted` | none of its own; captures room and filters | one call per change event | registry, executor |
| bridge and relay, `runtime/doc_event_bridge.py`, `doc_event_relay.py`, CRUD of `namespaces/document.py` | the transaction, the in-band flag, the Redis channel, the connection of each relay | create, update, delete, doc_events hooks, dispatch, reconnect | gate snapshot, broadcast, executor |
| method tasks, `namespaces/method.py`, `utils/job_hooks.py`, `utils/realtime.py`, `runtime/emitter.py` | RQ job, room of the task, Redis channel | `method:enqueue`, progress, callbacks | queue router, executor |
| queue router, `runtime/queue_router.py` | per process: cached decision, lock | `resolve_queue` | RQ |
| executor, `runtime/frappe_executor.py` | pool of threads; in each the connection, transaction and session of its unit of work; a context variable with the user | `run_frappe`, `_run`, `shutdown` | every handler |
| method execution, `namespaces/method.py` | the task of each call | `method:execute` of sync and async methods | executor |
| gateway tokens, `gateway/auth.py`, `tokens.py` | rows of Fraxis Refresh Token; deny list in Redis | token, refresh, revoke, check of an access token, daily purge | gateway settings, users |
| gateway settings, `gateway/config.py`, `fraxis_settings.py` | a Single doctype; five-minute cache in Redis | save, read, exposed doctypes | all of the gateway |
| gateway router and dispatch, `gateway/router.py`, `api.py` | a transaction per request | resolve a path to a DocType and a name; roll back what fails | settings, documents |
| gateway documents, `gateway/documents.py`, `scope.py`, `lookup.py` | rows | list, read, create, update, delete, under If-Match; the Extra Params of the caller; lookup fields | settings, OData, Frappe permissions |
| OData, `gateway/odata/` | none | the model of a DocType; parse `$filter` and the other options; bodies in, rows out | settings, documents |
| validation, response envelope, OpenAPI, health, patches | little or none | | |

What each part owes, and what makes it hard:

* **Registry.** A count is right when it is the number of live subscriptions.
  Hard: the commands of one operation are not atomic, other server processes run
  between them, each of them can fail and is then only logged, a server that dies
  leaves its counts, a permission verdict arrives after the client has gone.
* **Gate snapshot.** A subscription that lasts is seen within a TTL, one that is gone
  is forgotten within a TTL, and Redis is not asked on every write. Hard: readers
  take no lock, three globals change one by one, a refresh fails.
* **Broadcast.** Nobody without permission, nobody outside of the room or its
  filter, nobody forgotten, always an end. Hard: everything is captured before
  awaits and used after them.
* **Bridge and relay.** Each change once, its events in order, the last data last.
  Hard: two ways out of which one must be taken, publication before the commit,
  transactions side by side, lost connections.
* **Method tasks.** The caller hears what happened, once and in order, and no job is
  stranded. Hard: the worker starts while the handler still waits for the push.
* **Method execution and executor.** What is done for a call is done as its user and as
  one transaction of its own. Hard: calls of all users share one loop and a few threads,
  an async method asks for units of work from tasks it creates, a thread keeps what a
  failed `init` or `connect` has left in it, the server stops in the middle.
* **Tokens.** One active refresh token per family, an end that stays an end. Hard:
  concurrent requests, errors that must commit, two stores, lifetimes that change.
* **Settings and router.** A saved form means what it shows: the routes marked as exposed
  are served, each public name is one field, and a change of the exposure takes effect. Hard:
  a cache that is cleared before the commit and filled from settings read before; rows of
  tables that must be kept consistent with each other.
* **Documents and OData.** A filter selects what it says or is refused; a caller sees and
  writes what its scope lets it, and hidden fields cannot be learned by filtering or
  sorting; If-Match protects the version it names; a failed request leaves nothing; a walk over
  the pages of a list misses nothing that keeps its place. Hard: negation over three-valued shapes of trees, names that collide,
  several layers (exclusions, mappings, params, lookups) over one field, rows that change
  between the check and the write.

## 2. The modules

Every component has one module, an `MC` module with the definitions its instances need,
and one or more `.cfg`. Actions are named for the step of the code they are; an operator
whose comment begins with "Mutant of" is a plausible bug, used by no specification: the
manifest names it beside the property that catches it.

### SubscriptionRegistry
State: `session`, `room`, `pending` of every sid; `count` and `field` of the Redis
hashes; `release`, `hdel`, `acquire`, the Redis commands a running handler has still to
send. A handler runs without interruption until it awaits the executor, so tracking,
untracking and disconnecting are one action on the loop, followed by one action per
Redis command; other servers run between the commands, handlers of the same loop do
not (`LoopFree`). Every command can fail before or after it took effect, and a server
can crash. `lost` and `missed` keep account of what failures and crashes cost.

### GateSnapshot
`is_active` and `_snapshot` with one action per read or assignment of a global, for any
number of threads: `Check`, `Acquire`, `Recheck`, `ReadDoctypes`, `ReadDocuments`,
`StoreDoctypes`, `StoreDocuments`, `StoreTimestamp`, `LoadDoctypes`, `LoadDocuments`, and
`ReadFails`. Time is a tick.

### PermittedBroadcast
`emit_to_permitted`: `Start` captures participants and filters, `Check` is one permission
check in the executor (or `CheckFails`), `Gathered` chooses the recipients, `Deliver` is
one awaited emit, `Finish`. In between, members subscribe and leave and permissions are
granted and revoked.

### DocEventBridge
Transactions of handlers (`home[w]` a server) and of other processes (`Outside`):
`Write`, `Trash` and `Erase`, the hook after each write (`HookInBand`, `HookDormant`,
`HookPublishes`, `HookFails`), `Commit` or `Rollback`, the broadcast of the handler
(`EmitInBand`), or its cancellation; the relay of every server (`Dispatch`,
`EmitRelayed`, `RelayFails`, `Disconnect`, `Reconnect`). It composes the others by what
they promise: the gate is open for a target that has been subscribed for long, closed for
one that has not, and either for a TTL (the two properties of GateSnapshot); an event of a
server is one call of `emit_to_permitted` (PermittedBroadcast says whom it reaches).

### RefreshTokens
A request is one database transaction: it commits when it answers, error answers
included, and rolls back when it dies, waits for a lock too long or loses a deadlock
(`Fail`). Locking reads wait and read the latest version; the UPDATE of a family
holds all its rows. `row` is the latest version of a status, `committed` the committed one. The
deny list is outside of the transaction and expires. `Accepts(p)` is the check of an
access token as a predicate of the state. History: `ended`, the families whose end was
answered to somebody; `deniedFor[f]`, the lifetimes a family was denied for.

`ttl` is the setting as a request reads it that is routed now; `req[r].ttl` is what
`config.settings` keeps of it for the rest of the request. A revocation denies its family
for its own, a token lives for that of the request that minted it, and the administrator
may change the setting at any time, while requests are under way too. So
`RevokedAccessIsRefused` says what the code gives: an access token of an ended family that
is accepted lives longer than one of the lifetimes its family was denied for, because the
setting was lowered before the revocation, or raised after the revocation was routed.

### Sessions
The abstract specification of the same component, with no requests, rows, locks or
transactions: `Open`, `Exchange`, `End` and `Lapse` of sessions that have one current
token at most. `RefreshTokens` instantiates it (`Session == INSTANCE Sessions WITH ...`):
the current token of a session is the committed Active row of its family, and tokens
are used once their row is committed. `SessionSpec` says that every step of the detailed
specification is a step of the abstract one or changes nothing that clients can see; a
run checks it, and `RefreshTokensProofs` proves it.

### ODataFilter, ODataConditions, FrappeList, GatewaySettings, GatewayData, GatewayCalls
The pure part of the gateway, as functions of the data. Recursion makes `ODataFilter` a
module for TLC alone; the others are proved about.

* `FrappeList` is what `frappe.get_list` makes of conditions.
* `ODataConditions` is the negation of one condition, kept apart to be proved about.
* `ODataFilter` is the rest of `filter_parser.py`: recursive descent from tokens to a tree, negations
  pushed to its leaves, the flat form of AND and OR groups that `frappe.get_list` takes
  (or 501). Its reference (`MeansWhatItSays`) writes any expression as a client would, with
  no more parentheses than precedence needs, and evaluates it directly.
* `GatewaySettings` is `fraxis_settings.validate`, the exposure and the routes of
  `config.py`, `odata/model.py`, `router.resolve` and the patch `merge_excluded_fields`.
* `GatewayData` is one request as a function of rows, profile, settings and query:
  `scope.py`, `lookup.py`, the options of `odata/query.py`, `odata/serialize.py` and the five
  operations of `documents.py`.
* `GatewayCalls` puts them to use: a state is one call with all that it depends on (a form
  that is saved; a request with the settings, the rows, the permissions and the profile that
  it finds) and never moves, so that an invariant is a statement about every input. Forms, rows,
  profiles, queries and bodies are constants; its assumptions say what the form lets a user
  type (`FormAssumption`), that rows have the columns of their DocType and differ by name
  and by where they are stored (`WorldAssumption`), that requests are about DocTypes with rows of their own
  (`ServedAssumption`), and that `$orderby` was parsed to a sequence of names and directions
  (`QueryAssumption`). `GatewaySettings` has those about DocTypes: no two columns of the same
  name (`MetaAssumption`).

### GatewayRequests
What requests do to each other. `exposed` are the committed settings, `save` the
transaction that changes them, `cache` the entry in Redis with its expiry; `Start` reads the
settings and the snapshot of a transaction, `LookCache` and `StoreCache` are
`config.exposed_doctypes`. `row` is the latest version, `committed` the committed one, `lock` the
holder; `LockRow` and `Save` are PATCH, `CheckDelete` and `EraseRow` are DELETE, `Insert` is
POST; `Refuse` is the rollback of `api.dispatch`, `Die` a process that stops, `Commit` Frappe's
commit. `Page` is a client that follows `@odata.nextLink`. Its list is what the other
options, params and lookups come to: `meets`, the versions of rows that are in it, and `place`,
where its order puts a row in a version (`Listing`). An update may take a row in or out and move
it, and rows of one place come in any order, another one for each page: `Heads` are
the sets that may come first. `PagesCoverSteadyRows` is about rows that are in the list
from the first page to the last with a place of their own (`Firm`), while nothing that was
ahead of them goes away from there (`Stay`): deleted, out of the list, behind them or
passed by them. Offsets give no more: a row behind one that left, or among
rows that tie, may be skipped. History: `walk.steady`, those rows; `last`, when the
settings last said that the DocType is or is not exposed; `stray`, whether the entry in
Redis was stored during a save or out of settings that had changed.

### DocumentStore
The abstract specification of the documents: `Ask`, then one of `Create`, `Update`,
`Delete` and `End`, each in one step and with its answer. `GatewayRequests` instantiates it
(`Store == INSTANCE DocumentStore WITH ...`): the document is the committed row, what is
asked is fixed with the snapshot of the request, the answer comes with the commit. The two
differ in what the code makes of If-Match: an update compares with the document it
replaces, a deletion with the document as it was when the request came. `StoreSpec` is
checked by the run and proved in `GatewayRequestsProofs`; it implies that a request which
was refused or died leaves nothing (`RefusedWritesAreUndone`, proved by itself too).

`MCGateway` composes them all: its initial states are the three parts of GatewayRequests
(exposure, rows, pages) and the samples of `MCGatewayCalls`, most of them from `Calls`.

### MethodTasks
A job is one call of `method:enqueue`: the handler (`Request`, `Accept`, `Fail`), its thread in
the executor (`Lookup`, `Recheck`, `Decide`, `Store` of `resolve_queue`; `Push`;
`CommitThread`), the worker (`StartJob`, `Progress`, `EndMethod`, `Callback`) and the
channel (`Deliver`). Faults: no connection, no queue, a failed commit, a lost publication, a
killed worker, a lost message, a stopped dedicated worker.

### MethodExecution
A call of `method:execute`: its handler on the loop (`Execute`, `Authenticate`, `Refused`,
`RunSync`, `RunAsync`, `Offload`, `EndAsync`, `EndSync`), and every unit of work its method has
done (`Take` by a thread, then the lines of `_run`: `Connect` or `ConnectFails`, `SetUser`,
`Run`, `Commit` or `Rollback`, `Destroy`). `context` is the context variable of the task,
`local` what the thread keeps in `frappe.local`, `committed` which unit did what as which
user. `Stop` is the end of the server: the loop cancels its tasks, units that wait are
dropped, threads finish what they have begun. An async method asks for its units with what
its context says, one after the other or several at once. A sync method, and every handler
of documents and doctypes, passes the user itself.

### UnitsOfWork
The abstract specification of the executor: a unit is asked for, done in one step, once at
most, and ends; it returns only if it was done; one that was dropped is not done later. A
unit that raises may have been done (the commit took effect and the connection broke, or
`frappe.destroy` raised). `MethodExecution` instantiates it (`Work`), `WorkSpec` is checked and
proved.

`MCMethods` puts MethodTasks and MethodExecution into one instance: an initial state
chooses which of the two goes on. They have no state in common; what they share in the code, the
pool of threads, is in MethodTasks the arbitrary time an answer takes.

## 3. What the runs show

| run | instance | shows |
|---|---|---|
| `registry_two_servers` | 2 servers, 3 sids, 1 target, 1 fault | no count leaks beyond what failures orphan, no zombie fields, a sid that is gone holds nothing, the gate closes in the end |
| `registry_one_server` | 1 server, 2 sids, 2 targets, 1 filter, 1 fault | nobody's count is stolen, gate and audience agree, a count dips only in a re-subscription |
| `registry_race` | 2 servers, 2 sids, no fault | **finding**: a `sub_add` between HINCRBY and HDEL of another server is deleted |
| `gate_snapshot` | 2 threads, TTL 2, 5 ticks | a lasting subscription is seen, one that has gone is forgotten, one refresh per TTL |
| `permitted_broadcast` | 3 sids of 2 users, 2 data, 3 changes | revoked users and non-members receive nothing, steady members are never forgotten, broadcasts end |
| `event_bridge` | 2 servers, 2 transactions, 1 document, 2 faults | each event once and in order, in band only what is committed, updates in commit order, a quiet relay owes nothing |
| `event_bridge_cascade` | 1 server, 2 transactions of 2 writes | **finding**: writes that hooks cause in other documents in band are broadcast by nobody |
| `refresh_tokens` | 2 requests, 2 pairs, 1 change, 2 ticks, 2 TTLs | one Active token per family, an end stays, old keys are refused, the deny list outlasts the tokens it is about; **refinement** of Sessions, which implies that a token is spent once |
| `refresh_tokens_shorter` | 1 pair, TTL from 5 to 1 | **finding**: after the TTL was lowered, an access token is accepted again when the entry of its family has expired |
| `method_tasks` | 2 calls of `method:enqueue` on one server, 1 fault; 2 calls of `method:execute` by 2 users, 3 units of work, 2 threads | what the caller hears is a part of what happened, a decision is taken once, accepted jobs are run; what is committed for a call was done as its user; **refinement** of UnitsOfWork |
| `method_tasks_fast` | 1 call, no fault | **finding**: the terminal event of a fast job is delivered before its caller has joined the room |
| `gateway` | 2 requests, 4 rows, 6 versions, pages of 2, TTL 2, 2 saves, 5 ticks; and samples | requests are routed by recent settings and respect If-Match, pages cover what keeps its place; **refinement** of DocumentStore; filters, names, routes, lists, writes and hidden fields as below |

The samples of `gateway` are initial states that do not move; each is one input of the
functions, and the properties compare the answer with a reference or with another
answer:

| samples | number | property |
|---|---|---|
| `$filter` expressions, two operators deep over six kinds of conditions | 14202 | `FilterMeansWhatItSays`: refused with 501 or evaluated as written |
| excluded fields and mappings of a DocType with dates and a child table | 3724 | `PublicNamesAreUnambiguous`: what `validate` accepts gives each field a name that leads back to it |
| up to three rows of routes and forms of exposure | 9520 | `RoutesServeWhatTheyShow`: what the form marks as exposed is what is served, and whose it is |
| lists: rows, profile, form, options | 16128 | `ListsAgreeWithReads`: a list shows what can be read one by one, and all of it |
| creates and updates: rows, profile, form, body | 6048 | `WritesStayInScope` |
| lists and reads beside another value of a hidden field | 2304 | `HiddenFieldsAreUnobservable`: the answer is the same |

The bounds, and why they are enough. Every race of these components is between two actors
(two servers on a field, two threads on a lock, two requests on a row or a family, a handler and a
worker), with a third where a bystander matters (the third sid is the subscriber whose
count is stolen or kept). One fault is
enough to break what one fault can break; two in the bridge, for a publication that
fails and a connection that goes. The clock runs past a lifetime with its leeway and
margin. In `refresh_tokens` requests are interleaved in the first instant and come one at
a time after it: the first part is about interleavings, the second about lifetimes, which
requests of the first instant fix by the TTL they were routed with, before or after it
changes; in the last instant nothing is changed, and no request goes on into it (`Apart`). The
theorems below cover all of it at once. In `gateway` three rows are there at first and pages
have two, so that a client turns a page with rows in front of and behind it, in one of three
lists: newest first with two rows of one moment, newest first under a condition that a
version does not meet, latest change first. A TTL is two
ticks and a request stays one, and five ticks let an entry that was stored during a save
expire. In `method_tasks` one call of `method:execute` may ask for two units, at once or one after
the other, and the other for one, of two threads: a unit meets one of another user, and
one of its own call, beside it, before it in its thread, and waiting. Two operators of a filter are enough for every pair of a negation, a
conjunction and a disjunction below and above each other. The bounds are conjuncts of guards (`MaxFaults`, `MaxPending`, `MaxChanges`,
`MaxWrites`, `MaxPair`, `MaxChange`, `MaxClock`, `MaxProgress`, `MaxName`, `MaxVersion`,
`MaxSaves`, `Unit`; `MaxStay`, how long a request takes to be routed, is a guard of the clock), never state constraints,
so that liveness is checked of whole behaviours. Symmetry is declared only in runs
without liveness properties.

`CHECK_DEADLOCK FALSE` is set for the bridge, the tasks and the gateway, whose
transactions, calls and requests are used once and come to an end. Type invariants are
proved and not run.

Fairness. The registry assumes that a running handler goes on to send its commands
(synchronous calls with a timeout). The broadcast assumes that the loop resumes its
tasks and the executor answers. The tasks assume in addition that a live worker takes
the jobs of its queue and that methods end; a job that never ends has no terminal event. Nothing
is assumed of clients, administrators, time or the network.

## 4. What is proved

| module | theorems | argument |
|---|---|---|
| SubscriptionRegistryProofs | types; `RoomsAreTracked`; `DisconnectedHoldsNothing`; `NoLeak`; `NoZombie`; with one server, `NoStolenCount`, `GateMatchesAudience` and the action property `DipsOnlyToResubscribe` | counts against `Owed`, the cardinality of holders and of those still to give back; every command moves both by one, or `lost` or `missed` by the difference |
| GateSnapshotProofs | types; `LastingSubscriptionIsSeen`; `GoneSubscriptionIsForgotten`; `RedisIsNotHammered` | what a map, a local or a half-made refresh can say is bounded by the time it was read; the lock makes the refresh that stores the one that read |
| PermittedBroadcastProofs | types; `RevokedReceivesNothing`; `OnlyMatchingMembersReceive`; `SteadyMembersReceive` | captured sets lie between the sets of those that were always and ever entitled |
| DocEventBridgeProofs | types; `SignalsAreOnceAndInOrder`; `InbandSignalsAreCommitted`; `UpdatesInCommitOrder`; `QuietRelayHasSignalled`; `HandlerBroadcasts` | `IInv`: where a transaction is and which rows it holds (`TransactionOK`, `LocksOK`); the facts a relay was sent, in hand and taken ones included, are writes of other processes, each once, and of two updates of a document the first is by a transaction that has ended when the second is published (`FactsOK`); what is signalled of a change, followed by what is left with its handler or relay, are its events (`SignalOK`); an owed fact is queued, in hand or signalled (`OwedOK`) |
| RefreshTokensProofs | types; `OneActivePerFamily`, `TokenIsSpentOnce`, `EndedFamilyStaysEnded`, `OldKeysAreRefused`, `RevokedAccessIsRefused` | `IInv`: rows and their locks; what a request holds at each place; two live tokens of a family are held by one transaction, that spends the one and mints the other; ended families have no live token; the parents form a chain; a deny entry covers every token of an ended family that lives no longer than any of the lifetimes the family was denied for |
| RefreshTokensProofs, refinement | `SessionSpec`: RefreshTokens implements Sessions | `HeldOK`: what a request that is to commit has done to the rows it holds is nothing, an expiry, a new pair, or the end of its family; each commit is then a stutter, a `Lapse`, an `Open` or `Exchange`, or an `End`; one Active row per family makes the current token well-defined |
| GatewayRequestsProofs, refinement | `StoreSpec`: GatewayRequests implements DocumentStore | a version that a request has written and not committed is for the one row it asked about, of a name and a version nobody had, over the version it compared with; so `Commit` is one `Create`, `Update` or `Delete`, a rollback or a death is an `End`, and every other step is a stutter |
| GatewayRequestsProofs | types; `WritesRespectIfMatch`; `RefusedWritesAreUndone`; `ExposureIsRecent`; `PagesCoverSteadyRows` | three invariants, one for each part: an uncommitted version is of the request that holds the row, and a compared version stays until it is replaced; the time the settings last said what Redis and the requests say is bounded along the way; a row that shares its place with no other is among the first k rows, in whichever order the others come, just if fewer than k are ahead of it; of a steady row these only grow, and a page that is not full ends the list |
| GatewayCallsProofs | `PublicNamesAreUnambiguous`; `RoutesServeWhatTheyShow`; `WritesStayInScope`; `ListsAgreeWithReads`; `HiddenFieldsAreUnobservable` | for any DocTypes, forms, rows, profiles, queries and bodies. Names: a property stands at one column, `validate` keeps the names of two columns apart, so the first property with a name is the one that has it. Routes: the rows of a path are one route, which validation gives one DocType; the longest exposed prefix of a request is the row itself or a longer route. Writes: a body sets fields of properties, lookups lead to visible records, and what the params then fill in or check has their values; what an update leaves alone was in scope when it was read. Lists: the conditions that scope and lookups add to a query are, row by row, the test of a single read; places in a list are fewer than its rows. Hidden fields: two worlds that differ in one have rows that lead to each other and agree on all other columns (`Twins`); whatever clients can name, params and lookups decide upon or answers show is among those (`Hidden`), so the same conditions hold, lookups find the same values, rows come in the same places and are shown alike. `NegationNegates`, of ODataConditions: the negation of a condition holds where the condition does not |
| MethodTasksProofs, executor | types; `WorkIsDoneAsItsCaller`; `WorkSpec`: MethodExecution implements UnitsOfWork | `ExecutionInv`: who may ask for units has the user of its caller in its context, and each unit carries it; a unit has its thread to itself, and the session and transaction of that thread are what `_run` has made of them, whatever was left there; the database holds exactly the units behind their commit. So a commit is a `Do` of one unit, the end of a thread an `End`, `Stop` a `Drop`, everything else a stutter |
| MethodTasksProofs | types; `QueueIsDecidedOnce`; `TaskIsToldAsItHappened`; `EarlyCallerHearsAll` | who holds the lock decides, and nothing is pushed before there is a decision; what is on its way is the end of what was published, what was heard a part of the rest, and its end for a caller in the room |

None of the safety properties is inductive alone. `OneActivePerFamily`, say, is preserved by
`Mint` only because the token that is spent is held by the same request and was Active when
it was found, which is in the part of the invariant about requests, and by `Commit`
only because a live pair of tokens is never held by two requests. Each strengthening
was an invariant of a TLC run before it was proved. Assumptions of the proofs are
those of the modules (`ASSUME`), no more: finite sets of sids, distinct names, and
`Leeway <= Margin` for the deny list (30 and 60 seconds in the code). For pages,
`ListingAssumption` asks nothing of conditions and orders but their types.

Only model-checked: the liveness properties (`GateEventuallyCloses`, `BroadcastsFinish`,
`AcceptedJobsAreRun`), which are out of reach of the prover;
and `FilterMeansWhatItSays`, which rests on recursion over tokens and trees; of it the step
at a leaf is proved (`NegationNegates`). `RoomsAreTracked` and `RefusedWritesAreUndone` are
proved and no run checks them by name: the one is a part of the inductive invariant of the registry,
the other follows from `StoreSpec`.

## 5. What is assumed of the outside

* python-socketio: the session and the rooms of a local client are reached without
  suspending; handlers of one sid run side by side; a closed connection is out of
  its rooms, and its session is gone; the events of a channel arrive in order, at
  relays and servers that are connected.
* Frappe and MariaDB: a save locks its row until the commit; `on_trash` runs before the row
  is touched; a request commits when it answers.
* Redis commands are atomic one by one. `time.monotonic` counts from boot.
* MariaDB reads without a lock what was committed when the transaction began, and locks
  rows by name; `delete_doc` waits for the lock and deletes whatever version there is;
  `get_list` reads NULL as the empty value of a column, and its LIKE patterns here hold
  text without wildcards; text is compared as it is written.
* A request that is to be routed uses the Fraxis Settings as they were committed when it
  began (`frappe.get_cached_doc`), keeps them to its end, and takes `MaxStay` at most until it
  is routed. This goes for `access_token_ttl` as well.
* During a walk over the pages the Extra Params of the caller, the lookup records and the
  permissions stay as they are, so that whether a version is in the list and where is fixed
  (`Listing`); what they make of one list is in GatewayData. A hook that adjusts the rows of a
  page leaves their number as it is. Within one list of GatewayData, and in the two
  lists that `HiddenFieldsAreUnobservable` compares, rows that tie come in one order
  (`Stored`), whichever: the database does not choose by a hidden field.
* Clients send tokens of `$filter` that the lexer accepts; Extra Params are on fields of
  the DocType itself.
* The loop cancels its tasks when it ends, and a future of the executor that is cancelled
  while it waits is not run; `shutdown(wait=True)` waits for the threads. A method neither
  commits by itself nor changes its user. `frappe.connect` gives the thread a new connection and a
  session of its own, whatever was there before.
* RQ calls one callback per job; a worker that dies calls none.
* A request that brings an access token is served within `Margin - Leeway` of decoding it.
* `enter_room` and the emission of `method:enqueue:accepted` to a local client are one step of the loop.

## 6. What is not modelled

Pure input and output: the response envelope, the OpenAPI document,
health and demonstration methods, the desk form, translations. Reads that change
nothing (`document:read`, `doctype:list`, `count`, `meta`). The events of `method:execute`, which
go to the connection that called, and the rooms of `method:subscribe`, to which nothing emits. The case of a gateway without a JWT secret,
outages of `frappe.cache`, and settings that a process still has in its own cache after
they were saved (what a request keeps of them is modelled). Of the gateway: the lexer of `$filter` and the formats of dates;
the `fraxis_response_rows` hooks of other apps and field-level permissions, which are the
framework's; the rows of child tables in bodies; the base path and the languages of the
documentation. The manifest has every part with its status.

Behaviour the models reproduce and a reader may not expect, besides the findings of the
manifest: a mapping of a standard field keeps its public name only (its Returned In is
ignored, `gateway/odata/model.py:104`); `modified` and `creation` are known to clients through the
ETag and the default order even if they are excluded; the value that a lookup shows may
be an excluded field of the lookup DocType; a database that compares text without case
accepts names that the check of a scope, which compares with case, does not.

## 7. Plan

Done, in this order: SubscriptionRegistry, PermittedBroadcast, GateSnapshot,
DocEventBridge, RefreshTokens, MethodTasks; Sessions with the refinement, ODataFilter,
GatewaySettings, GatewayData, GatewayRequests, GatewayCalls; the proofs of all that move;
DocumentStore, MethodExecution and UnitsOfWork with their refinements. Open:

1. What `MergeExcludedFields` leaves, against a reference definition.
2. Event filters and the projection of facts: operators against a reference definition.
3. The negation of whole trees by proof: it needs induction over trees.
