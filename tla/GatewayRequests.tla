---------------------------- MODULE GatewayRequests ----------------------------
(***************************************************************************)
(* Requests of the gateway beside each other and beside the administrator: *)
(* the exposed DocTypes, which config.py keeps in Redis for a while; the   *)
(* operations of documents.py on the rows of one route, each a transaction *)
(* that api.dispatch rolls back when it fails and Frappe commits when it   *)
(* answers; and a client that pages through the list.                      *)
(*                                                                         *)
(* The DocType of the route is exposed or not.  A row is the number of its *)
(* latest version, which stands for `modified`; 0 is no row.               *)
(***************************************************************************)
EXTENDS Integers, FiniteSets

CONSTANTS
  Request,      \* requests, each of which runs once
  NoRequest,    \* holder of the lock of a row that nobody holds
  FirstRows,    \* the rows there are at the beginning: 1..FirstRows
  MaxName,      \* bound: rows ever
  MaxVersion,   \* bound: versions written
  Listing,      \* the lists that a client may page through: see Init
  Top,          \* $top of the client that pages
  TTL,          \* expires_in_sec of the exposed DocTypes
  MaxStay,      \* how long a request takes at most, up to its routing
  MaxSaves,     \* bound: saves of the settings
  MaxClock      \* bound: ticks

ASSUME RequestAssumption == NoRequest \notin Request
ASSUME RowAssumption == FirstRows \in Nat /\ MaxName \in Nat /\ FirstRows <= MaxName
ASSUME VersionAssumption == MaxVersion \in Nat /\ FirstRows <= MaxVersion
ASSUME BoundAssumption == {MaxStay, MaxSaves, MaxClock} \subseteq Nat /\ {TTL, Top} \subseteq Nat \ {0}

\* What the other options of a list come to, with the params and the lookups
\* of its caller: the versions that meet its conditions, and the place that
\* its order gives to a row in a version.  Several rows may have one place:
\* even `creation`, the default, does not tell all rows apart.
ASSUME ListingAssumption ==
  Listing \subseteq [meets : SUBSET (1..MaxVersion), place : [1..MaxName -> [0..MaxVersion -> Int]]]

Name    == 1..MaxName
Version == 0..MaxVersion
NoRow   == [version |-> 0, by |-> NoRequest]

\* What a request is: PATCH and DELETE are of a row, and may say If-Match with
\* the ETag of a version, which 0 stands for the lack of.
Verb == {"POST", "PATCH", "DELETE"}

\* "route": the settings are loaded; "compute": Redis had no entry; "run": it
\* is routed and authenticated; "locked", "checked": the row was found and
\* matches; "written"; "done".
Place   == {"idle", "route", "compute", "run", "locked", "checked", "written", "done"}
Outcome == {"none", "ok", "refused", "dead"}

Waiting == [at |-> "idle", verb |-> "POST", name |-> 0, tag |-> 0, outcome |-> "none",
            memo |-> TRUE, start |-> 0, exposed |-> TRUE, raced |-> FALSE, seen |-> 0, over |-> 0]

VARIABLES
  clock,
  exposed,    \* the committed settings: whether the DocType is exposed
  save,       \* the transaction that saves the settings: "none" or "cleared"
  saves,      \* how many there were
  cache,      \* the entry in Redis: what it says, and until when (0: no entry)
  row,        \* row[n]: the latest version of a row, and who wrote it
  committed,  \* committed[n]: the version that is committed
  lock,       \* lock[n]: the request whose transaction holds the row
  next,       \* the next name, and the next version
  req,        \* req[r]: what r is and where; what it saw and what it replaced
  walk,       \* the client that pages: its list, $skip, the rows it has seen,
              \* its end; and, as history, the rows that were steady (Stay)
  \* History, for the properties.
  last,       \* last[b]: when the settings last said b
  stray       \* whether the entry in Redis was stored during a save, or from
              \* settings that had been changed since

admin == <<exposed, save, saves, last>>
redis == <<cache, stray>>
rows  == <<row, committed, lock, next>>
vars  == <<clock, exposed, save, saves, cache, row, committed, lock, next, req, walk, last, stray>>

Live(n) == committed[n].version # 0
Held(r) == {n \in Name : lock[n] = r}

Init ==
  /\ clock     = 0
  /\ exposed   \in BOOLEAN
  /\ save      = "none"
  /\ saves     = 0
  /\ cache     = [value |-> TRUE, until |-> 0]
  /\ row       = [n \in Name |-> IF n <= FirstRows THEN [version |-> n, by |-> NoRequest] ELSE NoRow]
  /\ committed = row
  /\ lock      = [n \in Name |-> NoRequest]
  /\ next      = [name |-> FirstRows + 1, version |-> FirstRows + 1]
  /\ req       = [r \in Request |-> Waiting]
  /\ walk      \in [list : Listing, skip : {0}, seen : {{}}, steady : {{}}, over : {FALSE}]
  /\ last      = [b \in BOOLEAN |-> IF b = exposed THEN 0 ELSE 0 - TTL - MaxStay - 1]
  /\ stray     = FALSE

-----------------------------------------------------------------------------
(* Time and the administrator.                                             *)

\* A request is routed within MaxStay.
Tick ==
  /\ clock < MaxClock
  /\ \A r \in Request : req[r].at \in {"route", "compute"} => clock < req[r].start + MaxStay
  /\ clock' = clock + 1
  /\ cache' = IF cache.until <= clock + 1 THEN [cache EXCEPT !.until = 0] ELSE cache
  /\ last'  = [last EXCEPT ![exposed] = clock + 1]
  /\ UNCHANGED <<exposed, save, saves, rows, req, walk, stray>>

\* Mutant of SaveSettings: on_update does not clear the cache.
SaveSettingsOnly ==
  /\ save = "none" /\ saves < MaxSaves
  /\ save'  = "cleared"
  /\ saves' = saves + 1
  /\ UNCHANGED <<clock, exposed, last, redis, rows, req, walk>>

\* on_update clears the cache, within the transaction.
SaveSettings ==
  /\ save = "none" /\ saves < MaxSaves
  /\ save'  = "cleared"
  /\ saves' = saves + 1
  /\ cache' = [cache EXCEPT !.until = 0]
  /\ UNCHANGED <<clock, exposed, last, stray, rows, req, walk>>

CommitSettings ==
  /\ save = "cleared"
  /\ save'    = "none"
  /\ exposed' = ~ exposed
  /\ last'    = [last EXCEPT ![~ exposed] = clock]
  /\ UNCHANGED <<clock, saves, redis, rows, req, walk>>

RollbackSettings ==
  /\ save = "cleared"
  /\ save' = "none"
  /\ UNCHANGED <<clock, exposed, saves, last, redis, rows, req, walk>>

\* A Sub Category is saved, or a patch runs: the cache is cleared.
ClearCache ==
  /\ cache.until # 0
  /\ cache' = [cache EXCEPT !.until = 0]
  /\ UNCHANGED <<clock, admin, stray, rows, req, walk>>

-----------------------------------------------------------------------------
(* route_request: the settings are read once, then the exposed DocTypes.   *)

\* A request begins; what its transaction reads without a lock is of now.
Start(r, verb, n, tag) ==
  /\ req[r].at = "idle"
  /\ IF verb = "POST" THEN n = 0 /\ tag = 0 ELSE n \in Name /\ tag < next.version
  /\ req' = [req EXCEPT ![r] = [Waiting EXCEPT !.at = "route", !.verb = verb, !.name = n, !.tag = tag,
       !.memo = exposed, !.start = clock, !.seen = IF verb = "POST" THEN 0 ELSE committed[n].version]]
  /\ UNCHANGED <<clock, admin, redis, rows, walk>>

\* What it is routed by: a DocType that is not exposed is answered 404.
Routed(r, value, raced) ==
  req' = [req EXCEPT ![r].exposed = value, ![r].raced = raced,
                     ![r].at = IF value THEN "run" ELSE "done",
                     ![r].outcome = IF value THEN "none" ELSE "refused"]

LookCache(r) ==
  /\ req[r].at = "route"
  /\ IF cache.until = 0 THEN req' = [req EXCEPT ![r].at = "compute"] ELSE Routed(r, cache.value, stray)
  /\ UNCHANGED <<clock, admin, redis, rows, walk>>

\* The exposed DocTypes by the settings that this request has loaded.
StoreCache(r) ==
  /\ req[r].at = "compute"
  /\ cache' = [value |-> req[r].memo, until |-> clock + TTL]
  /\ stray' = (save = "cleared" \/ req[r].memo # exposed)
  /\ Routed(r, req[r].memo, FALSE)
  /\ UNCHANGED <<clock, admin, rows, walk>>

-----------------------------------------------------------------------------
(* The list q over what is committed, which is c.                          *)

InList(q, c) == {n \in Name : c[n].version \in q.meets}

RankOf(q, c, n) == q.place[n][c[n].version]
Ahead(q, c, n) == {m \in InList(q, c) : RankOf(q, c, m) < RankOf(q, c, n)}
Tied(q, c, n)  == \E m \in InList(q, c) \ {n} : RankOf(q, c, m) = RankOf(q, c, n)

\* The rows that may come first, up to k of them: the database is free to
\* return rows of one place in any order.
Heads(q, c, k) ==
  {S \in SUBSET InList(q, c) :
     /\ \A n \in S, m \in InList(q, c) \ S : RankOf(q, c, n) <= RankOf(q, c, m)
     /\ Cardinality(S) = k \/ (Cardinality(S) < k /\ S = InList(q, c))}

\* Rows of the list that have a place of their own; and those that keep it
\* when d is committed in place of c, with all that was ahead of them.
Firm(q, c)    == {n \in InList(q, c) : ~ Tied(q, c, n)}
Stay(q, c, d) == {n \in Firm(q, d) : Ahead(q, c, n) \subseteq Ahead(q, d, n)}

-----------------------------------------------------------------------------
(* dispatch: a transaction ends.                                           *)

Finish(r, outcome) == req' = [req EXCEPT ![r].at = "done", ![r].outcome = outcome]
Release(r) == lock' = [n \in Name |-> IF n \in Held(r) THEN NoRequest ELSE lock[n]]
Undo(r)    == row'  = [n \in Name |-> IF n \in Held(r) THEN committed[n] ELSE row[n]]

\* Mutant of Refuse: no rollback, and Frappe commits what was written.
RefuseOnly(r) ==
  /\ req[r].at \in {"run", "locked", "checked", "written"}
  /\ committed' = [n \in Name |-> IF n \in Held(r) THEN row[n] ELSE committed[n]]
  /\ Release(r)
  /\ Finish(r, "refused")
  /\ UNCHANGED <<clock, admin, redis, row, next, walk>>

\* The caller is unknown, or the operation raises, wherever it is: an
\* invalid body, a missing permission, a controller after the row is written.
Refuse(r) ==
  /\ req[r].at \in {"run", "locked", "checked", "written"}
  /\ Undo(r)
  /\ Release(r)
  /\ Finish(r, "refused")
  /\ UNCHANGED <<clock, admin, redis, committed, next, walk>>

\* The process dies, or the database ends the transaction.
Die(r) ==
  /\ req[r].at \notin {"idle", "done"}
  /\ Undo(r)
  /\ Release(r)
  /\ Finish(r, "dead")
  /\ UNCHANGED <<clock, admin, redis, committed, next, walk>>

Commit(r) ==
  /\ req[r].at = "written"
  /\ committed' = [n \in Name |-> IF n \in Held(r) THEN row[n] ELSE committed[n]]
  /\ Release(r)
  /\ Finish(r, "ok")
  /\ walk' = [walk EXCEPT !.steady = @ \cap Stay(walk.list, committed, committed')]
  /\ UNCHANGED <<clock, admin, redis, row, next>>

-----------------------------------------------------------------------------
(* create_document, update_document, delete_document.                      *)

Put(r, n, version) ==
  /\ row'  = [row EXCEPT ![n] = [version |-> version, by |-> r]]
  /\ lock' = [lock EXCEPT ![n] = r]

Insert(r) ==
  /\ req[r].at = "run" /\ req[r].verb = "POST"
  /\ next.name <= MaxName /\ next.version <= MaxVersion
  /\ Put(r, next.name, next.version)
  /\ next' = [name |-> next.name + 1, version |-> next.version + 1]
  /\ req'  = [req EXCEPT ![r].at = "written"]
  /\ UNCHANGED <<clock, admin, redis, committed, walk>>

\* If-Match: no header, or the ETag of this version.
Matches(r, version) == req[r].tag \in {0, version}

\* Mutant of LockRow: update_document reads without FOR UPDATE.
LockRowLater(r) ==
  LET n == req[r].name IN
  /\ req[r].at = "run" /\ req[r].verb = "PATCH"
  /\ req[r].seen # 0 /\ Matches(r, req[r].seen)
  /\ req' = [req EXCEPT ![r].at = "locked"]
  /\ UNCHANGED <<clock, admin, redis, rows, walk>>

\* get_doc for update waits for the lock and reads the latest version; a row
\* that is not there (404) or does not match (412) is left to Refuse.
LockRow(r) ==
  LET n == req[r].name IN
  /\ req[r].at = "run" /\ req[r].verb = "PATCH"
  /\ lock[n] = NoRequest
  /\ row[n].version # 0 /\ Matches(r, row[n].version)
  /\ lock' = [lock EXCEPT ![n] = r]
  /\ req'  = [req EXCEPT ![r].at = "locked"]
  /\ UNCHANGED <<clock, admin, redis, row, committed, next, walk>>

Save(r) ==
  LET n == req[r].name IN
  /\ req[r].at = "locked"
  /\ lock[n] \in {r, NoRequest} /\ next.version <= MaxVersion
  /\ Put(r, n, next.version)
  /\ next' = [next EXCEPT !.version = @ + 1]
  /\ req'  = [req EXCEPT ![r].at = "written", ![r].over = row[n].version]
  /\ UNCHANGED <<clock, admin, redis, committed, walk>>

\* get_doc without a lock reads what was committed when the request began.
CheckDelete(r) ==
  /\ req[r].at = "run" /\ req[r].verb = "DELETE"
  /\ req[r].seen # 0 /\ Matches(r, req[r].seen)
  /\ req' = [req EXCEPT ![r].at = "checked"]
  /\ UNCHANGED <<clock, admin, redis, rows, walk>>

\* delete_doc waits for the lock, and deletes whatever version there is now.
EraseRow(r) ==
  LET n == req[r].name IN
  /\ req[r].at = "checked"
  /\ lock[n] = NoRequest
  /\ Put(r, n, 0)
  /\ req' = [req EXCEPT ![r].at = "written", ![r].over = row[n].version]
  /\ UNCHANGED <<clock, admin, redis, committed, next, walk>>

-----------------------------------------------------------------------------
(* list_documents, for a client that follows @odata.nextLink.              *)

\* A page is read, which is full or the last; the first page settles which
\* rows there are to see.
Paged(q, page) ==
  [list   |-> walk.list,
   skip   |-> IF Cardinality(page) = Top THEN walk.skip + Top ELSE walk.skip,
   seen   |-> walk.seen \cup page,
   steady |-> IF walk.skip = 0 THEN Firm(q, committed) ELSE walk.steady,
   over   |-> Cardinality(page) # Top]

\* Mutant of Page: the link names $skip and $top only, and the next pages are
\* of all rows, newest first.
PageAnew ==
  LET all == [meets |-> Version \ {0}, place |-> [n \in Name |-> [v \in Version |-> 0 - n]]]
      q   == IF walk.skip = 0 THEN walk.list ELSE all IN
  /\ ~ walk.over
  /\ \E before \in Heads(q, committed, walk.skip), upto \in Heads(q, committed, walk.skip + Top) :
       /\ before \subseteq upto
       /\ walk' = Paged(q, upto \ before)
  /\ UNCHANGED <<clock, admin, redis, rows, req>>

\* The rows from $skip on, $top of them.  A full page has a link to the next
\* one, which keeps the other options.
Page ==
  LET q == walk.list IN
  /\ ~ walk.over
  /\ \E before \in Heads(q, committed, walk.skip), upto \in Heads(q, committed, walk.skip + Top) :
       /\ before \subseteq upto
       /\ walk' = Paged(q, upto \ before)
  /\ UNCHANGED <<clock, admin, redis, rows, req>>

-----------------------------------------------------------------------------
Settings == SaveSettings \/ CommitSettings \/ RollbackSettings \/ ClearCache

Step(r) ==
  \/ \E verb \in Verb, n \in Name \cup {0}, tag \in Version : Start(r, verb, n, tag)
  \/ LookCache(r) \/ StoreCache(r)
  \/ Insert(r) \/ LockRow(r) \/ Save(r) \/ CheckDelete(r) \/ EraseRow(r)
  \/ Refuse(r) \/ Die(r) \/ Commit(r)

Next == Tick \/ Settings \/ Page \/ \E r \in Request : Step(r)

Spec == Init /\ [][Next]_vars

-----------------------------------------------------------------------------
(* What clients see of it: the documents of module DocumentStore.          *)

Question(r) ==
  IF req[r].at = "idle" THEN [verb |-> "none", name |-> 0, tag |-> 0, seen |-> 0]
  ELSE [verb |-> req[r].verb, name |-> req[r].name, tag |-> req[r].tag, seen |-> req[r].seen]

Store == INSTANCE DocumentStore WITH
  document <- committed,
  asked    <- [r \in Request |-> Question(r)],
  answer   <- [r \in Request |-> req[r].outcome]

-----------------------------------------------------------------------------
(* Properties.                                                             *)

RowType == [version : Version, by : Request \cup {NoRequest}]

RequestType ==
  [at : Place, verb : Verb, name : Name \cup {0}, tag : Version, outcome : Outcome, memo : BOOLEAN,
   start : 0..MaxClock, exposed : BOOLEAN, raced : BOOLEAN, seen : Version, over : Version]

TypeOK ==
  /\ clock     \in 0..MaxClock
  /\ exposed   \in BOOLEAN
  /\ save      \in {"none", "cleared"}
  /\ saves     \in 0..MaxSaves
  /\ cache     \in [value : BOOLEAN, until : 0..(MaxClock + TTL)]
  /\ row       \in [Name -> RowType]
  /\ committed \in [Name -> RowType]
  /\ lock      \in [Name -> Request \cup {NoRequest}]
  /\ next      \in [name : 1..(MaxName + 1), version : 1..(MaxVersion + 1)]
  /\ req       \in [Request -> RequestType]
  /\ walk      \in [list : Listing, skip : Nat, seen : SUBSET Name, steady : SUBSET Name, over : BOOLEAN]
  /\ last      \in [BOOLEAN -> Int]
  /\ stray     \in BOOLEAN

\* "Cached per site; cleared when Fraxis Settings is saved": a request is
\* served by settings that were still in force when it began, or, if the entry
\* was stored while they were being changed, less before than an entry lives
\* and a request takes.
ExposureIsRecent ==
  \A r \in Request : req[r].at \in {"run", "locked", "checked", "written"} =>
    IF req[r].raced THEN last[req[r].exposed] > req[r].start - TTL - MaxStay
    ELSE last[req[r].exposed] >= req[r].start

\* If-Match: an update replaces the version that its client has seen, however
\* many clients update the row at once.  A deletion, which compares before
\* it locks, may take a version that was committed after it began.
WritesRespectIfMatch ==
  \A r \in Request : req[r].outcome = "ok" /\ req[r].tag # 0 =>
    \/ req[r].over = req[r].tag
    \/ req[r].verb = "DELETE" /\ (req[r].over = 0 \/ req[r].over > req[r].seen)

\* "Undo partial writes": what is committed is of requests that were answered
\* as done, never of one that was told of an error or that died.
RefusedWritesAreUndone ==
  \A n \in Name : committed[n].by # NoRequest => req[committed[n].by].outcome = "ok"

\* The requests, with their snapshots, locks and rollbacks, do what one step
\* of DocumentStore does: what is answered "ok" has happened to one document
\* at once, each update to the very document it compared with, and nothing
\* else has happened to any.
StoreSpec == Store!Spec

\* A client that follows the links to the end has seen every row that was in
\* its list from the first page to the last, with a place of its own, unless a
\* row ahead of it was taken away from there: deleted, or updated to leave the
\* conditions, to move behind it or to be passed by it.  Nothing that is
\* created, and no other update, makes the client miss a row.
PagesCoverSteadyRows == walk.over => walk.steady \subseteq walk.seen

=============================================================================
