------------------------- MODULE GatewayRequestsProofs -------------------------
(***************************************************************************)
(* Proofs about GatewayRequests for any number of requests, rows, versions *)
(* and saves, any page size and any lifetimes.                             *)
(*                                                                         *)
(* Four arguments, for the parts of the module. Rows: what is not          *)
(* committed is of the request that holds the row, so that a rollback      *)
(* takes back what that request wrote and nothing else, and what an update *)
(* has compared stays as it is until the update replaces it. Exposure: the *)
(* time at which the settings last said what a request was told is bounded *)
(* along the way from the settings through Redis to the request. Pages:    *)
(* a row that nobody shares a place with is among the first k rows just if *)
(* fewer than k are ahead of it, and unless one of these is taken away     *)
(* they only grow. Documents: a request holds one row at most, with what   *)
(* its verb asks for in it, so that its commit is one step of              *)
(* DocumentStore.                                                          *)
(***************************************************************************)
EXTENDS GatewayRequests, FiniteSetTheorems, TLAPS

USE RequestAssumption, RowAssumption, VersionAssumption, BoundAssumption
    DEF admin, redis, rows

-----------------------------------------------------------------------------
(* Types.                                                                  *)

LEMMA WaitingType == Waiting \in RequestType
BY DEF Waiting, RequestType, Place, Verb, Outcome, Version, Name

LEMMA TypeInit == Init => TypeOK
<1> SUFFICES ASSUME Init PROVE TypeOK
  OBVIOUS
<1> USE DEF Init
<1>1. row \in [Name -> RowType] /\ committed = row
  BY DEF Name, Version, RowType, NoRow
<1>2. Waiting \in RequestType
  BY WaitingType
<1>3. next \in [name : 1..(MaxName + 1), version : 1..(MaxVersion + 1)]
  OBVIOUS
<1>4. walk \in [list : Listing, skip : Nat, seen : SUBSET Name, steady : SUBSET Name, over : BOOLEAN]
  <2>1. walk \in [list : Listing, skip : {0}, seen : {{}}, steady : {{}}, over : {FALSE}]
    OBVIOUS
  <2>2. PICK q \in Listing : walk = [list |-> q, skip |-> 0, seen |-> {}, steady |-> {}, over |-> FALSE]
    BY <2>1
  <2>3. 0 \in Nat /\ {} \in SUBSET Name /\ FALSE \in BOOLEAN
    OBVIOUS
  <2> HIDE DEF Init
  <2> QED BY <2>2, <2>3
<1>5. last \in [BOOLEAN -> Int] /\ cache \in [value : BOOLEAN, until : 0..(MaxClock + TTL)]
  OBVIOUS
<1>6. req \in [Request -> RequestType]
  BY <1>2
<1>7. lock \in [Name -> Request \cup {NoRequest}]
  OBVIOUS
<1>8. clock \in 0..MaxClock /\ saves \in 0..MaxSaves
  OBVIOUS
<1>9. exposed \in BOOLEAN /\ save \in {"none", "cleared"} /\ stray \in BOOLEAN
  OBVIOUS
<1> QED BY <1>1, <1>3, <1>4, <1>5, <1>6, <1>7, <1>8, <1>9 DEF TypeOK

\* What a request says of itself.
LEMMA RequestTypes ==
  ASSUME TypeOK, NEW r \in Request
  PROVE  /\ req[r] \in RequestType
         /\ req[r].at \in Place /\ req[r].verb \in Verb /\ req[r].name \in Name \cup {0}
         /\ req[r].tag \in Version /\ req[r].outcome \in Outcome /\ req[r].memo \in BOOLEAN
         /\ req[r].start \in 0..MaxClock /\ req[r].exposed \in BOOLEAN /\ req[r].raced \in BOOLEAN
         /\ req[r].seen \in Version /\ req[r].over \in Version
BY DEF TypeOK, RequestType

LEMMA RowTypes ==
  ASSUME TypeOK, NEW n \in Name
  PROVE  /\ row[n] \in RowType /\ row[n].version \in Version /\ row[n].by \in Request \cup {NoRequest}
         /\ committed[n] \in RowType /\ committed[n].version \in Version
         /\ committed[n].by \in Request \cup {NoRequest} /\ lock[n] \in Request \cup {NoRequest}
BY DEF TypeOK, RowType

\* The request that takes a step, in its other place.
LEMMA MovedTypes ==
  ASSUME TypeOK, NEW r \in Request, NEW place \in Place, req' = [req EXCEPT ![r].at = place]
  PROVE  req' \in [Request -> RequestType]
<1>1. [req[r] EXCEPT !.at = place] \in RequestType
  BY RequestTypes DEF RequestType
<1>2. req' = [req EXCEPT ![r] = [req[r] EXCEPT !.at = place]]
  OBVIOUS
<1> QED BY <1>1, <1>2 DEF TypeOK

LEMMA OverTypes ==
  ASSUME TypeOK, NEW r \in Request, NEW place \in Place, NEW over \in Version,
         req' = [req EXCEPT ![r].at = place, ![r].over = over]
  PROVE  req' \in [Request -> RequestType]
<1>1. [req[r] EXCEPT !.at = place, !.over = over] \in RequestType
  BY RequestTypes DEF RequestType
<1>2. req' = [req EXCEPT ![r] = [req[r] EXCEPT !.at = place, !.over = over]]
  OBVIOUS
<1> QED BY <1>1, <1>2 DEF TypeOK

LEMMA FinishTypes ==
  ASSUME TypeOK, NEW r \in Request, NEW outcome \in Outcome, Finish(r, outcome)
  PROVE  req' \in [Request -> RequestType]
<1>1. [req[r] EXCEPT !.at = "done", !.outcome = outcome] \in RequestType
  BY RequestTypes DEF RequestType, Place
<1>2. req' = [req EXCEPT ![r] = [req[r] EXCEPT !.at = "done", !.outcome = outcome]]
  BY DEF Finish
<1> QED BY <1>1, <1>2 DEF TypeOK

LEMMA RoutedTypes ==
  ASSUME TypeOK, NEW r \in Request, NEW value \in BOOLEAN, NEW raced \in BOOLEAN,
         Routed(r, value, raced)
  PROVE  req' \in [Request -> RequestType]
<1> DEFINE at == IF value THEN "run" ELSE "done"
           outcome == IF value THEN "none" ELSE "refused"
<1>1. at \in Place /\ outcome \in Outcome
  BY DEF Place, Outcome
<1>2. req' = [req EXCEPT ![r] = [req[r] EXCEPT !.exposed = value, !.raced = raced,
                                               !.at = at, !.outcome = outcome]]
  BY DEF Routed
<1> HIDE DEF at, outcome
<1>3. [req[r] EXCEPT !.exposed = value, !.raced = raced, !.at = at, !.outcome = outcome] \in RequestType
  BY <1>1, RequestTypes DEF RequestType
<1> QED BY <1>2, <1>3 DEF TypeOK

LEMMA StartTypes ==
  ASSUME TypeOK, NEW r \in Request, NEW verb \in Verb, NEW n \in Name \cup {0}, NEW tag \in Version,
         Start(r, verb, n, tag)
  PROVE  req' \in [Request -> RequestType]
<1> DEFINE seen == IF verb = "POST" THEN 0 ELSE committed[n].version
<1>1. seen \in Version /\ exposed \in BOOLEAN /\ clock \in 0..MaxClock
  BY RowTypes DEF Start, Version, TypeOK
<1> HIDE DEF seen
<1>2. Waiting \in RequestType
  BY WaitingType
<1>3. [Waiting EXCEPT !.at = "route", !.verb = verb, !.name = n, !.tag = tag,
                      !.memo = exposed, !.start = clock, !.seen = seen] \in RequestType
  BY <1>1, <1>2 DEF RequestType, Place
<1>4. req' = [req EXCEPT ![r] = [Waiting EXCEPT !.at = "route", !.verb = verb, !.name = n, !.tag = tag,
                                   !.memo = exposed, !.start = clock, !.seen = seen]]
  BY DEF Start, seen
<1> QED BY <1>3, <1>4 DEF TypeOK

LEMMA UndoTypes ==
  ASSUME TypeOK, NEW r \in Request, Undo(r), Release(r)
  PROVE  row' \in [Name -> RowType] /\ lock' \in [Name -> Request \cup {NoRequest}]
BY RowTypes DEF Undo, Release

LEMMA PutTypes ==
  ASSUME TypeOK, NEW r \in Request, NEW n \in Name \cup {0}, NEW version \in Version, Put(r, n, version)
  PROVE  row' \in [Name -> RowType] /\ lock' \in [Name -> Request \cup {NoRequest}]
<1>1. [version |-> version, by |-> r] \in RowType
  BY DEF RowType
<1> QED BY <1>1 DEF TypeOK, Put

-----------------------------------------------------------------------------
(* What the step of a request does to the requests.                        *)

\* The operations, but for the one that begins.
Operation(r) ==
  \/ LookCache(r) \/ StoreCache(r) \/ Insert(r) \/ LockRow(r) \/ Save(r) \/ CheckDelete(r) \/ EraseRow(r)
  \/ Refuse(r) \/ Die(r) \/ Commit(r)

LEMMA Begins ==
  ASSUME NEW r \in Request, Step(r), req[r].at = "idle"
  PROVE  \E verb \in Verb, n \in Name \cup {0}, tag \in Version : Start(r, verb, n, tag)
BY DEF Step, LookCache, StoreCache, Insert, LockRow, Save, CheckDelete, EraseRow, Refuse, Die, Commit

LEMMA Operates == ASSUME NEW r \in Request, Step(r), req[r].at # "idle" PROVE Operation(r)
BY DEF Step, Start, Operation

LEMMA Starts ==
  ASSUME TypeOK, NEW r \in Request, NEW verb \in Verb, NEW n \in Name \cup {0}, NEW tag \in Version,
         Start(r, verb, n, tag)
  PROVE  /\ req'[r].at = "route" /\ req'[r].verb = verb /\ req'[r].name = n /\ req'[r].tag = tag
         /\ req'[r].memo = exposed /\ req'[r].start = clock /\ req'[r].outcome = "none"
         /\ req'[r].seen = IF verb = "POST" THEN 0 ELSE committed[n].version
BY DEF Start, Waiting, TypeOK

LEMMA Others ==
  ASSUME TypeOK, NEW r \in Request, Step(r), NEW q \in Request, q # r
  PROVE  req'[q] = req[q]
<1>1. CASE req[r].at = "idle"
  BY <1>1, Begins DEF Start, TypeOK
<1>2. CASE LookCache(r) \/ StoreCache(r)
  BY <1>2 DEF LookCache, StoreCache, Routed, TypeOK
<1>3. CASE Insert(r) \/ LockRow(r) \/ Save(r) \/ CheckDelete(r) \/ EraseRow(r)
  BY <1>3 DEF Insert, LockRow, Save, CheckDelete, EraseRow, TypeOK
<1>4. CASE Refuse(r) \/ Die(r) \/ Commit(r)
  BY <1>4 DEF Refuse, Die, Commit, Finish, TypeOK
<1> QED BY <1>1, <1>2, <1>3, <1>4, Operates DEF Operation

LEMMA Keeps ==
  ASSUME TypeOK, NEW r \in Request, Step(r), req[r].at # "idle"
  PROVE  /\ req'[r].verb = req[r].verb /\ req'[r].name = req[r].name /\ req'[r].tag = req[r].tag
         /\ req'[r].memo = req[r].memo /\ req'[r].start = req[r].start /\ req'[r].seen = req[r].seen
<1>1. CASE LookCache(r)
  <2>1. CASE cache.until = 0
    BY <1>1, <2>1 DEF LookCache, TypeOK, RequestType
  <2>2. CASE cache.until # 0
    BY <1>1, <2>2 DEF LookCache, Routed, TypeOK, RequestType
  <2> QED BY <2>1, <2>2
<1>2. CASE StoreCache(r)
  BY <1>2 DEF StoreCache, Routed, TypeOK, RequestType
<1>3. CASE Insert(r) \/ LockRow(r) \/ CheckDelete(r)
  BY <1>3 DEF Insert, LockRow, CheckDelete, TypeOK, RequestType
<1>4. CASE Save(r) \/ EraseRow(r)
  BY <1>4 DEF Save, EraseRow, TypeOK, RequestType
<1>5. CASE Refuse(r) \/ Die(r) \/ Commit(r)
  BY <1>5 DEF Refuse, Die, Commit, Finish, TypeOK, RequestType
<1> QED BY <1>1, <1>2, <1>3, <1>4, <1>5, Operates DEF Operation

\* A request that is not done has no outcome yet.
Fresh == \A r \in Request : req[r].at # "done" => req[r].outcome = "none"

\* Where an operation leads, and what it answers.
LEMMA Places ==
  ASSUME TypeOK, Fresh, NEW r \in Request, Step(r), req[r].at # "idle"
  PROVE  /\ req'[r].at = "locked"  => LockRow(r)
         /\ req'[r].at = "checked" => CheckDelete(r)
         /\ req'[r].at = "written" => Insert(r) \/ Save(r) \/ EraseRow(r)
         /\ req'[r].at = "run"     => LookCache(r) \/ StoreCache(r)
         /\ req'[r].at = "compute" => LookCache(r)
         /\ req'[r].at \notin {"idle", "route"}
         /\ req'[r].outcome # req[r].outcome => req'[r].at = "done"
         /\ req'[r].outcome = "ok" => Commit(r) \/ req[r].outcome = "ok"
         /\ req[r].at # "done"
<1>1. CASE LookCache(r)
  <2>1. CASE cache.until = 0
    BY <1>1, <2>1 DEF LookCache, TypeOK, RequestType
  <2>2. CASE cache.until # 0
    <3>1. req'[r].at \in {"run", "done"} /\ (req'[r].at = "run" => req'[r].outcome = "none")
          /\ req'[r].outcome \in {"none", "refused"}
      BY <1>1, <2>2 DEF LookCache, Routed, TypeOK, RequestType
    <3>2. req[r].outcome = "none"
      BY <1>1 DEF LookCache, Fresh
    <3> QED BY <1>1, <3>1, <3>2 DEF LookCache
  <2> QED BY <2>1, <2>2
<1>2. CASE StoreCache(r)
  <2>1. req'[r].at \in {"run", "done"} /\ (req'[r].at = "run" => req'[r].outcome = "none")
        /\ req'[r].outcome \in {"none", "refused"}
    BY <1>2 DEF StoreCache, Routed, TypeOK, RequestType
  <2>2. req[r].outcome = "none"
    BY <1>2 DEF StoreCache, Fresh
  <2> QED BY <1>2, <2>1, <2>2 DEF StoreCache
<1>3. CASE Insert(r)
  BY <1>3 DEF Insert, TypeOK, RequestType
<1>4. CASE LockRow(r)
  BY <1>4 DEF LockRow, TypeOK, RequestType
<1>5. CASE CheckDelete(r)
  BY <1>5 DEF CheckDelete, TypeOK, RequestType
<1>6. CASE Save(r)
  BY <1>6 DEF Save, TypeOK, RequestType
<1>7. CASE EraseRow(r)
  BY <1>7 DEF EraseRow, TypeOK, RequestType
<1>8. CASE Refuse(r) \/ Die(r) \/ Commit(r)
  BY <1>8 DEF Refuse, Die, Commit, Finish, TypeOK, RequestType
<1> QED BY <1>1, <1>2, <1>3, <1>4, <1>5, <1>6, <1>7, <1>8, Operates DEF Operation

-----------------------------------------------------------------------------
\* What a request was called with, and the places that its verb leads to.
Called ==
  \A r \in Request :
    /\ IF req[r].verb = "POST" THEN req[r].tag = 0 ELSE req[r].name \in Name
    /\ req[r].at = "locked" => req[r].verb = "PATCH"
    /\ req[r].at = "checked" => req[r].verb = "DELETE"

LEMMA FreshStep == TypeOK /\ Fresh /\ [Next]_vars => Fresh'
<1> SUFFICES ASSUME TypeOK, Fresh, [Next]_vars PROVE Fresh'
  OBVIOUS
<1>1. CASE Tick \/ Settings \/ Page \/ UNCHANGED vars
  BY <1>1 DEF Tick, Settings, SaveSettings, CommitSettings, RollbackSettings, ClearCache, Page, vars, Fresh
<1>2. ASSUME NEW r \in Request, Step(r) PROVE Fresh'
  <2>1. CASE req[r].at = "idle"
    BY <1>2, <2>1, Begins, Starts, Others DEF Fresh
  <2>2. CASE req[r].at # "idle"
    <3>1. req'[r].at # "done" => req'[r].outcome = req[r].outcome
      BY <1>2, <2>2, Places
    <3>2. req[r].outcome = "none"
      BY <1>2, <2>2, Places DEF Fresh
    <3> QED BY <1>2, <3>1, <3>2, Others DEF Fresh
  <2> QED BY <2>1, <2>2
<1> QED BY <1>1, <1>2 DEF Next

LEMMA CalledStep == TypeOK /\ Fresh /\ Called /\ [Next]_vars => Called'
<1> SUFFICES ASSUME TypeOK, Fresh, Called, [Next]_vars PROVE Called'
  OBVIOUS
<1>1. CASE Tick \/ Settings \/ Page \/ UNCHANGED vars
  BY <1>1 DEF Tick, Settings, SaveSettings, CommitSettings, RollbackSettings, ClearCache, Page, vars, Called
<1>2. ASSUME NEW r \in Request, Step(r) PROVE Called'
  <2>1. ASSUME NEW verb \in Verb, NEW n \in Name \cup {0}, NEW tag \in Version, Start(r, verb, n, tag)
        PROVE  Called'
    <3>1. IF verb = "POST" THEN tag = 0 ELSE n \in Name
      BY <2>1 DEF Start
    <3> QED BY <2>1, <3>1, Starts, Others DEF Called, Step
  <2>2. CASE req[r].at # "idle"
    <3>1. req'[r].at = "locked" => req[r].verb = "PATCH"
      BY <1>2, <2>2, Places DEF LockRow
    <3>2. req'[r].at = "checked" => req[r].verb = "DELETE"
      BY <1>2, <2>2, Places DEF CheckDelete
    <3> QED BY <1>2, <2>2, <3>1, <3>2, Keeps, Others DEF Called
  <2> QED BY <1>2, <2>1, <2>2, Begins
<1> QED BY <1>1, <1>2 DEF Next

LEMMA TypeStep == TypeOK /\ Called /\ [Next]_vars => TypeOK'
<1> SUFFICES ASSUME TypeOK, Called, [Next]_vars PROVE TypeOK'
  OBVIOUS
<1>1. CASE Tick
  BY <1>1 DEF Tick, TypeOK
<1>2. CASE Settings
  <2>1. CASE SaveSettings
    BY <2>1 DEF SaveSettings, TypeOK
  <2>2. CASE CommitSettings
    BY <2>2 DEF CommitSettings, TypeOK
  <2>3. CASE RollbackSettings
    BY <2>3 DEF RollbackSettings, TypeOK
  <2>4. CASE ClearCache
    BY <2>4 DEF ClearCache, TypeOK
  <2> QED BY <1>2, <2>1, <2>2, <2>3, <2>4 DEF Settings
<1>3. CASE Page
  <2>1. PICK before \in Heads(walk.list, committed, walk.skip),
             upto \in Heads(walk.list, committed, walk.skip + Top) :
          walk' = Paged(walk.list, upto \ before)
    BY <1>3 DEF Page
  <2>2. upto \ before \in SUBSET Name
    BY DEF Heads, InList
  <2>3. walk.list \in Listing /\ walk.skip \in Nat /\ walk.seen \in SUBSET Name /\ walk.steady \in SUBSET Name
    BY DEF TypeOK
  <2>4. Firm(walk.list, committed) \in SUBSET Name
    BY DEF Firm, InList
  <2> HIDE DEF TypeOK
  <2>5. /\ (IF Cardinality(upto \ before) = Top THEN walk.skip + Top ELSE walk.skip) \in Nat
        /\ (IF walk.skip = 0 THEN Firm(walk.list, committed) ELSE walk.steady) \in SUBSET Name
        /\ walk.seen \cup (upto \ before) \in SUBSET Name
        /\ (Cardinality(upto \ before) # Top) \in BOOLEAN
    BY <2>2, <2>3, <2>4
  <2>6. walk' \in [list : Listing, skip : Nat, seen : SUBSET Name, steady : SUBSET Name, over : BOOLEAN]
    BY <2>1, <2>3, <2>5 DEF Paged
  <2> QED BY <1>3, <2>6 DEF Page, TypeOK
<1>4. ASSUME NEW r \in Request, Step(r) PROVE TypeOK'
  <2> USE RequestTypes, RowTypes
  <2>1. ASSUME NEW verb \in Verb, NEW n \in Name \cup {0}, NEW tag \in Version, Start(r, verb, n, tag)
        PROVE  TypeOK'
    BY <2>1, StartTypes DEF Start, TypeOK
  <2>2. CASE LookCache(r)
    <3>1. req' \in [Request -> RequestType]
      <4>1. CASE cache.until = 0
        BY <2>2, <4>1, MovedTypes DEF LookCache, Place
      <4>2. CASE cache.until # 0
        BY <2>2, <4>2, RoutedTypes DEF LookCache, TypeOK
      <4> QED BY <4>1, <4>2
    <3> QED BY <2>2, <3>1 DEF LookCache, TypeOK
  <2>3. CASE StoreCache(r)
    <3>1. req' \in [Request -> RequestType]
      BY <2>3, RoutedTypes DEF StoreCache
    <3>2. cache' \in [value : BOOLEAN, until : 0..(MaxClock + TTL)] /\ stray' \in BOOLEAN
      BY <2>3 DEF StoreCache, TypeOK
    <3> QED BY <2>3, <3>1, <3>2 DEF StoreCache, TypeOK
  <2>4. CASE Insert(r)
    <3>1. next.name \in Name /\ next.version \in Version
      BY <2>4 DEF Insert, TypeOK, Name, Version
    <3>2. row' \in [Name -> RowType] /\ lock' \in [Name -> Request \cup {NoRequest}]
      BY <2>4, <3>1, PutTypes DEF Insert
    <3>3. req' \in [Request -> RequestType]
      BY <2>4, MovedTypes DEF Insert, Place
    <3>4. next' \in [name : 1..(MaxName + 1), version : 1..(MaxVersion + 1)]
      BY <2>4 DEF Insert, TypeOK
    <3> QED BY <2>4, <3>2, <3>3, <3>4 DEF Insert, TypeOK
  <2>5. CASE LockRow(r)
    <3>1. req' \in [Request -> RequestType]
      BY <2>5, MovedTypes DEF LockRow, Place
    <3> QED BY <2>5, <3>1 DEF LockRow, TypeOK
  <2>6. CASE Save(r)
    <3>1. req[r].name \in Name /\ next.version \in Version
      BY <2>6 DEF Save, Called, TypeOK, Version
    <3>2. row' \in [Name -> RowType] /\ lock' \in [Name -> Request \cup {NoRequest}]
      BY <2>6, <3>1, PutTypes DEF Save
    <3>3. req' \in [Request -> RequestType]
      BY <2>6, <3>1, OverTypes DEF Save, Place
    <3>4. next' \in [name : 1..(MaxName + 1), version : 1..(MaxVersion + 1)]
      BY <2>6 DEF Save, TypeOK
    <3> QED BY <2>6, <3>2, <3>3, <3>4 DEF Save, TypeOK
  <2>7. CASE CheckDelete(r)
    <3>1. req' \in [Request -> RequestType]
      BY <2>7, MovedTypes DEF CheckDelete, Place
    <3> QED BY <2>7, <3>1 DEF CheckDelete, TypeOK
  <2>8. CASE EraseRow(r)
    <3>0. req[r].name \in Name
      BY <2>8 DEF EraseRow, Called
    <3>1. row' \in [Name -> RowType] /\ lock' \in [Name -> Request \cup {NoRequest}]
      BY <2>8, PutTypes DEF EraseRow, Version
    <3>2. req' \in [Request -> RequestType]
      BY <2>8, <3>0, OverTypes DEF EraseRow, Place
    <3> QED BY <2>8, <3>1, <3>2 DEF EraseRow, TypeOK
  <2>9. CASE Refuse(r) \/ Die(r)
    <3>1. row' \in [Name -> RowType] /\ lock' \in [Name -> Request \cup {NoRequest}]
      BY <2>9, UndoTypes DEF Refuse, Die
    <3>2. req' \in [Request -> RequestType]
      BY <2>9, FinishTypes DEF Refuse, Die, Outcome
    <3> QED BY <2>9, <3>1, <3>2 DEF Refuse, Die, TypeOK
  <2>10. CASE Commit(r)
    <3>1. committed' \in [Name -> RowType] /\ lock' \in [Name -> Request \cup {NoRequest}]
      BY <2>10 DEF Commit, Release
    <3>2. req' \in [Request -> RequestType]
      BY <2>10, FinishTypes DEF Commit, Outcome
    <3>3. walk' \in [list : Listing, skip : Nat, seen : SUBSET Name, steady : SUBSET Name, over : BOOLEAN]
      BY <2>10 DEF Commit, TypeOK
    <3> QED BY <2>10, <3>1, <3>2, <3>3 DEF Commit, TypeOK
  <2> QED BY <1>4, <2>1, <2>2, <2>3, <2>4, <2>5, <2>6, <2>7, <2>8, <2>9, <2>10 DEF Step
<1>5. CASE UNCHANGED vars
  BY <1>5 DEF vars, TypeOK
<1> QED BY <1>1, <1>2, <1>3, <1>4, <1>5 DEF Next

Typed == TypeOK /\ Fresh /\ Called

LEMMA TypedInit == Init => Typed
<1>1. Init => Fresh /\ Called
  BY DEF Init, Waiting, Fresh, Called
<1> QED BY <1>1, TypeInit DEF Typed

LEMMA AlwaysTyped == Spec => []Typed
<1>1. Typed /\ [Next]_vars => Typed'
  BY TypeStep, FreshStep, CalledStep DEF Typed
<1> QED BY <1>1, TypedInit, PTL DEF Spec

\* Every variable keeps its type: what requests, rows, Redis and the client
\* that pages are.
THEOREM RequestsAreTyped == Spec => []TypeOK
<1>1. Typed => TypeOK
  BY DEF Typed
<1> QED BY <1>1, AlwaysTyped, PTL

-----------------------------------------------------------------------------
(* Rows.                                                                   *)

\* What is not committed is of the request that holds the row, and it is
\* later than what is, or a deletion; rows that were never written are free.
RowOK(n) ==
  /\ row[n] = committed[n] \/ (lock[n] \in Request /\ row[n].by = lock[n])
  /\ lock[n] # NoRequest \/ row[n].version # 0 \/ committed[n].version # 0 => n < next.name
  /\ row[n].version < next.version /\ committed[n].version < next.version
  /\ row[n].version = 0 \/ committed[n].version <= row[n].version

RowsOK == \A n \in Name : RowOK(n)

\* What version a request saw, holds, or replaced.
RequestOK(r) ==
  LET n == req[r].name IN
  /\ req[r].seen < next.version
  /\ req[r].seen # 0 =>
       /\ n \in Name /\ n < next.name
       /\ committed[n].version = 0 \/ req[r].seen <= committed[n].version
       /\ row[n].version = 0 \/ req[r].seen <= row[n].version
  /\ req[r].at = "locked"  => lock[n] = r /\ (req[r].tag = 0 \/ req[r].tag = row[n].version)
  /\ req[r].at = "checked" => req[r].seen # 0 /\ (req[r].tag = 0 \/ req[r].tag = req[r].seen)
  /\ (req[r].at = "written" \/ req[r].outcome = "ok") /\ req[r].tag # 0 =>
       \/ req[r].over = req[r].tag
       \/ req[r].verb = "DELETE" /\ (req[r].over = 0 \/ req[r].over > req[r].seen)

RequestsOK == \A r \in Request : RequestOK(r)

\* What is committed is of those that were answered so.
CommittedOK == \A n \in Name : committed[n].by # NoRequest => req[committed[n].by].outcome = "ok"

LEMMA NextTypes == TypeOK => next.name \in Nat /\ next.version \in Nat /\ next.version > 0
<1> SUFFICES ASSUME TypeOK PROVE next.name \in Nat /\ next.version \in Nat /\ next.version > 0
  OBVIOUS
<1>1. next.name \in 1..(MaxName + 1) /\ next.version \in 1..(MaxVersion + 1)
  BY DEF TypeOK
<1> QED BY <1>1

LEMMA NextTypesAfter == TypeOK' => next'.name \in Nat /\ next'.version \in Nat
<1> SUFFICES ASSUME TypeOK' PROVE next'.name \in Nat /\ next'.version \in Nat
  OBVIOUS
<1>1. next'.name \in 1..(MaxName + 1) /\ next'.version \in 1..(MaxVersion + 1)
  BY DEF TypeOK
<1> QED BY <1>1

LEMMA NextGrows ==
  ASSUME TypeOK, NEW r \in Request, Step(r)
  PROVE  next'.name >= next.name /\ next'.version >= next.version
<1>1. CASE Insert(r)
  BY <1>1, NextTypes DEF Insert
<1>2. CASE Save(r)
  BY <1>2, NextTypes DEF Save, TypeOK
<1>3. CASE ~ (Insert(r) \/ Save(r))
  <2>1. next' = next
    BY <1>3 DEF Step, Start, LookCache, StoreCache, LockRow, CheckDelete, EraseRow, Refuse, Die, Commit
  <2> QED BY <2>1, NextTypes
<1> QED BY <1>1, <1>2, <1>3

\* What the step of r may do to row n: nothing, lock it, write it, delete
\* it, and in the end roll back or commit.
Kept(n)   == row'[n] = row[n] /\ committed'[n] = committed[n] /\ lock'[n] = lock[n]
Locked(r, n) ==
  /\ row'[n] = row[n] /\ committed'[n] = committed[n]
  /\ lock[n] = NoRequest /\ lock'[n] = r /\ row[n].version # 0
Written(r, n) ==
  /\ lock[n] \in {r, NoRequest} /\ lock'[n] = r /\ committed'[n] = committed[n]
  /\ row'[n] = [version |-> next.version, by |-> r]
  /\ next'.version = next.version + 1 /\ n < next'.name
Erased(r, n) ==
  /\ lock[n] = NoRequest /\ lock'[n] = r /\ committed'[n] = committed[n]
  /\ row'[n] = [version |-> 0, by |-> r] /\ n < next.name
Undone(r, n) ==
  /\ lock[n] = r /\ lock'[n] = NoRequest
  /\ row'[n] = committed[n] /\ committed'[n] = committed[n]
Committed(r, n) ==
  /\ lock[n] = r /\ lock'[n] = NoRequest
  /\ row'[n] = row[n] /\ committed'[n] = row[n] /\ Commit(r)

LEMMA RowChanges ==
  ASSUME Typed, RowsOK, RequestsOK, NEW r \in Request, Step(r), NEW n \in Name
  PROVE  Kept(n) \/ Locked(r, n) \/ Written(r, n) \/ Erased(r, n) \/ Undone(r, n) \/ Committed(r, n)
<1>0. TypeOK /\ next.name \in Nat /\ next.version \in Nat
  BY DEF Typed, TypeOK
<1>1. CASE req[r].at = "idle" \/ LookCache(r) \/ StoreCache(r) \/ CheckDelete(r)
  <2>1. row' = row /\ committed' = committed /\ lock' = lock /\ next' = next
    BY <1>1, Begins DEF Start, LookCache, StoreCache, CheckDelete
  <2> QED BY <1>0, <2>1 DEF Kept
<1>2. CASE Insert(r)
  <2>1. next'.name = next.name + 1 /\ next'.version = next.version + 1 /\ committed' = committed
    BY <1>2 DEF Insert
  <2>2. CASE n = next.name
    <3>1. lock[n] = NoRequest
      BY <1>0, <2>2 DEF RowsOK, RowOK
    <3>2. row'[n] = [version |-> next.version, by |-> r] /\ lock'[n] = r
      BY <1>0, <1>2, <2>2 DEF Insert, Put, TypeOK
    <3> QED BY <1>0, <2>1, <2>2, <3>1, <3>2 DEF Written
  <2>3. CASE n # next.name
    <3>1. row'[n] = row[n] /\ lock'[n] = lock[n]
      BY <1>0, <1>2, <2>3 DEF Insert, Put, TypeOK
    <3> QED BY <1>0, <2>1, <3>1 DEF Kept
  <2> QED BY <2>2, <2>3
<1>3. CASE LockRow(r)
  <2>1. row' = row /\ committed' = committed /\ next' = next
    BY <1>3 DEF LockRow
  <2>2. n = req[r].name => lock[n] = NoRequest /\ lock'[n] = r /\ row[n].version # 0
    BY <1>0, <1>3 DEF LockRow, TypeOK
  <2>3. n # req[r].name => lock'[n] = lock[n]
    BY <1>0, <1>3 DEF LockRow, TypeOK
  <2> QED BY <1>0, <2>1, <2>2, <2>3 DEF Kept, Locked
<1>4. CASE Save(r)
  <2>1. next'.name = next.name /\ next'.version = next.version + 1 /\ committed' = committed
    BY <1>0, <1>4 DEF Save, TypeOK
  <2>2. CASE n = req[r].name
    <3>1. row'[n] = [version |-> next.version, by |-> r] /\ lock'[n] = r /\ lock[n] = r
      BY <1>0, <1>4, <2>2 DEF Save, Put, TypeOK, RequestsOK, RequestOK
    <3>2. n < next.name
      BY <3>1 DEF RowsOK, RowOK
    <3> QED BY <1>0, <2>1, <3>1, <3>2 DEF Written
  <2>3. CASE n # req[r].name
    <3>1. row'[n] = row[n] /\ lock'[n] = lock[n]
      BY <1>0, <1>4, <2>3 DEF Save, Put, TypeOK
    <3> QED BY <1>0, <2>1, <3>1 DEF Kept
  <2> QED BY <2>2, <2>3
<1>5. CASE EraseRow(r)
  <2>1. req[r].name < next.name /\ next' = next /\ committed' = committed
    BY <1>5 DEF EraseRow, RequestsOK, RequestOK
  <2>2. CASE n = req[r].name
    <3>1. row'[n] = [version |-> 0, by |-> r] /\ lock'[n] = r /\ lock[n] = NoRequest
      BY <1>0, <1>5, <2>2 DEF EraseRow, Put, TypeOK
    <3> QED BY <1>0, <2>1, <2>2, <3>1 DEF Erased
  <2>3. CASE n # req[r].name
    <3>1. row'[n] = row[n] /\ lock'[n] = lock[n]
      BY <1>0, <1>5, <2>3 DEF EraseRow, Put, TypeOK
    <3> QED BY <1>0, <2>1, <3>1 DEF Kept
  <2> QED BY <2>2, <2>3
<1>6. CASE Refuse(r) \/ Die(r)
  <2>1. committed' = committed /\ next' = next /\ Undo(r) /\ Release(r)
    BY <1>6 DEF Refuse, Die
  <2>2. IF lock[n] = r THEN row'[n] = committed[n] /\ lock'[n] = NoRequest
                       ELSE row'[n] = row[n] /\ lock'[n] = lock[n]
    BY <2>1 DEF Undo, Release, Held
  <2> QED BY <1>0, <2>1, <2>2 DEF Undone, Kept
<1>7. CASE Commit(r)
  <2>1. row' = row /\ next' = next /\ Release(r)
    BY <1>7 DEF Commit
  <2>2. IF lock[n] = r THEN committed'[n] = row[n] /\ lock'[n] = NoRequest
                       ELSE committed'[n] = committed[n] /\ lock'[n] = lock[n]
    BY <1>7, <2>1 DEF Commit, Release, Held
  <2> QED BY <1>0, <1>7, <2>1, <2>2 DEF Committed, Kept
<1> QED BY <1>1, <1>2, <1>3, <1>4, <1>5, <1>6, <1>7, Operates DEF Operation

LEMMA RowsStep == Typed /\ RowsOK /\ RequestsOK /\ [Next]_vars => RowsOK'
<1> SUFFICES ASSUME Typed, RowsOK, RequestsOK, [Next]_vars, NEW n \in Name PROVE RowOK(n)'
  BY DEF RowsOK
<1>0. TypeOK /\ next.name \in Nat /\ next.version \in Nat /\ next.version > 0 /\ n \in Nat
  BY NextTypes DEF Typed, Name
<1>1. row[n].version \in Nat /\ committed[n].version \in Nat /\ RowOK(n)
  BY <1>0, RowTypes DEF RowsOK, Version
<1>2. CASE UNCHANGED <<row, committed, lock, next>>
  BY <1>1, <1>2 DEF RowOK
<1>3. ASSUME NEW r \in Request, Step(r) PROVE RowOK(n)'
  <2>0. /\ next'.name >= next.name /\ next'.version >= next.version
        /\ next'.name \in Nat /\ next'.version \in Nat
    BY <1>3, NextGrows, TypeStep, NextTypesAfter DEF Typed, Next
  <2>1. CASE Kept(n)
    BY <1>0, <1>1, <2>0, <2>1 DEF Kept, RowOK
  <2>2. CASE Locked(r, n)
    BY <1>0, <1>1, <2>0, <2>2 DEF Locked, RowOK
  <2>3. CASE Written(r, n)
    BY <1>0, <1>1, <2>0, <2>3 DEF Written, RowOK
  <2>4. CASE Erased(r, n)
    BY <1>0, <1>1, <2>0, <2>4 DEF Erased, RowOK
  <2>5. CASE Undone(r, n)
    BY <1>0, <1>1, <2>0, <2>5 DEF Undone, RowOK
  <2>6. CASE Committed(r, n)
    BY <1>0, <1>1, <2>0, <2>6 DEF Committed, RowOK
  <2> QED BY <1>3, <2>1, <2>2, <2>3, <2>4, <2>5, <2>6, RowChanges
<1> QED BY <1>2, <1>3 DEF Next, Tick, Settings, SaveSettings, CommitSettings, RollbackSettings,
           ClearCache, Page, vars

\* A version that is not later than what there is remains so.
LEMMA SeenRow ==
  ASSUME Typed, RowsOK, RequestsOK, NEW r \in Request, Step(r), NEW n \in Name, NEW seen \in Nat,
         seen < next.version, committed[n].version = 0 \/ seen <= committed[n].version,
         row[n].version = 0 \/ seen <= row[n].version
  PROVE  /\ committed'[n].version = 0 \/ seen <= committed'[n].version
         /\ row'[n].version = 0 \/ seen <= row'[n].version
<1>0. next.version \in Nat
  BY NextTypes DEF Typed
<1>1. CASE Kept(n)
  BY <1>1 DEF Kept
<1>2. CASE Locked(r, n)
  BY <1>2 DEF Locked
<1>3. CASE Written(r, n)
  <2>1. row'[n].version = next.version /\ committed'[n] = committed[n]
    BY <1>3 DEF Written
  <2> QED BY <1>0, <2>1
<1>4. CASE Erased(r, n)
  <2>1. row'[n].version = 0 /\ committed'[n] = committed[n]
    BY <1>4 DEF Erased
  <2> QED BY <2>1
<1>5. CASE Undone(r, n)
  BY <1>5 DEF Undone
<1>6. CASE Committed(r, n)
  BY <1>6 DEF Committed
<1> QED BY <1>1, <1>2, <1>3, <1>4, <1>5, <1>6, RowChanges

\* What another request has seen and holds stays so.
LEMMA OtherRequests ==
  ASSUME Typed, RowsOK, RequestsOK, TypeOK', NEW r \in Request, Step(r), NEW q \in Request, q # r
  PROVE  RequestOK(q)'
<1>0. TypeOK /\ Called /\ RequestOK(q) /\ req'[q] = req[q] /\ q # NoRequest
  BY Others DEF Typed, RequestsOK
<1> DEFINE n == req[q].name
<1>1. /\ req[q].seen \in Nat /\ req[q].tag \in Nat /\ next.version \in Nat /\ next.name \in Nat
      /\ next'.version \in Nat /\ next'.name \in Nat
      /\ next'.version >= next.version /\ next'.name >= next.name
  BY <1>0, RequestTypes, NextTypes, NextTypesAfter, NextGrows DEF Version
<1>2. CASE n \notin Name
  <2>1. req[q].seen = 0 /\ req[q].at \notin {"locked", "checked"}
    BY <1>0, <1>2 DEF RequestOK, Called
  <2> QED BY <1>0, <1>1, <2>1 DEF RequestOK
<1>3. CASE n \in Name
  <2>1. n \in Nat /\ row[n].version \in Nat /\ committed[n].version \in Nat
    BY <1>0, <1>3, RowTypes DEF Version, Name
  <2>2. req[q].seen # 0 =>
          /\ committed'[n].version = 0 \/ req[q].seen <= committed'[n].version
          /\ row'[n].version = 0 \/ req[q].seen <= row'[n].version
    BY <1>0, <1>1, <1>3, <2>1, SeenRow DEF RequestOK
  <2>3. lock[n] = q => lock'[n] = q /\ row'[n] = row[n]
    BY <1>0, <1>3, RowChanges DEF Kept, Locked, Written, Erased, Undone, Committed
  <2> QED BY <1>0, <1>1, <1>3, <2>1, <2>2, <2>3 DEF RequestOK
<1> QED BY <1>2, <1>3

\* What a request that takes a step has seen stays so too.
LEMMA SeenStep ==
  ASSUME Typed, RowsOK, RequestsOK, TypeOK', NEW r \in Request, Step(r)
  PROVE  LET n == req'[r].name IN
         /\ req'[r].seen < next'.version
         /\ req'[r].seen # 0 =>
              /\ n \in Name /\ n < next'.name
              /\ committed'[n].version = 0 \/ req'[r].seen <= committed'[n].version
              /\ row'[n].version = 0 \/ req'[r].seen <= row'[n].version
<1> DEFINE n == req'[r].name
<1>0. /\ TypeOK /\ Called /\ RequestOK(r)
      /\ next.version \in Nat /\ next.name \in Nat /\ next'.version \in Nat /\ next'.name \in Nat
      /\ next'.version >= next.version /\ next'.name >= next.name /\ next.version > 0
  BY NextTypes, NextTypesAfter, NextGrows DEF Typed, RequestsOK
<1>1. CASE req[r].at = "idle"
  <2>1. PICK verb \in Verb, name \in Name \cup {0}, tag \in Version : Start(r, verb, name, tag)
    BY <1>1, Begins
  <2>2. row' = row /\ committed' = committed /\ next' = next /\ (verb # "POST" => name \in Name)
    BY <2>1 DEF Start
  <2>3. n = name /\ req'[r].seen = (IF verb = "POST" THEN 0 ELSE committed[name].version)
    BY <1>0, <2>1, Starts
  <2>4. CASE verb = "POST"
    BY <1>0, <2>3, <2>4
  <2>5. CASE verb # "POST"
    <3>1. /\ RowOK(name) /\ name \in Nat
          /\ row[name].version \in Nat /\ committed[name].version \in Nat
      BY <1>0, <2>2, <2>5, RowTypes DEF RowsOK, Version, Name
    <3> QED BY <1>0, <2>2, <2>3, <2>5, <3>1 DEF RowOK
  <2> QED BY <2>4, <2>5
<1>2. CASE req[r].at # "idle"
  <2>1. n = req[r].name /\ req'[r].seen = req[r].seen /\ req[r].seen \in Nat
    BY <1>0, <1>2, Keeps, RequestTypes DEF Version
  <2>2. CASE req[r].seen = 0
    BY <1>0, <2>1, <2>2
  <2>3. CASE req[r].seen # 0
    <3>1. /\ n \in Name /\ n < next.name /\ n \in Nat /\ req[r].seen < next.version
          /\ committed[n].version = 0 \/ req[r].seen <= committed[n].version
          /\ row[n].version = 0 \/ req[r].seen <= row[n].version
      BY <1>0, <2>1, <2>3 DEF RequestOK, Name
    <3>2. row[n].version \in Nat /\ committed[n].version \in Nat
      BY <1>0, <3>1, RowTypes DEF Version
    <3>3. /\ committed'[n].version = 0 \/ req[r].seen <= committed'[n].version
          /\ row'[n].version = 0 \/ req[r].seen <= row'[n].version
      BY <1>0, <2>1, <3>1, <3>2, SeenRow
    <3> QED BY <1>0, <2>1, <3>1, <3>3
  <2> QED BY <2>2, <2>3
<1> QED BY <1>1, <1>2


\* What a request holds, has checked, or has replaced after its own step.
LEMMA HeldStep ==
  ASSUME Typed, RowsOK, RequestsOK, NEW r \in Request, Step(r), req[r].at # "idle"
  PROVE  LET n == req'[r].name IN
         /\ req'[r].at = "locked"  => lock'[n] = r /\ (req'[r].tag = 0 \/ req'[r].tag = row'[n].version)
         /\ req'[r].at = "checked" => req'[r].seen # 0 /\ (req'[r].tag = 0 \/ req'[r].tag = req'[r].seen)
<1>0. /\ TypeOK /\ Called /\ Fresh
      /\ req'[r].name = req[r].name /\ req'[r].tag = req[r].tag /\ req'[r].seen = req[r].seen
  BY Keeps DEF Typed
<1>1. ASSUME req'[r].at = "locked"
      PROVE  lock'[req[r].name] = r /\ (req[r].tag = 0 \/ req[r].tag = row'[req[r].name].version)
  <2>1. LockRow(r) /\ req[r].name \in Name
    BY <1>0, <1>1, Places DEF LockRow, Called
  <2> QED BY <1>0, <2>1 DEF LockRow, Matches, TypeOK
<1>2. ASSUME req'[r].at = "checked"
      PROVE  req[r].seen # 0 /\ (req[r].tag = 0 \/ req[r].tag = req[r].seen)
  <2>1. CheckDelete(r)
    BY <1>0, <1>2, Places
  <2> QED BY <2>1 DEF CheckDelete, Matches
<1> QED BY <1>0, <1>1, <1>2

LEMMA OverStep ==
  ASSUME Typed, RowsOK, RequestsOK, NEW r \in Request, Step(r), req[r].at # "idle"
  PROVE  (req'[r].at = "written" \/ req'[r].outcome = "ok") /\ req'[r].tag # 0 =>
           \/ req'[r].over = req'[r].tag
           \/ req'[r].verb = "DELETE" /\ (req'[r].over = 0 \/ req'[r].over > req'[r].seen)
<1>0. /\ TypeOK /\ Called /\ Fresh /\ RequestOK(r)
      /\ req'[r].verb = req[r].verb /\ req'[r].tag = req[r].tag /\ req'[r].seen = req[r].seen
      /\ req[r].seen \in Nat /\ req[r].tag \in Nat
  BY Keeps, RequestTypes DEF Typed, RequestsOK, Version
<1> SUFFICES ASSUME req'[r].at = "written" \/ req'[r].outcome = "ok", req[r].tag # 0
             PROVE  \/ req'[r].over = req[r].tag
                    \/ req[r].verb = "DELETE" /\ (req'[r].over = 0 \/ req'[r].over > req[r].seen)
  BY <1>0
<1>1. Insert(r) \/ Save(r) \/ EraseRow(r) \/ Commit(r)
  <2>1. req'[r].outcome = "ok" => Commit(r)
    BY <1>0, Places DEF Fresh
  <2>2. req'[r].at = "written" => Insert(r) \/ Save(r) \/ EraseRow(r)
    BY <1>0, Places
  <2> QED BY <2>1, <2>2
<1>2. CASE Insert(r)
  BY <1>0, <1>2 DEF Insert, Called
<1>3. CASE Save(r)
  <2>1. req'[r].over = row[req[r].name].version /\ req[r].at = "locked"
    BY <1>0, <1>3 DEF Save, TypeOK, RequestType
  <2> QED BY <1>0, <2>1 DEF RequestOK
<1>4. CASE EraseRow(r)
  <2> DEFINE n == req[r].name
  <2>1. /\ req'[r].over = row[n].version /\ req[r].at = "checked" /\ lock[n] = NoRequest
        /\ n \in Name /\ req[r].verb = "DELETE"
    BY <1>0, <1>4 DEF EraseRow, Called, TypeOK, RequestType
  <2>2. row[n].version \in Nat /\ row[n] = committed[n]
    BY <1>0, <2>1, RowTypes DEF RowsOK, RowOK, Version
  <2>3. row[n].version = 0 \/ req[r].seen <= row[n].version
    BY <1>0, <2>1 DEF RequestOK
  <2>4. req[r].tag = req[r].seen
    BY <1>0, <2>1 DEF RequestOK
  <2> QED BY <1>0, <2>1, <2>2, <2>3, <2>4
<1>5. CASE Commit(r)
  <2>1. req'[r].over = req[r].over /\ req[r].at = "written"
    BY <1>0, <1>5 DEF Commit, Finish, TypeOK, RequestType
  <2> QED BY <1>0, <2>1 DEF RequestOK
<1> QED BY <1>1, <1>2, <1>3, <1>4, <1>5

LEMMA RequestsStep == Typed /\ RowsOK /\ RequestsOK /\ [Next]_vars => RequestsOK'
<1> SUFFICES ASSUME Typed, RowsOK, RequestsOK, [Next]_vars PROVE RequestsOK'
  OBVIOUS
<1>1. CASE Tick \/ Settings \/ Page \/ UNCHANGED vars
  BY <1>1 DEF Tick, Settings, SaveSettings, CommitSettings, RollbackSettings, ClearCache, Page, vars,
              RequestsOK, RequestOK
<1>2. ASSUME NEW r \in Request, Step(r) PROVE RequestsOK'
  <2>1. TypeOK' /\ TypeOK
    BY <1>2, TypeStep DEF Typed
  <2>2. ASSUME NEW q \in Request, q # r PROVE RequestOK(q)'
    BY <1>2, <2>1, <2>2, OtherRequests
  <2>3. RequestOK(r)'
    <3>1. CASE req[r].at = "idle"
      <4>1. req'[r].at = "route" /\ req'[r].outcome = "none"
        BY <1>2, <2>1, <3>1, Begins, Starts
      <4> QED BY <1>2, <2>1, <4>1, SeenStep DEF RequestOK
    <3>2. CASE req[r].at # "idle"
      BY <1>2, <2>1, <3>2, SeenStep, HeldStep, OverStep DEF RequestOK
    <3> QED BY <3>1, <3>2
  <2> QED BY <2>2, <2>3 DEF RequestsOK
<1> QED BY <1>1, <1>2 DEF Next

\* A version is committed by a request in its answer, which stays.
LEMMA CommittedStep == Typed /\ RowsOK /\ RequestsOK /\ CommittedOK /\ [Next]_vars => CommittedOK'
<1> SUFFICES ASSUME Typed, RowsOK, RequestsOK, CommittedOK, [Next]_vars PROVE CommittedOK'
  OBVIOUS
<1>1. CASE Tick \/ Settings \/ Page \/ UNCHANGED vars
  BY <1>1 DEF Tick, Settings, SaveSettings, CommitSettings, RollbackSettings, ClearCache, Page, vars,
              CommittedOK
<1>2. ASSUME NEW r \in Request, Step(r), NEW n \in Name, committed'[n].by # NoRequest
      PROVE  req'[committed'[n].by].outcome = "ok"
  <2>0. TypeOK /\ Fresh /\ committed[n].by \in Request \cup {NoRequest}
    BY RowTypes DEF Typed
  <2>1. ASSUME NEW q \in Request, req[q].outcome = "ok" PROVE req'[q].outcome = "ok"
    <3>1. CASE q = r
      <4>1. req[r].at = "done"
        BY <2>0, <2>1, <3>1 DEF Fresh
      <4> QED BY <1>2, <2>0, <4>1, Places
    <3>2. CASE q # r
      BY <1>2, <2>0, <2>1, <3>2, Others
    <3> QED BY <3>1, <3>2
  <2>2. CASE committed'[n] = committed[n]
    BY <1>2, <2>0, <2>1, <2>2 DEF CommittedOK
  <2>3. CASE Committed(r, n)
    <3>1. req'[r].outcome = "ok"
      BY <2>0, <2>3 DEF Committed, Commit, Finish, TypeOK, RequestType
    <3>2. row[n] = committed[n] \/ row[n].by = r
      BY <1>2, <2>3 DEF Committed, RowsOK, RowOK
    <3>3. committed'[n] = row[n]
      BY <2>3 DEF Committed
    <3> QED BY <2>2, <3>1, <3>2, <3>3
  <2> QED BY <1>2, <2>2, <2>3, RowChanges DEF Kept, Locked, Written, Erased, Undone
<1>3. CASE \E r \in Request : Step(r)
  BY <1>2, <1>3 DEF CommittedOK
<1> QED BY <1>1, <1>3 DEF Next

LEMMA RowsInit == Init => RowsOK /\ RequestsOK /\ CommittedOK
<1> SUFFICES ASSUME Init PROVE RowsOK /\ RequestsOK /\ CommittedOK
  OBVIOUS
<1>1. \A r \in Request : req[r] = Waiting
  BY DEF Init
<1>2. next.version = FirstRows + 1 /\ next.name = FirstRows + 1
  BY DEF Init
<1>3. RequestsOK
  BY <1>1, <1>2 DEF Waiting, RequestsOK, RequestOK
<1>4. ASSUME NEW n \in Name
      PROVE  /\ row[n] = committed[n] /\ row[n].by = NoRequest /\ lock[n] = NoRequest
             /\ row[n].version = IF n <= FirstRows THEN n ELSE 0
  BY DEF Init, NoRow
<1>5. RowsOK /\ CommittedOK
  BY <1>2, <1>4 DEF RowsOK, RowOK, CommittedOK, Name
<1> QED BY <1>3, <1>5

LEMMA RowsInvariant == Spec => [](Typed /\ RowsOK /\ RequestsOK /\ CommittedOK)
<1>1. Init => Typed /\ RowsOK /\ RequestsOK /\ CommittedOK
  BY TypedInit, RowsInit
<1>2. Typed /\ [Next]_vars => Typed'
  BY TypeStep, FreshStep, CalledStep DEF Typed
<1> QED BY <1>1, <1>2, RowsStep, RequestsStep, CommittedStep, PTL DEF Spec

\* If-Match: an update replaces the very version that its client has seen,
\* because it compares the row that it holds; a deletion, which compares
\* before, replaces that version, a later one, or one that is gone.
THEOREM IfMatchIsRespected == Spec => []WritesRespectIfMatch
<1>1. RequestsOK => WritesRespectIfMatch
  BY DEF RequestsOK, RequestOK, WritesRespectIfMatch
<1> QED BY <1>1, RowsInvariant, PTL

\* Whatever is committed is of a request that was answered as done: the
\* rollback of dispatch takes back all that the others wrote.
THEOREM FailuresLeaveNothing == Spec => []RefusedWritesAreUndone
<1>1. CommittedOK => RefusedWritesAreUndone
  BY DEF CommittedOK, RefusedWritesAreUndone
<1> QED BY <1>1, RowsInvariant, PTL

-----------------------------------------------------------------------------
(* Exposure.                                                               *)

\* The settings say now what they say; what they say no more is of before.
MomentsOK == last[exposed] = clock /\ \A b \in BOOLEAN : last[b] <= clock

\* An entry says what the settings said when it was stored, or as long before
\* as a request takes; one that was not stored during a save is still true.
CacheOK ==
  cache.until # 0 =>
    /\ cache.until > clock
    /\ last[cache.value] >= cache.until - TTL - MaxStay
    /\ ~ stray => cache.value = exposed /\ save = "none"

\* What a request was told, or will be by the settings that it has loaded.
ToldOK(r) ==
  /\ req[r].at # "idle" => req[r].start <= clock
  /\ req[r].at \in {"route", "compute"} => clock <= req[r].start + MaxStay /\ last[req[r].memo] >= req[r].start
  /\ req[r].at \in {"run", "locked", "checked", "written"} =>
       IF req[r].raced THEN last[req[r].exposed] > req[r].start - TTL - MaxStay
       ELSE last[req[r].exposed] >= req[r].start

AllTold == \A r \in Request : ToldOK(r)

Exposure == MomentsOK /\ CacheOK /\ AllTold

LEMMA TimeTypes ==
  ASSUME TypeOK
  PROVE  /\ clock \in Nat /\ exposed \in BOOLEAN /\ save \in {"none", "cleared"} /\ stray \in BOOLEAN
         /\ cache.until \in Nat /\ cache.value \in BOOLEAN
         /\ cache \in [value : BOOLEAN, until : 0..(MaxClock + TTL)]
         /\ \A b \in BOOLEAN : last[b] \in Int
         /\ TTL \in Nat /\ TTL > 0 /\ MaxStay \in Nat
<1>1. TTL \in Nat /\ TTL > 0 /\ MaxStay \in Nat
  OBVIOUS
<1>2. cache.until \in 0..(MaxClock + TTL) /\ clock \in 0..MaxClock
  BY DEF TypeOK
<1> QED BY <1>1, <1>2 DEF TypeOK

\* The time at which the settings last said something only moves on.
LEMMA LastGrows ==
  ASSUME TypeOK, MomentsOK, [Next]_vars
  PROVE  /\ clock' \in {clock, clock + 1}
         /\ MomentsOK'
         /\ \A b \in BOOLEAN : last'[b] \in Int /\ last'[b] >= last[b]
<1>0. clock \in Nat /\ exposed \in BOOLEAN /\ \A b \in BOOLEAN : last[b] \in Int /\ last[b] <= clock
  BY TimeTypes DEF MomentsOK
<1>1. CASE Tick
  BY <1>0, <1>1 DEF Tick, MomentsOK, TypeOK
<1>2. CASE CommitSettings
  <2>1. clock' = clock /\ exposed' = ~ exposed /\ last' = [last EXCEPT ![~ exposed] = clock]
    BY <1>2 DEF CommitSettings
  <2>2. last'[~ exposed] = clock /\ last'[exposed] = last[exposed]
    BY <1>0, <2>1 DEF TypeOK
  <2>3. \A b \in BOOLEAN : b = exposed \/ b = ~ exposed
    BY <1>0
  <2> QED BY <1>0, <2>1, <2>2, <2>3 DEF MomentsOK
<1>3. CASE ~ (Tick \/ CommitSettings)
  <2>1. UNCHANGED <<clock, exposed, last>>
    BY <1>3 DEF Next, Settings, SaveSettings, RollbackSettings, ClearCache, Page, vars, Step, Start,
                LookCache, StoreCache, Insert, LockRow, Save, CheckDelete, EraseRow, Refuse, Die, Commit
  <2> QED BY <1>0, <2>1 DEF MomentsOK
<1> QED BY <1>1, <1>2, <1>3

LEMMA CacheStep == TypeOK /\ Exposure /\ [Next]_vars => CacheOK'
<1> SUFFICES ASSUME TypeOK, Exposure, [Next]_vars, cache'.until # 0
             PROVE  /\ cache'.until > clock'
                    /\ last'[cache'.value] >= cache'.until - TTL - MaxStay
                    /\ ~ stray' => cache'.value = exposed' /\ save' = "none"
  BY DEF CacheOK
<1>0. /\ clock' \in {clock, clock + 1} /\ CacheOK /\ AllTold /\ clock \in Nat /\ TTL \in Nat /\ TTL > 0
      /\ MaxStay \in Nat /\ cache.until \in Nat /\ cache.value \in BOOLEAN
      /\ \A b \in BOOLEAN : last[b] \in Int /\ last'[b] \in Int /\ last'[b] >= last[b]
  BY TimeTypes, LastGrows DEF Exposure
<1>1. CASE Tick
  <2>1. cache' = cache /\ cache.until > clock + 1 /\ clock' = clock + 1
    BY <1>0, <1>1, TimeTypes DEF Tick
  <2> QED BY <1>0, <1>1, <2>1 DEF Tick, CacheOK
<1>2. CASE SaveSettings \/ ClearCache
  BY <1>2, TimeTypes DEF SaveSettings, ClearCache
<1>3. CASE CommitSettings \/ RollbackSettings
  <2>1. cache' = cache /\ stray' = stray /\ clock' = clock /\ save = "cleared"
    BY <1>3 DEF CommitSettings, RollbackSettings
  <2> QED BY <1>0, <2>1 DEF CacheOK
<1>4. ASSUME NEW r \in Request, StoreCache(r)
      PROVE  /\ cache'.until > clock'
             /\ last'[cache'.value] >= cache'.until - TTL - MaxStay
             /\ ~ stray' => cache'.value = exposed' /\ save' = "none"
  <2>1. /\ cache'.value = req[r].memo /\ cache'.until = clock + TTL /\ clock' = clock
        /\ req[r].memo \in BOOLEAN /\ req[r].start \in Nat
        /\ stray' = (save = "cleared" \/ req[r].memo # exposed) /\ exposed' = exposed /\ save' = save
    BY <1>4, RequestTypes DEF StoreCache
  <2>2. clock <= req[r].start + MaxStay /\ last[req[r].memo] >= req[r].start
    BY <1>0, <1>4 DEF StoreCache, AllTold, ToldOK
  <2>3. cache'.until > clock' /\ last'[cache'.value] >= cache'.until - TTL - MaxStay
    BY <1>0, <2>1, <2>2
  <2>4. ~ stray' => cache'.value = exposed' /\ save' = "none"
    BY <2>1, TimeTypes
  <2> QED BY <2>3, <2>4
<1>5. CASE UNCHANGED <<clock, exposed, save, cache, stray>>
  BY <1>0, <1>5 DEF CacheOK
<1>6. Tick \/ SaveSettings \/ ClearCache \/ CommitSettings \/ RollbackSettings
      \/ (\E r \in Request : StoreCache(r)) \/ UNCHANGED <<clock, exposed, save, cache, stray>>
  <2>1. ASSUME NEW r \in Request, Step(r), ~ StoreCache(r)
        PROVE  UNCHANGED <<clock, exposed, save, cache, stray>>
    BY <2>1 DEF Step, Start, LookCache, Insert, LockRow, Save, CheckDelete, EraseRow, Refuse, Die, Commit
  <2>2. CASE Page \/ UNCHANGED vars
    BY <2>2 DEF Page, vars
  <2> QED BY <2>1, <2>2 DEF Next, Settings
<1> QED BY <1>1, <1>2, <1>3, <1>4, <1>5, <1>6

\* What a request was told remains what it was told.
LEMMA ToldOnce ==
  ASSUME TypeOK, NEW r \in Request, Step(r), req[r].at \notin {"idle", "route", "compute"}
  PROVE  req'[r].exposed = req[r].exposed /\ req'[r].raced = req[r].raced
<1>1. CASE Insert(r) \/ LockRow(r) \/ CheckDelete(r)
  BY <1>1 DEF Insert, LockRow, CheckDelete, TypeOK, RequestType
<1>2. CASE Save(r) \/ EraseRow(r)
  BY <1>2 DEF Save, EraseRow, TypeOK, RequestType
<1>3. CASE Refuse(r) \/ Die(r) \/ Commit(r)
  BY <1>3 DEF Refuse, Die, Commit, Finish, TypeOK, RequestType
<1> QED BY <1>1, <1>2, <1>3, Operates DEF Operation, LookCache, StoreCache

\* What a request is told by Redis, or by the settings that it has loaded.
LEMMA ToldByCache ==
  ASSUME Typed, Exposure, NEW r \in Request, LookCache(r)
  PROVE  ToldOK(r)'
<1>0. /\ TypeOK /\ clock' = clock /\ last' = last /\ ToldOK(r) /\ req[r].at = "route" /\ clock \in Nat
      /\ req[r].start \in Nat /\ req[r].memo \in BOOLEAN /\ MomentsOK /\ CacheOK /\ Step(r)
  BY RequestTypes, TimeTypes DEF Typed, LookCache, Exposure, AllTold, Step
<1>1. req'[r].start = req[r].start /\ req'[r].memo = req[r].memo
  BY <1>0, Keeps
<1>2. CASE cache.until = 0
  <2>1. req'[r].at = "compute"
    BY <1>0, <1>2 DEF LookCache, TypeOK, RequestType
  <2> QED BY <1>0, <1>1, <2>1 DEF ToldOK
<1>3. CASE cache.until # 0
  <2>1. req'[r].at \in {"run", "done"} /\ req'[r].exposed = cache.value /\ req'[r].raced = stray
    BY <1>0, <1>3 DEF LookCache, Routed, TypeOK, RequestType
  <2>2. /\ cache.until > clock /\ last[cache.value] >= cache.until - TTL - MaxStay
        /\ ~ stray => cache.value = exposed
    BY <1>0, <1>3 DEF CacheOK
  <2>3. req[r].start <= clock
    BY <1>0 DEF ToldOK
  <2>4. IF stray THEN last[cache.value] > req[r].start - TTL - MaxStay
        ELSE last[cache.value] >= req[r].start
    BY <1>0, <2>2, <2>3, TimeTypes DEF MomentsOK
  <2> QED BY <1>0, <1>1, <2>1, <2>3, <2>4 DEF ToldOK
<1> QED BY <1>2, <1>3

LEMMA ToldBySettings ==
  ASSUME Typed, Exposure, NEW r \in Request, StoreCache(r)
  PROVE  ToldOK(r)'
<1>0. /\ TypeOK /\ clock' = clock /\ last' = last /\ ToldOK(r) /\ req[r].at = "compute" /\ Step(r)
  BY DEF Typed, StoreCache, Exposure, AllTold, Step
<1>1. req'[r].start = req[r].start
  BY <1>0, Keeps
<1>2. req'[r].at \in {"run", "done"} /\ req'[r].exposed = req[r].memo /\ ~ req'[r].raced
  BY <1>0 DEF StoreCache, Routed, TypeOK, RequestType
<1> QED BY <1>0, <1>1, <1>2 DEF ToldOK

LEMMA ToldStep == Typed /\ Exposure /\ [Next]_vars => AllTold'
<1> SUFFICES ASSUME Typed, Exposure, [Next]_vars, NEW r \in Request PROVE ToldOK(r)'
  BY DEF AllTold
<1>0. /\ TypeOK /\ MomentsOK /\ ToldOK(r) /\ clock \in Nat /\ clock' \in {clock, clock + 1}
      /\ TTL \in Nat /\ MaxStay \in Nat /\ req[r].start \in Nat /\ req[r].memo \in BOOLEAN /\ req[r].exposed \in BOOLEAN
      /\ \A b \in BOOLEAN : last[b] \in Int /\ last'[b] \in Int /\ last'[b] >= last[b]
  BY TimeTypes, LastGrows, RequestTypes DEF Typed, Exposure, AllTold
<1>1. CASE req'[r] = req[r] /\ clock' = clock
  BY <1>0, <1>1 DEF ToldOK
<1>2. CASE Tick
  <2>1. req' = req /\ clock' = clock + 1
        /\ (req[r].at \in {"route", "compute"} => clock < req[r].start + MaxStay)
    BY <1>2 DEF Tick
  <2> QED BY <1>0, <2>1 DEF ToldOK
<1>3. CASE Step(r)
  <2>0. clock' = clock /\ last' = last
    BY <1>3 DEF Step, Start, LookCache, StoreCache, Insert, LockRow, Save, CheckDelete, EraseRow,
                Refuse, Die, Commit
  <2>1. CASE req[r].at = "idle"
    <3>1. req'[r].at = "route" /\ req'[r].start = clock /\ req'[r].memo = exposed
      BY <1>0, <1>3, <2>1, Begins, Starts
    <3> QED BY <1>0, <2>0, <3>1 DEF ToldOK, MomentsOK
  <2>2. CASE LookCache(r) \/ StoreCache(r)
    BY <2>2, ToldByCache, ToldBySettings
  <2>3. CASE req[r].at = "done" \/ ((Refuse(r) \/ Die(r) \/ Commit(r)) /\ req[r].at # "idle")
    <3>1. req'[r].at = "done" /\ req'[r].start = req[r].start
      <4>1. req[r].at # "done"
        BY <1>3, <2>3, Places DEF Typed
      <4>2. req'[r].at = "done"
        BY <1>0, <2>3, <4>1 DEF Refuse, Die, Commit, Finish, TypeOK, RequestType
      <4> QED BY <1>0, <1>3, <2>3, <4>1, <4>2, Keeps
    <3> QED BY <1>0, <2>0, <2>3, <3>1 DEF ToldOK
  <2>4. CASE Insert(r) \/ LockRow(r) \/ Save(r) \/ CheckDelete(r) \/ EraseRow(r)
    <3>1. req[r].at \in {"run", "locked", "checked"}
      BY <2>4 DEF Insert, LockRow, Save, CheckDelete, EraseRow
    <3>2. req'[r].at \in {"locked", "checked", "written"}
      BY <1>0, <2>4 DEF Insert, LockRow, Save, CheckDelete, EraseRow, TypeOK, RequestType
    <3>3. req'[r].start = req[r].start /\ req'[r].exposed = req[r].exposed /\ req'[r].raced = req[r].raced
      BY <1>0, <1>3, <3>1, Keeps, ToldOnce
    <3> QED BY <1>0, <2>0, <3>1, <3>2, <3>3 DEF ToldOK
  <2> QED BY <1>3, <2>1, <2>2, <2>3, <2>4, Operates DEF Operation
<1>4. Tick \/ Step(r) \/ (req'[r] = req[r] /\ clock' = clock)
  <2>1. ASSUME NEW q \in Request, Step(q), q # r PROVE req'[r] = req[r] /\ clock' = clock
    <3>1. req'[r] = req[r]
      BY <1>0, <2>1, Others
    <3>2. clock' = clock
      BY <2>1 DEF Step, Start, LookCache, StoreCache, Insert, LockRow, Save, CheckDelete, EraseRow,
                  Refuse, Die, Commit
    <3> QED BY <3>1, <3>2
  <2> QED BY <2>1 DEF Next, Settings, SaveSettings, CommitSettings, RollbackSettings, ClearCache, Page, vars
<1> QED BY <1>1, <1>2, <1>3, <1>4

LEMMA ExposureInit == Init => Exposure
BY DEF Init, Waiting, Exposure, MomentsOK, CacheOK, AllTold, ToldOK

\* A request is served by settings that were in force when it began or, by an
\* entry that was stored during a save, later than a TTL and a stay before.
THEOREM ExposureIsBounded == Spec => []ExposureIsRecent
<1>1. Exposure => ExposureIsRecent
  BY DEF Exposure, AllTold, ToldOK, ExposureIsRecent
<1>2. Typed /\ Exposure /\ [Next]_vars => Exposure'
  BY CacheStep, ToldStep, LastGrows DEF Exposure, Typed
<1> QED BY <1>1, <1>2, ExposureInit, AlwaysTyped, PTL DEF Spec

-----------------------------------------------------------------------------
(* Pages.                                                                  *)

LEMMA ListTypes ==
  ASSUME NEW q \in Listing, NEW c \in [Name -> RowType], NEW n \in Name
  PROVE  /\ RankOf(q, c, n) \in Int
         /\ Firm(q, c) \subseteq InList(q, c) /\ InList(q, c) \subseteq Name
<1>1. q.place \in [1..MaxName -> [0..MaxVersion -> Int]]
  BY ListingAssumption
<1>2. c[n].version \in 0..MaxVersion /\ n \in 1..MaxName
  BY DEF RowType, Version, Name
<1>3. RankOf(q, c, n) \in Int
  BY <1>1, <1>2 DEF RankOf
<1> QED BY <1>3 DEF Firm, InList

LEMMA ListFinite ==
  ASSUME NEW q, NEW c, NEW S \in SUBSET InList(q, c), NEW n
  PROVE  /\ IsFiniteSet(S) /\ Cardinality(S) \in Nat
         /\ IsFiniteSet(Ahead(q, c, n)) /\ Cardinality(Ahead(q, c, n)) \in Nat
<1>1. IsFiniteSet(Name)
  BY FS_Interval DEF Name
<1>2. S \in SUBSET Name /\ Ahead(q, c, n) \in SUBSET Name
  BY DEF Ahead, InList
<1>3. IsFiniteSet(S) /\ IsFiniteSet(Ahead(q, c, n))
  BY <1>1, <1>2, FS_Subset
<1> QED BY <1>3, FS_CardinalityType

\* What a set of first rows is.
LEMMA HeadTypes ==
  ASSUME NEW q, NEW c, NEW k \in Nat, NEW S \in Heads(q, c, k)
  PROVE  /\ S \in SUBSET InList(q, c) /\ IsFiniteSet(S) /\ Cardinality(S) \in Nat
         /\ Cardinality(S) = k \/ (Cardinality(S) < k /\ S = InList(q, c))
<1>1. S \in SUBSET InList(q, c)
  BY DEF Heads
<1>2. Cardinality(S) = k \/ (Cardinality(S) < k /\ S = InList(q, c))
  BY DEF Heads
<1> QED BY <1>1, <1>2, ListFinite

\* A row with a place of its own is among the first k rows, in whichever order
\* the others come, just if there are less than k rows ahead of it.
LEMMA FirmIsWithin ==
  ASSUME NEW q \in Listing, NEW c \in [Name -> RowType], NEW k \in Nat, NEW S \in Heads(q, c, k),
         NEW n \in Firm(q, c), Cardinality(Ahead(q, c, n)) < k
  PROVE  n \in S
<1> SUFFICES ASSUME n \notin S PROVE FALSE
  OBVIOUS
<1>1. n \in InList(q, c) /\ n \in Name /\ ~ Tied(q, c, n)
  BY ListTypes DEF Firm, InList
<1>2. S \in SUBSET InList(q, c) /\ Cardinality(S) = k
  BY <1>1, HeadTypes
<1>3. ASSUME NEW m \in S PROVE m \in Ahead(q, c, n)
  <2>1. m \in InList(q, c) /\ m \in Name /\ m # n
    BY <1>2 DEF InList
  <2>2. RankOf(q, c, m) <= RankOf(q, c, n)
    BY <1>1 DEF Heads
  <2>3. RankOf(q, c, m) # RankOf(q, c, n)
    BY <1>1, <2>1 DEF Tied
  <2>4. RankOf(q, c, m) \in Int /\ RankOf(q, c, n) \in Int
    BY <1>1, <2>1, ListTypes
  <2>5. RankOf(q, c, m) < RankOf(q, c, n)
    BY <2>2, <2>3, <2>4
  <2> QED BY <2>1, <2>5 DEF Ahead
<1>4. S \in SUBSET Ahead(q, c, n)
  BY <1>3
<1>5. IsFiniteSet(Ahead(q, c, n)) /\ Cardinality(Ahead(q, c, n)) \in Nat
  BY <1>2, ListFinite
<1>6. Cardinality(S) <= Cardinality(Ahead(q, c, n))
  BY <1>4, <1>5, FS_Subset
<1> QED BY <1>2, <1>5, <1>6

LEMMA WithinIsFirm ==
  ASSUME NEW q \in Listing, NEW c \in [Name -> RowType], NEW k \in Nat, NEW S \in Heads(q, c, k), NEW n \in S
  PROVE  Cardinality(Ahead(q, c, n)) < k
<1>1. S \in SUBSET InList(q, c) /\ IsFiniteSet(S) /\ Cardinality(S) \in Nat /\ Cardinality(S) <= k
  BY HeadTypes
<1>2. n \in Name /\ RankOf(q, c, n) \in Int
  BY <1>1, ListTypes DEF InList
<1>3. ASSUME NEW m \in Ahead(q, c, n) PROVE m \in S
  <2> SUFFICES ASSUME m \notin S PROVE FALSE
    OBVIOUS
  <2>1. m \in InList(q, c) /\ m \in Name /\ RankOf(q, c, m) < RankOf(q, c, n)
    BY DEF Ahead, InList
  <2>2. RankOf(q, c, n) <= RankOf(q, c, m)
    BY <2>1 DEF Heads
  <2>3. RankOf(q, c, m) \in Int
    BY <2>1, ListTypes
  <2> QED BY <1>2, <2>1, <2>2, <2>3
<1>4. n \notin Ahead(q, c, n)
  BY <1>2 DEF Ahead
<1>5. IsFiniteSet(Ahead(q, c, n)) /\ Cardinality(Ahead(q, c, n)) \in Nat
  BY <1>1, ListFinite
<1>6. Cardinality(Ahead(q, c, n) \cup {n}) = Cardinality(Ahead(q, c, n)) + 1
  BY <1>4, <1>5, FS_AddElement
<1>7. Ahead(q, c, n) \cup {n} \in SUBSET S
  BY <1>3
<1>8. Cardinality(Ahead(q, c, n) \cup {n}) <= Cardinality(S)
  BY <1>1, <1>7, FS_Subset
<1> QED BY <1>1, <1>5, <1>6, <1>8

\* A page that is not full ends the list.
LEMMA ShortPageIsLast ==
  ASSUME NEW q, NEW c, NEW k \in Nat, NEW before \in Heads(q, c, k), NEW upto \in Heads(q, c, k + Top),
         before \subseteq upto, Cardinality(upto \ before) # Top
  PROVE  upto = InList(q, c)
<1> SUFFICES ASSUME upto # InList(q, c) PROVE FALSE
  OBVIOUS
<1>0. k + Top \in Nat /\ Top \in Nat \ {0}
  OBVIOUS
<1>1. /\ before \in SUBSET InList(q, c) /\ IsFiniteSet(before) /\ Cardinality(before) \in Nat
      /\ Cardinality(before) = k \/ (Cardinality(before) < k /\ before = InList(q, c))
  BY HeadTypes
<1>2. upto \in SUBSET InList(q, c) /\ IsFiniteSet(upto) /\ Cardinality(upto) = k + Top
  BY <1>0, HeadTypes
<1>3. Cardinality(before) = k
  BY <1>1, <1>2
<1>4. upto \cap before = before
  OBVIOUS
<1>5. Cardinality(upto \ before) = Cardinality(upto) - Cardinality(before)
  BY <1>2, <1>4, FS_Difference
<1> QED BY <1>0, <1>2, <1>3, <1>5

\* A steady row that is before the next page has been seen.
WalkOK ==
  /\ \A n \in walk.steady :
       /\ n \in Firm(walk.list, committed)
       /\ Cardinality(Ahead(walk.list, committed, n)) < walk.skip => n \in walk.seen
  /\ walk.over => walk.steady \subseteq walk.seen

LEMMA PageStep == TypeOK /\ WalkOK /\ Page => WalkOK'
<1> SUFFICES ASSUME TypeOK, WalkOK, Page PROVE WalkOK'
  OBVIOUS
<1> DEFINE q == walk.list
           c == committed
           k == walk.skip
<1>0. q \in Listing /\ c \in [Name -> RowType] /\ k \in Nat /\ k + Top \in Nat /\ Top \in Nat \ {0}
  BY DEF TypeOK
<1>1. PICK before \in Heads(q, c, k), upto \in Heads(q, c, k + Top) :
        before \subseteq upto /\ walk' = Paged(q, upto \ before)
  BY DEF Page
<1> DEFINE page == upto \ before
<1>2. /\ walk'.list = q
      /\ walk'.skip = IF Cardinality(page) = Top THEN k + Top ELSE k
      /\ walk'.seen = walk.seen \cup page
      /\ walk'.steady = IF k = 0 THEN Firm(q, c) ELSE walk.steady
      /\ walk'.over = (Cardinality(page) # Top)
      /\ committed' = c
  BY <1>1 DEF Page, Paged
<1>3. ASSUME NEW n \in walk'.steady PROVE n \in Firm(q, c)
  BY <1>2 DEF WalkOK
<1> HIDE DEF q, c, k, page
<1>4. ASSUME NEW n \in walk'.steady, n \in upto PROVE n \in walk'.seen
  <2>1. CASE n \in before
    <3>1. Cardinality(Ahead(q, c, n)) < k
      BY <1>0, <1>1, <2>1, WithinIsFirm
    <3>2. Cardinality(Ahead(q, c, n)) \in Nat
      BY <1>0, <1>1, <2>1, HeadTypes, ListFinite
    <3>3. k # 0
      BY <1>0, <3>1, <3>2
    <3>4. n \in walk.steady
      BY <1>2, <3>3
    <3>5. n \in walk.seen
      BY <3>1, <3>4 DEF WalkOK, q, c, k
    <3> QED BY <1>2, <3>5
  <2>2. CASE n \notin before
    BY <1>2, <1>4, <2>2 DEF page
  <2> QED BY <2>1, <2>2
<1>5. ASSUME NEW n \in walk'.steady, Cardinality(Ahead(q, c, n)) < k + Top PROVE n \in upto
  BY <1>0, <1>1, <1>3, <1>5, FirmIsWithin
<1>6. ASSUME NEW n \in walk'.steady, Cardinality(page) # Top PROVE n \in upto
  <2>1. upto = InList(q, c)
    BY <1>0, <1>1, <1>6, ShortPageIsLast DEF page
  <2>2. n \in Name /\ n \in InList(q, c)
    BY <1>3 DEF Firm, InList
  <2> QED BY <2>1, <2>2
<1>7. ASSUME NEW n \in walk'.steady, Cardinality(Ahead(q, c, n)) < walk'.skip PROVE n \in walk'.seen
  <2>1. CASE Cardinality(page) = Top
    BY <1>2, <1>4, <1>5, <1>7, <2>1
  <2>2. CASE Cardinality(page) # Top
    BY <1>4, <1>6, <2>2
  <2> QED BY <2>1, <2>2
<1>8. walk'.over => walk'.steady \subseteq walk'.seen
  BY <1>2, <1>4, <1>6
<1>9. \A n \in walk'.steady : n \in Firm(walk'.list, committed')
  BY <1>2, <1>3
<1>10. \A n \in walk'.steady :
         Cardinality(Ahead(walk'.list, committed', n)) < walk'.skip => n \in walk'.seen
  BY <1>2, <1>7
<1> QED BY <1>8, <1>9, <1>10 DEF WalkOK

LEMMA CommitStep ==
  ASSUME TypeOK, TypeOK', WalkOK, NEW r \in Request, Commit(r)
  PROVE  WalkOK'
<1> DEFINE q == walk.list
           d == committed'
<1>1. /\ walk'.list = q /\ walk'.skip = walk.skip /\ walk'.seen = walk.seen /\ walk'.over = walk.over
      /\ walk'.steady = walk.steady \cap Stay(q, committed, d)
  BY DEF Commit, TypeOK
<1>2. q \in Listing /\ walk.skip \in Nat
  BY DEF TypeOK
<1> HIDE DEF q, d
<1>3. ASSUME NEW n \in walk'.steady
      PROVE  /\ n \in Firm(q, d)
             /\ Cardinality(Ahead(q, d, n)) < walk.skip => n \in walk.seen
  <2>1. n \in walk.steady /\ n \in Firm(q, d) /\ Ahead(q, committed, n) \in SUBSET Ahead(q, d, n)
    BY <1>1 DEF Stay
  <2>2. {} \in SUBSET InList(q, d) /\ {} \in SUBSET InList(q, committed)
    OBVIOUS
  <2>3. /\ IsFiniteSet(Ahead(q, d, n)) /\ Cardinality(Ahead(q, d, n)) \in Nat
        /\ Cardinality(Ahead(q, committed, n)) \in Nat
    BY <2>2, ListFinite
  <2>4. Cardinality(Ahead(q, committed, n)) <= Cardinality(Ahead(q, d, n))
    BY <2>1, <2>3, FS_Subset
  <2>5. Cardinality(Ahead(q, committed, n)) < walk.skip => n \in walk.seen
    BY <2>1 DEF WalkOK, q
  <2> QED BY <1>2, <2>1, <2>3, <2>4, <2>5
<1>4. walk'.over => walk'.steady \subseteq walk'.seen
  BY <1>1 DEF WalkOK
<1>5. \A n \in walk'.steady :
        /\ n \in Firm(walk'.list, committed')
        /\ Cardinality(Ahead(walk'.list, committed', n)) < walk'.skip => n \in walk'.seen
  BY <1>1, <1>3 DEF d
<1> QED BY <1>4, <1>5 DEF WalkOK

LEMMA WalkStep == TypeOK /\ TypeOK' /\ WalkOK /\ [Next]_vars => WalkOK'
<1> SUFFICES ASSUME TypeOK, TypeOK', WalkOK, [Next]_vars PROVE WalkOK'
  OBVIOUS
<1>1. CASE UNCHANGED <<committed, walk>>
  BY <1>1 DEF WalkOK
<1>2. Page \/ (\E r \in Request : Commit(r)) \/ UNCHANGED <<committed, walk>>
  <2>1. ASSUME NEW r \in Request, Step(r), ~ Commit(r) PROVE UNCHANGED <<committed, walk>>
    BY <2>1 DEF Step, Start, LookCache, StoreCache, Insert, LockRow, Save, CheckDelete, EraseRow, Refuse, Die
  <2>2. CASE Tick \/ Settings \/ UNCHANGED vars
    BY <2>2 DEF Tick, Settings, SaveSettings, CommitSettings, RollbackSettings, ClearCache, vars
  <2> QED BY <2>1, <2>2 DEF Next
<1> QED BY <1>1, <1>2, PageStep, CommitStep

LEMMA WalkInit == Init => WalkOK
BY DEF Init, WalkOK

\* A client that follows @odata.nextLink to the end has seen every row that
\* had a place of its own in its list from the first page to the last, unless
\* a row ahead of it was taken away from there: whatever was created meanwhile
\* and however else rows were updated, in any order and under any conditions.
THEOREM PagesAreComplete == Spec => []PagesCoverSteadyRows
<1>1. WalkOK => PagesCoverSteadyRows
  BY DEF WalkOK, PagesCoverSteadyRows
<1>2. Typed => TypeOK
  BY DEF Typed
<1> QED BY <1>1, <1>2, WalkInit, WalkStep, AlwaysTyped, PTL DEF Spec

-----------------------------------------------------------------------------
(* Documents: GatewayRequests implements DocumentStore.                    *)

\* A request holds this row and no other.
HoldsOnly(r, n) == \A m \in Name : lock[m] = r <=> m = n

\* What r has written to row n and not committed is what its verb asks for.
Permitted(r, n) ==
  /\ row[n].by = r
  /\ req[r].verb = "POST" => committed[n] = NoRow /\ row[n].version # 0
  /\ req[r].verb = "PATCH" =>
       /\ n = req[r].name /\ committed[n].version # 0 /\ req[r].tag \in {0, committed[n].version}
       /\ row[n].version > committed[n].version
  /\ req[r].verb = "DELETE" =>
       n = req[r].name /\ row[n].version = 0 /\ req[r].seen # 0 /\ req[r].tag \in {0, req[r].seen}

\* What a request holds, and why it may write, or has written, as it does.
Holding(r) ==
  /\ req[r].at \notin {"locked", "written"} => \A n \in Name : lock[n] # r
  /\ req[r].at = "locked" =>
       /\ HoldsOnly(r, req[r].name)
       /\ row[req[r].name] = committed[req[r].name] /\ row[req[r].name].version # 0
       /\ req[r].tag \in {0, row[req[r].name].version}
  /\ req[r].at = "written" => \E n \in Name : HoldsOnly(r, n) /\ Permitted(r, n)

HoldingsOK == \A r \in Request : Holding(r)

\* Names that were not given yet are of nobody.
UnusedOK == \A n \in Name : n >= next.name => committed[n] = NoRow

\* A step of another request leaves alone what r holds, and takes nothing for it.
LEMMA Undisturbed ==
  ASSUME Typed, RowsOK, RequestsOK, NEW q \in Request, Step(q), NEW r \in Request, r # q, NEW n \in Name
  PROVE  /\ lock[n] = r => row'[n] = row[n] /\ committed'[n] = committed[n]
         /\ lock'[n] = r <=> lock[n] = r
BY RowChanges DEF Kept, Locked, Written, Erased, Undone, Committed

LEMMA OtherHolding ==
  ASSUME Typed, RowsOK, RequestsOK, NEW q \in Request, Step(q), NEW r \in Request, r # q, Holding(r)
  PROVE  Holding(r)'
<1>0. TypeOK /\ Called /\ req'[r] = req[r]
  BY Others DEF Typed
<1>1. \A n \in Name : lock'[n] = r <=> lock[n] = r
  BY Undisturbed
<1>2. ASSUME NEW n \in Name, HoldsOnly(r, n)
      PROVE  HoldsOnly(r, n)' /\ row'[n] = row[n] /\ committed'[n] = committed[n]
  BY <1>1, <1>2, Undisturbed DEF HoldsOnly
<1>3. ASSUME req[r].at \notin {"locked", "written"} PROVE \A n \in Name : lock'[n] # r
  BY <1>1, <1>3 DEF Holding
<1>4. ASSUME req[r].at = "locked"
      PROVE  /\ HoldsOnly(r, req[r].name)' /\ row'[req[r].name] = committed'[req[r].name]
             /\ row'[req[r].name].version # 0 /\ req[r].tag \in {0, row'[req[r].name].version}
  <2>1. req[r].name \in Name
    BY <1>0, <1>4 DEF Called
  <2>2. HoldsOnly(r, req[r].name)
    BY <1>4 DEF Holding
  <2>3. /\ row'[req[r].name] = row[req[r].name] /\ committed'[req[r].name] = committed[req[r].name]
        /\ HoldsOnly(r, req[r].name)'
    BY <1>0, <1>1, <2>1, <2>2, Undisturbed DEF HoldsOnly
  <2> QED BY <1>4, <2>3 DEF Holding
<1>5. ASSUME req[r].at = "written" PROVE \E n \in Name : HoldsOnly(r, n)' /\ Permitted(r, n)'
  <2>1. PICK n \in Name : HoldsOnly(r, n) /\ Permitted(r, n)
    BY <1>5 DEF Holding
  <2>2. Permitted(r, n)'
    BY <1>0, <1>2, <2>1 DEF Permitted
  <2> QED BY <1>2, <2>1, <2>2
<1> QED BY <1>0, <1>3, <1>4, <1>5 DEF Holding

\* What a request has written to the row it holds.
HoldsNoOther(r, n) == \A m \in Name : lock[m] = r => m = n

LEMMA PutHolds ==
  ASSUME TypeOK, NEW r \in Request, NEW n \in Name, NEW version, Put(r, n, version), HoldsNoOther(r, n)
  PROVE  HoldsOnly(r, n)' /\ row'[n] = [version |-> version, by |-> r]
BY DEF Put, HoldsOnly, HoldsNoOther, TypeOK

LEMMA OwnHolding ==
  ASSUME Typed, RowsOK, RequestsOK, UnusedOK, NEW r \in Request, Step(r), Holding(r)
  PROVE  Holding(r)'
<1>0. TypeOK /\ Fresh /\ Called /\ next.name \in Nat /\ next.version \in Nat /\ next.version > 0
  BY NextTypes DEF Typed
<1>1. CASE req[r].at = "idle"
  <2>1. PICK verb \in Verb, n \in Name \cup {0}, tag \in Version : Start(r, verb, n, tag)
    BY <1>1, Begins
  <2>2. req'[r].at = "route" /\ lock' = lock
    BY <1>0, <2>1, Starts DEF Start
  <2> QED BY <1>1, <2>2 DEF Holding
<1>2. CASE LookCache(r) \/ StoreCache(r) \/ CheckDelete(r)
  <2>1. lock' = lock /\ req[r].at \in {"route", "compute", "run"}
    BY <1>2 DEF LookCache, StoreCache, CheckDelete
  <2>2. req'[r].at \notin {"locked", "written"}
    <3>1. ~ LockRow(r) /\ ~ Insert(r) /\ ~ Save(r) /\ ~ EraseRow(r)
      BY <1>2 DEF LookCache, StoreCache, CheckDelete, LockRow, Insert, Save, EraseRow
    <3> QED BY <1>0, <2>1, <3>1, Places
  <2> QED BY <2>1, <2>2 DEF Holding
<1>3. CASE Insert(r)
  <2>0. PICK n \in Name : n = next.name
    BY <1>0, <1>3 DEF Insert, Name, TypeOK
  <2>1. Put(r, n, next.version) /\ committed' = committed /\ req[r].at = "run"
    BY <1>3, <2>0 DEF Insert
  <2>2. req'[r].at = "written" /\ req'[r].verb = "POST"
    BY <1>0, <1>3 DEF Insert, TypeOK, RequestType
  <2>3. \A m \in Name : lock[m] # r
    BY <2>1 DEF Holding
  <2>4. HoldsOnly(r, n)' /\ row'[n] = [version |-> next.version, by |-> r]
    BY <1>0, <2>1, <2>3, PutHolds DEF HoldsNoOther
  <2>5. committed[n] = NoRow
    BY <1>0, <2>0 DEF UnusedOK, Name
  <2>6. Permitted(r, n)'
    BY <1>0, <2>1, <2>2, <2>4, <2>5 DEF Permitted
  <2> QED BY <2>1, <2>2, <2>4, <2>6 DEF Holding
<1>4. CASE LockRow(r)
  <2>0. PICK n \in Name : n = req[r].name
    BY <1>0, <1>4 DEF LockRow, Called
  <2>1. /\ n = req[r].name /\ req[r].at = "run" /\ lock[n] = NoRequest /\ row[n].version # 0 /\ req[r].tag \in {0, row[n].version}
        /\ row' = row /\ committed' = committed
    BY <1>4, <2>0 DEF LockRow, Matches
  <2>3. req'[r].at = "locked" /\ req'[r].name = n /\ req'[r].tag = req[r].tag
    BY <1>0, <1>4, <2>0 DEF LockRow, TypeOK, RequestType
  <2>4. \A m \in Name : lock[m] # r
    BY <2>1 DEF Holding
  <2>5. HoldsOnly(r, n)'
    BY <1>0, <1>4, <2>0, <2>4 DEF LockRow, HoldsOnly, TypeOK
  <2>6. row[n] = committed[n]
    BY <2>1, <2>0 DEF RowsOK, RowOK
  <2> QED BY <2>1, <2>3, <2>5, <2>6 DEF Holding
<1>5. CASE Save(r)
  <2>0. PICK n \in Name : n = req[r].name
    BY <1>0, <1>5 DEF Save, Called
  <2>1. /\ n = req[r].name /\ req[r].verb = "PATCH" /\ req[r].at = "locked"
        /\ Put(r, n, next.version) /\ committed' = committed
    BY <1>0, <1>5, <2>0 DEF Save, Called
  <2>2. /\ HoldsOnly(r, n) /\ row[n] = committed[n] /\ row[n].version # 0
        /\ req[r].tag \in {0, row[n].version}
    BY <2>1 DEF Holding
  <2>3. HoldsOnly(r, n)' /\ row'[n] = [version |-> next.version, by |-> r]
    BY <1>0, <2>1, <2>2, PutHolds DEF HoldsOnly, HoldsNoOther
  <2>4. /\ req'[r].at = "written" /\ req'[r].verb = "PATCH" /\ req'[r].name = n
        /\ req'[r].tag = req[r].tag
    BY <1>0, <1>5, <2>0, <2>1 DEF Save, TypeOK, RequestType
  <2>5. committed[n].version \in Nat /\ next.version > committed[n].version
    BY <1>0, <2>1, RowTypes DEF RowsOK, RowOK, Version
  <2>6. Permitted(r, n)'
    BY <2>1, <2>2, <2>3, <2>4, <2>5 DEF Permitted
  <2> QED BY <2>1, <2>3, <2>4, <2>6 DEF Holding
<1>6. CASE EraseRow(r)
  <2>0. PICK n \in Name : n = req[r].name
    BY <1>0, <1>6 DEF EraseRow, Called
  <2>1. /\ n = req[r].name /\ req[r].verb = "DELETE" /\ req[r].at = "checked" /\ Put(r, n, 0)
        /\ committed' = committed
    BY <1>0, <1>6, <2>0 DEF EraseRow, Called
  <2>2. \A m \in Name : lock[m] # r
    BY <2>1 DEF Holding
  <2>3. HoldsOnly(r, n)' /\ row'[n] = [version |-> 0, by |-> r]
    BY <1>0, <2>1, <2>2, PutHolds DEF HoldsNoOther
  <2>4. /\ req'[r].at = "written" /\ req'[r].verb = "DELETE" /\ req'[r].name = n
        /\ req'[r].tag = req[r].tag /\ req'[r].seen = req[r].seen
    BY <1>0, <1>6, <2>0, <2>1 DEF EraseRow, TypeOK, RequestType
  <2>5. req[r].seen # 0 /\ req[r].tag \in {0, req[r].seen}
    BY <2>1 DEF RequestsOK, RequestOK
  <2>6. Permitted(r, n)'
    BY <2>1, <2>3, <2>4, <2>5 DEF Permitted
  <2> QED BY <2>1, <2>3, <2>4, <2>6 DEF Holding
<1>7. CASE Refuse(r) \/ Die(r) \/ Commit(r)
  <2>1. Release(r) /\ req'[r].at = "done"
    BY <1>0, <1>7 DEF Refuse, Die, Commit, Finish, TypeOK, RequestType
  <2>2. \A n \in Name : lock'[n] # r
    BY <2>1 DEF Release, Held
  <2> QED BY <2>1, <2>2 DEF Holding
<1> QED BY <1>1, <1>2, <1>3, <1>4, <1>5, <1>6, <1>7, Operates DEF Operation

Environment == Tick \/ Settings \/ Page \/ UNCHANGED vars

LEMMA EnvironmentKeeps ==
  ASSUME Environment
  PROVE  req' = req /\ row' = row /\ committed' = committed /\ lock' = lock /\ next' = next
BY DEF Environment, Tick, Settings, SaveSettings, CommitSettings, RollbackSettings, ClearCache, Page, vars

LEMMA HoldingsStep ==
  Typed /\ RowsOK /\ RequestsOK /\ UnusedOK /\ HoldingsOK /\ [Next]_vars => HoldingsOK' /\ UnusedOK'
<1> SUFFICES ASSUME Typed, RowsOK, RequestsOK, UnusedOK, HoldingsOK, [Next]_vars
             PROVE  HoldingsOK' /\ UnusedOK'
  OBVIOUS
<1>1. CASE Environment
  BY <1>1, EnvironmentKeeps DEF HoldingsOK, Holding, HoldsOnly, Permitted, UnusedOK
<1>2. ASSUME NEW r \in Request, Step(r) PROVE HoldingsOK' /\ UnusedOK'
  <2>1. HoldingsOK'
    BY <1>2, OwnHolding, OtherHolding DEF HoldingsOK
  <2>2. TypeOK /\ TypeOK'
    BY <1>2, TypeStep DEF Typed, Next
  <2>3. ASSUME NEW n \in Name, n >= next'.name PROVE committed'[n] = NoRow
    <3>1. n >= next.name /\ n \in Nat /\ next.name \in Nat
      BY <1>2, <2>2, <2>3, NextGrows, NextTypes, NextTypesAfter DEF Name
    <3>2. committed[n] = NoRow
      BY <3>1 DEF UnusedOK
    <3>3. lock[n] = NoRequest
      BY <3>1 DEF RowsOK, RowOK
    <3> QED BY <1>2, <3>2, <3>3, RowChanges DEF Kept, Locked, Written, Erased, Undone, Committed
  <2> QED BY <2>1, <2>3 DEF UnusedOK
<1> QED BY <1>1, <1>2 DEF Next, Environment

LEMMA HoldingsInit == Init => HoldingsOK /\ UnusedOK
<1> SUFFICES ASSUME Init PROVE HoldingsOK /\ UnusedOK
  OBVIOUS
<1>1. \A r \in Request : req[r].at = "idle"
  BY DEF Init, Waiting
<1>2. \A n \in Name : lock[n] = NoRequest
  BY DEF Init
<1>3. \A n \in Name : n >= next.name => committed[n] = NoRow
  BY DEF Init, Name
<1> QED BY <1>1, <1>2, <1>3 DEF HoldingsOK, Holding, UnusedOK

StoreInv == Typed /\ RowsOK /\ RequestsOK /\ HoldingsOK /\ UnusedOK

LEMMA StoreInvariant == Spec => []StoreInv
<1>1. Init => HoldingsOK /\ UnusedOK
  BY HoldingsInit
<1> QED BY <1>1, RowsInvariant, HoldingsStep, PTL DEF Spec, StoreInv

\* What the requests ask and answer, as DocumentStore is instantiated with.
Asked   == [r \in Request |-> Question(r)]
Answers == [r \in Request |-> req[r].outcome]

\* The steps of DocumentStore, request by request.
LEMMA StoreKeeps ==
  ASSUME Asked' = Asked, Answers' = Answers, committed' = committed
  PROVE  UNCHANGED Store!store
BY DEF Store!store, Asked, Answers

Answered(r, outcome) ==
  /\ Asked' = Asked /\ Answers' = [Answers EXCEPT ![r] = outcome]
  /\ Asked[r] # Store!NotAsked /\ Answers[r] = "none"

LEMMA StoreAnswers ==
  ASSUME NEW r \in Request, NEW outcome, Answered(r, outcome)
  PROVE  Store!Answer(r, outcome)
BY DEF Answered, Store!Answer, Asked, Answers

LEMMA StoreEnds ==
  ASSUME NEW r \in Request, NEW outcome \in {"refused", "dead"}, Answered(r, outcome), committed' = committed
  PROVE  Store!End(r)
BY StoreAnswers DEF Store!End

CommitOne(r, n, version) == committed' = [committed EXCEPT ![n] = [version |-> version, by |-> r]]

LEMMA StoreCreates ==
  ASSUME NEW r \in Request, Answered(r, "ok"), Asked[r].verb = "POST",
         NEW n \in Name, NEW version \in Version, committed[n] = NoRow, version # 0, CommitOne(r, n, version)
  PROVE  Store!Create(r)
<1>1. Store!Answer(r, "ok")
  BY StoreAnswers
<1>2. Store!Write(r, n, version) /\ committed[n] = Store!Untaken
  BY DEF Store!Write, CommitOne, Store!Untaken, NoRow
<1>3. [q \in Request |-> Question(q)][r].verb = "POST"
  BY DEF Asked
<1> QED BY <1>1, <1>2, <1>3 DEF Store!Create

LEMMA StoreUpdates ==
  ASSUME NEW r \in Request, Answered(r, "ok"), Asked[r].verb = "PATCH",
         NEW n \in Name, Asked[r].name = n, NEW version \in Version,
         committed[n].version # 0, Asked[r].tag \in {0, committed[n].version},
         version > committed[n].version, CommitOne(r, n, version)
  PROVE  Store!Update(r)
<1>1. Store!Answer(r, "ok")
  BY StoreAnswers
<1>2. Store!Write(r, n, version)
  BY DEF Store!Write, CommitOne
<1>3. /\ [q \in Request |-> Question(q)][r].verb = "PATCH"
      /\ [q \in Request |-> Question(q)][r].name = n
      /\ Store!Agrees(r, committed[n].version)
  BY DEF Asked, Store!Agrees
<1> QED BY <1>1, <1>2, <1>3 DEF Store!Update

LEMMA StoreDeletes ==
  ASSUME NEW r \in Request, Answered(r, "ok"), Asked[r].verb = "DELETE",
         NEW n \in Name, Asked[r].name = n, Asked[r].seen # 0, Asked[r].tag \in {0, Asked[r].seen},
         CommitOne(r, n, 0)
  PROVE  Store!Delete(r)
<1>1. Store!Answer(r, "ok")
  BY StoreAnswers
<1>2. Store!Write(r, n, 0)
  BY DEF Store!Write, CommitOne
<1>3. /\ [q \in Request |-> Question(q)][r].verb = "DELETE"
      /\ [q \in Request |-> Question(q)][r].name = n
      /\ [q \in Request |-> Question(q)][r].seen # 0
      /\ Store!Agrees(r, [q \in Request |-> Question(q)][r].seen)
  BY DEF Asked, Store!Agrees
<1> QED BY <1>1, <1>2, <1>3 DEF Store!Delete

\* What a request asks is settled with its first step.
LEMMA QuestionStays ==
  ASSUME Typed, NEW r \in Request, Step(r), req[r].at # "idle"
  PROVE  /\ Asked' = Asked /\ Asked[r] # Store!NotAsked
         /\ Answers' = [Answers EXCEPT ![r] = req'[r].outcome]
         /\ Answers[r] = "none"
<1>0. TypeOK /\ Fresh
  BY DEF Typed
<1>1. \A q \in Request : q # r => req'[q] = req[q]
  BY <1>0, Others
<1>2. req'[r].at # "idle" /\ req[r].at # "done"
  BY <1>0, Places
<1>3. Question(r)' = Question(r)
  BY <1>0, <1>2, Keeps DEF Question
<1>4. \A q \in Request : Question(q)' = Question(q)
  BY <1>1, <1>3 DEF Question
<1>5. Asked' = Asked
  BY <1>4 DEF Asked
<1>6. Asked[r] # Store!NotAsked
  <2>1. Asked[r].verb = req[r].verb /\ req[r].verb # "none"
    BY <1>0, RequestTypes DEF Asked, Question, Verb
  <2>2. Store!NotAsked.verb = "none"
    BY DEF Store!NotAsked
  <2> QED BY <2>1, <2>2
<1>7. Answers' = [Answers EXCEPT ![r] = req'[r].outcome]
  BY <1>1 DEF Answers
<1>8. Answers[r] = "none"
  BY <1>0, <1>2 DEF Answers, Fresh
<1> QED BY <1>5, <1>6, <1>7, <1>8

LEMMA AnsweredBy ==
  ASSUME Typed, NEW r \in Request, Step(r), req[r].at # "idle", NEW outcome, req'[r].outcome = outcome
  PROVE  Answered(r, outcome)
BY QuestionStays DEF Answered

LEMMA SilentStep ==
  ASSUME Typed, NEW r \in Request, Step(r), req[r].at # "idle", req'[r].outcome = "none", committed' = committed
  PROVE  UNCHANGED Store!store
<1>1. Answers' = Answers /\ Asked' = Asked
  BY QuestionStays DEF Answers
<1> QED BY <1>1, StoreKeeps

LEMMA StartAsks ==
  ASSUME Typed, NEW r \in Request, NEW verb \in Verb, NEW n \in Name \cup {0}, NEW tag \in Version,
         Start(r, verb, n, tag)
  PROVE  Store!Ask(r)
<1>0. TypeOK /\ Fresh /\ req[r].at = "idle" /\ committed' = committed
  BY DEF Typed, Start
<1> DEFINE question == [verb |-> verb, name |-> n, tag |-> tag,
                        seen |-> IF verb = "POST" THEN 0 ELSE committed[n].version]
<1>1. \A q \in Request : q # r => req'[q] = req[q]
  BY <1>0 DEF Start, TypeOK
<1>2. Question(r)' = question
  BY <1>0, Starts DEF Question
<1>3. [q \in Request |-> Question(q)]' = [[q \in Request |-> Question(q)] EXCEPT ![r] = question]
  BY <1>1, <1>2 DEF Question
<1>4. req'[r].outcome = "none" /\ req[r].outcome = "none"
  BY <1>0, Starts DEF Fresh
<1>5. [q \in Request |-> req[q].outcome]' = [q \in Request |-> req[q].outcome]
  BY <1>1, <1>4
<1>6. [q \in Request |-> Question(q)][r] = Store!NotAsked
  BY <1>0 DEF Question, Store!NotAsked
<1>7. IF verb = "POST" THEN n = 0 /\ tag = 0 ELSE n # 0
  BY DEF Start, Name
<1>8. verb \in {"POST", "PATCH", "DELETE"}
  BY DEF Verb
<1> QED BY <1>0, <1>3, <1>5, <1>6, <1>7, <1>8 DEF Store!Ask

\* What is committed at once is the row that the request holds.
LEMMA CommitsOne ==
  ASSUME Typed, NEW r \in Request, Commit(r), NEW n \in Name, HoldsOnly(r, n), row[n].by = r
  PROVE  CommitOne(r, n, row[n].version)
<1>1. row[n] = [version |-> row[n].version, by |-> r]
  BY DEF Typed, TypeOK, RowType
<1>2. committed' = [m \in Name |-> IF m = n THEN row[n] ELSE committed[m]]
  BY DEF Commit, Held, HoldsOnly
<1>3. committed' = [committed EXCEPT ![n] = row[n]]
  BY <1>2 DEF Typed, TypeOK
<1> QED BY <1>1, <1>3 DEF CommitOne

LEMMA CommitStores ==
  ASSUME StoreInv, NEW r \in Request, Commit(r)
  PROVE  Store!Create(r) \/ Store!Update(r) \/ Store!Delete(r)
<1>0. Typed /\ TypeOK /\ req[r].at = "written" /\ Step(r)
  BY DEF StoreInv, Typed, Commit, Step
<1>1. PICK n \in Name : HoldsOnly(r, n) /\ Permitted(r, n)
  BY <1>0 DEF StoreInv, HoldingsOK, Holding
<1>2. CommitOne(r, n, row[n].version)
  BY <1>0, <1>1, CommitsOne DEF Permitted
<1>3. Answered(r, "ok")
  <2>1. req'[r].outcome = "ok"
    BY <1>0 DEF Commit, Finish, TypeOK, RequestType
  <2> QED BY <1>0, <2>1, AnsweredBy
<1>4. Asked[r] = [verb |-> req[r].verb, name |-> req[r].name, tag |-> req[r].tag, seen |-> req[r].seen]
  BY <1>0 DEF Asked, Question
<1>5. row[n].version \in Version /\ req[r].verb \in Verb
  BY <1>0, RowTypes, RequestTypes
<1>6. CASE req[r].verb = "POST"
  BY <1>1, <1>2, <1>3, <1>4, <1>5, <1>6, StoreCreates DEF Permitted
<1>7. CASE req[r].verb = "PATCH"
  BY <1>1, <1>2, <1>3, <1>4, <1>5, <1>7, StoreUpdates DEF Permitted
<1>8. CASE req[r].verb = "DELETE"
  BY <1>1, <1>2, <1>3, <1>4, <1>5, <1>8, StoreDeletes DEF Permitted
<1> QED BY <1>5, <1>6, <1>7, <1>8 DEF Verb

\* Every step is one of DocumentStore or changes nothing that clients see.
LEMMA StoreStep == StoreInv /\ [Next]_vars => [Store!Next]_(Store!store)
<1> SUFFICES ASSUME StoreInv, [Next]_vars PROVE Store!Next \/ UNCHANGED Store!store
  OBVIOUS
<1>0. Typed /\ TypeOK /\ Fresh
  BY DEF StoreInv, Typed
<1>1. CASE Environment
  <2>1. Asked' = Asked /\ Answers' = Answers /\ committed' = committed
    BY <1>1, EnvironmentKeeps DEF Asked, Answers, Question
  <2> QED BY <2>1, StoreKeeps
<1>2. ASSUME NEW r \in Request, Step(r) PROVE Store!Next \/ UNCHANGED Store!store
  <2>1. CASE req[r].at = "idle"
    <3>1. PICK verb \in Verb, n \in Name \cup {0}, tag \in Version : Start(r, verb, n, tag)
      BY <1>2, <2>1, Begins
    <3> QED BY <1>0, <3>1, StartAsks DEF Store!Next
  <2>2. CASE req[r].at # "idle" /\ (LookCache(r) \/ StoreCache(r))
    <3>1. committed' = committed
      BY <2>2 DEF LookCache, StoreCache
    <3>2. req'[r].outcome \in {"none", "refused"}
      <4>1. req[r].outcome = "none"
        BY <1>0, <2>2 DEF Fresh, LookCache, StoreCache
      <4>2. CASE LookCache(r)
        <5>1. CASE cache.until = 0
          BY <1>0, <4>1, <4>2, <5>1 DEF LookCache, TypeOK, RequestType
        <5>2. CASE cache.until # 0
          BY <1>0, <4>2, <5>2 DEF LookCache, Routed, TypeOK, RequestType
        <5> QED BY <5>1, <5>2
      <4>3. CASE StoreCache(r)
        BY <1>0, <4>3 DEF StoreCache, Routed, TypeOK, RequestType
      <4> QED BY <2>2, <4>2, <4>3
    <3>3. CASE req'[r].outcome = "none"
      BY <1>0, <1>2, <2>2, <3>1, <3>3, SilentStep
    <3>4. CASE req'[r].outcome = "refused"
      <4>1. Answered(r, "refused")
        BY <1>0, <1>2, <2>2, <3>4, AnsweredBy
      <4> QED BY <3>1, <4>1, StoreEnds DEF Store!Next
    <3> QED BY <3>2, <3>3, <3>4
  <2>3. CASE req[r].at # "idle" /\ (Insert(r) \/ LockRow(r) \/ Save(r) \/ CheckDelete(r) \/ EraseRow(r))
    <3>1. committed' = committed
      BY <2>3 DEF Insert, LockRow, Save, CheckDelete, EraseRow
    <3>2. req[r].outcome = "none"
      BY <1>0, <2>3 DEF Fresh, Insert, LockRow, Save, CheckDelete, EraseRow
    <3>3. req'[r].outcome = "none"
      BY <1>0, <2>3, <3>2 DEF Insert, LockRow, Save, CheckDelete, EraseRow, TypeOK, RequestType
    <3> QED BY <1>0, <1>2, <2>3, <3>1, <3>3, SilentStep
  <2>4. CASE req[r].at # "idle" /\ (Refuse(r) \/ Die(r))
    <3>1. committed' = committed /\ req'[r].outcome \in {"refused", "dead"}
      BY <1>0, <2>4 DEF Refuse, Die, Finish, TypeOK, RequestType
    <3>2. Answered(r, req'[r].outcome)
      BY <1>0, <1>2, <2>4, AnsweredBy
    <3> QED BY <3>1, <3>2, StoreEnds DEF Store!Next
  <2>5. CASE Commit(r)
    BY <2>5, CommitStores DEF Store!Next
  <2> QED BY <1>2, <2>1, <2>2, <2>3, <2>4, <2>5, Operates DEF Operation
<1> QED BY <1>1, <1>2 DEF Next, Environment

\* The requests implement DocumentStore, for any number of requests, rows and
\* versions: whatever is answered "ok" has happened to one document at once,
\* an update to the document that its If-Match was compared with, and nothing
\* else has happened to any.
THEOREM RequestsImplementStore == Spec => StoreSpec
<1>1. Init => Store!Init
  <2> SUFFICES ASSUME Init PROVE Store!Init
    OBVIOUS
  <2>1. committed \in [Name -> [version : Version, by : {NoRequest}]]
    BY DEF Init, NoRow, Name, Version
  <2>2. \A r \in Request : req[r].at = "idle" /\ req[r].outcome = "none"
    BY DEF Init, Waiting
  <2> QED BY <2>1, <2>2 DEF Store!Init, Store!NotAsked, Question
<1> QED BY <1>1, StoreInvariant, StoreStep, PTL DEF Spec, StoreSpec, Store!Spec

=============================================================================
