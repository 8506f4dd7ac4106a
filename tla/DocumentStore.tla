----------------------------- MODULE DocumentStore -----------------------------
(***************************************************************************)
(* What the documents of the gateway promise, without transactions, locks, *)
(* settings and caches: each request is answered once; a request that is   *)
(* answered "ok" has changed one document, in one step, to a version that  *)
(* document never had; every other request has changed nothing.  An update *)
(* compares its If-Match with the document that it replaces.  A deletion   *)
(* compares with the document as it was when the request came, and removes *)
(* whatever is there by now.  GatewayRequests implements it.               *)
(***************************************************************************)
EXTENDS Integers

CONSTANTS
  Request,    \* requests
  NoRequest,  \* the author of a document that no request has written
  Name,       \* names of documents, positive numbers
  Version     \* versions, from 0: a document of version 0 is not there

VARIABLES
  document,   \* document[n]: its version, and the request that wrote it
  asked,      \* asked[r]: what r asks for, and the version that was there then
  answer      \* answer[r]: "none" until r is answered

store == <<document, asked, answer>>

NotAsked == [verb |-> "none", name |-> 0, tag |-> 0, seen |-> 0]
Untaken  == [version |-> 0, by |-> NoRequest]

Init ==
  /\ document \in [Name -> [version : Version, by : {NoRequest}]]
  /\ asked    = [r \in Request |-> NotAsked]
  /\ answer   = [r \in Request |-> "none"]

Answer(r, outcome) ==
  /\ asked[r] # NotAsked /\ answer[r] = "none"
  /\ answer' = [answer EXCEPT ![r] = outcome]
  /\ UNCHANGED asked

Write(r, n, version) == document' = [document EXCEPT ![n] = [version |-> version, by |-> r]]

\* If-Match: no header, or the ETag of this version.
Agrees(r, version) == asked[r].tag \in {0, version}

Ask(r) ==
  /\ asked[r] = NotAsked
  /\ \E verb \in {"POST", "PATCH", "DELETE"}, n \in Name \cup {0}, tag \in Version :
       /\ IF verb = "POST" THEN n = 0 /\ tag = 0 ELSE n # 0
       /\ asked' = [asked EXCEPT ![r] = [verb |-> verb, name |-> n, tag |-> tag,
                       seen |-> IF verb = "POST" THEN 0 ELSE document[n].version]]
  /\ UNCHANGED <<document, answer>>

\* A name is given once.
Create(r) ==
  /\ asked[r].verb = "POST" /\ Answer(r, "ok")
  /\ \E n \in Name, version \in Version :
       /\ document[n] = Untaken /\ version # 0
       /\ Write(r, n, version)

Update(r) ==
  LET n == asked[r].name IN
  /\ asked[r].verb = "PATCH" /\ Answer(r, "ok")
  /\ document[n].version # 0 /\ Agrees(r, document[n].version)
  /\ \E version \in Version : version > document[n].version /\ Write(r, n, version)

Delete(r) ==
  /\ asked[r].verb = "DELETE" /\ Answer(r, "ok")
  /\ asked[r].seen # 0 /\ Agrees(r, asked[r].seen)
  /\ Write(r, asked[r].name, 0)

\* An error is answered, or the client is left without an answer.
End(r) ==
  /\ \E outcome \in {"refused", "dead"} : Answer(r, outcome)
  /\ UNCHANGED document

Next == \E r \in Request : Ask(r) \/ Create(r) \/ Update(r) \/ Delete(r) \/ End(r)

Spec == Init /\ [][Next]_store

================================================================================
