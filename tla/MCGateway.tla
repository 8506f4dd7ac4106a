------------------------------- MODULE MCGateway -------------------------------
(***************************************************************************)
(* The gateway for TLC: its functions, on the calls of MCGatewayCalls, and *)
(* its requests, in three parts: the exposure of their DocType, writes     *)
(* that meet on one row, and writes beside a client that pages.            *)
(***************************************************************************)
EXTENDS GatewayRequests, MCGatewayCalls, TLC

\* Lists: newest first, of which rows 2 and 3 were created at once; newest
\* first of the rows that meet a condition, which version 5 does not; and the
\* latest change first.
MCListing ==
  LET list(meets, place(_, _)) == [meets |-> meets, place |-> [n \in Name |-> [v \in Version |-> place(n, v)]]] IN
  {list(1..MaxVersion, LAMBDA n, v : 0 - (n \div 2)), list((1..MaxVersion) \ {5}, LAMBDA n, v : 0 - n),
   list(1..MaxVersion, LAMBDA n, v : 0 - v)}

MCInit ==
  /\ Init
  /\ \/ call \in [about : {"exposure", "rows", "pages"}]
     \/ exposed /\ Sampled
  /\ call.about = "pages" \/ 5 \notin walk.list.meets

MCNext ==
  /\ Next
  /\ \/ call.about = "exposure" /\ UNCHANGED <<row, walk>>
                                /\ \A r \in Request : req'[r].verb = "POST" /\ req'[r].outcome \in {"none", "refused"}
     \/ call.about = "rows"     /\ UNCHANGED <<clock, save, walk>>
     \/ call.about = "pages"    /\ UNCHANGED <<clock, save>>
  /\ UNCHANGED call

Symmetric == Permutations(Request)

MCSpec == MCInit /\ [][MCNext]_<<vars, call>>

=============================================================================
