------------------------------ MODULE UnitsOfWork ------------------------------
(***************************************************************************)
(* What the executor of Frappe promises, without tasks, threads, sessions  *)
(* and transactions: each unit of work is done in one step, at most once,  *)
(* and returns only if it was done.  One that raises may have been done,   *)
(* when the error came after the commit.  The server may stop and drop     *)
(* units that were not begun.  MethodExecution implements it.              *)
(***************************************************************************)

CONSTANT Unit

VARIABLES
  asked,  \* the units that were asked for
  done,   \* the units that are in the database
  ended   \* ended[u]: "none", or how u has ended

work == <<asked, done, ended>>

Open(u) == u \in asked /\ ended[u] = "none"

Init ==
  /\ asked = {}
  /\ done  = {}
  /\ ended = [u \in Unit |-> "none"]

Ask(u) ==
  /\ u \notin asked
  /\ asked' = asked \cup {u}
  /\ UNCHANGED <<done, ended>>

Do(u) ==
  /\ Open(u) /\ u \notin done
  /\ done' = done \cup {u}
  /\ UNCHANGED <<asked, ended>>

End(u) ==
  /\ Open(u)
  /\ \E how \in {"returned", "raised"} :
       /\ how = "returned" => u \in done
       /\ ended' = [ended EXCEPT ![u] = how]
  /\ UNCHANGED <<asked, done>>

Drop ==
  /\ \E units \in SUBSET (asked \ done) :
       /\ \A u \in units : Open(u)
       /\ ended' = [u \in Unit |-> IF u \in units THEN "dropped" ELSE ended[u]]
  /\ UNCHANGED <<asked, done>>

Next == Drop \/ \E u \in Unit : Ask(u) \/ Do(u) \/ End(u)

Spec == Init /\ [][Next]_work

================================================================================
