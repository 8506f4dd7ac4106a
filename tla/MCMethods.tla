------------------------------ MODULE MCMethods ------------------------------
(***************************************************************************)
(* The method namespace for TLC, in two parts that share nothing: calls of *)
(* method:enqueue with their jobs, and calls of method:execute with the    *)
(* threads of the executor.                                                *)
(***************************************************************************)
EXTENDS MCMethodTasks, MethodExecution, TLC

CONSTANTS c1, c2, u1, u2, t1, t2, a1, a2, b1

VARIABLE part

MCUserOf == (c1 :> u1) @@ (c2 :> u2)

\* The first call may have two units, one after the other or at once.
MCCallOf == (a1 :> c1) @@ (a2 :> c1) @@ (b1 :> c2)

MCInit == Init /\ ExecutionInit /\ part \in {"enqueue", "execute"}

MCNext ==
  /\ \/ part = "enqueue" /\ Next /\ UNCHANGED executions
     \/ part = "execute" /\ ExecutionNext /\ UNCHANGED vars
  /\ UNCHANGED part

MCSpec == MCInit /\ [][MCNext]_<<vars, executions, part>> /\ Fairness

=============================================================================
