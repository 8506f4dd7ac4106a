------------------------ MODULE MCPermittedBroadcast ------------------------
(* PermittedBroadcast with three connections of two users, documents that   *)
(* pass the one filter there is or do not, and one running broadcast.       *)
EXTENDS PermittedBroadcast, TLC

CONSTANTS c1, c2, c3, u1, u2, d1, d2, b1

MCUserOf == c1 :> u1 @@ c2 :> u1 @@ c3 :> u2

\* No filter, and a filter that only lets d1 through.
MCClauses == {{d1, d2}, {d1}}

=============================================================================
