-------------------------- MODULE MCDocEventBridge --------------------------
(* DocEventBridge with two transactions, of handlers or of other processes. *)
EXTENDS DocEventBridge, TLC

CONSTANTS s1, s2, d1, d2, w1, w2

\* Only invariants are checked.
Symmetric == Permutations(Server) \cup Permutations(Writer) \cup Permutations(Doc)

=============================================================================
