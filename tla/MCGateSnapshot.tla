--------------------------- MODULE MCGateSnapshot ---------------------------
(* GateSnapshot with two threads, a snapshot that is old after two ticks    *)
(* and a clock that runs through two of its lives and a half.               *)
EXTENDS GateSnapshot, TLC

CONSTANTS t1, t2

\* The threads are interchangeable, and only invariants are checked.
Symmetric == Permutations(Thread)

=============================================================================
