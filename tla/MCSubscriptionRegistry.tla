----------------------- MODULE MCSubscriptionRegistry -----------------------
(* Small instances of SubscriptionRegistry for TLC.                        *)
EXTENDS SubscriptionRegistry, TLC

CONSTANTS s1, s2, c1, c2, c3, t1, t2

\* Every sid on one server process.
OneServerHome == [c \in Sid |-> s1]

\* The first sid on a server process of its own.
TwoServerHome == [c \in Sid |-> IF c = c1 THEN s1 ELSE s2]

TargetSymmetry == Permutations(Target)
OneServerSymmetry == Permutations(Sid) \cup Permutations(Target)
=============================================================================
