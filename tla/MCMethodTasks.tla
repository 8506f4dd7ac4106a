---------------------------- MODULE MCMethodTasks ----------------------------
(* Small instances of MethodTasks for TLC.                                 *)
EXTENDS MethodTasks

CONSTANTS s1, j1, j2

OneServer == [j \in Job |-> s1]
=============================================================================
