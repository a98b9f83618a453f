------------------------------ MODULE MCReload ------------------------------
(* A small instance of Reload: the process was started with one of the two *)
(* variables the env file may set.                                         *)
EXTENDS Reload

CONSTANTS inherited, added, v1, v2

StartedWith == [n \in Names |-> IF n = inherited THEN v1 ELSE Unset]
=============================================================================
