--------------------------- MODULE MCApplication ---------------------------
(* A small instance of Application: two rooms, two data directories; of    *)
(* two key_file settings one is absolute and one is relative.  The process *)
(* was started with one of the two variables the env file may set.         *)
EXTENDS Application

CONSTANTS inherited, added, v1, absolute, relative, d1, d2, f1, f2, f3

Paths ==
  [d \in DataDirs |-> [name \in KeyNames |->
     IF name = absolute THEN f1 ELSE IF d = d1 THEN f2 ELSE f3]]

StartedWith == [n \in Names |-> IF n = inherited THEN v1 ELSE Unset]

(* The first start finds a configuration of both rooms on two key files in *)
(* one directory, and an env file that sets the other variable.            *)
MCInit ==
  /\ AppInit
  /\ config.rooms = Rooms
  /\ envFile = [n \in Names |-> IF n = added THEN v1 ELSE Unset]
  /\ \A r, s \in Rooms : r # s => keyOf[r] # keyOf[s]
  /\ keyOf[CHOOSE r \in Rooms : TRUE] = absolute  \* only names differ
  /\ dataDir = d1

MCSpec == MCInit /\ [][AppNext]_allVars /\ AppFairness
=============================================================================
