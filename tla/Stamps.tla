------------------------------- MODULE Stamps -------------------------------
(***************************************************************************)
(* The time stamps of adverts, login replies, welcomes and console replies *)
(* (mesh/clock.py, UniqueClock; room/server.py, _send_cli_reply): the wall *)
(* clock, stepped on where it repeats or falls back.  Two packets of one   *)
(* payload and one stamp are one packet to the mesh, which suppresses the  *)
(* second.  The clock is the process's, and all its rooms share it.        *)
(*                                                                         *)
(* An operator Bug_... is a plausible error in the operator that follows   *)
(* it: the properties are tested against it.                               *)
(***************************************************************************)
EXTENDS Naturals, FiniteSets

CONSTANTS MaxWall, MaxStamps   \* bounds: the clock, the packets stamped

ASSUME StampsAssumption == MaxWall \in Nat \ {0} /\ MaxStamps \in Nat

VARIABLES
  wall,         \* wall-clock seconds
  lastUnique,   \* _last_unique
  used,         \* every stamp given to a packet (history)
  moved,        \* those given to a reply that would have had its request's (history)
  earlier       \* those an earlier process gave (history)

stampVars == <<wall, lastUnique, used, moved, earlier>>

(* unique_now                                                              *)
Bug_WallOnly == wall
Unique == IF wall > lastUnique THEN wall ELSE lastUnique + 1

StampPacket ==
  /\ Cardinality(used) < MaxStamps
  /\ lastUnique' = Unique /\ used' = used \cup {Unique}
  /\ UNCHANGED <<wall, moved, earlier>>

(* _send_cli_reply: a reply does not carry its request's stamp; the clock  *)
(* does not learn of the one it has instead.                               *)
StampReply(request) ==
  /\ Cardinality(used) < MaxStamps
  /\ lastUnique' = Unique
  /\ IF Unique = request
     THEN used' = used \cup {Unique + 1} /\ moved' = moved \cup {Unique + 1}
     ELSE used' = used \cup {Unique} /\ UNCHANGED moved
  /\ UNCHANGED <<wall, earlier>>

Second == wall < MaxWall /\ wall' = wall + 1 /\ UNCHANGED <<lastUnique, used, moved, earlier>>

SetBack ==
  /\ \E t \in 1..(wall - 1) : wall' = t
  /\ UNCHANGED <<lastUnique, used, moved, earlier>>

(* A new process has a new clock.                                          *)
NewProcess == lastUnique' = 0 /\ earlier' = used /\ UNCHANGED <<wall, used, moved>>

StampInit == wall = 1 /\ lastUnique = 0 /\ used = {} /\ moved = {} /\ earlier = {}

StampNext ==
  \/ StampPacket \/ Second \/ SetBack \/ NewProcess
  \/ \E request \in 1..MaxWall : StampReply(request)

StampSpec == StampInit /\ [][StampNext]_stampVars

---------------------------------------------------------------------------
(* Properties                                                              *)

(* The stamp a packet takes: none of the other steps moves lastUnique up.  *)
Takes(s) ==
  \/ StampPacket /\ s = Unique
  \/ \E request \in 1..MaxWall :
       StampReply(request) /\ s = IF Unique = request THEN Unique + 1 ELSE Unique

(* Safety: no two packets have one stamp, in one process or the next,      *)
(* whatever the wall clock does, but for two cases: the stamp was a moved  *)
(* reply's, or the wall clock is not past every stamp of an earlier        *)
(* process, which a new one does not know.                                 *)
StampsFresh ==
  [][\A s \in used : Takes(s) => s \in moved \/ \E e \in earlier : wall <= e]_stampVars
=============================================================================
