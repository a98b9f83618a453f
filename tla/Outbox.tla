------------------------------- MODULE Outbox -------------------------------
(***************************************************************************)
(* What CompanionLink promises of the packets given to send_packet: they   *)
(* wait in the order they were given ("if the link is down the packet      *)
(* waits, which is the point", send_packet), and one leaves only from the  *)
(* head of the queue, after it was handed to a transport or after its time *)
(* to live.  A packet may be handed over more than once: nothing here says *)
(* what a connection is.  The packets are numbered as they are given.      *)
(***************************************************************************)
EXTENDS Naturals, Sequences

VARIABLES given,    \* the number of packets given to send_packet
          waiting,  \* the packets that wait, oldest first
          handed,   \* the packets handed to a transport, at least once
          late      \* the packets whose time to live has passed

outbox == <<given, waiting, handed, late>>

Init == given = 0 /\ waiting = <<>> /\ handed = {} /\ late = {}

Give ==
  /\ given' = given + 1 /\ waiting' = Append(waiting, given + 1)
  /\ UNCHANGED <<handed, late>>

Hand ==
  /\ waiting # <<>> /\ handed' = handed \cup {Head(waiting)}
  /\ UNCHANGED <<given, waiting, late>>

Age(p) ==
  /\ p \in 1..given /\ late' = late \cup {p}
  /\ UNCHANGED <<given, waiting, handed>>

Leave ==
  /\ waiting # <<>> /\ Head(waiting) \in handed \cup late
  /\ waiting' = Tail(waiting)
  /\ UNCHANGED <<given, handed, late>>

Next == Give \/ Hand \/ (\E p \in 1..given : Age(p)) \/ Leave

Spec == Init /\ [][Next]_outbox

---------------------------------------------------------------------------
(* Safety: the packets that wait are the newest ones, in the order they    *)
(* were given, and every older one was handed over or came too late: none  *)
(* is lost, and none overtakes another (send_packet, _send_loop).          *)
NothingLost ==
  /\ Len(waiting) <= given
  /\ \A i \in 1..Len(waiting) : waiting[i] = given - Len(waiting) + i
  /\ 1..(given - Len(waiting)) \subseteq handed \cup late
=============================================================================
