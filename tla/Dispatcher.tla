----------------------------- MODULE Dispatcher -----------------------------
(***************************************************************************)
(* The dispatcher (mesh/dispatcher.py) between the rooms of one companion  *)
(* node and the mesh, with its table of seen packets.                      *)
(*                                                                         *)
(* Packets are heard one at a time: dispatch offers a packet to one room   *)
(* after the other and awaits each, and takes no other packet meanwhile.   *)
(* While it waits time passes, and the rooms send.                         *)
(*                                                                         *)
(* The mesh is what the table is made for: every packet is heard again and *)
(* again, from repeater after repeater, our own included.  Copies live     *)
(* EchoMax after the packet was last transmitted or heard, time in the     *)
(* link's queue of received packets included ("longer than any flood takes *)
(* to die out", DEFAULT_TTL_SECONDS).  The link's outbound queue is        *)
(* abstracted to what matters here: a packet leaves it at any time until   *)
(* it has expired, and may leave it twice (a failed write).                *)
(*                                                                         *)
(* Left out: bytes (a packet that does not decode is dropped before it     *)
(* touches the table), the counters of RadioStats, priorities.             *)
(*                                                                         *)
(* An operator Bug_... is a plausible error in the operator that follows   *)
(* it: the properties are tested against it.                               *)
(***************************************************************************)
EXTENDS SeenTable, FiniteSets

CONSTANTS Packets,
          NoPacket,
          Own,        \* those our rooms send
          KindOf,     \* [Packets -> Kinds]
          DestOf,     \* [Packets -> node hashes]
          Rooms,      \* _rooms: the rooms of the node, in order
          HashOf,     \* the node hash of each room
          Claimants,  \* [Packets -> sets of rooms that would claim it]
          SendTtl,    \* how long a packet may wait to be transmitted
          EchoMax,    \* how long after it was transmitted or heard a packet is heard
          MaxNow,     \* bound: the clock
          MaxMarks    \* bound: packets sent or heard

Kinds == {"ACK", "addressed", "other"}
RoomSet == {Rooms[i] : i \in 1..Len(Rooms)}

ASSUME DispatcherAssumption ==
  /\ NoPacket \notin Packets /\ Own \subseteq Packets /\ Rooms \in Seq(RoomSet)
  /\ KindOf \in [Packets -> Kinds]
  /\ Claimants \in [Packets -> SUBSET RoomSet]
  /\ \A p \in Packets : /\ KindOf[p] = "addressed" =>
                             \A r \in Claimants[p] : HashOf[r] = DestOf[p]
                        /\ p \in Own \/ KindOf[p] = "other" => Claimants[p] = {}

(* What makes the table long enough: the longest way from a packet's mark  *)
(* to the next time it is heard is shorter than an entry lives.            *)
ASSUME TimingAssumption ==
  /\ SendTtl \in Nat /\ EchoMax \in Nat /\ MaxNow \in Nat /\ MaxMarks \in Nat
  /\ SendTtl + EchoMax < Ttl

Idle == [packet |-> NoPacket, rooms |-> {}]

VARIABLES
  now,
  table,      \* the entries of _seen
  outbound,   \* packets the link has yet to transmit
  until,      \* until when copies of a packet are around; 0 if none
  turn,       \* the packet that is offered, the places in Rooms it is yet offered to
  marks,      \* every mark of a packet, in order (history, never read)
  claimed     \* who claimed which packet (history, never read)

vars == <<now, table, outbound, until, turn, marks, claimed>>

TypeOK ==
  /\ now \in Nat
  /\ table \in Seq(Entries(Packets)) /\ Len(table) <= Capacity
  /\ outbound \subseteq [packet : Own, expires : Nat]
  /\ until \in [Packets -> Nat]
  /\ turn = Idle \/ turn \in [packet : Packets, rooms : (SUBSET (1..Len(Rooms))) \ {{}}]
  /\ marks \in Seq(Entries(Packets))
  /\ claimed \subseteq Packets \X RoomSet

---------------------------------------------------------------------------
(* The dispatcher                                                          *)

Marked(packet) ==
  /\ Len(marks) < MaxMarks
  /\ marks' = Append(marks, [packet |-> packet, at |-> now])

(* The rooms of a node hash, several if they collide on it.                *)
Bug_LastOnly(hash) ==
  {i \in 1..Len(Rooms) : HashOf[Rooms[i]] = hash /\ \A j \in (i + 1)..Len(Rooms) :
                                                       HashOf[Rooms[j]] # hash}
ByHash(hash) == {i \in 1..Len(Rooms) : HashOf[Rooms[i]] = hash}

Candidates(packet) ==
  CASE KindOf[packet] = "ACK" -> 1..Len(Rooms)
    [] KindOf[packet] = "addressed" -> ByHash(DestOf[packet])
    [] KindOf[packet] = "other" -> {}

(* send: the packet is marked before it is queued, so that its echo, which *)
(* may come at once, is known.                                             *)
Bug_NotMarked(packet) == table
MarkedToSend(packet) == Mark(table, packet, now)

Send(packet) ==
  /\ packet \in Own
  /\ Marked(packet)
  /\ table' = MarkedToSend(packet)
  /\ outbound' = outbound \cup {[packet |-> packet, expires |-> now + SendTtl]}
  /\ UNCHANGED <<now, until, turn, claimed>>

(* dispatch: a packet that was seen is only marked again.                  *)
Dispatch(packet) ==
  /\ turn = Idle
  /\ now <= until[packet] /\ until' = [until EXCEPT ![packet] = now + EchoMax]
  /\ Marked(packet)
  /\ table' = Mark(table, packet, now)
  /\ turn' = IF Seen(table, packet, now) \/ Candidates(packet) = {}
             THEN Idle
             ELSE [packet |-> packet, rooms |-> Candidates(packet)]
  /\ UNCHANGED <<now, outbound, claimed>>

(* _route: the room that is awaited claims the packet or the next is tried. *)
First(places) == CHOOSE i \in places : \A j \in places : i <= j

Offer ==
  /\ turn # Idle
  /\ LET next == First(turn.rooms)
         rest == turn.rooms \ {next}
     IN  \/ /\ Rooms[next] \in Claimants[turn.packet]
            /\ claimed' = claimed \cup {<<turn.packet, Rooms[next]>>}
            /\ turn' = Idle
         \/ /\ Rooms[next] \notin Claimants[turn.packet]
            /\ turn' = IF rest = {} THEN Idle ELSE [turn EXCEPT !.rooms = rest]
            /\ UNCHANGED claimed
  /\ UNCHANGED <<now, table, outbound, until, marks>>

---------------------------------------------------------------------------
(* The link, the mesh and the clock                                        *)

(* _send_loop: an item may stay, when its write fails half way.            *)
Transmit(item) ==
  /\ item \in outbound /\ now <= item.expires
  /\ outbound' \in {outbound, outbound \ {item}}
  /\ until' = [until EXCEPT ![item.packet] = now + EchoMax]
  /\ UNCHANGED <<now, table, turn, marks, claimed>>

Drop(item) ==
  /\ item \in outbound /\ now > item.expires
  /\ outbound' = outbound \ {item}
  /\ UNCHANGED <<now, table, until, turn, marks, claimed>>

(* Another node sends a packet, once: a packet is dated or random.         *)
Originate(packet) ==
  /\ packet \notin Own /\ until[packet] = 0
  /\ until' = [until EXCEPT ![packet] = now + EchoMax]
  /\ UNCHANGED <<now, table, outbound, turn, marks, claimed>>

Tick ==
  /\ now < MaxNow /\ now' = now + 1
  /\ UNCHANGED <<table, outbound, until, turn, marks, claimed>>

(* The clock starts at 1: until[packet] = 0 says never.                    *)
Init ==
  /\ now = 1 /\ table = <<>> /\ outbound = {} /\ until = [p \in Packets |-> 0]
  /\ turn = Idle /\ marks = <<>> /\ claimed = {}

Next ==
  \/ \E p \in Packets : Send(p) \/ Dispatch(p) \/ Originate(p)
  \/ Offer \/ Tick
  \/ \E item \in outbound : Transmit(item) \/ Drop(item)

Spec == Init /\ [][Next]_vars

---------------------------------------------------------------------------
(* Properties                                                              *)

LastMark(packet) == {i \in 1..Len(marks) : /\ marks[i].packet = packet
                                            /\ \A j \in (i + 1)..Len(marks) :
                                                 marks[j].packet # packet}

(* At least so many other packets were marked after a packet was last.     *)
Outnumbered(packet) ==
  \E i \in LastMark(packet) :
    Cardinality({marks[j].packet : j \in (i + 1)..Len(marks)}) >= Capacity

(* Safety: the table, which is expired only when it is used, whose entries *)
(* move and are evicted, says of every packet at any time what the whole   *)
(* history says: it was last heard or sent less than Ttl ago and fewer     *)
(* than Capacity other packets were since (SeenTable).                     *)
TableIsWindow ==
  \A p \in Packets :
    Seen(table, p, now) <=> /\ \E i \in LastMark(p) : marks[i].at + Ttl > now
                            /\ ~Outnumbered(p)

(* Action: a packet is offered to rooms once, and our own never, however   *)
(* long it circulates, unless Capacity others were heard or sent since it  *)
(* last was: "a packet still circulating never falls out of the table"     *)
(* (mark), "the echo can arrive while send_packet is still awaiting"       *)
(* (send).                                                                 *)
HandledOnce ==
  [][\A p \in Packets :
       turn = Idle /\ turn' # Idle /\ turn'.packet = p =>
         LastMark(p) = {} \/ Outnumbered(p)]_vars

(* Safety: when dispatch is done with a packet that our rooms can decrypt  *)
(* or await, the first of them has claimed it, and no other, also when     *)
(* rooms collide on their node hash (_candidates, _route).                 *)
RightRoomClaims ==
  \A p \in Packets :
    LastMark(p) # {} /\ turn.packet # p =>
      \A r \in RoomSet :
        <<p, r>> \in claimed <=>
          \E i \in 1..Len(Rooms) : /\ r = Rooms[i] /\ r \in Claimants[p]
                                   /\ \A j \in 1..(i - 1) : Rooms[j] \notin Claimants[p]
=============================================================================
