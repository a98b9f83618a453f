----------------------------- MODULE SeenTable -----------------------------
(***************************************************************************)
(* The table of packets heard or sent lately (mesh/dedupe.py): a sequence  *)
(* of [packet, at] entries, the oldest first.                              *)
(*                                                                         *)
(* The table is not concurrent: no method awaits.  A packet stands for its *)
(* 8-byte hash, which a packet has whatever route it comes by.             *)
(*                                                                         *)
(* An operator Bug_... is a plausible error in the operator that follows   *)
(* it: the properties are tested against it.                               *)
(***************************************************************************)
EXTENDS Naturals, Sequences

CONSTANTS Ttl, Capacity
ASSUME TableAssumption == Ttl \in Nat \ {0} /\ Capacity \in Nat \ {0}

Entries(packets) == [packet : packets, at : Nat]

Holds(table, packet) == \E i \in 1..Len(table) : table[i].packet = packet

(* _expire: stale entries leave from the front, up to the first that is    *)
(* not stale.                                                              *)
Fresh(at, now) == at + Ttl > now

FirstFresh(table, now, i) ==
  /\ \A j \in 1..(i - 1) : ~Fresh(table[j].at, now)
  /\ i <= Len(table) => Fresh(table[i].at, now)

Expired(table, now) ==
  SubSeq(table, CHOOSE i \in 1..(Len(table) + 1) : FirstFresh(table, now, i), Len(table))

(* mark: an entry that was there moves to the end.                         *)
Bug_PlaceKept(table, packet, now) ==
  IF Holds(table, packet) THEN table ELSE Append(table, [packet |-> packet, at |-> now])
Without(table, packet) ==
  IF Holds(table, packet)
  THEN LET i == CHOOSE i \in 1..Len(table) : table[i].packet = packet
       IN  SubSeq(table, 1, i - 1) \o SubSeq(table, i + 1, Len(table))
  ELSE table
Refreshed(table, packet, now) ==
  Append(Without(table, packet), [packet |-> packet, at |-> now])

Bug_NotBounded(table) == table
Evicted(table) ==
  IF Len(table) > Capacity THEN SubSeq(table, Len(table) - Capacity + 1, Len(table)) ELSE table

Mark(table, packet, now) == Evicted(Refreshed(Expired(table, now), packet, now))

(* The first half of check_and_mark; the other is Mark.                    *)
Seen(table, packet, now) == Holds(Expired(table, now), packet)
=============================================================================
