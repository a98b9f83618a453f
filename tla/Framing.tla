------------------------------ MODULE Framing -------------------------------
(***************************************************************************)
(* How frames are cut out of the bytes of a serial or TCP stream           *)
(* (transport/framing.py, read_frame; transport/base.py, _pump): a marker, *)
(* two bytes of length, the lowest first, and a body.  A node emits other  *)
(* bytes before and between its frames, and a marker among them starts a   *)
(* frame that is not there.                                                *)
(*                                                                         *)
(* The stream is fixed at the start.  When it runs out inside a frame the  *)
(* pump stops: it has ended, or a timeout found it stalled.                *)
(*                                                                         *)
(* An operator Bug_... is a plausible error in the operator that follows   *)
(* it: the properties are tested against it.                               *)
(***************************************************************************)
EXTENDS Naturals, Sequences, FiniteSets

CONSTANTS Marker,     \* FRAME_START_RX
          MaxFrame,   \* MAX_FRAME_LEN
          Streams     \* what nodes emit: [bytes, starts], the places of frames

(* The length a header declares.                                           *)
BodyLength(bytes, start) == bytes[start + 1] + 256 * bytes[start + 2]

(* The length of a frame is sent in 16 bits.                               *)
ASSUME FramingAssumption ==
  Marker \in 0..255 /\ MaxFrame \in Nat /\ 0 < MaxFrame /\ MaxFrame < 2^16

(* Where a frame is, it is whole, no longer than the node's own buffer,    *)
(* and over before the next one.                                           *)
ASSUME StreamsAssumption ==
  \A s \in Streams :
    /\ s.bytes \in Seq(0..255) /\ s.starts \subseteq 1..Len(s.bytes)
    /\ \A i \in s.starts :
         LET length == BodyLength(s.bytes, i)
         IN  /\ s.bytes[i] = Marker /\ length \in 1..MaxFrame
             /\ i + 2 + length <= Len(s.bytes)
             /\ \A j \in s.starts : i < j => i + 2 + length < j

VARIABLES
  stream, at,   \* the bytes, how many of them were read
  reading,      \* "marker", "header" or "body": what the pump waits for; "stopped"
  needed,       \* length of the body
  began,        \* where the frame that is read began
  delivered     \* where the frames began that were put in the queue (history)

framingVars == <<stream, at, reading, needed, began, delivered>>

Byte(i) == stream.bytes[i]
Has(n)  == at + n <= Len(stream.bytes)

Bug_AnyLength(n) == n # 0
Plausible(n) == n # 0 /\ n <= MaxFrame

ScanByte ==
  /\ reading = "marker" /\ Has(1) /\ at' = at + 1
  /\ IF Byte(at + 1) = Marker THEN reading' = "header" /\ began' = at + 1
     ELSE UNCHANGED <<reading, began>>
  /\ UNCHANGED <<stream, needed, delivered>>

(* An implausible length is thrown away with its marker.                   *)
ReadHeader ==
  /\ reading = "header" /\ Has(2) /\ at' = at + 2
  /\ LET length == BodyLength(stream.bytes, began)
     IN  IF Plausible(length) THEN reading' = "body" /\ needed' = length
         ELSE reading' = "marker" /\ UNCHANGED needed
  /\ UNCHANGED <<stream, began, delivered>>

ReadBody ==
  /\ reading = "body" /\ Has(needed) /\ at' = at + needed
  /\ delivered' = delivered \cup {began} /\ reading' = "marker"
  /\ UNCHANGED <<stream, needed, began>>

Stop ==
  /\ \/ reading = "marker" /\ ~Has(1)
     \/ reading = "header" /\ ~Has(2)
     \/ reading = "body" /\ ~Has(needed)
  /\ reading' = "stopped"
  /\ UNCHANGED <<stream, at, needed, began, delivered>>

FramingInit ==
  /\ stream \in Streams /\ at = 0 /\ reading = "marker" /\ needed = 0 /\ began = 0
  /\ delivered = {}

FramingNext == ScanByte \/ ReadHeader \/ ReadBody \/ Stop

---------------------------------------------------------------------------
(* Properties                                                              *)

Stray == {i \in 1..Len(stream.bytes) : Byte(i) = Marker} \ stream.starts

(* Safety: a stray marker costs the frames that begin within a header and  *)
(* the longest body of it, and no other: a desynchronised stream recovers, *)
(* whatever bytes follow, and a frame with no stray marker before it is    *)
(* never lost ("a desynchronised stream recovers rather than dropping the  *)
(* link", read_frame).                                                     *)
FramesKept ==
  reading = "stopped" =>
    \A start \in stream.starts :
      (\A m \in Stray : m < start => m + 2 + MaxFrame < start) => start \in delivered
=============================================================================
