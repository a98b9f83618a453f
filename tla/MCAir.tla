------------------------------- MODULE MCAir --------------------------------
(* Small instances of the seven machines between room and mesh: when,      *)
(* with what stamp, how long and in what pieces a room's packets go out,   *)
(* how frames come in, and which room takes the packet in them.  They      *)
(* share no state, so a behaviour runs one of them, which it chooses at    *)
(* the start; the others stand still.                                      *)
EXTENDS Pacing, Adverts, Stamps, PacketSize, PostText, Framing, Dispatcher

CONSTANTS room1, room2, post, ack, push, advert, hash

VARIABLE machine

Running(name) == machine = name /\ UNCHANGED machine

(* Two or three frames, the first of which may have a marker in its body,  *)
(* after and between other bytes.                                          *)
Frame(body) == <<Marker, Len(body), 0>> \o body
Junk   == {<<>>} \cup {<<b>> : b \in {0, Marker}} \cup {<<b, c>> : b, c \in {0, 1, Marker}}
            \cup {<<Marker, b, c>> : b, c \in {0, 1, Marker}}
Bodies == {<<1>>} \cup {<<b, c>> : b, c \in {0, Marker}}

Noisy(before, body, between, last) ==
  LET second == Len(before) + 3 + Len(body) + Len(between) + 1
  IN  [bytes  |-> before \o Frame(body) \o between \o Frame(last) \o Frame(<<1>>),
       starts |-> {Len(before) + 1, second, second + 3 + Len(last)}]

SmallStreams == {Noisy(before, body, between, last) :
                   before \in Junk, body \in Bodies, between \in Junk, last \in {<<0>>, <<1, 2>>}}

AllPaths == 0..MaxPathSize
AllTexts == 0..160

(* Two rooms that collide on their node hash and hear a post for the       *)
(* first, an acknowledgement for the second, an advert, and a push of      *)
(* their own whose destination collides with them.                         *)
TwoRooms == <<room1, room2>>
Kind == [p \in Packets |->
  CASE p = ack -> "ACK" [] p = advert -> "other" [] OTHER -> "addressed"]
Dest == [p \in Packets |-> hash]
OneHash == [r \in {room1, room2} |-> hash]
Claimed == [p \in Packets |->
  CASE p = post -> {room1} [] p = ack -> {room2} [] OTHER -> {}]

MCInit ==
  /\ machine \in {"pacing", "adverts", "stamps", "size", "text", "framing", "dispatcher"}
  /\ machine # "adverts" => wanted = [flood |-> 0, local |-> 0]
  /\ machine # "size" => members = 0
  /\ machine # "framing" => stream = Noisy(<<>>, <<1>>, <<>>, <<0>>)
  /\ PacingInit /\ AdvertInit /\ StampInit /\ SizeInit /\ FramingInit /\ Init
  /\ IF machine = "text" THEN TextInit ELSE text = <<>> /\ offset = 0 /\ chunks = <<>>

MCNext ==
  \/ Running("pacing") /\ PacingNext
     /\ UNCHANGED <<advertVars, stampVars, sizeVars, textVars, framingVars, vars>>
  \/ Running("adverts") /\ AdvertNext
     /\ UNCHANGED <<pacingVars, stampVars, sizeVars, textVars, framingVars, vars>>
  \/ Running("stamps") /\ StampNext
     /\ UNCHANGED <<pacingVars, advertVars, sizeVars, textVars, framingVars, vars>>
  \/ Running("size") /\ SizeNext
     /\ UNCHANGED <<pacingVars, advertVars, stampVars, textVars, framingVars, vars>>
  \/ Running("text") /\ TextNext
     /\ UNCHANGED <<pacingVars, advertVars, stampVars, sizeVars, framingVars, vars>>
  \/ Running("framing") /\ FramingNext
     /\ UNCHANGED <<pacingVars, advertVars, stampVars, sizeVars, textVars, vars>>
  \/ Running("dispatcher") /\ Next
     /\ UNCHANGED <<pacingVars, advertVars, stampVars, sizeVars, textVars, framingVars>>

allAir == <<machine, pacingVars, advertVars, stampVars, sizeVars, textVars, framingVars, vars>>

(* The other machines stand still, and their fairness with them.           *)
MCSpec ==
  /\ MCInit /\ [][MCNext]_allAir
  /\ machine = "adverts" => AdvertFairness
=============================================================================
