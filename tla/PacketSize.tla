----------------------------- MODULE PacketSize -----------------------------
(***************************************************************************)
(* The length of what a room transmits (proto/packet.py, room/posts.py and *)
(* the senders of room/server.py): a packet is one frame to the companion  *)
(* node, which takes 174 bytes of it at most (companion/link.py,           *)
(* send_packet).  One that is longer is refused: in the push loop that     *)
(* ends the loop, and with it the process; of a reply only the log tells.  *)
(*                                                                         *)
(* A packet is its length in bytes; one client, whose return path is       *)
(* learned and forgotten.                                                  *)
(*                                                                         *)
(* An operator Bug_... is a plausible error in the operator that follows   *)
(* it: the properties are tested against it.                               *)
(***************************************************************************)
EXTENDS Naturals

CONSTANTS PathLens, TextLens, MemberCounts   \* in bytes; members of a room

MaxRawTxPacket == 174
MaxPathSize    == 64
MaxPostTextLen == 151
BlockSize      == 16      \* CIPHER_BLOCK_SIZE
MacSize        == 2
PushOverhead   == 9       \* time stamp, flags, author
TextPrefix     == 5       \* time stamp, flags
LoginReplyLen  == 13
StatusReplyLen == 56      \* time stamp, ServerStats
EntryLen       == 7       \* of an access list
AdvertLen      == 100     \* key, time stamp, signature
MaxAdvertData  == 32
AckLen         == 4

ASSUME LengthsAssumption ==
  PathLens \subseteq 0..MaxPathSize /\ TextLens \subseteq Nat /\ MemberCounts \subseteq Nat

VARIABLES
  outPath,    \* length of the return path; 0 as well when there is none, and
              \* replies flood
  members,    \* how many members the configuration declares
  refused     \* what send_packet refused (history)

sizeVars == <<outPath, members, refused>>

Least(a, b) == IF a <= b THEN a ELSE b

---------------------------------------------------------------------------
(* Lengths                                                                 *)

(* header, path length, path, payload                                      *)
PacketLen(path, payload) == 2 + path + payload

(* two hashes, MAC, whole cipher blocks                                    *)
DatagramLen(plaintext) == 2 + MacSize + ((plaintext + BlockSize - 1) \div BlockSize) * BlockSize

Bug_NotRounded(path) == MaxRawTxPacket - 2 - path - 2 - MacSize
MaxPlaintextLen(path) ==
  ((MaxRawTxPacket - 2 - path - 2 - MacSize) \div BlockSize) * BlockSize

PushTextBudget(path) == Least(MaxPostTextLen, MaxPlaintextLen(path) - PushOverhead)

(* build_push, over a direct route; without a path it floods.              *)
PushLen(text, path) ==
  PacketLen(path, DatagramLen(PushOverhead + Least(text, PushTextBudget(path))))

ConsoleReplyLen(text, path) ==
  PacketLen(path, DatagramLen(TextPrefix + Least(text, MaxPlaintextLen(path) - TextPrefix)))

(* _send_response: over the client's path, or, to a request that came by   *)
(* flood, by flood, with the path it came by: its length, and the type of  *)
(* what follows, are a byte each.                                          *)
ResponseLen(body, path) == PacketLen(path, DatagramLen(body))
PathAndResponseLen(body, heardBy) == PacketLen(0, DatagramLen(1 + heardBy + 1 + body))

AccessListLen(n) == 4 + EntryLen * Least(n, (MaxPlaintextLen(MaxPathSize) - 4) \div EntryLen)

---------------------------------------------------------------------------
(* send_packet                                                             *)
SendPacket(kind, path, length) ==
  /\ refused' = IF length > MaxRawTxPacket
                THEN refused \cup {[kind |-> kind, path |-> path]} ELSE refused
  /\ UNCHANGED <<outPath, members>>

SendPush == \E text \in TextLens : SendPacket("push", outPath, PushLen(text, outPath))

SendConsoleReply ==
  \E text \in TextLens : SendPacket("console", outPath, ConsoleReplyLen(text, outPath))

SendAck == \E extra \in {0, 1} : SendPacket("ack", outPath, PacketLen(outPath, AckLen + extra))

SendAdvert == \E data \in 1..MaxAdvertData : SendPacket("advert", 0, PacketLen(0, AdvertLen + data))

SendResponse ==
  \E kind \in {"login", "status", "accessList"}, heardBy \in PathLens, flooded \in BOOLEAN :
    LET body == CASE kind = "login"  -> LoginReplyLen
                  [] kind = "status" -> StatusReplyLen
                  [] OTHER           -> AccessListLen(members)
    IN  IF flooded THEN SendPacket(kind, heardBy, PathAndResponseLen(body, heardBy))
                   ELSE SendPacket(kind, outPath, ResponseLen(body, outPath))

(* _on_path_return; a login that comes by flood.                           *)
LearnPath == \E path \in PathLens : outPath' = path /\ UNCHANGED <<members, refused>>

ForgetPath == outPath' = 0 /\ UNCHANGED <<members, refused>>

(* apply_settings                                                          *)
DeclareMembers == \E n \in MemberCounts : members' = n /\ UNCHANGED <<outPath, refused>>

SizeInit == outPath = 0 /\ members \in MemberCounts /\ refused = {}

SizeNext ==
  \/ SendPush \/ SendConsoleReply \/ SendAck \/ SendAdvert \/ SendResponse
  \/ LearnPath \/ ForgetPath \/ DeclareMembers

SizeSpec == SizeInit /\ [][SizeNext]_sizeVars

---------------------------------------------------------------------------
(* Properties                                                              *)

(* Safety: everything the room transmits, over every path, fits the node:  *)
(* no push, text or advert is refused, and of the replies only one, a full *)
(* access list that a path of all 64 bytes returns with: "a length that is *)
(* safe to send to any client by any route" (max_plaintext_len) does not   *)
(* count the path inside the reply.                                        *)
FitsNode == \A r \in refused : r.kind = "accessList" /\ r.path = MaxPathSize
=============================================================================
