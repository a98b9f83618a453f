--------------------------- MODULE CompanionLink ---------------------------
(***************************************************************************)
(* The link to the companion node (companion/link.py) over a stream        *)
(* transport (transport/base.py): the supervisor that connects, shakes     *)
(* hands, runs the receive, send and heartbeat loops and reconnects, with  *)
(* the node at the other end.                                              *)
(*                                                                         *)
(* Everything runs on one event loop: a step is what a task does between   *)
(* two awaits.  A loop that fails ends; until the TaskGroup has cancelled  *)
(* the others they may still take steps (errors is not empty).  All        *)
(* timeouts and delays may pass at any time.                               *)
(*                                                                         *)
(* The connection may break and the node may fall silent at any time.  A   *)
(* frame written while it is broken may fail or be lost without a word,    *)
(* as the operating system's buffers have it.                              *)
(*                                                                         *)
(* Left out: the contents of frames, how long the backoff is (it only      *)
(* delays), the event that wakes the send loop (it is set by every         *)
(* send_packet and tested against the queue), BLE (frames come whole) and  *)
(* is_connected, which is state = "up".                                    *)
(*                                                                         *)
(* An operator Bug_... is a plausible error in the operator that follows   *)
(* it: the properties are tested against it.                               *)
(***************************************************************************)
EXTENDS Naturals, Sequences

CONSTANTS RxSize,          \* RX_QUEUE_SIZE
          PacketsSize,     \* PACKET_QUEUE_SIZE
          ResponsesSize,   \* the size of time_responses
          Replies,         \* what the firmware may answer to SEND_RAW_PACKET
          MayTimeOut,      \* TRUE: the node may not answer a handshake in time
          MaxGiven,        \* bound: packets given to send_packet
          MaxPipe          \* bound: frames on their way from the node

Loops == {"receive", "send", "heartbeat"}
States == {"start", "connecting", "device query", "app start", "up", "backoff", "ended"}
Shaking == {"device query", "app start"}
Frames == {"device info", "self info", "heard", "time", "ok", "error", "unsupported"}
Failures == {"transport", "companion", "unsupported", "timeout"}

ASSUME SizeAssumption == /\ RxSize \in Nat \ {0} /\ PacketsSize \in Nat \ {0}
                         /\ ResponsesSize \in Nat \ {0}
                         /\ MaxGiven \in Nat /\ MaxPipe \in Nat
ASSUME ReplyAssumption == Replies \subseteq {"ok", "error", "unsupported"}
ASSUME TimeOutAssumption == MayTimeOut \in BOOLEAN

VARIABLES
  state,                  \* where run and _session are
  loops, errors,          \* the loops that run; the failures of this session
  stopped,                \* _stop, and when it was set, see below
  given, outbound, late,  \* packets given so far, _outbound, those expired
  sending,                \* the send loop awaits the drain of its frame
  heartbeat,              \* where the heartbeat loop is
  responses, packets,     \* how many time_responses and _packets are queued
  conn, pipe, frames,     \* the connection, the bytes in it, transport._frames
  silent,                 \* the node does not answer
  handed                  \* every packet ever written (history, never read)

supervisor == <<state, loops, errors, stopped>>
outgoing   == <<given, outbound, late, sending, handed>>
incoming   == <<responses, packets>>
transport  == <<conn, pipe, frames>>
vars == <<supervisor, outgoing, heartbeat, incoming, transport, silent>>

(* The code only asks whether stop was called.  "early" remembers that it  *)
(* came while the transport was still being opened (history, for StopEnds).*)
stop == stopped # "no"

TypeOK ==
  /\ state \in States /\ loops \subseteq Loops /\ errors \subseteq Failures
  /\ stopped \in {"no", "early", "yes"} /\ sending \in BOOLEAN /\ silent \in BOOLEAN
  /\ given \in Nat /\ outbound \in Seq(Nat) /\ late \subseteq Nat /\ handed \subseteq Nat
  /\ heartbeat \in {"sleeping", "waiting"}
  /\ responses \in 0..ResponsesSize /\ packets \in 0..PacketsSize
  /\ conn \in {"none", "open", "broken", "closed"}
  /\ pipe \in Seq(Frames) /\ frames \in Seq(Frames) /\ Len(frames) <= RxSize

---------------------------------------------------------------------------
(* Writing and reading frames                                              *)

(* What comes back for a written frame: nothing, if nobody is there.       *)
Answered(answers) ==
  IF conn = "open" /\ ~silent
  THEN \E frame \in answers : pipe' = Append(pipe, frame)
  ELSE UNCHANGED pipe

(* A write succeeds while the transport is not closed, though on a broken  *)
(* connection it may fail as well.                                         *)
Writable == conn \in {"open", "broken"}
WriteFails == conn \in {"broken", "closed"}

(* The reader task parses frames until the connection ends; a full queue   *)
(* drops the newest.                                                       *)
Pump ==
  /\ conn = "open" /\ pipe # <<>>
  /\ pipe' = Tail(pipe)
  /\ frames' = IF Len(frames) < RxSize THEN Append(frames, Head(pipe)) ELSE frames
  /\ UNCHANGED <<supervisor, outgoing, heartbeat, incoming, conn, silent>>

(* read_frame: queued frames before the failure.  Once closed, the reader  *)
(* task is forgotten and what is queued may be left behind.                *)
ReadFails == (conn = "broken" /\ frames = <<>>) \/ conn = "closed"

Fails(failure) == errors' = errors \cup {failure}

---------------------------------------------------------------------------
(* The supervisor                                                          *)

(* run's loop condition, and a new transport for the next session.         *)
Start ==
  /\ state = "start"
  /\ state' = IF stop THEN "ended" ELSE "connecting"
  /\ UNCHANGED <<loops, errors, stopped, outgoing, heartbeat, incoming, transport, silent>>

(* Connected: the handshake's first frame follows without a pause.         *)
Connect ==
  /\ state = "connecting" /\ errors = {}
  /\ conn' = "open" /\ frames' = <<>>
  /\ pipe' = IF silent THEN <<>> ELSE <<"device info">>
  /\ state' = "device query"
  /\ UNCHANGED <<loops, errors, stopped, outgoing, heartbeat, incoming, silent>>

ConnectFails ==
  /\ state = "connecting" /\ errors = {}
  /\ Fails("transport")
  /\ UNCHANGED <<state, loops, stopped, outgoing, heartbeat, incoming, transport, silent>>

(* _expect: one frame; anything unexpected is skipped.                     *)
Expect ==
  /\ state \in Shaking /\ errors = {} /\ frames # <<>>
  /\ frames' = Tail(frames)
  /\ \/ /\ state = "device query" /\ Head(frames) = "device info"
        /\ \/ /\ Writable /\ Answered({"self info"})
              /\ state' = "app start" /\ UNCHANGED <<loops, errors>>
           \/ /\ WriteFails /\ Fails("transport")
              /\ UNCHANGED <<state, loops, pipe>>
     \/ /\ state = "app start" /\ Head(frames) = "self info"
        /\ state' = "up" /\ loops' = Loops
        /\ UNCHANGED <<errors, pipe>>
     \/ /\ Head(frames) \in {"error", "unsupported"}
        /\ Fails("companion") /\ UNCHANGED <<state, loops, pipe>>
     \/ /\ Head(frames) \notin {"error", "unsupported"}
        /\ Head(frames) # (IF state = "device query" THEN "device info" ELSE "self info")
        /\ UNCHANGED <<state, loops, errors, pipe>>
  /\ UNCHANGED <<stopped, outgoing, heartbeat, incoming, conn, silent>>

ExpectFails ==
  /\ state \in Shaking /\ errors = {} /\ ReadFails
  /\ Fails("transport")
  /\ UNCHANGED <<state, loops, stopped, outgoing, heartbeat, incoming, transport, silent>>

(* asyncio.timeout(HANDSHAKE_TIMEOUT) raises TimeoutError.                 *)
HandshakeTimesOut ==
  /\ MayTimeOut /\ state \in Shaking /\ errors = {}
  /\ Fails("timeout")
  /\ UNCHANGED <<state, loops, stopped, outgoing, heartbeat, incoming, transport, silent>>

(* The failures  except*  handles by reconnecting; the others end run.     *)
Reconnects == errors \cap {"unsupported", "timeout"} = {}

(* The session is over: the loops are cancelled, the transport closed, the *)
(* state of the connection discarded.                                      *)
Teardown ==
  /\ errors # {}
  /\ state' = IF ~Reconnects \/ stop THEN "ended" ELSE "backoff"
  /\ loops' = {} /\ errors' = {}
  /\ sending' = FALSE /\ heartbeat' = "sleeping" /\ responses' = 0
  /\ conn' = "none" /\ pipe' = <<>> /\ frames' = <<>>
  /\ UNCHANGED <<stopped, given, outbound, late, handed, packets, silent>>

(* The backoff ends after its delay, or at once when stop is set.          *)
BackoffEnds ==
  /\ state = "backoff"
  /\ state' = "start"
  /\ UNCHANGED <<loops, errors, stopped, outgoing, heartbeat, incoming, transport, silent>>

(* stop: a transport that is open is closed under its users; one that is   *)
(* still being opened has nothing to close.                                *)
Bug_LeftOpen == conn
ClosedUnder == IF conn = "none" THEN conn ELSE "closed"
Stop ==
  /\ ~stop /\ state # "ended"
  /\ stopped' = IF state = "connecting" THEN "early" ELSE "yes"
  /\ conn' = ClosedUnder
  /\ UNCHANGED <<state, loops, errors, outgoing, heartbeat, incoming, pipe, frames, silent>>

(* The application cancels run once stop has returned.                     *)
Cancel ==
  /\ stop /\ state # "ended"
  /\ state' = "ended" /\ loops' = {} /\ errors' = {} /\ sending' = FALSE
  /\ heartbeat' = "sleeping" /\ responses' = 0
  /\ conn' = "none" /\ pipe' = <<>> /\ frames' = <<>>
  /\ UNCHANGED <<stopped, given, outbound, late, handed, packets, silent>>

---------------------------------------------------------------------------
(* The loops of a session                                                  *)

LoopFails(loop, failure) == loops' = loops \ {loop} /\ Fails(failure)

(* _receive_loop and _dispatch.                                            *)
Bug_Unbounded(n, size) == n + 1
Queued(n, size) == IF n < size THEN n + 1 ELSE n
Receive ==
  /\ "receive" \in loops /\ frames # <<>>
  /\ frames' = Tail(frames)
  /\ packets' = IF Head(frames) = "heard" THEN Queued(packets, PacketsSize) ELSE packets
  /\ responses' = IF Head(frames) = "time" THEN Queued(responses, ResponsesSize) ELSE responses
  /\ IF Head(frames) = "unsupported"
     THEN LoopFails("receive", "unsupported") ELSE UNCHANGED <<loops, errors>>
  /\ UNCHANGED <<state, stopped, outgoing, heartbeat, conn, pipe, silent>>

ReceiveFails ==
  /\ "receive" \in loops /\ ReadFails
  /\ LoopFails("receive", "transport")
  /\ UNCHANGED <<state, stopped, outgoing, heartbeat, incoming, transport, silent>>

(* _send_loop: the head is dropped when it is late, else written; it stays *)
(* queued until the write has drained.                                     *)
Bug_LateStays == outbound
LateDropped == Tail(outbound)
Expire ==
  /\ "send" \in loops /\ ~sending /\ outbound # <<>> /\ Head(outbound) \in late
  /\ outbound' = LateDropped
  /\ UNCHANGED <<supervisor, given, late, sending, handed, heartbeat, incoming, transport, silent>>

Write ==
  /\ "send" \in loops /\ ~sending /\ outbound # <<>> /\ Head(outbound) \notin late
  /\ Writable
  /\ sending' = TRUE /\ handed' = handed \cup {Head(outbound)}
  /\ Answered(Replies)
  /\ UNCHANGED <<supervisor, given, outbound, late, heartbeat, incoming, conn, frames, silent>>

Drained ==
  /\ "send" \in loops /\ sending
  /\ sending' = FALSE /\ outbound' = Tail(outbound)
  /\ UNCHANGED <<supervisor, given, late, handed, heartbeat, incoming, transport, silent>>

(* A failed write leaves the packet queued: the next connection carries it.*)
Bug_Popped == Tail(outbound)
LeftQueued == outbound
SendFails ==
  /\ "send" \in loops /\ WriteFails
  /\ sending \/ (outbound # <<>> /\ Head(outbound) \notin late)
  /\ LoopFails("send", "transport") /\ sending' = FALSE
  /\ outbound' = LeftQueued
  /\ UNCHANGED <<state, stopped, given, late, handed, heartbeat, incoming, transport, silent>>

(* _heartbeat_loop: answers to earlier probes are thrown away first.       *)
Probe ==
  /\ "heartbeat" \in loops /\ heartbeat = "sleeping" /\ Writable
  /\ responses' = 0 /\ heartbeat' = "waiting"
  /\ Answered({"time"})
  /\ UNCHANGED <<supervisor, outgoing, packets, conn, frames, silent>>

ProbeFails ==
  /\ "heartbeat" \in loops /\ heartbeat = "sleeping" /\ WriteFails
  /\ responses' = 0 /\ LoopFails("heartbeat", "transport")
  /\ UNCHANGED <<state, stopped, outgoing, heartbeat, packets, transport, silent>>

ProbeAnswered ==
  /\ "heartbeat" \in loops /\ heartbeat = "waiting" /\ responses > 0
  /\ responses' = responses - 1 /\ heartbeat' = "sleeping"
  /\ UNCHANGED <<supervisor, outgoing, packets, transport, silent>>

Bug_ProbeForgiven == heartbeat' = "sleeping" /\ UNCHANGED <<loops, errors>>
ProbeMissed == LoopFails("heartbeat", "companion") /\ UNCHANGED heartbeat
ProbeTimesOut ==
  /\ "heartbeat" \in loops /\ heartbeat = "waiting" /\ responses = 0
  /\ ProbeMissed
  /\ UNCHANGED <<state, stopped, outgoing, incoming, transport, silent>>

---------------------------------------------------------------------------
(* The rest of the program, and the node                                   *)

(* send_packet                                                             *)
Bug_Overtakes(p) == <<p>> \o outbound
Accepted(p) == Append(outbound, p)
SendPacket ==
  /\ given < MaxGiven
  /\ given' = given + 1 /\ outbound' = Accepted(given + 1)
  /\ UNCHANGED <<supervisor, late, sending, handed, heartbeat, incoming, transport, silent>>

(* The time to live of a packet that waits passes.                         *)
Ages(p) ==
  /\ p \notin late /\ \E i \in 1..Len(outbound) : outbound[i] = p
  /\ late' = late \cup {p}
  /\ UNCHANGED <<supervisor, given, outbound, sending, handed, heartbeat, incoming,
                 transport, silent>>

(* The dispatcher takes a received packet.                                 *)
TakePacket ==
  /\ packets > 0 /\ packets' = packets - 1
  /\ UNCHANGED <<supervisor, outgoing, heartbeat, responses, transport, silent>>

(* The node hears a packet on the mesh.                                    *)
Hear ==
  /\ conn = "open" /\ ~silent /\ Len(pipe) < MaxPipe
  /\ pipe' = Append(pipe, "heard")
  /\ UNCHANGED <<supervisor, outgoing, heartbeat, incoming, conn, frames, silent>>

Break ==
  /\ conn = "open" /\ conn' = "broken" /\ pipe' = <<>>
  /\ UNCHANGED <<supervisor, outgoing, heartbeat, incoming, frames, silent>>

FallSilent ==
  /\ silent' = ~silent
  /\ UNCHANGED <<supervisor, outgoing, heartbeat, incoming, transport>>

---------------------------------------------------------------------------
Init ==
  /\ state = "start" /\ loops = {} /\ errors = {} /\ stopped = "no"
  /\ given = 0 /\ outbound = <<>> /\ late = {} /\ handed = {} /\ sending = FALSE
  /\ heartbeat = "sleeping" /\ responses = 0 /\ packets = 0
  /\ conn = "none" /\ pipe = <<>> /\ frames = <<>> /\ silent = FALSE

Supervise == Start \/ ConnectFails \/ Teardown \/ BackoffEnds
Handshake == Expect \/ ExpectFails
ReceiveLoop == Receive \/ ReceiveFails
SendLoop == Expire \/ Write \/ Drained \/ SendFails
HeartbeatLoop == Probe \/ ProbeFails \/ ProbeAnswered \/ ProbeTimesOut
Rest == SendPacket \/ (\E p \in 1..given : Ages(p)) \/ TakePacket
Node == Hear \/ Break \/ FallSilent

Next == \/ Supervise \/ Connect \/ Handshake \/ HandshakeTimesOut
        \/ Pump \/ ReceiveLoop \/ SendLoop \/ HeartbeatLoop
        \/ Stop \/ Cancel \/ Rest \/ Node

Spec == Init /\ [][Next]_vars

---------------------------------------------------------------------------
(* Properties                                                              *)

(* The queue of outgoing packets, with the connections hidden.             *)
Box == INSTANCE Outbox WITH waiting <- outbound

(* Refinement: whatever connections come and go, _outbound is an outbox:   *)
(* packets wait in order and leave only when handed over or late.          *)
OutboxSpec == Box!Spec

(* Safety: no packet given to send_packet is lost by a reconnection, and   *)
(* none overtakes another ("nothing is dropped merely because the serial   *)
(* port happened to be reconnecting", send_packet).                        *)
NothingLost == Box!NothingLost

(* Safety: the supervisor ends only when it is stopped or when the         *)
(* firmware cannot transmit: every other failure is a reason to reconnect, *)
(* a node that answers the handshake too late included ("hangs the process *)
(* instead of triggering a reconnect", handshake; "Supervise the link      *)
(* forever, reconnecting on failure", run).                                *)
SupervisorSurvives == state = "ended" => stop \/ "unsupported" \in Replies

(* Fairness.  The event loop runs every task that can run; timeouts and    *)
(* delays pass.  Of the world it is assumed that a session lasts long      *)
(* enough, again and again, for the send loop to write a frame and to see  *)
(* it drain.                                                               *)
Fairness ==
  /\ WF_vars(Supervise) /\ WF_vars(Handshake) /\ WF_vars(HandshakeTimesOut) /\ WF_vars(Pump)
  /\ WF_vars(ReceiveLoop) /\ WF_vars(Probe \/ ProbeFails) /\ WF_vars(ProbeAnswered)
  /\ WF_vars(ProbeTimesOut)
  /\ SF_vars(Write) /\ SF_vars(Drained) /\ SF_vars(Expire)

FairSpec == Spec /\ Fairness

(* Liveness: a node that has stopped answering on a connection that stays  *)
(* open is noticed: the session ends (_heartbeat_loop: "silence is not     *)
(* evidence of a dead link").                                              *)
SilenceNoticed == (state = "up" /\ silent) ~> (state # "up" \/ ~silent)

(* Liveness: stop ends run from wherever it is, without being cancelled:   *)
(* shaking hands, in any loop, failing, or in a backoff ("Ask run to exit, *)
(* interrupting any reconnect backoff", stop).  Nothing of the supervisor  *)
(* or its loops but the backoff waits for the event that stop sets: run    *)
(* ends because they fail on the closed transport, or because one of its   *)
(* tests sees the event.  The exception is a transport that is still being *)
(* opened: there is nothing to close yet, so the session that follows is   *)
(* only ended by the cancellation, which is not relied on here.            *)
StopEnds == stopped = "yes" ~> state = "ended"

(* Liveness: the packets given to send_packet all leave the queue in the   *)
(* end, over however many sessions it takes, as long as the node can be    *)
(* reached again and again (MaxGiven: no more are given).                  *)
QueueDrains == []<>(state = "up") => (given = MaxGiven ~> outbound = <<>>)
=============================================================================
