----------------------------- MODULE LinkProofs -----------------------------
(***************************************************************************)
(* Theorems about CompanionLink, for every size of its queues, every       *)
(* behaviour of the node and of the connection: it implements Outbox, and  *)
(* so loses nothing; its queues keep their bounds; and what ends its       *)
(* supervisor.                                                             *)
(***************************************************************************)
EXTENDS CompanionLink, SequenceTheorems, TLAPS

(* A frame that is being written is the head of the queue and has been     *)
(* handed over: that is why it may leave when it has drained.  It is also  *)
(* all that Teardown and Cancel need to leave the queue alone.             *)
SendingHead == sending => outbound # <<>> /\ Head(outbound) \in handed

QueueTypeOK ==
  /\ given \in Nat /\ outbound \in Seq(1..given) /\ sending \in BOOLEAN

QueueInv == QueueTypeOK /\ SendingHead

queue == <<given, outbound, late, sending, handed>>

---------------------------------------------------------------------------
(* All but the send loop and send_packet leave the queue alone.            *)
LEMMA Elsewhere ==
  ASSUME Next, ~Write, ~Drained, ~Expire, ~SendFails, ~SendPacket,
         \A p \in 1..given : ~Ages(p), ~Teardown, ~Cancel
  PROVE  UNCHANGED queue
<1> USE DEF queue, outgoing
<1>1. ASSUME Supervise PROVE UNCHANGED queue
  BY <1>1 DEF Supervise, Start, ConnectFails, BackoffEnds
<1>2. ASSUME Connect PROVE UNCHANGED queue
  BY <1>2 DEF Connect
<1>3. ASSUME Handshake PROVE UNCHANGED queue
  BY <1>3 DEF Handshake, Expect, ExpectFails
<1>4. ASSUME HandshakeTimesOut \/ Pump PROVE UNCHANGED queue
  BY <1>4 DEF HandshakeTimesOut, Pump
<1>5. ASSUME ReceiveLoop PROVE UNCHANGED queue
  BY <1>5 DEF ReceiveLoop, Receive, ReceiveFails
<1>6. ASSUME HeartbeatLoop PROVE UNCHANGED queue
  BY <1>6 DEF HeartbeatLoop, Probe, ProbeFails, ProbeAnswered, ProbeTimesOut
<1>7. ASSUME Stop \/ Node PROVE UNCHANGED queue
  BY <1>7 DEF Stop, Node, Hear, Break, FallSilent
<1>8. ASSUME TakePacket PROVE UNCHANGED queue
  BY <1>8 DEF TakePacket
<1> QED
  BY <1>1, <1>2, <1>3, <1>4, <1>5, <1>6, <1>7, <1>8 DEF Next, SendLoop, Rest

(* A longer range of numbers.                                              *)
LEMMA MoreGiven ==
  ASSUME NEW n \in Nat, NEW s \in Seq(1..n)
  PROVE  s \in Seq(1..n + 1) /\ Append(s, n + 1) \in Seq(1..n + 1)
<1>1. s \in Seq(1..n + 1)
  <2>1. 1..n \subseteq 1..n + 1
    OBVIOUS
  <2> QED
    BY <2>1, SeqMonotonic
<1>2. n + 1 \in 1..n + 1
  OBVIOUS
<1> QED
  BY <1>1, <1>2, AppendProperties

LEMMA QueueInvInit == Init => QueueInv
<1> SUFFICES ASSUME Init PROVE QueueInv
  OBVIOUS
<1>1. outbound \in Seq(1..given)
  BY EmptySeq DEF Init
<1> QED
  BY <1>1 DEF Init, QueueInv, QueueTypeOK, SendingHead

LEMMA QueueInvStep == QueueInv /\ [Next]_vars => QueueInv'
<1> SUFFICES ASSUME QueueInv, [Next]_vars PROVE QueueInv'
  OBVIOUS
<1> USE DEF QueueInv, QueueTypeOK, SendingHead
<1>1. CASE Write
  BY <1>1 DEF Write
<1>2. CASE Drained
  BY <1>2, HeadTailProperties DEF Drained
<1>3. CASE Expire
  BY <1>3, HeadTailProperties DEF Expire, LateDropped
<1>4. CASE SendFails
  BY <1>4 DEF SendFails, LeftQueued
<1>5. CASE SendPacket
  <2>1. given' \in Nat /\ outbound' \in Seq(1..given') /\ sending' \in BOOLEAN
    BY <1>5, MoreGiven DEF SendPacket, Accepted
  <2>2. outbound # <<>> => outbound' # <<>> /\ Head(outbound') = Head(outbound)
    BY <1>5, HeadTailAppend DEF SendPacket, Accepted
  <2> QED
    BY <1>5, <2>1, <2>2 DEF SendPacket
<1>6. CASE \E p \in 1..given : Ages(p)
  BY <1>6 DEF Ages
<1>7. CASE Teardown
  BY <1>7 DEF Teardown
<1>8. CASE Cancel
  BY <1>8 DEF Cancel
<1>9. CASE UNCHANGED queue
  BY <1>9 DEF queue
<1>10. CASE UNCHANGED vars
  BY <1>10 DEF vars, outgoing
<1> QED
  BY <1>1, <1>2, <1>3, <1>4, <1>5, <1>6, <1>7, <1>8, <1>9, <1>10, Elsewhere

LEMMA QueueInvHolds == Spec => []QueueInv
BY QueueInvInit, QueueInvStep, PTL DEF Spec

---------------------------------------------------------------------------
(* The link is an outbox: every step of it, whatever the supervisor, the   *)
(* connection and the node do, is a step of the queue that send_packet     *)
(* promises, or leaves that queue alone.                                   *)
LEMMA OutboxStep == QueueInv /\ [Next]_vars => [Box!Next]_<<given, outbound, handed, late>>
<1> SUFFICES ASSUME QueueInv, [Next]_vars
             PROVE  Box!Next \/ UNCHANGED <<given, outbound, handed, late>>
  OBVIOUS
<1> USE DEF QueueInv, QueueTypeOK, SendingHead
<1>1. CASE Write
  BY <1>1 DEF Write, Box!Next, Box!Hand
<1>2. CASE Drained
  BY <1>2 DEF Drained, Box!Next, Box!Leave
<1>3. CASE Expire
  BY <1>3 DEF Expire, LateDropped, Box!Next, Box!Leave
<1>4. CASE SendFails
  BY <1>4 DEF SendFails, LeftQueued
<1>5. CASE SendPacket
  BY <1>5 DEF SendPacket, Accepted, Box!Next, Box!Give
<1>6. CASE \E p \in 1..given : Ages(p)
  BY <1>6 DEF Ages, Box!Next, Box!Age
<1>7. CASE Teardown
  BY <1>7 DEF Teardown
<1>8. CASE Cancel
  BY <1>8 DEF Cancel
<1>9. CASE UNCHANGED queue
  BY <1>9 DEF queue
<1>10. CASE UNCHANGED vars
  BY <1>10 DEF vars, outgoing
<1> QED
  BY <1>1, <1>2, <1>3, <1>4, <1>5, <1>6, <1>7, <1>8, <1>9, <1>10, Elsewhere

THEOREM LinkIsAnOutbox == Spec => OutboxSpec
<1>1. Init => Box!Init
  BY DEF Init, Box!Init
<1> QED
  BY <1>1, QueueInvHolds, OutboxStep, PTL DEF Spec, OutboxSpec, Box!Spec, Box!outbox

---------------------------------------------------------------------------
(* What every outbox promises                                              *)

BoxTypeOK == given \in Nat /\ outbound \in Seq(Nat)

LEMMA GiveLosesNothing ==
  ASSUME given \in Nat, outbound \in Seq(Nat), Box!NothingLost, Box!Give
  PROVE  BoxTypeOK' /\ Box!NothingLost'
<1>1. given' = given + 1 /\ outbound' = Append(outbound, given')
  BY DEF Box!Give
<1>2. BoxTypeOK'
  BY <1>1, AppendProperties DEF BoxTypeOK
<1> DEFINE n == Len(outbound)
<1>3. /\ n \in Nat /\ Len(outbound') = n + 1 /\ outbound'[n + 1] = given + 1
      /\ \A i \in 1..n : outbound'[i] = outbound[i]
  BY <1>1, AppendProperties, LenProperties
<1>4. /\ n <= given /\ \A i \in 1..n : outbound[i] = given - n + i
      /\ 1..(given - n) \subseteq handed \cup late
  BY DEF Box!NothingLost
<1>5. handed' = handed /\ late' = late
  BY DEF Box!Give
<1> HIDE DEF n
<1>6. (given + 1) - (n + 1) = given - n /\ n + 1 <= given + 1
  BY <1>3, <1>4
<1>7. ASSUME NEW i \in 1..(n + 1) PROVE outbound'[i] = (given + 1) - (n + 1) + i
  <2>1. CASE i = n + 1
    BY <1>3, <2>1
  <2>2. CASE i # n + 1
    <3>1. i \in 1..n
      BY <1>3, <2>2
    <3> QED
      BY <1>3, <1>4, <1>6, <3>1
  <2> QED
    BY <2>1, <2>2
<1>8. Box!NothingLost'
  BY <1>1, <1>3, <1>4, <1>5, <1>6, <1>7 DEF Box!NothingLost
<1> QED
  BY <1>2, <1>8

LEMMA LeaveLosesNothing ==
  ASSUME given \in Nat, outbound \in Seq(Nat), Box!NothingLost, Box!Leave
  PROVE  BoxTypeOK' /\ Box!NothingLost'
<1>1. /\ outbound # <<>> /\ Head(outbound) \in handed \cup late
      /\ outbound' = Tail(outbound) /\ UNCHANGED <<given, handed, late>>
  BY DEF Box!Leave
<1>2. /\ outbound' \in Seq(Nat) /\ Len(outbound') = Len(outbound) - 1
      /\ \A i \in 1..Len(outbound') : outbound'[i] = outbound[i + 1]
      /\ Len(outbound) \in Nat \ {0} /\ Head(outbound) = outbound[1]
  BY <1>1, HeadTailProperties, LenProperties
<1>3. Head(outbound) = given - Len(outbound) + 1
  BY <1>2 DEF Box!NothingLost
<1>4. 1..(given - Len(outbound')) \subseteq handed' \cup late'
  BY <1>1, <1>2, <1>3 DEF Box!NothingLost
<1>5. \A i \in 1..Len(outbound') : outbound'[i] = given' - Len(outbound') + i
  BY <1>1, <1>2 DEF Box!NothingLost
<1> QED
  BY <1>1, <1>2, <1>4, <1>5 DEF BoxTypeOK, Box!NothingLost

LEMMA NothingLostStep ==
  BoxTypeOK /\ Box!NothingLost /\ [Box!Next]_<<given, outbound, handed, late>>
    => BoxTypeOK' /\ Box!NothingLost'
<1>1. BoxTypeOK /\ Box!NothingLost /\ Box!Hand => BoxTypeOK' /\ Box!NothingLost'
  BY DEF BoxTypeOK, Box!NothingLost, Box!Hand
<1>2. ASSUME BoxTypeOK, Box!NothingLost, NEW p \in 1..given, Box!Age(p)
      PROVE  BoxTypeOK' /\ Box!NothingLost'
  BY <1>2 DEF BoxTypeOK, Box!NothingLost, Box!Age
<1>3. BoxTypeOK /\ Box!NothingLost /\ Box!Leave => BoxTypeOK' /\ Box!NothingLost'
  BY LeaveLosesNothing DEF BoxTypeOK
<1>4. BoxTypeOK /\ Box!NothingLost /\ UNCHANGED <<given, outbound, handed, late>>
        => BoxTypeOK' /\ Box!NothingLost'
  BY DEF BoxTypeOK, Box!NothingLost
<1> QED
  BY <1>1, <1>2, <1>3, <1>4, GiveLosesNothing DEF Box!Next, BoxTypeOK

LEMMA OutboxLosesNothing == OutboxSpec => []Box!NothingLost
<1>1. Box!Init => BoxTypeOK /\ Box!NothingLost
  BY EmptySeq DEF Box!Init, BoxTypeOK, Box!NothingLost
<1> QED
  BY <1>1, NothingLostStep, PTL DEF OutboxSpec, Box!Spec, Box!outbox

(* No packet given to send_packet is lost by a reconnection, and none      *)
(* overtakes another: the link inherits it from Outbox.                    *)
THEOREM LinkLosesNothing == Spec => []NothingLost
BY LinkIsAnOutbox, OutboxLosesNothing, PTL DEF NothingLost

---------------------------------------------------------------------------
(* Types                                                                   *)

(* What a node sends: "unsupported" only if its firmware answers so.       *)
Emitted == {"device info", "self info", "heard", "time"} \cup Replies

ControlTypes ==
  /\ state \in States /\ loops \subseteq Loops /\ errors \subseteq Failures
  /\ stopped \in {"no", "early", "yes"} /\ silent \in BOOLEAN
  /\ heartbeat \in {"sleeping", "waiting"}
  /\ conn \in {"none", "open", "broken", "closed"}

IncomingTypes ==
  /\ responses \in 0..ResponsesSize /\ packets \in 0..PacketsSize
  /\ pipe \in Seq(Emitted) /\ frames \in Seq(Emitted) /\ Len(frames) <= RxSize

OutgoingTypes == late \subseteq 1..given /\ handed \subseteq 1..given

LEMMA EmittedFrames == Emitted \subseteq Frames
BY ReplyAssumption DEF Emitted, Frames

LEMMA ControlStep ==
  ASSUME ControlTypes, [Next]_vars PROVE ControlTypes'
<1> USE DEF ControlTypes, States, Loops, Failures, outgoing, incoming, transport, supervisor,
            LoopFails, Fails
<1>1. CASE Supervise
  BY <1>1 DEF Supervise, Start, ConnectFails, Teardown, BackoffEnds
<1>2. CASE Connect
  BY <1>2 DEF Connect
<1>3. CASE Handshake
  BY <1>3 DEF Handshake, Expect, ExpectFails
<1>4. CASE HandshakeTimesOut \/ Pump
  BY <1>4 DEF HandshakeTimesOut, Pump
<1>5. CASE ReceiveLoop
  BY <1>5 DEF ReceiveLoop, Receive, ReceiveFails
<1>6. CASE SendLoop
  BY <1>6 DEF SendLoop, Expire, Write, Drained, SendFails
<1>7. CASE HeartbeatLoop
  BY <1>7 DEF HeartbeatLoop, Probe, ProbeFails, ProbeAnswered, ProbeTimesOut, ProbeMissed
<1>8. CASE Stop \/ Cancel
  BY <1>8 DEF Stop, Cancel, ClosedUnder
<1>9. CASE Rest
  BY <1>9 DEF Rest, SendPacket, Ages, TakePacket
<1>10. CASE Node
  BY <1>10 DEF Node, Hear, Break, FallSilent
<1>11. CASE UNCHANGED vars
  BY <1>11 DEF vars
<1> QED
  BY <1>1, <1>2, <1>3, <1>4, <1>5, <1>6, <1>7, <1>8, <1>9, <1>10, <1>11 DEF Next

LEMMA AnsweredFrames ==
  ASSUME pipe \in Seq(Emitted), NEW answers \in SUBSET Emitted, Answered(answers)
  PROVE  pipe' \in Seq(Emitted)
BY AppendProperties DEF Answered

LEMMA Nothing ==
  /\ <<>> \in Seq(Emitted) /\ Len(<<>>) <= RxSize
  /\ 0 \in 0..ResponsesSize /\ 0 \in 0..PacketsSize
<1>1. <<>> \in Seq(Emitted) /\ Len(<<>>) = 0
  BY EmptySeq
<1> QED
  BY <1>1, SizeAssumption

(* The reader task moves a frame, or drops it.                             *)
LEMMA PumpFrames ==
  ASSUME IncomingTypes, Pump PROVE IncomingTypes'
<1>1. /\ pipe # <<>> /\ pipe' = Tail(pipe) /\ responses' = responses /\ packets' = packets
      /\ frames' = IF Len(frames) < RxSize THEN Append(frames, Head(pipe)) ELSE frames
  BY DEF Pump, incoming
<1>2. Head(pipe) \in Emitted /\ pipe' \in Seq(Emitted)
  BY <1>1, HeadTailProperties DEF IncomingTypes
<1>3. frames' \in Seq(Emitted) /\ Len(frames') <= RxSize
  BY <1>1, <1>2, AppendProperties, LenProperties, SizeAssumption DEF IncomingTypes
<1> QED
  BY <1>1, <1>2, <1>3 DEF IncomingTypes

(* A frame is taken from the head of the queue.                            *)
LEMMA TakenFrames ==
  ASSUME frames \in Seq(Emitted), Len(frames) <= RxSize, frames # <<>>, frames' = Tail(frames)
  PROVE  /\ frames' \in Seq(Emitted) /\ Len(frames') <= RxSize /\ Head(frames) \in Emitted
<1>1. /\ frames' \in Seq(Emitted) /\ Len(frames') = Len(frames) - 1
      /\ Head(frames) \in Emitted /\ Len(frames) \in Nat
  BY HeadTailProperties, LenProperties
<1> QED
  BY <1>1, SizeAssumption

LEMMA IncomingStep ==
  ASSUME IncomingTypes, [Next]_vars PROVE IncomingTypes'
<1> USE DEF outgoing, incoming, transport, supervisor
<1>1. CASE UNCHANGED <<responses, packets, pipe, frames>>
  BY <1>1 DEF IncomingTypes
<1>2. CASE Teardown \/ Cancel
  <2>1. /\ responses' = 0 /\ packets' = packets /\ pipe' = <<>> /\ frames' = <<>>
    BY <1>2 DEF Teardown, Cancel
  <2> QED
    BY <2>1, Nothing DEF IncomingTypes
<1>3. CASE Connect
  <2>1. <<"device info">> \in Seq(Emitted)
    BY DEF Emitted
  <2> QED
    <3>1. /\ frames' = <<>> /\ UNCHANGED <<responses, packets>>
          /\ pipe' = <<>> \/ pipe' = <<"device info">>
      BY <1>3 DEF Connect
    <3> QED
      BY <3>1, <2>1, Nothing DEF IncomingTypes
<1>4. CASE Expect
  <2>1. /\ frames # <<>> /\ frames' = Tail(frames)
        /\ UNCHANGED <<responses, packets>>
        /\ Answered({"self info"}) \/ pipe' = pipe
    BY <1>4 DEF Expect
  <2>2. pipe' \in Seq(Emitted)
    BY <2>1, AnsweredFrames DEF IncomingTypes, Emitted
  <2> QED
    BY <2>1, <2>2, TakenFrames DEF IncomingTypes
<1>5. CASE Receive
  <2>1. /\ frames # <<>> /\ frames' = Tail(frames) /\ pipe' = pipe
        /\ packets' \in {packets, Queued(packets, PacketsSize)}
        /\ responses' \in {responses, Queued(responses, ResponsesSize)}
    BY <1>5 DEF Receive
  <2>2. packets' \in 0..PacketsSize /\ responses' \in 0..ResponsesSize
    BY <2>1, SizeAssumption DEF Queued, IncomingTypes
  <2> QED
    BY <2>1, <2>2, TakenFrames DEF IncomingTypes
<1>6. CASE Write
  <2>1. Answered(Replies) /\ UNCHANGED <<responses, packets, frames>>
    BY <1>6 DEF Write
  <2> QED
    BY <2>1, AnsweredFrames DEF IncomingTypes, Emitted
<1>7. CASE Probe
  <2>1. Answered({"time"}) /\ responses' = 0 /\ UNCHANGED <<packets, frames>>
    BY <1>7 DEF Probe
  <2> QED
    <3>1. pipe' \in Seq(Emitted)
      BY <2>1, AnsweredFrames DEF IncomingTypes, Emitted
    <3> QED
      BY <2>1, <3>1, Nothing DEF IncomingTypes
<1>8. CASE ProbeFails \/ ProbeAnswered \/ TakePacket
  <2>1. /\ UNCHANGED <<pipe, frames>>
        /\ responses' \in {0, responses} \/ (responses > 0 /\ responses' = responses - 1)
        /\ packets' = packets \/ (packets > 0 /\ packets' = packets - 1)
    BY <1>8 DEF ProbeFails, ProbeAnswered, TakePacket
  <2>2. responses' \in 0..ResponsesSize /\ packets' \in 0..PacketsSize
    BY <2>1, SizeAssumption DEF IncomingTypes
  <2> QED
    BY <2>1, <2>2 DEF IncomingTypes
<1>9. CASE Hear \/ Break
  <2>1. /\ pipe' \in {<<>>, Append(pipe, "heard")}
        /\ UNCHANGED <<responses, packets, frames>>
    BY <1>9 DEF Hear, Break
  <2>2. pipe' \in Seq(Emitted)
    <3>1. "heard" \in Emitted /\ pipe \in Seq(Emitted)
      BY DEF Emitted, IncomingTypes
    <3>2. Append(pipe, "heard") \in Seq(Emitted)
      BY <3>1, AppendProperties
    <3> QED
      BY <2>1, <3>2, Nothing
  <2> QED
    BY <2>1, <2>2 DEF IncomingTypes
<1>10. CASE Supervise /\ ~Teardown
  <2>1. UNCHANGED <<responses, packets, pipe, frames>>
    BY <1>10 DEF Supervise, Start, ConnectFails, BackoffEnds
  <2> QED
    BY <1>1, <2>1
<1>11. CASE ExpectFails \/ HandshakeTimesOut \/ ReceiveFails
  BY <1>1, <1>11 DEF ExpectFails, HandshakeTimesOut, ReceiveFails
<1>12. CASE Expire \/ Drained \/ SendFails \/ ProbeTimesOut
  BY <1>1, <1>12 DEF Expire, Drained, SendFails, ProbeTimesOut
<1>13. CASE Stop \/ SendPacket \/ (\E p \in 1..given : Ages(p)) \/ FallSilent
  BY <1>1, <1>13 DEF Stop, SendPacket, Ages, FallSilent
<1>14. CASE UNCHANGED vars
  BY <1>1, <1>14 DEF vars
<1> QED
  BY <1>2, <1>3, <1>4, <1>5, <1>6, <1>7, <1>8, <1>9, <1>10, <1>11, <1>12, <1>13, <1>14,
     PumpFrames
     DEF Next, Supervise, Handshake, ReceiveLoop, SendLoop, HeartbeatLoop, Rest, Node

(* Packets are numbered as they are given, so none that is late or handed  *)
(* over was not given.                                                     *)
LEMMA OutgoingStep ==
  ASSUME OutgoingTypes, QueueInv, [Next]_vars PROVE OutgoingTypes'
<1> USE DEF OutgoingTypes, QueueInv, QueueTypeOK
<1>1. CASE Write
  <2>1. Head(outbound) \in 1..given
    BY <1>1, HeadTailProperties DEF Write
  <2> QED
    BY <1>1, <2>1 DEF Write
<1>2. CASE SendPacket
  BY <1>2 DEF SendPacket
<1>3. CASE \E p \in 1..given : Ages(p)
  BY <1>3 DEF Ages
<1>4. CASE Drained \/ Expire \/ SendFails
  BY <1>4 DEF Drained, Expire, SendFails
<1>5. CASE Teardown \/ Cancel
  BY <1>5 DEF Teardown, Cancel
<1>6. CASE UNCHANGED queue
  BY <1>6 DEF queue
<1>7. CASE UNCHANGED vars
  BY <1>7 DEF vars, outgoing
<1> QED
  BY <1>1, <1>2, <1>3, <1>4, <1>5, <1>6, <1>7, Elsewhere

TypeInv == QueueInv /\ ControlTypes /\ IncomingTypes /\ OutgoingTypes

LEMMA TypeInvHolds == Spec => []TypeInv
<1>1. Init => ControlTypes /\ IncomingTypes /\ OutgoingTypes
  <2>1. Init => ControlTypes /\ OutgoingTypes
    BY DEF Init, ControlTypes, OutgoingTypes, States, Loops, Failures
  <2>2. Init => IncomingTypes
    BY Nothing DEF Init, IncomingTypes
  <2> QED
    BY <2>1, <2>2
<1>2. TypeInv /\ [Next]_vars => TypeInv'
  BY QueueInvStep, ControlStep, IncomingStep, OutgoingStep DEF TypeInv
<1> QED
  BY <1>1, <1>2, QueueInvInit, PTL DEF Spec, TypeInv

(* Every variable stays in its type: what the node floods the link with    *)
(* never outgrows the queue of frames, of answers or of packets.           *)
THEOREM LinkTypes == Spec => []TypeOK
<1>1. TypeInv => TypeOK
  <2> SUFFICES ASSUME TypeInv PROVE TypeOK
    OBVIOUS
  <2>1. pipe \in Seq(Frames) /\ frames \in Seq(Frames)
    BY EmittedFrames, SeqMonotonic DEF TypeInv, IncomingTypes
  <2>2. outbound \in Seq(Nat) /\ given \in Nat /\ sending \in BOOLEAN
    <3>1. 1..given \subseteq Nat
      BY DEF TypeInv, QueueInv, QueueTypeOK
    <3> QED
      BY <3>1, SeqMonotonic DEF TypeInv, QueueInv, QueueTypeOK
  <2> QED
    BY <2>1, <2>2 DEF TypeInv, TypeOK, ControlTypes, IncomingTypes, OutgoingTypes
<1> QED
  BY <1>1, TypeInvHolds, PTL

---------------------------------------------------------------------------
(* What ends the supervisor                                                *)

(* The failures of a session that run does not survive have one cause.     *)
FailuresExplained ==
  /\ "timeout" \notin errors
  /\ "unsupported" \in errors => "unsupported" \in Replies
  /\ SupervisorSurvives

LEMMA FailuresStep ==
  ASSUME MayTimeOut = FALSE, IncomingTypes, FailuresExplained, [Next]_vars
  PROVE  FailuresExplained'
<1> USE DEF FailuresExplained, SupervisorSurvives, stop, outgoing, incoming, transport, supervisor,
            LoopFails, Fails
<1>1. CASE Supervise
  BY <1>1 DEF Supervise, Start, ConnectFails, Teardown, BackoffEnds, Reconnects
<1>2. CASE Connect \/ HandshakeTimesOut \/ Pump
  BY <1>2 DEF Connect, HandshakeTimesOut, Pump
<1>3. CASE Handshake
  BY <1>3 DEF Handshake, Expect, ExpectFails, Shaking
<1>4. CASE ReceiveFails
  BY <1>4 DEF ReceiveFails
<1>5. CASE Receive
  <2>1. Head(frames) = "unsupported" => "unsupported" \in Replies
    <3>1. Head(frames) \in Emitted
      BY <1>5, HeadTailProperties DEF Receive, IncomingTypes
    <3> QED
      BY <3>1 DEF Emitted
  <2> QED
    BY <1>5, <2>1 DEF Receive
<1>6. CASE SendLoop
  BY <1>6 DEF SendLoop, Expire, Write, Drained, SendFails
<1>7. CASE HeartbeatLoop
  BY <1>7 DEF HeartbeatLoop, Probe, ProbeFails, ProbeAnswered, ProbeTimesOut, ProbeMissed
<1>8. CASE Stop \/ Cancel
  BY <1>8 DEF Stop, Cancel, ClosedUnder
<1>9. CASE Rest \/ Node
  BY <1>9 DEF Rest, SendPacket, Ages, TakePacket, Node, Hear, Break, FallSilent
<1>10. CASE UNCHANGED vars
  BY <1>10 DEF vars
<1> QED
  BY <1>1, <1>2, <1>3, <1>4, <1>5, <1>6, <1>7, <1>8, <1>9, <1>10 DEF Next, ReceiveLoop

(* The handshake's timeout is the only thing that ends the supervisor for  *)
(* no reason of its own: with nodes that always answer in time, it ends    *)
(* only when it is stopped or the firmware cannot transmit.                *)
THEOREM SurvivesAllElse ==
  ASSUME MayTimeOut = FALSE PROVE Spec => []SupervisorSurvives
<1>1. Init => FailuresExplained
  BY DEF Init, FailuresExplained, SupervisorSurvives
<1>2. TypeInv /\ FailuresExplained /\ [Next]_vars => FailuresExplained'
  BY FailuresStep DEF TypeInv
<1> QED
  BY <1>1, <1>2, TypeInvHolds, PTL DEF Spec, FailuresExplained
=============================================================================
