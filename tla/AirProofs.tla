----------------------------- MODULE AirProofs ------------------------------
(***************************************************************************)
(* Theorems about what a room puts on the air and how it hears: when it    *)
(* pushes (Pacing) and adverts (Adverts), which time stamps its packets    *)
(* carry (Stamps), how long they are (PacketSize) and how a text is cut    *)
(* for them (PostText), and which frames are cut out of a stream           *)
(* (Framing), for every value of the timings, every wall clock, every      *)
(* path, text and access list and every noise.                             *)
(***************************************************************************)
EXTENDS Pacing, Adverts, Stamps, PacketSize, PostText, Framing,
        FiniteSetTheorems, SequenceTheorems, TLAPS

---------------------------------------------------------------------------
(* Pacing                                                                  *)

(* While the loop sleeps, the time since the last push and the time until  *)
(* the next one make up the interval, wherever a pause moved it.           *)
SpacingInv ==
  /\ nextPush \in Nat /\ since \in 0..SyncInterval
  /\ loop \in {"asleep", "query", "count"}
  /\ loop = "asleep" => nextPush + since >= SyncInterval
  /\ loop = "query" => since = SyncInterval

LEMMA SpacingInitial == PacingInit => SpacingInv
BY TimingsAssumption DEF PacingInit, SpacingInv

LEMMA SpacingStep == SpacingInv /\ [PacingNext]_pacingVars => SpacingInv'
<1> SUFFICES ASSUME SpacingInv, [PacingNext]_pacingVars PROVE SpacingInv'
  OBVIOUS
<1> USE TimingsAssumption DEF SpacingInv
<1>1. CASE SleepOn
  BY <1>1 DEF SleepOn
<1>2. CASE NoTurn \/ NothingOwed \/ Counted
  BY <1>2 DEF NoTurn, NothingOwed, Counted, Returns, Interval, Wakes, Due
<1>3. CASE WelcomePush
  BY <1>3 DEF WelcomePush, Returns, Interval
<1>4. CASE AskStore
  BY <1>4 DEF AskStore, Wakes, Due
<1>5. CASE PostPush
  BY <1>5 DEF PostPush
<1>6. CASE \E delay \in Delays : Answer(delay) \/ AnswerOnly(delay)
  <2>1. loop' = loop /\ since' = since /\ (nextPush' = NotifyDelay \/ nextPush' = nextPush)
    BY Zenon, <1>6 DEF Answer, AnswerOnly
  <2> QED
    BY <2>1
<1>7. CASE \E reply \in replies : Reply(reply)
  BY <1>7 DEF Reply
<1>8. CASE TimePasses
  <2>1. /\ nextPush' = Less(nextPush) /\ loop' = loop
        /\ since' = IF since < SyncInterval THEN since + 1 ELSE since
    BY <1>8 DEF TimePasses
  <2>2. SyncInterval \in Nat
    OBVIOUS
  <2>3. nextPush' \in Nat /\ since' \in 0..SyncInterval
        /\ (nextPush + since >= SyncInterval => nextPush' + since' >= SyncInterval)
    BY <2>1, <2>2 DEF Less
  <2>4. since = SyncInterval => since' = SyncInterval
    BY <2>1, <2>2
  <2> QED
    BY <2>1, <2>3, <2>4
<1>9. CASE UNCHANGED pacingVars
  BY <1>9 DEF pacingVars
<1> QED
  BY <1>1, <1>2, <1>3, <1>4, <1>5, <1>6, <1>7, <1>8, <1>9 DEF PacingNext

LEMMA SpacedPush == SpacingInv /\ Pushes => since = SyncInterval
<1> SUFFICES ASSUME SpacingInv, Pushes PROVE since = SyncInterval
  OBVIOUS
<1>1. (loop = "asleep" /\ nextPush = 0) \/ loop = "query"
  BY DEF Pushes, WelcomePush, PostPush, Wakes, Due
<1>2. SyncInterval \in Nat
  BY TimingsAssumption
<1> QED
  BY <1>1, <1>2 DEF SpacingInv

(* Two pushes are never closer than the interval between them, for all     *)
(* timings whose pause is at least that long (run_push_loop,               *)
(* _pause_pushes).                                                         *)
THEOREM PacingSpaced == PacingSpec => PushesSpaced
<1>1. SpacingInv /\ [PacingNext]_pacingVars => [Pushes => since = SyncInterval]_pacingVars
  BY SpacedPush
<1> QED
  BY <1>1, SpacingInitial, SpacingStep, PTL DEF PacingSpec, PushesSpaced

(* Unless a pause began during a turn, the loop sleeps past every reply    *)
(* that paused it.                                                         *)
PauseInv ==
  /\ nextPush \in Nat /\ late \in BOOLEAN
  /\ replies \subseteq [pausing : BOOLEAN, left : Nat]
  /\ \A reply \in replies : reply.left < NotifyDelay
  /\ ~late => \A reply \in replies :
                reply.pausing => loop = "asleep" /\ nextPush > reply.left

LEMMA PauseInitial == PacingInit => PauseInv
<1> SUFFICES ASSUME PacingInit PROVE PauseInv
  OBVIOUS
<1>1. nextPush = 0 /\ replies = {}
  BY DEF PacingInit
<1>2. late \in BOOLEAN
  BY Zenon DEF PacingInit
<1> QED
  BY <1>1, <1>2 DEF PauseInv

LEMMA PauseStep == PauseInv /\ [PacingNext]_pacingVars => PauseInv'
<1> SUFFICES ASSUME PauseInv, [PacingNext]_pacingVars PROVE PauseInv'
  OBVIOUS
<1> USE TimingsAssumption DEF PauseInv
<1>1. CASE SleepOn
  BY <1>1 DEF SleepOn
<1>2. CASE NoTurn \/ NothingOwed \/ Counted
  BY <1>2 DEF NoTurn, NothingOwed, Counted, Returns, Interval, Wakes, Due
<1>3. CASE WelcomePush
  BY <1>3 DEF WelcomePush, Returns, Interval, Wakes, Due
<1>4. CASE AskStore
  BY <1>4 DEF AskStore, Wakes, Due
<1>5. CASE PostPush
  BY <1>5 DEF PostPush
<1>6. ASSUME NEW delay \in Delays, Answer(delay) PROVE PauseInv'
  <2>1. delay \in Nat /\ delay < NotifyDelay
    BY DEF Delays
  <2>2. replies' \subseteq [pausing : BOOLEAN, left : Nat]
        /\ \A reply \in replies' : reply.left < NotifyDelay
    <3>1. replies' = replies \cup {[pausing |-> TRUE, left |-> delay]}
      BY <1>6 DEF Answer, Schedule
    <3>2. [pausing |-> TRUE, left |-> delay] \in [pausing : BOOLEAN, left : Nat]
      BY <2>1
    <3>3. [pausing |-> TRUE, left |-> delay].left = delay
      OBVIOUS
    <3>4. replies \subseteq [pausing : BOOLEAN, left : Nat]
          /\ \A reply \in replies : reply.left < NotifyDelay
      OBVIOUS
    <3> QED
      BY Zenon, <2>1, <3>1, <3>2, <3>3, <3>4
  <2>3. nextPush' = NotifyDelay /\ NotifyDelay \in Nat /\ loop' = loop
    BY <1>6 DEF Answer
  <2>4. late' \in BOOLEAN /\ (~late' => loop = "asleep")
    BY Zenon, <1>6 DEF Answer
  <2> QED
    BY <2>2, <2>3, <2>4
<1>7. ASSUME NEW delay \in Delays, AnswerOnly(delay) PROVE PauseInv'
  <2>1. delay \in Nat /\ delay < NotifyDelay
    BY DEF Delays
  <2>2. replies' = replies \cup {[pausing |-> FALSE, left |-> delay]}
    BY <1>7 DEF AnswerOnly, Schedule
  <2>3. nextPush' = nextPush /\ loop' = loop /\ late' = late
    BY <1>7 DEF AnswerOnly
  <2>4. [pausing |-> FALSE, left |-> delay] \in [pausing : BOOLEAN, left : Nat]
    BY <2>1
  <2>5. \A reply \in replies' : reply \in replies \/ (reply.left = delay /\ ~reply.pausing)
    BY <2>2
  <2>6. replies' \subseteq [pausing : BOOLEAN, left : Nat]
    BY <2>2, <2>4
  <2> QED
    BY <2>1, <2>3, <2>5, <2>6
<1>8. CASE \E reply \in replies : Reply(reply)
  BY <1>8 DEF Reply
<1>9. CASE TimePasses
  <2>1. ASSUME NEW reply \in replies'
        PROVE  \E old \in replies : /\ reply \in [pausing : BOOLEAN, left : Nat]
                                   /\ reply.pausing = old.pausing /\ reply.left = old.left - 1
    BY <1>9, <2>1 DEF TimePasses
  <2>2. \A old \in replies : old.left > 0
    BY <1>9 DEF TimePasses
  <2>3. nextPush' = Less(nextPush) /\ loop' = loop /\ late' = late
    BY <1>9 DEF TimePasses
  <2> QED
    BY <2>1, <2>2, <2>3 DEF Less
<1>10. CASE UNCHANGED pacingVars
  BY <1>10 DEF pacingVars
<1> QED
  BY <1>1, <1>2, <1>3, <1>4, <1>5, <1>6, <1>7, <1>8, <1>9, <1>10 DEF PacingNext

LEMMA PushAfterReplies ==
  PauseInv /\ Pushes => late \/ \A reply \in replies : ~reply.pausing
<1> SUFFICES ASSUME PauseInv, Pushes, ~late PROVE \A reply \in replies : ~reply.pausing
  BY DEF PauseInv
<1>1. (loop = "asleep" /\ nextPush = 0) \/ loop = "query"
  BY DEF Pushes, WelcomePush, PostPush, Wakes, Due
<1> QED
  BY <1>1 DEF PauseInv

(* No push goes out before the reply it was paused for, unless the pause   *)
(* began during a turn of the loop (_pause_pushes, run_push_loop).         *)
THEOREM PacingUncrowded == PacingSpec => ReplyUncrowded
<1>1. PauseInv /\ [PacingNext]_pacingVars
        => [Pushes => late \/ \A reply \in replies : ~reply.pausing]_pacingVars
  BY PushAfterReplies
<1> QED
  BY <1>1, PauseInitial, PauseStep, PTL DEF PacingSpec, ReplyUncrowded

---------------------------------------------------------------------------
(* Stamps                                                                  *)

(* The clock knows of every stamp but a moved reply's and those up to an   *)
(* earlier process's.                                                      *)
KnownInv ==
  /\ wall \in Nat /\ lastUnique \in Nat /\ used \subseteq Nat /\ earlier \subseteq Nat
  /\ \A s \in used : s <= lastUnique \/ s \in moved \/ \E e \in earlier : s <= e

LEMMA KnownInitial == StampInit => KnownInv
BY DEF StampInit, KnownInv

LEMMA UniqueLater ==
  KnownInv => Unique \in Nat /\ Unique > lastUnique /\ Unique >= wall
BY DEF KnownInv, Unique

LEMMA KnownStep == KnownInv /\ [StampNext]_stampVars => KnownInv'
<1> SUFFICES ASSUME KnownInv, [StampNext]_stampVars PROVE KnownInv'
  OBVIOUS
<1> USE StampsAssumption DEF KnownInv
<1>u. Unique \in Nat /\ Unique > lastUnique
  BY UniqueLater
<1>1. CASE StampPacket
  BY <1>1, <1>u DEF StampPacket
<1>2. ASSUME NEW request \in 1..MaxWall, StampReply(request) PROVE KnownInv'
  <2>1. lastUnique' = Unique /\ wall' = wall /\ earlier' = earlier
    BY <1>2 DEF StampReply
  <2>2. \/ used' = used \cup {Unique + 1} /\ moved' = moved \cup {Unique + 1}
        \/ used' = used \cup {Unique} /\ moved' = moved
    BY Zenon, <1>2 DEF StampReply
  <2> HIDE DEF KnownInv
  <2>3. \A s \in used : s <= Unique \/ s \in moved \/ \E e \in earlier : s <= e
    BY <1>u DEF KnownInv
  <2>4. wall \in Nat /\ lastUnique \in Nat /\ used \subseteq Nat /\ earlier \subseteq Nat
    BY DEF KnownInv
  <2>5. used' \subseteq Nat
    <3>1. Unique + 1 \in Nat
      BY <1>u
    <3> QED
      BY <1>u, <2>2, <2>4, <3>1
  <2>6. \A s \in used' : s <= lastUnique' \/ s \in moved' \/ \E e \in earlier' : s <= e
    BY <1>u, <2>1, <2>2, <2>3
  <2> QED
    BY <1>u, <2>1, <2>4, <2>5, <2>6 DEF KnownInv
<1>3. CASE Second
  BY <1>3 DEF Second
<1>4. CASE SetBack
  BY <1>4 DEF SetBack
<1>5. CASE NewProcess
  BY <1>5 DEF NewProcess
<1>6. CASE UNCHANGED stampVars
  BY <1>6 DEF stampVars
<1> QED
  BY <1>1, <1>2, <1>3, <1>4, <1>5, <1>6 DEF StampNext

LEMMA FreshStamp ==
  KnownInv => \A s \in used : Takes(s) => s \in moved \/ \E e \in earlier : wall <= e
<1> SUFFICES ASSUME KnownInv, NEW s \in used, Takes(s), s \notin moved
             PROVE  \E e \in earlier : wall <= e
  OBVIOUS
<1>1. s > lastUnique /\ s >= wall /\ wall \in Nat /\ s \in Nat
  BY UniqueLater DEF Takes, KnownInv
<1>2. PICK e \in earlier : s <= e
  BY <1>1 DEF KnownInv
<1> QED
  BY <1>1, <1>2 DEF KnownInv

(* No two packets have one stamp, however the wall clock moves and the     *)
(* process restarts, but for a moved reply's and those an earlier process  *)
(* gave ahead of the wall clock (UniqueClock.unique_now).                  *)
THEOREM StampsAreFresh == StampSpec => StampsFresh
<1>1. KnownInv /\ [StampNext]_stampVars
        => [\A s \in used : Takes(s) => s \in moved \/ \E e \in earlier : wall <= e]_stampVars
  BY FreshStamp
<1> QED
  BY <1>1, KnownInitial, KnownStep, PTL DEF StampSpec, StampsFresh

---------------------------------------------------------------------------
(* Lengths                                                                 *)

(* Plaintext within the budget of a path fits a packet that carries it.    *)
LEMMA BudgetFits ==
  ASSUME NEW path \in 0..MaxPathSize, NEW plaintext \in Nat, plaintext <= MaxPlaintextLen(path)
  PROVE  /\ PacketLen(path, DatagramLen(plaintext)) \in Nat
         /\ PacketLen(path, DatagramLen(plaintext)) <= MaxRawTxPacket
<1> DEFINE room == MaxRawTxPacket - 2 - path - 2 - MacSize
           blocks == (plaintext + BlockSize - 1) \div BlockSize
<1>1. room \in Nat /\ room = 168 - path
  BY DEF MaxPathSize, MaxRawTxPacket, MacSize
<1>2. PICK q \in Nat : q = room \div 16 /\ 16 * q <= room
  BY <1>1
<1>3. plaintext <= 16 * q
  BY <1>2 DEF MaxPlaintextLen, BlockSize
<1>4. blocks \in Nat /\ 16 * blocks <= plaintext + 15
  BY DEF BlockSize
<1>5. blocks <= q
  BY <1>2, <1>3, <1>4
<1>6. DatagramLen(plaintext) = 4 + blocks * 16
  BY DEF DatagramLen, MacSize, BlockSize
<1> HIDE DEF room, blocks
<1> QED
  BY <1>1, <1>2, <1>4, <1>5, <1>6 DEF PacketLen, MaxRawTxPacket, MaxPathSize

LEMMA BudgetFloor ==
  ASSUME NEW path \in 0..MaxPathSize
  PROVE  MaxPlaintextLen(path) \in Nat /\ MaxPlaintextLen(path) >= 96
BY DEF MaxPlaintextLen, MaxPathSize, MaxRawTxPacket, MacSize, BlockSize

LEMMA LeastIs ==
  ASSUME NEW a \in Nat, NEW b \in Nat
  PROVE  Least(a, b) \in Nat /\ Least(a, b) <= a /\ Least(a, b) <= b
BY DEF Least

LEMMA AccessListBounded ==
  ASSUME NEW n \in Nat PROVE AccessListLen(n) \in Nat /\ AccessListLen(n) <= 95
<1>1. (MaxPlaintextLen(MaxPathSize) - 4) \div EntryLen = 13
  BY DEF MaxPlaintextLen, MaxPathSize, MaxRawTxPacket, MacSize, BlockSize, EntryLen
<1>2. Least(n, 13) \in Nat /\ Least(n, 13) <= 13
  BY LeastIs
<1> QED
  BY <1>1, <1>2 DEF AccessListLen, EntryLen

LEMMA PathReplyIsLength ==
  ASSUME NEW body \in Nat, NEW heardBy \in Nat
  PROVE  PathAndResponseLen(body, heardBy) \in Nat
<1> DEFINE blocks == (1 + heardBy + 1 + body + 15) \div 16
<1>1. blocks \in Nat
  OBVIOUS
<1>2. DatagramLen(1 + heardBy + 1 + body) = 4 + blocks * 16
  BY DEF DatagramLen, MacSize, BlockSize
<1> HIDE DEF blocks
<1> QED
  BY <1>1, <1>2 DEF PathAndResponseLen, PacketLen

(* A reply that returns a path of its own holds what the path leaves.      *)
LEMMA PathReplyFits ==
  ASSUME NEW body \in Nat, NEW heardBy \in Nat, body + heardBy <= 158
  PROVE  PathAndResponseLen(body, heardBy) <= MaxRawTxPacket
<1> DEFINE blocks == (1 + heardBy + 1 + body + 15) \div 16
<1>1. blocks \in Nat /\ blocks <= 10
  OBVIOUS
<1>2. DatagramLen(1 + heardBy + 1 + body) = 4 + blocks * 16
  BY DEF DatagramLen, MacSize, BlockSize
<1> HIDE DEF blocks
<1> QED
  BY <1>1, <1>2 DEF PathAndResponseLen, PacketLen, MaxRawTxPacket

SizeInv ==
  /\ outPath \in 0..MaxPathSize /\ members \in Nat
  /\ FitsNode

LEMMA SizeInitial == SizeInit => SizeInv
BY LengthsAssumption DEF SizeInit, SizeInv, FitsNode, MaxPathSize

LEMMA SizeStep == SizeInv /\ [SizeNext]_sizeVars => SizeInv'
<1> SUFFICES ASSUME SizeInv, [SizeNext]_sizeVars PROVE SizeInv'
  OBVIOUS
<1> USE LengthsAssumption DEF SizeInv
<1>t. TextLens \subseteq Nat /\ MemberCounts \subseteq Nat /\ outPath \in 0..MaxPathSize
  OBVIOUS
<1>0. ASSUME NEW kind, NEW path, NEW length \in Nat, SendPacket(kind, path, length),
             length <= MaxRawTxPacket \/ (kind = "accessList" /\ path = MaxPathSize)
      PROVE  SizeInv'
  <2>1. outPath' = outPath /\ members' = members
    BY <1>0 DEF SendPacket
  <2>2. \/ refused' = refused
        \/ refused' = refused \cup {[kind |-> kind, path |-> path]} /\ length > MaxRawTxPacket
    BY Zenon, <1>0 DEF SendPacket
  <2>3. ASSUME length <= MaxRawTxPacket PROVE FitsNode'
    BY <2>2, <2>3 DEF FitsNode, MaxRawTxPacket
  <2>4. ASSUME kind = "accessList", path = MaxPathSize PROVE FitsNode'
    BY <2>2, <2>4 DEF FitsNode
  <2>5. FitsNode'
    BY <1>0, <2>3, <2>4
  <2> QED
    BY <2>1, <2>5
<1>b. MaxPlaintextLen(outPath) \in Nat /\ MaxPlaintextLen(outPath) >= 96
  BY BudgetFloor
<1>p. \A path \in PathLens : path \in Nat /\ path <= 64
  BY DEF MaxPathSize
<1>1. CASE SendPush
  <2>1. PICK chars \in TextLens : SendPacket("push", outPath, PushLen(chars, outPath))
    BY <1>1 DEF SendPush
  <2> DEFINE budget == MaxPlaintextLen(outPath) - 9
  <2>b. budget \in Nat
    BY <1>b
  <2> HIDE DEF budget
  <2>c. PushTextBudget(outPath) = Least(151, budget)
    BY DEF PushTextBudget, PushOverhead, MaxPostTextLen, budget
  <2>2. PushTextBudget(outPath) \in Nat /\ PushTextBudget(outPath) <= MaxPlaintextLen(outPath) - 9
    BY <2>b, <2>c, LeastIs DEF budget
  <2>3. Least(chars, PushTextBudget(outPath)) \in Nat
        /\ Least(chars, PushTextBudget(outPath)) <= PushTextBudget(outPath)
    BY <2>2, LeastIs
  <2>4. PushLen(chars, outPath) \in Nat /\ PushLen(chars, outPath) <= MaxRawTxPacket
    BY <1>b, <2>2, <2>3, BudgetFits DEF PushLen, PushOverhead
  <2> QED
    BY <1>0, <2>1, <2>4
<1>2. CASE SendConsoleReply
  <2>1. PICK chars \in TextLens : SendPacket("console", outPath, ConsoleReplyLen(chars, outPath))
    BY <1>2 DEF SendConsoleReply
  <2>b. MaxPlaintextLen(outPath) - 5 \in Nat
    BY <1>b
  <2>2. Least(chars, MaxPlaintextLen(outPath) - 5) \in Nat
        /\ Least(chars, MaxPlaintextLen(outPath) - 5) <= MaxPlaintextLen(outPath) - 5
    BY <2>b, LeastIs
  <2>3. ConsoleReplyLen(chars, outPath) \in Nat
        /\ ConsoleReplyLen(chars, outPath) <= MaxRawTxPacket
    BY <1>b, <2>2, BudgetFits DEF ConsoleReplyLen, TextPrefix
  <2> QED
    BY <1>0, <2>1, <2>3
<1>3. CASE SendAck
  <2>1. PICK extra \in {0, 1} : SendPacket("ack", outPath, PacketLen(outPath, AckLen + extra))
    BY <1>3 DEF SendAck
  <2>2. PacketLen(outPath, AckLen + extra) \in Nat
        /\ PacketLen(outPath, AckLen + extra) <= MaxRawTxPacket
    BY DEF PacketLen, AckLen, MaxRawTxPacket, MaxPathSize
  <2> QED
    BY <1>0, <2>1, <2>2
<1>4. CASE SendAdvert
  <2>1. PICK data \in 1..MaxAdvertData : SendPacket("advert", 0, PacketLen(0, AdvertLen + data))
    BY <1>4 DEF SendAdvert
  <2>2. PacketLen(0, AdvertLen + data) \in Nat
        /\ PacketLen(0, AdvertLen + data) <= MaxRawTxPacket
    BY DEF PacketLen, AdvertLen, MaxAdvertData, MaxRawTxPacket
  <2> QED
    BY <1>0, <2>1, <2>2
<1>5. CASE SendResponse
  <2> DEFINE Body(kind) == CASE kind = "login"  -> LoginReplyLen
                             [] kind = "status" -> StatusReplyLen
                             [] OTHER           -> AccessListLen(members)
  <2>1. PICK kind \in {"login", "status", "accessList"}, heardBy \in PathLens,
             flooded \in BOOLEAN :
          IF flooded THEN SendPacket(kind, heardBy, PathAndResponseLen(Body(kind), heardBy))
                     ELSE SendPacket(kind, outPath, ResponseLen(Body(kind), outPath))
    BY <1>5 DEF SendResponse
  <2>z. LoginReplyLen = 13 /\ StatusReplyLen = 56
    BY DEF LoginReplyLen, StatusReplyLen
  <2>a. AccessListLen(members) \in Nat /\ AccessListLen(members) <= 95
    BY AccessListBounded
  <2>2. Body(kind) \in Nat /\ Body(kind) <= 95 /\ (kind # "accessList" => Body(kind) <= 56)
    <3>1. CASE kind = "login"
      BY <2>z, <3>1
    <3>2. CASE kind = "status"
      BY <2>z, <3>2
    <3>3. CASE kind = "accessList"
      BY <2>a, <3>3
    <3> QED
      BY <3>1, <3>2, <3>3
  <2>3. heardBy \in Nat /\ heardBy <= 64
    BY <1>p
  <2> HIDE DEF Body
  <2>4. CASE ~flooded
    <3>1. ResponseLen(Body(kind), outPath) \in Nat
          /\ ResponseLen(Body(kind), outPath) <= MaxRawTxPacket
      BY <1>b, <2>2, BudgetFits DEF ResponseLen
    <3> QED
      BY <1>0, <2>1, <2>4, <3>1
  <2>5. CASE flooded
    <3>1. Body(kind) + heardBy <= 158 \/ (kind = "accessList" /\ heardBy = MaxPathSize)
      BY <2>2, <2>3 DEF MaxPathSize
    <3>p. PathAndResponseLen(Body(kind), heardBy) \in Nat
      BY <2>2, <2>3, PathReplyIsLength
    <3>2. PathAndResponseLen(Body(kind), heardBy) <= MaxRawTxPacket
          \/ (kind = "accessList" /\ heardBy = MaxPathSize)
      BY <2>2, <2>3, <3>1, PathReplyFits
    <3> QED
      BY <1>0, <2>1, <2>5, <3>2, <3>p
  <2> QED
    BY <2>4, <2>5
<1>6. CASE LearnPath
  BY <1>6 DEF LearnPath, FitsNode
<1>7. CASE ForgetPath
  BY <1>7 DEF ForgetPath, FitsNode, MaxPathSize
<1>8. CASE DeclareMembers
  BY <1>8 DEF DeclareMembers, FitsNode
<1>9. CASE UNCHANGED sizeVars
  BY <1>9 DEF sizeVars, FitsNode
<1> QED
  BY <1>1, <1>2, <1>3, <1>4, <1>5, <1>6, <1>7, <1>8, <1>9 DEF SizeNext

(* Every packet of the room fits the node, over every path and for every   *)
(* text and access list, but the full list that returns a path of all 64   *)
(* bytes (max_plaintext_len, push_text_budget).                            *)
THEOREM PacketsFit == SizeSpec => []FitsNode
<1>1. SizeInv => FitsNode
  BY DEF SizeInv
<1> QED
  BY <1>1, SizeInitial, SizeStep, PTL DEF SizeSpec

---------------------------------------------------------------------------
(* Adverts                                                                 *)

AdvertSpec == AdvertInit /\ [][AdvertNext]_advertVars

(* The local timer counts from the last advert of either kind, and a flood *)
(* that is at least as frequent comes first.                               *)
AdvertInv ==
  /\ wanted \in [flood : Intervals, local : Intervals]
  /\ flood \in Nat /\ local \in Nat /\ quiet \in Nat /\ toFlood \in Nat /\ toLocal \in Nat
  /\ state = "runs" =>
       /\ local # 0 => quiet + toLocal = local
       /\ flood # 0 /\ flood <= local => toFlood <= toLocal

LEMMA AdvertInitial == AdvertInit => AdvertInv
BY DEF AdvertInit, AdvertInv

LEMMA AdvertStep == AdvertInv /\ [AdvertNext]_advertVars => AdvertInv'
<1> SUFFICES ASSUME AdvertInv, [AdvertNext]_advertVars PROVE AdvertInv'
  OBVIOUS
<1> USE IntervalsAssumption DEF AdvertInv
<1>1. CASE FirstAdvert
  BY <1>1 DEF FirstAdvert
<1>2. CASE FloodAdvert
  BY <1>2 DEF FloodAdvert, FloodDue, AfterFlood
<1>3. CASE LocalAdvert
  BY <1>3 DEF LocalAdvert, LocalDue, FloodDue, AfterLocal
<1>4. CASE NewIntervals
  BY <1>4 DEF NewIntervals
<1>5. CASE AdvertTick
  BY <1>5 DEF AdvertTick, LocalDue, FloodDue, Passed
<1>6. CASE UNCHANGED advertVars
  BY <1>6 DEF advertVars
<1> QED
  BY <1>1, <1>2, <1>3, <1>4, <1>5, <1>6 DEF AdvertNext

LEMMA LocalIsApart == AdvertInv /\ LocalAdvert => quiet = local /\ (flood = 0 \/ local < flood)
BY DEF AdvertInv, LocalAdvert, LocalDue, FloodDue

(* A local advert goes out only after a whole interval without any, and    *)
(* never when floods are at least as frequent (run_advert_loop).           *)
THEOREM LocalsAreApart == AdvertSpec => LocalsApart
<1>1. AdvertInv /\ [AdvertNext]_advertVars
        => [LocalAdvert => quiet = local /\ (flood = 0 \/ local < flood)]_advertVars
  BY LocalIsApart
<1> QED
  BY <1>1, AdvertInitial, AdvertStep, PTL DEF AdvertSpec, LocalsApart

---------------------------------------------------------------------------
(* Frames                                                                  *)

FramingSpec == FramingInit /\ [][FramingNext]_framingVars

(* No stray marker can have swallowed what begins at a place.              *)
Clear(start) == \A m \in Stray : m < start => m + 2 + MaxFrame < start

(* The reader has not passed the frame that begins at a clear place, is in *)
(* it, or has delivered it.                                                *)
NotPassed(start) ==
  \/ start \in delivered
  \/ reading = "marker" /\ at < start
  \/ reading = "header" /\ began <= start
  \/ reading = "body" /\ began <= start

FramingInv ==
  /\ stream \in Streams /\ at \in Nat /\ began \in Nat /\ needed \in Nat
  /\ reading \in {"marker", "header", "body", "stopped"}
  /\ reading \in {"header", "body"} => began \in 1..Len(stream.bytes) /\ Byte(began) = Marker
  /\ reading = "header" => at = began
  /\ reading = "body" => /\ at = began + 2 /\ at <= Len(stream.bytes)
                         /\ needed = BodyLength(stream.bytes, began)
                         /\ needed \in 1..MaxFrame
  /\ \A start \in stream.starts : Clear(start) => NotPassed(start)

LEMMA StreamFacts ==
  ASSUME stream \in Streams
  PROVE  /\ Len(stream.bytes) \in Nat
         /\ \A i \in 1..Len(stream.bytes) : Byte(i) \in 0..255
         /\ stream.starts \subseteq 1..Len(stream.bytes)
         /\ \A i \in stream.starts :
              /\ Byte(i) = Marker /\ BodyLength(stream.bytes, i) \in 1..MaxFrame
              /\ i + 2 + BodyLength(stream.bytes, i) <= Len(stream.bytes)
              /\ \A j \in stream.starts : i < j => i + 2 + BodyLength(stream.bytes, i) < j
<1>1. /\ stream.bytes \in Seq(0..255) /\ stream.starts \subseteq 1..Len(stream.bytes)
      /\ \A i \in stream.starts :
           LET length == BodyLength(stream.bytes, i)
           IN  /\ stream.bytes[i] = Marker /\ length \in 1..MaxFrame
               /\ i + 2 + length <= Len(stream.bytes)
               /\ \A j \in stream.starts : i < j => i + 2 + length < j
  BY Zenon, StreamsAssumption
<1>2. Len(stream.bytes) \in Nat /\ \A i \in 1..Len(stream.bytes) : Byte(i) \in 0..255
  BY <1>1, LenProperties, ElementOfSeq DEF Byte
<1> QED
  BY Zenon, <1>1, <1>2 DEF Byte

LEMMA StreamLength ==
  ASSUME stream \in Streams
  PROVE  /\ Len(stream.bytes) \in Nat /\ MaxFrame \in Nat
         /\ \A i \in stream.starts : i \in Nat /\ i <= Len(stream.bytes)
<1>1. Len(stream.bytes) \in Nat /\ stream.starts \subseteq 1..Len(stream.bytes)
  BY StreamFacts
<1>2. MaxFrame \in Nat
  BY Zenon, FramingAssumption
<1>3. ASSUME NEW i \in stream.starts PROVE i \in Nat /\ i <= Len(stream.bytes)
  <2>1. i \in 1..Len(stream.bytes)
    BY <1>1
  <2> QED
    BY <1>1, <2>1
<1> QED
  BY <1>1, <1>2, <1>3

(* What is between a marker the reader took for a frame's and a clear      *)
(* frame after it.                                                         *)
LEMMA MarkerBefore ==
  ASSUME stream \in Streams, NEW start \in stream.starts, Clear(start),
         NEW m \in 1..Len(stream.bytes), Byte(m) = Marker, m < start
  PROVE  m + 2 < start /\ \/ m + 2 + MaxFrame < start
                          \/ m \in stream.starts /\ m + 2 + BodyLength(stream.bytes, m) < start
<1>1. start \in Nat /\ m \in Nat /\ MaxFrame \in Nat
  BY StreamLength
<1>2. CASE m \in stream.starts
  <2>1. /\ BodyLength(stream.bytes, m) \in 1..MaxFrame
        /\ m + 2 + BodyLength(stream.bytes, m) < start
    BY <1>2, StreamFacts
  <2>2. BodyLength(stream.bytes, m) \in Nat
    BY <1>1, <2>1
  <2> QED
    BY <1>1, <1>2, <2>1, <2>2
<1>3. CASE m \notin stream.starts
  <2>1. m + 2 + MaxFrame < start
    BY <1>3 DEF Clear, Stray
  <2> QED
    BY <1>1, <2>1
<1> QED
  BY <1>2, <1>3

LEMMA FramingInitial == FramingInit => FramingInv
<1> SUFFICES ASSUME FramingInit PROVE FramingInv
  OBVIOUS
<1>1. stream.starts \subseteq 1..Len(stream.bytes) /\ Len(stream.bytes) \in Nat
  BY StreamFacts DEF FramingInit
<1> QED
  BY <1>1 DEF FramingInit, FramingInv, NotPassed

LEMMA FramingStep == FramingInv /\ [FramingNext]_framingVars => FramingInv'
<1> SUFFICES ASSUME FramingInv, [FramingNext]_framingVars PROVE FramingInv'
  OBVIOUS
<1>s. /\ stream' = stream /\ stream \in Streams /\ Len(stream.bytes) \in Nat
      /\ at \in Nat /\ began \in Nat /\ needed \in Nat /\ MaxFrame \in Nat
      /\ \A i \in stream.starts : i \in Nat /\ i <= Len(stream.bytes)
  <2>1. stream' = stream
    BY DEF FramingNext, framingVars, ScanByte, ReadHeader, ReadBody, Stop
  <2>2. stream \in Streams /\ at \in Nat /\ began \in Nat /\ needed \in Nat
    BY DEF FramingInv
  <2> QED
    BY <2>1, <2>2, StreamLength
<1>c. \A start : Clear(start)' <=> Clear(start)
  BY <1>s DEF Clear, Stray, Byte
<1>1. CASE ScanByte
  <2>1. /\ reading = "marker" /\ at + 1 <= Len(stream.bytes) /\ at' = at + 1
        /\ needed' = needed /\ delivered' = delivered
        /\ \/ Byte(at + 1) = Marker /\ reading' = "header" /\ began' = at + 1
           \/ Byte(at + 1) # Marker /\ reading' = "marker" /\ began' = began
    BY <1>1 DEF ScanByte, Has
  <2>2. ASSUME NEW start \in stream.starts, Clear(start) PROVE NotPassed(start)'
    <3>1. start \in delivered \/ at < start
      BY <2>1, <2>2 DEF FramingInv, NotPassed
    <3>2. Byte(start) = Marker /\ start \in Nat
      BY <1>s, StreamFacts
    <3> QED
      BY <1>s, <2>1, <3>1, <3>2 DEF NotPassed
  <2>3. Byte(began)' = Byte(began')
    BY <1>s DEF Byte
  <2> QED
    BY <1>s, <1>c, <2>1, <2>2, <2>3 DEF FramingInv
<1>2. CASE ReadHeader
  <2> DEFINE length == BodyLength(stream.bytes, began)
  <2>1. /\ reading = "header" /\ at + 2 <= Len(stream.bytes) /\ at' = at + 2
        /\ began' = began /\ delivered' = delivered
        /\ \/ Plausible(length) /\ reading' = "body" /\ needed' = length
           \/ ~Plausible(length) /\ reading' = "marker" /\ needed' = needed
    BY <1>2 DEF ReadHeader, Has
  <2>2. at = began /\ began \in 1..Len(stream.bytes) /\ Byte(began) = Marker
    BY <2>1 DEF FramingInv
  <2>3. length \in Nat
    <3>1. began + 1 \in 1..Len(stream.bytes) /\ began + 2 \in 1..Len(stream.bytes)
      BY <1>s, <2>1, <2>2
    <3>2. \A i \in 1..Len(stream.bytes) : Byte(i) \in 0..255
      BY <1>s, StreamFacts
    <3>3. Byte(began + 1) \in 0..255 /\ Byte(began + 2) \in 0..255
      BY Zenon, <3>1, <3>2
    <3>4. Byte(began + 1) \in Nat /\ Byte(began + 2) \in Nat
      BY <3>3
    <3> QED
      BY <3>4 DEF BodyLength, Byte
  <2>4. Plausible(length) <=> length \in 1..MaxFrame
    BY <1>s, <2>3 DEF Plausible
  <2>5. ASSUME NEW start \in stream.starts, Clear(start) PROVE NotPassed(start)'
    <3>1. start \in delivered \/ began <= start
      BY <2>1, <2>5 DEF FramingInv, NotPassed
    <3>2. began = start => Plausible(length)
      BY <1>s, <2>4, StreamFacts
    <3>3. began < start => began + 2 < start
      BY <1>s, <2>2, <2>5, MarkerBefore
    <3>4. start \in Nat
      BY <1>s
    <3> HIDE DEF length
    <3> QED
      BY <1>s, <2>1, <2>2, <3>1, <3>2, <3>3, <3>4 DEF NotPassed
  <2>6. Byte(began)' = Byte(began)
    BY <1>s, <2>1 DEF Byte
  <2>7. BodyLength(stream.bytes, began)' = length
    BY <1>s, <2>1
  <2> HIDE DEF length
  <2> QED
    BY <1>s, <1>c, <2>1, <2>2, <2>3, <2>4, <2>5, <2>6, <2>7 DEF FramingInv
<1>3. CASE ReadBody
  <2>1. /\ reading = "body" /\ at + needed <= Len(stream.bytes) /\ at' = at + needed
        /\ reading' = "marker" /\ delivered' = delivered \cup {began}
        /\ needed' = needed /\ began' = began
    BY <1>3 DEF ReadBody, Has
  <2>2. /\ at = began + 2 /\ began \in 1..Len(stream.bytes) /\ Byte(began) = Marker
        /\ needed = BodyLength(stream.bytes, began) /\ needed <= MaxFrame
    BY <1>s, <2>1 DEF FramingInv
  <2>3. ASSUME NEW start \in stream.starts, Clear(start) PROVE NotPassed(start)'
    <3>1. start \in delivered \/ began <= start
      BY <2>1, <2>3 DEF FramingInv, NotPassed
    <3>2. began < start => began + 2 + needed < start
      BY <1>s, <2>2, <2>3, MarkerBefore
    <3>3. start \in Nat
      BY <1>s
    <3> QED
      BY <1>s, <2>1, <2>2, <3>1, <3>2, <3>3 DEF NotPassed
  <2> QED
    BY <1>s, <1>c, <2>1, <2>3 DEF FramingInv
<1>4. CASE Stop
  <2>1. /\ reading' = "stopped" /\ UNCHANGED <<at, needed, began, delivered>>
        /\ \/ reading = "marker" /\ Len(stream.bytes) < at + 1
           \/ reading = "header" /\ Len(stream.bytes) < at + 2
           \/ reading = "body" /\ Len(stream.bytes) < at + needed
    BY <1>s, <1>4 DEF Stop, Has
  <2>2. ASSUME NEW start \in stream.starts, Clear(start) PROVE start \in delivered
    <3>0. start \in Nat /\ start <= Len(stream.bytes)
          /\ start + 2 + BodyLength(stream.bytes, start) <= Len(stream.bytes)
          /\ BodyLength(stream.bytes, start) \in 1..MaxFrame
      BY <1>s, StreamFacts
    <3>1. CASE reading = "marker"
      BY <1>s, <2>1, <2>2, <3>0, <3>1 DEF FramingInv, NotPassed
    <3>2. CASE reading = "header"
      <4>1. /\ at = began /\ began \in 1..Len(stream.bytes) /\ Byte(began) = Marker
            /\ start \in delivered \/ began <= start
        BY <2>2, <3>2 DEF FramingInv, NotPassed
      <4>2. began < start => began + 2 < start
        BY <1>s, <2>2, <4>1, MarkerBefore
      <4> QED
        BY <1>s, <2>1, <3>0, <3>2, <4>1, <4>2
    <3>3. CASE reading = "body"
      <4>1. /\ at = began + 2 /\ began \in 1..Len(stream.bytes) /\ Byte(began) = Marker
            /\ needed = BodyLength(stream.bytes, began) /\ needed <= MaxFrame
            /\ start \in delivered \/ began <= start
        BY <1>s, <2>2, <3>3 DEF FramingInv, NotPassed
      <4>2. began < start => began + 2 + needed < start
        <5> SUFFICES ASSUME began < start PROVE began + 2 + needed < start
          OBVIOUS
        <5>1. \/ began + 2 + MaxFrame < start
              \/ began + 2 + BodyLength(stream.bytes, began) < start
          BY <1>s, <2>2, <4>1, MarkerBefore
        <5> QED
          BY <1>s, <2>1, <4>1, <5>1, StreamLength
      <4> QED
        BY <1>s, <2>1, <3>0, <3>3, <4>1, <4>2
    <3> QED
      BY <2>1, <3>1, <3>2, <3>3
  <2> QED
    BY <1>s, <1>c, <2>1, <2>2 DEF FramingInv, NotPassed
<1>5. CASE UNCHANGED framingVars
  BY <1>5 DEF framingVars, FramingInv, NotPassed, Clear, Stray, Byte
<1> QED
  BY <1>1, <1>2, <1>3, <1>4, <1>5 DEF FramingNext

(* Every frame that no stray marker could swallow is delivered by the time *)
(* the reader stops, for every stream and every length of frame            *)
(* (read_frame).                                                           *)
THEOREM FramesAreKept == FramingSpec => []FramesKept
<1>1. FramingInv => FramesKept
  BY DEF FramingInv, FramesKept, NotPassed, Clear
<1> QED
  BY <1>1, FramingInitial, FramingStep, PTL DEF FramingSpec

---------------------------------------------------------------------------
(* PostText                                                                *)

(* An interval has a first place of a kind if it has one, and a last.      *)
LEMMA FirstPlace ==
  ASSUME NEW a \in Nat, NEW b \in Nat, NEW T \in SUBSET (a..b), T # {}
  PROVE  \E i \in T : \A j \in T : i <= j
<1> DEFINE Below == {a..(i - 1) : i \in T}
           R == StrictSubsetOrdering(a..b)
<1>1. /\ Below \subseteq FiniteSubsetsOf(a..b) /\ Below # {}
  <2>1. ASSUME NEW i \in T PROVE a..(i - 1) \in FiniteSubsetsOf(a..b)
    <3>1. i \in a..b /\ a \in Int /\ i - 1 \in Int
      OBVIOUS
    <3>2. IsFiniteSet(a..(i - 1))
      BY <3>1, FS_Interval
    <3>3. a..(i - 1) \subseteq a..b
      BY <3>1
    <3> QED
      BY <3>2, <3>3 DEF FiniteSubsetsOf
  <2> QED
    BY <2>1
<1>2. PICK X \in Below : \A Y \in Below : <<Y, X>> \notin R
  <2>1. IsWellFoundedOn(R, FiniteSubsetsOf(a..b))
    BY FS_StrictSubsetOrderingWellFounded
  <2> HIDE DEF Below, R
  <2> QED
    BY <1>1, <2>1, WFMin
<1>3. PICK i \in T : X = a..(i - 1)
  OBVIOUS
<1>4. ASSUME NEW j \in T, j < i PROVE FALSE
  <2>1. i \in a..b /\ j \in a..b
    OBVIOUS
  <2>2. j \in a..(i - 1) /\ j \notin a..(j - 1)
    BY <1>4, <2>1
  <2>3. a..(j - 1) \subseteq a..(i - 1) /\ a..(i - 1) \subseteq a..b
    BY <1>4, <2>1
  <2>4. <<a..(j - 1), a..(i - 1)>> \in R
    BY <2>2, <2>3 DEF StrictSubsetOrdering
  <2> QED
    BY <1>2, <1>3, <2>4
<1> QED
  BY <1>4

LEMMA LastPlace ==
  ASSUME NEW a \in Nat, NEW b \in Nat, NEW T \in SUBSET (a..b), T # {}
  PROVE  \E i \in T : \A j \in T : j <= i
<1> DEFINE Mirrored == {a + b - i : i \in T}
<1>1. Mirrored \in SUBSET (a..b) /\ Mirrored # {}
  OBVIOUS
<1> HIDE DEF Mirrored
<1>2. PICK m \in Mirrored : \A j \in Mirrored : m <= j
  BY <1>1, FirstPlace
<1>3. PICK i \in T : m = a + b - i
  BY DEF Mirrored
<1>4. ASSUME NEW j \in T PROVE j <= i
  <2>1. i \in a..b /\ j \in a..b
    OBVIOUS
  <2>2. a + b - j \in Mirrored
    BY DEF Mirrored
  <2>3. a + b - i <= a + b - j
    BY <1>2, <1>3, <2>2
  <2> QED
    BY <2>1, <2>3
<1> QED
  BY <1>4

(* A text of whole characters.                                             *)
Whole ==
  /\ text \in Seq(ByteKinds)
  /\ \A i \in 1..Len(text) : text[i] = "more" =>
       \E j \in 1..Len(text) : /\ j < i /\ i <= j + 3 /\ text[j] = "first"
                               /\ \A k \in (j + 1)..i : text[k] = "more"

LEMMA WholeLen == Whole => Len(text) \in Nat
BY LenProperties DEF Whole

(* Truncation takes something, no more than fits, and ends a character:    *)
(* of the four bytes before the limit one ends one.                        *)
LEMMA TruncatedAt ==
  ASSUME Whole, NEW from \in Nat, from < Len(text)
  PROVE  LET n == Truncated(from)
         IN  /\ n \in Nat /\ from < n /\ n <= Len(text) /\ n <= from + Budget
             /\ Boundary(n)
<1>n. Len(text) \in Nat /\ Budget \in Nat /\ Budget >= 4
  BY WholeLen, BudgetAssumption
<1>1. CASE Len(text) <= from + Budget
  BY <1>n, <1>1 DEF Truncated, Boundary
<1>2. CASE ~(Len(text) <= from + Budget)
  <2> DEFINE limit == from + Budget
             T == {n \in from..limit : Boundary(n)}
  <2>1. \E n \in from..limit : from < n /\ Boundary(n)
    <3> SUFFICES ASSUME \A n \in (from + 1)..limit : ~Boundary(n) PROVE FALSE
      BY <1>n
    <3>1. \A n \in (from + 1)..(from + 4) : n + 1 \in 1..Len(text) /\ text[n + 1] = "more"
      <4> SUFFICES ASSUME NEW n \in (from + 1)..(from + 4)
                   PROVE  n + 1 \in 1..Len(text) /\ text[n + 1] = "more"
        OBVIOUS
      <4>1. n \in (from + 1)..limit /\ n + 1 \in 1..Len(text)
        BY <1>n, <1>2
      <4>2. ~Boundary(n)
        BY <4>1
      <4> QED
        BY <4>1, <4>2 DEF Boundary
    <3>2. /\ text[from + 2] = "more" /\ text[from + 3] = "more"
          /\ text[from + 4] = "more" /\ text[from + 5] = "more"
          /\ from + 5 \in 1..Len(text)
      <4>1. /\ from + 1 \in (from + 1)..(from + 4) /\ from + 2 \in (from + 1)..(from + 4)
            /\ from + 3 \in (from + 1)..(from + 4) /\ from + 4 \in (from + 1)..(from + 4)
        OBVIOUS
      <4>2. (from + 1) + 1 = from + 2 /\ (from + 2) + 1 = from + 3
            /\ (from + 3) + 1 = from + 4 /\ (from + 4) + 1 = from + 5
        OBVIOUS
      <4> QED
        BY <3>1, <4>1, <4>2
    <3>3. PICK j \in 1..Len(text) : j < from + 5 /\ from + 5 <= j + 3 /\ text[j] = "first"
      BY <3>2 DEF Whole
    <3>4. j = from + 2 \/ j = from + 3 \/ j = from + 4
      BY <3>3
    <3> QED
      BY <3>2, <3>3, <3>4
  <2>2. T \in SUBSET (from..limit) /\ T # {} /\ limit \in Nat
    BY <1>n, <2>1
  <2> HIDE DEF T
  <2>3. PICK n \in T : \A m \in T : m <= n
    BY <2>2, LastPlace
  <2>4. n \in from..limit /\ Boundary(n)
    BY <2>3 DEF T
  <2>5. \A m \in (n + 1)..limit : ~Boundary(m)
    <3> SUFFICES ASSUME NEW m \in (n + 1)..limit, Boundary(m) PROVE FALSE
      OBVIOUS
    <3>1. m \in from..limit /\ ~(m <= n)
      BY <2>4
    <3>2. m \in T
      BY <3>1 DEF T
    <3> QED
      BY <2>3, <3>1, <3>2
  <2> DEFINE end == Truncated(from)
  <2>6. /\ end \in from..limit /\ Boundary(end)
        /\ \A m \in (end + 1)..limit : ~Boundary(m)
    BY <1>2, <2>4, <2>5 DEF Truncated
  <2> HIDE DEF end
  <2>7. from < end
    <3>1. PICK m \in from..limit : from < m /\ Boundary(m)
      BY <2>1
    <3> QED
      BY <2>6, <3>1
  <2>8. end \in Nat /\ end <= Len(text) /\ end <= from + Budget
    BY <1>n, <1>2, <2>6
  <2> QED
    BY <2>6, <2>7, <2>8 DEF end
<1> QED
  BY <1>1, <1>2

(* So does a piece, which ends there or before a space in it.              *)
LEMMA PieceAt ==
  ASSUME Whole, NEW from \in Nat, from < Len(text)
  PROVE  LET n == PieceEnd(from, Truncated(from))
         IN  /\ n \in Nat /\ from < n /\ n <= Len(text) /\ n <= from + Budget
             /\ Boundary(n)
<1> DEFINE to == Truncated(from)
           S == SpaceIn(from, to)
<1>1. to \in Nat /\ from < to /\ to <= Len(text) /\ to <= from + Budget /\ Boundary(to)
  BY TruncatedAt
<1>n. Len(text) \in Nat /\ Budget \in Nat
  BY WholeLen, BudgetAssumption
<1> HIDE DEF to
<1>2. CASE to < Len(text) /\ S # {}
  <2>1. PICK i : i = CHOOSE j \in S : TRUE
    OBVIOUS
  <2>2. i \in S
    BY <1>2, <2>1
  <2>3. i \in (from + 2)..to /\ text[i] = "space"
    BY <2>2 DEF SpaceIn
  <2>4. PieceEnd(from, to) = i - 1
    BY <1>2, <2>1 DEF PieceEnd
  <2>5. Boundary(i - 1)
    <3>1. (i - 1) + 1 = i
      BY <2>3
    <3> QED
      BY <2>3, <3>1 DEF Boundary
  <2>6. i - 1 \in Nat /\ from < i - 1 /\ i - 1 <= Len(text) /\ i - 1 <= from + Budget
    BY <1>1, <1>n, <2>3
  <2> QED
    BY <2>4, <2>5, <2>6 DEF to
<1>3. CASE ~(to < Len(text) /\ S # {})
  BY <1>1, <1>3 DEF PieceEnd, to
<1> QED
  BY <1>2, <1>3

(* Stripping skips spaces only, and so ends between characters too.        *)
LEMMA StrippedAt ==
  ASSUME Whole, NEW from \in Nat, from <= Len(text), from > 0, Boundary(from)
  PROVE  LET n == Stripped(from)
         IN  /\ n \in Nat /\ from <= n /\ n <= Len(text) /\ Boundary(n)
             /\ \A i \in (from + 1)..n : text[i] = "space"
<1> DEFINE T == {n \in from..Len(text) : n < Len(text) => text[n + 1] # "space"}
           end == Stripped(from)
<1>n. Len(text) \in Nat
  BY WholeLen
<1>1. T \in SUBSET (from..Len(text)) /\ T # {}
  <2>1. Len(text) \in T
    BY <1>n
  <2> QED
    BY <2>1
<1> HIDE DEF T
<1>2. PICK n \in T : \A m \in T : n <= m
  BY <1>n, <1>1, FirstPlace
<1>3. n \in from..Len(text) /\ (n < Len(text) => text[n + 1] # "space")
  BY <1>2 DEF T
<1>4. ASSUME NEW i \in (from + 1)..n PROVE text[i] = "space"
  <2>1. i - 1 \in from..Len(text) /\ i - 1 < Len(text) /\ (i - 1) + 1 = i /\ ~(n <= i - 1)
    BY <1>n, <1>3
  <2>2. i - 1 \notin T
    BY <1>2, <2>1
  <2> QED
    BY <2>1, <2>2 DEF T
<1>5. /\ end \in from..Len(text) /\ \A i \in (from + 1)..end : text[i] = "space"
      /\ end < Len(text) => text[end + 1] # "space"
  BY <1>3, <1>4 DEF Stripped
<1> HIDE DEF end
<1>6. Boundary(end)
  <2>1. CASE end = from
    BY <2>1
  <2>2. CASE end # from /\ end # Len(text)
    <3>1. end \in (from + 1)..end /\ end + 1 \in 1..Len(text)
      BY <1>n, <1>5, <2>2
    <3>2. text[end] = "space"
      BY <1>5, <3>1
    <3> SUFFICES ASSUME text[end + 1] = "more" PROVE FALSE
      BY DEF Boundary
    <3>3. PICK j \in 1..Len(text) : /\ j < end + 1 /\ text[j] = "first"
                                    /\ \A k \in (j + 1)..(end + 1) : text[k] = "more"
      BY <3>1 DEF Whole
    <3>4. CASE j = end
      BY <3>2, <3>3, <3>4
    <3>5. CASE j # end
      <4>1. end \in (j + 1)..(end + 1)
        BY <1>5, <3>3, <3>5
      <4> QED
        BY <3>2, <3>3, <4>1
    <3> QED
      BY <3>4, <3>5
  <2>3. CASE end = Len(text)
    BY <2>3 DEF Boundary
  <2> QED
    BY <2>1, <2>2, <2>3
<1>7. end \in Nat /\ from <= end /\ end <= Len(text)
  BY <1>n, <1>5
<1> QED
  BY <1>5, <1>6, <1>7 DEF end

(* What is left starts between characters, and the pieces are as they      *)
(* should be.                                                              *)
TextInv ==
  /\ Whole /\ offset \in Nat /\ offset <= Len(text) /\ Boundary(offset)
  /\ chunks \in Seq([from : Nat, to : Nat])
  /\ TextKept

LEMMA TextInitial == TextInit => TextInv
<1> SUFFICES ASSUME TextInit PROVE TextInv
  OBVIOUS
<1>1. PICK n \in 1..MaxText : text \in [1..n -> ByteKinds]
  BY DEF TextInit
<1>2. text \in Seq(ByteKinds) /\ Len(text) = n /\ n \in Nat /\ n >= 1
  BY <1>1
<1>3. DOMAIN text = 1..Len(text)
  BY <1>1, <1>2
<1>4. Whole
  BY <1>2, <1>3 DEF TextInit, Whole
<1>5. Boundary(0)
  <2>1. 1 \in 1..Len(text) /\ 0 + 1 = 1
    BY <1>2
  <2>2. text[1] # "more"
    <3> SUFFICES ASSUME text[1] = "more" PROVE FALSE
      OBVIOUS
    <3>1. PICK j \in 1..Len(text) : j < 1
      BY <1>4, <2>1 DEF Whole
    <3> QED
      BY <3>1
  <2> QED
    BY <2>1, <2>2 DEF Boundary
<1>6. offset = 0 /\ chunks = <<>>
  BY DEF TextInit
<1>7. TextKept
  BY <1>6 DEF TextKept
<1> QED
  BY <1>2, <1>4, <1>5, <1>6, <1>7 DEF TextInv

LEMMA TextStep == TextInv /\ [TextNext]_textVars => TextInv'
<1> SUFFICES ASSUME TextInv, [TextNext]_textVars PROVE TextInv'
  OBVIOUS
<1>1. CASE Cut
  <2> DEFINE end == PieceEnd(offset, Truncated(offset))
             n == Stripped(end)
             piece == [from |-> offset + 1, to |-> end]
             c == Len(chunks)
  <2>n. Len(text) \in Nat /\ Budget \in Nat /\ offset \in Nat /\ Whole /\ offset < Len(text)
    BY <1>1, WholeLen, BudgetAssumption DEF TextInv, Cut
  <2>1. /\ end \in Nat /\ offset < end /\ end <= Len(text) /\ end <= offset + Budget
        /\ Boundary(end)
    BY <2>n, PieceAt
  <2>2. /\ text' = text /\ offset' = n /\ chunks' = Append(chunks, piece)
    BY <1>1 DEF Cut
  <2> HIDE DEF end
  <2>3. /\ n \in Nat /\ end <= n /\ n <= Len(text) /\ Boundary(n)
        /\ \A i \in (end + 1)..n : text[i] = "space"
    <3>1. end <= Len(text) /\ end > 0 /\ end \in Nat
      BY <2>1, <2>n
    <3> QED
      BY <2>1, <2>n, <3>1, StrippedAt
  <2> HIDE DEF n
  <2>4. /\ piece \in [from : Nat, to : Nat] /\ piece.from = offset + 1 /\ piece.to = end
    BY <2>n, <2>1
  <2> HIDE DEF piece
  <2>5. /\ c \in Nat /\ chunks' \in Seq([from : Nat, to : Nat]) /\ Len(chunks') = c + 1
        /\ \A k \in 1..c : chunks'[k] = chunks[k]
        /\ chunks'[c + 1] = piece
    BY <2>2, <2>4, AppendProperties, LenProperties DEF TextInv
  <2>6. DOMAIN chunks = 1..c /\ DOMAIN chunks' = 1..(c + 1)
    BY <2>5, LenProperties DEF TextInv
  <2>7. ASSUME NEW k \in 1..c PROVE chunks[k].from \in Nat /\ chunks[k].to \in Nat
    <3>1. chunks[k] \in [from : Nat, to : Nat]
      BY ElementOfSeq DEF TextInv
    <3> QED
      BY <3>1
  <2> HIDE DEF c
  <2>8. ASSUME NEW i \in 1..n, text[i] # "space"
        PROVE  \E k \in 1..(c + 1) : chunks'[k].from <= i /\ i <= chunks'[k].to
    <3>1. CASE i <= offset
      <4>1. PICK k \in 1..c : chunks[k].from <= i /\ i <= chunks[k].to
        <5>1. i \in 1..offset
          BY <2>n, <3>1
        <5> QED
          BY <2>6, <2>8, <5>1 DEF TextInv, TextKept
      <4> QED
        BY <2>5, <4>1
    <3>2. CASE ~(i <= offset)
      <4>1. i <= end
        <5>1. i > end => i \in (end + 1)..n
          BY <2>1
        <5> QED
          BY <2>1, <2>3, <2>8, <5>1
      <4> QED
        BY <2>n, <2>4, <2>5, <3>2, <4>1
    <3> QED
      BY <3>1, <3>2
  <2>b. \A m : Boundary(m) => Boundary(m)'
    BY <2>2 DEF Boundary
  <2>9. ASSUME NEW k \in 1..(c + 1)
        PROVE  /\ chunks'[k].from <= chunks'[k].to /\ chunks'[k].to < chunks'[k].from + Budget
               /\ Boundary(chunks'[k].from - 1) /\ Boundary(chunks'[k].to)
               /\ chunks'[k].to <= n
               /\ \A l \in 1..(c + 1) : k < l => chunks'[k].to < chunks'[l].from
    <3>1. CASE k = c + 1
      <4>1. (offset + 1) - 1 = offset /\ Boundary(offset)
        BY <2>n DEF TextInv
      <4>2. \A l \in 1..(c + 1) : ~(k < l)
        BY <2>5, <3>1
      <4>3. chunks'[k].from = offset + 1 /\ chunks'[k].to = end
        BY <2>4, <2>5, <3>1
      <4> QED
        BY <2>n, <2>1, <2>3, <4>1, <4>2, <4>3
    <3>2. CASE k # c + 1
      <4>1. k \in 1..c /\ chunks'[k] = chunks[k]
        BY <2>5, <3>2
      <4>2. /\ chunks[k].from <= chunks[k].to /\ chunks[k].to < chunks[k].from + Budget
            /\ Boundary(chunks[k].from - 1) /\ Boundary(chunks[k].to)
            /\ chunks[k].to <= offset
            /\ \A l \in 1..c : k < l => chunks[k].to < chunks[l].from
        BY <2>6, <4>1 DEF TextInv, TextKept
      <4>3. ASSUME NEW l \in 1..(c + 1), k < l PROVE chunks[k].to < chunks'[l].from
        <5>1. CASE l = c + 1
          <6>1. chunks'[l].from = offset + 1
            BY <2>4, <2>5, <5>1
          <6>2. chunks[k].to \in Nat /\ chunks[k].to <= offset
            BY <2>7, <4>1, <4>2
          <6> QED
            BY <2>n, <6>1, <6>2
        <5>2. CASE l # c + 1
          <6>1. l \in 1..c /\ chunks'[l] = chunks[l]
            BY <2>5, <5>2
          <6> QED
            BY <4>2, <4>3, <6>1
        <5> QED
          BY <5>1, <5>2
      <4>4. chunks[k].to <= n
        BY <2>n, <2>1, <2>3, <2>7, <4>1, <4>2
      <4> QED
        BY <4>1, <4>2, <4>3, <4>4
    <3> QED
      BY <3>1, <3>2
  <2>10. TextKept'
    BY <2>2, <2>6, <2>8, <2>9, <2>b DEF TextKept
  <2>11. Whole'
    BY <2>n, <2>2 DEF Whole
  <2> QED
    BY <2>2, <2>3, <2>5, <2>10, <2>11, <2>b DEF TextInv
<1>2. CASE UNCHANGED textVars
  BY <1>2 DEF textVars, TextInv, Whole, Boundary, TextKept
<1> QED
  BY <1>1, <1>2 DEF TextNext

(* Every letter of a welcome is in its pieces once and in order, and every *)
(* piece is some whole characters within the budget, for every text and    *)
(* every budget that holds a character (utf8_split, utf8_truncate).        *)
THEOREM TextIsKept == TextSpec => []TextKept
<1>1. TextInv => TextKept
  BY DEF TextInv
<1> QED
  BY <1>1, TextInitial, TextStep, PTL DEF TextSpec
=============================================================================
