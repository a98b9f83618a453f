------------------------------- MODULE Pacing -------------------------------
(***************************************************************************)
(* When a room transmits (room/server.py, run_push_loop and                *)
(* _pause_pushes; mesh/scheduler.py): the push loop takes a turn at a      *)
(* time, replies wait for their delay beside it, and a reply to a login or *)
(* a new post puts the loop's next turn off.                               *)
(*                                                                         *)
(* Time passes in ticks, and nothing that is due waits for the next one.   *)
(* What a turn finds to push is in RoomServer; here it finds something or  *)
(* not, and the database takes as long as it likes.  Replies of one kind   *)
(* that are due at one time stand for one.                                 *)
(*                                                                         *)
(* An operator Bug_... is a plausible error in the operator that follows   *)
(* it: the properties are tested against it.                               *)
(***************************************************************************)
EXTENDS Naturals, FiniteSets

CONSTANTS SyncInterval, IdleInterval, NotifyDelay,  \* Timings, in ticks
          AckDelay, ResponseDelay,
          MaxReplies                                \* bound: replies under way

ASSUME TimingsAssumption ==
  /\ {SyncInterval, IdleInterval, NotifyDelay, AckDelay, ResponseDelay} \subseteq Nat \ {0}
  /\ AckDelay < NotifyDelay /\ ResponseDelay < NotifyDelay /\ SyncInterval <= NotifyDelay

VARIABLES
  nextPush,      \* ticks until _next_push
  loop, wake,    \* what the loop waits for: the clock, for wake ticks, or the store
  replies,       \* _tasks: replies that wait for their delay
  since,         \* ticks since the last push, up to SyncInterval (history)
  late           \* the last pause began during a turn of the loop (history)

pacingVars == <<nextPush, loop, wake, replies, since, late>>

Delays  == {AckDelay, ResponseDelay}
Replies == [pausing : BOOLEAN, left : 0..NotifyDelay]

---------------------------------------------------------------------------
(* run_push_loop                                                           *)

(* The loop sleeps until the turn it knew of, and looks again.             *)
Bug_NotReread == TRUE
Due == nextPush = 0

Wakes == loop = "asleep" /\ wake = 0

SleepOn ==
  /\ Wakes /\ ~Due /\ wake' = nextPush
  /\ UNCHANGED <<nextPush, loop, replies, since, late>>

(* push_once returned.                                                     *)
Bug_AlwaysIdle(pushed) == IdleInterval
Interval(pushed) == IF pushed THEN SyncInterval ELSE IdleInterval

Returns(pushed) ==
  /\ loop' = "asleep" /\ nextPush' = Interval(pushed) /\ wake' = Interval(pushed)
  /\ UNCHANGED <<replies, late>>

(* It is not this client's time, or there is no client.                    *)
NoTurn == Wakes /\ Due /\ Returns(FALSE) /\ UNCHANGED since

WelcomePush == Wakes /\ Due /\ Returns(TRUE) /\ since' = 0

(* It asks the store for the next post, ...                                *)
AskStore ==
  /\ Wakes /\ Due /\ loop' = "query"
  /\ UNCHANGED <<nextPush, wake, replies, since, late>>

NothingOwed == loop = "query" /\ Returns(FALSE) /\ UNCHANGED since

(* ... transmits it, and waits for the store to count it.                  *)
PostPush ==
  /\ loop = "query" /\ loop' = "count" /\ since' = 0
  /\ UNCHANGED <<nextPush, wake, replies, late>>

Counted == loop = "count" /\ Returns(TRUE) /\ UNCHANGED since

---------------------------------------------------------------------------
(* Replies                                                                 *)

(* call_later                                                              *)
Schedule(pausing, delay) ==
  /\ Cardinality(replies) < MaxReplies
  /\ replies' = replies \cup {[pausing |-> pausing, left |-> delay]}

(* _pause_pushes, and the reply to a login, to a new post or to room.post. *)
Answer(delay) ==
  /\ Schedule(TRUE, delay)
  /\ nextPush' = NotifyDelay /\ late' = (loop # "asleep")
  /\ UNCHANGED <<loop, wake, since>>

(* The acknowledgement of a retry, the reply to a request or a command.    *)
AnswerOnly(delay) ==
  /\ Schedule(FALSE, delay)
  /\ UNCHANGED <<nextPush, loop, wake, since, late>>

(* _run_later                                                              *)
Reply(reply) ==
  /\ reply.left = 0 /\ replies' = replies \ {reply}
  /\ UNCHANGED <<nextPush, loop, wake, since, late>>

---------------------------------------------------------------------------
Less(n) == IF n = 0 THEN 0 ELSE n - 1

TimePasses ==
  /\ ~Wakes /\ \A reply \in replies : reply.left > 0
  /\ nextPush' = Less(nextPush) /\ wake' = Less(wake)
  /\ replies' = {[reply EXCEPT !.left = @ - 1] : reply \in replies}
  /\ since' = IF since < SyncInterval THEN since + 1 ELSE since
  /\ UNCHANGED <<loop, late>>

PacingInit ==
  /\ nextPush = 0 /\ loop = "asleep" /\ wake = 0 /\ replies = {}
  /\ since = SyncInterval /\ late = FALSE

PacingNext ==
  \/ SleepOn \/ NoTurn \/ WelcomePush \/ AskStore \/ NothingOwed \/ PostPush \/ Counted
  \/ \E delay \in Delays : Answer(delay) \/ AnswerOnly(delay)
  \/ \E reply \in replies : Reply(reply)
  \/ TimePasses

PacingSpec == PacingInit /\ [][PacingNext]_pacingVars

---------------------------------------------------------------------------
(* Properties                                                              *)

PacingTypeOK ==
  /\ nextPush \in 0..(NotifyDelay + IdleInterval) /\ wake \in 0..(NotifyDelay + IdleInterval)
  /\ loop \in {"asleep", "query", "count"} /\ replies \subseteq Replies
  /\ since \in 0..SyncInterval /\ late \in BOOLEAN

Pushes == WelcomePush \/ PostPush

(* Safety: two pushes are never closer than the interval between them,     *)
(* though pauses and the loop's own turns move the next one at any time    *)
(* and in any order.                                                       *)
PushesSpaced == [][Pushes => since = SyncInterval]_pacingVars

(* Safety: no push goes out before the reply to a login or a new post has  *)
(* ("so the author's own ACK is not competing with a push", _store_post),  *)
(* unless the loop was in the middle of a turn when the pause began: its   *)
(* end overwrites the pause.                                               *)
ReplyUncrowded ==
  [][Pushes => late \/ \A reply \in replies : ~reply.pausing]_pacingVars
=============================================================================
