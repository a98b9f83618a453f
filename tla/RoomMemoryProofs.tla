-------------------------- MODULE RoomMemoryProofs --------------------------
(***************************************************************************)
(* Theorems about RoomServer: what is kept twice, in memory and in the     *)
(* table, agrees whenever no handler is in the middle of changing it, and  *)
(* the replay guard of a session only rises.                               *)
(*                                                                         *)
(* A handler changes the one before its await and the other after it, or   *)
(* the other way round.  The invariant therefore says, for each handler    *)
(* that waits, what differs until its transaction has run and what differs *)
(* from then until it resumes.  That a handler's transaction runs exactly  *)
(* once between the two is what the queues are for, and is proved first.   *)
(***************************************************************************)
EXTENDS RoomServerProofs

Waiting(q, x) == \E i \in 1..Len(q) : q[i] = x
Distinct(q) == \A i, j \in 1..Len(q) : q[i] = q[j] => i = j

(* The transaction of a task has not run yet, has run.                     *)
Queued(x) == Waiting(queue, x)
Finished(x) == Waiting(done, x)

(* A task that waits has one transaction, queued or finished; a task that  *)
(* does not wait has none.                                                 *)
QueueInv ==
  /\ Distinct(queue) /\ Distinct(done)
  /\ \A x \in {"handler", "push"} : ~(Queued(x) /\ Finished(x))
  /\ h = Idle <=> ~Queued("handler") /\ ~Finished("handler")
  /\ push = Ready <=> ~Queued("push") /\ ~Finished("push")

(* A login that waits is still newer than the session it will replace: one *)
(* handler waits at a time, and nothing else moves the guard.              *)
LoginGuard ==
  h.op = "login" /\ h.c \in DOMAIN sessions => h.ts > sessions[h.c].lastTs

(* Between the transaction of a login, or of a post that forgot clients,   *)
(* and the resumption of its handler, the table is ahead of the memory.    *)
SameClients ==
  DOMAIN rows = IF h.op = "login" /\ Finished("handler") THEN DOMAIN sessions \cup {h.c}
                ELSE IF h.op = "post" /\ Finished("handler") THEN DOMAIN sessions \ h.forgotten
                ELSE DOMAIN sessions

LoginDone(c) == h.op = "login" /\ Finished("handler") /\ h.c = c
CursorMoving(c) == h.op \in {"force", "ack"} /\ Queued("handler") /\ h.c = c
PathMoving(c) == h.op = "path" /\ Queued("handler") /\ h.c = c

(* The memory of a client against its row.                                 *)
CursorAgrees ==
  \A c \in DOMAIN sessions \cap DOMAIN rows :
    IF CursorMoving(c) THEN sessions[c].since = h.ts
    ELSE ~LoginDone(c) => sessions[c].since <= rows[c].since
PathAgrees ==
  \A c \in DOMAIN sessions \cap DOMAIN rows :
    IF PathMoving(c) THEN sessions[c].path = h.path
    ELSE ~LoginDone(c) => sessions[c].path = rows[c].path
GuardAgrees ==
  \A c \in DOMAIN sessions \cap DOMAIN rows :
    ~LoginDone(c) => rows[c].lastTs <= sessions[c].lastTs

(* The row a login has written and its session will be made to match.      *)
LoginRow ==
  h.op = "login" /\ Finished("handler") =>
    /\ rows[h.c].since = h.since /\ rows[h.c].lastTs = h.ts
    /\ rows[h.c].path = IF h.flood \/ h.c \notin DOMAIN sessions THEN NoPath
                        ELSE sessions[h.c].path

Agreement ==
  LoginGuard /\ SameClients /\ CursorAgrees /\ PathAgrees /\ GuardAgrees /\ LoginRow

MemoryInv == QueueInv /\ Agreement

---------------------------------------------------------------------------
(* The queues                                                              *)

LEMMA AppendWaiting ==
  ASSUME NEW q \in Queues, NEW x \in {"handler", "push"}
  PROVE  /\ \A y : Waiting(Append(q, x), y) <=> Waiting(q, y) \/ y = x
         /\ Distinct(q) /\ ~Waiting(q, x) => Distinct(Append(q, x))
<1>1. /\ Len(q) \in Nat /\ Len(Append(q, x)) = Len(q) + 1
      /\ \A i \in 1..Len(q) : Append(q, x)[i] = q[i]
      /\ Append(q, x)[Len(q) + 1] = x
  BY AppendProperties, LenProperties DEF Queues
<1>2. 1..(Len(q) + 1) = 1..Len(q) \cup {Len(q) + 1}
  BY <1>1
<1> QED
  BY <1>1, <1>2 DEF Waiting, Distinct

LEMMA TailWaiting ==
  ASSUME NEW q \in Queues, q # <<>>, Distinct(q)
  PROVE  /\ Waiting(q, Head(q)) /\ Head(q) \in {"handler", "push"} /\ Tail(q) \in Queues
         /\ \A y : Waiting(Tail(q), y) <=> Waiting(q, y) /\ y # Head(q)
         /\ Distinct(Tail(q))
<1>1. /\ Len(q) \in Nat /\ Len(q) >= 1 /\ Len(Tail(q)) = Len(q) - 1
      /\ \A i \in 1..Len(q) - 1 : Tail(q)[i] = q[i + 1]
      /\ Head(q) = q[1]
      /\ Head(q) \in {"handler", "push"} /\ Tail(q) \in Queues
  BY HeadTailProperties, LenProperties, EmptySeq DEF Queues
<1>2. ASSUME NEW y PROVE Waiting(Tail(q), y) <=> Waiting(q, y) /\ y # Head(q)
  <2>1. ASSUME Waiting(Tail(q), y) PROVE Waiting(q, y) /\ y # Head(q)
    <3>1. PICK i \in 1..Len(q) - 1 : Tail(q)[i] = y
      BY <1>1, <2>1 DEF Waiting
    <3>2. i + 1 \in 1..Len(q) /\ i + 1 # 1 /\ q[i + 1] = y /\ 1 \in 1..Len(q)
      BY <1>1, <3>1
    <3> QED
      BY <1>1, <3>2 DEF Waiting, Distinct
  <2>2. ASSUME Waiting(q, y), y # Head(q) PROVE Waiting(Tail(q), y)
    <3>1. PICK i \in 1..Len(q) : q[i] = y
      BY <2>2 DEF Waiting
    <3>2. i - 1 \in 1..Len(q) - 1 /\ Tail(q)[i - 1] = y
      BY <1>1, <2>2, <3>1
    <3> QED
      BY <1>1, <3>2 DEF Waiting
  <2> QED
    BY <2>1, <2>2
<1>3. Distinct(Tail(q))
  <2> SUFFICES ASSUME NEW i \in 1..Len(Tail(q)), NEW j \in 1..Len(Tail(q)), Tail(q)[i] = Tail(q)[j]
               PROVE  i = j
    BY DEF Distinct
  <2>1. i + 1 \in 1..Len(q) /\ j + 1 \in 1..Len(q) /\ q[i + 1] = q[j + 1]
    BY <1>1
  <2> QED
    BY <2>1 DEF Distinct
<1> QED
  BY <1>1, <1>2, <1>3 DEF Waiting

(* The job at the head of the queue runs: it is finished.                  *)
LEMMA JobRuns ==
  ASSUME Inv, QueueInv, NEW x, queue # <<>>, Head(queue) = x, JobDone,
         h' = Idle <=> h = Idle, push' = Ready <=> push = Ready
  PROVE  /\ QueueInv' /\ Queued(x) /\ ~Finished(x) /\ Finished(x)' /\ ~Queued(x)'
         /\ \A y : y # x => (Queued(y)' <=> Queued(y)) /\ (Finished(y)' <=> Finished(y))
<1>1. queue \in Queues /\ done \in Queues
  BY DEF Inv, TypeOK, TaskTypeOK, Queues
<1>2. /\ Queued(x) /\ x \in {"handler", "push"}
      /\ \A y : Queued(y)' <=> Queued(y) /\ y # x
      /\ Distinct(queue')
  BY <1>1, TailWaiting DEF QueueInv, JobDone, Queued
<1>3. ~Finished(x)
  BY <1>2 DEF QueueInv
<1>4. /\ \A y : Finished(y)' <=> Finished(y) \/ y = x
      /\ Distinct(done')
  BY <1>1, <1>2, <1>3, AppendWaiting DEF QueueInv, JobDone, Finished
<1> QED
  BY <1>2, <1>3, <1>4 DEF QueueInv

(* A task resumes: it does not wait, or waits for a transaction again.     *)
LEMMA HandlerGoesOn ==
  ASSUME Inv, QueueInv, done # <<>>, Head(done) = "handler", done' = Tail(done), UNCHANGED push,
         \/ h' = Idle /\ UNCHANGED queue
         \/ h' # Idle /\ queue' = Append(queue, "handler")
  PROVE  /\ QueueInv' /\ Finished("handler") /\ ~Queued("handler")
         /\ ~Finished("handler")'
<1>1. queue \in Queues /\ done \in Queues
  BY DEF Inv, TypeOK, TaskTypeOK, Queues
<1>2. /\ Finished("handler")
      /\ \A y : Finished(y)' <=> Finished(y) /\ y # "handler"
      /\ Distinct(done')
  BY <1>1, TailWaiting DEF QueueInv, Finished
<1>3. ~Queued("handler")
  BY <1>2 DEF QueueInv
<1>4. CASE h' = Idle /\ UNCHANGED queue
  BY <1>2, <1>3, <1>4 DEF QueueInv, Queued
<1>5. CASE h' # Idle /\ queue' = Append(queue, "handler")
  <2>1. /\ \A y : Queued(y)' <=> Queued(y) \/ y = "handler"
        /\ Distinct(queue')
    BY <1>1, <1>3, <1>5, AppendWaiting DEF QueueInv, Queued
  <2> QED
    BY <1>2, <1>3, <1>5, <2>1 DEF QueueInv
<1> QED
  BY <1>2, <1>3, <1>4, <1>5

LEMMA PushGoesOn ==
  ASSUME Inv, QueueInv, done # <<>>, Head(done) = "push", done' = Tail(done), UNCHANGED h,
         \/ push' = Ready /\ UNCHANGED queue
         \/ push' # Ready /\ queue' = Append(queue, "push")
  PROVE  /\ QueueInv'
         /\ Queued("handler")' <=> Queued("handler")
         /\ Finished("handler")' <=> Finished("handler")
<1>1. queue \in Queues /\ done \in Queues
  BY DEF Inv, TypeOK, TaskTypeOK, Queues
<1>2. /\ Finished("push")
      /\ \A y : Finished(y)' <=> Finished(y) /\ y # "push"
      /\ Distinct(done')
  BY <1>1, TailWaiting DEF QueueInv, Finished
<1>3. ~Queued("push")
  BY <1>2 DEF QueueInv
<1>4. CASE push' = Ready /\ UNCHANGED queue
  BY <1>2, <1>3, <1>4 DEF QueueInv, Queued
<1>5. CASE push' # Ready /\ queue' = Append(queue, "push")
  <2>1. /\ \A y : Queued(y)' <=> Queued(y) \/ y = "push"
        /\ Distinct(queue')
    BY <1>1, <1>3, <1>5, AppendWaiting DEF QueueInv, Queued
  <2> QED
    BY <1>2, <1>3, <1>5, <2>1 DEF QueueInv
<1> QED
  BY <1>2, <1>3, <1>4, <1>5

(* A task that does not wait may start to.                                 *)
LEMMA HandlerStarts ==
  ASSUME Inv, QueueInv, h = Idle, UNCHANGED <<push, done>>,
         \/ h' = Idle /\ UNCHANGED queue
         \/ h' # Idle /\ queue' = Append(queue, "handler")
  PROVE  /\ QueueInv'
         /\ ~Queued("handler") /\ ~Finished("handler") /\ ~Finished("handler")'
<1>1. queue \in Queues /\ done \in Queues
  BY DEF Inv, TypeOK, TaskTypeOK, Queues
<1>2. ~Queued("handler") /\ ~Finished("handler") /\ ~Finished("handler")'
  BY DEF QueueInv, Finished
<1>3. CASE h' = Idle /\ UNCHANGED queue
  BY <1>3 DEF QueueInv, Queued, Finished
<1>4. CASE h' # Idle /\ queue' = Append(queue, "handler")
  <2>1. /\ \A y : Queued(y)' <=> Queued(y) \/ y = "handler"
        /\ Distinct(queue')
    BY <1>1, <1>2, <1>4, AppendWaiting DEF QueueInv, Queued
  <2> QED
    BY <1>2, <1>4, <2>1 DEF QueueInv, Finished
<1> QED
  BY <1>2, <1>3, <1>4

LEMMA PushStarts ==
  ASSUME Inv, QueueInv, push = Ready, UNCHANGED <<h, done>>,
         \/ push' = Ready /\ UNCHANGED queue
         \/ push' # Ready /\ queue' = Append(queue, "push")
  PROVE  /\ QueueInv'
         /\ Queued("handler")' <=> Queued("handler")
         /\ Finished("handler")' <=> Finished("handler")
<1>1. queue \in Queues
  BY DEF Inv, TypeOK, TaskTypeOK, Queues
<1>2. ~Queued("push") /\ ~Finished("push")
  BY DEF QueueInv
<1>3. CASE push' = Ready /\ UNCHANGED queue
  BY <1>3 DEF QueueInv, Queued, Finished
<1>4. CASE push' # Ready /\ queue' = Append(queue, "push")
  <2>1. /\ \A y : Queued(y)' <=> Queued(y) \/ y = "push"
        /\ Distinct(queue')
    BY <1>1, <1>2, <1>4, AppendWaiting DEF QueueInv, Queued
  <2> QED
    BY <1>2, <1>4, <2>1 DEF QueueInv, Finished
<1> QED
  BY <1>3, <1>4

---------------------------------------------------------------------------
(* What the handlers do to the parts of a session that are kept twice.     *)

SameMemory ==
  /\ DOMAIN sessions' = DOMAIN sessions
  /\ \A c \in DOMAIN sessions : /\ sessions'[c].since = sessions[c].since
                                /\ sessions'[c].path = sessions[c].path
                                /\ sessions'[c].lastTs = sessions[c].lastTs

GuardRises ==
  \A c \in DOMAIN sessions \cap DOMAIN sessions' : sessions[c].lastTs <= sessions'[c].lastTs

Numbers ==
  /\ \A c \in DOMAIN sessions : sessions[c].since \in Nat /\ sessions[c].lastTs \in Nat
  /\ \A c \in DOMAIN rows : rows[c].since \in Nat /\ rows[c].lastTs \in Nat
  /\ h.op = "login" => h.since \in Nat /\ h.ts \in Nat
  /\ h.op \in {"force", "ack"} => h.ts \in Nat

LEMMA AllNumbers ==
  ASSUME Inv
  PROVE  Numbers
BY SessionFacts, RowFacts, WaitFacts
DEF Inv, TypeOK, Numbers, SessionType, LoginWait, CursorWait

(* No handler waits that changes one of the two copies, or it has changed  *)
(* both.                                                                   *)
Moving == {"login", "post", "force", "ack", "path"}
Settled ==
  \/ h.op \notin Moving
  \/ h.op \in {"force", "ack", "path"} /\ Finished("handler") /\ ~Queued("handler")

LEMMA WhenSettled ==
  ASSUME Agreement, Settled
  PROVE  /\ DOMAIN rows = DOMAIN sessions
         /\ \A c \in DOMAIN sessions : /\ sessions[c].since <= rows[c].since
                                       /\ sessions[c].path = rows[c].path
                                       /\ rows[c].lastTs <= sessions[c].lastTs
BY DEF Agreement, Settled, Moving, SameClients, CursorAgrees, PathAgrees, GuardAgrees, LoginDone,
       CursorMoving, PathMoving

(* A step that changes neither copy.                                       *)
LEMMA QuietMemory ==
  ASSUME Numbers, Agreement, SameMemory, UNCHANGED rows,
         \/ /\ UNCHANGED h
            /\ Queued("handler")' <=> Queued("handler")
            /\ Finished("handler")' <=> Finished("handler")
         \/ Settled /\ h'.op \notin Moving
  PROVE  Agreement' /\ GuardRises
<1>1. GuardRises
  BY DEF SameMemory, GuardRises, Numbers
<1>2. CASE /\ UNCHANGED h
           /\ Queued("handler")' <=> Queued("handler")
           /\ Finished("handler")' <=> Finished("handler")
  <2>1. LoginGuard' /\ SameClients'
    BY <1>2 DEF Agreement, SameMemory, LoginGuard, SameClients
  <2>2. CursorAgrees' /\ PathAgrees'
    BY <1>2 DEF Agreement, SameMemory, CursorAgrees, PathAgrees, LoginDone, CursorMoving, PathMoving
  <2>3. GuardAgrees' /\ LoginRow'
    BY <1>2 DEF Agreement, SameMemory, GuardAgrees, LoginRow, LoginDone
  <2> QED
    BY <1>1, <2>1, <2>2, <2>3 DEF Agreement
<1>3. CASE Settled /\ h'.op \notin Moving
  <2>1. LoginGuard' /\ SameClients' /\ LoginRow'
    BY <1>3, WhenSettled DEF SameMemory, Moving, LoginGuard, SameClients, LoginRow
  <2>2. CursorAgrees' /\ PathAgrees' /\ GuardAgrees'
    BY <1>3, WhenSettled
    DEF SameMemory, Moving, CursorAgrees, PathAgrees, GuardAgrees, LoginDone, CursorMoving, PathMoving
  <2> QED
    BY <1>1, <2>1, <2>2 DEF Agreement
<1> QED
  BY <1>2, <1>3

LEMMA UpdateMemory ==
  ASSUME NEW c \in DOMAIN sessions, NEW s, Update(c, s),
         s.since = sessions[c].since, s.path = sessions[c].path, s.lastTs = sessions[c].lastTs
  PROVE  SameMemory
BY DEF Update, SameMemory

(* A step that changes the memory of one client, and leaves its row to the *)
(* transaction that is queued with it.                                     *)
LEMMA OneMemory ==
  ASSUME Numbers, Agreement, NEW c \in DOMAIN sessions, NEW s, Update(c, s), UNCHANGED rows,
         Settled, ~Finished("handler")', h'.op # "login",
         s.lastTs \in Nat, sessions[c].lastTs <= s.lastTs,
         \/ s.since = sessions[c].since /\ h'.op \notin {"force", "ack"}
         \/ h'.op \in {"force", "ack"} /\ h'.c = c /\ Queued("handler")' /\ s.since = h'.ts,
         \/ s.path = sessions[c].path /\ h'.op # "path"
         \/ h'.op = "path" /\ h'.c = c /\ Queued("handler")' /\ s.path = h'.path
  PROVE  Agreement' /\ GuardRises
<1>1. /\ DOMAIN sessions' = DOMAIN sessions /\ sessions'[c] = s
      /\ \A d \in DOMAIN sessions : d # c => sessions'[d] = sessions[d]
  BY DEF Update
<1>2. /\ DOMAIN rows = DOMAIN sessions
      /\ \A d \in DOMAIN sessions : /\ sessions[d].since <= rows[d].since
                                    /\ sessions[d].path = rows[d].path
                                    /\ rows[d].lastTs <= sessions[d].lastTs
  BY WhenSettled
<1>3. GuardRises
  BY <1>1 DEF GuardRises, Numbers
<1>4. LoginGuard' /\ SameClients' /\ LoginRow'
  BY <1>1, <1>2 DEF LoginGuard, SameClients, LoginRow
<1>5. CursorAgrees' /\ PathAgrees'
  BY <1>1, <1>2 DEF CursorAgrees, PathAgrees, LoginDone, CursorMoving, PathMoving
<1>6. GuardAgrees'
  BY <1>1, <1>2 DEF GuardAgrees, Numbers
<1> QED
  BY <1>3, <1>4, <1>5, <1>6 DEF Agreement

---------------------------------------------------------------------------
(* The database thread.                                                    *)
LEMMA HandlerJobs ==
  ASSUME Inv, MemoryInv, NEW op \in Moving \cup {"clear", "read"}, HandlerJob(op), JobDone,
         UNCHANGED push, h'.op = h.op
  PROVE  /\ QueueInv' /\ Queued("handler") /\ ~Finished("handler")
         /\ Finished("handler")' /\ ~Queued("handler")'
<1>1. h # Idle /\ h' # Idle
  BY DEF HandlerJob, Idle, Moving
<1> QED
  BY <1>1, JobRuns DEF HandlerJob, MemoryInv

LEMMA DatabaseMemory ==
  ASSUME Inv, MemoryInv, Database
  PROVE  MemoryInv' /\ GuardRises
<1> USE AllNumbers
<1>0. QueueInv /\ Agreement
  BY DEF MemoryInv
<1>1. CASE DbNextUnsynced \/ DbCount
  <2>1. push # Ready /\ push' # Ready /\ UNCHANGED <<h, rows, sessions>> /\ JobDone
        /\ queue # <<>> /\ Head(queue) = "push"
    <3>1. push.pc = "read" => push \in ReadWait
      BY WaitFacts DEF Inv, TypeOK
    <3> QED
      BY <1>1, <3>1 DEF DbNextUnsynced, DbCount, PushJob, Ready, ReadWait, durable, world
  <2>2. /\ QueueInv'
        /\ Queued("handler")' <=> Queued("handler")
        /\ Finished("handler")' <=> Finished("handler")
    BY <1>0, <2>1, JobRuns
  <2>3. SameMemory
    BY <2>1 DEF SameMemory
  <2> QED
    BY <1>0, <2>1, <2>2, <2>3, QuietMemory DEF MemoryInv
<1>2. CASE DbClear \/ DbRead
  <2>1. UNCHANGED <<h, push, rows, sessions>> /\ JobDone
        /\ (HandlerJob("clear") \/ HandlerJob("read"))
    BY <1>2 DEF DbClear, DbRead, durable
  <2>2. QueueInv'
    BY <2>1, HandlerJobs
  <2>3. SameMemory /\ Settled /\ h'.op \notin Moving
    BY <2>1 DEF SameMemory, Settled, Moving, HandlerJob
  <2> QED
    BY <1>0, <2>1, <2>2, <2>3, QuietMemory DEF MemoryInv
<1>3. CASE DbLogin
  <2>1. /\ UNCHANGED <<h, push, sessions>> /\ JobDone /\ HandlerJob("login") /\ h.op = "login"
        /\ rows' = RecordLogin(rows, h.c, h.ts, h.since, h.now, h.flood)
    BY <1>3 DEF DbLogin, HandlerJob
  <2>2. QueueInv' /\ ~Finished("handler") /\ Finished("handler")'
    BY <2>1, HandlerJobs DEF Moving
  <2>3. DOMAIN rows = DOMAIN sessions
    BY <1>0, <2>1, <2>2 DEF Agreement, SameClients
  <2>4. LoginGuard' /\ SameClients' /\ GuardRises
    BY <1>0, <2>1, <2>2, <2>3 DEF Agreement, LoginGuard, SameClients, RecordLogin, GuardRises, Numbers
  <2>5. CursorAgrees' /\ PathAgrees' /\ GuardAgrees'
    BY <1>0, <2>1, <2>2, <2>3
    DEF Agreement, CursorAgrees, PathAgrees, GuardAgrees, LoginDone, CursorMoving, PathMoving, RecordLogin
  <2>6. LoginRow'
    <3>1. h.c \in DOMAIN sessions => sessions[h.c].path = rows[h.c].path
      BY <1>0, <2>1, <2>2, <2>3 DEF Agreement, PathAgrees, PathMoving, LoginDone
    <3>2. /\ rows'[h.c].since = h.since /\ rows'[h.c].lastTs = h.ts
          /\ rows'[h.c].path = IF h.flood \/ h.c \notin DOMAIN rows THEN NoPath ELSE rows[h.c].path
      BY <2>1 DEF RecordLogin
    <3> QED
      BY <2>1, <2>3, <3>1, <3>2 DEF LoginRow
  <2> QED
    BY <2>2, <2>4, <2>5, <2>6 DEF MemoryInv, Agreement
<1>4. CASE DbPost
  <2>1. /\ h \in PostWait /\ UNCHANGED <<push, sessions>> /\ JobDone /\ HandlerJob("post")
        /\ h' = [h EXCEPT !.forgotten = Prunable(settings, InFlight)]
        /\ rows' = Without(rows, Prunable(settings, InFlight))
    BY <1>4, WaitFacts DEF DbPost, HandlerJob, Inv, TypeOK
  <2>2. h.op = "post" /\ h'.op = "post" /\ h'.forgotten = Prunable(settings, InFlight)
    BY <2>1 DEF PostWait
  <2>3. QueueInv' /\ ~Finished("handler") /\ Finished("handler")'
    BY <2>1, <2>2, HandlerJobs DEF Moving
  <2>4. DOMAIN rows = DOMAIN sessions
    BY <1>0, <2>2, <2>3 DEF Agreement, SameClients
  <2>5. LoginGuard' /\ SameClients' /\ GuardRises /\ LoginRow'
    BY <2>1, <2>2, <2>3, <2>4 DEF LoginGuard, SameClients, Without, GuardRises, LoginRow, Numbers
  <2>6. CursorAgrees' /\ PathAgrees' /\ GuardAgrees'
    BY <1>0, <2>1, <2>2, <2>3, <2>4
    DEF Agreement, CursorAgrees, PathAgrees, GuardAgrees, LoginDone, CursorMoving, PathMoving, Without
  <2> QED
    BY <2>3, <2>5, <2>6 DEF MemoryInv, Agreement
<1>5. CASE DbForce \/ DbAck
  <2>1. /\ UNCHANGED <<h, push, sessions>> /\ JobDone /\ h.op \in {"force", "ack"} /\ HandlerJob(h.op)
        /\ rows' \in {ForceSyncSince(rows, h.c, h.ts), AdvanceSync(rows, h.c, h.ts)}
    BY <1>5 DEF DbForce, DbAck, HandlerJob
  <2>2. QueueInv' /\ Queued("handler") /\ ~Finished("handler") /\ Finished("handler")' /\ ~Queued("handler")'
    BY <2>1, HandlerJobs DEF Moving
  <2>3. \A c \in DOMAIN rows : rows[c] \in Rows
    BY DEF Inv, TypeOK, StoreTypeOK, IsTable
  <2>4. /\ DOMAIN rows' = DOMAIN rows
        /\ \A c \in DOMAIN rows :
             /\ rows'[c].path = rows[c].path /\ rows'[c].lastTs = rows[c].lastTs
             /\ c # h.c => rows'[c].since = rows[c].since
             /\ c = h.c => h.ts <= rows'[c].since
    BY <2>1, <2>3 DEF ForceSyncSince, AdvanceSync, Numbers, Rows
  <2>5. LoginGuard' /\ SameClients' /\ GuardRises /\ LoginRow'
    BY <1>0, <2>1, <2>4 DEF Agreement, LoginGuard, SameClients, GuardRises, LoginRow, Numbers
  <2>6. CursorAgrees'
    BY <1>0, <2>1, <2>2, <2>4 DEF Agreement, CursorAgrees, CursorMoving, LoginDone
  <2>7. PathAgrees' /\ GuardAgrees'
    BY <1>0, <2>1, <2>4 DEF Agreement, PathAgrees, GuardAgrees, PathMoving, LoginDone
  <2> QED
    BY <2>2, <2>5, <2>6, <2>7 DEF MemoryInv, Agreement
<1>6. CASE DbPath
  <2>1. /\ UNCHANGED <<h, push, sessions>> /\ JobDone /\ h.op = "path" /\ HandlerJob("path")
        /\ rows' = SetOutPath(rows, h.c, h.path)
    BY <1>6 DEF DbPath, HandlerJob
  <2>2. QueueInv' /\ Queued("handler") /\ ~Finished("handler") /\ Finished("handler")' /\ ~Queued("handler")'
    BY <2>1, HandlerJobs DEF Moving
  <2>3. \A c \in DOMAIN rows : rows[c] \in Rows
    BY DEF Inv, TypeOK, StoreTypeOK, IsTable
  <2>4. /\ DOMAIN rows' = DOMAIN rows
        /\ \A c \in DOMAIN rows :
             /\ rows'[c].since = rows[c].since /\ rows'[c].lastTs = rows[c].lastTs
             /\ rows'[c].path = IF c = h.c THEN h.path ELSE rows[c].path
    BY <2>1, <2>3 DEF SetOutPath, Rows
  <2>5. LoginGuard' /\ SameClients' /\ GuardRises /\ LoginRow'
    BY <1>0, <2>1, <2>4 DEF Agreement, LoginGuard, SameClients, GuardRises, LoginRow, Numbers
  <2>6. PathAgrees'
    BY <1>0, <2>1, <2>2, <2>4 DEF Agreement, PathAgrees, PathMoving, LoginDone
  <2>7. CursorAgrees' /\ GuardAgrees'
    BY <1>0, <2>1, <2>4 DEF Agreement, CursorAgrees, GuardAgrees, CursorMoving, LoginDone
  <2> QED
    BY <2>2, <2>5, <2>6, <2>7 DEF MemoryInv, Agreement
<1> QED
  BY <1>1, <1>2, <1>3, <1>4, <1>5, <1>6 DEF Database

---------------------------------------------------------------------------
(* The event loop.                                                         *)
LEMMA ResumedTask ==
  ASSUME Inv, MemoryInv, NEW op \in Moving \cup {"clear", "read"}, HandlerResumes(op), UNCHANGED push,
         \/ h' = Idle /\ UNCHANGED queue
         \/ h' # Idle /\ queue' = Append(queue, "handler")
  PROVE  /\ QueueInv' /\ Finished("handler") /\ ~Queued("handler") /\ ~Finished("handler")'
         /\ op \notin {"login", "post"} => Settled
BY HandlerGoesOn DEF HandlerResumes, MemoryInv, Settled, Moving

LEMMA CountsMemory ==
  ASSUME NEW s, Counts(s)
  PROVE  /\ h'.op \notin Moving
         /\ \/ h' = Idle /\ UNCHANGED queue
            \/ h' # Idle /\ queue' = Append(queue, "handler")
BY DEF Counts, HandlerWaits, Idle, Moving

(* Taking an acknowledgement moves the cursor of the client in memory, and *)
(* queues the transaction that moves it in the table.                      *)
LEMMA TakeAckMemory ==
  ASSUME Inv, NEW c \in DOMAIN sessions, NEW x \in Things, TakeAck(c, x)
  PROVE  /\ \/ h' = Idle /\ UNCHANGED queue
            \/ h' # Idle /\ queue' = Append(queue, "handler")
         /\ \/ h' = Idle /\ SameMemory
            \/ \E s : /\ Update(c, s) /\ h' = [op |-> "ack", c |-> c, ts |-> x.ts]
                     /\ s.since = x.ts /\ s.path = sessions[c].path
                     /\ s.lastTs = sessions[c].lastTs
<1>1. sessions[c] \in SessionType
  BY SessionFacts DEF Inv, TypeOK
<1> DEFINE s == [sessions[c] EXCEPT !.pending = NoAck, !.failures = 0]
           n == IF s.welcome > 0 THEN s.welcome - 1 ELSE 0
<1>2. CASE Update(c, [s EXCEPT !.welcome = n]) /\ h' = Idle /\ UNCHANGED queue
  <2>1. LET w == [s EXCEPT !.welcome = n]
        IN  /\ w.since = sessions[c].since /\ w.path = sessions[c].path
            /\ w.lastTs = sessions[c].lastTs
    BY <1>1 DEF SessionType
  <2> QED
    BY <1>2, <2>1, UpdateMemory
<1>3. CASE /\ Update(c, [s EXCEPT !.since = x.ts])
           /\ HandlerWaits([op |-> "ack", c |-> c, ts |-> x.ts])
  <2>1. LET w == [s EXCEPT !.since = x.ts]
        IN  /\ w.since = x.ts /\ w.path = sessions[c].path
            /\ w.lastTs = sessions[c].lastTs
    BY <1>1 DEF SessionType
  <2>2. h' # Idle /\ queue' = Append(queue, "handler") /\ h' = [op |-> "ack", c |-> c, ts |-> x.ts]
    BY <1>3 DEF HandlerWaits, Idle
  <2> QED
    BY <1>3, <2>1, <2>2
<1> QED
  BY <1>2, <1>3 DEF TakeAck

(* Once the queue has settled, an acknowledgement keeps the agreement.     *)
LEMMA AckAgreement ==
  ASSUME Inv, Agreement, NEW c \in DOMAIN sessions, NEW x \in Things, TakeAck(c, x), Settled,
         QueueInv', ~Finished("handler")', UNCHANGED rows
  PROVE  Agreement' /\ GuardRises
<1>1. CASE h' = Idle /\ SameMemory
  BY <1>1, AllNumbers, QuietMemory DEF Idle, Moving
<1>2. CASE \E s : /\ Update(c, s) /\ h' = [op |-> "ack", c |-> c, ts |-> x.ts]
                  /\ s.since = x.ts /\ s.path = sessions[c].path
                  /\ s.lastTs = sessions[c].lastTs
  <2>1. PICK s : /\ Update(c, s) /\ h' = [op |-> "ack", c |-> c, ts |-> x.ts]
                 /\ s.since = x.ts /\ s.path = sessions[c].path
                 /\ s.lastTs = sessions[c].lastTs
    BY <1>2
  <2>2. h'.op = "ack" /\ h'.c = c /\ h'.ts = x.ts
    BY <2>1
  <2>3. Queued("handler")'
    BY <2>2 DEF QueueInv, Idle
  <2>4. s.lastTs \in Nat /\ sessions[c].lastTs <= s.lastTs
    BY <2>1, AllNumbers DEF Numbers
  <2> QED
    BY <2>1, <2>2, <2>3, <2>4, AllNumbers, OneMemory
<1> QED
  BY <1>1, <1>2, TakeAckMemory

LEMMA ResumeMemory ==
  ASSUME Inv, MemoryInv, Resume
  PROVE  MemoryInv' /\ GuardRises
<1> USE AllNumbers
<1>0. QueueInv /\ Agreement
  BY DEF MemoryInv
<1>1. CASE ResumePush \/ ResumeCount
  <2>1. /\ UNCHANGED <<h, rows>> /\ done # <<>> /\ Head(done) = "push" /\ done' = Tail(done)
        /\ \/ push' = Ready /\ UNCHANGED queue
           \/ push' # Ready /\ queue' = Append(queue, "push")
    BY <1>1 DEF ResumePush, ResumeCount, PushResumes, Ready, Counting, durable
  <2>2. \/ UNCHANGED sessions
        \/ \E p : sessions' = Sent(sessions, push.c, p)
    BY <1>1 DEF ResumePush, ResumeCount
  <2>3. \A c \in DOMAIN sessions : sessions[c] \in SessionType
    BY SessionFacts DEF Inv, TypeOK
  <2>4. SameMemory
    <3>1. CASE UNCHANGED sessions
      BY <3>1 DEF SameMemory
    <3>2. ASSUME NEW p, sessions' = Sent(sessions, push.c, p) PROVE SameMemory
      BY <2>3, <3>2 DEF SameMemory, Sent, SessionType
    <3> QED
      BY <2>2, <3>1, <3>2
  <2> QED
    BY <1>0, <2>1, <2>4, PushGoesOn, QuietMemory DEF MemoryInv
<1>2. CASE ResumeReply \/ ResumeAck
  <2>1. /\ UNCHANGED <<push, queue, rows, sessions>> /\ h' = Idle
        /\ HandlerResumes("clear") \/ HandlerResumes("read") \/ HandlerResumes("ack")
    BY <1>2 DEF ResumeReply, ResumeAck, durable
  <2>2. QueueInv' /\ Settled
    BY <2>1, ResumedTask DEF Settled, Moving, HandlerResumes
  <2>3. SameMemory /\ h'.op \notin Moving
    BY <2>1 DEF SameMemory, Idle, Moving
  <2> QED
    BY <1>0, <2>1, <2>2, <2>3, QuietMemory DEF MemoryInv
<1>3. CASE ResumeLogin
  <2>1. /\ HandlerResumes("login") /\ h.op = "login" /\ h' = Idle /\ h'.op = "idle"
        /\ UNCHANGED <<push, queue, rows>>
    BY <1>3 DEF ResumeLogin, HandlerResumes, Idle, durable
  <2>2. QueueInv' /\ Finished("handler") /\ ~Finished("handler")'
    BY <2>1, ResumedTask DEF Moving
  <2>3. /\ DOMAIN sessions' = DOMAIN sessions \cup {h.c}
        /\ \A c \in DOMAIN sessions : c # h.c => sessions'[c] = sessions[c]
        /\ sessions'[h.c].since = h.since /\ sessions'[h.c].lastTs = h.ts
        /\ sessions'[h.c].path = IF h.flood \/ h.c \notin DOMAIN sessions THEN NoPath
                                 ELSE sessions[h.c].path
    BY <1>3 DEF ResumeLogin
  <2>4. GuardRises
    BY <1>0, <2>1, <2>3 DEF Agreement, LoginGuard, GuardRises, Numbers
  <2>5. LoginGuard' /\ SameClients' /\ LoginRow'
    BY <1>0, <2>1, <2>2, <2>3 DEF Agreement, LoginGuard, SameClients, LoginRow
  <2>6. CursorAgrees' /\ PathAgrees' /\ GuardAgrees'
    BY <1>0, <2>1, <2>2, <2>3
    DEF Agreement, CursorAgrees, PathAgrees, GuardAgrees, LoginRow, LoginDone, CursorMoving,
        PathMoving, Numbers
  <2> QED
    BY <2>2, <2>4, <2>5, <2>6 DEF MemoryInv, Agreement
<1>4. CASE ResumePost
  <2>1. /\ HandlerResumes("post") /\ h.op = "post" /\ h' = Idle /\ h'.op = "idle"
        /\ UNCHANGED <<queue, rows>> /\ sessions' = Without(sessions, h.forgotten)
    BY <1>4 DEF ResumePost, HandlerResumes, Idle, durable, ForgetSessions
  <2>2. QueueInv' /\ Finished("handler") /\ ~Finished("handler")'
    <3>1. /\ Finished("handler") /\ ~Queued("handler")
          /\ \A y : Finished(y)' <=> Finished(y) /\ y # "handler"
          /\ Distinct(done')
      <4>1. done \in Queues
        BY DEF Inv, TypeOK, TaskTypeOK, Queues
      <4>2. Finished("handler")
        BY <2>1, <4>1, <1>0, TailWaiting DEF HandlerResumes, QueueInv, Finished
      <4> QED
        BY <2>1, <4>1, <4>2, <1>0, TailWaiting DEF HandlerResumes, QueueInv, Finished
    <3>2. push' = Ready <=> push = Ready
      <4>1. push.pc = "read" => push \in ReadWait
        BY WaitFacts DEF Inv, TypeOK
      <4> QED
        BY <1>4, <4>1 DEF ResumePost, Ready, ReadWait
    <3> QED
      BY <1>0, <2>1, <3>1, <3>2 DEF QueueInv, Queued
  <2>3. /\ DOMAIN sessions' = DOMAIN rows
        /\ \A c \in DOMAIN sessions' : c \in DOMAIN sessions /\ sessions'[c] = sessions[c]
    BY <1>0, <2>1, <2>2 DEF Agreement, SameClients, Without
  <2>4. LoginGuard' /\ SameClients' /\ LoginRow' /\ GuardRises
    BY <2>1, <2>3 DEF LoginGuard, SameClients, LoginRow, GuardRises, Numbers
  <2>5. CursorAgrees' /\ PathAgrees' /\ GuardAgrees'
    BY <1>0, <2>1, <2>3
    DEF Agreement, CursorAgrees, PathAgrees, GuardAgrees, LoginDone, CursorMoving, PathMoving
  <2> QED
    BY <2>2, <2>4, <2>5 DEF MemoryInv, Agreement
<1>5. CASE ResumeForce
  <2>1. /\ HandlerResumes("force") /\ UNCHANGED <<push, rows>>
        /\ Update(h.c, [sessions[h.c] EXCEPT !.pending = NoAck])
        /\ h'.op \notin Moving
        /\ \/ h' = Idle /\ UNCHANGED queue
           \/ h' # Idle /\ queue' = Append(queue, "handler")
    BY <1>5, CountsMemory DEF ResumeForce, durable
  <2>2. QueueInv' /\ Settled
    BY <2>1, ResumedTask DEF Moving
  <2>3. SameMemory
    <3>1. \A c \in DOMAIN sessions : sessions[c] \in SessionType
      BY SessionFacts DEF Inv, TypeOK
    <3> QED
      BY <2>1, <3>1 DEF Update, SameMemory, SessionType
  <2> QED
    BY <1>0, <2>1, <2>2, <2>3, QuietMemory DEF MemoryInv
<1>6. CASE ResumePath
  <2>1. HandlerResumes("path") /\ UNCHANGED <<push, rows>> /\ h \in PathWait
    BY <1>6, WaitFacts DEF ResumePath, HandlerResumes, durable, Inv, TypeOK
  <2>2. CASE h' = Idle /\ UNCHANGED <<sessions, queue>>
    <3>1. QueueInv' /\ Settled
      BY <2>1, <2>2, ResumedTask DEF Moving
    <3>2. SameMemory /\ h'.op \notin Moving
      BY <2>2 DEF SameMemory, Idle, Moving
    <3> QED
      BY <1>0, <2>1, <3>1, <3>2, QuietMemory DEF MemoryInv
  <2>3. ASSUME NEW x \in h.extra, Matches(h.c, x), TakeAck(h.c, x)
        PROVE  MemoryInv' /\ GuardRises
    <3>1. x \in Things /\ h.c \in DOMAIN sessions
      BY <2>1, <2>3 DEF PathWait, Matches
    <3>2. QueueInv' /\ Settled /\ ~Finished("handler")'
      BY <2>1, <2>3, <3>1, TakeAckMemory, ResumedTask DEF Moving
    <3> QED
      BY <1>0, <2>1, <2>3, <3>1, <3>2, AckAgreement DEF MemoryInv
  <2> QED
    BY <1>6, <2>2, <2>3 DEF ResumePath
<1> QED
  BY <1>1, <1>2, <1>3, <1>4, <1>5, <1>6 DEF Resume

---------------------------------------------------------------------------
(* Packets: a handler runs up to its first await, or to its end.           *)

LEMMA HeardMemory ==
  ASSUME Inv, NEW c \in DOMAIN sessions, NEW ts \in Nat
  PROVE  /\ Heard(sessions[c], ts).since = sessions[c].since
         /\ Heard(sessions[c], ts).path = sessions[c].path
         /\ Heard(sessions[c], ts).lastTs = ts
         /\ Heard(sessions[c], ts) \in SessionType
<1>1. sessions[c] \in SessionType /\ WorldTypeOK
  BY SessionFacts DEF Inv, TypeOK
<1> QED
  BY <1>1, HeardType DEF Heard, SessionType

(* The prologue of a handler moves the guard; what follows may wait for a  *)
(* transaction of no interest here.                                        *)
LEMMA HeardAgreement ==
  ASSUME Inv, MemoryInv, h = Idle, NEW m \in Packets, m.c \in DOMAIN sessions,
         m.ts >= sessions[m.c].lastTs, UNCHANGED <<rows, push, done>>,
         NEW s, s \in {Heard(sessions[m.c], m.ts), [Heard(sessions[m.c], m.ts) EXCEPT !.pending = NoAck]},
         Update(m.c, s),
         \/ h' = Idle /\ UNCHANGED queue
         \/ h'.op \in {"post", "clear", "read"} /\ queue' = Append(queue, "handler")
  PROVE  MemoryInv' /\ GuardRises
<1>1. h.op = "idle" /\ h'.op \in {"idle", "post", "clear", "read"}
  BY DEF Idle
<1>2. QueueInv' /\ Settled /\ ~Finished("handler")'
  <2>1. \/ h' = Idle /\ UNCHANGED queue
        \/ h' # Idle /\ queue' = Append(queue, "handler")
    BY DEF Idle
  <2> QED
    BY <1>1, <2>1, HandlerStarts DEF MemoryInv, Settled, Moving
<1>3. /\ s.since = sessions[m.c].since /\ s.path = sessions[m.c].path /\ s.lastTs = m.ts
      /\ m.ts \in Nat
  <2>1. m.ts \in Nat
    BY PacketFacts
  <2>2. Heard(sessions[m.c], m.ts) \in SessionType
    BY <2>1, HeardMemory
  <2>3. LET w == [Heard(sessions[m.c], m.ts) EXCEPT !.pending = NoAck]
        IN  /\ w.since = Heard(sessions[m.c], m.ts).since
            /\ w.path = Heard(sessions[m.c], m.ts).path
            /\ w.lastTs = Heard(sessions[m.c], m.ts).lastTs
    BY <2>2 DEF SessionType
  <2> QED
    BY <2>1, <2>3, HeardMemory
<1>4. sessions[m.c].lastTs <= s.lastTs
  BY <1>3, AllNumbers DEF Numbers
<1>5. Numbers /\ Agreement
  BY AllNumbers DEF MemoryInv
<1> QED
  BY <1>1, <1>2, <1>3, <1>4, <1>5, OneMemory DEF MemoryInv

LEMMA InboundMemory ==
  ASSUME Inv, MemoryInv, Inbound
  PROVE  MemoryInv' /\ GuardRises
<1> USE AllNumbers
<1>0. QueueInv /\ Agreement
  BY DEF MemoryInv
<1>1. ASSUME NEW m \in Packets, NEW since \in Claims(m.c), RecvLogin(m, since)
      PROVE  MemoryInv' /\ GuardRises
  <2>1. /\ h = Idle /\ h.op = "idle" /\ UNCHANGED <<rows, sessions, push, done>>
        /\ NotReplayed(m)
        /\ h'.op = "login" /\ h'.c = m.c /\ h'.ts = m.ts /\ queue' = Append(queue, "handler")
    BY <1>1 DEF RecvLogin, Arrives, HandlerWaits, Idle, durable
  <2>2. QueueInv' /\ Settled /\ ~Finished("handler")'
    <3>1. h' # Idle
      BY <2>1 DEF Idle
    <3> QED
      BY <1>0, <2>1, <3>1, HandlerStarts DEF Settled, Moving
  <2>3. /\ DOMAIN rows = DOMAIN sessions
        /\ \A c \in DOMAIN sessions : /\ sessions[c].since <= rows[c].since
                                      /\ sessions[c].path = rows[c].path
                                      /\ rows[c].lastTs <= sessions[c].lastTs
    BY <1>0, <2>2, WhenSettled
  <2>4. LoginGuard' /\ SameClients' /\ LoginRow' /\ GuardRises
    BY <2>1, <2>2, <2>3 DEF NotReplayed, LoginGuard, SameClients, LoginRow, GuardRises, Numbers
  <2>5. CursorAgrees' /\ PathAgrees' /\ GuardAgrees'
    BY <2>1, <2>2, <2>3
    DEF CursorAgrees, PathAgrees, GuardAgrees, LoginDone, CursorMoving, PathMoving
  <2> QED
    BY <2>2, <2>4, <2>5 DEF MemoryInv, Agreement
<1>2. ASSUME NEW m \in Packets, RecvPost(m) PROVE MemoryInv' /\ GuardRises
  <2>1. \/ h' = Idle /\ UNCHANGED queue
        \/ h'.op \in {"post", "clear", "read"} /\ queue' = Append(queue, "handler")
    BY <1>2 DEF RecvPost, Arrives, PostWaits, HandlerWaits
  <2> QED
    BY <1>2, <2>1, HeardAgreement DEF RecvPost, Arrives, durable
<1>3. ASSUME NEW m \in Packets, RecvCli(m) PROVE MemoryInv' /\ GuardRises
  <2>1. \/ h' = Idle /\ UNCHANGED queue
        \/ h'.op \in {"post", "clear", "read"} /\ queue' = Append(queue, "handler")
    <3>1. /\ h = Idle
          /\ \/ UNCHANGED <<h, queue>> \/ HandlerWaits([op |-> "clear"])
             \/ PostWaits(m.c, RoomKey, <<m.c, m.ts>>)
      BY <1>3 DEF RecvCli, Arrives
    <3>2. HandlerWaits([op |-> "clear"]) => h'.op = "clear" /\ queue' = Append(queue, "handler")
      BY DEF HandlerWaits
    <3>3. PostWaits(m.c, RoomKey, <<m.c, m.ts>>)
          => h'.op = "post" /\ queue' = Append(queue, "handler")
      BY DEF PostWaits, HandlerWaits
    <3> QED
      BY <3>1, <3>2, <3>3
  <2> QED
    BY <1>3, <2>1, HeardAgreement DEF RecvCli, Arrives, durable
<1>4. ASSUME NEW m \in Packets, RecvRequest(m) PROVE MemoryInv' /\ GuardRises
  <2>1. \/ h' = Idle /\ UNCHANGED queue
        \/ h'.op \in {"post", "clear", "read"} /\ queue' = Append(queue, "handler")
    <3>1. h = Idle /\ (HandlerWaits([op |-> "read"]) \/ UNCHANGED <<h, queue>>)
      BY <1>4 DEF RecvRequest, Arrives
    <3>2. HandlerWaits([op |-> "read"]) => h'.op = "read" /\ queue' = Append(queue, "handler")
      BY DEF HandlerWaits
    <3> QED
      BY <3>1, <3>2
  <2> QED
    BY <1>4, <2>1, HeardAgreement DEF RecvRequest, Arrives, durable
<1>5. ASSUME NEW m \in Packets, NEW since \in Claims(m.c), RecvKeepAlive(m, since)
      PROVE  MemoryInv' /\ GuardRises
  <2> DEFINE s == Heard(sessions[m.c], m.ts)
  <2>1. /\ h = Idle /\ h.op = "idle" /\ m.c \in DOMAIN sessions /\ m.ts >= sessions[m.c].lastTs
        /\ UNCHANGED <<rows, push, done>>
    BY <1>5 DEF RecvKeepAlive, Arrives, Idle, durable
  <2>2. CASE Update(m.c, [s EXCEPT !.pending = NoAck]) /\ Counts(s)
    <3>1. \/ h' = Idle /\ UNCHANGED queue
          \/ h'.op \in {"post", "clear", "read"} /\ queue' = Append(queue, "handler")
      BY <2>2 DEF Counts, HandlerWaits
    <3> QED
      BY <2>1, <2>2, <3>1, HeardAgreement
  <2>3. CASE /\ Update(m.c, [s EXCEPT !.since = since])
             /\ HandlerWaits([op |-> "force", c |-> m.c, ts |-> since])
    <3>1. h'.op = "force" /\ h'.c = m.c /\ h'.ts = since /\ queue' = Append(queue, "handler")
      BY <2>3 DEF HandlerWaits
    <3>2. h' # Idle
      BY <3>1 DEF Idle
    <3>3. QueueInv' /\ Settled /\ ~Finished("handler")' /\ Queued("handler")'
      <4>1. QueueInv' /\ ~Finished("handler")'
        BY <1>0, <2>1, <3>1, <3>2, HandlerStarts
      <4> QED
        BY <2>1, <3>2, <4>1 DEF QueueInv, Settled, Moving
    <3>4. LET w == [s EXCEPT !.since = since]
          IN  /\ w.since = since /\ w.path = sessions[m.c].path /\ w.lastTs = m.ts
              /\ m.ts \in Nat
      <4>1. m.ts \in Nat
        BY PacketFacts
      <4>2. /\ s \in SessionType /\ s.path = sessions[m.c].path /\ s.lastTs = m.ts
        BY <2>1, <4>1, HeardMemory
      <4> HIDE DEF s
      <4> QED
        BY <4>1, <4>2 DEF SessionType
    <3>5. sessions[m.c].lastTs <= m.ts
      BY <2>1, <3>4 DEF Numbers
    <3> HIDE DEF s
    <3> QED
      BY <1>0, <2>1, <2>3, <3>1, <3>3, <3>4, <3>5, OneMemory DEF MemoryInv
  <2> QED
    BY <1>5, <2>2, <2>3 DEF RecvKeepAlive
<1>6. ASSUME NEW m \in Packets, NEW extra \in SUBSET acks[m.c], RecvPath(m, extra)
      PROVE  MemoryInv' /\ GuardRises
  <2> DEFINE s == [sessions[m.c] EXCEPT !.path = m.path, !.active = now]
  <2>1. /\ h = Idle /\ h.op = "idle" /\ m.c \in DOMAIN sessions /\ UNCHANGED <<rows, push, done>>
        /\ Update(m.c, s)
        /\ h'.op = "path" /\ h'.c = m.c /\ h'.path = m.path /\ queue' = Append(queue, "handler")
    BY <1>6 DEF RecvPath, Arrives, HandlerWaits, Idle, durable
  <2>2. h' # Idle
    BY <2>1 DEF Idle
  <2>3. QueueInv' /\ Settled /\ ~Finished("handler")' /\ Queued("handler")'
    <3>1. QueueInv' /\ ~Finished("handler")'
      BY <1>0, <2>1, <2>2, HandlerStarts
    <3> QED
      BY <2>1, <2>2, <3>1 DEF QueueInv, Settled, Moving
  <2>4. s.since = sessions[m.c].since /\ s.path = m.path /\ s.lastTs = sessions[m.c].lastTs
    <3>1. sessions[m.c] \in SessionType
      BY <2>1, SessionFacts DEF Inv, TypeOK
    <3> QED
      BY <3>1 DEF SessionType
  <2>5. s.lastTs \in Nat /\ sessions[m.c].lastTs <= s.lastTs
    BY <2>1, <2>4 DEF Numbers
  <2> HIDE DEF s
  <2> QED
    BY <1>0, <2>1, <2>3, <2>4, <2>5, OneMemory DEF MemoryInv
<1>7. ASSUME NEW c \in Clients, NEW x \in acks[c], RecvAck(c, x)
      PROVE  MemoryInv' /\ GuardRises
  <2>1. /\ h = Idle /\ h.op = "idle" /\ c \in DOMAIN sessions /\ TakeAck(c, x)
        /\ UNCHANGED <<rows, push, done>>
    BY <1>7 DEF RecvAck, Matches, Idle, durable
  <2>2. x \in Things
    BY DEF Inv, TypeOK, WorldTypeOK
  <2>3. QueueInv' /\ ~Finished("handler")'
    BY <1>0, <2>1, <2>2, TakeAckMemory, HandlerStarts
  <2>4. Settled
    BY <2>1 DEF Settled, Moving
  <2> QED
    BY <1>0, <2>1, <2>2, <2>3, <2>4, AckAgreement DEF MemoryInv
<1> QED
  BY <1>1, <1>2, <1>3, <1>4, <1>5, <1>6, <1>7 DEF Inbound

---------------------------------------------------------------------------
(* The rest, and the theorems                                              *)

LEMMA PushMemory ==
  ASSUME Inv, MemoryInv, NEW overdue \in SUBSET InFlight, PushOnce(overdue)
  PROVE  MemoryInv' /\ GuardRises
<1>1. \A c \in DOMAIN sessions : sessions[c] \in SessionType
  BY SessionFacts DEF Inv, TypeOK
<1> DEFINE ss == Expired(overdue)
<1>2. /\ DOMAIN ss = DOMAIN sessions
      /\ \A c \in DOMAIN sessions :
           /\ ss[c] \in SessionType /\ ss[c].since = sessions[c].since
           /\ ss[c].path = sessions[c].path /\ ss[c].lastTs = sessions[c].lastTs
  <2>1. ASSUME NEW s \in SessionType
        PROVE  LET e == [s EXCEPT !.pending = NoAck, !.failures = s.failures + 1]
               IN  e \in SessionType /\ e.since = s.since /\ e.path = s.path /\ e.lastTs = s.lastTs
    <3>1. s.failures + 1 \in Nat
      BY <2>1, ChangeType
    <3>2. \A n \in Nat : [s EXCEPT !.pending = NoAck, !.failures = n] \in SessionType
      BY <2>1, ChangeType
    <3>3. \A n \in Nat : LET e == [s EXCEPT !.pending = NoAck, !.failures = n]
                         IN  e.since = s.since /\ e.path = s.path /\ e.lastTs = s.lastTs
      BY <2>1 DEF SessionType
    <3> QED
      BY <3>1, <3>2, <3>3
  <2> QED
    BY <1>1, <2>1 DEF Expired
<1> HIDE DEF ss
<1>3. ASSUME NEW c \in DOMAIN sessions, sessions' = Sent(ss, c, Welcome)
      PROVE  SameMemory
  <2>1. DOMAIN sessions' = DOMAIN sessions
    BY <1>2, <1>3 DEF Sent
  <2>2. \A d \in DOMAIN sessions :
          sessions'[d] = IF d = c THEN [ss[c] EXCEPT !.pending = Welcome] ELSE ss[d]
    BY <1>2, <1>3 DEF Sent
  <2>3. LET w == [ss[c] EXCEPT !.pending = Welcome]
        IN  w.since = ss[c].since /\ w.path = ss[c].path /\ w.lastTs = ss[c].lastTs
    BY <1>2 DEF SessionType
  <2> QED
    BY <1>2, <2>1, <2>2, <2>3 DEF SameMemory
<1>4. ASSUME sessions' = ss PROVE SameMemory
  BY <1>2, <1>4 DEF SameMemory
<1>5. SameMemory
  <2>1. \/ sessions' = ss
        \/ \E c \in DOMAIN sessions : sessions' = Sent(ss, c, Welcome)
    BY DEF PushOnce, ss
  <2> QED
    BY <1>3, <1>4, <2>1
<1>6. /\ push = Ready /\ UNCHANGED <<h, done, rows>>
      /\ \/ push' = Ready /\ UNCHANGED queue
         \/ push' # Ready /\ queue' = Append(queue, "push")
  BY DEF PushOnce, Ready, durable
<1>7. /\ QueueInv'
      /\ Queued("handler")' <=> Queued("handler")
      /\ Finished("handler")' <=> Finished("handler")
  BY <1>6, PushStarts DEF MemoryInv
<1> QED
  BY <1>5, <1>6, <1>7, AllNumbers, QuietMemory DEF MemoryInv

LEMMA RestartMemory ==
  ASSUME Inv, NEW cfg \in Configs, Restart(cfg)
  PROVE  MemoryInv'
<1>1. /\ h' = Idle /\ h'.op = "idle" /\ push' = Ready /\ queue' = <<>> /\ done' = <<>>
      /\ DOMAIN sessions' = DOMAIN rows'
      /\ \A c \in DOMAIN rows' :
           /\ sessions'[c].since = rows'[c].since /\ sessions'[c].path = rows'[c].path
           /\ sessions'[c].lastTs = rows'[c].lastTs
  BY DEF Restart, Rehydrated, Idle
<1>2. /\ DOMAIN rows' \subseteq DOMAIN rows /\ \A c \in DOMAIN rows' : rows'[c] = rows[c]
  BY DEF Restart, Without
<1>3. QueueInv'
  BY <1>1, EmptySeq DEF QueueInv, Queued, Finished, Waiting, Distinct
<1>4. LoginGuard' /\ SameClients' /\ LoginRow'
  BY <1>1 DEF LoginGuard, SameClients, LoginRow
<1>5. CursorAgrees' /\ PathAgrees' /\ GuardAgrees'
  BY <1>1, <1>2, AllNumbers
  DEF CursorAgrees, PathAgrees, GuardAgrees, LoginDone, CursorMoving, PathMoving, Numbers
<1> QED
  BY <1>3, <1>4, <1>5 DEF MemoryInv, Agreement

LEMMA MemoryAgreesStep ==
  ASSUME Inv, MemoryInv, [Next]_vars
  PROVE  MemoryInv' /\ (GuardRises \/ \E cfg \in Configs : Restart(cfg))
<1>1. CASE /\ SameMemory /\ UNCHANGED <<rows, h, push, queue, done>>
  <2>1. /\ QueueInv'
        /\ Queued("handler")' <=> Queued("handler")
        /\ Finished("handler")' <=> Finished("handler")
    BY <1>1 DEF MemoryInv, QueueInv, Queued, Finished
  <2> QED
    BY <1>1, <2>1, AllNumbers, QuietMemory DEF MemoryInv
<1>2. CASE Operator
  <2>1. ASSUME NEW cfg \in Configs, Reload(cfg) PROVE MemoryInv' /\ GuardRises
    <3>1. \A c \in DOMAIN sessions : sessions[c] \in SessionType
      BY SessionFacts DEF Inv, TypeOK
    <3>2. \A c \in DOMAIN sessions :
            LET s == Reassigned(cfg, c, sessions[c])
            IN  /\ s.since = sessions[c].since /\ s.path = sessions[c].path
                /\ s.lastTs = sessions[c].lastTs
      BY <3>1 DEF Reassigned, SessionType
    <3>3. SameMemory /\ UNCHANGED <<rows, h, push, queue, done>>
      BY <2>1, <3>2 DEF Reload, SameMemory, durable, tasks
    <3>4. /\ QueueInv'
          /\ Queued("handler")' <=> Queued("handler")
          /\ Finished("handler")' <=> Finished("handler")
      BY <3>3 DEF MemoryInv, QueueInv, Queued, Finished
    <3> QED
      BY <3>3, <3>4, AllNumbers, QuietMemory DEF MemoryInv
  <2> QED
    BY <1>2, <2>1, RestartMemory DEF Operator
<1>3. CASE World \/ UNCHANGED vars
  BY <1>1, <1>3 DEF World, Receive, LoseHistory, Tick, SameMemory, vars, durable, tasks
<1>4. CASE PushLoop
  BY <1>4, PushMemory DEF PushLoop
<1> QED
  BY <1>2, <1>3, <1>4, DatabaseMemory, ResumeMemory, InboundMemory DEF Next

LEMMA MemoryHolds == Spec => []MemoryInv
<1>1. Init => MemoryInv
  <2> SUFFICES ASSUME Init PROVE MemoryInv
    OBVIOUS
  <2>1. /\ h = Idle /\ h.op = "idle" /\ push = Ready /\ queue = <<>> /\ done = <<>>
        /\ DOMAIN sessions = {} /\ DOMAIN rows = {}
    BY DEF Init, NoTable, Idle
  <2>2. QueueInv
    BY <2>1, EmptySeq DEF QueueInv, Queued, Finished, Waiting, Distinct
  <2> QED
    BY <2>1, <2>2
    DEF MemoryInv, Agreement, LoginGuard, SameClients, CursorAgrees, PathAgrees, GuardAgrees, LoginRow
<1> QED
  BY <1>1, MemoryAgreesStep, InvHolds, PTL DEF Spec

(* The sessions in memory and the rows in the table are the same clients   *)
(* whenever no handler is in the middle of changing them (_login,          *)
(* _store_post, _forget_sessions, start).                                  *)
THEOREM SessionsAlwaysMatchRows == Spec => []SessionsMatchRows
<1>1. MemoryInv => SessionsMatchRows
  BY DEF MemoryInv, Agreement, SameClients, SessionsMatchRows, Idle
<1> QED
  BY <1>1, MemoryHolds, PTL

(* When no handler waits, the cursor in memory is not ahead of the         *)
(* table's, the paths are equal and the table's replay guard is not ahead  *)
(* of the memory's, so a restart may repeat a post but never skips one.    *)
THEOREM MemoryAlwaysWithinStore == Spec => []MemoryWithinStore
<1>1. MemoryInv => MemoryWithinStore
  BY WhenSettled DEF MemoryInv, MemoryWithinStore, Settled, Moving, Idle
<1> QED
  BY <1>1, MemoryHolds, PTL

(* Only a login writes the guard of a row, and it was newer than that of   *)
(* the session, which the row is never ahead of.                           *)
LEMMA RowGuardStep ==
  ASSUME Inv, MemoryInv, [Next]_vars
  PROVE  \A c \in DOMAIN rows \cap DOMAIN rows' : rows[c].lastTs <= rows'[c].lastTs
<1> USE AllNumbers
<1>1. CASE UNCHANGED rows
  BY <1>1 DEF Numbers
<1>2. CASE DbLogin
  <2>1. h.op = "login" /\ HandlerJob("login") /\ JobDone /\ UNCHANGED <<h, push>>
        /\ rows' = RecordLogin(rows, h.c, h.ts, h.since, h.now, h.flood)
    BY <1>2 DEF DbLogin, HandlerJob
  <2>2. ~Finished("handler")
    BY <2>1, HandlerJobs DEF Moving
  <2>3. DOMAIN rows = DOMAIN sessions
    BY <2>1, <2>2 DEF MemoryInv, Agreement, SameClients
  <2>4. h.c \in DOMAIN rows => rows[h.c].lastTs <= h.ts
    BY <2>1, <2>2, <2>3 DEF MemoryInv, Agreement, LoginGuard, GuardAgrees, LoginDone, Numbers
  <2> QED
    BY <2>1, <2>4 DEF RecordLogin, Numbers
<1>3. CASE DbPost \/ \E cfg \in Configs : Restart(cfg)
  <2>1. \E S : rows' = Without(rows, S)
    BY <1>3 DEF DbPost, Restart
  <2> QED
    BY <2>1 DEF Without, Numbers
<1>4. \A c \in DOMAIN rows : rows[c] \in Rows
  BY DEF Inv, TypeOK, StoreTypeOK, IsTable
<1>5. CASE DbForce \/ DbAck \/ DbPath
  <2>1. rows' \in {ForceSyncSince(rows, h.c, h.ts), AdvanceSync(rows, h.c, h.ts),
                   SetOutPath(rows, h.c, h.path)}
    BY <1>5 DEF DbForce, DbAck, DbPath
  <2> QED
    BY <1>4, <2>1 DEF ForceSyncSince, AdvanceSync, SetOutPath, Rows, Numbers
<1> QED
  BY <1>1, <1>2, <1>3, <1>5, QuietSteps
  DEF Next, Database, Operator, Reload, World, vars, durable, DbClear, DbRead, DbNextUnsynced,
      DbCount, Receive, LoseHistory, Tick

(* While a session lives its replay guard only rises, whichever handler    *)
(* moves it and however late a login resumes, and the guard of a row       *)
(* rises over restarts too (_login, _on_text, _on_request,                 *)
(* record_login).                                                          *)
THEOREM ReplayGuardAlwaysRises == Spec => ReplayGuardRises
<1>1. Inv /\ MemoryInv /\ [Next]_vars
      => [/\ (\A c \in DOMAIN sessions \cap DOMAIN sessions' :
                sessions[c].lastTs <= sessions'[c].lastTs)
             \/ (\E cfg \in Configs : Restart(cfg))
          /\ \A c \in DOMAIN rows \cap DOMAIN rows' : rows[c].lastTs <= rows'[c].lastTs]_vars
  BY MemoryAgreesStep, RowGuardStep DEF GuardRises
<1> QED
  BY <1>1, InvHolds, MemoryHolds, PTL DEF Spec, ReplayGuardRises
=============================================================================
