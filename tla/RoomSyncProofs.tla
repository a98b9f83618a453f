--------------------------- MODULE RoomSyncProofs ---------------------------
(***************************************************************************)
(* Theorems about RoomServer: no post that a client is owed is skipped by  *)
(* its cursor or deleted by retention, whatever arrives, in whatever order *)
(* and however often, and whenever the process dies, as long as clients    *)
(* keep what they received (Forgetful = {}).                               *)
(*                                                                         *)
(* A position in the history is a number: a cursor, or the time stamp of a *)
(* post that a client may name.  The invariant says that every position    *)
(* anywhere in the system is safe, in a table, in memory, in a task that   *)
(* waits, or with a client; and that a post on its way to a client has no  *)
(* post behind it that the client is still owed.                           *)
(***************************************************************************)
EXTENDS RoomServerProofs

(* Position t is safe for client c, which holds mine: some post ever       *)
(* stored, lg, is as late as t, and what c is owed of the stored posts,    *)
(* ps, is later.                                                           *)
Safe(ps, lg, mine, c, t) ==
  /\ t = 0 \/ \E q \in lg : t <= q.ts
  /\ \A p \in ps : p.author # c /\ p \notin mine => t < p.ts

(* When c receives q, the position of q becomes safe.                      *)
Frontier(ps, lg, mine, c, q) ==
  /\ q \in lg
  /\ \A p \in ps : p.author # c /\ p \notin mine => p = q \/ q.ts < p.ts

LogInv ==
  /\ \A p \in log : 0 < p.ts
  /\ \A p, q \in log : p.ts = q.ts => p = q

HandlerInv ==
  /\ h.op = "post" => 0 < h.now
  /\ h.op = "login" => Safe(posts, log, held[h.c], h.c, h.since)
  /\ h.op \in {"force", "ack"} => Safe(posts, log, held[h.c], h.c, h.ts)
  /\ h.op = "path" => \A x \in h.extra : x = Welcome \/ x \in held[h.c]

SessionInv == \A c \in DOMAIN sessions : Safe(posts, log, held[c], c, sessions[c].since)

RowInv == \A c \in DOMAIN rows : Safe(posts, log, held[c], c, rows[c].since)

PushInv ==
  push.pc = "read" =>
    /\ push.frozen = -1 => push.c \in DOMAIN sessions
    /\ push.frozen # -1 => /\ push.frozen \in Nat
                           /\ Safe(posts, log, held[push.c], push.c, push.frozen)
    /\ \A q \in push.post : Frontier(posts, log, held[push.c], push.c, q)

ClientInv ==
  \A c \in Clients :
    /\ \A q \in held[c] : Safe(posts, log, held[c], c, q.ts)
    /\ \A x \in acks[c] : x = Welcome \/ x \in held[c]

AirInv ==
  \A pair \in air : \/ pair[2] = Welcome
                    \/ Frontier(posts, log, held[pair[1]], pair[1], pair[2])

SyncInv == LogInv /\ HandlerInv /\ SessionInv /\ RowInv /\ PushInv /\ ClientInv /\ AirInv

---------------------------------------------------------------------------
(* What every step does: the log grows, a post that appears is later than  *)
(* all before it, and clients lose nothing.                                *)
Growth ==
  /\ log \subseteq log'
  /\ \A p \in posts' : p \in posts \/ (0 < p.ts /\ \A q \in log : q.ts < p.ts)
  /\ \A c \in Clients : held[c] \subseteq held'[c]

(* Only Receive and LoseHistory change what a client holds.                *)
LEMMA HeldFrame ==
  ASSUME [Next]_vars, ~World
  PROVE  held' = held
<1>1. CASE Database
  BY <1>1 DEF Database, DbLogin, DbPost, DbClear, DbForce, DbRead, DbAck, DbPath,
              DbNextUnsynced, DbCount, world
<1>2. CASE Resume
  BY <1>2 DEF Resume, ResumeLogin, ResumePost, ResumeForce, ResumeReply, ResumeAck,
              ResumePath, ResumePush, ResumeCount, world
<1>3. CASE Inbound
  <2>1. ASSUME NEW m, NEW since, RecvLogin(m, since) \/ RecvKeepAlive(m, since)
        PROVE  held' = held
    BY <2>1 DEF RecvLogin, RecvKeepAlive, world
  <2>2. ASSUME NEW m, RecvPost(m) \/ RecvCli(m) \/ RecvRequest(m)
        PROVE  held' = held
    BY <2>2 DEF RecvPost, RecvCli, RecvRequest, world
  <2>3. ASSUME NEW m, NEW extra, RecvPath(m, extra) PROVE held' = held
    BY <2>3 DEF RecvPath, world
  <2>4. ASSUME NEW c, NEW x, RecvAck(c, x) PROVE held' = held
    BY <2>4 DEF RecvAck, world
  <2> QED
    BY <1>3, <2>1, <2>2, <2>3, <2>4 DEF Inbound
<1>4. CASE PushLoop \/ Operator
  BY <1>4 DEF PushLoop, PushOnce, Operator, Reload, Restart, world
<1>5. CASE UNCHANGED vars
  BY <1>5 DEF vars, world
<1> QED
  BY <1>1, <1>2, <1>3, <1>4, <1>5 DEF Next

LEMMA Grows ==
  ASSUME Forgetful = {}, Inv, LogInv, HandlerInv, [Next]_vars
  PROVE  Growth
<1>1. ASSUME NEW c \in Clients PROVE held[c] \subseteq held'[c]
  <2>1. CASE ~World
    BY <2>1, HeldFrame
  <2>2. CASE World
    <3>1. ASSUME NEW pair \in air, Receive(pair[1], pair[2]) PROVE held[c] \subseteq held'[c]
      BY <3>1 DEF Receive, Inv, TypeOK, WorldTypeOK
    <3>2. ASSUME NEW t, Tick(t) PROVE held[c] \subseteq held'[c]
      BY <3>2 DEF Tick
    <3>3. \A d : ~LoseHistory(d)
      BY DEF LoseHistory
    <3> QED
      BY <2>2, <3>1, <3>2, <3>3 DEF World
  <2> QED
    BY <2>1, <2>2
<1>2. CASE DbPost
  <2>1. h \in PostWait /\ 0 < h.now
    BY <1>2, WaitFacts DEF DbPost, HandlerJob, Inv, TypeOK, HandlerInv
  <2>2. PICK p \in Posts : /\ \A q \in log : q.ts < p.ts
                           /\ h.now <= p.ts
                           /\ log' = log \cup {p} /\ posts' \subseteq posts \cup {p}
    BY <1>2, NewPost
  <2>3. 0 < p.ts
    BY <2>1, <2>2 DEF PostWait, Posts
  <2> QED
    BY <1>1, <2>2, <2>3 DEF Growth
<1>3. CASE ~DbPost
  BY <1>1, <1>3, PostsFrame DEF Growth
<1> QED
  BY <1>2, <1>3

LEMMA LogStep ==
  ASSUME Inv, LogInv, HandlerInv, [Next]_vars
  PROVE  LogInv'
<1>1. CASE DbPost
  <2>1. h \in PostWait /\ 0 < h.now
    BY <1>1, WaitFacts DEF DbPost, HandlerJob, Inv, TypeOK, HandlerInv
  <2>2. PICK p \in Posts : /\ \A q \in log : q.ts < p.ts
                           /\ h.now <= p.ts
                           /\ log' = log \cup {p}
    BY <1>1, NewPost
  <2>3. 0 < p.ts
    BY <2>1, <2>2 DEF PostWait, Posts
  <2>4. \A q \in log : q.ts \in Nat
    BY DEF Inv, TypeOK, WorldTypeOK, Posts
  <2>5. p.ts \in Nat
    BY DEF Posts
  <2> QED
    BY <2>2, <2>3, <2>4, <2>5 DEF LogInv
<1>2. CASE ~DbPost
  BY <1>2, PostsFrame DEF LogInv
<1> QED
  BY <1>1, <1>2

---------------------------------------------------------------------------
(* What is safe stays safe.                                                *)
LEMMA SafeGrows ==
  ASSUME Inv, Inv', Growth, NEW c \in Clients, NEW t \in Nat, Safe(posts, log, held[c], c, t)
  PROVE  Safe(posts', log', held'[c], c, t)
<1>1. t = 0 \/ \E q \in log' : t <= q.ts
  BY DEF Growth, Safe
<1>2. ASSUME NEW p \in posts', p.author # c, p \notin held'[c] PROVE t < p.ts
  <2>1. CASE p \in posts
    BY <1>2, <2>1 DEF Growth, Safe
  <2>2. CASE 0 < p.ts /\ \A q \in log : q.ts < p.ts
    <3>1. p.ts \in Nat /\ \A q \in log : q.ts \in Nat
      BY DEF Inv, TypeOK, StoreTypeOK, WorldTypeOK, Posts
    <3> QED
      BY <2>2, <3>1 DEF Safe
  <2> QED
    BY <2>1, <2>2 DEF Growth
<1> QED
  BY <1>1, <1>2 DEF Safe

LEMMA FrontierGrows ==
  ASSUME Inv, Inv', Growth, NEW c \in Clients, NEW q,
         Frontier(posts, log, held[c], c, q)
  PROVE  Frontier(posts', log', held'[c], c, q)
<1>1. q \in log'
  BY DEF Growth, Frontier
<1>2. ASSUME NEW p \in posts', p.author # c, p \notin held'[c] PROVE p = q \/ q.ts < p.ts
  BY <1>2 DEF Growth, Frontier
<1> QED
  BY <1>1, <1>2 DEF Frontier

(* A client may name 0, and what it holds.                                 *)
LEMMA ZeroSafe ==
  ASSUME Inv, LogInv, NEW c
  PROVE  Safe(posts, log, held[c], c, 0)
BY DEF Inv, NewestKept, LogInv, Safe

LEMMA ClaimSafe ==
  ASSUME Inv, SyncInv, NEW c \in Clients, NEW since \in Claims(c)
  PROVE  Safe(posts, log, held[c], c, since)
BY ZeroSafe DEF Claims, SyncInv, ClientInv

(* Receiving the post at the frontier makes its position safe.             *)
LEMMA FrontierSafe ==
  ASSUME LogInv, NEW ps \in SUBSET log, NEW mine, NEW c, NEW q \in mine,
         Frontier(ps, log, mine, c, q), log \subseteq Posts
  PROVE  Safe(ps, log, mine, c, q.ts)
<1>1. q \in log /\ q.ts \in Nat
  BY DEF Frontier, Posts
<1>2. q.ts <= q.ts
  BY <1>1
<1> QED
  BY <1>1, <1>2 DEF Frontier, Safe

---------------------------------------------------------------------------
(* A step keeps a part of the invariant if what it changes of that part is *)
(* safe where the step starts.                                             *)
HandlerKept ==
  \/ h' = h
  \/ h'.op \in {"idle", "read", "clear"}
  \/ h'.op = "post" /\ 0 < h'.now
  \/ h'.op = "login" /\ Safe(posts, log, held[h'.c], h'.c, h'.since)
  \/ h'.op \in {"force", "ack"} /\ Safe(posts, log, held[h'.c], h'.c, h'.ts)
  \/ h'.op = "path" /\ \A x \in h'.extra : x = Welcome \/ x \in held[h'.c]
SessionsKept ==
  \A c \in DOMAIN sessions' :
    \/ c \in DOMAIN sessions /\ sessions'[c].since = sessions[c].since
    \/ Safe(posts, log, held[c], c, sessions'[c].since)
RowsKept ==
  \A c \in DOMAIN rows' :
    \/ c \in DOMAIN rows /\ rows'[c].since = rows[c].since
    \/ Safe(posts, log, held[c], c, rows'[c].since)
PushKept ==
  \/ push' = push /\ DOMAIN sessions \subseteq DOMAIN sessions'
  \/ push'.pc # "read"
ClientsKept == held' = held /\ \A c \in Clients : acks'[c] \subseteq acks[c]
AirKept ==
  \A pair \in air' : \/ pair \in air \/ pair[2] = Welcome
                     \/ Frontier(posts, log, held[pair[1]], pair[1], pair[2])

LEMMA NextHandlerFacts ==
  ASSUME TaskTypeOK'
  PROVE  /\ h'.op = "login" => h'.c \in Clients /\ h'.since \in Nat
         /\ h'.op \in {"force", "ack"} => h'.c \in Clients /\ h'.ts \in Nat
         /\ h'.op = "path" => h'.c \in Clients
<1>1. h' \in Handlers
  BY DEF TaskTypeOK
<1> QED
  BY <1>1 DEF Handlers, Idle, LoginWait, PostWait, CursorWait, PathWait, ReplyWait

LEMMA HandlerStays ==
  ASSUME Inv, Inv', SyncInv, Growth, HandlerKept
  PROVE  HandlerInv'
<1>1. CASE h' = h
  <2>1. h.op = "post" => 0 < h.now
    BY DEF SyncInv, HandlerInv
  <2>2. ASSUME h.op = "login" PROVE Safe(posts', log', held'[h.c], h.c, h.since)
    <3>1. h.c \in Clients /\ h.since \in Nat
      BY <2>2, WaitFacts DEF Inv, TypeOK, LoginWait
    <3> QED
      BY <2>2, <3>1, SafeGrows DEF SyncInv, HandlerInv
  <2>3. ASSUME h.op \in {"force", "ack"} PROVE Safe(posts', log', held'[h.c], h.c, h.ts)
    <3>1. h.c \in Clients /\ h.ts \in Nat
      BY <2>3, WaitFacts DEF Inv, TypeOK, CursorWait
    <3> QED
      BY <2>3, <3>1, SafeGrows DEF SyncInv, HandlerInv
  <2>4. ASSUME h.op = "path" PROVE \A x \in h.extra : x = Welcome \/ x \in held'[h.c]
    <3>1. h.c \in Clients
      BY <2>4, WaitFacts DEF Inv, TypeOK, PathWait
    <3> QED
      BY <2>4, <3>1 DEF SyncInv, HandlerInv, Growth
  <2> QED
    BY <1>1, <2>1, <2>2, <2>3, <2>4 DEF HandlerInv
<1>2. CASE h'.op \in {"idle", "read", "clear"} \/ (h'.op = "post" /\ 0 < h'.now)
  BY <1>2 DEF HandlerInv
<1>3. CASE h'.op = "login" /\ Safe(posts, log, held[h'.c], h'.c, h'.since)
  <2>1. Safe(posts', log', held'[h'.c], h'.c, h'.since)
    BY <1>3, NextHandlerFacts, SafeGrows DEF Inv, TypeOK
  <2> QED
    BY <1>3, <2>1 DEF HandlerInv
<1>4. CASE h'.op \in {"force", "ack"} /\ Safe(posts, log, held[h'.c], h'.c, h'.ts)
  <2>1. Safe(posts', log', held'[h'.c], h'.c, h'.ts)
    BY <1>4, NextHandlerFacts, SafeGrows DEF Inv, TypeOK
  <2> QED
    BY <1>4, <2>1 DEF HandlerInv
<1>5. CASE h'.op = "path" /\ \A x \in h'.extra : x = Welcome \/ x \in held[h'.c]
  <2>1. h'.c \in Clients
    BY <1>5, NextHandlerFacts DEF Inv, TypeOK
  <2> QED
    BY <1>5, <2>1 DEF HandlerInv, Growth
<1> QED
  BY <1>1, <1>2, <1>3, <1>4, <1>5 DEF HandlerKept

LEMMA SessionsStay ==
  ASSUME Inv, Inv', SyncInv, Growth, SessionsKept
  PROVE  SessionInv'
<1>1. ASSUME NEW c \in DOMAIN sessions'
      PROVE  Safe(posts', log', held'[c], c, sessions'[c].since)
  <2>1. c \in Clients /\ sessions'[c].since \in Nat
    BY DEF Inv, TypeOK, MemoryTypeOK, IsTable, SessionType
  <2>2. Safe(posts, log, held[c], c, sessions'[c].since)
    BY DEF SessionsKept, SyncInv, SessionInv
  <2> QED
    BY <2>1, <2>2, SafeGrows
<1> QED
  BY <1>1 DEF SessionInv

LEMMA RowsStay ==
  ASSUME Inv, Inv', SyncInv, Growth, RowsKept
  PROVE  RowInv'
<1>1. ASSUME NEW c \in DOMAIN rows'
      PROVE  Safe(posts', log', held'[c], c, rows'[c].since)
  <2>1. c \in Clients /\ rows'[c].since \in Nat
    BY DEF Inv, TypeOK, StoreTypeOK, IsTable, Rows
  <2>2. Safe(posts, log, held[c], c, rows'[c].since)
    BY DEF RowsKept, SyncInv, RowInv
  <2> QED
    BY <2>1, <2>2, SafeGrows
<1> QED
  BY <1>1 DEF RowInv

LEMMA PushStays ==
  ASSUME Inv, Inv', SyncInv, Growth, PushKept
  PROVE  PushInv'
<1>1. CASE push' = push /\ push.pc = "read" /\ DOMAIN sessions \subseteq DOMAIN sessions'
  <2>1. push.c \in Clients /\ push.frozen \in Int /\ push.post \subseteq Posts
    BY <1>1, WaitFacts DEF Inv, TypeOK, ReadWait
  <2>2. ASSUME push.frozen # -1
        PROVE  Safe(posts', log', held'[push.c], push.c, push.frozen)
    <3>1. push.frozen \in Nat
      BY <1>1, <2>2 DEF SyncInv, PushInv
    <3> QED
      BY <1>1, <2>1, <2>2, <3>1, SafeGrows DEF SyncInv, PushInv
  <2>3. \A q \in push.post : Frontier(posts', log', held'[push.c], push.c, q)
    BY <1>1, <2>1, FrontierGrows DEF SyncInv, PushInv
  <2>4. /\ push.frozen = -1 => push.c \in DOMAIN sessions'
        /\ push.frozen # -1 => push.frozen \in Nat
    BY <1>1 DEF SyncInv, PushInv
  <2> QED
    BY <1>1, <2>2, <2>3, <2>4 DEF PushInv
<1>2. CASE push'.pc # "read"
  BY <1>2 DEF PushInv
<1> QED
  BY <1>1, <1>2 DEF PushKept

LEMMA ClientsStay ==
  ASSUME Inv, Inv', SyncInv, Growth, ClientsKept
  PROVE  ClientInv'
<1>1. ASSUME NEW c \in Clients, NEW q \in held'[c]
      PROVE  Safe(posts', log', held'[c], c, q.ts)
  <2>1. q \in held[c] /\ q.ts \in Nat
    BY DEF ClientsKept, Inv, TypeOK, WorldTypeOK, Posts
  <2>2. Safe(posts, log, held[c], c, q.ts)
    BY <2>1 DEF SyncInv, ClientInv
  <2> QED
    BY <2>1, <2>2, SafeGrows
<1>2. ASSUME NEW c \in Clients, NEW x \in acks'[c]
      PROVE  x = Welcome \/ x \in held'[c]
  BY DEF ClientsKept, SyncInv, ClientInv
<1> QED
  BY <1>1, <1>2 DEF ClientInv

LEMMA AirStays ==
  ASSUME Inv, Inv', SyncInv, Growth, AirKept
  PROVE  AirInv'
<1>1. ASSUME NEW pair \in air', pair[2] # Welcome
      PROVE  Frontier(posts', log', held'[pair[1]], pair[1], pair[2])
  <2>1. pair[1] \in Clients
    BY DEF Inv, TypeOK, WorldTypeOK
  <2>2. Frontier(posts, log, held[pair[1]], pair[1], pair[2])
    BY <1>1 DEF AirKept, SyncInv, AirInv
  <2> QED
    BY <2>1, <2>2, FrontierGrows
<1> QED
  BY <1>1 DEF AirInv

LEMMA Kept ==
  ASSUME Inv, Inv', SyncInv, Growth
  PROVE  /\ HandlerKept => HandlerInv'
         /\ SessionsKept => SessionInv'
         /\ RowsKept => RowInv'
         /\ PushKept => PushInv'
         /\ ClientsKept => ClientInv'
         /\ AirKept => AirInv'
BY HandlerStays, SessionsStay, RowsStay, PushStays, ClientsStay, AirStays

(* Most steps leave most of the state as it was.                           *)
LEMMA Untouched ==
  /\ UNCHANGED h => HandlerKept
  /\ UNCHANGED sessions => SessionsKept
  /\ UNCHANGED rows => RowsKept
  /\ UNCHANGED <<push, sessions>> => PushKept
  /\ UNCHANGED <<held, acks>> => ClientsKept
  /\ UNCHANGED air => AirKept
BY DEF HandlerKept, SessionsKept, RowsKept, PushKept, ClientsKept, AirKept

---------------------------------------------------------------------------
(* The database thread.                                                    *)

(* The oldest of the posts after a safe position has none behind it.       *)
LEMMA OldestIsFrontier ==
  ASSUME Inv, LogInv, NEW c \in Clients, NEW since \in Nat, NEW n \in Int,
         Safe(posts, log, held[c], c, since),
         NEW q \in NextUnsynced(posts, c, since, n)
  PROVE  Frontier(posts, log, held[c], c, q)
<1>1. q \in posts /\ q \in log /\ q.ts <= n
  BY DEF NextUnsynced, Unsynced, Inv, NewestKept
<1>2. ASSUME NEW p \in posts, p.author # c, p \notin held[c] PROVE p = q \/ q.ts < p.ts
  <2>1. p \in log /\ p.ts \in Nat /\ q.ts \in Nat
    BY <1>1 DEF Inv, NewestKept, TypeOK, StoreTypeOK, Posts
  <2>2. p \in Unsynced(posts, c, since)
    BY <1>2, <2>1 DEF Safe, Unsynced
  <2>3. q.ts <= p.ts
    BY <1>1, <2>1, <2>2 DEF NextUnsynced
  <2>4. q.ts = p.ts => p = q
    BY <1>1, <2>1 DEF LogInv
  <2> QED
    BY <2>1, <2>3, <2>4
<1> QED
  BY <1>1, <1>2 DEF Frontier

LEMMA NextUnsyncedSync ==
  ASSUME Inv, Inv', SyncInv, Growth, DbNextUnsynced
  PROVE  PushInv'
<1>1. push.pc = "read" /\ push \in ReadWait /\ push.c \in Clients /\ push.notNewerThan \in Int
  BY WaitFacts DEF DbNextUnsynced, PushJob, Inv, TypeOK, ReadWait
<1> DEFINE since == IF push.frozen = -1 THEN sessions[push.c].since ELSE push.frozen
<1>2. push' = [push EXCEPT !.post = NextUnsynced(posts, push.c, since, push.notNewerThan)]
      /\ UNCHANGED <<posts, log, held, sessions>>
  BY DEF DbNextUnsynced, durable, world
<1>3. since \in Nat /\ Safe(posts, log, held[push.c], push.c, since)
  <2>1. CASE push.frozen = -1
    <3>1. push.c \in DOMAIN sessions
      BY <1>1, <2>1 DEF SyncInv, PushInv
    <3>2. sessions[push.c].since \in Nat
      BY <3>1, SessionFacts DEF Inv, TypeOK, SessionType
    <3> QED
      BY <2>1, <3>1, <3>2 DEF SyncInv, SessionInv
  <2>2. CASE push.frozen # -1
    BY <1>1, <2>2 DEF SyncInv, PushInv
  <2> QED
    BY <2>1, <2>2
<1>4. \A q \in NextUnsynced(posts, push.c, since, push.notNewerThan) :
        Frontier(posts, log, held[push.c], push.c, q)
  <2> HIDE DEF since
  <2> QED
    BY <1>1, <1>3, OldestIsFrontier DEF SyncInv
<1>5. /\ push'.pc = "read" /\ push'.c = push.c /\ push'.frozen = push.frozen
      /\ push'.post = NextUnsynced(posts, push.c, since, push.notNewerThan)
  BY <1>1, <1>2 DEF ReadWait
<1> HIDE DEF since
<1> QED
  BY <1>1, <1>2, <1>4, <1>5 DEF SyncInv, PushInv

LEMMA CursorSync ==
  ASSUME Inv, Inv', SyncInv, Growth, DbForce \/ DbAck
  PROVE  RowsKept
<1>1. h.op \in {"force", "ack"} /\ Safe(posts, log, held[h.c], h.c, h.ts)
  BY DEF DbForce, DbAck, HandlerJob, SyncInv, HandlerInv
<1>2. ASSUME NEW c \in DOMAIN rows'
      PROVE  /\ c \in DOMAIN rows
             /\ rows'[c].since = rows[c].since \/ (c = h.c /\ rows'[c].since = h.ts)
  <2>1. \A k \in DOMAIN rows : rows[k] \in Rows
    BY DEF Inv, TypeOK, StoreTypeOK, IsTable
  <2> QED
    BY <1>2, <2>1 DEF DbForce, DbAck, ForceSyncSince, AdvanceSync, Rows
<1> QED
  BY <1>1, <1>2 DEF RowsKept

LEMMA DatabaseSync ==
  ASSUME Inv, Inv', SyncInv, Growth, LogInv', Database
  PROVE  SyncInv'
<1>1. CASE DbLogin
  <2>1. h.op = "login" /\ Safe(posts, log, held[h.c], h.c, h.since)
    BY <1>1 DEF DbLogin, HandlerJob, SyncInv, HandlerInv
  <2>2. RowsKept
    BY <1>1, <2>1 DEF DbLogin, RecordLogin, RowsKept
  <2> QED
    BY <1>1, <2>2, Kept, Untouched DEF DbLogin, SyncInv, world
<1>2. CASE DbPost
  <2>1. h \in PostWait /\ 0 < h.now
    BY <1>2, WaitFacts DEF DbPost, HandlerJob, Inv, TypeOK, SyncInv, HandlerInv
  <2>2. HandlerKept
    BY <1>2, <2>1 DEF DbPost, PostWait, HandlerKept
  <2>3. RowsKept
    BY <1>2 DEF DbPost, Without, RowsKept
  <2> QED
    BY <1>2, <2>2, <2>3, Kept, Untouched DEF DbPost, SyncInv, world
<1>3. CASE DbForce \/ DbAck
  BY <1>3, CursorSync, Kept, Untouched DEF DbForce, DbAck, SyncInv, world
<1>4. CASE DbPath
  <2>1. \A c \in DOMAIN rows : rows[c] \in Rows
    BY DEF Inv, TypeOK, StoreTypeOK, IsTable
  <2>2. RowsKept
    BY <1>4, <2>1 DEF DbPath, SetOutPath, Rows, RowsKept
  <2> QED
    BY <1>4, <2>2, Kept, Untouched DEF DbPath, SyncInv, world
<1>5. CASE DbNextUnsynced
  BY <1>5, NextUnsyncedSync, Kept, Untouched DEF DbNextUnsynced, SyncInv, world, durable
<1>6. CASE DbClear \/ DbRead \/ DbCount
  BY <1>6, Kept, Untouched DEF DbClear, DbRead, DbCount, SyncInv, world, durable
<1> QED
  BY <1>1, <1>2, <1>3, <1>4, <1>5, <1>6 DEF Database

---------------------------------------------------------------------------
(* The event loop: what a handler does when its transaction is done.       *)

LEMMA UpdateKept ==
  ASSUME NEW c \in DOMAIN sessions, NEW s, Update(c, s),
         s.since = sessions[c].since \/ Safe(posts, log, held[c], c, s.since)
  PROVE  SessionsKept /\ DOMAIN sessions' = DOMAIN sessions
BY DEF Update, SessionsKept

(* An acknowledgement moves the cursor to a post its client holds.         *)
LEMMA TakeAckKept ==
  ASSUME Inv, SyncInv, NEW c \in DOMAIN sessions, NEW x, TakeAck(c, x),
         x = Welcome \/ x \in held[c]
  PROVE  SessionsKept /\ HandlerKept /\ DOMAIN sessions' = DOMAIN sessions
<1>1. c \in Clients /\ sessions[c] \in SessionType
  BY SessionFacts DEF Inv, TypeOK
<1> DEFINE s == [sessions[c] EXCEPT !.pending = NoAck, !.failures = 0]
           n == IF s.welcome > 0 THEN s.welcome - 1 ELSE 0
<1>2. CASE x = Welcome /\ h' = Idle
  <2>1. Update(c, [s EXCEPT !.welcome = n])
    BY <1>2, ValueAssumption DEF TakeAck
  <2>2. [s EXCEPT !.welcome = n].since = sessions[c].since
    BY <1>1 DEF SessionType
  <2> QED
    BY <1>2, <2>1, <2>2, UpdateKept DEF HandlerKept, Idle
<1>3. CASE x # Welcome /\ h' = [op |-> "ack", c |-> c, ts |-> x.ts]
  <2>1. Update(c, [s EXCEPT !.since = x.ts])
    BY <1>3 DEF TakeAck
  <2>2. [s EXCEPT !.since = x.ts].since = x.ts
    BY <1>1 DEF SessionType
  <2>3. Safe(posts, log, held[c], c, x.ts)
    BY <1>1, <1>3 DEF SyncInv, ClientInv
  <2> QED
    BY <1>3, <2>1, <2>2, <2>3, UpdateKept DEF HandlerKept
<1> QED
  BY <1>2, <1>3 DEF TakeAck, HandlerWaits

LEMMA CountsKept ==
  ASSUME NEW s, Counts(s)
  PROVE  HandlerKept
BY DEF Counts, HandlerWaits, HandlerKept, Idle

LEMMA ResumePostSync ==
  ASSUME Inv, Inv', SyncInv, Growth, ResumePost
  PROVE  PushInv'
<1>1. /\ DOMAIN sessions' = DOMAIN sessions \ h.forgotten
      /\ UNCHANGED <<posts, log, held>>
  BY DEF ResumePost, ForgetSessions, Without, durable
<1>2. CASE push.pc = "read" /\ push.c \in h.forgotten \cap DOMAIN sessions /\ push.frozen = -1
  <2>1. push \in ReadWait /\ push' = [push EXCEPT !.frozen = sessions[push.c].since]
    BY <1>2, WaitFacts DEF ResumePost, Inv, TypeOK
  <2>2. /\ push'.frozen = sessions[push.c].since /\ push'.c = push.c
        /\ push'.post = push.post /\ push'.pc = "read"
    BY <1>2, <2>1 DEF ReadWait
  <2>3. sessions[push.c].since \in Nat
    BY <1>2, SessionFacts DEF Inv, TypeOK, SessionType
  <2>4. Safe(posts, log, held[push.c], push.c, sessions[push.c].since)
    BY <1>2 DEF SyncInv, SessionInv
  <2> QED
    BY <1>1, <1>2, <2>2, <2>3, <2>4 DEF SyncInv, PushInv
<1>3. CASE ~(push.pc = "read" /\ push.c \in h.forgotten \cap DOMAIN sessions /\ push.frozen = -1)
  BY <1>1, <1>3 DEF ResumePost, SyncInv, PushInv
<1> QED
  BY <1>2, <1>3

LEMMA ResumeSync ==
  ASSUME Inv, Inv', SyncInv, Growth, LogInv', Resume
  PROVE  SyncInv'
<1>1. CASE ResumeLogin
  <2>1. h.op = "login" /\ Safe(posts, log, held[h.c], h.c, h.since)
    BY <1>1 DEF ResumeLogin, HandlerResumes, SyncInv, HandlerInv
  <2>2. SessionsKept /\ DOMAIN sessions \subseteq DOMAIN sessions'
    BY <1>1, <2>1 DEF ResumeLogin, SessionsKept
  <2>3. HandlerKept /\ PushKept
    BY <1>1, <2>2 DEF ResumeLogin, HandlerKept, PushKept, Idle
  <2> QED
    BY <1>1, <2>2, <2>3, Kept, Untouched DEF ResumeLogin, SyncInv, world, durable
<1>2. CASE ResumePost
  <2>1. SessionsKept /\ HandlerKept
    BY <1>2 DEF ResumePost, ForgetSessions, Without, SessionsKept, HandlerKept, Idle
  <2> QED
    BY <1>2, <2>1, ResumePostSync, Kept, Untouched DEF ResumePost, SyncInv, durable
<1>3. CASE ResumeForce
  <2>1. \A c \in DOMAIN sessions : sessions[c] \in SessionType
    BY SessionFacts DEF Inv, TypeOK
  <2>2. /\ DOMAIN sessions' = DOMAIN sessions
        /\ \A c \in DOMAIN sessions : sessions'[c].since = sessions[c].since
    BY <1>3, <2>1 DEF ResumeForce, Update, SessionType
  <2>3. SessionsKept /\ HandlerKept /\ PushKept
    BY <1>3, <2>2, CountsKept DEF ResumeForce, SessionsKept, PushKept
  <2> QED
    BY <1>3, <2>3, Kept, Untouched DEF ResumeForce, SyncInv, world, durable
<1>4. CASE ResumePath
  <2>1. SessionsKept /\ HandlerKept /\ DOMAIN sessions' = DOMAIN sessions
    <3>1. ASSUME NEW x \in h.extra, Matches(h.c, x), TakeAck(h.c, x)
          PROVE  SessionsKept /\ HandlerKept /\ DOMAIN sessions' = DOMAIN sessions
      <4>1. x = Welcome \/ x \in held[h.c]
        BY <1>4, <3>1 DEF ResumePath, HandlerResumes, SyncInv, HandlerInv
      <4> QED
        BY <3>1, <4>1, TakeAckKept DEF Matches
    <3>2. CASE h' = Idle /\ UNCHANGED sessions
      BY <3>2, Untouched DEF HandlerKept, Idle
    <3> QED
      BY <1>4, <3>1, <3>2 DEF ResumePath
  <2>2. PushKept
    BY <1>4, <2>1 DEF ResumePath, PushKept
  <2> QED
    BY <1>4, <2>1, <2>2, Kept, Untouched DEF ResumePath, SyncInv, world, durable
<1>5. CASE ResumePush
  <2>1. push.pc = "read" /\ push'.pc # "read"
    BY <1>5 DEF ResumePush, PushResumes, Ready, Counting
  <2>2. AirKept
    BY <1>5, <2>1 DEF ResumePush, AirKept, SyncInv, PushInv
  <2>3. SessionsKept
    <3>1. \A c \in DOMAIN sessions : sessions[c] \in SessionType
      BY SessionFacts DEF Inv, TypeOK
    <3>2. /\ DOMAIN sessions' = DOMAIN sessions
          /\ \A c \in DOMAIN sessions : sessions'[c].since = sessions[c].since
      <4>1. CASE UNCHANGED sessions
        BY <4>1
      <4>2. ASSUME NEW p, sessions' = Sent(sessions, push.c, p)
            PROVE  /\ DOMAIN sessions' = DOMAIN sessions
                   /\ \A c \in DOMAIN sessions : sessions'[c].since = sessions[c].since
        BY <3>1, <4>2 DEF Sent, SessionType
      <4> QED
        BY <1>5, <4>1, <4>2 DEF ResumePush
    <3> QED
      BY <3>2 DEF SessionsKept
  <2>4. PushKept
    BY <2>1 DEF PushKept
  <2> QED
    BY <1>5, <2>2, <2>3, <2>4, Kept, Untouched DEF ResumePush, SyncInv, durable
<1>6. CASE ResumeReply \/ ResumeAck
  <2>1. HandlerKept
    BY <1>6 DEF ResumeReply, ResumeAck, HandlerKept, Idle
  <2> QED
    BY <1>6, <2>1, Kept, Untouched DEF ResumeReply, ResumeAck, SyncInv, world, durable
<1>7. CASE ResumeCount
  <2>1. PushKept
    BY <1>7 DEF ResumeCount, PushKept, Ready
  <2> QED
    BY <1>7, <2>1, Kept, Untouched DEF ResumeCount, SyncInv, world, durable
<1> QED
  BY <1>1, <1>2, <1>3, <1>4, <1>5, <1>6, <1>7 DEF Resume

---------------------------------------------------------------------------
(* The event loop: what a packet does on arrival.                          *)

LEMMA HeardKept ==
  ASSUME Inv, NEW c \in DOMAIN sessions, NEW ts, Update(c, Heard(sessions[c], ts))
  PROVE  SessionsKept /\ DOMAIN sessions' = DOMAIN sessions
<1>1. sessions[c] \in SessionType
  BY SessionFacts DEF Inv, TypeOK
<1>2. Heard(sessions[c], ts).since = sessions[c].since
  BY <1>1 DEF Heard, SessionType
<1> QED
  BY <1>2, UpdateKept

LEMMA PostWaitsKept ==
  ASSUME Inv, NEW c, NEW author, NEW msg, PostWaits(c, author, msg)
  PROVE  HandlerKept
BY DEF PostWaits, HandlerWaits, HandlerKept, Inv, TypeOK, WorldTypeOK

LEMMA KeepAliveKept ==
  ASSUME Inv, SyncInv, NEW m \in Packets, NEW since \in Claims(m.c), RecvKeepAlive(m, since)
  PROVE  SessionsKept /\ HandlerKept /\ DOMAIN sessions' = DOMAIN sessions
<1> DEFINE s == Heard(sessions[m.c], m.ts)
<1>1. /\ m.c \in DOMAIN sessions /\ m.c \in Clients
      /\ sessions[m.c] \in SessionType
  BY SessionFacts DEF RecvKeepAlive, Inv, TypeOK
<1>2. s.since = sessions[m.c].since
  BY <1>1 DEF Heard, SessionType
<1>3. Safe(posts, log, held[m.c], m.c, since)
  BY <1>1, ClaimSafe
<1>4. CASE Update(m.c, [s EXCEPT !.since = since])
           /\ h' = [op |-> "force", c |-> m.c, ts |-> since]
  <2>1. [s EXCEPT !.since = since].since = since
    BY <1>1 DEF Heard, SessionType
  <2> HIDE DEF s
  <2> QED
    BY <1>1, <1>3, <1>4, <2>1, UpdateKept DEF HandlerKept
<1>5. CASE Update(m.c, [s EXCEPT !.pending = NoAck]) /\ Counts(s)
  <2>1. [s EXCEPT !.pending = NoAck].since = sessions[m.c].since
    BY <1>1 DEF Heard, SessionType
  <2> HIDE DEF s
  <2> QED
    BY <1>1, <1>5, <2>1, UpdateKept, CountsKept
<1> QED
  BY <1>4, <1>5 DEF RecvKeepAlive, HandlerWaits

InboundKept ==
  /\ SessionsKept /\ HandlerKept /\ DOMAIN sessions' = DOMAIN sessions
  /\ UNCHANGED <<rows, push, held, acks, air>>

LEMMA InboundSync ==
  ASSUME Inv, Inv', SyncInv, Growth, LogInv', Inbound
  PROVE  SyncInv'
<1> USE DEF InboundKept
<1>1. SUFFICES InboundKept
  BY <1>1, Kept, Untouched DEF PushKept, SyncInv
<1>2. ASSUME NEW m \in Packets, NEW since \in Claims(m.c), RecvLogin(m, since)
      PROVE  InboundKept
  <2>1. Safe(posts, log, held[m.c], m.c, since)
    BY <1>2, ClaimSafe, PacketFacts
  <2>2. HandlerKept
    BY <1>2, <2>1 DEF RecvLogin, HandlerWaits, HandlerKept
  <2> QED
    BY <1>2, <2>2, Untouched DEF RecvLogin, durable, world
<1>3. ASSUME NEW m \in Packets, NEW since \in Claims(m.c), RecvKeepAlive(m, since)
      PROVE  InboundKept
  BY <1>3, KeepAliveKept DEF RecvKeepAlive, durable, world
<1>4. ASSUME NEW m \in Packets, RecvPost(m)
      PROVE  InboundKept
  <2>1. HandlerKept
    BY <1>4, PostWaitsKept, Untouched DEF RecvPost
  <2> QED
    BY <1>4, <2>1, HeardKept DEF RecvPost, durable
<1>5. ASSUME NEW m \in Packets, RecvCli(m)
      PROVE  InboundKept
  <2>1. HandlerWaits([op |-> "clear"]) => HandlerKept
    BY DEF HandlerWaits, HandlerKept
  <2>2. HandlerKept
    BY <1>5, <2>1, PostWaitsKept, Untouched DEF RecvCli
  <2> QED
    BY <1>5, <2>2, HeardKept DEF RecvCli, durable, world
<1>6. ASSUME NEW m \in Packets, RecvRequest(m)
      PROVE  InboundKept
  <2>1. HandlerKept
    BY <1>6, Untouched DEF RecvRequest, HandlerWaits, HandlerKept
  <2> QED
    BY <1>6, <2>1, HeardKept DEF RecvRequest, durable, world
<1>7. ASSUME NEW m \in Packets, NEW extra \in SUBSET acks[m.c], RecvPath(m, extra)
      PROVE  InboundKept
  <2>1. m.c \in DOMAIN sessions /\ m.c \in Clients /\ sessions[m.c] \in SessionType
    BY <1>7, SessionFacts DEF RecvPath, Inv, TypeOK
  <2>2. [sessions[m.c] EXCEPT !.path = m.path, !.active = now].since = sessions[m.c].since
    BY <2>1 DEF SessionType
  <2>3. SessionsKept /\ DOMAIN sessions' = DOMAIN sessions
    BY <1>7, <2>1, <2>2, UpdateKept DEF RecvPath
  <2>4. \A x \in extra : x = Welcome \/ x \in held[m.c]
    BY <2>1 DEF SyncInv, ClientInv
  <2>5. HandlerKept
    BY <1>7, <2>4 DEF RecvPath, HandlerWaits, HandlerKept
  <2> QED
    BY <1>7, <2>3, <2>5 DEF RecvPath, durable, world
<1>8. ASSUME NEW c \in Clients, NEW x \in acks[c], RecvAck(c, x)
      PROVE  InboundKept
  <2>1. x = Welcome \/ x \in held[c]
    BY DEF SyncInv, ClientInv
  <2> QED
    BY <1>8, <2>1, TakeAckKept DEF RecvAck, Matches, durable, world
<1> QED
  BY <1>2, <1>3, <1>4, <1>5, <1>6, <1>7, <1>8 DEF Inbound

---------------------------------------------------------------------------
(* The push loop, the operator, the clients and the clock.                 *)

LEMMA PushLoopSync ==
  ASSUME Inv, Inv', SyncInv, Growth, LogInv', PushLoop
  PROVE  SyncInv'
<1>1. PICK overdue \in SUBSET InFlight : PushOnce(overdue)
  BY DEF PushLoop
<1> DEFINE ss == Expired(overdue)
<1>2. \A c \in DOMAIN sessions : sessions[c] \in SessionType
  BY SessionFacts DEF Inv, TypeOK
<1>3. /\ DOMAIN ss = DOMAIN sessions
      /\ \A c \in DOMAIN sessions : ss[c] \in SessionType /\ ss[c].since = sessions[c].since
  <2>1. ASSUME NEW s \in SessionType
        PROVE  LET e == [s EXCEPT !.pending = NoAck, !.failures = s.failures + 1]
               IN  e \in SessionType /\ e.since = s.since
    <3>1. s.failures + 1 \in Nat
      BY <2>1, ChangeType
    <3>2. \A n \in Nat : [s EXCEPT !.pending = NoAck, !.failures = n] \in SessionType
      BY <2>1, ChangeType
    <3>3. \A n \in Nat : [s EXCEPT !.pending = NoAck, !.failures = n].since = s.since
      BY <2>1 DEF SessionType
    <3> QED
      BY <3>1, <3>2, <3>3
  <2> QED
    BY <1>2, <2>1 DEF Expired
<1> HIDE DEF ss
<1>4. \A c \in DOMAIN sessions :
        /\ DOMAIN Sent(ss, c, Welcome) = DOMAIN sessions
        /\ \A d \in DOMAIN sessions : Sent(ss, c, Welcome)[d].since = sessions[d].since
  BY <1>3 DEF Sent, SessionType
<1>5. /\ DOMAIN sessions' = DOMAIN sessions
      /\ \A c \in DOMAIN sessions : sessions'[c].since = sessions[c].since
  BY <1>1, <1>3, <1>4 DEF PushOnce, ss
<1>6. SessionsKept
  BY <1>5 DEF SessionsKept
<1>7. AirKept
  BY <1>1 DEF PushOnce, AirKept
<1>8. held' = held /\ ClientsKept
  BY <1>1 DEF PushOnce, ClientsKept, Inv, TypeOK, WorldTypeOK
<1>9. PushInv'
  <2>1. CASE UNCHANGED push
    BY <1>5, <2>1, Kept DEF PushKept
  <2>2. ASSUME NEW c \in DOMAIN sessions,
               push' = [pc |-> "read", c |-> c, notNewerThan |-> now - SyncDelay,
                        post |-> {}, frozen |-> -1]
        PROVE  PushInv'
    BY <1>5, <2>2 DEF PushInv
  <2> QED
    BY <1>1, <2>1, <2>2 DEF PushOnce
<1> QED
  BY <1>1, <1>6, <1>7, <1>8, <1>9, Kept, Untouched DEF PushOnce, SyncInv, durable

LEMMA OperatorSync ==
  ASSUME Inv, Inv', SyncInv, Growth, LogInv', Operator
  PROVE  SyncInv'
<1>1. ASSUME NEW cfg \in Configs, Reload(cfg) PROVE SyncInv'
  <2>1. ASSUME NEW c \in DOMAIN sessions
        PROVE  Reassigned(cfg, c, sessions[c]).since = sessions[c].since
    <3>1. sessions[c] \in SessionType
      BY SessionFacts DEF Inv, TypeOK
    <3> QED
      BY <3>1 DEF Reassigned, SessionType
  <2>2. SessionsKept /\ PushKept
    BY <1>1, <2>1 DEF Reload, tasks, SessionsKept, PushKept
  <2> QED
    BY <1>1, <2>2, Kept, Untouched DEF Reload, SyncInv, durable, tasks, world
<1>2. ASSUME NEW cfg \in Configs, Restart(cfg) PROVE SyncInv'
  <2>1. \A c \in DOMAIN rows' : c \in DOMAIN rows /\ rows'[c] = rows[c]
    BY <1>2 DEF Restart, Without
  <2>2. \A c \in DOMAIN sessions' : c \in DOMAIN rows /\ sessions'[c].since = rows[c].since
    BY <1>2 DEF Restart, Without, Rehydrated
  <2>3. RowsKept /\ SessionsKept
    BY <2>1, <2>2 DEF RowsKept, SessionsKept, SyncInv, RowInv
  <2>4. HandlerKept /\ PushKept
    BY <1>2 DEF Restart, HandlerKept, PushKept, Idle, Ready
  <2> QED
    BY <1>2, <2>3, <2>4, Kept, Untouched DEF Restart, SyncInv, world
<1> QED
  BY <1>1, <1>2 DEF Operator

LEMMA ReceiveSync ==
  ASSUME Inv, Inv', SyncInv, Growth, LogInv', NEW pair \in air, Receive(pair[1], pair[2])
  PROVE  ClientInv'
<1> DEFINE c == pair[1]
           x == pair[2]
<1>1. c \in Clients /\ UNCHANGED <<posts, log>>
  BY DEF Receive, durable, Inv, TypeOK, WorldTypeOK
<1>2. /\ held' = [held EXCEPT ![c] = IF x = Welcome THEN @ ELSE @ \cup {x}]
      /\ acks' = [acks EXCEPT ![c] = @ \cup {x}]
  BY DEF Receive
<1>3. held \in [Clients -> SUBSET Posts] /\ acks \in [Clients -> SUBSET Things]
  BY DEF Inv, TypeOK, WorldTypeOK
<1>4. ASSUME x # Welcome PROVE Safe(posts', log', held'[c], c, x.ts)
  <2>1. Frontier(posts, log, held[c], c, x)
    BY <1>4 DEF SyncInv, AirInv
  <2>2. Frontier(posts', log', held'[c], c, x)
    BY <1>1, <2>1, FrontierGrows
  <2>3. x \in held'[c] /\ posts' \subseteq log' /\ log' \subseteq Posts
    BY <1>1, <1>2, <1>3, <1>4 DEF Inv, NewestKept, TypeOK, WorldTypeOK
  <2>4. LogInv
    BY DEF SyncInv
  <2> HIDE DEF c, x
  <2> QED
    BY <1>1, <2>2, <2>3, <2>4, FrontierSafe
<1> HIDE DEF c, x
<1>5. ASSUME NEW d \in Clients, NEW q \in held'[d]
      PROVE  Safe(posts', log', held'[d], d, q.ts)
  <2>1. CASE q \in held[d]
    <3>1. Safe(posts, log, held[d], d, q.ts) /\ q.ts \in Nat
      BY <1>3, <2>1 DEF SyncInv, ClientInv, Posts
    <3> QED
      BY <3>1, SafeGrows
  <2>2. CASE q \notin held[d]
    <3>1. d = c /\ q = x /\ x # Welcome
      BY <1>2, <1>3, <1>5, <2>2
    <3> QED
      BY <1>4, <3>1
  <2> QED
    BY <2>1, <2>2
<1>6. ASSUME NEW d \in Clients, NEW y \in acks'[d]
      PROVE  y = Welcome \/ y \in held'[d]
  BY <1>1, <1>2, <1>3 DEF SyncInv, ClientInv
<1> QED
  BY <1>5, <1>6 DEF ClientInv

LEMMA WorldSync ==
  ASSUME Forgetful = {}, Inv, Inv', SyncInv, Growth, LogInv', World
  PROVE  SyncInv'
<1>1. ASSUME NEW pair \in air, Receive(pair[1], pair[2]) PROVE SyncInv'
  BY <1>1, ReceiveSync, Kept, Untouched DEF Receive, SyncInv, durable, tasks
<1>2. ASSUME NEW t, Tick(t) PROVE SyncInv'
  BY <1>2, Kept, Untouched DEF Tick, SyncInv, durable, tasks
<1>3. \A c : ~LoseHistory(c)
  BY DEF LoseHistory
<1> QED
  BY <1>1, <1>2, <1>3 DEF World

---------------------------------------------------------------------------
LEMMA SyncInit ==
  ASSUME Init
  PROVE  SyncInv
BY DEF Init, NoTable, Idle, Ready, SyncInv, LogInv, HandlerInv, SessionInv, RowInv, PushInv,
       ClientInv, AirInv

LEMMA SyncStep ==
  ASSUME Forgetful = {}, Inv, SyncInv, [Next]_vars
  PROVE  SyncInv'
<1>1. Inv' /\ Growth /\ LogInv'
  BY StepInv, Grows, LogStep DEF SyncInv
<1>2. CASE UNCHANGED vars
  BY <1>1, <1>2, Kept, Untouched DEF vars, durable, tasks, world, SyncInv
<1> QED
  BY <1>1, <1>2, DatabaseSync, ResumeSync, InboundSync, PushLoopSync, OperatorSync, WorldSync
  DEF Next

LEMMA SyncHolds ==
  ASSUME Forgetful = {}
  PROVE  Spec => [](Inv /\ SyncInv)
BY InitInv, StepInv, SyncInit, SyncStep, PTL DEF Spec

(* No cursor of a client, in memory or in the database, ever passes a      *)
(* stored post that the client is still owed: whatever packets arrive, in  *)
(* whatever order, late or twice, however logins, keep-alives, pushes and  *)
(* acknowledgements interleave with the push loop and the database thread, *)
(* and whenever the process dies (run_push_loop, _on_ack, _on_keep_alive). *)
THEOREM OwedIsNeverSkipped ==
  ASSUME Forgetful = {}
  PROVE  Spec => []NothingOwedSkipped
<1>1. Inv /\ SyncInv => NothingOwedSkipped
  BY DEF Inv, TypeOK, StoreTypeOK, MemoryTypeOK, IsTable, SyncInv, SessionInv, RowInv, Safe,
         Owed, NothingOwedSkipped
<1> QED
  BY <1>1, SyncHolds, PTL

(* Retention never deletes a post that a client with a row is still owed   *)
(* (prune_posts), under either of its policies and any setting of them.    *)
THEOREM OwedIsNeverDeleted ==
  ASSUME Forgetful = {}
  PROVE  Spec => NothingOwedDeleted
<1>1. ASSUME Inv, SyncInv, [Next]_vars
      PROVE  [\A p \in posts \ posts', c \in DOMAIN rows' : ~Owed(c, p)]_vars
  <2>1. ASSUME DbPost, NEW p \in posts \ posts', NEW c \in DOMAIN rows' PROVE ~Owed(c, p)
    <3>1. c \in DOMAIN rows /\ p.ts <= rows[c].since
      BY <2>1 DEF DbPost, PrunedPosts, Without
    <3>2. rows[c].since \in Nat /\ p.ts \in Nat
      BY <1>1, <2>1, <3>1, RowFacts DEF Inv, TypeOK, StoreTypeOK, Posts
    <3> QED
      BY <1>1, <2>1, <3>1, <3>2 DEF SyncInv, RowInv, Safe, Owed
  <2>2. CASE ~DbPost
    BY <1>1, <2>2, PostsFrame
  <2> QED
    BY <2>1, <2>2
<1> QED
  BY <1>1, SyncHolds, PTL DEF Spec, NothingOwedDeleted
=============================================================================
