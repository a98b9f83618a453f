-------------------------- MODULE RoomServerProofs --------------------------
(***************************************************************************)
(* Theorems about RoomServer, for every set of clients, packets and        *)
(* configurations.                                                         *)
(***************************************************************************)
EXTENDS RoomServer, FiniteSetTheorems, SequenceTheorems, TLAPS

(* The newest post ever stored is still there.  It is what makes the next  *)
(* time stamp, which is computed from the posts that are left, later than  *)
(* every post there has been.                                              *)
NewestKept ==
  /\ posts \subseteq log
  /\ log # {} => \E m \in posts : \A q \in log : q.ts <= m.ts

Inv == TypeOK /\ NewestKept

---------------------------------------------------------------------------
(* next_post_ts returns a time stamp that is not before the clock and is   *)
(* after every post.                                                       *)
LEMMA NextPostTsIsNew ==
  ASSUME NEW ps \in SUBSET Posts, NEW n \in Nat,
         ps # {} => \E m \in ps : \A q \in ps : q.ts <= m.ts
  PROVE  /\ NextPostTs(ps, n) \in Nat
         /\ n <= NextPostTs(ps, n)
         /\ \A q \in ps : q.ts < NextPostTs(ps, n)
<1>1. CASE ps = {}
  BY <1>1 DEF NextPostTs
<1>2. CASE ps # {}
  <2>1. PICK m \in ps : \A q \in ps : q.ts <= m.ts
    BY <1>2
  <2>2. /\ Latest(ps) \in {p.ts : p \in ps}
        /\ \A q \in ps : q.ts <= Latest(ps)
    BY <2>1 DEF Latest
  <2>3. Latest(ps) \in Nat
    BY <2>2 DEF Posts
  <2>4. \A q \in ps : q.ts \in Nat
    BY DEF Posts
  <2> QED
    BY <1>2, <2>2, <2>3, <2>4 DEF NextPostTs
<1> QED
  BY <1>1, <1>2

(* prune_posts never takes the newest post: it is not older than the       *)
(* cutoff, and at least one post is kept.                                  *)
LEMMA NewestNotPruned ==
  ASSUME NEW ps \in SUBSET Posts, NEW p \in ps, NEW rs, NEW n \in Nat,
         NEW retention \in Nat \cup {NoLimit}, NEW keep \in (Nat \ {0}) \cup {NoLimit},
         n <= p.ts, \A q \in ps : q.ts <= p.ts
  PROVE  p \notin PrunedPosts(ps, rs, Cutoff(n, retention), keep)
<1>1. p.ts \in Nat /\ \A q \in ps : q.ts \in Nat
  BY DEF Posts
<1>2. ~TooOld(p, Cutoff(n, retention))
  BY <1>1, LimitAssumption DEF TooOld, Cutoff
<1>3. {q \in ps : q.ts > p.ts} = {}
  BY <1>1
<1>4. ~BeyondNewest(ps, p, keep)
  BY <1>3, FS_EmptySet, LimitAssumption DEF BeyondNewest
<1> QED
  BY <1>2, <1>4 DEF PrunedPosts

---------------------------------------------------------------------------
(* What the values an action starts from are.                              *)

LEMMA PacketFacts ==
  ASSUME NEW m \in Packets
  PROVE  /\ m.c \in Clients /\ m.ts \in Nat \ {0} /\ m.flood \in BOOLEAN
         /\ m.kind = "path" => m.path \in Paths
BY PacketAssumption DEF PacketType

LEMMA ConfigFacts ==
  ASSUME NEW cfg \in Configs, NEW c \in Clients
  PROVE  /\ cfg.member[c] \in Roles \cup {NoRole}
         /\ \A s \in Secrets : cfg.password[s] \in Roles \cup {NoRole}
         /\ cfg.unknown \in Roles \cup {NoRole}
         /\ cfg.welcome \in Nat
         /\ cfg.clientRetention \in Nat \cup {NoLimit}
         /\ cfg.postRetention \in Nat \cup {NoLimit}
         /\ cfg.maxPosts \in (Nat \ {0}) \cup {NoLimit}
BY ConfigAssumption DEF ConfigType

LEMMA WaitFacts ==
  ASSUME TaskTypeOK
  PROVE  /\ h.op = "login" => h \in LoginWait
         /\ h.op = "post" => h \in PostWait
         /\ h.op \in {"force", "ack"} => h \in CursorWait
         /\ h.op = "path" => h \in PathWait
         /\ push.pc = "read" => push \in ReadWait
BY DEF TaskTypeOK, Handlers, Pushes, Idle, LoginWait, PostWait, CursorWait, PathWait,
       ReplyWait, Ready, Counting, ReadWait

LEMMA ClaimFacts ==
  ASSUME WorldTypeOK, NEW c \in Clients
  PROVE  Claims(c) \subseteq Nat
BY DEF WorldTypeOK, Claims, Posts

LEMMA GrantFacts ==
  ASSUME NEW cfg \in Configs, NEW c \in Clients, NEW secret \in Secrets \cup {NoSecret},
         NEW grant \in Resolve(cfg, c, secret)
  PROVE  grant.role \in Roles /\ grant.source \in RoleSources
BY ConfigFacts DEF Resolve, RoleSources

LEMMA UnpasswordedType ==
  ASSUME NEW cfg \in Configs, NEW c \in Clients
  PROVE  ResolveWithoutPassword(cfg, c) \in Roles
BY ConfigFacts DEF ResolveWithoutPassword, Roles

LEMMA OrderType ==
  ASSUME NEW S, NEW R \in Orders(S)
  PROVE  R \subseteq S \X S
BY DEF Orders

LEMMA RowFacts ==
  ASSUME StoreTypeOK, NEW c \in DOMAIN rows
  PROVE  /\ c \in Clients
         /\ rows[c].since \in Nat /\ rows[c].lastTs \in Nat /\ rows[c].active \in Nat
         /\ rows[c].path \in Paths \cup {NoPath}
BY DEF StoreTypeOK, IsTable, Rows

---------------------------------------------------------------------------
(* The event loop changes no table, and stores no post.                    *)
LEMMA QuietSteps ==
  ASSUME Resume \/ Inbound \/ PushLoop
  PROVE  UNCHANGED <<durable, log>>
<1>1. CASE Resume
  BY <1>1 DEF Resume, ResumeLogin, ResumePost, ResumeForce, ResumeReply, ResumeAck,
              ResumePath, ResumePush, ResumeCount, durable, world
<1>2. CASE Inbound
  <2>1. ASSUME NEW m, NEW since, RecvLogin(m, since) \/ RecvKeepAlive(m, since)
        PROVE  UNCHANGED <<durable, log>>
    BY <2>1 DEF RecvLogin, RecvKeepAlive, durable
  <2>2. ASSUME NEW m, RecvPost(m) \/ RecvCli(m) \/ RecvRequest(m)
        PROVE  UNCHANGED <<durable, log>>
    BY <2>2 DEF RecvPost, RecvCli, RecvRequest, durable
  <2>3. ASSUME NEW m, NEW extra, RecvPath(m, extra) PROVE UNCHANGED <<durable, log>>
    BY <2>3 DEF RecvPath, durable
  <2>4. ASSUME NEW c, NEW x, RecvAck(c, x) PROVE UNCHANGED <<durable, log>>
    BY <2>4 DEF RecvAck, durable
  <2> QED
    BY <1>2, <2>1, <2>2, <2>3, <2>4 DEF Inbound
<1>3. CASE PushLoop
  BY <1>3 DEF PushLoop, PushOnce, durable, world
<1> QED
  BY <1>1, <1>2, <1>3

(* The database keeps its type.                                            *)
LEMMA StoreStep ==
  ASSUME Inv, [Next]_vars
  PROVE  StoreTypeOK'
<1> USE DEF Inv, TypeOK
<1>1. CASE DbLogin
  <2>1. h \in LoginWait
    BY <1>1, WaitFacts DEF DbLogin, HandlerJob
  <2>2. rows' \in [DOMAIN rows' -> Rows]
    BY <1>1, <2>1 DEF StoreTypeOK, DbLogin, RecordLogin, IsTable, Rows, LoginWait
  <2>3. DOMAIN rows' \subseteq Clients
    BY <1>1, <2>1 DEF StoreTypeOK, DbLogin, RecordLogin, IsTable, LoginWait
  <2> QED
    BY <1>1, <2>2, <2>3 DEF StoreTypeOK, DbLogin, IsTable
<1>2. CASE DbPost
  <2>1. h \in PostWait
    BY <1>2, WaitFacts DEF DbPost, HandlerJob
  <2>2. posts' \subseteq posts \cup {[ts |-> NextPostTs(posts, h.now), author |-> h.author, msg |-> h.msg]}
    BY <1>2 DEF DbPost
  <2>3. NextPostTs(posts, h.now) \in Nat
    BY <2>1, NextPostTsIsNew DEF PostWait, StoreTypeOK, NewestKept
  <2>4. posts' \subseteq Posts
    BY <2>1, <2>2, <2>3 DEF PostWait, StoreTypeOK, Posts
  <2>5. IsTable(rows', Rows)
    BY <1>2 DEF DbPost, StoreTypeOK, IsTable, Without
  <2>6. counters' \in [posted : Nat, pushes : Nat]
    BY <1>2, BoundAssumption DEF DbPost, StoreTypeOK, Bump
  <2> QED
    BY <2>4, <2>5, <2>6 DEF StoreTypeOK, IsTable
<1>3. CASE DbClear
  BY <1>3 DEF DbClear, StoreTypeOK, IsTable
<1>4. CASE DbForce
  <2>1. h \in CursorWait
    BY <1>4, WaitFacts DEF DbForce, HandlerJob
  <2>2. IsTable(rows', Rows)
    BY <1>4, <2>1 DEF DbForce, ForceSyncSince, StoreTypeOK, IsTable, Rows, CursorWait
  <2> QED
    BY <1>4, <2>2 DEF DbForce, StoreTypeOK, IsTable
<1>5. CASE DbAck
  <2>1. h \in CursorWait
    BY <1>5, WaitFacts DEF DbAck, HandlerJob
  <2>2. IsTable(rows', Rows)
    BY <1>5, <2>1 DEF DbAck, AdvanceSync, StoreTypeOK, IsTable, Rows, CursorWait
  <2> QED
    BY <1>5, <2>2 DEF DbAck, StoreTypeOK, IsTable
<1>6. CASE DbPath
  <2>1. h \in PathWait
    BY <1>6, WaitFacts DEF DbPath, HandlerJob
  <2>2. IsTable(rows', Rows)
    BY <1>6, <2>1 DEF DbPath, SetOutPath, StoreTypeOK, IsTable, Rows, PathWait
  <2> QED
    BY <1>6, <2>2 DEF DbPath, StoreTypeOK, IsTable
<1>7. CASE DbCount
  BY <1>7, BoundAssumption DEF DbCount, StoreTypeOK, IsTable, Bump
<1>8. ASSUME NEW cfg \in Configs, Restart(cfg) PROVE StoreTypeOK'
  BY <1>8 DEF Restart, StoreTypeOK, IsTable, Without
<1>9. CASE UNCHANGED durable
  BY <1>9 DEF durable, StoreTypeOK, IsTable
<1>10. CASE Database
  BY <1>10, <1>1, <1>2, <1>3, <1>4, <1>5, <1>6, <1>7, <1>9 DEF Database, DbRead, DbNextUnsynced, durable
<1>11. CASE Operator
  BY <1>11, <1>8, <1>9 DEF Operator, Reload
<1>12. CASE World
  BY <1>12, <1>9 DEF World, Receive, LoseHistory, Tick
<1> QED
  BY <1>9, <1>10, <1>11, <1>12, QuietSteps DEF Next, vars

---------------------------------------------------------------------------
(* The sessions and the settings keep their type.                          *)

LEMMA SessionFacts ==
  ASSUME MemoryTypeOK, NEW c \in DOMAIN sessions
  PROVE  c \in Clients /\ sessions[c] \in SessionType
BY DEF MemoryTypeOK, IsTable

(* The changes the handlers make to a session.                             *)
LEMMA ChangeType ==
  ASSUME NEW s \in SessionType
  PROVE  /\ \A n \in Nat : [s EXCEPT !.welcome = n] \in SessionType
         /\ \A n \in Nat : [s EXCEPT !.pending = NoAck, !.failures = n] \in SessionType
         /\ s.welcome \in Nat /\ s.failures + 1 \in Nat
         /\ \A x \in Things \cup {NoAck} : [s EXCEPT !.pending = x] \in SessionType
         /\ \A n \in Nat : [s EXCEPT !.since = n] \in SessionType
         /\ \A r \in Roles, q \in RoleSources : [s EXCEPT !.role = r, !.source = q] \in SessionType
         /\ \A q \in Paths, n \in Nat : [s EXCEPT !.path = q, !.active = n] \in SessionType
<1>1. s.failures \in Nat
  BY DEF SessionType
<1>2. \A n \in Nat : [s EXCEPT !.welcome = n] \in SessionType
  BY DEF SessionType
<1>3. \A n \in Nat : [s EXCEPT !.pending = NoAck, !.failures = n] \in SessionType
  BY DEF SessionType
<1>4. s.welcome \in Nat /\ s.failures + 1 \in Nat
  BY <1>1 DEF SessionType
<1>5. \A x \in Things \cup {NoAck} : [s EXCEPT !.pending = x] \in SessionType
  BY DEF SessionType
<1>6. \A n \in Nat : [s EXCEPT !.since = n] \in SessionType
  BY DEF SessionType
<1>7. \A r \in Roles, q \in RoleSources : [s EXCEPT !.role = r, !.source = q] \in SessionType
  BY DEF SessionType
<1>8. \A q \in Paths, n \in Nat : [s EXCEPT !.path = q, !.active = n] \in SessionType
  BY DEF SessionType
<1> QED
  BY <1>2, <1>3, <1>4, <1>5, <1>6, <1>7, <1>8

LEMMA HeardType ==
  ASSUME WorldTypeOK, NEW s \in SessionType, NEW ts \in Nat
  PROVE  Heard(s, ts) \in SessionType
BY DEF Heard, SessionType, WorldTypeOK

(* Replacing one session.                                                  *)
LEMMA UpdateType ==
  ASSUME MemoryTypeOK, NEW c, NEW s \in SessionType, Update(c, s),
         UNCHANGED <<settings, before, roundRobin>>
  PROVE  MemoryTypeOK'
BY DEF MemoryTypeOK, IsTable, Update

LEMMA TakeAckType ==
  ASSUME MemoryTypeOK, NEW c \in DOMAIN sessions, NEW x \in Things, TakeAck(c, x),
         UNCHANGED <<settings, before, roundRobin>>
  PROVE  MemoryTypeOK'
<1>1. sessions[c] \in SessionType
  BY SessionFacts
<1> DEFINE s == [sessions[c] EXCEPT !.pending = NoAck, !.failures = 0]
<1>2. s \in SessionType
  BY <1>1, ChangeType
<1>3. CASE x = Welcome
  <2> DEFINE n == IF s.welcome > 0 THEN s.welcome - 1 ELSE 0
  <2>1. n \in Nat
    <3>1. s.welcome \in Nat
      BY <1>2, ChangeType
    <3> HIDE DEF s
    <3> QED
      BY <3>1
  <2>2. [s EXCEPT !.welcome = n] \in SessionType
    BY <1>2, <2>1, ChangeType
  <2>3. Update(c, [s EXCEPT !.welcome = n])
    BY <1>3, ValueAssumption DEF TakeAck
  <2> QED
    BY <2>2, <2>3, UpdateType
<1>4. CASE x # Welcome
  <2>1. x.ts \in Nat
    BY <1>4 DEF Things, Posts
  <2>2. [s EXCEPT !.since = x.ts] \in SessionType
    BY <1>2, <2>1, ChangeType
  <2> QED
    BY <1>4, <2>2, UpdateType DEF TakeAck
<1> QED
  BY <1>3, <1>4

LEMMA SessionCount ==
  ASSUME MemoryTypeOK
  PROVE  Cardinality(DOMAIN sessions) \in Nat
BY FiniteAssumption, FS_Subset, FS_CardinalityType DEF MemoryTypeOK, IsTable

LEMMA MemoryStep ==
  ASSUME Inv, [Next]_vars
  PROVE  MemoryTypeOK'
<1> USE DEF Inv, TypeOK
<1>1. CASE ResumeLogin
  <2>1. h \in LoginWait
    BY <1>1, WaitFacts DEF ResumeLogin, HandlerResumes
  <2>2. settings.welcome \in Nat
    BY ConfigAssumption DEF MemoryTypeOK, ConfigType
  <2>3. sessions' \in [DOMAIN sessions' -> SessionType]
    BY <1>1, <2>1, <2>2 DEF ResumeLogin, MemoryTypeOK, IsTable, SessionType, LoginWait
  <2>4. DOMAIN sessions' \subseteq Clients
    BY <1>1, <2>1 DEF ResumeLogin, MemoryTypeOK, IsTable, LoginWait
  <2>5. before' \subseteq Clients \X Clients
    BY <1>1, <2>1 DEF ResumeLogin, MemoryTypeOK, IsTable, LoginWait
  <2> QED
    BY <1>1, <2>3, <2>4, <2>5 DEF ResumeLogin, MemoryTypeOK, IsTable
<1>2. CASE ResumePost
  BY <1>2 DEF ResumePost, ForgetSessions, Without, MemoryTypeOK, IsTable
<1>3. CASE ResumeForce
  <2>1. h \in CursorWait
    BY <1>3, WaitFacts DEF ResumeForce, HandlerResumes
  <2>2. CASE h.c \in DOMAIN sessions
    <3>1. [sessions[h.c] EXCEPT !.pending = NoAck] \in SessionType
      BY <2>2, SessionFacts DEF SessionType
    <3> QED
      BY <1>3, <3>1, UpdateType DEF ResumeForce
  <2>3. CASE h.c \notin DOMAIN sessions
    BY <1>3, <2>3 DEF ResumeForce, Update, MemoryTypeOK, IsTable
  <2> QED
    BY <2>2, <2>3
<1>4. CASE ResumePath
  <2>1. CASE UNCHANGED sessions
    BY <1>4, <2>1 DEF ResumePath, MemoryTypeOK, IsTable
  <2>2. ASSUME NEW x \in h.extra, Matches(h.c, x), TakeAck(h.c, x)
        PROVE  MemoryTypeOK'
    <3>1. h \in PathWait
      BY <1>4, WaitFacts DEF ResumePath, HandlerResumes
    <3>2. x \in Things
      BY <2>2, <3>1 DEF PathWait
    <3> QED
      BY <1>4, <2>2, <3>2, TakeAckType DEF ResumePath, Matches
  <2> QED
    BY <1>4, <2>1, <2>2 DEF ResumePath
<1>5. ASSUME NEW m \in Packets, RecvPost(m) PROVE MemoryTypeOK'
  BY <1>5, PacketFacts, SessionFacts, HeardType, UpdateType DEF RecvPost
<1>6. ASSUME NEW m \in Packets, RecvCli(m) PROVE MemoryTypeOK'
  BY <1>6, PacketFacts, SessionFacts, HeardType, UpdateType DEF RecvCli
<1>7. ASSUME NEW m \in Packets, RecvRequest(m) PROVE MemoryTypeOK'
  BY <1>7, PacketFacts, SessionFacts, HeardType, UpdateType DEF RecvRequest
<1>8. ASSUME NEW m \in Packets, NEW since \in Claims(m.c), RecvKeepAlive(m, since)
      PROVE  MemoryTypeOK'
  <2> DEFINE s == Heard(sessions[m.c], m.ts)
  <2>1. s \in SessionType
    BY <1>8, PacketFacts, SessionFacts, HeardType DEF RecvKeepAlive
  <2>2. since \in Nat
    BY <1>8, PacketFacts, ClaimFacts
  <2>3. [s EXCEPT !.since = since] \in SessionType /\ [s EXCEPT !.pending = NoAck] \in SessionType
    BY <2>1, <2>2 DEF SessionType
  <2> QED
    BY <1>8, <2>3, UpdateType DEF RecvKeepAlive
<1>9. ASSUME NEW m \in Packets, NEW extra \in SUBSET acks[m.c], RecvPath(m, extra)
      PROVE  MemoryTypeOK'
  <2>0. m.c \in DOMAIN sessions /\ m.path \in Paths /\ now \in Nat
    BY <1>9, PacketFacts DEF RecvPath, WorldTypeOK
  <2>1. [sessions[m.c] EXCEPT !.path = m.path, !.active = now] \in SessionType
    BY <2>0, SessionFacts, ChangeType
  <2>2. Update(m.c, [sessions[m.c] EXCEPT !.path = m.path, !.active = now])
        /\ UNCHANGED <<settings, before, roundRobin>>
    BY <1>9 DEF RecvPath
  <2> QED
    BY <2>1, <2>2, UpdateType
<1>10. ASSUME NEW c \in Clients, NEW x \in acks[c], RecvAck(c, x)
       PROVE  MemoryTypeOK'
  <2>1. x \in Things
    BY <1>10 DEF WorldTypeOK
  <2> QED
    BY <1>10, <2>1, TakeAckType DEF RecvAck, Matches
<1>11. ASSUME NEW overdue \in SUBSET InFlight, PushOnce(overdue)
       PROVE  MemoryTypeOK'
  <2> DEFINE ss == Expired(overdue)
  <2>1. \A c \in DOMAIN sessions : ss[c] \in SessionType
    BY SessionFacts, ChangeType DEF Expired
  <2>2. DOMAIN ss = DOMAIN sessions /\ ss \in [DOMAIN sessions -> SessionType]
    BY <2>1 DEF Expired
  <2>3. ASSUME NEW c \in DOMAIN sessions
        PROVE  Sent(ss, c, Welcome) \in [DOMAIN sessions -> SessionType]
    <3>1. [ss[c] EXCEPT !.pending = Welcome] \in SessionType
      BY <2>1, ChangeType DEF Things
    <3> HIDE DEF ss
    <3>2. Sent(ss, c, Welcome) = [ss EXCEPT ![c] = [ss[c] EXCEPT !.pending = Welcome]]
      BY DEF Sent
    <3> QED
      BY <2>2, <3>1, <3>2
  <2>5. sessions' \in [DOMAIN sessions -> SessionType]
    BY <1>11, <2>2, <2>3 DEF PushOnce
  <2>4. roundRobin' \in Nat
    BY <1>11, SessionCount DEF PushOnce, NextTurn, MemoryTypeOK
  <2> QED
    BY <1>11, <2>4, <2>5 DEF PushOnce, MemoryTypeOK, IsTable
<1>12. CASE ResumePush
  <2>1. CASE UNCHANGED sessions
    BY <1>12, <2>1 DEF ResumePush, MemoryTypeOK, IsTable
  <2>2. ASSUME NEW p \in push.post, sessions' = Sent(sessions, push.c, p)
        PROVE  MemoryTypeOK'
    <3>1. push \in ReadWait
      BY <1>12, WaitFacts DEF ResumePush, PushResumes
    <3>2. p \in Things
      BY <2>2, <3>1 DEF ReadWait, Things
    <3>3. \A k \in DOMAIN sessions : [sessions[k] EXCEPT !.pending = p] \in SessionType
      BY <3>2, SessionFacts, ChangeType
    <3>4. /\ DOMAIN sessions' = DOMAIN sessions
          /\ \A k \in DOMAIN sessions :
               sessions'[k] \in {sessions[k], [sessions[k] EXCEPT !.pending = p]}
      BY <2>2 DEF Sent
    <3>5. \A k \in DOMAIN sessions' : sessions'[k] \in SessionType
      BY <3>3, <3>4, SessionFacts
    <3>6. sessions' = [k \in DOMAIN sessions' |-> sessions'[k]]
      BY <2>2 DEF Sent
    <3>7. IsTable(sessions', SessionType)
      BY <3>4, <3>5, <3>6 DEF MemoryTypeOK, IsTable
    <3> QED
      BY <1>12, <3>7 DEF ResumePush, MemoryTypeOK
  <2> QED
    BY <1>12, <2>1, <2>2 DEF ResumePush
<1>13. ASSUME NEW cfg \in Configs, Reload(cfg) PROVE MemoryTypeOK'
  <2>1. ASSUME NEW c \in DOMAIN sessions
        PROVE  Reassigned(cfg, c, sessions[c]) \in SessionType
    <3>1. c \in Clients /\ sessions[c] \in SessionType
      BY SessionFacts
    <3>2. cfg.member[c] # NoRole => cfg.member[c] \in Roles
      BY <3>1, ConfigFacts
    <3>3. {"member", "allow_unknown"} \subseteq RoleSources
      BY DEF RoleSources
    <3> QED
      BY <3>1, <3>2, <3>3, UnpasswordedType, ChangeType DEF Reassigned
  <2> QED
    BY <1>13, <2>1 DEF Reload, MemoryTypeOK, IsTable
<1>14. ASSUME NEW cfg \in Configs, Restart(cfg) PROVE MemoryTypeOK'
  <2> DEFINE left == Without(rows, Prunable(cfg, {}))
  <2>1. DOMAIN left \subseteq DOMAIN rows /\ \A c \in DOMAIN left : left[c] = rows[c]
    BY DEF Without
  <2>2. ASSUME NEW c \in DOMAIN left
        PROVE  c \in Clients /\ Rehydrated(cfg, c, left[c]) \in SessionType
    <3>1. c \in Clients
      BY <2>1, RowFacts
    <3>2. /\ left[c].since \in Nat /\ left[c].lastTs \in Nat /\ left[c].active \in Nat
          /\ left[c].path \in Paths \cup {NoPath}
      BY <2>1, RowFacts
    <3> QED
      BY <3>1, <3>2, UnpasswordedType DEF Rehydrated, SessionType, RoleSources
  <2>3. before' \subseteq (DOMAIN left) \X (DOMAIN left)
    BY <1>14, OrderType DEF Restart
  <2>4. /\ sessions' = [c \in DOMAIN left |-> Rehydrated(cfg, c, left[c])]
        /\ settings' = cfg /\ roundRobin' = 0
    BY <1>14 DEF Restart
  <2> HIDE DEF left
  <2> QED
    BY <2>2, <2>3, <2>4 DEF MemoryTypeOK, IsTable
<1>15. CASE UNCHANGED <<settings, sessions, before, roundRobin>>
  BY <1>15 DEF MemoryTypeOK, IsTable
<1> QED
  BY <1>1, <1>2, <1>3, <1>4, <1>5, <1>6, <1>7, <1>8, <1>9, <1>10, <1>11, <1>12, <1>13,
     <1>14, <1>15
  DEF Next, Database, Resume, Inbound, PushLoop, Operator, World, vars,
      DbLogin, DbPost, DbClear, DbForce, DbRead, DbAck, DbPath, DbNextUnsynced, DbCount,
      ResumeReply, ResumeAck, ResumeCount, RecvLogin, Receive, LoseHistory, Tick

---------------------------------------------------------------------------
(* The tasks and the queues keep their type.                               *)

Queues == Seq({"handler", "push"})

LEMMA QueueFacts ==
  ASSUME TaskTypeOK
  PROVE  /\ queue # <<>> /\ JobDone => queue' \in Queues /\ done' \in Queues
         /\ Append(queue, "handler") \in Queues /\ Append(queue, "push") \in Queues
         /\ done # <<>> => Tail(done) \in Queues
<1>1. queue \in Queues /\ done \in Queues
  BY DEF TaskTypeOK, Queues
<1>2. queue # <<>> => Head(queue) \in {"handler", "push"} /\ Tail(queue) \in Queues
  BY <1>1, HeadTailProperties DEF Queues
<1>3. \A e \in {"handler", "push"} : Append(queue, e) \in Queues /\ Append(done, e) \in Queues
  BY <1>1, AppendProperties DEF Queues
<1>4. done # <<>> => Tail(done) \in Queues
  BY <1>1, HeadTailProperties DEF Queues
<1> QED
  BY <1>2, <1>3, <1>4 DEF JobDone

LEMMA HandlerStart ==
  ASSUME TaskTypeOK, NEW rec, HandlerWaits(rec), rec \in Handlers, UNCHANGED <<push, done>>
  PROVE  TaskTypeOK'
BY QueueFacts DEF TaskTypeOK, HandlerWaits, Queues

LEMMA TakeAckTask ==
  ASSUME TaskTypeOK, NEW c \in Clients, NEW x \in Things, TakeAck(c, x)
  PROVE  h' \in Handlers /\ queue' \in Queues
<1>1. CASE x = Welcome
  BY <1>1, ValueAssumption DEF TakeAck, Handlers, TaskTypeOK, Queues
<1>2. CASE x # Welcome
  <2>1. x.ts \in Nat
    BY <1>2 DEF Things, Posts
  <2>2. [op |-> "ack", c |-> c, ts |-> x.ts] \in CursorWait
    BY <2>1 DEF CursorWait
  <2> QED
    BY <1>2, <2>2, QueueFacts DEF TakeAck, HandlerWaits, Handlers
<1> QED
  BY <1>1, <1>2

LEMMA CountsTask ==
  ASSUME TaskTypeOK, NEW s, Counts(s)
  PROVE  h' \in Handlers /\ queue' \in Queues
BY QueueFacts DEF Counts, HandlerWaits, Handlers, ReplyWait, TaskTypeOK, Queues

LEMMA PostWaitType ==
  ASSUME MemoryTypeOK, WorldTypeOK, TaskTypeOK, NEW m \in Packets, NEW a \in {m.c, RoomKey},
         PostWaits(m.c, a, <<m.c, m.ts>>)
  PROVE  h' \in Handlers /\ queue' \in Queues
<1>1. /\ settings.postRetention \in Nat \cup {NoLimit}
      /\ settings.maxPosts \in (Nat \ {0}) \cup {NoLimit}
  BY ConfigAssumption DEF MemoryTypeOK, ConfigType
<1>2. h' \in PostWait
  BY <1>1, PacketFacts DEF PostWaits, HandlerWaits, PostWait, Authors, Messages, WorldTypeOK
<1> QED
  BY <1>2, QueueFacts DEF PostWaits, HandlerWaits, Handlers

LEMMA TaskStep ==
  ASSUME Inv, [Next]_vars
  PROVE  TaskTypeOK'
<1> USE DEF Inv, TypeOK
<1>1. CASE Database
  <2>1. queue' \in Queues /\ done' \in Queues
    BY <1>1, QueueFacts
    DEF Database, DbLogin, DbPost, DbClear, DbForce, DbRead, DbAck, DbPath, DbNextUnsynced,
        DbCount, HandlerJob, PushJob
  <2>2. CASE DbPost
    <3>1. h \in PostWait
      BY <2>2, WaitFacts DEF DbPost, HandlerJob
    <3>2. Prunable(settings, InFlight) \subseteq Clients
      BY DEF Prunable, IdleClients, StoreTypeOK, IsTable
    <3>3. h' \in PostWait
      BY <2>2, <3>1, <3>2 DEF DbPost, PostWait
    <3> QED
      BY <2>1, <2>2, <3>3 DEF DbPost, TaskTypeOK, Handlers, Queues
  <2>3. CASE DbNextUnsynced
    <3>1. push \in ReadWait
      BY <2>3, WaitFacts DEF DbNextUnsynced, PushJob
    <3>2. \A since : NextUnsynced(posts, push.c, since, push.notNewerThan) \subseteq Posts
      BY DEF NextUnsynced, Unsynced, StoreTypeOK
    <3>3. push' \in ReadWait
      BY <2>3, <3>1, <3>2 DEF DbNextUnsynced, ReadWait
    <3> QED
      BY <2>1, <2>3, <3>3 DEF DbNextUnsynced, TaskTypeOK, Pushes, Queues
  <2>4. CASE UNCHANGED <<h, push>>
    BY <2>1, <2>4 DEF TaskTypeOK, Queues
  <2> QED
    BY <1>1, <2>2, <2>3, <2>4
    DEF Database, DbLogin, DbClear, DbForce, DbRead, DbAck, DbPath, DbCount
<1>2. CASE ResumePost
  <2>1. ASSUME push.pc = "read", push.c \in DOMAIN sessions
        PROVE  [push EXCEPT !.frozen = sessions[push.c].since] \in ReadWait
    <3>1. push \in ReadWait
      BY <2>1, WaitFacts
    <3>2. sessions[push.c].since \in Int
      BY <2>1, SessionFacts DEF SessionType
    <3> QED
      BY <3>1, <3>2 DEF ReadWait
  <2>2. push' \in Pushes
    BY <1>2, <2>1 DEF ResumePost, TaskTypeOK, Pushes
  <2> QED
    BY <1>2, <2>2, QueueFacts DEF ResumePost, HandlerResumes, TaskTypeOK, Handlers, Queues
<1>3. CASE ResumePush
  BY <1>3, QueueFacts DEF ResumePush, PushResumes, TaskTypeOK, Pushes, Queues
<1>4. CASE ResumeForce
  BY <1>4, QueueFacts, CountsTask DEF ResumeForce, HandlerResumes, TaskTypeOK, Queues
<1>5. CASE ResumePath
  <2>1. done' \in Queues
    BY <1>5, QueueFacts DEF ResumePath, HandlerResumes
  <2>2. h \in PathWait
    BY <1>5, WaitFacts DEF ResumePath, HandlerResumes
  <2>3. \A x \in h.extra : x \in Things /\ h.c \in Clients
    BY <2>2 DEF PathWait
  <2>4. h' \in Handlers /\ queue' \in Queues
    BY <1>5, <2>3, TakeAckTask DEF ResumePath, TaskTypeOK, Handlers, Queues
  <2> QED
    BY <1>5, <2>1, <2>4 DEF ResumePath, TaskTypeOK, Queues
<1>6. CASE ResumeLogin \/ ResumeReply \/ ResumeAck \/ ResumeCount
  BY <1>6, QueueFacts
  DEF ResumeLogin, ResumeReply, ResumeAck, ResumeCount, HandlerResumes, PushResumes,
      TaskTypeOK, Handlers, Pushes, Queues
<1>7. ASSUME NEW m \in Packets, NEW since \in Claims(m.c), RecvLogin(m, since)
      PROVE  TaskTypeOK'
  <2>1. PICK grant \in Resolve(settings, m.c, m.secret) :
          HandlerWaits([op |-> "login", c |-> m.c, ts |-> m.ts, since |-> since,
                        flood |-> m.flood, role |-> grant.role,
                        source |-> grant.source, now |-> now])
    BY <1>7 DEF RecvLogin
  <2>2. grant.role \in Roles /\ grant.source \in RoleSources
    BY GrantFacts, PacketAssumption DEF PacketType, MemoryTypeOK
  <2>3. m.c \in Clients /\ m.ts \in Nat /\ m.flood \in BOOLEAN /\ since \in Nat /\ now \in Nat
    BY PacketFacts, ClaimFacts DEF WorldTypeOK
  <2>4. [op |-> "login", c |-> m.c, ts |-> m.ts, since |-> since, flood |-> m.flood,
         role |-> grant.role, source |-> grant.source, now |-> now] \in Handlers
    BY <2>2, <2>3 DEF Handlers, LoginWait
  <2> QED
    BY <1>7, <2>1, <2>4, HandlerStart DEF RecvLogin
<1>8. ASSUME NEW m \in Packets, NEW since \in Claims(m.c), RecvKeepAlive(m, since)
      PROVE  TaskTypeOK'
  <2>1. since \in Nat /\ m.c \in Clients
    BY PacketFacts, ClaimFacts
  <2>2. [op |-> "force", c |-> m.c, ts |-> since] \in Handlers
    BY <2>1 DEF Handlers, CursorWait
  <2> QED
    BY <1>8, <2>2, HandlerStart, CountsTask DEF RecvKeepAlive, TaskTypeOK, Queues
<1>9. ASSUME NEW m \in Packets, RecvPost(m) PROVE TaskTypeOK'
  BY <1>9, PostWaitType DEF RecvPost, TaskTypeOK, Queues
<1>10. ASSUME NEW m \in Packets, RecvCli(m) PROVE TaskTypeOK'
  <2>1. [op |-> "clear"] \in Handlers
    BY DEF Handlers, ReplyWait
  <2> QED
    BY <1>10, <2>1, PostWaitType, HandlerStart DEF RecvCli, TaskTypeOK, Queues
<1>11. ASSUME NEW m \in Packets, RecvRequest(m) PROVE TaskTypeOK'
  <2>1. [op |-> "read"] \in Handlers
    BY DEF Handlers, ReplyWait
  <2> QED
    BY <1>11, <2>1, HandlerStart DEF RecvRequest, TaskTypeOK
<1>12. ASSUME NEW m \in Packets, NEW extra \in SUBSET acks[m.c], RecvPath(m, extra)
       PROVE  TaskTypeOK'
  <2>1. m.c \in Clients /\ m.path \in Paths /\ extra \subseteq Things
    BY <1>12, PacketFacts DEF RecvPath, WorldTypeOK
  <2>2. [op |-> "path", c |-> m.c, path |-> m.path, extra |-> extra] \in Handlers
    BY <2>1 DEF Handlers, PathWait
  <2> QED
    BY <1>12, <2>2, HandlerStart DEF RecvPath
<1>13. ASSUME NEW c \in Clients, NEW x \in acks[c], RecvAck(c, x)
       PROVE  TaskTypeOK'
  <2>1. x \in Things
    BY DEF WorldTypeOK
  <2> QED
    BY <1>13, <2>1, TakeAckTask DEF RecvAck, TaskTypeOK, Queues
<1>14. ASSUME NEW overdue \in SUBSET InFlight, PushOnce(overdue)
       PROVE  TaskTypeOK'
  <2>1. ASSUME NEW c \in DOMAIN sessions
        PROVE  [pc |-> "read", c |-> c, notNewerThan |-> now - SyncDelay,
                post |-> {}, frozen |-> -1] \in Pushes
    BY SessionFacts, BoundAssumption DEF Pushes, ReadWait, WorldTypeOK
  <2> QED
    BY <1>14, <2>1, QueueFacts DEF PushOnce, TaskTypeOK, Queues
<1>15. ASSUME NEW cfg \in Configs, Restart(cfg) PROVE TaskTypeOK'
  BY <1>15 DEF Restart, TaskTypeOK, Handlers, Pushes
<1>16. CASE UNCHANGED tasks
  BY <1>16 DEF tasks, TaskTypeOK
<1> QED
  BY <1>1, <1>2, <1>3, <1>4, <1>5, <1>6, <1>7, <1>8, <1>9, <1>10, <1>11, <1>12, <1>13,
     <1>14, <1>15, <1>16
  DEF Next, Resume, Inbound, PushLoop, Operator, World, vars, tasks,
      Reload, Receive, LoseHistory, Tick

---------------------------------------------------------------------------
(* The clients and the mesh keep their type.                               *)
LEMMA WorldStep ==
  ASSUME Inv, [Next]_vars
  PROVE  WorldTypeOK'
<1> USE DEF Inv, TypeOK
<1>1. CASE DbPost
  <2>1. h \in PostWait
    BY <1>1, WaitFacts DEF DbPost, HandlerJob
  <2>2. NextPostTs(posts, h.now) \in Nat
    BY <2>1, NextPostTsIsNew DEF PostWait, StoreTypeOK, NewestKept
  <2>3. [ts |-> NextPostTs(posts, h.now), author |-> h.author, msg |-> h.msg] \in Posts
    BY <2>1, <2>2 DEF PostWait, Posts
  <2> QED
    BY <1>1, <2>3 DEF DbPost, WorldTypeOK, world
<1>2. CASE ResumePost
  <2>1. h \in PostWait
    BY <1>2, WaitFacts DEF ResumePost, HandlerResumes
  <2> QED
    BY <1>2, <2>1 DEF ResumePost, WorldTypeOK, PostWait
<1>3. CASE ResumePush
  <2>1. push \in ReadWait
    BY <1>3, WaitFacts DEF ResumePush, PushResumes
  <2> QED
    BY <1>3, <2>1 DEF ResumePush, WorldTypeOK, ReadWait, Things
<1>4. ASSUME NEW m \in Packets, RecvPost(m) PROVE WorldTypeOK'
  <2>1. <<m.c, m.ts>> \in Messages
    BY PacketFacts DEF Messages
  <2> QED
    BY <1>4, <2>1 DEF RecvPost, WorldTypeOK
<1>5. ASSUME NEW overdue \in SUBSET InFlight, PushOnce(overdue) PROVE WorldTypeOK'
  <2>1. \A c \in DOMAIN sessions : c \in Clients
    BY SessionFacts
  <2>2. air' \subseteq Clients \X Things
    BY <1>5, <2>1 DEF PushOnce, WorldTypeOK, Things
  <2>3. acks' \in [Clients -> SUBSET Things]
    BY <1>5, <2>1 DEF PushOnce, WorldTypeOK
  <2> QED
    BY <1>5, <2>2, <2>3 DEF PushOnce, WorldTypeOK
<1>6. ASSUME NEW pair \in air, Receive(pair[1], pair[2]) PROVE WorldTypeOK'
  <2>1. pair[1] \in Clients /\ pair[2] \in Posts \cup {Welcome}
    BY DEF WorldTypeOK, Things
  <2>2. held' \in [Clients -> SUBSET Posts]
    BY <1>6, <2>1 DEF Receive, WorldTypeOK
  <2>3. acks' \in [Clients -> SUBSET Things]
    BY <1>6, <2>1 DEF Receive, WorldTypeOK, Things
  <2> QED
    BY <1>6, <2>2, <2>3 DEF Receive, WorldTypeOK
<1>7. ASSUME NEW c \in Clients, LoseHistory(c) PROVE WorldTypeOK'
  BY <1>7 DEF LoseHistory, WorldTypeOK
<1>8. ASSUME NEW t \in 1..MaxNow, Tick(t) PROVE WorldTypeOK'
  BY <1>8, BoundAssumption DEF Tick, WorldTypeOK
<1>9. CASE UNCHANGED <<world, log>>
  BY <1>9 DEF world, WorldTypeOK
<1>10. CASE Database
  BY <1>1, <1>9, <1>10 DEF Database, DbLogin, DbClear, DbForce, DbRead, DbAck, DbPath,
                           DbNextUnsynced, DbCount
<1>11. CASE Resume
  BY <1>2, <1>3, <1>9, <1>11 DEF Resume, ResumeLogin, ResumeForce, ResumeReply, ResumeAck,
                                 ResumePath, ResumeCount
<1>12. CASE Inbound
  <2>1. ASSUME NEW m, NEW since, RecvLogin(m, since) \/ RecvKeepAlive(m, since)
        PROVE  UNCHANGED <<world, log>>
    BY <2>1 DEF RecvLogin, RecvKeepAlive
  <2>2. ASSUME NEW m, RecvCli(m) \/ RecvRequest(m) PROVE UNCHANGED <<world, log>>
    BY <2>2 DEF RecvCli, RecvRequest
  <2>3. ASSUME NEW m, NEW extra, RecvPath(m, extra) PROVE UNCHANGED <<world, log>>
    BY <2>3 DEF RecvPath
  <2>4. ASSUME NEW c, NEW x, RecvAck(c, x) PROVE UNCHANGED <<world, log>>
    BY <2>4 DEF RecvAck
  <2> QED
    BY <1>4, <1>9, <1>12, <2>1, <2>2, <2>3, <2>4 DEF Inbound
<1>13. CASE PushLoop \/ Operator \/ World
  BY <1>5, <1>6, <1>7, <1>8, <1>9, <1>13 DEF PushLoop, Operator, World, Reload, Restart
<1> QED
  BY <1>9, <1>10, <1>11, <1>12, <1>13 DEF Next, vars

---------------------------------------------------------------------------
(* Posts are stored and deleted in one transaction only.                   *)
LEMMA PostsFrame ==
  ASSUME [Next]_vars, ~DbPost
  PROVE  UNCHANGED <<posts, log>>
<1>1. CASE Database
  BY <1>1 DEF Database, DbLogin, DbClear, DbForce, DbRead, DbAck, DbPath, DbNextUnsynced,
              DbCount, durable
<1>2. CASE Resume \/ Inbound \/ PushLoop
  BY <1>2, QuietSteps DEF durable
<1>3. CASE Operator
  BY <1>3 DEF Operator, Reload, Restart, durable
<1>4. CASE World
  BY <1>4 DEF World, Receive, LoseHistory, Tick, durable
<1>5. CASE UNCHANGED vars
  BY <1>5 DEF vars, durable
<1> QED
  BY <1>1, <1>2, <1>3, <1>4, <1>5 DEF Next

(* The post a transaction adds is newer than all that were ever stored,    *)
(* and the retention that follows leaves it.                               *)
LEMMA NewPost ==
  ASSUME Inv, DbPost
  PROVE  \E p \in Posts :
           /\ \A q \in log : q.ts < p.ts
           /\ h.now <= p.ts /\ p.author = h.author /\ p.msg = h.msg
           /\ log' = log \cup {p} /\ p \in posts' /\ posts' \subseteq posts \cup {p}
<1> USE DEF Inv, TypeOK
<1>1. h \in PostWait
  BY WaitFacts DEF DbPost, HandlerJob
<1>2. /\ NextPostTs(posts, h.now) \in Nat
      /\ h.now <= NextPostTs(posts, h.now)
      /\ \A q \in posts : q.ts < NextPostTs(posts, h.now)
  BY <1>1, NextPostTsIsNew DEF PostWait, StoreTypeOK, NewestKept
<1> DEFINE p == [ts |-> NextPostTs(posts, h.now), author |-> h.author, msg |-> h.msg]
           left == Without(rows, Prunable(settings, InFlight))
           all == posts \cup {p}
<1>3. p \in Posts
  BY <1>1, <1>2 DEF PostWait, Posts
<1>4. \A q \in log : q.ts < p.ts
  <2> TAKE q \in log
  <2>1. PICK m \in posts : q.ts <= m.ts
    BY DEF NewestKept
  <2>2. m.ts \in Nat /\ q.ts \in Nat /\ m.ts < p.ts
    BY <1>2, <2>1 DEF StoreTypeOK, WorldTypeOK, Posts
  <2> QED
    BY <1>2, <2>1, <2>2
<1>5. all \in SUBSET Posts /\ p \in all /\ \A q \in all : q.ts <= p.ts
  BY <1>2, <1>3 DEF StoreTypeOK, Posts
<1>6. p \notin PrunedPosts(all, left, Cutoff(h.now, h.postRetention), h.maxPosts)
  <2>1. /\ h.now \in Nat /\ h.postRetention \in Nat \cup {NoLimit}
        /\ h.maxPosts \in (Nat \ {0}) \cup {NoLimit} /\ h.now <= p.ts
    BY <1>1, <1>2 DEF PostWait
  <2> HIDE DEF p, all, left
  <2> QED
    BY <1>5, <2>1, NewestNotPruned
<1>7. /\ posts' = all \ PrunedPosts(all, left, Cutoff(h.now, h.postRetention), h.maxPosts)
      /\ log' = log \cup {p}
  BY DEF DbPost
<1>8. p \in posts' /\ posts' \subseteq posts \cup {p}
  BY <1>6, <1>7
<1> QED
  BY <1>2, <1>3, <1>4, <1>7, <1>8

LEMMA NewestStep ==
  ASSUME Inv, [Next]_vars
  PROVE  NewestKept'
<1>1. CASE DbPost
  <2>1. PICK p \in Posts : /\ \A q \in log : q.ts < p.ts
                           /\ log' = log \cup {p} /\ p \in posts' /\ posts' \subseteq posts \cup {p}
    BY <1>1, NewPost
  <2>2. \A q \in log' : q.ts <= p.ts
    BY <2>1 DEF Inv, TypeOK, WorldTypeOK, Posts
  <2> QED
    BY <2>1, <2>2 DEF Inv, NewestKept
<1>2. CASE ~DbPost
  BY <1>2, PostsFrame DEF Inv, NewestKept
<1> QED
  BY <1>1, <1>2

---------------------------------------------------------------------------
LEMMA InitInv ==
  ASSUME Init
  PROVE  Inv
<1>1. StoreTypeOK /\ MemoryTypeOK
  BY DEF Init, NoTable, StoreTypeOK, MemoryTypeOK, IsTable
<1>2. TaskTypeOK
  BY DEF Init, TaskTypeOK, Handlers, Pushes
<1>3. WorldTypeOK
  BY DEF Init, WorldTypeOK
<1>4. NewestKept
  BY DEF Init, NewestKept
<1> QED
  BY <1>1, <1>2, <1>3, <1>4 DEF Inv, TypeOK

LEMMA StepInv ==
  ASSUME Inv, [Next]_vars
  PROVE  Inv'
BY StoreStep, MemoryStep, TaskStep, WorldStep, NewestStep DEF Inv, TypeOK

LEMMA InvHolds == Spec => []Inv
BY InitInv, StepInv, PTL DEF Spec

(* Type correctness of the whole room, whatever the clients send and       *)
(* whatever the configurations are.                                        *)
THEOREM TypeCorrect == Spec => []TypeOK
BY InvHolds, PTL DEF Inv

(* post_ts, the sync cursor, only increases (next_post_ts, prune_posts):   *)
(* across pruning, restarts and a clock that is set back, a new post is    *)
(* later than every post ever stored.                                      *)
THEOREM PostTsAlwaysIncreases == Spec => PostTsIncreases
<1>1. ASSUME Inv, [Next]_vars
      PROVE  [\A p \in posts' \ posts, q \in log : q.ts < p.ts]_vars
  <2>1. CASE DbPost
    BY <1>1, <2>1, NewPost
  <2>2. CASE ~DbPost
    BY <1>1, <2>2, PostsFrame
  <2> QED
    BY <2>1, <2>2
<1> QED
  BY <1>1, InvHolds, PTL DEF Spec, PostTsIncreases
=============================================================================
