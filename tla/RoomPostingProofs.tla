-------------------------- MODULE RoomPostingProofs --------------------------
(***************************************************************************)
(* Theorems about RoomServer: what a role and a stored post stand for.     *)
(*                                                                         *)
(* Who may post.  The role travels: from the settings of the moment into a *)
(* login that waits, and from there into a session; a reload may come      *)
(* before, between and after.  A login starts to wait with what the        *)
(* settings in force grant, a reload and a start put every session in line *)
(* with their list, and no other step but the login's resumption touches a *)
(* role.                                                                   *)
(*                                                                         *)
(* How often.  The first invariant says that the replay guard of a session *)
(* is not behind any message it ever stored.                               *)
(*                                                                         *)
(* Acknowledged means stored.  A retry is acknowledged because its time    *)
(* stamp is the guard.  The second invariant says that a guard which is    *)
(* the time stamp of a post was set by that post.                          *)
(***************************************************************************)
EXTENDS RoomMemoryProofs

(* Most steps leave the roles of the sessions alone.                       *)
SameRole(s, t) == s.role = t.role /\ s.source = t.source

RolesKept ==
  \A c \in DOMAIN sessions' :
    c \in DOMAIN sessions /\ SameRole(sessions'[c], sessions[c])

LEMMA UpdateRole ==
  ASSUME NEW c \in DOMAIN sessions, NEW s, Update(c, s), SameRole(s, sessions[c])
  PROVE  RolesKept
BY DEF Update, RolesKept, SameRole

LEMMA HeardRole ==
  ASSUME Inv, NEW c \in DOMAIN sessions, NEW ts
  PROVE  /\ SameRole(Heard(sessions[c], ts), sessions[c])
         /\ \A n : SameRole([Heard(sessions[c], ts) EXCEPT !.since = n], sessions[c])
         /\ SameRole([Heard(sessions[c], ts) EXCEPT !.pending = NoAck], sessions[c])
<1>1. sessions[c] \in SessionType
  BY SessionFacts DEF Inv, TypeOK
<1> QED
  BY <1>1 DEF Heard, SessionType, SameRole

LEMMA TakeAckRole ==
  ASSUME Inv, NEW c \in DOMAIN sessions, NEW x, TakeAck(c, x)
  PROVE  RolesKept /\ h'.op \in {"idle", "ack"}
<1>1. sessions[c] \in SessionType
  BY SessionFacts DEF Inv, TypeOK
<1> DEFINE s == [sessions[c] EXCEPT !.pending = NoAck, !.failures = 0]
           n == IF s.welcome > 0 THEN s.welcome - 1 ELSE 0
<1>2. CASE Update(c, [s EXCEPT !.welcome = n]) /\ h' = Idle
  <2>1. SameRole([s EXCEPT !.welcome = n], sessions[c])
    BY <1>1 DEF SessionType, SameRole
  <2> QED
    BY <1>2, <2>1, UpdateRole DEF Idle
<1>3. CASE Update(c, [s EXCEPT !.since = x.ts]) /\ h' = [op |-> "ack", c |-> c, ts |-> x.ts]
  <2>1. SameRole([s EXCEPT !.since = x.ts], sessions[c])
    BY <1>1 DEF SessionType, SameRole
  <2> QED
    BY <1>3, <2>1, UpdateRole
<1> QED
  BY <1>2, <1>3 DEF TakeAck, HandlerWaits

---------------------------------------------------------------------------
(* Only a login, a reload and a start give a session a role.               *)
LEMMA RolesFrame ==
  ASSUME Inv, [Next]_vars, ~ResumeLogin, ~Operator
  PROVE  RolesKept /\ UNCHANGED settings
<1>1. UNCHANGED settings
  BY DEF Next, Database, Resume, Inbound, PushLoop, World, vars,
         DbLogin, DbPost, DbClear, DbForce, DbRead, DbAck, DbPath, DbNextUnsynced, DbCount,
         ResumePost, ResumeForce, ResumeReply, ResumeAck, ResumePath, ResumePush, ResumeCount,
         RecvLogin, RecvKeepAlive, RecvPost, RecvCli, RecvRequest, RecvPath, RecvAck,
         PushOnce, Receive, LoseHistory, Tick
<1>2. \A c \in DOMAIN sessions : c \in Clients /\ sessions[c] \in SessionType
  BY SessionFacts DEF Inv, TypeOK
<1>3. ASSUME UNCHANGED sessions PROVE RolesKept
  BY <1>3 DEF RolesKept, SameRole
<1>4. CASE ResumePost
  BY <1>4 DEF ResumePost, ForgetSessions, Without, RolesKept, SameRole
<1>5. CASE ResumeForce
  BY <1>2, <1>5 DEF ResumeForce, Update, SessionType, RolesKept, SameRole
<1>6. CASE ResumePath
  BY <1>3, <1>6, TakeAckRole DEF ResumePath, Matches
<1>7. CASE ResumePush
  <2>1. ASSUME NEW p, sessions' = Sent(sessions, push.c, p) PROVE RolesKept
    BY <1>2, <2>1 DEF Sent, SessionType, RolesKept, SameRole
  <2> QED
    BY <1>3, <1>7, <2>1 DEF ResumePush
<1>8. ASSUME NEW m \in Packets, RecvPost(m) \/ RecvCli(m) \/ RecvRequest(m) PROVE RolesKept
  BY <1>8, HeardRole, UpdateRole DEF RecvPost, RecvCli, RecvRequest
<1>9. ASSUME NEW m \in Packets, NEW since, RecvKeepAlive(m, since) PROVE RolesKept
  BY <1>9, HeardRole, UpdateRole DEF RecvKeepAlive
<1>10. ASSUME NEW m \in Packets, NEW extra, RecvPath(m, extra) PROVE RolesKept
  <2>1. m.c \in DOMAIN sessions
    BY <1>10 DEF RecvPath
  <2>2. SameRole([sessions[m.c] EXCEPT !.path = m.path, !.active = now], sessions[m.c])
    BY <1>2, <2>1 DEF SessionType, SameRole
  <2> QED
    BY <1>10, <2>1, <2>2, UpdateRole DEF RecvPath
<1>11. ASSUME NEW c \in Clients, NEW x \in acks[c], RecvAck(c, x) PROVE RolesKept
  BY <1>11, TakeAckRole DEF RecvAck, Matches
<1>12. ASSUME NEW overdue, PushOnce(overdue) PROVE RolesKept
  <2> DEFINE ss == Expired(overdue)
  <2>1. /\ DOMAIN ss = DOMAIN sessions
        /\ \A c \in DOMAIN sessions : ss[c] \in SessionType /\ SameRole(ss[c], sessions[c])
    <3>1. ASSUME NEW s \in SessionType
          PROVE  LET e == [s EXCEPT !.pending = NoAck, !.failures = s.failures + 1]
                 IN  e \in SessionType /\ SameRole(e, s)
      <4>1. s.failures + 1 \in Nat
        BY <3>1, ChangeType
      <4>2. \A n \in Nat : [s EXCEPT !.pending = NoAck, !.failures = n] \in SessionType
        BY <3>1, ChangeType
      <4>3. \A n \in Nat : SameRole([s EXCEPT !.pending = NoAck, !.failures = n], s)
        BY <3>1 DEF SessionType, SameRole
      <4> QED
        BY <4>1, <4>2, <4>3
    <3> QED
      BY <1>2, <3>1 DEF Expired, SameRole
  <2> HIDE DEF ss
  <2>2. \A c \in DOMAIN sessions :
          /\ DOMAIN Sent(ss, c, Welcome) = DOMAIN sessions
          /\ \A d \in DOMAIN sessions : SameRole(Sent(ss, c, Welcome)[d], sessions[d])
    BY <2>1 DEF Sent, SessionType, SameRole
  <2>3. /\ DOMAIN sessions' = DOMAIN sessions
        /\ \A c \in DOMAIN sessions : SameRole(sessions'[c], sessions[c])
    BY <1>12, <2>1, <2>2 DEF PushOnce, ss
  <2> QED
    BY <2>3 DEF RolesKept
<1> QED
  BY <1>1, <1>3, <1>4, <1>5, <1>6, <1>7, <1>8, <1>9, <1>10, <1>11, <1>12
  DEF Next, Database, Resume, Inbound, PushLoop, World, vars,
      DbLogin, DbPost, DbClear, DbForce, DbRead, DbAck, DbPath, DbNextUnsynced, DbCount,
      ResumeReply, ResumeAck, ResumeCount, RecvLogin, Receive, LoseHistory, Tick

---------------------------------------------------------------------------
(* A login that waits carries what its settings grant.                     *)
LEMMA ResolveAsListed ==
  ASSUME NEW cfg \in Configs, NEW c \in Clients, NEW secret, NEW grant \in Resolve(cfg, c, secret)
  PROVE  AsListed(cfg, c, grant)
BY DEF Resolve, AsListed

(* A login starts to wait when its packet arrives, and only its            *)
(* resumption and a restart end that.                                      *)
LEMMA LoginWaits ==
  ASSUME Inv, [Next]_vars, h'.op = "login", h' # h
  PROVE  \E m \in Packets, since \in Nat : RecvLogin(m, since)
<1>1. CASE Database
  BY <1>1, WaitFacts DEF Database, DbLogin, DbPost, DbClear, DbForce, DbRead, DbAck, DbPath,
                         DbNextUnsynced, DbCount, HandlerJob, PostWait, Inv, TypeOK
<1>2. CASE Resume
  <2>1. ASSUME NEW s, Counts(s) PROVE h'.op # "login"
    BY <2>1 DEF Counts, HandlerWaits, Idle
  <2>2. ASSUME ResumePath PROVE h'.op # "login"
    BY <2>2, TakeAckRole DEF ResumePath, Matches, Idle
  <2> QED
    BY <1>2, <2>1, <2>2
    DEF Resume, ResumeLogin, ResumePost, ResumeForce, ResumeReply, ResumeAck, ResumePush,
        ResumeCount, Idle
<1>3. ASSUME NEW m \in Packets, NEW since \in Claims(m.c), RecvLogin(m, since)
      PROVE  \E n \in Packets, t \in Nat : RecvLogin(n, t)
  <2>1. since \in Nat
    BY <1>3, ClaimFacts, PacketFacts DEF Inv, TypeOK
  <2> QED
    BY <1>3, <2>1
<1>4. ASSUME NEW m \in Packets, RecvPost(m) PROVE FALSE
  BY <1>4 DEF RecvPost, PostWaits, HandlerWaits
<1>5. ASSUME NEW m \in Packets, RecvCli(m) PROVE FALSE
  <2>1. HandlerWaits([op |-> "clear"]) => h'.op = "clear"
    BY DEF HandlerWaits
  <2>2. PostWaits(m.c, RoomKey, <<m.c, m.ts>>) => h'.op = "post"
    BY DEF PostWaits, HandlerWaits
  <2> QED
    BY <1>5, <2>1, <2>2 DEF RecvCli
<1>6. ASSUME NEW m \in Packets, NEW since, RecvKeepAlive(m, since) PROVE FALSE
  BY <1>6 DEF RecvKeepAlive, Counts, HandlerWaits, Idle
<1>7. ASSUME NEW m \in Packets, RecvRequest(m) PROVE FALSE
  <2>1. HandlerWaits([op |-> "read"]) => h'.op = "read"
    BY DEF HandlerWaits
  <2> QED
    BY <1>7, <2>1 DEF RecvRequest
<1>8. ASSUME NEW m \in Packets, NEW extra, RecvPath(m, extra) PROVE FALSE
  BY <1>8 DEF RecvPath, HandlerWaits
<1>9. ASSUME NEW c \in Clients, NEW x \in acks[c], RecvAck(c, x) PROVE FALSE
  BY <1>9, TakeAckRole DEF RecvAck, Matches
<1>10. CASE Inbound
  BY <1>3, <1>4, <1>5, <1>6, <1>7, <1>8, <1>9, <1>10 DEF Inbound
<1>11. CASE Operator
  BY <1>11 DEF Operator, Reload, Restart, Idle, tasks
<1>12. CASE PushLoop \/ World \/ UNCHANGED vars
  BY <1>12 DEF PushLoop, PushOnce, World, Receive, LoseHistory, Tick, vars, tasks
<1> QED
  BY <1>1, <1>2, <1>10, <1>11, <1>12 DEF Next

(* What a login carries when it starts to wait.                            *)
LEMMA LoginAsListed ==
  ASSUME Inv, [Next]_vars, h'.op = "login", h' # h
  PROVE  AsListed(settings', h'.c, h')
<1>1. PICK m \in Packets, since \in Nat : RecvLogin(m, since)
  BY LoginWaits
<1>2. PICK grant \in Resolve(settings, m.c, m.secret) :
        HandlerWaits([op |-> "login", c |-> m.c, ts |-> m.ts, since |-> since,
                      flood |-> m.flood, role |-> grant.role,
                      source |-> grant.source, now |-> now])
  BY <1>1 DEF RecvLogin
<1>3. AsListed(settings, m.c, grant)
  BY ResolveAsListed, PacketFacts DEF Inv, TypeOK, MemoryTypeOK
<1>4. h'.c = m.c /\ h'.role = grant.role /\ h'.source = grant.source
  BY <1>2 DEF HandlerWaits
<1>5. settings' = settings
  BY <1>1 DEF RecvLogin
<1> QED
  BY <1>3, <1>4, <1>5 DEF AsListed

(* A reload and a start put every session in line with their list.         *)
LEMMA OperatorListed ==
  ASSUME Inv, Operator
  PROVE  \A c \in DOMAIN sessions' : AsListed(settings', c, sessions'[c])
<1>1. ASSUME NEW cfg \in Configs, NEW c \in DOMAIN sessions
      PROVE  AsListed(cfg, c, Reassigned(cfg, c, sessions[c]))
  <2>1. c \in Clients /\ sessions[c] \in SessionType
    BY SessionFacts DEF Inv, TypeOK
  <2> QED
    BY <2>1 DEF Reassigned, AsListed, SessionType
<1>2. ASSUME NEW cfg \in Configs, NEW c, NEW row
      PROVE  AsListed(cfg, c, Rehydrated(cfg, c, row))
  BY DEF Rehydrated, ResolveWithoutPassword, AsListed
<1>3. CASE \E cfg \in Configs : Reload(cfg)
  BY <1>1, <1>3 DEF Reload, AsListed
<1>4. CASE \E cfg \in Configs : Restart(cfg)
  BY <1>2, <1>4 DEF Restart, Without, AsListed
<1> QED
  BY <1>3, <1>4 DEF Operator

(* Every session has the role that the configuration in force lists its    *)
(* client with, whatever packets, pushes, reloads and starts come in which *)
(* order, unless a reload overtook its login (apply_settings, acl.py,      *)
(* _login).                                                                *)
THEOREM RolesAlwaysFollowList == Spec => RolesFollowList
<1> DEFINE Listed(c) == AsListed(settings', c, sessions'[c])
           OutBefore(c) == /\ UNCHANGED settings /\ c \in DOMAIN sessions
                           /\ ~AsListed(settings, c, sessions[c])
<1>1. ASSUME Inv, [Next]_vars
      PROVE  \A c \in DOMAIN sessions' : Listed(c) \/ Overtaken(c) \/ OutBefore(c)
  <2>1. CASE Operator
    BY <1>1, <2>1, OperatorListed
  <2>2. CASE ResumeLogin
    <3>1. h.op = "login" /\ UNCHANGED settings /\ h' = Idle
      BY <2>2 DEF ResumeLogin, HandlerResumes
    <3>2. \A c \in DOMAIN sessions' :
            \/ c = h.c /\ SameRole(sessions'[c], h)
            \/ c \in DOMAIN sessions /\ c # h.c /\ sessions'[c] = sessions[c]
      BY <2>2 DEF ResumeLogin, SameRole
    <3> QED
      BY <3>1, <3>2 DEF AsListed, SameRole, Overtaken
  <2>3. CASE ~Operator /\ ~ResumeLogin
    BY <1>1, <2>3, RolesFrame DEF RolesKept, SameRole, AsListed
  <2> QED
    BY <2>1, <2>2, <2>3
<1>2. Inv /\ [Next]_vars
        => [/\ \A c \in DOMAIN sessions' :
                 \/ AsListed(settings', c, sessions'[c])
                 \/ Overtaken(c)
                 \/ /\ UNCHANGED settings /\ c \in DOMAIN sessions
                    /\ ~AsListed(settings, c, sessions[c])
            /\ h'.op = "login" /\ h' # h => AsListed(settings', h'.c, h')]_vars
  BY <1>1, LoginAsListed
<1> QED
  BY <1>2, InvHolds, PTL DEF Spec, RolesFollowList

---------------------------------------------------------------------------
(* A message is stored once                                                *)

(* Nobody is ever forgotten: client_retention is unset.                    *)
KeepsClients == \A cfg \in Configs : cfg.clientRetention = NoLimit

OnceInv ==
  /\ \A p \in log : /\ p.msg[1] \in DOMAIN sessions
                    /\ p.msg[2] <= sessions[p.msg[1]].lastTs
  /\ \A p, q \in log : p.msg = q.msg => p = q
  /\ h.op = "post" =>
       /\ h.msg[1] = h.c /\ h.c \in DOMAIN sessions
       /\ h.msg[2] <= sessions[h.c].lastTs
       /\ h.forgotten = {}
       /\ Queued("handler") => \A p \in log : p.msg # h.msg

(* The life of a post that waits.                                          *)
LEMMA PostStarts ==
  ASSUME Inv, [Next]_vars, h.op # "post", h'.op = "post"
  PROVE  \E m \in Packets :
           /\ h = Idle /\ m.c \in DOMAIN sessions /\ m.ts > sessions[m.c].lastTs
           /\ DOMAIN sessions' = DOMAIN sessions /\ sessions'[m.c].lastTs = m.ts
           /\ h'.c = m.c /\ h'.msg = <<m.c, m.ts>> /\ h'.forgotten = {}
           /\ UNCHANGED log /\ UNCHANGED done
<1>1. ASSUME NEW m \in Packets, NEW author, Arrives(m), m.c \in DOMAIN sessions,
             m.ts >= sessions[m.c].lastTs, m.ts # sessions[m.c].lastTs,
             Update(m.c, Heard(sessions[m.c], m.ts)), PostWaits(m.c, author, <<m.c, m.ts>>)
      PROVE  /\ h = Idle /\ m.ts > sessions[m.c].lastTs
             /\ DOMAIN sessions' = DOMAIN sessions /\ sessions'[m.c].lastTs = m.ts
             /\ h'.c = m.c /\ h'.msg = <<m.c, m.ts>> /\ h'.forgotten = {}
  <2>1. m.ts \in Nat /\ sessions[m.c].lastTs \in Nat
    BY <1>1, PacketFacts, AllNumbers DEF Numbers
  <2>2. Heard(sessions[m.c], m.ts).lastTs = m.ts
    BY <1>1, <2>1, HeardMemory
  <2> QED
    BY <1>1, <2>1, <2>2 DEF Arrives, Update, PostWaits, HandlerWaits
<1>2. ASSUME NEW m \in Packets, RecvPost(m)
      PROVE  /\ UNCHANGED <<log, done>> /\ Arrives(m) /\ m.c \in DOMAIN sessions
             /\ m.ts >= sessions[m.c].lastTs /\ m.ts # sessions[m.c].lastTs
             /\ Update(m.c, Heard(sessions[m.c], m.ts)) /\ PostWaits(m.c, m.c, <<m.c, m.ts>>)
  BY <1>2 DEF RecvPost, Stores
<1>3. ASSUME NEW m \in Packets, RecvCli(m)
      PROVE  /\ UNCHANGED <<log, done>> /\ Arrives(m) /\ m.c \in DOMAIN sessions
             /\ m.ts >= sessions[m.c].lastTs /\ m.ts # sessions[m.c].lastTs
             /\ Update(m.c, Heard(sessions[m.c], m.ts)) /\ PostWaits(m.c, RoomKey, <<m.c, m.ts>>)
  <2>1. HandlerWaits([op |-> "clear"]) => h'.op # "post"
    BY DEF HandlerWaits
  <2> QED
    BY <1>3, <2>1 DEF RecvCli, Runs
<1>4. CASE Database
  BY <1>4, WaitFacts DEF Database, DbLogin, DbPost, DbClear, DbForce, DbRead, DbAck, DbPath, DbNextUnsynced,
                         DbCount, HandlerJob
<1>5. CASE Resume
  <2>1. ASSUME NEW s, Counts(s) PROVE h'.op # "post"
    BY <2>1 DEF Counts, HandlerWaits, Idle
  <2>2. ASSUME ResumePath PROVE h'.op # "post"
    BY <2>2, TakeAckRole DEF ResumePath, Matches, Idle
  <2> QED
    BY <1>5, <2>1, <2>2
    DEF Resume, ResumeLogin, ResumePost, ResumeForce, ResumeReply, ResumeAck, ResumePush,
        ResumeCount, Idle
<1>6. ASSUME NEW m \in Packets, NEW since \in Claims(m.c), RecvLogin(m, since) PROVE FALSE
  BY <1>6 DEF RecvLogin, HandlerWaits
<1>7. ASSUME NEW m \in Packets, NEW since, RecvKeepAlive(m, since) PROVE FALSE
  BY <1>7 DEF RecvKeepAlive, Counts, HandlerWaits, Idle
<1>8. ASSUME NEW m \in Packets, RecvRequest(m) PROVE FALSE
  BY <1>8 DEF RecvRequest, HandlerWaits
<1>9. ASSUME NEW m \in Packets, NEW extra, RecvPath(m, extra) PROVE FALSE
  BY <1>9 DEF RecvPath, HandlerWaits
<1>10. ASSUME NEW c \in Clients, NEW x \in acks[c], RecvAck(c, x) PROVE FALSE
  BY <1>10, TakeAckRole DEF RecvAck, Matches
<1>11. ASSUME NEW cfg, Restart(cfg) PROVE FALSE
  BY <1>11 DEF Restart, Idle
<1>12. CASE UNCHANGED h
  BY <1>12
<1>13. CASE Inbound
  BY <1>13, <1>1, <1>2, <1>3, <1>6, <1>7, <1>8, <1>9, <1>10 DEF Inbound
<1> QED
  BY <1>4, <1>5, <1>11, <1>12, <1>13
  DEF Next, PushLoop, Operator, World, vars, tasks, PushOnce, Reload, Receive, LoseHistory, Tick

LEMMA WhilePosting ==
  ASSUME Inv, MemoryInv, [Next]_vars, h.op = "post"
  PROVE  \/ DbPost \/ ResumePost \/ \E cfg \in Configs : Restart(cfg)
         \/ /\ UNCHANGED h
            /\ Queued("handler")' <=> Queued("handler")
            /\ Finished("handler")' <=> Finished("handler")
<1>0. h # Idle /\ QueueInv
  BY DEF Idle, MemoryInv
<1>1. CASE DbNextUnsynced \/ DbCount
  <2>1. push # Ready /\ push' # Ready /\ UNCHANGED h /\ JobDone
        /\ queue # <<>> /\ Head(queue) = "push"
    <3>1. push.pc = "read" => push \in ReadWait
      BY WaitFacts DEF Inv, TypeOK
    <3> QED
      BY <1>1, <3>1 DEF DbNextUnsynced, DbCount, PushJob, Ready, ReadWait
  <2> QED
    BY <1>0, <2>1, JobRuns
<1>2. CASE ResumePush \/ ResumeCount
  <2>1. /\ UNCHANGED h /\ done # <<>> /\ Head(done) = "push" /\ done' = Tail(done)
        /\ \/ push' = Ready /\ UNCHANGED queue
           \/ push' # Ready /\ queue' = Append(queue, "push")
    BY <1>2 DEF ResumePush, ResumeCount, PushResumes, Ready, Counting
  <2> QED
    BY <1>0, <2>1, PushGoesOn
<1>3. CASE PushLoop
  <2>1. /\ push = Ready /\ UNCHANGED <<h, done>>
        /\ \/ push' = Ready /\ UNCHANGED queue
           \/ push' # Ready /\ queue' = Append(queue, "push")
    BY <1>3 DEF PushLoop, PushOnce, Ready
  <2> QED
    BY <1>0, <2>1, PushStarts
<1>4. CASE UNCHANGED tasks
  BY <1>4 DEF tasks, Queued, Finished
<1>5. ASSUME Inbound PROVE FALSE
  <2>1. ASSUME NEW m, NEW since, RecvLogin(m, since) \/ RecvKeepAlive(m, since) PROVE FALSE
    BY <1>0, <2>1 DEF RecvLogin, RecvKeepAlive, Arrives
  <2>2. ASSUME NEW m, RecvPost(m) \/ RecvCli(m) \/ RecvRequest(m) PROVE FALSE
    BY <1>0, <2>2 DEF RecvPost, RecvCli, RecvRequest, Arrives
  <2>3. ASSUME NEW m, NEW extra, RecvPath(m, extra) PROVE FALSE
    BY <1>0, <2>3 DEF RecvPath, Arrives
  <2>4. ASSUME NEW c, NEW x, RecvAck(c, x) PROVE FALSE
    BY <1>0, <2>4 DEF RecvAck
  <2> QED
    BY <1>5, <2>1, <2>2, <2>3, <2>4 DEF Inbound
<1> QED
  BY <1>1, <1>2, <1>3, <1>4, <1>5
  DEF Next, Database, Resume, Operator, World, vars, tasks, DbLogin, DbClear, DbForce, DbRead, DbAck,
      DbPath, ResumeLogin, ResumeForce, ResumeReply, ResumeAck, ResumePath, HandlerJob,
      HandlerResumes, Reload, Receive, LoseHistory, Tick

(* Without forgetting and without a restart, no session is lost.           *)
LEMMA ClientsStay ==
  ASSUME Inv, [Next]_vars, MayRestart = FALSE, h.op = "post" => h.forgotten = {}
  PROVE  DOMAIN sessions \subseteq DOMAIN sessions'
<1>1. CASE ResumeLogin
  BY <1>1 DEF ResumeLogin
<1>2. CASE ResumePost
  BY <1>2 DEF ResumePost, HandlerResumes, ForgetSessions, Without
<1>3. ASSUME NEW c, NEW s, Update(c, s) PROVE DOMAIN sessions \subseteq DOMAIN sessions'
  BY <1>3 DEF Update
<1>4. CASE UNCHANGED sessions
  BY <1>4
<1>5. ASSUME NEW c, NEW x, TakeAck(c, x) PROVE DOMAIN sessions \subseteq DOMAIN sessions'
  BY <1>3, <1>5 DEF TakeAck
<1>6. CASE ResumeForce \/ ResumePath \/ ResumePush
  <2>1. \A c, p : DOMAIN Sent(sessions, c, p) = DOMAIN sessions
    BY DEF Sent
  <2> QED
    BY <1>3, <1>4, <1>5, <1>6, <2>1 DEF ResumeForce, ResumePath, ResumePush
<1>7. CASE Inbound
  <2>1. ASSUME NEW m, NEW since, RecvLogin(m, since) \/ RecvKeepAlive(m, since)
        PROVE  DOMAIN sessions \subseteq DOMAIN sessions'
    BY <1>3, <1>4, <2>1 DEF RecvLogin, RecvKeepAlive
  <2>2. ASSUME NEW m, RecvPost(m) \/ RecvCli(m) \/ RecvRequest(m)
        PROVE  DOMAIN sessions \subseteq DOMAIN sessions'
    BY <1>3, <2>2 DEF RecvPost, RecvCli, RecvRequest
  <2>3. ASSUME NEW m, NEW extra, RecvPath(m, extra) PROVE DOMAIN sessions \subseteq DOMAIN sessions'
    BY <1>3, <2>3 DEF RecvPath
  <2>4. ASSUME NEW c, NEW x, RecvAck(c, x) PROVE DOMAIN sessions \subseteq DOMAIN sessions'
    BY <1>5, <2>4 DEF RecvAck
  <2> QED
    BY <1>7, <2>1, <2>2, <2>3, <2>4 DEF Inbound
<1>8. CASE PushLoop
  <2>1. ASSUME NEW overdue, NEW c, NEW x
        PROVE  /\ DOMAIN Expired(overdue) = DOMAIN sessions
               /\ DOMAIN Sent(Expired(overdue), c, x) = DOMAIN sessions
    BY DEF Expired, Sent
  <2> QED
    BY <1>8, <2>1 DEF PushLoop, PushOnce
<1>9. CASE Operator
  BY <1>9 DEF Operator, Reload, Restart
<1> QED
  BY <1>1, <1>2, <1>4, <1>6, <1>7, <1>8, <1>9
  DEF Next, Database, Resume, World, vars, DbLogin, DbPost, DbClear, DbForce, DbRead, DbAck, DbPath,
      DbNextUnsynced, DbCount, ResumeReply, ResumeAck, ResumeCount, Receive, LoseHistory, Tick

LEMMA OnceStep ==
  ASSUME Inv, MemoryInv, OnceInv, [Next]_vars, MayRestart = FALSE, KeepsClients
  PROVE  OnceInv'
<1>0. \A p \in log : p.msg \in Messages /\ p.msg[1] \in Clients /\ p.msg[2] \in Nat
  BY DEF Inv, TypeOK, WorldTypeOK, Posts, Messages
<1>1. /\ DOMAIN sessions \subseteq DOMAIN sessions'
      /\ \A c \in DOMAIN sessions : sessions[c].lastTs <= sessions'[c].lastTs
  <2>1. \A cfg : ~Restart(cfg)
    BY DEF Restart
  <2> QED
    BY <2>1, ClientsStay, MemoryAgreesStep DEF OnceInv, GuardRises
<1>2. \A c \in DOMAIN sessions, n \in Nat :
        n <= sessions[c].lastTs => c \in DOMAIN sessions' /\ n <= sessions'[c].lastTs
  <2>1. Inv'
    BY StepInv
  <2>2. \A c \in DOMAIN sessions' : sessions'[c].lastTs \in Nat
    BY <2>1, SessionFacts, AllNumbers DEF Inv, TypeOK, MemoryTypeOK, IsTable, SessionType
  <2> QED
    BY <1>1, <2>2, AllNumbers DEF Numbers
<1>3. CASE DbPost
  <2>1. h \in PostWait /\ h.op = "post"
    BY <1>3, WaitFacts DEF DbPost, HandlerJob, Inv, TypeOK
  <2>2. PICK p \in Posts : p.msg = h.msg /\ log' = log \cup {p}
    BY <1>3, NewPost
  <2>3. QueueInv' /\ Queued("handler") /\ ~Queued("handler")'
    <3>1. UNCHANGED push /\ JobDone /\ HandlerJob("post") /\ h'.op = h.op
      BY <1>3, <2>1 DEF DbPost, PostWait
    <3> QED
      BY <3>1, HandlerJobs DEF Moving
  <2>4. Prunable(settings, InFlight) = {}
    BY DEF Inv, TypeOK, MemoryTypeOK, KeepsClients, Prunable
  <2>5. h'.msg = h.msg /\ h'.c = h.c /\ h'.op = "post" /\ h'.forgotten = {} /\ UNCHANGED sessions
    BY <1>3, <2>1, <2>4 DEF DbPost, PostWait
  <2> QED
    BY <2>1, <2>2, <2>3, <2>5 DEF OnceInv
<1>4. CASE ~DbPost
  <2>1. UNCHANGED log
    BY <1>4, PostsFrame
  <2>2. /\ \A p \in log' : /\ p.msg[1] \in DOMAIN sessions'
                           /\ p.msg[2] <= sessions'[p.msg[1]].lastTs
        /\ \A p, q \in log' : p.msg = q.msg => p = q
    BY <1>0, <1>2, <2>1 DEF OnceInv
  <2>3. CASE h.op # "post" /\ h'.op = "post"
    <3>1. PICK m \in Packets :
            /\ m.c \in DOMAIN sessions /\ m.ts > sessions[m.c].lastTs
            /\ DOMAIN sessions' = DOMAIN sessions /\ sessions'[m.c].lastTs = m.ts
            /\ h'.c = m.c /\ h'.msg = <<m.c, m.ts>> /\ h'.forgotten = {}
      BY <2>3, PostStarts
    <3>2. m.ts \in Nat /\ sessions[m.c].lastTs \in Nat
      BY <3>1, PacketFacts, AllNumbers DEF Numbers
    <3>3. \A p \in log : p.msg # <<m.c, m.ts>>
      BY <1>0, <3>1, <3>2 DEF OnceInv
    <3> QED
      BY <2>1, <2>2, <3>1, <3>2, <3>3 DEF OnceInv
  <2>4. CASE h'.op # "post"
    BY <2>2, <2>4 DEF OnceInv
  <2>5. CASE h.op = "post" /\ UNCHANGED h /\ (Queued("handler")' <=> Queued("handler"))
    <3>1. h.msg[2] \in Nat
      BY <2>5, WaitFacts DEF Inv, TypeOK, PostWait, Messages
    <3> QED
      BY <1>2, <2>1, <2>2, <2>5, <3>1 DEF OnceInv
  <2>6. ResumePost => h'.op # "post"
    BY DEF ResumePost, Idle
  <2>7. \A cfg : ~Restart(cfg)
    BY DEF Restart
  <2> QED
    BY <1>4, <2>3, <2>4, <2>5, <2>6, <2>7, WhilePosting
<1> QED
  BY <1>3, <1>4

(* A message is stored at most once, however often it is retried, while    *)
(* the process lives and nobody is forgotten (_on_text: equal time stamps  *)
(* mean a retry).                                                          *)
THEOREM PostsStoredOnce ==
  ASSUME MayRestart = FALSE, KeepsClients
  PROVE  Spec => []StoredOnce
<1>1. Init => OnceInv
  BY DEF Init, Idle, OnceInv
<1>2. Inv /\ MemoryInv /\ OnceInv /\ [Next]_vars => OnceInv'
  BY OnceStep
<1>3. OnceInv => StoredOnce
  BY DEF OnceInv, StoredOnce
<1> QED
  BY <1>1, <1>2, <1>3, InvHolds, MemoryHolds, PTL DEF Spec

---------------------------------------------------------------------------
(* An acknowledged post is stored                                          *)

(* A client does not stamp a post and another packet of its own alike (a   *)
(* path return carries no time stamp).                                     *)
StampsUnique ==
  \A m, n \in Packets :
    m.kind = "post" /\ m.c = n.c /\ m.ts = n.ts => n.kind \in {"post", "path"}

IsPost(c, ts) == \E m \in Packets : m.kind = "post" /\ m.c = c /\ m.ts = ts
IsLogin(c, ts) == \E m \in Packets : m.kind = "login" /\ m.c = c /\ m.ts = ts
Stored(c, ts) == \E p \in log : p.msg = <<c, ts>> /\ p.author = c
BeingStored(c, ts) == h.op = "post" /\ h.msg = <<c, ts>> /\ h.author = c

(* The table holds the time stamps of logins only.                         *)
LoginStamps ==
  /\ \A c \in DOMAIN rows : IsLogin(c, rows[c].lastTs)
  /\ h.op = "login" => IsLogin(h.c, h.ts)

GuardMeansStored ==
  \A c \in DOMAIN sessions :
    IsPost(c, sessions[c].lastTs) /\ MayPost(sessions[c].role)
      => Stored(c, sessions[c].lastTs) \/ BeingStored(c, sessions[c].lastTs)

PostDone ==
  h.op = "post" =>
    /\ h.msg[1] = h.c
    /\ Finished("handler") => \E p \in log : p.msg = h.msg /\ p.author = h.author

AckInv == LoginStamps /\ GuardMeansStored /\ PostDone /\ AckedIsStored

(* A client spoke: a handler that moves its guard.                         *)
Spoke(m) ==
  RecvPost(m) \/ RecvCli(m) \/ RecvRequest(m) \/ \E since \in Claims(m.c) : RecvKeepAlive(m, since)

LEMMA SpokeFacts ==
  ASSUME Inv, NEW m \in Packets, Spoke(m)
  PROVE  /\ h = Idle /\ m.c \in DOMAIN sessions /\ DOMAIN sessions' = DOMAIN sessions
         /\ sessions'[m.c].lastTs = m.ts /\ sessions'[m.c].role = sessions[m.c].role
         /\ \A c \in DOMAIN sessions : c # m.c => sessions'[c] = sessions[c]
         /\ m.kind \notin {"login", "path"}
         /\ m.kind = "post" => RecvPost(m)
<1>1. h = Idle /\ m.c \in DOMAIN sessions /\ m.kind \notin {"login", "path"} /\ (m.kind = "post" => RecvPost(m))
  BY DEF Spoke, RecvPost, RecvCli, RecvRequest, RecvKeepAlive, Arrives
<1> DEFINE s == Heard(sessions[m.c], m.ts)
<1>2. m.ts \in Nat /\ s \in SessionType /\ s.lastTs = m.ts /\ s.role = sessions[m.c].role
  BY <1>1, PacketFacts, HeardMemory, HeardRole DEF SameRole
<1>3. \E w : /\ Update(m.c, w)
             /\ \/ w = s \/ w = [s EXCEPT !.pending = NoAck]
                \/ \E since : w = [s EXCEPT !.since = since]
  BY DEF Spoke, RecvPost, RecvCli, RecvRequest, RecvKeepAlive
<1> HIDE DEF s
<1>4. PICK w : Update(m.c, w) /\ w.lastTs = m.ts /\ w.role = sessions[m.c].role
  <2>1. LET w == [s EXCEPT !.pending = NoAck] IN w.lastTs = m.ts /\ w.role = sessions[m.c].role
    BY <1>2 DEF SessionType
  <2>2. \A since : LET w == [s EXCEPT !.since = since]
                  IN  w.lastTs = m.ts /\ w.role = sessions[m.c].role
    BY <1>2 DEF SessionType
  <2> QED
    BY <1>2, <1>3, <2>1, <2>2
<1> QED
  BY <1>1, <1>4 DEF Update

(* Where the guard and the role of a session come from.                    *)
Standing(c) ==
  /\ c \in DOMAIN sessions
  /\ sessions'[c].role = sessions[c].role /\ sessions'[c].lastTs = sessions[c].lastTs

LEMMA UpdateStanding ==
  ASSUME NEW c \in DOMAIN sessions, NEW s, Update(c, s),
         s.role = sessions[c].role, s.lastTs = sessions[c].lastTs
  PROVE  \A d \in DOMAIN sessions' : Standing(d)
BY DEF Update, Standing

LEMMA TakeAckStanding ==
  ASSUME Inv, NEW c \in DOMAIN sessions, NEW x, TakeAck(c, x)
  PROVE  \A d \in DOMAIN sessions' : Standing(d)
<1>1. sessions[c] \in SessionType
  BY SessionFacts DEF Inv, TypeOK
<1> DEFINE s == [sessions[c] EXCEPT !.pending = NoAck, !.failures = 0]
           n == IF s.welcome > 0 THEN s.welcome - 1 ELSE 0
<1>2. CASE Update(c, [s EXCEPT !.welcome = n])
  <2>1. LET w == [s EXCEPT !.welcome = n]
        IN  w.role = sessions[c].role /\ w.lastTs = sessions[c].lastTs
    BY <1>1 DEF SessionType
  <2> QED
    BY <1>2, <2>1, UpdateStanding
<1>3. CASE Update(c, [s EXCEPT !.since = x.ts])
  <2>1. LET w == [s EXCEPT !.since = x.ts]
        IN  w.role = sessions[c].role /\ w.lastTs = sessions[c].lastTs
    BY <1>1 DEF SessionType
  <2> QED
    BY <1>3, <2>1, UpdateStanding
<1> QED
  BY <1>2, <1>3 DEF TakeAck

LEMMA GuardOrigin ==
  ASSUME Inv, LoginStamps, MayReload = FALSE, [Next]_vars, ~\E m \in Packets : Spoke(m)
  PROVE  \A c \in DOMAIN sessions' : Standing(c) \/ IsLogin(c, sessions'[c].lastTs)
<1> DEFINE Kept == \A c \in DOMAIN sessions' : Standing(c)
<1>1. \A c \in DOMAIN sessions : c \in Clients /\ sessions[c] \in SessionType
  BY SessionFacts DEF Inv, TypeOK
<1>2. ASSUME UNCHANGED sessions PROVE Kept
  BY <1>2 DEF Standing
<1>3. CASE ResumeLogin
  BY <1>3 DEF ResumeLogin, HandlerResumes, LoginStamps, Standing
<1>4. CASE ResumePost
  BY <1>4 DEF ResumePost, ForgetSessions, Without, Standing
<1>5. CASE ResumeForce
  BY <1>1, <1>5 DEF ResumeForce, Update, SessionType, Standing
<1>6. CASE ResumePath
  BY <1>2, <1>6, TakeAckStanding DEF ResumePath, Matches
<1>7. CASE ResumePush
  <2>1. ASSUME NEW p, sessions' = Sent(sessions, push.c, p) PROVE Kept
    BY <1>1, <2>1 DEF Sent, SessionType, Standing
  <2> QED
    BY <1>2, <1>7, <2>1 DEF ResumePush
<1>8. ASSUME NEW m \in Packets, NEW extra, RecvPath(m, extra) PROVE Kept
  <2>1. m.c \in DOMAIN sessions
    BY <1>8 DEF RecvPath
  <2>2. LET w == [sessions[m.c] EXCEPT !.path = m.path, !.active = now]
        IN  w.role = sessions[m.c].role /\ w.lastTs = sessions[m.c].lastTs
    BY <1>1, <2>1 DEF SessionType
  <2> QED
    BY <1>8, <2>1, <2>2, UpdateStanding DEF RecvPath
<1>9. ASSUME NEW c \in Clients, NEW x \in acks[c], RecvAck(c, x) PROVE Kept
  BY <1>9, TakeAckStanding DEF RecvAck, Matches
<1>10. ASSUME NEW overdue, PushOnce(overdue) PROVE Kept
  <2> DEFINE ss == Expired(overdue)
  <2>1. /\ DOMAIN ss = DOMAIN sessions
        /\ \A c \in DOMAIN sessions :
             /\ ss[c] \in SessionType /\ ss[c].role = sessions[c].role
             /\ ss[c].lastTs = sessions[c].lastTs
    <3>1. ASSUME NEW s \in SessionType
          PROVE  LET e == [s EXCEPT !.pending = NoAck, !.failures = s.failures + 1]
                 IN  e \in SessionType /\ e.role = s.role /\ e.lastTs = s.lastTs
      <4>1. s.failures + 1 \in Nat
        BY <3>1, ChangeType
      <4>2. \A n \in Nat : [s EXCEPT !.pending = NoAck, !.failures = n] \in SessionType
        BY <3>1, ChangeType
      <4>3. \A n \in Nat : LET e == [s EXCEPT !.pending = NoAck, !.failures = n]
                           IN  e.role = s.role /\ e.lastTs = s.lastTs
        BY <3>1 DEF SessionType
      <4> QED
        BY <4>1, <4>2, <4>3
    <3> QED
      BY <1>1, <3>1 DEF Expired
  <2> HIDE DEF ss
  <2>2. ASSUME NEW c \in DOMAIN sessions, sessions' = Sent(ss, c, Welcome) PROVE Kept
    <3>1. DOMAIN sessions' = DOMAIN sessions
      BY <2>1, <2>2 DEF Sent
    <3>2. \A d \in DOMAIN sessions :
            sessions'[d] = IF d = c THEN [ss[c] EXCEPT !.pending = Welcome] ELSE ss[d]
      BY <2>1, <2>2 DEF Sent
    <3>3. LET w == [ss[c] EXCEPT !.pending = Welcome]
          IN  w.role = ss[c].role /\ w.lastTs = ss[c].lastTs
      BY <2>1 DEF SessionType
    <3> QED
      BY <2>1, <3>1, <3>2, <3>3 DEF Standing
  <2>3. ASSUME sessions' = ss PROVE Kept
    BY <2>1, <2>3 DEF Standing
  <2>4. \/ sessions' = ss
        \/ \E c \in DOMAIN sessions : sessions' = Sent(ss, c, Welcome)
    BY <1>10 DEF PushOnce, ss
  <2> QED
    BY <2>2, <2>3, <2>4
<1>11. CASE Operator
  BY <1>11 DEF Operator, Reload, Restart, Rehydrated, Without, LoginStamps
<1>12. CASE Inbound
  BY <1>2, <1>8, <1>9, <1>12 DEF Inbound, Spoke, RecvLogin
<1> QED
  BY <1>2, <1>3, <1>4, <1>5, <1>6, <1>7, <1>10, <1>11, <1>12
  DEF Next, Database, Resume, PushLoop, World, vars, DbLogin, DbPost, DbClear, DbForce, DbRead, DbAck,
      DbPath, DbNextUnsynced, DbCount, ResumeReply, ResumeAck, ResumeCount, Receive, LoseHistory, Tick

LEMMA LoginStampsStep ==
  ASSUME Inv, LoginStamps, [Next]_vars
  PROVE  LoginStamps'
<1>1. \A c \in DOMAIN rows : rows[c] \in Rows
  BY DEF Inv, TypeOK, StoreTypeOK, IsTable
<1>2. \A c \in DOMAIN rows' : IsLogin(c, rows'[c].lastTs)
  <2>1. CASE DbLogin
    BY <2>1 DEF DbLogin, HandlerJob, RecordLogin, LoginStamps
  <2>2. CASE DbPost
    BY <2>2 DEF DbPost, Without, LoginStamps
  <2>3. CASE DbForce \/ DbAck
    BY <1>1, <2>3 DEF DbForce, DbAck, ForceSyncSince, AdvanceSync, LoginStamps, Rows
  <2>4. CASE DbPath
    BY <1>1, <2>4 DEF DbPath, SetOutPath, LoginStamps, Rows
  <2>5. CASE Operator
    BY <2>5 DEF Operator, Reload, Restart, Without, LoginStamps, durable
  <2>6. CASE UNCHANGED rows
    BY <2>6 DEF LoginStamps
  <2> QED
    BY <2>1, <2>2, <2>3, <2>4, <2>5, <2>6, QuietSteps
    DEF Next, Database, World, vars, durable, DbClear, DbRead, DbNextUnsynced, DbCount, Receive,
        LoseHistory, Tick
<1>3. h'.op = "login" => IsLogin(h'.c, h'.ts)
  <2> SUFFICES ASSUME h'.op = "login" PROVE IsLogin(h'.c, h'.ts)
    OBVIOUS
  <2>1. CASE UNCHANGED h
    BY <2>1 DEF LoginStamps
  <2>2. ASSUME NEW m \in Packets, NEW since \in Claims(m.c), RecvLogin(m, since)
        PROVE  IsLogin(h'.c, h'.ts)
    BY <2>2 DEF RecvLogin, HandlerWaits, IsLogin
  <2>3. CASE DbPost
    BY <2>3, WaitFacts DEF DbPost, HandlerJob, Inv, TypeOK, PostWait
  <2>4. CASE Resume
    <3>1. ASSUME NEW s, Counts(s) PROVE h'.op # "login"
      BY <3>1 DEF Counts, HandlerWaits, Idle
    <3>2. ASSUME ResumePath PROVE h'.op # "login"
      BY <3>2, TakeAckRole DEF ResumePath, Matches, Idle
    <3> QED
      BY <2>1, <2>4, <3>1, <3>2
      DEF Resume, ResumeLogin, ResumePost, ResumeForce, ResumeReply, ResumeAck, ResumePush,
          ResumeCount, Idle
  <2>5. ASSUME NEW m \in Packets, RecvPost(m) PROVE UNCHANGED h
    BY <2>5 DEF RecvPost, PostWaits, HandlerWaits
  <2>6. ASSUME NEW m \in Packets, RecvCli(m) PROVE UNCHANGED h
    <3>1. HandlerWaits([op |-> "clear"]) => h'.op = "clear"
      BY DEF HandlerWaits
    <3>2. PostWaits(m.c, RoomKey, <<m.c, m.ts>>) => h'.op = "post"
      BY DEF PostWaits, HandlerWaits
    <3> QED
      BY <2>6, <3>1, <3>2 DEF RecvCli
  <2>7. ASSUME NEW m \in Packets, NEW since, RecvKeepAlive(m, since) PROVE FALSE
    BY <2>7 DEF RecvKeepAlive, Counts, HandlerWaits, Idle
  <2>8. ASSUME NEW m \in Packets, RecvRequest(m) PROVE UNCHANGED h
    <3>1. HandlerWaits([op |-> "read"]) => h'.op = "read"
      BY DEF HandlerWaits
    <3> QED
      BY <2>8, <3>1 DEF RecvRequest
  <2>9. ASSUME NEW m \in Packets, NEW extra, RecvPath(m, extra) PROVE FALSE
    BY <2>9 DEF RecvPath, HandlerWaits
  <2>10. ASSUME NEW c \in Clients, NEW x \in acks[c], RecvAck(c, x) PROVE FALSE
    BY <2>10, TakeAckRole DEF RecvAck, Matches
  <2>11. ASSUME NEW cfg, Restart(cfg) PROVE FALSE
    BY <2>11 DEF Restart, Idle
  <2>12. CASE Inbound
    BY <2>1, <2>2, <2>5, <2>6, <2>7, <2>8, <2>9, <2>10, <2>12 DEF Inbound
  <2> QED
    BY <2>1, <2>3, <2>4, <2>11, <2>12
    DEF Next, Database, PushLoop, Operator, World, vars, tasks, DbLogin, DbClear, DbForce, DbRead, DbAck,
        DbPath, DbNextUnsynced, DbCount, PushOnce, Reload, Receive, LoseHistory, Tick
<1> QED
  BY <1>2, <1>3 DEF LoginStamps

LEMMA StoredStays ==
  ASSUME Inv, [Next]_vars, NEW c, NEW ts, Stored(c, ts)
  PROVE  Stored(c, ts)'
BY NewPost, PostsFrame DEF Stored

LEMMA PostDoneStep ==
  ASSUME Inv, MemoryInv, PostDone, [Next]_vars
  PROVE  PostDone'
<1>1. CASE h'.op # "post"
  BY <1>1 DEF PostDone
<1>2. CASE h.op # "post" /\ h'.op = "post"
  <2>1. ~Finished("handler")'
    BY <1>2, PostStarts DEF MemoryInv, QueueInv, Finished
  <2> QED
    BY <1>2, <2>1, PostStarts DEF PostDone
<1>3. CASE DbPost
  <2>1. h \in PostWait
    BY <1>3, WaitFacts DEF DbPost, HandlerJob, Inv, TypeOK
  <2>2. /\ h.op = "post" /\ h'.msg = h.msg /\ h'.c = h.c /\ h'.author = h.author
    BY <1>3, <2>1 DEF DbPost, PostWait
  <2>3. \E p \in log' : p.msg = h.msg /\ p.author = h.author
    BY <1>3, NewPost
  <2> QED
    BY <2>2, <2>3 DEF PostDone
<1>4. CASE h.op = "post" /\ UNCHANGED h /\ (Finished("handler")' <=> Finished("handler"))
  <2>1. log \subseteq log'
    BY NewPost, PostsFrame
  <2> QED
    BY <1>4, <2>1 DEF PostDone
<1> QED
  BY <1>1, <1>2, <1>3, <1>4, WhilePosting DEF ResumePost, Restart, Idle

(* The acknowledgement that follows a transaction.                         *)
LEMMA ResumedIsStored ==
  ASSUME Inv, MemoryInv, PostDone, ResumePost
  PROVE  h.op = "post" /\ h.msg[1] = h.c /\ \E p \in log : p.msg = h.msg /\ p.author = h.author
<1>1. h.op = "post" /\ done \in Queues /\ done # <<>> /\ Head(done) = "handler"
  BY DEF ResumePost, HandlerResumes, Inv, TypeOK, TaskTypeOK, Queues
<1>2. Finished("handler")
  BY <1>1, TailWaiting DEF MemoryInv, QueueInv, Finished
<1> QED
  BY <1>1, <1>2 DEF PostDone

LEMMA LoginIsNoPost ==
  ASSUME StampsUnique, NEW c, NEW ts, IsLogin(c, ts)
  PROVE  ~IsPost(c, ts)
BY DEF StampsUnique, IsLogin, IsPost

(* A retry that is acknowledged at once carries the guard, so its post is  *)
(* stored: no handler waits.                                               *)
LEMMA RetryIsStored ==
  ASSUME Inv, AckInv, StampsUnique, NEW m \in Packets, RecvPost(m),
         IsPost(m.c, m.ts), AckedAtOnce(m, sessions[m.c])
  PROVE  Stored(m.c, m.ts)
<1>1. m.c \in DOMAIN sessions /\ m.kind \in {"post", "blank"} /\ h.op = "idle"
  BY DEF RecvPost, Arrives, Idle
<1>2. m.kind = "post"
  BY <1>1 DEF StampsUnique, IsPost
<1>3. MayPost(sessions[m.c].role) /\ m.ts = sessions[m.c].lastTs
  BY <1>2 DEF AckedAtOnce, Stores
<1> QED
  BY <1>1, <1>3 DEF AckInv, GuardMeansStored, BeingStored

LEMMA GuardMeansStoredStep ==
  ASSUME Inv, MemoryInv, AckInv, [Next]_vars, MayReload = FALSE, StampsUnique
  PROVE  GuardMeansStored'
<1> SUFFICES ASSUME NEW c \in DOMAIN sessions', NEW ts, ts = sessions'[c].lastTs,
                    IsPost(c, ts), MayPost(sessions'[c].role)
             PROVE  Stored(c, ts)' \/ BeingStored(c, ts)'
  BY DEF GuardMeansStored, IsPost, MayPost, Stored, BeingStored
<1>1. ~IsLogin(c, ts)
  BY LoginIsNoPost
<1>2. ASSUME Standing(c) PROVE Stored(c, ts)' \/ BeingStored(c, ts)'
  <2>1. Stored(c, ts) \/ BeingStored(c, ts)
    BY <1>2 DEF Standing, AckInv, GuardMeansStored
  <2>2. CASE Stored(c, ts)
    BY <2>2, StoredStays
  <2>3. CASE BeingStored(c, ts)
    <3>1. h.op = "post"
      BY <2>3 DEF BeingStored
    <3>2. CASE DbPost
      <4>1. h \in PostWait
        BY <3>1, WaitFacts DEF Inv, TypeOK
      <4>2. h'.op = h.op /\ h'.msg = h.msg /\ h'.author = h.author
        BY <3>2, <4>1 DEF DbPost, PostWait
      <4> QED
        BY <2>3, <4>2 DEF BeingStored
    <3>3. CASE ResumePost
      <4>1. Stored(c, ts)
        BY <2>3, <3>3, ResumedIsStored DEF BeingStored, Stored, AckInv
      <4> QED
        BY <4>1, StoredStays
    <3>4. ASSUME NEW cfg \in Configs, Restart(cfg) PROVE FALSE
      <4>1. IsLogin(c, ts)
        BY <3>4 DEF Restart, Rehydrated, Without, AckInv, LoginStamps
      <4> QED
        BY <1>1, <4>1
    <3>5. CASE UNCHANGED h
      BY <2>3, <3>5 DEF BeingStored
    <3> QED
      BY <3>1, <3>2, <3>3, <3>4, <3>5, WhilePosting
  <2> QED
    BY <2>1, <2>2, <2>3
<1>3. ASSUME NEW m \in Packets, Spoke(m)
      PROVE  Stored(c, ts)' \/ BeingStored(c, ts)'
  <2>1. CASE c # m.c
    BY <1>2, <1>3, <2>1, SpokeFacts DEF Standing
  <2>2. CASE c = m.c
    <3>1. /\ ts = m.ts /\ h = Idle /\ MayPost(sessions[m.c].role) /\ IsPost(m.c, m.ts)
          /\ m.kind = "post" => RecvPost(m)
      BY <1>3, <2>2, SpokeFacts
    <3>2. m.kind = "post"
      BY <1>3, <3>1, SpokeFacts DEF StampsUnique, IsPost
    <3>3. CASE Stores(m, sessions[m.c])
      <4>1. PostWaits(m.c, m.c, <<m.c, m.ts>>)
        BY <3>1, <3>2, <3>3 DEF RecvPost
      <4> QED
        BY <2>2, <3>1, <4>1 DEF PostWaits, HandlerWaits, BeingStored
    <3>4. CASE ~Stores(m, sessions[m.c])
      <4>1. Stored(m.c, m.ts)
        BY <3>1, <3>2, <3>4, RetryIsStored DEF AckedAtOnce
      <4> QED
        BY <2>2, <3>1, <4>1, StoredStays
    <3> QED
      BY <3>3, <3>4
  <2> QED
    BY <2>1, <2>2
<1>4. CASE ~\E m \in Packets : Spoke(m)
  BY <1>1, <1>2, <1>4, GuardOrigin DEF AckInv
<1> QED
  BY <1>3, <1>4

LEMMA ConfirmedFrame ==
  ASSUME [Next]_vars, ~ResumePost, ~\E m \in Packets : RecvPost(m)
  PROVE  UNCHANGED confirmed
<1>1. CASE Database
  BY <1>1 DEF Database, DbLogin, DbPost, DbClear, DbForce, DbRead, DbAck, DbPath, DbNextUnsynced,
              DbCount, world
<1>2. CASE Resume
  BY <1>2 DEF Resume, ResumeLogin, ResumeForce, ResumeReply, ResumeAck, ResumePath, ResumePush,
              ResumeCount, world
<1>3. CASE Inbound
  <2>1. ASSUME NEW m, NEW since, RecvLogin(m, since) \/ RecvKeepAlive(m, since)
        PROVE  UNCHANGED confirmed
    BY <2>1 DEF RecvLogin, RecvKeepAlive, world
  <2>2. ASSUME NEW m, RecvCli(m) \/ RecvRequest(m) PROVE UNCHANGED confirmed
    BY <2>2 DEF RecvCli, RecvRequest, world
  <2>3. ASSUME NEW m, NEW extra, RecvPath(m, extra) PROVE UNCHANGED confirmed
    BY <2>3 DEF RecvPath, world
  <2>4. ASSUME NEW c, NEW x, RecvAck(c, x) PROVE UNCHANGED confirmed
    BY <2>4 DEF RecvAck, world
  <2> QED
    BY <1>3, <2>1, <2>2, <2>3, <2>4 DEF Inbound
<1>4. CASE PushLoop \/ Operator \/ World \/ UNCHANGED vars
  BY <1>4 DEF PushLoop, PushOnce, Operator, Reload, Restart, World, Receive, LoseHistory, Tick,
              vars, world
<1> QED
  BY <1>1, <1>2, <1>3, <1>4 DEF Next

LEMMA AckedIsStoredStep ==
  ASSUME Inv, MemoryInv, AckInv, [Next]_vars, StampsUnique
  PROVE  AckedIsStored'
<1> SUFFICES ASSUME NEW m \in Packets, m.kind = "post", <<m.c, m.ts>> \in confirmed'
             PROVE  Stored(m.c, m.ts)'
  BY DEF AckedIsStored, Stored
<1>1. CASE <<m.c, m.ts>> \in confirmed
  BY <1>1, StoredStays DEF AckInv, AckedIsStored, Stored
<1>2. ASSUME <<m.c, m.ts>> \notin confirmed, ResumePost PROVE Stored(m.c, m.ts)
  <2>1. h.author = h.c /\ h.msg = <<m.c, m.ts>>
    BY <1>2 DEF ResumePost
  <2> QED
    BY <1>2, <2>1, ResumedIsStored DEF Stored, AckInv
<1>3. ASSUME <<m.c, m.ts>> \notin confirmed, NEW n \in Packets, RecvPost(n) PROVE Stored(m.c, m.ts)
  <2>1. AckedAtOnce(n, sessions[n.c]) /\ n.c = m.c /\ n.ts = m.ts
    BY <1>3 DEF RecvPost
  <2> QED
    BY <1>3, <2>1, RetryIsStored DEF IsPost
<1> QED
  BY <1>1, <1>2, <1>3, ConfirmedFrame, StoredStays

(* A post that was acknowledged to its author was stored (_on_text), as    *)
(* long as no reload changes roles and no client stamps two packets alike: *)
(* whatever retries, restarts, logins and lost packets there are.          *)
THEOREM AcknowledgedPostsStored ==
  ASSUME MayReload = FALSE, StampsUnique
  PROVE  Spec => []AckedIsStored
<1>1. Init => AckInv
  BY DEF Init, NoTable, Idle, AckInv, LoginStamps, GuardMeansStored, PostDone, AckedIsStored
<1>2. Inv /\ MemoryInv /\ AckInv /\ [Next]_vars => AckInv'
  BY LoginStampsStep, GuardMeansStoredStep, PostDoneStep, AckedIsStoredStep DEF AckInv
<1>3. AckInv => AckedIsStored
  BY DEF AckInv
<1> QED
  BY <1>1, <1>2, <1>3, InvHolds, MemoryHolds, PTL DEF Spec
=============================================================================
