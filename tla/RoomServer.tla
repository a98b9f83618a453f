----------------------------- MODULE RoomServer -----------------------------
(***************************************************************************)
(* One hosted room (room/server.py): the login, post, request, path and    *)
(* acknowledgement handlers, the push loop, reload and restart, over the   *)
(* transactions of RoomStore, with the clients and the mesh around it.     *)
(*                                                                         *)
(* Who runs when.  Everything but the transactions runs on one asyncio     *)
(* event loop, so a handler is atomic up to its next  await store.run(..). *)
(* The dispatcher handles one packet at a time, so at most one handler     *)
(* waits (h); the push loop is a task of its own (push).  The database     *)
(* thread runs their transactions in the order they were submitted         *)
(* (queue), and the loop resumes the waiters in the order they finished    *)
(* (done).  Between those steps a reload, a push or another resumption may *)
(* run, which is where the races are.                                      *)
(*                                                                         *)
(* The mesh may lose, delay, repeat and reorder: a packet of Packets may   *)
(* arrive at any time, any number of times or never, a push in air may     *)
(* reach its client at any later time, and so may the client's answer.     *)
(* What is delayed on purpose (the reply delays, the pause between pushes, *)
(* the timeout of an acknowledgement) may happen at any time here.         *)
(*                                                                         *)
(* Left out: encryption, the layout of packets and replies, logging, the   *)
(* radio statistics.  A reply is modelled only when a client acts on it:   *)
(* pushes, and the acknowledgements of posts (confirmed).                  *)
(*                                                                         *)
(* An operator Bug_... is a plausible error in the operator that follows   *)
(* it: the properties are tested against it.                               *)
(***************************************************************************)
EXTENDS RoomStore, Sequences

CONSTANTS Packets,       \* what the clients may send, see PacketType
          Configs,       \* the room settings a load or a reload may produce
          Secrets,       \* passwords
          NoSecret,      \* a login with a blank password
          NoRole,        \* no rule grants a role
          Welcome,       \* a welcome chunk, as a thing to push
          NoAck,         \* pending_ack is None
          MaxFailures,   \* timings.max_push_failures
          SyncDelay,     \* timings.post_sync_delay
          Forgetful,     \* clients that may lose the history they hold
          ClockSteps,    \* TRUE: the wall clock may step backwards
          MayReload,     \* TRUE: SIGHUP may arrive
          MayRestart,    \* TRUE: the process may die and be started again
          MaxNow,        \* bound: the wall clock
          MaxLog,        \* bound: posts stored in a behaviour
          CountCap       \* bound: counters saturate here

Roles == {"guest", "read_only", "read_write", "admin"}
RoleSources == {"member", "password", "allow_unknown"}
Things == Posts \cup {Welcome}
Limits == Int \cup {NoLimit}

(* One record shape for all packets; a kind ignores what it does not use.  *)
(* The sync position in a login or a keep-alive is the client's to choose  *)
(* when the packet arrives, see Claims.                                    *)
PacketType ==
  [kind   : {"login", "post", "blank", "cli", "keep_alive", "status", "other_req", "path"},
   c      : Clients,
   ts     : Nat \ {0},
   secret : Secrets \cup {NoSecret},
   flood  : BOOLEAN,
   cmd    : {"room.post", "clear stats", "other"},
   path   : Paths \cup {NoPath}]

ConfigType ==
  [member          : [Clients -> Roles \cup {NoRole}],
   password        : [Secrets -> Roles \cup {NoRole}],
   unknown         : Roles \cup {NoRole},
   welcome         : Nat,
   clientRetention : Nat \cup {NoLimit},
   postRetention   : Nat \cup {NoLimit},
   maxPosts        : (Nat \ {0}) \cup {NoLimit}]

ASSUME PacketAssumption == /\ Packets \subseteq PacketType
                           /\ \A m \in Packets : m.kind = "path" => m.path \in Paths
ASSUME ConfigAssumption == Configs \subseteq ConfigType /\ Configs # {}
ASSUME ValueAssumption  == /\ NoRole \notin Roles /\ NoSecret \notin Secrets
                           /\ Welcome \notin Posts /\ NoAck \notin Things
ASSUME FiniteAssumption == IsFiniteSet(Clients)
ASSUME BoundAssumption  == /\ MaxFailures \in Nat /\ SyncDelay \in Nat
                           /\ MaxNow \in Nat \ {0} /\ MaxLog \in Nat /\ CountCap \in Nat
                           /\ Forgetful \subseteq Clients
                           /\ {ClockSteps, MayReload, MayRestart} \subseteq BOOLEAN

VARIABLES
  posts, rows, counters,       \* the database
  settings, sessions,          \* RoomServer._settings, _sessions
  before, roundRobin,          \* the insertion order of _sessions, _round_robin
  h, push, queue, done,        \* the two waiting tasks and the database thread
  now,                         \* the wall clock
  held, acks, air, confirmed,  \* the clients and the mesh
  log                          \* every post ever stored (history, never read)

durable  == <<posts, rows, counters>>
tasks    == <<h, push, queue, done>>
world    == <<now, held, acks, air, confirmed>>
vars     == <<durable, settings, sessions, before, roundRobin, tasks, world, log>>

(* h is the packet being handled, with the locals its continuation uses.   *)
Idle == [op |-> "idle"]
LoginWait ==
  [op : {"login"}, c : Clients, ts : Nat, since : Nat, flood : BOOLEAN,
   role : Roles, source : RoleSources, now : Nat]
PostWait ==
  [op : {"post"}, c : Clients, author : Authors, msg : Messages, now : Nat,
   postRetention : Nat \cup {NoLimit}, maxPosts : (Nat \ {0}) \cup {NoLimit},
   forgotten : SUBSET Clients]
CursorWait == [op : {"force", "ack"}, c : Clients, ts : Nat]
PathWait == [op : {"path"}, c : Clients, path : Paths, extra : SUBSET Things]
ReplyWait == [op : {"read", "clear"}]
Handlers == {Idle} \cup LoginWait \cup PostWait \cup CursorWait \cup PathWait \cup ReplyWait

(* push is where push_once waits.  frozen is -1 while the session object   *)
(* it works on is the one in sessions, else that object's last sync_since. *)
Ready == [pc |-> "ready"]
Counting == [pc |-> "count"]
ReadWait == [pc : {"read"}, c : Clients, notNewerThan : Int, post : SUBSET Posts, frozen : Int]
Pushes == {Ready, Counting} \cup ReadWait

SessionType ==
  [role : Roles, source : RoleSources, since : Nat, lastTs : Nat,
   path : Paths \cup {NoPath}, active : Nat, pending : Things \cup {NoAck},
   failures : Nat, welcome : Nat]

IsTable(f, T) == DOMAIN f \subseteq Clients /\ f \in [DOMAIN f -> T]

(* Type invariant, in parts.                                               *)
StoreTypeOK ==
  /\ posts \subseteq Posts
  /\ IsTable(rows, Rows)
  /\ counters \in [posted : Nat, pushes : Nat]
MemoryTypeOK ==
  /\ settings \in Configs
  /\ IsTable(sessions, SessionType)
  /\ before \subseteq Clients \X Clients /\ roundRobin \in Nat
TaskTypeOK ==
  /\ h \in Handlers /\ push \in Pushes
  /\ queue \in Seq({"handler", "push"}) /\ done \in Seq({"handler", "push"})
WorldTypeOK ==
  /\ now \in Nat \ {0}
  /\ held \in [Clients -> SUBSET Posts] /\ acks \in [Clients -> SUBSET Things]
  /\ air \subseteq Clients \X Things /\ confirmed \subseteq Messages
  /\ log \subseteq Posts
TypeOK == StoreTypeOK /\ MemoryTypeOK /\ TaskTypeOK /\ WorldTypeOK
---------------------------------------------------------------------------
(* acl.py                                                                  *)

MayPost(role) == role \in {"read_write", "admin"}

(* acl.resolve: the first rule that applies; {} is a refusal, which is     *)
(* silence.  The member rule comes first, so a password cannot escalate.   *)
Resolve(cfg, c, secret) ==
  IF cfg.member[c] # NoRole
  THEN {[role |-> cfg.member[c], source |-> "member"]}
  ELSE IF secret # NoSecret /\ cfg.password[secret] # NoRole
  THEN {[role |-> cfg.password[secret], source |-> "password"]}
  ELSE IF cfg.unknown # NoRole
  THEN {[role |-> cfg.unknown, source |-> "allow_unknown"]}
  ELSE {}

ResolveWithoutPassword(cfg, c) ==
  IF cfg.member[c] # NoRole THEN cfg.member[c]
  ELSE IF cfg.unknown # NoRole THEN cfg.unknown ELSE "guest"

---------------------------------------------------------------------------
(* Helpers                                                                 *)

Bump(n) == IF n < CountCap THEN n + 1 ELSE n

Cutoff(at, retention) == IF retention = NoLimit THEN NoLimit ELSE at - retention

(* RoomServer._prune_clients: the keys forgotten.  It runs on the database *)
(* thread and reads the sessions and the settings of that moment.          *)
InFlight == {c \in DOMAIN sessions : sessions[c].pending # NoAck}
Prunable(cfg, keep) ==
  IF cfg.clientRetention = NoLimit THEN {}
  ELSE IdleClients(rows, now - cfg.clientRetention, keep)

(* The sync positions client c may name: nothing, or any post it holds (a  *)
(* packet that was delayed names an older one).                            *)
Claims(c) == {0} \cup {p.ts : p \in held[c]}

Arrives(m) == h = Idle /\ m \in Packets

Update(c, s) == sessions' = [sessions EXCEPT ![c] = s]

(* await store.run(..): the task waits, its job is queued.                 *)
HandlerWaits(rec) == h' = rec /\ queue' = Append(queue, "handler")
HandlerJob(op) == queue # <<>> /\ Head(queue) = "handler" /\ h.op = op
PushJob(pc) == queue # <<>> /\ Head(queue) = "push" /\ push.pc = pc
JobDone == queue' = Tail(queue) /\ done' = Append(done, Head(queue))
HandlerResumes(op) == done # <<>> /\ Head(done) = "handler" /\ h.op = op /\ done' = Tail(done)
PushResumes(pc) == done # <<>> /\ Head(done) = "push" /\ push.pc = pc /\ done' = Tail(done)

---------------------------------------------------------------------------
(* Login.  A refusal, and a time stamp that is not newer than the last one *)
(* seen, get no reply and change nothing: they are not actions.            *)

Bug_AnyLogin(m) == TRUE
NotReplayed(m) == m.c \in DOMAIN sessions => m.ts > sessions[m.c].lastTs

RecvLogin(m, since) ==
  /\ Arrives(m) /\ m.kind = "login" /\ since \in Claims(m.c)
  /\ NotReplayed(m)
  /\ \E grant \in Resolve(settings, m.c, m.secret) :
       HandlerWaits([op |-> "login", c |-> m.c, ts |-> m.ts, since |-> since,
                     flood |-> m.flood, role |-> grant.role,
                     source |-> grant.source, now |-> now])
  /\ UNCHANGED <<durable, settings, sessions, before, roundRobin, push, done, world, log>>

DbLogin ==
  /\ HandlerJob("login") /\ JobDone
  /\ rows' = RecordLogin(rows, h.c, h.ts, h.since, h.now, h.flood)
  /\ UNCHANGED <<posts, counters, settings, sessions, before, roundRobin, h, push, world, log>>

(* The session takes the role that was resolved before the await.          *)
ResumeLogin ==
  LET old == IF h.c \in DOMAIN sessions THEN {sessions[h.c]} ELSE {}
      new == [role     |-> h.role,
              source   |-> h.source,
              since    |-> h.since,
              lastTs   |-> h.ts,
              active   |-> h.now,
              pending  |-> NoAck,
              failures |-> 0,
              path     |-> IF h.flood \/ old = {} THEN NoPath ELSE sessions[h.c].path,
              welcome  |-> IF h.since = 0 /\ settings.welcome > 0 THEN settings.welcome
                           ELSE IF old = {} THEN 0 ELSE sessions[h.c].welcome]
  IN  /\ HandlerResumes("login")
      /\ sessions' = [c \in DOMAIN sessions \cup {h.c} |-> IF c = h.c THEN new ELSE sessions[c]]
      /\ before' = IF old = {} THEN before \cup ((DOMAIN sessions) \X {h.c}) ELSE before
      /\ h' = Idle
      /\ UNCHANGED <<durable, settings, roundRobin, push, queue, world, log>>

---------------------------------------------------------------------------
(* Text: posts and the admin console                                       *)

(* The prologue of _on_text.                                               *)
Heard(s, ts) == [s EXCEPT !.lastTs = ts, !.active = now, !.failures = 0]

PostWaits(c, author, msg) ==
  HandlerWaits([op |-> "post", c |-> c, author |-> author, msg |-> msg, now |-> now,
                postRetention |-> settings.postRetention, maxPosts |-> settings.maxPosts,
                forgotten |-> {}])

(* Equal time stamps mean a retry: acknowledged again, not posted again.   *)
Stores(m, s) == MayPost(s.role) /\ m.ts # s.lastTs /\ m.kind = "post"

(* Without a store to wait for, the acknowledgement is sent at once.       *)
Bug_AckEarly(m, s) == MayPost(s.role)
AckedAtOnce(m, s) == MayPost(s.role) /\ ~Stores(m, s)

RecvPost(m) ==
  LET s == sessions[m.c]
  IN  /\ Arrives(m) /\ m.kind \in {"post", "blank"} /\ m.c \in DOMAIN sessions
      /\ m.ts >= s.lastTs
      /\ Update(m.c, Heard(s, m.ts))
      /\ \/ /\ Stores(m, s) /\ Cardinality(log) < MaxLog
            /\ PostWaits(m.c, m.c, <<m.c, m.ts>>)
         \/ /\ ~Stores(m, s)
            /\ UNCHANGED <<h, queue>>
      /\ confirmed' = IF AckedAtOnce(m, s) THEN confirmed \cup {<<m.c, m.ts>>} ELSE confirmed
      /\ UNCHANGED <<durable, settings, before, roundRobin, push, done,
                     now, held, acks, air, log>>

(* Non-admins and retries get nothing at all, but were heard.              *)
Bug_RetryRuns(m, s) == s.role = "admin"
Runs(m, s) == s.role = "admin" /\ m.ts # s.lastTs

RecvCli(m) ==
  LET s == sessions[m.c]
      runs == Runs(m, s)
  IN  /\ Arrives(m) /\ m.kind = "cli" /\ m.c \in DOMAIN sessions
      /\ m.ts >= s.lastTs
      /\ Update(m.c, Heard(s, m.ts))
      /\ \/ /\ runs /\ m.cmd = "room.post" /\ Cardinality(log) < MaxLog
            /\ PostWaits(m.c, RoomKey, <<m.c, m.ts>>)
         \/ /\ runs /\ m.cmd = "clear stats"
            /\ HandlerWaits([op |-> "clear"])
         \/ /\ ~runs \/ m.cmd = "other"
            /\ UNCHANGED <<h, queue>>
      /\ UNCHANGED <<durable, settings, before, roundRobin, push, done, world, log>>

DbClear ==
  /\ HandlerJob("clear") /\ JobDone
  /\ counters' = [posted |-> 0, pushes |-> 0]
  /\ UNCHANGED <<posts, rows, settings, sessions, before, roundRobin, h, push, world, log>>

(* _store_post's transaction: add, count, forget idle clients, then prune. *)
DbPost ==
  LET p == [ts |-> NextPostTs(posts, h.now), author |-> h.author, msg |-> h.msg]
      idle == Prunable(settings, InFlight)
      left == Without(rows, idle)
      all == posts \cup {p}
  IN  /\ HandlerJob("post") /\ JobDone
      /\ posts' = all \ PrunedPosts(all, left, Cutoff(h.now, h.postRetention), h.maxPosts)
      /\ rows' = left
      /\ counters' = [counters EXCEPT !.posted = Bump(@)]
      /\ log' = log \cup {p}
      /\ h' = [h EXCEPT !.forgotten = idle]
      /\ UNCHANGED <<settings, sessions, before, roundRobin, push, world>>

(* _forget_sessions.  A push that waits for a forgotten session goes on    *)
(* with the object it holds.                                               *)
Bug_SessionsKept(keys) == sessions
ForgetSessions(keys) == Without(sessions, keys)

ResumePost ==
  /\ HandlerResumes("post")
  /\ sessions' = ForgetSessions(h.forgotten)
  /\ before' = {pair \in before : pair[1] \notin h.forgotten /\ pair[2] \notin h.forgotten}
  /\ push' = IF push.pc = "read" /\ push.c \in h.forgotten \cap DOMAIN sessions /\ push.frozen = -1
             THEN [push EXCEPT !.frozen = sessions[push.c].since]
             ELSE push
  /\ confirmed' = IF h.author = h.c THEN confirmed \cup {h.msg} ELSE confirmed
  /\ h' = Idle
  /\ UNCHANGED <<durable, settings, roundRobin, queue, now, held, acks, air, log>>

---------------------------------------------------------------------------
(* Requests                                                                *)

(* A status reads the counters; the access list and the unknown types      *)
(* answer, or not, without waiting; so does a keep-alive that came by      *)
(* flood.                                                                  *)
RecvRequest(m) ==
  LET s == sessions[m.c]
  IN  /\ Arrives(m) /\ m.c \in DOMAIN sessions /\ m.ts >= s.lastTs
      /\ m.kind \in {"status", "other_req"} \/ (m.kind = "keep_alive" /\ m.flood)
      /\ Update(m.c, Heard(s, m.ts))
      /\ IF m.kind = "status" THEN HandlerWaits([op |-> "read"]) ELSE UNCHANGED <<h, queue>>
      /\ UNCHANGED <<durable, settings, before, roundRobin, push, done, world, log>>

(* The rest of _on_keep_alive once the claim is settled: the count is read *)
(* only if there is a path to answer over.                                 *)
Counts(s) == IF s.path # NoPath THEN HandlerWaits([op |-> "read"]) ELSE h' = Idle /\ UNCHANGED queue

RecvKeepAlive(m, since) ==
  LET s == Heard(sessions[m.c], m.ts)
  IN  /\ Arrives(m) /\ m.kind = "keep_alive" /\ ~m.flood
      /\ m.c \in DOMAIN sessions /\ m.ts >= sessions[m.c].lastTs
      /\ since \in Claims(m.c)
      /\ IF since > 0 /\ since # s.since
         THEN /\ Update(m.c, [s EXCEPT !.since = since])
              /\ HandlerWaits([op |-> "force", c |-> m.c, ts |-> since])
         ELSE /\ Update(m.c, [s EXCEPT !.pending = NoAck])
              /\ Counts(s)
      /\ UNCHANGED <<durable, settings, before, roundRobin, push, done, world, log>>

DbForce ==
  /\ HandlerJob("force") /\ JobDone
  /\ rows' = ForceSyncSince(rows, h.c, h.ts)
  /\ UNCHANGED <<posts, counters, settings, sessions, before, roundRobin, h, push, world, log>>

ResumeForce ==
  /\ HandlerResumes("force")
  /\ Update(h.c, [sessions[h.c] EXCEPT !.pending = NoAck])
  /\ Counts(sessions[h.c])
  /\ UNCHANGED <<durable, settings, before, roundRobin, push, world, log>>

(* A transaction whose result only fills a reply.                          *)
DbRead ==
  /\ HandlerJob("read") /\ JobDone
  /\ UNCHANGED <<durable, settings, sessions, before, roundRobin, h, push, world, log>>

ResumeReply ==
  /\ HandlerResumes("read") \/ HandlerResumes("clear")
  /\ h' = Idle
  /\ UNCHANGED <<durable, settings, sessions, before, roundRobin, push, queue, world, log>>

---------------------------------------------------------------------------
(* Path returns and acknowledgements                                       *)

Matches(c, x) == c \in DOMAIN sessions /\ sessions[c].pending = x

(* _on_ack, once x has matched what client c owes us.  The cursor moves in *)
(* memory at once and in the database after the await.                     *)
Bug_AlwaysPops(c, x) ==
  LET s == [sessions[c] EXCEPT !.pending = NoAck, !.failures = 0, !.welcome = @ - 1]
  IN  \/ x = Welcome /\ Update(c, s) /\ h' = Idle /\ UNCHANGED queue
      \/ /\ x # Welcome /\ Update(c, [s EXCEPT !.since = x.ts])
         /\ HandlerWaits([op |-> "ack", c |-> c, ts |-> x.ts])
TakeAck(c, x) ==
  LET s == [sessions[c] EXCEPT !.pending = NoAck, !.failures = 0]
  IN  \/ /\ x = Welcome
         /\ Update(c, [s EXCEPT !.welcome = IF @ > 0 THEN @ - 1 ELSE 0])
         /\ h' = Idle /\ UNCHANGED queue
      \/ /\ x # Welcome
         /\ Update(c, [s EXCEPT !.since = x.ts])
         /\ HandlerWaits([op |-> "ack", c |-> c, ts |-> x.ts])

(* An acknowledgement that matches nothing is not ours.                    *)
RecvAck(c, x) ==
  /\ h = Idle /\ x \in acks[c] /\ Matches(c, x)
  /\ TakeAck(c, x)
  /\ UNCHANGED <<durable, settings, before, roundRobin, push, done, world, log>>

DbAck ==
  /\ HandlerJob("ack") /\ JobDone
  /\ rows' = AdvanceSync(rows, h.c, h.ts)
  /\ UNCHANGED <<posts, counters, settings, sessions, before, roundRobin, h, push, world, log>>

(* A PATH packet carries no time stamp; extra is the acknowledgement it    *)
(* may bundle.                                                             *)
RecvPath(m, extra) ==
  /\ Arrives(m) /\ m.kind = "path" /\ m.c \in DOMAIN sessions
  /\ extra \subseteq acks[m.c] /\ Cardinality(extra) <= 1
  /\ Update(m.c, [sessions[m.c] EXCEPT !.path = m.path, !.active = now])
  /\ HandlerWaits([op |-> "path", c |-> m.c, path |-> m.path, extra |-> extra])
  /\ UNCHANGED <<durable, settings, before, roundRobin, push, done, world, log>>

DbPath ==
  /\ HandlerJob("path") /\ JobDone
  /\ rows' = SetOutPath(rows, h.c, h.path)
  /\ UNCHANGED <<posts, counters, settings, sessions, before, roundRobin, h, push, world, log>>

ResumePath ==
  /\ HandlerResumes("path")
  /\ \/ \E x \in h.extra : Matches(h.c, x) /\ TakeAck(h.c, x)
     \/ /\ \A x \in h.extra : ~Matches(h.c, x)
        /\ h' = Idle /\ UNCHANGED <<sessions, queue>>
  /\ UNCHANGED <<durable, settings, before, roundRobin, push, world, log>>

(* Nothing is left to do when these transactions return.                   *)
ResumeAck ==
  /\ HandlerResumes("ack")
  /\ h' = Idle
  /\ UNCHANGED <<durable, settings, sessions, before, roundRobin, push, queue, world, log>>

---------------------------------------------------------------------------
(* The push loop                                                           *)

(* The timeout of a push may have passed, or not, for each client: overdue *)
(* is the clients for which it has.                                        *)
Expired(overdue) ==
  [c \in DOMAIN sessions |->
     IF c \in overdue
     THEN [sessions[c] EXCEPT !.pending = NoAck, !.failures = @ + 1]
     ELSE sessions[c]]

Position(c) == Cardinality({d \in DOMAIN sessions : <<d, c>> \in before})

(* The index into the ordered sessions.                                    *)
Bug_SameTurn(n) == roundRobin % n
NextTurn(n) == ((roundRobin % n) + 1) % n

(* A push goes out: _push, to the session of c as it is in ss.             *)
Bug_CursorMoves(ss, c, x) ==
  IF x = Welcome THEN [ss EXCEPT ![c].pending = x]
  ELSE [ss EXCEPT ![c].pending = x, ![c].since = x.ts]
Sent(ss, c, x) == [ss EXCEPT ![c].pending = x]

(* One round-robin step up to its first await.  A welcome chunk has a time *)
(* stamp of its own, so no acknowledgement of an earlier one matches it.   *)
PushOnce(overdue) ==
  LET ss == Expired(overdue)
      n == Cardinality(DOMAIN sessions)
      turn == {c \in DOMAIN sessions : Position(c) = roundRobin % n}
  IN  /\ push = Ready /\ overdue \subseteq InFlight
      /\ n > 0
      /\ roundRobin' = NextTurn(n)
      /\ \E c \in turn :
           LET skipped == \/ ss[c].pending # NoAck
                          \/ ss[c].active = 0
                          \/ ss[c].failures >= MaxFailures
           IN  \/ /\ skipped
                  /\ sessions' = ss
                  /\ UNCHANGED <<push, queue, air, acks>>
               \/ /\ ~skipped /\ ss[c].welcome > 0
                  /\ sessions' = Sent(ss, c, Welcome)
                  /\ air' = air \cup {<<c, Welcome>>}
                  /\ acks' = [acks EXCEPT ![c] = @ \ {Welcome}]
                  /\ UNCHANGED <<push, queue>>
               \/ /\ ~skipped /\ ss[c].welcome = 0
                  /\ sessions' = ss
                  /\ push' = [pc |-> "read", c |-> c, notNewerThan |-> now - SyncDelay,
                              post |-> {}, frozen |-> -1]
                  /\ queue' = Append(queue, "push")
                  /\ UNCHANGED <<air, acks>>
      /\ UNCHANGED <<durable, settings, before, h, done, now, held, confirmed, log>>

(* next_unsynced_post: the cursor is read when the job runs.               *)
DbNextUnsynced ==
  LET since == IF push.frozen = -1 THEN sessions[push.c].since ELSE push.frozen
  IN  /\ PushJob("read") /\ JobDone
      /\ push' = [push EXCEPT !.post = NextUnsynced(posts, push.c, since, push.notNewerThan)]
      /\ UNCHANGED <<durable, settings, sessions, before, roundRobin, h, world, log>>

(* The push goes out whatever happened to the session since it was read.   *)
ResumePush ==
  /\ PushResumes("read")
  /\ \/ /\ push.post = {}
        /\ push' = Ready
        /\ UNCHANGED <<sessions, queue, air>>
     \/ \E p \in push.post :
          /\ sessions' = IF push.frozen = -1 THEN Sent(sessions, push.c, p) ELSE sessions
          /\ air' = air \cup {<<push.c, p>>}
          /\ push' = Counting /\ queue' = Append(queue, "push")
  /\ UNCHANGED <<durable, settings, before, roundRobin, h,
                 now, held, acks, confirmed, log>>

DbCount ==
  /\ PushJob("count") /\ JobDone
  /\ counters' = [counters EXCEPT !.pushes = Bump(@)]
  /\ UNCHANGED <<posts, rows, settings, sessions, before, roundRobin, h, push, world, log>>

ResumeCount ==
  /\ PushResumes("count")
  /\ push' = Ready
  /\ UNCHANGED <<durable, settings, sessions, before, roundRobin, h, queue, world, log>>

---------------------------------------------------------------------------
(* Reload and restart                                                      *)

(* apply_settings: a role earned by password stays until the next login.   *)
Bug_RevokedKept(cfg, c, s) ==
  IF cfg.member[c] # NoRole
  THEN [s EXCEPT !.role = cfg.member[c], !.source = "member"]
  ELSE s
Reassigned(cfg, c, s) ==
  IF cfg.member[c] # NoRole
  THEN [s EXCEPT !.role = cfg.member[c], !.source = "member"]
  ELSE IF s.source = "member"
  THEN [s EXCEPT !.role = ResolveWithoutPassword(cfg, c), !.source = "allow_unknown"]
  ELSE s

Reload(cfg) ==
  /\ MayReload /\ cfg \in Configs \ {settings}
  /\ settings' = cfg
  /\ sessions' = [c \in DOMAIN sessions |-> Reassigned(cfg, c, sessions[c])]
  /\ UNCHANGED <<durable, before, roundRobin, tasks, world, log>>

Bug_GuardLost(cfg, c, row) ==
  [role |-> ResolveWithoutPassword(cfg, c),
   source |-> IF cfg.member[c] # NoRole THEN "member" ELSE "allow_unknown",
   since |-> row.since, lastTs |-> 0, path |-> row.path, active |-> row.active,
   pending |-> NoAck, failures |-> 0, welcome |-> 0]
Rehydrated(cfg, c, row) ==
  [role     |-> ResolveWithoutPassword(cfg, c),
   source   |-> IF cfg.member[c] # NoRole THEN "member" ELSE "allow_unknown",
   since    |-> row.since,
   lastTs   |-> row.lastTs,
   path     |-> row.path,
   active   |-> row.active,
   pending  |-> NoAck,
   failures |-> 0,
   welcome  |-> 0]

(* list_clients orders by first_seen, which the model does not keep.       *)
Orders(S) ==
  {R \in SUBSET (S \X S) :
     /\ \A a, b \in S : a # b => (<<a, b>> \in R) # (<<b, a>> \in R)
     /\ \A a \in S : <<a, a>> \notin R
     /\ \A a, b, c \in S : <<a, b>> \in R /\ <<b, c>> \in R => <<a, c>> \in R}

(* The process dies and starts again, with the configuration it then       *)
(* finds: what was in memory or queued is gone, RoomServer.start prunes    *)
(* and lists the clients before any packet is handled.  What is in air     *)
(* stays in air.                                                           *)
Restart(cfg) ==
  LET left == Without(rows, Prunable(cfg, {}))
  IN  /\ MayRestart /\ cfg \in Configs /\ (cfg = settings \/ MayReload)
      /\ settings' = cfg
      /\ rows' = left
      /\ sessions' = [c \in DOMAIN left |-> Rehydrated(cfg, c, left[c])]
      /\ before' \in Orders(DOMAIN left)
      /\ roundRobin' = 0
      /\ h' = Idle /\ push' = Ready /\ queue' = <<>> /\ done' = <<>>
      /\ UNCHANGED <<posts, counters, world, log>>

---------------------------------------------------------------------------
(* The world                                                               *)

(* A push reaches its client, which keeps the post and acknowledges it.    *)
Receive(c, x) ==
  /\ <<c, x>> \in air
  /\ held' = [held EXCEPT ![c] = IF x = Welcome THEN @ ELSE @ \cup {x}]
  /\ acks' = [acks EXCEPT ![c] = @ \cup {x}]
  /\ UNCHANGED <<durable, settings, sessions, before, roundRobin, tasks,
                 now, air, confirmed, log>>

(* A client's app loses its history (it is reinstalled, or restored from a *)
(* backup).                                                                *)
LoseHistory(c) ==
  /\ c \in Forgetful /\ held[c] # {}
  /\ held' = [held EXCEPT ![c] = {}]
  /\ UNCHANGED <<durable, settings, sessions, before, roundRobin, tasks,
                 now, acks, air, confirmed, log>>

(* Seconds pass; ClockSteps lets the wall clock be set back.               *)
Tick(t) ==
  /\ t \in 1..MaxNow /\ (t > now \/ (ClockSteps /\ t < now))
  /\ now' = t
  /\ UNCHANGED <<durable, settings, sessions, before, roundRobin, tasks,
                 held, acks, air, confirmed, log>>

---------------------------------------------------------------------------
NoTable == [c \in {} |-> c]

Init ==
  /\ posts = {} /\ log = {} /\ rows = NoTable
  /\ counters = [posted |-> 0, pushes |-> 0]
  /\ settings \in Configs
  /\ sessions = NoTable /\ before = {} /\ roundRobin = 0
  /\ h = Idle /\ push = Ready /\ queue = <<>> /\ done = <<>>
  /\ now = 1 /\ air = {} /\ confirmed = {}
  /\ held = [c \in Clients |-> {}] /\ acks = [c \in Clients |-> {}]

Database == \/ DbLogin \/ DbPost \/ DbClear \/ DbForce \/ DbRead \/ DbAck \/ DbPath
            \/ DbNextUnsynced \/ DbCount

Resume == \/ ResumeLogin \/ ResumePost \/ ResumeForce \/ ResumeReply
          \/ ResumeAck \/ ResumePath \/ ResumePush \/ ResumeCount

Inbound ==
  \/ \E m \in Packets :
       \/ \E since \in Claims(m.c) : RecvLogin(m, since) \/ RecvKeepAlive(m, since)
       \/ RecvPost(m) \/ RecvCli(m) \/ RecvRequest(m)
       \/ \E extra \in SUBSET acks[m.c] : RecvPath(m, extra)
  \/ \E c \in Clients : \E x \in acks[c] : RecvAck(c, x)

PushLoop == \E overdue \in SUBSET InFlight : PushOnce(overdue)

Operator == \E cfg \in Configs : Reload(cfg) \/ Restart(cfg)

World ==
  \/ \E pair \in air : Receive(pair[1], pair[2])
  \/ \E c \in Clients : LoseHistory(c)
  \/ \E t \in 1..MaxNow : Tick(t)

Next == Database \/ Resume \/ Inbound \/ PushLoop \/ Operator \/ World

Spec == Init /\ [][Next]_vars

---------------------------------------------------------------------------
(* Properties.  A client is owed the posts it did not write and does not   *)
(* hold.                                                                   *)

Owed(c, p) == p.author # c /\ p \notin held[c]

(* Safety: the cursor of a client, in memory or in the database, never     *)
(* passes a stored post that the client is still owed: an acknowledgement  *)
(* moves it only past what the client has received, whichever push it      *)
(* answers and however the login, the keep-alive and the push interleave   *)
(* ("sync_since would advance past a post whose push was never             *)
(* acknowledged", run_push_loop).                                          *)
NothingOwedSkipped ==
  \A p \in posts, c \in Clients :
    Owed(c, p) => /\ c \in DOMAIN sessions => sessions[c].since < p.ts
                  /\ c \in DOMAIN rows => rows[c].since < p.ts

(* Action: retention deletes a post only when no client that keeps its row *)
(* is still owed it ("Never prunes a post a connected client has not yet   *)
(* been sent", prune_posts).                                               *)
NothingOwedDeleted ==
  [][\A p \in posts \ posts', c \in DOMAIN rows' : ~Owed(c, p)]_vars

(* Action: post_ts, the sync cursor, is strictly increasing over the whole *)
(* life of the room, across pruning, restarts and a clock that is set back *)
(* (next_post_ts, models.py): every new post is later than every post ever *)
(* stored, the deleted ones included.                                      *)
PostTsIncreases ==
  [][\A p \in posts' \ posts, q \in log : q.ts < p.ts]_vars

(* Safety: the sessions in memory and the rows in the table are the same   *)
(* clients whenever no handler is in the middle of changing them           *)
(* (RoomServer.sessions, _forget_sessions).                                *)
SessionsMatchRows == h = Idle => DOMAIN sessions = DOMAIN rows

(* Safety: what is kept twice agrees: when no handler waits, the return    *)
(* path in memory is the one in the table, and the cursor in memory is not *)
(* ahead of the table's, so a restart may repeat a post but never skips    *)
(* one.                                                                    *)
MemoryWithinStore ==
  h = Idle => \A c \in DOMAIN sessions \cap DOMAIN rows :
                /\ sessions[c].since <= rows[c].since
                /\ sessions[c].path = rows[c].path
                /\ rows[c].lastTs <= sessions[c].lastTs

(* Action: while a session lives its replay guard only rises, whichever    *)
(* handler moves it and however late it resumes; and the guard of logins   *)
(* that the database keeps rises over restarts too, so a login that was    *)
(* captured before a crash cannot be replayed after it ("so a captured     *)
(* ANON_REQ cannot be replayed to re-enter the room", _login).            *)
(* Over a restart the guard of a session falls back to that of its row.    *)
ReplayGuardRises ==
  [][/\ (\A c \in DOMAIN sessions \cap DOMAIN sessions' :
           sessions[c].lastTs <= sessions'[c].lastTs)
        \/ (\E cfg \in Configs : Restart(cfg))
     /\ \A c \in DOMAIN rows \cap DOMAIN rows' : rows[c].lastTs <= rows'[c].lastTs]_vars

(* The rule of acl.py for the member list: a listed client has the role of *)
(* the list and nothing else, and nobody else counts as a member.          *)
AsListed(cfg, c, s) ==
  IF cfg.member[c] # NoRole
  THEN s.role = cfg.member[c] /\ s.source = "member"
  ELSE s.source # "member"

(* The login that waits resumes, though a reload has changed what its      *)
(* client is listed as since it was resolved.                              *)
Overtaken(c) == h.op = "login" /\ h.c = c /\ h' = Idle /\ ~AsListed(settings, c, h)

(* Action: every session has the role of the configuration in force: a     *)
(* listed member has exactly the role it is listed with, so a password     *)
(* cannot escalate it (acl.py), and a reload or a start puts every session *)
(* in line with its list (apply_settings, start), after which no message,  *)
(* push, acknowledgement, retry or login takes it out again.  The one      *)
(* exception is a login that waits for its transaction while a reload      *)
(* changes the list: its session has the role of the list before, until    *)
(* the next login, reload or start.  DemotionTakesEffect shows it.         *)
RolesFollowList ==
  [][/\ \A c \in DOMAIN sessions' :
          \/ AsListed(settings', c, sessions'[c])
          \/ Overtaken(c)
          \/ /\ UNCHANGED settings /\ c \in DOMAIN sessions
             /\ ~AsListed(settings, c, sessions[c])
     /\ h'.op = "login" /\ h' # h => AsListed(settings', h'.c, h')]_vars

(* Safety: a message is stored at most once, however often it is retried:  *)
(* "that is the difference between a lost ACK and a duplicated message"    *)
(* (_on_text).                                                             *)
StoredOnce == \A p, q \in log : p.author = q.author /\ p.msg = q.msg => p = q

(* Safety: a post that was acknowledged to its author was stored.          *)
AckedIsStored ==
  \A m \in Packets :
    m.kind = "post" /\ <<m.c, m.ts>> \in confirmed
      => \E p \in log : p.msg = <<m.c, m.ts>> /\ p.author = m.c

---------------------------------------------------------------------------
(* Liveness.  The database thread and the event loop run what is ready,    *)
(* the push loop keeps turning, seconds pass.  Of the mesh it is assumed   *)
(* that what stays in air arrives in the end, and that an acknowledgement  *)
(* that is awaited again and again is heard at last; of the clients only   *)
(* that they answer pushes.                                                *)
Fairness ==
  /\ WF_vars(Database) /\ WF_vars(Resume) /\ WF_vars(PushLoop)
  /\ WF_vars(\E t \in 1..MaxNow : Tick(t))
  /\ \A c \in Clients : /\ WF_vars(\E x \in {pair[2] : pair \in air} : Receive(c, x) /\ x \notin acks[c])
                         /\ SF_vars(\E x \in acks[c] : RecvAck(c, x))

FairSpec == Spec /\ Fairness

LeftAlone(c) == c \notin DOMAIN sessions \/ sessions[c].failures >= MaxFailures

(* Liveness: every stored post reaches every client of the room that is    *)
(* owed it, unless the room leaves the client alone after too many         *)
(* unanswered pushes: the round robin starves nobody, and neither a        *)
(* welcome nor a lost acknowledgement blocks the posts behind it.          *)
(* (Posts stamped beyond the clock's bound never settle in the model.)     *)
OwedPostsArrive ==
  \A c \in Clients, ts \in 1..MaxNow - SyncDelay :
    (\E p \in posts : p.ts = ts /\ Owed(c, p))
      ~> (LeftAlone(c) \/ \A p \in posts : p.ts = ts => ~Owed(c, p))

---------------------------------------------------------------------------
(* What the documentation says and the code does not do: a run finds it    *)
(* violated.                                                               *)

(* "A client still owed a post is never forgotten, whatever this says"     *)
(* (config/model.py, client_retention).                                    *)
OwedNeverForgotten ==
  [][\A c \in DOMAIN rows \ DOMAIN rows' : \A p \in posts : ~Owed(c, p)]_vars

(* "Declared members are re-resolved immediately, so adding or demoting    *)
(* one takes effect on the next packet" (apply_settings): a post of a      *)
(* listed member is taken only when the list then in force lets it post.   *)
DemotionTakesEffect ==
  [][h = Idle /\ h'.op = "post" /\ settings.member[h'.c] # NoRole
       => MayPost(settings.member[h'.c])]_vars
=============================================================================
