# A verification project for meshelle

meshelle hosts MeshCore *room servers* (message boards on a LoRa mesh) in one
Python process, next to a companion radio node that it reaches over serial, TCP
or BLE. Clients log in by radio, post, and are sent every post they did not
write, one at a time, each acknowledged before the next. The promise that makes
a room useful is that **a post that was acknowledged to its author reaches every
client of the room**, over a mesh that loses, repeats, delays and reorders, and
through restarts, reloads and retention. This directory models the code that has
to keep that promise, checks it with TLC and proves parts of it with TLAPS.

Everything is translated from `src/src/meshelle/`; `PROJECT.json` maps every
definition to the lines it stands for (paths below are relative to that directory).

## Inventory

| Component | State | Operations | Correct when |
|---|---|---|---|
| **Room server** `room/server.py` | sessions by client key (role, cursor `sync_since`, replay guard `last_timestamp`, return path, pending push, failures, welcome chunks), insertion order, `_round_robin`, settings | login, post, console, keep-alive, request, path return, acknowledgement; push loop; reload; start | no owed post is skipped; what is acknowledged is stored, once; no role beyond the configuration; everyone owed is served |
| **Room store** `store/repo.py`, `models.py` | tables posts, clients, counters | `add_post`, `next_post_ts`, `next_unsynced_post`, `prune_posts`, `record_login`, `advance_sync`, `force_sync_since`, `prune_clients` | `post_ts` only increases; retention deletes nothing a client is owed |
| **Database thread** `store/db.py` | queue of transactions | `run` | jobs commit in the order they were submitted |
| **Access control** `room/acl.py` | - | `resolve`, `resolve_without_password` | a listed member's role is definitive |
| **Admin console** `room/admin_cli.py` | - | `room.post`, `clear stats`, others | a retried command does not run again |
| **Seen table** `mesh/dedupe.py` | ordered packet hashes with time stamps | `mark`, `check_and_mark` | it is the window of the last `ttl` seconds and `capacity` packets |
| **Dispatcher** `mesh/dispatcher.py` | rooms by node hash, seen table | `send`, `dispatch` | a packet is handled once, an echo never, by the right room |
| **Companion link** `companion/link.py` | connection state, `_outbound`, `_packets`, `time_responses` | `run`, `stop`, `send_packet`, three loops of a session | no packet is lost by a reconnection; a dead node is noticed; `stop` ends it |
| **Stream transport** `transport/base.py` | reader task, queue of frames | connect, read, write, close | queued frames are read before the failure |
| **Framing** `transport/framing.py` | bytes of the stream | `read_frame` | a damaged stretch costs a bounded number of frames |
| **Application** `app.py`, `cli.py`, `proto/identity.py`, `store/migrate.py` | settings, data directory, key files, rows of rooms, tasks, `_stop` | start, `reload`, signals, shutdown | an accepted reload reaches every room listed; a room keeps its key, and a kill loses none; what is to end, ends; the service comes back |
| **Env file** `config/dotenv.py` | `os.environ`, names applied | `load_dotenv`, `apply_dotenv` | inherited variables win; deleted lines revoke |
| **Clock** `mesh/clock.py` | `_last_unique` | `now`, `unique_now` | time stamps of packets are unique |
| **Scheduler, push pacing** `mesh/scheduler.py`, `room/server.py` | delayed calls; `_next_push` | `call_later`, `_pause_pushes`, `run_push_loop` | pushes keep their distance and leave replies their pause |
| **Advert loop** `room/server.py` | two deadlines | `run_advert_loop` | adverts recur, and the two kinds do not stack up |
| **Packet and post lengths** `proto/packet.py`, `room/posts.py`, `proto/text.py` | - | budgets, cutting, splitting | what a room sends fits the node; a welcome loses no letter |

What is left (field layouts, cryptography, configuration parsing, radio
statistics, one-shot commands, Alembic, log formatting) is under *Not modelled*.

How they interact. One asyncio event loop runs everything except transactions.
The link's receive loop queues packets; one dispatcher task takes them one at a
time and **awaits** the room's handler; every room's push loop is its own task;
a handler or the push loop waits for the database thread at each
`await store.run(...)`, and whatever else is ready runs in between. Rooms send
through the dispatcher, which marks the packet and hands it to the link's queue,
where it may wait for a reconnection. SIGHUP makes the application re-read its
two files and call `apply_settings` on each room, between any two awaits;
SIGTERM makes it stop the link, and that, or a task that fails, cancel the other
tasks and close the database behind the transaction under way.

What is hard: state read before an `await` and used after it (roles at a login,
the session a push was chosen for, rows against sessions); three writers of one
cursor (login, keep-alive, acknowledgement); acknowledgements that name neither
sender nor push; retention against cursors; a wall clock that is set back; death
between a store, its acknowledgement and the cursor; a connection that fails at
any point of a session, and `stop` at any point; the mesh repeating everything,
our own packets included. `PROJECT.json` lists these as hazards, at their lines,
with the properties that cover them.

## Modules

| Module | Models | Composed of |
|---|---|---|
| `RoomStore` | the transactions of `repo.py` as operators on table values | |
| `RoomServer` | one room, its clients, the mesh around it, the database thread | extends `RoomStore` |
| `RoomServerProofs` | types and time stamps of `RoomServer`, proved | |
| `RoomSyncProofs` | cursors and retention of `RoomServer`, proved | |
| `RoomMemoryProofs` | sessions against rows, and replay guards, proved | extends `RoomServerProofs` |
| `RoomPostingProofs` | roles, single storage, acknowledged posts, proved | extends `RoomMemoryProofs` |
| `Outbox` | *abstract*: what `send_packet` promises | |
| `CompanionLink` | the link over a stream transport, and the node | implements `Outbox` |
| `LinkProofs` | the refinement, types and survival of the link, proved | |
| `SeenTable` | the table's methods as operators on a sequence | |
| `Dispatcher` | the dispatcher, link queue and mesh as it sees them | extends `SeenTable` |
| `DispatcherProofs` | all its properties, proved | |
| `Reload` | the env file, the environment, the configuration, the rooms' settings | |
| `Application` | the life of the process: start, reload, signals, shutdown, kills, restarts | extends `Reload` |
| `ApplicationProofs` | all safety properties of `Reload` and `Application`, proved | |
| `Pacing` | the push loop's turns and delayed replies, in ticks | |
| `Adverts` | the advert loop, in ticks | |
| `Stamps` | `unique_now` and the stamps of packets, over restarts | |
| `PacketSize` | the length of everything a room sends | |
| `PostText` | cutting and splitting text | |
| `Framing` | `read_frame` over a damaged stream | |
| `AirProofs` | the safety of these machines, proved | extends the six |
| `MCRoomServer`, `MCReload`, `MCApplication` | small instances | |
| `MCAir` | one instance of the six machines above and of `Dispatcher`, one of which runs in each behaviour | extends the seven |

An operator `Bug_X` defined before `X` is a plausible error in `X`; each property
is tested to fail when `X` is replaced by it. No other definition uses one.

### RoomServer

Granularity: a handler is atomic up to its next `await store.run`, which is one
step (`Recv...`), the transaction (`Db...`) another, the continuation
(`Resume...`) a third. `h` holds the locals of the handler that waits (at most
one, the dispatcher being sequential), `push` those of the push loop, `queue`
and `done` the database thread. `frozen` in `push` is for the session *object*
the push loop holds when `_forget_sessions` removes it from the dictionary.

- `Packets` is everything clients may send; any of it may arrive at any time,
  repeatedly, or never: loss, duplication, delay and reordering, and replays.
- `air` holds pushes on their way, for ever once sent; `acks` the client's answers,
  repeatable for ever. `held` is what a client has; `confirmed` what was
  acknowledged to an author. A client names in a login or keep-alive 0 or the
  time stamp of a post it holds (`Claims`): an honest client.
- Timeouts and reply delays may pass at any moment, so no property depends on
  their length. `Restart` loses memory, tasks and queue and keeps tables and air.
- A login takes its role before its await and gives it to the session after it. `Overtaken`
  is the step of `ResumeLogin` when a reload has changed the list in between: the one way a
  session gets a role that the list in force does not give it (`RolesFollowList`).
- *A client is owed* a post it did not write and does not hold (`Owed`).

### CompanionLink

`state` is where `run`/`_session` is; `loops` and `errors` are the TaskGroup: a
failed loop puts its exception in `errors`, and until `Teardown` the others may
still take steps. `outbound` is `_outbound`, `sending` the await of the drain;
`pipe`/`frames` are bytes in the connection and the reader's queue. The
connection may break (writes then fail *or silently vanish*) and the node fall
silent at any time. `Outbox` knows only `given`, `waiting`, `late`, `handed`;
the mapping is `waiting <- outbound`, everything else by name. The heartbeat's write is one
step with its question (`Probe`): a write that hangs there, which no timeout covers
(`link.py:563`), is not modelled. `stopped` is `_stop`, with a value of its own,
`early`, for a `stop` that came while the transport was being opened, when there is
nothing to close: the session that follows runs on until it is cancelled, the one case
`StopEnds` excepts.

### Dispatcher

A packet stands for its hash. `until[p]` is how long copies of `p` may still be
heard; hearing or transmitting renews it. `TimingAssumption`
(`SendTtl + EchoMax < Ttl`) is what the documentation of `DEFAULT_TTL_SECONDS`
assumes of the mesh and what the constants give: adverts wait at most 600 s in
the link, the table keeps 900 s. `marks` is the full history of marks; the table
is compared with it.

### Reload

A reload has no await: one step with two effects, on the environment and on the
rooms, the second of which may be refused after the first has happened. Files are
edited freely in between. A log file that cannot be opened is no refusal: its
error leaves the reload half way and ends the task (`failed`). `loaded`,
`refused`, `newest` are history.

### Application

`phase` is where `command_run` and `Application.run` are: down, planning keys,
migrating, claiming rows and hosting rooms, serving, stopping the link, unwinding
the TaskGroup, draining the store. `todo`, `busy` and `plan` are the loops over the rooms and the result
of `plan_rooms`; `tasks`, `stop` and `failure` the TaskGroup; `job` a transaction
the rooms' task waits for. An error before the TaskGroup (`Refused`) and a failed task end the
process with status `failed`, after which, as after a kill, the service manager
starts it again (`Restart=on-failure`, `packaging/meshelle.service`). A kill
(`Crash`) may come between any two steps; between `CreateKeyFile` and
`WriteKeyFile` it leaves a torn file, between `Migrate` and `EndMigration` a
partial schema. SIGHUP and SIGTERM kill a process that has not installed its
handlers, or has removed them. While the process is down, an operator edits the
env file and the configuration, points a room at another key file, moves the data
directory, or copies and deletes key files.

`dataDir` is the directory `node.data_dir` resolves to. Each directory has a database
(`schema`, `rows`), and `Anchored` gives the file that a `key_file` (a room's default one
included) names from each: one per directory when it is relative, always the same when it
is absolute. Directories are left and returned to. `IdentityKept` is per directory, because
`ensure_room` is: from another directory, a room on a relative or default key file *is*
hosted under a new key, and nothing in the code notices. Databases are not moved or copied.

A kill is one of the process: what it wrote stays written. When the *machine* stops, SQLite with
`synchronous=NORMAL` may lose the last commits (`store/db.py:55-63`), and a key file is
not synced at all (`proto/identity.py:226-230`), so that a room may have been heard under a
key that is then gone. That is not modelled, and `KillsLoseNothing` says nothing of it.

`Blocked` names what a start cannot get past without an operator: files it cannot use
(`Misconfigured`), what a kill left half done (`HalfDone`: a torn key file, a partial schema),
keys at odds with each other or with the rows (`AtOdds`). `ServesAgain` says that nothing
else keeps a room down. A start that was killed in one of those two places really is not
repeated with success by the service manager; `KillsLoseNothing` says that deleting what is in the
way costs nothing.

### Pacing, Adverts, Stamps, PacketSize, PostText, Framing

Each is code that works beside the rooms' state and not on it, and has its own
variables, initial states and next-state relation.

- `Pacing`: `nextPush` is the time until `_next_push`, `wake` what is left of the
  sleep under way. A pause moves the first and not the second, so the loop wakes,
  looks again and sleeps on (`SleepOn`). A turn is up to three steps (`AskStore`,
  `PostPush`, `Counted`), because it awaits the database twice; replies may pause
  it in between, and its end overwrites the pause (`late`).
- `Adverts`: two timers, the intervals as the loop read them once, and the
  settings a reload may change, which it never reads again.
- `Stamps`: the wall clock goes on or back, a new process has a new `UniqueClock`,
  and a console reply moves off its request's stamp behind the clock's back.
- `PacketSize`: a packet is its length, computed as the encoders lay it out.
- `PostText`: a text is a sequence of bytes of three kinds, a space, the first byte of
  another character and one that continues it; a piece is where it lies in the text.
- `Framing`: the stream is fixed, with junk before and between its frames;
  `delivered` says which of its frames came out.

## Runs

| Run | Instance | Shows |
|---|---|---|
| `crash` | 2 clients, 2 posts, room keeps 1, restarts anywhere | `NothingOwedSkipped`, `NothingOwedDeleted`, `MemoryWithinStore`, `AckedIsStored`, `ReplayGuardRises` |
| `retention` | welcome, path returns with a bundled ack, flood logins; retention shorter than a clock tick, clock set back | `MemoryWithinStore`, `SessionsMatchRows`, `NothingOwedDeleted`, `PostTsIncreases` |
| `roles` | a member between admin and guest, another between guest and none; reloads anywhere, console, retries; no restart | `RolesFollowList`, `StoredOnce` |
| `live` | welcome and two posts, fair | `TypeOK`, `OwedPostsArrive` |
| `link` | queues of 1, 2 packets, fair | `TypeOK`, `NothingLost`, `OutboxSpec`, `SilenceNoticed`, `StopEnds`, `QueueDrains` |
| `application` | 2 rooms, 2 data directories, an absolute and a relative `key_file`, 3 keys and the node's, 2 variables of which 1 is inherited; 2 edits and a kill anywhere; fair | `InheritedKept`, `NothingLeftBehind`, `RoomsRunNewest`, `KillsLoseNothing`, `IdentityKept`, `RowsFollowAPlan`, `Ends`, `ServesAgain` |
| `air` | the machines of `MCAir`; all paths of 0 to 64 bytes, texts of 0 to 160; welcomes of up to 9 bytes; 2 rooms colliding on a hash, 4 packets, table of 2 | `PushesSpaced`, `ReplyUncrowded`, `LocalsApart`, `AdvertsRecur`, `StampsFresh`, `FitsNode`, `TextKept`, `FramesKept`; `TypeOK`, `TableIsWindow`, `HandledOnce`, `RightRoomClaims` of the dispatcher |

Five runs are expected to find a violation; see *Findings*.

Bounds, and why they are enough. `MaxNow` (clock), `MaxLog` (posts), `MaxGiven`,
`MaxPipe`, `MaxMarks` cap counters in guards; `CountCap` saturates statistics.
Two clients suffice because rooms treat clients alike except for authorship and
the round robin, and every race found in the code is between one client's
handlers, or between one client and retention. Two posts give a push with one
behind it, a retention of 1 deletes one of them, and an old push's answer can meet
the new one. A table of 2 with 4 packets evicts; 4 seconds let an entry expire
and a refreshed one live on. Queues of 1 are full at once. In `retention` a
second exceeds both retention periods, so each may strike at every tick. The
logical clock is coarse, but only comparisons of time stamps matter, and `Tick`
may jump. In `application` an operator edits either the two files or key files in one
behaviour (`MayEdit`): two edits make a file torn, swapped or restored under a row, leave a
data directory and return to it, or add a line and remove it again, and one kill with restarts leaves each partial state to
the next start; the proofs have no such bounds. In `air` the ticks keep the order
of the code's intervals, not their ratio; a welcome of 9 bytes and a budget of 4
cut a text twice, at a space, inside a word and next to a wide character; streams hold three frames with up
to three junk bytes, enough for a stray marker to swallow a header, a body or two.

`CHECK_DEADLOCK FALSE` is set where the system really comes to rest: a link that
has ended, a dispatcher whose mesh has gone quiet, and in `air` a text that is cut
and a stream that has run out.

Fairness. `RoomServer!Fairness`: the event loop runs what is ready and the
database thread its queue (weak), because asyncio and the executor do; a push in
air arrives (weak), and an acknowledgement that is awaited again and again is heard
once (strong): the mesh is lossy, not severed. A client that does *not* answer is
covered by `LeftAlone`: `max_push_failures` is the code's own way out. For the
link: tasks and timeouts run (weak); `Write`, `Drained` and `Expire` are strong,
because sessions come and go, and one of them must last long enough to send a
frame. `SilenceNoticed` and `StopEnds` need none of the strong ones. The cancellation
with which `app.py` follows `stop` may come at any time and is not owed: `StopEnds` is what
`stop` achieves alone. For the application: the start, the shutdown
and transactions go on (weak), and so does the service manager's restart; signals, failures,
edits and kills are never owed. For the advert loop: its task runs and time passes (weak).

## Theorems

All hold for every value of the constants under the ASSUMEs of the modules, which
TLC evaluates in the runs.

- `TypeCorrect` (`RoomServerProofs`): `Spec => []TypeOK`, by one step per action.
- `PostTsAlwaysIncreases`: `Spec => PostTsIncreases`. `next_post_ts` looks at the
  posts *left*, the property at all posts ever. The strengthening is `NewestKept`: the
  newest post ever stored is still stored. It is inductive because the new post is
  never older than the clock its cutoff is computed from, and at least one post is
  kept (lemmas `NextPostTsIsNew`, `NewestNotPruned`). Weakening `maxPosts >= 1`
  breaks it, and the configuration's validation provides that.
- `OwedIsNeverSkipped`, `OwedIsNeverDeleted` (`RoomSyncProofs`): for
  `Forgetful = {}`, `Spec => []NothingOwedSkipped` and `Spec => NothingOwedDeleted`.
  The assumption is needed: a client that loses its history and asks for it again is
  owed posts that an answer to an older push may then pass (see Findings). The
  strengthening (`SyncInv`) speaks of every *position* there is: a cursor in a row or a
  session, the claim of a waiting login or keep-alive, the time stamp a waiting
  acknowledgement writes, the cursor of a forgotten session that a push still reads,
  and the time stamp of every post a client holds and may name. Each is `Safe`: what
  its client is owed is later. A post that was selected or is in air is a `Frontier`:
  nothing its client is owed is before it, so that receiving it makes its position
  safe. Positions stay safe because a new post is later than every post ever
  stored (`NewPost`), to which every position is bound. There is one lemma per part
  of the invariant saying what a step must leave alone (`Kept`), and one per group
  of actions.
- `SessionsAlwaysMatchRows`, `MemoryAlwaysWithinStore`, `ReplayGuardAlwaysRises`
  (`RoomMemoryProofs`). At rest memory agrees with the tables, but proving it needs what
  is true while it does not. `QueueInv` says that the database queue holds at
  most one job of the handler and one of the push loop, and which of them is still to be
  resumed. `MemoryInv` says for each kind of handler
  which side is ahead before its transaction and after it: a keep-alive or an
  acknowledgement has moved the session's cursor and will move the row's, a login has
  written the row its session will be made to match, a post has deleted the rows of
  the clients it will forget. A login that waits stays newer than the session it
  replaces (`LoginGuard`), because the dispatcher hands over one packet at a time. The guard of
  a row, from which a start takes a session's, rises too, across restarts, while the client
  is not forgotten (`RowGuardStep`).
- `RolesAlwaysFollowList` (`RoomPostingProofs`): `Spec => RolesFollowList`. A reload and a start
  give every session what the list then in force says (`OperatorListed`), a login starts to
  wait with what it says (`LoginAsListed`), and no step but these and the login's resumption
  writes a role (`RolesFrame`).
- `PostsStoredOnce`: `Spec => []StoredOnce` for `MayRestart = FALSE` and no
  `client_retention`. Every stored message is covered by the replay guard of
  a session (`OnceInv`). Both hypotheses are needed: a restart takes the guard
  back to the row's, which is written at login only, and a client that was forgotten starts with a new one.
- `AcknowledgedPostsStored`: `Spec => []AckedIsStored` for `MayReload = FALSE`. A guard
  that equals the time stamp of a post means that the post is stored or being
  stored, also through a restart that resets the guard. A reload is a real exception: the
  run `swallowed` shows it (finding 2). `StampsUnique` is asked of the clients: a
  post and a login of one client do not carry the same time stamp, which is how
  the guard tells them apart.
- `LinkTypes` (`LinkProofs`): `Spec => []TypeOK`, with the bounds of all queues.
- `LinkIsAnOutbox`: `Spec => OutboxSpec`. Invariant: types, `late` and `handed`
  name given packets only, and while a write drains, the queue's head has been
  handed over. Every action maps to an action of `Outbox` or a stutter.
- `LinkLosesNothing`: from `OutboxLosesNothing` (the queue of `Outbox` is
  strictly increasing, and everything given is waiting, handed over or late)
  through the refinement.
- `SurvivesAllElse`: `Spec => []SupervisorSurvives` for `MayTimeOut = FALSE`. The
  handshake's timeout (finding 3) is the one way the supervisor dies.
- `DispatcherTypes`, `TableAlwaysWindow`, `PacketsHandledOnce`, `RoomsClaimRight`
  (`DispatcherProofs`). The table is compared with the whole history of marks.
  `Window` is the inductive form of `TableIsWindow`: entries are last marks, in the order
  of the history, and a packet that is not in the table was last marked before all
  entries, and is stale or outnumbered. One lemma each says that expiring,
  refreshing and evicting keep it (`ExpiredWindow`, `RefreshedWindow`,
  `EvictedWindow`), and `SeenInWindow` that a lookup then answers as the
  history does: an entry with a full table of others after it cannot be in a table of that size
  (`HeldNotMany`, by counting). `MeshInv` bounds how long copies of a packet are around after its
  last mark, its time in the link's queue included, by `SendTtl + EchoMax`; with
  `TimingAssumption` a packet that can be heard is one the table knows. `RouteInv`: the rooms
  a packet has yet to be offered to include all that claim it, and one whose turn is over has been claimed.
- `InheritedIsKept`, `NothingIsLeftBehind`, `RoomsAlwaysRunNewest`
  (`ApplicationProofs`, about `Reload`). The strengthening says that owned names are never inherited
  and that, until a reload is refused, the environment is the inherited one
  overlaid by the file loaded last and `owned` exactly what that file added.
- `ApplicationProofs` also proves every safety property of the run `application`.
  `StepKinds` says once what any action may do to a start in progress; four
  invariants follow. `RowInv` (`IdentityIsKept`): a row is the key its room was
  hosted with, in every data directory, and a room about to be hosted has its key in its row;
  the check in `ensure_room` is what keeps it. `PlanInv` (`RowsOnlyFollowAPlan`): the rooms the
  planning loop has left have distinct keys. `KeyInv` and `SchemaInv` (`KillsNeverLose`): every
  planned or hosted key is in a file, and only an empty file is written; rows are in databases whose
  schema is all there. `ReloadKinds` and `SettingsKept`
  reduce an action to a step of `Reload`, a start or an end, so that the invariant of
  `Reload` holds for the life of the process (`InheritedIsKeptForLife`,
  `NothingIsLeftBehindForLife`, `RoomsRunNewestForLife`).
- `PacingSpaced` (`AirProofs`): while the loop sleeps, the time since the last push
  and the time to the next make up an interval. It needs that the pause is no
  shorter than the interval (`TimingsAssumption`, true of `Timings`).
- `PacingUncrowded`: unless a pause began during a turn, the loop sleeps past every
  reply that paused it; needs that every reply's delay is shorter than the pause.
- `StampsAreFresh`: the clock knows every stamp but a moved one and those of an
  earlier process (`KnownInv`).
- `PacketsFit`: from `BudgetFits` (plaintext within `MaxPlaintextLen(path)` fits a
  packet over that path) and `PathReplyFits`, for every path up to 64 bytes and
  texts and access lists of every length.
- `LocalsAreApart`: what is left to the next local advert and the time since the last
  advert of either kind make up a local interval (`AdvertInv`).
- `FramesAreKept`: a frame that no stray marker could swallow is delivered, or the reader
  has not passed it: it looks for a marker before it, or reads what began no later (`FramingInv`).
  `StreamsAssumption` says what a stream is: frames that are whole, disjoint and of a length
  the node can send, with any junk between them.

- `TextIsKept`: what is left of a text starts between two characters (`TextInv`). Of any four
  bytes one starts a character (`TruncatedAt`), so truncation always takes something and the
  loop of `utf8_split` never raises; stripping stops at a character because a byte that continues
  one does not follow a space (`StrippedAt`).

Only model-checked: everything about fairness (`OwedPostsArrive`, `SilenceNoticed`,
`StopEnds`, `QueueDrains`, `Ends`, `ServesAgain`, `AdvertsRecur`), which is outside
the prover's reach. Every other property of a passing run is stated by a theorem.

## Findings

Places where the code does not do what its documentation says; each has a run.

1. `owedForgotten` - `prune_clients` forgets by idleness alone, while
   `client_retention` promises "A client still owed a post is never forgotten".
2. `swallowed` - a message refused for its sender's role still moves the replay
   guard; retried after a promotion it counts as a retry, and is acknowledged but
   never stored.
3. `lateHandshake` - `asyncio.timeout` raises `TimeoutError`, which `run`
   does not catch: an unanswered handshake ends the process where the comment
   says it triggers a reconnect.
4. `staleRole` - a login resolves the sender's role, waits for its transaction and installs
   the role over what a reload gave the session in between, while `apply_settings` says
   demoting a member "takes effect on the next packet".
5. `notRevoked` - a reload refused for its configuration has already set
   variables that later reloads take for inherited and never clear.

Seen while modelling, and true of the code, without a run of its own: the properties
except it, and where a document says otherwise it is quoted. Across a restart a message
may be stored twice: the replay guard in memory is ahead of the row's, which is written at
login only (so `StoredOnce` is checked without restarts, and what `ReplayGuardRises` says
over a restart is said of the row). A session's
activity counts for pushes, the row's (written at login) for forgetting. An
acknowledgement assigns the session's cursor where the row's only advances, and so
after a login that named an earlier position the answer to an older push can pass
posts a client has lost and asked for again (which is why
`NothingOwedSkipped` is checked with `Forgetful = {}`). A push that is under way
when its session is forgotten goes out and nothing remembers it. From another data directory
a room begins anew, under a new key if its key file is relative. `stop` does not end a link
whose transport is still being opened. A kill between the creation of a key file and its write,
or within the first migration, leaves what every later start refuses. And, of the
machines on the air:

- a pause that begins while the push loop is in a turn is overwritten when the turn
  ends, also by a turn that had nothing to push (`room/server.py:1022`), so the
  push may go out before the reply it was to leave room for (`server.py:604-606`:
  "Hold off pushing so the author's own ACK is not competing"); `ReplyUncrowded`
  excepts it;
- a console reply moved off its request's stamp takes one the clock will give to the
  next packet (`server.py:892-896`), and a new process knows no stamps of the last
  (`mesh/clock.py:20-24`); `StampsFresh` names both exceptions;
- advert intervals are read once, at the start of the loop, though `_adopt` says it
  names everything it cannot change; and when floods are at least as frequent as
  local adverts, no local advert is ever sent (`LocalsApart`);
- a full access list of 13 entries that returns a path of 64 bytes makes 182 bytes,
  where the node takes 174, though `max_plaintext_len` gives "a length that is safe
  to send to any client by any route" (`proto/packet.py:97-98`): refused and logged;
- a stray marker up to two bytes before a frame swallows its header, and one with a
  plausible length the frames under it (`FramesKept` bounds the loss);
- a reload whose log file cannot be opened ends the process (`app.py:523`), where
  other errors of a reload are refused and the rooms go on.

## Not modelled

The bytes of packets, keys and signatures (`proto/packet.py`, `crypto.py`,
`ed25519_expanded.py`): pure, deterministic and covered by test vectors; a model
would repeat the code. Parsing and validation of the configuration: likewise, and
its result, a configuration that is valid or not, is an input of `Reload`. The
drivers of serial, TCP and BLE, Alembic, SQLite's pragmas, log formatting and file
names: I/O of libraries. The radio statistics and the diagnostics' queries: they
only fill replies. The one-shot commands of `cli.py`: each runs one of the parts above, alone.

## Plan

Done, in this order, the promise to the clients first: `RoomStore`, `RoomServer`
with its runs; its theorems on types, time stamps, cursors, retention and roles;
`Outbox`, `CompanionLink` and the refinement; `Reload`; `SeenTable`, `Dispatcher`;
`Application`; `Pacing`, `Adverts`, `Stamps`, `PacketSize`, `PostText`, `Framing`;
the theorems on `Application` and on what goes on the air; those on the room's memory
and single storage, on the link's types, on the dispatcher, on framing and on cutting text.

Next to model: an abstract `MessageBoard` (posts delivered to readers in order, at
least once) that `RoomServer` implements.
