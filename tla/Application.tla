---------------------------- MODULE Application ----------------------------
(***************************************************************************)
(* The life of the process (cli.py, command_run; app.py, Application.run   *)
(* and _serve): it loads its configuration, resolves every room's identity *)
(* (proto/identity.py), brings the schema up to date (store/migrate.py),   *)
(* claims a row for every room (store/repo.py, ensure_room), runs its      *)
(* tasks in one TaskGroup, reloads, and takes itself down in order; it may *)
(* be killed at any step, and the service manager starts it again          *)
(* (packaging/meshelle.service), while an operator edits what it reads.    *)
(*                                                                         *)
(* A key is a number; an inline private_key is a key file that exists.  A  *)
(* data directory has a database of its own, and the key files named by    *)
(* relative paths are in it (room_key_path, database_path).                *)
(* The dispatcher, which runs the rooms' handlers, and their push and      *)
(* advert loops are one task, "rooms".  What becomes of a transaction is   *)
(* in RoomServer: here one is under way or not.  The operator edits while  *)
(* the process is down or serves.                                          *)
(***************************************************************************)
EXTENDS Reload

CONSTANTS DataDirs, Files,                \* data directories and key files on disk
          KeyNames, Anchored,             \* key_file as configured, and its file from a directory
          MaxKeys, MaxEdits, MaxCrashes   \* bounds

Keys    == 1..MaxKeys
NodeKey == MaxKeys        \* the companion node's own
NoKey   == 0              \* no file, no row, not resolved
Torn    == MaxKeys + 1    \* a file that was created and not written
Tasks   == {"link", "identity", "reload", "rooms"}

ASSUME AnchoredAssumption == Anchored \in [DataDirs -> [KeyNames -> Files]]
ASSUME BoundsAssumption == MaxKeys \in Nat \ {0} /\ MaxEdits \in Nat /\ MaxCrashes \in Nat

VARIABLES
  keyFile, keyOf,           \* key files; the name the configuration gives each room's
  dataDir,                  \* node.data_dir in the configuration
  schema, rows,             \* of each database: its schema, the key each room has in it
  phase, exit,              \* where run() is; how the last process ended
  todo, busy, plan,         \* rooms a loop has left, the one it waits for, their keys
  tasks, stop, failure,     \* the TaskGroup, _stop, whether a task failed
  job,                      \* "rooms" waits for the store
  known,                    \* from each directory, the key a room was hosted with (history)
  handled, edits, crashes   \* an operator wrote a key file; how often each
                            \* thing happened (history)

disk    == <<keyFile, keyOf, dataDir, schema, rows>>
starting == <<todo, busy, plan>>
group   == <<tasks, stop, failure, job>>
seen    == <<known, handled, edits, crashes>>
memory  == <<environ, owned, current, hosted, running, requested, failed, history>>
allVars == <<files, memory, disk, phase, exit, starting, group, seen>>

---------------------------------------------------------------------------
(* How a process ends                                                      *)

Nothing == [rooms |-> {}, settings |-> [version |-> CHOOSE v \in Versions : TRUE,
                                        environ |-> Inherited]]

(* Its memory is gone.                                                     *)
Gone ==
  /\ phase' = "down" /\ todo' = {} /\ busy' = {} /\ plan' = [r \in Rooms |-> NoKey]
  /\ tasks' = {} /\ stop' = FALSE /\ failure' = FALSE /\ job' = FALSE
  /\ environ' = Inherited /\ owned' = {} /\ loaded' = [n \in Names |-> Unset]
  /\ current' = Nothing /\ hosted' = {}
  /\ running' = [r \in Rooms |-> Nothing.settings] /\ newest' = running'
  /\ requested' = FALSE /\ failed' = FALSE /\ refused' = FALSE

(* An error that leaves command_run is status 1.                           *)
Refused == Gone /\ exit' = "failed"

(* The process is killed, between any two steps; what it wrote stays       *)
(* written.  What a machine that stops may lose of it (commits that are    *)
(* not synced, store/db.py; a key that is not, save_identity) is left out. *)
Crash ==
  /\ phase # "down" /\ crashes < MaxCrashes
  /\ crashes' = crashes + 1 /\ Gone /\ exit' = "killed"
  /\ UNCHANGED <<files, disk, known, handled, edits>>

---------------------------------------------------------------------------
(* Start                                                                   *)

(* command_run, _load                                                      *)
Load ==
  /\ phase = "down"
  /\ UNCHANGED <<files, disk, seen>>
  /\ IF envFile = Unreadable \/ ~config.valid \/ ~config.logOpens
     THEN Refused
     ELSE LET names == Applied(Inherited, envFile)
              env   == Overlaid(Inherited, envFile, names)
          IN  /\ environ' = env /\ owned' = names /\ loaded' = envFile
              /\ current' = View(config, env)
              /\ running' = [r \in Rooms |-> current'.settings] /\ newest' = running'
              /\ phase' = "plan" /\ exit' = "none" /\ todo' = config.rooms
              /\ UNCHANGED <<hosted, requested, failed, refused, busy, plan, group>>

(* plan_rooms: two rooms that resolve to one key are refused, before       *)
(* anything is recorded of either.                                         *)
Done == current.rooms \ todo

Bug_SameKeyPasses(k) == FALSE
KeyTaken(k) == \E r \in Done : plan[r] = k

Planned(r, k) ==
  IF KeyTaken(k) THEN Refused
  ELSE /\ plan' = [plan EXCEPT ![r] = k] /\ busy' = {}
       /\ IF todo = {r}
          THEN phase' = "migrate" /\ todo' = current.rooms
          ELSE phase' = "plan" /\ todo' = todo \ {r}
       /\ UNCHANGED <<memory, exit, group>>

(* load_or_create_identity, load_identity: a file that was created and not *)
(* written is malformed, this time and every time.                         *)
FileOf(r) == Anchored[dataDir][keyOf[r]]
Claimed   == {FileOf(s) : s \in Done}

LoadKey(r) ==
  LET f == FileOf(r)
  IN  /\ phase = "plan" /\ busy = {} /\ r \in todo
      /\ \/ f \in Claimed /\ Refused
         \/ f \notin Claimed /\ keyFile[f] = Torn /\ Refused
         \/ f \notin Claimed /\ keyFile[f] \in Keys /\ Planned(r, keyFile[f])
      /\ UNCHANGED <<files, disk, seen>>

(* save_identity: the file is created, then written.                       *)
Fresh == {k \in Keys \ {NodeKey} :
            /\ \A f \in Files : keyFile[f] # k
            /\ \A d \in DataDirs, r \in Rooms : k \notin {rows[d][r], known[d][r], plan[r]}}

CreateKeyFile(r) ==
  /\ phase = "plan" /\ busy = {} /\ r \in todo /\ Fresh # {}
  /\ FileOf(r) \notin Claimed /\ keyFile[FileOf(r)] = NoKey
  /\ keyFile' = [keyFile EXCEPT ![FileOf(r)] = Torn] /\ busy' = {r}
  /\ UNCHANGED <<files, memory, keyOf, dataDir, schema, rows, phase, exit, todo, plan, group, seen>>

Bug_NeverWritten(r, k) == keyFile
Written(r, k) == [keyFile EXCEPT ![FileOf(r)] = k]

WriteKeyFile ==
  /\ phase = "plan" /\ Fresh # {}
  /\ \E r \in busy : LET k == CHOOSE key \in Fresh : TRUE
                     IN  keyFile' = Written(r, k) /\ Planned(r, k)
  /\ UNCHANGED <<files, keyOf, dataDir, schema, rows, seen>>

(* upgrade_to_head: SQLite runs each CREATE TABLE of the migration on its  *)
(* own, and its revision is recorded last.  A schema that is half there    *)
(* cannot be created again (MigrationError).                               *)
Migrate ==
  /\ phase = "migrate"
  /\ \/ /\ schema[dataDir] = "head" /\ phase' = "rooms"
        /\ UNCHANGED <<schema, exit, starting, group, memory>>
     \/ /\ schema[dataDir] = "none" /\ phase' = "migrating"
        /\ schema' = [schema EXCEPT ![dataDir] = "partial"]
        /\ UNCHANGED <<exit, starting, group, memory>>
     \/ schema[dataDir] = "partial" /\ Refused /\ UNCHANGED schema
  /\ UNCHANGED <<files, keyFile, keyOf, dataDir, rows, seen>>

EndMigration ==
  /\ phase = "migrating" /\ phase' = "rooms"
  /\ schema' = [schema EXCEPT ![dataDir] = "head"]
  /\ UNCHANGED <<files, memory, keyFile, keyOf, dataDir, rows, exit, starting, group, seen>>

(* ensure_room: a room keeps the key it was recorded with, and no two      *)
(* rooms are recorded with one (the column is unique).                     *)
Row(r) == rows[dataDir][r]

Bug_RowFollowsFile(r) == \A s \in Rooms \ {r} : Row(s) # plan[r]
MayClaim(r) ==
  \/ Row(r) = plan[r]
  \/ Row(r) = NoKey /\ \A s \in Rooms : Row(s) # plan[r]

ClaimRow(r) ==
  /\ phase = "rooms" /\ busy = {} /\ r \in todo
  /\ \/ /\ ~MayClaim(r) /\ Refused /\ UNCHANGED rows
     \/ /\ MayClaim(r) /\ busy' = {r} /\ rows' = [rows EXCEPT ![dataDir][r] = plan[r]]
        /\ UNCHANGED <<memory, phase, exit, todo, plan, group>>
  /\ UNCHANGED <<files, keyFile, keyOf, dataDir, schema, seen>>

(* start, add_room; when every room is there, the tasks are created.       *)
HostRoom ==
  /\ phase = "rooms"
  /\ \E r \in busy :
       /\ hosted' = hosted \cup {r} /\ known' = [known EXCEPT ![dataDir][r] = plan[r]]
       /\ busy' = {} /\ todo' = todo \ {r}
       /\ IF todo = {r} THEN phase' = "serve" /\ tasks' = Tasks ELSE UNCHANGED <<phase, tasks>>
  /\ UNCHANGED <<files, environ, owned, current, running, requested, failed, history, disk, exit,
                 plan, stop, failure, job, handled, edits, crashes>>

---------------------------------------------------------------------------
(* Service                                                                 *)

Serving == phase \in {"serve", "stopping"}

(* A task raises: the TaskGroup cancels the others.                        *)
Raises(t) ==
  /\ tasks' = tasks \ {t} /\ failure' = TRUE /\ phase' = "unwind"
  /\ UNCHANGED <<stop, job>>

TaskFails(t) ==
  /\ Serving /\ t \in tasks \cap {"link", "rooms"} /\ Raises(t)
  /\ t = "rooms" => ~job
  /\ UNCHANGED <<files, memory, disk, exit, starting, seen>>

(* _identify_node, when the node has answered.                             *)
IdentifyNode ==
  /\ Serving /\ {"identity", "link"} \subseteq tasks
  /\ IF \E r \in hosted : plan[r] = NodeKey THEN Raises("identity")
     ELSE tasks' = tasks \ {"identity"} /\ UNCHANGED <<phase, stop, failure, job>>
  /\ UNCHANGED <<files, memory, disk, exit, starting, seen>>

(* _reload_loop: what reload raises ends the task.                         *)
ReloadTask ==
  /\ Serving /\ "reload" \in tasks /\ Reload
  /\ IF failed' THEN Raises("reload") ELSE UNCHANGED <<phase, group>>
  /\ UNCHANGED <<disk, exit, starting, seen>>

(* A handler or a loop waits for a transaction.                            *)
Submit ==
  /\ Serving /\ "rooms" \in tasks /\ ~job /\ job' = TRUE
  /\ UNCHANGED <<files, memory, disk, phase, exit, starting, tasks, stop, failure, seen>>

Commit ==
  /\ job /\ job' = FALSE
  /\ UNCHANGED <<files, memory, disk, phase, exit, starting, tasks, stop, failure, seen>>

---------------------------------------------------------------------------
(* Signals and shutdown                                                    *)

(* _signal_handlers: in place while the TaskGroup and the scheduler are,   *)
(* and looked at while it serves; before and after, a signal kills.        *)
Handled == Serving \/ phase = "unwind"

SigHup ==
  /\ phase # "down"
  /\ \/ Serving /\ Hangup /\ UNCHANGED <<phase, exit, starting, group>>
     \/ ~Handled /\ Gone /\ exit' = "signal" /\ UNCHANGED files
  /\ UNCHANGED <<disk, seen>>

(* request_stop: the body of the group, which waits for it, calls          *)
(* link.stop; then it cancels every task.                                  *)
SigTerm ==
  /\ phase # "down"
  /\ \/ phase = "serve" /\ stop' = TRUE /\ phase' = "stopping"
        /\ UNCHANGED <<memory, exit, starting, tasks, failure, job>>
     \/ ~Handled /\ Gone /\ exit' = "signal"
  /\ UNCHANGED <<files, disk, seen>>

Bug_LinkOnly == "stopping"
AfterLinkStop == "unwind"

CancelTasks ==
  /\ phase = "stopping" /\ phase' = AfterLinkStop
  /\ UNCHANGED <<files, memory, disk, exit, starting, group, seen>>

(* A cancelled task ends; a transaction it waited for runs all the same if *)
(* it was begun.                                                           *)
Unwind(t) ==
  /\ phase = "unwind" /\ t \in tasks /\ tasks' = tasks \ {t}
  /\ job' \in IF t = "rooms" THEN {job, FALSE} ELSE {job}
  /\ UNCHANGED <<files, memory, disk, phase, exit, starting, stop, failure, seen>>

(* When the group is done, Scheduler.aclose, the packets and, without the  *)
(* signal handlers, Store.aclose: it takes no more work and waits for what *)
(* it has.                                                                 *)
Close ==
  /\ phase = "unwind" /\ tasks = {} /\ phase' = "draining"
  /\ UNCHANGED <<files, memory, disk, exit, starting, group, seen>>

Bug_AlwaysZero == "stopped"
Status == IF failure THEN "failed" ELSE "stopped"

End ==
  /\ phase = "draining" /\ ~job /\ Gone /\ exit' = Status
  /\ UNCHANGED <<files, disk, seen>>

---------------------------------------------------------------------------
(* The operator                                                            *)

(* In one behaviour the operator edits the two files, or key files, which  *)
(* file is whose and the data directory: each at most MaxEdits times.  The *)
(* latter are not read while the process serves (_adopt only warns of      *)
(* them).  The databases are left alone.                                   *)
MayEdit(mine, other) ==
  edits[mine] < MaxEdits /\ edits[other] = 0 /\ edits' = [edits EXCEPT ![mine] = @ + 1]

EditFiles ==
  /\ phase = "down" \/ Serving
  /\ MayEdit("files", "keys")
  /\ \/ \E file \in (Environments \cup {Unreadable}) \ {envFile} : EditEnvFile(file)
     \/ \E cfg \in Configurations \ {config} : EditConfig(cfg)
  /\ UNCHANGED <<disk, phase, exit, starting, group, known, handled, crashes>>

(* key_file and node.data_dir in the configuration.                        *)
ConfigureKey ==
  /\ phase = "down" /\ MayEdit("keys", "files")
  /\ \E r \in Rooms, name \in KeyNames :
       name # keyOf[r] /\ keyOf' = [keyOf EXCEPT ![r] = name]
  /\ UNCHANGED <<files, memory, keyFile, dataDir, schema, rows, phase, exit, starting, group,
                 known, handled, crashes>>

MoveDataDir ==
  /\ phase = "down" /\ MayEdit("keys", "files")
  /\ dataDir' \in DataDirs \ {dataDir}
  /\ UNCHANGED <<files, memory, keyFile, keyOf, schema, rows, phase, exit, starting, group,
                 known, handled, crashes>>

(* A key file is deleted, restored from a copy, or given the node's key.   *)
Copies == {keyFile[f] : f \in Files} \cup {rows[d][r] : d \in DataDirs, r \in Rooms}
            \cup {NodeKey, NoKey}

PutKeyFile ==
  /\ phase = "down" /\ MayEdit("keys", "files") /\ handled' = TRUE
  /\ \E f \in Files, k \in Copies \ {Torn} :
       k # keyFile[f] /\ keyFile' = [keyFile EXCEPT ![f] = k]
  /\ UNCHANGED <<files, memory, keyOf, dataDir, schema, rows, phase, exit, starting, group,
                 known, crashes>>

---------------------------------------------------------------------------
AppInit ==
  /\ envFile \in Environments
  /\ config \in {cfg \in Configurations : cfg.valid /\ cfg.logOpens}
  /\ keyFile = [f \in Files |-> NoKey] /\ keyOf \in [Rooms -> KeyNames] /\ dataDir \in DataDirs
  /\ schema = [d \in DataDirs |-> "none"]
  /\ rows = [d \in DataDirs |-> [r \in Rooms |-> NoKey]] /\ known = rows
  /\ phase = "down" /\ exit = "stopped"
  /\ todo = {} /\ busy = {} /\ plan = [r \in Rooms |-> NoKey]
  /\ tasks = {} /\ stop = FALSE /\ failure = FALSE /\ job = FALSE
  /\ environ = Inherited /\ owned = {} /\ loaded = [n \in Names |-> Unset]
  /\ current = Nothing /\ hosted = {}
  /\ running = [r \in Rooms |-> Nothing.settings] /\ newest = running
  /\ requested = FALSE /\ failed = FALSE /\ refused = FALSE
  /\ handled = FALSE /\ crashes = 0
  /\ edits = [what \in {"files", "keys"} |-> 0]

StartUp ==
  \/ \E r \in Rooms : LoadKey(r) \/ CreateKeyFile(r) \/ ClaimRow(r)
  \/ WriteKeyFile \/ Migrate \/ EndMigration \/ HostRoom

Service ==
  \/ IdentifyNode \/ ReloadTask \/ Submit \/ Commit
  \/ \E t \in Tasks : TaskFails(t)

ShutDown ==
  \/ CancelTasks \/ Close \/ End
  \/ \E t \in Tasks : Unwind(t)

AppNext ==
  \/ Load \/ StartUp \/ Service \/ ShutDown
  \/ SigHup \/ SigTerm \/ Crash
  \/ EditFiles \/ ConfigureKey \/ MoveDataDir \/ PutKeyFile

AppSpec == AppInit /\ [][AppNext]_allVars

(* Restart=on-failure: after a failure, or having been killed, it is       *)
(* started again; after a signal (SIGHUP included) or a stop it is not.    *)
Restarted == exit \in {"failed", "killed"} /\ Load

(* The event loop and the database thread run what they have; the service  *)
(* manager restarts.                                                       *)
AppFairness ==
  /\ WF_allVars(StartUp) /\ WF_allVars(ShutDown) /\ WF_allVars(Restarted) /\ WF_allVars(Commit)

---------------------------------------------------------------------------
(* Properties                                                              *)

(* Safety: from one data directory a room is never hosted with another key *)
(* than it once was ("Clients have the old key in their contacts and       *)
(* cannot reach the new one", ensure_room), whatever is done to key files, *)
(* key_file and node.data_dir between two starts, wherever a start is cut  *)
(* off, and whatever was hosted from other directories in the meantime.    *)
(* Another directory is another database: there the room begins anew.      *)
IdentityKept ==
  [][\A d \in DataDirs, r \in Rooms :
       known[d][r] # NoKey => known'[d][r] = known[d][r]]_allVars

(* Safety: a start that is cut off costs no room the identity its clients  *)
(* learned, and no database its contents.  The key of a room that was      *)
(* hosted is in a key file, for a later start to find, unless an operator  *)
(* touched those files: it is saved before any client can learn it, and a  *)
(* file left without a key never had one.  A schema left half made is that *)
(* of a database without rooms.                                            *)
KillsLoseNothing ==
  \A d \in DataDirs, r \in Rooms :
    /\ known[d][r] # NoKey /\ ~handled => \E f \in Files : keyFile[f] = known[d][r]
    /\ schema[d] = "partial" => rows[d][r] = NoKey

(* Safety: a row is written only for a set of rooms of which every one has *)
(* a key and no two the same: a configuration that is refused for its keys *)
(* leaves nothing in the database that would have the next, corrected one  *)
(* refused.                                                                *)
RowsFollowAPlan ==
  [][rows' # rows =>
       \A r, s \in current.rooms : plan[r] # NoKey /\ (r # s => plan[r] # plan[s])]_allVars

(* Liveness: a process that is asked to stop, or has a task that failed,   *)
(* ends.                                                                   *)
Ends == (stop \/ failure) ~> phase = "down"

(* What a start cannot get past without an operator: files it cannot use,  *)
(* what an earlier start was killed in the middle of, and keys at odds     *)
(* with one another or with the rows (or none left, within the bounds).    *)
Misconfigured == envFile = Unreadable \/ ~config.valid \/ ~config.logOpens

HalfDone == schema[dataDir] = "partial" \/ \E r \in config.rooms : keyFile[FileOf(r)] = Torn

AtOdds ==
  \E r \in config.rooms :
    LET key == keyFile[FileOf(r)]
    IN  \/ Row(r) \notin {NoKey, key}
        \/ key = NoKey /\ Fresh = {}
        \/ key # NoKey /\ \E s \in Rooms \ {r} : Row(s) = key
        \/ \E s \in config.rooms \ {r} :
              FileOf(s) = FileOf(r) \/ (key # NoKey /\ keyFile[FileOf(s)] = key)

Blocked == Misconfigured \/ HalfDone \/ AtOdds

(* Liveness: a process that has a task fail, that cannot start or that is  *)
(* killed, at whatever step, serves its rooms again, unless the files or   *)
(* the database need an operator, or a signal comes while it does not      *)
(* handle signals.                                                         *)
ServesAgain ==
  (failure \/ (phase = "down" /\ exit \in {"failed", "killed"})) ~>
    (phase = "serve" \/ Blocked \/ exit = "signal")
=============================================================================
