------------------------- MODULE ApplicationProofs -------------------------
(***************************************************************************)
(* Theorems about Application, for every set of rooms, key files,          *)
(* variables and configurations, wherever the process is killed and        *)
(* whatever the operator does between two starts.                          *)
(***************************************************************************)
EXTENDS Application, TLAPS

---------------------------------------------------------------------------
(* Reload alone: what a start and any number of reloads leave in the       *)
(* environment and in the rooms                                            *)

(* What the process was started with is in the environment and is not      *)
(* taken for the env file's; what is taken for the env file's has, unless  *)
(* a reload was refused, the value it has there, and nothing else has one. *)
EnvironmentInv ==
  /\ environ \in Environments /\ owned \subseteq Names /\ refused \in BOOLEAN
  /\ loaded \in Environments /\ envFile \in Environments \cup {Unreadable}
  /\ \A n \in Names : Inherited[n] # Unset => environ[n] = Inherited[n] /\ n \notin owned
  /\ ~refused => \A n \in Names :
       /\ Inherited[n] = Unset => environ[n] = loaded[n]
       /\ n \in owned <=> Inherited[n] = Unset /\ loaded[n] # Unset

---------------------------------------------------------------------------
(* What one load does to one variable.                                     *)
LEMMA OneVariable ==
  ASSUME NEW env \in Environments, NEW file \in Environments, NEW mine \in SUBSET Names,
         NEW n \in Names
  PROVE  LET rest  == Cleared(env, mine)
             names == Applied(rest, file)
         IN  /\ rest[n] = (IF n \in mine THEN Unset ELSE env[n])
             /\ n \in names <=> file[n] # Unset /\ rest[n] = Unset
             /\ Overlaid(rest, file, names)[n] = (IF n \in names THEN file[n] ELSE rest[n])
BY DEF Cleared, Applied, Overlaid

LEMMA LoadTypes ==
  ASSUME NEW env \in Environments, NEW file \in Environments, NEW mine \in SUBSET Names
  PROVE  LET rest  == Cleared(env, mine)
             names == Applied(rest, file)
         IN  names \in SUBSET Names /\ Overlaid(rest, file, names) \in Environments
BY DEF Cleared, Applied, Overlaid, Environments

LEMMA EnvironmentStep == EnvironmentInv /\ [Next]_vars => EnvironmentInv'
<1> SUFFICES ASSUME EnvironmentInv, [Next]_vars PROVE EnvironmentInv'
  OBVIOUS
<1> DEFINE rest == Cleared(environ, owned)
           names == Applied(rest, envFile)
           env == Overlaid(rest, envFile, names)
<1>1. CASE Reload /\ envFile = Unreadable
  BY <1>1, UnsetAssumption DEF Reload, EnvironmentInv, files
<1>2. CASE Reload /\ envFile # Unreadable
  <2>1. envFile \in Environments
    BY <1>2 DEF EnvironmentInv
  <2>2. /\ environ' = env /\ loaded' = envFile /\ envFile' = envFile
        /\ \/ refused' = TRUE /\ owned' = owned
           \/ refused' = refused /\ owned' = names
    BY <1>2 DEF Reload, files
  <2>3. names \in SUBSET Names /\ env \in Environments
    BY <2>1, LoadTypes DEF EnvironmentInv
  <2>4. \A n \in Names :
          /\ rest[n] = (IF n \in owned THEN Unset ELSE environ[n])
          /\ n \in names <=> envFile[n] # Unset /\ rest[n] = Unset
          /\ env[n] = (IF n \in names THEN envFile[n] ELSE rest[n])
    BY <2>1, OneVariable DEF EnvironmentInv
  <2>5. \A n \in Names : Inherited[n] # Unset =>
          env[n] = Inherited[n] /\ n \notin owned /\ n \notin names
    BY <2>4 DEF EnvironmentInv
  <2>6. ~refused => \A n \in Names :
          /\ Inherited[n] = Unset => env[n] = envFile[n]
          /\ n \in names <=> Inherited[n] = Unset /\ envFile[n] # Unset
    BY <2>4, <2>5 DEF EnvironmentInv
  <2> HIDE DEF rest, names, env
  <2> QED
    BY <2>1, <2>2, <2>3, <2>5, <2>6 DEF EnvironmentInv
<1>3. CASE Hangup
  BY <1>3 DEF Hangup, EnvironmentInv, files, history
<1>4. CASE \E file \in Environments \cup {Unreadable} : EditEnvFile(file)
  BY <1>4 DEF EditEnvFile, EnvironmentInv, history
<1>5. CASE \E cfg \in Configurations : EditConfig(cfg)
  BY <1>5 DEF EditConfig, EnvironmentInv, history
<1>6. CASE UNCHANGED vars
  BY <1>6 DEF vars, EnvironmentInv, files, history
<1> QED
  BY <1>1, <1>2, <1>3, <1>4, <1>5, <1>6 DEF Next

LEMMA EnvironmentInit == Init => EnvironmentInv
<1> SUFFICES ASSUME Init PROVE EnvironmentInv
  OBVIOUS
<1>1. /\ owned \subseteq Names /\ environ \in [Names -> Values \cup {Unset}]
      /\ \A n \in Names :
           /\ n \in owned <=> envFile[n] # Unset /\ Inherited[n] = Unset
           /\ environ[n] = (IF n \in owned THEN envFile[n] ELSE Inherited[n])
  BY InheritedAssumption DEF Init, Applied, Overlaid, Environments
<1> QED
  BY <1>1 DEF Init, EnvironmentInv, Environments

LEMMA EnvironmentHolds == Spec => []EnvironmentInv
BY EnvironmentInit, EnvironmentStep, PTL DEF Spec

(* A variable the process was started with keeps its value, whatever files *)
(* are loaded and refused.                                                 *)
THEOREM InheritedIsKept == Spec => []InheritedKept
<1>1. EnvironmentInv => InheritedKept
  BY DEF EnvironmentInv, InheritedKept
<1> QED
  BY <1>1, EnvironmentHolds, PTL

(* Until a reload is refused, nothing of an older env file is left behind. *)
THEOREM NothingIsLeftBehind == Spec => []NothingLeftBehind
<1>1. EnvironmentInv => NothingLeftBehind
  BY DEF EnvironmentInv, NothingLeftBehind
<1> QED
  BY <1>1, EnvironmentHolds, PTL

(* Every room runs with the last accepted settings that listed it.         *)
THEOREM RoomsAlwaysRunNewest == Spec => []RoomsRunNewest
<1> DEFINE RoomsInv == hosted \subseteq Rooms /\ RoomsRunNewest
<1>1. Init => RoomsInv
  <2>1. ASSUME NEW cfg \in Configurations, cfg.valid PROVE cfg.rooms \subseteq Rooms
    <3>1. cfg # Invalid
      BY <2>1 DEF Invalid
    <3>2. cfg.rooms \in (SUBSET Rooms) \ {{}}
      BY <3>1 DEF Configurations
    <3> QED
      BY <3>2
  <2> QED
    BY <2>1 DEF Init, RoomsRunNewest
<1>2. RoomsInv /\ [Next]_vars => RoomsInv'
  <2> SUFFICES ASSUME RoomsInv, [Next]_vars PROVE RoomsInv'
    OBVIOUS
  <2>1. CASE Reload
    BY <2>1 DEF RoomsRunNewest, Reload, Adopters, View
  <2>2. CASE ~Reload
    BY <2>2 DEF RoomsRunNewest, Next, vars, history, Hangup, EditEnvFile, EditConfig
  <2> QED
    BY <2>1, <2>2
<1> QED
  BY <1>1, <1>2, PTL DEF Spec

---------------------------------------------------------------------------
(* Application                                                             *)

Starting == {"plan", "migrate", "migrating", "rooms"}

---------------------------------------------------------------------------
(* What a step may do to a start                                           *)

(* The process ends and leaves the disk as it is.                          *)
Dies == Gone /\ UNCHANGED <<rows, schema, known, keyFile, keyOf, dataDir, handled, config>>

(* A step of something else.                                               *)
Elsewhere ==
  /\ UNCHANGED <<rows, schema, known, plan, busy, todo>>
  /\ \/ phase' = phase /\ (current' = current \/ phase \notin Starting)
     \/ phase \notin Starting /\ phase' \notin Starting \cup {"down"}
  /\ UNCHANGED <<keyFile, handled>> \/ handled' = TRUE
  /\ UNCHANGED <<keyOf, dataDir>> \/ phase = "down"
  /\ keyOf \in [Rooms -> KeyNames] => keyOf' \in [Rooms -> KeyNames]
  /\ dataDir \in DataDirs => dataDir' \in DataDirs
  /\ config' = config \/ config' \in Configurations

(* A start whose configuration is accepted.                                *)
Starts ==
  /\ phase = "down" /\ phase' = "plan" /\ busy' = busy
  /\ todo' = config.rooms /\ current'.rooms = config.rooms /\ config.valid
  /\ UNCHANGED <<rows, schema, known, plan, keyFile, keyOf, dataDir, handled, config>>

StepOnRoom(r) == LoadKey(r) \/ CreateKeyFile(r) \/ ClaimRow(r)

LEMMA LoadKinds == Load => Dies \/ Starts
<1> SUFFICES ASSUME Load PROVE Dies \/ Starts
  OBVIOUS
<1>1. CASE envFile = Unreadable \/ ~config.valid \/ ~config.logOpens
  BY <1>1 DEF Load, Refused, Dies, disk, files, seen
<1>2. CASE ~(envFile = Unreadable \/ ~config.valid \/ ~config.logOpens)
  <2>1. current'.rooms = config.rooms
    BY <1>2 DEF Load, View
  <2> QED
    BY <1>2, <2>1 DEF Load, Starts, disk, files, seen
<1> QED
  BY <1>1, <1>2

LEMMA ServiceKinds == Service => Elsewhere
<1> SUFFICES ASSUME Service PROVE Elsewhere
  OBVIOUS
<1> USE DEF Elsewhere, Starting, Serving, starting, disk, seen, group, files, memory
<1>1. CASE IdentifyNode
  BY <1>1 DEF IdentifyNode, Raises
<1>2. CASE ReloadTask
  BY <1>2 DEF ReloadTask, Raises, Reload
<1>3. CASE Submit
  BY <1>3 DEF Submit
<1>4. CASE Commit
  BY <1>4 DEF Commit
<1>5. CASE \E t \in Tasks : TaskFails(t)
  BY <1>5 DEF TaskFails, Raises
<1> QED
  BY <1>1, <1>2, <1>3, <1>4, <1>5 DEF Service

LEMMA ShutDownKinds == ShutDown => Elsewhere \/ Dies
<1> SUFFICES ASSUME ShutDown PROVE Elsewhere \/ Dies
  OBVIOUS
<1> USE DEF Elsewhere, Dies, Starting, starting, disk, seen, group, files, memory
<1>1. CASE CancelTasks
  BY <1>1 DEF CancelTasks, AfterLinkStop
<1>2. CASE Close
  BY <1>2 DEF Close
<1>3. CASE End
  BY <1>3 DEF End
<1>4. CASE \E t \in Tasks : Unwind(t)
  BY <1>4 DEF Unwind
<1> QED
  BY <1>1, <1>2, <1>3, <1>4 DEF ShutDown

LEMMA SignalKinds == SigHup \/ SigTerm \/ Crash => Elsewhere \/ Dies
<1> SUFFICES ASSUME SigHup \/ SigTerm \/ Crash PROVE Elsewhere \/ Dies
  OBVIOUS
<1> USE DEF Elsewhere, Dies, Starting, starting, disk, seen, group, files, memory
<1>1. CASE SigHup
  BY <1>1 DEF SigHup, Hangup, Serving
<1>2. CASE SigTerm
  BY <1>2 DEF SigTerm
<1>3. CASE Crash
  BY <1>3 DEF Crash
<1> QED
  BY <1>1, <1>2, <1>3

LEMMA OperatorKinds == EditFiles \/ ConfigureKey \/ MoveDataDir \/ PutKeyFile => Elsewhere
<1> SUFFICES ASSUME EditFiles \/ ConfigureKey \/ MoveDataDir \/ PutKeyFile PROVE Elsewhere
  OBVIOUS
<1> USE DEF Elsewhere, Starting, starting, disk, group, files, memory
<1>1. CASE EditFiles
  BY <1>1 DEF EditFiles, EditEnvFile, EditConfig
<1>2. CASE ConfigureKey
  BY <1>2 DEF ConfigureKey
<1>3. CASE MoveDataDir
  BY <1>3 DEF MoveDataDir
<1>4. CASE PutKeyFile
  BY <1>4 DEF PutKeyFile
<1> QED
  BY <1>1, <1>2, <1>3, <1>4

LEMMA StepKinds ==
  [AppNext]_allVars =>
    \/ Elsewhere \/ Dies \/ Starts
    \/ \E r \in Rooms : StepOnRoom(r)
    \/ WriteKeyFile \/ Migrate \/ EndMigration \/ HostRoom
<1>1. UNCHANGED allVars => Elsewhere
  BY DEF allVars, Elsewhere, disk, starting, seen, memory, files
<1> QED
  BY <1>1, LoadKinds, ServiceKinds, ShutDownKinds, SignalKinds, OperatorKinds
     DEF AppNext, StartUp, StepOnRoom

---------------------------------------------------------------------------
(* Rows and identities                                                     *)

(* The key that is written, which is one of Fresh.                         *)
LEMMA WritesFresh ==
  WriteKeyFile =>
    /\ UNCHANGED <<rows, schema, known, keyOf, dataDir, handled, config>> /\ phase = "plan"
    /\ \E r \in busy, k \in Fresh : keyFile' = Written(r, k) /\ Planned(r, k)
BY DEF WriteKeyFile, seen, files

(* In every directory, a row is the key its room was hosted with; a room   *)
(* that is about to be hosted has its key in its row.                      *)
RowInv ==
  /\ {known, rows} \subseteq [DataDirs -> [Rooms -> Keys \cup {NoKey}]]
  /\ plan \in [Rooms -> Keys \cup {NoKey}]
  /\ dataDir \in DataDirs
  /\ busy \subseteq Rooms
  /\ phase \in {"down", "migrate", "migrating"} => busy = {}
  /\ \A d \in DataDirs, r \in Rooms : known[d][r] # NoKey => rows[d][r] = known[d][r]
  /\ phase = "rooms" => \A r \in busy : rows[dataDir][r] = plan[r]

LEMMA RowInitial == AppInit => RowInv
BY DEF AppInit, RowInv, NoKey

LEMMA GoneRow == RowInv /\ Gone /\ UNCHANGED <<rows, known, dataDir>> => RowInv'
BY DEF RowInv, Gone, NoKey

LEMMA PlannedRow ==
  ASSUME RowInv, NEW r \in Rooms, NEW k \in Keys, Planned(r, k), UNCHANGED <<rows, known, dataDir>>
  PROVE  RowInv'
<1>1. CASE KeyTaken(k)
  BY <1>1, GoneRow DEF Planned, Refused
<1>2. CASE ~KeyTaken(k)
  <2>1. plan' = [plan EXCEPT ![r] = k] /\ busy' = {} /\ phase' \in {"migrate", "plan"}
    BY <1>2 DEF Planned
  <2>2. plan' \in [Rooms -> Keys \cup {NoKey}]
    BY <2>1 DEF RowInv
  <2> QED
    BY <2>1, <2>2 DEF RowInv
<1> QED
  BY <1>1, <1>2

LEMMA RowStep == RowInv /\ [AppNext]_allVars => RowInv'
<1> SUFFICES ASSUME RowInv, [AppNext]_allVars PROVE RowInv'
  OBVIOUS
<1>1. CASE Elsewhere
  BY <1>1 DEF Elsewhere, Starting, RowInv
<1>2. CASE Dies
  BY <1>2, GoneRow DEF Dies
<1>3. CASE Starts
  BY <1>3 DEF Starts, RowInv
<1>4. ASSUME NEW r \in Rooms, LoadKey(r) PROVE RowInv'
  <2>1. UNCHANGED <<rows, known, dataDir>>
    BY <1>4 DEF LoadKey, disk, seen
  <2>2. Refused \/ (keyFile[FileOf(r)] \in Keys /\ Planned(r, keyFile[FileOf(r)]))
    BY <1>4 DEF LoadKey
  <2>3. CASE Refused
    BY <2>1, <2>3, GoneRow DEF Refused
  <2>4. CASE keyFile[FileOf(r)] \in Keys /\ Planned(r, keyFile[FileOf(r)])
    BY <2>1, <2>4, PlannedRow
  <2> QED
    BY <2>2, <2>3, <2>4
<1>5. ASSUME NEW r \in Rooms, CreateKeyFile(r) PROVE RowInv'
  BY <1>5 DEF CreateKeyFile, seen, RowInv
<1>6. ASSUME NEW r \in Rooms, ClaimRow(r) PROVE RowInv'
  <2>1. UNCHANGED <<known, dataDir>> /\ phase = "rooms"
    BY <1>6 DEF ClaimRow, seen
  <2>2. CASE ~MayClaim(r)
    BY <1>6, <2>1, <2>2, GoneRow DEF ClaimRow, Refused
  <2>3. CASE MayClaim(r)
    <3>1. /\ busy' = {r} /\ rows' = [rows EXCEPT ![dataDir][r] = plan[r]]
          /\ plan' = plan /\ phase' = phase
      BY <1>6, <2>3 DEF ClaimRow
    <3>2. known[dataDir][r] # NoKey => plan[r] = rows[dataDir][r]
      BY <2>3 DEF MayClaim, Row, RowInv
    <3> QED
      BY <2>1, <3>1, <3>2 DEF RowInv
  <2> QED
    BY <2>2, <2>3
<1>7. CASE WriteKeyFile
  <2>1. UNCHANGED <<rows, known, dataDir>>
    BY <1>7, WritesFresh
  <2>2. PICK r \in busy, k \in Fresh : Planned(r, k)
    BY <1>7, WritesFresh
  <2>3. k \in Keys
    BY DEF Fresh
  <2> QED
    BY <2>1, <2>2, <2>3, PlannedRow DEF RowInv
<1>8. CASE Migrate \/ EndMigration
  <2>1. UNCHANGED <<rows, known, dataDir>>
    BY <1>8 DEF Migrate, EndMigration, seen
  <2>2. CASE Gone
    BY <2>1, <2>2, GoneRow
  <2>3. CASE ~Gone
    BY <1>8, <2>1, <2>3 DEF Migrate, EndMigration, Refused, starting, RowInv
  <2> QED
    BY <2>2, <2>3
<1>9. CASE HostRoom
  <2>1. PICK r \in busy : known' = [known EXCEPT ![dataDir][r] = plan[r]] /\ busy' = {}
                          /\ phase' \in {phase, "serve"}
    BY <1>9 DEF HostRoom
  <2>2. UNCHANGED <<rows, dataDir>> /\ plan' = plan /\ phase = "rooms"
    BY <1>9 DEF HostRoom, disk
  <2> QED
    BY <2>1, <2>2 DEF RowInv
<1> QED
  BY <1>1, <1>2, <1>3, <1>4, <1>5, <1>6, <1>7, <1>8, <1>9, StepKinds DEF StepOnRoom

LEMMA KnownStays ==
  RowInv /\ [AppNext]_allVars =>
    \A d \in DataDirs, r \in Rooms : known[d][r] # NoKey => known'[d][r] = known[d][r]
<1> SUFFICES ASSUME RowInv, [AppNext]_allVars
             PROVE  \A d \in DataDirs, r \in Rooms :
                      known[d][r] # NoKey => known'[d][r] = known[d][r]
  OBVIOUS
<1>1. CASE HostRoom
  <2>1. PICK r \in busy : known' = [known EXCEPT ![dataDir][r] = plan[r]]
    BY <1>1 DEF HostRoom
  <2>2. phase = "rooms"
    BY <1>1 DEF HostRoom
  <2> QED
    BY <2>1, <2>2 DEF RowInv
<1>2. CASE known' = known
  BY <1>2
<1>3. HostRoom \/ known' = known
  BY StepKinds, WritesFresh
     DEF Elsewhere, Dies, Starts, StepOnRoom, LoadKey, CreateKeyFile, ClaimRow, Migrate,
         EndMigration, seen
<1> QED
  BY <1>1, <1>2, <1>3

(* From one data directory a room is never hosted with another key than    *)
(* the one it was first hosted with, whatever an operator does to key      *)
(* files, key_file and node.data_dir, wherever a start is cut off and from *)
(* whatever other directories it was hosted in between (ensure_room).      *)
THEOREM IdentityIsKept == AppSpec => IdentityKept
<1>1. RowInv /\ [AppNext]_allVars
        => [\A d \in DataDirs, r \in Rooms :
              known[d][r] # NoKey => known'[d][r] = known[d][r]]_allVars
  BY KnownStays
<1> QED
  BY <1>1, RowInitial, RowStep, PTL DEF AppSpec, IdentityKept
---------------------------------------------------------------------------
(* The plan                                                                *)

(* The rooms the loop has left have keys, and no two the same; after it    *)
(* every room of the configuration has.                                    *)
DistinctKeys(rooms) ==
  \A r, s \in rooms : plan[r] # NoKey /\ (r # s => plan[r] # plan[s])

PlanInv ==
  /\ config \in Configurations
  /\ phase \in Starting => current.rooms \subseteq Rooms
  /\ phase = "plan" => busy \subseteq todo /\ todo \subseteq current.rooms /\ DistinctKeys(Done)
  /\ phase \in {"migrate", "migrating", "rooms"} => DistinctKeys(current.rooms)

LEMMA PlanInitial == AppInit => PlanInv
BY DEF AppInit, PlanInv, Starting

LEMMA GonePlan == PlanInv /\ Gone /\ config' = config => PlanInv'
BY DEF PlanInv, Gone, Starting

LEMMA ValidRooms ==
  ASSUME NEW cfg \in Configurations, cfg.valid PROVE cfg.rooms \subseteq Rooms
<1>1. cfg # Invalid
  BY DEF Invalid
<1>2. cfg.rooms \in (SUBSET Rooms) \ {{}}
  BY <1>1 DEF Configurations
<1> QED
  BY <1>2

LEMMA PlannedPlan ==
  ASSUME RowInv, PlanInv, phase = "plan", config' = config,
         NEW r \in todo, NEW k \in Keys, Planned(r, k)
  PROVE  PlanInv'
<1>1. CASE KeyTaken(k)
  BY <1>1, GonePlan DEF Planned, Refused
<1>2. CASE ~KeyTaken(k)
  <2>1. /\ plan' = [plan EXCEPT ![r] = k] /\ busy' = {} /\ current' = current
        /\ \/ todo = {r} /\ phase' = "migrate"
           \/ todo # {r} /\ phase' = "plan" /\ todo' = todo \ {r}
    BY <1>2 DEF Planned, memory
  <2>2. /\ r \in Rooms /\ r \notin Done /\ Done \subseteq Rooms
        /\ current.rooms \subseteq Rooms /\ todo \subseteq current.rooms
    BY DEF PlanInv, Starting, Done
  <2>3. plan'[r] = k /\ \A s \in Done : plan'[s] = plan[s]
    BY <2>1, <2>2 DEF RowInv
  <2>4. \A s \in Done : plan[s] # k
    BY <1>2 DEF KeyTaken
  <2>5. k # NoKey
    BY BoundsAssumption DEF Keys, NoKey
  <2>6. \A s \in Done : plan[s] # NoKey /\ \A t \in Done : s # t => plan[s] # plan[t]
    BY DEF PlanInv, DistinctKeys
  <2>7. \A s, t \in Done \cup {r} : plan'[s] # NoKey /\ (s # t => plan'[s] # plan'[t])
    BY <2>3, <2>4, <2>5, <2>6
  <2>8. CASE todo = {r}
    <3>1. current'.rooms = Done \cup {r} /\ phase' = "migrate"
      BY <2>1, <2>2, <2>8 DEF Done
    <3> QED
      BY <2>1, <2>2, <2>7, <3>1 DEF PlanInv, DistinctKeys, Starting
  <2>9. CASE todo # {r}
    <3>1. Done' = Done \cup {r} /\ phase' = "plan" /\ todo' \subseteq current'.rooms
      BY <2>1, <2>2, <2>9 DEF Done
    <3> QED
      BY <2>1, <2>2, <2>7, <3>1 DEF PlanInv, DistinctKeys, Starting
  <2> QED
    BY <2>8, <2>9
<1> QED
  BY <1>1, <1>2

LEMMA PlanStep == RowInv /\ PlanInv /\ [AppNext]_allVars => PlanInv'
<1> SUFFICES ASSUME RowInv, PlanInv, [AppNext]_allVars PROVE PlanInv'
  OBVIOUS
<1>1. CASE Elsewhere
  <2>1. CASE phase' = phase /\ current' = current
    BY <1>1, <2>1 DEF Elsewhere, PlanInv, DistinctKeys, Done, Starting
  <2>2. CASE phase' \notin Starting
    <3>1. config' \in Configurations
      BY <1>1 DEF Elsewhere, PlanInv
    <3> QED
      BY <2>2, <3>1 DEF PlanInv, Starting
  <2>3. (phase' = phase /\ current' = current) \/ phase' \notin Starting
    BY <1>1 DEF Elsewhere
  <2> QED
    BY <2>1, <2>2, <2>3
<1>2. CASE Dies
  BY <1>2, GonePlan DEF Dies
<1>3. CASE Starts
  <2>1. config.rooms \subseteq Rooms
    BY <1>3, ValidRooms DEF Starts, PlanInv
  <2>2. busy = {}
    BY <1>3 DEF Starts, RowInv
  <2> QED
    BY <1>3, <2>1, <2>2 DEF Starts, PlanInv, DistinctKeys, Done, Starting
<1>4. ASSUME NEW r \in Rooms, LoadKey(r) PROVE PlanInv'
  <2>1. config' = config /\ phase = "plan" /\ r \in todo
    BY <1>4 DEF LoadKey, files
  <2>2. Refused \/ (keyFile[FileOf(r)] \in Keys /\ Planned(r, keyFile[FileOf(r)]))
    BY <1>4 DEF LoadKey
  <2> QED
    BY <2>1, <2>2, GonePlan, PlannedPlan DEF Refused
<1>5. ASSUME NEW r \in Rooms, CreateKeyFile(r) PROVE PlanInv'
  <2>1. /\ config' = config /\ phase = "plan" /\ r \in todo /\ phase' = phase /\ busy' = {r}
        /\ todo' = todo /\ plan' = plan /\ current' = current
    BY <1>5 DEF CreateKeyFile, files, memory
  <2> QED
    BY <2>1 DEF PlanInv, DistinctKeys, Done, Starting
<1>6. ASSUME NEW r \in Rooms, ClaimRow(r) PROVE PlanInv'
  <2>1. config' = config /\ phase = "rooms"
    BY <1>6 DEF ClaimRow, files
  <2>2. CASE ~MayClaim(r)
    BY <1>6, <2>1, <2>2, GonePlan DEF ClaimRow, Refused
  <2>3. CASE MayClaim(r)
    <3>1. plan' = plan /\ phase' = phase /\ current' = current
      BY <1>6, <2>3 DEF ClaimRow, memory
    <3> QED
      BY <2>1, <3>1 DEF PlanInv, DistinctKeys, Starting
  <2> QED
    BY <2>2, <2>3
<1>7. CASE WriteKeyFile
  <2>1. config' = config /\ phase = "plan"
    BY <1>7, WritesFresh
  <2>2. PICK r \in busy, k \in Fresh : Planned(r, k)
    BY <1>7, WritesFresh
  <2>3. r \in todo /\ k \in Keys
    BY <2>1 DEF PlanInv, Fresh
  <2> QED
    BY <2>1, <2>2, <2>3, PlannedPlan
<1>8. CASE Migrate \/ EndMigration
  <2>1. config' = config /\ phase \in {"migrate", "migrating"}
    BY <1>8 DEF Migrate, EndMigration, files
  <2>2. Gone \/ (/\ plan' = plan /\ current' = current /\ phase' \in {"migrating", "rooms"})
    BY <1>8 DEF Migrate, EndMigration, Refused, starting, memory
  <2>3. CASE Gone
    BY <2>1, <2>3, GonePlan
  <2>4. CASE plan' = plan /\ current' = current /\ phase' \in {"migrating", "rooms"}
    BY <2>1, <2>4 DEF PlanInv, DistinctKeys, Starting
  <2> QED
    BY <2>2, <2>3, <2>4
<1>9. CASE HostRoom
  <2>1. /\ phase = "rooms" /\ phase' \in {"rooms", "serve"}
        /\ plan' = plan /\ current' = current /\ config' = config
    BY <1>9 DEF HostRoom, files
  <2> QED
    BY <2>1 DEF PlanInv, DistinctKeys, Starting
<1> QED
  BY <1>1, <1>2, <1>3, <1>4, <1>5, <1>6, <1>7, <1>8, <1>9, StepKinds DEF StepOnRoom

LEMMA RowsChange ==
  PlanInv /\ [AppNext]_allVars =>
    (rows' # rows =>
       \A r, s \in current.rooms : plan[r] # NoKey /\ (r # s => plan[r] # plan[s]))
<1> SUFFICES ASSUME PlanInv, [AppNext]_allVars, rows' # rows PROVE DistinctKeys(current.rooms)
  BY DEF DistinctKeys
<1>1. \E r \in Rooms : ClaimRow(r)
  BY StepKinds, WritesFresh
     DEF Elsewhere, Dies, Starts, StepOnRoom, LoadKey, CreateKeyFile, Migrate, EndMigration,
         HostRoom, disk
<1>2. phase = "rooms"
  BY <1>1 DEF ClaimRow
<1> QED
  BY <1>2 DEF PlanInv

(* A row is only written for a set of rooms all of which have a key, and   *)
(* no two the same (plan_rooms before ensure_room).                        *)
THEOREM RowsOnlyFollowAPlan == AppSpec => RowsFollowAPlan
<1>1. PlanInv /\ [AppNext]_allVars
        => [rows' # rows =>
              \A r, s \in current.rooms : plan[r] # NoKey /\ (r # s => plan[r] # plan[s])]_allVars
  BY RowsChange
<1> QED
  BY <1>1, RowInitial, RowStep, PlanInitial, PlanStep, PTL DEF AppSpec, RowsFollowAPlan
---------------------------------------------------------------------------
(* Key files                                                               *)

(* While no operator touched the key files, every key that is planned or   *)
(* hosted is in one, and the file that is being written is still empty.    *)
HasFile(k) == \E f \in Files : keyFile[f] = k

KeyInv ==
  /\ keyOf \in [Rooms -> KeyNames] /\ handled \in BOOLEAN
  /\ ~handled =>
       /\ keyFile \in [Files -> Nat]
       /\ \A d \in DataDirs, r \in Rooms : known[d][r] # NoKey => HasFile(known[d][r])
       /\ \A r \in Rooms : plan[r] # NoKey => HasFile(plan[r])
       /\ phase = "plan" => \A r \in busy : keyFile[FileOf(r)] = Torn

LEMMA PlaceOfFile ==
  ASSUME RowInv, KeyInv, NEW r \in Rooms
  PROVE  /\ FileOf(r) \in Files
         /\ UNCHANGED <<keyOf, dataDir>> => FileOf(r)' = FileOf(r)
BY AnchoredAssumption DEF RowInv, KeyInv, FileOf

LEMMA KeyInitial == AppInit => KeyInv
<1> SUFFICES ASSUME AppInit PROVE KeyInv
  OBVIOUS
<1>1. keyOf \in [Rooms -> KeyNames] /\ phase = "down" /\ handled = FALSE
  BY Zenon DEF AppInit
<1>2. keyFile = [f \in Files |-> 0] /\ plan = [r \in Rooms |-> 0] /\ known = [d \in DataDirs |-> [r \in Rooms |-> 0]]
  BY DEF AppInit, NoKey
<1> QED
  BY <1>1, <1>2 DEF KeyInv, NoKey

LEMMA GoneKey ==
  KeyInv /\ Gone /\ UNCHANGED <<known, keyFile, keyOf, dataDir, handled>> => KeyInv'
BY DEF KeyInv, HasFile, Gone, NoKey

(* Writing the key into a file that is empty, or has it already, keeps     *)
(* every other.                                                            *)
LEMMA PlannedKey ==
  ASSUME RowInv, KeyInv, phase = "plan", UNCHANGED <<known, keyOf, dataDir, handled>>,
         NEW r \in Rooms, NEW k \in Keys, Planned(r, k),
         ~handled => keyFile[FileOf(r)] \in {Torn, k},
         keyFile' = Written(r, k) \/ (keyFile' = keyFile /\ keyFile[FileOf(r)] = k)
  PROVE  KeyInv'
<1>1. CASE handled = TRUE
  BY <1>1 DEF KeyInv
<1>2. CASE ~handled
  <2>1. keyFile' = [keyFile EXCEPT ![FileOf(r)] = k] /\ FileOf(r) \in Files /\ k \in Nat
    <3>1. FileOf(r) \in Files /\ k \in Nat
      BY PlaceOfFile, BoundsAssumption DEF Keys
    <3>2. keyFile \in [Files -> Nat]
      BY <1>2 DEF KeyInv
    <3> QED
      BY <3>1, <3>2 DEF Written
  <2>2. keyFile' \in [Files -> Nat] /\ keyFile'[FileOf(r)] = k
    BY <1>2, <2>1 DEF KeyInv
  <2>3. ASSUME NEW key \in Keys, HasFile(key) PROVE HasFile(key)'
    <3>1. PICK f \in Files : keyFile[f] = key
      BY <2>3 DEF HasFile
    <3>2. key # Torn
      BY BoundsAssumption DEF Keys, Torn
    <3>3. CASE f = FileOf(r)
      BY <1>2, <2>2, <3>1, <3>2, <3>3 DEF HasFile
    <3>4. CASE f # FileOf(r)
      BY <1>2, <2>1, <3>1, <3>4 DEF HasFile, KeyInv
    <3> QED
      BY <3>3, <3>4
  <2>4. HasFile(k)'
    BY <2>1, <2>2 DEF HasFile
  <2>5. /\ plan' = [s \in Rooms |-> NoKey] \/ plan' = [plan EXCEPT ![r] = k]
        /\ busy' = {}
    BY DEF Planned, Refused, Gone
  <2>6. \A s \in Rooms : /\ plan[s] \in Keys \cup {NoKey}
                         /\ \A d \in DataDirs : known[d][s] \in Keys \cup {NoKey}
    BY DEF RowInv
  <2>7. \A d \in DataDirs, s \in Rooms : known'[d][s] # NoKey => HasFile(known[d][s])'
    BY <1>2, <2>3, <2>6 DEF KeyInv
  <2>8. ASSUME NEW s \in Rooms, plan'[s] # NoKey
        PROVE  \E f \in Files : keyFile'[f] = plan'[s]
    <3>1. plan'[s] = k \/ (plan'[s] = plan[s] /\ plan[s] # NoKey)
      BY <2>5, <2>8 DEF RowInv
    <3>2. plan[s] # NoKey => \E f \in Files : keyFile'[f] = plan[s]
      BY <1>2, <2>3, <2>6 DEF KeyInv, HasFile
    <3> QED
      BY <2>4, <3>1, <3>2 DEF HasFile
  <2>9. \A d \in DataDirs, s \in Rooms :
          known'[d][s] # NoKey => \E f \in Files : keyFile'[f] = known'[d][s]
    BY <2>7 DEF HasFile
  <2> QED
    BY <1>2, <2>2, <2>5, <2>8, <2>9 DEF KeyInv, HasFile
<1> QED
  BY <1>1, <1>2 DEF KeyInv

LEMMA KeyStep == RowInv /\ KeyInv /\ [AppNext]_allVars => KeyInv'
<1> SUFFICES ASSUME RowInv, KeyInv, [AppNext]_allVars PROVE KeyInv'
  OBVIOUS
<1>1. CASE Elsewhere
  <2>1. keyOf' \in [Rooms -> KeyNames]
    BY <1>1 DEF Elsewhere, KeyInv
  <2>2. CASE handled' = TRUE
    BY <2>1, <2>2 DEF KeyInv
  <2>3. CASE UNCHANGED <<keyFile, handled>>
    <3>1. UNCHANGED <<known, plan, busy>>
      BY <1>1 DEF Elsewhere
    <3>2. phase' = "plan" => phase = "plan" /\ UNCHANGED <<keyOf, dataDir>>
      BY <1>1 DEF Elsewhere, Starting
    <3> QED
      BY <2>1, <2>3, <3>1, <3>2, PlaceOfFile DEF KeyInv, RowInv, HasFile
  <2> QED
    BY <1>1, <2>2, <2>3 DEF Elsewhere
<1>2. CASE Dies
  BY <1>2, GoneKey DEF Dies
<1>3. CASE Starts
  BY <1>3 DEF Starts, KeyInv, RowInv, HasFile
<1>4. ASSUME NEW r \in Rooms, LoadKey(r) PROVE KeyInv'
  <2>1. UNCHANGED <<known, keyFile, keyOf, dataDir, handled>> /\ phase = "plan"
    BY <1>4 DEF LoadKey, disk, seen
  <2>2. Refused \/ (keyFile[FileOf(r)] \in Keys /\ Planned(r, keyFile[FileOf(r)]))
    BY <1>4 DEF LoadKey
  <2> QED
    BY <2>1, <2>2, GoneKey, PlannedKey DEF Refused
<1>5. ASSUME NEW r \in Rooms, CreateKeyFile(r) PROVE KeyInv'
  <2>1. /\ keyFile[FileOf(r)] = NoKey /\ keyFile' = [keyFile EXCEPT ![FileOf(r)] = Torn]
        /\ busy' = {r} /\ UNCHANGED <<keyOf, dataDir, plan, known, handled>>
    BY <1>5 DEF CreateKeyFile, seen
  <2>2. CASE handled = TRUE
    BY <2>1, <2>2 DEF KeyInv
  <2>3. CASE ~handled
    <3>1. keyFile' \in [Files -> Nat] /\ keyFile'[FileOf(r)] = Torn
      BY <2>1, <2>3, PlaceOfFile, BoundsAssumption DEF KeyInv, Torn
    <3>2. ASSUME NEW key, key # NoKey, HasFile(key) PROVE HasFile(key)'
      BY <2>1, <2>3, <3>2 DEF HasFile, KeyInv
    <3> QED
      BY <2>1, <2>3, <3>1, <3>2, PlaceOfFile DEF KeyInv
  <2> QED
    BY <2>2, <2>3 DEF KeyInv
<1>6. ASSUME NEW r \in Rooms, ClaimRow(r) PROVE KeyInv'
  <2>1. UNCHANGED <<known, keyFile, keyOf, dataDir, handled>> /\ phase = "rooms"
    BY <1>6 DEF ClaimRow, seen
  <2>2. Gone \/ (plan' = plan /\ phase' = phase)
    BY <1>6 DEF ClaimRow, Refused
  <2>3. CASE plan' = plan /\ phase' = phase
    BY <2>1, <2>3 DEF KeyInv, HasFile
  <2> QED
    BY <2>1, <2>2, <2>3, GoneKey
<1>7. CASE WriteKeyFile
  <2>1. UNCHANGED <<known, keyOf, dataDir, handled>> /\ phase = "plan"
    BY <1>7, WritesFresh
  <2>2. PICK r \in busy, k \in Fresh : keyFile' = Written(r, k) /\ Planned(r, k)
    BY <1>7, WritesFresh
  <2>3. r \in Rooms /\ k \in Keys /\ (~handled => keyFile[FileOf(r)] = Torn)
    BY <2>1 DEF RowInv, Fresh, KeyInv
  <2> QED
    BY <2>1, <2>2, <2>3, PlannedKey
<1>8. CASE Migrate \/ EndMigration
  <2>1. UNCHANGED <<known, keyFile, keyOf, dataDir, handled>>
    BY <1>8 DEF Migrate, EndMigration, seen
  <2>2. Gone \/ (plan' = plan /\ phase' \in {"migrating", "rooms"})
    BY <1>8 DEF Migrate, EndMigration, Refused, starting
  <2>3. CASE plan' = plan /\ phase' \in {"migrating", "rooms"}
    BY <2>1, <2>3 DEF KeyInv, HasFile
  <2> QED
    BY <2>1, <2>2, <2>3, GoneKey
<1>9. CASE HostRoom
  <2>1. PICK r \in busy : known' = [known EXCEPT ![dataDir][r] = plan[r]]
    BY <1>9 DEF HostRoom
  <2>2. UNCHANGED <<keyFile, keyOf, dataDir, plan, handled>> /\ phase' \in {"rooms", "serve"}
    BY <1>9 DEF HostRoom, disk
  <2>3. \A d \in DataDirs, s \in Rooms : known'[d][s] \in {known[d][s], plan[s]}
    BY <2>1 DEF RowInv
  <2> QED
    BY <2>2, <2>3 DEF KeyInv, HasFile
<1> QED
  BY <1>1, <1>2, <1>3, <1>4, <1>5, <1>6, <1>7, <1>8, <1>9, StepKinds DEF StepOnRoom

---------------------------------------------------------------------------
(* Schemas                                                                 *)

(* A row is in a database whose schema is all there.                       *)
SchemaInv ==
  /\ schema \in [DataDirs -> {"none", "partial", "head"}]
  /\ \A d \in DataDirs, r \in Rooms : schema[d] # "head" => rows[d][r] = NoKey
  /\ phase = "rooms" => schema[dataDir] = "head"

LEMMA SchemaInitial == AppInit => SchemaInv
BY DEF AppInit, SchemaInv

LEMMA SchemaStep == RowInv /\ SchemaInv /\ [AppNext]_allVars => SchemaInv'
<1> SUFFICES ASSUME RowInv, SchemaInv, [AppNext]_allVars PROVE SchemaInv'
  OBVIOUS
<1>1. CASE Elsewhere
  BY <1>1 DEF Elsewhere, Starting, SchemaInv
<1>2. CASE Dies \/ Starts
  BY <1>2 DEF Dies, Gone, Starts, SchemaInv
<1>3. ASSUME NEW r \in Rooms, LoadKey(r) \/ CreateKeyFile(r) PROVE SchemaInv'
  BY <1>3 DEF LoadKey, CreateKeyFile, Refused, Planned, Gone, disk, SchemaInv
<1>4. ASSUME NEW r \in Rooms, ClaimRow(r) PROVE SchemaInv'
  <2>1. UNCHANGED <<schema, dataDir>> /\ phase = "rooms"
    BY <1>4 DEF ClaimRow
  <2>2. phase' = phase \/ phase' = "down"
    BY <1>4 DEF ClaimRow, Refused, Gone
  <2>3. rows' = rows \/ rows' = [rows EXCEPT ![dataDir][r] = plan[r]]
    BY <1>4 DEF ClaimRow
  <2> QED
    BY <2>1, <2>2, <2>3 DEF SchemaInv, RowInv
<1>5. CASE WriteKeyFile
  <2>1. UNCHANGED <<rows, schema, dataDir>>
    BY <1>5, WritesFresh
  <2>2. phase' \in {"plan", "migrate", "down"}
    BY <1>5, WritesFresh DEF Planned, Refused, Gone
  <2> QED
    BY <2>1, <2>2 DEF SchemaInv
<1>6. CASE Migrate
  <2>1. UNCHANGED <<rows, dataDir>>
    BY <1>6 DEF Migrate
  <2>2. \/ schema' = schema /\ phase' = "rooms" /\ schema[dataDir] = "head"
        \/ /\ schema' = [schema EXCEPT ![dataDir] = "partial"] /\ phase' = "migrating"
           /\ schema[dataDir] = "none"
        \/ schema' = schema /\ phase' = "down"
    BY <1>6 DEF Migrate, Refused, Gone
  <2> QED
    BY <2>1, <2>2 DEF SchemaInv, RowInv
<1>7. CASE EndMigration
  BY <1>7 DEF EndMigration, SchemaInv, RowInv
<1>8. CASE HostRoom
  BY <1>8 DEF HostRoom, disk, SchemaInv
<1> QED
  BY <1>1, <1>2, <1>3, <1>4, <1>5, <1>6, <1>7, <1>8, StepKinds DEF StepOnRoom

(* A start that is killed loses neither the key of a room that was hosted, *)
(* which is in a key file until an operator touches those (save_identity   *)
(* before ensure_room), nor a row, which is only in a database whose       *)
(* schema is all there (upgrade_to_head before ensure_room).               *)
THEOREM KillsNeverLose == AppSpec => []KillsLoseNothing
<1>1. KeyInv /\ SchemaInv => KillsLoseNothing
  BY DEF KeyInv, SchemaInv, KillsLoseNothing, HasFile
<1> QED
  BY <1>1, RowInitial, RowStep, KeyInitial, KeyStep, SchemaInitial, SchemaStep, PTL DEF AppSpec
---------------------------------------------------------------------------
(* Reloads within the life of a process                                    *)

(* What a step does to the environment and to the rooms' settings: it is a *)
(* step of Reload, hosts a room, or ends or begins a process.              *)
LEMMA ReloadKinds ==
  [AppNext]_allVars =>
    [Next]_vars \/ Gone \/ Load \/ HostRoom
<1> SUFFICES ASSUME [AppNext]_allVars PROVE [Next]_vars \/ Gone \/ Load \/ HostRoom
  OBVIOUS
<1> USE DEF vars, memory
<1>1. ASSUME NEW r \in Rooms, StepOnRoom(r) PROVE UNCHANGED vars \/ Gone
  <2>1. CASE LoadKey(r)
    BY <2>1 DEF LoadKey, Planned, Refused
  <2>2. CASE CreateKeyFile(r)
    BY <2>2 DEF CreateKeyFile
  <2>3. CASE ClaimRow(r)
    BY <2>3 DEF ClaimRow, Refused
  <2> QED
    BY <1>1, <2>1, <2>2, <2>3 DEF StepOnRoom
<1>2. CASE WriteKeyFile
  BY <1>2 DEF WriteKeyFile, Planned, Refused
<1>3. CASE Migrate \/ EndMigration
  BY <1>3 DEF Migrate, EndMigration, Refused
<1>4. CASE Service
  BY <1>4 DEF Service, IdentifyNode, ReloadTask, Submit, Commit, TaskFails, Next
<1>5. CASE ShutDown
  BY <1>5 DEF ShutDown, CancelTasks, Close, End, Unwind
<1>6. CASE SigHup \/ SigTerm \/ Crash
  BY <1>6 DEF SigHup, SigTerm, Crash, Next
<1>7. CASE EditFiles
  BY <1>7 DEF EditFiles, Next
<1>8. CASE ConfigureKey \/ MoveDataDir \/ PutKeyFile
  BY <1>8 DEF ConfigureKey, MoveDataDir, PutKeyFile
<1>9. CASE UNCHANGED allVars
  BY <1>9 DEF allVars
<1> QED
  BY <1>1, <1>2, <1>3, <1>4, <1>5, <1>6, <1>7, <1>8, <1>9 DEF AppNext, StartUp, StepOnRoom

LEMMA FilesKept ==
  EnvironmentInv /\ [AppNext]_allVars => envFile' \in Environments \cup {Unreadable}
<1> SUFFICES ASSUME EnvironmentInv, [AppNext]_allVars
             PROVE  envFile' \in Environments \cup {Unreadable}
  OBVIOUS
<1>1. CASE EditFiles
  BY <1>1 DEF EditFiles, EditEnvFile, EditConfig, EnvironmentInv
<1>2. CASE envFile' = envFile
  BY <1>2 DEF EnvironmentInv
<1>3. EditFiles \/ envFile' = envFile
  BY DEF AppNext, StartUp, Service, ShutDown, Load, LoadKey, CreateKeyFile, ClaimRow, WriteKeyFile,
         Migrate, EndMigration, HostRoom, IdentifyNode, ReloadTask, Reload, Submit, Commit,
         TaskFails, CancelTasks, Close, End, Unwind, SigHup, Hangup, SigTerm, Crash,
         ConfigureKey, MoveDataDir, PutKeyFile, allVars, files
<1> QED
  BY <1>1, <1>2, <1>3

LEMMA AppEnvironmentInitial == AppInit => EnvironmentInv
<1> SUFFICES ASSUME AppInit PROVE EnvironmentInv
  OBVIOUS
<1>1. /\ envFile \in Environments /\ environ = Inherited /\ owned = {} /\ refused \in BOOLEAN
      /\ loaded = [n \in Names |-> Unset]
  BY DEF AppInit
<1>2. loaded \in Environments
  BY <1>1 DEF Environments
<1> QED
  BY <1>1, <1>2, InheritedAssumption DEF EnvironmentInv

LEMMA GoneEnvironment ==
  Gone /\ envFile' \in Environments \cup {Unreadable} => EnvironmentInv'
<1> SUFFICES ASSUME Gone, envFile' \in Environments \cup {Unreadable} PROVE EnvironmentInv'
  OBVIOUS
<1>1. /\ environ' = Inherited /\ owned' = {} /\ refused' = FALSE
      /\ loaded' = [n \in Names |-> Unset]
  BY DEF Gone
<1>2. loaded' \in Environments
  BY <1>1 DEF Environments
<1> QED
  BY <1>1, <1>2, InheritedAssumption DEF EnvironmentInv

LEMMA LoadEnvironment == EnvironmentInv /\ Load => EnvironmentInv' \/ Gone
<1> SUFFICES ASSUME EnvironmentInv, Load, ~Gone PROVE EnvironmentInv'
  OBVIOUS
<1>1. /\ envFile # Unreadable /\ envFile' = envFile /\ loaded' = envFile /\ refused' = refused
      /\ owned' = Applied(Inherited, envFile)
      /\ environ' = Overlaid(Inherited, envFile, Applied(Inherited, envFile))
  BY DEF Load, Refused, files
<1>2. /\ owned' \subseteq Names /\ environ' \in [Names -> Values \cup {Unset}]
      /\ \A n \in Names :
           /\ n \in owned' <=> envFile[n] # Unset /\ Inherited[n] = Unset
           /\ environ'[n] = (IF n \in owned' THEN envFile[n] ELSE Inherited[n])
  BY <1>1, InheritedAssumption DEF EnvironmentInv, Applied, Overlaid, Environments
<1> QED
  BY <1>1, <1>2 DEF EnvironmentInv, Environments

LEMMA AppEnvironmentStep == EnvironmentInv /\ [AppNext]_allVars => EnvironmentInv'
<1> SUFFICES ASSUME EnvironmentInv, [AppNext]_allVars PROVE EnvironmentInv'
  OBVIOUS
<1>1. CASE [Next]_vars
  BY <1>1, EnvironmentStep
<1>2. CASE Gone
  BY <1>2, GoneEnvironment, FilesKept
<1>3. CASE Load
  BY <1>3, LoadEnvironment, GoneEnvironment, FilesKept
<1>4. CASE HostRoom
  BY <1>4 DEF HostRoom, EnvironmentInv, files, history
<1> QED
  BY <1>1, <1>2, <1>3, <1>4, ReloadKinds

LEMMA AppEnvironmentHolds == AppSpec => []EnvironmentInv
BY AppEnvironmentInitial, AppEnvironmentStep, PTL DEF AppSpec

(* A variable a process was started with keeps its value over its whole    *)
(* life, whatever it loads, refuses and reloads (apply_dotenv).            *)
THEOREM InheritedIsKeptForLife == AppSpec => []InheritedKept
<1>1. EnvironmentInv => InheritedKept
  BY DEF EnvironmentInv, InheritedKept
<1> QED
  BY <1>1, AppEnvironmentHolds, PTL

(* Until a reload is refused, nothing of an older env file is left behind, *)
(* in this process or from one before it.                                  *)
THEOREM NothingIsLeftBehindForLife == AppSpec => []NothingLeftBehind
<1>1. EnvironmentInv => NothingLeftBehind
  BY DEF EnvironmentInv, NothingLeftBehind
<1> QED
  BY <1>1, AppEnvironmentHolds, PTL

(* Until it serves, a process has the settings it loaded for every room.   *)
NewestInv ==
  /\ hosted \subseteq Rooms /\ RoomsRunNewest
  /\ phase \in Starting => running = newest

LEMMA NewestInitial == AppInit => NewestInv
BY DEF AppInit, NewestInv, RoomsRunNewest, Starting

LEMMA GoneNewest == Gone => NewestInv'
BY DEF Gone, NewestInv, RoomsRunNewest, Starting

(* What is neither a load, a reload, a room that is hosted nor an end      *)
(* leaves the settings alone, and begins no start.                         *)
LEMMA SettingsKept ==
  [AppNext]_allVars =>
    \/ Load \/ Gone \/ HostRoom \/ ReloadTask
    \/ UNCHANGED <<hosted, running, newest>> /\ (phase' \in Starting => phase \in Starting)
<1> SUFFICES ASSUME [AppNext]_allVars, ~Load, ~Gone, ~HostRoom, ~ReloadTask
             PROVE  /\ UNCHANGED <<hosted, running, newest>>
                    /\ phase' \in Starting => phase \in Starting
  OBVIOUS
<1> USE DEF memory, history, Starting
<1>1. ASSUME NEW r \in Rooms, StepOnRoom(r)
      PROVE  UNCHANGED <<hosted, running, newest>> /\ phase \in Starting
  <2>1. CASE LoadKey(r)
    BY <2>1 DEF LoadKey, Planned, Refused
  <2>2. CASE CreateKeyFile(r)
    BY <2>2 DEF CreateKeyFile
  <2>3. CASE ClaimRow(r)
    BY <2>3 DEF ClaimRow, Refused
  <2> QED
    BY <1>1, <2>1, <2>2, <2>3 DEF StepOnRoom
<1>2. CASE WriteKeyFile
  BY <1>2 DEF WriteKeyFile, Planned, Refused
<1>3. CASE Migrate \/ EndMigration
  BY <1>3 DEF Migrate, EndMigration, Refused
<1>4. CASE Service
  BY <1>4 DEF Service, IdentifyNode, Submit, Commit, TaskFails, Raises
<1>5. CASE ShutDown
  BY <1>5 DEF ShutDown, CancelTasks, AfterLinkStop, Close, End, Unwind
<1>6. CASE SigHup \/ SigTerm \/ Crash
  BY <1>6 DEF SigHup, SigTerm, Crash, Hangup
<1>7. CASE EditFiles
  BY <1>7 DEF EditFiles, EditEnvFile, EditConfig
<1>8. CASE ConfigureKey \/ MoveDataDir \/ PutKeyFile
  BY <1>8 DEF ConfigureKey, MoveDataDir, PutKeyFile
<1>9. CASE UNCHANGED allVars
  BY <1>9 DEF allVars
<1> QED
  BY <1>1, <1>2, <1>3, <1>4, <1>5, <1>6, <1>7, <1>8, <1>9 DEF AppNext, StartUp, StepOnRoom

LEMMA NewestStep == RowInv /\ NewestInv /\ [AppNext]_allVars => NewestInv'
<1> SUFFICES ASSUME RowInv, NewestInv, [AppNext]_allVars PROVE NewestInv'
  OBVIOUS
<1>1. CASE Gone
  BY <1>1, GoneNewest
<1>2. CASE Load /\ ~Gone
  <2>1. hosted' = hosted /\ newest' = running'
    BY <1>2 DEF Load, Refused
  <2> QED
    BY <2>1 DEF NewestInv, RoomsRunNewest
<1>3. CASE HostRoom
  <2>1. PICK r \in busy : hosted' = hosted \cup {r}
    BY <1>3 DEF HostRoom
  <2>2. UNCHANGED <<running, newest>> /\ phase = "rooms"
    BY <1>3 DEF HostRoom, history
  <2> QED
    BY <2>1, <2>2 DEF NewestInv, RoomsRunNewest, RowInv, Starting
<1>4. CASE ReloadTask
  <2>1. phase' \notin Starting
    BY <1>4 DEF ReloadTask, Serving, Raises, Starting
  <2>2. RoomsRunNewest' /\ hosted' = hosted
    BY <1>4 DEF ReloadTask, Reload, RoomsRunNewest, NewestInv, Adopters, View
  <2> QED
    BY <2>1, <2>2 DEF NewestInv
<1>5. CASE UNCHANGED <<hosted, running, newest>> /\ (phase' \in Starting => phase \in Starting)
  BY <1>5 DEF NewestInv, RoomsRunNewest
<1> QED
  BY <1>1, <1>2, <1>3, <1>4, <1>5, SettingsKept

(* Every hosted room runs with the settings of the last accepted           *)
(* configuration that listed it, that of the start or of a reload          *)
(* (Application._adopt).                                                   *)
THEOREM RoomsRunNewestForLife == AppSpec => []RoomsRunNewest
<1>1. NewestInv => RoomsRunNewest
  BY DEF NewestInv
<1> QED
  BY <1>1, RowInitial, RowStep, NewestInitial, NewestStep, PTL DEF AppSpec
=============================================================================
