------------------------------- MODULE Reload -------------------------------
(***************************************************************************)
(* SIGHUP (app.py, reload): the env file is read again into the process's  *)
(* environment (config/dotenv.py), the configuration is read again on top  *)
(* of it, and the rooms that run adopt it, while an operator edits both    *)
(* files at any time.                                                      *)
(*                                                                         *)
(* reload has no await: it is one step.  What makes it interesting is that *)
(* it has two effects, on the environment and on the rooms, and that the   *)
(* second may be refused, or fail, when the first is done; and that what   *)
(* it does depends on what earlier reloads left behind.                    *)
(*                                                                         *)
(* Left out: the text of both files.  An env file is a function from names *)
(* to values (one that names a variable twice is unreadable), a valid      *)
(* configuration the rooms it lists, a value for everything else in it and *)
(* whether the log file it names can be opened, which validation does not  *)
(* look at; the settings a room gets are that value and the environment,   *)
(* from which load_settings takes overrides.                               *)
(*                                                                         *)
(* An operator Bug_... is a plausible error in the operator that follows   *)
(* it: the properties are tested against it.                               *)
(***************************************************************************)
EXTENDS Naturals

CONSTANTS Names,       \* variables the env file may set
          Values,      \* their values
          Unset,       \* a name that has no value
          Unreadable,  \* an env file that cannot be read or parsed
          Rooms,       \* the rooms a configuration may list
          Versions,    \* values for the rest of the configuration
          Inherited    \* the environment the process was started with

Environments == [Names -> Values \cup {Unset}]
Invalid == [rooms |-> {}, version |-> CHOOSE v \in Versions : TRUE, valid |-> FALSE, logOpens |-> TRUE]
Configurations ==
  [rooms : (SUBSET Rooms) \ {{}}, version : Versions, valid : {TRUE}, logOpens : BOOLEAN] \cup {Invalid}
Settings == [version : Versions, environ : Environments]

ASSUME UnsetAssumption == Unset \notin Values /\ Unreadable \notin Environments /\ Versions # {}
ASSUME InheritedAssumption == Inherited \in Environments

VARIABLES
  envFile, config,   \* the two files, as they are now
  environ,           \* os.environ
  owned,             \* _env_file.applied
  current,           \* _settings: the configuration and the environment it saw
  hosted,            \* _rooms: the rooms of the start, for good
  running,           \* the settings each room server has
  requested,         \* _reload_requested
  failed,            \* the reload task ended with an exception
  loaded,            \* the env file as it was last read (history, never read)
  refused,           \* some reload was refused (history, never read)
  newest             \* the last accepted settings that listed a room (history)

files   == <<envFile, config>>
history == <<loaded, refused, newest>>
vars == <<files, environ, owned, current, hosted, running, requested, failed, history>>

TypeOK ==
  /\ envFile \in Environments \cup {Unreadable} /\ config \in Configurations
  /\ environ \in Environments /\ owned \subseteq Names
  /\ current \in [rooms : SUBSET Rooms, settings : Settings]
  /\ hosted \subseteq Rooms /\ running \in [Rooms -> Settings] /\ requested \in BOOLEAN /\ failed \in BOOLEAN
  /\ loaded \in Environments /\ refused \in BOOLEAN /\ newest \in [Rooms -> Settings]

---------------------------------------------------------------------------
(* config/dotenv.py                                                        *)

(* apply_dotenv: the names an earlier load set are cleared first; a name   *)
(* that has a value then keeps it.                                         *)
Bug_NothingCleared(env, names) == env
Cleared(env, names) == [n \in Names |-> IF n \in names THEN Unset ELSE env[n]]

Bug_FileWins(env, file) == {n \in Names : file[n] # Unset}
Applied(env, file) == {n \in Names : file[n] # Unset /\ env[n] = Unset}

Overlaid(env, file, names) == [n \in Names |-> IF n \in names THEN file[n] ELSE env[n]]

---------------------------------------------------------------------------
(* app.py                                                                  *)

View(cfg, env) == [rooms |-> cfg.rooms, settings |-> [version |-> cfg.version, environ |-> env]]

(* _adopt: a room that is hosted and listed takes its new settings, one    *)
(* that is no longer listed keeps running with those it has.               *)
Bug_AllHosted(fresh) == hosted
Adopters(fresh) == fresh.rooms \cap hosted

(* A variable that an env file sets may be what makes a configuration      *)
(* valid or not: load_settings may refuse either way.  A log file that     *)
(* cannot be opened is not refused: LoggingError is no ConfigError, and    *)
(* leaves reload when the env file's names are recorded and before a room  *)
(* has adopted anything.                                                   *)
Reload ==
  /\ requested /\ ~failed /\ requested' = FALSE
  /\ \/ /\ envFile = Unreadable
        /\ refused' = TRUE
        /\ UNCHANGED <<environ, owned, current, running, failed, loaded, newest>>
     \/ /\ envFile # Unreadable
        /\ LET rest  == Cleared(environ, owned)
               names == Applied(rest, envFile)
               env   == Overlaid(rest, envFile, names)
               fresh == View(config, env)
           IN  /\ environ' = env /\ loaded' = envFile
               /\ \/ /\ ~config.valid
                     /\ refused' = TRUE
                     /\ UNCHANGED <<owned, current, running, failed, newest>>
                  \/ /\ config.valid /\ ~config.logOpens
                     /\ owned' = names /\ failed' = TRUE
                     /\ UNCHANGED <<current, running, refused, newest>>
                  \/ /\ config.valid /\ config.logOpens
                     /\ owned' = names /\ current' = fresh
                     /\ running' = [r \in Rooms |->
                          IF r \in Adopters(fresh) THEN fresh.settings ELSE running[r]]
                     /\ newest' = [r \in Rooms |->
                          IF r \in fresh.rooms THEN fresh.settings ELSE newest[r]]
                     /\ UNCHANGED <<refused, failed>>
  /\ UNCHANGED <<files, hosted>>

(* request_reload: requests that come before the task runs are one.        *)
Hangup ==
  /\ ~requested /\ requested' = TRUE
  /\ UNCHANGED <<files, environ, owned, current, hosted, running, failed, history>>

EditEnvFile(file) ==
  /\ envFile' = file
  /\ UNCHANGED <<config, environ, owned, current, hosted, running, requested, failed, history>>

EditConfig(cfg) ==
  /\ config' = cfg
  /\ UNCHANGED <<envFile, environ, owned, current, hosted, running, requested, failed, history>>

(* The start: the env file is applied, the configuration is valid and      *)
(* lists the rooms that are hosted from then on.                           *)
Init ==
  /\ envFile \in Environments /\ loaded = envFile
  /\ config \in {cfg \in Configurations : cfg.valid /\ cfg.logOpens}
  /\ hosted = config.rooms
  /\ owned = Applied(Inherited, envFile)
  /\ environ = Overlaid(Inherited, envFile, owned)
  /\ current = View(config, environ)
  /\ running = [r \in Rooms |-> current.settings]
  /\ requested = FALSE /\ failed = FALSE /\ refused = FALSE /\ newest = running

Next ==
  \/ Reload \/ Hangup
  \/ \E file \in Environments \cup {Unreadable} : EditEnvFile(file)
  \/ \E cfg \in Configurations : EditConfig(cfg)

Spec == Init /\ [][Next]_vars

---------------------------------------------------------------------------
(* Properties                                                              *)

(* Safety: whatever env files come and go and however many reloads are     *)
(* refused half way, a variable the process was started with keeps its     *)
(* value ("leaving names the environment already has", apply_dotenv), and  *)
(* no reload takes it for one of its own, to be cleared by the next.       *)
InheritedKept ==
  \A n \in Names : Inherited[n] # Unset => environ[n] = Inherited[n] /\ n \notin owned

(* Safety: as long as no reload was refused, the environment is the        *)
(* inherited one overlaid by the env file: nothing of an older file is     *)
(* left in it.                                                             *)
NothingLeftBehind ==
  ~refused => \A n \in Names :
                environ[n] = IF Inherited[n] # Unset THEN Inherited[n] ELSE loaded[n]

(* Safety: every hosted room runs with the settings of the last accepted   *)
(* configuration that listed it, over any sequence of removing it, adding  *)
(* it again and being refused (_adopt).                                    *)
RoomsRunNewest == \A r \in hosted : running[r] = newest[r]

(* "a *deleted* line actually revokes" (_reload_env_file): when a reload   *)
(* is accepted, a variable that the env file does not set, and that the    *)
(* process was not started with, has no value.                             *)
DeletedLineRevokes ==
  [][current' # current =>
       \A n \in Names : envFile[n] = Unset /\ Inherited[n] = Unset => environ'[n] = Unset]_vars
=============================================================================
