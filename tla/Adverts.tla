------------------------------ MODULE Adverts -------------------------------
(***************************************************************************)
(* The advert loop of a room (room/server.py, run_advert_loop): a flood    *)
(* advert at the start, then one of each kind per interval; an interval of *)
(* 0 is disabled.  A reload may change the settings; an advert asked for   *)
(* on the console leaves the loop as it is.  Time passes in ticks; an      *)
(* advert that is due does not wait for the next one.                      *)
(*                                                                         *)
(* An operator Bug_... is a plausible error in the operator that follows   *)
(* it: the properties are tested against it.                               *)
(***************************************************************************)
EXTENDS Naturals

CONSTANTS Intervals   \* what the two intervals may be set to

ASSUME IntervalsAssumption == Intervals \subseteq Nat

VARIABLES
  wanted,             \* _settings: the two intervals
  state,              \* of the loop: "new", "runs" or "ended"
  flood, local,       \* the intervals it read
  toFlood, toLocal,   \* ticks until the next advert of an enabled kind
  quiet               \* ticks since the loop's last advert (history)

advertVars == <<wanted, state, flood, local, toFlood, toLocal, quiet>>

(* The first advert; the intervals are read once.                          *)
FirstAdvert ==
  /\ state = "new"
  /\ flood' = wanted.flood /\ local' = wanted.local
  /\ toFlood' = flood' /\ toLocal' = local' /\ quiet' = 0
  /\ state' = IF flood' = 0 /\ local' = 0 THEN "ended" ELSE "runs"
  /\ UNCHANGED wanted

FloodDue == state = "runs" /\ flood # 0 /\ toFlood = 0
LocalDue == state = "runs" /\ local # 0 /\ toLocal = 0

(* A flood advert counts as a local one; it wins a tie.                    *)
Bug_LocalStays(timer) == timer
AfterFlood(timer) == local

FloodAdvert ==
  /\ FloodDue /\ toFlood' = flood /\ toLocal' = AfterFlood(toLocal) /\ quiet' = 0
  /\ UNCHANGED <<wanted, state, flood, local>>

Bug_FloodRestarts(timer) == flood
AfterLocal(timer) == timer

LocalAdvert ==
  /\ LocalDue /\ ~FloodDue /\ toLocal' = local /\ toFlood' = AfterLocal(toFlood) /\ quiet' = 0
  /\ UNCHANGED <<wanted, state, flood, local>>

(* apply_settings: the loop does not look again.                           *)
NewIntervals ==
  /\ \E f, l \in Intervals : wanted' = [flood |-> f, local |-> l]
  /\ UNCHANGED <<state, flood, local, toFlood, toLocal, quiet>>

Passed(timer) == IF timer = 0 THEN 0 ELSE timer - 1

AdvertTick ==
  /\ state = "runs" /\ ~FloodDue /\ ~LocalDue
  /\ toFlood' = Passed(toFlood) /\ toLocal' = Passed(toLocal)
  /\ quiet' = IF quiet < local THEN quiet + 1 ELSE quiet
  /\ UNCHANGED <<wanted, state, flood, local>>

AdvertInit ==
  /\ wanted \in [flood : Intervals, local : Intervals]
  /\ state = "new" /\ flood = 0 /\ local = 0 /\ toFlood = 0 /\ toLocal = 0 /\ quiet = 0

AdvertNext == FirstAdvert \/ FloodAdvert \/ LocalAdvert \/ NewIntervals \/ AdvertTick

(* The event loop runs the task, and time passes.                          *)
AdvertFairness ==
  /\ WF_advertVars(FirstAdvert) /\ WF_advertVars(FloodAdvert \/ LocalAdvert)
  /\ WF_advertVars(AdvertTick)

---------------------------------------------------------------------------
(* Properties                                                              *)

(* Safety: the loop sends a local advert only when it has sent nothing for *)
(* a whole local interval ("so the two do not stack up"), and none at all  *)
(* when floods, which re-arm it, are at least as frequent.                 *)
LocalsApart == [][LocalAdvert => quiet = local /\ (flood = 0 \/ local < flood)]_advertVars

(* Liveness: flood adverts recur when they are enabled; local adverts when *)
(* they are enabled and more frequent than floods.                         *)
AdvertsRecur ==
  /\ <>[](state = "runs" /\ flood # 0) => []<><<FloodAdvert>>_advertVars
  /\ <>[](state = "runs" /\ local # 0 /\ (flood = 0 \/ local < flood))
       => []<><<LocalAdvert>>_advertVars
=============================================================================
