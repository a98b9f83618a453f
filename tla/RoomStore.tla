----------------------------- MODULE RoomStore -----------------------------
(***************************************************************************)
(* The repository functions of one room (store/repo.py): what each         *)
(* transaction on the database thread computes from, and does to, the      *)
(* tables posts and clients.                                               *)
(*                                                                         *)
(* A table is a value: posts is a set of records, clients a function from  *)
(* the keys that have a row to the row.  The operators are the queries and *)
(* the updates; the modules that use them say when they run.  An operator  *)
(* Bug_... is a plausible error in the operator that follows it: the       *)
(* properties are tested against it.                                       *)
(*                                                                         *)
(* Left out: the text of a post (the message it came from stands for it),  *)
(* first_seen (it only orders list_clients, and ties are common) and       *)
(* last_role (nothing reads it back).                                      *)
(***************************************************************************)
EXTENDS Integers, FiniteSets

CONSTANTS Clients,      \* the public keys of the clients
          RoomKey,      \* the room's own key: the author of a system post
          Paths,        \* return paths a PATH packet can teach
          NoPath,       \* OUT_PATH_UNKNOWN
          NoLimit       \* a retention setting that is None

ASSUME RoomAssumption == RoomKey \notin Clients
ASSUME PathAssumption == NoPath \notin Paths
ASSUME LimitAssumption == NoLimit \notin Int

Authors == Clients \cup {RoomKey}

(* The message a post was made from: the sender of the packet that carried *)
(* it and the time stamp the sender gave it.                               *)
Messages == Clients \X Nat

Posts == [ts : Nat, author : Authors, msg : Messages]

Rows == [since : Nat, lastTs : Nat, active : Nat, path : Paths \cup {NoPath}]

---------------------------------------------------------------------------
(* Posts                                                                   *)

Latest(posts) == CHOOSE t \in {p.ts : p \in posts} : \A p \in posts : p.ts <= t

(* post_ts is the sync cursor, so it is pushed past the room's own maximum *)
(* even when the wall clock is not.                                        *)
Bug_NextPostTsIsNow(posts, now) == now
NextPostTs(posts, now) ==
  IF posts = {} THEN now
  ELSE IF now > Latest(posts) THEN now ELSE Latest(posts) + 1

Unsynced(posts, c, since) == {p \in posts : p.ts > since /\ p.author # c}

(* The oldest unsynced post that has settled, as a set with at most one    *)
(* element.                                                                *)
NextUnsynced(posts, c, since, notNewerThan) ==
  LET owed == {p \in Unsynced(posts, c, since) : p.ts <= notNewerThan}
  IN  {p \in owed : \A q \in owed : p.ts <= q.ts}

CountUnsynced(posts, c, since) == Cardinality(Unsynced(posts, c, since))

TooOld(p, olderThan) == olderThan # NoLimit /\ p.ts < olderThan

BeyondNewest(posts, p, keepNewest) ==
  /\ keepNewest # NoLimit
  /\ Cardinality({q \in posts : q.ts > p.ts}) >= keepNewest

(* The two policies are alternatives; the lowest cursor in the room is a   *)
(* floor on both.                                                          *)
Bug_FloorOffByOne(posts, rows, olderThan, keepNewest) ==
  {p \in posts :
     /\ TooOld(p, olderThan) \/ BeyondNewest(posts, p, keepNewest)
     /\ \A c \in DOMAIN rows : p.ts <= rows[c].since + 1}
PrunedPosts(posts, rows, olderThan, keepNewest) ==
  {p \in posts :
     /\ TooOld(p, olderThan) \/ BeyondNewest(posts, p, keepNewest)
     /\ \A c \in DOMAIN rows : p.ts <= rows[c].since}

---------------------------------------------------------------------------
(* Clients                                                                 *)

Without(f, S) == [c \in DOMAIN f \ S |-> f[c]]

(* The keys prune_clients forgets: idleness is the whole test.             *)
IdleClients(rows, olderThan, keep) ==
  {c \in DOMAIN rows \ keep : rows[c].active < olderThan}

(* record_login: the client's claim is taken verbatim, backwards or not.   *)
Bug_PathKept(rows, c, ts, since, now, resetPath) ==
  [k \in DOMAIN rows \cup {c} |->
     IF k # c THEN rows[k]
     ELSE [since |-> since, lastTs |-> ts, active |-> now,
           path  |-> IF c \notin DOMAIN rows THEN NoPath ELSE rows[c].path]]
RecordLogin(rows, c, ts, since, now, resetPath) ==
  [k \in DOMAIN rows \cup {c} |->
     IF k # c THEN rows[k]
     ELSE [since  |-> since,
           lastTs |-> ts,
           active |-> now,
           path   |-> IF resetPath \/ c \notin DOMAIN rows
                      THEN NoPath ELSE rows[c].path]]

SetOutPath(rows, c, path) ==
  [k \in DOMAIN rows |-> IF k = c THEN [rows[k] EXCEPT !.path = path] ELSE rows[k]]

(* Forward only: a late acknowledgement must not undo progress.            *)
AdvanceSync(rows, c, ts) ==
  [k \in DOMAIN rows |->
     IF k = c /\ rows[k].since < ts THEN [rows[k] EXCEPT !.since = ts] ELSE rows[k]]

(* Exactly what the client asked for.                                      *)
ForceSyncSince(rows, c, since) ==
  [k \in DOMAIN rows |-> IF k = c THEN [rows[k] EXCEPT !.since = since] ELSE rows[k]]
=============================================================================
