---------------------------- MODULE MCRoomServer ----------------------------
(* Small instances of RoomServer: what the clients may send, and the room  *)
(* settings, of each run.                                                  *)
EXTENDS RoomServer

CONSTANTS c1, c2, p1, s1

Packet(kind, c, ts, flood, secret, cmd, path) ==
  [kind |-> kind, c |-> c, ts |-> ts, flood |-> flood, secret |-> secret,
   cmd |-> cmd, path |-> path]

Plain(kind, c, ts) == Packet(kind, c, ts, FALSE, NoSecret, "other", NoPath)
Command(c, ts, cmd) == Packet("cli", c, ts, FALSE, NoSecret, cmd, NoPath)

Config(member, unknown, welcome, clientRetention, postRetention, maxPosts) ==
  [member |-> member, password |-> [s \in Secrets |-> "admin"], unknown |-> unknown,
   welcome |-> welcome, clientRetention |-> clientRetention,
   postRetention |-> postRetention, maxPosts |-> maxPosts]

Strangers == [c \in Clients |-> NoRole]

(* Crash: c1 posts; c2 logs in again and again, asking for the whole       *)
(* history or naming what it holds, and names a position once more in a    *)
(* keep-alive.  The room keeps one post.                                   *)
SyncPackets ==
  {Plain("login", c1, 1), Plain("post", c1, 2), Plain("post", c1, 3),
   Plain("login", c2, 1), Plain("login", c2, 2), Plain("keep_alive", c2, 3)}
SyncConfigs == {Config(Strangers, "read_write", 0, NoLimit, NoLimit, 1)}

(* Retention: a tick of the clock is longer than both retention periods,  *)
(* so clients are forgotten, with the paths they taught the room, and      *)
(* posts expire; the room keeps one post.  A login that comes by flood     *)
(* makes the room forget a path; a path packet has an acknowledgement in   *)
(* it.                                                                     *)
Flooded(c, ts) == Packet("login", c, ts, TRUE, NoSecret, "other", NoPath)

AgePackets ==
  {Flooded(c1, 1), Packet("path", c1, 1, FALSE, NoSecret, "other", p1),
   Plain("post", c1, 2), Flooded(c1, 3), Plain("login", c2, 1)}
AgeConfigs == {Config(Strangers, "read_write", 0, 0, 0, 1)}

(* Roles: c1 is listed as an admin under one configuration and as a guest  *)
(* under the other; c2, which knows the admin password, is listed as a     *)
(* guest under the first and a stranger under the second.                  *)
RolePackets ==
  {Plain("login", c1, 1), Plain("post", c1, 2), Plain("blank", c1, 3),
   Command(c1, 3, "room.post"), Command(c1, 4, "clear stats"),
   Packet("keep_alive", c1, 4, TRUE, NoSecret, "other", NoPath), Plain("status", c1, 5),
   Packet("login", c2, 1, FALSE, s1, "other", NoPath), Plain("post", c2, 2)}
RoleConfigs ==
  {Config([c \in Clients |-> IF c = c1 THEN "admin" ELSE "guest"],
          NoRole, 0, NoLimit, NoLimit, NoLimit),
   Config([c \in Clients |-> IF c = c1 THEN "guest" ELSE NoRole],
          "read_only", 0, NoLimit, NoLimit, NoLimit)}

(* Live: a welcome and two posts.                                          *)
LivePackets ==
  {Plain("login", c1, 1), Plain("post", c1, 2), Plain("post", c1, 3), Plain("login", c2, 1)}
LiveConfigs == {Config(Strangers, "read_write", 1, NoLimit, NoLimit, NoLimit)}
=============================================================================
