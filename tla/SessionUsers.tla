----------------------------- MODULE SessionUsers -----------------------------
(***************************************************************************)
(* The relay's user_map (websocket_server2/src/main.rs): which sessions    *)
(* belong to a user.  This module composes RoomRelay with the map's two    *)
(* writers, the lookup that handle_ws spawns for the room's assigned user  *)
(* and the /auth command, and its one eraser, cleanup_session.             *)
(*                                                                         *)
(* The lookup is a task of its own that nobody waits for or cancels.       *)
(***************************************************************************)
EXTENDS RoomRelay

VARIABLES
  users,    \* keys of ChatServer.user_map
  lookup,   \* the spawned assigned-user lookup of a connection
  late      \* history: sessions whose lookup came after the read loop's cleanup

userVars == <<users, lookup, late>>
uvars    == <<vars, userVars>>

UsersTypeOK ==
  /\ TypeOK
  /\ users \in SUBSET Conn
  /\ lookup \in [Conn -> {"off", "query", "end"}]
  /\ late \in SUBSET Conn

UInit ==
  /\ Init
  /\ users = {}
  /\ lookup = [c \in Conn |-> "off"]
  /\ late = {}

\* The lookup is spawned just before the session is registered, which removes any
\* user of the session id; one that answers before that is as good as a miss.
Spawns(c) ==
  /\ Register(c)
  /\ lookup' = [lookup EXCEPT ![c] = "query"]
  /\ UNCHANGED <<users, late>>

\* The read loop's cleanup has already erased the session.
Erased(c) == pc[c]["read"] \in Cleared \cup {"cl_slot", "end"}

\* The room has an assigned user: the session becomes that user's.
LookupFinds(c) ==
  /\ lookup[c] = "query"
  /\ lookup' = [lookup EXCEPT ![c] = "end"]
  /\ users' = users \cup {c}
  /\ late' = IF Erased(c) THEN late \cup {c} ELSE late
  /\ UNCHANGED vars

\* No row, no assigned user, or the query failed.
LookupMisses(c) ==
  /\ lookup[c] = "query"
  /\ lookup' = [lookup EXCEPT ![c] = "end"]
  /\ UNCHANGED <<vars, users, late>>

\* /auth signed in, or it did not; the other queries change nothing.
Answered(c) ==
  /\ QueryDone(c)
  /\ users' \in {users, users \cup {c}}
  /\ UNCHANGED <<lookup, late>>

\* Mutant: only the ping task's cleanup erases the user.
Erases_PingOnly(c, t) ==
  /\ CleanMaps(c, t)
  /\ users' = IF t = "ping" THEN users \ {c} ELSE users
  /\ UNCHANGED <<lookup, late>>

\* cleanup_session, by the read loop or the ping task.
Erases(c, t) ==
  /\ CleanMaps(c, t)
  /\ users' = users \ {c}
  /\ UNCHANGED <<lookup, late>>

\* The relay's other steps leave the map alone.
Elsewhere(c) ==
  /\ \/ Upgrade(c)
     \/ Frame(c)
     \/ Fault(c)
     \/ JoinStep(c) /\ ~Register(c)
     \/ ReadStep(c) /\ ~QueryDone(c) /\ ~CleanMaps(c, "read")
     \/ PingStep(c) /\ ~CleanMaps(c, "ping")
  /\ UNCHANGED userVars

UNext ==
  \E c \in Conn :
    \/ Spawns(c) \/ LookupFinds(c) \/ LookupMisses(c) \/ Answered(c)
    \/ Erases(c, "read") \/ Erases(c, "ping") \/ Elsewhere(c)

USpec == UInit /\ [][UNext]_uvars

\* The relay's own fairness; nothing waits for a lookup.
UFairSpec == USpec /\ Fairness

-----------------------------------------------------------------------------
(***************************************************************************)
(* A session that is gone keeps a user only when its lookup came after the *)
(* read loop's cleanup: an /auth in flight while the ping task tears the   *)
(* connection down is undone by the second cleanup.  (A late lookup's user *)
(* stays, although /users_online lists "users currently connected".)       *)
(***************************************************************************)
OnlyLateLookupsLinger == \A c \in users : Gone(c) => c \in late
=============================================================================
