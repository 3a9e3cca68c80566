--------------------------- MODULE MCRoomPresence ---------------------------
(***************************************************************************)
(* Small instances of RoomPresence: one machine whose agent opens one or   *)
(* two sockets, with or without a master in its room.                      *)
(***************************************************************************)
EXTENDS RoomPresence

CONSTANTS
  Agents, Masters,   \* Conn by role
  home               \* the machine's room

MCConn   == Agents \cup Masters
MCRoleOf == [c \in Conn |-> IF c \in Agents THEN "client" ELSE "master"]
MCRoomOf == [c \in Conn |-> home]
=============================================================================
