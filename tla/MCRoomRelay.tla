---------------------------- MODULE MCRoomRelay ----------------------------
(***************************************************************************)
(* Small instances of RoomRelay: sockets of an agent that reconnects,      *)
(* masters, and connections with an unknown role.                          *)
(***************************************************************************)
EXTENDS RoomRelay, TLC

CONSTANTS
  Agents, Masters, Others,   \* Conn by role
  home, away,                \* room ids
  Away                       \* the connections that join the room away

MCConn   == Agents \cup Masters \cup Others
MCRoleOf == [c \in Conn |-> CASE c \in Agents  -> "client"
                              [] c \in Masters -> "master"
                              [] c \in Others  -> "other"]
MCRoomOf == [c \in Conn |-> IF c \in Away THEN away ELSE home]

\* Sockets of one role in one room are interchangeable.
Symmetry == Permutations(Agents)
=============================================================================
