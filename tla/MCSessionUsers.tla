--------------------------- MODULE MCSessionUsers ---------------------------
(* Small instances of SessionUsers: one room, sockets by role. *)
EXTENDS SessionUsers

CONSTANTS Agents, Masters, Others, home

MCConn   == Agents \cup Masters \cup Others
MCRoleOf == [c \in Conn |-> IF c \in Agents THEN "client"
                            ELSE IF c \in Masters THEN "master" ELSE "other"]
MCRoomOf == [c \in Conn |-> home]
=============================================================================
