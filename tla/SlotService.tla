----------------------------- MODULE SlotService -----------------------------
(***************************************************************************)
(* What the room relay promises to those who join, without its tasks, its  *)
(* sends and its double cleanups: a connection tries for its slot once; a  *)
(* master gets an empty slot only, a client always gets its own and        *)
(* displaces who is there; who is out of a slot stays out; and only a      *)
(* connection that has made its try is closed by the relay, for good.      *)
(***************************************************************************)
CONSTANTS
  Conn,    \* the connections that ever join
  Room,    \* the rooms
  RoleOf,  \* [Conn -> {"master", "client", "other"}]
  RoomOf,  \* [Conn -> Room]
  None     \* an empty slot

VARIABLES
  master,  \* [Room -> Conn \cup {None}]
  client,  \* [Room -> Conn \cup {None}]
  tried,   \* the connections that made their try
  closed   \* the connections the relay closed

slots == <<master, client, tried, closed>>

Init ==
  /\ master = [r \in Room |-> None]
  /\ client = [r \in Room |-> None]
  /\ tried  = {}
  /\ closed = {}

Tries(c, role) == RoleOf[c] = role /\ c \notin tried /\ tried' = tried \cup {c}

SeatMaster(c) ==
  /\ Tries(c, "master")
  /\ master[RoomOf[c]] = None
  /\ master' = [master EXCEPT ![RoomOf[c]] = c]
  /\ UNCHANGED <<client, closed>>

\* A second master stays connected, without a slot.
TurnAway(c) ==
  /\ Tries(c, "master")
  /\ master[RoomOf[c]] # None
  /\ UNCHANGED <<master, client, closed>>

SeatClient(c) ==
  /\ Tries(c, "client")
  /\ client' = [client EXCEPT ![RoomOf[c]] = c]
  /\ UNCHANGED <<master, closed>>

Refuse(c) ==
  /\ Tries(c, "other")
  /\ closed' = closed \cup {c}
  /\ UNCHANGED <<master, client>>

\* A command may empty both slots of a room at once.
Leave(out) ==
  /\ master' = [r \in Room |-> IF master[r] \in out THEN None ELSE master[r]]
  /\ client' = [r \in Room |-> IF client[r] \in out THEN None ELSE client[r]]
  /\ UNCHANGED <<tried, closed>>

Close(c) ==
  /\ c \notin closed /\ c \in tried
  /\ closed' = closed \cup {c}
  /\ UNCHANGED <<master, client, tried>>

Next ==
  \/ \E r \in Room : \E out \in SUBSET {master[r], client[r]} : Leave(out)
  \/ \E c \in Conn : SeatMaster(c) \/ TurnAway(c) \/ SeatClient(c) \/ Refuse(c) \/ Close(c)

Spec == Init /\ [][Next]_slots
=============================================================================
