------------------------------ MODULE RoomRelay ------------------------------
(***************************************************************************)
(* The room half of the relay (websocket_server2/src/main.rs): masters     *)
(* (admin consoles) and clients (machine agents) join a room over a        *)
(* WebSocket, the relay forwards frames between the two slots of the room, *)
(* and tears a connection down when its socket ends, goes silent, fails a  *)
(* send or is displaced.                                                   *)
(*                                                                         *)
(* Each connection runs three tasks: "join" is handle_ws up to its two     *)
(* tokio::spawn calls, "read" the read loop, "ping" the ping task; read    *)
(* and ping both end in cleanup_session.  One action is what a task does   *)
(* between two suspension points: a lock is taken, used and released, or   *)
(* one frame is sent.                                                      *)
(*                                                                         *)
(* user_map is modelled in SessionUsers, the database row and the notices  *)
(* in RoomPresence, which extends this module.                             *)
(***************************************************************************)
EXTENDS Naturals, FiniteSets

CONSTANTS
  Conn,      \* the connections (struct Conn); a session id is fresh per connection
  Room,      \* room ids
  None,      \* an empty Option
  RoleOf,    \* the role= query parameter of each connection
  RoomOf,    \* the room_id= query parameter of each connection
  Faults,    \* what sockets may do, a subset of AllFaults
  Commands   \* the slash commands connections type, a subset of AllCommands

AllFaults   == {"drop", "mute", "stall"}
AllCommands == {"remove", "remove_room", "query"}

ASSUME RoleAssumption    == RoleOf \in [Conn -> {"master", "client", "other"}]
ASSUME RoomAssumption    == RoomOf \in [Conn -> Room]
ASSUME NoneAssumption    == None \notin Conn
ASSUME FaultsAssumption  == Faults \subseteq AllFaults
ASSUME CommandAssumption == Commands \subseteq AllCommands

Task == {"join", "read", "ping"}

JoinPC  == {"init", "claim", "evictOld", "notify", "clearPeer", "evictPeer", "register"}
ReadPC  == {"loop", "forward", "clearTarget", "evictTarget", "evictAll", "db", "reply"}
CleanPC == {"cl_maps", "cl_slot", "cl_close", "cl_own", "cl_peer", "cl_notice"}
PC      == JoinPC \cup ReadPC \cup CleanPC \cup {"off", "sleep", "end"}

VARIABLES
  rooms,      \* keys of ChatServer.rooms
  master,     \* Room.master
  client,     \* Room.client
  held,       \* history: the connections that were ever given a slot
  session,    \* keys of ChatServer.session_map
  evicted,    \* Conn.evicted
  sock,       \* the socket: none, up, mute (half-open), stalled (a send blocks), down
  pc,         \* where each task of a connection stands
  peer,       \* a task's clone of the connection it is about to send to
  victims     \* the connections a task took out of a slot and has yet to evict

roomVars == <<rooms, master, client, held>>
sockVars == <<evicted, sock>>
vars     == <<roomVars, session, sockVars, pc, peer, victims>>

TypeOK ==
  /\ rooms \in SUBSET Room
  /\ master \in [Room -> Conn \cup {None}]
  /\ client \in [Room -> Conn \cup {None}]
  /\ held \in SUBSET Conn
  /\ session \in SUBSET Conn
  /\ evicted \in [Conn -> BOOLEAN]
  /\ sock \in [Conn -> {"none", "up", "mute", "stalled", "down"}]
  /\ pc \in [Conn -> [Task -> PC]]
  /\ peer \in [Conn -> [Task -> Conn \cup {None}]]
  /\ victims \in [Conn -> [Task -> SUBSET Conn]]

Init ==
  /\ rooms = {}
  /\ master = [r \in Room |-> None]
  /\ client = [r \in Room |-> None]
  /\ held = {}
  /\ session = {}
  /\ evicted = [c \in Conn |-> FALSE]
  /\ sock = [c \in Conn |-> "none"]
  /\ pc = [c \in Conn |-> [t \in Task |-> IF t = "join" THEN "init" ELSE "off"]]
  /\ peer = [c \in Conn |-> [t \in Task |-> None]]
  /\ victims = [c \in Conn |-> [t \in Task |-> {}]]

-----------------------------------------------------------------------------
(* The helpers of Conn and ChatServer. *)

Goto(c, t, l) == pc' = [pc EXCEPT ![c][t] = l]

\* Conn::send returns Ok, returns Err, or (stalled) has not returned yet.
SendOk(v)  == sock[v] \in {"up", "mute"}
SendErr(v) == sock[v] = "down"

\* Conn::evict: only the first call sends the Close frame, and gives up on a
\* stalled sink after ws_close_timeout_secs.  Sends fail once Close is out.
Evict(v) ==
  /\ evicted' = [evicted EXCEPT ![v] = TRUE]
  /\ sock' = [sock EXCEPT ![v] =
                IF ~evicted[v] /\ @ \in {"up", "mute"} THEN "down" ELSE @]

InMaster(c) == master[RoomOf[c]] = c
InClient(c) == client[RoomOf[c]] = c
InSlot(c)   == InMaster(c) \/ InClient(c)

\* Mutant: clear_slot without Arc::ptr_eq, whoever holds the slot loses it.
ClearSlot_AnyOwner(v) ==
  /\ master' = IF RoleOf[v] = "master" THEN [master EXCEPT ![RoomOf[v]] = None] ELSE master
  /\ client' = IF RoleOf[v] = "client" THEN [client EXCEPT ![RoomOf[v]] = None] ELSE client

\* Mutant: clear_slot forgets the master slot.
ClearSlot_ClientOnly(v) ==
  /\ master' = master
  /\ client' = IF RoleOf[v] = "client" /\ InClient(v)
               THEN [client EXCEPT ![RoomOf[v]] = None] ELSE client

\* clear_slot: empties v's slot when v still owns it (Arc::ptr_eq).
ClearSlot(v) ==
  /\ master' = IF RoleOf[v] = "master" /\ InMaster(v)
               THEN [master EXCEPT ![RoomOf[v]] = None] ELSE master
  /\ client' = IF RoleOf[v] = "client" /\ InClient(v)
               THEN [client EXCEPT ![RoomOf[v]] = None] ELSE client

-----------------------------------------------------------------------------
(* handle_ws: claim a slot, evict the displaced client, notify the peer. *)

\* The upgrade is answered and the socket opens; handle_ws runs later.
Upgrade(c) ==
  /\ pc[c]["join"] = "init"
  /\ Goto(c, "join", "claim")
  /\ sock' = [sock EXCEPT ![c] = "up"]
  /\ UNCHANGED <<roomVars, session, evicted, peer, victims>>

RejectRole(c) ==
  /\ pc[c]["join"] = "claim"
  /\ RoleOf[c] \notin {"master", "client"}
  /\ sock[c] # "stalled"
  /\ Evict(c)
  /\ Goto(c, "join", "end")
  /\ UNCHANGED <<roomVars, session, peer, victims>>

\* A master takes only an empty slot; a second one stays unregistered.
ClaimMaster(c) ==
  /\ pc[c]["join"] = "claim"
  /\ RoleOf[c] = "master"
  /\ LET r == RoomOf[c] IN
       /\ rooms' = rooms \cup {r}
       /\ master' = IF master[r] = None THEN [master EXCEPT ![r] = c] ELSE master
       /\ held' = IF master[r] = None THEN held \cup {c} ELSE held
       /\ peer' = [peer EXCEPT ![c]["join"] = client[r]]
       /\ Goto(c, "join", IF client[r] = None THEN "register" ELSE "notify")
  /\ UNCHANGED <<client, session, sockVars, victims>>

\* Mutant: a client, like a master, takes only an empty slot.
ClaimClient_OnlyEmpty(c) ==
  /\ pc[c]["join"] = "claim"
  /\ RoleOf[c] = "client"
  /\ LET r == RoomOf[c] IN
       /\ rooms' = rooms \cup {r}
       /\ client' = IF client[r] = None THEN [client EXCEPT ![r] = c] ELSE client
       /\ held' = IF client[r] = None THEN held \cup {c} ELSE held
       /\ peer' = [peer EXCEPT ![c]["join"] = master[r]]
       /\ Goto(c, "join", IF master[r] # None THEN "notify" ELSE "register")
  /\ UNCHANGED <<master, session, sockVars, victims>>

\* A client always takes the slot and displaces whoever holds it.
ClaimClient(c) ==
  /\ pc[c]["join"] = "claim"
  /\ RoleOf[c] = "client"
  /\ LET r == RoomOf[c] IN
       /\ rooms' = rooms \cup {r}
       /\ client' = [client EXCEPT ![r] = c]
       /\ held' = held \cup {c}
       /\ peer' = [peer EXCEPT ![c]["join"] = master[r]]
       /\ victims' = [victims EXCEPT ![c]["join"] = {client[r]} \ {None}]
       /\ Goto(c, "join", IF client[r] # None THEN "evictOld"
                          ELSE IF master[r] # None THEN "notify" ELSE "register")
  /\ UNCHANGED <<master, session, sockVars>>

\* MASTER_CONNECTED or CLIENT_CONNECTED goes to the peer found at the claim.
NotifyPeer(c) ==
  /\ pc[c]["join"] = "notify"
  /\ SendOk(peer[c]["join"])
  /\ peer' = [peer EXCEPT ![c]["join"] = None]
  /\ Goto(c, "join", "register")
  /\ UNCHANGED <<roomVars, session, sockVars, victims>>

NotifyPeerFails(c) ==
  /\ pc[c]["join"] = "notify"
  /\ SendErr(peer[c]["join"])
  /\ Goto(c, "join", "clearPeer")
  /\ UNCHANGED <<roomVars, session, sockVars, peer, victims>>

ClearPeer(c) ==
  /\ pc[c]["join"] = "clearPeer"
  /\ ClearSlot(peer[c]["join"])
  /\ victims' = [victims EXCEPT ![c]["join"] = {peer[c]["join"]}]
  /\ peer' = [peer EXCEPT ![c]["join"] = None]
  /\ Goto(c, "join", "evictPeer")
  /\ UNCHANGED <<rooms, held, session, sockVars>>

\* session_map.insert, then the read loop and the ping task are spawned.
Register(c) ==
  /\ pc[c]["join"] = "register"
  /\ session' = session \cup {c}
  /\ pc' = [pc EXCEPT ![c] = [t \in Task |->
              IF t = "join" THEN "end" ELSE IF t = "read" THEN "loop" ELSE "sleep"]]
  /\ UNCHANGED <<roomVars, sockVars, peer, victims>>

-----------------------------------------------------------------------------
(* Evicting what a task took out of a slot: the displaced client, a peer or  *)
(* target whose send failed, or what /remove and /remove_room took out       *)
(* (master before client).                                                   *)

EvictPC == {"evictOld", "evictPeer", "evictTarget", "evictAll"}

AfterEvict(c, t) ==
  CASE pc[c][t] = "evictOld"    -> IF peer[c][t] = None THEN "register" ELSE "notify"
    [] pc[c][t] = "evictPeer"   -> "register"
    [] pc[c][t] = "evictTarget" -> "loop"
    [] pc[c][t] = "evictAll"    -> "reply"

EvictVictim(c, t) ==
  /\ pc[c][t] \in EvictPC
  /\ \E v \in victims[c][t] :
       /\ RoleOf[v] = "master" \/ \A w \in victims[c][t] : RoleOf[w] # "master"
       /\ Evict(v)
       /\ victims' = [victims EXCEPT ![c][t] = @ \ {v}]
       /\ pc' = IF victims[c][t] = {v}
                THEN [pc EXCEPT ![c][t] = AfterEvict(c, t)] ELSE pc
  /\ UNCHANGED <<roomVars, session, peer>>

-----------------------------------------------------------------------------
(* The read loop and handle_message. *)

\* Biased select: eviction wins over a read; a closed or broken stream ends it.
ReadEnds(c) ==
  /\ pc[c]["read"] = "loop"
  /\ evicted[c] \/ sock[c] = "down"
  /\ Goto(c, "read", "cl_maps")
  /\ UNCHANGED <<roomVars, session, sockVars, peer, victims>>

\* A frame is there and the eviction branch of the select is not ready.
CanRead(c) ==
  /\ pc[c]["read"] = "loop"
  /\ ~evicted[c]
  /\ sock[c] \in {"up", "stalled"}

\* Whom handle_message forwards c's frame to: any master reaches the client,
\* only the registered client reaches the registered master.
Target(c) ==
  CASE RoomOf[c] \notin rooms -> None
    [] RoomOf[c] \in rooms /\ RoleOf[c] = "master" -> client[RoomOf[c]]
    [] RoomOf[c] \in rooms /\ RoleOf[c] # "master" ->
         IF InClient(c) THEN master[RoomOf[c]] ELSE None

\* ChatMessage::Send.  A frame of a session no longer in session_map, of a client
\* with no master, or for a room that is gone is dropped without a step.
RecvData(c) ==
  /\ CanRead(c)
  /\ c \in session
  /\ Target(c) # None
  /\ peer' = [peer EXCEPT ![c]["read"] = Target(c)]
  /\ Goto(c, "read", "forward")
  /\ UNCHANGED <<roomVars, session, sockVars, victims>>

\* A master with no client is told NO_AGENT_IN_ROOM.
RecvNoAgent(c) ==
  /\ CanRead(c)
  /\ c \in session
  /\ RoomOf[c] \in rooms /\ RoleOf[c] = "master" /\ Target(c) = None
  /\ Goto(c, "read", "reply")
  /\ UNCHANGED <<roomVars, session, sockVars, peer, victims>>

Forward(c) ==
  /\ pc[c]["read"] = "forward"
  /\ SendOk(peer[c]["read"])
  /\ peer' = [peer EXCEPT ![c]["read"] = None]
  /\ Goto(c, "read", "loop")
  /\ UNCHANGED <<roomVars, session, sockVars, victims>>

ForwardFails(c) ==
  /\ pc[c]["read"] = "forward"
  /\ SendErr(peer[c]["read"])
  /\ Goto(c, "read", "clearTarget")
  /\ UNCHANGED <<roomVars, session, sockVars, peer, victims>>

ClearTarget(c) ==
  /\ pc[c]["read"] = "clearTarget"
  /\ ClearSlot(peer[c]["read"])
  /\ victims' = [victims EXCEPT ![c]["read"] = {peer[c]["read"]}]
  /\ peer' = [peer EXCEPT ![c]["read"] = None]
  /\ Goto(c, "read", "evictTarget")
  /\ UNCHANGED <<rooms, held, session, sockVars>>

\* Mutant: the occupant is taken out of its slot but not evicted.
TakeOut_NoEvict(c, out) ==
  /\ victims' = victims
  /\ Goto(c, "read", "reply")

\* Mutant: an empty slot is evicted as if it held a connection.
TakeOut_EvictsEmpty(c, out) ==
  /\ victims' = [victims EXCEPT ![c]["read"] = IF out = {} THEN {None} ELSE out]
  /\ Goto(c, "read", "evictAll")

\* What /remove and /remove_room leave to evict before they reply.
TakeOut(c, out) ==
  /\ victims' = [victims EXCEPT ![c]["read"] = out]
  /\ Goto(c, "read", IF out = {} THEN "reply" ELSE "evictAll")

\* /remove <room_id> <role>: takes the occupant out of the slot, whoever it is.
RecvRemove(c, r, role) ==
  /\ CanRead(c)
  /\ "remove" \in Commands
  /\ TakeOut(c, {IF role = "master" THEN master[r] ELSE client[r]} \ {None})
  /\ master' = IF role = "master" THEN [master EXCEPT ![r] = None] ELSE master
  /\ client' = IF role = "client" THEN [client EXCEPT ![r] = None] ELSE client
  /\ UNCHANGED <<rooms, held, session, sockVars, peer>>

\* /remove_room <room_id>: drops the room and evicts both occupants.
RecvRemoveRoom(c, r) ==
  /\ CanRead(c)
  /\ "remove_room" \in Commands
  /\ TakeOut(c, {master[r], client[r]} \ {None})
  /\ rooms' = rooms \ {r}
  /\ master' = [master EXCEPT ![r] = None]
  /\ client' = [client EXCEPT ![r] = None]
  /\ UNCHANGED <<held, session, sockVars, peer>>

\* /auth, /my_connections, /users_online, /list, /help: they change no slot, but
\* the loop waits for the database and for the reply.
RecvQuery(c) ==
  /\ CanRead(c)
  /\ "query" \in Commands
  /\ Goto(c, "read", "db")
  /\ UNCHANGED <<roomVars, session, sockVars, peer, victims>>

QueryDone(c) ==
  /\ pc[c]["read"] = "db"
  /\ Goto(c, "read", "reply")
  /\ UNCHANGED <<roomVars, session, sockVars, peer, victims>>

\* The reply's result is ignored, but the loop waits for the send.
Reply(c) ==
  /\ pc[c]["read"] = "reply"
  /\ sock[c] # "stalled"
  /\ Goto(c, "read", "loop")
  /\ UNCHANGED <<roomVars, session, sockVars, peer, victims>>

-----------------------------------------------------------------------------
(* The ping task.  A ping that is answered changes nothing modelled here; the *)
(* is_evicted test precedes the send, so an eviction in between is met by the *)
(* send failing.                                                              *)

PingStops(c) ==
  /\ pc[c]["ping"] = "sleep"
  /\ evicted[c]
  /\ Goto(c, "ping", "end")
  /\ UNCHANGED <<roomVars, session, sockVars, peer, victims>>

PingFails(c) ==
  /\ pc[c]["ping"] = "sleep"
  /\ SendErr(c)
  /\ Goto(c, "ping", "cl_maps")
  /\ UNCHANGED <<roomVars, session, sockVars, peer, victims>>

\* Mutant: the half-open check is gone, only failed sends are noticed.
PongTimedOut_Never(c) == pc[c]["ping"] = "sleep" /\ SendOk(c) /\ pc[c]["read"] = "db"

\* No inbound frame was stamped for ws_pong_timeout_secs: the socket is half-open,
\* or the read loop, the only place that stamps, is itself waiting for a send to a
\* stalled peer or for the database.
PongTimedOut(c) ==
  /\ pc[c]["ping"] = "sleep"
  /\ SendOk(c)
  /\ \/ sock[c] = "mute"
     \/ pc[c]["read"] = "forward" /\ sock[peer[c]["read"]] = "stalled"
     \/ pc[c]["read"] = "db"

PongTimeout(c) ==
  /\ PongTimedOut(c)
  /\ Evict(c)
  /\ Goto(c, "ping", "cl_maps")
  /\ UNCHANGED <<roomVars, session, peer, victims>>

-----------------------------------------------------------------------------
(* cleanup_session, run by the read loop and by the ping task. *)

\* Mutant: cleanup_session leaves the session registered.
CleanMaps_KeepsSession(c, t) ==
  /\ pc[c][t] = "cl_maps"
  /\ Goto(c, t, "cl_slot")
  /\ UNCHANGED <<roomVars, session, sockVars, peer, victims>>

CleanMaps(c, t) ==
  /\ pc[c][t] = "cl_maps"
  /\ session' = session \ {c}
  /\ Goto(c, t, "cl_slot")
  /\ UNCHANGED <<roomVars, sockVars, peer, victims>>

\* Mutant: every cleanup departs as the owner.
CleanSlot_AlwaysOwner(c, t) ==
  /\ pc[c][t] = "cl_slot"
  /\ ClearSlot(c)
  /\ Goto(c, t, "cl_own")
  /\ UNCHANGED <<rooms, held, session, sockVars, peer, victims>>

CleanSlot(c, t) ==
  /\ pc[c][t] = "cl_slot"
  /\ ClearSlot(c)
  /\ Goto(c, t, IF InSlot(c) THEN "cl_own" ELSE "cl_close")
  /\ UNCHANGED <<rooms, held, session, sockVars, peer, victims>>

\* Evict self; who did not own the slot stops here.
CleanClose(c, t) ==
  /\ pc[c][t] = "cl_close"
  /\ Evict(c)
  /\ Goto(c, t, "end")
  /\ UNCHANGED <<roomVars, session, peer, victims>>

\* Evict self; the owner goes on to the database write and the peer's notice.
CleanOwn(c, t) ==
  /\ pc[c][t] = "cl_own"
  /\ Evict(c)
  /\ Goto(c, t, "cl_peer")
  /\ UNCHANGED <<roomVars, session, peer, victims>>

CleanPeer(c, t) ==
  /\ pc[c][t] = "cl_peer"
  /\ LET p == IF RoleOf[c] = "master" THEN client[RoomOf[c]] ELSE master[RoomOf[c]]
     IN /\ peer' = [peer EXCEPT ![c][t] = p]
        /\ Goto(c, t, IF p = None THEN "end" ELSE "cl_notice")
  /\ UNCHANGED <<roomVars, session, sockVars, victims>>

\* MASTER_DISCONNECTED or CLIENT_DISCONNECTED; a failed notice is ignored.
CleanNotice(c, t) ==
  /\ pc[c][t] = "cl_notice"
  /\ sock[peer[c][t]] # "stalled"
  /\ peer' = [peer EXCEPT ![c][t] = None]
  /\ Goto(c, t, "end")
  /\ UNCHANGED <<roomVars, session, sockVars, victims>>

-----------------------------------------------------------------------------
(* What sockets do. *)

SockTurns(c, from, to) ==
  /\ sock[c] \in from
  /\ sock' = [sock EXCEPT ![c] = to]
  /\ UNCHANGED <<roomVars, session, evicted, pc, peer, victims>>

Drop(c)    == "drop"  \in Faults /\ SockTurns(c, {"up", "mute", "stalled"}, "down")
Mute(c)    == "mute"  \in Faults /\ SockTurns(c, {"up"}, "mute")
Stall(c)   == "stall" \in Faults /\ SockTurns(c, {"up"}, "stalled")
Unstall(c) == "stall" \in Faults /\ SockTurns(c, {"stalled"}, "up")
Fault(c)   == Drop(c) \/ Mute(c) \/ Stall(c) \/ Unstall(c)

-----------------------------------------------------------------------------
\* The steps that tell nobody of a client and schedule no database write.
JoinQuiet(c) ==
  \/ RejectRole(c) \/ ClaimMaster(c) \/ ClaimClient(c) \/ NotifyPeerFails(c)
  \/ ClearPeer(c) \/ Register(c) \/ EvictVictim(c, "join")

CleanQuiet(c, t) ==
  CleanMaps(c, t) \/ CleanSlot(c, t) \/ CleanClose(c, t) \/ CleanPeer(c, t)

ReadQuiet(c) ==
  \/ ReadEnds(c) \/ Forward(c) \/ ForwardFails(c) \/ ClearTarget(c)
  \/ QueryDone(c) \/ Reply(c) \/ EvictVictim(c, "read") \/ CleanQuiet(c, "read")

PingQuiet(c) ==
  PingStops(c) \/ PingFails(c) \/ PongTimeout(c) \/ CleanQuiet(c, "ping")

CleanLoud(c, t) == CleanOwn(c, t) \/ CleanNotice(c, t)

\* What each task does on its own; frames arrive when a peer sends them.
JoinStep(c) == NotifyPeer(c) \/ JoinQuiet(c)
ReadStep(c) == ReadQuiet(c) \/ CleanLoud(c, "read")
PingStep(c) == PingQuiet(c) \/ CleanLoud(c, "ping")

Frame(c) ==
  \/ RecvData(c) \/ RecvNoAgent(c) \/ RecvQuery(c)
  \/ \E r \in Room : \/ RecvRemoveRoom(c, r)
                     \/ \E role \in {"master", "client"} : RecvRemove(c, r, role)

Next ==
  \E c \in Conn :
    \/ Upgrade(c) \/ JoinStep(c) \/ ReadStep(c) \/ Frame(c) \/ PingStep(c) \/ Fault(c)

Spec == Init /\ [][Next]_vars

(***************************************************************************)
(* Fairness: the runtime keeps polling every task that can make progress,  *)
(* and the database answers.  Nothing makes a peer send frames, or a       *)
(* stalled socket drain.                                                   *)
(***************************************************************************)
Fairness ==
  \A c \in Conn : WF_vars(JoinStep(c)) /\ WF_vars(ReadStep(c)) /\ WF_vars(PingStep(c))

FairSpec == Spec /\ Fairness

-----------------------------------------------------------------------------
(* Properties. *)

\* The labels of a cleanup that has already run clear_slot.
Cleared == {"cl_close", "cl_own", "cl_peer", "cl_notice"}

(***************************************************************************)
(* A connection whose cleanup_session has cleared its slot never occupies  *)
(* the slot again, and only one of its two cleanups departs as the owner:  *)
(* the read loop and the ping task may both run it, in any interleaving    *)
(* with newer joins.                                                       *)
(***************************************************************************)
NoZombieInSlot ==
  \A c \in Conn :
    /\ InSlot(c) => /\ pc[c]["read"] \notin Cleared \cup {"end"}
                    /\ pc[c]["ping"] \notin Cleared
    /\ ~(pc[c]["read"] = "cl_own" /\ pc[c]["ping"] = "cl_own")

\* Some task is committed to evicting c.
BeingEvicted(c) ==
  \/ \E d \in Conn, t \in Task : c \in victims[d][t]
  \/ \E t \in Task : pc[c][t] = "cl_own"

(***************************************************************************)
(* "Evicted sockets are always closed": a connection that lost the slot it *)
(* held, by displacement, a failed send, /remove, /remove_room or its own  *)
(* cleanup, is evicted or some task is on its way to evict it.  A cleanup  *)
(* that emptied another connection's slot would leave that one ponging a   *)
(* room that no longer routes it.                                          *)
(***************************************************************************)
OustedIsClosed ==
  \A c \in held : InSlot(c) \/ evicted[c] \/ BeingEvicted(c)

\* A connection has made its try once the join is past its claim.
Slots == INSTANCE SlotService WITH
  tried  <- {c \in Conn : pc[c]["join"] \notin {"init", "claim"}},
  closed <- {c \in Conn : evicted[c]}

(***************************************************************************)
(* The relay serves slots as SlotService says, however its tasks           *)
(* interleave: one try per connection, no master displaced, nobody back in *)
(* a slot, and no eviction of a connection that has not joined.            *)
(***************************************************************************)
ServesSlots == Slots!Spec

Gone(c) == pc[c]["read"] = "end" /\ pc[c]["ping"] = "end" /\ c \notin session

(***************************************************************************)
(* Eviction is final and complete: wherever the eviction finds the join,   *)
(* read and ping tasks, all of them stop and the session is forgotten.     *)
(***************************************************************************)
EvictedIsForgotten ==
  \A c \in Conn : (evicted[c] /\ RoleOf[c] # "other") ~> Gone(c)

(***************************************************************************)
(* A slot does not stay with a dead socket: whether the socket broke or    *)
(* went half-open, and whoever finds out first, the slot is vacated or     *)
(* given to a newer connection.                                            *)
(***************************************************************************)
DeadSocketVacates ==
  \A c \in Conn : (InSlot(c) /\ sock[c] \in {"mute", "down"}) ~> ~InSlot(c)
=============================================================================
