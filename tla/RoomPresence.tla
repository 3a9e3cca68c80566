---------------------------- MODULE RoomPresence ----------------------------
(***************************************************************************)
(* Who is shown online.  This module composes the relay (RoomRelay) with   *)
(* the writers of a machine's connected_client row:                        *)
(*   - the relay's cleanup_session, which flags the row offline after a    *)
(*     grace window, and its ping tasks, which stamp last_update;          *)
(*   - the agent's reassert_connected on every opened socket and its       *)
(*     15-minute heartbeat (Mastertech4.0 relay_control.rs,                *)
(*     tcp_listener.rs);                                                   *)
(*   - the axum server's heartbeat_sweep, which flags a row offline when   *)
(*     last_update is 30 minutes old.                                      *)
(* A room is one machine: its clients are the sockets its agent opens.     *)
(* A console's own connected=true write (receive.rs mark_row_connected) is *)
(* left out: it would only keep a row online longer.                       *)
(***************************************************************************)
EXTENDS RoomRelay

CONSTANTS
  GraceOn,   \* ws_disconnect_grace_secs > 0
  DbFails    \* a write to the row may fail

ASSUME GraceAssumption == GraceOn \in BOOLEAN /\ DbFails \in BOOLEAN

VARIABLES
  grace,      \* the deferred connected=false task of a departed client
  reassert,   \* the agent's connected=true write after a socket opened
  connected,  \* connected_client.connected, per machine
  fresh,      \* connected_client.last_update is less than 30 minutes old
  alive       \* the machine's agent process runs

presenceVars == <<grace, reassert, connected, fresh, alive>>
pvars        == <<vars, presenceVars>>

PresenceTypeOK ==
  /\ TypeOK
  /\ grace \in [Conn -> {"none", "sleep", "write", "done"}]
  /\ reassert \in [Conn -> {"none", "pending", "done"}]
  /\ connected \in [Room -> BOOLEAN]
  /\ fresh \in [Room -> BOOLEAN]
  /\ alive \in [Room -> BOOLEAN]

PInit ==
  /\ Init
  /\ grace = [c \in Conn |-> "none"]
  /\ reassert = [c \in Conn |-> "none"]
  /\ connected = [r \in Room |-> FALSE]
  /\ fresh = [r \in Room |-> FALSE]
  /\ alive = [r \in Room |-> TRUE]

IsClient(c) == RoleOf[c] = "client"

-----------------------------------------------------------------------------
(* Relay steps that schedule a write. *)

\* A running agent's socket opens: it spawns reassert_connected.
Opens(c) ==
  /\ Upgrade(c)
  /\ IsClient(c) => alive[RoomOf[c]]
  /\ reassert' = [reassert EXCEPT ![c] = IF IsClient(c) THEN "pending" ELSE @]
  /\ UNCHANGED <<grace, connected, fresh, alive>>

\* The departing owner of a client slot spawns the deferred offline write.
Departs(c, t) ==
  /\ CleanOwn(c, t)
  /\ grace' = IF IsClient(c)
              THEN [grace EXCEPT ![c] = IF GraceOn THEN "sleep" ELSE "write"]
              ELSE grace
  /\ UNCHANGED <<reassert, connected, fresh, alive>>

-----------------------------------------------------------------------------
(* The writers of the row.  A write is atomic and may fail; a failed one is  *)
(* only logged.                                                              *)

Writes(r, online) ==
  \/ connected' = [connected EXCEPT ![r] = online]
  \/ DbFails /\ UNCHANGED connected

\* The grace window is over: give up when the client slot is taken again.
GraceCheck(c) ==
  /\ grace[c] = "sleep"
  /\ grace' = [grace EXCEPT ![c] =
                 IF client[RoomOf[c]] # None THEN "done" ELSE "write"]
  /\ UNCHANGED <<vars, reassert, connected, fresh, alive>>

\* The UPDATE runs after the rooms lock is released.
GraceWrite(c) ==
  /\ grace[c] = "write"
  /\ grace' = [grace EXCEPT ![c] = "done"]
  /\ Writes(RoomOf[c], FALSE)
  /\ UNCHANGED <<vars, reassert, fresh, alive>>

\* Mutant: an upsert under the connection's id creates a row of its own.
Reassert_Upserts(c) ==
  /\ reassert[c] = "pending"
  /\ reassert' = [reassert EXCEPT ![c] = "done"]
  /\ connected' = [x \in Room \cup {c} |-> IF x = c THEN TRUE ELSE connected[x]]
  /\ UNCHANGED <<vars, grace, fresh, alive>>

\* WHERE connected == false: a row still true is left alone, last_update too.
Reassert(c) ==
  /\ reassert[c] = "pending"
  /\ reassert' = [reassert EXCEPT ![c] = "done"]
  /\ LET r == RoomOf[c] IN
       \/ /\ connected' = [connected EXCEPT ![r] = TRUE]
          /\ fresh' = IF connected[r] THEN fresh ELSE [fresh EXCEPT ![r] = TRUE]
       \/ DbFails /\ UNCHANGED <<connected, fresh>>
  /\ UNCHANGED <<vars, grace, alive>>

\* The agent's 15-minute timer: connected = true, last_update = now.
Heartbeat(r) ==
  /\ alive[r]
  /\ \/ /\ connected' = [connected EXCEPT ![r] = TRUE]
        /\ fresh' = [fresh EXCEPT ![r] = TRUE]
     \/ DbFails /\ UNCHANGED <<connected, fresh>>
  /\ UNCHANGED <<vars, grace, reassert, alive>>

\* A ping task whose ping went out stamps last_update of its room's row, whatever
\* its role (WS_ACTIVITY_WRITE_SECS, the global write limit permitting).
Stamp(c) ==
  /\ pc[c]["ping"] = "sleep" /\ ~evicted[c] /\ SendOk(c)
  /\ fresh' = [fresh EXCEPT ![RoomOf[c]] = TRUE]
  /\ UNCHANGED <<vars, grace, reassert, connected, alive>>

Stamped(r) == \E c \in Conn :
  RoomOf[c] = r /\ pc[c]["ping"] = "sleep" /\ ~evicted[c] /\ SendOk(c)

\* Thirty minutes pass in which no heartbeat and no ping task wrote last_update;
\* a pending write of the agent takes no such time.
Ages(r) ==
  /\ fresh[r] /\ ~alive[r] /\ ~Stamped(r)
  /\ \A c \in Conn : RoomOf[c] = r => reassert[c] # "pending"
  /\ fresh' = [fresh EXCEPT ![r] = FALSE]
  /\ UNCHANGED <<vars, grace, reassert, connected, alive>>

\* Mutant: the sweep's staleness comparison is the wrong way round.
Sweep_OnlyFresh(r) ==
  /\ connected[r] /\ fresh[r]
  /\ Writes(r, FALSE)
  /\ UNCHANGED <<vars, grace, reassert, fresh, alive>>

\* heartbeat_sweep: every minute, rows that say connected and are stale.
Sweep(r) ==
  /\ connected[r] /\ ~fresh[r]
  /\ Writes(r, FALSE)
  /\ UNCHANGED <<vars, grace, reassert, fresh, alive>>

\* The agent process dies (kill -9, BSOD, power loss): pending writes are lost,
\* and its sockets break or go silent with it.
Crash(r) ==
  /\ alive[r]
  /\ alive' = [alive EXCEPT ![r] = FALSE]
  /\ reassert' = [c \in Conn |-> IF RoomOf[c] = r /\ reassert[c] = "pending"
                                 THEN "done" ELSE reassert[c]]
  /\ \E how \in {"down", "mute"} :
       sock' = [c \in Conn |-> IF RoomOf[c] = r /\ IsClient(c)
                                  /\ sock[c] \in {"up", "stalled"}
                               THEN how ELSE sock[c]]
  /\ UNCHANGED <<roomVars, session, evicted, pc, peer, victims,
                 grace, connected, fresh>>

-----------------------------------------------------------------------------
Quiet(A) == A /\ UNCHANGED presenceVars

PJoin(c) == Quiet(JoinStep(c))
PRead(c) == Departs(c, "read") \/ Quiet(ReadQuiet(c) \/ CleanNotice(c, "read"))
PPing(c) == Departs(c, "ping") \/ Quiet(PingQuiet(c) \/ CleanNotice(c, "ping"))
PRow(c)  == GraceCheck(c) \/ GraceWrite(c) \/ Reassert(c)

PNext ==
  \/ \E c \in Conn :
       \/ Opens(c) \/ PJoin(c) \/ PRead(c) \/ PPing(c) \/ PRow(c) \/ Stamp(c)
       \/ Quiet(Frame(c) \/ Fault(c))
  \/ \E r \in Room : Heartbeat(r) \/ Ages(r) \/ Sweep(r) \/ Crash(r)

PSpec == PInit /\ [][PNext]_pvars

(***************************************************************************)
(* Fairness: the relay's tasks run, time passes, the sweep is a cron job   *)
(* that runs every minute.  Agents need not crash, dial or heartbeat; a    *)
(* row with a working ping task does not age (Stamped), so Stamp needs no  *)
(* fairness of its own.                                                    *)
(***************************************************************************)
PFairness ==
  /\ \A c \in Conn : /\ WF_pvars(PJoin(c)) /\ WF_pvars(PRead(c)) /\ WF_pvars(PPing(c))
                     /\ WF_pvars(PRow(c))
  /\ \A r \in Room : WF_pvars(Ages(r)) /\ WF_pvars(Sweep(r))

PFairSpec == PSpec /\ PFairness

-----------------------------------------------------------------------------
(* Properties. *)

(***************************************************************************)
(* The "catch-all" of heartbeat_sweep.rs: once a machine's agent has died, *)
(* its row says offline for good, by the relay's grace write or by the     *)
(* sweep.                                                                  *)
(***************************************************************************)
CrashedGoesOffline == \A r \in Room : ~alive[r] ~> [](~connected[r])

(***************************************************************************)
(* A departure is acted on once: however the read loop's and the ping      *)
(* task's cleanups interleave, the deferred offline write of a client is   *)
(* scheduled a single time, and by a client that is out of its slot.       *)
(***************************************************************************)
OneDeparture ==
  [][\A c \in Conn : grace[c] \in {"none", "done"} /\ grace'[c] \in {"sleep", "write"}
        => grace[c] = "none" /\ ~InSlot(c)]_pvars
=============================================================================
