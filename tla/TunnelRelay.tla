----------------------------- MODULE TunnelRelay -----------------------------
(***************************************************************************)
(* The /tunnel route of the relay (websocket_server2/src/main.rs): an      *)
(* admin and an agent each dial in with a one-time session id, the first   *)
(* one is parked, the second one takes the parked socket over, and the     *)
(* relay pumps binary frames between the two.                              *)
(*                                                                         *)
(* Slots carry no owner: remove_pending and the three teardowns remove an  *)
(* entry by session id alone.  A task's step is what it does between two   *)
(* suspension points: the slots lock, a send, a receive or a oneshot.      *)
(***************************************************************************)
EXTENDS Naturals, FiniteSets, Sequences

CONSTANTS
  Conn,        \* tunnel sockets
  Session,     \* session ids
  None,        \* an empty Option
  RoleOf,      \* the role= query parameter (TunnelRole::parse succeeded)
  SessionOf,   \* the session= query parameter
  Faults,      \* what sockets may do: "drop", "stall"
  MaxFrames,   \* bound: binary frames the remote end of each socket sends
  MaxActive,   \* MAX_TUNNEL_ACTIVE
  MaxPending,  \* MAX_TUNNEL_PENDING
  MaxBuffer    \* MAX_TUNNEL_BUFFER, in frames

ASSUME RoleAssumption    == RoleOf \in [Conn -> {"master", "client"}]
ASSUME SessionAssumption == SessionOf \in [Conn -> Session]
ASSUME NoneAssumption    == None \notin Conn
ASSUME BoundAssumption   == /\ MaxFrames \in [Conn -> Nat]
                            /\ {MaxActive, MaxPending, MaxBuffer} \subseteq Nat

\* A parked socket's task (park_tunnel); "handed" when it gave its halves away.
ParkPC == {"parked", "expiring", "removing", "handed"}
\* The arriving socket's task (pair_tunnel), until it removes the Active entry.
PairPC == {"reclaim", "await", "vanished", "tellPeer", "tellSelf", "deliver",
           "undelivered", "pump", "teardown"}
PC == ParkPC \cup PairPC \cup {"init", "join", "closePeer", "reject", "done"}

\* The two pump_copy futures, named by where they read.
Dir  == {"parked", "arrived"}
Flow == {"recv", "send", "close"}

VARIABLES
  slots,     \* the TunnelSlots map: no entry, Pending or Active
  pending,   \* whose reclaim sender the Pending entry holds
  pc,        \* where the task of each socket stands
  sock,      \* the socket: none, up, stalled (a send blocks), down
  peer,      \* an arriving socket's parked peer
  reclaim,   \* a parked socket's reclaim channel: who asked for its halves
  inbox,     \* frames the remote end sent and the relay has not read
  sent,      \* how many frames the remote end has sent
  buffered,  \* frames read while parked
  got,       \* the frames the relay sent to the remote end
  flow,      \* the two pump_copy futures of a pairing
  hand       \* the frame a pump_copy is sending

slotVars == <<slots, pending>>
dataVars == <<inbox, sent, buffered, got>>
pumpVars == <<flow, hand>>
vars     == <<slotVars, pc, sock, peer, reclaim, dataVars, pumpVars>>

TypeOK ==
  /\ slots \in [Session -> {"none", "pending", "active"}]
  /\ pending \in [Session -> Conn \cup {None}]
  /\ pc \in [Conn -> PC]
  /\ sock \in [Conn -> {"none", "up", "stalled", "down"}]
  /\ peer \in [Conn -> Conn \cup {None}]
  /\ reclaim \in [Conn -> Conn \cup {None}]
  /\ inbox \in [Conn -> Seq(Nat)]
  /\ sent \in [Conn -> Nat]
  /\ buffered \in [Conn -> Seq(Nat)] /\ \A c \in Conn : Len(buffered[c]) <= MaxBuffer
  /\ got \in [Conn -> Seq(Nat)]
  /\ flow \in [Conn -> [Dir -> Flow]]
  /\ hand \in [Conn -> [Dir -> Nat]]

Init ==
  /\ slots = [s \in Session |-> "none"]
  /\ pending = [s \in Session |-> None]
  /\ pc = [c \in Conn |-> "init"]
  /\ sock = [c \in Conn |-> "none"]
  /\ peer = [c \in Conn |-> None]
  /\ reclaim = [c \in Conn |-> None]
  /\ inbox = [c \in Conn |-> <<>>]
  /\ sent = [c \in Conn |-> 0]
  /\ buffered = [c \in Conn |-> <<>>]
  /\ got = [c \in Conn |-> <<>>]
  /\ flow = [c \in Conn |-> [d \in Dir |-> "recv"]]
  /\ hand = [c \in Conn |-> [d \in Dir |-> 0]]

Goto(c, l) == pc' = [pc EXCEPT ![c] = l]

SendOk(c)  == sock[c] = "up"
SendErr(c) == sock[c] = "down"

\* slots.remove(&session).
Remove(s) ==
  /\ slots' = [slots EXCEPT ![s] = "none"]
  /\ pending' = [pending EXCEPT ![s] = None]

\* The task that owns both halves of the sockets in C drops them.
Dropped(C) == sock' = [c \in Conn |-> IF c \in C THEN "down" ELSE sock[c]]

-----------------------------------------------------------------------------
(* tunnel_join: everything up to the release of the slots lock is one step.  *)

Dial(c) ==
  /\ pc[c] = "init"
  /\ Goto(c, "join")
  /\ sock' = [sock EXCEPT ![c] = "up"]
  /\ UNCHANGED <<slotVars, peer, reclaim, dataVars, pumpVars>>

InState(k) == {s \in Session : slots[s] = k}

\* The session is already paired.
RejectActive(c) ==
  /\ pc[c] = "join"
  /\ slots[SessionOf[c]] = "active"
  /\ Goto(c, "reject")
  /\ UNCHANGED <<slotVars, sock, peer, reclaim, dataVars, pumpVars>>

RejectDuplicate(c) ==
  /\ pc[c] = "join"
  /\ slots[SessionOf[c]] = "pending"
  /\ RoleOf[pending[SessionOf[c]]] = RoleOf[c]
  /\ Goto(c, "reject")
  /\ UNCHANGED <<slotVars, sock, peer, reclaim, dataVars, pumpVars>>

\* Mutant: any second socket of the session pairs, whatever its role.
Opposite_AnyRole(c) == slots[SessionOf[c]] = "pending" /\ c # pending[SessionOf[c]]

Opposite(c) ==
  /\ slots[SessionOf[c]] = "pending"
  /\ RoleOf[pending[SessionOf[c]]] # RoleOf[c]

\* Mutant: the active cap lets one tunnel too many in.
AtActiveCap_OffByOne == Cardinality(InState("active")) > MaxActive

\* Mutant: the count takes the session's own Pending entry for a tunnel.
AtActiveCap_CountsPending ==
  Cardinality(InState("active") \cup InState("pending")) >= MaxActive

AtActiveCap == Cardinality(InState("active")) >= MaxActive

\* The Pending entry taken out for the count is put back.
RejectActiveCap(c) ==
  /\ pc[c] = "join"
  /\ Opposite(c)
  /\ AtActiveCap
  /\ Goto(c, "reject")
  /\ UNCHANGED <<slotVars, sock, peer, reclaim, dataVars, pumpVars>>

Pair(c) ==
  /\ pc[c] = "join"
  /\ Opposite(c)
  /\ ~AtActiveCap
  /\ slots' = [slots EXCEPT ![SessionOf[c]] = "active"]
  /\ peer' = [peer EXCEPT ![c] = pending[SessionOf[c]]]
  /\ pending' = [pending EXCEPT ![SessionOf[c]] = None]
  /\ Goto(c, "reclaim")
  /\ UNCHANGED <<sock, reclaim, dataVars, pumpVars>>

RejectPendingCap(c) ==
  /\ pc[c] = "join"
  /\ slots[SessionOf[c]] = "none"
  /\ Cardinality(InState("pending")) >= MaxPending
  /\ Goto(c, "reject")
  /\ UNCHANGED <<slotVars, sock, peer, reclaim, dataVars, pumpVars>>

Park(c) ==
  /\ pc[c] = "join"
  /\ slots[SessionOf[c]] = "none"
  /\ Cardinality(InState("pending")) < MaxPending
  /\ slots' = [slots EXCEPT ![SessionOf[c]] = "pending"]
  /\ pending' = [pending EXCEPT ![SessionOf[c]] = c]
  /\ Goto(c, "parked")
  /\ UNCHANGED <<sock, peer, reclaim, dataVars, pumpVars>>

\* close_sink: the result of sending Close is ignored.  What the task still
\* owns drops: its own socket and, after a failed delivery, the peer's.
CloseSelf(c) ==
  /\ pc[c] = "reject"
  /\ sock[c] # "stalled"
  /\ Dropped({c, peer[c]})
  /\ Goto(c, "done")
  /\ UNCHANGED <<slotVars, peer, reclaim, dataVars, pumpVars>>

-----------------------------------------------------------------------------
(* park_tunnel.  The select is biased: reclaim, then the TTL, then a frame.  *)

HandOver(c) ==
  /\ pc[c] = "parked"
  /\ reclaim[c] # None
  /\ Goto(c, "handed")
  /\ UNCHANGED <<slotVars, sock, peer, reclaim, dataVars, pumpVars>>

Expire(c) ==
  /\ pc[c] = "parked"
  /\ reclaim[c] = None
  /\ Goto(c, "expiring")
  /\ UNCHANGED <<slotVars, sock, peer, reclaim, dataVars, pumpVars>>

\* Mutant: the buffer takes one frame too many.
BufferFull_OffByOne(c) == Len(buffered[c]) > MaxBuffer

BufferFull(c) == Len(buffered[c]) >= MaxBuffer

\* A frame past MAX_TUNNEL_BUFFER closes the parked socket.
ParkRead(c) ==
  /\ pc[c] = "parked"
  /\ reclaim[c] = None
  /\ inbox[c] # <<>>
  /\ inbox' = [inbox EXCEPT ![c] = Tail(@)]
  /\ \/ /\ ~BufferFull(c)
        /\ buffered' = [buffered EXCEPT ![c] = Append(@, Head(inbox[c]))]
        /\ UNCHANGED pc
     \/ /\ BufferFull(c)
        /\ Goto(c, "expiring")
        /\ UNCHANGED buffered
  /\ UNCHANGED <<slotVars, sock, peer, reclaim, sent, got, pumpVars>>

\* The parked socket closed or broke (what it had sent may be lost with it).
ParkClosed(c) ==
  /\ pc[c] = "parked"
  /\ reclaim[c] = None
  /\ sock[c] = "down"
  /\ Goto(c, "removing")
  /\ UNCHANGED <<slotVars, sock, peer, reclaim, dataVars, pumpVars>>

SendClose(c) ==
  /\ pc[c] = "expiring"
  /\ sock[c] # "stalled"
  /\ Goto(c, "removing")
  /\ UNCHANGED <<slotVars, sock, peer, reclaim, dataVars, pumpVars>>

\* Mutant: remove_pending without its matches!(.., Pending(_)) guard.
RemovePending_AnyState(c) ==
  /\ pc[c] = "removing"
  /\ Remove(SessionOf[c])
  /\ Dropped({c})
  /\ Goto(c, "done")
  /\ UNCHANGED <<peer, reclaim, dataVars, pumpVars>>

\* remove_pending, then the task returns: its halves and its receiver drop.
RemovePending(c) ==
  /\ pc[c] = "removing"
  /\ IF slots[SessionOf[c]] = "pending" THEN Remove(SessionOf[c]) ELSE UNCHANGED slotVars
  /\ Dropped({c})
  /\ Goto(c, "done")
  /\ UNCHANGED <<peer, reclaim, dataVars, pumpVars>>

-----------------------------------------------------------------------------
(* pair_tunnel. *)

\* peer.reclaim.send fails once the parked task has returned.
Reclaim(c) ==
  /\ pc[c] = "reclaim"
  /\ IF pc[peer[c]] = "done"
     THEN Goto(c, "vanished") /\ UNCHANGED reclaim
     ELSE Goto(c, "await") /\ reclaim' = [reclaim EXCEPT ![peer[c]] = c]
  /\ UNCHANGED <<slotVars, sock, peer, dataVars, pumpVars>>

AwaitParts(c) ==
  /\ pc[c] = "await"
  /\ pc[peer[c]] \in {"handed", "done"}
  /\ Goto(c, IF pc[peer[c]] = "handed" THEN "tellPeer" ELSE "vanished")
  /\ UNCHANGED <<slotVars, sock, peer, reclaim, dataVars, pumpVars>>

\* Mutant: the reject path forgets the Active entry.
Vanished_KeepsSlot(c) ==
  /\ pc[c] = "vanished"
  /\ Goto(c, "reject")
  /\ UNCHANGED <<slotVars, sock, peer, reclaim, dataVars, pumpVars>>

Vanished(c) ==
  /\ pc[c] = "vanished"
  /\ Remove(SessionOf[c])
  /\ Goto(c, "reject")
  /\ UNCHANGED <<sock, peer, reclaim, dataVars, pumpVars>>

\* PAIRED to the parked socket, then to the arriving one; errors are ignored.
TellPeer(c) ==
  /\ pc[c] = "tellPeer"
  /\ sock[peer[c]] # "stalled"
  /\ Goto(c, "tellSelf")
  /\ UNCHANGED <<slotVars, sock, peer, reclaim, dataVars, pumpVars>>

TellSelf(c) ==
  /\ pc[c] = "tellSelf"
  /\ sock[c] # "stalled"
  /\ Goto(c, "deliver")
  /\ UNCHANGED <<slotVars, sock, peer, reclaim, dataVars, pumpVars>>

\* Mutant: the pumps start before the buffered frames are out.
Deliver_Late(c) ==
  /\ pc[c] = "deliver"
  /\ Goto(c, "pump")
  /\ hand' = [hand EXCEPT ![c]["parked"] = IF buffered[peer[c]] # <<>> /\ inbox[peer[c]] # <<>>
                                           THEN Head(inbox[peer[c]]) ELSE 0]
  /\ flow' = [flow EXCEPT ![c]["parked"] = IF hand'[c]["parked"] # 0 THEN "send" ELSE "recv"]
  /\ UNCHANGED <<slotVars, sock, peer, reclaim, dataVars>>

\* The buffered frames, oldest first, then the two pumps.
Deliver(c) ==
  /\ pc[c] = "deliver"
  /\ \/ /\ buffered[peer[c]] = <<>>
        /\ Goto(c, "pump")
        /\ UNCHANGED <<buffered, got>>
     \/ /\ buffered[peer[c]] # <<>> /\ SendOk(c)
        /\ got' = [got EXCEPT ![c] = Append(@, Head(buffered[peer[c]]))]
        /\ buffered' = [buffered EXCEPT ![peer[c]] = Tail(@)]
        /\ UNCHANGED pc
     \/ /\ buffered[peer[c]] # <<>> /\ SendErr(c)
        /\ Goto(c, "undelivered")
        /\ UNCHANGED <<buffered, got>>
  /\ UNCHANGED <<slotVars, sock, peer, reclaim, inbox, sent, pumpVars>>

Undelivered(c) ==
  /\ pc[c] = "undelivered"
  /\ Remove(SessionOf[c])
  /\ Goto(c, "closePeer")
  /\ UNCHANGED <<sock, peer, reclaim, dataVars, pumpVars>>

ClosePeer(c) ==
  /\ pc[c] = "closePeer"
  /\ sock[peer[c]] # "stalled"
  /\ Goto(c, "reject")
  /\ UNCHANGED <<slotVars, sock, peer, reclaim, dataVars, pumpVars>>

-----------------------------------------------------------------------------
(* The two pump_copy futures; select! ends with the first one that does.     *)

From(c, d) == IF d = "parked" THEN peer[c] ELSE c
To(c, d)   == IF d = "parked" THEN c ELSE peer[c]

PumpRead(c, d) ==
  /\ pc[c] = "pump" /\ flow[c][d] = "recv"
  /\ inbox[From(c, d)] # <<>>
  /\ hand' = [hand EXCEPT ![c][d] = Head(inbox[From(c, d)])]
  /\ inbox' = [inbox EXCEPT ![From(c, d)] = Tail(@)]
  /\ flow' = [flow EXCEPT ![c][d] = "send"]
  /\ UNCHANGED <<slotVars, pc, sock, peer, reclaim, sent, buffered, got>>

PumpSend(c, d) ==
  /\ pc[c] = "pump" /\ flow[c][d] = "send"
  /\ SendOk(To(c, d))
  /\ got' = [got EXCEPT ![To(c, d)] = Append(@, hand[c][d])]
  /\ hand' = [hand EXCEPT ![c][d] = 0]
  /\ flow' = [flow EXCEPT ![c][d] = "recv"]
  /\ UNCHANGED <<slotVars, pc, sock, peer, reclaim, inbox, sent, buffered>>

\* "peer send failed".
PumpSendFails(c, d) ==
  /\ pc[c] = "pump" /\ flow[c][d] = "send"
  /\ SendErr(To(c, d))
  /\ hand' = [hand EXCEPT ![c][d] = 0]
  /\ flow' = [flow EXCEPT ![c][d] = "close"]
  /\ UNCHANGED <<slotVars, pc, sock, peer, reclaim, dataVars>>

\* "close frame", "read error", "stream ended" or "idle timeout".
PumpStops(c, d) ==
  /\ pc[c] = "pump" /\ flow[c][d] = "recv"
  /\ sock[From(c, d)] = "down" \/ inbox[From(c, d)] = <<>>
  /\ flow' = [flow EXCEPT ![c][d] = "close"]
  /\ UNCHANGED <<slotVars, pc, sock, peer, reclaim, dataVars, hand>>

PumpCloses(c, d) ==
  /\ pc[c] = "pump" /\ flow[c][d] = "close"
  /\ sock[To(c, d)] # "stalled"
  /\ Goto(c, "teardown")
  /\ UNCHANGED <<slotVars, sock, peer, reclaim, dataVars, pumpVars>>

\* The entry goes, and with the task all four halves.
Teardown(c) ==
  /\ pc[c] = "teardown"
  /\ Remove(SessionOf[c])
  /\ Dropped({c, peer[c]})
  /\ Goto(c, "done")
  /\ UNCHANGED <<peer, reclaim, dataVars, pumpVars>>

-----------------------------------------------------------------------------
(* The remote ends. *)

\* One binary frame (numbered); a stalled end does not read but may send.
RemoteSends(c) ==
  /\ sock[c] \in {"up", "stalled"}
  /\ sent[c] < MaxFrames[c]
  /\ sent' = [sent EXCEPT ![c] = @ + 1]
  /\ inbox' = [inbox EXCEPT ![c] = Append(@, sent[c] + 1)]
  /\ UNCHANGED <<slotVars, pc, sock, peer, reclaim, buffered, got, pumpVars>>

SockTurns(c, from, to) ==
  /\ sock[c] \in from
  /\ sock' = [sock EXCEPT ![c] = to]
  /\ UNCHANGED <<slotVars, pc, peer, reclaim, dataVars, pumpVars>>

Drop(c)    == "drop"  \in Faults /\ SockTurns(c, {"up", "stalled"}, "down")
Stall(c)   == "stall" \in Faults /\ SockTurns(c, {"up"}, "stalled")
Unstall(c) == "stall" \in Faults /\ SockTurns(c, {"stalled"}, "up")
Fault(c)   == Drop(c) \/ Stall(c) \/ Unstall(c)

-----------------------------------------------------------------------------
JoinStep(c) ==
  \/ RejectActive(c) \/ RejectDuplicate(c) \/ RejectActiveCap(c) \/ Pair(c)
  \/ RejectPendingCap(c) \/ Park(c) \/ CloseSelf(c)

ParkStep(c) ==
  \/ HandOver(c) \/ Expire(c) \/ ParkRead(c) \/ ParkClosed(c)
  \/ SendClose(c) \/ RemovePending(c)

PairStep(c) ==
  \/ Reclaim(c) \/ AwaitParts(c) \/ Vanished(c) \/ TellPeer(c) \/ TellSelf(c)
  \/ Deliver(c) \/ Undelivered(c) \/ ClosePeer(c) \/ Teardown(c)

PumpStep(c, d) ==
  \/ PumpRead(c, d) \/ PumpSend(c, d) \/ PumpSendFails(c, d)
  \/ PumpStops(c, d) \/ PumpCloses(c, d)

TaskStep(c) == JoinStep(c) \/ ParkStep(c) \/ PairStep(c) \/ \E d \in Dir : PumpStep(c, d)

Next ==
  \E c \in Conn : Dial(c) \/ TaskStep(c) \/ RemoteSends(c) \/ Fault(c)

Spec == Init /\ [][Next]_vars

(***************************************************************************)
(* Fairness: the runtime keeps polling every task that can make progress,  *)
(* and the TTL and idle timers fire.  A pump with frames to read is not    *)
(* obliged to time out (PumpStops needs an empty inbox), and nothing       *)
(* makes a stalled remote end drain.                                       *)
(***************************************************************************)
Fairness ==
  \A c \in Conn :
    /\ WF_vars(JoinStep(c)) /\ WF_vars(ParkStep(c)) /\ WF_vars(PairStep(c))
    /\ \A d \in Dir : WF_vars(PumpStep(c, d))

FairSpec == Spec /\ Fairness

-----------------------------------------------------------------------------
(* Properties. *)

Parked(c)  == pc[c] \in ParkPC \ {"handed"}
Pairing(c) == pc[c] \in PairPC

\* Who holds the entry of a session: the parked socket, or a pairing task's two.
Ends(s) ==
  IF slots[s] = "pending" THEN {pending[s]}
  ELSE {e \in Conn : \E c \in Conn : Pairing(c) /\ SessionOf[c] = s /\ e \in {c, peer[c]}}

Tunnel == INSTANCE TunnelService WITH
  slot   <- slots,
  ends   <- [s \in Session |-> Ends(s)],
  joined <- {c \in Conn : pc[c] \notin {"init", "join"}}

(***************************************************************************)
(* The tunnel route serves as TunnelService says: whatever joins, expiries *)
(* and teardowns race, a socket is turned away only when it may neither    *)
(* park nor pair, and a frame reaches only the other end of a live tunnel, *)
(* after it was sent and after all before it.                              *)
(***************************************************************************)
ServesTunnels == Tunnel!Spec

(***************************************************************************)
(* Every removal of a slot by bare session id hits the remover's own       *)
(* entry: an Active entry belongs to exactly one pairing task, a Pending   *)
(* entry to a parked task still there to answer, and a parked task that    *)
(* lost its entry lost it to the pairing that waits for its halves.        *)
(***************************************************************************)
SlotsHaveOwners ==
  \A s \in Session :
    /\ slots[s] = "active" <=> \E c \in Conn : SessionOf[c] = s /\ Pairing(c)
    /\ \A c, d \in Conn : Pairing(c) /\ Pairing(d) /\ SessionOf[c] = SessionOf[d] => c = d
    /\ slots[s] = "pending" =>
         pending[s] \in Conn /\ SessionOf[pending[s]] = s /\ Parked(pending[s])
    /\ \A c \in Conn : SessionOf[c] = s /\ Parked(c) =>
         \/ slots[s] = "pending" /\ pending[s] = c
         \/ \E d \in Conn : pc[d] \in {"reclaim", "await"} /\ peer[d] = c

(***************************************************************************)
(* A tunnel joins an admin and an agent of one session, and no socket      *)
(* serves in two tunnels.                                                  *)
(***************************************************************************)
TunnelsArePairs ==
  \A c \in Conn : pc[c] \in {"tellPeer", "tellSelf", "deliver", "pump"} =>
    /\ SessionOf[peer[c]] = SessionOf[c] /\ RoleOf[peer[c]] # RoleOf[c]
    /\ pc[peer[c]] = "handed"
    /\ \A d \in Conn : d # c /\ Pairing(d) => peer[d] \notin {c, peer[c]}

(***************************************************************************)
(* The relay forwards a session's frames verbatim: what reaches an end is  *)
(* what the other end sent, in order and without a gap, across the switch  *)
(* from the parking buffer to the pump.                                    *)
(***************************************************************************)
InOrder ==
  \A c \in Conn : \A i \in 1..Len(got[c]) : got[c][i] = i

\* The caps on parked and paired sessions hold whatever joins race.
CapsHold ==
  /\ Cardinality(InState("active")) <= MaxActive
  /\ Cardinality(InState("pending")) <= MaxPending

(***************************************************************************)
(* A session's slot is given back, whether the session pairs, expires,     *)
(* overflows or breaks half-way, unless a socket that does not drain holds *)
(* up one of the relay's sends, none of which has a deadline.              *)
(***************************************************************************)
SlotsAreFreed ==
  \A s \in Session :
    slots[s] # "none" ~>
      (slots[s] = "none" \/ \E c \in Conn : SessionOf[c] = s /\ sock[c] = "stalled")
=============================================================================
