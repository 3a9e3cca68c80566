------------------------- MODULE TunnelRelay_proofs -------------------------
(***************************************************************************)
(* TunnelRelay, proved for any number of sockets and sessions and any      *)
(* caps: the variables keep their types, every removal of a slot by bare   *)
(* session id hits the remover's own entry, tunnels join one admin and one *)
(* agent of one session, the caps hold and frames arrive in order.         *)
(***************************************************************************)
EXTENDS TunnelRelay, FiniteSetTheorems, TLAPS

USE DEF PC, ParkPC, PairPC, Dir, Flow, Goto, slotVars, dataVars, pumpVars

\* A pairing task has a peer of its own, of its session and the other role,
\* whose task is or was that of a parked socket.
PeersMatch ==
  /\ \A d \in Conn : peer[d] # None =>
       /\ SessionOf[peer[d]] = SessionOf[d] /\ RoleOf[peer[d]] # RoleOf[d]
       /\ pc[peer[d]] \in ParkPC \cup {"done"}
       /\ pc[d] \in PairPC \cup {"closePeer", "reject", "done"}
  /\ \A d \in Conn : pc[d] \in PairPC \cup {"closePeer"} => peer[d] # None
  /\ \A c, d \in Conn : peer[c] = peer[d] /\ peer[c] # None => c = d

\* Only the pairing that took a socket's Pending entry asks for its halves.
ReclaimsMatch ==
  /\ \A c \in Conn : reclaim[c] # None => peer[reclaim[c]] = c
  /\ \A s \in Session : slots[s] = "pending" => \A d \in Conn : peer[d] # pending[s]

\* Past the await, the pairing owns the halves of its peer.
HalvesOwned ==
  \A d \in Conn : pc[d] \in {"tellPeer", "tellSelf", "deliver", "undelivered", "pump", "teardown"}
                    => pc[peer[d]] = "handed"

-----------------------------------------------------------------------------
(* Types. *)

LEMMA TypingInit == Init => TypeOK
BY BoundAssumption DEF Init, TypeOK

\* A frame moves from the front of one queue to the back of another.
LEMMA QueueTypes ==
  ASSUME NEW q \in Seq(Nat)
  PROVE  /\ q # <<>> => /\ Head(q) \in Nat /\ Tail(q) \in Seq(Nat)
                        /\ Len(q) \in Nat /\ Len(Tail(q)) = Len(q) - 1
         /\ \A x \in Nat : Append(q, x) \in Seq(Nat) /\ Len(Append(q, x)) = Len(q) + 1
OBVIOUS

LEMMA JoinTyping ==
  ASSUME TypeOK, NEW c \in Conn, Dial(c) \/ JoinStep(c)
  PROVE  TypeOK'
<1> USE SessionAssumption DEF TypeOK
<1>1. CASE Dial(c)
  BY <1>1 DEF Dial
<1>2. CASE RejectActive(c)
  BY <1>2 DEF RejectActive
<1>3. CASE RejectDuplicate(c)
  BY <1>3 DEF RejectDuplicate
<1>4. CASE RejectActiveCap(c)
  BY <1>4 DEF RejectActiveCap
<1>5. CASE Pair(c)
  BY <1>5 DEF Pair
<1>6. CASE RejectPendingCap(c)
  BY <1>6 DEF RejectPendingCap
<1>7. CASE Park(c)
  BY <1>7 DEF Park
<1>8. CASE CloseSelf(c)
  BY <1>8 DEF CloseSelf, Dropped
<1> QED
  BY <1>1, <1>2, <1>3, <1>4, <1>5, <1>6, <1>7, <1>8 DEF JoinStep

LEMMA ParkTyping ==
  ASSUME TypeOK, NEW c \in Conn, ParkStep(c)
  PROVE  TypeOK'
<1> USE SessionAssumption, BoundAssumption DEF TypeOK
<1>1. CASE HandOver(c)
  BY <1>1 DEF HandOver
<1>2. CASE Expire(c)
  BY <1>2 DEF Expire
<1>3. CASE ParkRead(c)
  <2>1. /\ inbox[c] \in Seq(Nat) /\ Head(inbox[c]) \in Nat /\ Tail(inbox[c]) \in Seq(Nat)
        /\ buffered[c] \in Seq(Nat)
    BY <1>3, QueueTypes DEF ParkRead
  <2>2. inbox' \in [Conn -> Seq(Nat)]
    BY <1>3, <2>1 DEF ParkRead
  <2>3. CASE BufferFull(c)
    BY <1>3, <2>2, <2>3 DEF ParkRead
  <2>4. CASE ~BufferFull(c)
    <3> DEFINE q == Append(buffered[c], Head(inbox[c]))
    <3>1. q \in Seq(Nat) /\ Len(q) <= MaxBuffer
      BY <2>1, <2>4, QueueTypes DEF BufferFull
    <3>2. buffered' = [buffered EXCEPT ![c] = q]
      BY <1>3, <2>4 DEF ParkRead
    <3> HIDE DEF q
    <3>3. buffered' \in [Conn -> Seq(Nat)] /\ \A e \in Conn : Len(buffered'[e]) <= MaxBuffer
      BY <3>1, <3>2
    <3> QED
      BY <1>3, <2>2, <2>4, <3>3 DEF ParkRead
  <2> QED
    BY <2>3, <2>4
<1>4. CASE ParkClosed(c)
  BY <1>4 DEF ParkClosed
<1>5. CASE SendClose(c)
  BY <1>5 DEF SendClose
<1>6. CASE RemovePending(c)
  BY <1>6 DEF RemovePending, Remove, Dropped
<1> QED
  BY <1>1, <1>2, <1>3, <1>4, <1>5, <1>6 DEF ParkStep

LEMMA PairTyping ==
  ASSUME TypeOK, NEW c \in Conn, PairStep(c), pc[c] \in PairPC \cup {"closePeer"} => peer[c] # None
  PROVE  TypeOK'
<1> USE SessionAssumption, BoundAssumption DEF TypeOK
<1>1. CASE Reclaim(c)
  <2>1. peer[c] \in Conn
    BY <1>1 DEF Reclaim
  <2>2. pc' \in [Conn -> PC] /\ UNCHANGED <<slotVars, sock, peer, dataVars, pumpVars>>
    BY <1>1 DEF Reclaim
  <2>3. reclaim' \in [Conn -> Conn \cup {None}]
    <3>1. UNCHANGED reclaim \/ reclaim' = [reclaim EXCEPT ![peer[c]] = c]
      BY <1>1 DEF Reclaim
    <3> HIDE DEF TypeOK
    <3>2. reclaim \in [Conn -> Conn \cup {None}]
      BY DEF TypeOK
    <3> QED
      BY <2>1, <3>1, <3>2
  <2> QED
    BY <2>2, <2>3
<1>2. CASE AwaitParts(c)
  BY <1>2 DEF AwaitParts
<1>3. CASE Vanished(c)
  BY <1>3 DEF Vanished, Remove
<1>4. CASE TellPeer(c)
  BY <1>4 DEF TellPeer
<1>5. CASE TellSelf(c)
  BY <1>5 DEF TellSelf
<1>6. CASE Deliver(c)
  <2>1. peer[c] \in Conn
    BY <1>6 DEF Deliver
  <2>2. CASE UNCHANGED <<buffered, got>>
    <3>1. pc' \in [Conn -> PC]
      <4>1. pc \in [Conn -> PC]
        BY DEF TypeOK
      <4>2. UNCHANGED pc \/ \E l \in {"pump", "undelivered"} : pc' = [pc EXCEPT ![c] = l]
        BY <1>6 DEF Deliver
      <4> HIDE DEF TypeOK
      <4> QED
        BY <4>1, <4>2
    <3>2. UNCHANGED <<slotVars, sock, peer, reclaim, inbox, sent, pumpVars>>
      BY <1>6 DEF Deliver
    <3> QED
      BY <2>2, <3>1, <3>2
  <2>3. CASE buffered[peer[c]] # <<>> /\ SendOk(c)
    <3> DEFINE b == Tail(buffered[peer[c]])
               g == Append(got[c], Head(buffered[peer[c]]))
    <3>1. b \in Seq(Nat) /\ Len(b) <= MaxBuffer /\ g \in Seq(Nat)
      BY <2>1, <2>3, QueueTypes
    <3>2. buffered' = [buffered EXCEPT ![peer[c]] = b] /\ got' = [got EXCEPT ![c] = g] /\ pc' = pc
      BY <1>6, <2>3 DEF Deliver, SendOk, SendErr
    <3> HIDE DEF b, g
    <3>3. buffered' \in [Conn -> Seq(Nat)] /\ \A e \in Conn : Len(buffered'[e]) <= MaxBuffer
      BY <3>1, <3>2
    <3> QED
      BY <1>6, <3>1, <3>2, <3>3 DEF Deliver
  <2> QED
    BY <1>6, <2>2, <2>3 DEF Deliver
<1>7. CASE Undelivered(c)
  BY <1>7 DEF Undelivered, Remove
<1>8. CASE ClosePeer(c)
  BY <1>8 DEF ClosePeer
<1>9. CASE Teardown(c)
  BY <1>9 DEF Teardown, Remove, Dropped
<1> QED
  BY <1>1, <1>2, <1>3, <1>4, <1>5, <1>6, <1>7, <1>8, <1>9 DEF PairStep

LEMMA PumpTyping ==
  ASSUME TypeOK, NEW c \in Conn, NEW d \in Dir, PumpStep(c, d), pc[c] \in PairPC => peer[c] # None
  PROVE  TypeOK'
<1> USE DEF TypeOK, From, To
<1>1. CASE PumpRead(c, d)
  <2> DEFINE f == From(c, d)
  <2>1. f \in Conn
    BY <1>1 DEF PumpRead
  <2>2. Head(inbox[f]) \in Nat /\ Tail(inbox[f]) \in Seq(Nat)
    BY <1>1, <2>1, QueueTypes DEF PumpRead
  <2>3. /\ hand' = [hand EXCEPT ![c][d] = Head(inbox[f])]
        /\ inbox' = [inbox EXCEPT ![f] = Tail(@)]
    BY <1>1 DEF PumpRead
  <2> HIDE DEF f
  <2>4. hand' \in [Conn -> [Dir -> Nat]] /\ inbox' \in [Conn -> Seq(Nat)]
    BY <2>1, <2>2, <2>3
  <2> QED
    BY <1>1, <2>4 DEF PumpRead
<1>2. CASE PumpSend(c, d)
  <2> DEFINE t == To(c, d)
  <2>1. t \in Conn
    BY <1>2 DEF PumpSend
  <2>2. Append(got[t], hand[c][d]) \in Seq(Nat)
    BY <2>1, QueueTypes
  <2>3. got' = [got EXCEPT ![t] = Append(@, hand[c][d])]
    BY <1>2 DEF PumpSend
  <2> HIDE DEF t
  <2>4. got' \in [Conn -> Seq(Nat)]
    BY <2>1, <2>2, <2>3
  <2> QED
    BY <1>2, <2>4 DEF PumpSend
<1>3. CASE PumpSendFails(c, d)
  BY <1>3 DEF PumpSendFails
<1>4. CASE PumpStops(c, d)
  BY <1>4 DEF PumpStops
<1>5. CASE PumpCloses(c, d)
  BY <1>5 DEF PumpCloses
<1> QED
  BY <1>1, <1>2, <1>3, <1>4, <1>5 DEF PumpStep

LEMMA RemoteTyping ==
  ASSUME TypeOK, NEW c \in Conn, RemoteSends(c) \/ Fault(c)
  PROVE  TypeOK'
<1> USE BoundAssumption DEF TypeOK
<1>1. CASE RemoteSends(c)
  <2>1. sent' \in [Conn -> Nat]
    BY <1>1 DEF RemoteSends
  <2>2. inbox' \in [Conn -> Seq(Nat)]
    BY <1>1 DEF RemoteSends
  <2> QED
    BY <1>1, <2>1, <2>2 DEF RemoteSends
<1>2. CASE Fault(c)
  BY <1>2 DEF Fault, Drop, Stall, Unstall, SockTurns
<1> QED
  BY <1>1, <1>2

-----------------------------------------------------------------------------
(* Owners. *)

Ctrl == SlotsHaveOwners /\ PeersMatch /\ ReclaimsMatch /\ HalvesOwned

CtrlType ==
  /\ slots \in [Session -> {"none", "pending", "active"}]
  /\ pending \in [Session -> Conn \cup {None}]
  /\ pc \in [Conn -> PC]
  /\ peer \in [Conn -> Conn \cup {None}]
  /\ reclaim \in [Conn -> Conn \cup {None}]

LEMMA CtrlInit == Init => Ctrl
BY NoneAssumption
DEF Init, Ctrl, SlotsHaveOwners, PeersMatch, ReclaimsMatch, HalvesOwned, Pairing, Parked

\* A task that only moves on within what it owns.
LEMMA QuietKeeps ==
  ASSUME CtrlType, Ctrl, NEW c \in Conn, NEW l \in PC, Goto(c, l),
         UNCHANGED <<slots, pending, peer, reclaim>>,
         pc[c] \in PairPC <=> l \in PairPC,
         Parked(c) => l \in {"parked", "expiring", "removing"},
         l \in ParkPC => pc[c] \in ParkPC,
         pc[c] = "handed" => l = "handed",
         peer[c] # None => l \in PairPC \cup {"closePeer", "reject", "done"},
         l = "closePeer" => peer[c] # None,
         pc[c] \in {"reclaim", "await"} => l \in {"reclaim", "await"} \/ ~Parked(peer[c]),
         pc[c] \in {"done", "handed"} => l = pc[c],
         l \in {"tellPeer", "tellSelf", "deliver", "undelivered", "pump", "teardown"}
           => pc[peer[c]] = "handed"
  PROVE  Ctrl'
<1> USE SessionAssumption, NoneAssumption DEF CtrlType, Ctrl, Pairing, Parked
<1>1. SlotsHaveOwners'
  BY DEF SlotsHaveOwners, PeersMatch
<1>2. PeersMatch'
  BY DEF PeersMatch
<1>3. ReclaimsMatch'
  BY DEF ReclaimsMatch
<1>4. HalvesOwned'
  BY DEF HalvesOwned, PeersMatch
<1> QED
  BY <1>1, <1>2, <1>3, <1>4

LEMMA SameKeeps ==
  ASSUME Ctrl, UNCHANGED <<slots, pending, pc, peer, reclaim>>
  PROVE  Ctrl'
BY DEF Ctrl, SlotsHaveOwners, PeersMatch, ReclaimsMatch, HalvesOwned, Pairing, Parked

LEMMA JoinKeeps ==
  ASSUME CtrlType, Ctrl, NEW c \in Conn, Dial(c) \/ JoinStep(c)
  PROVE  Ctrl'
<1> USE SessionAssumption, NoneAssumption
<1>1. CASE Dial(c)
  <2>1. pc[c] = "init" /\ Goto(c, "join") /\ UNCHANGED <<slots, pending, peer, reclaim>>
    BY <1>1 DEF Dial
  <2> HIDE DEF Goto
  <2> QED
    BY <2>1, QuietKeeps DEF CtrlType, Ctrl, PeersMatch, HalvesOwned, Pairing, Parked
<1>2. CASE RejectActive(c)
  <2>1. pc[c] = "join" /\ Goto(c, "reject") /\ UNCHANGED <<slots, pending, peer, reclaim>>
    BY <1>2 DEF RejectActive
  <2> HIDE DEF Goto
  <2> QED
    BY <2>1, QuietKeeps DEF CtrlType, Ctrl, PeersMatch, HalvesOwned, Pairing, Parked
<1>3. CASE RejectDuplicate(c)
  <2>1. pc[c] = "join" /\ Goto(c, "reject") /\ UNCHANGED <<slots, pending, peer, reclaim>>
    BY <1>3 DEF RejectDuplicate
  <2> HIDE DEF Goto
  <2> QED
    BY <2>1, QuietKeeps DEF CtrlType, Ctrl, PeersMatch, HalvesOwned, Pairing, Parked
<1>4. CASE RejectActiveCap(c)
  <2>1. pc[c] = "join" /\ Goto(c, "reject") /\ UNCHANGED <<slots, pending, peer, reclaim>>
    BY <1>4 DEF RejectActiveCap
  <2> HIDE DEF Goto
  <2> QED
    BY <2>1, QuietKeeps DEF CtrlType, Ctrl, PeersMatch, HalvesOwned, Pairing, Parked
<1>5. CASE RejectPendingCap(c)
  <2>1. pc[c] = "join" /\ Goto(c, "reject") /\ UNCHANGED <<slots, pending, peer, reclaim>>
    BY <1>5 DEF RejectPendingCap
  <2> HIDE DEF Goto
  <2> QED
    BY <2>1, QuietKeeps DEF CtrlType, Ctrl, PeersMatch, HalvesOwned, Pairing, Parked
<1>6. CASE CloseSelf(c)
  <2>1. pc[c] = "reject" /\ Goto(c, "done") /\ UNCHANGED <<slots, pending, peer, reclaim>>
    BY <1>6 DEF CloseSelf
  <2> HIDE DEF Goto
  <2> QED
    BY <2>1, QuietKeeps DEF CtrlType, Ctrl, PeersMatch, HalvesOwned, Pairing, Parked
<1>7. CASE Pair(c)
  <2> DEFINE s == SessionOf[c]
             p == pending[s]
  <2>1. /\ pc[c] = "join" /\ slots[s] = "pending" /\ RoleOf[p] # RoleOf[c]
        /\ slots' = [slots EXCEPT ![s] = "active"] /\ pending' = [pending EXCEPT ![s] = None]
        /\ peer' = [peer EXCEPT ![c] = p] /\ pc' = [pc EXCEPT ![c] = "reclaim"]
        /\ UNCHANGED reclaim
    BY <1>7 DEF Pair, Opposite
  <2>2. /\ p \in Conn /\ p # c /\ SessionOf[p] = s /\ Parked(p) /\ s \in Session
        /\ peer[c] = None /\ \A d \in Conn : peer[d] # p
        /\ \A d \in Conn : SessionOf[d] = s => ~Pairing(d)
        /\ \A d \in Conn : SessionOf[d] = s /\ Parked(d) => d = p
    BY <2>1 DEF CtrlType, Ctrl, SlotsHaveOwners, PeersMatch, ReclaimsMatch, Parked, Pairing
  <2> HIDE DEF s, p
  <2> USE DEF CtrlType, Ctrl, Pairing, Parked
  <2>3. SlotsHaveOwners'
    BY <2>1, <2>2 DEF SlotsHaveOwners, s
  <2>4. PeersMatch'
    BY <2>1, <2>2 DEF PeersMatch, s
  <2>5. ReclaimsMatch'
    BY <2>1, <2>2 DEF ReclaimsMatch, SlotsHaveOwners
  <2>6. HalvesOwned'
    BY <2>1, <2>2 DEF HalvesOwned, PeersMatch
  <2> QED
    BY <2>3, <2>4, <2>5, <2>6
<1>8. CASE Park(c)
  <2> DEFINE s == SessionOf[c]
  <2>1. /\ pc[c] = "join" /\ slots[s] = "none" /\ s \in Session
        /\ slots' = [slots EXCEPT ![s] = "pending"] /\ pending' = [pending EXCEPT ![s] = c]
        /\ pc' = [pc EXCEPT ![c] = "parked"] /\ UNCHANGED <<peer, reclaim>>
    BY <1>8 DEF Park
  <2>2. \A d \in Conn : peer[d] # c
    BY <2>1 DEF CtrlType, Ctrl, PeersMatch
  <2>3. peer[c] = None /\ s = SessionOf[c]
    BY <2>1 DEF CtrlType, Ctrl, PeersMatch
  <2> HIDE DEF s
  <2> USE DEF CtrlType, Ctrl, Pairing, Parked
  <2>4. SlotsHaveOwners'
    BY <2>1, <2>2, <2>3 DEF SlotsHaveOwners, PeersMatch
  <2>5. PeersMatch'
    BY <2>1, <2>2, <2>3 DEF PeersMatch
  <2>6. ReclaimsMatch'
    BY <2>1, <2>2, <2>3 DEF ReclaimsMatch
  <2>7. HalvesOwned'
    BY <2>1, <2>2, <2>3 DEF HalvesOwned, PeersMatch
  <2> QED
    BY <2>4, <2>5, <2>6, <2>7
<1> QED
  BY <1>1, <1>2, <1>3, <1>4, <1>5, <1>6, <1>7, <1>8 DEF JoinStep

LEMMA ParkKeeps ==
  ASSUME CtrlType, Ctrl, NEW c \in Conn, ParkStep(c)
  PROVE  Ctrl'
<1> USE SessionAssumption, NoneAssumption
<1>1. CASE HandOver(c)
  <2>1. /\ pc[c] = "parked" /\ reclaim[c] # None
        /\ pc' = [pc EXCEPT ![c] = "handed"] /\ UNCHANGED <<slots, pending, peer, reclaim>>
    BY <1>1 DEF HandOver
  <2>2. \A s \in Session : slots[s] = "pending" => pending[s] # c
    BY <2>1 DEF CtrlType, Ctrl, ReclaimsMatch
  <2> USE DEF CtrlType, Ctrl, Pairing, Parked
  <2>3. SlotsHaveOwners'
    BY <2>1, <2>2 DEF SlotsHaveOwners
  <2>4. PeersMatch'
    BY <2>1 DEF PeersMatch
  <2>5. ReclaimsMatch'
    BY <2>1 DEF ReclaimsMatch
  <2>6. HalvesOwned'
    BY <2>1 DEF HalvesOwned, PeersMatch
  <2> QED
    BY <2>3, <2>4, <2>5, <2>6
<1>2. CASE Expire(c)
  <2>1. pc[c] = "parked" /\ Goto(c, "expiring") /\ UNCHANGED <<slots, pending, peer, reclaim>>
    BY <1>2 DEF Expire
  <2> HIDE DEF Goto
  <2> QED
    BY <2>1, QuietKeeps DEF CtrlType, Ctrl, PeersMatch, HalvesOwned, Pairing, Parked
<1>3. CASE ParkRead(c)
  <2>1. CASE pc' = pc
    BY <1>3, <2>1, SameKeeps DEF ParkRead
  <2>2. CASE BufferFull(c)
    <3>1. pc[c] = "parked" /\ Goto(c, "expiring") /\ UNCHANGED <<slots, pending, peer, reclaim>>
      BY <1>3, <2>2 DEF ParkRead
    <3> HIDE DEF Goto
    <3> QED
      BY <3>1, QuietKeeps DEF CtrlType, Ctrl, PeersMatch, HalvesOwned, Pairing, Parked
  <2> QED
    BY <1>3, <2>1, <2>2 DEF ParkRead
<1>4. CASE ParkClosed(c)
  <2>1. pc[c] = "parked" /\ Goto(c, "removing") /\ UNCHANGED <<slots, pending, peer, reclaim>>
    BY <1>4 DEF ParkClosed
  <2> HIDE DEF Goto
  <2> QED
    BY <2>1, QuietKeeps DEF CtrlType, Ctrl, PeersMatch, HalvesOwned, Pairing, Parked
<1>5. CASE SendClose(c)
  <2>1. pc[c] = "expiring" /\ Goto(c, "removing") /\ UNCHANGED <<slots, pending, peer, reclaim>>
    BY <1>5 DEF SendClose
  <2> HIDE DEF Goto
  <2> QED
    BY <2>1, QuietKeeps DEF CtrlType, Ctrl, PeersMatch, HalvesOwned, Pairing, Parked
<1>6. CASE RemovePending(c)
  <2> DEFINE s == SessionOf[c]
  <2>1. /\ pc[c] = "removing" /\ pc' = [pc EXCEPT ![c] = "done"] /\ UNCHANGED <<peer, reclaim>>
        /\ s \in Session
    BY <1>6 DEF RemovePending
  <2>2. CASE slots[s] = "pending"
    <3>1. /\ slots' = [slots EXCEPT ![s] = "none"] /\ pending' = [pending EXCEPT ![s] = None]
      BY <1>6, <2>2 DEF RemovePending, Remove
    <3>2. pending[s] = c
      BY <2>1, <2>2 DEF CtrlType, Ctrl, SlotsHaveOwners, PeersMatch, Parked, Pairing
    <3>3. s = SessionOf[c] /\ \A d \in Conn : peer[d] # c
      BY <2>1, <2>2, <3>2 DEF Ctrl, ReclaimsMatch
    <3> HIDE DEF s
    <3> USE DEF CtrlType, Ctrl, Pairing, Parked
    <3>4. SlotsHaveOwners'
      BY <2>1, <2>2, <3>1, <3>2, <3>3 DEF SlotsHaveOwners
    <3>5. PeersMatch'
      BY <2>1, <3>3 DEF PeersMatch
    <3>6. ReclaimsMatch'
      BY <2>1, <3>1 DEF ReclaimsMatch
    <3>7. HalvesOwned'
      BY <2>1 DEF HalvesOwned, PeersMatch
    <3> QED
      BY <3>4, <3>5, <3>6, <3>7
  <2>3. CASE slots[s] # "pending"
    <3>1. UNCHANGED <<slots, pending>>
      BY <1>6, <2>3 DEF RemovePending
    <3> USE DEF CtrlType, Ctrl, Pairing, Parked
    <3>2. \A u \in Session : slots[u] = "pending" => pending[u] # c
      BY <2>1, <2>3 DEF SlotsHaveOwners
    <3> HIDE DEF s
    <3>4. SlotsHaveOwners'
      BY <2>1, <3>1, <3>2 DEF SlotsHaveOwners
    <3>5. PeersMatch'
      BY <2>1 DEF PeersMatch
    <3>6. ReclaimsMatch'
      BY <2>1, <3>1 DEF ReclaimsMatch
    <3>7. HalvesOwned'
      BY <2>1 DEF HalvesOwned, PeersMatch
    <3> QED
      BY <3>4, <3>5, <3>6, <3>7
  <2> QED
    BY <2>2, <2>3
<1> QED
  BY <1>1, <1>2, <1>3, <1>4, <1>5, <1>6 DEF ParkStep

\* A pairing task removes its own Active entry and is then no longer pairing.
LEMMA RemoveKeeps ==
  ASSUME CtrlType, Ctrl, NEW c \in Conn, NEW l \in {"reject", "closePeer", "done"},
         pc[c] \in {"vanished", "undelivered", "teardown"},
         Remove(SessionOf[c]), Goto(c, l), UNCHANGED <<peer, reclaim>>
  PROVE  Ctrl'
<1> USE SessionAssumption, NoneAssumption DEF CtrlType, Ctrl, Pairing, Parked
<1> DEFINE s == SessionOf[c]
<1>1. /\ slots' = [slots EXCEPT ![s] = "none"] /\ pending' = [pending EXCEPT ![s] = None]
      /\ pc' = [pc EXCEPT ![c] = l] /\ s \in Session
  BY DEF Remove
<1>2. /\ slots[s] = "active" /\ s = SessionOf[c]
      /\ \A d \in Conn : SessionOf[d] = s /\ Pairing(d) => d = c
  <2>1. Pairing(c) /\ SessionOf[c] \in Session
    OBVIOUS
  <2> HIDE DEF Pairing, Parked
  <2> QED
    BY <2>1 DEF SlotsHaveOwners
<1>3. peer[c] # None /\ ~Parked(c)
  BY DEF PeersMatch
<1> HIDE DEF s, Goto, Remove
<1>4. SlotsHaveOwners'
  <2>1. \A u \in Session : slots'[u] = IF u = s THEN "none" ELSE slots[u]
    BY <1>1
  <2>2. \A d \in Conn : d # c => pc'[d] = pc[d]
    BY <1>1
  <2>3. pc'[c] = l
    BY <1>1
  <2> QED
    BY <1>1, <1>2, <1>3, <2>1, <2>2, <2>3 DEF SlotsHaveOwners
<1>5. PeersMatch'
  BY <1>1, <1>3 DEF PeersMatch
<1>6. ReclaimsMatch'
  BY <1>1 DEF ReclaimsMatch
<1>7. HalvesOwned'
  BY <1>1 DEF HalvesOwned, PeersMatch
<1> QED
  BY <1>4, <1>5, <1>6, <1>7

LEMMA PairKeeps ==
  ASSUME CtrlType, Ctrl, NEW c \in Conn, PairStep(c)
  PROVE  Ctrl'
<1> USE SessionAssumption, NoneAssumption
<1>1. CASE Reclaim(c)
  <2>1. CASE pc[peer[c]] = "done"
    <3>1. pc[c] = "reclaim" /\ Goto(c, "vanished") /\ UNCHANGED <<slots, pending, peer, reclaim>>
      BY <1>1, <2>1 DEF Reclaim
    <3> HIDE DEF Goto
    <3> QED
      BY <2>1, <3>1, QuietKeeps DEF CtrlType, Ctrl, PeersMatch, HalvesOwned, Pairing, Parked
  <2>2. CASE pc[peer[c]] # "done"
    <3>1. /\ pc[c] = "reclaim" /\ pc' = [pc EXCEPT ![c] = "await"]
          /\ reclaim' = [reclaim EXCEPT ![peer[c]] = c] /\ UNCHANGED <<slots, pending, peer>>
      BY <1>1, <2>2 DEF Reclaim
    <3>2. peer[c] \in Conn
      BY <3>1 DEF CtrlType, Ctrl, PeersMatch
    <3> USE DEF CtrlType, Ctrl, Pairing, Parked
    <3>3. SlotsHaveOwners'
      BY <3>1 DEF SlotsHaveOwners
    <3>4. PeersMatch'
      BY <3>1 DEF PeersMatch
    <3>5. ReclaimsMatch'
      BY <3>1, <3>2 DEF ReclaimsMatch
    <3>6. HalvesOwned'
      BY <3>1, <3>2 DEF HalvesOwned, PeersMatch
    <3> QED
      BY <3>3, <3>4, <3>5, <3>6
  <2> QED
    BY <2>1, <2>2
<1>2. CASE AwaitParts(c)
  <2>1. /\ pc[c] = "await" /\ pc[peer[c]] \in {"handed", "done"}
        /\ UNCHANGED <<slots, pending, peer, reclaim>>
    BY <1>2 DEF AwaitParts
  <2>2. CASE pc[peer[c]] = "handed"
    <3>1. Goto(c, "tellPeer")
      BY <1>2, <2>2 DEF AwaitParts
    <3> HIDE DEF Goto
    <3> QED
      BY <2>1, <2>2, <3>1, QuietKeeps DEF CtrlType, Ctrl, PeersMatch, HalvesOwned, Pairing, Parked
  <2>3. CASE pc[peer[c]] = "done"
    <3>1. Goto(c, "vanished")
      BY <1>2, <2>3 DEF AwaitParts
    <3> HIDE DEF Goto
    <3> QED
      BY <2>1, <2>3, <3>1, QuietKeeps DEF CtrlType, Ctrl, PeersMatch, HalvesOwned, Pairing, Parked
  <2> QED
    BY <2>1, <2>2, <2>3
<1>3. CASE Vanished(c)
  <2>1. pc[c] = "vanished" /\ Remove(SessionOf[c]) /\ Goto(c, "reject") /\ UNCHANGED <<peer, reclaim>>
    BY <1>3 DEF Vanished
  <2> HIDE DEF Goto
  <2> QED
    BY <2>1, RemoveKeeps
<1>4. CASE TellPeer(c)
  <2>1. pc[c] = "tellPeer" /\ Goto(c, "tellSelf") /\ UNCHANGED <<slots, pending, peer, reclaim>>
    BY <1>4 DEF TellPeer
  <2> HIDE DEF Goto
  <2> QED
    BY <2>1, QuietKeeps DEF CtrlType, Ctrl, PeersMatch, HalvesOwned, Pairing, Parked
<1>5. CASE TellSelf(c)
  <2>1. pc[c] = "tellSelf" /\ Goto(c, "deliver") /\ UNCHANGED <<slots, pending, peer, reclaim>>
    BY <1>5 DEF TellSelf
  <2> HIDE DEF Goto
  <2> QED
    BY <2>1, QuietKeeps DEF CtrlType, Ctrl, PeersMatch, HalvesOwned, Pairing, Parked
<1>6. CASE Deliver(c)
  <2>1. /\ pc[c] = "deliver" /\ UNCHANGED <<slots, pending, peer, reclaim>>
        /\ pc' = pc \/ \E l \in {"pump", "undelivered"} : Goto(c, l)
    BY <1>6 DEF Deliver
  <2>2. CASE pc' = pc
    BY <2>1, <2>2, SameKeeps
  <2>3. ASSUME NEW l \in {"pump", "undelivered"}, Goto(c, l) PROVE Ctrl'
    <3> HIDE DEF Goto
    <3> QED
      BY <2>1, <2>3, QuietKeeps DEF CtrlType, Ctrl, PeersMatch, HalvesOwned, Pairing, Parked
  <2> QED
    BY <2>1, <2>2, <2>3
<1>7. CASE Undelivered(c)
  <2>1. pc[c] = "undelivered" /\ Remove(SessionOf[c]) /\ Goto(c, "closePeer") /\ UNCHANGED <<peer, reclaim>>
    BY <1>7 DEF Undelivered
  <2> HIDE DEF Goto
  <2> QED
    BY <2>1, RemoveKeeps
<1>8. CASE ClosePeer(c)
  <2>1. pc[c] = "closePeer" /\ Goto(c, "reject") /\ UNCHANGED <<slots, pending, peer, reclaim>>
    BY <1>8 DEF ClosePeer
  <2> HIDE DEF Goto
  <2> QED
    BY <2>1, QuietKeeps DEF CtrlType, Ctrl, PeersMatch, HalvesOwned, Pairing, Parked
<1>9. CASE Teardown(c)
  <2>1. pc[c] = "teardown" /\ Remove(SessionOf[c]) /\ Goto(c, "done") /\ UNCHANGED <<peer, reclaim>>
    BY <1>9 DEF Teardown
  <2> HIDE DEF Goto
  <2> QED
    BY <2>1, RemoveKeeps
<1> QED
  BY <1>1, <1>2, <1>3, <1>4, <1>5, <1>6, <1>7, <1>8, <1>9 DEF PairStep

LEMMA PumpKeeps ==
  ASSUME CtrlType, Ctrl, NEW c \in Conn, NEW d \in Dir, PumpStep(c, d)
  PROVE  Ctrl'
<1>1. CASE PumpCloses(c, d)
  <2>1. pc[c] = "pump" /\ Goto(c, "teardown") /\ UNCHANGED <<slots, pending, peer, reclaim>>
    BY <1>1 DEF PumpCloses
  <2> HIDE DEF Goto
  <2> QED
    BY <2>1, QuietKeeps DEF CtrlType, Ctrl, PeersMatch, HalvesOwned, Pairing, Parked
<1>2. CASE ~PumpCloses(c, d)
  BY <1>2, SameKeeps DEF PumpStep, PumpRead, PumpSend, PumpSendFails, PumpStops
<1> QED
  BY <1>1, <1>2

-----------------------------------------------------------------------------
(* The inductive invariant. *)

IInv == TypeOK /\ Ctrl

LEMMA InvStep == IInv /\ [Next]_vars => IInv'
<1> SUFFICES ASSUME IInv, [Next]_vars PROVE IInv'
  OBVIOUS
<1>1. CtrlType /\ Ctrl /\ TypeOK
  BY DEF IInv, CtrlType, TypeOK
<1>2. CASE UNCHANGED vars
  <2>1. TypeOK'
    BY <1>1, <1>2 DEF vars, TypeOK
  <2> QED
    BY <1>1, <1>2, <2>1, SameKeeps DEF vars, IInv
<1>3. ASSUME NEW c \in Conn, Dial(c) \/ TaskStep(c) PROVE IInv'
  <2>1. pc[c] \in PairPC \cup {"closePeer"} => peer[c] # None
    BY <1>1 DEF Ctrl, PeersMatch
  <2>2. CASE Dial(c) \/ JoinStep(c)
    BY <1>1, <2>2, JoinTyping, JoinKeeps DEF IInv
  <2>3. CASE ParkStep(c)
    BY <1>1, <2>3, ParkTyping, ParkKeeps DEF IInv
  <2>4. CASE PairStep(c)
    BY <1>1, <2>1, <2>4, PairTyping, PairKeeps DEF IInv
  <2>5. CASE \E d \in Dir : PumpStep(c, d)
    BY <1>1, <2>1, <2>5, PumpTyping, PumpKeeps DEF IInv
  <2> QED
    BY <1>3, <2>2, <2>3, <2>4, <2>5 DEF TaskStep
<1>4. ASSUME NEW c \in Conn, RemoteSends(c) \/ Fault(c) PROVE IInv'
  <2>1. UNCHANGED <<slots, pending, pc, peer, reclaim>>
    BY <1>4 DEF RemoteSends, Fault, Drop, Stall, Unstall, SockTurns
  <2> QED
    BY <1>1, <1>4, <2>1, RemoteTyping, SameKeeps DEF IInv
<1> QED
  BY <1>2, <1>3, <1>4 DEF Next

LEMMA Invariant == Spec => []IInv
<1>1. Init => IInv
  BY TypingInit, CtrlInit DEF IInv
<1> QED
  BY <1>1, InvStep, PTL DEF Spec

(***************************************************************************)
(* The variables keep their types, and no parked socket buffers more than  *)
(* MAX_TUNNEL_BUFFER.                                                      *)
(***************************************************************************)
THEOREM TypeCorrect == Spec => []TypeOK
<1>1. IInv => TypeOK
  BY DEF IInv
<1> QED
  BY <1>1, Invariant, PTL

(***************************************************************************)
(* remove_pending and the three teardowns, which remove a slot by session  *)
(* id alone, never remove another task's entry.                            *)
(***************************************************************************)
THEOREM SlotOwnership == Spec => []SlotsHaveOwners
<1>1. IInv => SlotsHaveOwners
  BY DEF IInv, Ctrl
<1> QED
  BY <1>1, Invariant, PTL

(***************************************************************************)
(* A tunnel joins two sockets of one session and opposite roles, and no    *)
(* socket serves in two tunnels.                                           *)
(***************************************************************************)
THEOREM Pairs == Spec => []TunnelsArePairs
<1>1. ASSUME IInv, NEW c \in Conn, pc[c] \in {"tellPeer", "tellSelf", "deliver", "pump"}
      PROVE  /\ SessionOf[peer[c]] = SessionOf[c] /\ RoleOf[peer[c]] # RoleOf[c]
             /\ pc[peer[c]] = "handed"
             /\ \A d \in Conn : d # c /\ Pairing(d) => peer[d] \notin {c, peer[c]}
  <2>1. /\ peer[c] # None /\ SessionOf[peer[c]] = SessionOf[c] /\ RoleOf[peer[c]] # RoleOf[c]
        /\ pc[peer[c]] = "handed"
    BY <1>1 DEF IInv, Ctrl, PeersMatch, HalvesOwned
  <2>2. ASSUME NEW d \in Conn, d # c, Pairing(d) PROVE peer[d] \notin {c, peer[c]}
    <3>1. peer[d] # None /\ pc[peer[d]] \in ParkPC \cup {"done"}
      BY <1>1, <2>2 DEF IInv, Ctrl, PeersMatch, Pairing
    <3>2. peer[d] # peer[c]
      BY <1>1, <2>1, <2>2 DEF IInv, Ctrl, PeersMatch
    <3> QED
      BY <1>1, <3>1, <3>2
  <2> QED
    BY <2>1, <2>2
<1> QED
  <2>1. IInv => TunnelsArePairs
    BY <1>1 DEF TunnelsArePairs
  <2> QED
    BY <2>1, Invariant, PTL
-----------------------------------------------------------------------------
(* The caps.  Session may be infinite, so the counted sets are finite only   *)
(* because a join adds one session to a set that is below its cap.           *)

Counted(k, n) == IsFiniteSet(InState(k)) /\ Cardinality(InState(k)) <= n

CapInv == Counted("active", MaxActive) /\ Counted("pending", MaxPending)

\* A step that gives sessions back, or leaves them alone.
LEMMA FewerCounted ==
  ASSUME NEW k, NEW n \in Nat, Counted(k, n), InState(k)' \subseteq InState(k)
  PROVE  Counted(k, n)'
<1> DEFINE S == InState(k)
           T == InState(k)'
<1>1. IsFiniteSet(S) /\ Cardinality(S) <= n /\ T \subseteq S
  BY DEF Counted
<1> HIDE DEF S, T
<1>2. IsFiniteSet(T) /\ Cardinality(T) <= Cardinality(S)
  BY <1>1, FS_Subset
<1>3. Cardinality(S) \in Nat /\ Cardinality(T) \in Nat
  BY <1>1, <1>2, FS_CardinalityType
<1>4. Cardinality(T) <= n
  BY <1>1, <1>2, <1>3
<1> QED
  BY <1>2, <1>4 DEF Counted, S, T

\* A join that checked the cap under the same lock.
LEMMA OneMoreCounted ==
  ASSUME NEW k, NEW n \in Nat, Counted(k, n), Cardinality(InState(k)) < n,
         NEW s, InState(k)' \subseteq InState(k) \cup {s}
  PROVE  Counted(k, n)'
<1> DEFINE S == InState(k)
           T == InState(k)'
           U == S \cup {s}
<1>1. IsFiniteSet(S) /\ Cardinality(S) < n /\ T \subseteq U
  BY DEF Counted
<1> HIDE DEF S, T
<1>2. IsFiniteSet(U) /\ Cardinality(U) <= Cardinality(S) + 1
  BY <1>1, FS_AddElement, FS_CardinalityType
<1> HIDE DEF U
<1>3. IsFiniteSet(T) /\ Cardinality(T) <= Cardinality(U)
  BY <1>1, <1>2, FS_Subset
<1>4. Cardinality(S) \in Nat /\ Cardinality(T) \in Nat /\ Cardinality(U) \in Nat
  BY <1>1, <1>2, <1>3, FS_CardinalityType
<1>5. Cardinality(T) <= n
  BY <1>1, <1>2, <1>3, <1>4
<1> QED
  BY <1>3, <1>5 DEF Counted, S, T

LEMMA CapInit == Init => CapInv
<1> SUFFICES ASSUME Init PROVE CapInv
  OBVIOUS
<1>1. InState("active") = {} /\ InState("pending") = {}
  BY DEF Init, InState
<1> QED
  BY <1>1, FS_EmptySet, BoundAssumption DEF CapInv, Counted

\* Every step but the two joins takes nothing into a counted state.
LEMMA OnlyJoinsCount ==
  ASSUME TypeOK, [Next]_vars, \A c \in Conn : ~Pair(c) /\ ~Park(c)
  PROVE  InState("active")' \subseteq InState("active") /\ InState("pending")' \subseteq InState("pending")
<1> DEFINE Frees == slots' = slots \/ \E s \in Session : slots' = [slots EXCEPT ![s] = "none"]
<1>1. Frees
  <2>1. CASE UNCHANGED vars
    BY <2>1 DEF vars
  <2>2. ASSUME NEW c \in Conn, JoinStep(c) PROVE slots' = slots
    BY <2>2 DEF JoinStep, RejectActive, RejectDuplicate, RejectActiveCap, RejectPendingCap, CloseSelf
  <2>3. ASSUME NEW c \in Conn, ParkStep(c) \/ PairStep(c) PROVE Frees
    <3>1. SessionOf[c] \in Session
      BY SessionAssumption
    <3> QED
      BY <2>3, <3>1 DEF ParkStep, HandOver, Expire, ParkRead, ParkClosed, SendClose, RemovePending,
                   PairStep, Reclaim, AwaitParts, Vanished, TellPeer, TellSelf, Deliver,
                   Undelivered, ClosePeer, Teardown, Remove
  <2>4. ASSUME NEW c \in Conn, NEW d \in Dir, PumpStep(c, d) PROVE slots' = slots
    BY <2>4 DEF PumpStep, PumpRead, PumpSend, PumpSendFails, PumpStops, PumpCloses
  <2>5. ASSUME NEW c \in Conn, Dial(c) \/ RemoteSends(c) \/ Fault(c) PROVE slots' = slots
    BY <2>5 DEF Dial, RemoteSends, Fault, Drop, Stall, Unstall, SockTurns
  <2> QED
    BY <2>1, <2>2, <2>3, <2>4, <2>5 DEF Next, TaskStep
<1> QED
  BY <1>1 DEF TypeOK, InState

LEMMA CapStep ==
  ASSUME TypeOK, CapInv, [Next]_vars
  PROVE  CapInv'
<1>1. MaxActive \in Nat /\ MaxPending \in Nat
  BY BoundAssumption
<1>2. ASSUME NEW c \in Conn, Pair(c) PROVE CapInv'
  <2>1. /\ InState("active")' \subseteq InState("active") \cup {SessionOf[c]}
        /\ InState("pending")' \subseteq InState("pending")
    BY <1>2, SessionAssumption DEF TypeOK, Pair, InState
  <2>2. Counted("active", MaxActive) /\ Cardinality(InState("active")) < MaxActive
    <3>1. Counted("active", MaxActive) /\ ~(Cardinality(InState("active")) >= MaxActive)
      BY <1>2 DEF CapInv, Pair, AtActiveCap
    <3>2. Cardinality(InState("active")) \in Nat
      BY <3>1, FS_CardinalityType DEF Counted
    <3> QED
      BY <1>1, <3>1, <3>2
  <2>3. Counted("active", MaxActive)'
    BY <1>1, <2>1, <2>2, OneMoreCounted
  <2>4. Counted("pending", MaxPending)'
    BY <1>1, <2>1, FewerCounted DEF CapInv
  <2> QED
    BY <2>3, <2>4 DEF CapInv
<1>3. ASSUME NEW c \in Conn, Park(c) PROVE CapInv'
  <2>1. /\ InState("pending")' \subseteq InState("pending") \cup {SessionOf[c]}
        /\ InState("active")' \subseteq InState("active")
    BY <1>3, SessionAssumption DEF TypeOK, Park, InState
  <2>2. Counted("pending", MaxPending) /\ Cardinality(InState("pending")) < MaxPending
    BY <1>3 DEF CapInv, Park
  <2>3. Counted("pending", MaxPending)'
    BY <1>1, <2>1, <2>2, OneMoreCounted
  <2>4. Counted("active", MaxActive)'
    BY <1>1, <2>1, FewerCounted DEF CapInv
  <2> QED
    BY <2>3, <2>4 DEF CapInv
<1>4. CASE \A c \in Conn : ~Pair(c) /\ ~Park(c)
  BY <1>1, <1>4, OnlyJoinsCount, FewerCounted DEF CapInv
<1> QED
  BY <1>2, <1>3, <1>4

(***************************************************************************)
(* Whatever joins race, never more than MAX_TUNNEL_ACTIVE sessions are     *)
(* paired and never more than MAX_TUNNEL_PENDING are parked.               *)
(***************************************************************************)
THEOREM Caps == Spec => []CapsHold
<1>1. IInv /\ CapInv /\ [Next]_vars => CapInv'
  BY CapStep DEF IInv
<1>2. CapInv => CapsHold
  BY DEF CapInv, Counted, CapsHold
<1> QED
  BY <1>1, <1>2, CapInit, Invariant, PTL DEF Spec

-----------------------------------------------------------------------------
(* Frames.  Each socket's frames are numbered 1, 2, ...; wherever they are,  *)
(* they form a run of consecutive numbers, and for as long as a tunnel lasts *)
(* what was delivered and what is buffered or in a pump's hand add up to     *)
(* what was read.                                                            *)

Runs(q, n) == \A i \in 1..Len(q) : q[i] = n + i

LEMMA AppendRuns ==
  ASSUME NEW q \in Seq(Nat), NEW n \in Nat, Runs(q, n)
  PROVE  LET r == Append(q, n + Len(q) + 1)
         IN r \in Seq(Nat) /\ Len(r) = Len(q) + 1 /\ Runs(r, n)
BY DEF Runs

LEMMA TailRuns ==
  ASSUME NEW q \in Seq(Nat), NEW n \in Nat, Runs(q, n), q # <<>>
  PROVE  /\ Head(q) = n + 1
         /\ Tail(q) \in Seq(Nat) /\ Len(Tail(q)) = Len(q) - 1 /\ Len(q) \in Nat \ {0}
         /\ Runs(Tail(q), n + 1)
BY DEF Runs

\* How many of a socket's frames the relay has read.
Read(c) == sent[c] - Len(inbox[c])

\* The states in which nothing was sent to a socket, and those of a pairing
\* before its pumps.
Unpaired == (ParkPC \ {"handed"}) \cup {"init", "join", "reclaim", "await", "tellPeer", "tellSelf"}
Before   == {"reclaim", "await", "tellPeer", "tellSelf", "deliver"}

Unsent ==
  /\ \A c \in Conn : pc[c] \in Unpaired => got[c] = <<>>
  /\ \A c \in Conn : pc[c] \in Before => got[peer[c]] = <<>>

Unread ==
  \A c \in Conn : pc[c] \in {"init", "join"} \cup Before => Read(c) = 0

\* The parking buffer goes on where the delivered frames end.
Buffers ==
  /\ \A c \in Conn : pc[c] \in {"init", "join"} => buffered[c] = <<>>
  /\ \A c \in Conn : pc[c] = "parked" => Runs(buffered[c], 0) /\ Read(c) = Len(buffered[c])
  /\ \A c \in Conn : pc[c] \in Before /\ pc[peer[c]] = "handed" =>
       /\ Runs(buffered[peer[c]], Len(got[c]))
       /\ Read(peer[c]) = Len(got[c]) + Len(buffered[peer[c]])

\* A pump holds the frame that comes next, or none is missing.
Pumped(c, d) ==
  /\ flow[c][d] = "recv" => Read(From(c, d)) = Len(got[To(c, d)])
  /\ flow[c][d] = "send" => /\ hand[c][d] = Len(got[To(c, d)]) + 1
                            /\ Read(From(c, d)) = Len(got[To(c, d)]) + 1

Pumps ==
  \A c \in Conn, d \in Dir :
    /\ pc[c] \notin {"pump", "teardown", "done"} => flow[c][d] = "recv"
    /\ pc[c] = "pump" => Pumped(c, d)

Inboxes == \A c \in Conn : Read(c) \in Nat /\ Runs(inbox[c], Read(c))
Outs    == \A c \in Conn : Runs(got[c], 0)

FrameInv == Unsent /\ Unread /\ Buffers /\ Pumps /\ Inboxes /\ Outs

\* A step disturbs a direction only where it reads, delivers or turns its pump.
LEMMA PumpedKeeps ==
  ASSUME NEW e \in Conn, NEW d \in Dir, peer'[e] = peer[e], UNCHANGED <<flow, hand>>,
         Read(From(e, d))' = Read(From(e, d)), got'[To(e, d)] = got[To(e, d)]
  PROVE  Pumped(e, d)' <=> Pumped(e, d)
<1>1. To(e, d)' = To(e, d) /\ got[To(e, d)]' = got[To(e, d)]
  BY DEF To
<1> QED
  BY <1>1 DEF Pumped

\* ... and one that moves no frame, nowhere.
LEMMA PumpedSame ==
  ASSUME NEW e \in Conn, NEW d \in Dir, peer'[e] = peer[e],
         UNCHANGED <<sent, inbox, got, flow, hand>>
  PROVE  Pumped(e, d)' <=> Pumped(e, d)
<1>1. Read(From(e, d))' = Read(From(e, d))
  BY DEF From, Read
<1> QED
  BY <1>1, PumpedKeeps

LEMMA FrameInit == Init => FrameInv
BY NoneAssumption
DEF Init, FrameInv, Unsent, Unread, Buffers, Pumps, Inboxes, Outs, Unpaired, Before, Runs, Read

\* A move that no part of FrameInv notices.
Unseen(k, l) ==
  /\ l \in Unpaired => k \in Unpaired
  /\ l \in Before => k \in Before
  /\ l \in {"init", "join"} => k \in {"init", "join"}
  /\ l \in {"parked", "pump"} => k = l
  /\ l = "handed" => k = "parked"
  /\ l \notin {"pump", "teardown", "done"} => k \notin {"pump", "teardown", "done"}

\* ... of pc, when the frames stay where they are.
LEMMA UnseenKeeps ==
  ASSUME IInv, FrameInv, NEW c \in Conn, NEW l \in PC, Goto(c, l), Unseen(pc[c], l),
         UNCHANGED <<peer, dataVars, pumpVars>>
  PROVE  FrameInv'
<1>1. /\ pc \in [Conn -> PC] /\ pc' = [pc EXCEPT ![c] = l]
      /\ \A d \in Conn : got[d] \in Seq(Nat) /\ inbox[d] \in Seq(Nat) /\ buffered[d] \in Seq(Nat)
  BY DEF IInv, TypeOK
<1>2. \A d \in Conn : pc'[d] = IF d = c THEN l ELSE pc[d]
  BY <1>1
<1>3. Unsent' /\ Unread'
  BY <1>2 DEF FrameInv, Unsent, Unread, Unseen, Read
<1>4. Inboxes' /\ Outs'
  BY DEF FrameInv, Inboxes, Outs, Runs, Read
<1>5. Pumps'
  <2>1. ASSUME NEW e \in Conn, NEW d \in Dir PROVE pc'[e] = "pump" => Pumped(e, d)
    BY <1>2 DEF FrameInv, Pumps, Unseen
  <2>2. ASSUME NEW e \in Conn, NEW d \in Dir
        PROVE  pc'[e] \notin {"pump", "teardown", "done"} => flow[e][d] = "recv"
    BY <1>2 DEF FrameInv, Pumps, Unseen
  <2>3. ASSUME NEW e \in Conn, NEW d \in Dir PROVE Pumped(e, d)' <=> Pumped(e, d)
    BY PumpedSame DEF dataVars, pumpVars
  <2>4. flow' = flow
    BY DEF pumpVars
  <2> QED
    BY <2>1, <2>2, <2>3, <2>4 DEF Pumps
<1>6. Buffers'
  <2>1. ASSUME NEW d \in Conn, pc'[d] \in Before, pc'[peer[d]] = "handed"
        PROVE  /\ Runs(buffered[peer[d]], Len(got[d]))
               /\ Read(peer[d]) = Len(got[d]) + Len(buffered[peer[d]])
    <3>1. pc[d] \in Before /\ peer[d] \in Conn
      BY <1>2, <2>1, NoneAssumption DEF Unseen, IInv, TypeOK, Ctrl, PeersMatch, Before
    <3>2. CASE pc[peer[d]] = "handed"
      BY <3>1, <3>2 DEF FrameInv, Buffers
    <3>3. CASE pc[peer[d]] # "handed"
      <4>1. peer[d] = c /\ pc[c] = "parked"
        BY <1>2, <2>1, <3>1, <3>3 DEF Unseen
      <4>2. pc[d] \notin {"tellPeer", "tellSelf", "deliver"}
        BY <3>3 DEF IInv, Ctrl, HalvesOwned
      <4>3. got[d] = <<>>
        BY <3>1, <4>2 DEF FrameInv, Unsent, Before, Unpaired
      <4>4. Len(got[d]) = 0 /\ Len(buffered[c]) \in Nat
        BY <1>1, <4>3
      <4>5. Runs(buffered[c], 0) /\ Read(c) = Len(buffered[c])
        BY <4>1 DEF FrameInv, Buffers
      <4>6. Read(c) = 0 + Len(buffered[c])
        BY <4>4, <4>5
      <4> QED
        BY <4>1, <4>4, <4>5, <4>6
    <3> QED
      BY <3>2, <3>3
  <2>2. \A d \in Conn : pc'[d] \in {"init", "join"} => buffered[d] = <<>>
    BY <1>2 DEF FrameInv, Buffers, Unseen
  <2>3. \A d \in Conn : pc'[d] = "parked" => Runs(buffered[d], 0) /\ Read(d) = Len(buffered[d])
    BY <1>2 DEF FrameInv, Buffers, Unseen
  <2> QED
    BY <2>1, <2>2, <2>3 DEF Buffers, Runs, Read
<1> QED
  BY <1>3, <1>4, <1>5, <1>6 DEF FrameInv

\* The halves a pairing owns are nobody else's.
LEMMA Apart ==
  ASSUME IInv, NEW c \in Conn, pc[c] \in {"deliver", "pump"}
  PROVE  /\ peer[c] \in Conn /\ peer[c] # c /\ pc[peer[c]] = "handed"
         /\ \A e \in Conn : e # c => peer[e] # peer[c]
         /\ \A e \in Conn : peer[e] # c
<1>1. peer[c] \in Conn /\ pc[peer[c]] = "handed"
  BY DEF IInv, TypeOK, Ctrl, PeersMatch, HalvesOwned
<1>2. \A e \in Conn : peer[e] # c
  BY NoneAssumption DEF IInv, Ctrl, PeersMatch
<1>3. \A e \in Conn : e # c => peer[e] # peer[c]
  BY <1>1, NoneAssumption DEF IInv, Ctrl, PeersMatch
<1> QED
  BY <1>1, <1>2, <1>3

\* A pairing that has not pumped yet names a socket nobody pairs with.
LEMMA Bound ==
  ASSUME IInv, NEW c \in Conn, pc[c] \in Before
  PROVE  peer[c] \in Conn /\ \A e \in Conn : peer[e] # c
<1>1. peer[c] \in Conn \cup {None} /\ PeersMatch
  BY DEF IInv, TypeOK, Ctrl
<1>2. pc[c] \in PairPC /\ pc[c] \notin ParkPC \cup {"done"} /\ c # None
  BY NoneAssumption DEF Before
<1>3. peer[c] \in Conn
  BY <1>1, <1>2 DEF PeersMatch
<1>4. \A e \in Conn : peer[e] # c
  BY <1>1, <1>2 DEF PeersMatch
<1> QED
  BY <1>3, <1>4

\* What reading a frame from x does.
LEMMA ReadsOne ==
  ASSUME IInv, FrameInv, NEW x \in Conn, inbox[x] # <<>>,
         inbox' = [inbox EXCEPT ![x] = Tail(@)], UNCHANGED sent
  PROVE  /\ Head(inbox[x]) = Read(x) + 1
         /\ \A y \in Conn : Read(y)' = IF y = x THEN Read(x) + 1 ELSE Read(y)
         /\ Inboxes'
<1> DEFINE q == inbox[x]
<1>1. /\ q \in Seq(Nat) /\ q # <<>> /\ Read(x) \in Nat /\ Runs(q, Read(x)) /\ sent[x] \in Nat
      /\ inbox \in [Conn -> Seq(Nat)] /\ Read(x) = sent[x] - Len(q)
  BY DEF IInv, TypeOK, FrameInv, Inboxes, Read
<1>2. inbox' = [inbox EXCEPT ![x] = Tail(q)]
  OBVIOUS
<1> HIDE DEF q
<1>3. /\ Head(q) = Read(x) + 1
      /\ Tail(q) \in Seq(Nat) /\ Len(Tail(q)) = Len(q) - 1 /\ Len(q) \in Nat \ {0}
      /\ Runs(Tail(q), Read(x) + 1)
  BY <1>1, TailRuns
<1>4. sent[x] - Len(Tail(q)) = Read(x) + 1
  BY <1>1, <1>3
<1>5. \A y \in Conn : inbox'[y] = IF y = x THEN Tail(q) ELSE inbox[y]
  BY <1>1, <1>2
<1>6. \A y \in Conn : Read(y)' = IF y = x THEN Read(x) + 1 ELSE Read(y)
  <2>1. Read(x)' = sent[x] - Len(Tail(q))
    BY <1>5 DEF Read
  <2>2. \A y \in Conn : y # x => Read(y)' = Read(y)
    BY <1>5 DEF Read
  <2> QED
    BY <1>4, <2>1, <2>2
<1>7. Inboxes'
  <2> SUFFICES ASSUME NEW y \in Conn PROVE Read(y)' \in Nat /\ Runs(inbox'[y], Read(y)')
    BY DEF Inboxes, Runs
  <2>1. CASE y = x
    BY <2>1, <1>1, <1>3, <1>5, <1>6
  <2>2. CASE y # x
    BY <2>2, <1>5, <1>6 DEF FrameInv, Inboxes
  <2> QED
    BY <2>1, <2>2
<1> QED
  BY <1>3, <1>6, <1>7 DEF q

LEMMA RemoteFrames ==
  ASSUME IInv, FrameInv, NEW c \in Conn, RemoteSends(c) \/ Fault(c)
  PROVE  FrameInv'
<1>1. CASE RemoteSends(c)
  <2> DEFINE q == inbox[c]
             r == Append(q, sent[c] + 1)
  <2>1. /\ inbox \in [Conn -> Seq(Nat)] /\ sent \in [Conn -> Nat] /\ q \in Seq(Nat)
        /\ inbox' = [inbox EXCEPT ![c] = r] /\ sent' = [sent EXCEPT ![c] = @ + 1]
        /\ UNCHANGED <<pc, peer, buffered, got, flow, hand>>
        /\ Read(c) \in Nat /\ Runs(q, Read(c)) /\ Len(q) \in Nat /\ sent[c] \in Nat
    BY <1>1 DEF RemoteSends, IInv, TypeOK, FrameInv, Inboxes
  <2>2. Read(c) + Len(q) = sent[c]
    BY <2>1 DEF Read
  <2> HIDE DEF q
  <2>3. Runs(r, Read(c)) /\ Len(r) = Len(q) + 1
    BY <2>1, <2>2, AppendRuns
  <2>4. (sent[c] + 1) - Len(r) = Read(c)
    BY <2>1, <2>2, <2>3
  <2> HIDE DEF r
  <2>5. \A d \in Conn : Read(d)' = Read(d)
    BY <2>1, <2>4 DEF Read
  <2>6. Inboxes'
    <3> SUFFICES ASSUME NEW d \in Conn PROVE Read(d)' \in Nat /\ Runs(inbox'[d], Read(d)')
      BY DEF Inboxes, Runs
    <3> QED
      BY <2>1, <2>3, <2>5 DEF FrameInv, Inboxes
  <2>7. Unsent' /\ Outs'
    BY <2>1 DEF FrameInv, Unsent, Outs, Runs
  <2>8. Unread'
    BY <2>1, <2>5 DEF FrameInv, Unread
  <2>9. Buffers'
    <3>1. \A d \in Conn : pc[d] \in Before => peer[d] \in Conn
      BY Bound
    <3> QED
      BY <2>1, <2>5, <3>1 DEF FrameInv, Buffers, Runs
  <2>10. Pumps'
    <3>1. ASSUME NEW e \in Conn, NEW d \in Dir, pc[e] = "pump"
          PROVE  From(e, d) \in Conn
      BY <3>1, Apart DEF From
    <3>2. ASSUME NEW e \in Conn, NEW d \in Dir, pc[e] = "pump"
          PROVE  Pumped(e, d)'
      <4>1. From(e, d)' = From(e, d) /\ Pumped(e, d)
        BY <2>1, <3>2 DEF From, FrameInv, Pumps
      <4>2. Read(From(e, d))' = Read(From(e, d))
        BY <2>5, <3>1, <3>2, <4>1
      <4> QED
        BY <2>1, <4>1, <4>2, PumpedKeeps
    <3> QED
      BY <2>1, <3>2 DEF FrameInv, Pumps
  <2> QED
    BY <2>6, <2>7, <2>8, <2>9, <2>10 DEF FrameInv
<1>2. CASE Fault(c)
  <2>1. UNCHANGED <<pc, peer, dataVars, pumpVars>>
    BY <1>2 DEF Fault, Drop, Stall, Unstall, SockTurns
  <2>2. Unsent' /\ Unread' /\ Inboxes' /\ Outs'
    BY <2>1 DEF FrameInv, Unsent, Unread, Inboxes, Outs, Runs, Read
  <2>3. Buffers'
    BY <2>1 DEF FrameInv, Buffers, Runs, Read
  <2>4. Pumps'
    <3>1. UNCHANGED <<pc, peer, sent, inbox, got, flow, hand>>
      BY <2>1 DEF dataVars, pumpVars
    <3>2. \A e \in Conn, d \in Dir : Pumped(e, d)' <=> Pumped(e, d)
      BY <3>1, PumpedSame
    <3> QED
      BY <3>1, <3>2 DEF FrameInv, Pumps
  <2> QED
    BY <2>2, <2>3, <2>4 DEF FrameInv
<1> QED
  BY <1>1, <1>2

LEMMA JoinFrames ==
  ASSUME IInv, FrameInv, NEW c \in Conn, Dial(c) \/ JoinStep(c)
  PROVE  FrameInv'
<1>1. CASE ~Pair(c) /\ ~Park(c)
  <2>1. PICK l \in PC : Goto(c, l) /\ Unseen(pc[c], l)
    BY <1>1 DEF JoinStep, Dial, RejectActive, RejectDuplicate, RejectActiveCap, RejectPendingCap,
                CloseSelf, Unseen, Unpaired, Before
  <2>2. UNCHANGED <<peer, dataVars, pumpVars>>
    BY <1>1 DEF JoinStep, Dial, RejectActive, RejectDuplicate, RejectActiveCap, RejectPendingCap,
                CloseSelf
  <2> HIDE DEF Goto
  <2> QED
    BY <2>1, <2>2, UnseenKeeps
<1>2. CASE Pair(c)
  <2> DEFINE p == pending[SessionOf[c]]
  <2>1. /\ pc[c] = "join" /\ peer' = [peer EXCEPT ![c] = p] /\ pc' = [pc EXCEPT ![c] = "reclaim"]
        /\ UNCHANGED <<dataVars, pumpVars>>
        /\ p \in Conn /\ p # c /\ Parked(p)
    BY <1>2, SessionAssumption DEF Pair, Opposite, IInv, Ctrl, SlotsHaveOwners
  <2> HIDE DEF p
  <2>2. /\ \A d \in Conn : pc'[d] = IF d = c THEN "reclaim" ELSE pc[d]
        /\ \A d \in Conn : peer'[d] = IF d = c THEN p ELSE peer[d]
    BY <2>1 DEF IInv, TypeOK
  <2>3. /\ pc[p] \in Unpaired /\ pc'[p] # "handed"
        /\ got[c] = <<>> /\ got[p] = <<>> /\ Read(c) = 0
    BY <2>1, <2>2 DEF Parked, Unpaired, FrameInv, Unsent, Unread
  <2>4. Unsent' /\ Unread' /\ Inboxes' /\ Outs'
    BY <2>1, <2>2, <2>3 DEF FrameInv, Unsent, Unread, Inboxes, Outs, Runs, Read, Unpaired, Before
  <2>5. Buffers'
    <3>1. \A d \in Conn : pc[d] \in Before => peer[d] \in Conn
      BY Bound
    <3>2. \A d \in Conn : pc'[d] \in Before /\ pc'[peer'[d]] = "handed" =>
            pc[d] \in Before /\ pc[peer[d]] = "handed" /\ peer'[d] = peer[d]
      BY <2>2, <2>3, <3>1
    <3>3. \A d \in Conn : pc'[d] \in {"init", "join", "parked"} => pc'[d] = pc[d]
      BY <2>2
    <3>4. ASSUME NEW d \in Conn, pc'[d] \in Before, pc'[peer'[d]] = "handed"
          PROVE  /\ Runs(buffered'[peer'[d]], Len(got'[d]))
                 /\ Read(peer[d])' = Len(got'[d]) + Len(buffered'[peer'[d]])
      <4>1. /\ Runs(buffered[peer[d]], Len(got[d]))
            /\ Read(peer[d]) = Len(got[d]) + Len(buffered[peer[d]])
            /\ peer'[d] = peer[d]
        BY <3>2, <3>4 DEF FrameInv, Buffers
      <4>2. Read(peer[d])' = Read(peer[d])
        BY <2>1, <4>1 DEF Read
      <4> QED
        BY <2>1, <4>1, <4>2
    <3>5. \A d \in Conn :
            /\ pc'[d] \in {"init", "join"} => buffered'[d] = <<>>
            /\ pc'[d] = "parked" => Runs(buffered'[d], 0) /\ Read(d)' = Len(buffered'[d])
      BY <2>1, <3>3 DEF FrameInv, Buffers, Read
    <3> QED
      BY <3>4, <3>5 DEF Buffers, Runs, Read
  <2>6. Pumps'
    <3>1. \A e \in Conn : pc'[e] = "pump" => pc[e] = "pump" /\ peer'[e] = peer[e]
      BY <2>2
    <3>2. \A e \in Conn : pc'[e] \notin {"pump", "teardown", "done"}
                            => pc[e] \notin {"pump", "teardown", "done"}
      BY <2>1, <2>2
    <3>3. UNCHANGED <<sent, inbox, got, flow, hand>>
      BY <2>1 DEF dataVars, pumpVars
    <3>4. \A e \in Conn, d \in Dir : pc'[e] = "pump" => Pumped(e, d)'
      BY <2>1, <3>1, <3>3, PumpedSame DEF FrameInv, Pumps
    <3> QED
      BY <3>2, <3>3, <3>4 DEF FrameInv, Pumps
  <2> QED
    BY <2>4, <2>5, <2>6 DEF FrameInv
<1>3. CASE Park(c)
  <2>1. /\ pc[c] = "join" /\ pc' = [pc EXCEPT ![c] = "parked"]
        /\ UNCHANGED <<peer, dataVars, pumpVars>>
    BY <1>3 DEF Park
  <2>2. \A d \in Conn : pc'[d] = IF d = c THEN "parked" ELSE pc[d]
    BY <2>1 DEF IInv, TypeOK
  <2>3. got[c] = <<>> /\ Read(c) = 0 /\ buffered[c] = <<>>
    BY <2>1 DEF FrameInv, Unsent, Unread, Buffers, Unpaired
  <2>4. Unsent' /\ Unread' /\ Inboxes' /\ Outs'
    BY <2>1, <2>2, <2>3 DEF FrameInv, Unsent, Unread, Inboxes, Outs, Runs, Read, Unpaired, Before
  <2>5. Buffers'
    <3>1. \A d \in Conn : pc[d] \in Before => peer[d] \in Conn
      BY Bound
    <3>2. \A d \in Conn : pc'[d] \in Before /\ pc'[peer[d]] = "handed" =>
            pc[d] \in Before /\ pc[peer[d]] = "handed"
      BY <2>2, <3>1 DEF Before
    <3>3. \A d \in Conn : pc'[d] \in {"init", "join"} => pc'[d] = pc[d]
      BY <2>2
    <3>4. \A d \in Conn : pc'[d] = "parked" => d = c \/ pc[d] = "parked"
      BY <2>2
    <3>5. Runs(buffered[c], 0) /\ Read(c) = Len(buffered[c])
      BY <2>3 DEF Runs
    <3> QED
      BY <2>1, <3>2, <3>3, <3>4, <3>5 DEF FrameInv, Buffers, Runs, Read
  <2>6. Pumps'
    <3>1. \A e \in Conn : pc'[e] = "pump" => pc[e] = "pump"
      BY <2>2
    <3>2. \A e \in Conn : pc'[e] \notin {"pump", "teardown", "done"}
                            => pc[e] \notin {"pump", "teardown", "done"}
      BY <2>1, <2>2
    <3>3. UNCHANGED <<sent, inbox, got, flow, hand>>
      BY <2>1 DEF dataVars, pumpVars
    <3>4. \A e \in Conn, d \in Dir : pc'[e] = "pump" => Pumped(e, d)'
      BY <2>1, <3>1, <3>3, PumpedSame DEF FrameInv, Pumps
    <3> QED
      BY <3>2, <3>3, <3>4 DEF FrameInv, Pumps
  <2> QED
    BY <2>4, <2>5, <2>6 DEF FrameInv
<1> QED
  BY <1>1, <1>2, <1>3

LEMMA ParkFrames ==
  ASSUME IInv, FrameInv, NEW c \in Conn, ParkStep(c)
  PROVE  FrameInv'
<1>1. CASE ~ParkRead(c)
  <2>1. PICK l \in PC : Goto(c, l) /\ Unseen(pc[c], l)
    BY <1>1 DEF ParkStep, HandOver, Expire, ParkClosed, SendClose, RemovePending,
                Unseen, Unpaired, Before
  <2>2. UNCHANGED <<peer, dataVars, pumpVars>>
    BY <1>1 DEF ParkStep, HandOver, Expire, ParkClosed, SendClose, RemovePending
  <2> HIDE DEF Goto
  <2> QED
    BY <2>1, <2>2, UnseenKeeps
<1>2. CASE ParkRead(c)
  <2>1. /\ pc[c] = "parked" /\ inbox[c] # <<>> /\ inbox' = [inbox EXCEPT ![c] = Tail(@)]
        /\ UNCHANGED <<peer, sent, got, flow, hand>>
        /\ \/ /\ buffered' = [buffered EXCEPT ![c] = Append(@, Head(inbox[c]))] /\ pc' = pc
           \/ /\ pc' = [pc EXCEPT ![c] = "expiring"] /\ buffered' = buffered
    BY <1>2 DEF ParkRead
  <2>2. /\ Head(inbox[c]) = Read(c) + 1
        /\ \A y \in Conn : Read(y)' = IF y = c THEN Read(c) + 1 ELSE Read(y)
        /\ Inboxes'
    BY <2>1, ReadsOne
  <2>3. \A d \in Conn : pc'[d] = pc[d] \/ (d = c /\ pc'[d] = "expiring")
    BY <2>1 DEF IInv, TypeOK
  <2>4. \A d \in Conn : pc[d] \in Before => peer[d] \in Conn
    BY Bound
  <2>5. Unsent' /\ Unread' /\ Outs'
    BY <2>1, <2>2, <2>3 DEF FrameInv, Unsent, Unread, Outs, Runs, Unpaired, Before
  <2>6. Pumps'
    <3>1. \A e \in Conn, d \in Dir : pc'[e] = "pump" => pc[e] = "pump" /\ Read(From(e, d))' = Read(From(e, d))
      <4>1. \A e \in Conn : pc'[e] = "pump" => pc[e] = "pump"
        BY <2>3
      <4>2. \A e \in Conn, d \in Dir : pc[e] = "pump" => From(e, d) \in Conn /\ From(e, d) # c
        BY <2>1, Apart DEF From
      <4>3. \A e \in Conn, d \in Dir : From(e, d)' = From(e, d)
        BY <2>1 DEF From
      <4> QED
        BY <2>2, <4>1, <4>2, <4>3
    <3>2. \A e \in Conn, d \in Dir : pc'[e] = "pump" => Pumped(e, d)'
      BY <2>1, <3>1, PumpedKeeps DEF FrameInv, Pumps
    <3> QED
      BY <2>1, <2>3, <3>2 DEF FrameInv, Pumps
  <2>7. Buffers'
    <3>1. \A d \in Conn : pc'[d] \in Before /\ pc'[peer[d]] = "handed" =>
            pc[d] \in Before /\ pc[peer[d]] = "handed" /\ peer[d] \in Conn /\ peer[d] # c
      BY <2>1, <2>3, <2>4 DEF Before
    <3>2. \A d \in Conn : d # c => buffered'[d] = buffered[d] /\ Read(d)' = Read(d) /\ pc'[d] = pc[d]
      BY <2>1, <2>2, <2>3 DEF IInv, TypeOK
    <3>3. pc'[c] = "parked" => Runs(buffered'[c], 0) /\ Read(c)' = Len(buffered'[c])
      <4> DEFINE q == buffered[c]
      <4>1. q \in Seq(Nat) /\ Runs(q, 0) /\ Read(c) = Len(q)
        BY <2>1 DEF IInv, TypeOK, FrameInv, Buffers
      <4>2. pc'[c] = "parked" => buffered'[c] = Append(q, 0 + Len(q) + 1)
        <5>1. pc'[c] = "parked" => buffered'[c] = Append(q, Head(inbox[c]))
          BY <2>1 DEF IInv, TypeOK
        <5>2. Head(inbox[c]) = 0 + Len(q) + 1
          BY <2>2, <4>1
        <5> QED
          BY <5>1, <5>2
      <4> HIDE DEF q
      <4> QED
        BY <2>2, <4>1, <4>2, AppendRuns
    <3>4. pc'[c] \notin {"init", "join"}
      BY <2>1, <2>3
    <3>5. ASSUME NEW d \in Conn, pc'[d] \in Before, pc'[peer[d]] = "handed"
          PROVE  /\ Runs(buffered'[peer[d]], Len(got[d]))
                 /\ Read(peer[d])' = Len(got[d]) + Len(buffered'[peer[d]])
      <4>1. /\ Runs(buffered[peer[d]], Len(got[d]))
            /\ Read(peer[d]) = Len(got[d]) + Len(buffered[peer[d]])
        BY <3>1, <3>5 DEF FrameInv, Buffers
      <4>2. buffered'[peer[d]] = buffered[peer[d]] /\ Read(peer[d])' = Read(peer[d])
        BY <2>1, <2>2, <3>1, <3>2, <3>5
      <4> QED
        BY <4>1, <4>2
    <3>6. \A d \in Conn :
            /\ pc'[d] \in {"init", "join"} => buffered'[d] = <<>>
            /\ pc'[d] = "parked" => Runs(buffered'[d], 0) /\ Read(d)' = Len(buffered'[d])
      BY <3>2, <3>3, <3>4 DEF FrameInv, Buffers
    <3> QED
      BY <2>1, <3>5, <3>6 DEF Buffers, Runs, Read
  <2> QED
    BY <2>2, <2>5, <2>6, <2>7 DEF FrameInv
<1> QED
  BY <1>1, <1>2

\* A pairing sends its peer's oldest buffered frame, then pumps.
LEMMA DeliverFrames ==
  ASSUME IInv, FrameInv, NEW c \in Conn, Deliver(c)
  PROVE  FrameInv'
<1> DEFINE p == peer[c]
           q == buffered[p]
<1>1. /\ pc[c] = "deliver" /\ p \in Conn /\ p # c /\ pc[p] = "handed"
      /\ \A e \in Conn : e # c => peer[e] # p
      /\ \A e \in Conn : peer[e] # c
  BY Apart DEF Deliver
<1>2. /\ Runs(q, Len(got[c])) /\ Read(p) = Len(got[c]) + Len(q)
      /\ got[p] = <<>> /\ Read(c) = 0 /\ \A d \in Dir : flow[c][d] = "recv"
      /\ got[c] \in Seq(Nat) /\ q \in Seq(Nat) /\ Runs(got[c], 0)
      /\ Len(got[c]) \in Nat /\ Len(q) \in Nat
  <2>1. Runs(q, Len(got[c])) /\ Read(p) = Len(got[c]) + Len(q)
    BY <1>1 DEF FrameInv, Buffers, Before
  <2>2. got[p] = <<>> /\ Read(c) = 0 /\ Runs(got[c], 0)
    BY <1>1 DEF FrameInv, Unsent, Unread, Outs, Before
  <2>3. \A d \in Dir : flow[c][d] = "recv"
    BY <1>1 DEF FrameInv, Pumps
  <2>4. got[c] \in Seq(Nat) /\ q \in Seq(Nat)
    BY <1>1 DEF IInv, TypeOK
  <2> HIDE DEF p, q
  <2> QED
    BY <2>1, <2>2, <2>3, <2>4
<1>3. /\ got \in [Conn -> Seq(Nat)] /\ buffered \in [Conn -> Seq(Nat)] /\ pc \in [Conn -> PC]
      /\ UNCHANGED <<peer, inbox, sent, flow, hand>>
  BY DEF IInv, TypeOK, Deliver
<1>4. \A d \in Conn : Read(d)' = Read(d)
  BY <1>3 DEF Read
<1>5. CASE q = <<>> /\ pc' = [pc EXCEPT ![c] = "pump"] /\ UNCHANGED <<buffered, got>>
  <2>1. \A d \in Conn : pc'[d] = IF d = c THEN "pump" ELSE pc[d]
    BY <1>3, <1>5
  <2>2. Unsent' /\ Unread' /\ Inboxes' /\ Outs'
    BY <1>3, <1>5, <2>1 DEF FrameInv, Unsent, Unread, Inboxes, Outs, Runs, Read, Unpaired, Before
  <2>3. Buffers'
    <3>1. ASSUME NEW d \in Conn, pc'[d] \in Before, pc'[peer[d]] = "handed"
          PROVE  Runs(buffered[peer[d]], Len(got[d])) /\ Read(peer[d]) = Len(got[d]) + Len(buffered[peer[d]])
      <4>1. pc[d] \in Before /\ peer[d] \in Conn /\ peer[d] # c
        <5>1. pc[d] \in Before
          BY <2>1, <3>1 DEF Before
        <5>2. peer[d] \in Conn
          BY <5>1, Bound
        <5> QED
          BY <1>1, <5>1, <5>2
      <4> QED
        BY <2>1, <3>1, <4>1 DEF FrameInv, Buffers
    <3>2. \A d \in Conn :
            /\ pc'[d] \in {"init", "join"} => buffered[d] = <<>>
            /\ pc'[d] = "parked" => Runs(buffered[d], 0) /\ Read(d) = Len(buffered[d])
      BY <2>1 DEF FrameInv, Buffers
    <3> QED
      BY <1>3, <1>5, <3>1, <3>2 DEF Buffers, Runs, Read
  <2>4. Pumps'
    <3>1. Len(got[c]) + Len(q) = Len(got[c]) /\ Len(got[p]) = 0
      BY <1>2, <1>5
    <3> HIDE DEF q
    <3>2. Pumped(c, "parked") /\ Pumped(c, "arrived")
      BY <1>2, <3>1 DEF Pumped, From, To
    <3>3. \A e \in Conn, d \in Dir : pc'[e] = "pump" => Pumped(e, d)
      BY <2>1, <3>2 DEF FrameInv, Pumps
    <3>4. \A e \in Conn, d \in Dir : pc'[e] \notin {"pump", "teardown", "done"} => flow[e][d] = "recv"
      BY <2>1 DEF FrameInv, Pumps
    <3>5. \A e \in Conn, d \in Dir : Pumped(e, d)' <=> Pumped(e, d)
      BY <1>3, <1>5, PumpedSame
    <3> QED
      BY <1>3, <3>3, <3>4, <3>5 DEF Pumps
  <2> QED
    BY <2>2, <2>3, <2>4 DEF FrameInv
<1>6. CASE q # <<>> /\ got' = [got EXCEPT ![c] = Append(@, Head(q))]
           /\ buffered' = [buffered EXCEPT ![p] = Tail(@)] /\ pc' = pc
  <2> DEFINE g == got[c]
  <2>1. /\ \A d \in Conn : got'[d] = IF d = c THEN Append(g, Head(q)) ELSE got[d]
        /\ \A d \in Conn : buffered'[d] = IF d = p THEN Tail(q) ELSE buffered[d]
    BY <1>1, <1>3, <1>6
  <2> HIDE DEF p, q, g
  <2>2. /\ Head(q) = 0 + Len(g) + 1 /\ Tail(q) \in Seq(Nat) /\ Len(Tail(q)) = Len(q) - 1
        /\ Runs(Tail(q), Len(g) + 1)
    <3>1. /\ Head(q) = Len(g) + 1 /\ Tail(q) \in Seq(Nat) /\ Len(Tail(q)) = Len(q) - 1
          /\ Runs(Tail(q), Len(g) + 1)
      BY <1>2, <1>6, TailRuns DEF g
    <3> QED
      BY <1>2, <3>1 DEF g
  <2>3. Len(got'[c]) = Len(g) + 1 /\ Runs(got'[c], 0)
    <3>1. g \in Seq(Nat) /\ Runs(g, 0)
      BY <1>2 DEF g
    <3>2. got'[c] = Append(g, 0 + Len(g) + 1)
      BY <2>1, <2>2
    <3> QED
      BY <3>1, <3>2, AppendRuns
  <2>4. Unsent' /\ Unread' /\ Inboxes' /\ Outs'
    <3>1. Unsent'
      BY <1>1, <1>3, <1>6, <2>1 DEF FrameInv, Unsent, Unpaired, p
    <3>2. Unread' /\ Inboxes'
      BY <1>3, <1>6 DEF FrameInv, Unread, Inboxes, Runs, Read
    <3>3. Outs'
      <4> SUFFICES ASSUME NEW d \in Conn PROVE Runs(got'[d], 0)
        BY DEF Outs, Runs
      <4> QED
        BY <2>1, <2>3 DEF FrameInv, Outs
    <3> QED
      BY <3>1, <3>2, <3>3
  <2>5. Buffers'
    <3>1. ASSUME NEW d \in Conn, pc[d] \in Before, pc[peer[d]] = "handed"
          PROVE  /\ Runs(buffered'[peer[d]], Len(got'[d]))
                 /\ Read(peer[d]) = Len(got'[d]) + Len(buffered'[peer[d]])
      <4>1. CASE d = c
        <5>1. buffered'[peer[d]] = Tail(q) /\ peer[d] = p
          BY <1>1, <2>1, <4>1 DEF p
        <5>2. Len(got'[c]) + Len(Tail(q)) = Len(g) + Len(q)
          BY <1>2, <2>2, <2>3 DEF g
        <5> QED
          BY <1>2, <2>2, <2>3, <4>1, <5>1, <5>2 DEF g
      <4>2. CASE d # c
        <5>1. peer[d] \in Conn /\ peer[d] # p
          BY <1>1, <3>1, <4>2, NoneAssumption DEF Before, IInv, TypeOK, Ctrl, PeersMatch
        <5>2. got'[d] = got[d] /\ buffered'[peer[d]] = buffered[peer[d]]
          BY <2>1, <4>2, <5>1
        <5> QED
          BY <3>1, <5>2 DEF FrameInv, Buffers
      <4> QED
        BY <4>1, <4>2
    <3>2. \A d \in Conn :
            /\ pc[d] \in {"init", "join"} => buffered'[d] = <<>>
            /\ pc[d] = "parked" => Runs(buffered'[d], 0) /\ Read(d) = Len(buffered'[d])
      BY <1>1, <2>1 DEF FrameInv, Buffers
    <3>3. ASSUME NEW d \in Conn, pc'[d] \in Before, pc'[peer'[d]] = "handed"
          PROVE  /\ Runs(buffered'[peer'[d]], Len(got'[d]))
                 /\ Read(peer[d])' = Len(got'[d]) + Len(buffered'[peer'[d]])
      <4>1. peer'[d] = peer[d] /\ Read(peer[d])' = Read(peer[d])
        BY <1>3 DEF Read
      <4> QED
        BY <1>3, <1>6, <3>1, <3>3, <4>1
    <3>4. \A d \in Conn :
            /\ pc'[d] \in {"init", "join"} => buffered'[d] = <<>>
            /\ pc'[d] = "parked" => Runs(buffered'[d], 0) /\ Read(d)' = Len(buffered'[d])
      BY <1>4, <1>6, <3>2
    <3> QED
      BY <3>3, <3>4 DEF Buffers, Runs, Read
  <2>6. Pumps'
    <3>1. ASSUME NEW e \in Conn, NEW d \in Dir, pc[e] = "pump"
          PROVE  got'[To(e, d)] = got[To(e, d)]
      <4>1. To(e, d) \in Conn /\ To(e, d) # c
        BY <1>1, <3>1, Apart DEF To
      <4> QED
        BY <2>1, <4>1
    <3>2. ASSUME NEW e \in Conn, NEW d \in Dir, pc[e] = "pump"
          PROVE  Pumped(e, d)'
      <4>1. Read(From(e, d))' = Read(From(e, d))
        BY <1>3 DEF From, Read
      <4>2. Pumped(e, d)
        BY <3>2 DEF FrameInv, Pumps
      <4> QED
        BY <1>3, <3>1, <3>2, <4>1, <4>2, PumpedKeeps
    <3>3. \A e \in Conn, d \in Dir : pc[e] \notin {"pump", "teardown", "done"} => flow[e][d] = "recv"
      BY DEF FrameInv, Pumps
    <3> QED
      BY <1>3, <1>6, <3>2, <3>3 DEF Pumps
  <2> QED
    BY <2>4, <2>5, <2>6 DEF FrameInv
<1>7. CASE pc' = [pc EXCEPT ![c] = "undelivered"] /\ UNCHANGED <<buffered, got>>
  <2>1. Goto(c, "undelivered") /\ Unseen(pc[c], "undelivered") /\ UNCHANGED <<peer, dataVars, pumpVars>>
    BY <1>1, <1>3, <1>7 DEF Unseen, Unpaired, Before
  <2> HIDE DEF Goto
  <2> QED
    BY <2>1, UnseenKeeps
<1> QED
  BY <1>5, <1>6, <1>7 DEF Deliver

LEMMA PairFrames ==
  ASSUME IInv, FrameInv, NEW c \in Conn, PairStep(c)
  PROVE  FrameInv'
<1>1. CASE ~Deliver(c)
  <2>1. PICK l \in PC : Goto(c, l) /\ Unseen(pc[c], l)
    BY <1>1 DEF PairStep, Reclaim, AwaitParts, Vanished, TellPeer, TellSelf, Undelivered, ClosePeer,
                Teardown, Unseen, Unpaired, Before
  <2>2. UNCHANGED <<peer, dataVars, pumpVars>>
    BY <1>1 DEF PairStep, Reclaim, AwaitParts, Vanished, TellPeer, TellSelf, Undelivered, ClosePeer,
                Teardown
  <2> HIDE DEF Goto
  <2> QED
    BY <2>1, <2>2, UnseenKeeps
<1> QED
  BY <1>1, DeliverFrames

\* A pump touches nothing but the two halves it owns.
LEMMA PumpFrames ==
  ASSUME IInv, FrameInv, NEW c \in Conn, NEW d \in Dir, PumpStep(c, d)
  PROVE  FrameInv'
<1> DEFINE x == From(c, d)
           y == To(c, d)
<1>1. /\ pc[c] = "pump" /\ peer[c] \in Conn /\ peer[c] # c /\ pc[peer[c]] = "handed"
      /\ \A e \in Conn : e # c => peer[e] # peer[c]
      /\ \A e \in Conn : peer[e] # c
  BY Apart DEF PumpStep, PumpRead, PumpSend, PumpSendFails, PumpStops, PumpCloses
<1>2. /\ x \in Conn /\ y \in Conn /\ pc[x] \in {"pump", "handed"} /\ pc[y] \in {"pump", "handed"}
      /\ \A e \in Conn : pc[e] \in Before => peer[e] \in Conn \ {x, y}
      /\ \A e \in Conn, k \in Dir : pc[e] = "pump" /\ <<e, k>> # <<c, d>> =>
           From(e, k) \in Conn \ {x} /\ To(e, k) \in Conn \ {y}
  <2>1. /\ x \in Conn /\ y \in Conn /\ x \in {c, peer[c]} /\ y \in {c, peer[c]}
    BY <1>1 DEF From, To
  <2>2. \A e \in Conn : pc[e] \in Before => peer[e] \in Conn \ {x, y}
    <3>1. \A e \in Conn : pc[e] \in Before => e # c /\ peer[e] \in Conn
      <4>1. /\ \A e \in Conn : pc[e] \in PairPC \cup {"closePeer"} => peer[e] # None
            /\ peer \in [Conn -> Conn \cup {None}]
        BY DEF IInv, TypeOK, Ctrl, PeersMatch
      <4>2. Before \subseteq PairPC \cup {"closePeer"} /\ "pump" \notin Before
        BY DEF Before
      <4> HIDE DEF x, y, PairPC
      <4> QED
        BY <1>1, <4>1, <4>2
    <3> HIDE DEF x, y
    <3> QED
      BY <1>1, <2>1, <3>1
  <2>3. ASSUME NEW e \in Conn, NEW k \in Dir, pc[e] = "pump", <<e, k>> # <<c, d>>
        PROVE  From(e, k) \in Conn \ {x} /\ To(e, k) \in Conn \ {y}
    <3>1. CASE e = c
      BY <1>1, <2>3, <3>1 DEF From, To
    <3>2. CASE e # c
      <4>1. peer[e] \in Conn /\ pc[peer[e]] = "handed"
        BY <2>3, Apart
      <4> QED
        BY <1>1, <2>1, <2>3, <3>2, <4>1 DEF From, To
    <3> QED
      BY <3>1, <3>2
  <2> QED
    BY <1>1, <2>1, <2>2, <2>3
<1>3. /\ flow \in [Conn -> [Dir -> Flow]] /\ hand \in [Conn -> [Dir -> Nat]]
      /\ got \in [Conn -> Seq(Nat)] /\ pc \in [Conn -> PC]
      /\ Len(got[y]) \in Nat /\ got[y] \in Seq(Nat) /\ Runs(got[y], 0)
      /\ Pumped(c, d)
  <2>1. Pumped(c, d)
    BY <1>1 DEF FrameInv, Pumps
  <2> HIDE DEF x, y
  <2>2. got[y] \in Seq(Nat) /\ Runs(got[y], 0)
    BY <1>2 DEF IInv, TypeOK, FrameInv, Outs
  <2>3. Len(got[y]) \in Nat
    BY <2>2
  <2> QED
    BY <2>1, <2>2, <2>3 DEF IInv, TypeOK
<1>4. ASSUME UNCHANGED <<pc, peer, sent, buffered>>,
             \A e \in Conn : e # x => Read(e)' = Read(e),
             \A e \in Conn : e # y => got'[e] = got[e],
             \A e \in Conn, k \in Dir : <<e, k>> # <<c, d>> =>
               flow'[e][k] = flow[e][k] /\ hand'[e][k] = hand[e][k],
             Inboxes', Runs(got'[y], 0), Pumped(c, d)'
      PROVE  FrameInv'
  <2> HIDE DEF x, y
  <2>1. Unsent'
    BY <1>2, <1>4 DEF FrameInv, Unsent, Unpaired
  <2>2. Unread'
    BY <1>2, <1>4 DEF FrameInv, Unread, Before
  <2>3. Outs'
    <3>1. \A e \in Conn : Runs(got'[e], 0)
      BY <1>4 DEF FrameInv, Outs
    <3> QED
      BY <3>1 DEF Outs, Runs
  <2>4. Buffers'
    <3>1. ASSUME NEW e \in Conn, pc'[e] \in Before, pc'[peer'[e]] = "handed"
          PROVE  /\ Runs(buffered'[peer'[e]], Len(got'[e]))
                 /\ Read(peer[e])' = Len(got'[e]) + Len(buffered'[peer'[e]])
      <4>1. /\ pc[e] \in Before /\ pc[peer[e]] = "handed" /\ peer'[e] = peer[e]
            /\ peer[e] \in Conn \ {x} /\ got'[e] = got[e] /\ buffered' = buffered
        BY <1>2, <1>4, <3>1 DEF Before
      <4>2. Read(peer[e])' = Read(peer[e])
        <5>1. \A p \in Conn : p # x => Read(p)' = Read(p)
          BY <1>4
        <5> QED
          BY <4>1, <5>1 DEF Read
      <4> QED
        BY <4>1, <4>2 DEF FrameInv, Buffers
    <3>2. \A e \in Conn :
            /\ pc'[e] \in {"init", "join"} => buffered'[e] = <<>>
            /\ pc'[e] = "parked" => Runs(buffered'[e], 0) /\ Read(e)' = Len(buffered'[e])
      BY <1>2, <1>4 DEF FrameInv, Buffers
    <3> QED
      BY <3>1, <3>2 DEF Buffers, Runs, Read
  <2>5. Pumps'
    <3>1. ASSUME NEW e \in Conn, NEW k \in Dir, pc[e] = "pump", <<e, k>> # <<c, d>>
          PROVE  Pumped(e, k)'
      <4>1. From(e, k) \in Conn \ {x} /\ To(e, k) \in Conn \ {y} /\ Pumped(e, k)
        BY <1>2, <3>1 DEF FrameInv, Pumps
      <4>2. From(e, k)' = From(e, k) /\ To(e, k)' = To(e, k)
        BY <1>4 DEF From, To
      <4>3. Read(From(e, k))' = Read(From(e, k)) /\ got'[To(e, k)] = got[To(e, k)]
        BY <1>4, <4>1, <4>2 DEF Read
      <4> QED
        BY <1>4, <3>1, <4>1, <4>2, <4>3 DEF Pumped
    <3>2. \A e \in Conn, k \in Dir : pc[e] = "pump" => Pumped(e, k)'
      BY <1>4, <3>1
    <3>3. \A e \in Conn, k \in Dir : pc[e] \notin {"pump", "teardown", "done"} => flow'[e][k] = "recv"
      BY <1>1, <1>4 DEF FrameInv, Pumps
    <3> QED
      BY <1>4, <3>2, <3>3 DEF Pumps
  <2>6. Inboxes'
    BY <1>4
  <2> QED
    BY <2>1, <2>2, <2>3, <2>4, <2>5, <2>6 DEF FrameInv
<1>5. ASSUME UNCHANGED <<inbox, sent>>
      PROVE  (\A e \in Conn : Read(e)' = Read(e)) /\ Inboxes'
  BY <1>5 DEF FrameInv, Inboxes, Read, Runs
<1>6. CASE PumpRead(c, d)
  <2>1. /\ flow[c][d] = "recv" /\ inbox[x] # <<>> /\ inbox' = [inbox EXCEPT ![x] = Tail(@)]
        /\ hand' = [hand EXCEPT ![c][d] = Head(inbox[x])] /\ flow' = [flow EXCEPT ![c][d] = "send"]
        /\ UNCHANGED <<pc, peer, sent, buffered, got>>
    BY <1>6 DEF PumpRead
  <2>2. /\ Head(inbox[x]) = Read(x) + 1
        /\ \A e \in Conn : Read(e)' = IF e = x THEN Read(x) + 1 ELSE Read(e)
        /\ Inboxes'
    <3> HIDE DEF x
    <3> QED
      BY <1>2, <2>1, ReadsOne
  <2>3. /\ \A e \in Conn, k \in Dir : <<e, k>> # <<c, d>> =>
             flow'[e][k] = flow[e][k] /\ hand'[e][k] = hand[e][k]
        /\ flow'[c][d] = "send" /\ hand'[c][d] = Read(x) + 1
    <3> HIDE DEF x, Dir
    <3> QED
      BY <1>3, <2>1, <2>2
  <2>4. Pumped(c, d)'
    <3>1. Read(x) = Len(got[y])
      BY <1>3, <2>1 DEF Pumped
    <3>2. From(c, d)' = x /\ To(c, d)' = y /\ got'[y] = got[y]
      BY <2>1 DEF From, To
    <3>3. Read(From(c, d))' = Read(x) + 1
      <4>1. sent'[x] - Len(inbox'[x]) = Read(x) + 1
        <5> HIDE DEF x
        <5>1. \A e \in Conn : sent'[e] - Len(inbox'[e]) = IF e = x THEN Read(x) + 1 ELSE Read(e)
          BY <2>2 DEF Read
        <5> QED
          BY <1>2, <5>1
      <4> QED
        BY <3>2, <4>1 DEF Read
    <3> HIDE DEF x, y
    <3> QED
      BY <2>3, <3>1, <3>2, <3>3 DEF Pumped
  <2> HIDE DEF x, y
  <2> QED
    BY <1>3, <1>4, <2>1, <2>2, <2>3, <2>4
<1>7. CASE PumpSend(c, d)
  <2>1. /\ flow[c][d] = "send" /\ got' = [got EXCEPT ![y] = Append(@, hand[c][d])]
        /\ hand' = [hand EXCEPT ![c][d] = 0] /\ flow' = [flow EXCEPT ![c][d] = "recv"]
        /\ UNCHANGED <<pc, peer, sent, inbox, buffered>>
    BY <1>7 DEF PumpSend
  <2>2. hand[c][d] = 0 + Len(got[y]) + 1 /\ Read(x) = Len(got[y]) + 1
    <3>1. hand[c][d] = Len(got[y]) + 1 /\ Read(x) = Len(got[y]) + 1
      BY <1>3, <2>1 DEF Pumped
    <3> HIDE DEF y
    <3> QED
      BY <1>3, <3>1
  <2>3. /\ \A e \in Conn : e # y => got'[e] = got[e]
        /\ got'[y] = Append(got[y], hand[c][d])
    <3> HIDE DEF y
    <3> QED
      BY <1>2, <1>3, <2>1
  <2>4. Runs(got'[y], 0) /\ Len(got'[y]) = Len(got[y]) + 1
    <3> HIDE DEF y
    <3> QED
      BY <1>3, <2>2, <2>3, AppendRuns
  <2>5. /\ \A e \in Conn, k \in Dir : <<e, k>> # <<c, d>> =>
             flow'[e][k] = flow[e][k] /\ hand'[e][k] = hand[e][k]
        /\ flow'[c][d] = "recv"
    <3> HIDE DEF Dir
    <3> QED
      BY <1>3, <2>1
  <2>6. Pumped(c, d)'
    <3>1. From(c, d)' = x /\ To(c, d)' = y
      BY <2>1 DEF From, To
    <3>2. Read(From(c, d))' = Read(x)
      BY <2>1 DEF From, Read
    <3> HIDE DEF x, y
    <3> QED
      BY <2>2, <2>4, <2>5, <3>1, <3>2 DEF Pumped
  <2> HIDE DEF x, y
  <2> QED
    BY <1>4, <1>5, <2>1, <2>3, <2>4, <2>5, <2>6
<1>8. CASE PumpSendFails(c, d) \/ PumpStops(c, d)
  <2>1. /\ flow' = [flow EXCEPT ![c][d] = "close"]
        /\ hand' = hand \/ hand' = [hand EXCEPT ![c][d] = 0]
        /\ UNCHANGED <<pc, peer, dataVars>>
    BY <1>8 DEF PumpSendFails, PumpStops
  <2>2. /\ \A e \in Conn, k \in Dir : <<e, k>> # <<c, d>> =>
             flow'[e][k] = flow[e][k] /\ hand'[e][k] = hand[e][k]
        /\ flow'[c][d] = "close"
    <3> HIDE DEF Dir
    <3> QED
      BY <1>3, <2>1
  <2>3. Pumped(c, d)'
    BY <2>2 DEF Pumped
  <2>4. Runs(got'[y], 0) /\ UNCHANGED <<inbox, sent, buffered, got>>
    BY <1>3, <2>1
  <2> HIDE DEF x, y
  <2> QED
    BY <1>4, <1>5, <2>1, <2>2, <2>3, <2>4
<1>9. CASE PumpCloses(c, d)
  <2>1. Goto(c, "teardown") /\ Unseen(pc[c], "teardown") /\ UNCHANGED <<peer, dataVars, pumpVars>>
    BY <1>1, <1>9 DEF PumpCloses, Unseen, Unpaired, Before
  <2> HIDE DEF Goto
  <2> QED
    BY <2>1, UnseenKeeps
<1> QED
  BY <1>6, <1>7, <1>8, <1>9 DEF PumpStep

LEMMA FrameStep ==
  ASSUME IInv, FrameInv, [Next]_vars
  PROVE  FrameInv'
<1>1. CASE UNCHANGED vars
  <2>1. UNCHANGED <<pc, peer, dataVars, pumpVars>>
    BY <1>1 DEF vars
  <2>2. Unsent' /\ Unread' /\ Inboxes' /\ Outs'
    BY <2>1 DEF FrameInv, Unsent, Unread, Inboxes, Outs, Runs, Read
  <2>3. Buffers'
    BY <2>1 DEF FrameInv, Buffers, Runs, Read
  <2>4. Pumps'
    <3>1. UNCHANGED <<pc, peer, sent, inbox, got, flow, hand>>
      BY <2>1 DEF dataVars, pumpVars
    <3>2. \A e \in Conn, d \in Dir : Pumped(e, d)' <=> Pumped(e, d)
      BY <3>1, PumpedSame
    <3> QED
      BY <3>1, <3>2 DEF FrameInv, Pumps
  <2> QED
    BY <2>2, <2>3, <2>4 DEF FrameInv
<1>2. ASSUME NEW c \in Conn, Dial(c) \/ TaskStep(c) \/ RemoteSends(c) \/ Fault(c)
      PROVE  FrameInv'
  BY <1>2, JoinFrames, ParkFrames, PairFrames, PumpFrames, RemoteFrames DEF TaskStep
<1> QED
  BY <1>1, <1>2 DEF Next

(***************************************************************************)
(* A tunnel passes frames on verbatim: what reaches an end is what the     *)
(* other end sent, in order and without a gap, across the parking buffer   *)
(* and the pumps.                                                          *)
(***************************************************************************)
THEOREM FramesInOrder == Spec => []InOrder
<1>1. IInv /\ FrameInv /\ [Next]_vars => FrameInv'
  BY FrameStep
<1>2. IInv /\ FrameInv => InOrder
  <2> SUFFICES ASSUME IInv, FrameInv, NEW c \in Conn, NEW i \in 1..Len(got[c])
               PROVE  got[c][i] = i
    BY DEF InOrder
  <2>1. got[c][i] = 0 + i
    BY DEF FrameInv, Outs, Runs
  <2> QED
    BY <2>1 DEF IInv, TypeOK
<1> QED
  BY <1>1, <1>2, FrameInit, Invariant, PTL DEF Spec

-----------------------------------------------------------------------------
(* The tunnel route implements TunnelService.                                *)

Joined == {c \in Conn : pc[c] \notin {"init", "join"}}

\* A move of one task that neither begins nor ends its join or its pairing.
LEMMA MoveMeans ==
  ASSUME CtrlType, NEW c \in Conn, NEW l, pc' = pc \/ pc' = [pc EXCEPT ![c] = l],
         pc[c] \in PairPC <=> l \in PairPC,
         pc[c] \in {"init", "join"} <=> l \in {"init", "join"},
         UNCHANGED <<slots, pending, peer>>
  PROVE  Joined' = Joined /\ \A s \in Session : Ends(s)' = Ends(s)
<1>1. \A d \in Conn : /\ pc'[d] \in PairPC <=> pc[d] \in PairPC
                      /\ pc'[d] \in {"init", "join"} <=> pc[d] \in {"init", "join"}
  <2> HIDE DEF PairPC
  <2>1. CASE pc' = pc
    BY <2>1
  <2>2. CASE pc' = [pc EXCEPT ![c] = l]
    BY <2>2 DEF CtrlType
  <2> QED
    BY <2>1, <2>2
<1> HIDE DEF PairPC
<1>2. Joined' = Joined
  BY <1>1 DEF Joined
<1>3. ASSUME NEW s \in Session PROVE Ends(s)' = Ends(s)
  <2>1. \A d \in Conn : Pairing(d)' <=> Pairing(d)
    BY <1>1 DEF Pairing
  <2> QED
    BY <2>1 DEF Ends
<1> QED
  BY <1>2, <1>3

LEMMA QuietMeans ==
  ASSUME Joined' = Joined, \A s \in Session : Ends(s)' = Ends(s), UNCHANGED <<slots, sent, got>>
  PROVE  UNCHANGED Tunnel!tunnelVars
<1>1. [s \in Session |-> Ends(s)]' = [s \in Session |-> Ends(s)]
  OBVIOUS
<1> QED
  BY <1>1 DEF Tunnel!tunnelVars, Joined

\* One session's entry changes hands; the others keep theirs.
LEMMA HoldsMeans ==
  ASSUME NEW s \in Session, NEW k, NEW E,
         slots' = [slots EXCEPT ![s] = k],
         Ends(s)' = E, \A r \in Session : r # s => Ends(r)' = Ends(r)
  PROVE  Tunnel!Holds(s, k, E)
<1>1. [r \in Session |-> Ends(r)]' = [[r \in Session |-> Ends(r)] EXCEPT ![s] = E]
  OBVIOUS
<1> QED
  BY <1>1 DEF Tunnel!Holds

\* A removal by session id takes out the entry its task holds, with all its ends.
LEMMA FreeMeans ==
  ASSUME CtrlType, Ctrl, NEW c \in Conn, Pairing(c) \/ slots[SessionOf[c]] = "pending",
         Remove(SessionOf[c]), pc[c] \notin {"init", "join"},
         NEW l \in {"reject", "closePeer", "done"}, pc' = [pc EXCEPT ![c] = l],
         UNCHANGED <<peer, sent, got>>
  PROVE  Tunnel!Free(SessionOf[c])
<1> DEFINE s == SessionOf[c]
<1>1. s \in Session /\ slots[s] # "none"
  BY SessionAssumption DEF Ctrl, SlotsHaveOwners
<1>2. Joined' = Joined
  BY DEF Joined, CtrlType
<1>3. /\ slots' = [slots EXCEPT ![s] = "none"] /\ pending' = [pending EXCEPT ![s] = None]
      /\ \A d \in Conn : pc'[d] = IF d = c THEN l ELSE pc[d]
  BY DEF Remove, CtrlType
<1>4. \A d \in Conn : Pairing(d)' <=> Pairing(d) /\ d # c
  BY <1>3 DEF Pairing
<1>5. \A d \in Conn : Pairing(d) /\ SessionOf[d] = s => d = c
  BY <1>1 DEF Ctrl, SlotsHaveOwners
<1> HIDE DEF s
<1>6. Ends(s)' = {}
  BY <1>1, <1>3, <1>4, <1>5 DEF Ends, CtrlType
<1>7. ASSUME NEW r \in Session, r # s PROVE Ends(r)' = Ends(r)
  <2>1. slots'[r] = slots[r] /\ pending'[r] = pending[r]
    BY <1>1, <1>3, <1>7 DEF CtrlType
  <2>2. \A d \in Conn : SessionOf[d] = r => (Pairing(d)' <=> Pairing(d))
    BY <1>4, <1>7 DEF s
  <2> QED
    BY <2>1, <2>2 DEF Ends
<1>8. Tunnel!Holds(s, "none", {})
  BY <1>1, <1>3, <1>6, <1>7, HoldsMeans
<1> QED
  BY <1>1, <1>2, <1>8 DEF Tunnel!Free, Joined, s

-----------------------------------------------------------------------------
(* Joins. *)

\* The caps as TunnelService compares them: what is counted is finite.
LEMMA CapsCompare ==
  ASSUME CapInv
  PROVE  AtActiveCap <=> ~(Cardinality(InState("active")) < MaxActive)
<1>1. Cardinality(InState("active")) \in Nat
  BY FS_CardinalityType DEF CapInv, Counted
<1> QED
  BY <1>1, BoundAssumption DEF AtActiveCap

LEMMA DecidesMeans ==
  ASSUME CtrlType, NEW c \in Conn, pc[c] = "join", NEW l \in {"reject", "parked", "reclaim"},
         Goto(c, l), UNCHANGED <<sent, got>>
  PROVE  Tunnel!Joins(c)
<1>1. c \notin Joined /\ Joined' = Joined \cup {c}
  BY DEF Joined, CtrlType
<1> QED
  BY <1>1 DEF Tunnel!Joins, Joined

\* The instance counts as FiniteSets does.
LEMMA SameCount == \A S : Tunnel!Cardinality(S) = Cardinality(S)
BY DEF Tunnel!Cardinality, Cardinality

\* Which slots a join finds, in TunnelService's words.
LEMMA MayMeans ==
  ASSUME CtrlType, Ctrl, CapInv, NEW c \in Conn
  PROVE  /\ Tunnel!MayPark(c) <=> /\ slots[SessionOf[c]] = "none"
                                  /\ Cardinality(InState("pending")) < MaxPending
         /\ Tunnel!MayPair(c) <=> Opposite(c) /\ ~AtActiveCap
<1>1. SessionOf[c] \in Session
  BY SessionAssumption
<1>2. slots[SessionOf[c]] = "pending" => Ends(SessionOf[c]) = {pending[SessionOf[c]]}
  BY DEF Ends
<1>3. /\ InState("pending") = Tunnel!In("pending")
      /\ InState("active") = Tunnel!In("active")
  BY DEF InState, Tunnel!In
<1> QED
  BY <1>1, <1>2, <1>3, CapsCompare, SameCount DEF Tunnel!MayPark, Tunnel!MayPair, Opposite

LEMMA TurnAwayMeans ==
  ASSUME CtrlType, Ctrl, CapInv, NEW c \in Conn,
         RejectActive(c) \/ RejectDuplicate(c) \/ RejectActiveCap(c) \/ RejectPendingCap(c)
  PROVE  Tunnel!TurnAway(c)
<1>1. /\ pc[c] = "join" /\ Goto(c, "reject") /\ UNCHANGED <<slots, pending, peer, sent, got>>
  BY DEF RejectActive, RejectDuplicate, RejectActiveCap, RejectPendingCap
<1>2. Tunnel!Joins(c)
  <2> HIDE DEF Goto
  <2> QED
    BY <1>1, DecidesMeans
<1>3. ~Tunnel!MayPark(c) /\ ~Tunnel!MayPair(c)
  <2>1. \/ slots[SessionOf[c]] \in {"active", "pending"} /\ ~(Opposite(c) /\ ~AtActiveCap)
        \/ slots[SessionOf[c]] = "none" /\ Cardinality(InState("pending")) >= MaxPending
    BY DEF RejectActive, RejectDuplicate, RejectActiveCap, RejectPendingCap, Opposite
  <2>2. Cardinality(InState("pending")) \in Nat /\ MaxPending \in Nat
    BY BoundAssumption, FS_CardinalityType DEF CapInv, Counted
  <2> QED
    BY <2>1, <2>2, MayMeans DEF Opposite
<1>4. [s \in Session |-> Ends(s)]' = [s \in Session |-> Ends(s)]
  <2>1. pc' = [pc EXCEPT ![c] = "reject"]
    BY <1>1
  <2>2. \A d \in Conn : pc'[d] = IF d = c THEN "reject" ELSE pc[d]
    BY <2>1 DEF CtrlType
  <2>3. \A d \in Conn : Pairing(d)' <=> Pairing(d)
    BY <1>1, <2>2 DEF Pairing
  <2>4. \A s \in Session : Ends(s)' = Ends(s)
    BY <1>1, <2>3 DEF Ends
  <2> QED
    BY <2>4
<1> QED
  BY <1>1, <1>2, <1>3, <1>4 DEF Tunnel!TurnAway

LEMMA ParkMeans ==
  ASSUME CtrlType, Ctrl, CapInv, NEW c \in Conn, Park(c)
  PROVE  Tunnel!Park(c)
<1> DEFINE s == SessionOf[c]
<1>1. /\ s \in Session /\ pc[c] = "join" /\ Goto(c, "parked")
      /\ slots' = [slots EXCEPT ![s] = "pending"] /\ pending' = [pending EXCEPT ![s] = c]
      /\ UNCHANGED <<peer, sent, got>>
  BY SessionAssumption DEF Park
<1>2. Tunnel!Joins(c) /\ Tunnel!MayPark(c)
  <2> HIDE DEF Goto, s
  <2> QED
    BY <1>1, DecidesMeans, MayMeans DEF Park
<1>3. \A d \in Conn : pc'[d] = IF d = c THEN "parked" ELSE pc[d]
  BY <1>1 DEF CtrlType
<1>4. \A d \in Conn : Pairing(d)' <=> Pairing(d)
  BY <1>1, <1>3 DEF Pairing
<1> HIDE DEF s
<1>5. Ends(s)' = {c}
  BY <1>1 DEF Ends, CtrlType
<1>6. ASSUME NEW r \in Session, r # s PROVE Ends(r)' = Ends(r)
  <2>1. slots'[r] = slots[r] /\ pending'[r] = pending[r] /\ peer' = peer
    BY <1>1, <1>6 DEF CtrlType
  <2> QED
    BY <1>4, <2>1 DEF Ends
<1> QED
  BY <1>1, <1>2, <1>5, <1>6, HoldsMeans DEF Tunnel!Park, s

LEMMA PairMeans ==
  ASSUME CtrlType, Ctrl, CapInv, NEW c \in Conn, Pair(c)
  PROVE  Tunnel!Pair(c)
<1> DEFINE s == SessionOf[c]
           p == pending[s]
<1>1. /\ s \in Session /\ pc[c] = "join" /\ Goto(c, "reclaim") /\ slots[s] = "pending" /\ p \in Conn
      /\ slots' = [slots EXCEPT ![s] = "active"] /\ pending' = [pending EXCEPT ![s] = None]
      /\ peer' = [peer EXCEPT ![c] = p] /\ UNCHANGED <<sent, got>>
  BY SessionAssumption DEF Pair, Opposite, Ctrl, SlotsHaveOwners
<1>2. Tunnel!Joins(c) /\ Tunnel!MayPair(c)
  <2> HIDE DEF Goto, s, p
  <2> QED
    BY <1>1, DecidesMeans, MayMeans DEF Pair
<1>3. \A d \in Conn : /\ pc'[d] = IF d = c THEN "reclaim" ELSE pc[d]
                      /\ peer'[d] = IF d = c THEN p ELSE peer[d]
  BY <1>1 DEF CtrlType
<1>4. \A d \in Conn : Pairing(d)' <=> Pairing(d) \/ d = c
  BY <1>3 DEF Pairing
<1>5. \A d \in Conn : Pairing(d) => SessionOf[d] # s /\ d # c
  BY <1>1 DEF Ctrl, SlotsHaveOwners, Pairing
<1> HIDE DEF s, p
<1>6. Ends(s) = {p} /\ Ends(s)' = {p} \cup {c}
  <2>1. Ends(s) = {p}
    BY <1>1 DEF Ends, p
  <2>2. Ends(s)' = {c, p}
    BY <1>1, <1>3, <1>4, <1>5 DEF Ends, CtrlType, s
  <2> QED
    BY <2>1, <2>2
<1>7. ASSUME NEW r \in Session, r # s PROVE Ends(r)' = Ends(r)
  <2>1. slots'[r] = slots[r] /\ pending'[r] = pending[r]
    BY <1>1, <1>7 DEF CtrlType
  <2>2. \A d \in Conn : SessionOf[d] = r => (Pairing(d)' <=> Pairing(d)) /\ peer'[d] = peer[d]
    BY <1>3, <1>4, <1>7 DEF s
  <2> QED
    BY <2>1, <2>2 DEF Ends
<1>8. Tunnel!Holds(s, "active", Ends(s) \cup {c})
  BY <1>1, <1>6, <1>7, HoldsMeans
<1> QED
  BY <1>1, <1>2, <1>8 DEF Tunnel!Pair, s

-----------------------------------------------------------------------------
(* Removals, and the steps between them. *)

LEMMA RemoveMeans ==
  ASSUME CtrlType, Ctrl, NEW c \in Conn, Vanished(c) \/ Undelivered(c) \/ Teardown(c)
  PROVE  Tunnel!Free(SessionOf[c])
<1>1. /\ Pairing(c) /\ pc[c] \notin {"init", "join"}
      /\ Remove(SessionOf[c]) /\ UNCHANGED <<peer, sent, got>>
      /\ \E l \in {"reject", "closePeer", "done"} : pc' = [pc EXCEPT ![c] = l]
  BY DEF Vanished, Undelivered, Teardown, Pairing
<1> QED
  BY <1>1, FreeMeans

LEMMA RemovePendingMeans ==
  ASSUME CtrlType, Ctrl, NEW c \in Conn, RemovePending(c)
  PROVE  Tunnel!Free(SessionOf[c]) \/ UNCHANGED Tunnel!tunnelVars
<1>1. pc[c] = "removing" /\ pc' = [pc EXCEPT ![c] = "done"] /\ UNCHANGED <<peer, sent, got>>
  BY DEF RemovePending
<1>2. CASE slots[SessionOf[c]] = "pending"
  BY <1>1, <1>2, FreeMeans DEF RemovePending
<1>3. CASE slots[SessionOf[c]] # "pending"
  <2>1. UNCHANGED <<slots, pending, peer>>
    BY <1>3 DEF RemovePending
  <2> QED
    BY <1>1, <2>1, MoveMeans, QuietMeans
<1> QED
  BY <1>2, <1>3

\* Everything a task does that TunnelService does not see.
LEMMA MovesMean ==
  ASSUME CtrlType, NEW c \in Conn,
         \/ Dial(c) \/ CloseSelf(c) \/ HandOver(c) \/ Expire(c) \/ ParkRead(c)
         \/ ParkClosed(c) \/ SendClose(c) \/ Reclaim(c) \/ AwaitParts(c) \/ TellPeer(c)
         \/ TellSelf(c) \/ ClosePeer(c) \/ Fault(c)
  PROVE  UNCHANGED Tunnel!tunnelVars
<1>1. /\ UNCHANGED <<slots, pending, peer, sent, got>>
      /\ \/ pc' = pc
         \/ \E l \in PC : /\ pc' = [pc EXCEPT ![c] = l]
                          /\ pc[c] \in PairPC <=> l \in PairPC
                          /\ pc[c] \in {"init", "join"} <=> l \in {"init", "join"}
  <2>1. CASE Dial(c) \/ CloseSelf(c) \/ ClosePeer(c)
    BY <2>1 DEF Dial, CloseSelf, ClosePeer
  <2>2. CASE HandOver(c) \/ Expire(c) \/ ParkRead(c) \/ ParkClosed(c) \/ SendClose(c)
    BY <2>2 DEF HandOver, Expire, ParkRead, ParkClosed, SendClose
  <2>3. CASE Reclaim(c) \/ AwaitParts(c) \/ TellPeer(c) \/ TellSelf(c)
    BY <2>3 DEF Reclaim, AwaitParts, TellPeer, TellSelf
  <2>4. CASE Fault(c)
    BY <2>4 DEF Fault, Drop, Stall, Unstall, SockTurns
  <2> QED
    BY <2>1, <2>2, <2>3, <2>4
<1>2. pc[c] \in PC
  BY DEF CtrlType
<1> HIDE DEF PairPC
<1>3. Joined' = Joined /\ \A s \in Session : Ends(s)' = Ends(s)
  <2>1. CASE pc' = pc
    BY <1>1, <1>2, <2>1, MoveMeans
  <2>2. CASE pc' # pc
    <3>1. PICK l \in PC : /\ pc' = [pc EXCEPT ![c] = l]
                          /\ pc[c] \in PairPC <=> l \in PairPC
                          /\ pc[c] \in {"init", "join"} <=> l \in {"init", "join"}
      BY <1>1, <2>2
    <3> QED
      BY <1>1, <3>1, MoveMeans
  <2> QED
    BY <2>1, <2>2
<1> QED
  BY <1>1, <1>3, QuietMeans

LEMMA PumpMovesMean ==
  ASSUME CtrlType, NEW c \in Conn, NEW d \in Dir,
         PumpRead(c, d) \/ PumpSendFails(c, d) \/ PumpStops(c, d) \/ PumpCloses(c, d)
  PROVE  UNCHANGED Tunnel!tunnelVars
<1>1. /\ UNCHANGED <<slots, pending, peer, sent, got>>
      /\ pc' = pc \/ pc' = [pc EXCEPT ![c] = "teardown"]
      /\ pc[c] = "pump"
  BY DEF PumpRead, PumpSendFails, PumpStops, PumpCloses
<1>2. Joined' = Joined /\ \A s \in Session : Ends(s)' = Ends(s)
  BY <1>1, MoveMeans
<1> QED
  BY <1>1, <1>2, QuietMeans

-----------------------------------------------------------------------------
(* Frames. *)

LEMMA SendMeans ==
  ASSUME CtrlType, NEW c \in Conn, RemoteSends(c)
  PROVE  Tunnel!Send(c)
<1>1. UNCHANGED <<slots, pending, pc, peer, got>> /\ sent' = [sent EXCEPT ![c] = @ + 1]
  BY DEF RemoteSends
<1>2. pc[c] \in PC
  BY DEF CtrlType
<1>3. Joined' = Joined /\ \A s \in Session : Ends(s)' = Ends(s)
  BY <1>1, <1>2, MoveMeans
<1> QED
  BY <1>1, <1>3 DEF Tunnel!Send, Joined

\* The next frame for one end of a tunnel, once the other end has sent it.
LEMMA ForwardMeans ==
  ASSUME IInv, NEW c \in Conn, pc[c] \in {"deliver", "pump"}, NEW x, NEW y, x # y,
         {x, y} = {c, peer[c]}, Len(got[y]) < sent[x],
         got' = [got EXCEPT ![y] = Append(@, Len(@) + 1)],
         UNCHANGED <<slots, pending, pc, peer, sent>>
  PROVE  Tunnel!Deliver(SessionOf[c], y, x) /\ {x, y} \subseteq Ends(SessionOf[c])
<1> DEFINE s == SessionOf[c]
<1>1. CtrlType /\ SlotsHaveOwners /\ s \in Session /\ Pairing(c)
  BY SessionAssumption DEF IInv, TypeOK, CtrlType, Ctrl, Pairing
<1>2. slots[s] = "active"
  BY <1>1 DEF SlotsHaveOwners
<1>3. {x, y} \subseteq Ends(s)
  <2>1. peer[c] \in Conn
    BY Apart
  <2> QED
    BY <1>1, <1>2, <2>1 DEF Ends
<1>4. Joined' = Joined /\ \A r \in Session : Ends(r)' = Ends(r)
  <2>1. pc[c] \in PC
    BY <1>1 DEF CtrlType
  <2> QED
    BY <1>1, <2>1, MoveMeans
<1> HIDE DEF s
<1> QED
  BY <1>1, <1>2, <1>3, <1>4 DEF Tunnel!Deliver, Joined, s

LEMMA DeliverMeans ==
  ASSUME IInv, FrameInv, NEW c \in Conn, Deliver(c)
  PROVE  \/ UNCHANGED Tunnel!tunnelVars
         \/ \E s \in Session : \E e, f \in Ends(s) : Tunnel!Deliver(s, e, f)
<1> DEFINE p == peer[c]
           q == buffered[p]
<1>1. CtrlType /\ pc[c] = "deliver" /\ UNCHANGED <<slots, pending, peer, sent>>
  BY DEF IInv, TypeOK, CtrlType, Deliver
<1>2. p \in Conn /\ p # c /\ pc[p] = "handed"
  BY <1>1, Apart
<1>3. CASE q # <<>> /\ got' = [got EXCEPT ![c] = Append(@, Head(q))] /\ pc' = pc
  <2>1. /\ Runs(q, Len(got[c])) /\ Read(p) = Len(got[c]) + Len(q)
        /\ got[c] \in Seq(Nat) /\ q \in Seq(Nat) /\ inbox[p] \in Seq(Nat) /\ sent[p] \in Nat
    BY <1>1, <1>2 DEF FrameInv, Buffers, Before, IInv, TypeOK
  <2> HIDE DEF p, q
  <2>2. Len(got[c]) \in Nat /\ Head(q) = Len(got[c]) + 1 /\ Len(q) \in Nat \ {0}
    BY <1>3, <2>1, TailRuns
  <2>3. Len(got[c]) < sent[p]
    <3>1. sent[p] - Len(inbox[p]) = Len(got[c]) + Len(q) /\ Len(inbox[p]) \in Nat
      BY <2>1 DEF Read
    <3> QED
      BY <2>1, <2>2, <3>1
  <2>4. got' = [got EXCEPT ![c] = Append(@, Len(@) + 1)]
    BY <1>3, <2>2
  <2>5. Tunnel!Deliver(SessionOf[c], c, p) /\ {p, c} \subseteq Ends(SessionOf[c])
    <3>1. {p, c} = {c, peer[c]}
      BY DEF p
    <3> QED
      BY <1>1, <1>2, <1>3, <2>3, <2>4, <3>1, ForwardMeans
  <2> QED
    BY <2>5, SessionAssumption
<1>4. CASE got' = got /\ (Goto(c, "pump") \/ Goto(c, "undelivered"))
  <2>1. Joined' = Joined /\ \A s \in Session : Ends(s)' = Ends(s)
    BY <1>1, <1>4, MoveMeans
  <2> QED
    BY <1>1, <1>4, <2>1, QuietMeans
<1> QED
  BY <1>3, <1>4 DEF Deliver

LEMMA PumpSendMeans ==
  ASSUME IInv, FrameInv, NEW c \in Conn, NEW d \in Dir, PumpSend(c, d)
  PROVE  \E s \in Session : \E e, f \in Ends(s) : Tunnel!Deliver(s, e, f)
<1> DEFINE x == From(c, d)
           y == To(c, d)
<1>1. /\ pc[c] = "pump" /\ flow[c][d] = "send"
      /\ got' = [got EXCEPT ![y] = Append(@, hand[c][d])]
      /\ UNCHANGED <<slots, pending, pc, peer, sent>>
  BY DEF PumpSend
<1>2. peer[c] \in Conn /\ peer[c] # c
  BY <1>1, Apart
<1>3. x \in Conn /\ y \in Conn /\ x # y /\ {x, y} = {c, peer[c]}
  BY <1>2 DEF From, To
<1>4. hand[c][d] = Len(got[y]) + 1 /\ Read(x) = Len(got[y]) + 1
  BY <1>1 DEF FrameInv, Pumps, Pumped
<1> HIDE DEF x, y
<1>5. Len(got[y]) < sent[x]
  <2>1. got[y] \in Seq(Nat) /\ inbox[x] \in Seq(Nat) /\ sent[x] \in Nat
    BY <1>3 DEF IInv, TypeOK
  <2>2. Len(got[y]) \in Nat /\ Len(inbox[x]) \in Nat
    BY <2>1
  <2> QED
    BY <1>4, <2>1, <2>2 DEF Read
<1>6. got' = [got EXCEPT ![y] = Append(@, Len(@) + 1)]
  BY <1>1, <1>4
<1>7. Tunnel!Deliver(SessionOf[c], y, x) /\ {x, y} \subseteq Ends(SessionOf[c])
  BY <1>1, <1>3, <1>5, <1>6, ForwardMeans
<1> QED
  BY <1>7, SessionAssumption

-----------------------------------------------------------------------------
(* The refinement. *)

LEMMA InitMeans == Init => Tunnel!Init
<1> SUFFICES ASSUME Init PROVE Tunnel!Init
  OBVIOUS
<1>1. Joined = {} /\ \A s \in Session : Ends(s) = {}
  BY DEF Init, Joined, Ends, Pairing
<1> QED
  BY <1>1 DEF Init, Tunnel!Init, Joined

LEMMA NextMeans ==
  ASSUME IInv, CapInv, FrameInv, [Next]_vars
  PROVE  [Tunnel!Next]_(Tunnel!tunnelVars)
<1>1. CtrlType /\ Ctrl
  BY DEF IInv, TypeOK, CtrlType
<1>2. CASE UNCHANGED vars
  <2>1. UNCHANGED <<slots, pending, pc, peer, sent, got>>
    BY <1>2 DEF vars
  <2>2. Joined' = Joined /\ \A s \in Session : Ends(s)' = Ends(s)
    BY <2>1 DEF Joined, Ends, Pairing
  <2> QED
    BY <2>1, <2>2, QuietMeans
<1>3. ASSUME NEW c \in Conn, Dial(c) \/ JoinStep(c) PROVE Tunnel!Next \/ UNCHANGED Tunnel!tunnelVars
  <2>1. CASE Park(c) \/ Pair(c)
    BY <1>1, <2>1, ParkMeans, PairMeans DEF Tunnel!Next
  <2>2. CASE RejectActive(c) \/ RejectDuplicate(c) \/ RejectActiveCap(c) \/ RejectPendingCap(c)
    BY <1>1, <2>2, TurnAwayMeans DEF Tunnel!Next
  <2>3. CASE Dial(c) \/ CloseSelf(c)
    BY <1>1, <2>3, MovesMean
  <2> QED
    BY <1>3, <2>1, <2>2, <2>3 DEF JoinStep
<1>4. ASSUME NEW c \in Conn, ParkStep(c) PROVE Tunnel!Next \/ UNCHANGED Tunnel!tunnelVars
  <2>1. CASE RemovePending(c)
    BY <1>1, <2>1, RemovePendingMeans, SessionAssumption DEF Tunnel!Next
  <2>2. CASE ~RemovePending(c)
    BY <1>1, <1>4, <2>2, MovesMean DEF ParkStep
  <2> QED
    BY <2>1, <2>2
<1>5. ASSUME NEW c \in Conn, PairStep(c) PROVE Tunnel!Next \/ UNCHANGED Tunnel!tunnelVars
  <2>1. CASE Vanished(c) \/ Undelivered(c) \/ Teardown(c)
    BY <1>1, <2>1, RemoveMeans, SessionAssumption DEF Tunnel!Next
  <2>2. CASE Deliver(c)
    BY <2>2, DeliverMeans DEF Tunnel!Next
  <2>3. CASE Reclaim(c) \/ AwaitParts(c) \/ TellPeer(c) \/ TellSelf(c) \/ ClosePeer(c)
    BY <1>1, <2>3, MovesMean
  <2> QED
    BY <1>5, <2>1, <2>2, <2>3 DEF PairStep
<1>6. ASSUME NEW c \in Conn, NEW d \in Dir, PumpStep(c, d)
      PROVE  Tunnel!Next \/ UNCHANGED Tunnel!tunnelVars
  <2>1. CASE PumpSend(c, d)
    BY <2>1, PumpSendMeans DEF Tunnel!Next
  <2>2. CASE ~PumpSend(c, d)
    BY <1>1, <1>6, <2>2, PumpMovesMean DEF PumpStep
  <2> QED
    BY <2>1, <2>2
<1>7. ASSUME NEW c \in Conn, RemoteSends(c) \/ Fault(c)
      PROVE  Tunnel!Next \/ UNCHANGED Tunnel!tunnelVars
  BY <1>1, <1>7, SendMeans, MovesMean DEF Tunnel!Next
<1> QED
  BY <1>2, <1>3, <1>4, <1>5, <1>6, <1>7 DEF Next, TaskStep

(***************************************************************************)
(* The tunnel route serves as TunnelService says, for any number of        *)
(* sockets and sessions and any caps: whatever joins, expiries and         *)
(* teardowns race, a removal frees a whole entry and only its own, a       *)
(* socket is turned away only when it may neither park nor pair, and a     *)
(* tunnel delivers the next frame its other end has sent, and no other.    *)
(***************************************************************************)
THEOREM TunnelsServed == Spec => ServesTunnels
<1>1. IInv /\ CapInv /\ FrameInv /\ [Next]_vars => CapInv' /\ FrameInv'
  BY CapStep, FrameStep DEF IInv
<1>2. IInv /\ CapInv /\ FrameInv /\ [Next]_vars => [Tunnel!Next]_(Tunnel!tunnelVars)
  BY NextMeans
<1> QED
  BY <1>1, <1>2, CapInit, FrameInit, InitMeans, Invariant, PTL DEF Spec, ServesTunnels, Tunnel!Spec
=============================================================================
