-------------------------- MODULE RoomRelay_proofs --------------------------
(***************************************************************************)
(* TLAPS proofs about RoomRelay, for any set of connections and rooms.     *)
(***************************************************************************)
EXTENDS RoomRelay, TLAPS

-----------------------------------------------------------------------------
(* Types, and what each label says of the connection a task is about to send *)
(* to: a task that sends has one.                                            *)

PeerKnown ==
  \A c \in Conn :
    /\ pc[c]["join"] \in {"notify", "clearPeer"} => peer[c]["join"] # None
    /\ pc[c]["read"] \in {"forward", "clearTarget"} => peer[c]["read"] # None

Typing == TypeOK /\ PeerKnown

USE DEF PC, JoinPC, ReadPC, CleanPC, Task, Goto, roomVars, sockVars

LEMMA EvictTyping ==
  ASSUME TypeOK, NEW v \in Conn, Evict(v)
  PROVE  /\ evicted' \in [Conn -> BOOLEAN]
         /\ sock' \in [Conn -> {"none", "up", "mute", "stalled", "down"}]
BY DEF TypeOK, Evict

LEMMA ClearSlotTyping ==
  ASSUME TypeOK, NEW v \in Conn, ClearSlot(v)
  PROVE  /\ master' \in [Room -> Conn \cup {None}]
         /\ client' \in [Room -> Conn \cup {None}]
BY DEF TypeOK, ClearSlot

LEMMA TypingInit == Init => Typing
BY DEF Init, Typing, TypeOK, PeerKnown

LEMMA JoinTyping ==
  ASSUME Typing, NEW c \in Conn, Upgrade(c) \/ JoinStep(c)
  PROVE  Typing'
<1> USE DEF Typing, PeerKnown
<1>1. CASE Upgrade(c)
  BY <1>1 DEF TypeOK, Upgrade
<1>2. CASE RejectRole(c)
  BY <1>2, EvictTyping DEF TypeOK, RejectRole
<1>3. CASE ClaimMaster(c)
  <2> DEFINE r == RoomOf[c]
  <2>1. r \in Room
    BY RoomAssumption
  <2>2. /\ peer' = [peer EXCEPT ![c]["join"] = client[r]]
        /\ client[r] \in Conn \cup {None}
    BY <1>3, <2>1 DEF TypeOK, ClaimMaster
  <2>3. peer' \in [Conn -> [Task -> Conn \cup {None}]]
    BY <2>2 DEF TypeOK
  <2>4. pc' \in [Conn -> [Task -> PC]]
    BY <1>3 DEF TypeOK, ClaimMaster
  <2>5. master' \in [Room -> Conn \cup {None}]
    BY <1>3, <2>1 DEF TypeOK, ClaimMaster
  <2>6. TypeOK'
    BY <1>3, <2>1, <2>3, <2>4, <2>5 DEF TypeOK, ClaimMaster
  <2>7. pc' = [pc EXCEPT ![c]["join"] = IF client[r] = None THEN "register" ELSE "notify"]
    BY <1>3 DEF ClaimMaster
  <2>8. PeerKnown'
    BY <2>2, <2>7 DEF TypeOK
  <2> QED
    BY <2>6, <2>8
<1>4. CASE ClaimClient(c)
  <2> DEFINE r == RoomOf[c]
             l == IF client[r] # None THEN "evictOld"
                  ELSE IF master[r] # None THEN "notify" ELSE "register"
  <2>1. r \in Room
    BY RoomAssumption
  <2>2. /\ peer' = [peer EXCEPT ![c]["join"] = master[r]]
        /\ master[r] \in Conn \cup {None}
    BY <1>4, <2>1 DEF TypeOK, ClaimClient
  <2>3. peer' \in [Conn -> [Task -> Conn \cup {None}]]
    BY <2>2 DEF TypeOK
  <2>4. pc' = [pc EXCEPT ![c]["join"] = l]
    BY <1>4 DEF ClaimClient
  <2>5. pc' \in [Conn -> [Task -> PC]]
    BY <2>4 DEF TypeOK
  <2>6. {client[r]} \ {None} \in SUBSET Conn
    BY <2>1 DEF TypeOK
  <2>7. victims' \in [Conn -> [Task -> SUBSET Conn]]
    BY <1>4, <2>6 DEF TypeOK, ClaimClient
  <2>8. TypeOK'
    BY <1>4, <2>1, <2>3, <2>5, <2>7 DEF TypeOK, ClaimClient
  <2>9. PeerKnown'
    BY <2>2, <2>4 DEF TypeOK
  <2> QED
    BY <2>8, <2>9
<1>5. CASE NotifyPeer(c)
  BY <1>5 DEF TypeOK, NotifyPeer
<1>6. CASE NotifyPeerFails(c)
  BY <1>6 DEF TypeOK, NotifyPeerFails
<1>7. CASE ClearPeer(c)
  BY <1>7, ClearSlotTyping DEF TypeOK, ClearPeer
<1>8. CASE Register(c)
  BY <1>8 DEF TypeOK, Register
<1>9. CASE EvictVictim(c, "join")
  BY <1>9, EvictTyping DEF TypeOK, EvictVictim, EvictPC, AfterEvict
<1> QED
  BY <1>1, <1>2, <1>3, <1>4, <1>5, <1>6, <1>7, <1>8, <1>9 DEF JoinStep, JoinQuiet

CleanStep(c, t) == CleanQuiet(c, t) \/ CleanLoud(c, t)

LEMMA CleanTyping ==
  ASSUME Typing, NEW c \in Conn, NEW t \in {"read", "ping"}, CleanStep(c, t)
  PROVE  Typing'
<1> USE DEF Typing, PeerKnown
<1>1. CASE CleanMaps(c, t)
  BY <1>1 DEF TypeOK, CleanMaps
<1>2. CASE CleanSlot(c, t)
  BY <1>2, ClearSlotTyping DEF TypeOK, CleanSlot
<1>3. CASE CleanClose(c, t)
  BY <1>3, EvictTyping DEF TypeOK, CleanClose
<1>4. CASE CleanOwn(c, t)
  BY <1>4, EvictTyping DEF TypeOK, CleanOwn
<1>5. CASE CleanPeer(c, t)
  <2> DEFINE p == IF RoleOf[c] = "master" THEN client[RoomOf[c]] ELSE master[RoomOf[c]]
  <2>1. p \in Conn \cup {None}
    BY RoomAssumption DEF TypeOK
  <2>2. /\ peer' = [peer EXCEPT ![c][t] = p]
        /\ pc' = [pc EXCEPT ![c][t] = IF p = None THEN "end" ELSE "cl_notice"]
    BY <1>5 DEF CleanPeer
  <2> HIDE DEF p
  <2>3. /\ peer' \in [Conn -> [Task -> Conn \cup {None}]]
        /\ pc' \in [Conn -> [Task -> PC]]
    BY <2>1, <2>2 DEF TypeOK
  <2>4. PeerKnown'
    BY <2>2 DEF TypeOK
  <2> QED
    BY <1>5, <2>3, <2>4 DEF TypeOK, CleanPeer
<1>6. CASE CleanNotice(c, t)
  BY <1>6 DEF TypeOK, CleanNotice
<1> QED
  BY <1>1, <1>2, <1>3, <1>4, <1>5, <1>6 DEF CleanStep, CleanQuiet, CleanLoud

LEMMA ReadTyping ==
  ASSUME Typing, NEW c \in Conn, ReadQuiet(c) \/ Frame(c)
  PROVE  Typing'
<1> USE DEF Typing, PeerKnown
<1>1. CASE ReadEnds(c)
  BY <1>1 DEF TypeOK, ReadEnds
<1>2. CASE Forward(c)
  BY <1>2 DEF TypeOK, Forward
<1>3. CASE ForwardFails(c)
  BY <1>3 DEF TypeOK, ForwardFails
<1>4. CASE ClearTarget(c)
  BY <1>4, ClearSlotTyping DEF TypeOK, ClearTarget
<1>5. CASE QueryDone(c)
  BY <1>5 DEF TypeOK, QueryDone
<1>6. CASE Reply(c)
  BY <1>6 DEF TypeOK, Reply
<1>7. CASE EvictVictim(c, "read")
  BY <1>7, EvictTyping DEF TypeOK, EvictVictim, EvictPC, AfterEvict
<1>8. CASE RecvData(c)
  <2>1. Target(c) \in Conn
    BY <1>8, RoomAssumption DEF TypeOK, RecvData, Target
  <2> QED
    BY <1>8, <2>1 DEF TypeOK, RecvData
<1>9. CASE RecvNoAgent(c)
  BY <1>9 DEF TypeOK, RecvNoAgent
<1>10. CASE RecvQuery(c)
  BY <1>10 DEF TypeOK, RecvQuery
<1>11. ASSUME NEW r \in Room, RecvRemoveRoom(c, r)
       PROVE  Typing'
  <2>1. {master[r], client[r]} \ {None} \in SUBSET Conn
    BY DEF TypeOK
  <2> QED
    BY <1>11, <2>1 DEF TypeOK, RecvRemoveRoom, TakeOut
<1>12. ASSUME NEW r \in Room, NEW role \in {"master", "client"}, RecvRemove(c, r, role)
       PROVE  Typing'
  <2>1. {IF role = "master" THEN master[r] ELSE client[r]} \ {None} \in SUBSET Conn
    BY DEF TypeOK
  <2> QED
    BY <1>12, <2>1 DEF TypeOK, RecvRemove, TakeOut
<1>13. CASE CleanQuiet(c, "read")
  BY <1>13, CleanTyping DEF CleanStep, CleanQuiet
<1> QED
  BY <1>1, <1>2, <1>3, <1>4, <1>5, <1>6, <1>7, <1>8, <1>9, <1>10, <1>11, <1>12, <1>13
  DEF ReadQuiet, Frame

LEMMA PingFaultTyping ==
  ASSUME Typing, NEW c \in Conn, PingQuiet(c) \/ Fault(c)
  PROVE  Typing'
<1> USE DEF Typing, PeerKnown
<1>1. CASE PingStops(c)
  BY <1>1 DEF TypeOK, PingStops
<1>2. CASE PingFails(c)
  BY <1>2 DEF TypeOK, PingFails
<1>3. CASE PongTimeout(c)
  BY <1>3, EvictTyping DEF TypeOK, PongTimeout
<1>4. CASE CleanQuiet(c, "ping")
  BY <1>4, CleanTyping DEF CleanStep
<1>5. CASE Fault(c)
  BY <1>5 DEF TypeOK, Fault, Drop, Mute, Stall, Unstall, SockTurns
<1> QED
  BY <1>1, <1>2, <1>3, <1>4, <1>5 DEF PingQuiet

LEMMA TypingStep == Typing /\ [Next]_vars => Typing'
<1> SUFFICES ASSUME Typing, [Next]_vars PROVE Typing'
  OBVIOUS
<1>1. CASE UNCHANGED vars
  BY <1>1 DEF vars, Typing, TypeOK, PeerKnown
<1>2. ASSUME NEW c \in Conn, Upgrade(c) \/ JoinStep(c) PROVE Typing'
  BY <1>2, JoinTyping
<1>3. ASSUME NEW c \in Conn, ReadStep(c) \/ Frame(c) PROVE Typing'
  BY <1>3, ReadTyping, CleanTyping DEF ReadStep, CleanStep
<1>4. ASSUME NEW c \in Conn, PingStep(c) \/ Fault(c) PROVE Typing'
  BY <1>4, PingFaultTyping, CleanTyping DEF PingStep, CleanStep
<1> QED
  BY <1>1, <1>2, <1>3, <1>4 DEF Next

LEMMA TypingInv == Spec => []Typing
<1> QED
  BY TypingInit, TypingStep, PTL DEF Spec

(***************************************************************************)
(* Every variable of the relay keeps its type.                             *)
(***************************************************************************)
THEOREM TypeCorrect == Spec => []TypeOK
<1>1. Typing => TypeOK
  BY DEF Typing
<1> QED
  BY <1>1, TypingInv, PTL

-----------------------------------------------------------------------------
(* What the slots hold, and what a task has to do before it may hold        *)
(* anything: the strengthening under which the two slot invariants are      *)
(* inductive.                                                                *)

SlotsMatch ==
  \A r \in Room :
    /\ master[r] # None => /\ RoleOf[master[r]] = "master"
                           /\ RoomOf[master[r]] = r
                           /\ master[r] \in held
    /\ client[r] # None => /\ RoleOf[client[r]] = "client"
                           /\ RoomOf[client[r]] = r
                           /\ client[r] \in held

\* The read loop and the ping task start once the join is over.
JoinFirst ==
  \A c \in Conn :
    /\ pc[c]["join"] \in {"init", "claim"} => c \notin held
    /\ pc[c]["join"] # "end" => pc[c]["read"] = "off" /\ pc[c]["ping"] = "off"

\* Only a task that is evicting has connections left to evict.
VictimsMatch ==
  \A c \in Conn, t \in Task : victims[c][t] # {} => pc[c][t] \in EvictPC

SlotInv == Typing /\ SlotsMatch /\ JoinFirst /\ VictimsMatch

LEMMA SlotInvInit == Init => SlotInv /\ OustedIsClosed /\ NoZombieInSlot
BY TypingInit, NoneAssumption, RoomAssumption
DEF Init, SlotInv, SlotsMatch, JoinFirst, VictimsMatch, OustedIsClosed,
    NoZombieInSlot, InSlot, InMaster, InClient, Cleared

LEMMA ClearSlotEffect ==
  ASSUME TypeOK, SlotsMatch, NEW v \in Conn, ClearSlot(v), UNCHANGED held
  PROVE  /\ SlotsMatch'
         /\ ~InSlot(v)'
         /\ \A d \in Conn : d # v /\ InSlot(d) => InSlot(d)'
         /\ \A d \in Conn : InSlot(d)' => InSlot(d)
<1> USE RoomAssumption, NoneAssumption DEF TypeOK, SlotsMatch, ClearSlot, InSlot, InMaster, InClient
<1>1. SlotsMatch'
  OBVIOUS
<1>2. ~InSlot(v)'
  OBVIOUS
<1>3. ASSUME NEW d \in Conn, d # v, InSlot(d) PROVE InSlot(d)'
  BY <1>3
<1>4. ASSUME NEW d \in Conn, InSlot(d)' PROVE InSlot(d)
  BY <1>4
<1> QED
  BY <1>1, <1>2, <1>3, <1>4

LEMMA EvictEffect ==
  ASSUME TypeOK, NEW v \in Conn, Evict(v)
  PROVE  /\ evicted'[v]
         /\ \A d \in Conn : evicted[d] => evicted'[d]
BY DEF TypeOK, Evict

Shape == SlotsMatch /\ JoinFirst /\ VictimsMatch

LEMMA JoinShape ==
  ASSUME SlotInv, NEW c \in Conn, Upgrade(c) \/ JoinStep(c)
  PROVE  Shape'
<1> USE DEF SlotInv, Typing, Shape, JoinFirst, VictimsMatch, EvictPC
<1>1. CASE Upgrade(c)
  BY <1>1 DEF TypeOK, Upgrade, SlotsMatch
<1>2. CASE RejectRole(c)
  <2>1. SlotsMatch' /\ VictimsMatch'
    BY <1>2 DEF TypeOK, RejectRole, SlotsMatch
  <2>2. JoinFirst'
    BY <1>2 DEF TypeOK, RejectRole
  <2> QED
    BY <2>1, <2>2
<1>3. CASE ClaimMaster(c)
  <2>1. SlotsMatch'
    BY <1>3, RoomAssumption DEF TypeOK, ClaimMaster, SlotsMatch
  <2>2. JoinFirst' /\ VictimsMatch'
    BY <1>3 DEF TypeOK, ClaimMaster
  <2> QED
    BY <2>1, <2>2
<1>4. CASE ClaimClient(c)
  <2>1. SlotsMatch'
    BY <1>4, RoomAssumption DEF TypeOK, ClaimClient, SlotsMatch
  <2>2. JoinFirst' /\ VictimsMatch'
    BY <1>4 DEF TypeOK, ClaimClient
  <2> QED
    BY <2>1, <2>2
<1>5. CASE NotifyPeer(c)
  BY <1>5 DEF TypeOK, NotifyPeer, SlotsMatch
<1>6. CASE NotifyPeerFails(c)
  <2>1. SlotsMatch' /\ VictimsMatch'
    BY <1>6 DEF TypeOK, NotifyPeerFails, SlotsMatch
  <2>2. JoinFirst'
    BY <1>6 DEF TypeOK, NotifyPeerFails
  <2> QED
    BY <2>1, <2>2
<1>7. CASE ClearPeer(c)
  <2>1. peer[c]["join"] \in Conn
    BY <1>7 DEF TypeOK, PeerKnown, ClearPeer
  <2>2. SlotsMatch'
    BY <1>7, <2>1, ClearSlotEffect DEF ClearPeer
  <2> QED
    BY <1>7, <2>2 DEF TypeOK, ClearPeer
<1>8. CASE Register(c)
  BY <1>8 DEF TypeOK, Register, SlotsMatch
<1>9. CASE EvictVictim(c, "join")
  BY <1>9 DEF TypeOK, EvictVictim, AfterEvict, SlotsMatch
<1> QED
  BY <1>1, <1>2, <1>3, <1>4, <1>5, <1>6, <1>7, <1>8, <1>9 DEF JoinStep, JoinQuiet

\* What a task takes out it evicts next.
LEMMA TakeOutShape ==
  ASSUME SlotInv, NEW c \in Conn, NEW out \in SUBSET Conn, TakeOut(c, out)
  PROVE  VictimsMatch'
<1>1. victims' = [victims EXCEPT ![c]["read"] = out]
  BY DEF TakeOut
<1>2. pc' = [pc EXCEPT ![c]["read"] = IF out = {} THEN "reply" ELSE "evictAll"]
  BY DEF TakeOut
<1>3. ASSUME NEW d \in Conn, NEW t \in Task, victims'[d][t] # {}
      PROVE  pc'[d][t] \in EvictPC
  <2>1. CASE d = c /\ t = "read"
    <3>1. victims'[d][t] = out
      BY <1>1, <2>1 DEF SlotInv, Typing, TypeOK
    <3>2. pc'[d][t] = "evictAll"
      BY <1>2, <1>3, <2>1, <3>1 DEF SlotInv, Typing, TypeOK
    <3> QED
      BY <3>2 DEF EvictPC
  <2>2. CASE ~(d = c /\ t = "read")
    <3>1. victims'[d][t] = victims[d][t] /\ pc'[d][t] = pc[d][t]
      BY <1>1, <1>2, <2>2 DEF SlotInv, Typing, TypeOK
    <3> QED
      BY <1>3, <3>1 DEF SlotInv, VictimsMatch
  <2> QED
    BY <2>1, <2>2
<1> QED
  BY <1>3 DEF VictimsMatch

LEMMA ReadShape ==
  ASSUME SlotInv, NEW c \in Conn, ReadQuiet(c) \/ Frame(c), ~CleanQuiet(c, "read")
  PROVE  Shape'
<1> USE DEF SlotInv, Typing, Shape, JoinFirst, VictimsMatch, EvictPC
<1>1. CASE ReadEnds(c)
  BY <1>1 DEF TypeOK, ReadEnds, SlotsMatch
<1>2. CASE Forward(c)
  BY <1>2 DEF TypeOK, Forward, SlotsMatch
<1>3. CASE ForwardFails(c)
  BY <1>3 DEF TypeOK, ForwardFails, SlotsMatch
<1>4. CASE ClearTarget(c)
  <2>1. peer[c]["read"] \in Conn
    BY <1>4 DEF TypeOK, PeerKnown, ClearTarget
  <2>2. SlotsMatch'
    BY <1>4, <2>1, ClearSlotEffect DEF ClearTarget
  <2> QED
    BY <1>4, <2>2 DEF TypeOK, ClearTarget
<1>5. CASE QueryDone(c)
  BY <1>5 DEF TypeOK, QueryDone, SlotsMatch
<1>6. CASE Reply(c)
  BY <1>6 DEF TypeOK, Reply, SlotsMatch
<1>7. CASE EvictVictim(c, "read")
  BY <1>7 DEF TypeOK, EvictVictim, AfterEvict, SlotsMatch
<1>8. CASE RecvData(c)
  BY <1>8 DEF TypeOK, RecvData, CanRead, SlotsMatch
<1>9. CASE RecvNoAgent(c)
  BY <1>9 DEF TypeOK, RecvNoAgent, CanRead, SlotsMatch
<1>10. CASE RecvQuery(c)
  BY <1>10 DEF TypeOK, RecvQuery, CanRead, SlotsMatch
<1>11. ASSUME NEW r \in Room, RecvRemoveRoom(c, r)
       PROVE  Shape'
  <2>1. SlotsMatch'
    BY <1>11 DEF TypeOK, RecvRemoveRoom, SlotsMatch
  <2>2. JoinFirst'
    <3>1. pc[c]["read"] = "loop" /\ held' = held
      BY <1>11 DEF RecvRemoveRoom, CanRead
    <3>2. PICK l \in PC : pc' = [pc EXCEPT ![c]["read"] = l]
      BY <1>11 DEF RecvRemoveRoom, TakeOut
    <3> QED
      BY <3>1, <3>2 DEF TypeOK
  <2>3. VictimsMatch'
    <3> DEFINE out == {master[r], client[r]} \ {None}
    <3>1. out \in SUBSET Conn
      BY DEF TypeOK
    <3>2. TakeOut(c, out)
      BY <1>11 DEF RecvRemoveRoom
    <3> HIDE DEF out
    <3> QED
      BY <3>1, <3>2, TakeOutShape
  <2> QED
    BY <2>1, <2>2, <2>3
<1>12. ASSUME NEW r \in Room, NEW role \in {"master", "client"}, RecvRemove(c, r, role)
       PROVE  Shape'
  <2>1. SlotsMatch'
    BY <1>12 DEF TypeOK, RecvRemove, SlotsMatch
  <2>2. JoinFirst'
    <3>1. pc[c]["read"] = "loop" /\ held' = held
      BY <1>12 DEF RecvRemove, CanRead
    <3>2. PICK l \in PC : pc' = [pc EXCEPT ![c]["read"] = l]
      BY <1>12 DEF RecvRemove, TakeOut
    <3> QED
      BY <3>1, <3>2 DEF TypeOK
  <2>3. VictimsMatch'
    <3> DEFINE out == {IF role = "master" THEN master[r] ELSE client[r]} \ {None}
    <3>1. out \in SUBSET Conn
      BY DEF TypeOK
    <3>2. TakeOut(c, out)
      BY <1>12 DEF RecvRemove
    <3> HIDE DEF out
    <3> QED
      BY <3>1, <3>2, TakeOutShape
  <2> QED
    BY <2>1, <2>2, <2>3
<1> QED
  BY <1>1, <1>2, <1>3, <1>4, <1>5, <1>6, <1>7, <1>8, <1>9, <1>10, <1>11, <1>12
  DEF ReadQuiet, Frame

LEMMA CleanShape ==
  ASSUME SlotInv, NEW c \in Conn, NEW t \in {"read", "ping"}, CleanStep(c, t)
  PROVE  Shape'
<1> USE DEF SlotInv, Typing, Shape, JoinFirst, VictimsMatch, EvictPC
<1>1. CASE CleanMaps(c, t)
  BY <1>1 DEF TypeOK, CleanMaps, SlotsMatch
<1>2. CASE CleanSlot(c, t)
  <2>1. SlotsMatch'
    BY <1>2, ClearSlotEffect DEF CleanSlot
  <2> QED
    BY <1>2, <2>1 DEF TypeOK, CleanSlot
<1>3. CASE CleanClose(c, t)
  BY <1>3 DEF TypeOK, CleanClose, SlotsMatch
<1>4. CASE CleanOwn(c, t)
  BY <1>4 DEF TypeOK, CleanOwn, SlotsMatch
<1>5. CASE CleanPeer(c, t)
  BY <1>5 DEF TypeOK, CleanPeer, SlotsMatch
<1>6. CASE CleanNotice(c, t)
  BY <1>6 DEF TypeOK, CleanNotice, SlotsMatch
<1> QED
  BY <1>1, <1>2, <1>3, <1>4, <1>5, <1>6 DEF CleanStep, CleanQuiet, CleanLoud

LEMMA PingFaultShape ==
  ASSUME SlotInv, NEW c \in Conn, PingQuiet(c) \/ Fault(c), ~CleanQuiet(c, "ping")
  PROVE  Shape'
<1> USE DEF SlotInv, Typing, Shape, JoinFirst, VictimsMatch, EvictPC
<1>1. CASE PingStops(c)
  BY <1>1 DEF TypeOK, PingStops, SlotsMatch
<1>2. CASE PingFails(c)
  BY <1>2 DEF TypeOK, PingFails, SlotsMatch
<1>3. CASE PongTimeout(c)
  BY <1>3 DEF TypeOK, PongTimeout, PongTimedOut, SlotsMatch
<1>4. CASE Fault(c)
  BY <1>4 DEF TypeOK, Fault, Drop, Mute, Stall, Unstall, SockTurns, SlotsMatch
<1> QED
  BY <1>1, <1>2, <1>3, <1>4 DEF PingQuiet

LEMMA SlotInvStep == SlotInv /\ [Next]_vars => SlotInv'
<1> SUFFICES ASSUME SlotInv, [Next]_vars PROVE SlotInv'
  OBVIOUS
<1>1. Typing'
  BY TypingStep DEF SlotInv
<1>2. CASE UNCHANGED vars
  BY <1>1, <1>2 DEF vars, SlotInv, SlotsMatch, JoinFirst, VictimsMatch
<1>3. ASSUME NEW c \in Conn, Upgrade(c) \/ JoinStep(c) PROVE Shape'
  BY <1>3, JoinShape
<1>4. ASSUME NEW c \in Conn, ReadStep(c) \/ Frame(c) PROVE Shape'
  BY <1>4, ReadShape, CleanShape DEF ReadStep, CleanStep
<1>5. ASSUME NEW c \in Conn, PingStep(c) \/ Fault(c) PROVE Shape'
  BY <1>5, PingFaultShape, CleanShape DEF PingStep, CleanStep
<1> QED
  BY <1>1, <1>2, <1>3, <1>4, <1>5 DEF Next, SlotInv, Shape

LEMMA SlotInvariant == Spec => []SlotInv
<1>1. Init => SlotInv
  BY SlotInvInit
<1> QED
  BY <1>1, SlotInvStep, PTL DEF Spec

-----------------------------------------------------------------------------
(* Evicted sockets are always closed.                                        *)

\* An eviction under way stays under way until it is done, and stays done.
EvictionsStay ==
  /\ \A d \in Conn : evicted[d] => evicted'[d]
  /\ \A d \in Conn, e \in Conn, t \in Task :
       d \in victims[e][t] => d \in victims'[e][t] \/ evicted'[d]
  /\ \A d \in Conn, t \in Task :
       pc[d][t] = "cl_own" => pc'[d][t] = "cl_own" \/ evicted'[d]

\* Who leaves a slot is about to be evicted, and a slot is where holding starts.
SlotsStay ==
  /\ \A d \in Conn : InSlot(d) => InSlot(d)' \/ BeingEvicted(d)'
  /\ \A d \in held' : d \in held \/ InSlot(d)'

LEMMA OustedKept ==
  ASSUME OustedIsClosed, TypeOK, TypeOK', EvictionsStay, SlotsStay
  PROVE  OustedIsClosed'
<1> SUFFICES ASSUME NEW d \in held'
             PROVE  InSlot(d)' \/ evicted'[d] \/ BeingEvicted(d)'
  BY DEF OustedIsClosed
<1>1. d \in Conn
  BY DEF TypeOK
<1>2. CASE d \notin held \/ InSlot(d)
  BY <1>1, <1>2 DEF SlotsStay
<1>3. CASE evicted[d]
  BY <1>1, <1>3 DEF EvictionsStay
<1>4. CASE BeingEvicted(d)
  BY <1>1, <1>4 DEF BeingEvicted, EvictionsStay
<1> QED
  BY <1>1, <1>2, <1>3, <1>4 DEF OustedIsClosed

LEMMA EvictKeeps ==
  ASSUME SlotInv, NEW c \in Conn, NEW t \in Task, EvictVictim(c, t)
  PROVE  EvictionsStay /\ SlotsStay
<1> USE DEF SlotInv, Typing
<1>1. PICK v \in victims[c][t] : Evict(v) /\ victims' = [victims EXCEPT ![c][t] = @ \ {v}]
  BY DEF EvictVictim
<1>2. v \in Conn
  BY DEF TypeOK
<1>3. evicted'[v] /\ \A d \in Conn : evicted[d] => evicted'[d]
  BY <1>1, <1>2, EvictEffect
<1>4. \A d \in Conn, e \in Conn, u \in Task :
        d \in victims[e][u] => d \in victims'[e][u] \/ evicted'[d]
  BY <1>1, <1>3 DEF TypeOK
<1>5. \A d \in Conn, u \in Task : pc[d][u] = "cl_own" => pc'[d][u] = "cl_own"
  BY DEF EvictVictim, TypeOK, EvictPC
<1>6. SlotsStay
  BY DEF EvictVictim, SlotsStay, InSlot, InMaster, InClient
<1> QED
  BY <1>3, <1>4, <1>5, <1>6 DEF EvictionsStay

LEMMA JoinKeeps ==
  ASSUME SlotInv, NEW c \in Conn, Upgrade(c) \/ JoinStep(c)
  PROVE  EvictionsStay /\ SlotsStay
<1> USE DEF SlotInv, Typing, EvictionsStay
<1>1. CASE Upgrade(c)
  BY <1>1 DEF TypeOK, Upgrade, SlotsStay, InSlot, InMaster, InClient
<1>2. CASE RejectRole(c)
  BY <1>2, EvictEffect DEF TypeOK, RejectRole, SlotsStay, InSlot, InMaster, InClient
<1>3. CASE ClaimMaster(c)
  <2>1. EvictionsStay
    BY <1>3 DEF TypeOK, ClaimMaster
  <2>2. SlotsStay
    BY <1>3, RoomAssumption, NoneAssumption
    DEF TypeOK, ClaimMaster, SlotsStay, InSlot, InMaster, InClient
  <2> QED
    BY <2>1, <2>2
<1>4. CASE ClaimClient(c)
  <2>1. victims[c]["join"] = {}
    BY <1>4 DEF VictimsMatch, ClaimClient, EvictPC
  <2>2. EvictionsStay
    BY <1>4, <2>1 DEF TypeOK, ClaimClient
  <2>3. ASSUME NEW d \in Conn, InSlot(d)
        PROVE  InSlot(d)' \/ d \in victims'[c]["join"]
    BY <1>4, <2>3, RoomAssumption, NoneAssumption
    DEF TypeOK, ClaimClient, InSlot, InMaster, InClient
  <2>4. ASSUME NEW d \in held' PROVE d \in held \/ InSlot(d)'
    BY <1>4, <2>4, RoomAssumption DEF TypeOK, ClaimClient, InSlot, InClient
  <2> QED
    BY <2>2, <2>3, <2>4 DEF SlotsStay, BeingEvicted
<1>5. CASE NotifyPeer(c)
  BY <1>5 DEF TypeOK, NotifyPeer, SlotsStay, InSlot, InMaster, InClient
<1>6. CASE NotifyPeerFails(c)
  BY <1>6 DEF TypeOK, NotifyPeerFails, SlotsStay, InSlot, InMaster, InClient
<1>7. CASE ClearPeer(c)
  <2>1. peer[c]["join"] \in Conn /\ victims[c]["join"] = {}
    <3>1. peer[c]["join"] \in Conn
      BY <1>7 DEF TypeOK, PeerKnown, ClearPeer
    <3>2. victims[c]["join"] = {}
      BY <1>7 DEF ClearPeer, VictimsMatch, EvictPC
    <3> QED
      BY <3>1, <3>2
  <2>2. victims' = [victims EXCEPT ![c]["join"] = {peer[c]["join"]}]
    BY <1>7 DEF ClearPeer
  <2>3. EvictionsStay
    BY <1>7, <2>1 DEF TypeOK, ClearPeer
  <2>4. peer[c]["join"] \in victims'[c]["join"]
    BY <2>2 DEF TypeOK
  <2>5. \A d \in Conn : d # peer[c]["join"] /\ InSlot(d) => InSlot(d)'
    BY <1>7, <2>1, ClearSlotEffect DEF ClearPeer
  <2>6. held' = held
    BY <1>7 DEF ClearPeer
  <2> QED
    BY <2>3, <2>4, <2>5, <2>6 DEF SlotsStay, BeingEvicted
<1>8. CASE Register(c)
  <2>1. \A t \in Task : pc[c][t] # "cl_own"
    BY <1>8 DEF Register, JoinFirst
  <2> QED
    BY <1>8, <2>1 DEF TypeOK, Register, SlotsStay, InSlot, InMaster, InClient
<1>9. CASE EvictVictim(c, "join")
  BY <1>9, EvictKeeps
<1> QED
  BY <1>1, <1>2, <1>3, <1>4, <1>5, <1>6, <1>7, <1>8, <1>9 DEF JoinStep, JoinQuiet

LEMMA TakeOutKeeps ==
  ASSUME SlotInv, NEW c \in Conn, NEW out, TakeOut(c, out), CanRead(c), UNCHANGED evicted
  PROVE  EvictionsStay
<1>1. victims[c]["read"] = {} /\ pc[c]["read"] # "cl_own"
  BY DEF SlotInv, VictimsMatch, CanRead, EvictPC
<1>2. victims' = [victims EXCEPT ![c]["read"] = out]
  BY DEF TakeOut
<1>3. pc' = [pc EXCEPT ![c]["read"] = IF out = {} THEN "reply" ELSE "evictAll"]
  BY DEF TakeOut
<1> QED
  BY <1>1, <1>2, <1>3 DEF SlotInv, Typing, TypeOK, EvictionsStay

LEMMA ReadKeeps ==
  ASSUME SlotInv, NEW c \in Conn, ReadQuiet(c) \/ Frame(c), ~CleanQuiet(c, "read")
  PROVE  EvictionsStay /\ SlotsStay
<1> USE DEF SlotInv, Typing, EvictionsStay
<1>1. CASE ReadEnds(c)
  BY <1>1 DEF TypeOK, ReadEnds, SlotsStay, InSlot, InMaster, InClient
<1>2. CASE Forward(c)
  BY <1>2 DEF TypeOK, Forward, SlotsStay, InSlot, InMaster, InClient
<1>3. CASE ForwardFails(c)
  BY <1>3 DEF TypeOK, ForwardFails, SlotsStay, InSlot, InMaster, InClient
<1>4. CASE ClearTarget(c)
  <2>1. peer[c]["read"] \in Conn /\ victims[c]["read"] = {}
    <3>1. peer[c]["read"] \in Conn
      BY <1>4 DEF TypeOK, PeerKnown, ClearTarget
    <3>2. victims[c]["read"] = {}
      BY <1>4 DEF ClearTarget, VictimsMatch, EvictPC
    <3> QED
      BY <3>1, <3>2
  <2>2. victims' = [victims EXCEPT ![c]["read"] = {peer[c]["read"]}]
    BY <1>4 DEF ClearTarget
  <2>3. EvictionsStay
    BY <1>4, <2>1 DEF TypeOK, ClearTarget
  <2>4. peer[c]["read"] \in victims'[c]["read"]
    BY <2>2 DEF TypeOK
  <2>5. \A d \in Conn : d # peer[c]["read"] /\ InSlot(d) => InSlot(d)'
    BY <1>4, <2>1, ClearSlotEffect DEF ClearTarget
  <2>6. held' = held
    BY <1>4 DEF ClearTarget
  <2> QED
    BY <2>3, <2>4, <2>5, <2>6 DEF SlotsStay, BeingEvicted
<1>5. CASE QueryDone(c)
  BY <1>5 DEF TypeOK, QueryDone, SlotsStay, InSlot, InMaster, InClient
<1>6. CASE Reply(c)
  BY <1>6 DEF TypeOK, Reply, SlotsStay, InSlot, InMaster, InClient
<1>7. CASE EvictVictim(c, "read")
  BY <1>7, EvictKeeps
<1>8. CASE RecvData(c)
  BY <1>8 DEF TypeOK, RecvData, CanRead, SlotsStay, InSlot, InMaster, InClient
<1>9. CASE RecvNoAgent(c)
  BY <1>9 DEF TypeOK, RecvNoAgent, CanRead, SlotsStay, InSlot, InMaster, InClient
<1>10. CASE RecvQuery(c)
  BY <1>10 DEF TypeOK, RecvQuery, CanRead, SlotsStay, InSlot, InMaster, InClient
<1>11. ASSUME NEW r \in Room, RecvRemoveRoom(c, r)
       PROVE  EvictionsStay /\ SlotsStay
  <2> DEFINE out == {master[r], client[r]} \ {None}
  <2>1. TakeOut(c, out) /\ CanRead(c) /\ UNCHANGED <<held, evicted>>
    BY <1>11 DEF RecvRemoveRoom
  <2>2. victims' = [victims EXCEPT ![c]["read"] = out]
    BY <2>1 DEF TakeOut
  <2>3. EvictionsStay
    BY <2>1, TakeOutKeeps
  <2>4. ASSUME NEW d \in Conn, InSlot(d)
        PROVE  InSlot(d)' \/ d \in out
    BY <1>11, <2>4, NoneAssumption, RoomAssumption
    DEF TypeOK, RecvRemoveRoom, InSlot, InMaster, InClient
  <2>5. \A d \in out : d \in victims'[c]["read"]
    BY <2>2 DEF TypeOK
  <2> HIDE DEF out
  <2> QED
    BY <2>1, <2>3, <2>4, <2>5 DEF SlotsStay, BeingEvicted
<1>12. ASSUME NEW r \in Room, NEW role \in {"master", "client"}, RecvRemove(c, r, role)
       PROVE  EvictionsStay /\ SlotsStay
  <2> DEFINE out == {IF role = "master" THEN master[r] ELSE client[r]} \ {None}
  <2>1. TakeOut(c, out) /\ CanRead(c) /\ UNCHANGED <<held, evicted>>
    BY <1>12 DEF RecvRemove
  <2>2. victims' = [victims EXCEPT ![c]["read"] = out]
    BY <2>1 DEF TakeOut
  <2>3. EvictionsStay
    BY <2>1, TakeOutKeeps
  <2>4. ASSUME NEW d \in Conn, InSlot(d)
        PROVE  InSlot(d)' \/ d \in out
    BY <1>12, <2>4, NoneAssumption, RoomAssumption
    DEF TypeOK, RecvRemove, InSlot, InMaster, InClient
  <2>5. \A d \in out : d \in victims'[c]["read"]
    BY <2>2 DEF TypeOK
  <2> HIDE DEF out
  <2> QED
    BY <2>1, <2>3, <2>4, <2>5 DEF SlotsStay, BeingEvicted
<1> QED
  BY <1>1, <1>2, <1>3, <1>4, <1>5, <1>6, <1>7, <1>8, <1>9, <1>10, <1>11, <1>12
  DEF ReadQuiet, Frame

LEMMA CleanKeeps ==
  ASSUME SlotInv, NEW c \in Conn, NEW t \in {"read", "ping"}, CleanStep(c, t)
  PROVE  EvictionsStay /\ SlotsStay
<1> USE DEF SlotInv, Typing, EvictionsStay
<1>1. CASE CleanMaps(c, t)
  BY <1>1 DEF TypeOK, CleanMaps, SlotsStay, InSlot, InMaster, InClient
<1>2. CASE CleanSlot(c, t)
  <2>1. EvictionsStay
    BY <1>2 DEF TypeOK, CleanSlot
  <2>2. InSlot(c) => BeingEvicted(c)'
    BY <1>2 DEF TypeOK, CleanSlot, BeingEvicted
  <2>3. \A d \in Conn : d # c /\ InSlot(d) => InSlot(d)'
    BY <1>2, ClearSlotEffect DEF CleanSlot
  <2>4. held' = held
    BY <1>2 DEF CleanSlot
  <2> QED
    BY <2>1, <2>2, <2>3, <2>4 DEF SlotsStay
<1>3. CASE CleanClose(c, t)
  BY <1>3, EvictEffect DEF TypeOK, CleanClose, SlotsStay, InSlot, InMaster, InClient
<1>4. CASE CleanOwn(c, t)
  BY <1>4, EvictEffect DEF TypeOK, CleanOwn, SlotsStay, InSlot, InMaster, InClient
<1>5. CASE CleanPeer(c, t)
  BY <1>5 DEF TypeOK, CleanPeer, SlotsStay, InSlot, InMaster, InClient
<1>6. CASE CleanNotice(c, t)
  BY <1>6 DEF TypeOK, CleanNotice, SlotsStay, InSlot, InMaster, InClient
<1> QED
  BY <1>1, <1>2, <1>3, <1>4, <1>5, <1>6 DEF CleanStep, CleanQuiet, CleanLoud

LEMMA PingFaultKeeps ==
  ASSUME SlotInv, NEW c \in Conn, PingQuiet(c) \/ Fault(c), ~CleanQuiet(c, "ping")
  PROVE  EvictionsStay /\ SlotsStay
<1> USE DEF SlotInv, Typing, EvictionsStay
<1>1. CASE PingStops(c)
  BY <1>1 DEF TypeOK, PingStops, SlotsStay, InSlot, InMaster, InClient
<1>2. CASE PingFails(c)
  BY <1>2 DEF TypeOK, PingFails, SlotsStay, InSlot, InMaster, InClient
<1>3. CASE PongTimeout(c)
  BY <1>3, EvictEffect
  DEF TypeOK, PongTimeout, PongTimedOut, SlotsStay, InSlot, InMaster, InClient
<1>4. CASE Fault(c)
  BY <1>4 DEF Fault, Drop, Mute, Stall, Unstall, SockTurns, SlotsStay, InSlot, InMaster, InClient
<1> QED
  BY <1>1, <1>2, <1>3, <1>4 DEF PingQuiet

LEMMA StepKeeps == SlotInv /\ [Next]_vars => EvictionsStay /\ SlotsStay
<1> SUFFICES ASSUME SlotInv, [Next]_vars PROVE EvictionsStay /\ SlotsStay
  OBVIOUS
<1>1. CASE UNCHANGED vars
  BY <1>1 DEF vars, EvictionsStay, SlotsStay, InSlot, InMaster, InClient
<1>2. ASSUME NEW c \in Conn, Upgrade(c) \/ JoinStep(c) PROVE EvictionsStay /\ SlotsStay
  BY <1>2, JoinKeeps
<1>3. ASSUME NEW c \in Conn, ReadStep(c) \/ Frame(c) PROVE EvictionsStay /\ SlotsStay
  BY <1>3, ReadKeeps, CleanKeeps DEF ReadStep, CleanStep
<1>4. ASSUME NEW c \in Conn, PingStep(c) \/ Fault(c) PROVE EvictionsStay /\ SlotsStay
  BY <1>4, PingFaultKeeps, CleanKeeps DEF PingStep, CleanStep
<1> QED
  BY <1>1, <1>2, <1>3, <1>4 DEF Next

(***************************************************************************)
(* A connection that lost the slot it held, by displacement, a failed      *)
(* send, a command or its own cleanup, has been evicted or some task is on *)
(* its way to evict it, for any number of connections and rooms.           *)
(***************************************************************************)
THEOREM OustedClosed == Spec => []OustedIsClosed
<1>1. Init => OustedIsClosed
  BY SlotInvInit
<1>2. SlotInv /\ SlotInv' /\ OustedIsClosed /\ [Next]_vars => OustedIsClosed'
  BY StepKeeps, OustedKept DEF SlotInv, Typing
<1> QED
  BY <1>1, <1>2, SlotInvariant, PTL DEF Spec

-----------------------------------------------------------------------------
(* A connection that cleared its slot never occupies it again.               *)

\* Past clear_slot, or (the read loop only) over: the ping task may also end
\* without a cleanup, when it finds the connection evicted.
Left(t) == IF t = "read" THEN Cleared \cup {"end"} ELSE Cleared

\* A task passes clear_slot in no other step than CleanSlot.
OnlyCleanSlotLeaves ==
  \A d \in Conn, t \in {"read", "ping"} :
    /\ pc'[d][t] \in Left(t) => pc[d][t] \in Left(t) \/ CleanSlot(d, t)
    /\ pc'[d][t] = "cl_own" => pc[d][t] = "cl_own" \/ CleanSlot(d, t)

\* A slot is won by a claim, before the read loop and the ping task have started.
OnlyClaimsWin ==
  \A d \in Conn : InSlot(d)' /\ ~InSlot(d) =>
    /\ pc[d]["join"] = "claim"
    /\ pc'[d]["read"] = "off" /\ pc'[d]["ping"] = "off"

LEMMA GotoMoves ==
  ASSUME TypeOK, NEW c \in Conn, NEW t \in Task, NEW l, Goto(c, t, l)
  PROVE  \A d \in Conn, u \in {"read", "ping"} :
           pc'[d][u] = IF d = c /\ u = t THEN l ELSE pc[d][u]
<1>1. pc' = [pc EXCEPT ![c][t] = l]
  OBVIOUS
<1> QED
  BY <1>1 DEF TypeOK

\* A cleanup that has passed clear_slot, or has nothing left to do, moves on.
LEMMA PastSlotLeaves ==
  ASSUME TypeOK, NEW c \in Conn, NEW t \in {"read", "ping"}, NEW l, Goto(c, t, l),
         pc[c][t] \in Left(t) \/ l \notin Left(t), l # "cl_own"
  PROVE  OnlyCleanSlotLeaves
<1>1. \A d \in Conn, u \in {"read", "ping"} :
        pc'[d][u] = IF d = c /\ u = t THEN l ELSE pc[d][u]
  <2> HIDE DEF Goto
  <2> QED
    BY GotoMoves
<1> QED
  BY <1>1 DEF OnlyCleanSlotLeaves

LEMMA GotoLeaves ==
  ASSUME TypeOK, NEW c \in Conn, NEW t \in Task, NEW l, Goto(c, t, l),
         t = "join" \/ l \notin Cleared \cup {"end"}
  PROVE  OnlyCleanSlotLeaves
<1> SUFFICES ASSUME NEW d \in Conn, NEW u \in {"read", "ping"}, pc'[d][u] # pc[d][u]
             PROVE  pc'[d][u] \notin Left(u) \cup {"cl_own"}
  BY DEF OnlyCleanSlotLeaves
<1>1. pc' = [pc EXCEPT ![c][t] = l]
  OBVIOUS
<1>2. d = c /\ u = t /\ pc'[d][u] = l
  BY <1>1 DEF TypeOK
<1> QED
  BY <1>2 DEF Left, Cleared

LEMMA JoinLeaves ==
  ASSUME SlotInv, NEW c \in Conn, Upgrade(c) \/ JoinStep(c)
  PROVE  OnlyCleanSlotLeaves
<1> USE DEF SlotInv, Typing
<1>1. CASE Register(c)
  <2>1. \A d \in Conn, u \in {"read", "ping"} :
          pc'[d][u] = pc[d][u] \/ pc'[d][u] \in {"loop", "sleep"}
    BY <1>1 DEF TypeOK, Register
  <2> QED
    BY <2>1 DEF OnlyCleanSlotLeaves, Left, Cleared
<1>2. CASE EvictVictim(c, "join")
  <2>1. \A d \in Conn, u \in {"read", "ping"} : pc'[d][u] = pc[d][u]
    BY <1>2 DEF TypeOK, EvictVictim
  <2> QED
    BY <2>1 DEF OnlyCleanSlotLeaves
<1>3. CASE ~Register(c) /\ ~EvictVictim(c, "join")
  <2>1. PICK l \in PC : Goto(c, "join", l)
    BY <1>3 DEF JoinStep, JoinQuiet, Upgrade, RejectRole, ClaimMaster, ClaimClient, NotifyPeer,
                NotifyPeerFails, ClearPeer
  <2>2. \A d \in Conn, u \in {"read", "ping"} : pc'[d][u] = pc[d][u]
    BY <2>1 DEF TypeOK
  <2> QED
    BY <2>2 DEF OnlyCleanSlotLeaves
<1> QED
  BY <1>1, <1>2, <1>3

LEMMA ReadLeaves ==
  ASSUME SlotInv, NEW c \in Conn, ReadQuiet(c) \/ Frame(c), ~CleanQuiet(c, "read")
  PROVE  OnlyCleanSlotLeaves
<1> USE DEF SlotInv, Typing, OnlyCleanSlotLeaves, Left, Cleared
<1>1. CASE EvictVictim(c, "read")
  <2>1. pc' = pc \/ Goto(c, "read", AfterEvict(c, "read"))
    BY <1>1 DEF EvictVictim
  <2>2. AfterEvict(c, "read") \in {"register", "notify", "loop", "reply"}
    BY <1>1 DEF EvictVictim, AfterEvict, EvictPC
  <2>3. CASE pc' = pc
    BY <2>3
  <2>4. CASE Goto(c, "read", AfterEvict(c, "read"))
    <3> HIDE DEF OnlyCleanSlotLeaves, Goto
    <3> QED
      BY <2>2, <2>4, GotoLeaves
  <2> QED
    BY <2>1, <2>3, <2>4
<1>2. CASE ~EvictVictim(c, "read")
  <2>1. PICK l \in ReadPC \cup {"cl_maps"} : Goto(c, "read", l)
    <3>1. CASE ReadQuiet(c)
      BY <1>2, <3>1 DEF ReadQuiet, ReadEnds, Forward, ForwardFails, ClearTarget, QueryDone, Reply
    <3>2. CASE Frame(c)
      BY <3>2 DEF Frame, RecvData, RecvNoAgent, RecvQuery, RecvRemove, RecvRemoveRoom, TakeOut
    <3> QED
      BY <3>1, <3>2
  <2>2. l \notin Cleared \cup {"end"}
    BY <2>1
  <2> HIDE DEF OnlyCleanSlotLeaves, Goto, Cleared
  <2> QED
    BY <2>1, <2>2, GotoLeaves
<1> QED
  BY <1>1, <1>2

LEMMA CleanLeaves ==
  ASSUME SlotInv, NEW c \in Conn, NEW t \in {"read", "ping"}, CleanStep(c, t)
  PROVE  OnlyCleanSlotLeaves
<1> USE DEF SlotInv, Typing
<1>1. CASE CleanMaps(c, t)
  <2>1. Goto(c, t, "cl_slot")
    BY <1>1 DEF CleanMaps
  <2> HIDE DEF Goto
  <2> QED
    BY <2>1, PastSlotLeaves DEF Left, Cleared
<1>2. CASE CleanSlot(c, t)
  <2>1. PICK l \in PC : Goto(c, t, l)
    BY <1>2 DEF CleanSlot
  <2>2. \A d \in Conn, u \in {"read", "ping"} : ~(d = c /\ u = t) => pc'[d][u] = pc[d][u]
    BY <2>1 DEF TypeOK
  <2> QED
    BY <1>2, <2>2 DEF OnlyCleanSlotLeaves
<1>3. CASE CleanClose(c, t)
  <2>1. Goto(c, t, "end") /\ pc[c][t] = "cl_close"
    BY <1>3 DEF CleanClose
  <2> HIDE DEF Goto
  <2> QED
    BY <2>1, PastSlotLeaves DEF Left, Cleared
<1>4. CASE CleanOwn(c, t)
  <2>1. Goto(c, t, "cl_peer") /\ pc[c][t] = "cl_own"
    BY <1>4 DEF CleanOwn
  <2> HIDE DEF Goto
  <2> QED
    BY <2>1, PastSlotLeaves DEF Left, Cleared
<1>5. CASE CleanPeer(c, t)
  <2>1. PICK l \in {"end", "cl_notice"} : Goto(c, t, l) /\ pc[c][t] = "cl_peer"
    BY <1>5 DEF CleanPeer
  <2> HIDE DEF Goto
  <2> QED
    BY <2>1, PastSlotLeaves DEF Left, Cleared
<1>6. CASE CleanNotice(c, t)
  <2>1. Goto(c, t, "end") /\ pc[c][t] = "cl_notice"
    BY <1>6 DEF CleanNotice
  <2> HIDE DEF Goto
  <2> QED
    BY <2>1, PastSlotLeaves DEF Left, Cleared
<1> QED
  BY <1>1, <1>2, <1>3, <1>4, <1>5, <1>6 DEF CleanStep, CleanQuiet, CleanLoud

LEMMA PingFaultLeaves ==
  ASSUME SlotInv, NEW c \in Conn, PingQuiet(c) \/ Fault(c), ~CleanQuiet(c, "ping")
  PROVE  OnlyCleanSlotLeaves
<1> USE DEF SlotInv, Typing
<1>1. CASE PingStops(c)
  <2>1. Goto(c, "ping", "end")
    BY <1>1 DEF PingStops
  <2> HIDE DEF Goto
  <2> QED
    BY <2>1, PastSlotLeaves DEF Left, Cleared
<1>2. CASE PingFails(c) \/ PongTimeout(c)
  <2>1. Goto(c, "ping", "cl_maps")
    BY <1>2 DEF PingFails, PongTimeout
  <2> HIDE DEF Goto
  <2> QED
    BY <2>1, PastSlotLeaves DEF Left, Cleared
<1>3. CASE Fault(c)
  BY <1>3 DEF Fault, Drop, Mute, Stall, Unstall, SockTurns, OnlyCleanSlotLeaves
<1> QED
  BY <1>1, <1>2, <1>3 DEF PingQuiet

LEMMA StepLeaves == SlotInv /\ [Next]_vars => OnlyCleanSlotLeaves
<1> SUFFICES ASSUME SlotInv, [Next]_vars PROVE OnlyCleanSlotLeaves
  OBVIOUS
<1>1. CASE UNCHANGED vars
  BY <1>1 DEF vars, OnlyCleanSlotLeaves
<1>2. ASSUME NEW c \in Conn, Upgrade(c) \/ JoinStep(c) PROVE OnlyCleanSlotLeaves
  BY <1>2, JoinLeaves
<1>3. ASSUME NEW c \in Conn, ReadStep(c) \/ Frame(c) PROVE OnlyCleanSlotLeaves
  BY <1>3, ReadLeaves, CleanLeaves DEF ReadStep, CleanStep
<1>4. ASSUME NEW c \in Conn, PingStep(c) \/ Fault(c) PROVE OnlyCleanSlotLeaves
  BY <1>4, PingFaultLeaves, CleanLeaves DEF PingStep, CleanStep
<1> QED
  BY <1>1, <1>2, <1>3, <1>4 DEF Next

LEMMA StepWins == SlotInv /\ [Next]_vars => OnlyClaimsWin
<1> SUFFICES ASSUME SlotInv, [Next]_vars, NEW d \in Conn, InSlot(d)', ~InSlot(d)
             PROVE  /\ pc[d]["join"] = "claim"
                    /\ pc'[d]["read"] = "off" /\ pc'[d]["ping"] = "off"
  BY DEF OnlyClaimsWin
<1>1. ~UNCHANGED <<master, client>>
  BY DEF InSlot, InMaster, InClient
<1>2. PICK c \in Conn :
         \/ ClaimMaster(c) \/ ClaimClient(c) \/ ClearPeer(c) \/ ClearTarget(c)
         \/ CleanSlot(c, "read") \/ CleanSlot(c, "ping")
         \/ \E r \in Room : \/ RecvRemoveRoom(c, r)
                            \/ \E role \in {"master", "client"} : RecvRemove(c, r, role)
  <2>1. PICK c \in Conn : Upgrade(c) \/ JoinStep(c) \/ ReadStep(c) \/ Frame(c) \/ PingStep(c) \/ Fault(c)
    BY <1>1 DEF Next, vars, roomVars
  <2>2. CASE Upgrade(c) \/ JoinStep(c)
    BY <1>1, <2>2 DEF JoinStep, JoinQuiet, Upgrade, RejectRole, NotifyPeer, NotifyPeerFails, Register,
                EvictVictim
  <2>3. CASE Frame(c)
    BY <1>1, <2>3 DEF Frame, RecvData, RecvNoAgent, RecvQuery
  <2>4. CASE ReadStep(c)
    BY <1>1, <2>4 DEF ReadStep, ReadQuiet, ReadEnds, Forward, ForwardFails, QueryDone, Reply,
      EvictVictim, CleanQuiet, CleanLoud, CleanMaps, CleanClose, CleanPeer, CleanOwn, CleanNotice
  <2>5. CASE PingStep(c)
    BY <1>1, <2>5 DEF PingStep, PingQuiet, PingStops, PingFails, PongTimeout,
      CleanQuiet, CleanLoud, CleanMaps, CleanClose, CleanPeer, CleanOwn, CleanNotice
  <2>6. CASE Fault(c)
    BY <1>1, <2>6 DEF Fault, Drop, Mute, Stall, Unstall, SockTurns
  <2> QED
    BY <2>1, <2>2, <2>3, <2>4, <2>5, <2>6
<1> USE DEF SlotInv, Typing
<1>3. CASE ClaimMaster(c)
  <2>1. d = c /\ pc[c]["join"] = "claim"
    BY <1>3, RoomAssumption, NoneAssumption DEF TypeOK, ClaimMaster, InSlot, InMaster, InClient
  <2> QED
    BY <1>3, <2>1 DEF TypeOK, JoinFirst, ClaimMaster
<1>4. CASE ClaimClient(c)
  <2>1. d = c /\ pc[c]["join"] = "claim"
    BY <1>4, RoomAssumption, NoneAssumption DEF TypeOK, ClaimClient, InSlot, InMaster, InClient
  <2> QED
    BY <1>4, <2>1 DEF TypeOK, JoinFirst, ClaimClient
<1>5. CASE ClearPeer(c)
  <2>1. peer[c]["join"] \in Conn
    BY <1>5 DEF TypeOK, PeerKnown, ClearPeer
  <2> QED
    BY <1>5, <2>1, ClearSlotEffect DEF ClearPeer
<1>6. CASE ClearTarget(c)
  <2>1. peer[c]["read"] \in Conn
    BY <1>6 DEF TypeOK, PeerKnown, ClearTarget
  <2> QED
    BY <1>6, <2>1, ClearSlotEffect DEF ClearTarget
<1>7. CASE CleanSlot(c, "read") \/ CleanSlot(c, "ping")
  BY <1>7, ClearSlotEffect DEF CleanSlot
<1>8. ASSUME NEW r \in Room, RecvRemoveRoom(c, r) PROVE FALSE
  BY <1>8, RoomAssumption, NoneAssumption DEF TypeOK, RecvRemoveRoom, InSlot, InMaster, InClient
<1>9. ASSUME NEW r \in Room, NEW role \in {"master", "client"}, RecvRemove(c, r, role) PROVE FALSE
  BY <1>9, RoomAssumption, NoneAssumption DEF TypeOK, RecvRemove, InSlot, InMaster, InClient
<1> QED
  BY <1>2, <1>3, <1>4, <1>5, <1>6, <1>7, <1>8, <1>9

LEMMA NoZombieStep ==
  ASSUME SlotInv, NoZombieInSlot, [Next]_vars
  PROVE  NoZombieInSlot'
<1>1. OnlyCleanSlotLeaves /\ OnlyClaimsWin
  BY StepLeaves, StepWins
<1>2. ASSUME NEW c \in Conn, NEW t \in {"read", "ping"}, CleanSlot(c, t) PROVE ~InSlot(c)'
  BY <1>2, ClearSlotEffect DEF SlotInv, Typing, CleanSlot
<1>3. ASSUME NEW c \in Conn, InSlot(c)', NEW t \in {"read", "ping"} PROVE pc'[c][t] \notin Left(t)
  <2>1. CASE ~InSlot(c)
    BY <1>1, <1>3, <2>1 DEF OnlyClaimsWin, Left, Cleared
  <2>2. CASE InSlot(c)
    <3>1. pc[c][t] \notin Left(t)
      BY <2>2 DEF NoZombieInSlot, Left
    <3> QED
      BY <1>1, <1>2, <1>3, <3>1 DEF OnlyCleanSlotLeaves
  <2> QED
    BY <2>1, <2>2
<1>4. ASSUME NEW c \in Conn PROVE ~(pc'[c]["read"] = "cl_own" /\ pc'[c]["ping"] = "cl_own")
  <2> SUFFICES ASSUME pc'[c]["read"] = "cl_own", pc'[c]["ping"] = "cl_own" PROVE FALSE
    OBVIOUS
  <2>1. PICK t \in {"read", "ping"} : CleanSlot(c, t)
    BY <1>1 DEF OnlyCleanSlotLeaves, NoZombieInSlot
  <2>2. PICK u \in {"read", "ping"} : u # t
    OBVIOUS
  <2>3. pc'[c][u] = pc[c][u] /\ pc[c][u] = "cl_own"
    BY <2>1, <2>2 DEF SlotInv, Typing, TypeOK, CleanSlot
  <2>4. ~InSlot(c)
    BY <2>3 DEF NoZombieInSlot, Cleared
  <2>5. pc'[c][t] = "cl_close"
    BY <2>1, <2>4 DEF SlotInv, Typing, TypeOK, CleanSlot
  <2> QED
    BY <2>5
<1> QED
  BY <1>3, <1>4 DEF NoZombieInSlot, Left

(***************************************************************************)
(* A connection whose cleanup_session cleared its slot never occupies the  *)
(* slot again and departs as the owner in one cleanup at most, for any     *)
(* number of connections and rooms.                                        *)
(***************************************************************************)
THEOREM NoZombie == Spec => []NoZombieInSlot
<1>1. Init => NoZombieInSlot
  BY SlotInvInit
<1>2. SlotInv /\ NoZombieInSlot /\ [Next]_vars => NoZombieInSlot'
  BY NoZombieStep
<1> QED
  BY <1>1, <1>2, SlotInvariant, PTL DEF Spec

-----------------------------------------------------------------------------
(* The relay implements SlotService.                                         *)

\* Whom a task sends to or evicts once had a slot, so its join made its try.
OnlyHolders ==
  \A c \in Conn, t \in Task :
    victims[c][t] \subseteq held /\ peer[c][t] \in held \cup {None}

\* A task that changes at most its own victims and its own peer.
LEMMA OwnHolders ==
  ASSUME TypeOK, OnlyHolders, held \subseteq held',
         NEW c \in Conn, NEW t \in Task,
         NEW out \in SUBSET held', NEW p \in held' \cup {None},
         victims' = victims \/ victims' = [victims EXCEPT ![c][t] = out],
         peer' = peer \/ peer' = [peer EXCEPT ![c][t] = p]
  PROVE  OnlyHolders'
<1> SUFFICES ASSUME NEW d \in Conn, NEW u \in Task
             PROVE  victims'[d][u] \subseteq held' /\ peer'[d][u] \in held' \cup {None}
  BY DEF OnlyHolders
<1>1. victims[d][u] \subseteq held /\ peer[d][u] \in held \cup {None}
  BY DEF OnlyHolders
<1>2. victims'[d][u] \subseteq held'
  <2>1. CASE victims' = victims
    BY <1>1, <2>1
  <2>2. CASE victims' = [victims EXCEPT ![c][t] = out]
    BY <1>1, <2>2 DEF TypeOK
  <2> QED
    BY <2>1, <2>2
<1>3. peer'[d][u] \in held' \cup {None}
  <2>1. CASE peer' = peer
    BY <1>1, <2>1
  <2>2. CASE peer' = [peer EXCEPT ![c][t] = p]
    BY <1>1, <2>2 DEF TypeOK
  <2> QED
    BY <2>1, <2>2
<1> QED
  BY <1>2, <1>3

LEMMA SlotsHeld ==
  ASSUME SlotInv, NEW r \in Room
  PROVE  master[r] \in held \cup {None} /\ client[r] \in held \cup {None}
BY DEF SlotInv, SlotsMatch

LEMMA JoinHolders ==
  ASSUME SlotInv, OnlyHolders, NEW c \in Conn, Upgrade(c) \/ JoinStep(c)
  PROVE  OnlyHolders'
<1> DEFINE r == RoomOf[c]
<1>1. /\ TypeOK /\ r \in Room
      /\ master[r] \in held \cup {None} /\ client[r] \in held \cup {None}
  BY SlotsHeld, RoomAssumption DEF SlotInv, Typing
<1>2. CASE Upgrade(c) \/ RejectRole(c) \/ NotifyPeerFails(c) \/ Register(c)
  BY <1>2 DEF Upgrade, RejectRole, NotifyPeerFails, Register, OnlyHolders
<1>3. CASE ClaimMaster(c)
  <2>1. /\ held \subseteq held' /\ victims' = victims
        /\ peer' = [peer EXCEPT ![c]["join"] = client[r]]
    BY <1>3 DEF ClaimMaster
  <2>2. client[r] \in held' \cup {None}
    BY <1>1, <2>1
  <2> HIDE DEF r
  <2> QED
    BY <1>1, <2>1, <2>2, OwnHolders
<1>4. CASE ClaimClient(c)
  <2>1. /\ held \subseteq held' /\ victims' = [victims EXCEPT ![c]["join"] = {client[r]} \ {None}]
        /\ peer' = [peer EXCEPT ![c]["join"] = master[r]]
    BY <1>4 DEF ClaimClient
  <2>2. {client[r]} \ {None} \in SUBSET held' /\ master[r] \in held' \cup {None}
    BY <1>1, <2>1
  <2> HIDE DEF r
  <2> QED
    BY <1>1, <2>1, <2>2, OwnHolders
<1>5. CASE NotifyPeer(c)
  BY <1>1, <1>5, OwnHolders DEF NotifyPeer
<1>6. CASE ClearPeer(c)
  <2>1. peer[c]["join"] \in held
    BY <1>6 DEF ClearPeer, OnlyHolders, SlotInv, Typing, PeerKnown
  <2>2. /\ held' = held /\ victims' = [victims EXCEPT ![c]["join"] = {peer[c]["join"]}]
        /\ peer' = [peer EXCEPT ![c]["join"] = None]
    BY <1>6 DEF ClearPeer
  <2> QED
    BY <1>1, <2>1, <2>2, OwnHolders
<1>7. CASE EvictVictim(c, "join")
  BY <1>1, <1>7 DEF EvictVictim, OnlyHolders, TypeOK
<1> QED
  BY <1>2, <1>3, <1>4, <1>5, <1>6, <1>7 DEF JoinStep, JoinQuiet

LEMMA CleanHolders ==
  ASSUME SlotInv, OnlyHolders, NEW c \in Conn, NEW t \in {"read", "ping"}, CleanStep(c, t)
  PROVE  OnlyHolders'
<1>1. CASE CleanMaps(c, t) \/ CleanSlot(c, t) \/ CleanClose(c, t) \/ CleanOwn(c, t)
  BY <1>1 DEF CleanMaps, CleanSlot, CleanClose, CleanOwn, OnlyHolders
<1>2. CASE CleanNotice(c, t)
  BY <1>2, OwnHolders DEF CleanNotice, SlotInv, Typing
<1>3. CASE CleanPeer(c, t)
  <2> DEFINE p == IF RoleOf[c] = "master" THEN client[RoomOf[c]] ELSE master[RoomOf[c]]
  <2>1. held' = held /\ victims' = victims /\ peer' = [peer EXCEPT ![c][t] = p]
    BY <1>3 DEF CleanPeer
  <2>2. p \in held' \cup {None}
    BY <2>1, RoomAssumption, SlotsHeld
  <2> HIDE DEF p
  <2> QED
    BY <2>1, <2>2, OwnHolders DEF SlotInv, Typing
<1> QED
  BY <1>1, <1>2, <1>3 DEF CleanStep, CleanQuiet, CleanLoud

LEMMA ReadHolders ==
  ASSUME SlotInv, OnlyHolders, NEW c \in Conn, ReadQuiet(c) \/ Frame(c), ~CleanQuiet(c, "read")
  PROVE  OnlyHolders'
<1>1. /\ TypeOK
      /\ \A r \in Room : master[r] \in held \cup {None} /\ client[r] \in held \cup {None}
  BY SlotsHeld DEF SlotInv, Typing
<1>2. CASE \/ ReadEnds(c) \/ ForwardFails(c) \/ QueryDone(c) \/ Reply(c) \/ RecvNoAgent(c)
           \/ RecvQuery(c)
  BY <1>2 DEF ReadEnds, ForwardFails, QueryDone, Reply, RecvNoAgent, RecvQuery, OnlyHolders
<1>3. CASE Forward(c)
  BY <1>1, <1>3, OwnHolders DEF Forward
<1>4. CASE ClearTarget(c)
  <2>1. peer[c]["read"] \in held
    BY <1>4 DEF ClearTarget, OnlyHolders, SlotInv, Typing, PeerKnown
  <2>2. /\ held' = held /\ victims' = [victims EXCEPT ![c]["read"] = {peer[c]["read"]}]
        /\ peer' = [peer EXCEPT ![c]["read"] = None]
    BY <1>4 DEF ClearTarget
  <2> QED
    BY <1>1, <2>1, <2>2, OwnHolders
<1>5. CASE RecvData(c)
  <2>1. Target(c) \in held
    BY <1>1, <1>5, RoomAssumption DEF RecvData, Target
  <2>2. held' = held /\ victims' = victims /\ peer' = [peer EXCEPT ![c]["read"] = Target(c)]
    BY <1>5 DEF RecvData
  <2> QED
    BY <1>1, <2>1, <2>2, OwnHolders
<1>6. ASSUME NEW r \in Room, NEW out \in SUBSET {master[r], client[r]}, None \notin out,
             TakeOut(c, out), UNCHANGED <<held, peer>>
      PROVE  OnlyHolders'
  <2>1. out \in SUBSET held' /\ victims' = [victims EXCEPT ![c]["read"] = out]
    BY <1>1, <1>6 DEF TakeOut
  <2> QED
    BY <1>1, <1>6, <2>1, OwnHolders
<1>7. ASSUME NEW r \in Room, RecvRemoveRoom(c, r) PROVE OnlyHolders'
  BY <1>6, <1>7 DEF RecvRemoveRoom
<1>8. ASSUME NEW r \in Room, NEW role \in {"master", "client"}, RecvRemove(c, r, role)
      PROVE  OnlyHolders'
  <2> DEFINE out == {IF role = "master" THEN master[r] ELSE client[r]} \ {None}
  <2>1. TakeOut(c, out) /\ UNCHANGED <<held, peer>>
    BY <1>8 DEF RecvRemove
  <2>2. out \in SUBSET {master[r], client[r]} /\ None \notin out
    OBVIOUS
  <2> HIDE DEF out
  <2> QED
    BY <1>6, <2>1, <2>2
<1>9. CASE EvictVictim(c, "read")
  BY <1>1, <1>9 DEF EvictVictim, OnlyHolders, TypeOK
<1> QED
  BY <1>2, <1>3, <1>4, <1>5, <1>7, <1>8, <1>9 DEF ReadQuiet, Frame

LEMMA HoldersStep == SlotInv /\ OnlyHolders /\ [Next]_vars => OnlyHolders'
<1> SUFFICES ASSUME SlotInv, OnlyHolders, [Next]_vars PROVE OnlyHolders'
  OBVIOUS
<1>1. CASE UNCHANGED vars
  BY <1>1 DEF vars, OnlyHolders
<1>2. ASSUME NEW c \in Conn, Upgrade(c) \/ JoinStep(c) PROVE OnlyHolders'
  BY <1>2, JoinHolders
<1>3. ASSUME NEW c \in Conn, ReadStep(c) \/ Frame(c) PROVE OnlyHolders'
  BY <1>3, ReadHolders, CleanHolders DEF ReadStep, CleanStep
<1>4. ASSUME NEW c \in Conn, PingStep(c) \/ Fault(c) PROVE OnlyHolders'
  <2>1. CASE PingStops(c) \/ PingFails(c) \/ PongTimeout(c) \/ Fault(c)
    BY <2>1 DEF PingStops, PingFails, PongTimeout, Fault, Drop, Mute, Stall, Unstall, SockTurns,
                OnlyHolders
  <2> QED
    BY <1>4, <2>1, CleanHolders DEF PingStep, PingQuiet, CleanStep
<1> QED
  BY <1>1, <1>2, <1>3, <1>4 DEF Next

-----------------------------------------------------------------------------
(* What a step of the relay is to SlotService. *)

Tried == {c \in Conn : pc[c]["join"] \notin {"init", "claim"}}
Shut  == {c \in Conn : evicted[c]}

\* The labels between and after which a join makes no try.
LEMMA SameTried ==
  ASSUME TypeOK, NEW c \in Conn, NEW t \in Task, NEW l,
         pc' = pc \/ pc' = [pc EXCEPT ![c][t] = l],
         t # "join" \/ (c \in Tried <=> l \notin {"init", "claim"})
  PROVE  Tried' = Tried
<1>1. \A d \in Conn : d \in Tried' <=> d \in Tried
  <2>1. CASE pc' = pc
    BY <2>1 DEF Tried
  <2>2. CASE pc' = [pc EXCEPT ![c][t] = l]
    BY <2>2 DEF Tried, TypeOK
  <2> QED
    BY <2>1, <2>2
<1> QED
  BY <1>1 DEF Tried

\* Conn::evict is a Close, or nothing when the connection was evicted before.
LEMMA EvictCloses ==
  ASSUME TypeOK, NEW v \in Tried, Evict(v), UNCHANGED <<master, client>>, Tried' = Tried
  PROVE  Slots!Next \/ UNCHANGED Slots!slots
<1>1. v \in Conn /\ Shut' = Shut \cup {v}
  BY DEF Evict, TypeOK, Shut, Tried
<1>2. CASE v \in Shut
  BY <1>1, <1>2 DEF Slots!slots, Shut, Tried
<1>3. CASE v \notin Shut
  <2>1. Slots!Close(v)
    BY <1>1, <1>3 DEF Slots!Close, Shut, Tried
  <2> QED
    BY <1>1, <2>1 DEF Slots!Next
<1> QED
  BY <1>2, <1>3

\* Slots are emptied one room at a time.
LEMMA LeaveMeans ==
  ASSUME TypeOK, NEW r \in Room, NEW out \in SUBSET {master[r], client[r]},
         master' = [x \in Room |-> IF master[x] \in out THEN None ELSE master[x]],
         client' = [x \in Room |-> IF client[x] \in out THEN None ELSE client[x]],
         evicted' = evicted, Tried' = Tried
  PROVE  Slots!Next
<1>1. Slots!Leave(out)
  BY DEF Slots!Leave, Tried
<1> QED
  BY <1>1 DEF Slots!Next

\* clear_slot: v leaves the slot of its own role and room, if it has it.
LEMMA ClearSlotLeaves ==
  ASSUME SlotInv, NEW v \in Conn, ClearSlot(v), evicted' = evicted, Tried' = Tried
  PROVE  Slots!Next \/ UNCHANGED Slots!slots
<1> DEFINE out == {v} \cap {master[RoomOf[v]], client[RoomOf[v]]}
<1>1. RoomOf[v] \in Room /\ out \in SUBSET {master[RoomOf[v]], client[RoomOf[v]]}
  BY RoomAssumption
<1>2. master' = [x \in Room |-> IF master[x] \in out THEN None ELSE master[x]]
  <2>1. \A x \in Room : master[x] = v => x = RoomOf[v] /\ RoleOf[v] = "master"
    BY NoneAssumption DEF SlotInv, SlotsMatch
  <2>2. \A x \in Room : master[x] \in out <=> master[x] = v
    BY <2>1
  <2> HIDE DEF out
  <2>3. CASE RoleOf[v] = "master" /\ InMaster(v)
    BY <1>1, <2>1, <2>2, <2>3 DEF ClearSlot, InMaster, SlotInv, Typing, TypeOK
  <2>4. CASE ~(RoleOf[v] = "master" /\ InMaster(v))
    BY <1>1, <2>1, <2>2, <2>4 DEF ClearSlot, InMaster, SlotInv, Typing, TypeOK
  <2> QED
    BY <2>3, <2>4
<1>3. client' = [x \in Room |-> IF client[x] \in out THEN None ELSE client[x]]
  <2>1. \A x \in Room : client[x] = v => x = RoomOf[v] /\ RoleOf[v] = "client"
    BY NoneAssumption DEF SlotInv, SlotsMatch
  <2>2. \A x \in Room : client[x] \in out <=> client[x] = v
    BY <2>1
  <2> HIDE DEF out
  <2>3. CASE RoleOf[v] = "client" /\ InClient(v)
    BY <1>1, <2>1, <2>2, <2>3 DEF ClearSlot, InClient, SlotInv, Typing, TypeOK
  <2>4. CASE ~(RoleOf[v] = "client" /\ InClient(v))
    BY <1>1, <2>1, <2>2, <2>4 DEF ClearSlot, InClient, SlotInv, Typing, TypeOK
  <2> QED
    BY <2>3, <2>4
<1> HIDE DEF out
<1> QED
  BY <1>1, <1>2, <1>3, LeaveMeans DEF SlotInv, Typing

LEMMA ClaimMeans ==
  ASSUME SlotInv, NEW c \in Conn, RejectRole(c) \/ ClaimMaster(c) \/ ClaimClient(c)
  PROVE  Slots!Next
<1>1. /\ TypeOK /\ RoomOf[c] \in Room
      /\ c \in Conn \ Tried
  BY RoomAssumption DEF SlotInv, Typing, RejectRole, ClaimMaster, ClaimClient, Tried
<1>2. Tried' = Tried \cup {c}
  <2>1. PICK l \in JoinPC \cup {"end"} : /\ pc' = [pc EXCEPT ![c]["join"] = l]
                                        /\ l \notin {"init", "claim"}
    BY DEF RejectRole, ClaimMaster, ClaimClient
  <2>2. \A d \in Conn : d \in Tried' <=> d \in Tried \cup {c}
    BY <1>1, <2>1 DEF Tried, TypeOK
  <2> QED
    BY <2>2 DEF Tried
<1>3. CASE RejectRole(c)
  <2>1. Slots!Tries(c, "other")
    BY <1>1, <1>2, <1>3, RoleAssumption DEF Slots!Tries, RejectRole, Tried
  <2>2. Shut' = Shut \cup {c} /\ UNCHANGED <<master, client>>
    BY <1>1, <1>3 DEF RejectRole, Evict, Shut, TypeOK
  <2>3. Slots!Refuse(c)
    BY <2>1, <2>2 DEF Slots!Refuse, Shut
  <2> QED
    BY <2>3 DEF Slots!Next
<1>4. CASE ClaimMaster(c)
  <2>1. Slots!Tries(c, "master") /\ UNCHANGED <<client, evicted>>
    BY <1>1, <1>2, <1>4 DEF Slots!Tries, ClaimMaster, Tried
  <2>2. Slots!SeatMaster(c) \/ Slots!TurnAway(c)
    BY <1>4, <2>1 DEF Slots!SeatMaster, Slots!TurnAway, ClaimMaster
  <2> QED
    BY <2>2 DEF Slots!Next
<1>5. CASE ClaimClient(c)
  <2>1. Slots!Tries(c, "client") /\ UNCHANGED <<master, evicted>>
    BY <1>1, <1>2, <1>5 DEF Slots!Tries, ClaimClient, Tried
  <2>2. Slots!SeatClient(c)
    BY <1>5, <2>1 DEF Slots!SeatClient, ClaimClient
  <2> QED
    BY <2>2 DEF Slots!Next
<1> QED
  BY <1>3, <1>4, <1>5

\* A step that touches no slot and evicts nobody.
LEMMA QuietMeans ==
  ASSUME Tried' = Tried, UNCHANGED <<master, client, evicted>>
  PROVE  UNCHANGED Slots!slots
BY DEF Slots!slots, Tried

\* Whom a task sends to or evicts has made its try.
LEMMA HoldersTried ==
  ASSUME SlotInv, OnlyHolders, NEW c \in Conn, NEW t \in Task
  PROVE  victims[c][t] \subseteq Tried /\ peer[c][t] \in Tried \cup {None}
BY DEF SlotInv, Typing, TypeOK, JoinFirst, OnlyHolders, Tried

LEMMA EvictMeans ==
  ASSUME SlotInv, OnlyHolders, NEW c \in Conn, NEW t \in Task, EvictVictim(c, t)
  PROVE  Slots!Next \/ UNCHANGED Slots!slots
<1>1. PICK v \in victims[c][t] : Evict(v)
  BY DEF EvictVictim
<1>2. v \in Tried
  BY HoldersTried
<1>3. Tried' = Tried
  <2>1. PICK l \in {"register", "notify", "loop", "reply"} :
          pc' = pc \/ pc' = [pc EXCEPT ![c][t] = l]
    BY DEF EvictVictim, AfterEvict, EvictPC
  <2>2. c \in Tried \/ t # "join"
    BY DEF Tried, EvictVictim, EvictPC
  <2> QED
    BY <2>1, <2>2, SameTried DEF SlotInv, Typing
<1> QED
  BY <1>1, <1>2, <1>3, EvictCloses DEF EvictVictim, SlotInv, Typing

LEMMA JoinMeans ==
  ASSUME SlotInv, OnlyHolders, NEW c \in Conn, Upgrade(c) \/ JoinStep(c)
  PROVE  Slots!Next \/ UNCHANGED Slots!slots
<1>1. TypeOK
  BY DEF SlotInv, Typing
<1>2. CASE Upgrade(c)
  <2>1. pc' = [pc EXCEPT ![c]["join"] = "claim"] /\ c \notin Tried
    BY <1>2 DEF Upgrade, Tried
  <2>2. Tried' = Tried
    BY <1>1, <2>1, SameTried
  <2> QED
    BY <1>2, <2>2, QuietMeans DEF Upgrade
<1>3. CASE RejectRole(c) \/ ClaimMaster(c) \/ ClaimClient(c)
  BY <1>3, ClaimMeans
<1>4. CASE NotifyPeer(c) \/ NotifyPeerFails(c) \/ ClearPeer(c)
  <2>1. PICK l \in {"register", "clearPeer", "evictPeer"} : pc' = [pc EXCEPT ![c]["join"] = l]
    BY <1>4 DEF NotifyPeer, NotifyPeerFails, ClearPeer
  <2>2. c \in Tried
    BY <1>4 DEF NotifyPeer, NotifyPeerFails, ClearPeer, Tried
  <2>3. Tried' = Tried
    BY <1>1, <2>1, <2>2, SameTried
  <2>4. CASE ClearPeer(c)
    <3>1. peer[c]["join"] \in Conn
      BY <2>4 DEF SlotInv, Typing, TypeOK, PeerKnown, ClearPeer
    <3> QED
      BY <2>3, <2>4, <3>1, ClearSlotLeaves DEF ClearPeer
  <2>5. CASE NotifyPeer(c) \/ NotifyPeerFails(c)
    BY <2>3, <2>5, QuietMeans DEF NotifyPeer, NotifyPeerFails
  <2> QED
    BY <1>4, <2>4, <2>5
<1>5. CASE Register(c)
  <2>1. \A d \in Conn : d \in Tried' <=> d \in Tried
    BY <1>1, <1>5 DEF Register, Tried, TypeOK
  <2>2. Tried' = Tried
    BY <2>1 DEF Tried
  <2> QED
    BY <1>5, <2>2, QuietMeans DEF Register
<1>6. CASE EvictVictim(c, "join")
  BY <1>6, EvictMeans
<1> QED
  BY <1>2, <1>3, <1>4, <1>5, <1>6 DEF JoinStep, JoinQuiet

\* The read loop and the ping task run once the try is made, and make none.
LEMMA LaterTried ==
  ASSUME SlotInv, NEW c \in Conn, NEW t \in {"read", "ping"}, pc[c][t] # "off", NEW l,
         pc' = [pc EXCEPT ![c][t] = l]
  PROVE  Tried' = Tried /\ c \in Tried
<1>1. c \in Tried
  BY DEF SlotInv, JoinFirst, Tried
<1> QED
  BY <1>1, SameTried DEF SlotInv, Typing

LEMMA CleanMeans ==
  ASSUME SlotInv, NEW c \in Conn, NEW t \in {"read", "ping"}, CleanStep(c, t)
  PROVE  Slots!Next \/ UNCHANGED Slots!slots
<1>1. PICK l \in PC : pc[c][t] # "off" /\ pc' = [pc EXCEPT ![c][t] = l]
  BY DEF CleanStep, CleanQuiet, CleanLoud, CleanMaps, CleanSlot, CleanClose, CleanOwn, CleanPeer,
         CleanNotice
<1>2. Tried' = Tried /\ c \in Tried
  BY <1>1, LaterTried
<1>3. CASE CleanMaps(c, t) \/ CleanPeer(c, t) \/ CleanNotice(c, t)
  BY <1>2, <1>3, QuietMeans DEF CleanMaps, CleanPeer, CleanNotice
<1>4. CASE CleanSlot(c, t)
  BY <1>2, <1>4, ClearSlotLeaves DEF CleanSlot
<1>5. CASE CleanClose(c, t) \/ CleanOwn(c, t)
  BY <1>2, <1>5, EvictCloses DEF CleanClose, CleanOwn, SlotInv, Typing
<1> QED
  BY <1>3, <1>4, <1>5 DEF CleanStep, CleanQuiet, CleanLoud

LEMMA ReadMeans ==
  ASSUME SlotInv, OnlyHolders, NEW c \in Conn, ReadQuiet(c) \/ Frame(c), ~CleanQuiet(c, "read")
  PROVE  Slots!Next \/ UNCHANGED Slots!slots
<1>1. CASE EvictVictim(c, "read")
  BY <1>1, EvictMeans
<1> SUFFICES ASSUME ~EvictVictim(c, "read")
             PROVE  Slots!Next \/ UNCHANGED Slots!slots
  BY <1>1
<1>2. PICK l \in PC : pc[c]["read"] # "off" /\ pc' = [pc EXCEPT ![c]["read"] = l]
  <2>1. CASE ReadQuiet(c)
    BY <2>1 DEF ReadQuiet, ReadEnds, Forward, ForwardFails, ClearTarget, QueryDone, Reply
  <2>2. CASE Frame(c)
    BY <2>2 DEF Frame, CanRead, RecvData, RecvNoAgent, RecvQuery, RecvRemove, RecvRemoveRoom, TakeOut
  <2> QED
    BY <2>1, <2>2
<1>3. Tried' = Tried /\ TypeOK
  BY <1>2, LaterTried DEF SlotInv, Typing
<1>4. CASE \/ ReadEnds(c) \/ Forward(c) \/ ForwardFails(c) \/ QueryDone(c) \/ Reply(c)
           \/ RecvData(c) \/ RecvNoAgent(c) \/ RecvQuery(c)
  <2>1. UNCHANGED <<master, client, evicted>>
    BY <1>4 DEF ReadEnds, Forward, ForwardFails, QueryDone, Reply, RecvData, RecvNoAgent, RecvQuery
  <2> QED
    BY <1>3, <2>1, QuietMeans
<1>5. CASE ClearTarget(c)
  <2>1. peer[c]["read"] \in Conn
    BY <1>5 DEF SlotInv, Typing, TypeOK, PeerKnown, ClearTarget
  <2> QED
    BY <1>3, <1>5, <2>1, ClearSlotLeaves DEF ClearTarget
<1>6. ASSUME NEW r \in Room, RecvRemoveRoom(c, r) PROVE Slots!Next
  <2> DEFINE out == {master[r], client[r]}
  <2>1. \A x \in Room : /\ master[x] \in out => x = r \/ master[x] = None
                        /\ client[x] \in out => x = r \/ client[x] = None
    BY <1>3 DEF SlotInv, SlotsMatch
  <2>2. master' = [x \in Room |-> IF master[x] \in out THEN None ELSE master[x]]
    BY <1>3, <1>6, <2>1 DEF RecvRemoveRoom, TypeOK
  <2>3. client' = [x \in Room |-> IF client[x] \in out THEN None ELSE client[x]]
    BY <1>3, <1>6, <2>1 DEF RecvRemoveRoom, TypeOK
  <2>4. evicted' = evicted
    BY <1>6 DEF RecvRemoveRoom
  <2> QED
    BY <1>3, <2>2, <2>3, <2>4, LeaveMeans
<1>7. ASSUME NEW r \in Room, NEW role \in {"master", "client"}, RecvRemove(c, r, role)
      PROVE  Slots!Next
  <2> DEFINE out == {IF role = "master" THEN master[r] ELSE client[r]}
  <2>1. \A x \in Room : /\ master[x] \in out => (x = r /\ role = "master") \/ master[x] = None
                        /\ client[x] \in out => (x = r /\ role = "client") \/ client[x] = None
    BY <1>3 DEF SlotInv, SlotsMatch
  <2>2. master' = [x \in Room |-> IF master[x] \in out THEN None ELSE master[x]]
    BY <1>3, <1>7, <2>1 DEF RecvRemove, TypeOK
  <2>3. client' = [x \in Room |-> IF client[x] \in out THEN None ELSE client[x]]
    BY <1>3, <1>7, <2>1 DEF RecvRemove, TypeOK
  <2>4. evicted' = evicted /\ out \in SUBSET {master[r], client[r]}
    BY <1>7 DEF RecvRemove
  <2> HIDE DEF out
  <2> QED
    BY <1>3, <2>2, <2>3, <2>4, LeaveMeans
<1> QED
  BY <1>4, <1>5, <1>6, <1>7 DEF ReadQuiet, Frame

LEMMA PingFaultMeans ==
  ASSUME SlotInv, NEW c \in Conn, PingQuiet(c) \/ Fault(c), ~CleanQuiet(c, "ping")
  PROVE  Slots!Next \/ UNCHANGED Slots!slots
<1>1. CASE Fault(c)
  BY <1>1, QuietMeans DEF Fault, Drop, Mute, Stall, Unstall, SockTurns, Tried
<1>2. CASE PingStops(c) \/ PingFails(c) \/ PongTimeout(c)
  <2>1. PICK l \in PC : pc[c]["ping"] # "off" /\ pc' = [pc EXCEPT ![c]["ping"] = l]
    BY <1>2 DEF PingStops, PingFails, PongTimeout, PongTimedOut
  <2>2. Tried' = Tried /\ c \in Tried /\ TypeOK
    BY <2>1, LaterTried DEF SlotInv, Typing
  <2>3. CASE PongTimeout(c)
    BY <2>2, <2>3, EvictCloses DEF PongTimeout
  <2>4. CASE PingStops(c) \/ PingFails(c)
    BY <2>2, <2>4, QuietMeans DEF PingStops, PingFails
  <2> QED
    BY <1>2, <2>3, <2>4
<1> QED
  BY <1>1, <1>2 DEF PingQuiet

LEMMA StepMeans == SlotInv /\ OnlyHolders /\ [Next]_vars => [Slots!Next]_(Slots!slots)
<1> SUFFICES ASSUME SlotInv, OnlyHolders, [Next]_vars
             PROVE  Slots!Next \/ UNCHANGED Slots!slots
  OBVIOUS
<1>1. CASE UNCHANGED vars
  BY <1>1, QuietMeans DEF vars, Tried
<1>2. ASSUME NEW c \in Conn, Upgrade(c) \/ JoinStep(c) PROVE Slots!Next \/ UNCHANGED Slots!slots
  BY <1>2, JoinMeans
<1>3. ASSUME NEW c \in Conn, ReadStep(c) \/ Frame(c) PROVE Slots!Next \/ UNCHANGED Slots!slots
  BY <1>3, ReadMeans, CleanMeans DEF ReadStep, CleanStep
<1>4. ASSUME NEW c \in Conn, PingStep(c) \/ Fault(c) PROVE Slots!Next \/ UNCHANGED Slots!slots
  BY <1>4, PingFaultMeans, CleanMeans DEF PingStep, CleanStep
<1> QED
  BY <1>1, <1>2, <1>3, <1>4 DEF Next

LEMMA InitMeans == Init => OnlyHolders /\ Slots!Init
<1> SUFFICES ASSUME Init PROVE OnlyHolders /\ Slots!Init
  OBVIOUS
<1>1. OnlyHolders
  BY DEF Init, OnlyHolders
<1>2. Tried = {} /\ Shut = {}
  BY DEF Init, Tried, Shut
<1> QED
  BY <1>1, <1>2 DEF Init, Slots!Init, Tried, Shut

(***************************************************************************)
(* The relay serves slots as SlotService says, for any number of           *)
(* connections and rooms: however the join, read and ping tasks            *)
(* interleave, a connection tries for its slot once, no master is          *)
(* displaced, nobody is back in a slot, and an eviction meets only         *)
(* connections that have joined.                                           *)
(***************************************************************************)
THEOREM SlotsServed == Spec => ServesSlots
BY SlotInvInit, SlotInvStep, InitMeans, HoldersStep, StepMeans, PTL
DEF Spec, ServesSlots, Slots!Spec
=============================================================================
