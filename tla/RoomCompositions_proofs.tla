----------------------- MODULE RoomCompositions_proofs -----------------------
(***************************************************************************)
(* The two compositions of the relay, proved for any set of connections    *)
(* and rooms: with the user map attached (SessionUsers) and with the       *)
(* writers of a machine's row and the machines' crashes (RoomPresence),    *)
(* what is proved of RoomRelay holds here too, and what each composition   *)
(* adds is proved on top of it.                                            *)
(***************************************************************************)
EXTENDS SessionUsers, RoomPresence, RoomRelay_proofs

USE DEF PC, JoinPC, ReadPC, CleanPC, Task, Goto, roomVars

-----------------------------------------------------------------------------
(* The relay underneath. *)

LEMMA UStepIsStep == [UNext]_uvars => [Next]_vars
<1> SUFFICES ASSUME [UNext]_uvars PROVE [Next]_vars
  OBVIOUS
<1>1. CASE UNCHANGED uvars
  BY <1>1 DEF uvars
<1>2. ASSUME NEW c \in Conn, Spawns(c) PROVE Next
  BY <1>2 DEF Spawns, Next, JoinStep, JoinQuiet
<1>3. ASSUME NEW c \in Conn, LookupFinds(c) \/ LookupMisses(c) PROVE UNCHANGED vars
  BY <1>3 DEF LookupFinds, LookupMisses
<1>4. ASSUME NEW c \in Conn, Answered(c) PROVE Next
  BY <1>4 DEF Answered, Next, ReadStep, ReadQuiet
<1>5. ASSUME NEW c \in Conn, Erases(c, "read") \/ Erases(c, "ping") PROVE Next
  BY <1>5 DEF Erases, Next, ReadStep, ReadQuiet, PingStep, PingQuiet, CleanQuiet
<1>6. ASSUME NEW c \in Conn, Elsewhere(c) PROVE Next
  BY <1>6 DEF Elsewhere, Next
<1> QED
  BY <1>1, <1>2, <1>3, <1>4, <1>5, <1>6 DEF UNext

(***************************************************************************)
(* The spawned lookups and /auth change nothing of what the relay does:    *)
(* every run of the composition is a run of RoomRelay.                     *)
(***************************************************************************)
THEOREM RelayUnchanged == USpec => Spec
<1>1. UInit => Init
  BY DEF UInit
<1> QED
  BY <1>1, UStepIsStep, PTL DEF USpec, Spec

-----------------------------------------------------------------------------
(* The map's own variables. *)

MapType ==
  /\ users \in SUBSET Conn
  /\ lookup \in [Conn -> {"off", "query", "end"}]
  /\ late \in SUBSET Conn

LEMMA MapTypeStep == MapType /\ [UNext]_uvars => MapType'
<1> SUFFICES ASSUME MapType, [UNext]_uvars PROVE MapType'
  OBVIOUS
<1> USE DEF MapType
<1>1. CASE UNCHANGED userVars
  BY <1>1 DEF userVars
<1>2. ASSUME NEW c \in Conn, Spawns(c) PROVE MapType'
  BY <1>2 DEF Spawns
<1>3. ASSUME NEW c \in Conn, LookupFinds(c) PROVE MapType'
  BY <1>3 DEF LookupFinds
<1>4. ASSUME NEW c \in Conn, LookupMisses(c) PROVE MapType'
  BY <1>4 DEF LookupMisses
<1>5. ASSUME NEW c \in Conn, Answered(c) PROVE MapType'
  BY <1>5 DEF Answered
<1>6. ASSUME NEW c \in Conn, NEW t, Erases(c, t) PROVE MapType'
  BY <1>6 DEF Erases
<1> QED
  BY <1>1, <1>2, <1>3, <1>4, <1>5, <1>6 DEF UNext, uvars, Elsewhere

LEMMA MapTypeInv == USpec => []MapType
<1>1. UInit => MapType
  BY DEF UInit, MapType
<1> QED
  BY <1>1, MapTypeStep, PTL DEF USpec

(***************************************************************************)
(* The variables of the composition keep their types: user_map is keyed by *)
(* sessions, and a connection's lookup is spawned, answers and is over.    *)
(***************************************************************************)
THEOREM UsersTypeCorrect == USpec => []UsersTypeOK
<1>1. TypeOK /\ MapType => UsersTypeOK
  BY DEF MapType, UsersTypeOK
<1> QED
  BY <1>1, RelayUnchanged, TypeCorrect, MapTypeInv, PTL

-----------------------------------------------------------------------------
(* Who enters the map once the read loop has cleaned up. *)

\* OnlyLateLookupsLinger from the read loop's cleanup on, not only at the end.
ErasedHoldsLate == \A c \in users : Erased(c) => c \in late

\* Where each step that is not the read loop's cleanup_session leaves its task.
LEMMA StepMoves ==
  ASSUME SlotInv, NEW c \in Conn,
         \/ Upgrade(c) \/ (JoinStep(c) /\ ~Register(c)) \/ Frame(c) \/ Fault(c) \/ PingStep(c)
         \/ ReadStep(c) /\ ~CleanMaps(c, "read")
  PROVE  \/ pc' = pc
         \/ \E t \in Task, l \in PC : Goto(c, t, l) /\ (t # "read" \/ l # "cl_slot")
<1> DEFINE Moves == \/ pc' = pc
                    \/ \E t \in Task, l \in PC : Goto(c, t, l) /\ (t # "read" \/ l # "cl_slot")
<1>1. ASSUME NEW t \in Task, EvictVictim(c, t) PROVE Moves
  <2>1. pc' = pc \/ Goto(c, t, AfterEvict(c, t))
    BY <1>1 DEF EvictVictim
  <2>2. AfterEvict(c, t) \in {"register", "notify", "loop", "reply"}
    BY <1>1 DEF EvictVictim, AfterEvict, EvictPC
  <2> HIDE DEF Goto
  <2> QED
    BY <2>1, <2>2
<1>2. CASE Upgrade(c) \/ (JoinStep(c) /\ ~Register(c))
  <2>1. EvictVictim(c, "join") \/ \E l \in PC : Goto(c, "join", l)
    BY <1>2 DEF JoinStep, JoinQuiet, Upgrade, RejectRole, ClaimMaster, ClaimClient, NotifyPeer,
                NotifyPeerFails, ClearPeer
  <2> HIDE DEF Goto
  <2> QED
    BY <2>1, <1>1
<1>3. ASSUME NEW t \in {"read", "ping"}, CleanStep(c, t), t = "ping" \/ ~CleanMaps(c, t)
      PROVE  Moves
  <2>1. CleanMaps(c, t) => Goto(c, t, "cl_slot") /\ t # "read"
    BY <1>3 DEF CleanMaps
  <2>2. ~CleanMaps(c, t) =>
          \E l \in {"cl_own", "cl_close", "end", "cl_peer", "cl_notice"} : Goto(c, t, l)
    BY <1>3 DEF CleanStep, CleanQuiet, CleanLoud, CleanSlot, CleanClose, CleanOwn, CleanPeer, CleanNotice
  <2> HIDE DEF Goto
  <2> QED
    BY <2>1, <2>2
<1>4. CASE (ReadStep(c) /\ ~CleanMaps(c, "read")) \/ Frame(c)
  <2>1. \/ EvictVictim(c, "read")
        \/ CleanStep(c, "read") /\ ~CleanMaps(c, "read")
        \/ \E l \in ReadPC \cup {"cl_maps"} : Goto(c, "read", l)
    <3>1. CASE ReadStep(c) /\ ~CleanMaps(c, "read")
      BY <3>1 DEF ReadStep, CleanStep, ReadQuiet, ReadEnds, Forward, ForwardFails, ClearTarget,
                  QueryDone, Reply
    <3>2. CASE Frame(c)
      BY <3>2 DEF Frame, RecvData, RecvNoAgent, RecvQuery, RecvRemove, RecvRemoveRoom, TakeOut
    <3> QED
      BY <1>4, <3>1, <3>2
  <2>2. "cl_slot" \notin ReadPC \cup {"cl_maps"} /\ ReadPC \cup {"cl_maps"} \subseteq PC
    OBVIOUS
  <2> HIDE DEF Goto
  <2> QED
    BY <2>1, <2>2, <1>1, <1>3
<1>5. CASE PingStep(c) \/ Fault(c)
  <2>1. pc' = pc \/ CleanStep(c, "ping") \/ \E l \in {"end", "cl_maps"} : Goto(c, "ping", l)
    BY <1>5 DEF PingStep, CleanStep, PingQuiet, PingStops, PingFails, PongTimeout,
                Fault, Drop, Mute, Stall, Unstall, SockTurns
  <2> HIDE DEF Goto
  <2> QED
    BY <2>1, <1>3
<1> QED
  BY <1>2, <1>4, <1>5

\* No other step brings a read loop past its cleanup_session's maps.
LEMMA OnlyEraseErases ==
  ASSUME SlotInv, NEW c \in Conn, Elsewhere(c) \/ Spawns(c) \/ Answered(c) \/ Erases(c, "ping")
  PROVE  \A d \in Conn : Erased(d)' => Erased(d)
<1>1. [Next]_vars /\ TypeOK
  <2>1. UNext
    BY DEF UNext
  <2> QED
    BY <2>1, UStepIsStep DEF SlotInv, Typing
<1>2. \A d \in Conn : pc'[d]["read"] = "cl_slot" => pc[d]["read"] = "cl_slot"
  <2>1. CASE Spawns(c)
    BY <2>1, <1>1 DEF Spawns, Register, TypeOK
  <2>2. CASE ~Spawns(c)
    <3>1. \/ Upgrade(c) \/ (JoinStep(c) /\ ~Register(c)) \/ Frame(c) \/ Fault(c) \/ PingStep(c)
          \/ ReadStep(c) /\ ~CleanMaps(c, "read")
      <4>1. CASE Answered(c)
        BY <4>1 DEF Answered, ReadStep, ReadQuiet, QueryDone, CleanMaps
      <4>2. CASE Erases(c, "ping")
        BY <4>2 DEF Erases, PingStep, PingQuiet, CleanQuiet
      <4> QED
        BY <2>2, <4>1, <4>2 DEF Elsewhere
    <3>2. \/ pc' = pc
          \/ \E t \in Task, l \in PC : Goto(c, t, l) /\ (t # "read" \/ l # "cl_slot")
      BY <3>1, StepMoves
    <3> HIDE DEF Goto
    <3> QED
      BY <1>1, <3>2, GotoMoves
  <2> QED
    BY <2>1, <2>2
<1>3. \A d \in Conn : pc'[d]["read"] \in Cleared \cup {"end"} =>
                        pc[d]["read"] \in Cleared \cup {"end"} \/ CleanSlot(d, "read")
  BY <1>1, StepLeaves DEF OnlyCleanSlotLeaves, Left
<1> QED
  BY <1>2, <1>3 DEF Erased, CleanSlot

LEMMA LateStep ==
  ASSUME SlotInv, MapType, ErasedHoldsLate, [UNext]_uvars
  PROVE  ErasedHoldsLate'
<1>1. CASE UNCHANGED uvars
  BY <1>1 DEF uvars, vars, userVars, ErasedHoldsLate, Erased
<1>2. ASSUME NEW c \in Conn, LookupFinds(c) PROVE ErasedHoldsLate'
  BY <1>2 DEF LookupFinds, ErasedHoldsLate, Erased, vars
<1>3. ASSUME NEW c \in Conn, LookupMisses(c) PROVE ErasedHoldsLate'
  BY <1>3 DEF LookupMisses, ErasedHoldsLate, Erased, vars
<1>4. ASSUME NEW c \in Conn, Erases(c, "read") PROVE ErasedHoldsLate'
  <2>1. /\ users' = users \ {c} /\ late' = late /\ Goto(c, "read", "cl_slot") /\ TypeOK
    BY <1>4 DEF Erases, CleanMaps, SlotInv, Typing
  <2>2. \A d \in Conn : d # c => pc'[d]["read"] = pc[d]["read"]
    <3> HIDE DEF Goto
    <3> QED
      BY <2>1, GotoMoves
  <2> QED
    BY <2>1, <2>2 DEF ErasedHoldsLate, Erased, MapType
<1>5. ASSUME NEW c \in Conn, Answered(c) PROVE ErasedHoldsLate'
  <2>1. pc[c]["read"] = "db" /\ users' \subseteq users \cup {c} /\ late' = late
    BY <1>5 DEF Answered, QueryDone
  <2>2. ~Erased(c) /\ \A d \in Conn : Erased(d)' => Erased(d)
    BY <1>5, <2>1, OnlyEraseErases DEF Erased, Cleared
  <2> QED
    BY <2>1, <2>2 DEF ErasedHoldsLate, MapType
<1>6. ASSUME NEW c \in Conn, Elsewhere(c) \/ Spawns(c) \/ Erases(c, "ping")
      PROVE  ErasedHoldsLate'
  <2>1. users' \subseteq users /\ late' = late
    BY <1>6 DEF Elsewhere, userVars, Spawns, Erases
  <2>2. \A d \in Conn : Erased(d)' => Erased(d)
    BY <1>6, OnlyEraseErases
  <2> QED
    BY <2>1, <2>2 DEF ErasedHoldsLate, MapType
<1> QED
  BY <1>1, <1>2, <1>3, <1>4, <1>5, <1>6 DEF UNext

(***************************************************************************)
(* A session that is gone keeps an entry in user_map only when its lookup  *)
(* answered after the read loop's cleanup: an /auth that the ping task's   *)
(* cleanup overtakes is undone by the read loop's own.                     *)
(***************************************************************************)
THEOREM LateLookups == USpec => []OnlyLateLookupsLinger
<1>1. UInit => ErasedHoldsLate
  BY DEF UInit, ErasedHoldsLate
<1>2. ErasedHoldsLate => OnlyLateLookupsLinger
  BY DEF ErasedHoldsLate, OnlyLateLookupsLinger, Gone, Erased
<1>3. USpec => []SlotInv
  BY RelayUnchanged, SlotInvariant, PTL
<1> QED
  BY <1>1, <1>2, <1>3, MapTypeInv, LateStep, PTL DEF USpec

-----------------------------------------------------------------------------
(* RoomPresence: the relay underneath.  A crash breaks every socket of a     *)
(* machine at once, which RoomRelay does socket by socket; no invariant of   *)
(* the relay depends on when a socket breaks.                                *)

SocksTurn ==
  /\ sock' \in [Conn -> {"none", "up", "mute", "stalled", "down"}]
  /\ UNCHANGED <<roomVars, session, evicted, pc, peer, victims>>

\* What the composition's steps are to the relay.
LEMMA PStepIsStep == TypeOK /\ [PNext]_pvars => [Next]_vars \/ SocksTurn
<1> SUFFICES ASSUME TypeOK, [PNext]_pvars PROVE [Next]_vars \/ SocksTurn
  OBVIOUS
<1>1. CASE UNCHANGED pvars
  BY <1>1 DEF pvars
<1>2. ASSUME NEW c \in Conn, Opens(c) \/ PJoin(c) \/ PRead(c) \/ PPing(c) \/ Quiet(Frame(c) \/ Fault(c))
      PROVE  Next
  <2>1. Upgrade(c) \/ JoinStep(c) \/ ReadStep(c) \/ Frame(c) \/ PingStep(c) \/ Fault(c)
    BY <1>2 DEF Opens, PJoin, PRead, PPing, Departs, Quiet, ReadStep, PingStep, CleanLoud
  <2> QED
    BY <2>1 DEF Next
<1>3. ASSUME NEW c \in Conn, PRow(c) \/ Stamp(c) PROVE UNCHANGED vars
  BY <1>3 DEF PRow, GraceCheck, GraceWrite, Reassert, Stamp
<1>4. ASSUME NEW r \in Room, Heartbeat(r) \/ Ages(r) \/ Sweep(r) PROVE UNCHANGED vars
  BY <1>4 DEF Heartbeat, Ages, Sweep
<1>5. ASSUME NEW r \in Room, Crash(r) PROVE SocksTurn
  BY <1>5 DEF Crash, SocksTurn, TypeOK
<1> QED
  BY <1>1, <1>2, <1>3, <1>4, <1>5 DEF PNext

RelayInv == SlotInv /\ NoZombieInSlot /\ OustedIsClosed /\ OnlyHolders

LEMMA RelayInvStep == RelayInv /\ [PNext]_pvars => RelayInv'
<1> SUFFICES ASSUME RelayInv, [PNext]_pvars PROVE RelayInv'
  OBVIOUS
<1>1. [Next]_vars \/ SocksTurn
  BY PStepIsStep DEF RelayInv, SlotInv, Typing
<1>2. CASE [Next]_vars
  <2>1. SlotInv'
    BY <1>2, SlotInvStep DEF RelayInv
  <2> QED
    BY <1>2, <2>1, NoZombieStep, StepKeeps, OustedKept, HoldersStep DEF RelayInv, SlotInv, Typing
<1>3. CASE SocksTurn
  <2>1. SlotInv'
    <3>1. Typing'
      BY <1>3 DEF SocksTurn, RelayInv, SlotInv, Typing, TypeOK, PeerKnown
    <3>2. SlotsMatch' /\ JoinFirst' /\ VictimsMatch'
      BY <1>3 DEF SocksTurn, RelayInv, SlotInv, SlotsMatch, JoinFirst, VictimsMatch
    <3> QED
      BY <3>1, <3>2 DEF SlotInv
  <2>2. NoZombieInSlot'
    BY <1>3 DEF SocksTurn, RelayInv, NoZombieInSlot, InSlot, InMaster, InClient
  <2>3. OustedIsClosed'
    BY <1>3 DEF SocksTurn, RelayInv, OustedIsClosed, BeingEvicted, InSlot, InMaster, InClient
  <2>4. OnlyHolders'
    BY <1>3 DEF SocksTurn, RelayInv, OnlyHolders
  <2> QED
    BY <2>1, <2>2, <2>3, <2>4 DEF RelayInv
<1> QED
  BY <1>1, <1>2, <1>3

LEMMA RelayInvariant == PSpec => []RelayInv
<1>1. PInit => RelayInv
  BY SlotInvInit, InitMeans DEF PInit, RelayInv
<1> QED
  BY <1>1, RelayInvStep, PTL DEF PSpec

(***************************************************************************)
(* What RoomRelay proves of the relay's slots survives machines that crash *)
(* with all their sockets at any moment.                                   *)
(***************************************************************************)
THEOREM SlotsSurviveCrashes == PSpec => [](NoZombieInSlot /\ OustedIsClosed)
<1>1. RelayInv => NoZombieInSlot /\ OustedIsClosed
  BY DEF RelayInv
<1> QED
  BY <1>1, RelayInvariant, PTL

(***************************************************************************)
(* A machine that crashes changes nothing of what SlotService promises:    *)
(* its sockets only break, and their slots are left like any other's.      *)
(***************************************************************************)
THEOREM SlotsServedToCrashing == PSpec => ServesSlots
<1>1. PInit => Slots!Init
  BY InitMeans DEF PInit
<1>2. RelayInv /\ [PNext]_pvars => [Slots!Next]_(Slots!slots)
  <2>1. SocksTurn => UNCHANGED Slots!slots
    <3>1. SocksTurn => Tried' = Tried
      BY DEF SocksTurn, Tried
    <3> QED
      BY <3>1, QuietMeans DEF SocksTurn
  <2> QED
    BY <2>1, PStepIsStep, StepMeans DEF RelayInv, SlotInv, Typing
<1> QED
  BY <1>1, <1>2, RelayInvariant, PTL DEF PSpec, ServesSlots, Slots!Spec

-----------------------------------------------------------------------------
(* RoomPresence: its own variables. *)

RowType ==
  /\ grace \in [Conn -> {"none", "sleep", "write", "done"}]
  /\ reassert \in [Conn -> {"none", "pending", "done"}]
  /\ connected \in [Room -> BOOLEAN]
  /\ fresh \in [Room -> BOOLEAN]
  /\ alive \in [Room -> BOOLEAN]

LEMMA RowTypeStep == RowType /\ [PNext]_pvars => RowType'
<1> SUFFICES ASSUME RowType, [PNext]_pvars PROVE RowType'
  OBVIOUS
<1> USE RoomAssumption DEF RowType
<1>1. CASE UNCHANGED presenceVars
  BY <1>1 DEF presenceVars
<1>2. ASSUME NEW c \in Conn, Opens(c) PROVE RowType'
  BY <1>2 DEF Opens
<1>3. ASSUME NEW c \in Conn, NEW t, Departs(c, t) PROVE RowType'
  BY <1>3 DEF Departs
<1>4. ASSUME NEW c \in Conn, GraceCheck(c) PROVE RowType'
  BY <1>4 DEF GraceCheck
<1>5. ASSUME NEW c \in Conn, GraceWrite(c) PROVE RowType'
  BY <1>5 DEF GraceWrite, Writes
<1>6. ASSUME NEW c \in Conn, Reassert(c) PROVE RowType'
  BY <1>6 DEF Reassert
<1>7. ASSUME NEW c \in Conn, Stamp(c) PROVE RowType'
  BY <1>7 DEF Stamp
<1>8. ASSUME NEW r \in Room, Heartbeat(r) PROVE RowType'
  BY <1>8 DEF Heartbeat
<1>9. ASSUME NEW r \in Room, Ages(r) PROVE RowType'
  BY <1>9 DEF Ages
<1>10. ASSUME NEW r \in Room, Sweep(r) PROVE RowType'
  BY <1>10 DEF Sweep, Writes
<1>11. ASSUME NEW r \in Room, Crash(r) PROVE RowType'
  BY <1>11 DEF Crash
<1> QED
  BY <1>1, <1>2, <1>3, <1>4, <1>5, <1>6, <1>7, <1>8, <1>9, <1>10, <1>11
  DEF PNext, pvars, PJoin, PRead, PPing, PRow, Quiet

(***************************************************************************)
(* The row, its deferred writes and the machine keep their types: a grace  *)
(* task sleeps, writes and is done, whatever write fails.                  *)
(***************************************************************************)
THEOREM PresenceTypeCorrect == PSpec => []PresenceTypeOK
<1>1. PInit => RowType
  BY DEF PInit, RowType
<1>2. RelayInv /\ RowType => PresenceTypeOK
  BY DEF RelayInv, SlotInv, Typing, RowType, PresenceTypeOK
<1> QED
  BY <1>1, <1>2, RowTypeStep, RelayInvariant, PTL DEF PSpec

-----------------------------------------------------------------------------
(* RoomPresence: a departure is acted on once. *)

\* Who has scheduled its offline write made its try, is out of the slot for
\* good, and is not about to depart again.
GraceAfterSlot ==
  \A c \in Conn : grace[c] # "none" =>
    /\ c \in Tried /\ ~InSlot(c)
    /\ \A t \in {"read", "ping"} : pc[c][t] # "cl_own"

\* What a relay step leaves of that.
LEMMA StaysOut ==
  ASSUME RelayInv, [PNext]_pvars, NEW c \in Conn, c \in Tried, ~InSlot(c)
  PROVE  /\ c \in Tried' /\ ~InSlot(c)'
         /\ \A t \in {"read", "ping"} : pc'[c][t] = "cl_own" => pc[c][t] = "cl_own"
<1>1. [Next]_vars \/ SocksTurn
  BY PStepIsStep DEF RelayInv, SlotInv, Typing
<1>2. CASE [Next]_vars
  <2>1. [Slots!Next]_(Slots!slots) /\ OnlyClaimsWin /\ OnlyCleanSlotLeaves
    BY <1>2, StepMeans, StepWins, StepLeaves DEF RelayInv
  <2>2. c \in Tried'
    BY <2>1 DEF Slots!Next, Slots!slots, Slots!SeatMaster, Slots!TurnAway, Slots!SeatClient,
      Slots!Refuse, Slots!Tries, Slots!Close, Slots!Leave, Tried
  <2>3. ~InSlot(c)'
    BY <2>1 DEF OnlyClaimsWin, Tried
  <2>4. ASSUME NEW t \in {"read", "ping"}, pc'[c][t] = "cl_own" PROVE pc[c][t] = "cl_own"
    <3>1. ~CleanSlot(c, t)
      BY <2>4 DEF CleanSlot, RelayInv, SlotInv, Typing, TypeOK
    <3> QED
      BY <2>1, <2>4, <3>1 DEF OnlyCleanSlotLeaves
  <2> QED
    BY <2>2, <2>3, <2>4
<1>3. CASE SocksTurn
  <2>1. c \in Tried'
    BY <1>3 DEF SocksTurn, Tried
  <2>2. ~InSlot(c)'
    BY <1>3 DEF SocksTurn, InSlot, InMaster, InClient
  <2> QED
    BY <1>3, <2>1, <2>2 DEF SocksTurn
<1> QED
  BY <1>1, <1>2, <1>3

\* The owner's cleanup: the only one at cl_own, out of its slot, and once only.
LEMMA DepartsOnce ==
  ASSUME RelayInv, RowType, GraceAfterSlot, NEW c \in Conn, NEW t \in {"read", "ping"}, Departs(c, t)
  PROVE  /\ grace[c] = "none" /\ c \in Tried /\ ~InSlot(c)
         /\ \A d \in Conn : d # c => grace'[d] = grace[d]
         /\ \A u \in {"read", "ping"} : pc'[c][u] # "cl_own"
<1>1. pc[c][t] = "cl_own" /\ pc' = [pc EXCEPT ![c][t] = "cl_peer"]
  BY DEF Departs, CleanOwn
<1>2. grace[c] = "none"
  BY <1>1 DEF GraceAfterSlot
<1>3. c \in Tried
  BY <1>1 DEF RelayInv, SlotInv, JoinFirst, Tried
<1>4. ~InSlot(c)
  BY <1>1 DEF RelayInv, NoZombieInSlot, Cleared
<1>5. \A u \in {"read", "ping"} : pc'[c][u] # "cl_own"
  BY <1>1 DEF RelayInv, NoZombieInSlot, SlotInv, Typing, TypeOK
<1>6. \A d \in Conn : d # c => grace'[d] = grace[d]
  BY DEF Departs, RowType
<1> QED
  BY <1>2, <1>3, <1>4, <1>5, <1>6

\* No other step begins a grace window.
LEMMA OnlyDepartsBegins ==
  ASSUME RowType, [PNext]_pvars, ~\E c \in Conn, t \in {"read", "ping"} : Departs(c, t)
  PROVE  \A d \in Conn : /\ grace[d] = "none" => grace'[d] = "none"
                         /\ grace[d] = "done" => grace'[d] = "done"
<1>1. \/ grace' = grace
      \/ \E c \in Conn : GraceCheck(c) \/ GraceWrite(c)
  BY DEF PNext, pvars, presenceVars, Opens, PJoin, PRead, PPing, PRow, Quiet, Stamp, Reassert,
         Heartbeat, Ages, Sweep, Crash
<1> QED
  BY <1>1 DEF GraceCheck, GraceWrite, RowType

LEMMA GraceStep ==
  ASSUME RelayInv, RowType, GraceAfterSlot, [PNext]_pvars
  PROVE  /\ GraceAfterSlot'
         /\ \A c \in Conn : grace[c] \in {"none", "done"} /\ grace'[c] \in {"sleep", "write"}
                              => grace[c] = "none" /\ ~InSlot(c)
<1>1. CASE \E c \in Conn, t \in {"read", "ping"} : Departs(c, t)
  <2>1. PICK c \in Conn, t \in {"read", "ping"} : Departs(c, t)
    BY <1>1
  <2>2. /\ grace[c] = "none" /\ c \in Tried /\ ~InSlot(c)
        /\ \A d \in Conn : d # c => grace'[d] = grace[d]
        /\ \A u \in {"read", "ping"} : pc'[c][u] # "cl_own"
    BY <2>1, DepartsOnce
  <2>3. GraceAfterSlot'
    BY <2>2, StaysOut DEF GraceAfterSlot
  <2> QED
    BY <2>2, <2>3
<1>2. CASE ~\E c \in Conn, t \in {"read", "ping"} : Departs(c, t)
  <2>1. \A d \in Conn : /\ grace[d] = "none" => grace'[d] = "none"
                        /\ grace[d] = "done" => grace'[d] = "done"
    BY <1>2, OnlyDepartsBegins
  <2>2. GraceAfterSlot'
    BY <2>1, StaysOut DEF GraceAfterSlot
  <2> QED
    BY <2>1, <2>2
<1> QED
  BY <1>1, <1>2

(***************************************************************************)
(* A client's deferred offline write is scheduled once, by a client that   *)
(* is out of its slot, however its two cleanups, newer joins and crashes   *)
(* interleave.                                                             *)
(***************************************************************************)
THEOREM DepartureOnce == PSpec => OneDeparture
<1>1. PInit => RowType /\ GraceAfterSlot
  BY DEF PInit, RowType, GraceAfterSlot
<1> QED
  BY <1>1, RelayInvariant, RowTypeStep, GraceStep, PTL DEF PSpec, OneDeparture
=============================================================================
