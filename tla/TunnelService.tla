---------------------------- MODULE TunnelService ----------------------------
(***************************************************************************)
(* What the tunnel route promises to an admin and an agent, without its    *)
(* reclaim channels, buffers and pumps: a socket joins once, by parking or *)
(* by pairing with the socket of the other role that is parked under its   *)
(* session, and is turned away only when it may do neither; and a tunnel   *)
(* is a pipe, which passes on what the other end sent, in order.           *)
(***************************************************************************)
EXTENDS Naturals, FiniteSets, Sequences

CONSTANTS
  Conn,        \* tunnel sockets
  Session,     \* session ids
  RoleOf,      \* [Conn -> {"master", "client"}]
  SessionOf,   \* [Conn -> Session]
  MaxActive,   \* how many sessions may be paired
  MaxPending   \* how many sessions may be parked

VARIABLES
  slot,    \* [Session -> {"none", "pending", "active"}]
  ends,    \* the sockets that hold a session's slot
  joined,  \* the sockets whose join was decided
  sent,    \* how many frames (1, 2, ...) each remote end sent
  got      \* the frames each remote end received

tunnelVars == <<slot, ends, joined, sent, got>>

Init ==
  /\ slot = [s \in Session |-> "none"]
  /\ ends = [s \in Session |-> {}]
  /\ joined = {}
  /\ sent = [c \in Conn |-> 0]
  /\ got = [c \in Conn |-> <<>>]

In(k) == {s \in Session : slot[s] = k}

MayPark(c) ==
  /\ slot[SessionOf[c]] = "none"
  /\ Cardinality(In("pending")) < MaxPending

MayPair(c) ==
  /\ slot[SessionOf[c]] = "pending"
  /\ \A p \in ends[SessionOf[c]] : RoleOf[p] # RoleOf[c]
  /\ Cardinality(In("active")) < MaxActive

Holds(s, k, E) == slot' = [slot EXCEPT ![s] = k] /\ ends' = [ends EXCEPT ![s] = E]

Joins(c) == c \notin joined /\ joined' = joined \cup {c} /\ UNCHANGED <<sent, got>>

Park(c) == MayPark(c) /\ Joins(c) /\ Holds(SessionOf[c], "pending", {c})

Pair(c) ==
  MayPair(c) /\ Joins(c) /\ Holds(SessionOf[c], "active", ends[SessionOf[c]] \cup {c})

TurnAway(c) == ~MayPark(c) /\ ~MayPair(c) /\ Joins(c) /\ UNCHANGED <<slot, ends>>

Free(s) == slot[s] # "none" /\ Holds(s, "none", {}) /\ UNCHANGED <<joined, sent, got>>

Send(c) == sent' = [sent EXCEPT ![c] = @ + 1] /\ UNCHANGED <<slot, ends, joined, got>>

\* The frame after those c has, once d has sent it.
Deliver(s, c, d) ==
  /\ slot[s] = "active" /\ {c, d} \subseteq ends[s] /\ c # d
  /\ Len(got[c]) < sent[d]
  /\ got' = [got EXCEPT ![c] = Append(@, Len(@) + 1)]
  /\ UNCHANGED <<slot, ends, joined, sent>>

Next ==
  \/ \E c \in Conn : Park(c) \/ Pair(c) \/ TurnAway(c) \/ Send(c)
  \/ \E s \in Session : Free(s) \/ \E c, d \in ends[s] : Deliver(s, c, d)

Spec == Init /\ [][Next]_tunnelVars
=============================================================================
