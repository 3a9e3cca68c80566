---------------------------- MODULE MCTunnelRelay ----------------------------
(***************************************************************************)
(* Instances of TunnelRelay, two scenes in one run.  "race": an admin, a   *)
(* duplicate admin and an agent of the session s1, whose sockets break and *)
(* stall; the first admin and the agent send one frame.  "pair": a tunnel  *)
(* of s1 whose admin sends two frames and whose sockets break, and a       *)
(* session s2 that competes for the one pending and the one active place.  *)
(***************************************************************************)
EXTENDS TunnelRelay

CONSTANTS m1, m2, a1, m3, a3, s1, s2

MCRole    == [c \in Conn |-> IF c \in {m1, m2, m3} THEN "master" ELSE "client"]
MCSession == [c \in Conn |-> IF c \in {m3, a3} THEN s2 ELSE s1]
MCFrames  == [c \in Conn |-> IF c = m1 THEN 2 ELSE IF c = a1 THEN 1 ELSE 0]

VARIABLE scene

Race ==
  \E c \in {m1, m2, a1} :
    Dial(c) \/ TaskStep(c) \/ Fault(c) \/ (sent[c] = 0 /\ RemoteSends(c))

PairUp ==
  \E c \in {m1, a1, m3, a3} :
    Dial(c) \/ TaskStep(c) \/ (c \in {m1, a1} /\ Drop(c)) \/ (c = m1 /\ RemoteSends(c))

SceneInit == Init /\ scene \in {"race", "pair"}
SceneNext ==
  /\ scene' = scene
  /\ \/ scene = "race" /\ Race
     \/ scene = "pair" /\ PairUp

SceneSpec == SceneInit /\ [][SceneNext]_<<vars, scene>> /\ Fairness
=============================================================================
