---------------------------- MODULE MCRelayScenes ----------------------------
(***************************************************************************)
(* Three scenes in one run: an agent that redials in a room with a master, *)
(* one agent that every command and every kind of socket meets, and a      *)
(* connection with an unknown role among agents that join.                 *)
(***************************************************************************)
EXTENDS MCRoomRelay

VARIABLE scene

Redial ==
  \E c \in Agents \cup Masters :
    \/ Upgrade(c) \/ JoinStep(c) \/ ReadStep(c) \/ PingStep(c)
    \/ RecvData(c) \/ RecvNoAgent(c) \/ Drop(c)

Commanded ==
  /\ Next
  /\ Cardinality({c \in Agents : sock'[c] # "none"}) <= 1
  /\ \A c \in Others : sock'[c] = "none"

Refused == \E c \in Agents \cup Others : Upgrade(c) \/ JoinStep(c) \/ Fault(c)

SceneInit == Init /\ scene \in {"redial", "commands", "refusal"}
SceneNext ==
  /\ scene' = scene
  /\ \/ scene = "redial" /\ Redial
     \/ scene = "commands" /\ Commanded
     \/ scene = "refusal" /\ Refused
SceneSpec == SceneInit /\ [][SceneNext]_<<vars, scene>>
=============================================================================
