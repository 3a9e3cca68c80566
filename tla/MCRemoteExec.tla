---------------------------- MODULE MCRemoteExec ----------------------------
(***************************************************************************)
(* Two scenes of RemoteExec in one run.  "tail": the job j1 writes output  *)
(* that the admin tails, and the gate stays open.  "gate": the gate opens  *)
(* and shuts over j2, which forks a helper and may not get into its job    *)
(* object, while j1 wants its place; j1 is driven to its end here without  *)
(* being cancelled by hand, and the only chunk it writes tells that its    *)
(* time is up.                                                             *)
(***************************************************************************)
EXTENDS RemoteExec

CONSTANTS j1, j2

MCMishaps == [j \in Job |-> IF j = j1 THEN {"spawn"} ELSE {"nest", "fork"}]
MCChunks  == [j \in Job |-> IF j = j1 THEN 4 ELSE 0]

VARIABLE scene

JobStep(j) == Admit(j) \/ Register(j) \/ Signal(j) \/ DriverStep(j) \/ Process(j)

\* The steps of a driver that write nothing, and the one that times its job out.
Quietly(j) == DriverStep(j) /\ (UNCHANGED ringVars \/ driver'[j] = "select")

Tail == Arm \/ Lease \/ Restart \/ JobStep(j1) \/ BeginWait \/ DeadlinePasses \/ Poll
Gate == Arm \/ Lease \/ Disarm \/ EndSession \/ ShutGate \/ Restart \/ JobStep(j2)
          \/ Admit(j1) \/ Register(j1) \/ Quietly(j1)

SceneInit == Init /\ scene \in {"tail", "gate"}
SceneNext ==
  /\ scene' = scene
  /\ \/ scene = "tail" /\ Tail
     \/ scene = "gate" /\ Gate

SceneSpec == SceneInit /\ [][SceneNext]_<<vars, scene>> /\ DriverFairness
=============================================================================
