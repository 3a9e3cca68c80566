-------------------------- MODULE RemoteExec_proofs --------------------------
(***************************************************************************)
(* RemoteExec, proved for any jobs, caps and ring sizes: the cap on jobs,  *)
(* what an ended job leaves behind, what an end of session keeps of its    *)
(* promise, and what a wait that returned says of the output.              *)
(***************************************************************************)
EXTENDS RemoteExec, FiniteSetTheorems, TLAPS

\* TypeOK in parts.  The cap is a count, so the jobs it counts are finitely many.
GateType ==
  /\ gate \in {"shut", "armed", "shown", "lapsed"}
  /\ ending \in BOOLEAN /\ ended \in BOOLEAN /\ missed \in SUBSET Job

StateType ==
  /\ state \in [Job -> {"new", "admitted", "denied", "queued", "running", "gone"} \cup Terminal]
  /\ driver \in [Job -> {"off", "stage", "assign", "check", "clock", "select", "drain"}]
  /\ \A j \in Job : driver[j] # "off" <=> state[j] \in {"queued", "running"}
  /\ outcome \in [Job -> {"none", "exited", "cancelled", "timedout"}]

CapType == IsFiniteSet(Active) /\ Cardinality(Active) <= MaxRunning

ProcType ==
  /\ cancel \in [Job -> BOOLEAN]
  /\ child \in [Job -> {"none", "alive", "dead"}]
  /\ helper \in [Job -> {"none", "holds", "quiet", "dead"}]
  /\ tree \in [Job -> SUBSET {"child", "helper"}]

RingType ==
  /\ next \in [Job -> Nat] /\ oldest \in [Job -> Nat]
  /\ \A j \in Job : oldest[j] <= next[j]

WaitType ==
  /\ wait \in {"off", "polls", "terminal", "running", "error"}
  /\ late \in BOOLEAN /\ cursor \in 0..next[Tailed] /\ got \subseteq Output(Tailed)
  /\ told \subseteq {"lost", "more"}

TypeInv == GateType /\ StateType /\ CapType /\ ProcType /\ RingType /\ WaitType

\* A job without a driver yet has no process, one that drains has lost its interpreter,
\* and one that is killed keeps nothing of what its job object holds.
Fits(st, dr, oc, ch, he, tr) ==
  /\ st \in {"new", "admitted", "denied"} \/ dr = "stage" =>
       ch = "none" /\ he = "none" /\ tr = {} /\ oc = "none"
  /\ dr = "drain" => ch = "dead" /\ oc # "none"
  /\ oc \in {"cancelled", "timedout"} => ch = "dead" /\ ("helper" \in tr => he = "dead")
  /\ st \in {"cancelled", "timedout"} => oc = st
  /\ st \in Terminal => ch # "alive" /\ he # "holds"

ProcInv ==
  \A j \in Job : Fits(state[j], driver[j], outcome[j], child[j], helper[j], tree[j])

\* From cancel_all on, until the gate is armed again.
RevokeInv ==
  /\ ended => gate = "shut"
  /\ ended \/ ending =>
       /\ \A j \in Active : cancel[j] \/ j \in missed
       /\ \A j \in Job : state[j] = "admitted" => j \in missed

\* The chunks before n.
Before(n) == {c \in Nat : c < n}

\* As long as nothing was evicted the wait has everything before its cursor.
TailInv ==
  /\ wait # "off" => state[Tailed] \notin {"new", "admitted", "denied"}
  /\ wait \in {"off", "polls"} /\ oldest[Tailed] = 0 => got = Before(cursor)
  /\ wait = "terminal" => state[Tailed] \in Terminal \cup {"gone"}
  /\ TailIsWhole

IInv == TypeInv /\ ProcInv /\ RevokeInv /\ TailInv

-----------------------------------------------------------------------------
(* The initial states. *)

LEMMA TypeParts == TypeInv <=> TypeOK /\ IsFiniteSet(Active)
<1>1. (\A j \in Job : driver[j] # "off" <=> j \in Active)
        <=> (\A j \in Job : driver[j] # "off" <=> state[j] \in {"queued", "running"})
  BY DEF Active
<1> QED
  BY <1>1 DEF TypeInv, TypeOK, GateType, StateType, CapType, ProcType, RingType, WaitType

LEMMA InitInv == Init => IInv
<1> SUFFICES ASSUME Init PROVE IInv
  OBVIOUS
<1>1. Active = {}
  BY DEF Init, Active
<1>2. CapType
  <2>1. IsFiniteSet(Active) /\ Cardinality(Active) = 0
    BY <1>1, FS_EmptySet
  <2>2. MaxRunning \in Nat
    BY JobAssumption
  <2> QED
    BY <2>1, <2>2 DEF CapType
<1>3. GateType
  BY DEF Init, GateType
<1>10. RingType
  BY DEF Init, RingType
<1>9. ProcType
  BY DEF Init, ProcType
<1>8. StateType
  BY DEF Init, StateType
<1>4. WaitType
  <2>1. next[Tailed] = 0 /\ cursor \in 0..next[Tailed] /\ got \subseteq Output(Tailed)
    BY JobAssumption DEF Init
  <2> QED
    BY <2>1 DEF Init, WaitType
<1>5. ProcInv
  BY DEF Init, ProcInv, Fits, Terminal
<1>6. RevokeInv
  BY <1>1 DEF Init, RevokeInv
<1>7. TailInv
  BY JobAssumption DEF Init, TailInv, TailIsWhole, Before
<1> QED
  BY <1>2, <1>3, <1>4, <1>5, <1>6, <1>7, <1>8, <1>9, <1>10 DEF IInv, TypeInv

-----------------------------------------------------------------------------
(* What one step of each kind does to the jobs. *)

\* The job objects of some jobs are terminated.
LEMMA DiesSpares ==
  ASSUME ProcType, NEW S, Dies(S), NEW j \in Job
  PROVE  /\ child'[j] = IF j \in S /\ "child" \in tree[j] THEN "dead" ELSE child[j]
         /\ helper'[j] = IF j \in S /\ "helper" \in tree[j] THEN "dead" ELSE helper[j]
         /\ tree'[j] = tree[j]
BY DEF Dies

LEMMA DiesType ==
  ASSUME ProcType, NEW S, Dies(S)
  PROVE  /\ child' \in [Job -> {"none", "alive", "dead"}]
         /\ helper' \in [Job -> {"none", "holds", "quiet", "dead"}]
         /\ tree' \in [Job -> SUBSET {"child", "helper"}]
BY DEF ProcType, Dies

\* A sweep takes ended jobs only.
LEMMA SweptJobs ==
  ASSUME StateType, NEW S, Sweeps(S)
  PROVE  /\ Swept(S) \in [Job -> {"new", "admitted", "denied", "queued", "running", "gone"} \cup Terminal]
         /\ \A j \in Job : \/ Swept(S)[j] = state[j] /\ j \notin S
                           \/ Swept(S)[j] = "gone" /\ state[j] \in Terminal /\ j \in S
BY DEF StateType, Sweeps, Swept, Terminal

\* What a driver that ends makes of its job.
LEMMA DrainEnds ==
  ASSUME StateType, ProcInv, NEW j \in Job, Drain(j)
  PROVE  \E st \in Terminal :
           /\ Finish(j, st)
           /\ st \in {"cancelled", "timedout"} => outcome[j] = st
<1>1. PICK st \in Verdicts(j) : Finish(j, st)
  BY DEF Drain
<1>2. outcome[j] \in {"exited", "cancelled", "timedout"}
  BY DEF Drain, ProcInv, Fits, StateType
<1>3. st \in Terminal /\ (st \in {"cancelled", "timedout"} => outcome[j] = st)
  BY <1>2 DEF Verdicts, Terminal
<1> QED
  BY <1>1, <1>3

\* Jobs that only leave keep the cap.
LEMMA FewerActive ==
  ASSUME CapType, Active' \subseteq Active
  PROVE  CapType'
<1>1. IsFiniteSet(Active') /\ Cardinality(Active') <= Cardinality(Active)
  BY FS_Subset DEF CapType
<1>2. Cardinality(Active) \in Nat /\ Cardinality(Active') \in Nat
  BY <1>1, FS_CardinalityType DEF CapType
<1>3. MaxRunning \in Nat
  BY JobAssumption
<1> QED
  BY <1>1, <1>2, <1>3 DEF CapType

-----------------------------------------------------------------------------
(* The states of the jobs, and the cap. *)

LEMMA DriverState ==
  ASSUME StateType, CapType, ProcInv, NEW j \in Job, DriverStep(j)
  PROVE  StateType' /\ CapType'
<1>1. StateType' /\ Active' \subseteq Active
  <2>1. CASE SpawnFails(j)
    BY <2>1 DEF StateType, SpawnFails, Finish, Active, Terminal
  <2>2. CASE Spawn(j)
    BY <2>2 DEF StateType, Spawn, Active, Terminal
  <2>3. CASE Assign(j) \/ InTime(j) \/ Reads(j) \/ Sleeps(j)
    BY <2>3 DEF StateType, Assign, InTime, Reads, Sleeps, Active
  <2>4. CASE CheckFlag(j)
    BY <2>4 DEF StateType, CheckFlag, Stops, Active
  <2>5. CASE TimesOut(j)
    BY <2>5 DEF StateType, TimesOut, Stops, Active
  <2>6. CASE Exits(j)
    BY <2>6 DEF StateType, Exits, Active
  <2>7. CASE Drain(j)
    <3>1. PICK st \in Terminal : Finish(j, st)
      BY <2>7, DrainEnds
    <3> QED
      BY <2>7, <3>1 DEF StateType, Drain, Finish, Active, Terminal
  <2> QED
    BY <2>1, <2>2, <2>3, <2>4, <2>5, <2>6, <2>7 DEF DriverStep
<1> QED
  BY <1>1, FewerActive

LEMMA RegisterState ==
  ASSUME StateType, CapType, NEW j \in Job, Register(j)
  PROVE  StateType' /\ CapType'
<1>1. PICK S \in SUBSET Job :
        /\ Sweeps(S)
        /\ \/ /\ HasRoom
              /\ state' = [Swept(S) EXCEPT ![j] = "queued"]
              /\ driver' = [driver EXCEPT ![j] = "stage"]
           \/ /\ ~HasRoom
              /\ state' = [Swept(S) EXCEPT ![j] = "denied"]
              /\ driver' = driver
  BY DEF Register
<1>2. state[j] = "admitted" /\ outcome' = outcome
  BY DEF Register
<1>3. CASE HasRoom
  <2>1. StateType' /\ Active' \subseteq Active \cup {j}
    BY <1>1, <1>2, <1>3, SweptJobs DEF StateType, Active, Terminal
  <2>2. IsFiniteSet(Active \cup {j}) /\ Cardinality(Active \cup {j}) <= Cardinality(Active) + 1
    BY FS_AddElement, FS_CardinalityType DEF CapType
  <2>3. /\ IsFiniteSet(Active') /\ Cardinality(Active') <= Cardinality(Active \cup {j})
    BY <2>1, <2>2, FS_Subset
  <2>4. Cardinality(Active) \in Nat /\ Cardinality(Active') \in Nat /\ Cardinality(Active \cup {j}) \in Nat
    BY <2>2, <2>3, FS_CardinalityType DEF CapType
  <2>5. MaxRunning \in Nat
    BY JobAssumption
  <2> QED
    BY <1>3, <2>1, <2>2, <2>3, <2>4, <2>5 DEF CapType, HasRoom
<1>4. CASE ~HasRoom
  <2>1. StateType' /\ Active' \subseteq Active
    BY <1>1, <1>2, <1>4, SweptJobs DEF StateType, Active, Terminal
  <2> QED
    BY <2>1, FewerActive
<1> QED
  BY <1>3, <1>4

LEMMA StateStep ==
  ASSUME StateType, CapType, ProcInv, [Next]_vars
  PROVE  StateType' /\ CapType'
<1>1. CASE UNCHANGED <<state, driver, outcome>>
  <2>1. StateType' /\ Active' = Active
    BY <1>1 DEF StateType, Active
  <2> QED
    BY <2>1, FewerActive
<1>2. ASSUME NEW j \in Job, DriverStep(j) PROVE StateType' /\ CapType'
  BY <1>2, DriverState
<1>3. ASSUME NEW j \in Job, Register(j) PROVE StateType' /\ CapType'
  BY <1>3, RegisterState
<1>4. ASSUME NEW j \in Job, Admit(j) PROVE StateType' /\ CapType'
  <2>1. StateType' /\ Active' \subseteq Active
    BY <1>4 DEF StateType, Admit, Active, Terminal
  <2> QED
    BY <2>1, FewerActive
<1>5. CASE Restart
  <2>1. StateType' /\ Active' \subseteq Active
    BY <1>5 DEF StateType, Restart, Active
  <2> QED
    BY <2>1, FewerActive
<1>6. CASE Poll
  <2>1. PICK S \in SUBSET Job : Sweeps(S) /\ state' = Swept(S)
    BY <1>6 DEF Poll
  <2>2. StateType' /\ Active' \subseteq Active
    BY <1>6, <2>1, SweptJobs DEF Poll, StateType, Active, Terminal
  <2> QED
    BY <2>2, FewerActive
<1>7. ASSUME NEW j \in Job, Signal(j) \/ Process(j) PROVE UNCHANGED <<state, driver, outcome>>
  BY <1>7 DEF Signal, Process
<1>8. Arm \/ Lease \/ Disarm \/ EndSession \/ ShutGate \/ BeginWait \/ DeadlinePasses \/ UNCHANGED vars
        => UNCHANGED <<state, driver, outcome>>
  BY DEF Arm, Lease, Disarm, EndSession, ShutGate, BeginWait, DeadlinePasses, vars, jobVars
<1> QED
  BY <1>1, <1>2, <1>3, <1>4, <1>5, <1>6, <1>7, <1>8 DEF Next

-----------------------------------------------------------------------------
(* The gate, the processes, the ring and the wait keep their types. *)

LEMMA GateStep ==
  ASSUME GateType, [Next]_vars
  PROVE  GateType'
<1>1. CASE UNCHANGED gateVars
  BY <1>1 DEF GateType, gateVars
<1>2. CASE Arm
  BY <1>2 DEF GateType, Arm
<1>3. CASE Lease
  BY <1>3 DEF GateType, Lease, Paint, Stale, Lapse, Notice
<1>4. CASE Disarm
  BY <1>4 DEF GateType, Disarm
<1>5. CASE EndSession
  BY <1>5 DEF GateType, EndSession
<1>6. CASE ShutGate
  BY <1>6 DEF GateType, ShutGate
<1>7. CASE Restart
  BY <1>7 DEF GateType, Restart
<1>8. ASSUME NEW j \in Job, Admit(j) PROVE GateType'
  BY <1>8 DEF GateType, Admit
<1>9. ASSUME NEW j \in Job, Register(j) \/ Signal(j) \/ DriverStep(j) \/ Process(j)
      PROVE  UNCHANGED gateVars
  BY <1>9 DEF Register, Signal, DriverStep, Process
<1>10. BeginWait \/ DeadlinePasses \/ Poll \/ UNCHANGED vars => UNCHANGED gateVars
  BY DEF BeginWait, DeadlinePasses, Poll, vars
<1> QED
  BY <1>1, <1>2, <1>3, <1>4, <1>5, <1>6, <1>7, <1>8, <1>9, <1>10 DEF Next

LEMMA ProcTypeStep ==
  ASSUME ProcType, [Next]_vars
  PROVE  ProcType'
<1>1. CASE UNCHANGED <<cancel, procVars>>
  BY <1>1 DEF ProcType, procVars
<1>2. ASSUME NEW S, Dies(S), cancel' \in [Job -> BOOLEAN] PROVE ProcType'
  BY <1>2, DiesType DEF ProcType
<1>3. cancel \in [Job -> BOOLEAN]
  BY DEF ProcType
<1>4. ASSUME NEW j \in Job, Register(j) PROVE ProcType'
  BY <1>2, <1>3, <1>4 DEF Register
<1>5. ASSUME NEW j \in Job, Signal(j) PROVE ProcType'
  <2>1. cancel' \in [Job -> BOOLEAN] /\ Dies({j})
    BY <1>3, <1>5 DEF Signal
  <2> QED
    BY <2>1, <1>2
<1>6. CASE EndSession
  <2>1. cancel' \in [Job -> BOOLEAN] /\ Dies(CancelAll)
    BY <1>3, <1>6 DEF EndSession
  <2> QED
    BY <2>1, <1>2
<1>7. CASE Restart \/ Poll
  BY <1>2, <1>3, <1>7 DEF Restart, Poll
<1>8. ASSUME NEW j \in Job, DriverStep(j) PROVE ProcType'
  <2>1. UNCHANGED cancel
    BY <1>8 DEF DriverStep, SpawnFails, Spawn, Assign, CheckFlag, TimesOut, InTime, Reads, Exits,
                Sleeps, Drain
  <2>2. /\ child' \in [Job -> {"none", "alive", "dead"}]
        /\ helper' \in [Job -> {"none", "holds", "quiet", "dead"}]
        /\ tree' \in [Job -> SUBSET {"child", "helper"}]
    <3>1. CASE UNCHANGED procVars
      BY <3>1 DEF ProcType, procVars
    <3>2. CASE Spawn(j)
      BY <3>2 DEF ProcType, Spawn
    <3>3. CASE Assign(j)
      BY <3>3 DEF ProcType, Assign
    <3>4. CASE CheckFlag(j)
      BY <3>4 DEF ProcType, CheckFlag, Stops, Kills
    <3>5. CASE TimesOut(j)
      BY <3>5 DEF ProcType, TimesOut, Stops, Kills
    <3> QED
      BY <3>1, <3>2, <3>3, <3>4, <3>5, <1>8
      DEF DriverStep, SpawnFails, InTime, Reads, Exits, Sleeps, Drain
  <2> QED
    BY <1>3, <2>1, <2>2 DEF ProcType
<1>9. ASSUME NEW j \in Job, Process(j) PROVE ProcType'
  <2>1. CASE ChildForks(j)
    BY <1>9, <2>1 DEF ProcType, Process, ChildForks
  <2>2. CASE ChildExits(j) \/ HelperExits(j)
    BY <1>9, <2>2 DEF ProcType, Process, ChildExits, HelperExits
  <2> QED
    BY <1>9, <2>1, <2>2 DEF Process
<1>10. ASSUME NEW j \in Job, Admit(j) PROVE UNCHANGED <<cancel, procVars>>
  BY <1>10 DEF Admit
<1>11. Arm \/ Lease \/ Disarm \/ ShutGate \/ BeginWait \/ DeadlinePasses \/ UNCHANGED vars
         => UNCHANGED <<cancel, procVars>>
  BY DEF Arm, Lease, Disarm, ShutGate, BeginWait, DeadlinePasses, vars, jobVars
<1> QED
  BY <1>1, <1>4, <1>5, <1>6, <1>7, <1>8, <1>9, <1>10, <1>11 DEF Next

\* What a step does to a ring: nothing, or one chunk by the driver of a job that runs.
Pushes(j) == driver[j] # "off" /\ \E big \in BOOLEAN : Push(j, big)

LEMMA RingStep ==
  ASSUME [Next]_vars
  PROVE  UNCHANGED ringVars \/ \E j \in Job : Pushes(j)
<1>1. ASSUME NEW j \in Job, DriverStep(j) PROVE UNCHANGED ringVars \/ Pushes(j)
  BY <1>1 DEF Pushes, DriverStep, SpawnFails, Spawn, Assign, CheckFlag, TimesOut, InTime, Reads,
              Exits, Sleeps, Drain
<1>2. ASSUME NEW j \in Job, Admit(j) \/ Register(j) \/ Signal(j) \/ Process(j)
      PROVE  UNCHANGED ringVars
  BY <1>2 DEF Admit, Register, Signal, Process
<1>3. Arm \/ Lease \/ Disarm \/ EndSession \/ ShutGate \/ Restart \/ BeginWait \/ DeadlinePasses
        \/ Poll \/ UNCHANGED vars => UNCHANGED ringVars
  BY DEF Arm, Lease, Disarm, EndSession, ShutGate, Restart, BeginWait, DeadlinePasses, Poll, vars, jobVars
<1> QED
  BY <1>1, <1>2, <1>3 DEF Next

\* Rings only grow, and lose chunks for good.
LEMMA RingGrows ==
  ASSUME RingType, [Next]_vars
  PROVE  /\ RingType'
         /\ \A j \in Job : /\ next[j] <= next'[j] /\ oldest[j] <= oldest'[j]
                           /\ driver[j] = "off" => next'[j] = next[j] /\ oldest'[j] = oldest[j]
<1>1. CASE UNCHANGED ringVars
  BY <1>1 DEF RingType, ringVars
<1>2. ASSUME NEW j \in Job, NEW big \in BOOLEAN, driver[j] # "off", Push(j, big)
      PROVE  /\ RingType'
             /\ \A k \in Job : /\ next[k] <= next'[k] /\ oldest[k] <= oldest'[k]
                               /\ driver[k] = "off" => next'[k] = next[k] /\ oldest'[k] = oldest[k]
  <2> DEFINE o == IF big THEN next[j] + 1
                  ELSE IF next[j] + 1 - oldest[j] > RingChunks THEN oldest[j] + 1 ELSE oldest[j]
  <2>1. /\ next' = [next EXCEPT ![j] = next[j] + 1]
        /\ oldest' = [oldest EXCEPT ![j] = o]
    BY <1>2 DEF Push
  <2>2. next[j] \in Nat /\ oldest[j] \in Nat /\ oldest[j] <= next[j] /\ RingChunks \in Nat \ {0}
    BY JobAssumption DEF RingType
  <2>3. o \in Nat /\ oldest[j] <= o /\ o <= next[j] + 1
    BY <2>2
  <2> QED
    BY <1>2, <2>1, <2>2, <2>3 DEF RingType
<1> QED
  BY <1>1, <1>2, RingStep DEF Pushes

-----------------------------------------------------------------------------
(* The processes of a job fit its state. *)

LEMMA DiesFits ==
  ASSUME ProcType, NEW S, Dies(S), NEW j \in Job, NEW st, NEW dr, NEW oc,
         Fits(st, dr, oc, child[j], helper[j], tree[j])
  PROVE  Fits(st, dr, oc, child'[j], helper'[j], tree'[j])
<1>1. /\ child'[j] = IF j \in S /\ "child" \in tree[j] THEN "dead" ELSE child[j]
      /\ helper'[j] = IF j \in S /\ "helper" \in tree[j] THEN "dead" ELSE helper[j]
      /\ tree'[j] = tree[j]
  BY DiesSpares
<1> QED
  BY <1>1 DEF Fits

LEMMA SweptFits ==
  ASSUME StateType, ProcInv, NEW S, Sweeps(S), NEW j \in Job
  PROVE  Fits(Swept(S)[j], driver[j], outcome[j], child[j], helper[j], tree[j])
<1>1. Swept(S)[j] \in {state[j], "gone"}
  BY SweptJobs
<1> QED
  BY <1>1 DEF ProcInv, Fits, Terminal

LEMMA DriverFits ==
  ASSUME StateType, ProcType, ProcInv, NEW j \in Job, DriverStep(j)
  PROVE  ProcInv'
<1>1. ASSUME NEW k \in Job \ {j}
      PROVE  Fits(state'[k], driver'[k], outcome'[k], child'[k], helper'[k], tree'[k])
  <2>1. state'[k] = state[k] /\ driver'[k] = driver[k] /\ outcome'[k] = outcome[k]
    BY <1>1 DEF DriverStep, SpawnFails, Spawn, Assign, CheckFlag, TimesOut, InTime, Reads, Exits,
                Sleeps, Drain, Finish, Stops, StateType
  <2>2. child'[k] = child[k] /\ helper'[k] = helper[k] /\ tree'[k] = tree[k]
    BY <1>1 DEF DriverStep, SpawnFails, Spawn, Assign, CheckFlag, TimesOut, InTime, Reads, Exits,
                Sleeps, Drain, Stops, Kills, procVars, ProcType
  <2> QED
    BY <1>1, <2>1, <2>2 DEF ProcInv
<1>2. Fits(state[j], driver[j], outcome[j], child[j], helper[j], tree[j])
  BY DEF ProcInv
<1>3. Fits(state'[j], driver'[j], outcome'[j], child'[j], helper'[j], tree'[j])
  <2>1. CASE SpawnFails(j)
    BY <1>2, <2>1 DEF SpawnFails, Finish, procVars, StateType, Fits, Terminal
  <2>2. CASE Spawn(j)
    BY <1>2, <2>2 DEF Spawn, StateType, ProcType, Fits, Terminal
  <2>3. CASE Assign(j)
    BY <1>2, <2>3 DEF Assign, StateType, ProcType, Fits, Terminal
  <2>4. CASE CheckFlag(j)
    BY <1>2, <2>4 DEF CheckFlag, Stops, Kills, StateType, ProcType, Fits, Terminal
  <2>5. CASE TimesOut(j)
    BY <1>2, <2>5 DEF TimesOut, Stops, Kills, StateType, ProcType, Fits, Terminal
  <2>6. CASE InTime(j) \/ Reads(j) \/ Sleeps(j)
    BY <1>2, <2>6 DEF InTime, Reads, Sleeps, procVars, StateType, Fits, Terminal
  <2>7. CASE Exits(j)
    BY <1>2, <2>7 DEF Exits, procVars, StateType, Fits, Terminal
  <2>8. CASE Drain(j)
    <3>1. PICK st \in Terminal : /\ Finish(j, st)
                                 /\ st \in {"cancelled", "timedout"} => outcome[j] = st
      BY <2>8, DrainEnds
    <3> QED
      BY <1>2, <2>8, <3>1 DEF Drain, Drained, Finish, procVars, StateType, Fits, Terminal
  <2> QED
    BY <2>1, <2>2, <2>3, <2>4, <2>5, <2>6, <2>7, <2>8 DEF DriverStep
<1> QED
  BY <1>1, <1>3 DEF ProcInv

LEMMA ProcessFits ==
  ASSUME StateType, ProcType, ProcInv, NEW j \in Job, Process(j)
  PROVE  ProcInv'
<1> SUFFICES ASSUME NEW k \in Job
             PROVE  Fits(state[k], driver[k], outcome[k], child'[k], helper'[k], tree'[k])
  BY DEF Process, ProcInv
<1>1. Fits(state[k], driver[k], outcome[k], child[k], helper[k], tree[k])
  BY DEF ProcInv
<1>2. CASE ChildForks(j)
  BY <1>1, <1>2 DEF ChildForks, ProcType, Fits, Terminal
<1>3. CASE ChildExits(j)
  BY <1>1, <1>3 DEF ChildExits, ProcType, Fits, Terminal
<1>4. CASE HelperExits(j)
  BY <1>1, <1>4 DEF HelperExits, ProcType, Fits, Terminal
<1> QED
  BY <1>2, <1>3, <1>4 DEF Process

LEMMA ProcStep ==
  ASSUME StateType, ProcType, ProcInv, [Next]_vars
  PROVE  ProcInv'
<1>1. CASE UNCHANGED <<state, driver, outcome, procVars>>
  BY <1>1 DEF ProcInv, procVars
<1>2. ASSUME NEW S, Dies(S), UNCHANGED <<state, driver, outcome>> PROVE ProcInv'
  BY <1>2, DiesFits DEF ProcInv
<1>3. ASSUME NEW j \in Job, Admit(j) PROVE ProcInv'
  <2> SUFFICES ASSUME NEW k \in Job
               PROVE  Fits(state'[k], driver[k], outcome[k], child[k], helper[k], tree[k])
    BY <1>3 DEF Admit, ProcInv, procVars
  <2>1. Fits(state[k], driver[k], outcome[k], child[k], helper[k], tree[k])
    BY DEF ProcInv
  <2> QED
    BY <1>3, <2>1 DEF Admit, StateType, Fits, Terminal
<1>4. ASSUME NEW j \in Job, Register(j) PROVE ProcInv'
  <2> SUFFICES ASSUME NEW k \in Job
               PROVE  Fits(state'[k], driver'[k], outcome'[k], child'[k], helper'[k], tree'[k])
    BY DEF ProcInv
  <2>1. PICK S \in SUBSET Job :
          /\ Sweeps(S) /\ Dies(S)
          /\ \/ /\ state' = [Swept(S) EXCEPT ![j] = "queued"]
                /\ driver' = [driver EXCEPT ![j] = "stage"]
             \/ /\ state' = [Swept(S) EXCEPT ![j] = "denied"]
                /\ driver' = driver
    BY <1>4 DEF Register
  <2>2. /\ Fits(Swept(S)[k], driver[k], outcome[k], child[k], helper[k], tree[k])
        /\ Fits(state[k], driver[k], outcome[k], child[k], helper[k], tree[k])
    BY <2>1, SweptFits DEF ProcInv
  <2>3. Fits(state'[k], driver'[k], outcome[k], child[k], helper[k], tree[k])
    BY <1>4, <2>1, <2>2, SweptJobs DEF Register, StateType, Fits, Terminal
  <2> QED
    BY <1>4, <2>1, <2>3, DiesFits DEF Register
<1>5. ASSUME NEW j \in Job, Signal(j) PROVE ProcInv'
  BY <1>2, <1>5 DEF Signal
<1>6. CASE EndSession
  BY <1>2, <1>6 DEF EndSession
<1>7. CASE Restart
  <2> SUFFICES ASSUME NEW k \in Job
               PROVE  Fits(state'[k], driver'[k], outcome'[k], child'[k], helper'[k], tree'[k])
    BY DEF ProcInv
  <2>1. Fits(state'[k], driver'[k], outcome[k], child[k], helper[k], tree[k])
    BY <1>7 DEF Restart, ProcInv, StateType, Fits, Terminal
  <2> QED
    BY <1>7, <2>1, DiesFits DEF Restart
<1>8. CASE Poll
  <2>1. PICK S \in SUBSET Job : Sweeps(S) /\ Dies(S) /\ state' = Swept(S)
    BY <1>8 DEF Poll
  <2>2. UNCHANGED <<driver, outcome>>
    BY <1>8 DEF Poll
  <2> QED
    BY <2>1, <2>2, SweptFits, DiesFits DEF ProcInv
<1>9. ASSUME NEW j \in Job, DriverStep(j) \/ Process(j) PROVE ProcInv'
  BY <1>9, DriverFits, ProcessFits
<1>10. Arm \/ Lease \/ Disarm \/ ShutGate \/ BeginWait \/ DeadlinePasses \/ UNCHANGED vars
         => UNCHANGED <<state, driver, outcome, procVars>>
  BY DEF Arm, Lease, Disarm, ShutGate, BeginWait, DeadlinePasses, vars, jobVars
<1> QED
  BY <1>1, <1>3, <1>4, <1>5, <1>6, <1>7, <1>8, <1>9, <1>10 DEF Next

-----------------------------------------------------------------------------
(* The end of a session. *)

\* Nobody takes a cancellation back, and no job passes the gate or gets its place.
Calm ==
  /\ UNCHANGED gateVars
  /\ \A j \in Job : /\ cancel[j] => cancel'[j]
                    /\ state'[j] \in {"queued", "running"} => state[j] \in {"queued", "running"}
                    /\ state'[j] = "admitted" => state[j] = "admitted"

LEMMA CalmSteps ==
  ASSUME StateType, CapType, ProcType, ProcInv, [Next]_vars
  PROVE  \/ Calm \/ Arm \/ Lease \/ Disarm \/ EndSession \/ ShutGate \/ Restart
         \/ \E j \in Job : Admit(j) \/ Register(j)
<1>1. ASSUME NEW j \in Job, Signal(j) PROVE Calm
  BY <1>1 DEF Signal, Calm, ProcType
<1>2. ASSUME NEW j \in Job, Process(j) PROVE Calm
  BY <1>2 DEF Process, Calm
<1>3. ASSUME NEW j \in Job, DriverStep(j) PROVE Calm
  <2>1. UNCHANGED <<gateVars, cancel>>
    BY <1>3 DEF DriverStep, SpawnFails, Spawn, Assign, CheckFlag, TimesOut, InTime, Reads, Exits,
                Sleeps, Drain
  <2>2. state' = state \/ \E st \in Terminal \cup {"running"} : state' = [state EXCEPT ![j] = st]
    BY <1>3, DrainEnds DEF DriverStep, SpawnFails, Spawn, Assign, CheckFlag, TimesOut, InTime, Reads,
                           Exits, Sleeps, Finish, Terminal
  <2>3. state[j] \in {"queued", "running"}
    BY <1>3 DEF DriverStep, SpawnFails, Spawn, Assign, CheckFlag, TimesOut, InTime, Reads, Exits,
                Sleeps, Drain, StateType
  <2> QED
    BY <2>1, <2>2, <2>3 DEF Calm, StateType, Terminal
<1>4. CASE Poll
  <2>1. PICK S \in SUBSET Job : Sweeps(S) /\ state' = Swept(S)
    BY <1>4 DEF Poll
  <2> QED
    BY <1>4, <2>1, SweptJobs DEF Poll, Calm, Terminal
<1>5. BeginWait \/ DeadlinePasses \/ UNCHANGED vars => Calm
  BY DEF BeginWait, DeadlinePasses, vars, jobVars, Calm
<1> QED
  BY <1>1, <1>2, <1>3, <1>4, <1>5 DEF Next

LEMMA RevokeStep ==
  ASSUME GateType, StateType, CapType, ProcType, ProcInv, RevokeInv, [Next]_vars
  PROVE  RevokeInv'
<1>1. CASE Calm
  BY <1>1 DEF Calm, gateVars, RevokeInv, Active
<1>2. CASE Arm
  BY <1>2 DEF Arm, jobVars, RevokeInv, Active
<1>3. CASE Lease
  BY <1>3 DEF Lease, Paint, Stale, Lapse, Notice, jobVars, RevokeInv, Active
<1>4. CASE Disarm
  BY <1>4 DEF Disarm, jobVars, RevokeInv, Active
<1>5. CASE EndSession
  <2>1. \A j \in Job : state[j] \in {"queued", "running"} => cancel'[j]
    BY <1>5 DEF EndSession, CancelAll, Active
  <2> QED
    BY <1>5, <2>1 DEF EndSession, RevokeInv, Active
<1>6. CASE ShutGate
  BY <1>6 DEF ShutGate, jobVars, RevokeInv, Active
<1>7. CASE Restart
  BY <1>7 DEF Restart, RevokeInv
<1>8. ASSUME NEW j \in Job, Admit(j) PROVE RevokeInv'
  BY <1>8 DEF Admit, RevokeInv, Active, StateType, GateType, Terminal
<1>9. ASSUME NEW j \in Job, Register(j) PROVE RevokeInv'
  <2>1. \A k \in Job : /\ state'[k] \in {"queued", "running"} => k = j \/ state'[k] = state[k]
                       /\ state'[k] = "admitted" => state[k] = "admitted"
    BY <1>9, SweptJobs DEF Register, StateType, Terminal
  <2>2. state[j] = "admitted" /\ UNCHANGED <<gateVars, cancel>>
    BY <1>9 DEF Register
  <2> QED
    BY <2>1, <2>2 DEF RevokeInv, Active, gateVars
<1> QED
  BY <1>1, <1>2, <1>3, <1>4, <1>5, <1>6, <1>7, <1>8, <1>9, CalmSteps

-----------------------------------------------------------------------------
(* The wait and the ring. *)

\* Where a read starts.
First == IF cursor < oldest[Tailed] THEN oldest[Tailed] ELSE cursor

\* A read serves the chunks from First to where the next read starts.
LEMMA ReadsInOrder ==
  ASSUME RingType, WaitType, NEW n \in Nat \ {0}
  PROVE  /\ \A c \in Served(n) : c \in Nat /\ c < next[Tailed]
         /\ Served(n) = {} => NextSeq(Served(n)) = cursor /\ next[Tailed] <= First
         /\ Served(n) # {} =>
              /\ NextSeq(Served(n)) \in Nat /\ cursor <= NextSeq(Served(n))
              /\ NextSeq(Served(n)) <= next[Tailed]
              /\ \A c \in Nat : c \in Served(n) <=> First <= c /\ c < NextSeq(Served(n))
<1>1. next[Tailed] \in Nat /\ oldest[Tailed] \in Nat /\ cursor \in Nat /\ cursor <= next[Tailed]
  BY JobAssumption DEF RingType, WaitType
<1>2. First \in Nat /\ cursor <= First
  BY <1>1 DEF First
<1>3. \A c : c \in Served(n) <=> c \in Nat /\ c < next[Tailed] /\ First <= c /\ c < First + n
  BY <1>1, <1>2 DEF Served, Output, First
<1>4. CASE Served(n) = {}
  <2>1. NextSeq(Served(n)) = cursor
    BY <1>4 DEF NextSeq
  <2>2. next[Tailed] <= First
    BY <1>1, <1>2, <1>3, <1>4
  <2> QED
    BY <1>4, <2>1, <2>2
<1>5. CASE Served(n) # {}
  <2> DEFINE m == NextSeq(Served(n))
             T == {c + 1 : c \in Served(n)}
             e == IF First + n <= next[Tailed] THEN First + n ELSE next[Tailed]
  <2>1. First < next[Tailed]
    BY <1>1, <1>2, <1>3, <1>5
  <2>2. e \in Nat /\ First < e /\ e <= next[Tailed] /\ e - 1 \in Nat
    BY <1>1, <1>2, <2>1
  <2>3. \A c : c \in Served(n) <=> c \in Nat /\ First <= c /\ c < e
    BY <1>1, <1>2, <1>3, <2>2
  <2>4. e - 1 \in Served(n) /\ e \notin Served(n)
    BY <2>2, <2>3, <1>2
  <2>5. e \in T
    BY <2>2, <2>4
  <2>6. m = CHOOSE k \in T : k - 1 \in Served(n) /\ k \notin Served(n)
    BY <1>5 DEF NextSeq
  <2>7. m \in T /\ m - 1 \in Served(n) /\ m \notin Served(n)
    BY <2>4, <2>5, <2>6
  <2>8. m = e
    BY <2>2, <2>3, <2>7, <1>2
  <2>9. m \in Nat /\ cursor <= m /\ m <= next[Tailed]
    BY <1>1, <1>2, <2>2, <2>8
  <2>10. \A c \in Nat : c \in Served(n) <=> First <= c /\ c < m
    BY <2>3, <2>8
  <2> QED
    BY <1>3, <1>5, <2>9, <2>10
<1> QED
  BY <1>3, <1>4, <1>5

LEMMA WaitStep ==
  ASSUME RingType, WaitType, [Next]_vars
  PROVE  WaitType'
<1>1. next[Tailed] \in Nat /\ next'[Tailed] \in Nat /\ next[Tailed] <= next'[Tailed]
  BY RingGrows, JobAssumption DEF RingType
<1>2. Output(Tailed) \subseteq Output(Tailed)'
  BY <1>1 DEF Output
<1>3. CASE UNCHANGED waitVars
  BY <1>1, <1>2, <1>3 DEF WaitType, waitVars
<1>4. CASE BeginWait
  BY <1>1, <1>2, <1>4 DEF WaitType, BeginWait
<1>5. CASE DeadlinePasses
  BY <1>1, <1>2, <1>5 DEF WaitType, DeadlinePasses
<1>6. CASE Poll
  <2>1. late' = late
    BY <1>6 DEF Poll
  <2>2. CASE UNCHANGED <<cursor, got, told>> /\ wait' = "error"
    BY <2>1, <2>2, <1>1, <1>2 DEF WaitType
  <2>3. CASE \E n \in 1..(next[Tailed] + 1) : cursor' = NextSeq(Served(n)) /\ got' = got \cup Served(n)
    <3>1. PICK n \in 1..(next[Tailed] + 1) :
            cursor' = NextSeq(Served(n)) /\ got' = got \cup Served(n)
      BY <2>3
    <3>2. n \in Nat \ {0}
      BY <1>1
    <3>3. cursor' \in 0..next'[Tailed]
      <4>1. cursor \in Nat /\ cursor <= next[Tailed]
        BY <1>1 DEF WaitType
      <4>2. NextSeq(Served(n)) \in Nat /\ NextSeq(Served(n)) <= next[Tailed]
        BY <4>1, <3>2, ReadsInOrder
      <4> QED
        BY <3>1, <4>2, <1>1
    <3>4. got' \subseteq Output(Tailed)'
      <4>1. \A c \in Served(n) : c \in Nat /\ c < next[Tailed]
        BY <3>2, ReadsInOrder
      <4>2. Served(n) \subseteq Output(Tailed)
        BY <4>1, <1>1 DEF Output
      <4> QED
        BY <3>1, <4>2, <1>2 DEF WaitType
    <3>5. wait' \in {"polls", "terminal", "running"} \cup {"error"} /\ told' \subseteq {"lost", "more"}
      BY <1>6 DEF Poll, WaitType
    <3> QED
      BY <2>1, <3>3, <3>4, <3>5 DEF WaitType
  <2> QED
    BY <1>6, <2>2, <2>3 DEF Poll
<1>7. ASSUME NEW j \in Job, Admit(j) \/ Register(j) \/ Signal(j) \/ DriverStep(j) \/ Process(j)
      PROVE  UNCHANGED waitVars
  BY <1>7 DEF Admit, Register, Signal, DriverStep, Process
<1>8. Arm \/ Lease \/ Disarm \/ EndSession \/ ShutGate \/ Restart \/ UNCHANGED vars
        => UNCHANGED waitVars
  BY DEF Arm, Lease, Disarm, EndSession, ShutGate, Restart, vars
<1> QED
  BY <1>3, <1>4, <1>5, <1>6, <1>7, <1>8 DEF Next

\* A job that was started is never new again, and one that ended stays ended.
LEMMA Onwards ==
  ASSUME StateType, CapType, ProcType, ProcInv, [Next]_vars
  PROVE  \A j \in Job :
           /\ state[j] \notin {"new", "admitted", "denied"}
                => state'[j] \notin {"new", "admitted", "denied"}
           /\ state[j] \in Terminal \cup {"gone"} => state'[j] \in {state[j], "gone"}
<1>1. ASSUME NEW j \in Job, DriverStep(j)
      PROVE  /\ state' = state \/ \E st \in Terminal \cup {"running"} : state' = [state EXCEPT ![j] = st]
             /\ state[j] \in {"queued", "running"}
  <2>1. state' = state \/ \E st \in Terminal \cup {"running"} : state' = [state EXCEPT ![j] = st]
    BY <1>1, DrainEnds DEF DriverStep, SpawnFails, Spawn, Assign, CheckFlag, TimesOut, InTime, Reads,
                           Exits, Sleeps, Finish, Terminal
  <2>2. state[j] \in {"queued", "running"}
    BY <1>1 DEF DriverStep, SpawnFails, Spawn, Assign, CheckFlag, TimesOut, InTime, Reads, Exits,
                Sleeps, Drain, StateType
  <2> QED
    BY <2>1, <2>2
<1>2. ASSUME NEW j \in Job, DriverStep(j), NEW k \in Job
      PROVE  /\ state[k] \notin {"new", "admitted", "denied"}
                  => state'[k] \notin {"new", "admitted", "denied"}
             /\ state[k] \in Terminal \cup {"gone"} => state'[k] \in {state[k], "gone"}
  BY <1>1, <1>2 DEF StateType, Terminal
<1>3. ASSUME NEW j \in Job, Admit(j) \/ Register(j), NEW k \in Job
      PROVE  /\ state[k] \notin {"new", "admitted", "denied"}
                  => state'[k] \notin {"new", "admitted", "denied"}
             /\ state[k] \in Terminal \cup {"gone"} => state'[k] \in {state[k], "gone"}
  BY <1>3, SweptJobs DEF Admit, Register, StateType, Terminal
<1>4. CASE Poll
  BY <1>4, SweptJobs DEF Poll, Terminal
<1>5. CASE Restart
  BY <1>5 DEF Restart, StateType, Terminal
<1>6. ASSUME NEW j \in Job, Signal(j) \/ Process(j) PROVE UNCHANGED state
  BY <1>6 DEF Signal, Process
<1>7. Arm \/ Lease \/ Disarm \/ EndSession \/ ShutGate \/ BeginWait \/ DeadlinePasses
        \/ UNCHANGED vars => UNCHANGED state
  BY DEF Arm, Lease, Disarm, EndSession, ShutGate, BeginWait, DeadlinePasses, vars, jobVars
<1> QED
  BY <1>2, <1>3, <1>4, <1>5, <1>6, <1>7 DEF Next

\* One poll collects everything from where the last one stopped, as long as nothing was
\* evicted, and calls an ended job complete only if there is nothing more.
LEMMA PollTail ==
  ASSUME StateType, RingType, WaitType, TailInv, Poll
  PROVE  TailInv'
<1>1. /\ next[Tailed] \in Nat /\ oldest[Tailed] \in Nat /\ cursor \in Nat /\ cursor <= next[Tailed]
      /\ next' = next /\ oldest' = oldest /\ late' = late /\ Tailed \in Job
  BY JobAssumption DEF RingType, WaitType, Poll, ringVars
<1>2. state[Tailed] \notin {"new", "admitted", "denied"} /\ wait = "polls"
  BY DEF TailInv, Poll
<1>3. state'[Tailed] \notin {"new", "admitted", "denied"} /\ state'[Tailed] \in {state[Tailed], "gone"}
  BY <1>1, <1>2, SweptJobs DEF Poll
<1>4. CASE state'[Tailed] = "gone"
  BY <1>1, <1>3, <1>4 DEF Poll, TailInv, TailIsWhole
<1>5. CASE state'[Tailed] # "gone"
  <2> DEFINE more(n) == Served(n) # {} /\ cursor' < next[Tailed]
             room    == Cardinality(got') < OutputCap
             done(n) == ~(more(n) /\ room /\ ~late) /\ (state[Tailed] \in Terminal \/ late)
  <2>1. PICK n \in 1..(next[Tailed] + 1) :
          /\ cursor' = NextSeq(Served(n)) /\ got' = got \cup Served(n)
          /\ wait' = IF ~done(n) THEN "polls"
                     ELSE IF state[Tailed] \in Terminal THEN "terminal" ELSE "running"
          /\ told' = IF done(n) THEN {t \in {"lost", "more"} :
                                        \/ t = "lost" /\ Lost(state[Tailed])
                                        \/ t = "more" /\ ~room}
                     ELSE told
    BY <1>5 DEF Poll
  <2>2. n \in Nat \ {0}
    BY <1>1
  <2>3. ASSUME oldest[Tailed] = 0
        PROVE  /\ got' = Before(cursor') /\ cursor' \in Nat
               /\ Served(n) = {} => next[Tailed] = cursor'
               /\ cursor' <= next[Tailed]
    <3>1. got = Before(cursor) /\ First = cursor
      BY <1>1, <1>2, <2>3 DEF TailInv, First
    <3>2. CASE Served(n) = {}
      <4>1. NextSeq(Served(n)) = cursor /\ next[Tailed] <= First
        BY <2>2, <3>2, ReadsInOrder
      <4>2. cursor' = cursor /\ got' = got
        BY <2>1, <3>2, <4>1
      <4>3. Before(cursor') = Before(cursor)
        BY <4>2 DEF Before
      <4> QED
        BY <1>1, <3>1, <4>1, <4>2, <4>3
    <3>3. CASE Served(n) # {}
      <4>1. /\ cursor' \in Nat /\ cursor <= cursor' /\ cursor' <= next[Tailed]
            /\ \A c \in Nat : c \in Served(n) <=> cursor <= c /\ c < cursor'
            /\ \A c \in Served(n) : c \in Nat
        BY <2>1, <2>2, <3>1, <3>3, ReadsInOrder
      <4>2. \A c : c \in got' <=> c \in Nat /\ c < cursor'
        BY <1>1, <2>1, <3>1, <4>1 DEF Before
      <4> QED
        BY <3>3, <4>1, <4>2 DEF Before
    <3> QED
      BY <3>2, <3>3
  <2>4. wait' = "terminal" => state[Tailed] \in Terminal
    BY <2>1
  <2>5. ASSUME wait' = "terminal", ~late, told' = {}
        PROVE  got' = Output(Tailed)
    <3>1. done(n) /\ state[Tailed] \in Terminal
      BY <2>1, <2>5
    <3>2. ~Lost(state[Tailed]) /\ room
      BY <2>1, <2>5, <3>1
    <3>3. oldest[Tailed] = 0
      BY <1>1, <3>1, <3>2 DEF Lost
    <3>4. ~more(n)
      BY <2>5, <3>1, <3>2
    <3>5. cursor' = next[Tailed]
      BY <1>1, <2>3, <3>3, <3>4
    <3> QED
      BY <1>1, <2>3, <3>3, <3>5 DEF Before, Output
  <2>6. Output(Tailed)' = Output(Tailed)
    BY <1>1 DEF Output
  <2>7. wait' \in {"off", "polls"} /\ oldest'[Tailed] = 0 => got' = Before(cursor')
    BY <1>1, <2>3
  <2>8. TailIsWhole'
    BY <1>1, <2>5, <2>6 DEF TailIsWhole
  <2>9. wait' = "terminal" => state'[Tailed] \in Terminal \cup {"gone"}
    BY <1>3, <2>4
  <2> QED
    BY <1>3, <2>7, <2>8, <2>9 DEF TailInv, Before
<1> QED
  BY <1>4, <1>5

LEMMA TailStep ==
  ASSUME StateType, CapType, ProcType, ProcInv, RingType, WaitType, TailInv, [Next]_vars
  PROVE  TailInv'
<1>1. /\ Tailed \in Job /\ oldest[Tailed] \in Nat /\ oldest'[Tailed] \in Nat
      /\ oldest[Tailed] <= oldest'[Tailed]
      /\ driver[Tailed] = "off" => next'[Tailed] = next[Tailed]
  BY JobAssumption, RingGrows DEF RingType
<1>2. /\ state[Tailed] \notin {"new", "admitted", "denied"}
           => state'[Tailed] \notin {"new", "admitted", "denied"}
      /\ state[Tailed] \in Terminal \cup {"gone"} => state'[Tailed] \in {state[Tailed], "gone"}
  BY <1>1, Onwards
<1>3. CASE Poll
  BY <1>3, PollTail
<1>4. CASE UNCHANGED <<cursor, got, told>> /\ (UNCHANGED <<wait, late>> \/ BeginWait \/ DeadlinePasses)
  <2>1. wait' # "off" => state'[Tailed] \notin {"new", "admitted", "denied"}
    BY <1>2, <1>4 DEF TailInv, BeginWait, DeadlinePasses
  <2>2. wait' \in {"off", "polls"} /\ oldest'[Tailed] = 0 => got' = Before(cursor')
    BY <1>1, <1>4 DEF TailInv, BeginWait, DeadlinePasses, Before
  <2>3. wait' = "terminal" => wait = "terminal" /\ late' = late
    BY <1>4 DEF BeginWait, DeadlinePasses
  <2>4. wait' = "terminal" => state'[Tailed] \in Terminal \cup {"gone"}
    BY <1>2, <2>3 DEF TailInv
  <2>5. wait' = "terminal" => Output(Tailed)' = Output(Tailed)
    <3>1. wait = "terminal" => driver[Tailed] = "off"
      BY <1>1 DEF TailInv, StateType, Terminal
    <3> QED
      BY <1>1, <2>3, <3>1 DEF Output
  <2>6. TailIsWhole'
    BY <1>4, <2>3, <2>5 DEF TailInv, TailIsWhole
  <2> QED
    BY <2>1, <2>2, <2>4, <2>6 DEF TailInv, Before
<1>5. ASSUME NEW j \in Job, Admit(j) \/ Register(j) \/ Signal(j) \/ DriverStep(j) \/ Process(j)
      PROVE  UNCHANGED waitVars
  BY <1>5 DEF Admit, Register, Signal, DriverStep, Process
<1>6. Arm \/ Lease \/ Disarm \/ EndSession \/ ShutGate \/ Restart \/ UNCHANGED vars
        => UNCHANGED waitVars
  BY DEF Arm, Lease, Disarm, EndSession, ShutGate, Restart, vars
<1>7. BeginWait \/ DeadlinePasses => UNCHANGED <<cursor, got, told>>
  BY DEF BeginWait, DeadlinePasses
<1> QED
  BY <1>3, <1>4, <1>5, <1>6, <1>7 DEF Next, waitVars

-----------------------------------------------------------------------------
(* The theorems. *)

LEMMA StepInv == IInv /\ [Next]_vars => IInv'
<1> SUFFICES ASSUME IInv, [Next]_vars PROVE IInv'
  OBVIOUS
<1>1. /\ GateType /\ StateType /\ CapType /\ ProcType /\ RingType /\ WaitType
      /\ ProcInv /\ RevokeInv /\ TailInv
  BY DEF IInv, TypeInv
<1>2. GateType' /\ StateType' /\ CapType' /\ ProcType' /\ RingType' /\ WaitType'
  BY <1>1, GateStep, StateStep, ProcTypeStep, RingGrows, WaitStep
<1>3. ProcInv' /\ RevokeInv' /\ TailInv'
  BY <1>1, ProcStep, RevokeStep, TailStep
<1> QED
  BY <1>2, <1>3 DEF IInv, TypeInv

\* IInv holds in every state of every behaviour of the jobs.
THEOREM Inductive == Spec => []IInv
BY InitInv, StepInv, PTL DEF Spec

(***************************************************************************)
(* The variables keep their types and no more than MaxRunning jobs are     *)
(* queued or running, although drivers, sweeps and new jobs change the     *)
(* registry at any time.                                                   *)
(***************************************************************************)
THEOREM TypeCorrect == Spec => []TypeOK
<1>1. IInv => TypeOK
  BY TypeParts DEF IInv
<1> QED
  BY <1>1, Inductive, PTL

(***************************************************************************)
(* An ended job has left no interpreter behind and its pipes are free; one *)
(* that was cancelled or timed out has taken its helpers with it.          *)
(***************************************************************************)
THEOREM EndedDead == Spec => []EndedIsDead
<1>1. IInv => EndedIsDead
  BY DEF IInv, ProcInv, Fits, EndedIsDead
<1> QED
  BY <1>1, Inductive, PTL

(***************************************************************************)
(* After an end of session the only jobs that run on untold are those that *)
(* had passed the gate and were not registered yet.                        *)
(***************************************************************************)
THEOREM RevokedCancelled == Spec => []RevokedIsCancelled
<1>1. IInv => RevokedIsCancelled
  BY DEF IInv, RevokeInv, RevokedIsCancelled
<1> QED
  BY <1>1, Inductive, PTL

(***************************************************************************)
(* A wait that returns an ended job in time has all of its output or says  *)
(* that some is missing.                                                   *)
(***************************************************************************)
THEOREM TailWhole == Spec => []TailIsWhole
<1>1. IInv => TailIsWhole
  BY DEF IInv, TailInv
<1> QED
  BY <1>1, Inductive, PTL
=============================================================================
