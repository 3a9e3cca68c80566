-------------------------- MODULE BuildQueue_proofs --------------------------
(***************************************************************************)
(* For any jobs, hosts, worker processes and faults: the types, one        *)
(* builder per job, and that the workers implement JobService.             *)
(***************************************************************************)
EXTENDS BuildQueue, TLAPS

Inv == TypeOK /\ OneBuilder

\* The tasks that build are the same before and after.
SameBuilders == \A t \in Task : task'[t] = "build" <=> task[t] = "build"

LEMMA InitInv == Init => Inv
BY JobsAssumption DEF Init, Inv, TypeOK, OneBuilder

\* Spawning turns idle tasks into claiming ones.
LEMMA SpawnsEffect ==
  ASSUME TypeOK, NEW p, NEW js, Spawns(p, js)
  PROVE  /\ task' \in [Task -> {"idle", "claim", "build"}]
         /\ SameBuilders
BY DEF TypeOK, Spawns, Spawned, SameBuilders

\* What the steps of the outer loop and of the event loop leave alone.
LEMMA LoopEffect ==
  ASSUME Inv, NEW p \in Proc,
         Runs(p) \/ StartFails(p) \/ StreamEnds(p) \/ Start(p)
  PROVE  TypeOK' /\ SameBuilders /\ UNCHANGED rowVars
<1> USE JobsAssumption DEF Inv
<1>1. CASE Drain(p)
  <2>1. CASE Spawns(p, {j \in Job : Claimable(p, j)}) /\ UNCHANGED faults
    BY <1>1, <2>1, SpawnsEffect DEF Drain, TypeOK, Enters, rowVars
  <2>2. CASE Fault /\ UNCHANGED task
    BY <1>1, <2>2 DEF Drain, TypeOK, Enters, rowVars, Fault, SameBuilders
  <2> QED BY <1>1, <2>1, <2>2 DEF Drain
<1>2. CASE Restart(p) \/ Subscribe(p) \/ Bail(p) \/ Start(p)
  BY <1>2 DEF Restart, Subscribe, Bail, Start, TypeOK, Enters, rowVars, SameBuilders
<1>3. ASSUME NEW j \in Job, Receive(p, j)
      PROVE  TypeOK' /\ SameBuilders /\ UNCHANGED rowVars
  BY <1>3, SpawnsEffect DEF Receive, TypeOK, rowVars
<1>4. CASE StartFails(p) \/ StreamEnds(p)
  BY <1>4 DEF StartFails, StreamEnds, Fault, TypeOK, Enters, rowVars, SameBuilders
<1> QED BY <1>1, <1>2, <1>3, <1>4 DEF Runs

LEMMA CreateType ==
  ASSUME Inv, NEW j \in Job, Create(j) PROVE TypeOK'
BY JobsAssumption DEF Inv, TypeOK, Create, Hears

LEMMA CrashType ==
  ASSUME Inv, NEW p \in Proc, Crash(p) PROVE TypeOK'
BY JobsAssumption DEF Inv, TypeOK, Crash, Fault, rowVars

LEMMA TaskType ==
  ASSUME Inv, NEW t \in Task, Claims(t) \/ ClaimErrs(t) \/ Finish(t) PROVE TypeOK'
<1> USE JobsAssumption DEF Inv, TypeOK, Becomes, rowVars
<1>1. HostOf[Worker(t)] \in Host /\ JobOf[t] \in Job /\ None \notin Host
  BY DEF Worker
<1>2. CASE ClaimWins(t)
  BY <1>1, <1>2 DEF ClaimWins, Claimed, Claimable
<1>3. CASE ClaimLoses(t)
  BY <1>3 DEF ClaimLoses
<1>4. CASE ClaimErrs(t)
  BY <1>1, <1>4 DEF ClaimErrs, Claimed, Claimable, Fault
<1>5. CASE Finish(t)
  <2>1. status[JobOf[t]] = "claimed"
    BY <1>5 DEF Finish, OneBuilder
  <2>2. faults' \in 0..MaxFaults
    BY <1>5 DEF Finish, Fault
  <2> QED BY <1>1, <1>5, <2>1, <2>2 DEF Finish
<1> QED BY <1>2, <1>3, <1>4, <1>5 DEF Claims

\* Rows and builders that do not change keep OneBuilder.
LEMMA QuietBuilder ==
  ASSUME OneBuilder, SameBuilders, UNCHANGED rowVars
  PROVE  OneBuilder'
BY DEF OneBuilder, SameBuilders, rowVars

LEMMA TaskBuilder ==
  ASSUME Inv, NEW t \in Task, Claims(t) \/ ClaimErrs(t) \/ Finish(t) PROVE OneBuilder'
<1> USE JobsAssumption DEF Inv, TypeOK, OneBuilder, Becomes, rowVars
<1>1. CASE ClaimWins(t)
  BY <1>1 DEF ClaimWins, Claimed, Claimable, Worker
<1>2. CASE ClaimLoses(t)
  BY <1>2 DEF ClaimLoses
<1>3. CASE ClaimErrs(t)
  BY <1>3 DEF ClaimErrs, Claimed, Claimable, Worker
<1>4. CASE Finish(t)
  BY <1>4 DEF Finish
<1> QED BY <1>1, <1>2, <1>3, <1>4 DEF Claims

LEMMA NextInv == Inv /\ [Next]_vars => Inv'
<1> SUFFICES ASSUME Inv, [Next]_vars PROVE Inv'
  OBVIOUS
<1>1. ASSUME NEW j \in Job, Create(j) PROVE Inv'
  <2>1. OneBuilder'
    BY <1>1 DEF Create, Inv, OneBuilder, TypeOK
  <2> QED BY <1>1, <2>1, CreateType DEF Inv
<1>2. ASSUME NEW p \in Proc, Runs(p) \/ StartFails(p) \/ StreamEnds(p) \/ Start(p)
      PROVE  Inv'
  BY <1>2, LoopEffect, QuietBuilder DEF Inv
<1>3. ASSUME NEW p \in Proc, Crash(p) PROVE Inv'
  <2>1. OneBuilder'
    BY <1>3 DEF Crash, Inv, OneBuilder, TypeOK, rowVars
  <2> QED BY <1>3, <2>1, CrashType DEF Inv
<1>4. ASSUME NEW t \in Task, Claims(t) \/ ClaimErrs(t) \/ Finish(t) PROVE Inv'
  BY <1>4, TaskType, TaskBuilder DEF Inv
<1>5. CASE UNCHANGED vars
  BY <1>5 DEF vars, rowVars, Inv, TypeOK, OneBuilder
<1> QED BY <1>1, <1>2, <1>3, <1>4, <1>5 DEF Next

(***************************************************************************)
(* Every variable keeps its type, and a row names a claimer exactly when   *)
(* it was claimed.                                                         *)
(***************************************************************************)
THEOREM TypeCorrect == Spec => []TypeOK
<1>1. Inv => TypeOK
  BY DEF Inv
<1> QED BY <1>1, InitInv, NextInv, PTL DEF Spec

(***************************************************************************)
(* A job is built by one task, on the host its row names.                  *)
(***************************************************************************)
THEOREM OneBuilderAlways == Spec => []OneBuilder
<1>1. Inv => OneBuilder
  BY DEF Inv
<1> QED BY <1>1, InitInv, NextInv, PTL DEF Spec

-----------------------------------------------------------------------------
(* The refinement: what each step means to those who submit jobs. *)

\* Equal rows and builders mean equal jobs.
LEMMA QuietMeans ==
  ASSUME SameBuilders, UNCHANGED rowVars
  PROVE  UNCHANGED Service!svars
<1>1. \A j \in Job : Builders(j)' = Builders(j)
  BY DEF SameBuilders, Builders
<1>2. status' = status
  BY DEF rowVars
<1>3. ASSUME NEW j \in Job
      PROVE  StateOf(j)' = StateOf(j) /\ TakerOf(j)' = TakerOf(j)
  <2>1. Builders(j)' = Builders(j)
    BY <1>1
  <2> QED BY <1>2, <2>1 DEF StateOf, TakerOf
<1> QED BY <1>3 DEF Service!svars

\* A job whose row and builders stay is the same job after the step.
LEMMA OtherJob ==
  ASSUME NEW j \in Job, status'[j] = status[j], Builders(j)' = Builders(j)
  PROVE  StateOf(j)' = StateOf(j) /\ TakerOf(j)' = TakerOf(j)
BY DEF StateOf, TakerOf

\* The one builder of a job is its taker.
LEMMA TakerIs ==
  ASSUME OneBuilder, NEW t \in Task, task[t] = "build", JobOf[t] \in Job
  PROVE  /\ Builders(JobOf[t]) = {t}
         /\ TakerOf(JobOf[t]) = t
         /\ StateOf(JobOf[t]) = "taken"
<1>1. Builders(JobOf[t]) = {t}
  BY DEF Builders, OneBuilder
<1>2. status[JobOf[t]] = "claimed"
  BY DEF OneBuilder
<1> QED BY <1>1, <1>2 DEF TakerOf, StateOf

\* Nobody builds a job that is not claimed.
LEMMA NoBuilder ==
  ASSUME OneBuilder, NEW j \in Job, status[j] # "claimed"
  PROVE  Builders(j) = {} /\ StateOf(j) = status[j] /\ TakerOf(j) = None
<1>1. Builders(j) = {}
  BY DEF Builders, OneBuilder
<1> QED BY <1>1 DEF StateOf, TakerOf

LEMMA CreateSubmits ==
  ASSUME Inv, NEW j \in Job, Create(j) PROVE Service!Submit(j)
<1> USE DEF Inv
<1>1. /\ status[j] = "none" /\ status'[j] = "pending" /\ task' = task
      /\ \A k \in Job : k # j => status'[k] = status[k]
  BY DEF Create, TypeOK
<1>2. \A k \in Job : Builders(k)' = Builders(k)
  BY <1>1 DEF Builders
<1>3. /\ StateOf(j) = "none" /\ StateOf(j)' = "pending"
      /\ TakerOf(j) = None /\ TakerOf(j)' = None
  <2>1. Builders(j) = {}
    BY <1>1, NoBuilder
  <2> QED BY <1>1, <1>2, <2>1 DEF StateOf, TakerOf
<1>4. \A k \in Job : k # j => StateOf(k)' = StateOf(k) /\ TakerOf(k)' = TakerOf(k)
  BY <1>1, <1>2, OtherJob
<1> QED BY <1>3, <1>4 DEF Service!Submit, Service!Moves

LEMMA ClaimTakes ==
  ASSUME Inv, NEW t \in Task, ClaimWins(t) PROVE Service!Take(JobOf[t], t)
<1> DEFINE j == JobOf[t]
<1> USE JobsAssumption DEF Inv
<1>1. /\ j \in Job /\ status[j] = "pending" /\ Eligible(ProcOf[t], j)
      /\ status'[j] = "claimed" /\ \A k \in Job : k # j => status'[k] = status[k]
      /\ task'[t] = "build" /\ \A u \in Task : u # t => task'[u] = task[u]
  BY DEF ClaimWins, Claimed, Claimable, Becomes, TypeOK, Worker
<1>2. /\ StateOf(j) = "pending" /\ TakerOf(j) = None /\ Builders(j) = {}
  BY <1>1, NoBuilder
<1>3. Builders(j)' = {t}
  BY <1>1, <1>2 DEF Builders
<1>4. StateOf(j)' = "taken" /\ TakerOf(j)' = t
  BY <1>1, <1>3 DEF StateOf, TakerOf
<1>5. ASSUME NEW k \in Job, k # j
      PROVE  StateOf(k)' = StateOf(k) /\ TakerOf(k)' = TakerOf(k)
  <2>1. Builders(k)' = Builders(k)
    BY <1>1, <1>5 DEF Builders
  <2> QED BY <1>1, <1>5, <2>1, OtherJob
<1>6. t \in {u \in Task : JobOf[u] = j /\ Eligible(ProcOf[u], j)}
  BY <1>1
<1> HIDE DEF j
<1>7. /\ [k \in Job |-> StateOf(k)]' = [[k \in Job |-> StateOf(k)] EXCEPT ![j] = "taken"]
      /\ [k \in Job |-> TakerOf(k)]' = [[k \in Job |-> TakerOf(k)] EXCEPT ![j] = t]
  BY <1>1, <1>4, <1>5
<1>8. Service!Take(j, t)
  BY <1>1, <1>2, <1>6, <1>7 DEF Service!Take, Service!Moves
<1> QED BY <1>8 DEF j

LEMMA ErrsMeans ==
  ASSUME Inv, NEW t \in Task, ClaimErrs(t)
  PROVE  Service!LoseAtOnce(JobOf[t]) \/ UNCHANGED Service!svars
<1> DEFINE j == JobOf[t]
<1> USE JobsAssumption DEF Inv
<1>1. SameBuilders
  BY DEF ClaimErrs, Becomes, TypeOK, SameBuilders
<1>2. CASE UNCHANGED rowVars
  BY <1>1, <1>2, QuietMeans
<1>3. CASE Claimed(t)
  <2>1. /\ j \in Job /\ status[j] = "pending" /\ status'[j] = "claimed"
        /\ \A k \in Job : k # j => status'[k] = status[k]
    BY <1>3 DEF Claimed, Claimable, TypeOK
  <2>2. \A k \in Job : Builders(k)' = Builders(k)
    BY <1>1 DEF SameBuilders, Builders
  <2>3. StateOf(j) = "pending" /\ TakerOf(j) = None /\ Builders(j) = {}
    BY <2>1, NoBuilder
  <2>4. StateOf(j)' = "lost" /\ TakerOf(j)' = None
    BY <2>1, <2>2, <2>3 DEF StateOf, TakerOf
  <2>5. \A k \in Job : k # j => StateOf(k)' = StateOf(k) /\ TakerOf(k)' = TakerOf(k)
    BY <2>1, <2>2, OtherJob
  <2> HIDE DEF j
  <2>6. /\ [k \in Job |-> StateOf(k)]' = [[k \in Job |-> StateOf(k)] EXCEPT ![j] = "lost"]
        /\ [k \in Job |-> TakerOf(k)]' = [k \in Job |-> TakerOf(k)]
    BY <2>1, <2>3, <2>4, <2>5
  <2>7. Service!LoseAtOnce(j)
    BY <2>1, <2>3, <2>6 DEF Service!LoseAtOnce, Service!Moves
  <2> QED BY <2>7 DEF j
<1> QED BY <1>2, <1>3 DEF ClaimErrs

\* A result resolves the job; a result that is not written loses it.
LEMMA FinishMeans ==
  ASSUME Inv, NEW t \in Task, Finish(t)
  PROVE  Service!Resolve(JobOf[t]) \/ Service!Lose({JobOf[t]})
<1> DEFINE j == JobOf[t]
<1> USE JobsAssumption DEF Inv
<1>1. /\ j \in Job /\ task[t] = "build" /\ task'[t] = "idle"
      /\ \A u \in Task : u # t => task'[u] = task[u]
  BY DEF Finish, Becomes, TypeOK
<1>2. Builders(j) = {t} /\ StateOf(j) = "taken" /\ status[j] = "claimed"
  BY <1>1, TakerIs DEF OneBuilder
<1>3. Builders(j)' = {}
  BY <1>1, <1>2 DEF Builders
<1>4. \A k \in Job : k # j => Builders(k)' = Builders(k)
  BY <1>1 DEF Builders
<1>5. TakerOf(j)' = None
  BY <1>3 DEF TakerOf
<1>6. ASSUME NEW to \in {"done", "failed"}, status' = [status EXCEPT ![j] = to]
      PROVE  Service!Resolve(j)
  <2>1. status'[j] = to /\ \A k \in Job : k # j => status'[k] = status[k]
    BY <1>1, <1>6 DEF TypeOK
  <2>2. StateOf(j)' = to
    BY <2>1 DEF StateOf
  <2>3. \A k \in Job : k # j => StateOf(k)' = StateOf(k) /\ TakerOf(k)' = TakerOf(k)
    BY <1>4, <2>1, OtherJob
  <2> HIDE DEF j
  <2>4. /\ [k \in Job |-> StateOf(k)]' = [[k \in Job |-> StateOf(k)] EXCEPT ![j] = to]
        /\ [k \in Job |-> TakerOf(k)]' = [[k \in Job |-> TakerOf(k)] EXCEPT ![j] = None]
    BY <1>1, <1>5, <2>2, <2>3
  <2> QED BY <1>1, <1>2, <2>4 DEF Service!Resolve, Service!Moves
<1>7. ASSUME UNCHANGED status PROVE Service!Lose({j})
  <2>1. StateOf(j)' = "lost"
    BY <1>2, <1>3, <1>7 DEF StateOf
  <2>2. \A k \in Job : k # j => StateOf(k)' = StateOf(k) /\ TakerOf(k)' = TakerOf(k)
    BY <1>4, <1>7, OtherJob
  <2>3. j \in Job /\ StateOf(j) = "taken" /\ TakerOf(j)' = None
    BY <1>1, <1>2, <1>5
  <2> HIDE DEF j
  <2>4. Service!Lose({j})
    BY <2>1, <2>2, <2>3 DEF Service!Lose
  <2> QED BY <2>4
<1> HIDE DEF j
<1>8. Service!Resolve(j) \/ Service!Lose({j})
  BY <1>6, <1>7 DEF Finish, j
<1> QED BY <1>8 DEF j

\* A crash loses the jobs its process builds.
LEMMA CrashLoses ==
  ASSUME Inv, NEW p \in Proc, Crash(p)
  PROVE  \E js \in SUBSET Job : Service!Lose(js)
<1> DEFINE Mine == {j \in Job : \E t \in Builders(j) : ProcOf[t] = p}
<1> USE JobsAssumption DEF Inv
<1>1. /\ status' = status
      /\ \A t \in Task : task'[t] = IF ProcOf[t] = p THEN "idle" ELSE task[t]
  BY DEF Crash, rowVars
<1>2. ASSUME NEW j \in Mine
      PROVE  StateOf(j) = "taken" /\ StateOf(j)' = "lost" /\ TakerOf(j)' = None
  <2>1. PICK t \in Task : JobOf[t] = j /\ task[t] = "build" /\ ProcOf[t] = p
    BY DEF Builders
  <2>2. Builders(j) = {t} /\ StateOf(j) = "taken" /\ status[j] = "claimed"
    BY <2>1, TakerIs DEF OneBuilder
  <2>3. Builders(j)' = {}
    BY <1>1, <2>1, <2>2 DEF Builders
  <2> QED BY <1>1, <2>2, <2>3 DEF StateOf, TakerOf
<1>3. ASSUME NEW j \in Job, j \notin Mine
      PROVE  StateOf(j)' = StateOf(j) /\ TakerOf(j)' = TakerOf(j)
  <2>1. Builders(j)' = Builders(j)
    BY <1>1, <1>3 DEF Builders
  <2> QED BY <1>1, <2>1, OtherJob
<1>4. Mine \in SUBSET Job
  OBVIOUS
<1> HIDE DEF Mine
<1>5. Service!Lose(Mine)
  BY <1>2, <1>3, <1>4 DEF Service!Lose
<1> QED BY <1>4, <1>5

LEMMA InitMeans == Init => Service!Init
<1> SUFFICES ASSUME Init PROVE Service!Init
  OBVIOUS
<1>1. \A j \in Job : Builders(j) = {}
  BY JobsAssumption DEF Init, Builders
<1>2. \A j \in Job : StateOf(j) = "none" /\ TakerOf(j) = None
  BY <1>1 DEF Init, StateOf, TakerOf
<1> QED BY <1>2 DEF Service!Init

LEMMA NextMeans == Inv /\ [Next]_vars => [Service!Next]_(Service!svars)
<1> SUFFICES ASSUME Inv, [Next]_vars PROVE Service!Next \/ UNCHANGED Service!svars
  OBVIOUS
<1>1. ASSUME NEW j \in Job, Create(j) PROVE Service!Next
  BY <1>1, CreateSubmits DEF Service!Next
<1>2. ASSUME NEW p \in Proc, Runs(p) \/ StartFails(p) \/ StreamEnds(p) \/ Start(p)
      PROVE  UNCHANGED Service!svars
  BY <1>2, LoopEffect, QuietMeans
<1>3. ASSUME NEW p \in Proc, Crash(p) PROVE Service!Next
  BY <1>3, CrashLoses DEF Service!Next
<1>4. ASSUME NEW t \in Task, Claims(t) \/ ClaimErrs(t) \/ Finish(t)
      PROVE  Service!Next \/ UNCHANGED Service!svars
  <2>1. JobOf[t] \in Job /\ {JobOf[t]} \in SUBSET Job
    BY JobsAssumption
  <2>2. CASE ClaimWins(t)
    BY <2>1, <2>2, ClaimTakes DEF Service!Next
  <2>3. CASE ClaimLoses(t)
    <3>1. SameBuilders /\ UNCHANGED rowVars
      BY <2>3 DEF ClaimLoses, Becomes, Inv, TypeOK, SameBuilders, rowVars
    <3> QED BY <3>1, QuietMeans
  <2>4. CASE ClaimErrs(t)
    BY <2>1, <2>4, ErrsMeans DEF Service!Next
  <2>5. CASE Finish(t)
    BY <2>1, <2>5, FinishMeans DEF Service!Next
  <2> QED BY <1>4, <2>2, <2>3, <2>4, <2>5 DEF Claims
<1>5. CASE UNCHANGED vars
  <2>1. SameBuilders /\ UNCHANGED rowVars
    BY <1>5 DEF vars, rowVars, SameBuilders
  <2> QED BY <2>1, QuietMeans
<1> QED BY <1>1, <1>2, <1>3, <1>4, <1>5 DEF Next

(***************************************************************************)
(* The workers implement JobService.                                       *)
(***************************************************************************)
THEOREM Refinement == Spec => ServesJobs
BY InitInv, NextInv, InitMeans, NextMeans, PTL DEF Spec, ServesJobs, Service!Spec

-----------------------------------------------------------------------------
(* Who forgets a job. *)

\* A notice, or a drain, leaves a task that will try.
LEMMA SpawnGivesChance ==
  ASSUME Inv, NEW p \in Proc, NEW js \in SUBSET Job, Spawns(p, js),
         NEW j \in js, Eligible(p, j), status[j] = "pending", UNCHANGED rowVars
  PROVE  Chance(j)'
<1> USE JobsAssumption DEF Inv
<1> SUFFICES \E t \in Task : JobOf[t] = j /\ ProcOf[t] = p /\ task'[t] = "claim"
  BY DEF Chance, Eligible
<1>1. CASE \E t \in Task : ProcOf[t] = p /\ JobOf[t] = j /\ task[t] = "idle"
  <2> DEFINE t == CHOOSE u \in Task : ProcOf[u] = p /\ JobOf[u] = j /\ task[u] = "idle"
  <2>1. t \in Task /\ ProcOf[t] = p /\ JobOf[t] = j /\ task[t] = "idle"
    BY <1>1
  <2>2. t \in Spawned(p, js)
    BY <2>1 DEF Spawned
  <2>3. task'[t] = "claim"
    BY <2>1, <2>2 DEF Spawns
  <2> QED BY <2>1, <2>3
<1>2. CASE ~ \E t \in Task : ProcOf[t] = p /\ JobOf[t] = j /\ task[t] = "idle"
  <2>1. PICK t \in Task : ProcOf[t] = p /\ JobOf[t] = j
    BY TasksAssumption DEF Eligible
  <2>2. task[t] = "claim"
    BY <1>2, <2>1 DEF TypeOK, OneBuilder
  <2>3. task'[t] = "claim"
    BY <2>2 DEF Spawns
  <2> QED BY <2>1, <2>3
<1> QED BY <1>1, <1>2

\* Without a spawned task, a chance lives on in phases, notices and tasks.
LEMMA ChanceKept ==
  ASSUME NEW j \in Job, Chance(j),
         \A p \in Proc : Eligible(p, j) =>
           /\ phase[p] \in {"backoff", "drain", "ended"}
                => phase'[p] \in {"backoff", "drain", "ended"}
           /\ j \in notices[p] => j \in notices'[p],
         \A t \in Task : JobOf[t] = j /\ task[t] = "claim" /\ Eligible(ProcOf[t], j)
           => task'[t] = "claim"
  PROVE  Chance(j)'
BY DEF Chance, Eligible

\* The loop's steps that are no faults pass the chance on.
LEMMA LoopKeepsChance ==
  ASSUME Inv, NEW p \in Proc, Runs(p) \/ Start(p), faults' = faults,
         NEW j \in Job, status[j] = "pending", Chance(j)
  PROVE  Chance(j)'
<1> USE JobsAssumption DEF Inv
<1>0. UNCHANGED rowVars
  BY LoopEffect
<1>1. CASE Restart(p) \/ Subscribe(p) \/ Bail(p) \/ Start(p)
  BY <1>1, ChanceKept DEF Restart, Subscribe, Bail, Start, Enters, TypeOK
<1>2. CASE Drain(p)
  <2>1. Spawns(p, {k \in Job : Claimable(p, k)}) /\ notices' = notices
    BY <1>2 DEF Drain, Fault, TypeOK
  <2>2. CASE Eligible(p, j)
    <3>1. j \in {k \in Job : Claimable(p, k)}
      BY <2>2 DEF Claimable
    <3> QED BY <1>0, <2>1, <2>2, <3>1, SpawnGivesChance
  <2>3. CASE ~Eligible(p, j)
    <3>1. \A t \in Task : task[t] = "claim" => task'[t] = "claim"
      BY <2>1 DEF Spawns
    <3> QED BY <1>2, <2>1, <2>3, <3>1, ChanceKept DEF Drain, Enters, TypeOK
  <2> QED BY <2>2, <2>3
<1>3. ASSUME NEW k \in Job, Receive(p, k) PROVE Chance(j)'
  <2>1. Spawns(p, {k}) /\ phase' = phase
    BY <1>3 DEF Receive
  <2>2. CASE k = j /\ Eligible(p, j)
    BY <1>0, <2>1, <2>2, SpawnGivesChance
  <2>3. CASE ~(k = j /\ Eligible(p, j))
    <3>1. \A t \in Task : task[t] = "claim" => task'[t] = "claim"
      BY <2>1 DEF Spawns
    <3>2. \A q \in Proc : Eligible(q, j) /\ j \in notices[q] => j \in notices'[q]
      BY <1>3, <2>3 DEF Receive, TypeOK
    <3> QED BY <2>1, <3>1, <3>2, ChanceKept
  <2> QED BY <2>2, <2>3
<1> QED BY <1>1, <1>2, <1>3 DEF Runs

LEMMA NextForgets == Inv /\ [Next]_vars => ForgetsUnheard
<1> SUFFICES ASSUME Inv, [Next]_vars,
                    NEW j \in Job, Forgotten(j)', ~Forgotten(j), ~(faults' > faults)
             PROVE  status[j] = "none" /\ Unheard(j)
  BY DEF ForgetsUnheard
<1> USE JobsAssumption DEF Inv
<1>0. status'[j] = "pending" /\ ~Chance(j)' /\ (status[j] = "pending" => Chance(j))
  BY DEF Forgotten
<1>1. ~Fault
  BY DEF Fault, TypeOK
<1>2. ASSUME NEW k \in Job, Create(k)
      PROVE  status[j] = "none" /\ Unheard(j)
  <2>1. status[j] # "pending"
    BY <1>0, <1>2, ChanceKept DEF Create, TypeOK
  <2>2. k = j /\ status[j] = "none"
    BY <1>0, <1>2, <2>1 DEF Create, TypeOK
  <2>3. ASSUME NEW p \in Proc, Eligible(p, j), phase[p] \notin {"crashed", "subscribe"},
               ~(phase[p] = "live" /\ ~Hears(p, j))
        PROVE  FALSE
    <3>1. phase'[p] = phase[p] /\ (phase[p] = "live" => j \in notices'[p])
      BY <1>2, <2>2, <2>3 DEF Create, TypeOK
    <3> QED BY <1>0, <2>3, <3>1 DEF Chance, Eligible, TypeOK
  <2> QED BY <2>2, <2>3 DEF Unheard
<1>3. ASSUME NEW p \in Proc, Runs(p) \/ Start(p) PROVE FALSE
  <2>1. status' = status
    BY <1>3, LoopEffect DEF rowVars
  <2>2. faults' = faults
    BY <1>1, <1>3 DEF Runs, Start, Drain, Restart, Subscribe, Bail, Receive
  <2> QED BY <1>0, <1>3, <2>1, <2>2, LoopKeepsChance
<1>4. ASSUME NEW p \in Proc, StartFails(p) \/ StreamEnds(p) \/ Crash(p) PROVE FALSE
  BY <1>1, <1>4 DEF StartFails, StreamEnds, Crash
<1>5. ASSUME NEW t \in Task, Claims(t) \/ ClaimErrs(t) \/ Finish(t) PROVE FALSE
  <2>1. CASE ClaimWins(t)
    <3>1. JobOf[t] # j /\ status'[j] = status[j]
      BY <1>0, <2>1 DEF ClaimWins, Claimed, TypeOK
    <3> QED BY <1>0, <2>1, <3>1, ChanceKept DEF ClaimWins, Becomes, TypeOK
  <2>2. CASE ClaimLoses(t)
    <3>1. status[j] = "pending" /\ notices' = notices /\ phase' = phase
      BY <1>0, <2>2 DEF ClaimLoses, rowVars
    <3>2. JobOf[t] = j => ~Eligible(ProcOf[t], j)
      BY <2>2, <3>1 DEF ClaimLoses, Claimable, Worker
    <3> QED BY <1>0, <2>2, <3>1, <3>2, ChanceKept DEF ClaimLoses, Becomes, TypeOK
  <2>3. CASE Finish(t)
    <3>1. JobOf[t] # j /\ status'[j] = status[j]
      BY <1>0, <1>1, <2>3 DEF Finish, Becomes, OneBuilder, TypeOK
    <3> QED BY <1>0, <2>3, <3>1, ChanceKept DEF Finish, Becomes, TypeOK
  <2> QED BY <1>1, <1>5, <2>1, <2>2, <2>3 DEF Claims, ClaimErrs
<1>6. CASE UNCHANGED vars
  BY <1>0, <1>6, ChanceKept DEF vars, rowVars
<1> QED BY <1>2, <1>3, <1>4, <1>5, <1>6 DEF Next

(***************************************************************************)
(* Only a fault, or a submission that no worker which may take the job     *)
(* hears, leaves a pending job without anybody who will claim it.          *)
(***************************************************************************)
THEOREM OnlyUnheard == Spec => OnlyUnheardAreForgotten
BY InitInv, NextInv, NextForgets, PTL DEF Spec, OnlyUnheardAreForgotten
=============================================================================
