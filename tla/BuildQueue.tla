------------------------------ MODULE BuildQueue ------------------------------
(***************************************************************************)
(* Remote plugin builds (plugin_builder/src/db_mode.rs over the build_job  *)
(* table of database/src/schema/build_job.rs).  A worker process drains    *)
(* the jobs already pending, subscribes to new ones, and gives every job   *)
(* it hears of to a task of its own, which claims the row and builds it.   *)
(* A process whose stream ends starts over after a backoff while its old   *)
(* tasks go on; a crash takes them along.                                  *)
(*                                                                         *)
(* The source's 'pending' and 'pending_multifile' are one status here, and *)
(* a task of a process for a job that already has Copies tasks waiting for *)
(* its claim is left out: it could only lose the same claim once more.     *)
(***************************************************************************)
EXTENDS Naturals, FiniteSets

CONSTANTS
  Job, Proc, Host,
  Task,            \* the tokio tasks, each of one process and for one job
  ProcOf, JobOf,   \* [Task -> Proc], [Task -> Job]
  HostOf,          \* [Proc -> Host]: the worker id is derived from the hostname
  Pin,             \* [Job -> Host \cup {None}]: assigned_worker_id
  None,
  MaxFaults        \* bound: crashes, ended streams and failed database calls

ASSUME JobsAssumption ==
  /\ ProcOf \in [Task -> Proc] /\ JobOf \in [Task -> Job]
  /\ HostOf \in [Proc -> Host] /\ Pin \in [Job -> Host \cup {None}]
  /\ None \notin Host \cup Task
  /\ MaxFaults \in Nat

\* A process can spawn a task for any job it may hear of.
ASSUME TasksAssumption ==
  \A p \in Proc, j \in Job : Pin[j] \in {None, HostOf[p]} =>
    \E t \in Task : ProcOf[t] = p /\ JobOf[t] = j

VARIABLES
  status,    \* build_job.status, "none" before CREATE
  claimer,   \* build_job.claimed_worker_id
  phase,     \* where a process is in db_mode::run
  notices,   \* live notifications of a process not yet received
  task,      \* what each task does
  faults     \* how many faults have happened

rowVars == <<status, claimer>>
vars    == <<rowVars, phase, notices, task, faults>>

TypeOK ==
  /\ status \in [Job -> {"none", "pending", "claimed", "done", "failed"}]
  /\ claimer \in [Job -> Host \cup {None}]
  /\ \A j \in Job : claimer[j] = None <=> status[j] \in {"none", "pending"}
  /\ phase \in [Proc -> {"crashed", "backoff", "drain", "subscribe", "live", "ended"}]
  /\ notices \in [Proc -> SUBSET Job]
  /\ task \in [Task -> {"idle", "claim", "build"}]
  /\ faults \in 0..MaxFaults

Init ==
  /\ status = [j \in Job |-> "none"]
  /\ claimer = [j \in Job |-> None]
  /\ phase = [p \in Proc |-> "drain"]
  /\ notices = [p \in Proc |-> {}]
  /\ task = [t \in Task |-> "idle"]
  /\ faults = 0

\* The WHERE clause of the claim and the drain, which bind the worker's record id.
Eligible(p, j)  == Pin[j] \in {None, HostOf[p]}
Claimable(p, j) == status[j] = "pending" /\ Eligible(p, j)

Fault == faults < MaxFaults /\ faults' = faults + 1
Enters(p, from, to) == phase[p] = from /\ phase' = [phase EXCEPT ![p] = to]

-----------------------------------------------------------------------------
(* The submitter: CREATE, and the database notifies the open subscriptions. *)

\* LIVE_QUERY reads like the other two, but its $worker is bound as the JSON object
\* {table, key}, which no assigned_worker_id equals: only unpinned jobs are announced.
Hears(p, j) == phase[p] = "live" /\ Pin[j] = None

Create(j) ==
  /\ status[j] = "none"
  /\ status' = [status EXCEPT ![j] = "pending"]
  /\ notices' = [p \in Proc |-> IF Hears(p, j) THEN notices[p] \cup {j} ELSE notices[p]]
  /\ UNCHANGED <<claimer, phase, task, faults>>

-----------------------------------------------------------------------------
(* db_mode::run, a step per await. *)

\* A task per job, while the process has one to spare.
Spawned(p, js) ==
  {t \in Task : /\ ProcOf[t] = p /\ JobOf[t] \in js /\ task[t] = "idle"
                /\ t = CHOOSE u \in Task : ProcOf[u] = p /\ JobOf[u] = JobOf[t]
                                           /\ task[u] = "idle"}
Spawns(p, js) ==
  task' = [t \in Task |-> IF t \in Spawned(p, js) THEN "claim" ELSE task[t]]

\* drain_pending; when its query fails the worker subscribes all the same.
Drain(p) ==
  /\ Enters(p, "drain", "subscribe")
  /\ \/ Spawns(p, {j \in Job : Claimable(p, j)}) /\ UNCHANGED faults
     \/ Fault /\ UNCHANGED task
  /\ UNCHANGED <<rowVars, notices>>

\* Mutant: the stream's jobs are drained before the subscription only once.
Restart_NoDrain(p) ==
  /\ Enters(p, "backoff", "subscribe")
  /\ UNCHANGED <<rowVars, notices, task, faults>>

\* The outer loop calls run again after RECONNECT_BACKOFF.
Restart(p) ==
  /\ Enters(p, "backoff", "drain")
  /\ UNCHANGED <<rowVars, notices, task, faults>>

\* init_database or upsert_self fails: run returns before it drains.
StartFails(p) ==
  /\ Fault
  /\ Enters(p, "drain", "backoff")
  /\ UNCHANGED <<rowVars, notices, task>>

\* The LIVE SELECT is in force.
Subscribe(p) ==
  /\ Enters(p, "subscribe", "live")
  /\ UNCHANGED <<rowVars, notices, task, faults>>

\* The subscription fails or its stream ends: the channel's sender is dropped.
StreamEnds(p) ==
  /\ Fault
  /\ Enters(p, "subscribe", "ended") \/ Enters(p, "live", "ended")
  /\ UNCHANGED <<rowVars, notices, task>>

\* event_loop: a notice gets a task.  The database may send Create and Update
\* for one change, so the notice may come again.
Receive(p, j) ==
  /\ phase[p] \in {"live", "ended"} /\ j \in notices[p]
  /\ Spawns(p, {j})
  /\ \/ notices' = [notices EXCEPT ![p] = @ \ {j}]
     \/ phase[p] = "live" /\ Spawned(p, {j}) # {} /\ UNCHANGED notices
  /\ UNCHANGED <<rowVars, phase, faults>>

\* Mutant: a disconnected channel is taken for an empty one.
Bail_Never(p) ==
  /\ Enters(p, "ended", "ended")
  /\ UNCHANGED <<rowVars, notices, task, faults>>

\* The drained channel is disconnected: run returns.
Bail(p) ==
  /\ notices[p] = {}
  /\ Enters(p, "ended", "backoff")
  /\ UNCHANGED <<rowVars, notices, task, faults>>

Crash(p) ==
  /\ Fault
  /\ phase[p] # "crashed"
  /\ phase' = [phase EXCEPT ![p] = "crashed"]
  /\ notices' = [notices EXCEPT ![p] = {}]
  /\ task' = [t \in Task |-> IF ProcOf[t] = p THEN "idle" ELSE task[t]]
  /\ UNCHANGED rowVars

Start(p) ==
  /\ Enters(p, "crashed", "drain")
  /\ UNCHANGED <<rowVars, notices, task, faults>>

-----------------------------------------------------------------------------
(* process_job. *)

Worker(t) == ProcOf[t]
Becomes(t, from, to) == task[t] = from /\ task' = [task EXCEPT ![t] = to]

\* Mutant: the claim does not check the status.
Claimed_Unguarded(t) ==
  /\ status' = [status EXCEPT ![JobOf[t]] = "claimed"]
  /\ claimer' = [claimer EXCEPT ![JobOf[t]] = HostOf[Worker(t)]]

\* Mutant: the claim does not say who made it.
Claimed_Anonymous(t) ==
  /\ Claimable(Worker(t), JobOf[t])
  /\ status' = [status EXCEPT ![JobOf[t]] = "claimed"]
  /\ UNCHANGED claimer

\* The guarded UPDATE finds the row.
Claimed(t) ==
  /\ Claimable(Worker(t), JobOf[t])
  /\ status' = [status EXCEPT ![JobOf[t]] = "claimed"]
  /\ claimer' = [claimer EXCEPT ![JobOf[t]] = HostOf[Worker(t)]]

ClaimWins(t) ==
  /\ Becomes(t, "claim", "build")
  /\ Claimed(t)
  /\ UNCHANGED <<phase, notices, faults>>

\* Mutant: a claim that found no row is taken for a claim.
ClaimLoses_Builds(t) ==
  /\ Becomes(t, "claim", "build")
  /\ ~Claimable(Worker(t), JobOf[t])
  /\ UNCHANGED <<rowVars, phase, notices, faults>>

\* Another worker, or another task of this one, took the job.
ClaimLoses(t) ==
  /\ Becomes(t, "claim", "idle")
  /\ ~Claimable(Worker(t), JobOf[t])
  /\ UNCHANGED <<rowVars, phase, notices, faults>>

\* The claim, or the answer to a claim that went through, is lost.
ClaimErrs(t) ==
  /\ Fault
  /\ Becomes(t, "claim", "idle")
  /\ Claimed(t) \/ UNCHANGED rowVars
  /\ UNCHANGED <<phase, notices>>

\* run_and_record: finish_success or finish_failure, neither of them guarded; a
\* write that fails is logged.
Finish(t) ==
  /\ Becomes(t, "build", "idle")
  /\ \/ \E to \in {"done", "failed"} :
          status' = [status EXCEPT ![JobOf[t]] = to] /\ UNCHANGED faults
     \/ Fault /\ UNCHANGED status
  /\ UNCHANGED <<claimer, phase, notices>>

-----------------------------------------------------------------------------
Runs(p)   == Drain(p) \/ Restart(p) \/ Subscribe(p) \/ Bail(p) \/ \E j \in Job : Receive(p, j)
Claims(t) == ClaimWins(t) \/ ClaimLoses(t)

Next ==
  \/ \E j \in Job : Create(j)
  \/ \E p \in Proc : Runs(p) \/ StartFails(p) \/ StreamEnds(p) \/ Crash(p) \/ Start(p)
  \/ \E t \in Task : Claims(t) \/ ClaimErrs(t) \/ Finish(t)

Spec == Init /\ [][Next]_vars

(***************************************************************************)
(* Fairness: a process that runs goes on, and a task makes its claim.      *)
(* Nothing bounds a compile, so a build need not end; nobody has to        *)
(* restart a process that crashed, and nobody has to submit jobs.          *)
(***************************************************************************)
FairSpec ==
  /\ Spec
  /\ \A p \in Proc : /\ WF_vars(Drain(p) \/ Restart(p) \/ Subscribe(p) \/ Bail(p))
                     /\ \A j \in Job : SF_vars(Receive(p, j) /\ notices' # notices)
  /\ \A t \in Task : WF_vars(Claims(t))

-----------------------------------------------------------------------------
(* Properties. *)

(***************************************************************************)
(* "Claiming is race-safe": however many workers, notices and restarts     *)
(* announce a job, one task builds it, on the host its row names, and the  *)
(* row stays claimed until that task is done.                              *)
(***************************************************************************)
OneBuilder ==
  \A t \in Task : task[t] = "build" =>
    /\ status[JobOf[t]] = "claimed"
    /\ claimer[JobOf[t]] = HostOf[ProcOf[t]]
    /\ \A u \in Task : task[u] = "build" /\ JobOf[u] = JobOf[t] => u = t

Builders(j) == {t \in Task : JobOf[t] = j /\ task[t] = "build"}

\* A claimed job without a builder stays that way.
StateOf(j) == IF status[j] # "claimed" THEN status[j]
              ELSE IF Builders(j) = {} THEN "lost" ELSE "taken"
TakerOf(j) == IF Builders(j) = {} THEN None ELSE CHOOSE t \in Builders(j) : TRUE

Service == INSTANCE JobService WITH
  Taker   <- Task,
  MayTake <- [j \in Job |-> {t \in Task : JobOf[t] = j /\ Eligible(ProcOf[t], j)}],
  state   <- [j \in Job |-> StateOf(j)],
  taker   <- [j \in Job |-> TakerOf(j)]

(***************************************************************************)
(* The workers serve jobs as JobService says: taken once and by who may,   *)
(* resolved by their taker, and lost for good with it.                     *)
(***************************************************************************)
ServesJobs == Service!Spec

\* Something in the running system will still try to claim the job.
Chance(j) ==
  \/ \E p \in Proc : /\ Eligible(p, j)
                     /\ \/ phase[p] \in {"backoff", "drain", "ended"}
                        \/ j \in notices[p]
  \/ \E t \in Task : JobOf[t] = j /\ task[t] = "claim" /\ Eligible(ProcOf[t], j)

Forgotten(j) == status[j] = "pending" /\ ~Chance(j)

\* No worker that may take the job is at work on the rows or hears of it.
Unheard(j) ==
  \A p \in Proc : Eligible(p, j) =>
    phase[p] \in {"crashed", "subscribe"} \/ (phase[p] = "live" /\ ~Hears(p, j))

ForgetsUnheard ==
  \A j \in Job : Forgotten(j)' /\ ~Forgotten(j) =>
    faults' > faults \/ (status[j] = "none" /\ Unheard(j))

(***************************************************************************)
(* A pending job loses its last chance of being claimed in two ways only:  *)
(* a fault (a crash, a failed call), or a submission that no worker which  *)
(* may take it hears: it is down, in the gap between drain_pending and the *)
(* subscription, or subscribed while the job is pinned.  Such a job waits  *)
(* for the next restart of a worker's loop.                                *)
(***************************************************************************)
OnlyUnheardAreForgotten == [][ForgetsUnheard]_vars

(***************************************************************************)
(* A pending job is claimed, unless it is forgotten as above.              *)
(***************************************************************************)
PendingIsClaimed ==
  \A j \in Job : status[j] = "pending" ~> (status[j] # "pending" \/ Forgotten(j))
=============================================================================
