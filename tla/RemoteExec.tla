------------------------------ MODULE RemoteExec ------------------------------
(***************************************************************************)
(* Long-running jobs of an agent (Mastertech4.0, remote_exec): the consent *)
(* gate, the registry of jobs, the driver task of each job with the        *)
(* processes it owns, the ring that keeps the job's output, and the        *)
(* admin's remote_exec_wait, which pages through the ring of one job.      *)
(*                                                                         *)
(* Job ids are fresh uuids, so a job is started at most once.  Chunks have *)
(* one size, except that the last drain may hand over more than the ring   *)
(* holds.  Redacted jobs, detach (which changes nothing), the journal and  *)
(* the counts of elided bytes are left out; what a process does is         *)
(* external.                                                               *)
(***************************************************************************)
EXTENDS Naturals, FiniteSets

CONSTANTS
  Job,
  MaxRunning,   \* MAX_CONCURRENT_JOBS
  Mishaps,      \* what may befall a job: "spawn" or "nest" fails, it may "fork"
  Chunks,       \* the chunks a job's processes write before it is drained (bound)
  RingChunks,   \* what the ring holds
  OutputCap,    \* WAIT_OUTPUT_CAP
  Tailed        \* the job that the admin waits for

ASSUME JobAssumption ==
  /\ Mishaps \in [Job -> SUBSET {"spawn", "nest", "fork"}]
  /\ Chunks \in [Job -> Nat]
  /\ MaxRunning \in Nat /\ RingChunks \in Nat \ {0} /\ OutputCap \in Nat
  /\ Tailed \in Job

VARIABLES
  gate,     \* GATE: shut, armed, shown (the banner painted just now) or lapsed
  ending,   \* an end of session has cancelled the jobs and not shut the gate yet
  state,    \* JobState; before: new, admitted (past the gate) or denied; after: gone
  cancel,   \* JobHandle.cancel
  driver,   \* exec_shell::run
  outcome,  \* its JobOutcome
  child,    \* the interpreter (external)
  helper,   \* a process it left behind: holds its pipes or not (external)
  tree,     \* what is in the Win32 job object
  next,     \* LogRing.next_seq
  oldest,   \* the oldest chunk in the ring
  wait,     \* remote_exec_wait: off, polls, or what it returned
  late,     \* its deadline has passed
  cursor,   \* from_seq
  got,      \* the chunks it has collected
  told,     \* what its result says of them: "lost", "more"
  ended,    \* history: the gate was shut by an end of session
  missed    \* history: the jobs past the gate that its cancel_all did not see

gateVars == <<gate, ending, ended, missed>>
procVars == <<child, helper, tree>>
ringVars == <<next, oldest>>
waitVars == <<wait, late, cursor, got, told>>
jobVars  == <<state, cancel, driver, outcome, procVars, ringVars>>
vars     == <<gateVars, jobVars, waitVars>>

Terminal == {"succeeded", "failed", "cancelled", "timedout"}
Active   == {j \in Job : state[j] \in {"queued", "running"}}
Known(j) == state[j] \in {"queued", "running"} \cup Terminal
Output(j) == {c \in 0..next[j] : c < next[j]}

TypeOK ==
  /\ gate \in {"shut", "armed", "shown", "lapsed"}
  /\ ending \in BOOLEAN /\ ended \in BOOLEAN /\ missed \in SUBSET Job
  /\ state \in [Job -> {"new", "admitted", "denied", "queued", "running", "gone"} \cup Terminal]
  /\ Cardinality(Active) <= MaxRunning
  /\ cancel \in [Job -> BOOLEAN]
  /\ driver \in [Job -> {"off", "stage", "assign", "check", "clock", "select", "drain"}]
  /\ \A j \in Job : driver[j] # "off" <=> j \in Active
  /\ outcome \in [Job -> {"none", "exited", "cancelled", "timedout"}]
  /\ child \in [Job -> {"none", "alive", "dead"}]
  /\ helper \in [Job -> {"none", "holds", "quiet", "dead"}]
  /\ tree \in [Job -> SUBSET {"child", "helper"}]
  /\ next \in [Job -> Nat] /\ oldest \in [Job -> Nat]
  /\ \A j \in Job : oldest[j] <= next[j]
  /\ wait \in {"off", "polls", "terminal", "running", "error"}
  /\ late \in BOOLEAN /\ cursor \in 0..next[Tailed] /\ got \subseteq Output(Tailed)
  /\ told \subseteq {"lost", "more"}

Init ==
  /\ gate = "shut" /\ ending = FALSE /\ ended = FALSE /\ missed = {}
  /\ state = [j \in Job |-> "new"] /\ driver = [j \in Job |-> "off"]
  /\ cancel = [j \in Job |-> FALSE] /\ outcome = [j \in Job |-> "none"]
  /\ child = [j \in Job |-> "none"] /\ helper = [j \in Job |-> "none"]
  /\ tree = [j \in Job |-> {}]
  /\ next = [j \in Job |-> 0] /\ oldest = [j \in Job |-> 0]
  /\ wait = "off" /\ late = FALSE /\ cursor = 0 /\ got = {} /\ told = {}

-----------------------------------------------------------------------------
(* The consent gate. *)

Arm ==
  /\ gate' = "armed" /\ ended' = FALSE
  /\ UNCHANGED <<ending, missed, jobVars, waitVars>>

\* A frame with the banner; a banner that stays away; the end of the lease, which the
\* next command that asks the gate notices.
Paint  == gate = "armed" /\ gate' = "shown"
Stale  == gate = "shown" /\ gate' = "armed"
Lapse  == gate \in {"armed", "shown"} /\ gate' = "lapsed"
Notice == gate = "lapsed" /\ gate' = "shut"

Lease ==
  /\ Paint \/ Stale \/ Lapse \/ Notice
  /\ UNCHANGED <<ending, ended, missed, jobVars, waitVars>>

\* disarm that leaves the jobs running.
Disarm ==
  /\ gate # "shut" /\ gate' = "shut" /\ ended' = FALSE
  /\ UNCHANGED <<ending, missed, jobVars, waitVars>>

-----------------------------------------------------------------------------
(* The processes of a job. *)

\* The job objects of the jobs in S are terminated.
Dies(S) ==
  /\ child' = [j \in Job |-> IF j \in S /\ "child" \in tree[j] THEN "dead" ELSE child[j]]
  /\ helper' = [j \in Job |-> IF j \in S /\ "helper" \in tree[j] THEN "dead" ELSE helper[j]]
  /\ UNCHANGED tree

ChildForks(j) ==
  /\ child[j] = "alive" /\ helper[j] = "none" /\ "fork" \in Mishaps[j]
  /\ \E kind \in {"holds", "quiet"} : helper' = [helper EXCEPT ![j] = kind]
  /\ tree' = [tree EXCEPT ![j] = IF "child" \in @ THEN @ \cup {"helper"} ELSE @]
  /\ UNCHANGED child

ChildExits(j) ==
  /\ child[j] = "alive" /\ child' = [child EXCEPT ![j] = "dead"]
  /\ UNCHANGED <<helper, tree>>

HelperExits(j) ==
  /\ helper[j] \in {"holds", "quiet"} /\ helper' = [helper EXCEPT ![j] = "dead"]
  /\ UNCHANGED <<child, tree>>

Process(j) ==
  /\ ChildForks(j) \/ ChildExits(j) \/ HelperExits(j)
  /\ UNCHANGED <<gateVars, state, cancel, driver, outcome, ringVars, waitVars>>

-----------------------------------------------------------------------------
(* The registry. *)

\* start, up to the gate.
Admit(j) ==
  /\ state[j] = "new"
  /\ \/ /\ gate = "shown" /\ gate' = gate
        /\ state' = [state EXCEPT ![j] = "admitted"]
        /\ missed' = IF ending THEN missed \cup {j} ELSE missed
     \/ /\ gate # "shown" /\ gate' = IF gate = "lapsed" THEN "shut" ELSE gate
        /\ state' = [state EXCEPT ![j] = "denied"]
        /\ UNCHANGED missed
  /\ UNCHANGED <<ending, ended, cancel, driver, outcome, procVars, ringVars, waitVars>>

\* sweep: terminal jobs that are old enough go, and their job objects with them.
Sweeps(S) == S \subseteq {k \in Job : state[k] \in Terminal}
Swept(S) == [k \in Job |-> IF k \in S THEN "gone" ELSE state[k]]

\* Mutant: the cap is checked after one too many.
HasRoom_OffByOne == Cardinality(Active) <= MaxRunning

HasRoom == Cardinality(Active) < MaxRunning

\* start, past the gate: the cap, and the driver task.
Register(j) ==
  /\ state[j] = "admitted"
  /\ \E S \in SUBSET Job :
       /\ Sweeps(S) /\ Dies(S)
       /\ \/ /\ HasRoom
             /\ state' = [Swept(S) EXCEPT ![j] = "queued"]
             /\ driver' = [driver EXCEPT ![j] = "stage"]
          \/ /\ ~HasRoom
             /\ state' = [Swept(S) EXCEPT ![j] = "denied"]
             /\ driver' = driver
  /\ UNCHANGED <<gateVars, cancel, outcome, ringVars, waitVars>>

\* signal, cancel and kill alike.
Signal(j) ==
  /\ Known(j) /\ cancel' = [cancel EXCEPT ![j] = TRUE]
  /\ Dies({j})
  /\ UNCHANGED <<gateVars, state, driver, outcome, ringVars, waitVars>>

\* Mutant: a job whose process is not up yet is passed over.
CancelAll_Running == {j \in Job : state[j] = "running"}

\* cancel_all.
CancelAll == Active

\* end_session and a disarm that kills: the jobs first, then the gate.
EndSession ==
  /\ ~ending /\ ending' = TRUE
  /\ cancel' = [j \in Job |-> cancel[j] \/ j \in CancelAll]
  /\ Dies(CancelAll)
  /\ missed' = {j \in Job : state[j] = "admitted"}
  /\ UNCHANGED <<gate, ended, state, driver, outcome, ringVars, waitVars>>

ShutGate ==
  /\ ending /\ ending' = FALSE
  /\ gate' = "shut" /\ ended' = TRUE
  /\ UNCHANGED <<missed, jobVars, waitVars>>

-----------------------------------------------------------------------------
(* The driver of a job (exec_shell::run). *)

\* push: a chunk of the usual size, or one that is larger than the ring.
Push(j, big) ==
  /\ next' = [next EXCEPT ![j] = @ + 1]
  /\ oldest' = [oldest EXCEPT ![j] =
       IF big THEN next[j] + 1 ELSE IF next[j] + 1 - @ > RingChunks THEN @ + 1 ELSE @]

Finish(j, st) ==
  /\ state' = [state EXCEPT ![j] = st]
  /\ driver' = [driver EXCEPT ![j] = "off"]

SpawnFails(j) ==
  /\ driver[j] = "stage" /\ "spawn" \in Mishaps[j]
  /\ Push(j, FALSE) /\ Finish(j, "failed")
  /\ UNCHANGED <<cancel, outcome, procVars>>

Spawn(j) ==
  /\ driver[j] = "stage" /\ driver' = [driver EXCEPT ![j] = "assign"]
  /\ state' = [state EXCEPT ![j] = "running"]
  /\ child' = [child EXCEPT ![j] = "alive"]
  /\ UNCHANGED <<cancel, outcome, helper, tree, ringVars>>

\* Into the job object, unless Windows refuses to nest it or the process is gone.
Assign(j) ==
  /\ driver[j] = "assign" /\ driver' = [driver EXCEPT ![j] = "check"]
  /\ \/ child[j] = "alive" /\ tree' = [tree EXCEPT ![j] = @ \cup {"child"}]
     \/ (child[j] = "dead" \/ "nest" \in Mishaps[j]) /\ UNCHANGED tree
  /\ UNCHANGED <<state, cancel, outcome, child, helper, ringVars>>

\* Mutant: only the interpreter is killed.
Kills_ChildOnly(j) == child' = [child EXCEPT ![j] = "dead"] /\ UNCHANGED helper

\* Mutant: only the job object is terminated.
Kills_TreeOnly(j) ==
  /\ child' = [child EXCEPT ![j] = IF "child" \in tree[j] THEN "dead" ELSE @]
  /\ helper' = [helper EXCEPT ![j] = IF "helper" \in tree[j] THEN "dead" ELSE @]

\* terminate and start_kill.
Kills(j) ==
  /\ child' = [child EXCEPT ![j] = "dead"]
  /\ helper' = [helper EXCEPT ![j] = IF "helper" \in tree[j] THEN "dead" ELSE @]

Stops(j, as) ==
  /\ outcome[j] = "none" /\ outcome' = [outcome EXCEPT ![j] = as]
  /\ Kills(j)

\* The top of the loop: first the flag, then the wall clock and the silence.
CheckFlag(j) ==
  /\ driver[j] = "check" /\ driver' = [driver EXCEPT ![j] = "clock"]
  /\ \/ cancel[j] /\ Stops(j, "cancelled")
     \/ (~cancel[j] \/ outcome[j] # "none") /\ UNCHANGED <<outcome, child, helper>>
  /\ UNCHANGED <<state, cancel, tree, ringVars>>

\* Mutant: a silent job is given time for ever.
TimesOut_Never(j) == FALSE

TimesOut(j) ==
  /\ driver[j] = "clock" /\ driver' = [driver EXCEPT ![j] = "select"]
  /\ Stops(j, "timedout") /\ Push(j, FALSE)
  /\ UNCHANGED <<state, cancel, tree>>

InTime(j) ==
  /\ driver[j] = "clock" /\ driver' = [driver EXCEPT ![j] = "select"]
  /\ UNCHANGED <<state, cancel, outcome, procVars, ringVars>>

\* select: output, the exit, or a quarter of a second.
Reads(j) ==
  /\ driver[j] = "select" /\ driver' = [driver EXCEPT ![j] = "check"]
  /\ child[j] = "alive" \/ helper[j] = "holds"
  /\ next[j] < Chunks[j] /\ Push(j, FALSE)
  /\ UNCHANGED <<state, cancel, outcome, procVars>>

Exits(j) ==
  /\ driver[j] = "select" /\ driver' = [driver EXCEPT ![j] = "drain"]
  /\ child[j] = "dead"
  /\ outcome' = [outcome EXCEPT ![j] = IF @ = "none" THEN "exited" ELSE @]
  /\ UNCHANGED <<state, cancel, procVars, ringVars>>

Sleeps(j) ==
  /\ driver[j] = "select" /\ driver' = [driver EXCEPT ![j] = "check"]
  /\ child[j] = "alive"
  /\ UNCHANGED <<state, cancel, outcome, procVars, ringVars>>

\* Mutant: the record is written before the pipes are drained.
Drained_AtOnce(j) == TRUE

\* read_to_end returns when no process holds the other end.
Drained(j) == helper[j] # "holds"

Verdicts(j) == IF outcome[j] = "exited" THEN {"succeeded", "failed"} ELSE {outcome[j]}

\* What the pipes still held, as one chunk, then the exit record.
Drain(j) ==
  /\ driver[j] = "drain" /\ Drained(j)
  /\ \/ UNCHANGED ringVars
     \/ Chunks[j] > 0 /\ \E big \in BOOLEAN : Push(j, big)
  /\ \E st \in Verdicts(j) : Finish(j, st)
  /\ UNCHANGED <<cancel, outcome, procVars>>

DriverStep(j) ==
  /\ \/ SpawnFails(j) \/ Spawn(j) \/ Assign(j) \/ CheckFlag(j) \/ TimesOut(j) \/ InTime(j)
     \/ Reads(j) \/ Exits(j) \/ Sleeps(j) \/ Drain(j)
  /\ UNCHANGED <<gateVars, waitVars>>

\* The agent's process ends and is started again: nothing is left of the registry,
\* the handles of the job objects are closed, and no job is resumed.
Restart ==
  /\ \E j \in Job : Known(j)
  /\ gate' = "shut" /\ ending' = FALSE /\ ended' = FALSE /\ missed' = {}
  /\ state' = [j \in Job |-> IF state[j] = "new" THEN "new" ELSE "gone"]
  /\ driver' = [j \in Job |-> "off"]
  /\ Dies(Job)
  /\ UNCHANGED <<cancel, outcome, ringVars, waitVars>>

-----------------------------------------------------------------------------
(* remote_exec_wait (displays, plugins/mcp_bridge.rs). *)

BeginWait ==
  /\ wait = "off" /\ state[Tailed] \notin {"new", "admitted", "denied"}
  /\ wait' = "polls"
  /\ UNCHANGED <<gateVars, jobVars, late, cursor, got, told>>

DeadlinePasses ==
  /\ wait = "polls" /\ ~late /\ late' = TRUE
  /\ UNCHANGED <<gateVars, jobVars, wait, cursor, got, told>>

\* Mutant: the next read starts behind the ring's newest chunk.
NextSeq_Newest(served) == IF next[Tailed] = 0 THEN 0 ELSE next[Tailed]

\* render_job_snapshot: the next read starts behind the last chunk that was served.
NextSeq(served) ==
  IF served = {} THEN cursor ELSE CHOOSE n \in {c + 1 : c \in served} : n - 1 \in served /\ n \notin served

\* read_from: from the cursor or the oldest chunk, at least one if there is one.
Served(n) ==
  LET first == IF cursor < oldest[Tailed] THEN oldest[Tailed] ELSE cursor
  IN {c \in Output(Tailed) : first <= c /\ c < first + n}

\* Mutant: a loss is told only when this read runs into it.
Lost_ThisRead(st) == cursor < oldest[Tailed]

\* The ring has lost part of the range, or the exit record counts evictions.
Lost(st) == cursor < oldest[Tailed] \/ (st \in Terminal /\ oldest[Tailed] > 0)

\* One poll and what the loop makes of the answer.
Poll ==
  /\ wait = "polls"
  /\ \E S \in SUBSET Job, n \in 1..(next[Tailed] + 1) :
       /\ Sweeps(S) /\ Dies(S) /\ state' = Swept(S)
       /\ \/ /\ state'[Tailed] = "gone"
             /\ wait' = "error" /\ UNCHANGED <<cursor, got, told>>
          \/ /\ state'[Tailed] # "gone"
             /\ cursor' = NextSeq(Served(n)) /\ got' = got \cup Served(n)
             /\ LET st   == state[Tailed]
                    more == Served(n) # {} /\ cursor' < next[Tailed]
                    room == Cardinality(got') < OutputCap
                    done == ~(more /\ room /\ ~late) /\ (st \in Terminal \/ late)
                IN /\ wait' = IF ~done THEN "polls"
                              ELSE IF st \in Terminal THEN "terminal" ELSE "running"
                   /\ told' = IF done THEN {t \in {"lost", "more"} :
                                              \/ t = "lost" /\ Lost(st)
                                              \/ t = "more" /\ ~room}
                              ELSE told
  /\ UNCHANGED <<gateVars, cancel, driver, outcome, ringVars, late>>

-----------------------------------------------------------------------------
Next ==
  \/ Arm \/ Lease \/ Disarm \/ EndSession \/ ShutGate
  \/ \E j \in Job : Admit(j) \/ Register(j) \/ Signal(j)
  \/ \E j \in Job : DriverStep(j) \/ Process(j)
  \/ Restart
  \/ BeginWait \/ DeadlinePasses \/ Poll

Spec == Init /\ [][Next]_vars

(***************************************************************************)
(* Fairness: the driver task of a job is scheduled, and once the deadline  *)
(* is over the next look at the clock sees it.  Processes need not exit;   *)
(* nobody needs to cancel or to poll.                                      *)
(***************************************************************************)
DriverFairness ==
  \A j \in Job : WF_vars(DriverStep(j)) /\ SF_vars(TimesOut(j) /\ UNCHANGED <<gateVars, waitVars>>)

FairSpec == Spec /\ DriverFairness

-----------------------------------------------------------------------------
(* Properties. *)

(***************************************************************************)
(* A job that has ended has no interpreter left, and none of its pipes is  *)
(* held; one that was cancelled or timed out took everything in its job    *)
(* object with it.  So an exit record never describes a running job.       *)
(***************************************************************************)
EndedIsDead ==
  \A j \in Job :
    /\ state[j] \in Terminal => child[j] # "alive" /\ helper[j] # "holds"
    /\ state[j] \in {"cancelled", "timedout"} /\ "helper" \in tree[j] => helper[j] = "dead"

(***************************************************************************)
(* What end_session does keep: the only jobs that run on untold had passed *)
(* the gate and were not in the registry when cancel_all went through it.  *)
(***************************************************************************)
RevokedIsCancelled ==
  ended => \A j \in Active : cancel[j] \/ j \in missed

(***************************************************************************)
(* end_session is to "revoke the lease and terminate anything running      *)
(* under it": once it has shut the gate, every job that still runs has     *)
(* been told to stop.                                                      *)
(***************************************************************************)
RevokedEndsAll == ended => \A j \in Active : cancel[j]

(***************************************************************************)
(* A wait that returns an ended job in time has collected every chunk the  *)
(* job wrote, or says that output was lost or that it stopped collecting.  *)
(***************************************************************************)
TailIsWhole == wait = "terminal" /\ ~late /\ told = {} => got = Output(Tailed)

(***************************************************************************)
(* A job whose interpreter is up when it is cancelled loses it, whatever   *)
(* the driver is doing and even before the process is in its job object;   *)
(* only a restart lets go of a process that is not.                        *)
(***************************************************************************)
CancelKills ==
  \A j \in Job : cancel[j] /\ child[j] = "alive" ~> child[j] # "alive" \/ state[j] = "gone"

(***************************************************************************)
(* Every job ends, unless its interpreter has exited and a process that it *)
(* left behind keeps the pipes open: the drain has no deadline.            *)
(***************************************************************************)
JobEnds ==
  \A j \in Job : j \in Active ~> j \notin Active \/ (driver[j] = "drain" /\ helper[j] = "holds")
=============================================================================
