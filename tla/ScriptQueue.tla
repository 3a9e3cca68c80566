------------------------------ MODULE ScriptQueue ------------------------------
(***************************************************************************)
(* The scripts tab's queue (displays/src/scripts/queue.rs) and the pump    *)
(* that drives it (Mastertech4.0/src/tabs/scripts/mod.rs, view.rs).  The   *)
(* UI thread owns the queue: buttons edit it, and every frame the pump     *)
(* polls the worker thread of the running entry, finishes the entry and    *)
(* starts the next.  The pump addresses entries by index; the rest of the  *)
(* program, by run token.                                                  *)
(*                                                                         *)
(* The scripts that MCP runs beside the queue and the data-transfer        *)
(* picker, which waits for the technician, are left out.                   *)
(***************************************************************************)
EXTENDS Naturals, Sequences

CONSTANTS
  Token,   \* run tokens
  None

ASSUME NoneAssumption == None \notin Token

VARIABLES
  items,     \* ScriptQueue.items: token and status of each entry
  current,   \* ScriptQueue.current_index, from 1; 0 for None
  running,   \* ScriptQueue.is_running
  handle,    \* EguiScriptsTab.running: the token whose worker is waited for
  worker,    \* what that worker thread does
  strays,    \* what the workers do that nobody waits for any more
  stopping,  \* the entry still finishing after Stop
  shifted    \* history: an entry before the running one was removed

vars == <<items, current, running, handle, worker, strays, stopping, shifted>>

Status   == {"pending", "running", "completed", "failed"}
Finished == {"completed", "failed"}
Ended    == {"ok", "bad", "dead"}   \* an outcome, or a worker that died without one
Live     == {"runs", "told"}        \* told: its CancelToken is set

Entry == [token : Token, status : Status]

Unique == \A i, j \in 1..Len(items) : items[i].token = items[j].token => i = j

TypeOK ==
  /\ items \in Seq(Entry)
  /\ Unique
  /\ running \in BOOLEAN
  /\ current \in Nat /\ (running <=> current # 0)
  /\ handle \in Token \cup {None} /\ (handle # None <=> running \/ stopping # None)
  /\ worker \in Live \cup Ended \cup {"none"} /\ (worker = "none" <=> handle = None)
  /\ strays \in SUBSET Live
  /\ stopping \in Token \cup {None}
  /\ stopping # None => ~running /\ worker \in {"told"} \cup Ended
  /\ shifted \in BOOLEAN

Init ==
  /\ items = <<>> /\ current = 0 /\ running = FALSE
  /\ handle = None /\ worker = "none" /\ strays = {}
  /\ stopping = None
  /\ shifted = FALSE

\* The entry i gets a new status.
Marked(s, i, status) == [s EXCEPT ![i].status = status]

-----------------------------------------------------------------------------
(* Editing: the panel's buttons, each with the condition that enables it.  *)

\* next_run_token never repeats: a token is new when nothing holds it.
Fresh(k) ==
  /\ \A i \in 1..Len(items) : items[i].token # k
  /\ k \notin {handle, stopping}

Add(k) ==
  /\ Fresh(k)
  /\ items' = Append(items, [token |-> k, status |-> "pending"])
  /\ UNCHANGED <<current, running, handle, worker, strays, stopping, shifted>>

Without(i) == [j \in 1..Len(items) - 1 |-> IF j < i THEN items[j] ELSE items[j + 1]]

\* The index of the running entry is not adjusted.
Remove(i) ==
  /\ ~(running /\ items[i].status = "running")
  /\ items' = Without(i)
  /\ shifted' = (shifted \/ (running /\ i < current))
  /\ UNCHANGED <<current, running, handle, worker, strays, stopping>>

Clear ==
  /\ ~running /\ items # <<>>
  /\ items' = <<>> /\ current' = 0 /\ running' = FALSE
  /\ shifted' = FALSE
  /\ UNCHANGED <<handle, worker, strays, stopping>>

Swapped(i) == [items EXCEPT ![i] = items[i + 1], ![i + 1] = items[i]]

\* Mutant: entries may be moved while the queue runs.
MoveDown_Always(i) ==
  /\ i < Len(items)
  /\ items' = Swapped(i)
  /\ UNCHANGED <<current, running, handle, worker, strays, stopping, shifted>>

\* Moving i down is moving i + 1 up.
MoveDown(i) ==
  /\ ~running /\ i < Len(items)
  /\ items' = Swapped(i)
  /\ UNCHANGED <<current, running, handle, worker, strays, stopping, shifted>>

-----------------------------------------------------------------------------
(* The pump. *)

\* execute_next_script, for the entry whose token this is.
Execute(k) == handle' = k /\ worker' = "runs"

\* Mutant: a new run does not wait for the stopped one.
Run_Over ==
  /\ ~running /\ items # <<>>
  /\ running' = TRUE /\ current' = 1
  /\ items' = Marked(items, 1, "running")
  /\ Execute(items[1].token)
  /\ UNCHANGED <<strays, stopping, shifted>>

\* run_queue starts over from the first entry, whatever the others' status.
Run ==
  /\ stopping = None /\ ~running /\ items # <<>>
  /\ running' = TRUE /\ current' = 1
  /\ items' = Marked(items, 1, "running")
  /\ Execute(items[1].token)
  /\ UNCHANGED <<strays, stopping, shifted>>

\* finish_current, for the entry that current_index names.
FinishCurrent(status) ==
  IF items[current].status = "running"
  THEN Marked(items, current, status) ELSE items

\* Mutant: the last entry's status is left to ScriptQueue::next's caller.
AdvanceToNext_Early(status) ==
  \/ /\ current < Len(items) - 1
     /\ items' = Marked(FinishCurrent(status), current + 1, "running")
     /\ current' = current + 1
     /\ Execute(items[current + 1].token)
     /\ UNCHANGED running
  \/ /\ current >= Len(items) - 1
     /\ items' = FinishCurrent(status)
     /\ current' = 0 /\ running' = FALSE
     /\ handle' = None /\ worker' = "none"

\* advance_to_next: finish_current, ScriptQueue::next, then execute or complete.
AdvanceToNext(status) ==
  \/ /\ current < Len(items)
     /\ items' = Marked(FinishCurrent(status), current + 1, "running")
     /\ current' = current + 1
     /\ Execute(items[current + 1].token)
     /\ UNCHANGED running
  \/ /\ current = Len(items)
     /\ items' = FinishCurrent(status)
     /\ current' = 0 /\ running' = FALSE
     /\ handle' = None /\ worker' = "none"

\* advance_queue_if_ready finds a current script and a handle to poll.
Polls == stopping = None /\ running /\ current <= Len(items) /\ handle # None

Outcome == IF worker = "ok" THEN "completed" ELSE "failed"

\* Mutant: a worker that died is waited for like one that runs.
AdvanceOnOutcome_Waits ==
  /\ Polls /\ worker \in {"ok", "bad"}
  /\ AdvanceToNext(Outcome)
  /\ UNCHANGED <<strays, stopping, shifted>>

\* advance_on_outcome: the outcome, or the disconnect, of the running entry.
AdvanceOnOutcome ==
  /\ Polls /\ worker \in Ended
  /\ AdvanceToNext(Outcome)
  /\ UNCHANGED <<strays, stopping, shifted>>

\* Mutant: the worker that ran out of time is left as it is.
TimesOut_Silent ==
  /\ Polls /\ worker \in Live
  /\ AdvanceToNext("failed")
  /\ strays' = strays \cup {worker}
  /\ UNCHANGED <<stopping, shifted>>

\* advance_on_outcome: the entry's time budget is spent, the worker is cancelled and
\* the queue goes on without it.
TimesOut ==
  /\ Polls /\ worker \in Live
  /\ AdvanceToNext("failed")
  /\ strays' = strays \cup {"told"}
  /\ UNCHANGED <<stopping, shifted>>

-----------------------------------------------------------------------------
(* Stop. *)

\* stop_queue and ScriptQueue::stop.  With a current entry its worker is told, and
\* the entry shows as running until it settles; without one, the handle is dropped.
Stop ==
  /\ running /\ stopping = None
  /\ running' = FALSE /\ current' = 0
  /\ \/ /\ handle # None /\ current <= Len(items)
        /\ worker' = IF worker = "runs" THEN "told" ELSE worker
        /\ stopping' = items[current].token
        /\ items' = Marked(items, current, "running")
        /\ UNCHANGED <<handle, strays>>
     \/ /\ handle = None \/ current > Len(items)
        /\ handle' = None /\ worker' = "none"
        /\ strays' = strays \cup ({worker} \cap Live)
        /\ UNCHANGED <<items, stopping>>
  /\ UNCHANGED shifted

\* set_entry_status, for the entry with the token `stopping`, if it is still there.
Settle(status) ==
  /\ items' = [i \in 1..Len(items) |->
                 IF items[i].token = stopping
                 THEN [items[i] EXCEPT !.status = status] ELSE items[i]]
  /\ stopping' = None
  /\ handle' = None /\ worker' = "none"
  /\ UNCHANGED <<current, running, shifted>>

\* settle_stopped_run.
Settled ==
  /\ stopping # None /\ worker \in Ended
  /\ Settle(Outcome)
  /\ UNCHANGED strays

\* abandon_stopped_run: the Abandon button, or the stopped entry's budget is spent.
Abandon ==
  /\ stopping # None
  /\ Settle("failed")
  /\ strays' = strays \cup ({worker} \cap Live)

-----------------------------------------------------------------------------
\* The worker thread ends, cancelled or not.
WorkerEnds ==
  /\ worker \in Live /\ worker' \in Ended
  /\ UNCHANGED <<items, current, running, handle, strays, stopping, shifted>>

Next ==
  \/ Clear \/ Run \/ Stop
  \/ AdvanceOnOutcome \/ TimesOut \/ Settled \/ Abandon
  \/ WorkerEnds
  \/ \E k \in Token : Add(k)
  \/ \E i \in 1..Len(items) : Remove(i) \/ MoveDown(i)

Spec == Init /\ [][Next]_vars

(***************************************************************************)
(* Fairness: frames are drawn, so the pump polls, and time passes, so the  *)
(* budgets run out.  Workers need not end, not even when told to: some     *)
(* have no cancel hook (scripts_exec/windows_update.rs:5).                 *)
(***************************************************************************)
FairSpec ==
  /\ Spec
  /\ WF_vars(AdvanceOnOutcome \/ TimesOut)
  /\ WF_vars(Settled \/ Abandon)

-----------------------------------------------------------------------------
(* Properties. *)

(***************************************************************************)
(* "Currently running script index": unless an entry before it was         *)
(* removed, a running queue's index names the entry whose worker the pump  *)
(* waits for, no other entry shows as running, and those before it have    *)
(* finished: however entries are added, moved between runs, stopped,       *)
(* abandoned, timed out and run again.                                     *)
(***************************************************************************)
InStepUnlessShifted ==
  running /\ ~shifted =>
    /\ current <= Len(items)
    /\ handle = items[current].token
    /\ \A i \in 1..Len(items) : items[i].status = "running" <=> i = current
    /\ \A i \in 1..current - 1 : items[i].status \in Finished

(***************************************************************************)
(* A worker that nobody waits for any more has been told to stop: two      *)
(* scripts run side by side only when the first ignores its CancelToken.   *)
(* The exception is the worker dropped by Stop after a shift.              *)
(***************************************************************************)
StrayIsTold ==
  [][~shifted => /\ strays' \ strays \subseteq {"told"}
                 /\ handle' # handle /\ worker = "runs" => "told" \in strays']_vars

(***************************************************************************)
(* "Queue complete": a queue that comes to its end by itself has finished  *)
(* every entry, those added while it ran included.                         *)
(***************************************************************************)
CompleteIsFinished ==
  [][running /\ stopping = None /\ ~running' /\ stopping' = None /\ ~shifted =>
       \A i \in 1..Len(items') : items'[i].status \in Finished]_vars

(***************************************************************************)
(* A queue that runs or stops comes to its end, also when a worker dies,   *)
(* never answers or ignores its cancellation.  The exception is again the  *)
(* shift: an index past the end leaves the pump without a current script.  *)
(***************************************************************************)
QueueEnds == running \/ stopping # None ~> (~running /\ stopping = None) \/ shifted
=============================================================================
