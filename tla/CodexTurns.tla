------------------------------ MODULE CodexTurns ------------------------------
(***************************************************************************)
(* The technician's messages to one agent thread: the agent_turn rows, the *)
(* broker that claims them (headless/codex/turns.rs) and the runner that   *)
(* owns the thread, with its queue of messages waiting behind the running  *)
(* turn (runner.rs, queue.rs, busy.rs).  The database and the agent host   *)
(* outlive the broker, which may crash and restart at any point; the codex *)
(* server is external.                                                     *)
(*                                                                         *)
(* A message is a start or steer, a queue turn, an empty queue turn that   *)
(* resumes a held queue, an interrupt or a close.  Compaction, renames,    *)
(* approvals, pictures, the writes of the thread's own row and the codex   *)
(* server's status reports are left out.                                   *)
(*                                                                         *)
(* A call to the database or to codex may go unanswered: what it asked was *)
(* done or not, and the handler goes on as the code does on an error.  One *)
(* outage may meet any of the calls of one handler.                        *)
(***************************************************************************)
EXTENDS Naturals, Sequences, FiniteSets

CONSTANTS
  Kinds,      \* the kinds the turns may have, in the order they are created
  Faults,     \* which faults occur: "crash", "drop", "call", "start"
  MaxFaults   \* how many (bound)

Turn == 1..Len(Kinds)
None == 0

ASSUME KindsAssumption ==
  /\ Kinds \in Seq(SUBSET {"steer", "queue", "resume", "interrupt", "close"})
  /\ MaxFaults \in Nat

VARIABLES
  kind,       \* agent_turn.kind
  row,        \* agent_turn.status
  thread,     \* agent_thread.status: "open" for the idle and working ones
  routing,    \* turns claimed by a route task that has not handed them over yet
  runner,     \* RUNNERS: none, starting (registered, not attached), up or redial
  chan,       \* Runner.deferred and rx: the turns handed to the runner
  busy,       \* Runner.busy is not idle; the status of the thread's row
  queue,      \* TurnQueue.items
  held,       \* TurnQueue.held is some
  turnFailed, \* Runner.turn_failed
  stopping,   \* Runner.stopping
  asked,      \* the interrupts whose begin_stop task has not reported back
  doing,      \* the queue turn taken from its row and not sent yet
  active,     \* codex: no turn, a turn, or one that reported an error (external)
  events,     \* what codex reported and the runner has not handled (external)
  sent,       \* history: the turns codex accepted, in that order
  lost,       \* history: claimed turns that went down with a broker or a runner
  unanswered, \* history: turns whose row is not what a handler wrote or read, as the
              \* call went unanswered, until a runner reads the waiting rows again
  faults      \* the faults so far

rowVars    == <<kind, row, thread>>
codexVars  == <<active, events, sent>>
runnerVars == <<runner, chan, busy, queue, held, turnFailed, stopping, asked, doing>>
history    == <<lost, unanswered>>
vars       == <<rowVars, routing, runnerVars, codexVars, history, faults>>

Elems(s) == {s[i] : i \in 1..Len(s)}
Queued(t) == kind[t] \in {"queue", "resume"}

TypeOK ==
  /\ kind \in [Turn -> {"none"} \cup UNION Elems(Kinds)]
  /\ row \in [Turn -> {"none", "pending", "queued", "held", "sent", "failed", "cancelled"}]
  /\ thread \in {"open", "closed", "failed"}
  /\ routing \in SUBSET Turn
  /\ runner \in {"none", "starting", "up", "redial"}
  /\ chan \in Seq(Turn) /\ (chan # <<>> => runner # "none")
  /\ queue \in Seq(Turn) /\ (queue # <<>> => runner \in {"up", "redial"})
  /\ {busy, held, turnFailed, stopping} \subseteq BOOLEAN
  /\ asked \in SUBSET Turn
  /\ doing \in Turn \cup {None}
  /\ doing # None => row[doing] = "sent" /\ ~busy /\ ~held /\ runner = "up"
  /\ active \in {"no", "yes", "erred"}
  /\ events \in Seq({"started", "error", "completed"})
  /\ sent \in Seq(Turn)
  /\ lost \in SUBSET Turn /\ unanswered \in SUBSET Turn
  /\ faults \in 0..MaxFaults

Init ==
  /\ kind = [t \in Turn |-> "none"] /\ row = [t \in Turn |-> "none"]
  /\ thread = "open" /\ routing = {}
  /\ runner = "none" /\ chan = <<>> /\ queue = <<>> /\ doing = None
  /\ busy = FALSE /\ held = FALSE /\ turnFailed = FALSE /\ stopping = FALSE /\ asked = {}
  /\ active = "no" /\ events = <<>> /\ sent = <<>>
  /\ lost = {} /\ unanswered = {}
  /\ faults = 0

Fault(f) == f \in Faults /\ faults < MaxFaults /\ faults' = faults + 1

\* Whether calls of a handler may go unanswered (x).
Outage(x) == IF x THEN Fault("call") ELSE UNCHANGED faults

\* The rows after a write of w over r; and the turns that miss what was to be written,
\* besides those in S.
Written(x, r, w)  == IF x THEN {r, w} ELSE {w}
Missed(S, got, w) == S \cup {t \in Turn : got[t] # w[t]}

\* What mark_failed writes.
Failed(t) == [row EXCEPT ![t] = "failed"]

-----------------------------------------------------------------------------
(* The rows (database/schema/agent_turn.rs). *)

\* AgentTurn::ask.
Ask(t) ==
  /\ row[t] = "none" /\ \A u \in 1..t - 1 : row[u] # "none"
  /\ \E k \in Kinds[t] : kind' = [kind EXCEPT ![t] = k]
  /\ row' = [row EXCEPT ![t] = "pending"]
  /\ UNCHANGED <<thread, routing, runnerVars, codexVars, history, faults>>

\* AgentTurn::take_back, which the chat panel offers for waiting messages.
TakeBack(t) ==
  /\ kind[t] = "queue" /\ row[t] \in {"pending", "queued", "held"}
  /\ row' = [row EXCEPT ![t] = "cancelled"]
  /\ UNCHANGED <<kind, thread, routing, runnerVars, codexVars, history, faults>>

\* hold_queue and release_queue, for every queue turn of the thread.
Moved(r, from, to) ==
  [t \in Turn |-> IF Queued(t) /\ r[t] = from THEN to ELSE r[t]]

HoldRows(r) == Moved(r, "queued", "held")

-----------------------------------------------------------------------------
(* route (turns.rs): one task per turn, several at a time. *)

\* AgentTurn::claim, by the first of the tasks that saw the pending row.  A claim that
\* was made and not answered leaves the row with no task.
Claim(t) ==
  /\ row[t] = "pending"
  /\ row' = [row EXCEPT ![t] = IF Queued(t) THEN "queued" ELSE "sent"]
  /\ \/ routing' = routing \cup {t} /\ UNCHANGED <<unanswered, faults>>
     \/ Outage(TRUE) /\ unanswered' = unanswered \cup {t} /\ UNCHANGED routing
  /\ UNCHANGED <<kind, thread, runnerVars, codexVars, lost>>

\* To the runner that holds the thread, or to a new one.
HandOver(t) ==
  /\ t \in routing /\ routing' = routing \ {t}
  /\ runner # "none" \/ thread = "open"
  /\ chan' = Append(chan, t)
  /\ runner' = IF runner = "none" THEN "starting" ELSE runner
  /\ UNCHANGED <<rowVars, busy, queue, held, turnFailed, stopping, asked, doing,
                 codexVars, history, faults>>

\* No runner, and the thread has ended, cannot be read or the pool is full.
TurnAway(t) ==
  /\ t \in routing /\ routing' = routing \ {t}
  /\ runner = "none"
  /\ \E x \in BOOLEAN : Outage(x) /\ row' \in Written(x, row, Failed(t))
  /\ unanswered' = Missed(unanswered, row', Failed(t))
  /\ UNCHANGED <<kind, thread, runnerVars, codexVars, lost>>

-----------------------------------------------------------------------------
(* The runner's queue. *)

\* pump, from a queue q and rows r, in phase b and hold h, after writes that the turns
\* in S missed: the first turn whose row is still queued is taken from it; those before
\* it were cancelled or held.
First(S) == CHOOSE i \in S : \A j \in S : i <= j

\* Mutant: pump does not look at the row of the turn it pops.
Taken_Any(q, r) == 1..Len(q)

\* Mutant: the row is only asked whether the turn went out already.
Taken_Unsent(q, r) == {i \in 1..Len(q) : r[q[i]] # "sent"}

Taken(q, r) == {i \in 1..Len(q) : r[q[i]] = "queued"}

Pump(q, r, b, h, S, x) ==
  \/ /\ b \/ h
     /\ queue' = q /\ row' = r /\ held' = h /\ doing' = None /\ unanswered' = S
  \/ /\ ~b /\ ~h /\ Taken(q, r) = {}
     /\ queue' = <<>> /\ row' = r /\ held' = h /\ doing' = None /\ unanswered' = S
  \/ /\ ~b /\ ~h /\ Taken(q, r) # {}
     /\ LET i == First(Taken(q, r))
        IN /\ queue' = SubSeq(q, i + 1, Len(q))
           /\ row' = [r EXCEPT ![q[i]] = "sent"]
           /\ held' = h /\ doing' = q[i] /\ unanswered' = S
  \* No answer for the turn at i, taken or not: back to the front, and the queue is held.
  \/ /\ ~b /\ ~h /\ x
     /\ \E i \in {k \in 1..Len(q) : Taken(q, r) \cap 1..k - 1 = {}} :
        \E w \in {r, [r EXCEPT ![q[i]] = IF @ = "queued" THEN "sent" ELSE @]} :
          /\ queue' = SubSeq(q, i, Len(q))
          /\ row' \in {w, HoldRows(w)}
     /\ held' = TRUE /\ doing' = None
     /\ unanswered' = Missed(S, row', HoldRows(r))

\* hold_queue: a queue with something in it is held, with its rows.
Holds(q, h) == q # <<>> /\ ~h
Hold(q, r, h) == IF Holds(q, h) THEN HoldRows(r) ELSE r

\* Mutant: the runner goes on while a queued message is being sent.
Ready_Sending == runner = "up"

\* A runner that takes its next command or event.
Ready == runner = "up" /\ doing = None

\* send_inputs: turn/start or turn/steer.
Accepted(t) ==
  /\ sent' = Append(sent, t)
  /\ active' = IF active = "no" THEN "yes" ELSE active
  /\ events' = IF active = "no" THEN Append(events, "started") ELSE events

\* turn_in_progress, and what its caller makes of no answer.
InProgress(x, unread) == {active # "no"} \cup IF x THEN {unread} ELSE {}

\* No answer counts as a refusal, though codex may have the message.
Refused(t, x) ==
  \/ UNCHANGED codexVars
  \/ x /\ Accepted(t)

\* deliver, of the turn that pump took.
Deliver ==
  /\ runner = "up" /\ doing # None /\ doing' = None
  /\ \E x \in BOOLEAN :
       /\ Outage(x)
       /\ \/ /\ Accepted(doing) /\ busy' = TRUE
             /\ UNCHANGED <<row, held, unanswered>>
          \/ /\ Refused(doing, x)
             /\ \E r \in Written(x, row, Failed(doing)) :
                  row' \in Written(x, r, Hold(queue, r, held))
             /\ unanswered' = Missed(unanswered, row', Hold(queue, Failed(doing), held))
             /\ held' = (held \/ queue # <<>>)
             /\ UNCHANGED busy
  /\ UNCHANGED <<kind, thread, routing, runner, chan, queue, turnFailed, stopping, asked, lost>>

\* on_turn, the turn kinds start and steer.
Steer(t, x) ==
  /\ kind[t] = "steer"
  /\ \/ /\ Accepted(t) /\ busy' = TRUE
        /\ UNCHANGED <<row, unanswered>>
     \/ /\ Refused(t, x)
        /\ row' \in Written(x, row, Failed(t))
        /\ unanswered' = Missed(unanswered, row', Failed(t))
        /\ UNCHANGED busy
  /\ UNCHANGED <<thread, runner, queue, held, turnFailed, stopping, asked, doing, lost>>

\* Mutant: a message behind a held queue is held in memory only.
Enqueue_Unheld(t, x) ==
  /\ kind[t] = "queue"
  /\ LET q == IF t \in Elems(queue) THEN queue ELSE Append(queue, t)
     IN Pump(q, row, busy, held, unanswered, x)
  /\ UNCHANGED <<thread, runner, busy, turnFailed, stopping, asked, codexVars, lost>>

\* enqueue, a message.  One that load_queue found already is left alone.
Enqueue(t, x) ==
  /\ kind[t] = "queue"
  /\ LET new == t \notin Elems(queue)
         w   == IF held /\ new THEN HoldRows(row) ELSE row
     IN \E r \in Written(x, row, w) :
          Pump(IF new THEN Append(queue, t) ELSE queue, r, busy, held,
               Missed(unanswered, r, w), x)
  /\ UNCHANGED <<thread, runner, busy, turnFailed, stopping, asked, codexVars, lost>>

\* enqueue, an empty message.
Resume(t, x) ==
  /\ kind[t] = "resume"
  /\ \E r \in Written(x, row, [row EXCEPT ![t] = IF @ = "queued" THEN "sent" ELSE @]) :
       LET w == IF held THEN Moved(r, "held", "queued") ELSE r
       IN \E s \in Written(x, r, w) :
            Pump(queue, s, busy, FALSE, Missed(unanswered, s, w), x)
  /\ UNCHANGED <<thread, runner, busy, turnFailed, stopping, asked, codexVars, lost>>

\* interrupt: holds the queue and asks codex to stop the turn that runs, if one does.
Interrupt(t, x) ==
  /\ kind[t] = "interrupt"
  /\ row' \in Written(x, row, Hold(queue, row, held))
  /\ unanswered' = Missed(unanswered, row', Hold(queue, row, held))
  /\ held' = (held \/ queue # <<>>)
  /\ \E a \in InProgress(x, FALSE) : busy' = (busy \/ a)
  /\ stopping' = (stopping \/ busy')
  /\ asked' = IF busy' /\ ~stopping THEN asked \cup {t} ELSE asked
  /\ UNCHANGED <<thread, runner, queue, turnFailed, doing, codexVars, lost>>

\* A runner's memory goes; with its channel, so do the turns in there.
Forgets ==
  /\ queue' = <<>> /\ events' = <<>> /\ doing' = None
  /\ held' = FALSE /\ turnFailed' = FALSE /\ stopping' = FALSE /\ asked' = {}

Gone(turns) ==
  /\ runner' = "none" /\ chan' = <<>> /\ Forgets
  /\ lost' = lost \cup turns

\* close: the queue is cancelled, and turns that arrive behind it go down.
Close(t, x) ==
  /\ kind[t] = "close"
  /\ LET w == [u \in Turn |-> IF Queued(u) /\ row[u] \in {"pending", "queued", "held"}
                              THEN "cancelled" ELSE row[u]]
     IN row' \in Written(x, row, w) /\ unanswered' = Missed(unanswered, row', w)
  /\ thread' = "closed" /\ busy' = FALSE
  /\ Gone(Elems(Tail(chan)))
  /\ UNCHANGED <<active, sent>>

\* on_turn, for the turn in front.
Command ==
  /\ Ready /\ chan # <<>>
  /\ \E x \in BOOLEAN :
       /\ Outage(x)
       /\ \/ /\ chan' = Tail(chan)
             /\ LET t == Head(chan)
                IN Steer(t, x) \/ Enqueue(t, x) \/ Resume(t, x) \/ Interrupt(t, x)
          \/ Close(Head(chan), x)
  /\ UNCHANGED <<kind, routing>>

\* side_cmd: while a tool call holds the loop, a stop acts before the turns that
\* arrived ahead of it.
SideStop(i) ==
  /\ Ready /\ active # "no"
  /\ \E x \in BOOLEAN : Outage(x) /\ Interrupt(chan[i], x)
  /\ chan' = SubSeq(chan, 1, i - 1) \o SubSeq(chan, i + 1, Len(chan))
  /\ UNCHANGED <<kind, routing>>

\* stop_answered: codex stops the turn, or refuses or does not answer in time.
StopAnswered(t) ==
  /\ Ready /\ t \in asked /\ asked' = asked \ {t}
  /\ \/ UNCHANGED <<row, queue, held, doing, busy, stopping, unanswered, faults>>
     \/ /\ stopping' = FALSE
        /\ \E x \in BOOLEAN :
             /\ Outage(x)
             /\ \E a \in InProgress(x, TRUE), r \in Written(x, row, Failed(t)) :
                  /\ busy' = (busy /\ a)
                  /\ Pump(queue, r, a, held, Missed(unanswered, r, Failed(t)), x)
  /\ UNCHANGED <<kind, thread, routing, runner, chan, turnFailed, codexVars, lost>>

-----------------------------------------------------------------------------
(* What codex reports (on_event). *)

TurnStarted ==
  /\ Head(events) = "started"
  /\ busy' = TRUE
  /\ UNCHANGED <<row, queue, held, turnFailed, stopping, doing, unanswered, faults>>

\* An error that codex does not retry: the phase is idle before the turn has completed.
TurnError ==
  /\ Head(events) = "error"
  /\ busy' = FALSE /\ turnFailed' = TRUE
  /\ UNCHANGED <<row, queue, held, stopping, doing, unanswered, faults>>

\* Mutant: the next message waits for another event.
TurnCompleted_NoPump ==
  /\ Head(events) = "completed"
  /\ busy' = FALSE /\ turnFailed' = FALSE /\ stopping' = FALSE
  /\ UNCHANGED <<row, queue, held, doing, unanswered, faults>>

\* turn_completed: a failed turn holds the queue, then the next message goes out.
TurnCompleted ==
  /\ Head(events) = "completed"
  /\ busy' = FALSE /\ turnFailed' = FALSE /\ stopping' = FALSE
  /\ LET fails == turnFailed /\ ~stopping
         w     == IF fails THEN Hold(queue, row, held) ELSE row
     IN \E x \in BOOLEAN :
          /\ Outage(x)
          /\ \E r \in Written(x, row, w) :
               Pump(queue, r, FALSE, held \/ (fails /\ queue # <<>>),
                    Missed(unanswered, r, w), x)

Event ==
  /\ Ready /\ events # <<>> /\ events' = Tail(events)
  /\ TurnStarted \/ TurnError \/ TurnCompleted
  /\ UNCHANGED <<kind, thread, routing, runner, chan, asked, active, sent, lost>>

\* codex: a turn reports an error, a turn ends.
Emit(e) == events' = IF runner = "up" THEN Append(events, e) ELSE events

CodexError ==
  /\ active = "yes" /\ active' = "erred" /\ Emit("error")
  /\ UNCHANGED <<rowVars, routing, runnerVars, sent, history, faults>>

CodexCompletes ==
  /\ active # "no" /\ active' = "no" /\ Emit("completed")
  /\ UNCHANGED <<rowVars, routing, runnerVars, sent, history, faults>>

-----------------------------------------------------------------------------
(* The runner's life. *)

\* queue_of: the rows that wait, in the order they were created.
Waiting == {t \in Turn : kind[t] = "queue" /\ row[t] \in {"queued", "held"}}

QueueOf ==
  {q \in [1..Cardinality(Waiting) -> Waiting] :
     /\ Elems(q) = Waiting
     /\ \A i, j \in 1..Len(q) : i < j => q[i] < q[j]}

\* load_queue and the pump after it, at a start that found codex in phase b.  A queue
\* that cannot be read is empty.
Load(b, x) ==
  \/ /\ x /\ queue' = <<>> /\ held' = FALSE /\ doing' = None
     /\ unanswered' = unanswered \cup Waiting
     /\ UNCHANGED row
  \/ \E q \in QueueOf,
        R \in Written(x, {}, {t \in Turn : kind[t] = "resume" /\ row[t] = "queued"}) :
       LET h == \E t \in Elems(q) : row[t] = "held"
           r == [t \in Turn |-> IF t \in R THEN "sent" ELSE row[t]]
           w == IF h THEN HoldRows(r) ELSE r
       IN \E s \in Written(x, r, w) :
            Pump(q, s, b, h, Missed(unanswered \ Waiting, s, w), x)

\* connect, attach and load_queue.
Attach ==
  /\ runner = "starting" /\ runner' = "up"
  /\ \E x \in BOOLEAN :
       Outage(x) /\ \E a \in InProgress(x, FALSE) : busy' = a /\ Load(a, x)
  /\ UNCHANGED <<kind, thread, routing, chan, turnFailed, stopping, asked, codexVars, lost>>

\* connect or attach fails.
StartFails ==
  /\ runner = "starting" /\ Fault("start")
  /\ thread' = "failed" /\ busy' = FALSE
  /\ Gone(Elems(chan))
  /\ UNCHANGED <<kind, row, routing, active, sent, unanswered>>

\* Mutant: the turns that raced the release go down with the channel.
Release_Drops ==
  /\ Ready /\ ~busy /\ ~stopping
  /\ runner' = "none" /\ chan' = <<>> /\ Forgets
  /\ UNCHANGED <<rowVars, routing, busy, active, sent, history, faults>>

\* release, of an idle runner: turns that raced it go to a fresh one.
Release ==
  /\ Ready /\ ~busy /\ ~stopping
  /\ runner' = IF chan = <<>> THEN "none" ELSE "starting"
  /\ Forgets
  /\ UNCHANGED <<rowVars, routing, chan, busy, active, sent, history, faults>>

\* reconnect: the connection to the agent host drops, what codex reports is missed.
Drop ==
  /\ Ready /\ Fault("drop")
  /\ runner' = "redial" /\ events' = <<>>
  /\ UNCHANGED <<rowVars, routing, chan, busy, queue, held, turnFailed, stopping, asked, doing,
                 active, sent, history>>

\* Attached again, or given up.
Redialled ==
  /\ runner = "redial"
  /\ \/ /\ runner' = "up"
        /\ \E x \in BOOLEAN :
             /\ Outage(x)
             /\ \E a \in InProgress(x, FALSE) :
                  busy' = a /\ Pump(queue, row, a, held, unanswered, x)
        /\ stopping' = (stopping /\ busy')
        /\ UNCHANGED <<thread, chan, turnFailed, asked, events, lost>>
     \/ /\ thread' = "failed" /\ busy' = FALSE
        /\ Gone(Elems(chan))
        /\ UNCHANGED <<row, unanswered, faults>>
  /\ UNCHANGED <<kind, routing, active, sent>>

\* The broker dies and comes back.  resume_open_threads starts a runner for a thread
\* that was working; the others wait for their next turn.
Crash ==
  /\ Fault("crash")
  /\ runner' = IF thread = "open" /\ busy THEN "starting" ELSE "none"
  /\ chan' = <<>> /\ Forgets
  /\ routing' = {}
  /\ lost' = lost \cup routing \cup Elems(chan) \cup ({doing} \ {None})
  /\ UNCHANGED <<rowVars, busy, active, sent, unanswered>>

-----------------------------------------------------------------------------
Route  == \E t \in Turn : HandOver(t) \/ TurnAway(t)
Runner == Attach \/ Command \/ Event \/ Deliver \/ Redialled

Next ==
  \/ \E t \in Turn : Ask(t) \/ TakeBack(t) \/ Claim(t) \/ StopAnswered(t)
  \/ \E i \in 1..Len(chan) : SideStop(i)
  \/ Route \/ Runner
  \/ CodexError \/ CodexCompletes
  \/ StartFails \/ Release \/ Drop \/ Crash

Spec == Init /\ [][Next]_vars

(***************************************************************************)
(* Fairness: a route task goes on, the runner's task is scheduled, its     *)
(* select serves the commands and the events, and codex ends its turns.    *)
(* Messages need not be sent or claimed, and idle runners not released.    *)
(***************************************************************************)
FairSpec ==
  /\ Spec
  /\ WF_vars(Route) /\ WF_vars(Attach \/ Deliver \/ Redialled)
  /\ WF_vars(Command) /\ WF_vars(Event) /\ WF_vars(CodexCompletes)

-----------------------------------------------------------------------------
(* Properties. *)

(***************************************************************************)
(* Codex gets each message once, although a queue turn may reach a runner  *)
(* both through load_queue and through its channel, and although brokers   *)
(* and runners crash, restart and hand turns over.                         *)
(***************************************************************************)
SentOnce == \A i, j \in 1..Len(sent) : sent[i] = sent[j] => i = j

(***************************************************************************)
(* A claimed message is somewhere: a sent one with codex or on its way     *)
(* there, a queued or held one in the queue or on its way there; or it     *)
(* went down with a crash, a close or a runner that failed; or a call      *)
(* about its own row went unanswered.                                      *)
(***************************************************************************)
NothingVanishes ==
  \A t \in Turn \ unanswered :
    LET underway == routing \cup Elems(chan)
    IN /\ kind[t] = "steer" /\ row[t] = "sent" => t \in Elems(sent) \cup underway \cup lost
       /\ kind[t] = "queue" /\ row[t] = "sent" => t \in Elems(sent) \cup {doing} \cup lost
       /\ kind[t] = "queue" /\ row[t] \in {"queued", "held"} /\ runner \in {"up", "redial"}
            => t \in Elems(queue) \cup underway

(***************************************************************************)
(* The hold in the runner's memory and the one on the rows say the same,   *)
(* so that the next runner and the next broker hold the queue that this    *)
(* one held, and no message waits as held behind a queue that is not; save *)
(* the rows that a hold or a release missed.                               *)
(***************************************************************************)
HoldIsRecorded ==
  runner \in {"up", "redial"} =>
    \A t \in Elems(queue) \ unanswered : row[t] # IF held THEN "queued" ELSE "held"

\* Where a message is: a row that says sent may be on its way to codex or lost, and
\* one that codex has may be marked failed by a route task that comes late.
Underway(t) == IF kind[t] = "queue" THEN t = doing ELSE t \in routing \cup Elems(chan)

Stage(t) ==
  IF kind[t] \notin {"steer", "queue"} THEN "none"
  ELSE IF t \in Elems(sent) THEN "delivered"
  ELSE IF row[t] = "sent" THEN IF Underway(t) THEN "taken" ELSE "lost"
  ELSE IF row[t] \in {"failed", "cancelled"} THEN "dropped"
  ELSE IF row[t] = "held" THEN "held" ELSE "waiting"

Messages == INSTANCE MessageService WITH
  Message <- Turn, stage <- [t \in Turn |-> Stage(t)], log <- sent

(***************************************************************************)
(* The broker treats messages as MessageService says: one that is taken    *)
(* back, refused or cancelled with the thread never goes out, one that is  *)
(* held goes out only once the queue is released, and one that was lost or *)
(* delivered is not taken again, whatever routes, runners and brokers come *)
(* and go.                                                                 *)
(***************************************************************************)
ServesMessages == Messages!Spec

(***************************************************************************)
(* A queued message does not stay queued for as long as a runner holds its *)
(* thread: it goes out, fails, is held or is taken back, so that time and  *)
(* again no message is queued under a runner, save one whose row missed a  *)
(* call that went unanswered.                                              *)
(***************************************************************************)
QueueMoves ==
  []<>(\A t \in Turn \ unanswered : row[t] = "queued" /\ kind[t] = "queue" => runner = "none")

(***************************************************************************)
(* "Stops the running turn, holds the queue": a message that arrived ahead *)
(* of a stop and waits is held when the stop has been handled.             *)
(***************************************************************************)
StopHolds ==
  [][\A i, j \in 1..Len(chan) :
       /\ i < j /\ kind[chan[i]] = "queue" /\ row[chan[i]] = "queued"
       /\ kind[chan[j]] = "interrupt" /\ chan[j] \notin Elems(chan') /\ chan[i] \in Elems(chan')
       => row'[chan[i]] = "held"]_vars
=============================================================================
