# Mastertech: TLA+ verification project

Mastertech is a shop-management and remote-support platform written in Rust.
A machine that is being repaired runs an *agent* (`Mastertech4.0`); technicians
use an *admin console* (`displays`); the two meet in a *relay*
(`websocket_server2`) that pairs them by room, or by tunnel session, and keeps a
SurrealDB row per machine. Around these stand an axum server (REST, scheduled
jobs), a plugin build worker, a headless broker that runs coding-agent turns, a
stress-test runner, and several user interfaces.

This directory holds TLA+ models of the parts where several actors share state,
TLC configurations that check them, and TLAPS proofs. `PROJECT.json` maps every
definition to the source lines it models and lists runs, mutants, findings,
hazards and theorems.

## Running

    tlc -workers 2 -config relay_rooms.cfg MCRelayScenes
    tlapm RoomRelay_proofs.tla

`PROJECT.json` names the module of each configuration. No run takes more than
about three minutes on two workers.

## Inventory of the system

### The relay, `src/websocket_server2/src/main.rs`

One tokio process. Each upgraded WebSocket becomes a few tasks that share
`ChatServer` (`rooms`, `session_map`, `user_map`, each a `Mutex<HashMap>`), plus
the `TunnelSlots` map and two atomics. A lock is never held across an `await`
that sends; everything between two awaits is atomic for the other tasks.

| part | state | operations | what makes it hard |
|---|---|---|---|
| room relay | `Room.master`, `Room.client`, `session_map`, `Conn.evicted`, the sockets | join (claim, displace, notify), read loop, ping task, `/remove`, `/remove_room`, database-bound commands, `cleanup_session` | the read loop and the ping task of one connection both clean up; slots are looked at in one step and used in a later one; sends may fail, or never return |
| room presence | `connected_client.connected`, `.last_update` | deferred offline write, agent's re-assertion and heartbeat, ping stamps, sweep | five writers in three processes, no transaction spans two of them |
| user map | `user_map` | assigned-user lookup, `/auth`, erase in cleanup | the lookup is a task nobody joins |
| tunnel relay | `TunnelSlots`, reclaim oneshots, parking buffers | park, expire, reclaim, pair, pump, teardown | removals are keyed by session id alone; TTL, close and pairing race; frames must cross from the buffer to the pump in order |
| write limiter | `GLOBAL_WINDOW_START`, `GLOBAL_WRITE_COUNT` | `global_write_allowed` | two relaxed atomics updated in separate steps, an unsigned counter that wraps |

Correctness: a slot has at most one owner and a connection that left never
returns to it; whoever loses a slot is closed; dead sockets are found; a machine
that died is shown offline; tunnel frames arrive in order, between an admin and
an agent of the same session; caps hold.

### The agent, `src/Mastertech4.0`

* **Agent heartbeat and connectivity** (`tcp_listener.rs`, `relay_control.rs`; `transport.rs`,
  `tunnel_session.rs`, and `src/tcp_protocol`): redials the relay, serves a TCP
  listener and relay tunnels (at most eight, an atomic count with a drop guard,
  90 s idle readers), restores `connected = true` after each registration, writes
  a 15-minute heartbeat. Hard: redials overlap the teardown of the old socket;
  `WsByteStream` keeps a partly written message between polls. Correct when a
  machine that runs is reachable and shown online, and no session slot leaks.
  Modelled: the row writes (in RoomPresence).
* **Remote exec** (`remote_exec/`, and `remote_exec_wait` of the console's MCP bridge):
  a consent gate with a lease and a banner that must be on screen, a registry of jobs,
  one driver task per job with the processes it owns in a Win32 job object, a bounded
  ring of output. Hard: the gate, the registry and the job are locked separately; a
  cancel may meet a process that is not in its job object yet; the ring evicts between
  two reads. Correct when a job that ended has left nothing running, a revoked lease
  ends its jobs, and a reader has every chunk or is told what is missing.
* **Scripts tab** (`tabs/scripts`, over `displays/src/scripts/queue.rs`): a queue of
  scripts that the UI thread edits and pumps, one worker thread at a time, addressed by
  index. Hard: entries move under the running one; a worker may outlive its stop.

### Displays, `src/displays`

* **Admin console** (`tabs/admin_console`): one task per machine that rotates
  transports (direct TCP, tunnel, room) with back-off, and an `is_connected` flag
  kept from relay notices. Hard: a dial that succeeds late races the next one.
* **Headless broker** (`headless/codex/`): claims `agent_turn` rows, routes each by a
  task of its own to the runner of its thread, which drives a codex session and queues
  what arrives during a turn; queued and held messages live on the rows too, so that a
  broker may release an idle runner or crash. Hard: the same message may reach a runner
  on two ways; memory and rows are written one after the other; stops overtake queue
  turns. Correct when codex gets a message once, none vanishes and none is stuck.
* The rest is immediate-mode UI, an MCP bridge and a plugin host.

### Servers and workers

* **axum server** (`src/axum_server`): REST routes over the database; scheduled
  jobs, of which `heartbeat_sweep` flags stale rows offline (modelled in
  RoomPresence); a registry of pre-boot sessions.
* **Plugin build worker** (`src/plugin_builder` and the `build_job` schema in
  `src/database`): drains pending jobs, subscribes to new ones, claims each
  atomically, compiles, writes the result back. Hard: jobs created between the drain and
  the subscription; pinned jobs, which the subscription never announces; a worker that
  dies between claim and finish. Correct when a job is compiled by one
  worker and its result is written once.
* **Stress runner** (`src/stress-runner`): drives a test plan on several machines.

### Not candidates for a model

`src/database` (typed queries: what the models use of it is an atomic write that
may fail), `src/voice-bridge` (audio I/O), `src/stress-kit` and `src/dump-triage`
(sequential computation and OS calls), the UIs (`qc-app`, `MastertechMobile`,
`mtech-tui`, `mtech-ui`), the pre-boot stack (`uefi`, `pxe-bench`, `esp-image`,
`esp32-bench`, `preboot-relay`), `plugins` and their SDK (called synchronously),
the updater and one-shot tools, and `vendor`.

### Where it is hard

`PROJECT.json` lists the hazards one by one, at their lines. In short: steps of two
tasks of one connection against a newer connection of the same room; a slot read
under a lock and used after it; one-shot database writes by processes that do not
see each other; removals keyed by session id alone; a socket that accepts writes
but is dead, and one that is alive but does not drain; a counter updated by two
atomic operations; a job that is past its gate and in no registry yet; a claim whose
answer is lost; a queue addressed by index; an end of file that never comes.

## Plan

Built:

1. `RoomRelay` - the room half of the relay; `RoomPresence` and `SessionUsers`
   extend it with the machine's row and with the user map.
2. `TunnelRelay` - the tunnel half.
3. `WriteLimiter` - the atomic counter.
4. `BuildQueue` - the plugin build workers.
5. `CodexTurns` - one agent thread: its rows, its broker and its runner.
6. `ScriptQueue` - the scripts tab's queue and pump.
7. `RemoteExec` - jobs on a customer's machine: gate, registry, driver, ring, wait.
8. Four abstract specifications: `SlotService`, `TunnelService`, `JobService` and
   `MessageService`, which `RoomRelay`, `TunnelRelay`, `BuildQueue` and `CodexTurns`
   implement.

Left, in this order: `CodexPool` (the pool of agent threads: `queue_pump`, the busy
set, resumption at startup, which `CodexTurns` leaves out), `AgentLink` (redial, tunnel
client, transport rotation of the console, composed with `RoomRelay`), the stress
runner's controller, the pre-boot session registry. An abstract *job* for
`RemoteExec` (what an admin is told of a job, and that the end he is told is final) and
an abstract *queue* for `ScriptQueue`, with their refinements proved.

## Modules and code

| module | extends | models |
|---|---|---|
| `SlotService` | | what the room relay promises (abstract) |
| `RoomRelay` | instantiates `SlotService` | `handle_ws`, `handle_message`, `clear_slot`, `cleanup_session`, `Conn::evict`, the ping task |
| `RoomPresence` | `RoomRelay` | writers of `connected_client` in the relay, the agent and the axum server |
| `SessionUsers` | `RoomRelay` | `user_map`: the lookup task, `/auth`, the erase |
| `TunnelService` | | what the tunnel route promises (abstract) |
| `TunnelRelay` | instantiates `TunnelService` | `tunnel_join`, `park_tunnel`, `remove_pending`, `pair_tunnel`, `pump_copy` |
| `WriteLimiter` | | `global_write_allowed` |
| `JobService` | | what the build queue promises (abstract) |
| `BuildQueue` | instantiates `JobService` | `db_mode::run`, `drain_pending`, `event_loop`, `process_job`, `run_and_record`, the `build_job` queries |
| `ScriptQueue` | | `ScriptQueue` and the pump of `EguiScriptsTab` |
| `MessageService` | | what the broker promises to a technician (abstract) |
| `CodexTurns` | instantiates `MessageService` | `agent_turn`'s queries, `route`, `Runner`, `TurnQueue` |
| `RemoteExec` | | `remote_exec`'s gate, registry, `exec_shell::run`, `LogRing`; `remote_exec_wait` |
| `MC*` | one of the above | the actors of an instance; the *scenes* of a run |
| `*_proofs` | one of the above, TLAPS | theorems |

A run may hold several *scenes*: instances of one module, with the same constants,
of which the initial state picks one and which allow different parts of `Next`. The
scene never changes, so a run checks its properties in each of them.

### RoomRelay

State: `rooms`, `master`, `client` are `ChatServer.rooms`; `session` the keys of
`session_map`; `evicted` is `Conn.evicted`; `sock` what the connection's socket is
like. A connection is a `Conn` of the program and never comes back: a redial is
another member of the set. `pc[c]` has three tasks: `join` (`handle_ws` up to its
two spawns), `read` (the read loop) and `ping`. `peer` is a task's clone of the
connection it is about to send to, `victims` those it took out of a slot and has
yet to evict. `held` is a history variable.

Steps: one action is what a task does between two suspension points. A lock that
is taken, used and released is one action; a send is one action, with outcomes
`SendOk` (socket up, or half-open: the kernel still takes the bytes), `SendErr`
(down) and no step at all (stalled). Claiming a slot, evicting the displaced
client, notifying the peer, clearing a failed peer and evicting it are separate
actions, because the code releases the lock between them. `cleanup_session` is six
actions, run by the read loop and by the ping task.

Frames are abstracted to what they make the relay do: forward, reply, take out of
a slot, wait for the database. Time is abstracted: a timeout may fire whenever its
condition can hold, so `PongTimedOut` names exactly the states in which nothing
stamps `last_activity`; it is narrower than the code (main.rs:459-462), whose clock also
runs out when pongs are merely late or while the read loop is in its own cleanup.

Two short cuts, which no property can tell from the code: `RecvData` takes the locks of
main.rs:512 and main.rs:522 in one step, and `RejectRole` sends its refusal and evicts in
one.

`ServesSlots` maps it to `SlotService`: the two slots are the same, a connection has
`tried` once its join has decided about its slot, and is `closed` once it is evicted.
The tasks, the sends, the clones and the second cleanup disappear.

### RoomPresence

`connected` and `fresh` are the row of a machine (`fresh`: `last_update` less than
30 minutes old), `grace` the deferred offline write of a departed client,
`reassert` the agent's `connected = true` after a registration, `alive` the agent
process. `Departs` schedules the write; `GraceCheck` reads the vacancy under the
lock and `GraceWrite` writes after it, as two actions, as in the code; `Reassert`
writes only a row that says offline; `Heartbeat`, `Stamp` and `Sweep` are the
other writers. `Crash` loses the agent's pending write and takes its sockets down,
or leaves them half-open. The `WHERE` clauses are in the guards.

### SessionUsers

`users` holds the keys of `user_map` and `lookup` the spawned task. `late` is a
history of the sessions whose lookup answered after the read loop's cleanup.

### TunnelRelay

`slots` and `pending` are the `TunnelSlots` map (no entry, Pending with the reclaim
sender of a parked socket, or Active). A socket's task is a parked one
(`park_tunnel`) or an arriving one (`pair_tunnel`). `reclaim` is the oneshot by
which the arriving task asks for the parked socket's halves. `inbox`, `buffered`,
`hand` and `got` follow frames from a remote end to the other; frames are numbered
per sender. The biased `select!` of `park_tunnel` is in the guards: while a reclaim
is there, neither the timer nor a frame is taken.

`ServesTunnels` maps it to `TunnelService`: `Ends(s)` are the sockets that hold a
session's slot, a socket has `joined` once `tunnel_join` has decided, and a tunnel is a
pipe in each direction. Reclaims, buffers, the TTL and the pump disappear; a removal by
session id must be one that empties the slot of the sockets that held it.

### WriteLimiter

`start` and `count` are the two statics. Each load, store and read-modify-write is
an action; `count` is modulo `Word` (2^64 in the code). `granted` and `exact` are
history variables: what the count should be, and whether the last reset met another
call in flight. The clock does not go backwards in the model; `Elapsed` saturates
because `start` may be later than a call's own reading. `CountIsExact` does not speak of
calls that a rollover overtook: a `fetch_sub` after another call's reset takes the count
below zero, where it wraps and refuses every write until the next rollover.

### JobService and BuildQueue

`status` and `claimer` are a job's row, `phase` where a worker process is in
`db_mode::run` (drain, subscribe, listen, backoff, crashed), `notices` its live
notifications, `task` the tokio tasks that claim and build. A new row is announced to a
subscribed worker only if it is not pinned (`Hears`): `LIVE_QUERY` compares
`assigned_worker_id` with a `$worker` that db_mode.rs:77 binds as the JSON form of the
record id, an object, while the drain and the claim (`Eligible`) bind the record id
itself. A claim is one conditional
`UPDATE`; its answer may be lost (`ClaimErrs`), after which the row is claimed and nobody
builds. `ServesJobs` maps a row to the abstract state: a claimed row is *taken* while a
task builds it and *lost* for good afterwards.

### ScriptQueue

`items`, `current`, `running` are the queue's fields, `handle` and `worker` the script
the pump polls, `strays` the workers it no longer polls, `stopping` the entry that is
still finishing after a stop. Each button and each poll is one action, as on the UI
thread; `WorkerEnds` is the script's thread. `shifted` is a history: an entry before the
running one was removed. The code then polls and finishes the wrong entry; what the
properties promise, they promise until then.

### CodexTurns

`kind`, `row` and `thread` are the database; `routing` the claimed turns between claim
and `try_send`; `chan` the runner's deferred commands and its channel; `queue`, `held`,
`busy`, `turnFailed`, `stopping`, `asked`, `doing` fields and locals of `Runner`; `active`
and `events` codex. Of a claimed start or steer the row is already `sent`; a queue turn
becomes `sent` when the runner takes it (`Taken`), in a step before it is delivered
(`Deliver`). `Crash` loses everything but the rows, `Release` and `Drop` what the code
loses.

A call to the database or to codex may go unanswered (`Outage`): what it asked was done
or was not, and the handler goes on as the code does on an error. A claim without an
answer leaves a claimed row and no task (turns.rs:23-26); a `take_queued` without one puts
the turn back and holds the queue (runner.rs:1835-1843), although its row may say `sent`,
in which case the next take drops it; a hold or a release whose write fails is warned of
and kept in memory (runner.rs:508-513, 1778-1783, 1799-1815); `mark_failed` is not even
looked at; a `turn/start` counts as refused although codex may have the message; a queue
that cannot be read at a start is empty (`Load`). One fault is one outage: it may meet any
of the calls of one handler, so that the hold after a lost take may be lost as well.
`unanswered` is a history of the turns whose row is not what a handler meant to write, or
which it could not read, until a runner reads the waiting rows again; the properties that
relate a row to the runner speak of the other turns.

Left out: compaction, renames, approvals, pictures, the writes of the thread's own row,
codex's own status reports, the check for a working sibling (which refuses a turn before
it is sent), the gap between the watcher's drain and its LIVE query, a runner's early close
from its side task, a resume that codex refuses, a turn claimed while its thread is being
closed.

`ServesMessages` maps it to `MessageService`: `Stage` reads a message's stage off its
row, off `sent` and off where it is. A claimed steer and the queue turn in the runner's
hand are *taken*, a row that says `sent` for a message that is nowhere is *lost* (also one whose
take was made and not answered, the service's `Mislay`), and
what codex has is *delivered* whatever its row says: `mark_failed` (agent_turn.rs:190)
has no condition, so a route task that comes late may mark failed a message that codex
got, or one that was taken back.

### RemoteExec

`gate` is `GATE` with what the clock and the banner make of it; `state`, `cancel`,
`outcome`, `next`, `oldest` are a `JobHandle`; `driver` the place in `exec_shell::run`;
`child`, `helper`, `tree` the interpreter, a process it leaves behind, and which of them
Windows has in the job object. `start` is two actions, `Admit` at the gate and
`Register` in the registry, and an end of session is two, `EndSession` (`cancel_all`)
and `ShutGate`, because nothing is locked over either pair. The sweep of old jobs is
part of `Register` and `Poll`. A chunk is its number; of the ring the model keeps the
first and the last. `wait`, `late`, `cursor`, `got`, `told` are one `remote_exec_wait`:
`Poll` is one round trip with everything the loop makes of its answer. `missed` and
`ended` are histories. Left out: redacted jobs, detach (which changes nothing), the
journal, byte counts, the watchdog that frees a session, the screen-control commands
(which ask the same gate), an error of `child.wait`, reads that return nothing or an
error (exec_shell.rs:227, 235) or what a dead process left in a pipe before the drain, a
second end of session while the first is between its two calls.

## What the runs check

| run | instance | properties | states |
|---|---|---|---|
| `relay_rooms` | three scenes: two sockets of an agent and a master; one agent, a master, every command, sockets break or stall; an unknown role among agents that join | `TypeOK`, `NoZombieInSlot`, `OustedIsClosed`, `ServesSlots` | 1,445,021 |
| `session_live` | two sockets of an agent; break, half-open; `/auth` | `OnlyLateLookupsLinger`, `EvictedIsForgotten`, `DeadSocketVacates` | 132,571 |
| `presence_crash` | two sockets of one agent; break, failing writes, crash | `PresenceTypeOK`, `OneDeparture`, `CrashedGoesOffline` | 188,317 |
| `tunnel_slots` | two scenes: admin, duplicate admin, agent of one session, break, stall; two sessions, caps of one, a buffer of one | `TypeOK`, `SlotsHaveOwners`, `TunnelsArePairs`, `InOrder`, `SlotsAreFreed`, `ServesTunnels` | 142,159 |
| `limiter_count` | three tasks, a limit of two, three rollovers, a word of 8 | `TypeOK`, `CountIsExact` | 613,224 |
| `build_queue` | two workers on two hosts, a pinned and an open job, four tasks, two faults | `TypeOK`, `OneBuilder`, `ServesJobs`, `OnlyUnheardAreForgotten`, `PendingIsClaimed` | 35,813 |
| `script_queue` | three entries | `TypeOK`, `InStepUnlessShifted`, `StrayIsTold`, `CompleteIsFinished`, `QueueEnds` | 27,140 |
| `codex_turns` | three messages: a queue turn; a steer, resume, interrupt or close; another queue turn; one fault | `TypeOK`, `SentOnce`, `NothingVanishes`, `HoldIsRecorded`, `QueueMoves`, `ServesMessages` | 706,439 |
| `remote_exec` | two scenes: a job of four chunks in a ring of two, tailed; a job that forks, gate and end of session, and a second job for a cap of one | `TypeOK`, `EndedIsDead`, `RevokedIsCancelled`, `TailIsWhole`, `CancelKills`, `JobEnds` | 183,840 |

Three more runs end in a counterexample, each of one property that a comment of the
code states (see Findings): `presence_console`, `codex_stop`, `exec_revoke`.

What the properties say:

* `NoZombieInSlot`: a connection that cleared its slot never occupies it again, and
  only one of its two cleanups departs as the owner.
* `OustedIsClosed`: who lost the slot it held is evicted, or some task is about to
  evict it, so no socket is left ponging for a room that does not route it.
* `ServesSlots`: the relay refines `SlotService`: a connection tries for its slot once,
  a client displaces whoever is there, a second master is turned away, nobody comes back
  to a slot, and only a connection that made its try is closed, for good.
* `EvictedIsForgotten`: after an eviction every task of the connection ends and its
  session is erased.
* `DeadSocketVacates`: a broken or half-open socket does not keep its slot.
* `OneDeparture`: the offline write of a departure is scheduled once, by a client
  that is out of its slot.
* `CrashedGoesOffline`: a machine whose agent died ends up, and stays, offline.
* `OnlyLateLookupsLinger`: the only way to stay in `user_map` is the late lookup.
* `SlotsHaveOwners`: an Active entry has exactly one pairing task, a Pending entry a
  parked task that can still answer; so a removal by session id hits the remover's
  own entry.
* `TunnelsArePairs`: one admin and one agent of one session, no socket in two.
* `InOrder`: what an end receives is a prefix of what the other sent.
* `ServesTunnels`: the relay refines `TunnelService`: a socket parks or pairs if it may
  and is turned away only if it may not, neither cap is exceeded, a slot is
  freed with the sockets that held it, and a tunnel is a pipe in each direction.
* `SlotsAreFreed`: a slot is given back unless a socket does not drain.
* `CountIsExact`: after a reset that met no other call, the count is the writes
  granted plus the refused calls that have yet to undo their increment.
* `OneBuilder`: a job is built by one task at a time, on the host its row names.
* `ServesJobs`: the workers refine `JobService`: taken once, by who may, resolved by
  the taker, lost for good with it.
* `OnlyUnheardAreForgotten`: a pending job loses its last chance to a fault, or to a
  submission that no worker which may take it hears (it is down, between its drain and
  its subscription, or subscribed while the job is pinned), and in no other way.
* `PendingIsClaimed`: a pending job that is not forgotten is claimed.
* `InStepUnlessShifted`: the index of a running queue names the entry whose worker is
  polled, and those before it have finished.
* `StrayIsTold`: a worker nobody polls any more was told to stop.
* `CompleteIsFinished`: a queue that comes to its end has finished every entry.
* `QueueEnds`: a queue that runs or stops comes to its end, whatever its worker does.
* `SentOnce`: codex gets each message once.
* `NothingVanishes`: a claimed message is with codex, underway or queued, unless a
  crash, a close or a failed runner took it, or a call about its own row went
  unanswered.
* `HoldIsRecorded`: the hold in the runner's memory and the one on the rows agree, save
  the rows that an unanswered hold or release missed.
* `ServesMessages`: the broker refines `MessageService`: what was taken back, refused or
  cancelled never goes out, what is held goes out only after a release, and what was
  delivered or lost is not taken again; a lost message can only be reported as refused.
* `QueueMoves`: a queued message does not wait for ever while a runner holds its thread,
  unless a call about its row went unanswered.
* `EndedIsDead`: an ended job has no interpreter, nobody holds its pipes, and what was
  cancelled or timed out took its helpers with it.
* `RevokedIsCancelled`: after an end of session only jobs that were past the gate and
  not registered run on untold.
* `TailIsWhole`: a wait that returns an ended job in time has all its output, or says
  that output was lost or that it stopped collecting.
* `CancelKills`: a cancelled job loses its interpreter, also when the cancel came before
  the process was in its job object.
* `JobEnds`: a job ends, unless a process it left behind keeps the pipes open after the
  interpreter is gone: that drain has no deadline.

### Bounds, and why they are enough

Rooms share nothing but the maps and sessions are per connection, so one room shows
what a room can do. Two client connections are the old socket and the redial, and a
third actor, the master, can fail a send to either. Each connection has its two
cleanups, so four cleanups interleave. A tunnel session is one-time: three sockets
are the two ends and an intruder with a taken role; two sessions reach both caps. A
buffer of one frame and two frames put one on each side of the hand-over. Three
limiter tasks let one roll over while another undoes and a third adds; the word of 8
wraps below zero as 2^64 does.

Two workers and a job that both may build race for a claim, a second task of one
worker is the duplicate notice, the pinned job has one worker only. Two faults allow a
fault during the recovery from another. Three entries put one before, at and
after the index. Three messages are one that runs, one that waits and what the
technician does about it, claimed and handed over in any order; one crash, lost connection,
failed start or outage at every point of that. One job with an output of
four chunks in a ring of two, a cap of three on what a wait collects, evicts before, at
and behind the cursor and meets the cap; two jobs
and a cap of one compete for a place.

`Frames` bounds the frames a remote end sends, `MaxClock` the clock, `MaxFaults` the
faults of a build queue and of an agent thread, `Chunks` a job's output before its
drain; nothing else is bounded. `CHECK_DEADLOCK FALSE` stands in the configurations
whose connections, jobs or messages are finite in number and end.

### Fairness

tokio polls every task that is ready, so each task of a connection has weak
fairness. Weak fairness on a task is on the disjunction of its steps, and no step is
obliged while its send waits for a stalled socket. Timers (pong silence, TTL, idle)
are steps of their task. Nothing obliges a peer to send a frame, to drain its socket
or to dial again, an agent to crash or to beat. The sweep is a cron job that runs
every minute and a row that nobody touches ages: both are weakly fair. A failed
sweep changes nothing and is tried again a minute later; `CrashedGoesOffline` thus
assumes the database does not refuse for ever.

`DeadSocketVacates` and `EvictedIsForgotten` are checked without stalled sockets: a
join that notifies a stalled peer waits with no deadline and its connection has
neither a read loop nor a ping task yet. `SlotsAreFreed` names the same exception
for the tunnel.

A build worker's loop and tasks are tokio tasks: weakly fair; a notice that is there
again and again is received in the end (strong fairness, the stream is a queue); jobs
need not be submitted, workers need not be started, faults need not happen, and a build
need not end: `compile_one` waits for cargo without a deadline (compile.rs:202-209). The
frames of the scripts tab are drawn and its budgets run out; scripts need not end.
A runner's `select` serves commands and events, each weakly fair, and codex ends its
turns; messages need not be sent or claimed, nor idle runners released. A job's driver is weakly
fair, and strongly at its clock: the loop passes there every quarter of a second, and
once the deadline is over the next pass sees it. Processes need not exit.

## Findings

* **`presence_console`** - the sweep is called the catch-all for crashed agents
  (heartbeat_sweep.rs:10). A console left in the room keeps the row fresh by its own
  pings, and when a failed send had cleared the slot, the relay schedules no offline
  write: the machine stays online for ever.
* **`codex_stop`** - an interrupt "stops the running turn, holds the queue"
  (runner.rs:1897). During a tool call the stop is handled at once and overtakes the
  queue turns that arrived before it; with an empty queue in memory there is nothing to
  hold, and they are sent when the turn ends.
* **`exec_revoke`** - an end of session is to "revoke the lease and terminate anything
  running under it" (banner_egui.rs:113). `start` asks the gate and registers the job
  later; a job between the two, or one that is admitted between `cancel_all` and the
  closing of the gate, is not cancelled and runs on.

Read in the code, and modelled, but not the subject of a run:

* A plugin build that is pinned to a worker which is already subscribed is not announced
  to it: db_mode.rs:77 binds `$worker` as a JSON object, build_job.rs:137 and :204 as a
  record id. It waits until that worker's loop starts over.
* An agent turn whose claim is made and not answered stays `sent` or `queued` with nobody
  to deliver it (turns.rs:23); one whose `take_queued` is made and not answered goes back
  to the front and is dropped by the next take (runner.rs:1835), both without a trace but
  the log.

* `last_activity` is stamped by the read loop only; a sender whose frame waits for a
  stalled target is evicted as half-open although its socket works (main.rs:459).
* The relay reads a slot's vacancy under the lock and sends the offline write after it;
  an agent that registers in between is shown offline until its next heartbeat.
* A late lookup keeps a user in `/users_online`, which says "currently connected"
  (main.rs:575).
* The limiter's comment (main.rs:111) says rolling window where the code counts in fixed
  windows, so a burst around a rollover may reach nearly twice the limit.
* The departing client's notice may overtake the newer client's `CLIENT_CONNECTED`.
* A `remote_exec_wait` whose deadline passes while it pages through a finished job drops
  the marker that says there is more (mcp_bridge.rs:4853, 4885), which is why
  `TailIsWhole` speaks of waits that return in time.
* A restarted agent has an empty registry, so nothing is ever marked Orphaned
  (registry.rs:106, mcp_bridge.rs:4324).
* A job that is cancelled may be seen to exit before its driver looks at the flag, and
  is then reported as failed.
* The drain of a job's pipes "ends" (exec_shell.rs:295) only if no process that the
  interpreter left behind keeps them; until then the job keeps its place under the cap.

## Proofs

`tlapm` checks every step of the proof modules, for any connections, rooms,
sessions, jobs, workers, queues and messages, and any finite set of limiter tasks. The only assumptions are the
named `ASSUME`s of the modules: roles and rooms are functions of the connection,
`None` is not a connection, caps are naturals, the limit and the window are
sensible, the limiter's limit plus its tasks fit in a word; a task belongs to one worker
and one job, and there is one for every pair that may meet; bounds are naturals.

* **`RoomRelay_proofs`** - `TypeCorrect` (`TypeOK`), `NoZombie` (`NoZombieInSlot`),
  `OustedClosed` (`OustedIsClosed`), `SlotsServed` (`ServesSlots`). The invariant `SlotInv` adds to the types: a task
  about to send has a peer; a connection in a slot has the slot's role and room and
  is in `held` (`SlotsMatch`); nobody is held before its claim, and the read and ping
  tasks start only after the join has ended (`JoinFirst`); only a task that is
  evicting has connections left to evict (`VictimsMatch`). Facts
  about single steps carry the rest: evictions and pending evictions are never
  dropped (`EvictionsStay`), whoever leaves a slot is about to be evicted
  (`SlotsStay`), a task gets past `clear_slot` by `CleanSlot` alone
  (`OnlyCleanSlotLeaves`), and only a connection whose two tasks have not started
  wins a slot (`OnlyClaimsWin`).
  `NoZombieInSlot` alone is not inductive: it does not know that the claim comes
  before both cleanups. `SlotsServed` reads each action as a try, a departure or a
  closing of `SlotService`; that a connection in a slot has tried, and that only one
  that has tried is closed, comes from `SlotInv` and `OnlyHolders`.
* **`TunnelRelay_proofs`** - `TypeCorrect` (`TypeOK`), `SlotOwnership`
  (`SlotsHaveOwners`), `Pairs` (`TunnelsArePairs`). `SlotsHaveOwners` becomes
  inductive with `PeersMatch` (a pairing has a peer of its own, of its session and
  the other role), `ReclaimsMatch` (only that pairing asks for the peer's halves) and
  `HalvesOwned` (past the await, the peer's task has given its halves away).
  `Caps` (`CapsHold`): each join adds one session to a set of them that is below its
  cap, so what is counted stays finite although `Session` need not be. `FramesInOrder`
  (`InOrder`) rests on `FrameInv`: an end's frames form a run of consecutive numbers,
  what was delivered and what is buffered or in a pump's hand together are what was
  read, and the halves of a pairing are nobody else's. `TunnelsServed`
  (`ServesTunnels`) takes all three invariants: ownership makes a removal by session id
  the departure of the sockets in that slot, the finite counts make the caps those of
  the service, and `FrameInv` makes a delivered frame the one after the last.
* **`RoomCompositions_proofs`** - of `SessionUsers`: `RelayUnchanged` (every run of the
  composition is a run of `RoomRelay`, whose theorems so hold of it), `UsersTypeCorrect`
  (`UsersTypeOK`), `LateLookups` (`OnlyLateLookupsLinger`). From the erase of the read
  loop on, only a late lookup brings the user back (`ErasedHoldsLate`), and nothing but
  that erase takes a task past it (`OnlyEraseErases`).
  Of `RoomPresence`: its `Crash` breaks several sockets in one step, which `RoomRelay`
  cannot do, so its runs are not runs of `RoomRelay`; but the relay's inductive
  invariant (`RelayInv`) survives a crash, which only changes `sock`. Hence
  `SlotsSurviveCrashes` (`NoZombieInSlot` and `OustedIsClosed`) and
  `SlotsServedToCrashing` (`ServesSlots`, in whose words a crash is a stutter).
  `PresenceTypeCorrect` (`PresenceTypeOK`) needs the row's own types (`RowType`), and
  `DepartureOnce` (`OneDeparture`) that a client whose offline write was scheduled has
  left its slot (`GraceAfterSlot`), so that no second cleanup departs as the owner.
* **`WriteLimiter_proofs`** - `TypeCorrect` (`TypeOK`), `ExactCount`
  (`CountIsExact`). `CountIsExact` is inductive with the types, given that the count
  cannot reach the word: at most `MaxWrites` grants and one increment per task.

* **`BuildQueue_proofs`** - `TypeCorrect` (`TypeOK`), `OneBuilderAlways`
  (`OneBuilder`), `Refinement` (`ServesJobs`), `OnlyUnheard` (`OnlyUnheardAreForgotten`). Types
  and `OneBuilder` are inductive together. In the refinement a step that leaves
  builders and rows alone is a stutter, a claim that wins is `Take`, a crash loses the
  jobs of the process at once, and a claim without its answer is `LoseAtOnce`.
* **`ScriptQueue_proofs`** - `TypeCorrect` (`TypeOK`), `InStep`
  (`InStepUnlessShifted`), `StraysTold` (`StrayIsTold`), `CompleteFinished`
  (`CompleteIsFinished`). `QuietWhenIdle` is what is missing from
  `InStepUnlessShifted`: a queue that does not run shows nothing as running but the
  entry that is stopping, so that the next run starts from a clean list.
* **`RemoteExec_proofs`** - `TypeCorrect` (`TypeOK`, with the cap), `EndedDead`
  (`EndedIsDead`), `RevokedCancelled` (`RevokedIsCancelled`), `TailWhole`
  (`TailIsWhole`). `Fits` relates a job's state to its processes: none before the
  spawn, a dead interpreter in the drain, and after a kill nothing of the job object;
  `RevokeInv` adds that a job at the gate during an end of session is among the missed
  and that the gate stays shut; `TailInv` that, as long as nothing was evicted, the
  wait has exactly the chunks before its cursor. The count of running jobs needs
  that they are finitely many, not that `Job` is.

* **`CodexTurns_proofs`** - `TypeCorrect` (`TypeOK`), `OnceSent` (`SentOnce`),
  `NoneVanishes` (`NothingVanishes`), `HoldRecorded` (`HoldIsRecorded`). `QueueInv` joins
  what they need of each other: a turn that is not claimed is nowhere but in its row
  (`Unseen`); a steer is on its way once and has not arrived, a queue turn that codex
  got has left its row (`OnTheWay`); a queue without hold has no held row anywhere, also
  not behind it in the channel, and a held one no queued row (`Agree`, which
  `HoldIsRecorded` alone does not know), apart from the rows in `unanswered`.
  `PumpFacts` and `PumpAgrees` say what `pump` leaves behind, `QueueStep` carries the
  invariant over every step that pumps or holds, and `GoneStep` over every end of a
  runner. The rows that a start loads are a set with one sequence (`QueueOf`), since the
  prover cannot compute `SelectSeq`. `MessagesServed` (`ServesMessages`) adds
  `StageInv`: a message has a row, and a steer that is on its way has one that says
  `sent`. `PumpMeans` reads every step that pumps, after writes that were made or missed,
  as `Hold`, `Release`, `Take` or `Mislay` of the service; `SendMeans` what is sent as
  `Accept` or `Refuse`; `LossMeans` every end of a runner or broker as `Discard`.

Only model-checked: the liveness properties (`EvictedIsForgotten`,
`DeadSocketVacates`, `CrashedGoesOffline`, `SlotsAreFreed`, `PendingIsClaimed`,
`QueueEnds`, `QueueMoves`, `CancelKills`, `JobEnds`), since the prover does not
handle fairness and `ENABLED`. Every invariant, action property and refinement that a
passing run checks is also a theorem. Two theorems state what no run has as a
property of its own: the types of `SessionUsers` (`UsersTypeOK`), and the caps
(`CapsHold`), which `ServesTunnels` implies on the finite instance. No module has a `RECURSIVE`
operator, and nothing here needs induction over data.

## Not modelled

Frame contents, JSON and bincode encodings, logging and metrics; authentication and
origin checks of the upgrade handlers; the contents of SurrealDB rows other than
`connected` and `last_update`; the relay's shutdown (the process is stopped and its
state is lost). A console's own `connected = true` write is left out: it would only
keep a row online longer. The components listed as not modelled in `PROJECT.json`
carry their reason there.
