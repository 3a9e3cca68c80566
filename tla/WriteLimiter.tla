----------------------------- MODULE WriteLimiter -----------------------------
(***************************************************************************)
(* global_write_allowed (websocket_server2/src/main.rs): the limiter that  *)
(* the ping tasks of all rooms ask before they stamp last_update.  Two     *)
(* relaxed atomics, the window's start and its count, are read and written *)
(* in separate steps by tasks on several threads.                          *)
(*                                                                         *)
(* count is an unsigned word: fetch_add and fetch_sub wrap.                *)
(***************************************************************************)
EXTENDS Integers, FiniteSets

CONSTANTS
  Task,       \* the ping tasks that may ask at the same time
  MaxWrites,  \* GLOBAL_MAX_WRITES_PER_WINDOW
  Window,     \* GLOBAL_WINDOW_SECS
  Word,       \* 2^64 in the code
  MaxClock    \* bound: the clock stops here

ASSUME LimitAssumption ==
  /\ IsFiniteSet(Task)
  /\ {MaxWrites, Window, MaxClock} \subseteq Nat
  /\ MaxWrites > 0 /\ Window <= MaxClock
  /\ Word \in Nat /\ MaxWrites + Cardinality(Task) < Word

VARIABLES
  clock,    \* the system clock, in seconds
  start,    \* GLOBAL_WINDOW_START
  count,    \* GLOBAL_WRITE_COUNT
  pc,       \* where each call stands
  now,      \* the call's reading of the clock
  granted,  \* history: writes allowed since the count was last reset
  exact     \* history: nobody else was in a call at that reset

vars == <<clock, start, count, pc, now, granted, exact>>

TypeOK ==
  /\ clock \in 0..MaxClock /\ start \in 0..MaxClock
  /\ count \in 0..(Word - 1)
  /\ pc \in [Task -> {"idle", "load", "rollStart", "rollCount", "add", "undo"}]
  /\ now \in [Task -> 0..MaxClock]
  /\ granted \in Nat
  /\ exact \in BOOLEAN

\* The statics start at zero, decades before the first call.
Init ==
  /\ clock = Window /\ start = 0
  /\ count = 0
  /\ pc = [t \in Task |-> "idle"]
  /\ now = [t \in Task |-> 0]
  /\ granted = 0
  /\ exact = TRUE

Goto(t, l) == pc' = [pc EXCEPT ![t] = l]

Tick ==
  /\ clock < MaxClock
  /\ clock' = clock + 1
  /\ UNCHANGED <<start, count, pc, now, granted, exact>>

\* SystemTime::now().
Ask(t) ==
  /\ pc[t] = "idle"
  /\ now' = [now EXCEPT ![t] = clock]
  /\ Goto(t, "load")
  /\ UNCHANGED <<clock, start, count, granted, exact>>

\* saturating_sub.
Elapsed(t) == IF now[t] >= start THEN now[t] - start ELSE 0

Load(t) ==
  /\ pc[t] = "load"
  /\ Goto(t, IF Elapsed(t) >= Window THEN "rollStart" ELSE "add")
  /\ UNCHANGED <<clock, start, count, now, granted, exact>>

RollStart(t) ==
  /\ pc[t] = "rollStart"
  /\ start' = now[t]
  /\ Goto(t, "rollCount")
  /\ UNCHANGED <<clock, count, now, granted, exact>>

\* Mutant: the reset forgets the write it allows itself.
RollCount_Zero(t) ==
  /\ pc[t] = "rollCount"
  /\ count' = 0
  /\ granted' = 1
  /\ exact' = \A u \in Task : u # t => pc[u] = "idle"
  /\ Goto(t, "idle")
  /\ UNCHANGED <<clock, start, now>>

\* The count is reset to this call's own write.
RollCount(t) ==
  /\ pc[t] = "rollCount"
  /\ count' = 1
  /\ granted' = 1
  /\ exact' = \A u \in Task : u # t => pc[u] = "idle"
  /\ Goto(t, "idle")
  /\ UNCHANGED <<clock, start, now>>

\* fetch_add returns the count before it.
Add(t) ==
  /\ pc[t] = "add"
  /\ count' = (count + 1) % Word
  /\ IF count < MaxWrites
     THEN /\ granted' = granted + 1
          /\ Goto(t, "idle")
     ELSE /\ Goto(t, "undo")
          /\ UNCHANGED granted
  /\ UNCHANGED <<clock, start, now, exact>>

\* Mutant: as if the count were a signed word.
Undo_Signed(t) ==
  /\ pc[t] = "undo"
  /\ count' = count - 1
  /\ Goto(t, "idle")
  /\ UNCHANGED <<clock, start, now, granted, exact>>

\* fetch_sub; after a reset by another call it may take the count below zero.
Undo(t) ==
  /\ pc[t] = "undo"
  /\ count' = (count - 1) % Word
  /\ Goto(t, "idle")
  /\ UNCHANGED <<clock, start, now, granted, exact>>

Call(t) == Ask(t) \/ Load(t) \/ RollStart(t) \/ RollCount(t) \/ Add(t) \/ Undo(t)

Next == Tick \/ \E t \in Task : Call(t)

Spec == Init /\ [][Next]_vars

-----------------------------------------------------------------------------
(* Properties. *)

Undoing == {t \in Task : pc[t] = "undo"}

(***************************************************************************)
(* The atomics alone keep the count exact: after a reset that met no other *)
(* call, the count is the writes allowed since plus the refused calls that *)
(* have yet to take their increment back, and a call is refused only when  *)
(* the window is used up.  What breaks the count is a rollover in the      *)
(* middle of other calls.                                                  *)
(***************************************************************************)
CountIsExact ==
  exact => /\ granted <= MaxWrites
           /\ count = granted + Cardinality(Undoing)
           /\ Undoing # {} => granted = MaxWrites
=============================================================================
