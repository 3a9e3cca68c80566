---------------------------- MODULE MessageService ----------------------------
(***************************************************************************)
(* What the broker promises to a technician who writes to an agent thread, *)
(* without its rows, route tasks, runners, channels and crashes: a message *)
(* waits until it is taken out of the queue or refused; one that is held   *)
(* goes nowhere before the queue is released; one that was taken is given  *)
(* to codex once, refused, or lost with the process that had it or with an *)
(* answer that did not come; what codex got and what was dropped never     *)
(* comes back, and what was lost can only be reported as refused.          *)
(***************************************************************************)
EXTENDS Sequences

CONSTANT Message   \* every message that is ever written

VARIABLES
  stage,   \* [Message -> {"none", "waiting", "held", "taken", "delivered", "dropped", "lost"}]
  log      \* the messages that codex got, in that order

serviceVars == <<stage, log>>

Init == stage = [m \in Message |-> "none"] /\ log = <<>>

In(K)     == {m \in Message : stage[m] \in K}
Put(S, k) == [m \in Message |-> IF m \in S THEN k ELSE stage[m]]

Released == Put(In({"held"}), "waiting")

Becomes(m, from, to) == stage[m] \in from /\ stage' = [stage EXCEPT ![m] = to]

Write(m)    == Becomes(m, {"none"}, "waiting") /\ UNCHANGED log
Withdraw(m) == Becomes(m, {"waiting", "held"}, "dropped") /\ UNCHANGED log

Hold(S) == S \subseteq In({"waiting"}) /\ stage' = Put(S, "held") /\ UNCHANGED log
Release == stage' = Released /\ UNCHANGED log

\* Out of the queue, or out of one that is released by the same command.
Take(m) ==
  /\ \E s \in {stage, Released} : s[m] = "waiting" /\ stage' = [s EXCEPT ![m] = "taken"]
  /\ UNCHANGED log

\* As Take, with nobody left who knows of it; those that wait may be held.
Mislay(m, S) ==
  /\ \E s \in {stage, Released} :
       /\ s[m] = "waiting" /\ \A x \in S : s[x] = "waiting"
       /\ stage' = [x \in Message |-> IF x = m THEN "lost" ELSE IF x \in S THEN "held" ELSE s[x]]
  /\ UNCHANGED log

\* To codex; one whose answer does not come, or that codex refuses, may hold those that
\* wait, and the refusal may not be recorded.
Ends(m, from, S, to) ==
  /\ stage[m] \in from /\ S \subseteq In({"waiting"})
  /\ stage' = [Put(S, "held") EXCEPT ![m] = to]

Accept(m, S) == Ends(m, {"taken"}, S, "delivered") /\ log' = Append(log, m)
Refuse(m, S) ==
  (\E to \in {"dropped", "lost"} : Ends(m, {"taken", "lost"}, S, to)) /\ UNCHANGED log

\* The thread is closed, or a process dies with what it had.
Discard(D, L) ==
  /\ D \subseteq In({"waiting", "held"}) /\ L \subseteq In({"taken"})
  /\ stage' = [m \in Message |-> IF m \in D THEN "dropped" ELSE IF m \in L THEN "lost" ELSE stage[m]]
  /\ UNCHANGED log

Next ==
  \/ \E m \in Message : Write(m) \/ Take(m) \/ Withdraw(m)
  \/ Release
  \/ \E S \in SUBSET Message :
       Hold(S) \/ \E m \in Message : Mislay(m, S) \/ Accept(m, S) \/ Refuse(m, S)
  \/ \E D, L \in SUBSET Message : Discard(D, L)

Spec == Init /\ [][Next]_serviceVars
=============================================================================
