------------------------------ MODULE JobService ------------------------------
(***************************************************************************)
(* What the build queue promises to those who submit jobs, without its     *)
(* workers' restarts, subscriptions and duplicate notices: a job is taken  *)
(* at most once, by a task that may take it; whoever took it writes its    *)
(* one result; and a job whose taker is gone is lost for good, for nobody  *)
(* takes it again.                                                         *)
(***************************************************************************)
CONSTANTS
  Job,      \* the jobs that are ever submitted
  Taker,    \* the tasks that work on them
  MayTake,  \* [Job -> SUBSET Taker]
  None      \* no taker

VARIABLES
  state,    \* [Job -> {"none", "pending", "taken", "done", "failed", "lost"}]
  taker     \* [Job -> Taker \cup {None}]

svars == <<state, taker>>

Init ==
  /\ state = [j \in Job |-> "none"]
  /\ taker = [j \in Job |-> None]

Moves(j, from, to) == state[j] = from /\ state' = [state EXCEPT ![j] = to]

Submit(j)  == Moves(j, "none", "pending") /\ UNCHANGED taker

Take(j, t) ==
  /\ t \in MayTake[j]
  /\ Moves(j, "pending", "taken")
  /\ taker' = [taker EXCEPT ![j] = t]

Resolve(j) ==
  /\ \E to \in {"done", "failed"} : Moves(j, "taken", to)
  /\ taker' = [taker EXCEPT ![j] = None]

\* Takers die together when their process does.
Lose(js) ==
  /\ \A j \in js : state[j] = "taken"
  /\ state' = [j \in Job |-> IF j \in js THEN "lost" ELSE state[j]]
  /\ taker' = [j \in Job |-> IF j \in js THEN None ELSE taker[j]]

\* The claim went through, and its answer got lost.
LoseAtOnce(j) == Moves(j, "pending", "lost") /\ UNCHANGED taker

Next ==
  \/ \E j \in Job : Submit(j) \/ Resolve(j) \/ LoseAtOnce(j)
  \/ \E j \in Job, t \in Taker : Take(j, t)
  \/ \E js \in SUBSET Job : Lose(js)

Spec == Init /\ [][Next]_svars
=============================================================================
