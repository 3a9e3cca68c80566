-------------------------- MODULE ScriptQueue_proofs --------------------------
(***************************************************************************)
(* ScriptQueue, proved for any number of run tokens, so for queues of any  *)
(* length: a running queue stays in step with its worker until an entry    *)
(* before the running one is removed, workers left behind are told, and a  *)
(* queue that comes to its end has finished every entry.                   *)
(***************************************************************************)
EXTENDS ScriptQueue, TLAPS

\* A queue that does not run shows only the stopping entry as running.
QuietWhenIdle ==
  ~shifted /\ ~running =>
    \A i \in 1..Len(items) : items[i].status = "running" => items[i].token = stopping

\* The inductive invariant.
IInv == TypeOK /\ InStepUnlessShifted /\ QuietWhenIdle

-----------------------------------------------------------------------------
(* Sequences built entry by entry. *)

\* A function on 1..n is a sequence of length n.
LEMMA FunctionIsSeq ==
  ASSUME NEW S, NEW n \in Nat, NEW f, f \in [1..n -> S]
  PROVE  f \in Seq(S) /\ Len(f) = n /\ \A i \in 1..n : f[i] \in S
OBVIOUS

\* The entries of a queue of type Entry.
LEMMA EntryType ==
  ASSUME items \in Seq(Entry)
  PROVE  /\ Len(items) \in Nat
         /\ \A i \in 1..Len(items) : /\ items[i] \in Entry
                                     /\ items[i].token \in Token
                                     /\ items[i].status \in Status
<1>1. Len(items) \in Nat /\ \A i \in 1..Len(items) : items[i] \in Entry
  OBVIOUS
<1> QED
  BY <1>1 DEF Entry

\* A new status for the entry i of a queue.
LEMMA MarkedEntries ==
  ASSUME NEW s \in Seq(Entry), NEW i \in 1..Len(s), NEW st \in Status
  PROVE  /\ Marked(s, i, st) \in Seq(Entry) /\ Len(Marked(s, i, st)) = Len(s)
         /\ \A j \in 1..Len(s) :
              /\ Marked(s, i, st)[j].token = s[j].token
              /\ Marked(s, i, st)[j].status = IF j = i THEN st ELSE s[j].status
<1> DEFINE t == Marked(s, i, st)
<1>1. \A j \in 1..Len(s) : s[j] \in Entry
  OBVIOUS
<1>2. t \in [1..Len(s) -> Entry]
  BY <1>1 DEF Entry, Marked
<1>3. Len(s) \in Nat
  OBVIOUS
<1>4. t \in Seq(Entry) /\ Len(t) = Len(s)
  BY <1>2, <1>3, FunctionIsSeq
<1>5. \A j \in 1..Len(s) : /\ t[j].token = s[j].token
                           /\ t[j].status = IF j = i THEN st ELSE s[j].status
  BY <1>1 DEF Entry, Marked
<1> QED
  BY <1>4, <1>5

-----------------------------------------------------------------------------
(* The steps, one lemma each. *)

LEMMA Empty == <<>> \in Seq(Entry) /\ Len(<<>>) = 0 /\ \A i \in 1..0 : FALSE
OBVIOUS

LEMMA InitInv == Init => IInv
<1> SUFFICES ASSUME Init PROVE IInv
  OBVIOUS
<1>1. items \in Seq(Entry) /\ \A i \in 1..Len(items) : FALSE
  BY Empty DEF Init
<1>2. Unique /\ QuietWhenIdle
  BY <1>1 DEF Unique, QuietWhenIdle
<1>3. TypeOK /\ InStepUnlessShifted
  BY <1>1, <1>2, NoneAssumption DEF Init, TypeOK, InStepUnlessShifted, Live, Ended
<1> QED
  BY <1>2, <1>3 DEF IInv

LEMMA AddInv ==
  ASSUME IInv, NEW k \in Token, Add(k)
  PROVE  IInv'
<1>1. items \in Seq(Entry)
  BY DEF IInv, TypeOK, Entry
<1> DEFINE e == [token |-> k, status |-> "pending"]
<1>2. e \in Entry /\ e.token = k /\ e.status = "pending"
  BY DEF Entry, Status
<1>3. /\ items' \in Seq(Entry) /\ Len(items) \in Nat /\ Len(items') = Len(items) + 1
      /\ \A i \in 1..Len(items) : items'[i] = items[i]
      /\ items'[Len(items) + 1] = e
  BY <1>1, <1>2 DEF Add
<1>4. /\ \A i \in 1..Len(items) : items[i].token # k
      /\ UNCHANGED <<current, running, handle, worker, strays, stopping, shifted>>
  BY DEF Add, Fresh
<1>5. TypeOK'
  BY <1>2, <1>3, <1>4 DEF IInv, TypeOK, Entry, Unique
<1>6. InStepUnlessShifted'
  <2> SUFFICES ASSUME running, ~shifted PROVE InStepUnlessShifted'
    BY <1>4 DEF InStepUnlessShifted
  <2>1. /\ current \in Nat \ {0} /\ current <= Len(items) /\ handle = items[current].token
        /\ \A i \in 1..Len(items) : items[i].status = "running" <=> i = current
        /\ \A i \in 1..current - 1 : items[i].status \in Finished
    BY DEF IInv, TypeOK, InStepUnlessShifted
  <2>2. \A i \in 1..Len(items) + 1 : items'[i].status = "running" <=> i = current
    BY <2>1, <1>2, <1>3
  <2> QED
    BY <2>1, <2>2, <1>3, <1>4 DEF InStepUnlessShifted
<1>7. QuietWhenIdle'
  BY <1>2, <1>3, <1>4 DEF IInv, QuietWhenIdle
<1> QED
  BY <1>5, <1>6, <1>7 DEF IInv

LEMMA RemoveInv ==
  ASSUME IInv, NEW i \in 1..Len(items), Remove(i)
  PROVE  IInv'
<1>1. items \in Seq(Entry) /\ Len(items) \in Nat /\ \A j \in 1..Len(items) : items[j] \in Entry
  BY EntryType DEF IInv, TypeOK, Entry
<1> DEFINE n == Len(items) - 1
<1>2. n \in Nat /\ Without(i) \in [1..n -> Entry]
  BY <1>1 DEF Without
<1>3. items' \in Seq(Entry) /\ Len(items') = n
  BY <1>2, FunctionIsSeq DEF Remove
<1>4. \A j \in 1..n : items'[j] = IF j < i THEN items[j] ELSE items[j + 1]
  BY <1>1 DEF Remove, Without
<1>5. /\ shifted' <=> shifted \/ (running /\ i < current)
      /\ ~(running /\ items[i].status = "running")
      /\ UNCHANGED <<current, running, handle, worker, strays, stopping>>
      /\ shifted' \in BOOLEAN
  BY DEF Remove
<1>6. TypeOK'
  <2>1. Unique'
    <3> SUFFICES ASSUME NEW j \in 1..n, NEW k \in 1..n, items'[j].token = items'[k].token
                 PROVE  j = k
      BY <1>3 DEF Unique
    <3>1. PICK J \in 1..Len(items) : items'[j] = items[J] /\ J = IF j < i THEN j ELSE j + 1
      BY <1>1, <1>4
    <3>2. PICK K \in 1..Len(items) : items'[k] = items[K] /\ K = IF k < i THEN k ELSE k + 1
      BY <1>1, <1>4
    <3>3. J = K
      BY <3>1, <3>2 DEF IInv, TypeOK, Unique
    <3> QED
      BY <3>1, <3>2, <3>3, <1>1
  <2> QED
    BY <2>1, <1>3, <1>5 DEF IInv, TypeOK
<1>7. InStepUnlessShifted'
  <2>1. CASE running /\ ~shifted'
    <3>1. current < i /\ current <= n
      BY <2>1, <1>1, <1>5 DEF IInv, TypeOK, InStepUnlessShifted
    <3>2. /\ current \in Nat /\ handle = items[current].token
          /\ \A j \in 1..Len(items) : items[j].status = "running" <=> j = current
          /\ \A j \in 1..current - 1 : items[j].status \in Finished
      BY <2>1, <1>5 DEF IInv, TypeOK, InStepUnlessShifted
    <3>3. items'[current] = items[current] /\ \A j \in 1..current - 1 : items'[j] = items[j]
      BY <3>1, <3>2, <1>1, <1>4, <2>1 DEF IInv, TypeOK
    <3>4. \A j \in 1..n : items'[j].status = "running" <=> j = current
      BY <3>1, <3>2, <1>1, <1>4
    <3> QED
      BY <3>1, <3>2, <3>3, <3>4, <1>3, <1>5 DEF InStepUnlessShifted
  <2>2. CASE ~running \/ shifted'
    BY <2>2, <1>5 DEF InStepUnlessShifted
  <2> QED
    BY <2>1, <2>2, <1>5
<1>8. QuietWhenIdle'
  BY <1>1, <1>3, <1>4, <1>5 DEF IInv, QuietWhenIdle
<1> QED
  BY <1>6, <1>7, <1>8 DEF IInv

LEMMA ClearInv == IInv /\ Clear => IInv'
BY Empty DEF Clear, IInv, TypeOK, Unique, InStepUnlessShifted, QuietWhenIdle

LEMMA MoveInv ==
  ASSUME IInv, NEW i \in 1..Len(items), MoveDown(i)
  PROVE  IInv'
<1>1. items \in Seq(Entry) /\ Len(items) \in Nat /\ \A j \in 1..Len(items) : items[j] \in Entry
  BY EntryType DEF IInv, TypeOK, Entry
<1>2. i + 1 \in 1..Len(items) /\ Swapped(i) \in [1..Len(items) -> Entry]
  <2>1. i + 1 \in 1..Len(items)
    BY <1>1 DEF MoveDown
  <2>2. items \in [1..Len(items) -> Entry]
    BY <1>1
  <2> QED
    BY <1>1, <2>1, <2>2 DEF Swapped
<1>3. items' \in Seq(Entry) /\ Len(items') = Len(items)
  BY <1>1, <1>2, FunctionIsSeq DEF MoveDown
<1>4. \A j \in 1..Len(items) :
        items'[j] = IF j = i THEN items[i + 1] ELSE IF j = i + 1 THEN items[i] ELSE items[j]
  BY <1>1, <1>2 DEF MoveDown, Swapped
<1>5. ~running /\ UNCHANGED <<current, running, handle, worker, strays, stopping, shifted>>
  BY DEF MoveDown
<1>6. TypeOK'
  <2>1. Unique'
    BY <1>1, <1>2, <1>3, <1>4 DEF IInv, TypeOK, Unique
  <2> QED
    BY <2>1, <1>3, <1>5 DEF IInv, TypeOK
<1>7. InStepUnlessShifted'
  BY <1>5 DEF InStepUnlessShifted
<1>8. QuietWhenIdle'
  BY <1>1, <1>2, <1>3, <1>4, <1>5 DEF IInv, QuietWhenIdle
<1> QED
  BY <1>6, <1>7, <1>8 DEF IInv

LEMMA RunInv == IInv /\ Run => IInv'
<1> SUFFICES ASSUME IInv, Run PROVE IInv'
  OBVIOUS
<1>1. items \in Seq(Entry) /\ Len(items) \in Nat /\ 1 \in 1..Len(items)
      /\ \A j \in 1..Len(items) : items[j].token \in Token
  BY EntryType DEF IInv, TypeOK, Entry, Run
<1>2. /\ items' \in Seq(Entry) /\ Len(items') = Len(items)
      /\ \A j \in 1..Len(items) :
           /\ items'[j].token = items[j].token
           /\ items'[j].status = IF j = 1 THEN "running" ELSE items[j].status
  BY <1>1, MarkedEntries DEF Run, Status
<1>3. TypeOK'
  BY <1>1, <1>2, NoneAssumption DEF IInv, TypeOK, Run, Execute, Unique, Live
<1>4. InStepUnlessShifted'
  BY <1>1, <1>2, NoneAssumption DEF IInv, TypeOK, QuietWhenIdle, InStepUnlessShifted, Run, Execute
<1>5. QuietWhenIdle'
  BY DEF Run, QuietWhenIdle
<1> QED
  BY <1>3, <1>4, <1>5 DEF IInv

\* What FinishCurrent leaves of a queue that is in step.
LEMMA Finishes ==
  ASSUME items \in Seq(Entry), NEW st \in Finished, current \in 1..Len(items)
  PROVE  /\ FinishCurrent(st) \in Seq(Entry) /\ Len(FinishCurrent(st)) = Len(items)
         /\ \A j \in 1..Len(items) :
              /\ FinishCurrent(st)[j].token = items[j].token
              /\ j # current => FinishCurrent(st)[j].status = items[j].status
         /\ items[current].status = "running" => FinishCurrent(st)[current].status = st
<1>1. st \in Status
  BY DEF Finished, Status
<1>2. CASE items[current].status = "running"
  <2>1. FinishCurrent(st) = Marked(items, current, st)
    BY <1>2 DEF FinishCurrent
  <2>2. /\ Marked(items, current, st) \in Seq(Entry)
        /\ Len(Marked(items, current, st)) = Len(items)
        /\ \A j \in 1..Len(items) :
             /\ Marked(items, current, st)[j].token = items[j].token
             /\ Marked(items, current, st)[j].status
                  = IF j = current THEN st ELSE items[j].status
    BY <1>1, MarkedEntries
  <2> QED
    BY <2>1, <2>2
<1>3. CASE items[current].status # "running"
  BY <1>3 DEF FinishCurrent
<1> QED
  BY <1>2, <1>3

\* The pump's step to the next entry or to the end, from a polled queue.
LEMMA AdvanceInv ==
  ASSUME IInv, Polls, NEW st \in Finished, AdvanceToNext(st),
         strays' \in SUBSET Live, UNCHANGED <<stopping, shifted>>
  PROVE  IInv'
<1> DEFINE f == FinishCurrent(st)
<1>1. /\ items \in Seq(Entry) /\ Len(items) \in Nat /\ current \in 1..Len(items)
      /\ \A j \in 1..Len(items) : items[j].token \in Token
  BY EntryType DEF IInv, TypeOK, Polls
<1>2. /\ f \in Seq(Entry) /\ Len(f) = Len(items)
      /\ \A j \in 1..Len(items) :
           /\ f[j].token = items[j].token
           /\ j # current => f[j].status = items[j].status
      /\ items[current].status = "running" => f[current].status = st
  BY <1>1, Finishes
<1>3. stopping = None /\ running
  BY DEF Polls
<1>4. CASE current < Len(items)
  <2>1. current + 1 \in 1..Len(f) /\ "running" \in Status
    BY <1>1, <1>2, <1>4 DEF Status
  <2>2. /\ items' \in Seq(Entry) /\ Len(items') = Len(items)
        /\ \A j \in 1..Len(items) :
             /\ items'[j].token = items[j].token
             /\ items'[j].status = IF j = current + 1 THEN "running" ELSE f[j].status
    <3>1. items' = Marked(f, current + 1, "running")
      BY <1>4, <1>1 DEF AdvanceToNext
    <3> HIDE DEF f
    <3>2. f \in Seq(Entry) /\ current + 1 \in 1..Len(f) /\ "running" \in Status
      BY <2>1, <1>2
    <3>3. /\ items' \in Seq(Entry) /\ Len(items') = Len(f)
          /\ \A j \in 1..Len(f) :
               /\ items'[j].token = f[j].token
               /\ items'[j].status = IF j = current + 1 THEN "running" ELSE f[j].status
      BY <3>1, <3>2, MarkedEntries
    <3> QED
      BY <3>3, <1>2
  <2>3. /\ current' = current + 1 /\ running' = running
        /\ handle' = items[current + 1].token /\ worker' = "runs"
    BY <1>4, <1>1 DEF AdvanceToNext, Execute
  <2>4. TypeOK'
    <3>1. Unique'
      BY <2>2 DEF IInv, TypeOK, Unique
    <3>2. items[current + 1].token \in Token \ {None} /\ current' \in Nat \ {0}
      BY <2>1, <2>3, <1>1, <1>2, NoneAssumption
    <3>3. running \in BOOLEAN /\ shifted \in BOOLEAN
      BY DEF IInv, TypeOK
    <3>4. /\ handle' \in Token /\ handle' # None /\ worker' \in Live /\ worker' # "none"
          /\ running' /\ running' \in BOOLEAN /\ shifted' \in BOOLEAN /\ stopping' = None
      BY <3>2, <3>3, <2>3, <1>3 DEF Live
    <3>5. items' \in Seq(Entry) /\ current' # 0 /\ current' \in Nat
      BY <3>2, <2>2
    <3> QED
      BY <3>1, <3>4, <3>5 DEF TypeOK
  <2>5. InStepUnlessShifted'
    <3> SUFFICES ASSUME ~shifted PROVE InStepUnlessShifted'
      BY DEF InStepUnlessShifted
    <3>1. /\ \A j \in 1..Len(items) : items[j].status = "running" <=> j = current
          /\ \A j \in 1..current - 1 : items[j].status \in Finished
      BY <1>3 DEF IInv, InStepUnlessShifted
    <3>2. "running" \notin Finished
      BY DEF Finished
    <3> HIDE DEF f
    <3>3. \A j \in 1..Len(items) : /\ j <= current => f[j].status \in Finished
                                   /\ j > current => f[j].status # "running"
      BY <1>1, <1>2, <3>1
    <3>4. /\ \A j \in 1..Len(items') : items'[j].status = "running" <=> j = current'
          /\ \A j \in 1..current' - 1 : items'[j].status \in Finished
      <4>1. /\ current' = current + 1 /\ current \in Nat /\ Len(items) \in Nat
            /\ current < Len(items) /\ Len(items') = Len(items)
        BY <1>1, <1>4, <2>2, <2>3
      <4>2. ASSUME NEW j \in 1..Len(items)
            PROVE  /\ j = current + 1 => items'[j].status = "running"
                   /\ j # current + 1 => items'[j].status = f[j].status
        BY <2>2
      <4>3. ASSUME NEW j \in 1..Len(items)
            PROVE  /\ j <= current => f[j].status \in Finished
                   /\ f[j].status = "running" => ~(j <= current) /\ ~(j > current)
        BY <3>2, <3>3
      <4>4. ASSUME NEW j \in 1..Len(items)
            PROVE  items'[j].status = "running" <=> j = current + 1
        <5>1. j <= current \/ j > current
          BY <4>1
        <5> QED
          BY <4>2, <4>3, <5>1
      <4>5. ASSUME NEW j \in 1..current
            PROVE  items'[j].status \in Finished
        <5>1. j \in 1..Len(items) /\ j <= current /\ j # current + 1
          BY <4>1
        <5> QED
          BY <4>2, <4>3, <5>1
      <4>6. current' - 1 = current
        BY <4>1
      <4> QED
        BY <4>1, <4>4, <4>5, <4>6
    <3>5. current' <= Len(items') /\ handle' = items'[current'].token
      BY <1>1, <1>4, <2>2, <2>3
    <3> QED
      BY <3>4, <3>5 DEF InStepUnlessShifted
  <2>6. QuietWhenIdle'
    BY <2>3, <1>3 DEF QuietWhenIdle
  <2> QED
    BY <2>4, <2>5, <2>6 DEF IInv
<1>5. CASE current = Len(items)
  <2>1. /\ items' = f /\ current' = 0 /\ running' = FALSE
        /\ handle' = None /\ worker' = "none"
    BY <1>5, <1>1 DEF AdvanceToNext
  <2>2. TypeOK'
    <3>1. Unique'
      BY <2>1, <1>2 DEF IInv, TypeOK, Unique
    <3> QED
      BY <3>1, <2>1, <1>2, <1>3 DEF IInv, TypeOK, Live, Ended
  <2>3. InStepUnlessShifted'
    BY <2>1 DEF InStepUnlessShifted
  <2>4. QuietWhenIdle'
    BY <2>1, <1>1, <1>2, <1>3, <1>5 DEF IInv, InStepUnlessShifted, QuietWhenIdle, Finished
  <2> QED
    BY <2>2, <2>3, <2>4 DEF IInv
<1> QED
  BY <1>1, <1>4, <1>5 DEF AdvanceToNext

LEMMA OutcomeFinishes == Outcome \in Finished
BY DEF Outcome, Finished

LEMMA PumpInv == IInv /\ (AdvanceOnOutcome \/ TimesOut) => IInv'
<1> SUFFICES ASSUME IInv, AdvanceOnOutcome \/ TimesOut PROVE IInv'
  OBVIOUS
<1>1. CASE AdvanceOnOutcome
  BY <1>1, AdvanceInv, OutcomeFinishes DEF AdvanceOnOutcome, IInv, TypeOK
<1>2. CASE TimesOut
  <2>1. "failed" \in Finished /\ strays' \in SUBSET Live
    BY <1>2 DEF Finished, TimesOut, IInv, TypeOK, Live
  <2> QED
    BY <1>2, <2>1, AdvanceInv DEF TimesOut
<1> QED
  BY <1>1, <1>2

LEMMA StopInv == IInv /\ Stop => IInv'
<1> SUFFICES ASSUME IInv, Stop PROVE IInv'
  OBVIOUS
<1>1. /\ items \in Seq(Entry) /\ Len(items) \in Nat /\ current \in Nat \ {0}
      /\ \A j \in 1..Len(items) : items[j].token \in Token
  BY EntryType DEF IInv, TypeOK, Stop
<1>2. running /\ running' = FALSE /\ current' = 0 /\ shifted' = shifted /\ stopping = None
  BY DEF Stop
<1>3. CASE handle # None /\ current <= Len(items)
  <2>1. /\ worker' = (IF worker = "runs" THEN "told" ELSE worker)
        /\ stopping' = items[current].token
        /\ items' = Marked(items, current, "running")
        /\ handle' = handle /\ strays' = strays
    BY <1>3, <1>1 DEF Stop
  <2>2. /\ items' \in Seq(Entry) /\ Len(items') = Len(items)
        /\ \A j \in 1..Len(items) :
             /\ items'[j].token = items[j].token
             /\ items'[j].status = IF j = current THEN "running" ELSE items[j].status
    <3>1. current \in 1..Len(items) /\ "running" \in Status
      BY <1>1, <1>3 DEF Status
    <3> QED
      BY <2>1, <3>1, <1>1, MarkedEntries
  <2>3. TypeOK'
    <3>1. Unique'
      BY <2>2 DEF IInv, TypeOK, Unique
    <3>2. stopping' \in Token \ {None} /\ worker' \in {"told"} \cup Ended
      BY <2>1, <1>1, <1>3, NoneAssumption DEF IInv, TypeOK, Live, Ended
    <3>3. handle' \in Token \ {None}
      BY <2>1, <1>3 DEF IInv, TypeOK
    <3>4. worker' # "none" /\ worker' \in Live \cup Ended
      BY <3>2 DEF Live, Ended
    <3> QED
      BY <3>1, <3>2, <3>3, <3>4, <2>1, <2>2, <1>2 DEF IInv, TypeOK
  <2>4. QuietWhenIdle'
    BY <2>1, <2>2, <1>1, <1>2, <1>3 DEF IInv, InStepUnlessShifted, QuietWhenIdle
  <2> QED
    BY <1>2, <2>3, <2>4 DEF IInv, InStepUnlessShifted
<1>4. CASE handle = None \/ current > Len(items)
  <2>1. /\ handle' = None /\ worker' = "none" /\ strays' \in SUBSET Live
        /\ UNCHANGED <<items, stopping>>
    BY <1>4, <1>1 DEF Stop, IInv, TypeOK
  <2>2. TypeOK'
    BY <2>1, <1>2, NoneAssumption DEF IInv, TypeOK, Unique, Live, Ended
  <2>3. QuietWhenIdle'
    BY <2>1, <1>1, <1>2, <1>4, NoneAssumption
       DEF IInv, TypeOK, InStepUnlessShifted, QuietWhenIdle
  <2> QED
    BY <1>2, <2>2, <2>3 DEF IInv, InStepUnlessShifted
<1> QED
  BY <1>1, <1>3, <1>4

LEMMA SettleInv ==
  ASSUME IInv, stopping # None, NEW st \in Finished, Settle(st), strays' \in SUBSET Live
  PROVE  IInv'
<1>1. items \in Seq(Entry) /\ Len(items) \in Nat /\ \A j \in 1..Len(items) : items[j] \in Entry
  BY EntryType DEF IInv, TypeOK
<1>2. ~running /\ st \in Status /\ st # "running"
  BY DEF IInv, TypeOK, Finished, Status
<1>3. \A j \in 1..Len(items) : [items[j] EXCEPT !.status = st] \in Entry
  BY <1>1, <1>2 DEF Entry
<1>4. items' \in [1..Len(items) -> Entry]
  BY <1>1, <1>3 DEF Settle
<1>5. items' \in Seq(Entry) /\ Len(items') = Len(items)
  BY <1>1, <1>4, FunctionIsSeq
<1>6. \A j \in 1..Len(items) :
        /\ items'[j].token = items[j].token
        /\ items'[j].status = IF items[j].token = stopping THEN st ELSE items[j].status
  BY <1>1 DEF Settle, Entry
<1>7. /\ stopping' = None /\ handle' = None /\ worker' = "none"
      /\ UNCHANGED <<current, running, shifted>>
  BY DEF Settle
<1>8. TypeOK'
  <2>1. Unique'
    BY <1>5, <1>6 DEF IInv, TypeOK, Unique
  <2> QED
    BY <2>1, <1>2, <1>5, <1>7 DEF IInv, TypeOK, Live, Ended
<1>9. InStepUnlessShifted'
  BY <1>2, <1>7 DEF InStepUnlessShifted
<1>10. QuietWhenIdle'
  BY <1>2, <1>5, <1>6, <1>7 DEF IInv, QuietWhenIdle
<1> QED
  BY <1>8, <1>9, <1>10 DEF IInv

LEMMA StoppedInv == IInv /\ (Settled \/ Abandon) => IInv'
<1> SUFFICES ASSUME IInv, Settled \/ Abandon PROVE IInv'
  OBVIOUS
<1>1. stopping # None /\ strays' \in SUBSET Live
  BY DEF Settled, Abandon, IInv, TypeOK
<1>2. "failed" \in Finished
  BY DEF Finished
<1> QED
  BY <1>1, <1>2, SettleInv, OutcomeFinishes DEF Settled, Abandon

LEMMA EndsInv == IInv /\ WorkerEnds => IInv'
<1> SUFFICES ASSUME IInv, WorkerEnds PROVE IInv'
  OBVIOUS
<1>1. /\ worker \in Live /\ worker' \in Ended
      /\ UNCHANGED <<items, current, running, handle, strays, stopping, shifted>>
  BY DEF WorkerEnds
<1>2. TypeOK'
  BY <1>1 DEF IInv, TypeOK, Unique, Live, Ended
<1> QED
  BY <1>1, <1>2 DEF IInv, InStepUnlessShifted, QuietWhenIdle

LEMMA Invariance == IInv /\ [Next]_vars => IInv'
<1> SUFFICES ASSUME IInv, [Next]_vars PROVE IInv'
  OBVIOUS
<1>1. CASE UNCHANGED vars
  BY <1>1 DEF vars, IInv, TypeOK, Unique, InStepUnlessShifted, QuietWhenIdle
<1>2. CASE Next
  BY <1>2, AddInv, RemoveInv, ClearInv, MoveInv, RunInv, PumpInv, StopInv, StoppedInv, EndsInv
     DEF Next
<1> QED
  BY <1>1, <1>2

-----------------------------------------------------------------------------
(* The theorems. *)

\* The inductive invariant holds in every reachable state.
LEMMA AlwaysIInv == Spec => []IInv
BY InitInv, Invariance, PTL DEF Spec

(***************************************************************************)
(* The queue's variables keep their types; in particular the tokens of its *)
(* entries stay distinct, and a stopped entry is waited for by a handle.   *)
(***************************************************************************)
THEOREM TypeCorrect == Spec => []TypeOK
<1>1. IInv => TypeOK
  BY DEF IInv
<1> QED
  BY <1>1, AlwaysIInv, PTL

(***************************************************************************)
(* However long the queue and whatever the technician presses, the index   *)
(* of a running queue names the entry whose worker the pump waits for,     *)
(* until an entry before it is removed.                                    *)
(***************************************************************************)
THEOREM InStep == Spec => []InStepUnlessShifted
<1>1. IInv => InStepUnlessShifted
  BY DEF IInv
<1> QED
  BY <1>1, AlwaysIInv, PTL

\* What a step may leave behind.
LEMMA LeavesTold ==
  ASSUME IInv, [Next]_vars, ~shifted
  PROVE  /\ strays' \ strays \subseteq {"told"}
         /\ handle' # handle /\ worker = "runs" => "told" \in strays'
<1>1. CASE Stop
  <2>1. running /\ stopping = None
    BY <1>1 DEF Stop
  <2>2. handle # None /\ current <= Len(items)
    BY <2>1, NoneAssumption, EntryType DEF IInv, TypeOK, InStepUnlessShifted
  <2>3. handle' = handle /\ strays' = strays
    BY <1>1, <2>2, EntryType DEF Stop, IInv, TypeOK
  <2> QED
    BY <2>3
<1>2. CASE Settled \/ Abandon
  <2>1. worker \in {"told"} \cup Ended
    BY <1>2 DEF Settled, Abandon, IInv, TypeOK
  <2> QED
    BY <1>2, <2>1 DEF Settled, Abandon, Settle, Live, Ended
<1>3. CASE AdvanceOnOutcome \/ TimesOut
  BY <1>3 DEF AdvanceOnOutcome, TimesOut, Ended
<1>4. CASE Run
  <2>1. worker = "none"
    BY <1>4 DEF Run, IInv, TypeOK
  <2> QED
    BY <1>4, <2>1 DEF Run
<1>5. CASE WorkerEnds \/ Clear \/ UNCHANGED vars
  BY <1>5 DEF WorkerEnds, Clear, vars
<1>6. ASSUME NEW k \in Token, Add(k)
      PROVE  strays' = strays /\ handle' = handle
  BY <1>6 DEF Add
<1>7. ASSUME NEW i \in 1..Len(items), Remove(i) \/ MoveDown(i)
      PROVE  strays' = strays /\ handle' = handle
  BY <1>7 DEF Remove, MoveDown
<1> QED
  BY <1>1, <1>2, <1>3, <1>4, <1>5, <1>6, <1>7 DEF Next

(***************************************************************************)
(* A worker that nobody waits for any more has been told to stop, whether  *)
(* it timed out, was stopped or abandoned, until the index has shifted.    *)
(***************************************************************************)
THEOREM StraysTold == Spec => StrayIsTold
<1>1. IInv /\ [Next]_vars =>
        (~shifted => /\ strays' \ strays \subseteq {"told"}
                     /\ handle' # handle /\ worker = "runs" => "told" \in strays')
  BY LeavesTold
<1> QED
  BY <1>1, AlwaysIInv, PTL DEF Spec, StrayIsTold

\* A polled queue in step that ends: the pump's last step.
LEMMA LastStep ==
  ASSUME IInv, ~shifted, Polls, NEW st \in Finished, AdvanceToNext(st), ~running'
  PROVE  \A i \in 1..Len(items') : items'[i].status \in Finished
<1>1. /\ items \in Seq(Entry) /\ Len(items) \in Nat /\ current \in 1..Len(items) /\ running
      /\ \A j \in 1..current - 1 : items[j].status \in Finished
      /\ items[current].status = "running"
  BY DEF IInv, TypeOK, InStepUnlessShifted, Polls
<1>2. current = Len(items) /\ items' = FinishCurrent(st)
  BY <1>1 DEF AdvanceToNext
<1>3. /\ Len(items') = Len(items) /\ items'[current].status = st
      /\ \A j \in 1..Len(items) : j # current => items'[j].status = items[j].status
  BY <1>1, <1>2, Finishes
<1> QED
  BY <1>1, <1>2, <1>3

\* The steps that end a queue in step.
LEMMA EndsFinished ==
  ASSUME IInv, [Next]_vars, running, stopping = None, ~running', stopping' = None, ~shifted
  PROVE  \A i \in 1..Len(items') : items'[i].status \in Finished
<1>1. CASE Stop
  <2>1. /\ handle # None /\ current <= Len(items) /\ current \in 1..Len(items)
        /\ items[current].token \in Token
    BY EntryType DEF IInv, TypeOK, InStepUnlessShifted
  <2> QED
    BY <1>1, <2>1, NoneAssumption DEF Stop
<1>2. CASE AdvanceOnOutcome
  BY <1>2, LastStep, OutcomeFinishes DEF AdvanceOnOutcome
<1>3. CASE TimesOut
  <2>1. "failed" \in Finished
    BY DEF Finished
  <2> QED
    BY <1>3, <2>1, LastStep DEF TimesOut
<1>4. CASE Settled \/ Abandon \/ Run \/ Clear
  BY <1>4 DEF Settled, Abandon, Run, Clear
<1>5. CASE WorkerEnds \/ UNCHANGED vars
  BY <1>5 DEF WorkerEnds, vars
<1>6. ASSUME NEW k \in Token, Add(k) PROVE FALSE
  BY <1>6 DEF Add
<1>7. ASSUME NEW i \in 1..Len(items), Remove(i) \/ MoveDown(i) PROVE FALSE
  BY <1>7 DEF Remove, MoveDown
<1> QED
  BY <1>1, <1>2, <1>3, <1>4, <1>5, <1>6, <1>7 DEF Next

(***************************************************************************)
(* A queue that comes to its end by itself has finished every entry, those *)
(* added while it ran included, until the index has shifted.               *)
(***************************************************************************)
THEOREM CompleteFinished == Spec => CompleteIsFinished
<1>1. IInv /\ [Next]_vars =>
        (running /\ stopping = None /\ ~running' /\ stopping' = None /\ ~shifted =>
           \A i \in 1..Len(items') : items'[i].status \in Finished)
  BY EndsFinished
<1> QED
  BY <1>1, AlwaysIInv, PTL DEF Spec, CompleteIsFinished
=============================================================================
