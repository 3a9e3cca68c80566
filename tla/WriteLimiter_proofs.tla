------------------------ MODULE WriteLimiter_proofs ------------------------
(***************************************************************************)
(* WriteLimiter, proved for any number of tasks, any cap and any word that *)
(* holds the cap and one increment per task: fetch_add and fetch_sub keep  *)
(* the count exact until a rollover meets another call.                    *)
(***************************************************************************)
EXTENDS WriteLimiter, FiniteSetTheorems, TLAPS

USE DEF Goto

LEMMA Constants ==
  /\ Cardinality(Task) \in Nat /\ MaxWrites \in Nat /\ Word \in Nat
  /\ MaxWrites > 0 /\ MaxWrites + Cardinality(Task) < Word /\ Word > 1
BY LimitAssumption, FS_CardinalityType

\* A word's arithmetic is the integers' while the result fits.
LEMMA Fits ==
  ASSUME NEW x \in 0..(Word - 1)
  PROVE  x % Word = x
BY Constants

\* Whatever the operand, the result is a word.
LEMMA Wraps ==
  ASSUME NEW x \in Int
  PROVE  x % Word \in 0..(Word - 1)
BY Constants

LEMMA TypingInit == Init => TypeOK
BY LimitAssumption, Constants DEF Init, TypeOK

LEMMA TypingStep == TypeOK /\ [Next]_vars => TypeOK'
<1> SUFFICES ASSUME TypeOK, [Next]_vars PROVE TypeOK'
  OBVIOUS
<1> USE Constants DEF TypeOK
<1>1. CASE UNCHANGED vars
  BY <1>1 DEF vars
<1>2. CASE Tick
  BY <1>2, LimitAssumption DEF Tick
<1>3. ASSUME NEW t \in Task, Call(t) PROVE TypeOK'
  <2>1. CASE Ask(t)
    BY <2>1 DEF Ask
  <2>2. CASE Load(t)
    BY <2>2 DEF Load
  <2>3. CASE RollStart(t)
    BY <2>3 DEF RollStart
  <2>4. CASE RollCount(t)
    BY <2>4 DEF RollCount
  <2>5. CASE Add(t)
    <3> DEFINE x == count + 1
    <3>1. x \in Int
      OBVIOUS
    <3>2. count' = x % Word
      BY <2>5 DEF Add
    <3> HIDE DEF x
    <3>3. count' \in 0..(Word - 1)
      BY <3>1, <3>2, Wraps
    <3>4. /\ clock' \in 0..MaxClock /\ start' \in 0..MaxClock /\ now' \in [Task -> 0..MaxClock]
          /\ exact' \in BOOLEAN
      BY <2>5 DEF Add
    <3>5. granted' \in Nat
      BY <2>5 DEF Add
    <3>6. pc' \in [Task -> {"idle", "load", "rollStart", "rollCount", "add", "undo"}]
      BY <2>5 DEF Add
    <3> QED
      BY <3>3, <3>4, <3>5, <3>6
  <2>6. CASE Undo(t)
    <3> DEFINE x == count - 1
    <3>1. x \in Int
      OBVIOUS
    <3>2. count' = x % Word
      BY <2>6 DEF Undo
    <3> HIDE DEF x
    <3>3. count' \in 0..(Word - 1)
      BY <3>1, <3>2, Wraps
    <3>4. /\ clock' \in 0..MaxClock /\ start' \in 0..MaxClock /\ now' \in [Task -> 0..MaxClock]
          /\ exact' \in BOOLEAN
      BY <2>6 DEF Undo
    <3>5. granted' \in Nat
      BY <2>6 DEF Undo
    <3>6. pc' \in [Task -> {"idle", "load", "rollStart", "rollCount", "add", "undo"}]
      BY <2>6 DEF Undo
    <3> QED
      BY <3>3, <3>4, <3>5, <3>6
  <2> QED
    BY <1>3, <2>1, <2>2, <2>3, <2>4, <2>5, <2>6 DEF Call
<1> QED
  BY <1>1, <1>2, <1>3 DEF Next

LEMMA UndoingFinite ==
  /\ IsFiniteSet(Undoing) /\ Cardinality(Undoing) \in Nat
  /\ Cardinality(Undoing) <= Cardinality(Task)
  /\ \A t \in Task : t \notin Undoing => Cardinality(Undoing) + 1 <= Cardinality(Task)
<1>1. IsFiniteSet(Undoing) /\ Cardinality(Undoing) <= Cardinality(Task)
  BY LimitAssumption, FS_Subset DEF Undoing
<1>2. Cardinality(Undoing) \in Nat
  BY <1>1, FS_CardinalityType
<1>3. ASSUME NEW t \in Task, t \notin Undoing
      PROVE  Cardinality(Undoing) + 1 <= Cardinality(Task)
  <2>1. Cardinality(Undoing \cup {t}) = Cardinality(Undoing) + 1
    BY <1>1, <1>3, FS_AddElement
  <2>2. Undoing \cup {t} \subseteq Task
    BY DEF Undoing
  <2>3. Cardinality(Undoing \cup {t}) <= Cardinality(Task)
    BY <2>2, LimitAssumption, FS_Subset
  <2> QED
    BY <2>1, <2>3
<1> QED
  BY <1>1, <1>2, <1>3

LEMMA ExactStep == TypeOK /\ CountIsExact /\ [Next]_vars => CountIsExact'
<1> SUFFICES ASSUME TypeOK, CountIsExact, [Next]_vars, exact' PROVE
       /\ granted' <= MaxWrites
       /\ count' = granted' + Cardinality(Undoing')
       /\ Undoing' # {} => granted' = MaxWrites
  BY DEF CountIsExact
<1>1. CASE Undoing' = Undoing /\ UNCHANGED <<count, granted, exact>>
  BY <1>1 DEF CountIsExact
<1>2. CASE UNCHANGED vars
  BY <1>1, <1>2 DEF vars, Undoing
<1>3. CASE Tick
  BY <1>1, <1>3 DEF Tick, Undoing
<1>4. ASSUME NEW t \in Task, Ask(t) \/ Load(t) \/ RollStart(t)
      PROVE  Undoing' = Undoing /\ UNCHANGED <<count, granted, exact>>
  BY <1>4 DEF TypeOK, Ask, Load, RollStart, Undoing
<1>5. ASSUME NEW t \in Task, RollCount(t)
      PROVE  Undoing' = {} /\ count' = 1 /\ granted' = 1
  BY <1>5 DEF TypeOK, RollCount, Undoing
<1>6. ASSUME NEW t \in Task, Add(t)
      PROVE  /\ granted' <= MaxWrites
             /\ count' = granted' + Cardinality(Undoing')
             /\ Undoing' # {} => granted' = MaxWrites
  <2>1. exact /\ t \notin Undoing /\ pc[t] = "add"
    BY <1>6 DEF Add, Undoing
  <2>2. /\ granted <= MaxWrites /\ count = granted + Cardinality(Undoing)
        /\ Undoing # {} => granted = MaxWrites
    BY <2>1 DEF CountIsExact
  <2>3. count + 1 \in 0..(Word - 1)
    BY <2>1, <2>2, Constants, UndoingFinite DEF TypeOK
  <2>4. count' = count + 1
    <3> DEFINE x == count + 1
    <3>1. count' = x % Word
      BY <1>6 DEF Add
    <3> HIDE DEF x
    <3>2. x % Word = x
      BY <2>3, Fits DEF x
    <3> QED
      BY <3>1, <3>2 DEF x
  <2>5. CASE count < MaxWrites
    <3>1. Undoing' = Undoing /\ granted' = granted + 1
      BY <1>6, <2>5 DEF Add, Undoing, TypeOK
    <3>2. Cardinality(Undoing) = 0 /\ Undoing = {}
      BY <2>2, <2>5, UndoingFinite, FS_EmptySet, Constants DEF TypeOK
    <3> QED
      BY <2>2, <2>4, <2>5, <3>1, <3>2, Constants DEF TypeOK
  <2>6. CASE ~(count < MaxWrites)
    <3>1. Undoing' = Undoing \cup {t} /\ granted' = granted
      BY <1>6, <2>6 DEF Add, Undoing, TypeOK
    <3>2. Cardinality(Undoing') = Cardinality(Undoing) + 1
      BY <2>1, <3>1, UndoingFinite, FS_AddElement
    <3>3. granted = MaxWrites
      <4>1. CASE Undoing = {}
        BY <2>2, <2>6, <4>1, FS_EmptySet, Constants DEF TypeOK
      <4> QED
        BY <2>2, <4>1
    <3> QED
      BY <2>2, <2>4, <3>1, <3>2, <3>3, UndoingFinite DEF TypeOK
  <2> QED
    BY <2>5, <2>6
<1>7. ASSUME NEW t \in Task, Undo(t)
      PROVE  /\ granted' <= MaxWrites
             /\ count' = granted' + Cardinality(Undoing')
             /\ Undoing' # {} => granted' = MaxWrites
  <2>1. exact /\ t \in Undoing /\ Undoing' = Undoing \ {t} /\ granted' = granted
    BY <1>7 DEF Undo, Undoing, TypeOK
  <2>2. granted = MaxWrites /\ count = granted + Cardinality(Undoing)
    BY <2>1 DEF CountIsExact
  <2>3. Cardinality(Undoing') = Cardinality(Undoing) - 1
    BY <2>1, UndoingFinite, FS_RemoveElement
  <2>4. Cardinality(Undoing') \in Nat
    BY <2>1, UndoingFinite, FS_RemoveElement, FS_CardinalityType
  <2>5. count - 1 \in 0..(Word - 1)
    BY <2>2, <2>3, <2>4, UndoingFinite, Constants DEF TypeOK
  <2>6. count' = count - 1
    <3> DEFINE x == count - 1
    <3>1. count' = x % Word
      BY <1>7 DEF Undo
    <3> HIDE DEF x
    <3>2. x % Word = x
      BY <2>5, Fits DEF x
    <3> QED
      BY <3>1, <3>2 DEF x
  <2> QED
    BY <2>1, <2>2, <2>3, <2>6, UndoingFinite, Constants DEF TypeOK
<1>8. Cardinality({}) = 0
  BY FS_EmptySet
<1>9. ASSUME NEW t \in Task, Call(t)
      PROVE  /\ granted' <= MaxWrites
             /\ count' = granted' + Cardinality(Undoing')
             /\ Undoing' # {} => granted' = MaxWrites
  <2>1. CASE Ask(t) \/ Load(t) \/ RollStart(t)
    BY <1>1, <1>4, <2>1
  <2>2. CASE RollCount(t)
    <3>1. Undoing' = {} /\ count' = 1 /\ granted' = 1
      BY <1>5, <2>2
    <3> QED
      BY <1>8, <3>1, Constants
  <2> QED
    BY <1>6, <1>7, <1>9, <2>1, <2>2 DEF Call
<1> QED
  BY <1>2, <1>3, <1>9 DEF Next

LEMMA Invariant == Spec => [](TypeOK /\ CountIsExact)
<1>1. Init => CountIsExact
  BY FS_EmptySet, Constants DEF Init, CountIsExact, Undoing
<1>2. Init => TypeOK /\ CountIsExact
  BY <1>1, TypingInit
<1>3. TypeOK /\ CountIsExact /\ [Next]_vars => (TypeOK /\ CountIsExact)'
  BY TypingStep, ExactStep
<1> QED
  BY <1>2, <1>3, PTL DEF Spec

(***************************************************************************)
(* The atomics wrap within the word and keep their types.                  *)
(***************************************************************************)
THEOREM TypeCorrect == Spec => []TypeOK
BY Invariant, PTL

(***************************************************************************)
(* Between rollovers, however many tasks ask at once, the count is the     *)
(* writes allowed plus the increments still to be taken back, so no more   *)
(* than MaxWrites are allowed and a refusal means the cap is used up.      *)
(***************************************************************************)
THEOREM ExactCount == Spec => []CountIsExact
BY Invariant, PTL
=============================================================================
