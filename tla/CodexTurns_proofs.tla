-------------------------- MODULE CodexTurns_proofs --------------------------
(***************************************************************************)
(* CodexTurns, proved for any messages, in any order, and any number of    *)
(* faults: the variables keep their types, codex gets a message once, no   *)
(* claimed message vanishes, the hold in the runner's memory agrees with   *)
(* the rows, and the broker implements MessageService.                     *)
(***************************************************************************)
EXTENDS CodexTurns, SequenceTheorems, FiniteSetTheorems, WellFoundedInduction, TLAPS

-----------------------------------------------------------------------------
(* Sequences, by what is in them. *)

Distinct(s) == \A i, j \in 1..Len(s) : s[i] = s[j] => i = j

LEMMA EmptyElems == Elems(<<>>) = {}
BY DEF Elems

LEMMA ElemsIn ==
  ASSUME NEW S, NEW s \in Seq(S)
  PROVE  Elems(s) \subseteq S /\ (s # <<>> => Elems(s) # {})
<1>1. Elems(s) \subseteq S
  BY ElementOfSeq DEF Elems
<1>2. s # <<>> => s[1] \in Elems(s)
  BY EmptySeq DEF Elems
<1> QED
  BY <1>1, <1>2

LEMMA AppendElems ==
  ASSUME NEW S, NEW s \in Seq(S), NEW x \in S
  PROVE  /\ Append(s, x) \in Seq(S)
         /\ Append(s, x) # <<>>
         /\ Elems(Append(s, x)) = Elems(s) \cup {x}
         /\ Distinct(s) /\ x \notin Elems(s) => Distinct(Append(s, x))
<1> DEFINE a == Append(s, x)
<1>1. /\ a \in Seq(S) /\ Len(s) \in Nat /\ Len(a) = Len(s) + 1
      /\ \A i \in 1..Len(s) : a[i] = s[i]
      /\ a[Len(s) + 1] = x
  OBVIOUS
<1>2. 1..Len(a) = 1..Len(s) \cup {Len(s) + 1}
  BY <1>1
<1>3. Elems(a) = Elems(s) \cup {x}
  BY <1>1, <1>2 DEF Elems
<1>4. Distinct(s) /\ x \notin Elems(s) => Distinct(a)
  BY <1>1, <1>2 DEF Distinct, Elems
<1> QED
  BY <1>1, <1>3, <1>4

LEMMA TailElems ==
  ASSUME NEW S, NEW s \in Seq(S), s # <<>>
  PROVE  /\ Head(s) \in S /\ Tail(s) \in Seq(S)
         /\ Elems(s) = Elems(Tail(s)) \cup {Head(s)}
         /\ Distinct(s) => Distinct(Tail(s)) /\ Head(s) \notin Elems(Tail(s))
<1> DEFINE u == Tail(s)
<1>1. /\ Head(s) \in S /\ Head(s) = s[1] /\ u \in Seq(S)
      /\ Len(s) \in Nat \ {0} /\ Len(u) = Len(s) - 1
      /\ \A i \in 1..Len(u) : u[i] = s[i + 1]
  BY HeadTailProperties, EmptySeq
<1>2. \A i \in 1..Len(u) : i + 1 \in 1..Len(s)
  BY <1>1
<1>3. \A j \in 1..Len(s) : j = 1 \/ (j - 1 \in 1..Len(u) /\ s[j] = u[j - 1])
  BY <1>1
<1>4. Elems(s) = Elems(u) \cup {Head(s)}
  <2>1. Elems(u) \subseteq Elems(s)
    BY <1>1, <1>2 DEF Elems
  <2>2. Elems(s) \subseteq Elems(u) \cup {Head(s)}
    BY <1>1, <1>3 DEF Elems
  <2> QED
    BY <1>1, <2>1, <2>2 DEF Elems
<1>5. ASSUME Distinct(s) PROVE Distinct(u) /\ Head(s) \notin Elems(u)
  BY <1>1, <1>2, <1>5 DEF Distinct, Elems
<1> QED
  BY <1>1, <1>4, <1>5

LEMMA SuffixElems ==
  ASSUME NEW S, NEW s \in Seq(S), NEW k \in 1..Len(s) + 1
  PROVE  /\ SubSeq(s, k, Len(s)) \in Seq(S)
         /\ Elems(SubSeq(s, k, Len(s))) = {s[i] : i \in k..Len(s)}
<1> DEFINE u == SubSeq(s, k, Len(s))
<1>1. Len(s) \in Nat /\ \A i \in k..Len(s) : s[i] \in S
  BY ElementOfSeq, LenProperties
<1>2. /\ u \in Seq(S) /\ Len(u) = IF k <= Len(s) THEN Len(s) - k + 1 ELSE 0
      /\ \A i \in 1..Len(s) - k + 1 : u[i] = s[k + i - 1]
  BY <1>1, SubSeqProperties
<1>3. \A i \in 1..Len(u) : k + i - 1 \in k..Len(s) /\ u[i] = s[k + i - 1]
  BY <1>1, <1>2
<1>4. \A j \in k..Len(s) : j - k + 1 \in 1..Len(u) /\ u[j - k + 1] = s[j]
  BY <1>1, <1>2
<1>5. Elems(u) \subseteq {s[i] : i \in k..Len(s)}
  BY <1>3 DEF Elems
<1>6. {s[i] : i \in k..Len(s)} \subseteq Elems(u)
  BY <1>4 DEF Elems
<1> QED
  BY <1>2, <1>5, <1>6

LEMMA RemoveElems ==
  ASSUME NEW S, NEW s \in Seq(S), NEW i \in 1..Len(s)
  PROVE  LET u == SubSeq(s, 1, i - 1) \o SubSeq(s, i + 1, Len(s))
         IN /\ u \in Seq(S)
            /\ Elems(u) \subseteq Elems(s) /\ Elems(s) \subseteq Elems(u) \cup {s[i]}
            /\ Distinct(s) => Distinct(u)
<1> DEFINE l == SubSeq(s, 1, i - 1)
           r == SubSeq(s, i + 1, Len(s))
           u == l \o r
<1>1. Len(s) \in Nat /\ \A k \in 1..Len(s) : s[k] \in S
  BY ElementOfSeq, LenProperties
<1>2. l \in Seq(S) /\ Len(l) = i - 1 /\ \A k \in 1..i - 1 : l[k] = s[k]
  BY <1>1, SubSeqProperties
<1>3. r \in Seq(S) /\ Len(r) = Len(s) - i /\ \A k \in 1..Len(s) - i : r[k] = s[i + k]
  BY <1>1, SubSeqProperties
<1> HIDE DEF l, r
<1>c. /\ u \in Seq(S) /\ Len(u) = Len(l) + Len(r)
      /\ \A k \in 1..Len(l) + Len(r) : u[k] = IF k <= Len(l) THEN l[k] ELSE r[k - Len(l)]
  BY <1>2, <1>3, ConcatProperties
<1> HIDE DEF u
<1>4. Len(u) = Len(s) - 1 /\ u \in Seq(S)
  BY <1>1, <1>2, <1>3, <1>c
<1>5. ASSUME NEW k \in 1..Len(s) - 1 PROVE u[k] = IF k < i THEN s[k] ELSE s[k + 1]
  <2>1. k \in 1..Len(l) + Len(r)
    BY <1>1, <1>2, <1>3
  <2>2. CASE k < i
    BY <1>1, <1>2, <1>c, <2>1, <2>2
  <2>3. CASE ~(k < i)
    <3>1. k - (i - 1) \in 1..Len(s) - i /\ i + (k - (i - 1)) = k + 1 /\ ~(k <= Len(l))
      BY <1>1, <1>2, <2>3
    <3>2. r[k - (i - 1)] = s[i + (k - (i - 1))]
      BY <1>3, <3>1
    <3> QED
      BY <1>2, <1>c, <2>1, <2>3, <3>1, <3>2
  <2> QED
    BY <2>2, <2>3
<1>6. Elems(u) \subseteq Elems(s)
  BY <1>1, <1>4, <1>5 DEF Elems
<1>7. \A k \in 1..Len(s) : \/ k = i
                           \/ k < i /\ k \in 1..Len(u) /\ u[k] = s[k]
                           \/ k > i /\ k - 1 \in 1..Len(u) /\ u[k - 1] = s[k]
  BY <1>1, <1>4, <1>5
<1>8. Elems(s) \subseteq Elems(u) \cup {s[i]}
  BY <1>7 DEF Elems
<1>9. ASSUME Distinct(s) PROVE Distinct(u)
  <2> SUFFICES ASSUME NEW j \in 1..Len(u), NEW k \in 1..Len(u), u[j] = u[k] PROVE j = k
    BY DEF Distinct
  <2> DEFINE at(n) == IF n < i THEN n ELSE n + 1
  <2>1. at(j) \in 1..Len(s) /\ at(k) \in 1..Len(s) /\ s[at(j)] = s[at(k)]
    BY <1>1, <1>4, <1>5
  <2>2. at(j) = at(k)
    BY <1>9, <2>1 DEF Distinct
  <2> QED
    BY <1>1, <1>4, <2>2
<1> QED
  BY <1>4, <1>6, <1>8, <1>9 DEF u, l, r

-----------------------------------------------------------------------------
(* Rows and pump. *)

Status == {"none", "pending", "queued", "held", "sent", "failed", "cancelled"}

LEMMA RowTypes ==
  ASSUME NEW r \in [Turn -> Status], NEW q, NEW h
  PROVE  /\ HoldRows(r) \in [Turn -> Status]
         /\ Moved(r, "held", "queued") \in [Turn -> Status]
         /\ Hold(q, r, h) \in [Turn -> Status]
BY DEF HoldRows, Moved, Hold, Status

\* What a write leaves is what was there or what was written; the turns it missed.
LEMMA Writes ==
  ASSUME NEW x, NEW r, NEW w, NEW s \in Written(x, r, w), NEW S \in SUBSET Turn
  PROVE  /\ s = r \/ s = w
         /\ S \subseteq Missed(S, s, w) /\ Missed(S, s, w) \in SUBSET Turn
         /\ \A t \in Turn : t \notin Missed(S, s, w) => s[t] = w[t]
BY DEF Written, Missed

\* The first turn whose row is still queued, if there is one.
LEMMA FirstTaken ==
  ASSUME NEW q \in Seq(Turn), NEW r, Taken(q, r) # {}
  PROVE  LET i == First(Taken(q, r))
         IN i \in 1..Len(q) /\ r[q[i]] = "queued" /\ \A j \in 1..i - 1 : r[q[j]] # "queued"
<1> DEFINE S == Taken(q, r)
<1>1. S \subseteq 1..Len(q) /\ Len(q) \in Nat /\ S # {} /\ S \subseteq Nat
  BY DEF Taken
<1>2. PICK m \in S : \A j \in S : m <= j
  <2> HIDE DEF S
  <2>1. PICK m \in S : \A j \in S : <<j, m>> \notin OpToRel(<, Nat)
    BY <1>1, WFMin, NatLessThanWellFounded
  <2>2. \A j \in S : ~(j < m)
    BY <1>1, <2>1 DEF OpToRel
  <2> QED
    BY <1>1, <2>2
<1>3. First(S) \in S /\ \A j \in S : First(S) <= j
  BY <1>2 DEF First
<1>4. ASSUME NEW j \in 1..First(S) - 1 PROVE j \notin S /\ j \in 1..Len(q)
  BY <1>1, <1>3
<1> QED
  BY <1>1, <1>3, <1>4 DEF Taken

LEMMA Suffix ==
  ASSUME NEW q \in Seq(Turn), NEW i \in 1..Len(q)
  PROVE  /\ SubSeq(q, i, Len(q)) \in Seq(Turn) /\ SubSeq(q, i + 1, Len(q)) \in Seq(Turn)
         /\ Elems(SubSeq(q, i, Len(q))) = {q[j] : j \in i..Len(q)}
         /\ Elems(SubSeq(q, i + 1, Len(q))) = {q[j] : j \in i + 1..Len(q)}
         /\ Elems(SubSeq(q, i, Len(q))) \subseteq Elems(q)
         /\ Elems(SubSeq(q, i + 1, Len(q))) \subseteq Elems(q)
         /\ q[i] \in Turn /\ q[i] \in Elems(q)
<1>0. /\ Len(q) \in Nat /\ \A j \in 1..Len(q) : q[j] \in Turn /\ q[j] \in Elems(q)
  BY ElementOfSeq, LenProperties DEF Elems
<1>1. i \in 1..Len(q) + 1 /\ i + 1 \in 1..Len(q) + 1 /\ \A j \in i..Len(q) : j \in 1..Len(q)
  BY <1>0
<1>2. \A k \in {i, i + 1} : /\ SubSeq(q, k, Len(q)) \in Seq(Turn)
                            /\ Elems(SubSeq(q, k, Len(q))) = {q[j] : j \in k..Len(q)}
  BY <1>1, SuffixElems
<1>3. \A k \in {i, i + 1} : Elems(SubSeq(q, k, Len(q))) \subseteq Elems(q)
  BY <1>0, <1>2
<1> QED
  BY <1>0, <1>2, <1>3

\* What pump leaves of a queue q and rows r.
Pumped(q, r, b, S) ==
  /\ queue' \in Seq(Turn) /\ row' \in [Turn -> Status]
  /\ held' \in BOOLEAN /\ doing' \in Turn \cup {None}
  /\ S \subseteq unanswered' /\ unanswered' \in SUBSET Turn
  /\ Elems(queue') \subseteq Elems(q)
  /\ doing' # None => /\ ~b /\ ~held'
                      /\ doing' \in Elems(q) /\ r[doing'] = "queued"
                      /\ row'[doing'] = "sent"
  /\ \A t \in Turn : \/ row'[t] = r[t]
                     \/ t = doing'
                     \/ Queued(t) /\ r[t] = "queued" /\ row'[t] = "held"
                     \/ /\ t \in Elems(q) /\ r[t] = "queued" /\ row'[t] = "sent"
                        /\ t \in unanswered'

LEMMA PumpFacts ==
  ASSUME NEW q \in Seq(Turn), NEW r \in [Turn -> Status], NEW b \in BOOLEAN,
         NEW h \in BOOLEAN, NEW S \in SUBSET Turn, NEW x, Pump(q, r, b, h, S, x)
  PROVE  Pumped(q, r, b, S)
<1>0. <<>> \in Seq(Turn) /\ Elems(<<>>) = {}
  BY EmptyElems, EmptySeq
<1>1. CASE queue' = q /\ row' = r /\ held' = h /\ doing' = None /\ unanswered' = S
  BY <1>1 DEF Pumped
<1>2. CASE queue' = <<>> /\ row' = r /\ held' = h /\ doing' = None /\ unanswered' = S
  BY <1>0, <1>2 DEF Pumped
<1>3. ASSUME ~b, ~h, Taken(q, r) # {},
             LET i == First(Taken(q, r))
             IN /\ queue' = SubSeq(q, i + 1, Len(q))
                /\ row' = [r EXCEPT ![q[i]] = "sent"]
                /\ held' = h /\ doing' = q[i] /\ unanswered' = S
      PROVE  /\ queue' \in Seq(Turn) /\ row' \in [Turn -> Status]
             /\ held' \in BOOLEAN /\ doing' \in Turn /\ unanswered' = S
             /\ Elems(queue') \subseteq Elems(q)
             /\ ~held' /\ doing' \in Elems(q) /\ r[doing'] = "queued" /\ row'[doing'] = "sent"
             /\ \A t \in Turn : row'[t] = r[t] \/ t = doing'
  <2> DEFINE i == First(Taken(q, r))
  <2>1. i \in 1..Len(q) /\ r[q[i]] = "queued"
    BY <1>3, FirstTaken
  <2>2. /\ queue' = SubSeq(q, i + 1, Len(q)) /\ row' = [r EXCEPT ![q[i]] = "sent"]
        /\ held' = h /\ doing' = q[i] /\ ~h /\ unanswered' = S
    BY <1>3
  <2> HIDE DEF i
  <2>3. /\ q[i] \in Turn /\ q[i] \in Elems(q)
        /\ queue' \in Seq(Turn) /\ Elems(queue') \subseteq Elems(q)
    BY <2>1, <2>2, Suffix
  <2>4. row' \in [Turn -> Status] /\ row'[q[i]] = "sent" /\ "sent" \in Status
    BY <2>2, <2>3 DEF Status
  <2>5. \A t \in Turn : row'[t] = r[t] \/ t = q[i]
    BY <2>2, <2>3
  <2> QED
    BY <2>1, <2>2, <2>3, <2>4, <2>5
<1>4. ASSUME NEW i \in 1..Len(q),
             NEW w \in {r, [r EXCEPT ![q[i]] = IF @ = "queued" THEN "sent" ELSE @]},
             queue' = SubSeq(q, i, Len(q)), row' \in {w, HoldRows(w)},
             held' = TRUE, doing' = None, unanswered' = Missed(S, row', HoldRows(r))
      PROVE  /\ queue' \in Seq(Turn) /\ row' \in [Turn -> Status]
             /\ held' \in BOOLEAN /\ doing' = None
             /\ S \subseteq unanswered' /\ unanswered' \in SUBSET Turn
             /\ Elems(queue') \subseteq Elems(q)
             /\ \A t \in Turn : \/ row'[t] = r[t]
                                \/ Queued(t) /\ r[t] = "queued" /\ row'[t] = "held"
                                \/ /\ t \in Elems(q) /\ r[t] = "queued" /\ row'[t] = "sent"
                                   /\ t \in unanswered'
  <2>1. /\ queue' \in Seq(Turn) /\ Elems(queue') \subseteq Elems(q)
        /\ q[i] \in Turn /\ q[i] \in Elems(q)
    BY <1>4, Suffix
  <2>2. /\ w \in [Turn -> Status]
        /\ \A t \in Turn : w[t] = r[t] \/ (t = q[i] /\ r[t] = "queued" /\ w[t] = "sent")
    BY <1>4, <2>1 DEF Status
  <2>3. /\ row' \in [Turn -> Status]
        /\ \A t \in Turn : row'[t] = w[t] \/ (Queued(t) /\ w[t] = "queued" /\ row'[t] = "held")
    <3>1. HoldRows(w) \in [Turn -> Status]
      BY <2>2, RowTypes
    <3>2. \A t \in Turn : \/ HoldRows(w)[t] = w[t]
                          \/ Queued(t) /\ w[t] = "queued" /\ HoldRows(w)[t] = "held"
      BY DEF HoldRows, Moved
    <3> QED
      BY <1>4, <2>2, <3>1, <3>2
  <2>4. ASSUME NEW t \in Turn, row'[t] = "sent", r[t] = "queued" PROVE t \in unanswered'
    BY <1>4, <2>4 DEF Missed, HoldRows, Moved
  <2> QED
    BY <1>4, <2>1, <2>2, <2>3, <2>4 DEF Missed
<1> QED
  BY <1>1, <1>2, <1>3, <1>4 DEF Pump, Pumped

-----------------------------------------------------------------------------
(* Types. *)

LEMMA TypingInit == Init => TypeOK
<1> SUFFICES ASSUME Init PROVE TypeOK
  OBVIOUS
<1>1. {busy, held, turnFailed, stopping} \subseteq BOOLEAN /\ faults \in 0..MaxFaults
  <2>1. busy = FALSE /\ held = FALSE /\ turnFailed = FALSE /\ stopping = FALSE
    BY DEF Init
  <2>2. faults = 0 /\ MaxFaults \in Nat
    BY KindsAssumption DEF Init
  <2>3. {busy, held, turnFailed, stopping} \subseteq BOOLEAN
    BY <2>1, Zenon
  <2> QED
    BY <2>2, <2>3
<1>2. <<>> \in Seq(Turn) /\ <<>> \in Seq({"started", "error", "completed"})
  BY EmptySeq
<1> QED
  BY <1>1, <1>2 DEF Init, TypeOK

LEMMA OutageTyping ==
  ASSUME TypeOK, NEW x \in BOOLEAN, Outage(x)
  PROVE  faults' \in 0..MaxFaults
<1>1. MaxFaults \in Nat /\ faults \in 0..MaxFaults
  BY KindsAssumption DEF TypeOK
<1> QED
  BY <1>1 DEF Outage, Fault

LEMMA FailedTypes ==
  ASSUME TypeOK, NEW t \in Turn
  PROVE  /\ Failed(t) \in [Turn -> Status] /\ Failed(t)[t] = "failed"
         /\ \A u \in Turn : u # t => Failed(t)[u] = row[u]
BY DEF TypeOK, Status, Failed

LEMMA RowTyping ==
  ASSUME TypeOK, NEW t \in Turn,
         Ask(t) \/ TakeBack(t) \/ Claim(t) \/ HandOver(t) \/ TurnAway(t)
  PROVE  TypeOK'
<1> USE DEF TypeOK, runnerVars, codexVars, history
<1>0. Len(Kinds) \in Nat /\ Kinds[t] \in Elems(Kinds) /\ None \notin Turn
  <2>1. Len(Kinds) \in Nat
    BY KindsAssumption, LenProperties
  <2> QED
    BY <2>1 DEF Elems, Turn, None
<1>1. CASE Ask(t)
  <2>1. kind' \in [Turn -> {"none"} \cup UNION Elems(Kinds)]
    BY <1>0, <1>1 DEF Ask
  <2> QED
    BY <1>1, <2>1 DEF Ask
<1>2. CASE TakeBack(t)
  BY <1>2 DEF TakeBack
<1>3. CASE Claim(t)
  <2>1. faults' \in 0..MaxFaults
    BY <1>3, OutageTyping DEF Claim
  <2> QED
    BY <1>3, <2>1 DEF Claim
<1>4. CASE HandOver(t)
  <2>1. chan' \in Seq(Turn) /\ chan' # <<>>
    BY <1>4, AppendElems DEF HandOver
  <2>2. runner' \in {"none", "starting", "up", "redial"} /\ runner' # "none"
    BY <1>4 DEF HandOver
  <2>3. routing' \in SUBSET Turn /\ (runner \in {"up", "redial"} => runner' = runner)
    BY <1>4 DEF HandOver
  <2> QED
    BY <1>4, <2>1, <2>2, <2>3 DEF HandOver, rowVars
<1>5. CASE TurnAway(t)
  <2>1. PICK x \in BOOLEAN : Outage(x) /\ row' \in Written(x, row, Failed(t))
    BY <1>5 DEF TurnAway
  <2>2. row \in [Turn -> Status] /\ Failed(t) \in [Turn -> Status]
    BY FailedTypes DEF Status
  <2>3. row' \in [Turn -> Status] /\ unanswered' \in SUBSET Turn
    BY <1>5, <2>1, <2>2, Writes DEF TurnAway
  <2> QED
    BY <1>5, <2>1, <2>3, OutageTyping DEF TurnAway, Status
<1> QED
  BY <1>1, <1>2, <1>3, <1>4, <1>5

LEMMA CodexTyping ==
  ASSUME TypeOK, CodexError \/ CodexCompletes
  PROVE  TypeOK'
<1> USE DEF TypeOK, runnerVars, rowVars, history
<1>1. events' \in Seq({"started", "error", "completed"})
  <2>1. \A e \in {"error", "completed"} :
          Append(events, e) \in Seq({"started", "error", "completed"})
    BY AppendElems
  <2> QED
    BY <2>1 DEF CodexError, CodexCompletes, Emit
<1>2. CASE CodexError
  BY <1>1, <1>2 DEF CodexError
<1>3. CASE CodexCompletes
  BY <1>1, <1>3 DEF CodexCompletes
<1> QED
  BY <1>2, <1>3

LEMMA AcceptedTyping ==
  ASSUME TypeOK, NEW t \in Turn, Accepted(t)
  PROVE  /\ sent' \in Seq(Turn) /\ Elems(sent') = Elems(sent) \cup {t}
         /\ Distinct(sent) /\ t \notin Elems(sent) => Distinct(sent')
         /\ active' \in {"no", "yes", "erred"}
         /\ events' \in Seq({"started", "error", "completed"})
<1> USE DEF TypeOK, Accepted
<1>1. events' \in Seq({"started", "error", "completed"})
  BY AppendElems
<1>2. active' \in {"no", "yes", "erred"}
  OBVIOUS
<1> QED
  BY <1>1, <1>2, AppendElems

LEMMA ForgetsTyping ==
  ASSUME TypeOK, Forgets
  PROVE  /\ queue' = <<>> /\ queue' \in Seq(Turn)
         /\ events' \in Seq({"started", "error", "completed"})
         /\ {held', turnFailed', stopping'} \subseteq BOOLEAN
         /\ asked' \in SUBSET Turn /\ doing' = None
BY EmptySeq DEF Forgets

LEMMA LifeTyping ==
  ASSUME TypeOK, StartFails \/ Release \/ Drop \/ Crash
  PROVE  TypeOK'
<1>0. /\ <<>> \in Seq(Turn) /\ <<>> \in Seq({"started", "error", "completed"})
      /\ Elems(chan) \subseteq Turn /\ MaxFaults \in Nat
  BY ElemsIn, EmptySeq, KindsAssumption DEF TypeOK
<1> USE DEF TypeOK, runnerVars, rowVars, history
<1>1. CASE StartFails
  <2>1. faults' \in 0..MaxFaults /\ lost' \subseteq Turn
    BY <1>0, <1>1 DEF StartFails, Fault, Gone
  <2> QED
    BY <1>0, <1>1, <2>1 DEF StartFails, Gone, Forgets
<1>2. CASE Release
  BY <1>0, <1>2 DEF Release, Forgets, Ready
<1>3. CASE Drop
  <2>1. faults' \in 0..MaxFaults
    BY <1>0, <1>3 DEF Drop, Fault
  <2> QED
    BY <1>0, <1>3, <2>1 DEF Drop, Ready
<1>4. CASE Crash
  <2>1. faults' \in 0..MaxFaults /\ lost' \subseteq Turn
    BY <1>0, <1>4 DEF Crash, Fault
  <2> QED
    BY <1>0, <1>4, <2>1 DEF Crash, Forgets
<1> QED
  BY <1>1, <1>2, <1>3, <1>4

\* What pump leaves behind, for a runner in phase b.
LEMMA PumpTyping ==
  ASSUME NEW q \in Seq(Turn), NEW r \in [Turn -> Status], NEW b \in BOOLEAN,
         NEW h \in BOOLEAN, NEW S \in SUBSET Turn, NEW x, Pump(q, r, b, h, S, x)
  PROVE  /\ queue' \in Seq(Turn) /\ row' \in [Turn -> Status] /\ unanswered' \in SUBSET Turn
         /\ held' \in BOOLEAN /\ doing' \in Turn \cup {None}
         /\ doing' # None => ~b /\ ~held' /\ row'[doing'] = "sent"
<1>1. Pumped(q, r, b, S)
  BY PumpFacts
<1> QED
  BY <1>1 DEF Pumped

LEMMA CommandTyping ==
  ASSUME TypeOK, Command
  PROVE  TypeOK'
<1>0. /\ Ready /\ chan # <<>> /\ Head(chan) \in Turn /\ Tail(chan) \in Seq(Turn)
      /\ Elems(Tail(chan)) \subseteq Turn /\ UNCHANGED <<kind, routing>>
  <2>1. Head(chan) \in Turn /\ Tail(chan) \in Seq(Turn)
    BY TailElems DEF Command, TypeOK
  <2> QED
    BY <2>1, ElemsIn DEF Command
<1> DEFINE t == Head(chan)
<1>x. PICK x \in BOOLEAN :
        /\ Outage(x)
        /\ \/ /\ chan' = Tail(chan)
              /\ Steer(t, x) \/ Enqueue(t, x) \/ Resume(t, x) \/ Interrupt(t, x)
           \/ Close(t, x)
  BY DEF Command
<1> HIDE DEF t
<1>a. row \in [Turn -> Status] /\ t \in Turn /\ faults' \in 0..MaxFaults
  BY <1>0, <1>x, OutageTyping DEF TypeOK, Status, t
<1>b. Hold(queue, row, held) \in [Turn -> Status] /\ HoldRows(row) \in [Turn -> Status]
  BY <1>a, RowTypes
<1> USE DEF TypeOK, codexVars, Ready
<1>1. CASE chan' = Tail(chan) /\ Steer(t, x)
  <2>1. CASE Accepted(t) /\ busy' = TRUE /\ UNCHANGED <<row, unanswered>>
    BY <1>0, <1>a, <1>1, <2>1, AcceptedTyping DEF Steer
  <2>2. CASE /\ Refused(t, x) /\ UNCHANGED busy /\ row' \in Written(x, row, Failed(t))
             /\ unanswered' = Missed(unanswered, row', Failed(t))
    <3>1. /\ sent' \in Seq(Turn) /\ active' \in {"no", "yes", "erred"}
          /\ events' \in Seq({"started", "error", "completed"})
      BY <1>a, <2>2, AcceptedTyping DEF Refused
    <3>2. row' \in [Turn -> Status] /\ unanswered' \in SUBSET Turn
      BY <1>a, <2>2, FailedTypes DEF Written, Missed
    <3> QED
      BY <1>0, <1>a, <1>1, <2>2, <3>1, <3>2 DEF Steer, Status
  <2> QED
    BY <1>1, <2>1, <2>2 DEF Steer
<1>2. CASE chan' = Tail(chan) /\ Enqueue(t, x)
  <2> DEFINE q == IF t \notin Elems(queue) THEN Append(queue, t) ELSE queue
             w == IF held /\ t \notin Elems(queue) THEN HoldRows(row) ELSE row
  <2>1. PICK r \in Written(x, row, w) : Pump(q, r, busy, held, Missed(unanswered, r, w), x)
    BY <1>2 DEF Enqueue
  <2>2. q \in Seq(Turn) /\ w \in [Turn -> Status]
    BY <1>a, <1>b, AppendElems
  <2> HIDE DEF q, w
  <2>3. r \in [Turn -> Status] /\ Missed(unanswered, r, w) \in SUBSET Turn
    BY <1>a, <2>2 DEF Written, Missed
  <2>4. /\ queue' \in Seq(Turn) /\ row' \in [Turn -> Status] /\ unanswered' \in SUBSET Turn
        /\ held' \in BOOLEAN /\ doing' \in Turn \cup {None}
        /\ doing' # None => ~busy /\ ~held' /\ row'[doing'] = "sent"
    BY <2>1, <2>2, <2>3, PumpTyping
  <2> QED
    BY <1>0, <1>a, <1>2, <2>4 DEF Enqueue, Status
<1>3. CASE chan' = Tail(chan) /\ Resume(t, x)
  <2> DEFINE v == [row EXCEPT ![t] = IF @ = "queued" THEN "sent" ELSE @]
             W(r) == IF held THEN Moved(r, "held", "queued") ELSE r
  <2>1. PICK r \in Written(x, row, v) :
          \E s \in Written(x, r, W(r)) :
            Pump(queue, s, busy, FALSE, Missed(unanswered, s, W(r)), x)
    BY <1>3 DEF Resume
  <2>2. PICK s \in Written(x, r, W(r)) :
          Pump(queue, s, busy, FALSE, Missed(unanswered, s, W(r)), x)
    BY <2>1
  <2>3. v \in [Turn -> Status]
    BY <1>a DEF Status
  <2> HIDE DEF v
  <2>4. r \in [Turn -> Status]
    BY <1>a, <2>3 DEF Written, Missed
  <2>5. W(r) \in [Turn -> Status]
    BY <2>4, RowTypes
  <2> HIDE DEF W
  <2>6. s \in [Turn -> Status] /\ Missed(unanswered, s, W(r)) \in SUBSET Turn
    BY <2>4, <2>5 DEF Written, Missed
  <2>7. /\ queue' \in Seq(Turn) /\ row' \in [Turn -> Status] /\ unanswered' \in SUBSET Turn
        /\ held' \in BOOLEAN /\ doing' \in Turn \cup {None}
        /\ doing' # None => ~busy /\ ~held' /\ row'[doing'] = "sent"
    BY <2>2, <2>6, PumpTyping
  <2> QED
    BY <1>0, <1>a, <1>3, <2>7 DEF Resume, Status
<1>4. CASE chan' = Tail(chan) /\ Interrupt(t, x)
  <2>1. row' \in [Turn -> Status] /\ unanswered' \in SUBSET Turn
    BY <1>a, <1>b, <1>4, Writes DEF Interrupt
  <2>2. busy' \in BOOLEAN /\ asked' \in SUBSET Turn
    BY <1>a, <1>4 DEF Interrupt
  <2> QED
    BY <1>0, <1>a, <1>4, <2>1, <2>2 DEF Interrupt, Status
<1>5. CASE Close(t, x)
  <2> DEFINE w == [u \in Turn |-> IF Queued(u) /\ row[u] \in {"pending", "queued", "held"}
                                 THEN "cancelled" ELSE row[u]]
  <2>0. w \in [Turn -> Status]
    BY <1>a DEF Status
  <2>1. row' \in Written(x, row, w) /\ unanswered' = Missed(unanswered, row', w)
    BY <1>5 DEF Close
  <2> HIDE DEF w
  <2>2. row' \in [Turn -> Status] /\ unanswered' \in SUBSET Turn
    BY <1>a, <2>0, <2>1 DEF Written, Missed
  <2>3. lost' \in SUBSET Turn /\ chan' = <<>> /\ <<>> \in Seq(Turn)
    BY <1>0, <1>5, EmptySeq DEF Close, Gone, t
  <2>4. Forgets
    BY <1>5 DEF Close, Gone
  <2> QED
    BY <1>0, <1>a, <1>5, <2>2, <2>3, <2>4, ForgetsTyping DEF Close, Gone, Status
<1> QED
  BY <1>x, <1>1, <1>2, <1>3, <1>4, <1>5

LEMMA StopTyping ==
  ASSUME TypeOK, \/ \E i \in 1..Len(chan) : SideStop(i)
                 \/ \E t \in Turn : StopAnswered(t)
  PROVE  TypeOK'
<1>a. row \in [Turn -> Status] /\ Hold(queue, row, held) \in [Turn -> Status]
  BY RowTypes DEF TypeOK, Status
<1> USE DEF TypeOK, codexVars, Ready
<1>1. ASSUME NEW i \in 1..Len(chan), SideStop(i) PROVE TypeOK'
  <2>1. chan' \in Seq(Turn) /\ chan[i] \in Turn /\ runner = "up" /\ doing = None
    BY <1>1, RemoveElems, ElementOfSeq DEF SideStop
  <2>2. PICK x \in BOOLEAN : Outage(x) /\ Interrupt(chan[i], x)
    BY <1>1 DEF SideStop
  <2>3. row' \in [Turn -> Status] /\ unanswered' \in SUBSET Turn
    BY <1>a, <2>2 DEF Interrupt, Written, Missed
  <2>4. busy' \in BOOLEAN /\ asked' \in SUBSET Turn /\ faults' \in 0..MaxFaults
    BY <2>1, <2>2, OutageTyping DEF Interrupt
  <2> QED
    BY <1>1, <2>1, <2>2, <2>3, <2>4 DEF SideStop, Interrupt, Status
<1>2. ASSUME NEW t \in Turn, StopAnswered(t) PROVE TypeOK'
  <2>1. CASE UNCHANGED <<row, queue, held, doing, busy, stopping, unanswered, faults>>
    BY <1>2, <2>1 DEF StopAnswered
  <2>2. ASSUME stopping' = FALSE, NEW x \in BOOLEAN, Outage(x), NEW a \in InProgress(x, TRUE),
               NEW r \in Written(x, row, Failed(t)), busy' = (busy /\ a),
               Pump(queue, r, a, held, Missed(unanswered, r, Failed(t)), x)
        PROVE  TypeOK'
    <3>1. /\ r \in [Turn -> Status] /\ a \in BOOLEAN /\ queue \in Seq(Turn) /\ held \in BOOLEAN
          /\ Missed(unanswered, r, Failed(t)) \in SUBSET Turn
      BY <1>a, <2>2, FailedTypes DEF InProgress, Written, Missed
    <3>2. /\ queue' \in Seq(Turn) /\ row' \in [Turn -> Status] /\ unanswered' \in SUBSET Turn
          /\ held' \in BOOLEAN /\ doing' \in Turn \cup {None}
          /\ doing' # None => ~a /\ ~held' /\ row'[doing'] = "sent"
      BY <2>2, <3>1, PumpTyping
    <3>3. runner' = "up" /\ runner = "up" /\ busy' \in BOOLEAN
          /\ (doing' # None => ~busy') /\ asked' \in SUBSET Turn /\ faults' \in 0..MaxFaults
      BY <1>2, <2>2, <3>1, <3>2, OutageTyping DEF StopAnswered
    <3> QED
      BY <1>2, <2>2, <3>2, <3>3 DEF StopAnswered, Status
  <2> QED
    BY <1>2, <2>1, <2>2 DEF StopAnswered
<1> QED
  BY <1>1, <1>2

LEMMA EventTyping ==
  ASSUME TypeOK, Event
  PROVE  TypeOK'
<1>a. row \in [Turn -> Status] /\ Hold(queue, row, held) \in [Turn -> Status]
  BY RowTypes DEF TypeOK, Status
<1>b. events' \in Seq({"started", "error", "completed"})
  BY TailElems DEF TypeOK, Event
<1>1. CASE TurnStarted
  BY <1>b, <1>1 DEF Event, TurnStarted, TypeOK, Ready
<1>2. CASE TurnError
  BY <1>b, <1>2 DEF Event, TurnError, TypeOK, Ready
<1>3. CASE TurnCompleted
  <2> DEFINE fails == turnFailed /\ ~stopping
             w == IF fails THEN Hold(queue, row, held) ELSE row
             h == held \/ (fails /\ queue # <<>>)
             b == FALSE
  <2>1. w \in [Turn -> Status] /\ h \in BOOLEAN /\ queue \in Seq(Turn) /\ b \in BOOLEAN
    BY <1>a DEF TypeOK
  <2>2. PICK x \in BOOLEAN : Outage(x) /\ \E r \in Written(x, row, w) :
                                            Pump(queue, r, b, h, Missed(unanswered, r, w), x)
    BY <1>3 DEF TurnCompleted
  <2>3. PICK r \in Written(x, row, w) : Pump(queue, r, b, h, Missed(unanswered, r, w), x)
    BY <2>2
  <2> HIDE DEF w, h, fails, b
  <2>4. r \in [Turn -> Status] /\ Missed(unanswered, r, w) \in SUBSET Turn
    BY <1>a, <2>1 DEF Written, Missed, TypeOK
  <2>5. /\ queue' \in Seq(Turn) /\ row' \in [Turn -> Status] /\ unanswered' \in SUBSET Turn
        /\ held' \in BOOLEAN /\ doing' \in Turn \cup {None} /\ faults' \in 0..MaxFaults
        /\ doing' # None => ~held' /\ row'[doing'] = "sent"
    <3>1. faults' \in 0..MaxFaults
      BY <2>2, OutageTyping
    <3> DEFINE S == Missed(unanswered, r, w)
    <3> HIDE DEF S
    <3>2. Pump(queue, r, b, h, S, x) /\ S \in SUBSET Turn
      BY <2>3, <2>4 DEF S
    <3>3. /\ queue' \in Seq(Turn) /\ row' \in [Turn -> Status] /\ unanswered' \in SUBSET Turn
          /\ held' \in BOOLEAN /\ doing' \in Turn \cup {None}
          /\ doing' # None => ~b /\ ~held' /\ row'[doing'] = "sent"
      BY <2>1, <2>4, <3>2, PumpTyping
    <3> QED
      BY <3>1, <3>3
  <2> QED
    BY <1>b, <1>3, <2>5 DEF Event, TurnCompleted, TypeOK, Ready, Status
<1> QED
  BY <1>1, <1>2, <1>3 DEF Event

LEMMA DeliverTyping ==
  ASSUME TypeOK, Deliver
  PROVE  TypeOK'
<1>a. row \in [Turn -> Status] /\ doing \in Turn /\ runner = "up"
  BY DEF TypeOK, Status, Deliver
<1> DEFINE w == Hold(queue, Failed(doing), held)
<1>x. PICK x \in BOOLEAN :
        /\ Outage(x)
        /\ \/ Accepted(doing) /\ busy' = TRUE /\ UNCHANGED <<row, held, unanswered>>
           \/ /\ Refused(doing, x)
              /\ \E r \in Written(x, row, Failed(doing)) :
                    row' \in Written(x, r, Hold(queue, r, held))
              /\ unanswered' = Missed(unanswered, row', w)
              /\ held' = (held \/ queue # <<>>)
              /\ UNCHANGED busy
  BY DEF Deliver
<1>f. faults' \in 0..MaxFaults
  BY <1>x, OutageTyping
<1>1. CASE Accepted(doing) /\ busy' = TRUE /\ UNCHANGED <<row, held, unanswered>>
  BY <1>a, <1>f, <1>1, AcceptedTyping DEF TypeOK, Deliver
<1>2. ASSUME Refused(doing, x), NEW r \in Written(x, row, Failed(doing)),
             row' \in Written(x, r, Hold(queue, r, held)),
             unanswered' = Missed(unanswered, row', w),
             held' = (held \/ queue # <<>>), UNCHANGED busy
      PROVE  TypeOK'
  <2>1. r \in [Turn -> Status] /\ unanswered \in SUBSET Turn
    BY <1>a, <1>2, FailedTypes DEF TypeOK, Written, Missed
  <2>2. row' \in [Turn -> Status]
    BY <1>2, <2>1, RowTypes, Writes
  <2>3. unanswered' \in SUBSET Turn
    BY <1>2, <2>1 DEF Missed
  <2>4. /\ sent' \in Seq(Turn) /\ active' \in {"no", "yes", "erred"}
        /\ events' \in Seq({"started", "error", "completed"})
    BY <1>a, <1>2, AcceptedTyping DEF Refused, codexVars, TypeOK
  <2> QED
    BY <1>a, <1>f, <1>2, <2>2, <2>3, <2>4 DEF TypeOK, Deliver, Status
<1> QED
  BY <1>x, <1>1, <1>2

LEMMA QueueOfTypes ==
  ASSUME NEW q \in QueueOf
  PROVE  /\ q \in Seq(Turn)
         /\ Elems(q) = Waiting /\ Waiting \subseteq Turn
<1> DEFINE S == Waiting
<1>1. q \in [1..Cardinality(S) -> S] /\ Elems(q) = S
  BY DEF QueueOf
<1>2. S \subseteq Turn
  BY DEF Waiting
<1> HIDE DEF S
<1>3. Cardinality(S) \in Nat
  <2>1. Len(Kinds) \in Nat
    BY KindsAssumption, LenProperties
  <2>2. IsFiniteSet(Turn)
    BY <2>1, FS_Interval DEF Turn
  <2> QED
    BY <1>2, <2>2, FS_Subset, FS_CardinalityType
<1>4. q \in Seq(Turn)
  BY <1>1, <1>2, <1>3
<1> QED
  BY <1>1, <1>2, <1>4 DEF S

\* A start that reads the waiting rows pumps what it read.
Loaded(b, x) ==
  \E q \in QueueOf, r \in [Turn -> Status], h \in BOOLEAN :
    LET w == IF h THEN HoldRows(r) ELSE r
    IN /\ \A t \in Turn : \/ r[t] = row[t]
                          \/ kind[t] = "resume" /\ row[t] = "queued" /\ r[t] = "sent"
       /\ h = \E t \in Elems(q) : row[t] = "held"
       /\ \E s \in Written(x, r, w) : Pump(q, s, b, h, Missed(unanswered \ Waiting, s, w), x)

LEMMA LoadCases ==
  ASSUME TypeOK, NEW b \in BOOLEAN, NEW x, Load(b, x)
  PROVE  \/ /\ queue' = <<>> /\ held' = FALSE /\ doing' = None /\ UNCHANGED row
            /\ unanswered' = unanswered \cup Waiting
         \/ Loaded(b, x)
<1> DEFINE resumes == {t \in Turn : kind[t] = "resume" /\ row[t] = "queued"}
           R(L)    == [t \in Turn |-> IF t \in L THEN "sent" ELSE row[t]]
           H(q)    == \E t \in Elems(q) : row[t] = "held"
           W(q, L) == IF H(q) THEN HoldRows(R(L)) ELSE R(L)
<1>1. CASE /\ queue' = <<>> /\ held' = FALSE /\ doing' = None /\ UNCHANGED row
           /\ unanswered' = unanswered \cup Waiting
  BY <1>1
<1>2. ASSUME NEW q \in QueueOf, NEW L \in Written(x, {}, resumes),
             \E s \in Written(x, R(L), W(q, L)) :
               Pump(q, s, b, H(q), Missed(unanswered \ Waiting, s, W(q, L)), x)
      PROVE  Loaded(b, x)
  <2>1. L \subseteq resumes
    BY <1>2 DEF Written
  <2>2. R(L) \in [Turn -> Status]
    BY DEF TypeOK, Status
  <2>3. \A t \in Turn :
          \/ R(L)[t] = row[t]
          \/ kind[t] = "resume" /\ row[t] = "queued" /\ R(L)[t] = "sent"
    BY <2>1
  <2>4. H(q) \in BOOLEAN
    OBVIOUS
  <2> HIDE DEF R
  <2> SUFFICES \E v \in QueueOf, r \in [Turn -> Status], h \in BOOLEAN :
                 LET w == IF h THEN HoldRows(r) ELSE r
                 IN /\ \A t \in Turn : \/ r[t] = row[t]
                                       \/ kind[t] = "resume" /\ row[t] = "queued" /\ r[t] = "sent"
                    /\ h = \E t \in Elems(v) : row[t] = "held"
                    /\ \E s \in Written(x, r, w) :
                         Pump(v, s, b, h, Missed(unanswered \ Waiting, s, w), x)
    BY DEF Loaded
  <2> WITNESS q \in QueueOf, R(L) \in [Turn -> Status], H(q) \in BOOLEAN
  <2> QED
    BY <1>2, <2>3
<1> QED
  BY <1>1, <1>2 DEF Load

LEMMA AttachTyping ==
  ASSUME TypeOK, Attach \/ Redialled
  PROVE  TypeOK'
<1>a. row \in [Turn -> Status] /\ queue \in Seq(Turn) /\ unanswered \in SUBSET Turn
  BY DEF TypeOK, Status
<1>1. ASSUME Attach, NEW x \in BOOLEAN, Outage(x), NEW a \in InProgress(x, FALSE),
             busy' = a, Load(a, x)
      PROVE  TypeOK'
  <2>1. a \in BOOLEAN /\ faults' \in 0..MaxFaults
    BY <1>1, OutageTyping DEF InProgress
  <2>2. /\ queue' \in Seq(Turn) /\ row' \in [Turn -> Status] /\ unanswered' \in SUBSET Turn
        /\ held' \in BOOLEAN /\ doing' \in Turn \cup {None}
        /\ doing' # None => ~a /\ ~held' /\ row'[doing'] = "sent"
    <3>1. CASE /\ queue' = <<>> /\ held' = FALSE /\ doing' = None /\ UNCHANGED row
               /\ unanswered' = unanswered \cup Waiting
      BY <1>a, <3>1, EmptySeq DEF Waiting
    <3>2. ASSUME NEW q \in QueueOf, NEW r \in [Turn -> Status], NEW h \in BOOLEAN,
                 NEW s \in Written(x, r, IF h THEN HoldRows(r) ELSE r),
                 Pump(q, s, a, h, Missed(unanswered \ Waiting, s, IF h THEN HoldRows(r) ELSE r), x)
          PROVE  /\ queue' \in Seq(Turn) /\ row' \in [Turn -> Status] /\ unanswered' \in SUBSET Turn
                 /\ held' \in BOOLEAN /\ doing' \in Turn \cup {None}
                 /\ doing' # None => ~a /\ ~held' /\ row'[doing'] = "sent"
      <4> DEFINE w == IF h THEN HoldRows(r) ELSE r
                 S == Missed(unanswered \ Waiting, s, w)
      <4>1. w \in [Turn -> Status]
        BY RowTypes
      <4>p. Pump(q, s, a, h, S, x) /\ s \in Written(x, r, w)
        BY <3>2
      <4> HIDE DEF w
      <4>2. s \in [Turn -> Status] /\ S \in SUBSET Turn
        BY <1>a, <4>1, <4>p, Writes DEF Missed
      <4>4. Pump(q, s, a, h, S, x)
        BY <4>p
      <4> HIDE DEF S
      <4>3. q \in Seq(Turn) /\ h \in BOOLEAN
        BY QueueOfTypes
      <4> QED
        BY <2>1, <4>2, <4>3, <4>4, PumpTyping
    <3>3. CASE Loaded(a, x)
      BY <3>2, <3>3 DEF Loaded
    <3> QED
      BY <1>1, <2>1, <3>1, <3>3, LoadCases
  <2> QED
    BY <1>1, <2>1, <2>2 DEF Attach, TypeOK, Status, codexVars
<1>2. ASSUME Redialled, runner' = "up", NEW x \in BOOLEAN, Outage(x),
             NEW a \in InProgress(x, FALSE), busy' = a,
             Pump(queue, row, a, held, unanswered, x), stopping' = (stopping /\ busy')
      PROVE  TypeOK'
  <2>1. a \in BOOLEAN /\ held \in BOOLEAN /\ stopping' \in BOOLEAN /\ faults' \in 0..MaxFaults
    BY <1>2, OutageTyping DEF TypeOK, InProgress
  <2>2. /\ queue' \in Seq(Turn) /\ row' \in [Turn -> Status] /\ unanswered' \in SUBSET Turn
        /\ held' \in BOOLEAN /\ doing' \in Turn \cup {None}
        /\ doing' # None => ~a /\ ~held' /\ row'[doing'] = "sent"
    BY <1>a, <1>2, <2>1, PumpTyping
  <2> QED
    BY <1>2, <2>1, <2>2 DEF Redialled, Gone, TypeOK, Status
<1>3. CASE Redialled /\ Gone(Elems(chan)) /\ thread' = "failed" /\ busy' = FALSE
           /\ UNCHANGED <<row, unanswered, faults>>
  <2>1. lost' \in SUBSET Turn /\ chan' = <<>> /\ <<>> \in Seq(Turn) /\ Forgets
    BY <1>3, ElemsIn, EmptySeq DEF Gone, TypeOK
  <2> QED
    BY <1>3, <2>1, ForgetsTyping DEF Redialled, Gone, TypeOK
<1>4. CASE Attach
  BY <1>1, <1>4 DEF Attach
<1>5. CASE Redialled
  BY <1>2, <1>3, <1>5 DEF Redialled
<1> QED
  BY <1>4, <1>5

LEMMA TypingStep == TypeOK /\ [Next]_vars => TypeOK'
<1> SUFFICES ASSUME TypeOK, [Next]_vars PROVE TypeOK'
  OBVIOUS
<1>1. CASE UNCHANGED vars
  BY <1>1 DEF vars, rowVars, runnerVars, codexVars, history, TypeOK
<1>2. CASE Next
  BY <1>2, RowTyping, CodexTyping, LifeTyping, CommandTyping, StopTyping, EventTyping,
     DeliverTyping, AttachTyping DEF Next, Route, Runner
<1> QED
  BY <1>1, <1>2

(***************************************************************************)
(* The rows, the runner's queue and flags and codex's turns keep their     *)
(* types, and a turn is in flight only under an idle runner without hold.  *)
(***************************************************************************)
THEOREM TypeCorrect == Spec => []TypeOK
BY TypingInit, TypingStep, PTL DEF Spec

-----------------------------------------------------------------------------
(* The invariant. *)

\* A turn that is not claimed is nowhere but in its row.
Unseen ==
  \A t \in Turn : row[t] \in {"none", "pending"} =>
    /\ t \notin routing /\ t \notin Elems(chan) /\ t \notin asked
    /\ t \notin Elems(queue) /\ t \notin Elems(sent) /\ t # doing

KindsMatch ==
  /\ \A t \in Elems(queue) : kind[t] = "queue"
  /\ doing # None => kind[doing] = "queue"
  /\ \A t \in asked : kind[t] = "interrupt"

\* A steer on its way to codex is there once and has not arrived; what codex got of
\* the queue turns has left its row.
OnTheWay ==
  /\ Distinct(chan) /\ routing \cap Elems(chan) = {}
  /\ \A t \in Elems(sent) :
       /\ kind[t] = "queue" => row[t] \in {"sent", "failed"}
       /\ kind[t] = "steer" => t \notin routing /\ t \notin Elems(chan)
  /\ doing \notin Elems(sent)
  /\ Distinct(sent)

\* The memory's hold and the rows', save for the turns of U: a queue without hold has
\* no held row anywhere.
Agree(q, r, h, U) ==
  IF h THEN \A t \in Elems(q) \ U : r[t] # "queued"
       ELSE \A t \in Turn \ U : kind[t] = "queue" => r[t] # "held"

Agreed == runner \in {"up", "redial"} => Agree(queue, row, held, unanswered)

QueueInv == Unseen /\ KindsMatch /\ OnTheWay /\ Agreed /\ NothingVanishes

-----------------------------------------------------------------------------
(* pump keeps the hold and forgets no turn that still waits. *)

LEMMA HoldsAll ==
  ASSUME NEW q \in Seq(Turn), NEW r, \A t \in Elems(q) : kind[t] = "queue"
  PROVE  \A t \in Elems(q) : HoldRows(r)[t] # "queued"
<1>1. Elems(q) \subseteq Turn
  BY ElemsIn
<1> QED
  BY <1>1 DEF HoldRows, Moved, Queued

LEMMA HoldAgrees ==
  ASSUME NEW q \in Seq(Turn), NEW r, NEW h \in BOOLEAN, NEW U,
         \A t \in Elems(q) : kind[t] = "queue", Agree(q, r, h, U)
  PROVE  Agree(q, Hold(q, r, h), h \/ q # <<>>, U)
<1>1. \A t \in Elems(q) : HoldRows(r)[t] # "queued"
  BY HoldsAll
<1>2. CASE q = <<>>
  BY <1>2 DEF Agree, Hold, Holds
<1>3. CASE q # <<>>
  BY <1>1, <1>3 DEF Agree, Hold, Holds
<1> QED
  BY <1>2, <1>3

\* A write that some turns missed leaves the others as it should.
LEMMA MissedAgrees ==
  ASSUME NEW q \in Seq(Turn), NEW s, NEW w, NEW h \in BOOLEAN, NEW U \in SUBSET Turn,
         Agree(q, w, h, U)
  PROVE  Agree(q, s, h, Missed(U, s, w))
<1>1. Elems(q) \subseteq Turn
  BY ElemsIn
<1>2. \A t \in Turn \ Missed(U, s, w) : t \notin U /\ s[t] = w[t]
  BY DEF Missed
<1> QED
  BY <1>1, <1>2 DEF Agree

\* What is left of a queue when the turns before the one at i do not wait.
LEMMA LeftBehind ==
  ASSUME NEW q \in Seq(Turn), NEW r, NEW i \in 1..Len(q),
         \A j \in 1..i - 1 : r[q[j]] # "queued", NEW t \in Elems(q), r[t] = "queued"
  PROVE  /\ t \in Elems(SubSeq(q, i, Len(q)))
         /\ t # q[i] => t \in Elems(SubSeq(q, i + 1, Len(q)))
<1>1. Len(q) \in Nat
  BY LenProperties
<1>2. PICK j \in 1..Len(q) : q[j] = t
  BY DEF Elems
<1>3. j \in i..Len(q) /\ (j # i => j \in i + 1..Len(q))
  BY <1>1, <1>2
<1> QED
  BY <1>2, <1>3, Suffix

LEMMA PumpAgrees ==
  ASSUME NEW q \in Seq(Turn), NEW r \in [Turn -> Status], NEW b \in BOOLEAN,
         NEW h \in BOOLEAN, NEW S \in SUBSET Turn, NEW x, Pump(q, r, b, h, S, x),
         \A t \in Elems(q) : kind[t] = "queue", Agree(q, r, h, S)
  PROVE  /\ Agree(queue', row', held', unanswered')
         /\ \A t \in Elems(q) \ unanswered' :
              row'[t] \in {"queued", "held"} => t \in Elems(queue')
<1>0. Elems(q) \subseteq Turn /\ S \subseteq unanswered' /\ Elems(queue') \subseteq Elems(q)
  <2>1. Pumped(q, r, b, S)
    BY PumpFacts
  <2> QED
    BY <2>1, ElemsIn DEF Pumped
<1>1. CASE queue' = q /\ row' = r /\ held' = h /\ unanswered' = S
  BY <1>1
<1>2. CASE ~h /\ Taken(q, r) = {} /\ queue' = <<>> /\ row' = r /\ held' = h /\ unanswered' = S
  <2>1. \A t \in Elems(q) \ S : r[t] # "queued" /\ r[t] # "held"
    BY <1>0, <1>2 DEF Taken, Agree, Elems
  <2> QED
    BY <1>2, <2>1 DEF Agree
<1>3. ASSUME ~h, NEW i \in 1..Len(q), \A j \in 1..i - 1 : r[q[j]] # "queued",
             queue' = SubSeq(q, i + 1, Len(q)), row' = [r EXCEPT ![q[i]] = "sent"],
             held' = h, unanswered' = S
      PROVE  /\ Agree(queue', row', held', unanswered')
             /\ \A t \in Elems(q) \ unanswered' :
                  row'[t] \in {"queued", "held"} => t \in Elems(queue')
  <2>1. q[i] \in Turn
    BY Suffix
  <2>2. Agree(queue', row', held', unanswered')
    BY <1>3, <2>1 DEF Agree
  <2>3. ASSUME NEW t \in Elems(q) \ S, row'[t] \in {"queued", "held"} PROVE t \in Elems(queue')
    <3>1. t # q[i] /\ r[t] = "queued"
      BY <1>0, <1>3, <2>1, <2>3 DEF Agree
    <3> QED
      BY <1>3, <3>1, LeftBehind
  <2> QED
    BY <1>3, <2>2, <2>3
<1>4. ASSUME ~h, NEW i \in 1..Len(q), \A j \in 1..i - 1 : r[q[j]] # "queued",
             queue' = SubSeq(q, i, Len(q)), held' = TRUE,
             unanswered' = Missed(S, row', HoldRows(r))
      PROVE  /\ Agree(queue', row', held', unanswered')
             /\ \A t \in Elems(q) \ unanswered' :
                  row'[t] \in {"queued", "held"} => t \in Elems(queue')
  <2>1. \A t \in Elems(q) \ unanswered' : row'[t] = HoldRows(r)[t] /\ t \notin S
    BY <1>0, <1>4 DEF Missed
  <2>2. Agree(queue', row', held', unanswered')
    BY <1>0, <1>4, <2>1, HoldsAll DEF Agree
  <2>3. ASSUME NEW t \in Elems(q) \ unanswered', row'[t] \in {"queued", "held"}
        PROVE  t \in Elems(queue')
    <3>1. r[t] = "queued"
      BY <1>0, <1>4, <2>1, <2>3 DEF HoldRows, Moved, Agree
    <3> QED
      BY <1>4, <3>1, LeftBehind
  <2> QED
    BY <2>2, <2>3
<1>5. ASSUME ~h, Taken(q, r) # {}
      PROVE  /\ First(Taken(q, r)) \in 1..Len(q)
             /\ \A j \in 1..First(Taken(q, r)) - 1 : r[q[j]] # "queued"
  BY <1>5, FirstTaken
<1>6. ASSUME NEW i \in 1..Len(q), Taken(q, r) \cap 1..i - 1 = {}
      PROVE  \A j \in 1..i - 1 : r[q[j]] # "queued"
  <2>1. \A j \in 1..i - 1 : j \in 1..Len(q)
    BY LenProperties
  <2> QED
    BY <1>6, <2>1 DEF Taken
<1>7. CASE /\ ~h /\ Taken(q, r) # {}
           /\ LET i == First(Taken(q, r))
              IN /\ queue' = SubSeq(q, i + 1, Len(q))
                 /\ row' = [r EXCEPT ![q[i]] = "sent"]
                 /\ held' = h /\ doing' = q[i] /\ unanswered' = S
  BY <1>3, <1>5, <1>7
<1>8. CASE /\ ~h /\ held' = TRUE /\ unanswered' = Missed(S, row', HoldRows(r))
           /\ \E i \in {k \in 1..Len(q) : Taken(q, r) \cap 1..k - 1 = {}} :
                queue' = SubSeq(q, i, Len(q))
  BY <1>4, <1>6, <1>8
<1> QED
  BY <1>1, <1>2, <1>7, <1>8 DEF Pump

\* What a runner may do to the rows before it pumps.
RowsMove(r) ==
  \A t \in Turn :
    \/ r[t] = row[t]
    \/ kind[t] = "queue" /\ row[t] \in {"queued", "held"} /\ r[t] \in {"queued", "held"}
    \/ kind[t] = "resume" /\ row[t] \notin {"none", "pending"}
                          /\ r[t] \in {"queued", "held", "sent"}
    \/ kind[t] = "interrupt" /\ row[t] \notin {"none", "pending"} /\ r[t] = "failed"

(***************************************************************************)
(* Every step in which a runner works on its queue: from a queue q and     *)
(* rows r that agree with the hold h, save for the turns in S, it pumps.   *)
(***************************************************************************)
LEMMA QueueStep ==
  ASSUME TypeOK, TypeOK', QueueInv,
         NEW q \in Seq(Turn), NEW r \in [Turn -> Status], NEW b \in BOOLEAN,
         NEW h \in BOOLEAN, NEW S \in SUBSET Turn, NEW x, Pump(q, r, b, h, S, x),
         Agree(q, r, h, S), RowsMove(r),
         \A t \in unanswered : t \in S \/ (kind[t] = "queue" /\ row[t] \in {"queued", "held"}),
         \A t \in Elems(q) : kind[t] = "queue" /\ row[t] \notin {"none", "pending"},
         \A t \in Turn : kind[t] = "queue" /\ r[t] \in {"queued", "held"}
                           => t \in Elems(q) \cup routing \cup Elems(chan) \cup S,
         doing = None,
         UNCHANGED <<kind, routing, sent, lost>>,
         Distinct(chan'), Elems(chan') \subseteq Elems(chan),
         \A t \in Elems(chan) :
           /\ kind[t] = "queue" => t \in Elems(chan') \cup Elems(q)
           /\ kind[t] = "steer" => t \in Elems(chan'),
         \A t \in asked' : kind[t] = "interrupt" /\ row[t] \notin {"none", "pending"}
  PROVE  QueueInv'
<1>1. /\ Elems(queue') \subseteq Elems(q) /\ S \subseteq unanswered'
      /\ doing' # None => doing' \in Elems(q) /\ r[doing'] = "queued" /\ row'[doing'] = "sent"
      /\ \A t \in Turn : \/ row'[t] = r[t]
                         \/ t = doing'
                         \/ Queued(t) /\ r[t] = "queued" /\ row'[t] = "held"
                         \/ /\ t \in Elems(q) /\ r[t] = "queued" /\ row'[t] = "sent"
                            /\ t \in unanswered'
  <2>1. Pumped(q, r, b, S)
    BY PumpFacts
  <2> QED
    BY <2>1 DEF Pumped
<1>2. /\ Agree(queue', row', held', unanswered')
      /\ \A t \in Elems(q) \ unanswered' :
           row'[t] \in {"queued", "held"} => t \in Elems(queue')
  BY PumpAgrees
<1>3. /\ Elems(q) \subseteq Turn /\ Elems(chan) \subseteq Turn /\ Elems(sent) \subseteq Turn
      /\ None \notin Turn /\ Elems(sent') = Elems(sent)
      /\ doing' \in Turn \cup {None}
  <2>1. chan \in Seq(Turn) /\ sent \in Seq(Turn) /\ doing' \in Turn \cup {None}
    BY DEF TypeOK
  <2>2. None \notin Turn
    BY DEF Turn, None
  <2> QED
    BY <2>1, <2>2, ElemsIn
<1>4. \A t \in Turn : row'[t] \in {"none", "pending"} => row[t] \in {"none", "pending"}
  BY <1>1, <1>3 DEF RowsMove
<1>5. Unseen'
  BY <1>1, <1>3, <1>4 DEF QueueInv, Unseen, TypeOK
<1>6. KindsMatch'
  BY <1>1 DEF KindsMatch
<1>7. ASSUME NEW t \in Elems(sent), kind[t] = "queue"
      PROVE  t # doing' /\ row'[t] \in {"sent", "failed"}
  <2>1. r[t] \in {"sent", "failed"}
    BY <1>3, <1>7 DEF QueueInv, OnTheWay, RowsMove
  <2> QED
    BY <1>1, <1>3, <2>1
<1>8. doing' \notin Elems(sent)
  BY <1>1, <1>3, <1>7
<1>9. OnTheWay'
  BY <1>3, <1>7, <1>8 DEF QueueInv, OnTheWay
<1>10. NothingVanishes'
  <2> SUFFICES ASSUME NEW t \in Turn, t \notin unanswered'
               PROVE  LET underway == (routing \cup Elems(chan))'
                      IN /\ kind[t] = "steer" /\ row'[t] = "sent"
                              => t \in Elems(sent) \cup underway \cup lost
                         /\ kind[t] = "queue" /\ row'[t] = "sent"
                              => t \in Elems(sent) \cup {doing'} \cup lost
                         /\ kind[t] = "queue" /\ row'[t] \in {"queued", "held"}
                              => t \in Elems(queue') \cup underway
    BY DEF NothingVanishes
  <2>0. t \notin S
    BY <1>1
  <2>1. ASSUME kind[t] = "steer", row'[t] = "sent"
        PROVE  row[t] = "sent" /\ t \notin unanswered
    BY <1>1, <1>3, <2>0, <2>1 DEF RowsMove, Queued
  <2>2. ASSUME kind[t] = "queue", row'[t] = "sent", t # doing'
        PROVE  row[t] = "sent" /\ t \notin unanswered
    BY <1>1, <1>3, <2>0, <2>2 DEF RowsMove
  <2>3. ASSUME kind[t] = "queue", row'[t] \in {"queued", "held"}
        PROVE  r[t] \in {"queued", "held"}
    BY <1>1, <1>3, <2>3
  <2>4. kind[t] = "steer" /\ row'[t] = "sent" => t \in Elems(sent) \cup (routing \cup Elems(chan)) \cup lost
    BY <2>1 DEF QueueInv, NothingVanishes
  <2>5. kind[t] = "queue" /\ row'[t] = "sent" => t \in Elems(sent) \cup {doing'} \cup lost
    BY <1>3, <2>2 DEF QueueInv, NothingVanishes
  <2>6. kind[t] = "queue" /\ row'[t] \in {"queued", "held"}
          => t \in Elems(queue') \cup routing \cup Elems(chan')
    BY <1>2, <2>0, <2>3
  <2> QED
    BY <2>4, <2>5, <2>6
<1> QED
  BY <1>2, <1>5, <1>6, <1>9, <1>10 DEF QueueInv, Agreed, Agree

LEMMA QueueInit == Init => QueueInv
<1> SUFFICES ASSUME Init PROVE QueueInv
  OBVIOUS
<1>1. Distinct(<<>>) /\ None \notin Turn
  BY EmptySeq DEF Distinct, None, Turn
<1> QED
  BY <1>1, EmptyElems DEF Init, QueueInv, Unseen, KindsMatch, OnTheWay, Agreed, NothingVanishes

-----------------------------------------------------------------------------
(* The steps of a runner's queue. *)

LEMMA Claimed ==
  ASSUME TypeOK, QueueInv
  PROVE  /\ \A t \in Elems(queue) : t \in Turn /\ kind[t] = "queue"
                                      /\ row[t] \notin {"none", "pending"}
         /\ \A t \in Elems(chan) : t \in Turn /\ row[t] \notin {"none", "pending"}
         /\ \A t \in asked : t \in Turn /\ kind[t] = "interrupt"
                               /\ row[t] \notin {"none", "pending"}
         /\ Distinct(chan) /\ row \in [Turn -> Status] /\ RowsMove(row)
         /\ unanswered \in SUBSET Turn /\ queue \in Seq(Turn)
         /\ runner \in {"up", "redial"} => Agree(queue, row, held, unanswered)
         /\ runner \in {"up", "redial"} =>
              \A t \in Turn \ unanswered : kind[t] = "queue" /\ row[t] \in {"queued", "held"}
                                => t \in Elems(queue) \cup routing \cup Elems(chan)
<1>1. Elems(queue) \subseteq Turn /\ Elems(chan) \subseteq Turn /\ asked \subseteq Turn
  <2>1. queue \in Seq(Turn) /\ chan \in Seq(Turn) /\ asked \subseteq Turn
    BY DEF TypeOK
  <2> QED
    BY <2>1, ElemsIn
<1>2. /\ row \in [Turn -> Status] /\ RowsMove(row)
      /\ unanswered \in SUBSET Turn /\ queue \in Seq(Turn)
  BY DEF TypeOK, Status, RowsMove
<1>3. /\ \A t \in Elems(queue) : kind[t] = "queue" /\ row[t] \notin {"none", "pending"}
      /\ \A t \in Elems(chan) : row[t] \notin {"none", "pending"}
      /\ \A t \in asked : kind[t] = "interrupt" /\ row[t] \notin {"none", "pending"}
  BY <1>1 DEF QueueInv, Unseen, KindsMatch
<1>4. Distinct(chan) /\ (runner \in {"up", "redial"} => Agree(queue, row, held, unanswered))
  BY DEF QueueInv, OnTheWay, Agreed
<1>5. runner \in {"up", "redial"} =>
        \A t \in Turn \ unanswered : kind[t] = "queue" /\ row[t] \in {"queued", "held"}
                          => t \in Elems(queue) \cup routing \cup Elems(chan)
  BY DEF QueueInv, NothingVanishes
<1> QED
  BY <1>1, <1>2, <1>3, <1>4, <1>5

\* A hold moves rows as RowsMove allows.
LEMMA HoldMoves ==
  ASSUME NEW r \in [Turn -> Status], RowsMove(r), NEW s \in {r, HoldRows(r)}
  PROVE  /\ RowsMove(s) /\ s \in [Turn -> Status]
         /\ \A t \in Turn : s[t] # r[t] => r[t] = "queued" /\ s[t] = "held"
<1>1. \A t \in Turn : s[t] = r[t] \/ (Queued(t) /\ r[t] = "queued" /\ s[t] = "held")
  BY DEF HoldRows, Moved
<1>2. s \in [Turn -> Status]
  BY RowTypes
<1>3. RowsMove(s)
  BY <1>1 DEF RowsMove, Queued
<1> QED
  BY <1>1, <1>2, <1>3

(***************************************************************************)
(* A runner that is up pumps rows r, when it should have written w, which  *)
(* agree with the hold h.                                                  *)
(***************************************************************************)
LEMMA RunnerStep ==
  ASSUME TypeOK, TypeOK', QueueInv, runner \in {"up", "redial"}, doing = None,
         NEW q \in Seq(Turn), NEW r \in [Turn -> Status], NEW w, NEW b \in BOOLEAN,
         NEW h \in BOOLEAN, NEW x, Pump(q, r, b, h, Missed(unanswered, r, w), x),
         RowsMove(r), Agree(q, w, h, unanswered), Elems(queue) \subseteq Elems(q),
         \A t \in Elems(q) : kind[t] = "queue" /\ row[t] \notin {"none", "pending"},
         UNCHANGED <<kind, routing, sent, lost>>,
         Distinct(chan'), Elems(chan') \subseteq Elems(chan),
         \A t \in Elems(chan) :
           /\ kind[t] = "queue" => t \in Elems(chan') \cup Elems(q)
           /\ kind[t] = "steer" => t \in Elems(chan'),
         \A t \in asked' : kind[t] = "interrupt" /\ row[t] \notin {"none", "pending"}
  PROVE  QueueInv'
<1> DEFINE S == Missed(unanswered, r, w)
<1>1. unanswered \subseteq S /\ S \in SUBSET Turn /\ unanswered \in SUBSET Turn
  BY Claimed DEF Missed
<1>2. Agree(q, r, h, S)
  BY <1>1, MissedAgrees
<1>3. Pump(q, r, b, h, S, x)
  OBVIOUS
<1> HIDE DEF S
<1>4. ASSUME NEW t \in Turn, kind[t] = "queue", r[t] \in {"queued", "held"}
      PROVE  t \in Elems(q) \cup routing \cup Elems(chan) \cup S
  <2>1. row[t] \in {"queued", "held"}
    BY <1>4 DEF RowsMove
  <2> QED
    BY <1>1, <1>4, <2>1, Claimed
<1> QED
  BY <1>1, <1>2, <1>3, <1>4, QueueStep

LEMMA EnqueueStep ==
  ASSUME TypeOK, TypeOK', QueueInv, Command, chan' = Tail(chan), NEW x, Enqueue(Head(chan), x)
  PROVE  QueueInv'
<1> DEFINE t   == Head(chan)
           new == t \notin Elems(queue)
           q   == IF new THEN Append(queue, t) ELSE queue
           w   == IF held /\ new THEN HoldRows(row) ELSE row
<1>1. /\ t \in Turn /\ kind[t] = "queue" /\ doing = None
      /\ runner = "up" /\ UNCHANGED <<kind, routing, sent, lost, asked>>
      /\ Elems(chan) = Elems(chan') \cup {t} /\ (Distinct(chan) => Distinct(chan'))
  <2>1. chan \in Seq(Turn) /\ chan # <<>>
    BY DEF TypeOK, Command
  <2> QED
    BY <2>1, TailElems DEF Command, Enqueue, Ready, codexVars
<1>2. PICK r \in Written(x, row, w) : Pump(q, r, busy, held, Missed(unanswered, r, w), x)
  BY DEF Enqueue
<1>3. q \in Seq(Turn) /\ Elems(q) = Elems(queue) \cup {t}
  <2>1. queue \in Seq(Turn)
    BY DEF TypeOK
  <2> QED
    BY <1>1, <2>1, AppendElems
<1>4. \A u \in Elems(q) : kind[u] = "queue" /\ row[u] \notin {"none", "pending"}
  BY <1>1, <1>3, Claimed
<1>5. r \in {row, HoldRows(row)}
  BY <1>2 DEF Written
<1>6. RowsMove(r) /\ r \in [Turn -> Status]
  BY <1>5, Claimed, HoldMoves
<1>7. held \in BOOLEAN /\ busy \in BOOLEAN
  BY DEF TypeOK
<1>8. Agree(q, w, held, unanswered)
  <2>1. CASE ~new \/ ~held
    BY <1>1, <2>1, Claimed DEF Agree
  <2>2. CASE new /\ held
    <3>1. \A u \in Elems(q) : HoldRows(row)[u] # "queued"
      BY <1>3, <1>4, HoldsAll
    <3> QED
      BY <2>2, <3>1 DEF Agree
  <2> QED
    BY <2>1, <2>2
<1> HIDE DEF q, w, t
<1>9. /\ Distinct(chan') /\ Elems(chan') \subseteq Elems(chan) /\ Elems(queue) \subseteq Elems(q)
      /\ \A u \in Elems(chan) : /\ kind[u] = "queue" => u \in Elems(chan') \cup Elems(q)
                               /\ kind[u] = "steer" => u \in Elems(chan')
      /\ \A u \in asked' : kind[u] = "interrupt" /\ row[u] \notin {"none", "pending"}
      /\ runner \in {"up", "redial"}
  BY <1>1, <1>3, Claimed
<1> QED
  BY <1>1, <1>2, <1>3, <1>4, <1>6, <1>7, <1>8, <1>9, RunnerStep

LEMMA ResumeStep ==
  ASSUME TypeOK, TypeOK', QueueInv, Command, chan' = Tail(chan), NEW x, Resume(Head(chan), x)
  PROVE  QueueInv'
<1> DEFINE t == Head(chan)
           v == [row EXCEPT ![t] = IF @ = "queued" THEN "sent" ELSE @]
           W(r) == IF held THEN Moved(r, "held", "queued") ELSE r
           h == FALSE
<1>1. /\ t \in Turn /\ kind[t] = "resume" /\ doing = None
      /\ runner = "up" /\ UNCHANGED <<kind, routing, sent, lost, asked>>
      /\ Elems(chan) = Elems(chan') \cup {t} /\ (Distinct(chan) => Distinct(chan'))
  <2>1. chan \in Seq(Turn) /\ chan # <<>>
    BY DEF TypeOK, Command
  <2> QED
    BY <2>1, TailElems DEF Command, Resume, Ready, codexVars
<1>2. PICK r \in Written(x, row, v) :
        \E s \in Written(x, r, W(r)) :
          Pump(queue, s, busy, FALSE, Missed(unanswered, s, W(r)), x)
  BY DEF Resume
<1>3. PICK s \in Written(x, r, W(r)) : Pump(queue, s, busy, FALSE, Missed(unanswered, s, W(r)), x)
  BY <1>2
<1> DEFINE w == W(r)
<1>4. /\ r \in [Turn -> Status]
      /\ \A u \in Turn : r[u] = row[u] \/ (u = t /\ row[u] = "queued" /\ r[u] = "sent")
  <2>1. r \in {row, v}
    BY <1>2 DEF Written
  <2> QED
    BY <1>1, <2>1, Claimed DEF Status
<1>5. /\ w \in [Turn -> Status] /\ s \in {r, w}
      /\ \A u \in Turn : w[u] = r[u] \/ (Queued(u) /\ r[u] = "held" /\ w[u] = "queued")
  <2>1. w \in [Turn -> Status]
    BY <1>4, RowTypes
  <2> QED
    BY <1>3, <1>4, <2>1 DEF Moved, Written
<1>6. RowsMove(s) /\ s \in [Turn -> Status]
  <2> HIDE DEF w
  <2>1. ASSUME NEW u \in Turn
        PROVE  \/ s[u] = row[u]
               \/ u = t /\ row[u] = "queued" /\ s[u] = "sent"
               \/ Queued(u) /\ row[u] = "held" /\ s[u] = "queued"
    BY <1>4, <1>5
  <2> QED
    BY <1>1, <1>4, <1>5, <2>1 DEF RowsMove, Queued
<1>7. Agree(queue, w, h, unanswered)
  <2> SUFFICES ASSUME NEW u \in Turn \ unanswered, kind[u] = "queue" PROVE w[u] # "held"
    BY DEF Agree
  <2>1. CASE held
    BY <1>4, <2>1 DEF Moved, Queued
  <2>2. CASE ~held
    BY <1>1, <1>4, <2>2, Claimed DEF Agree
  <2> QED
    BY <2>1, <2>2
<1>8. Pump(queue, s, busy, h, Missed(unanswered, s, w), x) /\ h \in BOOLEAN /\ busy \in BOOLEAN
  BY <1>3 DEF TypeOK
<1> HIDE DEF w, t, h
<1>9. \A u \in Elems(queue) : kind[u] = "queue" /\ row[u] \notin {"none", "pending"}
  BY Claimed
<1> QED
  BY <1>1, <1>6, <1>7, <1>8, <1>9, Claimed, RunnerStep

LEMMA InterruptStep ==
  ASSUME TypeOK, TypeOK', QueueInv, Ready, NEW t \in Elems(chan), NEW x, Interrupt(t, x),
         UNCHANGED <<kind, routing>>, Distinct(chan'),
         Elems(chan') \subseteq Elems(chan), Elems(chan) \subseteq Elems(chan') \cup {t}
  PROVE  QueueInv'
<1> DEFINE w == Hold(queue, row, held)
           h == held \/ queue # <<>>
           b == TRUE
<1>1. /\ queue \in Seq(Turn) /\ b \in BOOLEAN /\ h \in BOOLEAN /\ held \in BOOLEAN
      /\ t \in Turn /\ kind[t] = "interrupt" /\ doing = None /\ runner = "up"
      /\ row[t] \notin {"none", "pending"}
  BY Claimed DEF TypeOK, Ready, Interrupt
<1>2. PICK r \in Written(x, row, w) : row' = r
  BY DEF Interrupt
<1>3. Pump(queue, r, b, h, Missed(unanswered, r, w), x) /\ UNCHANGED <<sent, lost>>
  BY <1>1, <1>2 DEF Interrupt, Pump, codexVars
<1>4. \A u \in Elems(queue) : kind[u] = "queue" /\ row[u] \notin {"none", "pending"}
  BY Claimed
<1>5. RowsMove(r) /\ r \in [Turn -> Status]
  <2>1. r \in {row, HoldRows(row)}
    BY <1>2 DEF Written, Hold
  <2> QED
    BY <2>1, Claimed, HoldMoves
<1>6. Agree(queue, w, h, unanswered)
  <2>1. Agree(queue, row, held, unanswered) /\ row \in [Turn -> Status]
    BY <1>1, Claimed
  <2> QED
    BY <1>1, <1>4, <2>1, HoldAgrees
<1>7. \A u \in asked' : kind[u] = "interrupt" /\ row[u] \notin {"none", "pending"}
  BY <1>1, Claimed DEF Interrupt
<1> HIDE DEF w, h, b
<1> QED
  BY <1>1, <1>3, <1>4, <1>5, <1>6, <1>7, RunnerStep

LEMMA StopAnsweredStep ==
  ASSUME TypeOK, TypeOK', QueueInv, NEW t \in Turn, StopAnswered(t)
  PROVE  QueueInv'
<1>1. /\ t \in asked /\ kind[t] = "interrupt" /\ row[t] \notin {"none", "pending"}
      /\ doing = None /\ runner = "up"
      /\ asked' = asked \ {t} /\ UNCHANGED <<kind, routing, runner, chan, sent, lost>>
  BY Claimed DEF StopAnswered, Ready, codexVars
<1>2. CASE UNCHANGED <<row, queue, held, doing, unanswered>>
  BY <1>1, <1>2 DEF QueueInv, Unseen, KindsMatch, OnTheWay, Agreed, Agree, NothingVanishes
<1>3. ASSUME NEW x \in BOOLEAN, NEW a \in InProgress(x, TRUE), NEW r \in Written(x, row, Failed(t)),
             Pump(queue, r, a, held, Missed(unanswered, r, Failed(t)), x)
      PROVE  QueueInv'
  <2> DEFINE w == Failed(t)
  <2>1. /\ queue \in Seq(Turn) /\ a \in BOOLEAN /\ held \in BOOLEAN
        /\ w \in [Turn -> Status] /\ w[t] = "failed" /\ \A u \in Turn : u # t => w[u] = row[u]
        /\ row \in [Turn -> Status]
    BY FailedTypes, Claimed DEF TypeOK, InProgress
  <2>2. Pump(queue, r, a, held, Missed(unanswered, r, w), x) /\ r \in {row, w}
    BY <1>3 DEF Written
  <2> HIDE DEF w
  <2>3. RowsMove(r) /\ r \in [Turn -> Status]
    BY <1>1, <2>1, <2>2 DEF RowsMove
  <2>4. \A u \in Elems(queue) : u \in Turn /\ kind[u] = "queue" /\ row[u] \notin {"none", "pending"}
    BY Claimed
  <2>5. Agree(queue, w, held, unanswered)
    <3>1. Agree(queue, row, held, unanswered)
      BY <1>1, Claimed
    <3> QED
      BY <2>1, <2>4, <3>1 DEF Agree
  <2>6. \A u \in asked' : kind[u] = "interrupt" /\ row[u] \notin {"none", "pending"}
    BY <1>1, Claimed
  <2> QED
    BY <1>1, <2>1, <2>2, <2>3, <2>4, <2>5, <2>6, Claimed, RunnerStep
<1> QED
  BY <1>2, <1>3 DEF StopAnswered

LEMMA EventStep ==
  ASSUME TypeOK, TypeOK', QueueInv, Event
  PROVE  QueueInv'
<1>1. doing = None /\ runner = "up" /\ UNCHANGED <<kind, routing, chan, asked, sent, lost, runner>>
  BY DEF Event, Ready
<1>2. CASE UNCHANGED <<row, queue, held, doing, unanswered>>
  BY <1>1, <1>2 DEF QueueInv, Unseen, KindsMatch, OnTheWay, Agreed, Agree, NothingVanishes
<1>3. CASE TurnCompleted
  <2> DEFINE fails == turnFailed /\ ~stopping
             w == IF fails THEN Hold(queue, row, held) ELSE row
             h == held \/ (fails /\ queue # <<>>)
             b == FALSE
  <2>1. queue \in Seq(Turn) /\ b \in BOOLEAN /\ held \in BOOLEAN /\ h \in BOOLEAN
    BY DEF TypeOK
  <2>2. PICK x \in BOOLEAN : \E r \in Written(x, row, w) :
                               Pump(queue, r, b, h, Missed(unanswered, r, w), x)
    BY <1>3 DEF TurnCompleted
  <2>3. PICK r \in Written(x, row, w) : Pump(queue, r, b, h, Missed(unanswered, r, w), x)
    BY <2>2
  <2>4. RowsMove(r) /\ r \in [Turn -> Status]
    <3>1. r \in {row, HoldRows(row)}
      BY <2>3 DEF Written, Hold
    <3> QED
      BY <3>1, Claimed, HoldMoves
  <2>5. \A u \in Elems(queue) : kind[u] = "queue" /\ row[u] \notin {"none", "pending"}
    BY Claimed
  <2>6. Agree(queue, row, held, unanswered)
    BY <1>1, Claimed
  <2>7. Agree(queue, w, h, unanswered)
    <3>1. Agree(queue, Hold(queue, row, held), held \/ queue # <<>>, unanswered)
      BY <2>1, <2>5, <2>6, HoldAgrees
    <3> QED
      BY <2>1, <2>6, <3>1
  <2> HIDE DEF w, h, b
  <2>8. \A u \in asked' : kind[u] = "interrupt" /\ row[u] \notin {"none", "pending"}
    BY <1>1, Claimed
  <2> QED
    BY <1>1, <2>1, <2>3, <2>4, <2>5, <2>7, <2>8, Claimed, RunnerStep
<1> QED
  BY <1>2, <1>3 DEF Event, TurnStarted, TurnError

LEMMA DeliverStep ==
  ASSUME TypeOK, TypeOK', QueueInv, Deliver
  PROVE  QueueInv'
<1>1. /\ doing \in Turn /\ kind[doing] = "queue" /\ row[doing] = "sent" /\ ~held
      /\ runner = "up" /\ doing \notin Elems(sent) /\ doing' = None /\ None \notin Turn
      /\ UNCHANGED <<kind, routing, chan, queue, asked, lost, runner>>
  <2>1. None \notin Turn
    BY DEF None, Turn
  <2> QED
    BY <2>1 DEF TypeOK, Deliver, QueueInv, KindsMatch, OnTheWay
<1>2. CASE Accepted(doing) /\ UNCHANGED <<row, held, unanswered>>
  <2>1. /\ Elems(sent') = Elems(sent) \cup {doing} /\ Elems(sent') \subseteq Turn
        /\ (Distinct(sent) => Distinct(sent'))
    <3>1. sent' \in Seq(Turn)
      BY DEF TypeOK
    <3> QED
      BY <1>1, <1>2, <3>1, AcceptedTyping, ElemsIn
  <2>2. Unseen' /\ KindsMatch'
    BY <1>1, <1>2, <2>1 DEF QueueInv, Unseen, KindsMatch
  <2>3. OnTheWay'
    BY <1>1, <1>2, <2>1 DEF QueueInv, OnTheWay
  <2>4. Agreed' /\ NothingVanishes'
    BY <1>1, <1>2, <2>1 DEF QueueInv, Agreed, Agree, NothingVanishes
  <2> QED
    BY <2>2, <2>3, <2>4 DEF QueueInv
<1>3. ASSUME NEW x \in BOOLEAN, Refused(doing, x), NEW r \in Written(x, row, Failed(doing)),
             row' \in Written(x, r, Hold(queue, r, held)),
             unanswered' = Missed(unanswered, row', Hold(queue, Failed(doing), held)),
             held' = (held \/ queue # <<>>)
      PROVE  QueueInv'
  <2> SUFFICES ASSUME NEW t \in Turn, t = doing PROVE QueueInv'
    BY <1>1
  <2> DEFINE f == Failed(t)
             w == Hold(queue, f, held)
             h == held \/ queue # <<>>
  <2>1. /\ f \in [Turn -> Status] /\ f[t] = "failed" /\ \A u \in Turn : u # t => f[u] = row[u]
        /\ row \in [Turn -> Status] /\ queue \in Seq(Turn) /\ held \in BOOLEAN
        /\ unanswered \in SUBSET Turn /\ Elems(queue) \subseteq Turn
    BY FailedTypes, Claimed, ElemsIn DEF TypeOK
  <2>2. \A u \in Turn : \/ row'[u] = row[u]
                        \/ u = t /\ row'[u] = "failed"
                        \/ Queued(u) /\ row[u] = "queued" /\ row'[u] = "held"
    <3>1. r \in {row, f} /\ row' \in {r, HoldRows(r)}
      BY <1>3 DEF Written, Hold
    <3> HIDE DEF f
    <3>2. \A u \in Turn : r[u] = row[u] \/ (u = t /\ r[u] = "failed")
      BY <2>1, <3>1
    <3>3. \A u \in Turn : row'[u] = r[u] \/ (Queued(u) /\ r[u] = "queued" /\ row'[u] = "held")
      BY <2>1, <3>1 DEF HoldRows, Moved
    <3> QED
      BY <3>2, <3>3
  <2>3. w[t] = "failed" /\ unanswered' = Missed(unanswered, row', w) /\ held' = h
    BY <1>3, <2>1 DEF Hold, HoldRows, Moved
  <2>4. Agree(queue', row', held', unanswered')
    <3>1. \A u \in Elems(queue) : kind[u] = "queue"
      BY Claimed
    <3>2. Agree(queue, f, held, unanswered)
      BY <1>1, <2>1, Claimed DEF Agree
    <3>3. Agree(queue, w, h, unanswered)
      BY <2>1, <3>1, <3>2, HoldAgrees
    <3> HIDE DEF w, h
    <3>4. Agree(queue, row', h, Missed(unanswered, row', w))
      <4>1. h \in BOOLEAN
        BY <2>1 DEF h
      <4> QED
        BY <2>1, <3>3, <4>1, MissedAgrees
    <3> QED
      BY <1>1, <2>3, <3>4
  <2> HIDE DEF w, h, f
  <2>5. \A u \in Turn \ unanswered' : u \notin unanswered /\ row'[u] = w[u]
    BY <2>3 DEF Missed
  <2>6. /\ Elems(sent) \subseteq Elems(sent') /\ Elems(sent') \subseteq Elems(sent) \cup {t}
        /\ (Distinct(sent) => Distinct(sent')) /\ Elems(sent) \subseteq Turn
    <3>1. CASE Accepted(t)
      BY <1>1, <3>1, AcceptedTyping, ElemsIn DEF TypeOK
    <3>2. CASE UNCHANGED sent
      BY <3>2, ElemsIn DEF TypeOK
    <3> QED
      BY <1>3, <3>1, <3>2 DEF Refused, codexVars
  <2>7. Unseen' /\ KindsMatch'
    BY <1>1, <2>2, <2>6 DEF QueueInv, Unseen, KindsMatch
  <2>8. OnTheWay'
    BY <1>1, <2>2, <2>6 DEF QueueInv, OnTheWay
  <2>a. Agreed'
    BY <1>1, <2>4 DEF Agreed, Agree, Elems
  <2>9. NothingVanishes'
    <3> SUFFICES ASSUME NEW u \in Turn, u \notin unanswered'
                 PROVE  LET underway == (routing \cup Elems(chan))'
                        IN /\ kind[u] = "steer" /\ row'[u] = "sent"
                                => u \in Elems(sent') \cup underway \cup lost
                           /\ kind[u] = "queue" /\ row'[u] = "sent"
                                => u \in Elems(sent') \cup {doing'} \cup lost
                           /\ kind[u] = "queue" /\ row'[u] \in {"queued", "held"}
                                => u \in Elems(queue') \cup underway
      BY <1>1 DEF NothingVanishes, Elems
    <3>1. u \notin unanswered /\ (u = t => row'[u] = "failed")
      BY <2>3, <2>5
    <3> QED
      BY <1>1, <2>2, <2>6, <3>1 DEF QueueInv, NothingVanishes, Queued
  <2> QED
    BY <2>a, <2>7, <2>8, <2>9 DEF QueueInv
<1> QED
  BY <1>2, <1>3 DEF Deliver

LEMMA SteerStep ==
  ASSUME TypeOK, TypeOK', QueueInv, Command, chan' = Tail(chan), NEW x, Steer(Head(chan), x)
  PROVE  QueueInv'
<1> DEFINE t == Head(chan)
<1>1. /\ t \in Turn /\ kind[t] = "steer" /\ doing = None /\ None \notin Turn
      /\ UNCHANGED <<kind, routing, queue, held, asked, doing, lost, runner>>
      /\ Elems(chan) = Elems(chan') \cup {t}
      /\ Distinct(chan') /\ t \notin Elems(chan')
  <2>1. chan \in Seq(Turn) /\ chan # <<>> /\ None \notin Turn /\ Distinct(chan)
    BY DEF TypeOK, Command, None, Turn, QueueInv, OnTheWay
  <2> QED
    BY <2>1, TailElems DEF Command, Steer, Ready
<1>s. \/ Accepted(t) /\ UNCHANGED <<row, unanswered>>
      \/ /\ Refused(t, x)
         /\ row' \in Written(x, row, Failed(t))
         /\ unanswered' = Missed(unanswered, row', Failed(t))
  BY DEF Steer
<1> HIDE DEF t
<1>2. /\ row[t] \notin {"none", "pending"} /\ t \notin routing /\ t \notin Elems(sent)
      /\ t \notin Elems(queue)
  BY <1>1, Claimed DEF QueueInv, OnTheWay
<1>3. /\ Elems(sent) \subseteq Elems(sent') /\ Elems(sent') \subseteq Elems(sent) \cup {t}
      /\ Distinct(sent') /\ Elems(sent) \subseteq Turn /\ Elems(queue) \subseteq Turn
      /\ (Accepted(t) => t \in Elems(sent'))
  <2>0. queue \in Seq(Turn) /\ sent \in Seq(Turn) /\ Distinct(sent)
    BY DEF TypeOK, QueueInv, OnTheWay
  <2>1. CASE Accepted(t)
    BY <1>1, <1>2, <2>0, <2>1, AcceptedTyping, ElemsIn
  <2>2. CASE UNCHANGED codexVars
    BY <2>0, <2>2, ElemsIn DEF codexVars, Accepted
  <2> QED
    BY <1>s, <2>1, <2>2 DEF Refused
<1>4. CASE Accepted(t) /\ UNCHANGED <<row, unanswered>>
  <2>1. Unseen' /\ KindsMatch'
    BY <1>1, <1>2, <1>3, <1>4 DEF QueueInv, Unseen, KindsMatch
  <2>2. OnTheWay'
    BY <1>1, <1>2, <1>3, <1>4 DEF QueueInv, OnTheWay
  <2>3. Agreed' /\ NothingVanishes'
    BY <1>1, <1>2, <1>3, <1>4 DEF QueueInv, Agreed, Agree, NothingVanishes
  <2> QED
    BY <2>1, <2>2, <2>3 DEF QueueInv
<1>5. CASE /\ row' \in Written(x, row, Failed(t))
           /\ unanswered' = Missed(unanswered, row', Failed(t))
  <2>1. \A u \in Turn : row'[u] = row[u] \/ (u = t /\ row'[u] = "failed")
    BY <1>1, <1>5, FailedTypes DEF Written
  <2>2. \A u \in Turn \ unanswered' : u \notin unanswered /\ (u = t => row'[u] = "failed")
    BY <1>1, <1>5, FailedTypes DEF Missed
  <2>3. Unseen' /\ KindsMatch'
    BY <1>1, <1>2, <1>3, <2>1 DEF QueueInv, Unseen, KindsMatch
  <2>4. OnTheWay'
    BY <1>1, <1>2, <1>3, <2>1 DEF QueueInv, OnTheWay
  <2>5. Agreed' /\ NothingVanishes'
    BY <1>1, <1>2, <1>3, <2>1, <2>2 DEF QueueInv, Agreed, Agree, NothingVanishes
  <2> QED
    BY <2>3, <2>4, <2>5 DEF QueueInv
<1> QED
  BY <1>s, <1>4, <1>5

LEMMA AttachStep ==
  ASSUME TypeOK, TypeOK', QueueInv, Attach
  PROVE  QueueInv'
<1>x. PICK x \in BOOLEAN : \E a \in InProgress(x, FALSE) : busy' = a /\ Load(a, x)
  BY DEF Attach
<1>a. PICK a \in InProgress(x, FALSE) : busy' = a /\ Load(a, x)
  BY <1>x
<1>1. /\ doing = None /\ UNCHANGED <<kind, routing, chan, asked, sent, lost>> /\ a \in BOOLEAN
  BY DEF Attach, TypeOK, codexVars, InProgress
<1>2. \A u \in asked' : kind[u] = "interrupt" /\ row[u] \notin {"none", "pending"}
  BY <1>1, Claimed
<1>3. CASE /\ queue' = <<>> /\ held' = FALSE /\ doing' = None /\ UNCHANGED row
           /\ unanswered' = unanswered \cup Waiting
  <2> DEFINE S == unanswered \cup Waiting
             q == <<>>
             b == TRUE
             h == FALSE
  <2>1. /\ S \in SUBSET Turn /\ q \in Seq(Turn) /\ Elems(q) = {} /\ b \in BOOLEAN /\ h \in BOOLEAN
        /\ Pump(q, row, b, h, S, x)
    BY <1>3, Claimed, EmptySeq, EmptyElems DEF Pump, Waiting
  <2>2. /\ Agree(q, row, h, S) /\ unanswered \subseteq S
        /\ \A u \in Turn : kind[u] = "queue" /\ row[u] \in {"queued", "held"} => u \in S
    BY DEF Agree, Waiting
  <2> HIDE DEF S, q, b, h
  <2> QED
    BY <1>1, <1>2, <2>1, <2>2, Claimed, QueueStep
<1>4. ASSUME NEW q \in QueueOf, NEW r \in [Turn -> Status], NEW h \in BOOLEAN,
             \A t \in Turn :
               r[t] = row[t] \/ (kind[t] = "resume" /\ row[t] = "queued" /\ r[t] = "sent"),
             h = \E t \in Elems(q) : row[t] = "held",
             NEW s \in Written(x, r, IF h THEN HoldRows(r) ELSE r),
             Pump(q, s, a, h, Missed(unanswered \ Waiting, s, IF h THEN HoldRows(r) ELSE r), x)
      PROVE  QueueInv'
  <2> DEFINE w == IF h THEN HoldRows(r) ELSE r
             S == Missed(unanswered \ Waiting, s, w)
  <2>1. /\ q \in Seq(Turn) /\ Elems(q) = Waiting /\ Waiting \subseteq Turn
        /\ \A u \in Elems(q) : kind[u] = "queue" /\ row[u] \notin {"none", "pending"}
    <3>1. q \in Seq(Turn) /\ Elems(q) = Waiting /\ Waiting \subseteq Turn
      BY QueueOfTypes
    <3> QED
      BY <3>1 DEF Waiting
  <2>2. RowsMove(r)
    BY <1>4 DEF RowsMove
  <2>3. RowsMove(s) /\ s \in [Turn -> Status]
    <3>1. s \in {r, HoldRows(r)}
      BY <1>4 DEF Written
    <3> QED
      BY <2>2, <3>1, HoldMoves
  <2>4. Agree(q, w, h, unanswered \ Waiting)
    <3>1. CASE h
      <4>1. \A u \in Elems(q) : HoldRows(r)[u] # "queued"
        BY <2>1, HoldsAll
      <4> QED
        BY <3>1, <4>1 DEF Agree
    <3>2. CASE ~h
      BY <1>4, <2>1, <3>2 DEF Agree, Waiting
    <3> QED
      BY <3>1, <3>2
  <2>5. Pump(q, s, a, h, S, x)
    BY <1>4
  <2> HIDE DEF w
  <2>6. /\ S \in SUBSET Turn /\ Agree(q, s, h, S)
        /\ \A u \in unanswered : u \in S \/ u \in Waiting
    <3>1. unanswered \ Waiting \in SUBSET Turn
      BY Claimed
    <3>2. Agree(q, s, h, S)
      BY <2>1, <2>4, <3>1, MissedAgrees
    <3>3. S \in SUBSET Turn /\ unanswered \ Waiting \subseteq S
      BY <3>1 DEF Missed
    <3> QED
      BY <3>2, <3>3
  <2> HIDE DEF S
  <2>7. \A u \in unanswered : u \in S \/ (kind[u] = "queue" /\ row[u] \in {"queued", "held"})
    BY <2>6 DEF Waiting
  <2>8. \A u \in Turn : kind[u] = "queue" /\ s[u] \in {"queued", "held"}
                        => u \in Elems(q) \cup routing \cup Elems(chan) \cup S
    <3> SUFFICES ASSUME NEW u \in Turn, kind[u] = "queue", s[u] \in {"queued", "held"}
                 PROVE  u \in Elems(q)
      OBVIOUS
    <3>1. row[u] \in {"queued", "held"}
      BY <2>3 DEF RowsMove
    <3> QED
      BY <2>1, <3>1 DEF Waiting
  <2>9. Distinct(chan') /\ chan' = chan
    BY <1>1, Claimed
  <2> QED
    BY <1>1, <1>2, <2>1, <2>3, <2>5, <2>6, <2>7, <2>8, <2>9, QueueStep
<1>5. CASE Loaded(a, x)
  BY <1>4, <1>5 DEF Loaded
<1> QED
  BY <1>a, <1>1, <1>3, <1>5, LoadCases

\* A runner that ends, in whichever way, loses at most what is in its channel and in
\* its hands.
LEMMA GoneStep ==
  ASSUME TypeOK, TypeOK', QueueInv, runner' \in {"none", "starting"}, Forgets,
         UNCHANGED <<kind, row, sent, unanswered>>,
         chan' \in {<<>>, chan}, routing' \in {{}, routing},
         \A t \in Elems(chan) \cup routing :
           \/ kind[t] \notin {"steer", "queue"} \/ t \in lost'
           \/ t \in Elems(chan') \cup routing',
         lost \subseteq lost', doing = None \/ doing \in lost'
  PROVE  QueueInv'
<1>1. /\ queue' = <<>> /\ Elems(queue') = {} /\ doing' = None /\ asked' = {}
      /\ Elems(chan') \subseteq Elems(chan) /\ (Distinct(chan) => Distinct(chan'))
      /\ Elems(sent) \subseteq Turn /\ None \notin Turn
  <2>1. Elems(<<>>) = {} /\ Distinct(<<>>) /\ None \notin Turn
    BY EmptyElems, EmptySeq DEF Distinct, None, Turn
  <2>2. sent \in Seq(Turn)
    BY DEF TypeOK
  <2> QED
    BY <2>1, <2>2, ElemsIn DEF Forgets
<1>2. Unseen' /\ KindsMatch'
  BY <1>1 DEF QueueInv, Unseen, KindsMatch
<1>3. OnTheWay'
  BY <1>1 DEF QueueInv, OnTheWay
<1>4. Agreed'
  BY DEF Agreed
<1>5. NothingVanishes'
  BY <1>1 DEF QueueInv, NothingVanishes
<1> QED
  BY <1>2, <1>3, <1>4, <1>5 DEF QueueInv

LEMMA RedialledStep ==
  ASSUME TypeOK, TypeOK', QueueInv, Redialled
  PROVE  QueueInv'
<1>1. /\ runner = "redial" /\ doing = None /\ UNCHANGED <<kind, routing, sent>>
      /\ row \in [Turn -> Status] /\ queue \in Seq(Turn) /\ held \in BOOLEAN
  BY DEF Redialled, TypeOK, Status
<1>2. ASSUME NEW x \in BOOLEAN, NEW a \in InProgress(x, FALSE),
             Pump(queue, row, a, held, unanswered, x), UNCHANGED <<chan, asked, lost>>
      PROVE  QueueInv'
  <2>1. a \in BOOLEAN /\ Missed(unanswered, row, row) = unanswered
    BY DEF InProgress, Missed
  <2>2. Pump(queue, row, a, held, Missed(unanswered, row, row), x)
    BY <1>2, <2>1
  <2>3. \A u \in asked' : kind[u] = "interrupt" /\ row[u] \notin {"none", "pending"}
    BY <1>2, Claimed
  <2> QED
    BY <1>1, <1>2, <2>1, <2>2, <2>3, Claimed, RunnerStep
<1>3. CASE Gone(Elems(chan)) /\ UNCHANGED <<row, unanswered>>
  BY <1>1, <1>3, GoneStep DEF Gone
<1> QED
  BY <1>2, <1>3 DEF Redialled

LEMMA LifeStep ==
  ASSUME TypeOK, TypeOK', QueueInv, StartFails \/ Release \/ Crash
  PROVE  QueueInv'
<1>1. CASE StartFails
  <2>1. runner = "starting" /\ doing = None
    BY <1>1 DEF StartFails, TypeOK
  <2> QED
    BY <1>1, <2>1, GoneStep DEF StartFails, Gone
<1>2. CASE Release
  BY <1>2, GoneStep DEF Release, Ready, rowVars, history
<1>3. CASE Crash
  BY <1>3, GoneStep DEF Crash, rowVars
<1> QED
  BY <1>1, <1>2, <1>3

\* Ask, TakeBack, Claim, HandOver and TurnAway: the row of one turn, and its way to
\* the runner.
LEMMA RowStep ==
  ASSUME TypeOK, TypeOK', QueueInv, NEW t \in Turn,
         Ask(t) \/ TakeBack(t) \/ Claim(t) \/ HandOver(t) \/ TurnAway(t)
  PROVE  QueueInv'
<1>0. /\ Elems(queue) \subseteq Turn /\ Elems(sent) \subseteq Turn /\ Elems(chan) \subseteq Turn
      /\ asked \subseteq Turn /\ doing \in Turn \cup {None} /\ None \notin Turn
      /\ row \in [Turn -> Status] /\ DOMAIN kind = Turn
      /\ UNCHANGED <<queue, sent, asked, doing, held, lost>>
      /\ (Ask(t) \/ TakeBack(t) \/ HandOver(t) => UNCHANGED unanswered)
  <2>1. queue \in Seq(Turn) /\ sent \in Seq(Turn) /\ chan \in Seq(Turn) /\ None \notin Turn
    BY DEF TypeOK, None, Turn
  <2> QED
    BY <2>1, ElemsIn DEF TypeOK, Status, Ask, TakeBack, Claim, HandOver, TurnAway, runnerVars,
       codexVars, history
<1>1. CASE Ask(t)
  <2>1. /\ row[t] = "none" /\ row'[t] = "pending" /\ UNCHANGED <<routing, chan, runner>>
        /\ \A u \in Turn : u = t \/ (row'[u] = row[u] /\ kind'[u] = kind[u])
    BY <1>0, <1>1 DEF Ask, runnerVars
  <2>2. Unseen' /\ KindsMatch'
    BY <1>0, <2>1 DEF QueueInv, Unseen, KindsMatch
  <2>3. OnTheWay'
    BY <1>0, <2>1 DEF QueueInv, Unseen, OnTheWay
  <2>4. Agreed' /\ NothingVanishes'
    BY <1>0, <1>1, <2>1 DEF QueueInv, Agreed, Agree, NothingVanishes
  <2> QED
    BY <2>2, <2>3, <2>4 DEF QueueInv
<1>2. CASE TakeBack(t)
  <2>1. /\ kind[t] = "queue" /\ row[t] \in {"pending", "queued", "held"} /\ row'[t] = "cancelled"
        /\ UNCHANGED <<kind, routing, chan, runner>>
        /\ \A u \in Turn : u = t \/ row'[u] = row[u]
    BY <1>0, <1>2 DEF TakeBack, runnerVars
  <2>2. Unseen' /\ KindsMatch'
    BY <1>0, <2>1 DEF QueueInv, Unseen, KindsMatch
  <2>3. OnTheWay'
    BY <1>0, <2>1 DEF QueueInv, OnTheWay
  <2>4. Agreed' /\ NothingVanishes'
    BY <1>0, <1>2, <2>1 DEF QueueInv, Agreed, Agree, NothingVanishes
  <2> QED
    BY <2>2, <2>3, <2>4 DEF QueueInv
<1>3. CASE Claim(t)
  <2>1. /\ row[t] = "pending" /\ row'[t] = (IF Queued(t) THEN "queued" ELSE "sent")
        /\ \/ routing' = routing \cup {t} /\ UNCHANGED unanswered
           \/ routing' = routing /\ unanswered' = unanswered \cup {t}
        /\ UNCHANGED <<kind, chan, runner>>
        /\ \A u \in Turn : u = t \/ row'[u] = row[u]
    BY <1>0, <1>3 DEF Claim, runnerVars
  <2>2. Unseen' /\ KindsMatch'
    BY <1>0, <2>1 DEF QueueInv, Unseen, KindsMatch
  <2>3. OnTheWay'
    BY <1>0, <2>1 DEF QueueInv, Unseen, OnTheWay
  <2>4. Agreed'
    BY <1>0, <2>1 DEF QueueInv, Unseen, Agreed, Agree
  <2>5. NothingVanishes'
    BY <1>0, <2>1 DEF QueueInv, NothingVanishes, Queued
  <2> QED
    BY <2>2, <2>3, <2>4, <2>5 DEF QueueInv
<1>4. CASE HandOver(t)
  <2>1. /\ t \in routing /\ routing' = routing \ {t} /\ UNCHANGED <<kind, row>>
        /\ runner' = (IF runner = "none" THEN "starting" ELSE runner)
        /\ Elems(chan') = Elems(chan) \cup {t}
        /\ (Distinct(chan) /\ t \notin Elems(chan) => Distinct(chan'))
    <3>1. chan \in Seq(Turn)
      BY DEF TypeOK
    <3> QED
      BY <1>4, <3>1, AppendElems DEF HandOver, rowVars
  <2>2. Unseen' /\ KindsMatch'
    BY <1>0, <2>1 DEF QueueInv, Unseen, KindsMatch
  <2>3. OnTheWay'
    BY <1>0, <2>1 DEF QueueInv, OnTheWay
  <2>4. Agreed' /\ NothingVanishes'
    BY <1>0, <1>4, <2>1 DEF QueueInv, Agreed, Agree, NothingVanishes
  <2> QED
    BY <2>2, <2>3, <2>4 DEF QueueInv
<1>5. CASE TurnAway(t)
  <2>1. /\ t \in routing /\ routing' = routing \ {t} /\ runner = "none"
        /\ UNCHANGED <<kind, chan, runner>>
        /\ \A u \in Turn : row'[u] = row[u] \/ (u = t /\ row'[u] = "failed")
        /\ \A u \in Turn \ unanswered' : u \notin unanswered /\ (u = t => row'[u] = "failed")
    BY <1>0, <1>5, FailedTypes DEF TurnAway, runnerVars, Written, Missed
  <2>2. Unseen' /\ KindsMatch'
    BY <1>0, <2>1 DEF QueueInv, Unseen, KindsMatch
  <2>3. OnTheWay'
    BY <1>0, <2>1 DEF QueueInv, OnTheWay
  <2>4. Agreed' /\ NothingVanishes'
    BY <1>0, <2>1 DEF QueueInv, Agreed, Agree, NothingVanishes
  <2> QED
    BY <2>2, <2>3, <2>4 DEF QueueInv
<1> QED
  BY <1>1, <1>2, <1>3, <1>4, <1>5

LEMMA CloseStep ==
  ASSUME TypeOK, TypeOK', QueueInv, Command, NEW x, Close(Head(chan), x)
  PROVE  QueueInv'
<1>1. /\ doing = None /\ None \notin Turn /\ UNCHANGED <<kind, routing, sent>>
      /\ Elems(sent) \subseteq Turn
      /\ runner' = "none" /\ Elems(chan') = {} /\ Distinct(chan')
      /\ Elems(queue') = {} /\ doing' = None /\ asked' = {}
      /\ kind[Head(chan)] = "close" /\ lost' = lost \cup Elems(Tail(chan))
      /\ Elems(chan) = Elems(Tail(chan)) \cup {Head(chan)}
  <2>1. chan \in Seq(Turn) /\ chan # <<>> /\ sent \in Seq(Turn) /\ None \notin Turn
    BY DEF TypeOK, Command, None, Turn
  <2>2. Elems(<<>>) = {} /\ Distinct(<<>>)
    BY EmptyElems, EmptySeq DEF Distinct
  <2> QED
    BY <2>1, <2>2, TailElems, ElemsIn DEF Command, Close, Gone, Forgets, Ready
<1>2. \A u \in Turn : \/ row'[u] = row[u]
                      \/ row'[u] = "cancelled" /\ row[u] \in {"pending", "queued", "held"}
  BY DEF Close, Written
<1>u. unanswered \subseteq unanswered'
  BY DEF Close, Missed
<1>3. Unseen' /\ KindsMatch'
  BY <1>1, <1>2 DEF QueueInv, Unseen, KindsMatch
<1>4. OnTheWay'
  BY <1>1, <1>2 DEF QueueInv, OnTheWay
<1>5. Agreed' /\ NothingVanishes'
  BY <1>1, <1>2, <1>u DEF QueueInv, Agreed, Agree, NothingVanishes
<1> QED
  BY <1>3, <1>4, <1>5 DEF QueueInv

LEMMA QuietStep ==
  ASSUME QueueInv, UNCHANGED <<rowVars, routing, chan, queue, held, asked, doing, sent, lost,
                                unanswered>>,
         runner' = runner \/ (runner' = "redial" /\ runner = "up")
  PROVE  QueueInv'
BY DEF QueueInv, Unseen, KindsMatch, OnTheWay, Agreed, Agree, NothingVanishes, rowVars

LEMMA CommandStep ==
  ASSUME TypeOK, TypeOK', QueueInv, Command
  PROVE  QueueInv'
<1>1. /\ Ready /\ UNCHANGED <<kind, routing>> /\ Head(chan) \in Elems(chan)
      /\ Elems(chan) = Elems(Tail(chan)) \cup {Head(chan)} /\ Distinct(Tail(chan))
  <2>1. chan \in Seq(Turn) /\ chan # <<>> /\ Distinct(chan)
    BY DEF TypeOK, Command, QueueInv, OnTheWay
  <2> QED
    BY <2>1, TailElems DEF Command
<1>x. PICK x \in BOOLEAN :
        \/ /\ chan' = Tail(chan)
           /\ LET t == Head(chan)
              IN Steer(t, x) \/ Enqueue(t, x) \/ Resume(t, x) \/ Interrupt(t, x)
        \/ Close(Head(chan), x)
  BY DEF Command
<1>2. CASE chan' = Tail(chan) /\ Interrupt(Head(chan), x)
  BY <1>1, <1>2, InterruptStep
<1> QED
  BY <1>x, <1>2, SteerStep, EnqueueStep, ResumeStep, CloseStep

LEMMA SideStopStep ==
  ASSUME TypeOK, TypeOK', QueueInv, NEW i \in 1..Len(chan), SideStop(i)
  PROVE  QueueInv'
<1>1. chan \in Seq(Turn) /\ chan[i] \in Elems(chan) /\ Distinct(chan)
  BY DEF TypeOK, Elems, QueueInv, OnTheWay
<1>2. /\ Elems(chan') \subseteq Elems(chan) /\ Elems(chan) \subseteq Elems(chan') \cup {chan[i]}
      /\ Distinct(chan')
  BY <1>1, RemoveElems DEF SideStop
<1>3. PICK x \in BOOLEAN : Interrupt(chan[i], x)
  BY DEF SideStop
<1> QED
  BY <1>1, <1>2, <1>3, InterruptStep DEF SideStop

LEMMA QueueInvStep == TypeOK /\ TypeOK' /\ QueueInv /\ [Next]_vars => QueueInv'
<1> SUFFICES ASSUME TypeOK, TypeOK', QueueInv, [Next]_vars PROVE QueueInv'
  OBVIOUS
<1>1. CASE UNCHANGED vars
  BY <1>1, QuietStep DEF vars, runnerVars, codexVars, history
<1>2. CASE CodexError \/ CodexCompletes
  BY <1>2, QuietStep DEF CodexError, CodexCompletes, runnerVars, history
<1>3. CASE Drop
  BY <1>3, QuietStep DEF Drop, Ready, history
<1>4. CASE Next /\ ~(CodexError \/ CodexCompletes \/ Drop)
  BY <1>4, RowStep, StopAnsweredStep, SideStopStep, AttachStep, CommandStep, EventStep,
     DeliverStep, RedialledStep, LifeStep DEF Next, Route, Runner
<1> QED
  BY <1>1, <1>2, <1>3, <1>4

LEMMA Invariant == Spec => [](TypeOK /\ QueueInv)
<1>1. Init => TypeOK /\ QueueInv
  BY TypingInit, QueueInit
<1>2. (TypeOK /\ QueueInv) /\ [Next]_vars => (TypeOK /\ QueueInv)'
  BY TypingStep, QueueInvStep
<1> QED
  BY <1>1, <1>2, PTL DEF Spec

-----------------------------------------------------------------------------
(* The properties. *)

(***************************************************************************)
(* Codex gets each message once, however often the broker and the runner   *)
(* crash, restart, redial and hand turns over.                             *)
(***************************************************************************)
THEOREM OnceSent == Spec => []SentOnce
<1>1. QueueInv => SentOnce
  BY DEF QueueInv, OnTheWay, Distinct, SentOnce
<1> QED
  BY <1>1, Invariant, PTL

(***************************************************************************)
(* A claimed message is with codex, in the runner's queue or on its way,   *)
(* or it went down with a crash, a close or a runner that failed, or a     *)
(* call about its own row went unanswered: nothing else loses one.         *)
(***************************************************************************)
THEOREM NoneVanishes == Spec => []NothingVanishes
<1>1. QueueInv => NothingVanishes
  BY DEF QueueInv
<1> QED
  BY <1>1, Invariant, PTL

(***************************************************************************)
(* The hold in the runner's memory and the one on the rows of its queue    *)
(* say the same, save the rows that a hold or a release missed.            *)
(***************************************************************************)
THEOREM HoldRecorded == Spec => []HoldIsRecorded
<1>1. TypeOK /\ QueueInv => HoldIsRecorded
  <2> SUFFICES ASSUME TypeOK, QueueInv, runner \in {"up", "redial"}, NEW t \in Elems(queue) \ unanswered
               PROVE  row[t] # IF held THEN "queued" ELSE "held"
    BY DEF HoldIsRecorded
  <2> QED
    BY Claimed DEF Agree
<1> QED
  BY <1>1, Invariant, PTL


-----------------------------------------------------------------------------
(* The broker implements MessageService.                                     *)

Message(t) == kind[t] \in {"steer", "queue"}
Stages     == [t \in Turn |-> Stage(t)]

\* What Stage reads that QueueInv leaves open: a message has a row, and a steer on its
\* way has one that says so.
StageInv ==
  /\ \A t \in Turn : /\ kind[t] = "steer" => row[t] \in {"pending", "sent", "failed"}
                     /\ kind[t] = "queue" => row[t] # "none"
  /\ \A t \in routing \cup Elems(chan) : kind[t] = "steer" => row[t] = "sent"

LEMMA StageSame ==
  ASSUME NEW t \in Turn, kind'[t] = kind[t],
         Message(t) => /\ row'[t] = row[t]
                       /\ t \in Elems(sent') <=> t \in Elems(sent)
                       /\ Underway(t)' <=> Underway(t)
  PROVE  Stage(t)' = Stage(t)
<1>1. CASE ~Message(t)
  BY <1>1 DEF Stage, Message
<1>2. CASE Message(t)
  <2>1. t \in Elems(sent)' <=> t \in Elems(sent)
    BY <1>2 DEF Elems
  <2> HIDE DEF Underway
  <2> QED
    BY <1>2, <2>1 DEF Stage
<1> QED
  BY <1>1, <1>2

LEMMA QuietMeans ==
  ASSUME \A t \in Turn : Stage(t)' = Stage(t), sent' = sent
  PROVE  UNCHANGED Messages!serviceVars
<1>1. Stages' = Stages
  BY DEF Stages, Turn
<1> QED
  BY <1>1 DEF Messages!serviceVars, Stages

\* One message gets on.
LEMMA OneMoves ==
  ASSUME NEW t \in Turn, NEW k, Stage(t)' = k,
         \A u \in Turn : u # t => Stage(u)' = Stage(u)
  PROVE  Stages' = [Stages EXCEPT ![t] = k]
BY DEF Stages, Turn

\* One message comes to an end, and those of S are held.
LEMMA EndsMeans ==
  ASSUME NEW t \in Turn, NEW S \in SUBSET Turn, NEW K, Stage(t) \in K, NEW k, Stage(t)' = k,
         t \notin S, \A u \in S : Stage(u) = "waiting" /\ Stage(u)' = "held",
         \A u \in Turn : u # t /\ u \notin S => Stage(u)' = Stage(u)
  PROVE  Messages!Ends(t, K, S, k)
BY DEF Messages!Ends, Messages!In, Messages!Put, Turn

-----------------------------------------------------------------------------
(* pump, in MessageService's words. *)

\* What a pump from a queue q, rows r and hold h does to the rows: nothing; all that
\* wait are held; a turn is taken, and sent or mislaid.
PumpDid(q, r, h) ==
  \/ row' = r /\ doing' = None
  \/ ~h /\ row' = HoldRows(r) /\ doing' = None
  \/ /\ ~h
     /\ \E y \in Turn :
          /\ y \in Elems(q) /\ r[y] = "queued"
          /\ \/ doing' = y /\ row' = [r EXCEPT ![y] = "sent"]
             \/ /\ doing' = None
                /\ \E w \in {[r EXCEPT ![y] = "sent"]} : row' = w \/ row' = HoldRows(w)

LEMMA PumpCases ==
  ASSUME NEW q \in Seq(Turn), NEW r \in [Turn -> Status], NEW b, NEW h, NEW S, NEW x,
         Pump(q, r, b, h, S, x)
  PROVE  PumpDid(q, r, h)
<1>1. CASE row' = r /\ doing' = None
  BY <1>1 DEF PumpDid
<1>2. ASSUME ~h, Taken(q, r) # {},
             LET i == First(Taken(q, r))
             IN row' = [r EXCEPT ![q[i]] = "sent"] /\ doing' = q[i]
      PROVE  PumpDid(q, r, h)
  <2>1. First(Taken(q, r)) \in 1..Len(q) /\ r[q[First(Taken(q, r))]] = "queued"
    BY <1>2, FirstTaken
  <2>2. PICK y \in Turn : y = q[First(Taken(q, r))] /\ y \in Elems(q)
    BY <2>1, ElementOfSeq DEF Elems
  <2> QED
    BY <1>2, <2>1, <2>2 DEF PumpDid
<1>3. ASSUME ~h, doing' = None, NEW i \in 1..Len(q),
             NEW w \in {r, [r EXCEPT ![q[i]] = IF @ = "queued" THEN "sent" ELSE @]},
             row' \in {w, HoldRows(w)}
      PROVE  PumpDid(q, r, h)
  <2>1. PICK y \in Turn : y = q[i] /\ y \in Elems(q)
    BY ElementOfSeq DEF Elems
  <2>2. w = r \/ (r[y] = "queued" /\ w = [r EXCEPT ![y] = "sent"])
    BY <1>3, <2>1
  <2> QED
    BY <1>3, <2>1, <2>2 DEF PumpDid
<1> QED
  BY <1>1, <1>2, <1>3 DEF Pump

\* What a runner may have done to the rows of messages when it pumps with hold h.
Kept(r)  == \A t \in Turn : Message(t) => r[t] = row[t]
Held(r)  == \A t \in Turn : Message(t) => \/ r[t] = row[t]
                                          \/ kind[t] = "queue" /\ row[t] = "queued" /\ r[t] = "held"
Freed(r) == \A t \in Turn : Message(t) => r[t] = IF row[t] = "held" THEN "queued" ELSE row[t]

ServiceQueueStep ==
  \/ UNCHANGED Messages!serviceVars
  \/ \E S \in SUBSET Turn : Messages!Hold(S)
  \/ Messages!Release
  \/ \E t \in Turn : Messages!Take(t)
  \/ \E t \in Turn, S \in SUBSET Turn : Messages!Mislay(t, S)

\* A turn taken out of its row by a call that went unanswered.
LEMMA MislayMeans ==
  ASSUME TypeOK, QueueInv, StageInv, NEW r \in [Turn -> Status], Kept(r) \/ Freed(r),
         NEW y \in Turn, kind[y] = "queue", r[y] = "queued",
         NEW w, w = [r EXCEPT ![y] = "sent"], row' = w \/ row' = HoldRows(w),
         UNCHANGED <<kind, sent>>, \A u \in Turn : Message(u) => ~Underway(y) /\ ~Underway(y)'
                                                   /\ (Underway(u)' <=> Underway(u))
  PROVE  \E S \in SUBSET Turn : Messages!Mislay(y, S)
<1> DEFINE D == {u \in Turn : kind[u] = "queue" /\ u # y /\ r[u] = "queued" /\ row'[u] = "held"}
           rs(u) == IF Kept(r) THEN Stage(u)
                    ELSE IF Stage(u) = "held" THEN "waiting" ELSE Stage(u)
           s == [u \in Turn |-> rs(u)]
<1>1. /\ Elems(sent)' = Elems(sent) /\ ~Underway(y)'
      /\ \A u \in Turn : kind[u] = "queue" /\ u \in Elems(sent) => row[u] \in {"sent", "failed"}
      /\ \A u \in Turn : kind[u] = "steer" => row[u] \in {"pending", "sent", "failed"}
  BY DEF Elems, QueueInv, OnTheWay, StageInv, Message
<1>2. /\ row'[y] = "sent"
      /\ \A u \in Turn : u # y => \/ row'[u] = r[u]
                                  \/ Queued(u) /\ r[u] = "queued" /\ row'[u] = "held"
  BY DEF HoldRows, Moved
<1>3. ASSUME NEW u \in Turn, Message(u)
      PROVE  r[u] = IF Kept(r) THEN row[u] ELSE IF row[u] = "held" THEN "queued" ELSE row[u]
  BY <1>3 DEF Kept, Freed
<1>4. ASSUME NEW u \in Turn, kind[u] = "queue", r[u] = "queued" PROVE rs(u) = "waiting"
  <2>1. u \notin Elems(sent) /\ row[u] \in {"queued", "held"} /\ (Kept(r) => row[u] = "queued")
    BY <1>1, <1>3, <1>4 DEF Message
  <2> HIDE DEF Kept
  <2> QED
    BY <1>4, <2>1 DEF Stage
<1>5. ASSUME NEW u \in Turn, u # y, u \notin D PROVE Stage(u)' = rs(u)
  <2>1. CASE ~Message(u)
    BY <2>1 DEF Stage, Message
  <2>2. CASE Message(u)
    <3>1. row'[u] = r[u]
      BY <1>2, <1>5, <2>2 DEF Queued, Message
    <3>2. row'[u] = IF Kept(r) THEN row[u] ELSE IF row[u] = "held" THEN "queued" ELSE row[u]
      BY <1>3, <2>2, <3>1
    <3>3. Underway(u)' <=> Underway(u)
      BY <2>2
    <3> HIDE DEF Kept, Underway
    <3> QED
      BY <1>1, <2>2, <3>2, <3>3 DEF Stage, Message
  <2> QED
    BY <2>1, <2>2
<1>6. ASSUME NEW u \in D PROVE Stage(u)' = "held" /\ rs(u) = "waiting"
  <2>1. u \notin Elems(sent) /\ kind[u] = "queue" /\ row'[u] = "held"
    BY <1>1, <1>3 DEF Message
  <2>2. rs(u) = "waiting"
    BY <1>4
  <2> HIDE DEF rs
  <2> QED
    BY <1>1, <2>1, <2>2 DEF Stage
<1>7. Stage(y)' = "lost" /\ rs(y) = "waiting"
  <2>1. y \notin Elems(sent)
    BY <1>1, <1>3 DEF Message
  <2>2. rs(y) = "waiting"
    BY <1>4
  <2> HIDE DEF rs, Underway
  <2> QED
    BY <1>1, <1>2, <2>1, <2>2 DEF Stage
<1>8. s = Stages \/ s = Messages!Released
  <2>1. CASE Kept(r)
    BY <2>1 DEF Stages
  <2>2. CASE ~Kept(r)
    BY <2>2 DEF Messages!Released, Messages!Put, Messages!In
  <2> QED
    BY <2>1, <2>2
<1>9. D \in SUBSET Turn
  OBVIOUS
<1> HIDE DEF rs, D
<1>10. /\ s[y] = "waiting" /\ \A u \in D : s[u] = "waiting"
       /\ Stages' = [u \in Turn |-> IF u = y THEN "lost" ELSE IF u \in D THEN "held" ELSE s[u]]
  BY <1>5, <1>6, <1>7, <1>9 DEF Stages, Turn
<1> HIDE DEF s
<1> QED
  BY <1>8, <1>9, <1>10 DEF Messages!Mislay, Messages!serviceVars, Stages

LEMMA PumpMeans ==
  ASSUME TypeOK, QueueInv, StageInv,
         NEW q \in Seq(Turn), NEW r \in [Turn -> Status], NEW h, PumpDid(q, r, h),
         Kept(r) \/ (h /\ Held(r)) \/ Freed(r),
         doing = None, \A t \in Elems(q) : kind[t] = "queue",
         UNCHANGED <<kind, routing, sent>>,
         \A t \in Turn : kind[t] = "steer" => (t \in Elems(chan') <=> t \in Elems(chan))
  PROVE  ServiceQueueStep
<1>1. /\ None \notin Turn /\ Elems(sent)' = Elems(sent)
      /\ \A t \in Turn : kind[t] = "queue" => ~Underway(t)
      /\ \A t \in Turn : kind[t] = "queue" /\ t \in Elems(sent) => row[t] \in {"sent", "failed"}
      /\ \A t \in Turn : kind[t] = "steer" => row[t] \in {"pending", "sent", "failed"}
      /\ \A t \in Turn : kind[t] = "steer" => (Underway(t)' <=> Underway(t))
  <2>1. None \notin Turn /\ Elems(chan)' = Elems(chan') /\ Elems(sent)' = Elems(sent)
    BY DEF None, Turn, Elems
  <2> QED
    BY <2>1 DEF QueueInv, OnTheWay, StageInv, Underway
<1>2. CASE row' = r /\ doing' = None
  <2>1. \A t \in Turn : Message(t) => (Underway(t)' <=> Underway(t))
    BY <1>1, <1>2 DEF Underway, Message
  <2>2. CASE Kept(r)
    <3>1. \A t \in Turn : Stage(t)' = Stage(t)
      BY <1>1, <1>2, <2>1, <2>2, StageSame DEF Kept
    <3> QED
      BY <3>1, QuietMeans DEF ServiceQueueStep
  <2>3. CASE Held(r)
    <3> DEFINE S == {t \in Turn : Message(t) /\ r[t] # row[t]}
    <3>1. \A t \in Turn : t \notin S => Stage(t)' = Stage(t)
      BY <1>1, <1>2, <2>1, StageSame
    <3>2. \A t \in S : Stage(t) = "waiting" /\ Stage(t)' = "held"
      BY <1>1, <1>2, <2>3 DEF Held, Stage, Message
    <3>3. Messages!Hold(S)
      <4>1. S \subseteq Turn
        OBVIOUS
      <4> HIDE DEF S
      <4> QED
        BY <3>1, <3>2, <4>1 DEF Messages!Hold, Messages!In, Messages!Put, Turn
    <3> QED
      BY <3>3 DEF ServiceQueueStep
  <2>4. CASE Freed(r)
    <3>1. \A t \in Turn : Stage(t)' = IF Stage(t) = "held" THEN "waiting" ELSE Stage(t)
      BY <1>1, <1>2, <2>1, <2>4 DEF Freed, Stage, Message
    <3>2. Messages!Release
      BY <3>1 DEF Messages!Release, Messages!Released, Messages!Put, Messages!In, Turn
    <3> QED
      BY <3>2 DEF ServiceQueueStep
  <2> QED
    BY <2>2, <2>3, <2>4
<1>3. ASSUME NEW x \in Turn, doing' = x, ~h, x \in Elems(q), r[x] = "queued",
             row' = [r EXCEPT ![x] = "sent"]
      PROVE  ServiceQueueStep
  <2>1. x \in Turn /\ kind[x] = "queue" /\ row'[x] = "sent" /\ r[x] = "queued"
        /\ \A t \in Turn : t # x => row'[t] = r[t]
    BY <1>3
  <2>2. \A t \in Turn : t # x /\ Message(t) => (Underway(t)' <=> Underway(t))
    BY <1>1, <1>3 DEF Underway, Message
  <2>3. x \notin Elems(sent) /\ Stage(x)' = "taken"
    <3>1. x \notin Elems(sent)
      BY <1>1, <1>3, <2>1 DEF Kept, Freed, Message
    <3> QED
      BY <1>1, <1>3, <2>1, <3>1 DEF Stage, Underway
  <2>4. CASE Kept(r)
    <3>1. Stage(x) = "waiting"
      BY <2>1, <2>3, <2>4 DEF Kept, Stage, Message
    <3>2. \A t \in Turn : t # x => Stage(t)' = Stage(t)
      BY <1>1, <2>1, <2>2, <2>4, StageSame DEF Kept
    <3>3. Stages' = [Stages EXCEPT ![x] = "taken"] /\ Stages[x] = "waiting"
      BY <2>1, <2>3, <3>1, <3>2, OneMoves DEF Stages
    <3>4. Messages!Take(x)
      BY <3>3 DEF Messages!Take, Stages
    <3> QED
      BY <2>1, <3>4 DEF ServiceQueueStep
  <2>5. CASE Freed(r)
    <3>1. Stage(x) \in {"waiting", "held"}
      BY <2>1, <2>3, <2>5 DEF Freed, Stage, Message
    <3>2. \A t \in Turn : t # x => Stage(t)' = IF Stage(t) = "held" THEN "waiting" ELSE Stage(t)
      BY <1>1, <2>1, <2>2, <2>5 DEF Freed, Stage, Message
    <3>3. /\ Messages!Released = [t \in Turn |-> IF Stage(t) = "held" THEN "waiting" ELSE Stage(t)]
      BY DEF Messages!Released, Messages!Put, Messages!In
    <3>4. Stages' = [Messages!Released EXCEPT ![x] = "taken"] /\ Messages!Released[x] = "waiting"
      BY <2>1, <2>3, <3>1, <3>2, <3>3 DEF Stages, Turn
    <3>5. Messages!Take(x)
      BY <3>4 DEF Messages!Take, Stages
    <3> QED
      BY <2>1, <3>5 DEF ServiceQueueStep
  <2> QED
    BY <1>3, <2>4, <2>5
<1>4. CASE ~h /\ row' = HoldRows(r) /\ doing' = None
  <2>1. \A t \in Turn : Message(t) => (Underway(t)' <=> Underway(t))
    BY <1>1, <1>4 DEF Underway, Message
  <2>2. \A t \in Turn : row'[t] = IF Queued(t) /\ r[t] = "queued" THEN "held" ELSE r[t]
    BY <1>4 DEF HoldRows, Moved
  <2> DEFINE S == {t \in Turn : kind[t] = "queue" /\ row[t] = "queued"}
  <2>3. \A t \in Turn : t \notin S => Stage(t)' = Stage(t)
    BY <1>1, <1>4, <2>1, <2>2 DEF Kept, Freed, Stage, Message, Queued
  <2>4. \A t \in S : Stage(t) = "waiting" /\ Stage(t)' = "held"
    BY <1>1, <1>4, <2>2 DEF Kept, Freed, Stage, Message, Queued
  <2>5. Messages!Hold(S)
    <3>1. S \subseteq Turn
      OBVIOUS
    <3> HIDE DEF S
    <3> QED
      BY <2>3, <2>4, <3>1 DEF Messages!Hold, Messages!In, Messages!Put, Turn
  <2> QED
    BY <2>5 DEF ServiceQueueStep
<1>5. ASSUME ~h, doing' = None, NEW y \in Turn, y \in Elems(q), r[y] = "queued",
             NEW w, w = [r EXCEPT ![y] = "sent"], row' = w \/ row' = HoldRows(w)
      PROVE  ServiceQueueStep
  <2>1. kind[y] = "queue" /\ (Kept(r) \/ Freed(r))
    BY <1>5
  <2>2. \A u \in Turn : Message(u) => ~Underway(y) /\ ~Underway(y)'
                                      /\ (Underway(u)' <=> Underway(u))
    BY <1>1, <1>5, <2>1 DEF Underway, Message
  <2> QED
    BY <1>5, <2>1, <2>2, MislayMeans DEF ServiceQueueStep
<1> QED
  BY <1>2, <1>3, <1>4, <1>5 DEF PumpDid

LEMMA PumpStages ==
  ASSUME TypeOK, StageInv,
         NEW q, NEW r \in [Turn -> Status], NEW h, PumpDid(q, r, h),
         Kept(r) \/ (h /\ Held(r)) \/ Freed(r),
         UNCHANGED <<kind, routing>>,
         \A t \in Turn : kind[t] = "steer" => (t \in Elems(chan') <=> t \in Elems(chan)),
         Elems(chan') \subseteq Turn, \A t \in Elems(q) : kind[t] = "queue"
  PROVE  StageInv'
<1>1. routing \subseteq Turn /\ Elems(chan)' = Elems(chan')
  BY DEF TypeOK, Elems
<1>2. \A t \in Turn : /\ kind[t] = "steer" => row'[t] = r[t]
                      /\ kind[t] = "queue" /\ r[t] # "none" => row'[t] # "none"
  BY DEF PumpDid, HoldRows, Moved, Queued
<1>3. \A t \in Turn : /\ kind[t] = "steer" => r[t] = row[t]
                      /\ kind[t] = "queue" => r[t] # "none"
  BY DEF Kept, Held, Freed, Message, StageInv
<1> QED
  BY <1>1, <1>2, <1>3 DEF StageInv

LEMMA PumpServes ==
  ASSUME TypeOK, TypeOK', QueueInv, StageInv,
         NEW q \in Seq(Turn), NEW r \in [Turn -> Status], NEW b, NEW h, NEW S, NEW x,
         Pump(q, r, b, h, S, x), Kept(r) \/ (h /\ Held(r)) \/ Freed(r),
         doing = None, \A t \in Elems(q) : kind[t] = "queue",
         UNCHANGED <<kind, routing, sent>>,
         \A t \in Turn : kind[t] = "steer" => (t \in Elems(chan') <=> t \in Elems(chan))
  PROVE  ServiceQueueStep /\ StageInv'
<1>1. Elems(chan') \subseteq Turn
  <2>1. chan' \in Seq(Turn)
    BY DEF TypeOK
  <2> QED
    BY <2>1, ElemsIn
<1>2. PumpDid(q, r, h)
  BY PumpCases
<1> QED
  BY <1>1, <1>2, PumpMeans, PumpStages

-----------------------------------------------------------------------------
(* The steps in which a runner works on its queue. *)

\* What a write of a hold leaves.
LEMMA HoldMeans ==
  ASSUME NEW r \in {row, HoldRows(row)} PROVE Held(r)
BY DEF Held, HoldRows, Moved, Queued, Message, Turn

LEMMA EnqueueMeans ==
  ASSUME TypeOK, TypeOK', QueueInv, StageInv, Command, chan' = Tail(chan),
         NEW x, Enqueue(Head(chan), x)
  PROVE  ServiceQueueStep /\ StageInv'
<1> DEFINE t   == Head(chan)
           new == t \notin Elems(queue)
           q   == IF new THEN Append(queue, t) ELSE queue
           w   == IF held /\ new THEN HoldRows(row) ELSE row
<1>1. /\ t \in Turn /\ kind[t] = "queue" /\ doing = None
      /\ UNCHANGED <<kind, routing, sent>> /\ Elems(chan) = Elems(chan') \cup {t}
  <2>1. chan \in Seq(Turn) /\ chan # <<>>
    BY DEF TypeOK, Command
  <2> QED
    BY <2>1, TailElems DEF Command, Enqueue, Ready, codexVars
<1>2. PICK r \in Written(x, row, w) : Pump(q, r, busy, held, Missed(unanswered, r, w), x)
  BY DEF Enqueue
<1>3. q \in Seq(Turn) /\ \A u \in Elems(q) : kind[u] = "queue"
  <2>1. queue \in Seq(Turn)
    BY DEF TypeOK
  <2>2. Elems(q) \subseteq Elems(queue) \cup {t}
    BY <1>1, <2>1, AppendElems
  <2> QED
    BY <1>1, <2>1, <2>2, AppendElems, Claimed
<1>4. r \in [Turn -> Status] /\ (Kept(r) \/ (held /\ Held(r)))
  <2>1. row \in [Turn -> Status] /\ HoldRows(row) \in [Turn -> Status]
    BY Claimed, RowTypes
  <2>2. r = row \/ (held /\ r = HoldRows(row))
    BY <1>2 DEF Written
  <2> QED
    BY <2>1, <2>2, HoldMeans DEF Kept
<1> HIDE DEF q, w, t, new
<1> QED
  BY <1>1, <1>2, <1>3, <1>4, PumpServes

LEMMA ResumeMeans ==
  ASSUME TypeOK, TypeOK', QueueInv, StageInv, Command, chan' = Tail(chan),
         NEW x, Resume(Head(chan), x)
  PROVE  ServiceQueueStep /\ StageInv'
<1> DEFINE t == Head(chan)
           v == [row EXCEPT ![t] = IF @ = "queued" THEN "sent" ELSE @]
           W(r) == IF held THEN Moved(r, "held", "queued") ELSE r
           h == FALSE
<1>1. /\ t \in Turn /\ kind[t] = "resume" /\ doing = None
      /\ UNCHANGED <<kind, routing, sent>> /\ Elems(chan) = Elems(chan') \cup {t}
  <2>1. chan \in Seq(Turn) /\ chan # <<>>
    BY DEF TypeOK, Command
  <2> QED
    BY <2>1, TailElems DEF Command, Resume, Ready, codexVars
<1>2. PICK r \in Written(x, row, v) :
        \E s \in Written(x, r, W(r)) :
          Pump(queue, s, busy, FALSE, Missed(unanswered, s, W(r)), x)
  BY DEF Resume
<1>3. PICK s \in Written(x, r, W(r)) : Pump(queue, s, busy, h, Missed(unanswered, s, W(r)), x)
  BY <1>2
<1>4. queue \in Seq(Turn) /\ \A u \in Elems(queue) : kind[u] = "queue"
  BY Claimed DEF TypeOK
<1>5. r \in [Turn -> Status] /\ \A u \in Turn : Message(u) => r[u] = row[u]
  <2>1. r \in {row, v}
    BY <1>2 DEF Written
  <2> QED
    BY <1>1, <2>1, Claimed DEF Message, Status
<1>6. s \in [Turn -> Status] /\ (Kept(s) \/ Freed(s))
  <2>1. s = r \/ s = Moved(r, "held", "queued")
    BY <1>3 DEF Written
  <2>2. Moved(r, "held", "queued") \in [Turn -> Status]
    BY <1>5, RowTypes
  <2>3. CASE s = r
    BY <1>5, <2>3 DEF Kept
  <2>4. CASE s = Moved(r, "held", "queued")
    <3>1. \A u \in Turn : kind[u] = "steer" => row[u] # "held"
      BY DEF StageInv
    <3> QED
      BY <1>5, <2>2, <2>4, <3>1 DEF Freed, Moved, Queued, Message
  <2> QED
    BY <2>1, <2>3, <2>4, <1>5
<1> DEFINE S == Missed(unanswered, s, W(r))
<1>7. Pump(queue, s, busy, h, S, x)
  BY <1>3
<1> HIDE DEF t, h, S
<1> QED
  BY <1>1, <1>4, <1>6, <1>7, PumpServes

LEMMA InterruptMeans ==
  ASSUME TypeOK, TypeOK', QueueInv, StageInv, Ready, NEW t \in Elems(chan), NEW x,
         Interrupt(t, x), UNCHANGED <<kind, routing>>,
         Elems(chan') \subseteq Elems(chan), Elems(chan) \subseteq Elems(chan') \cup {t}
  PROVE  ServiceQueueStep /\ StageInv'
<1> DEFINE w == Hold(queue, row, held)
           h == held \/ queue # <<>>
           b == TRUE
           S == unanswered'
<1>1. /\ queue \in Seq(Turn) /\ kind[t] = "interrupt" /\ doing = None /\ UNCHANGED sent
      /\ \A u \in Elems(queue) : kind[u] = "queue"
  BY Claimed DEF TypeOK, Ready, Interrupt, codexVars
<1>2. PICK r \in Written(x, row, w) : row' = r
  BY DEF Interrupt
<1>3. Pump(queue, r, b, h, S, x)
  BY <1>1, <1>2 DEF Interrupt, Pump
<1>4. r \in [Turn -> Status] /\ (Kept(r) \/ (h /\ Held(r)))
  <2>1. row \in [Turn -> Status] /\ HoldRows(row) \in [Turn -> Status]
    BY Claimed, RowTypes
  <2>2. r = row \/ (h /\ r = HoldRows(row))
    BY <1>2 DEF Written, Hold, Holds
  <2> QED
    BY <2>1, <2>2, HoldMeans DEF Kept
<1> HIDE DEF w, h, b, S
<1> QED
  BY <1>1, <1>3, <1>4, PumpServes

LEMMA StopAnsweredMeans ==
  ASSUME TypeOK, TypeOK', QueueInv, StageInv, NEW t \in Turn, StopAnswered(t)
  PROVE  ServiceQueueStep /\ StageInv'
<1>1. /\ kind[t] = "interrupt" /\ doing = None /\ UNCHANGED <<kind, routing, chan, sent>>
      /\ queue \in Seq(Turn) /\ \A u \in Elems(queue) : kind[u] = "queue"
  BY Claimed DEF TypeOK, StopAnswered, Ready, codexVars
<1>2. CASE UNCHANGED <<row, doing>>
  <2>1. \A u \in Turn : Stage(u)' = Stage(u)
    BY <1>1, <1>2 DEF Stage, Underway, Elems
  <2>2. StageInv'
    BY <1>1, <1>2 DEF StageInv, Elems
  <2> QED
    BY <1>1, <2>1, <2>2, QuietMeans DEF ServiceQueueStep
<1>3. ASSUME NEW x, NEW a, NEW r \in Written(x, row, Failed(t)), NEW S,
             Pump(queue, r, a, held, S, x)
      PROVE  ServiceQueueStep /\ StageInv'
  <2>1. r \in [Turn -> Status] /\ Kept(r)
    <3>1. r = row \/ r = Failed(t)
      BY DEF Written
    <3> QED
      BY <1>1, <3>1, Claimed, FailedTypes DEF Kept, Message
  <2> QED
    BY <1>1, <1>3, <2>1, PumpServes
<1> QED
  BY <1>2, <1>3 DEF StopAnswered

LEMMA EventMeans ==
  ASSUME TypeOK, TypeOK', QueueInv, StageInv, Event
  PROVE  ServiceQueueStep /\ StageInv'
<1>1. /\ doing = None /\ UNCHANGED <<kind, routing, chan, sent>>
      /\ queue \in Seq(Turn) /\ \A u \in Elems(queue) : kind[u] = "queue"
  BY Claimed DEF TypeOK, Event, Ready
<1>2. CASE UNCHANGED <<row, doing>>
  <2>1. \A u \in Turn : Stage(u)' = Stage(u)
    BY <1>1, <1>2 DEF Stage, Underway, Elems
  <2>2. StageInv'
    BY <1>1, <1>2 DEF StageInv, Elems
  <2> QED
    BY <1>1, <2>1, <2>2, QuietMeans DEF ServiceQueueStep
<1>3. CASE TurnCompleted
  <2> DEFINE fails == turnFailed /\ ~stopping
             w == IF fails THEN Hold(queue, row, held) ELSE row
             h == held \/ (fails /\ queue # <<>>)
             b == FALSE
  <2>1. PICK x \in BOOLEAN : \E r \in Written(x, row, w) :
                               Pump(queue, r, b, h, Missed(unanswered, r, w), x)
    BY <1>3 DEF TurnCompleted
  <2>2. PICK r \in Written(x, row, w) : Pump(queue, r, b, h, Missed(unanswered, r, w), x)
    BY <2>1
  <2>3. r \in [Turn -> Status] /\ (Kept(r) \/ (h /\ Held(r)))
    <3>1. row \in [Turn -> Status] /\ HoldRows(row) \in [Turn -> Status]
      BY Claimed, RowTypes
    <3>2. r = row \/ (h /\ r = HoldRows(row))
      BY <2>2 DEF Written, Hold, Holds
    <3> QED
      BY <3>1, <3>2, HoldMeans DEF Kept
  <2> HIDE DEF w, h, b
  <2> QED
    BY <1>1, <2>2, <2>3, PumpServes
<1> QED
  BY <1>2, <1>3 DEF Event, TurnStarted, TurnError

LEMMA AttachMeans ==
  ASSUME TypeOK, TypeOK', QueueInv, StageInv, Attach
  PROVE  ServiceQueueStep /\ StageInv'
<1>x. PICK x \in BOOLEAN : \E a \in InProgress(x, FALSE) : busy' = a /\ Load(a, x)
  BY DEF Attach
<1>a. PICK a \in InProgress(x, FALSE) : Load(a, x)
  BY <1>x
<1>1. doing = None /\ UNCHANGED <<kind, routing, chan, sent>> /\ a \in BOOLEAN
  BY DEF Attach, TypeOK, codexVars, InProgress
<1>2. CASE doing' = None /\ UNCHANGED row
  <2>1. \A u \in Turn : Stage(u)' = Stage(u)
    BY <1>1, <1>2 DEF Stage, Underway, Elems
  <2>2. StageInv'
    BY <1>1, <1>2 DEF StageInv, Elems
  <2> QED
    BY <1>1, <2>1, <2>2, QuietMeans DEF ServiceQueueStep
<1>3. ASSUME NEW q \in QueueOf, NEW r \in [Turn -> Status], NEW h \in BOOLEAN,
             \A t \in Turn :
               r[t] = row[t] \/ (kind[t] = "resume" /\ row[t] = "queued" /\ r[t] = "sent"),
             NEW s \in Written(x, r, IF h THEN HoldRows(r) ELSE r), NEW S, Pump(q, s, a, h, S, x)
      PROVE  ServiceQueueStep /\ StageInv'
  <2>1. q \in Seq(Turn) /\ \A u \in Elems(q) : kind[u] = "queue"
    BY QueueOfTypes DEF Waiting
  <2>2. s \in [Turn -> Status] /\ (Kept(s) \/ (h /\ Held(s)))
    <3>1. HoldRows(r) \in [Turn -> Status]
      BY RowTypes
    <3>2. s = r \/ (h /\ s = HoldRows(r))
      BY DEF Written
    <3> QED
      BY <1>3, <3>1, <3>2 DEF Kept, Held, HoldRows, Moved, Queued, Message
  <2> QED
    BY <1>1, <1>3, <2>1, <2>2, PumpServes
<1>4. CASE Loaded(a, x)
  BY <1>3, <1>4 DEF Loaded
<1> QED
  BY <1>a, <1>1, <1>2, <1>4, LoadCases

-----------------------------------------------------------------------------
(* The steps in which a message is written, handed over, delivered or lost.  *)

Serves == Messages!Next \/ UNCHANGED Messages!serviceVars

LEMMA StageFacts ==
  ASSUME TypeOK, QueueInv, StageInv
  PROVE  /\ None \notin Turn /\ row \in [Turn -> Status] /\ doing \in Turn \cup {None}
         /\ Elems(chan) \subseteq Turn /\ Elems(sent) \subseteq Turn /\ routing \subseteq Turn
         /\ \A t \in Turn : kind[t] = "queue" /\ t \in Elems(sent) => row[t] \in {"sent", "failed"}
         /\ \A t \in routing \cup Elems(chan) :
              /\ kind[t] = "steer" => row[t] = "sent" /\ t \notin Elems(sent)
              /\ row[t] \notin {"none", "pending"}
         /\ Distinct(chan) /\ routing \cap Elems(chan) = {}
<1>1. /\ chan \in Seq(Turn) /\ sent \in Seq(Turn) /\ None \notin Turn
      /\ row \in [Turn -> Status] /\ doing \in Turn \cup {None} /\ routing \subseteq Turn
  BY DEF TypeOK, Status, None, Turn
<1>2. Elems(chan) \subseteq Turn /\ Elems(sent) \subseteq Turn
  BY <1>1, ElemsIn
<1> QED
  BY <1>1, <1>2 DEF QueueInv, OnTheWay, Unseen, StageInv

\* Messages go down with a broker or with a runner.
LEMMA LossMeans ==
  ASSUME TypeOK, TypeOK', QueueInv, StageInv, UNCHANGED <<kind, row, sent>>,
         routing' \subseteq routing, Elems(chan') \subseteq routing \cup Elems(chan),
         doing' = doing \/ doing' = None
  PROVE  Serves /\ StageInv'
<1>1. /\ Elems(sent)' = Elems(sent) /\ Elems(chan)' = Elems(chan') /\ None \notin Turn
      /\ routing \subseteq Turn /\ Elems(chan) \subseteq Turn
  BY StageFacts DEF Elems
<1>2. StageInv'
  BY <1>1 DEF StageInv
<1>3. ASSUME NEW t \in Turn
      PROVE  Stage(t)' = Stage(t) \/ (Stage(t) = "taken" /\ Stage(t)' = "lost")
  <2>1. kind'[t] = "queue" \/ kind'[t] # "queue"
    OBVIOUS
  <2>2. Underway(t)' => Underway(t)
    BY <1>1 DEF Underway
  <2> HIDE DEF Underway
  <2> QED
    BY <1>1, <2>2 DEF Stage
<1> DEFINE L == {t \in Turn : Stage(t) = "taken" /\ Stage(t)' = "lost"}
<1>4. Messages!Discard({}, L)
  <2>1. L \subseteq Turn /\ (\A t \in L : Stage(t) = "taken" /\ Stage(t)' = "lost")
    OBVIOUS
  <2>2. \A t \in Turn : t \notin L => Stage(t)' = Stage(t)
    BY <1>3
  <2> HIDE DEF L
  <2> QED
    BY <2>1, <2>2 DEF Messages!Discard, Messages!In, Turn
<1>5. {} \in SUBSET Turn /\ L \in SUBSET Turn
  OBVIOUS
<1> QED
  BY <1>2, <1>4, <1>5 DEF Serves, Messages!Next

\* A message that was taken and sent to codex: accepted or not, while those of S, which
\* waited, are held.
LEMMA SendMeans ==
  ASSUME TypeOK, TypeOK', QueueInv, StageInv, NEW t \in Turn, Stage(t) = "taken",
         Accepted(t) \/ UNCHANGED sent,
         row'[t] \in {"sent", "failed"}, ~Underway(t)',
         UNCHANGED <<kind, routing>>, doing' = None, doing = None \/ doing = t,
         \A u \in Turn : u # t => \/ row'[u] = row[u]
                                  \/ kind[u] = "queue" /\ row[u] = "queued" /\ row'[u] = "held"
                                  \/ kind[u] \notin {"steer", "queue"},
         Elems(chan') \subseteq Elems(chan), Elems(chan) \subseteq Elems(chan') \cup {t}
  PROVE  Serves /\ StageInv'
<1> DEFINE S == {u \in Turn : kind[u] = "queue" /\ u # t /\ row[u] = "queued" /\ row'[u] = "held"}
<1>1. /\ Elems(chan)' = Elems(chan') /\ Elems(sent)' = Elems(sent') /\ None \notin Turn
      /\ routing \subseteq Turn /\ Elems(chan) \subseteq Turn
      /\ kind[t] \in {"steer", "queue"}
      /\ \A u \in Turn : kind[u] = "queue" /\ u \in Elems(sent) => row[u] \in {"sent", "failed"}
      /\ t \notin Elems(sent)
  BY StageFacts DEF Elems, Stage
<1>2. \/ Elems(sent') = Elems(sent) \cup {t} /\ sent' = Append(sent, t)
      \/ UNCHANGED sent
  <2>1. CASE Accepted(t)
    BY <2>1, AcceptedTyping DEF Accepted
  <2> QED
    BY <2>1
<1>3. \A u \in Turn : u # t => (u \in Elems(sent') <=> u \in Elems(sent))
  BY <1>2
<1>4. S \in SUBSET Turn /\ t \notin S
  OBVIOUS
<1>5. \A u \in S : Stage(u) = "waiting" /\ Stage(u)' = "held"
  BY <1>1, <1>3 DEF Stage
<1>6. ASSUME NEW u \in Turn, u # t, u \notin S PROVE Stage(u)' = Stage(u)
  <2>1. Message(u) => row'[u] = row[u] /\ (Underway(u)' <=> Underway(u))
    BY <1>1, <1>6 DEF Message, Underway
  <2> QED
    BY <1>3, <1>6, <2>1, StageSame
<1>7. StageInv'
  BY <1>1 DEF StageInv, Underway
<1> HIDE DEF S
<1>8. CASE Elems(sent') = Elems(sent) \cup {t} /\ sent' = Append(sent, t)
  <2>1. Stage(t)' = "delivered"
    BY <1>1, <1>8 DEF Stage
  <2>2. Messages!Accept(t, S)
    BY <1>4, <1>5, <1>6, <1>8, <2>1, EndsMeans DEF Messages!Accept
  <2> QED
    BY <1>4, <1>7, <2>2 DEF Serves, Messages!Next
<1>9. CASE UNCHANGED sent
  <2>1. Stage(t)' \in {"dropped", "lost"}
    <3>1. t \notin Elems(sent')
      BY <1>1, <1>9
    <3> HIDE DEF Underway
    <3> QED
      BY <1>1, <3>1 DEF Stage
  <2>2. PICK k \in {"dropped", "lost"} : Stage(t)' = k
    BY <2>1
  <2>3. Messages!Ends(t, {"taken", "lost"}, S, k)
    BY <1>4, <1>5, <1>6, <2>2, EndsMeans
  <2>4. Messages!Refuse(t, S)
    BY <1>9, <2>3 DEF Messages!Refuse
  <2> QED
    BY <1>4, <1>7, <2>4 DEF Serves, Messages!Next
<1> QED
  BY <1>2, <1>8, <1>9

LEMMA DeliverMeans ==
  ASSUME TypeOK, TypeOK', QueueInv, StageInv, Deliver
  PROVE  Serves /\ StageInv'
<1>1. PICK t \in Turn : /\ doing = t /\ kind[t] = "queue" /\ row[t] = "sent"
                        /\ t \notin Elems(sent)
  BY StageFacts DEF TypeOK, Deliver, QueueInv, KindsMatch, OnTheWay
<1>2. /\ doing' = None /\ UNCHANGED <<kind, routing, chan>> /\ None \notin Turn
      /\ Stage(t) = "taken" /\ ~Underway(t)' /\ row \in [Turn -> Status]
  BY <1>1, StageFacts DEF Deliver, Stage, Underway
<1>3. Accepted(t) \/ UNCHANGED sent
  BY <1>1 DEF Deliver, Refused, codexVars
<1>4. /\ row'[t] \in {"sent", "failed"}
      /\ \A u \in Turn : u # t => \/ row'[u] = row[u]
                                  \/ Queued(u) /\ row[u] = "queued" /\ row'[u] = "held"
  <2>1. CASE UNCHANGED row
    BY <1>1, <2>1
  <2>2. ASSUME NEW x, NEW r \in Written(x, row, Failed(t)), row' \in Written(x, r, Hold(queue, r, held))
        PROVE  /\ row'[t] \in {"sent", "failed"}
               /\ \A u \in Turn : u # t => \/ row'[u] = row[u]
                                           \/ Queued(u) /\ row[u] = "queued" /\ row'[u] = "held"
    <3>1. /\ r[t] \in {"sent", "failed"} /\ \A u \in Turn : u # t => r[u] = row[u]
      BY <1>1, FailedTypes DEF Written
    <3>2. row' = r \/ row' = HoldRows(r)
      BY <2>2 DEF Written, Hold
    <3> QED
      BY <3>1, <3>2 DEF HoldRows, Moved
  <2> QED
    BY <1>1, <2>1, <2>2 DEF Deliver
<1> HIDE DEF Underway
<1> QED
  BY <1>1, <1>2, <1>3, <1>4, SendMeans DEF Queued

LEMMA SteerMeans ==
  ASSUME TypeOK, TypeOK', QueueInv, StageInv, Command, chan' = Tail(chan),
         NEW x, Steer(Head(chan), x)
  PROVE  Serves /\ StageInv'
<1>1. PICK t \in Turn : t = Head(chan) /\ t \in Elems(chan) /\ t \notin Elems(chan')
                        /\ Elems(chan) = Elems(chan') \cup {t}
  <2>1. chan \in Seq(Turn) /\ chan # <<>> /\ Distinct(chan)
    BY DEF TypeOK, Command, QueueInv, OnTheWay
  <2> QED
    BY <2>1, TailElems
<1>2. /\ kind[t] = "steer" /\ row[t] = "sent" /\ t \notin routing
      /\ doing = None /\ doing' = None /\ UNCHANGED <<kind, routing>>
      /\ Elems(chan)' = Elems(chan') /\ Stage(t) = "taken" /\ ~Underway(t)'
  <2>1. /\ kind[t] = "steer" /\ doing = None /\ doing' = None /\ UNCHANGED <<kind, routing>>
    BY <1>1 DEF Command, Steer, Ready
  <2>2. row[t] = "sent" /\ t \notin routing /\ t \notin Elems(sent) /\ Elems(chan)' = Elems(chan')
    BY <1>1, <2>1, StageFacts DEF Elems
  <2> QED
    BY <1>1, <2>1, <2>2 DEF Stage, Underway
<1>3. Accepted(t) \/ UNCHANGED sent
  BY <1>1 DEF Steer, Refused, codexVars
<1>4. row'[t] \in {"sent", "failed"} /\ \A u \in Turn : u # t => row'[u] = row[u]
  <2>1. row' = row \/ row' = Failed(t)
    BY <1>1 DEF Steer, Written
  <2> QED
    BY <1>2, <2>1, FailedTypes
<1> HIDE DEF Underway
<1> QED
  BY <1>1, <1>2, <1>3, <1>4, SendMeans

\* A route task or the technician: the row of one message.
LEMMA RowMeans ==
  ASSUME TypeOK, TypeOK', QueueInv, StageInv, NEW t \in Turn,
         Ask(t) \/ TakeBack(t) \/ Claim(t) \/ TurnAway(t)
  PROVE  Serves /\ StageInv'
<1>1. /\ UNCHANGED <<chan, sent, doing>>
      /\ Elems(chan)' = Elems(chan) /\ Elems(sent)' = Elems(sent)
      /\ (Ask(t) \/ UNCHANGED kind)
      /\ \A u \in Turn : u # t => row'[u] = row[u] /\ kind'[u] = kind[u]
      /\ \A u \in Turn : u # t => (u \in routing' <=> u \in routing)
      /\ Turn = DOMAIN row /\ DOMAIN kind = Turn
  <2>1. /\ UNCHANGED <<chan, sent, doing>> /\ (Ask(t) \/ UNCHANGED kind)
        /\ Turn = DOMAIN row /\ DOMAIN kind = Turn
        /\ \A u \in Turn : u # t => (u \in routing' <=> u \in routing)
    BY DEF TypeOK, Ask, TakeBack, Claim, TurnAway, runnerVars, codexVars
  <2>2. \A u \in Turn : u # t => kind'[u] = kind[u]
    BY <2>1 DEF Ask
  <2>3. \A u \in Turn : u # t => row'[u] = row[u]
    <3>1. CASE TurnAway(t)
      <4>1. row' = row \/ row' = Failed(t)
        BY <3>1 DEF TurnAway, Written
      <4> QED
        BY <4>1, FailedTypes
    <3> QED
      BY <2>1, <3>1 DEF Ask, TakeBack, Claim
  <2> QED
    BY <2>1, <2>2, <2>3 DEF Elems
<1>2. \A u \in Turn : u # t => Stage(u)' = Stage(u)
  <2> SUFFICES ASSUME NEW u \in Turn, u # t PROVE Stage(u)' = Stage(u)
    OBVIOUS
  <2>1. Underway(u)' <=> Underway(u)
    BY <1>1 DEF Underway
  <2> QED
    BY <1>1, <2>1, StageSame
<1>3. ASSUME NEW k, Stage(t)' = k PROVE Stages' = [Stages EXCEPT ![t] = k]
  BY <1>2, <1>3, OneMoves
<1>4. ASSUME Stage(t)' = Stage(t) PROVE Serves
  BY <1>1, <1>2, <1>4, QuietMeans DEF Serves
<1>5. {} \in SUBSET Turn
  OBVIOUS
\* A refusal, recorded or not.
<1>6. ASSUME Stage(t) \in {"taken", "lost"}, NEW k \in {"dropped", "lost"}, Stage(t)' = k
      PROVE  Serves
  <2>1. Messages!Ends(t, {"taken", "lost"}, {}, k)
    BY <1>2, <1>5, <1>6, EndsMeans
  <2>2. Messages!Refuse(t, {})
    BY <1>1, <2>1 DEF Messages!Refuse
  <2> QED
    BY <1>5, <2>2 DEF Serves, Messages!Next
<1>7. CASE Ask(t)
  <2>1. /\ row[t] = "none" /\ row'[t] = "pending" /\ UNCHANGED routing
        /\ t \notin routing \cup Elems(chan) \cup Elems(sent)
    BY <1>1, <1>7 DEF Ask, QueueInv, Unseen
  <2>2. Stage(t) = "none" /\ Stage(t)' \in {"none", "waiting"}
    BY <1>1, <2>1 DEF Stage, StageInv
  <2>3. Messages!Write(t) \/ Stage(t)' = Stage(t)
    BY <1>1, <1>3, <2>2 DEF Messages!Write, Messages!Becomes, Stages
  <2>4. StageInv'
    BY <1>1, <2>1, StageFacts DEF StageInv
  <2> QED
    BY <1>4, <2>3, <2>4 DEF Serves, Messages!Next
<1>8. CASE TakeBack(t)
  <2>1. /\ kind[t] = "queue" /\ row[t] \in {"pending", "queued", "held"} /\ row'[t] = "cancelled"
        /\ UNCHANGED <<kind, routing>>
    BY <1>1, <1>8 DEF TakeBack
  <2>2. Stage(t) \in {"waiting", "held"} /\ Stage(t)' = "dropped"
    BY <1>1, <2>1, StageFacts DEF Stage
  <2>3. Messages!Withdraw(t)
    BY <1>1, <1>3, <2>2 DEF Messages!Withdraw, Messages!Becomes, Stages
  <2>4. StageInv'
    BY <1>1, <2>1, StageFacts DEF StageInv
  <2> QED
    BY <2>3, <2>4 DEF Serves, Messages!Next
<1>9. CASE Claim(t)
  <2>1. /\ row[t] = "pending" /\ row'[t] = (IF Queued(t) THEN "queued" ELSE "sent")
        /\ routing' \in {routing, routing \cup {t}} /\ UNCHANGED kind
        /\ t \notin routing \cup Elems(chan) \cup Elems(sent)
    BY <1>1, <1>9 DEF Claim, QueueInv, Unseen
  <2>2. ASSUME kind[t] = "steer" PROVE Serves
    <3>1. Stage(t) = "waiting" /\ Stage(t)' \in {"taken", "lost"}
      BY <1>1, <2>1, <2>2 DEF Stage, Underway, Queued
    <3>2. CASE Stage(t)' = "taken"
      <4>1. Stages' = [Stages EXCEPT ![t] = "taken"] /\ Stages[t] = "waiting"
        BY <1>3, <3>1, <3>2 DEF Stages
      <4>2. Messages!Take(t)
        BY <1>1, <4>1 DEF Messages!Take, Stages
      <4> QED
        BY <4>2 DEF Serves, Messages!Next
    <3>3. CASE Stage(t)' = "lost"
      <4>1. /\ Stages[t] = "waiting"
            /\ Stages' = [x \in Turn |-> IF x = t THEN "lost" ELSE IF x \in {} THEN "held" ELSE Stages[x]]
        BY <1>2, <3>1, <3>3 DEF Stages, Turn
      <4>2. Messages!Mislay(t, {})
        BY <1>1, <4>1 DEF Messages!Mislay, Stages
      <4> QED
        BY <1>5, <4>2 DEF Serves, Messages!Next
    <3> QED
      BY <3>1, <3>2, <3>3
  <2>3. ASSUME kind[t] # "steer" PROVE Serves
    <3>1. Stage(t)' = Stage(t)
      BY <1>1, <2>1, <2>3 DEF Stage, Queued
    <3> QED
      BY <1>4, <3>1
  <2>4. StageInv'
    BY <1>1, <2>1, StageFacts DEF StageInv, Queued
  <2> QED
    BY <2>2, <2>3, <2>4 DEF Serves, Messages!Next
<1>10. CASE TurnAway(t)
  <2>1. /\ t \in routing /\ routing' = routing \ {t} /\ UNCHANGED kind
        /\ (row'[t] = row[t] \/ row'[t] = "failed")
        /\ t \notin Elems(chan) /\ row[t] \notin {"none", "pending"}
        /\ doing = None /\ None \notin Turn
    BY <1>1, <1>10, StageFacts, FailedTypes DEF TurnAway, TypeOK, Written
  <2>2. ASSUME kind[t] = "steer" PROVE Serves
    <3>1. Stage(t) = "taken" /\ Stage(t)' \in {"dropped", "lost"}
      BY <1>1, <2>1, <2>2, StageFacts DEF Stage, Underway
    <3> QED
      BY <1>6, <3>1
  <2>3. ASSUME kind[t] = "queue" PROVE Serves
    <3>1. \/ Stage(t)' = Stage(t)
          \/ Stage(t) \in {"waiting", "held"} /\ Stage(t)' = "dropped"
          \/ Stage(t) = "lost" /\ Stage(t)' = "dropped"
      <4>1. row[t] \in Status /\ ~Underway(t) /\ ~Underway(t)'
        BY <1>1, <2>1, <2>3, StageFacts DEF Underway
      <4> HIDE DEF Underway
      <4> QED
        BY <1>1, <2>1, <2>3, <4>1 DEF Stage, Status
    <3>2. CASE Stage(t) \in {"waiting", "held"} /\ Stage(t)' = "dropped"
      <4>1. Messages!Withdraw(t)
        BY <1>1, <1>3, <3>2 DEF Messages!Withdraw, Messages!Becomes, Stages
      <4> QED
        BY <4>1 DEF Serves, Messages!Next
    <3> QED
      BY <1>4, <1>6, <3>1, <3>2
  <2>4. ASSUME kind[t] \notin {"steer", "queue"} PROVE Serves
    <3>1. Stage(t)' = Stage(t)
      BY <1>1, <2>1, <2>4 DEF Stage
    <3> QED
      BY <1>4, <3>1
  <2>5. StageInv'
    BY <1>1, <2>1, StageFacts DEF StageInv
  <2> QED
    BY <2>2, <2>3, <2>4, <2>5
<1> QED
  BY <1>7, <1>8, <1>9, <1>10

-----------------------------------------------------------------------------
(* The other steps of a runner, and the broker's own. *)

\* close: the messages of the queue are dropped, those behind the close are lost.
LEMMA CloseMeans ==
  ASSUME TypeOK, TypeOK', QueueInv, StageInv, Command, NEW x, Close(Head(chan), x)
  PROVE  Serves /\ StageInv'
<1>1. /\ doing = None /\ doing' = None /\ UNCHANGED <<kind, routing, sent>>
      /\ Elems(chan)' = {} /\ Elems(sent)' = Elems(sent)
      /\ \A u \in Turn : \/ row'[u] = row[u]
                         \/ /\ Queued(u) /\ row[u] \in {"pending", "queued", "held"}
                            /\ row'[u] = "cancelled"
  <2>1. Elems(<<>>) = {}
    BY EmptyElems
  <2>2. \A u \in Turn : \/ row'[u] = row[u]
                       \/ /\ Queued(u) /\ row[u] \in {"pending", "queued", "held"}
                          /\ row'[u] = "cancelled"
    BY DEF Close, Written
  <2> QED
    BY <2>1, <2>2 DEF Command, Close, Gone, Forgets, Ready, Elems
<1>2. ASSUME NEW u \in Turn
      PROVE  \/ Stage(u)' = Stage(u)
             \/ Stage(u) \in {"waiting", "held"} /\ Stage(u)' = "dropped"
             \/ Stage(u) = "taken" /\ Stage(u)' = "lost"
  <2>1. CASE kind[u] = "queue"
    <3>1. row[u] \in Status /\ ~Underway(u) /\ ~Underway(u)' /\ row[u] # "none"
      BY <1>1, <2>1, StageFacts DEF Underway, StageInv
    <3> HIDE DEF Underway
    <3> QED
      BY <1>1, <2>1, <3>1, StageFacts DEF Stage, Status, Queued
  <2>2. CASE kind[u] = "steer"
    <3>1. /\ row'[u] = row[u] /\ row[u] \in {"pending", "sent", "failed"}
          /\ (Underway(u)' => Underway(u))
      BY <1>1, <2>2 DEF Queued, StageInv, Underway
    <3> HIDE DEF Underway
    <3> QED
      BY <1>1, <2>2, <3>1 DEF Stage
  <2>3. CASE ~Message(u)
    BY <1>1, <2>3 DEF Message, Stage
  <2> QED
    BY <2>1, <2>2, <2>3 DEF Message
<1> DEFINE D == {u \in Turn : Stage(u) \in {"waiting", "held"} /\ Stage(u)' = "dropped"}
           L == {u \in Turn : Stage(u) = "taken" /\ Stage(u)' = "lost"}
<1>3. Messages!Discard(D, L) /\ D \in SUBSET Turn /\ L \in SUBSET Turn
  <2>1. /\ D \subseteq Turn /\ (\A u \in D : Stage(u) \in {"waiting", "held"} /\ Stage(u)' = "dropped")
        /\ L \subseteq Turn /\ (\A u \in L : Stage(u) = "taken" /\ Stage(u)' = "lost")
    OBVIOUS
  <2>2. \A u \in Turn : u \notin D /\ u \notin L => Stage(u)' = Stage(u)
    BY <1>2
  <2> HIDE DEF D, L
  <2> QED
    BY <1>1, <2>1, <2>2 DEF Messages!Discard, Messages!In, Turn
<1>4. StageInv'
  BY <1>1, StageFacts DEF StageInv, Queued
<1> QED
  BY <1>3, <1>4 DEF Serves, Messages!Next

LEMMA QueueServes == ServiceQueueStep => Serves
BY DEF ServiceQueueStep, Serves, Messages!Next

LEMMA CommandMeans ==
  ASSUME TypeOK, TypeOK', QueueInv, StageInv, Command
  PROVE  Serves /\ StageInv'
<1>1. /\ Ready /\ UNCHANGED <<kind, routing>> /\ Head(chan) \in Elems(chan)
      /\ Elems(chan) = Elems(Tail(chan)) \cup {Head(chan)}
  <2>1. chan \in Seq(Turn) /\ chan # <<>>
    BY DEF TypeOK, Command
  <2> QED
    BY <2>1, TailElems DEF Command
<1>2. ASSUME NEW x, chan' = Tail(chan), Interrupt(Head(chan), x)
      PROVE  Serves /\ StageInv'
  BY <1>1, <1>2, InterruptMeans, QueueServes
<1> QED
  BY <1>2, SteerMeans, EnqueueMeans, ResumeMeans, CloseMeans, QueueServes DEF Command

LEMMA SideStopMeans ==
  ASSUME TypeOK, TypeOK', QueueInv, StageInv, NEW i \in 1..Len(chan), SideStop(i)
  PROVE  Serves /\ StageInv'
<1>1. chan \in Seq(Turn) /\ chan[i] \in Elems(chan)
  BY DEF TypeOK, Elems
<1>x. PICK x \in BOOLEAN : Interrupt(chan[i], x)
  BY DEF SideStop
<1>2. Elems(chan') \subseteq Elems(chan) /\ Elems(chan) \subseteq Elems(chan') \cup {chan[i]}
  BY <1>1, RemoveElems DEF SideStop
<1> QED
  BY <1>x, <1>1, <1>2, InterruptMeans, QueueServes DEF SideStop

LEMMA RedialledMeans ==
  ASSUME TypeOK, TypeOK', QueueInv, StageInv, Redialled
  PROVE  Serves /\ StageInv'
<1>1. /\ runner = "redial" /\ doing = None /\ UNCHANGED <<kind, routing, sent>>
      /\ row \in [Turn -> Status] /\ queue \in Seq(Turn)
      /\ \A u \in Elems(queue) : kind[u] = "queue"
  BY Claimed DEF Redialled, TypeOK
<1>2. ASSUME NEW x, NEW a, Pump(queue, row, a, held, unanswered, x), UNCHANGED chan
      PROVE  Serves /\ StageInv'
  <2>1. Kept(row)
    BY DEF Kept
  <2> QED
    BY <1>1, <1>2, <2>1, PumpServes, QueueServes
<1>3. CASE Gone(Elems(chan)) /\ UNCHANGED row
  <2>1. doing' = None /\ chan' = <<>> /\ Elems(chan') = {}
    BY <1>3, EmptyElems DEF Gone, Forgets
  <2> QED
    BY <1>1, <1>3, <2>1, LossMeans
<1> QED
  BY <1>2, <1>3 DEF Redialled

LEMMA LifeMeans ==
  ASSUME TypeOK, TypeOK', QueueInv, StageInv,
         StartFails \/ Release \/ Crash \/ Drop \/ CodexError \/ CodexCompletes \/ UNCHANGED vars
  PROVE  Serves /\ StageInv'
<1>0. Elems(<<>>) = {}
  BY EmptyElems
<1>1. CASE StartFails
  <2>1. doing = None
    BY <1>1 DEF StartFails, TypeOK
  <2> QED
    BY <1>0, <1>1, <2>1, LossMeans DEF StartFails, Gone, Forgets
<1>2. CASE Release
  BY <1>2, LossMeans DEF Release, Ready, rowVars, Forgets
<1>3. CASE Crash
  BY <1>0, <1>3, LossMeans DEF Crash, rowVars, Forgets
<1>4. CASE Drop \/ CodexError \/ CodexCompletes \/ UNCHANGED vars
  BY <1>4, LossMeans DEF Drop, CodexError, CodexCompletes, vars, rowVars, runnerVars, codexVars
<1> QED
  BY <1>1, <1>2, <1>3, <1>4

LEMMA HandOverMeans ==
  ASSUME TypeOK, TypeOK', QueueInv, StageInv, NEW t \in Turn, HandOver(t)
  PROVE  Serves /\ StageInv'
<1>1. t \in routing /\ routing' = routing \ {t} /\ Elems(chan') = Elems(chan) \cup {t}
  <2>1. chan \in Seq(Turn)
    BY DEF TypeOK
  <2> QED
    BY <2>1, AppendElems DEF HandOver
<1> QED
  BY <1>1, LossMeans DEF HandOver, rowVars, codexVars

LEMMA StageInit == Init => StageInv /\ Messages!Init
<1> SUFFICES ASSUME Init PROVE StageInv /\ Messages!Init
  OBVIOUS
<1>1. Elems(chan) = {} /\ routing = {} /\ \A t \in Turn : kind[t] = "none"
  BY EmptyElems DEF Init
<1> QED
  BY <1>1 DEF Init, StageInv, Messages!Init, Stage

LEMMA MessagesStep ==
  TypeOK /\ TypeOK' /\ QueueInv /\ StageInv /\ [Next]_vars
    => StageInv' /\ [Messages!Next]_(Messages!serviceVars)
<1> SUFFICES ASSUME TypeOK, TypeOK', QueueInv, StageInv, [Next]_vars
             PROVE  Serves /\ StageInv'
  BY DEF Serves
<1>1. ASSUME NEW t \in Turn, Ask(t) \/ TakeBack(t) \/ Claim(t) \/ StopAnswered(t)
      PROVE  Serves /\ StageInv'
  BY <1>1, RowMeans, StopAnsweredMeans, QueueServes
<1>2. CASE \E i \in 1..Len(chan) : SideStop(i)
  BY <1>2, SideStopMeans
<1>3. CASE Route
  BY <1>3, HandOverMeans, RowMeans DEF Route
<1>4. CASE Runner
  BY <1>4, AttachMeans, CommandMeans, EventMeans, DeliverMeans, RedialledMeans, QueueServes
     DEF Runner
<1> QED
  BY <1>1, <1>2, <1>3, <1>4, LifeMeans DEF Next

(***************************************************************************)
(* The broker treats messages as MessageService says: it gives codex only  *)
(* what was taken out of a queue that is not held, once; what was dropped  *)
(* or delivered never comes back, and what was lost can only be reported   *)
(* as refused, whatever crashes, redials, hand-overs and calls without an  *)
(* answer come between.                                                    *)
(***************************************************************************)
THEOREM MessagesServed == Spec => ServesMessages
<1>1. Init => StageInv /\ Messages!Init
  BY StageInit
<1>2. (TypeOK /\ QueueInv) /\ (TypeOK /\ QueueInv)' /\ StageInv /\ [Next]_vars
        => StageInv' /\ [Messages!Next]_(Messages!serviceVars)
  BY MessagesStep
<1> QED
  BY <1>1, <1>2, Invariant, PTL DEF Spec, ServesMessages, Messages!Spec
=============================================================================
