------------------------- MODULE RetryBudgetProofs --------------------------
(***************************************************************************)
(* The type invariant, the counter, the causes of a suppression and the    *)
(* budget, for any candidates, titles, budget and scan length.  They hold  *)
(* together with two facts about the witnesses: neither a result row nor a *)
(* ledger row tells of a death that did not happen, and the counter of a   *)
(* key knows of all its rows of deaths, unless the key is behind.          *)
(***************************************************************************)
EXTENDS RetryBudget, SequenceTheorems, FiniteSetTheorems, TLAPS

\* Whatever says that an attempt of key k died, one did.
Witnessed ==
    /\ \A i \in DOMAIN rows : rows[i].reason = "dead" => deaths[rows[i].key] > 0
    /\ pc # "idle" /\ job.reason = "dead" => deaths[job.key] > 0
    /\ \A k \in recorded : deaths[k] > 0

IInv == TypeOK /\ DeathsAreCounted /\ Witnessed

\* 1 while a death of key k is decided and its row not yet written.
Pending(k) == IF pc = "decided" /\ job.key = k /\ job.reason = "dead" THEN 1 ELSE 0

\* A count covers the rows of its key's deaths, the next one included.
CounterKnows ==
    \A k \in Key \ behind :
        counter[k] > 0 => Cardinality(DeathsOf(k)) + Pending(k) <= counter[k]

BInv == IInv /\ CounterKnows /\ BudgetHolds

\* A plan has a key and a title: what is appended to the rows is a row.
LEMMA PlanType ==
    ASSUME NEW p \in Offer, NEW r \in Reason
    PROVE  Plan(p, r) \in Row
BY DEF Offer, Key, Plan, Row

\* Sequences of rows, longer by one or without their first one.
LEMMA Rows ==
    ASSUME NEW s \in Seq(Row), NEW r \in Row
    PROVE  /\ <<>> \in Seq(Row)
           /\ Append(s, r) \in Seq(Row)
           /\ DOMAIN Append(s, r) = 1 .. Len(s) + 1
           /\ DOMAIN s = 1 .. Len(s)
           /\ \A i \in 1 .. Len(s) : Append(s, r)[i] = s[i]
           /\ Append(s, r)[Len(s) + 1] = r
BY EmptySeq, AppendProperties

LEMMA Tails ==
    ASSUME NEW s \in Seq(Row), s # <<>>
    PROVE  /\ Tail(s) \in Seq(Row)
           /\ \A i \in DOMAIN Tail(s) : i + 1 \in DOMAIN s /\ Tail(s)[i] = s[i + 1]
BY HeadTailProperties

LEMMA RowAt ==
    ASSUME NEW s \in Seq(Row), NEW i \in DOMAIN s
    PROVE  s[i] \in Row /\ s[i].key \in Key
<1>1. s[i] \in Row
  BY LenProperties
<1> QED BY <1>1 DEF Row

LEMMA InitInv == Init => IInv
BY Rows DEF Init, IInv, TypeOK, DeathsAreCounted, Witnessed, Missing, Unreadable, None, Key

\* A row is appended that tells of a death only if there was one.
LEMMA AppendWitnessed ==
    ASSUME IInv, NEW r \in Row, r.reason = "dead" => deaths[r.key] > 0,
           rows' = Append(rows, r), deaths' = deaths
    PROVE  /\ rows' \in Seq(Row)
           /\ \A i \in DOMAIN rows' : rows'[i].reason = "dead" => deaths'[rows'[i].key] > 0
<1>1. rows \in Seq(Row)
  BY DEF IInv, TypeOK
<1>2. Len(rows) \in Nat
  BY <1>1, LenProperties
<1>3. ASSUME NEW i \in DOMAIN rows'
      PROVE  rows'[i].reason = "dead" => deaths'[rows'[i].key] > 0
  <2>1. CASE i \in 1 .. Len(rows)
    BY <1>1, <2>1, Rows DEF IInv, Witnessed
  <2>2. CASE i = Len(rows) + 1
    BY <1>1, <2>2, Rows
  <2> QED BY <1>1, <1>2, <2>1, <2>2, Rows
<1> QED BY <1>1, <1>3, Rows

\* The counter of a key in order stays in order when an attempt of it dies.
LEMMA ChargedCounts ==
    ASSUME IInv, NEW k \in Key \ spoiled
    PROVE  /\ Charged(counter[k], k \in recorded) = deaths[k] + 1
           /\ deaths[k] \in Nat
<1>1. /\ deaths[k] \in Nat
      /\ counter[k] = IF deaths[k] = 0 THEN Missing ELSE deaths[k]
      /\ k \in recorded => deaths[k] > 0
  BY DEF IInv, TypeOK, DeathsAreCounted, Witnessed
<1> QED BY <1>1 DEF Charged, Missing, Unreadable

LEMMA ChargedType ==
    ASSUME NEW c \in Int, c >= Unreadable, c # 0, NEW known \in BOOLEAN
    PROVE  /\ Charged(c, known) \in Int
           /\ Charged(c, known) >= Unreadable /\ Charged(c, known) # 0
BY DEF Charged, Missing, Unreadable

LEMMA DiesInv == IInv /\ Dies => IInv'
<1> SUFFICES ASSUME IInv, Dies PROVE IInv'
  OBVIOUS
<1> DEFINE k == job.key
<1>1. /\ job \in Row /\ k \in Key /\ rows' = rows /\ recorded' = recorded
      /\ deaths' = [deaths EXCEPT ![k] = @ + 1] /\ died' = died + 1
      /\ deaths \in [Key -> Nat]
  BY DEF IInv, TypeOK, Dies, Row
<1>2. deaths' \in [Key -> Nat] /\ \A h \in Key : deaths[h] > 0 => deaths'[h] > 0
  BY <1>1
<1>3. deaths'[k] > 0
  BY <1>1
<1>4. /\ pc' \in {"decided", "idle"}
      /\ pc' = "decided" => job' = [job EXCEPT !.reason = "dead"]
      /\ pc' = "idle" => job' = None
      /\ spoiled' \subseteq Key /\ faults' \in Nat /\ died' \in Nat
      /\ behind' \subseteq Key
  BY <1>1 DEF IInv, TypeOK, Dies, Fault
<1>5. [job EXCEPT !.reason = "dead"] \in Row /\ [job EXCEPT !.reason = "dead"].key = k
  BY <1>1 DEF Row, Reason
<1>6. Witnessed'
  <2>1. \A i \in DOMAIN rows : rows[i].key \in Key
    BY RowAt DEF IInv, TypeOK
  <2> QED BY <1>1, <1>2, <1>3, <1>4, <1>5, <2>1 DEF IInv, TypeOK, Witnessed
<1>7. (counter' \in [Key -> Int] /\ \A h \in Key : counter'[h] >= Unreadable /\ counter'[h] # 0)
      /\ DeathsAreCounted'
  <2>1. CASE counter' = [counter EXCEPT ![k] = Charged(@, k \in recorded)] /\ spoiled' = spoiled
    <3>1. /\ Charged(counter[k], k \in recorded) \in Int
          /\ Charged(counter[k], k \in recorded) >= Unreadable
          /\ Charged(counter[k], k \in recorded) # 0
      <4>1. counter[k] \in Int /\ counter[k] >= Unreadable /\ counter[k] # 0
        BY <1>1 DEF IInv, TypeOK
      <4>2. (k \in recorded) \in BOOLEAN
        OBVIOUS
      <4> QED BY <4>1, <4>2, ChargedType
    <3>2. k \notin spoiled => Charged(counter[k], k \in recorded) = deaths[k] + 1
      BY <1>1, ChargedCounts
    <3> HIDE DEF k
    <3>3. /\ counter' \in [Key -> Int]
          /\ \A h \in Key : counter'[h] >= Unreadable /\ counter'[h] # 0
      BY <1>1, <2>1, <3>1 DEF IInv, TypeOK
    <3>4. ASSUME NEW h \in Key \ spoiled'
          PROVE  counter'[h] = IF deaths'[h] = 0 THEN Missing ELSE deaths'[h]
      <4>1. CASE h = k
        BY <1>1, <2>1, <3>2, <4>1 DEF IInv, TypeOK
      <4>2. CASE h # k
        BY <1>1, <2>1, <4>2 DEF IInv, TypeOK, DeathsAreCounted
      <4> QED BY <4>1, <4>2
    <3> QED BY <3>3, <3>4 DEF DeathsAreCounted
  <2>2. CASE /\ counter' \in {counter, [counter EXCEPT ![k] = Unreadable]}
             /\ spoiled' = spoiled \cup {k}
    <3> HIDE DEF k
    <3>1. /\ counter' \in [Key -> Int]
          /\ \A h \in Key : counter'[h] >= Unreadable /\ counter'[h] # 0
      <4>1. CASE counter' = counter
        BY <4>1 DEF IInv, TypeOK
      <4>2. CASE counter' = [counter EXCEPT ![k] = Unreadable]
        <5>1. Unreadable \in Int /\ Unreadable >= Unreadable /\ Unreadable # 0
          BY DEF Unreadable
        <5> QED BY <1>1, <4>2, <5>1 DEF IInv, TypeOK
      <4> QED BY <2>2, <4>1, <4>2
    <3>2. ASSUME NEW h \in Key \ spoiled'
          PROVE  counter'[h] = counter[h] /\ deaths'[h] = deaths[h]
      BY <1>1, <2>2 DEF IInv, TypeOK
    <3> QED BY <2>2, <3>1, <3>2 DEF IInv, DeathsAreCounted
  <2> QED BY <2>1, <2>2 DEF Dies
<1> HIDE DEF k
<1> QED BY <1>1, <1>2, <1>4, <1>5, <1>6, <1>7 DEF IInv, TypeOK

LEMMA StepInv == IInv /\ [Next]_vars => IInv'
<1> SUFFICES ASSUME IInv, [Next]_vars PROVE IInv'
  OBVIOUS
<1>1. ASSUME NEW p \in Offer, Skips(p) PROVE IInv'
  <2>1. Plan(p, "skip") \in Row /\ Plan(p, "skip").reason # "dead"
    BY PlanType DEF Reason, Plan
  <2>2. /\ rows' \in Seq(Row)
        /\ \A i \in DOMAIN rows' : rows'[i].reason = "dead" => deaths'[rows'[i].key] > 0
    BY <1>1, <2>1, AppendWitnessed DEF Skips, IInv, TypeOK, Witnessed
  <2> QED BY <1>1, <2>2 DEF Skips, Fault, IInv, TypeOK, DeathsAreCounted, Witnessed
<1>2. ASSUME NEW p \in Offer, Starts(p) PROVE IInv'
  <2>1. Plan(p, "spared") \in Row /\ Plan(p, "spared").reason # "dead"
    BY PlanType DEF Reason, Plan
  <2> QED BY <1>2, <2>1 DEF Starts, IInv, TypeOK, DeathsAreCounted, Witnessed
<1>3. ASSUME NEW reason \in {"spared", "failed"}, Ends(reason) PROVE IInv'
  <2>1. job' \in Row /\ job'.reason # "dead"
    BY <1>3 DEF Ends, IInv, TypeOK, Row, Reason
  <2> QED BY <1>3, <2>1 DEF Ends, IInv, TypeOK, DeathsAreCounted, Witnessed
<1>4. CASE Pauses
  BY <1>4 DEF Pauses, IInv, TypeOK, DeathsAreCounted, Witnessed
<1>5. CASE Dies
  BY <1>5, DiesInv
<1>6. CASE ResultWritten
  <2>1. job \in Row /\ (job.reason = "dead" => deaths[job.key] > 0)
    BY <1>6 DEF ResultWritten, IInv, TypeOK, Witnessed
  <2>2. /\ rows' \in Seq(Row)
        /\ \A i \in DOMAIN rows' : rows'[i].reason = "dead" => deaths'[rows'[i].key] > 0
    BY <1>6, <2>1, AppendWitnessed DEF ResultWritten, IInv, TypeOK, Witnessed
  <2> QED BY <1>6, <2>1, <2>2 DEF ResultWritten, Fault, IInv, TypeOK, DeathsAreCounted, Witnessed
<1>7. CASE OutcomeWritten
  <2>1. job \in Row /\ job.key \in Key /\ (job.reason = "dead" => deaths[job.key] > 0)
    BY <1>7 DEF OutcomeWritten, IInv, TypeOK, Witnessed, Row
  <2> QED BY <1>7, <2>1 DEF OutcomeWritten, IInv, TypeOK, DeathsAreCounted, Witnessed
<1>8. CASE Killed
  BY <1>8 DEF Killed, Fault, IInv, TypeOK, DeathsAreCounted, Witnessed
<1>9. CASE RowExpires
  <2>1. rows \in Seq(Row) /\ rows # <<>> /\ rows' = Tail(rows)
    BY <1>9 DEF RowExpires, IInv, TypeOK
  <2>2. /\ rows' \in Seq(Row)
        /\ \A i \in DOMAIN rows' : i + 1 \in DOMAIN rows /\ rows'[i] = rows[i + 1]
    BY <2>1, Tails
  <2> QED BY <1>9, <2>2 DEF RowExpires, IInv, TypeOK, DeathsAreCounted, Witnessed
<1>10. ASSUME NEW k \in Key, MonthPasses(k) PROVE IInv'
  BY <1>10 DEF MonthPasses, IInv, TypeOK, DeathsAreCounted, Witnessed
<1>11. ASSUME NEW k \in Key, CounterLost(k) PROVE IInv'
  BY <1>11 DEF CounterLost, Fault, IInv, TypeOK, DeathsAreCounted, Witnessed, Missing, Unreadable
<1>12. CASE UNCHANGED vars
  BY <1>12 DEF vars, IInv, TypeOK, DeathsAreCounted, Witnessed
<1> QED BY <1>1, <1>2, <1>3, <1>4, <1>5, <1>6, <1>7, <1>8, <1>9, <1>10, <1>11, <1>12 DEF Next

LEMMA Inductive == Spec => []IInv
BY InitInv, StepInv, PTL DEF Spec

\* The variables keep their types; no counter is ever written as 0.
THEOREM TypeCorrect == Spec => []TypeOK
BY Inductive, PTL DEF IInv

\* _decide_handled_marker, for any keys and any budget: what an outage, a
\* verdict or a kill leaves of the counter is the number of deaths.
THEOREM CountersAreRight == Spec => []DeathsAreCounted
BY Inductive, PTL DEF IInv

\* _recent_failure_match: a title is suppressed by a verdict, a spent budget
\* or a lost counter; never by a skip, an outage or a budget still open.
THEOREM SuppressionHasCause == Spec => []SuppressedForCause
<1>1. IInv => SuppressedForCause
  <2> SUFFICES ASSUME IInv, NEW t \in Title, NEW i \in DOMAIN rows, Counts(i),
                      rows[i].title = t
               PROVE  \/ rows[i].reason = "failed"
                      \/ /\ rows[i].reason = "dead"
                         /\ deaths[rows[i].key] >= Max \/ rows[i].key \in spoiled
    BY DEF SuppressedForCause, Suppressed
  <2>1. rows[i].key \in Key /\ deaths[rows[i].key] \in Nat
    BY RowAt DEF IInv, TypeOK
  <2>2. CASE rows[i].reason = "failed"
    BY <2>2
  <2>3. CASE rows[i].reason = "dead" /\ Exhausted(counter[rows[i].key])
    <3>1. deaths[rows[i].key] > 0
      BY <2>3 DEF IInv, Witnessed
    <3>2. rows[i].key \notin spoiled => counter[rows[i].key] = deaths[rows[i].key]
      BY <2>1, <3>1 DEF IInv, DeathsAreCounted
    <3> QED BY <2>1, <2>3, <3>1, <3>2 DEF Exhausted
  <2> QED BY <2>2, <2>3 DEF Counts, IsFailure
<1> QED BY <1>1, Inductive, PTL
-----------------------------------------------------------------------------
(* The budget                                                               *)

\* A set of numbers that fits into another one when moved is no larger.
LEMMA Moved ==
    ASSUME NEW S, NEW T, S \subseteq Int, IsFiniteSet(T), NEW d \in Int,
           \A x \in S : x + d \in T
    PROVE  Cardinality(S) <= Cardinality(T)
<1> DEFINE f == [x \in S |-> x + d]
<1>1. f \in [S -> T] /\ \A a, b \in S : f[a] = f[b] => a = b
  OBVIOUS
<1>2. f \in Injection(S, T)
  BY <1>1 DEF Injection, IsInjective
<1> QED BY <1>2, FS_Injection

\* Places of a sequence of rows: finitely many, and integers.
LEMMA Places ==
    ASSUME NEW s \in Seq(Row), NEW S, S \subseteq DOMAIN s
    PROVE  IsFiniteSet(S) /\ S \subseteq Int /\ Cardinality(S) \in Nat
<1>1. DOMAIN s = 1 .. Len(s) /\ Len(s) \in Nat
  BY LenProperties
<1>2. IsFiniteSet(1 .. Len(s))
  BY <1>1, FS_Interval
<1> QED BY <1>1, <1>2, FS_Subset, FS_CardinalityType

LEMMA DeathsCard ==
    ASSUME TypeOK, NEW k
    PROVE  IsFiniteSet(DeathsOf(k)) /\ DeathsOf(k) \subseteq Int /\ Cardinality(DeathsOf(k)) \in Nat
BY Places DEF TypeOK, DeathsOf

\* With the rows as they are, the deaths of a key on them are, too.
LEMMA DeathsStay ==
    ASSUME rows' = rows, NEW k
    PROVE  DeathsOf(k)' = DeathsOf(k)
BY DEF DeathsOf

\* A row more is at most one death more, of its own key.
LEMMA DeathsAppend ==
    ASSUME TypeOK, NEW r \in Row, rows' = Append(rows, r), NEW k
    PROVE  /\ r.key = k /\ r.reason = "dead" =>
                  Cardinality(DeathsOf(k)') <= Cardinality(DeathsOf(k)) + 1
           /\ ~(r.key = k /\ r.reason = "dead") => DeathsOf(k)' = DeathsOf(k)
<1>1. rows \in Seq(Row) /\ Len(rows) \in Nat
  BY LenProperties DEF TypeOK
<1>2. /\ DOMAIN rows' = 1 .. Len(rows) + 1 /\ DOMAIN rows = 1 .. Len(rows)
      /\ \A i \in 1 .. Len(rows) : rows'[i] = rows[i]
      /\ rows'[Len(rows) + 1] = r
  BY <1>1, Rows
<1>3. CASE r.key = k /\ r.reason = "dead"
  <2>1. DeathsOf(k)' = DeathsOf(k) \cup {Len(rows) + 1}
    BY <1>1, <1>2, <1>3 DEF DeathsOf
  <2>2. IsFiniteSet(DeathsOf(k)) /\ Cardinality(DeathsOf(k)) \in Nat
    BY DeathsCard
  <2>3. Cardinality(DeathsOf(k) \cup {Len(rows) + 1})
          = IF Len(rows) + 1 \in DeathsOf(k) THEN Cardinality(DeathsOf(k))
            ELSE Cardinality(DeathsOf(k)) + 1
    BY <2>2, FS_AddElement
  <2> QED BY <1>3, <2>1, <2>2, <2>3
<1>4. CASE ~(r.key = k /\ r.reason = "dead")
  BY <1>1, <1>2, <1>4 DEF DeathsOf
<1> QED BY <1>3, <1>4

\* A row less is no death more.
LEMMA DeathsExpire ==
    ASSUME TypeOK, rows # <<>>, rows' = Tail(rows), NEW k
    PROVE  /\ \A i \in DeathsOf(k)' : i + 1 \in DeathsOf(k)
           /\ DeathsOf(k)' \subseteq Int
           /\ Cardinality(DeathsOf(k)') <= Cardinality(DeathsOf(k))
<1>1. rows \in Seq(Row) /\ rows' \in Seq(Row)
      /\ \A i \in DOMAIN rows' : i + 1 \in DOMAIN rows /\ rows'[i] = rows[i + 1]
  BY Tails DEF TypeOK
<1>2. \A i \in DeathsOf(k)' : i + 1 \in DeathsOf(k)
  BY <1>1 DEF DeathsOf
<1>3. DeathsOf(k)' \subseteq DOMAIN rows'
  BY DEF DeathsOf
<1>4. DeathsOf(k)' \subseteq Int
  BY <1>1, <1>3, Places
<1> QED BY <1>2, <1>4, Moved, DeathsCard

\* Charging a key of which the counter knows all it should know.
LEMMA DiesKnows == BInv /\ Dies => CounterKnows'
<1> SUFFICES ASSUME BInv, Dies, NEW h \in Key \ behind', counter'[h] > 0
             PROVE  Cardinality(DeathsOf(h)') + Pending(h)' <= counter'[h]
  BY DEF CounterKnows
<1> DEFINE k == job.key
<1>1. /\ TypeOK /\ CounterKnows /\ pc = "runs" /\ rows' = rows
      /\ counter[h] \in Int /\ counter \in [Key -> Int] /\ k \in Key
  BY DEF BInv, IInv, TypeOK, Dies, Row
<1>2. DeathsOf(h)' = DeathsOf(h) /\ Cardinality(DeathsOf(h)) \in Nat
  BY <1>1, DeathsStay, DeathsCard
<1>3. h \notin behind /\ (counter[h] > 0 => Cardinality(DeathsOf(h)) <= counter[h])
  <2>1. behind \subseteq behind'
    BY DEF Dies
  <2>2. Pending(h) = 0
    BY <1>1 DEF Pending
  <2> QED BY <1>1, <1>2, <2>1, <2>2 DEF CounterKnows
<1>4. Pending(h)' \in {0, 1} /\ (h # k => Pending(h)' = 0)
  <2>1. h # k => ~(pc' = "decided" /\ job'.key = h)
    <3>1. pc' = "decided" => job' = [job EXCEPT !.reason = "dead"]
      BY DEF Dies
    <3>2. job \in Row
      BY <1>1 DEF TypeOK
    <3> QED BY <3>1, <3>2 DEF Row
  <2> QED BY <2>1 DEF Pending
<1> HIDE DEF k
<1>5. CASE h # k
  <2>1. counter'[h] = counter[h]
    BY <1>1, <1>5 DEF Dies, k
  <2> QED BY <1>2, <1>3, <1>4, <1>5, <2>1
<1>6. CASE h = k
  <2>1. CASE counter' = [counter EXCEPT ![k] = Charged(@, k \in recorded)]
             /\ behind' = IF Restarts(k) THEN behind \cup {k} ELSE behind
    <3>1. counter'[h] = Charged(counter[h], h \in recorded) /\ ~Restarts(h)
      BY <1>1, <1>6, <2>1
    <3>2. CASE counter[h] = Missing
      <4>1. h \notin recorded /\ counter'[h] = 1
        BY <3>1, <3>2 DEF Charged, Missing, Unreadable
      <4>2. DeathsOf(h) = {}
        BY <3>1, <3>2, <4>1 DEF Restarts
      <4>3. Cardinality(DeathsOf(h)) = 0
        BY <4>2, FS_EmptySet
      <4> QED BY <1>2, <1>4, <4>1, <4>3
    <3>3. CASE counter[h] # Missing
      <4>1. counter[h] # Unreadable
        BY <1>1, <3>1, <3>3 DEF Charged, Missing, Unreadable
      <4>2. counter[h] > 0 /\ counter'[h] = counter[h] + 1
        <5>1. counter[h] >= Unreadable /\ counter[h] # 0
          BY <1>1 DEF TypeOK
        <5> QED BY <1>1, <3>1, <3>3, <4>1, <5>1 DEF Charged, Missing, Unreadable
      <4> QED BY <1>1, <1>2, <1>3, <1>4, <4>2
    <3> QED BY <3>2, <3>3
  <2>2. CASE counter' = counter /\ behind' = behind \cup {k}
    BY <1>6, <2>2
  <2>3. CASE counter' = [counter EXCEPT ![k] = Unreadable]
    <3>1. counter'[h] = Unreadable
      BY <1>1, <1>6, <2>3
    <3> QED BY <3>1 DEF Unreadable
  <2> QED BY <2>1, <2>2, <2>3 DEF Dies, k
<1> QED BY <1>5, <1>6

\* Steps that neither count nor write a row, and leave no death to write.
LEMMA QuietKnows ==
    ASSUME BInv, counter' = counter, behind' = behind, rows' = rows,
           \A k \in Key : Pending(k)' <= Pending(k)
    PROVE  CounterKnows'
<1> SUFFICES ASSUME NEW k \in Key \ behind, counter[k] > 0
             PROVE  Cardinality(DeathsOf(k)') + Pending(k)' <= counter[k]
  BY DEF CounterKnows
<1>1. DeathsOf(k)' = DeathsOf(k) /\ Cardinality(DeathsOf(k)) \in Nat /\ counter[k] \in Int
  BY DeathsStay, DeathsCard DEF BInv, IInv, TypeOK
<1>2. Cardinality(DeathsOf(k)) + Pending(k) <= counter[k]
  BY DEF BInv, CounterKnows
<1>3. Pending(k) \in Nat /\ Pending(k)' \in Nat /\ Pending(k)' <= Pending(k)
  BY DEF Pending
<1> QED BY <1>1, <1>2, <1>3

\* A row is appended of a death that was pending, or of none.
LEMMA AppendKnows ==
    ASSUME BInv, counter' = counter, behind' = behind,
           NEW r \in Row, rows' = Append(rows, r),
           \A k \in Key : Pending(k)' <= Pending(k),
           r.reason = "dead" => Pending(r.key) = 1 /\ Pending(r.key)' = 0
    PROVE  CounterKnows'
<1> SUFFICES ASSUME NEW k \in Key \ behind, counter[k] > 0
             PROVE  Cardinality(DeathsOf(k)') + Pending(k)' <= counter[k]
  BY DEF CounterKnows
<1>1. TypeOK /\ Cardinality(DeathsOf(k)) \in Nat /\ counter[k] \in Int
  BY DeathsCard DEF BInv, IInv, TypeOK
<1>2. Cardinality(DeathsOf(k)) + Pending(k) <= counter[k]
  BY DEF BInv, CounterKnows
<1>3. Pending(k) \in Nat /\ Pending(k)' \in Nat /\ Pending(k)' <= Pending(k)
  BY DEF Pending
<1>4. CASE r.key = k /\ r.reason = "dead"
  <2>1. Cardinality(DeathsOf(k)') <= Cardinality(DeathsOf(k)) + 1
    BY <1>1, <1>4, DeathsAppend
  <2>2. Pending(k) = 1 /\ Pending(k)' = 0
    BY <1>4
  <2>3. Cardinality(DeathsOf(k)') \in Nat
    <3>1. rows' \in Seq(Row)
      BY <1>1, Rows DEF TypeOK
    <3>2. DeathsOf(k)' \subseteq DOMAIN rows'
      BY DEF DeathsOf
    <3> QED BY <3>1, <3>2, Places
  <2> QED BY <1>1, <1>2, <2>1, <2>2, <2>3
<1>5. CASE ~(r.key = k /\ r.reason = "dead")
  <2>1. DeathsOf(k)' = DeathsOf(k)
    BY <1>1, <1>5, DeathsAppend
  <2> QED BY <1>1, <1>2, <1>3, <2>1
<1> QED BY <1>4, <1>5

LEMMA StepKnows == BInv /\ [Next]_vars => CounterKnows'
<1> SUFFICES ASSUME BInv, [Next]_vars PROVE CounterKnows'
  OBVIOUS
<1>1. ASSUME NEW p \in Offer, Skips(p) PROVE CounterKnows'
  <2>1. pc' = pc /\ job' = job /\ counter' = counter /\ behind' = behind
    BY <1>1 DEF Skips
  <2>2. \A k \in Key : Pending(k)' <= Pending(k)
    BY <2>1 DEF Pending
  <2>3. Plan(p, "skip") \in Row /\ Plan(p, "skip").reason # "dead"
    BY PlanType DEF Reason, Plan
  <2>4. CASE rows' = Append(rows, Plan(p, "skip"))
    BY <2>1, <2>2, <2>3, <2>4, AppendKnows
  <2>5. CASE rows' = rows
    BY <2>1, <2>2, <2>5, QuietKnows
  <2> QED BY <1>1, <2>4, <2>5 DEF Skips
<1>2. ASSUME NEW p \in Offer, Starts(p) PROVE CounterKnows'
  <2>1. /\ counter' = counter /\ behind' = behind /\ rows' = rows
        /\ \A k \in Key : Pending(k)' <= Pending(k)
    BY <1>2 DEF Starts, Pending
  <2> QED BY <2>1, QuietKnows
<1>3. ASSUME NEW reason \in {"spared", "failed"}, Ends(reason) PROVE CounterKnows'
  <2>1. job \in Row
    BY <1>3 DEF Ends, BInv, IInv, TypeOK
  <2>2. job'.reason # "dead"
    BY <1>3, <2>1 DEF Ends, Row
  <2>3. /\ counter' = counter /\ behind' = behind /\ rows' = rows
        /\ \A k \in Key : Pending(k)' <= Pending(k)
    BY <1>3, <2>2 DEF Ends, Pending
  <2> QED BY <2>3, QuietKnows
<1>4. CASE Pauses \/ OutcomeWritten \/ Killed
  <2>1. /\ counter' = counter /\ behind' = behind /\ rows' = rows
        /\ pc' = "idle"
    BY <1>4 DEF Pauses, OutcomeWritten, Killed
  <2>2. \A k \in Key : Pending(k)' <= Pending(k)
    BY <2>1 DEF Pending
  <2> QED BY <2>1, <2>2, QuietKnows
<1>5. CASE Dies
  BY <1>5, DiesKnows
<1>6. CASE ResultWritten
  <2>1. /\ pc = "decided" /\ pc' = "rowed" /\ job \in Row /\ job' = job
        /\ counter' = counter /\ behind' = behind
    BY <1>6 DEF ResultWritten, BInv, IInv, TypeOK
  <2>2. /\ \A k \in Key : Pending(k)' <= Pending(k)
        /\ job.reason = "dead" => Pending(job.key) = 1 /\ Pending(job.key)' = 0
    BY <2>1 DEF Pending
  <2>3. CASE rows' = Append(rows, job)
    BY <2>1, <2>2, <2>3, AppendKnows
  <2>4. CASE rows' = rows
    BY <2>1, <2>2, <2>4, QuietKnows
  <2> QED BY <1>6, <2>3, <2>4 DEF ResultWritten
<1>7. CASE RowExpires
  <2> SUFFICES ASSUME NEW k \in Key \ behind', counter'[k] > 0
               PROVE  Cardinality(DeathsOf(k)') + Pending(k)' <= counter'[k]
    BY DEF CounterKnows
  <2>1. /\ TypeOK /\ rows # <<>> /\ rows' = Tail(rows)
        /\ counter' = counter /\ behind' = behind /\ pc' = pc /\ job' = job
    BY <1>7 DEF RowExpires, BInv, IInv
  <2>2. Cardinality(DeathsOf(k)') <= Cardinality(DeathsOf(k))
    BY <2>1, DeathsExpire
  <2>3. Pending(k)' = Pending(k) /\ Pending(k) \in Nat
    BY <2>1 DEF Pending
  <2>4. Cardinality(DeathsOf(k)) + Pending(k) <= counter[k]
    BY <2>1 DEF BInv, CounterKnows
  <2>5. Cardinality(DeathsOf(k)) \in Nat /\ Cardinality(DeathsOf(k)') \in Nat /\ counter[k] \in Int
    <3>1. rows' \in Seq(Row)
      BY <2>1, Tails DEF TypeOK
    <3>2. DeathsOf(k)' \subseteq DOMAIN rows'
      BY DEF DeathsOf
    <3>3. Cardinality(DeathsOf(k)') \in Nat
      BY <3>1, <3>2, Places
    <3> QED BY <2>1, <3>3, DeathsCard DEF TypeOK
  <2> QED BY <2>1, <2>2, <2>3, <2>4, <2>5
<1>8. ASSUME NEW k \in Key, MonthPasses(k) PROVE CounterKnows'
  <2>1. /\ counter' = counter /\ behind' = behind /\ rows' = rows
        /\ \A h \in Key : Pending(h)' <= Pending(h)
    BY <1>8 DEF MonthPasses, Pending
  <2> QED BY <2>1, QuietKnows
<1>9. ASSUME NEW k \in Key, CounterLost(k) PROVE CounterKnows'
  <2> SUFFICES ASSUME NEW h \in Key \ behind', counter'[h] > 0
               PROVE  Cardinality(DeathsOf(h)') + Pending(h)' <= counter'[h]
    BY DEF CounterKnows
  <2>1. /\ counter \in [Key -> Int] /\ counter' = [counter EXCEPT ![k] = Missing]
        /\ behind' = behind /\ rows' = rows /\ pc' = pc /\ job' = job
    BY <1>9 DEF CounterLost, BInv, IInv, TypeOK
  <2>2. h # k
    BY <2>1 DEF Missing
  <2>3. DeathsOf(h)' = DeathsOf(h) /\ Pending(h)' = Pending(h) /\ counter'[h] = counter[h]
    BY <2>1, <2>2, DeathsStay DEF Pending
  <2> QED BY <2>1, <2>3 DEF BInv, CounterKnows
<1>10. CASE UNCHANGED vars
  <2>1. /\ counter' = counter /\ behind' = behind /\ rows' = rows
        /\ \A h \in Key : Pending(h)' <= Pending(h)
    BY <1>10 DEF vars, Pending
  <2> QED BY <2>1, QuietKnows
<1> QED BY <1>1, <1>2, <1>3, <1>4, <1>5, <1>6, <1>7, <1>8, <1>9, <1>10 DEF Next

\* The places of the failures newer than row i, and of the deaths of the
\* attempt's own work that the scan looks at.
Newer(i) == {j \in DOMAIN rows : j > i /\ Counts(j)}
Near == {i \in DeathsOf(job.key) : Scanned(i) /\ rows[i].title = job.title}

LEMMA Finite ==
    ASSUME TypeOK
    PROVE  /\ \A i \in Int : IsFiniteSet(Newer(i)) /\ Newer(i) \subseteq Int
                            /\ Cardinality(Newer(i)) \in Nat
           /\ IsFiniteSet(Near) /\ Near \subseteq Int /\ Cardinality(Near) \in Nat
<1>1. rows \in Seq(Row) /\ Near \subseteq DOMAIN rows /\ \A i \in Int : Newer(i) \subseteq DOMAIN rows
  BY DEF TypeOK, Near, DeathsOf, Newer
<1> QED BY <1>1, Places

\* A work that is not suppressed has a budget left, or nothing is seen of it.
LEMMA StartHolds ==
    ASSUME BInv, NEW p \in Offer, Starts(p)
    PROVE  BudgetHolds'
<1> SUFFICES ASSUME job'.key \notin behind' PROVE Cardinality(Near') < Max
  BY DEF BudgetHolds, Near
<1> DEFINE r == Plan(p, "spared")
<1>1. /\ r \in Row /\ r.key \in Key /\ job' = r /\ r.title = p[2]
      /\ rows' = rows /\ counter' = counter /\ behind' = behind
  BY PlanType DEF Reason, Starts, Plan, Row
<1> HIDE DEF r
<1>2. TypeOK /\ TypeOK' /\ counter[r.key] \in Int /\ counter[r.key] # 0
  <2>1. TypeOK'
    BY StepInv DEF BInv, Next, IInv
  <2> QED BY <1>1, <2>1 DEF BInv, IInv, TypeOK
<1>3. Near' \subseteq DeathsOf(r.key)
  BY <1>1 DEF Near, DeathsOf
<1>4. Max \in Nat \ {0}
  BY RetryAssumption
<1>5. CASE Exhausted(counter[r.key])
  <2>1. ASSUME NEW i \in Near' PROVE FALSE
    <3>1. i \in DOMAIN rows /\ rows[i].key = r.key /\ rows[i].reason = "dead" /\ rows[i].title = p[2]
      BY <1>1, <2>1 DEF Near, DeathsOf
    <3>2. Counts(i)
      BY <1>5, <3>1 DEF Counts, IsFailure
    <3>3. Scanned(i)
      BY <1>1, <2>1 DEF Near, Scanned, Counts, IsFailure
    <3> QED BY <3>1, <3>2, <3>3 DEF Starts, Suppressed
  <2>2. Cardinality(Near') = 0
    BY <2>1, FS_EmptySet
  <2> QED BY <1>4, <2>2
<1>6. CASE ~Exhausted(counter[r.key])
  <2>1. counter[r.key] > 0 /\ counter[r.key] < Max
    BY <1>2, <1>4, <1>6 DEF Exhausted
  <2>2. Cardinality(DeathsOf(r.key)) + Pending(r.key) <= counter[r.key]
    BY <1>1, <2>1 DEF BInv, CounterKnows
  <2>3. Pending(r.key) \in Nat
    BY DEF Pending
  <2>4. IsFiniteSet(DeathsOf(r.key)) /\ Cardinality(DeathsOf(r.key)) \in Nat
    BY <1>2, DeathsCard
  <2>5. Cardinality(Near') <= Cardinality(DeathsOf(r.key)) /\ Cardinality(Near') \in Nat
    <3>1. Cardinality(Near') <= Cardinality(DeathsOf(r.key)) /\ IsFiniteSet(Near')
      BY <1>3, <2>4, FS_Subset
    <3> QED BY <3>1, FS_CardinalityType
  <2> QED BY <1>2, <1>4, <2>1, <2>2, <2>3, <2>4, <2>5
<1> QED BY <1>5, <1>6

\* With the oldest row gone the scan reaches no further back.
LEMMA ExpireHolds == BInv /\ RowExpires => BudgetHolds'
<1> SUFFICES ASSUME BInv, RowExpires, pc = "runs", job.key \notin behind
             PROVE  Cardinality(Near') < Max
  BY DEF RowExpires, BudgetHolds, Near
<1>1. /\ TypeOK /\ rows # <<>> /\ rows' = Tail(rows) /\ counter' = counter /\ job' = job
  BY DEF RowExpires, BInv, IInv
<1>2. TypeOK'
  BY StepInv DEF BInv, Next, IInv
<1>3. /\ rows \in Seq(Row) /\ rows' \in Seq(Row)
      /\ DOMAIN rows = 1 .. Len(rows) /\ DOMAIN rows' = 1 .. Len(rows) - 1
      /\ Len(rows) \in Nat
      /\ \A i \in DOMAIN rows' : i + 1 \in DOMAIN rows /\ rows'[i] = rows[i + 1]
  <2>1. rows \in Seq(Row) /\ Len(rows) \in Nat /\ DOMAIN rows = 1 .. Len(rows)
    BY <1>1, LenProperties DEF TypeOK
  <2>2. rows' \in Seq(Row) /\ \A i \in DOMAIN rows' : i + 1 \in DOMAIN rows /\ rows'[i] = rows[i + 1]
    BY <1>1, <2>1, Tails
  <2>3. DOMAIN rows' = 1 .. Len(rows) - 1
    BY <1>1, <2>1, HeadTailProperties, LenProperties
  <2> QED BY <2>1, <2>2, <2>3
<1>4. ASSUME NEW i \in DOMAIN rows' PROVE Counts(i)' <=> Counts(i + 1)
  BY <1>1, <1>3 DEF Counts, IsFailure
<1>5. ASSUME NEW i \in DOMAIN rows', Scanned(i)' PROVE Scanned(i + 1)
  <2>1. \A x \in Newer(i + 1) : x + (-1) \in Newer(i)'
    <3> SUFFICES ASSUME NEW x \in Newer(i + 1) PROVE x + (-1) \in Newer(i)'
      OBVIOUS
    <3>1. x \in DOMAIN rows /\ x > i + 1 /\ Counts(x)
      BY DEF Newer
    <3>2. x - 1 \in DOMAIN rows' /\ x - 1 > i /\ (x - 1) + 1 = x /\ x - 1 = x + (-1)
      BY <1>3, <3>1
    <3>3. Counts(x - 1)'
      BY <1>4, <3>1, <3>2
    <3> QED BY <3>2, <3>3 DEF Newer
  <2>2. i \in Int /\ i + 1 \in Int /\ -1 \in Int
    BY <1>3
  <2>3. /\ Newer(i + 1) \subseteq Int /\ Cardinality(Newer(i + 1)) \in Nat
    BY <1>1, <2>2, Finite
  <2>4. IsFiniteSet(Newer(i)') /\ Cardinality(Newer(i)') \in Nat
    <3>1. Newer(i)' \subseteq DOMAIN rows'
      BY DEF Newer
    <3> QED BY <1>3, <3>1, Places
  <2>5. Cardinality(Newer(i + 1)) <= Cardinality(Newer(i)')
    BY <2>1, <2>2, <2>3, <2>4, Moved
  <2>6. Cardinality(Newer(i)') < MaxScan
    BY <1>5 DEF Scanned, Newer
  <2>7. Cardinality(Newer(i + 1)) < MaxScan
    BY <2>3, <2>4, <2>5, <2>6, RetryAssumption
  <2> QED BY <2>7 DEF Scanned, Newer
<1>6. \A i \in Near' : i + 1 \in Near
  <2> SUFFICES ASSUME NEW i \in Near' PROVE i + 1 \in Near
    OBVIOUS
  <2>1. i \in DeathsOf(job.key)' /\ Scanned(i)' /\ rows'[i].title = job.title /\ i \in DOMAIN rows'
    BY <1>1 DEF Near, DeathsOf
  <2>2. i + 1 \in DeathsOf(job.key)
    BY <1>1, <2>1, DeathsExpire
  <2>3. Scanned(i + 1) /\ rows[i + 1].title = job.title
    BY <1>3, <1>5, <2>1
  <2> QED BY <2>2, <2>3 DEF Near
<1>7. /\ Near' \subseteq Int /\ Cardinality(Near') \in Nat
  <2>1. Near' \subseteq DOMAIN rows'
    BY DEF Near, DeathsOf
  <2> QED BY <1>3, <2>1, Places
<1>8. IsFiniteSet(Near) /\ Cardinality(Near) \in Nat
  BY <1>1, Finite
<1>9. Cardinality(Near') <= Cardinality(Near)
  <2>1. \A d \in Int : (\A x \in Near' : x + d \in Near) => Cardinality(Near') <= Cardinality(Near)
    BY <1>7, <1>8, Moved
  <2> QED BY <1>6, <2>1
<1>10. Cardinality(Near) < Max
  BY DEF BInv, BudgetHolds, Near
<1> QED BY <1>7, <1>8, <1>9, <1>10, RetryAssumption

\* A counter that is lost is spent: more rows count, and the scan sees less.
LEMMA LostHolds ==
    ASSUME BInv, NEW k \in Key, CounterLost(k)
    PROVE  BudgetHolds'
<1> SUFFICES ASSUME pc = "runs", job.key \notin behind
             PROVE  Cardinality(Near') < Max
  BY DEF CounterLost, BudgetHolds, Near
<1>1. /\ TypeOK /\ rows' = rows /\ job' = job /\ counter \in [Key -> Int]
      /\ counter' = [counter EXCEPT ![k] = Missing]
  BY DEF CounterLost, BInv, IInv, TypeOK
<1>2. ASSUME NEW i \in DOMAIN rows, Counts(i) PROVE Counts(i)'
  <2>1. rows[i].key \in Key
    BY <1>1, RowAt DEF TypeOK
  <2>2. counter'[rows[i].key] = counter[rows[i].key] \/ Exhausted(counter'[rows[i].key])
    BY <1>1, <2>1 DEF Exhausted, Missing
  <2> QED BY <1>1, <1>2, <2>2 DEF Counts, IsFailure
<1>3. ASSUME NEW i \in DOMAIN rows, Scanned(i)' PROVE Scanned(i)
  <2>1. Newer(i) \subseteq Newer(i)' /\ Newer(i)' \subseteq DOMAIN rows
    BY <1>1, <1>2 DEF Newer
  <2>2. IsFiniteSet(Newer(i)') /\ Cardinality(Newer(i)') \in Nat
    BY <1>1, <2>1, Places DEF TypeOK
  <2>3. Cardinality(Newer(i)) <= Cardinality(Newer(i)') /\ Cardinality(Newer(i)) \in Nat
    BY <2>1, <2>2, FS_Subset, FS_CardinalityType
  <2>4. Cardinality(Newer(i)') < MaxScan
    BY <1>3 DEF Scanned, Newer
  <2>5. Cardinality(Newer(i)) < MaxScan
    BY <2>2, <2>3, <2>4, RetryAssumption
  <2> QED BY <2>5 DEF Scanned, Newer
<1>4. Near' \subseteq Near
  BY <1>1, <1>3 DEF Near, DeathsOf
<1>5. IsFiniteSet(Near) /\ Cardinality(Near) \in Nat
  BY <1>1, Finite
<1>6. Cardinality(Near') <= Cardinality(Near) /\ Cardinality(Near') \in Nat
  BY <1>4, <1>5, FS_Subset, FS_CardinalityType
<1>7. Cardinality(Near) < Max
  BY DEF BInv, BudgetHolds, Near
<1> QED BY <1>5, <1>6, <1>7, RetryAssumption

LEMMA StepBudget == BInv /\ [Next]_vars => BudgetHolds'
<1> SUFFICES ASSUME BInv, [Next]_vars PROVE BudgetHolds'
  OBVIOUS
<1>1. ASSUME NEW p \in Offer, Skips(p) PROVE BudgetHolds'
  BY <1>1 DEF Skips, BudgetHolds
<1>2. ASSUME NEW p \in Offer, Starts(p) PROVE BudgetHolds'
  BY <1>2, StartHolds
<1>3. ASSUME NEW reason \in {"spared", "failed"}, Ends(reason) PROVE BudgetHolds'
  BY <1>3 DEF Ends, BudgetHolds
<1>4. CASE Pauses \/ Dies \/ ResultWritten \/ OutcomeWritten \/ Killed
  <2>1. pc' # "runs"
    BY <1>4 DEF Pauses, Dies, ResultWritten, OutcomeWritten, Killed
  <2> QED BY <2>1 DEF BudgetHolds
<1>5. CASE RowExpires
  BY <1>5, ExpireHolds
<1>6. ASSUME NEW k \in Key, MonthPasses(k) PROVE BudgetHolds'
  BY <1>6 DEF MonthPasses, BInv, BudgetHolds, DeathsOf, Scanned, Counts
<1>7. ASSUME NEW k \in Key, CounterLost(k) PROVE BudgetHolds'
  BY <1>7, LostHolds
<1>8. CASE UNCHANGED vars
  BY <1>8 DEF vars, BInv, BudgetHolds, DeathsOf, Scanned, Counts
<1> QED BY <1>1, <1>2, <1>3, <1>4, <1>5, <1>6, <1>7, <1>8 DEF Next

\* _decide_handled_marker and _recent_failure_match together, for any keys,
\* titles, budget and scan length: an attempt runs only while fewer than Max
\* deaths of its work are in sight, unless its counter is behind them.
THEOREM BudgetIsKept == Spec => []BudgetHolds
<1>1. Init => BInv
  <2> SUFFICES ASSUME Init PROVE BInv
    OBVIOUS
  <2>1. IInv /\ BudgetHolds
    BY InitInv DEF Init, BudgetHolds
  <2>2. CounterKnows
    BY DEF Init, CounterKnows, Missing
  <2> QED BY <2>1, <2>2 DEF BInv
<1>2. BInv /\ [Next]_vars => BInv'
  BY StepInv, StepKnows, StepBudget DEF BInv
<1> QED BY <1>1, <1>2, PTL DEF Spec, BInv
=============================================================================
