------------------------ MODULE PlannerGuardsProofs ------------------------
(***************************************************************************)
(* PlannerGuards for any thresholds: its types, that a failing planner is  *)
(* stopped in time whatever is lost, and that without faults the two files *)
(* say what the sessions were.                                             *)
(***************************************************************************)
EXTENDS PlannerGuards, TLAPS

LEMMA OutcomesDiffer ==
    /\ Supply # Planner /\ Supply # Infra /\ Supply # Plan /\ Supply # Rest
    /\ Planner # Infra /\ Planner # Plan /\ Planner # Rest
    /\ Infra # Plan /\ Infra # Rest /\ Plan # Rest
    /\ None \notin Outcome
BY DEF Supply, Planner, Infra, Plan, Rest, None, Outcome
-----------------------------------------------------------------------------
(* The two files' types                                                     *)

LEMMA EmptyRecoveryType == EmptyRecovery \in RecoveryType
BY DEF EmptyRecovery, RecoveryType

LEMMA CountedType ==
    ASSUME NEW r \in RecoveryType, NEW o
    PROVE  Counted(r, o) \in RecoveryType
<1>1. SupplyFailed(r) \in RecoveryType
  <2>1. r.supply + 1 \in Nat /\ r.minimal \in BOOLEAN /\ r.stopped \in BOOLEAN
    BY DEF RecoveryType
  <2>2. (r.supplyDegraded \/ r.supply + 1 >= SupplyAt) \in BOOLEAN
    OBVIOUS
  <2> QED BY <2>1, <2>2 DEF SupplyFailed, RecoveryType
<1>2. PlannerFailed(r) \in RecoveryType
  <2> DEFINE stop == r.planner + 1 >= StopAt /\ ~r.stopped
  <2>1. r.planner + 1 \in Nat /\ r.supplyDegraded \in BOOLEAN
    BY DEF RecoveryType
  <2>2. (r.minimal \/ (~stop /\ r.planner + 1 >= DegradedAt)) \in BOOLEAN
    OBVIOUS
  <2>3. (r.stopped \/ stop) \in BOOLEAN
    OBVIOUS
  <2>4. PlannerFailed(r) = [supply |-> 0, planner |-> r.planner + 1,
            minimal |-> r.minimal \/ (~stop /\ r.planner + 1 >= DegradedAt),
            stopped |-> r.stopped \/ stop, supplyDegraded |-> r.supplyDegraded]
    BY DEF PlannerFailed
  <2> HIDE DEF stop
  <2> QED BY <2>1, <2>2, <2>3, <2>4 DEF RecoveryType
<1> QED BY <1>1, <1>2, EmptyRecoveryType DEF Counted

LEMMA EmptyRestType == EmptyRest \in RestType
BY DEF EmptyRest, RestType, None, NoVersion

LEMMA RestedType ==
    ASSUME NEW r \in RestType, NEW i \in Input, NEW v \in Versions \cup {NoVersion}
    PROVE  Rested(r, i, v) \in RestType
BY DEF Rested, RestType, None

LEMMA SeenType ==
    ASSUME TypeOK, NEW i \in Input
    PROVE  Seen(i) \subseteq Versions \cup {NoVersion}
BY DEF TypeOK, Seen

LEMMA AppendType ==
    ASSUME NEW S, NEW s \in Seq(S), NEW e \in S
    PROVE  Append(s, e) \in Seq(S)
OBVIOUS

LEMMA EmptySeqType ==
    ASSUME NEW S
    PROVE  <<>> \in Seq(S)
OBVIOUS

THEOREM TypeCorrect == Spec => []TypeOK
<1>1. Init => TypeOK
  BY GuardsAssumption, EmptyRecoveryType, EmptyRestType
  DEF GuardsAssumption, Init, TypeOK, Versions
<1>2. TypeOK /\ [Next]_vars => TypeOK'
  <2> SUFFICES ASSUME TypeOK, [Next]_vars PROVE TypeOK'
    OBVIOUS
  <2> USE DEF TypeOK, Fault, files, world, aux
  <2>1. CASE StartTick
    BY <2>1 DEF StartTick
  <2>2. CASE HeldTickWipes
    BY <2>2, EmptyRestType DEF HeldTickWipes
  <2>3. CASE Prepared
    BY <2>3, GuardsAssumption DEF Prepared, GuardsAssumption
  <2>4. CASE NotPrepared
    BY <2>4 DEF NotPrepared
  <2>5. CASE Gate
    BY <2>5 DEF Gate
  <2>6. CASE SessionRaises
    BY <2>6 DEF SessionRaises
  <2>7. ASSUME NEW o \in Outcome, SessionEnds(o) PROVE TypeOK'
    <3>1. history' \in Seq({Supply, Planner})
      <4>1. CASE o \in {Supply, Planner}
        <5>1. history' = Append(history, o)
          BY <2>7, <4>1 DEF SessionEnds
        <5>2. Append(history, o) \in Seq({Supply, Planner})
          BY <4>1, AppendType
        <5> QED BY <5>1, <5>2
      <4>2. CASE o \notin {Supply, Planner}
        <5>1. history' = <<>> \/ history' = history
          BY <2>7, <4>2 DEF SessionEnds
        <5>2. <<>> \in Seq({Supply, Planner}) /\ history \in Seq({Supply, Planner})
          BY EmptySeqType
        <5> QED BY <5>1, <5>2
      <4> QED BY <4>1, <4>2
    <3> QED BY <2>7, <3>1 DEF SessionEnds
  <2>8. CASE CountOutcome
    <3>1. Counted(recovery, outcome) \in RecoveryType /\ Counted(EmptyRecovery, outcome) \in RecoveryType
      BY CountedType, EmptyRecoveryType
    <3> QED BY <2>8, <3>1 DEF CountOutcome, Saved
  <2>9. CASE NoteRest
    <3>1. PICK i \in Input : \E v \in Seen(i) :
              \/ rest' = Rested(rest, i, v) /\ faults' = faults
              \/ rest' = Rested(EmptyRest, i, v) /\ Fault
              \/ rest' = rest /\ Fault
      BY <2>9 DEF NoteRest, Saved
    <3>2. rest' \in RestType /\ faults' \in Nat
      BY <3>1, RestedType, EmptyRestType, SeenType
    <3> QED BY <2>9, <3>2 DEF NoteRest
  <2>10. CASE NoteOther
    BY <2>10, EmptyRestType DEF NoteOther
  <2>11. CASE OperatorResumes
    <3>1. recovery' \in RecoveryType
      BY <2>11 DEF OperatorResumes, RecoveryType
    <3> QED BY <2>11, <3>1 DEF OperatorResumes
  <2>12. CASE Killed
    BY <2>12 DEF Killed
  <2>13. CASE DeadlinePasses
    BY <2>13 DEF DeadlinePasses, RestType
  <2>14. ASSUME NEW i \in Input, InputChanges(i) PROVE TypeOK'
    <3>1. version[i] + 1 \in Versions
      BY <2>14, GuardsAssumption DEF InputChanges, Versions, GuardsAssumption
    <3> QED BY <2>14, <3>1 DEF InputChanges
  <2>15. CASE UNCHANGED vars
    BY <2>15 DEF vars
  <2> QED BY <2>1, <2>2, <2>3, <2>4, <2>5, <2>6, <2>7, <2>8, <2>9, <2>10, <2>11, <2>12,
             <2>13, <2>14, <2>15 DEF Next, Tick, Session, Record, World
<1> QED BY <1>1, <1>2, PTL DEF Spec
-----------------------------------------------------------------------------
(* Streaks of a history that grows by one                                   *)

LEMMA RunGrows ==
    ASSUME NEW S, NEW h \in Seq(S), NEW f \in S, NEW n \in Nat
    PROVE  Run(Append(h, f), f, n) <=> (n = 0 \/ Run(h, f, n - 1))
<1> DEFINE g == Append(h, f)
<1>1. Len(g) = Len(h) + 1 /\ Len(h) \in Nat /\ g[Len(g)] = f
  OBVIOUS
<1>2. \A k \in 1..Len(h) : g[k] = h[k]
  OBVIOUS
<1> HIDE DEF g
<1>3. CASE n = 0
  BY <1>1, <1>3 DEF Run
<1>4. CASE n > 0
  <2>1. n \in 0..Len(g) <=> n - 1 \in 0..Len(h)
    BY <1>1, <1>4
  <2>2. Len(g) - n + 1 = Len(h) - (n - 1) + 1
    BY <1>1
  <2>3. ASSUME n - 1 \in 0..Len(h)
        PROVE  (\A k \in Len(g) - n + 1 .. Len(g) : g[k] = f)
               <=> (\A k \in Len(h) - (n - 1) + 1 .. Len(h) : h[k] = f)
    <3>1. Len(h) - (n - 1) + 1 \in 1..Len(h) + 1
      BY <2>3, <1>1
    <3>2. \A k \in Len(h) - (n - 1) + 1 .. Len(h) : g[k] = h[k]
      BY <3>1, <1>1, <1>2
    <3>3. ASSUME \A k \in Len(g) - n + 1 .. Len(g) : g[k] = f
          PROVE  \A k \in Len(h) - (n - 1) + 1 .. Len(h) : h[k] = f
      BY <3>2, <3>3, <2>2, <1>1
    <3>4. ASSUME \A k \in Len(h) - (n - 1) + 1 .. Len(h) : h[k] = f,
                 NEW k \in Len(g) - n + 1 .. Len(g)
          PROVE  g[k] = f
      <4>1. k = Len(g) \/ k \in Len(h) - (n - 1) + 1 .. Len(h)
        BY <1>1
      <4> QED BY <4>1, <3>2, <3>4, <1>1
    <3> QED BY <3>3, <3>4
  <2> QED BY <2>1, <2>3, <1>4 DEF Run, g
<1> QED BY <1>3, <1>4

LEMMA RunBroken ==
    ASSUME NEW S, NEW h \in Seq(S), NEW e \in S, NEW f, e # f, NEW n \in Nat
    PROVE  Run(Append(h, e), f, n) <=> n = 0
<1>1. Len(Append(h, e)) = Len(h) + 1 /\ Len(h) \in Nat
      /\ Append(h, e)[Len(h) + 1] = e
  OBVIOUS
<1> QED BY <1>1 DEF Run

LEMMA NoRun ==
    ASSUME NEW f, NEW n \in Nat
    PROVE  Run(<<>>, f, n) <=> n = 0
BY DEF Run

LEMMA RanGrows ==
    ASSUME NEW S, NEW h \in Seq(S), NEW e \in S, NEW f \in S, NEW n \in Nat
    PROVE  Ran(Append(h, e), f, n) <=> (Ran(h, f, n) \/ Run(Append(h, e), f, n))
<1> DEFINE g == Append(h, e)
<1>1. Len(g) = Len(h) + 1 /\ Len(h) \in Nat
  OBVIOUS
<1>2. \A k \in 1..Len(h) : g[k] = h[k]
  OBVIOUS
<1> HIDE DEF g
<1>3. ASSUME Ran(h, f, n) PROVE Ran(g, f, n)
  <2>1. PICK m \in 0..Len(h) - n : \A k \in m + 1 .. m + n : h[k] = f
    BY <1>3 DEF Ran
  <2>2. m \in 0..Len(g) - n /\ m + n <= Len(h)
    BY <1>1
  <2>3. \A k \in m + 1 .. m + n : g[k] = f
    BY <2>1, <2>2, <1>1, <1>2
  <2> QED BY <2>2, <2>3 DEF Ran
<1>4. ASSUME Run(g, f, n) PROVE Ran(g, f, n)
  <2> DEFINE m == Len(g) - n
  <2>1. m \in 0..Len(g) - n /\ m + n = Len(g)
    BY <1>1, <1>4 DEF Run
  <2>2. \A k \in m + 1 .. m + n : g[k] = f
    BY <1>4, <2>1 DEF Run
  <2> QED BY <2>1, <2>2 DEF Ran
<1>5. ASSUME Ran(g, f, n) PROVE Ran(h, f, n) \/ Run(g, f, n)
  <2>1. PICK m \in 0..Len(g) - n : \A k \in m + 1 .. m + n : g[k] = f
    BY <1>5 DEF Ran
  <2>2. CASE m + n = Len(g)
    <3>1. n \in 0..Len(g) /\ Len(g) - n + 1 = m + 1
      BY <2>2, <1>1
    <3> QED BY <3>1, <2>1, <2>2 DEF Run
  <2>3. CASE m + n # Len(g)
    <3>1. m \in 0..Len(h) - n /\ m + n <= Len(h)
      BY <2>3, <1>1
    <3>2. \A k \in m + 1 .. m + n : h[k] = f
      BY <2>1, <3>1, <1>1, <1>2
    <3> QED BY <3>1, <3>2 DEF Ran
  <2> QED BY <2>2, <2>3
<1> QED BY <1>3, <1>4, <1>5 DEF g

\* A shorter streak is inside a longer one.
LEMMA RunImpliesRan ==
    ASSUME NEW S, NEW h \in Seq(S), NEW f, NEW n \in Nat, NEW l \in 0..n, Run(h, f, n)
    PROVE  Ran(h, f, l)
<1>1. Len(h) \in Nat /\ n \in 0..Len(h)
  BY DEF Run
<1> DEFINE m == Len(h) - l
<1>2. m \in 0..Len(h) - l /\ m + l = Len(h)
  BY <1>1
<1>3. \A k \in m + 1 .. m + l : h[k] = f
  BY <1>1, <1>2 DEF Run
<1> QED BY <1>2, <1>3 DEF Ran

LEMMA NotRanEmpty ==
    ASSUME NEW f, NEW n \in Nat \ {0}
    PROVE  ~Ran(<<>>, f, n)
BY DEF Ran
-----------------------------------------------------------------------------
(* A failing planner is stopped in time                                     *)

\* How many planner failures in a row a file r accounts for after f faults
\* and u resumes: a fault hides at most StopAt of them, a resume one.
Worth(r, f, u) ==
    StopAt * f + u +
    (IF r.planner < StopAt THEN r.planner ELSE IF r.stopped THEN StopAt ELSE StopAt - 1)

TailWithin(h, b) == \A n \in 1..Len(h) : Run(h, Planner, n) => n <= b

StopInv ==
    /\ pc # "count" => TailWithin(history, Worth(recovery, faults, resumes))
    /\ pc = "asked" /\ recovery.stopped
           => TailWithin(history, Worth(recovery, faults, resumes) - 1)
    /\ pc = "count"
           => TailWithin(history, Worth(Counted(recovery, outcome), faults, resumes))

LEMMA StopAtLeastTwo == StopAt \in Nat /\ StopAt >= 2
BY GuardsAssumption DEF GuardsAssumption

LEMMA WorthBounds ==
    ASSUME NEW r \in RecoveryType, NEW f \in Nat, NEW u \in Nat
    PROVE  /\ Worth(r, f, u) \in Nat
           /\ StopAt * f + u <= Worth(r, f, u)
           /\ Worth(r, f, u) <= StopAt * f + u + StopAt
           /\ StopAt * (f + 1) + u = StopAt * f + u + StopAt
<1>1. r.planner \in Nat /\ StopAt * f \in Nat
  BY StopAtLeastTwo DEF RecoveryType
<1>2. StopAt * (f + 1) = StopAt * f + StopAt
  BY StopAtLeastTwo
<1> DEFINE w == StopAt * f
<1>3. Worth(r, f, u) = w + u + (IF r.planner < StopAt THEN r.planner
                                ELSE IF r.stopped THEN StopAt ELSE StopAt - 1)
  BY DEF Worth
<1>4. w \in Nat /\ StopAt * (f + 1) = w + StopAt
  BY <1>1, <1>2
<1> HIDE DEF w
<1>5. /\ Worth(r, f, u) \in Nat
      /\ w + u <= Worth(r, f, u)
      /\ Worth(r, f, u) <= w + u + StopAt
      /\ StopAt * (f + 1) + u = w + u + StopAt
  BY <1>1, <1>3, <1>4, StopAtLeastTwo
<1> QED BY <1>5 DEF w

LEMMA TailMonotone ==
    ASSUME NEW S, NEW h \in Seq(S), NEW a \in Int, NEW b \in Int, a <= b, TailWithin(h, a)
    PROVE  TailWithin(h, b)
<1>1. Len(h) \in Nat
  OBVIOUS
<1> QED BY <1>1 DEF TailWithin

\* A counted planner failure is worth one more, unless the bridge was stopped.
LEMMA PlannerFailedWorth ==
    ASSUME NEW r \in RecoveryType, NEW f \in Nat, NEW u \in Nat
    PROVE  /\ ~r.stopped => Worth(PlannerFailed(r), f, u) = Worth(r, f, u) + 1
           /\ r.stopped => Worth(PlannerFailed(r), f, u) >= Worth(r, f, u)
<1>1. r.planner \in Nat /\ StopAt * f \in Nat
  BY StopAtLeastTwo DEF RecoveryType
<1>2. PlannerFailed(r).planner = r.planner + 1
  BY DEF PlannerFailed
<1>3. PlannerFailed(r).stopped <=> (r.stopped \/ (r.planner + 1 >= StopAt /\ ~r.stopped))
  BY DEF PlannerFailed
<1> DEFINE w == StopAt * f
<1>4. Worth(r, f, u) = w + u + (IF r.planner < StopAt THEN r.planner
                                ELSE IF r.stopped THEN StopAt ELSE StopAt - 1)
  BY DEF Worth
<1>5. Worth(PlannerFailed(r), f, u) = w + u +
        (IF PlannerFailed(r).planner < StopAt THEN PlannerFailed(r).planner
         ELSE IF PlannerFailed(r).stopped THEN StopAt ELSE StopAt - 1)
  BY DEF Worth
<1>6. w \in Nat
  BY <1>1
<1> HIDE DEF w
<1>7. ~r.stopped => Worth(PlannerFailed(r), f, u) = Worth(r, f, u) + 1
  BY <1>1, <1>2, <1>3, <1>4, <1>5, <1>6, StopAtLeastTwo
<1>8. r.stopped => Worth(PlannerFailed(r), f, u) >= Worth(r, f, u)
  BY <1>1, <1>2, <1>3, <1>4, <1>5, <1>6, StopAtLeastTwo
<1> QED BY <1>7, <1>8

\* After a fault every file is worth what any file was before it.
LEMMA FaultPays ==
    ASSUME NEW r \in RecoveryType, NEW t \in RecoveryType, NEW f \in Nat, NEW u \in Nat,
           NEW h \in Seq({Supply, Planner}), TailWithin(h, Worth(r, f, u))
    PROVE  TailWithin(h, Worth(t, f + 1, u)) /\ Worth(r, f, u) <= Worth(t, f + 1, u)
<1>1. /\ Worth(r, f, u) \in Nat /\ Worth(r, f, u) <= StopAt * f + u + StopAt
      /\ StopAt * (f + 1) + u = StopAt * f + u + StopAt
  BY WorthBounds
<1>2. f + 1 \in Nat
  OBVIOUS
<1>3. Worth(t, f + 1, u) \in Nat /\ StopAt * (f + 1) + u <= Worth(t, f + 1, u)
  BY <1>2, WorthBounds
<1>4. StopAt * f + u \in Nat
  BY StopAtLeastTwo
<1>5. Worth(r, f, u) <= Worth(t, f + 1, u)
  BY <1>1, <1>3, <1>4, StopAtLeastTwo
<1> QED BY <1>1, <1>3, <1>5, TailMonotone

\* A fault while the bridge is stopped leaves room for one more failure.
LEMMA FaultMakesRoom ==
    ASSUME NEW r \in RecoveryType, NEW f \in Nat, NEW u \in Nat,
           NEW h \in Seq({Supply, Planner}), TailWithin(h, Worth(r, f, u))
    PROVE  TailWithin(h, Worth(r, f + 1, u) - 1)
<1>1. StopAt * f \in Nat /\ StopAt * (f + 1) = StopAt * f + StopAt
  BY StopAtLeastTwo
<1>2. Worth(r, f + 1, u) = Worth(r, f, u) + StopAt
  <2>1. r.planner \in Nat
    BY DEF RecoveryType
  <2> QED BY <1>1, <2>1, StopAtLeastTwo DEF Worth
<1>3. Worth(r, f, u) \in Nat
  BY WorthBounds
<1>4. Worth(r, f, u) <= Worth(r, f + 1, u) - 1 /\ Worth(r, f + 1, u) - 1 \in Int
  BY <1>2, <1>3, StopAtLeastTwo
<1> QED BY <1>3, <1>4, TailMonotone

\* A resume moves one failure from the file to the resumes.
LEMMA ResumePays ==
    ASSUME NEW r \in RecoveryType, r.stopped, NEW f \in Nat, NEW u \in Nat
    PROVE  Worth(r, f, u) <= Worth([r EXCEPT !.stopped = FALSE], f, u + 1)
<1> DEFINE q == [r EXCEPT !.stopped = FALSE]
<1>1. q.planner = r.planner /\ ~q.stopped /\ r.planner \in Nat
  BY DEF RecoveryType
<1>2. StopAt * f \in Nat
  BY StopAtLeastTwo
<1> HIDE DEF q
<1>3. Worth(r, f, u) <= Worth(q, f, u + 1)
  BY <1>1, <1>2, StopAtLeastTwo DEF Worth
<1> QED BY <1>3 DEF q

\* One failure more at the end of the history.
LEMMA TailGrows ==
    ASSUME NEW h \in Seq({Supply, Planner}), NEW b \in Int, TailWithin(h, b), 0 <= b
    PROVE  TailWithin(Append(h, Planner), b + 1)
<1>1. Len(Append(h, Planner)) = Len(h) + 1 /\ Len(h) \in Nat
  OBVIOUS
<1>2. ASSUME NEW n \in 1..Len(h) + 1, Run(Append(h, Planner), Planner, n)
      PROVE  n <= b + 1
  <2>1. Run(h, Planner, n - 1)
    BY <1>1, <1>2, RunGrows
  <2> QED BY <1>1, <1>2, <2>1 DEF TailWithin
<1> QED BY <1>1, <1>2 DEF TailWithin

LEMMA TailBroken ==
    ASSUME NEW h \in Seq({Supply, Planner}), NEW b \in Nat
    PROVE  TailWithin(Append(h, Supply), b) /\ TailWithin(<<>>, b)
<1>1. Len(Append(h, Supply)) = Len(h) + 1 /\ Len(h) \in Nat
  OBVIOUS
<1>2. \A n \in 1..Len(h) + 1 : ~Run(Append(h, Supply), Planner, n)
  BY <1>1, RunBroken, OutcomesDiffer
<1> QED BY <1>1, <1>2 DEF TailWithin

LEMMA StopInvInit == Init => StopInv
<1> SUFFICES ASSUME Init PROVE StopInv
  OBVIOUS
<1>1. \A b \in Int : TailWithin(<<>>, b)
  BY DEF TailWithin
<1>2. Worth(recovery, faults, resumes) \in Nat
  BY WorthBounds, EmptyRecoveryType DEF Init
<1> QED BY <1>1, <1>2 DEF Init, StopInv

\* Steps that leave the history, the file and the resumes alone, with or
\* without a fault.
LEMMA StopInvKept ==
    ASSUME TypeOK, StopInv, UNCHANGED <<recovery, history, resumes>>,
           faults' = faults \/ Fault, pc # "count", pc' \notin {"count", "asked"}
    PROVE  StopInv'
<1>1. TailWithin(history, Worth(recovery, faults, resumes))
  BY DEF StopInv
<1>2. CASE faults' = faults
  BY <1>1, <1>2 DEF StopInv
<1>3. CASE Fault
  <2>1. faults' = faults + 1 /\ recovery \in RecoveryType /\ history \in Seq({Supply, Planner})
        /\ faults \in Nat /\ resumes \in Nat
    BY <1>3 DEF Fault, TypeOK
  <2>2. TailWithin(history, Worth(recovery, faults + 1, resumes))
    BY <1>1, <2>1, FaultPays
  <2> QED BY <2>1, <2>2 DEF StopInv
<1> QED BY <1>2, <1>3

LEMMA StopInvSession ==
    ASSUME TypeOK, StopInv, NEW o \in Outcome, SessionEnds(o)
    PROVE  StopInv'
<1> DEFINE w == Worth(recovery, faults, resumes)
<1>1. /\ recovery \in RecoveryType /\ history \in Seq({Supply, Planner})
      /\ faults \in Nat /\ resumes \in Nat
  BY DEF TypeOK
<1>2. TailWithin(history, w) /\ (recovery.stopped => TailWithin(history, w - 1))
  BY DEF SessionEnds, StopInv
<1>3. /\ UNCHANGED <<recovery, faults, resumes>> /\ outcome' = o
      /\ pc' = IF o = Rest THEN "note" ELSE "count"
  BY DEF SessionEnds, files
<1>4. w \in Nat /\ Counted(recovery, o) \in RecoveryType
  BY <1>1, WorthBounds, CountedType
<1>5. Worth(Counted(recovery, o), faults, resumes) \in Nat
  BY <1>1, <1>4, WorthBounds
<1>6. CASE o = Planner
  <2>1. history' = Append(history, Planner) /\ pc' = "count"
    BY <1>6, <1>3, OutcomesDiffer DEF SessionEnds
  <2>2. Counted(recovery, o) = PlannerFailed(recovery)
    BY <1>6, OutcomesDiffer DEF Counted
  <2>3. CASE recovery.stopped
    <3>1. CASE w = 0
      <4>1. ~\E n \in 1..Len(history) : Run(history, Planner, n)
        BY <1>2, <2>3, <3>1 DEF TailWithin
      <4>2. TailWithin(history, 0)
        BY <4>1 DEF TailWithin
      <4>3. StopAt * faults + resumes <= w
        BY <1>1, WorthBounds
      <4>4. recovery.planner = 0 /\ StopAt * faults + resumes = 0
        BY <3>1, <1>1, StopAtLeastTwo, <4>3 DEF Worth, RecoveryType
      <4>5. PlannerFailed(recovery).planner = 1
        BY <4>4 DEF PlannerFailed
      <4>6. Worth(PlannerFailed(recovery), faults, resumes) = 1
        BY <4>4, <4>5, StopAtLeastTwo DEF Worth
      <4>7. TailWithin(Append(history, Planner), 0 + 1)
        BY <4>2, <1>1, TailGrows
      <4> QED BY <4>6, <4>7, <2>1, <2>2, <1>3 DEF StopInv
    <3>2. CASE w # 0
      <4>1. w - 1 \in Int /\ 0 <= w - 1
        BY <3>2, <1>4
      <4>2. TailWithin(Append(history, Planner), (w - 1) + 1)
        BY <4>1, <1>1, <1>2, <2>3, TailGrows
      <4>3. w <= Worth(PlannerFailed(recovery), faults, resumes)
        BY <1>1, <2>3, PlannerFailedWorth
      <4>4. Append(history, Planner) \in Seq({Supply, Planner})
        BY <1>1, AppendType
      <4>5. (w - 1) + 1 = w
        BY <1>4
      <4>6. TailWithin(Append(history, Planner), Worth(PlannerFailed(recovery), faults, resumes))
        <5>1. TailWithin(Append(history, Planner), w)
          BY <4>2, <4>5
        <5>2. w \in Int /\ Worth(PlannerFailed(recovery), faults, resumes) \in Int
          BY <1>4, <1>5, <2>2
        <5> HIDE DEF w
        <5> QED BY <5>1, <5>2, <4>3, <4>4, TailMonotone
      <4> QED BY <4>6, <2>1, <2>2, <1>3 DEF StopInv
    <3> QED BY <3>1, <3>2
  <2>4. CASE ~recovery.stopped
    <3>1. TailWithin(Append(history, Planner), w + 1)
      BY <1>1, <1>2, <1>4, TailGrows
    <3>2. Worth(PlannerFailed(recovery), faults, resumes) = w + 1
      BY <1>1, <2>4, PlannerFailedWorth
    <3> QED BY <3>1, <3>2, <2>1, <2>2, <1>3 DEF StopInv
  <2> QED BY <2>3, <2>4
<1>7. CASE o = Supply
  <2>1. history' = Append(history, Supply) /\ pc' = "count"
    BY <1>7, <1>3, OutcomesDiffer DEF SessionEnds
  <2>2. TailWithin(Append(history, Supply), Worth(Counted(recovery, o), faults, resumes))
    BY <1>1, <1>5, TailBroken
  <2> QED BY <2>1, <2>2, <1>3 DEF StopInv
<1>8. CASE o = Plan
  <2>1. history' = <<>> /\ pc' = "count"
    BY <1>8, <1>3, OutcomesDiffer DEF SessionEnds
  <2>2. TailWithin(<<>>, Worth(Counted(recovery, o), faults, resumes))
    BY <1>1, <1>5, TailBroken
  <2> QED BY <2>1, <2>2, <1>3 DEF StopInv
<1>9. CASE o \in {Infra, Rest}
  <2>1. history' = history /\ Counted(recovery, o) = recovery
    BY <1>9, OutcomesDiffer DEF SessionEnds, Counted
  <2> QED BY <2>1, <1>2, <1>3 DEF StopInv
<1> QED BY <1>6, <1>7, <1>8, <1>9 DEF Outcome

LEMMA StopInvCount ==
    ASSUME TypeOK, StopInv, CountOutcome
    PROVE  StopInv'
<1> DEFINE new == Counted(recovery, outcome)
<1>1. /\ recovery \in RecoveryType /\ history \in Seq({Supply, Planner})
      /\ faults \in Nat /\ resumes \in Nat
      /\ new \in RecoveryType /\ Counted(EmptyRecovery, outcome) \in RecoveryType
  BY CountedType, EmptyRecoveryType DEF TypeOK
<1>2. TailWithin(history, Worth(new, faults, resumes))
  BY DEF CountOutcome, StopInv
<1>3. UNCHANGED <<history, resumes>> /\ pc' = "note"
  BY DEF CountOutcome
<1>4. CASE outcome = Infra
  <2>1. new = recovery /\ UNCHANGED <<recovery, faults>>
    BY <1>4, OutcomesDiffer DEF CountOutcome, Counted
  <2> QED BY <2>1, <1>2, <1>3 DEF StopInv
<1>5. CASE outcome # Infra
  <2>1. \/ recovery' = new /\ faults' = faults
        \/ recovery' = Counted(EmptyRecovery, outcome) /\ faults' = faults + 1
        \/ recovery' = recovery /\ faults' = faults + 1
    BY <1>5 DEF CountOutcome, Saved, Fault
  <2>2. CASE recovery' = new /\ faults' = faults
    BY <2>2, <1>2, <1>3 DEF StopInv
  <2>3. CASE faults' = faults + 1 /\ recovery' \in RecoveryType
    <3>1. TailWithin(history, Worth(recovery', faults + 1, resumes))
      BY <2>3, <1>1, <1>2, FaultPays
    <3> QED BY <3>1, <2>3, <1>3 DEF StopInv
  <2> QED BY <2>1, <2>2, <2>3, <1>1
<1> QED BY <1>4, <1>5

\* Every bridge stops a failing planner in time, whatever is lost.
THEOREM StopsInTime == Spec => []StoppedInTime
<1>1. TypeOK /\ StopInv /\ [Next]_vars => StopInv'
  <2> SUFFICES ASSUME TypeOK, StopInv, [Next]_vars PROVE StopInv'
    OBVIOUS
  <2> USE DEF files, world, aux
  <2>1. CASE StartTick
    BY <2>1, StopInvKept DEF StartTick
  <2>2. CASE HeldTickWipes
    BY <2>2, StopInvKept DEF HeldTickWipes
  <2>3. CASE Prepared
    BY <2>3, StopInvKept DEF Prepared
  <2>4. CASE NotPrepared
    BY <2>4, StopInvKept DEF NotPrepared
  <2>5. CASE Gate
    <3>1. pc = "gate" /\ UNCHANGED <<recovery, history, resumes>>
      BY <2>5 DEF Gate
    <3>2. TailWithin(history, Worth(recovery, faults, resumes))
      BY <3>1 DEF StopInv
    <3>3. \/ faults' = faults /\ (pc' = "idle" \/ (pc' = "asked" /\ ~recovery.stopped))
          \/ faults' = faults + 1 /\ pc' \in {"idle", "asked"}
      BY <2>5 DEF Gate, Fault
    <3>4. CASE faults' = faults
      BY <3>1, <3>2, <3>3, <3>4 DEF StopInv, TypeOK
    <3>5. CASE faults' = faults + 1 /\ pc' \in {"idle", "asked"}
      <4>1. /\ recovery \in RecoveryType /\ history \in Seq({Supply, Planner})
            /\ faults \in Nat /\ resumes \in Nat
        BY DEF TypeOK
      <4>2. TailWithin(history, Worth(recovery, faults + 1, resumes))
        BY <3>2, <4>1, FaultPays
      <4>3. TailWithin(history, Worth(recovery, faults + 1, resumes) - 1)
        BY <3>2, <4>1, FaultMakesRoom
      <4> QED BY <4>2, <4>3, <3>1, <3>5 DEF StopInv
    <3> QED BY <3>3, <3>4, <3>5
  <2>6. CASE SessionRaises
    BY <2>6, StopInvKept DEF SessionRaises
  <2>7. ASSUME NEW o \in Outcome, SessionEnds(o) PROVE StopInv'
    BY <2>7, StopInvSession
  <2>8. CASE CountOutcome
    BY <2>8, StopInvCount
  <2>9. CASE NoteRest
    <3>1. faults' = faults \/ Fault
      BY <2>9 DEF NoteRest, Saved
    <3> QED BY <2>9, <3>1, StopInvKept DEF NoteRest
  <2>10. CASE NoteOther
    BY <2>10, StopInvKept DEF NoteOther
  <2>11. CASE OperatorResumes
    <3> DEFINE new == [recovery EXCEPT !.stopped = FALSE]
    <3>1. /\ pc = "idle" /\ pc' = "idle" /\ recovery.stopped /\ recovery' = new
          /\ resumes' = resumes + 1 /\ UNCHANGED <<history, faults>>
      BY <2>11 DEF OperatorResumes
    <3>2. /\ recovery \in RecoveryType /\ history \in Seq({Supply, Planner})
          /\ faults \in Nat /\ resumes \in Nat /\ resumes + 1 \in Nat
      BY DEF TypeOK
    <3>3. new \in RecoveryType
      BY <3>2 DEF RecoveryType
    <3>4. TailWithin(history, Worth(recovery, faults, resumes))
      BY <3>1 DEF StopInv
    <3>5. Worth(recovery, faults, resumes) <= Worth(new, faults, resumes + 1)
      BY <3>1, <3>2, ResumePays
    <3>6. Worth(recovery, faults, resumes) \in Nat /\ Worth(new, faults, resumes + 1) \in Nat
      BY <3>2, <3>3, WorthBounds
    <3>7. TailWithin(history, Worth(new, faults, resumes + 1))
      BY <3>2, <3>4, <3>5, <3>6, TailMonotone
    <3> QED BY <3>1, <3>7 DEF StopInv
  <2>12. CASE Killed
    <3>1. UNCHANGED <<recovery, history, resumes>> /\ pc' = "idle"
      BY <2>12 DEF Killed
    <3>2. CASE pc = "count"
      <4>1. faults' = faults + 1
        BY <2>12, <3>2 DEF Killed, Fault
      <4>2. /\ recovery \in RecoveryType /\ history \in Seq({Supply, Planner})
            /\ faults \in Nat /\ resumes \in Nat
            /\ Counted(recovery, outcome) \in RecoveryType
        BY CountedType DEF TypeOK
      <4>3. TailWithin(history, Worth(Counted(recovery, outcome), faults, resumes))
        BY <3>2 DEF StopInv
      <4>4. TailWithin(history, Worth(recovery, faults + 1, resumes))
        BY <4>2, <4>3, FaultPays
      <4> QED BY <3>1, <4>1, <4>4 DEF StopInv
    <3>3. CASE pc # "count"
      BY <2>12, <3>1, <3>3, StopInvKept DEF Killed
    <3> QED BY <3>2, <3>3
  <2>13. CASE DeadlinePasses
    BY <2>13 DEF DeadlinePasses, StopInv
  <2>14. ASSUME NEW i \in Input, InputChanges(i) PROVE StopInv'
    BY <2>14 DEF InputChanges, StopInv
  <2>15. CASE UNCHANGED vars
    BY <2>15 DEF vars, StopInv
  <2> QED BY <2>1, <2>2, <2>3, <2>4, <2>5, <2>6, <2>7, <2>8, <2>9, <2>10, <2>11, <2>12,
             <2>13, <2>14, <2>15 DEF Next, Tick, Session, Record, World
<1>2. TypeOK /\ StopInv => StoppedInTime
  <2> SUFFICES ASSUME TypeOK, StopInv PROVE StoppedInTime
    OBVIOUS
  <2> DEFINE r == IF pc = "count" THEN Counted(recovery, outcome) ELSE recovery
  <2>1. /\ r \in RecoveryType /\ history \in Seq({Supply, Planner})
        /\ faults \in Nat /\ resumes \in Nat
    BY CountedType DEF TypeOK
  <2>2. TailWithin(history, Worth(r, faults, resumes))
    BY DEF StopInv
  <2> HIDE DEF r
  <2>3. Worth(r, faults, resumes) \in Nat
        /\ Worth(r, faults, resumes) <= StopAt * faults + resumes + StopAt
        /\ StopAt * (faults + 1) + resumes = StopAt * faults + resumes + StopAt
    BY <2>1, WorthBounds
  <2>4. 1 + faults = faults + 1 /\ StopAt * (faults + 1) + resumes \in Int
    BY <2>1, StopAtLeastTwo
  <2>5. TailWithin(history, StopAt * (1 + faults) + resumes)
    BY <2>1, <2>2, <2>3, <2>4, TailMonotone
  <2> QED BY <2>5 DEF TailWithin, StoppedInTime
<1> QED BY <1>1, <1>2, StopInvInit, TypeCorrect, PTL DEF Spec
-----------------------------------------------------------------------------
(* Without faults the files say what the sessions were                      *)

Match(r, h) ==
    /\ Run(h, Planner, r.planner) /\ ~Run(h, Planner, r.planner + 1)
    /\ Run(h, Supply, r.supply) /\ ~Run(h, Supply, r.supply + 1)
    /\ r.minimal <=> Ran(h, Planner, DegradedAt)
    /\ r.supplyDegraded <=> Ran(h, Supply, SupplyAt)
    /\ r.stopped => Ran(h, Planner, StopAt)

MatchInv ==
    faults = 0 =>
        /\ pc # "count" => Match(recovery, history)
        /\ pc = "count" => outcome # Rest /\ Match(Counted(recovery, outcome), history)
        /\ pc \notin {"count", "note"} =>
               restsRun = rest.streak /\ (rest.signal <=> restsRun >= ReviewAt)
        /\ pc = "note" /\ outcome = Rest =>
               restsRun = rest.streak + 1 /\ (rest.signal <=> rest.streak >= ReviewAt)
        /\ pc \in {"count", "note"} /\ outcome # Rest => restsRun = 0

LEMMA MatchEmpty == Match(EmptyRecovery, <<>>)
<1>1. DegradedAt \in Nat \ {0} /\ SupplyAt \in Nat \ {0}
  BY GuardsAssumption DEF GuardsAssumption
<1>2. /\ EmptyRecovery.planner = 0 /\ EmptyRecovery.supply = 0
      /\ EmptyRecovery.minimal = FALSE /\ EmptyRecovery.stopped = FALSE
      /\ EmptyRecovery.supplyDegraded = FALSE
  BY DEF EmptyRecovery
<1>3. \A f : Run(<<>>, f, 0) /\ ~Run(<<>>, f, 0 + 1)
  BY NoRun
<1>4. ~Ran(<<>>, Planner, DegradedAt) /\ ~Ran(<<>>, Supply, SupplyAt)
  BY <1>1, NotRanEmpty
<1> QED BY <1>2, <1>3, <1>4 DEF Match

LEMMA MatchSupply ==
    ASSUME NEW r \in RecoveryType, NEW h \in Seq({Supply, Planner}), Match(r, h)
    PROVE  Match(SupplyFailed(r), Append(h, Supply))
<1> DEFINE g == Append(h, Supply)
<1> DEFINE q == SupplyFailed(r)
<1>1. /\ r.planner \in Nat /\ r.supply \in Nat
      /\ DegradedAt \in Nat \ {0} /\ SupplyAt \in Nat \ {0} /\ StopAt \in Nat
  BY GuardsAssumption DEF RecoveryType, GuardsAssumption
<1>2. /\ q.planner = 0 /\ q.supply = r.supply + 1 /\ q.minimal = r.minimal
      /\ q.stopped = r.stopped
      /\ q.supplyDegraded <=> (r.supplyDegraded \/ r.supply + 1 >= SupplyAt)
  BY DEF SupplyFailed
<1>3. \A n \in Nat : Run(g, Planner, n) <=> n = 0
  BY RunBroken, OutcomesDiffer
<1>4. \A n \in Nat : Run(g, Supply, n) <=> (n = 0 \/ Run(h, Supply, n - 1))
  BY RunGrows
<1>5. \A n \in Nat : Ran(g, Planner, n) <=> (Ran(h, Planner, n) \/ Run(g, Planner, n))
  BY RanGrows
<1>6. \A n \in Nat : Ran(g, Supply, n) <=> (Ran(h, Supply, n) \/ Run(g, Supply, n))
  BY RanGrows
<1>7. g \in Seq({Supply, Planner})
  BY AppendType
<1> HIDE DEF g, q
<1>8. Run(g, Supply, q.supply) /\ ~Run(g, Supply, q.supply + 1)
  <2>1. (r.supply + 1) - 1 = r.supply /\ (r.supply + 1 + 1) - 1 = r.supply + 1
        /\ r.supply + 1 + 1 \in Nat /\ r.supply + 1 \in Nat /\ r.supply + 1 + 1 # 0
    BY <1>1
  <2>2. Run(g, Supply, r.supply + 1) <=> (r.supply + 1 = 0 \/ Run(h, Supply, (r.supply + 1) - 1))
    BY <1>4, <2>1
  <2>3. Run(g, Supply, r.supply + 1 + 1)
        <=> (r.supply + 1 + 1 = 0 \/ Run(h, Supply, (r.supply + 1 + 1) - 1))
    BY <1>4, <2>1
  <2> QED BY <1>2, <2>1, <2>2, <2>3 DEF Match
<1>9. Run(g, Planner, q.planner) /\ ~Run(g, Planner, q.planner + 1)
  BY <1>2, <1>3
<1>10. q.minimal <=> Ran(g, Planner, DegradedAt)
  BY <1>1, <1>2, <1>3, <1>5 DEF Match
<1>11. q.stopped => Ran(g, Planner, StopAt)
  BY <1>1, <1>2, <1>5 DEF Match
<1>12. q.supplyDegraded <=> Ran(g, Supply, SupplyAt)
  <2>1. ASSUME r.supply + 1 >= SupplyAt PROVE Ran(g, Supply, SupplyAt)
    <3>1. SupplyAt \in 0..r.supply + 1 /\ r.supply + 1 \in Nat
      BY <1>1, <2>1
    <3> QED BY <1>2, <1>7, <1>8, <3>1, RunImpliesRan
  <2>2. ASSUME Run(g, Supply, SupplyAt) PROVE r.supply + 1 >= SupplyAt
    <3>1. ASSUME ~(r.supply + 1 >= SupplyAt) PROVE FALSE
      <4>1. r.supply + 1 + 1 <= SupplyAt /\ SupplyAt \in 0..Len(g) /\ Len(g) \in Nat
        BY <1>1, <3>1, <2>2, <1>7 DEF Run
      <4>2. Run(g, Supply, r.supply + 1 + 1)
        BY <4>1, <1>1, <2>2 DEF Run
      <4> QED BY <4>2, <1>8, <1>2
    <3> QED BY <3>1
  <2> QED BY <1>1, <1>2, <1>6, <2>1, <2>2 DEF Match
<1> QED BY <1>8, <1>9, <1>10, <1>11, <1>12 DEF Match, q, g

LEMMA MatchPlanner ==
    ASSUME NEW r \in RecoveryType, NEW h \in Seq({Supply, Planner}), Match(r, h)
    PROVE  Match(PlannerFailed(r), Append(h, Planner))
<1> DEFINE g == Append(h, Planner)
<1> DEFINE q == PlannerFailed(r)
<1> DEFINE stop == r.planner + 1 >= StopAt /\ ~r.stopped
<1>1. /\ r.planner \in Nat /\ r.supply \in Nat /\ r.planner + 1 \in Nat
      /\ DegradedAt \in Nat \ {0} /\ SupplyAt \in Nat \ {0} /\ StopAt \in Nat
      /\ DegradedAt < StopAt
  BY GuardsAssumption DEF RecoveryType, GuardsAssumption
<1>2. /\ q.supply = 0 /\ q.planner = r.planner + 1
      /\ q.supplyDegraded = r.supplyDegraded
      /\ q.minimal <=> (r.minimal \/ (~stop /\ r.planner + 1 >= DegradedAt))
      /\ q.stopped <=> (r.stopped \/ stop)
  BY DEF PlannerFailed
<1>3. \A n \in Nat : Run(g, Supply, n) <=> n = 0
  BY RunBroken, OutcomesDiffer
<1>4. \A n \in Nat : Run(g, Planner, n) <=> (n = 0 \/ Run(h, Planner, n - 1))
  BY RunGrows
<1>5. \A n \in Nat : Ran(g, Planner, n) <=> (Ran(h, Planner, n) \/ Run(g, Planner, n))
  BY RanGrows
<1>6. \A n \in Nat : Ran(g, Supply, n) <=> (Ran(h, Supply, n) \/ Run(g, Supply, n))
  BY RanGrows
<1>7. g \in Seq({Supply, Planner})
  BY AppendType
<1> HIDE DEF g, q
<1>8. Run(g, Planner, q.planner) /\ ~Run(g, Planner, q.planner + 1)
  <2>1. (r.planner + 1) - 1 = r.planner /\ (r.planner + 1 + 1) - 1 = r.planner + 1
        /\ r.planner + 1 + 1 \in Nat /\ r.planner + 1 + 1 # 0
    BY <1>1
  <2>2. Run(g, Planner, r.planner + 1) <=> (r.planner + 1 = 0 \/ Run(h, Planner, (r.planner + 1) - 1))
    BY <1>4, <1>1
  <2>3. Run(g, Planner, r.planner + 1 + 1)
        <=> (r.planner + 1 + 1 = 0 \/ Run(h, Planner, (r.planner + 1 + 1) - 1))
    BY <1>4, <2>1
  <2> QED BY <1>2, <2>1, <2>2, <2>3 DEF Match
<1>9. Run(g, Supply, q.supply) /\ ~Run(g, Supply, q.supply + 1)
  BY <1>2, <1>3
<1>10. q.supplyDegraded <=> Ran(g, Supply, SupplyAt)
  BY <1>1, <1>2, <1>3, <1>6 DEF Match
<1>11. ASSUME NEW n \in Nat, r.planner + 1 >= n PROVE Ran(g, Planner, n)
  <2>1. n \in 0..r.planner + 1
    BY <1>1, <1>11
  <2> QED BY <1>1, <1>2, <1>7, <1>8, <2>1, RunImpliesRan
<1>12. ASSUME Run(g, Planner, DegradedAt) PROVE r.planner + 1 >= DegradedAt
  <2>1. ASSUME ~(r.planner + 1 >= DegradedAt) PROVE FALSE
    <3>1. r.planner + 1 + 1 <= DegradedAt /\ DegradedAt \in 0..Len(g) /\ Len(g) \in Nat
      BY <1>1, <2>1, <1>12, <1>7 DEF Run
    <3>2. Run(g, Planner, r.planner + 1 + 1)
      BY <3>1, <1>1, <1>12 DEF Run
    <3> QED BY <3>2, <1>8, <1>2
  <2> QED BY <2>1
\* A stop comes after minimal mode.
<1>13. stop => r.minimal
  <2>1. ASSUME stop PROVE Ran(h, Planner, DegradedAt)
    <3>1. DegradedAt \in 0..r.planner
      BY <1>1, <2>1
    <3>2. Run(h, Planner, r.planner)
      BY DEF Match
    <3> QED BY <1>1, <3>1, <3>2, RunImpliesRan
  <2> QED BY <2>1 DEF Match
<1>14. q.minimal <=> Ran(g, Planner, DegradedAt)
  <2>1. q.minimal <=> (r.minimal \/ r.planner + 1 >= DegradedAt)
    BY <1>2, <1>13
  <2> QED BY <1>1, <1>5, <1>11, <1>12, <2>1 DEF Match
<1>15. q.stopped => Ran(g, Planner, StopAt)
  BY <1>1, <1>2, <1>5, <1>11 DEF Match
<1> QED BY <1>8, <1>9, <1>10, <1>14, <1>15 DEF Match, q, g

LEMMA MatchSession ==
    ASSUME TypeOK, MatchInv, NEW o \in Outcome, SessionEnds(o)
    PROVE  MatchInv'
<1> SUFFICES ASSUME faults' = 0 PROVE MatchInv'
  BY DEF MatchInv
<1>1. /\ faults = 0 /\ pc = "asked" /\ outcome' = o
      /\ UNCHANGED <<recovery, rest>> /\ pc' = IF o = Rest THEN "note" ELSE "count"
      /\ recovery \in RecoveryType /\ history \in Seq({Supply, Planner})
  BY DEF SessionEnds, files, TypeOK
<1>2. /\ Match(recovery, history)
      /\ restsRun = rest.streak /\ (rest.signal <=> restsRun >= ReviewAt)
  BY <1>1 DEF MatchInv
<1>3. CASE o = Supply
  <2>1. history' = Append(history, Supply) /\ restsRun' = 0 /\ pc' = "count"
        /\ Counted(recovery, o) = SupplyFailed(recovery)
    BY <1>1, <1>3, OutcomesDiffer DEF SessionEnds, Counted
  <2>2. Match(Counted(recovery, o), history')
    BY <1>1, <1>2, <2>1, MatchSupply
  <2> QED BY <1>1, <2>1, <2>2 DEF MatchInv
<1>4. CASE o = Planner
  <2>1. history' = Append(history, Planner) /\ restsRun' = 0 /\ pc' = "count"
        /\ Counted(recovery, o) = PlannerFailed(recovery)
    BY <1>1, <1>4, OutcomesDiffer DEF SessionEnds, Counted
  <2>2. Match(Counted(recovery, o), history')
    BY <1>1, <1>2, <2>1, MatchPlanner
  <2> QED BY <1>1, <2>1, <2>2 DEF MatchInv
<1>5. CASE o = Plan
  <2>1. history' = <<>> /\ restsRun' = 0 /\ pc' = "count"
        /\ Counted(recovery, o) = EmptyRecovery
    BY <1>1, <1>5, OutcomesDiffer DEF SessionEnds, Counted
  <2> QED BY <1>1, <2>1, MatchEmpty DEF MatchInv
<1>6. CASE o = Infra
  <2>1. history' = history /\ restsRun' = 0 /\ pc' = "count"
        /\ Counted(recovery, o) = recovery
    BY <1>1, <1>6, OutcomesDiffer DEF SessionEnds, Counted
  <2> QED BY <1>1, <1>2, <2>1 DEF MatchInv
<1>7. CASE o = Rest
  <2>1. history' = history /\ restsRun' = restsRun + 1 /\ pc' = "note"
    BY <1>1, <1>7, OutcomesDiffer DEF SessionEnds
  <2>2. restsRun' = rest'.streak + 1 /\ (rest'.signal <=> rest'.streak >= ReviewAt)
    BY <1>1, <1>2, <2>1
  <2> QED BY <1>1, <1>2, <1>7, <2>1, <2>2 DEF MatchInv
<1> QED BY <1>3, <1>4, <1>5, <1>6, <1>7 DEF Outcome

\* Without faults the counters, the flags and the review signal are functions
\* of the sessions' outcomes.
THEOREM CountersAreRight == Spec => []CountersMatchSessions
<1>1. Init => MatchInv
  <2>1. ReviewAt \in Nat \ {0}
    BY GuardsAssumption DEF GuardsAssumption
  <2> QED BY <2>1, MatchEmpty DEF Init, MatchInv, EmptyRest
<1>2. TypeOK /\ MatchInv /\ [Next]_vars => MatchInv'
  <2> SUFFICES ASSUME TypeOK, MatchInv, [Next]_vars, faults' = 0 PROVE MatchInv'
    BY DEF MatchInv
  <2>0. faults \in Nat
    BY DEF TypeOK
  <2>noFault. ~Fault
    BY <2>0 DEF Fault
  <2> USE DEF files, world, aux
  <2>1. CASE StartTick
    BY <2>1, <2>noFault DEF StartTick, MatchInv
  <2>2. CASE HeldTickWipes
    BY <2>2, <2>noFault DEF HeldTickWipes
  <2>3. CASE Prepared
    BY <2>3 DEF Prepared, MatchInv
  <2>4. CASE NotPrepared
    BY <2>4 DEF NotPrepared, MatchInv
  <2>5. CASE Gate
    <3>1. pc = "gate" /\ pc' \in {"idle", "asked"} /\ faults' = faults
          /\ UNCHANGED <<recovery, rest, outcome, history, restsRun>>
      BY <2>5, <2>noFault DEF Gate
    <3> QED BY <3>1 DEF MatchInv
  <2>6. CASE SessionRaises
    BY <2>6 DEF SessionRaises, MatchInv
  <2>7. ASSUME NEW o \in Outcome, SessionEnds(o) PROVE MatchInv'
    BY <2>7, MatchSession
  <2>8. CASE CountOutcome
    <3>1. /\ pc = "count" /\ pc' = "note" /\ faults' = faults
          /\ UNCHANGED <<rest, outcome, history, restsRun>>
          /\ recovery' = Counted(recovery, outcome)
      <4>1. CASE outcome = Infra
        BY <4>1, <2>8, OutcomesDiffer DEF CountOutcome, Counted
      <4>2. CASE outcome # Infra
        BY <4>2, <2>8, <2>noFault DEF CountOutcome, Saved
      <4> QED BY <4>1, <4>2
    <3>2. outcome # Rest /\ Match(recovery', history) /\ restsRun = 0
      BY <3>1 DEF MatchInv
    <3> QED BY <3>1, <3>2 DEF MatchInv
  <2>9. CASE NoteRest
    <3>1. PICK i \in Input : \E v \in Seen(i) : rest' = Rested(rest, i, v) /\ faults' = faults
      BY <2>9, <2>noFault DEF NoteRest, Saved
    <3>2. /\ pc = "note" /\ outcome = Rest /\ pc' = "idle" /\ outcome' = None
          /\ UNCHANGED <<recovery, history, restsRun>>
      BY <2>9 DEF NoteRest
    <3>3. /\ Match(recovery, history)
          /\ restsRun = rest.streak + 1 /\ (rest.signal <=> rest.streak >= ReviewAt)
      BY <3>1, <3>2 DEF MatchInv
    <3>4. rest'.streak = rest.streak + 1
          /\ rest'.signal = (rest.signal \/ rest.streak + 1 >= ReviewAt)
      <4>1. PICK v \in Seen(i) : rest' = Rested(rest, i, v)
        BY <3>1
      <4> QED BY <4>1, Zenon DEF Rested
    <3>5. rest.streak \in Nat /\ ReviewAt \in Nat
      BY GuardsAssumption DEF TypeOK, RestType, GuardsAssumption
    <3>6. restsRun' = rest'.streak /\ (rest'.signal <=> restsRun' >= ReviewAt)
      <4>1. restsRun' = rest.streak + 1 /\ rest'.streak = rest.streak + 1
        BY <3>2, <3>3, <3>4
      <4>2. (rest.signal \/ rest.streak + 1 >= ReviewAt) <=> rest.streak + 1 >= ReviewAt
        BY <3>3, <3>5
      <4>3. rest'.signal <=> rest.streak + 1 >= ReviewAt
        BY <3>4, <4>2, Zenon
      <4> QED BY <4>1, <4>3
    <3> QED BY <3>1, <3>2, <3>3, <3>6 DEF MatchInv
  <2>10. CASE NoteOther
    <3>1. /\ pc = "note" /\ outcome # Rest /\ pc' = "idle" /\ outcome' = None
          /\ rest' = EmptyRest /\ faults' = faults
          /\ UNCHANGED <<recovery, history, restsRun>>
      BY <2>10, <2>noFault DEF NoteOther
    <3>2. Match(recovery, history) /\ restsRun = 0
      BY <3>1 DEF MatchInv
    <3>3. ReviewAt \in Nat \ {0} /\ EmptyRest.streak = 0 /\ EmptyRest.signal = FALSE
      BY GuardsAssumption DEF GuardsAssumption, EmptyRest
    <3> QED BY <3>1, <3>2, <3>3 DEF MatchInv
  <2>11. CASE OperatorResumes
    <3>1. /\ pc = "idle" /\ pc' = "idle" /\ recovery' = [recovery EXCEPT !.stopped = FALSE]
          /\ UNCHANGED <<rest, outcome, history, restsRun, faults>>
      BY <2>11 DEF OperatorResumes
    <3>2. /\ recovery'.planner = recovery.planner /\ recovery'.supply = recovery.supply
          /\ recovery'.minimal = recovery.minimal /\ recovery'.stopped = FALSE
          /\ recovery'.supplyDegraded = recovery.supplyDegraded
      BY <3>1 DEF TypeOK, RecoveryType
    <3>3. Match(recovery, history)
      BY <3>1 DEF MatchInv
    <3>4. Match(recovery', history)
      BY <3>2, <3>3 DEF Match
    <3> QED BY <3>1, <3>4 DEF MatchInv
  <2>12. CASE Killed
    <3>1. /\ pc \notin {"count", "note"} /\ pc' = "idle"
          /\ UNCHANGED <<recovery, rest, history, restsRun, faults>>
      BY <2>12, <2>noFault DEF Killed
    <3> QED BY <3>1 DEF MatchInv
  <2>13. CASE DeadlinePasses
    <3>1. rest'.streak = rest.streak /\ rest'.signal = rest.signal
      BY <2>13 DEF DeadlinePasses, TypeOK, RestType
    <3>2. /\ recovery' = recovery /\ pc' = pc /\ outcome' = outcome
          /\ history' = history /\ restsRun' = restsRun /\ faults' = faults
      BY <2>13 DEF DeadlinePasses
    <3>3. (Match(recovery, history))' <=> Match(recovery, history)
      BY <3>2
    <3> QED BY <3>1, <3>2, <3>3 DEF MatchInv
  <2>14. ASSUME NEW i \in Input, InputChanges(i) PROVE MatchInv'
    BY <2>14 DEF InputChanges, MatchInv
  <2>15. CASE UNCHANGED vars
    BY <2>15 DEF vars, MatchInv
  <2> QED BY <2>1, <2>2, <2>3, <2>4, <2>5, <2>6, <2>7, <2>8, <2>9, <2>10, <2>11, <2>12,
             <2>13, <2>14, <2>15 DEF Next, Tick, Session, Record, World
<1>3. MatchInv => CountersMatchSessions
  BY DEF MatchInv, Match, CountersMatchSessions
<1> QED BY <1>1, <1>2, <1>3, TypeCorrect, PTL DEF Spec
=============================================================================
