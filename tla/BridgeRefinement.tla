-------------------------- MODULE BridgeRefinement --------------------------
(***************************************************************************)
(* BridgeTick implements Increment, for any number of cycles, plans and    *)
(* repair turns and under every fault: initial states map to initial       *)
(* states, and every step maps to a step of Increment or to a stutter.     *)
(***************************************************************************)
EXTENDS BridgeTickProofs

\* The accepted plans are plans, and what a late push or an integration is
\* about to clear is on main.
DeliveryInv ==
    /\ \A c \in used : accepted[c] \in Plan
    /\ pc \in {"lateRow", "lateClear", "clear"} => job.cyc \in merged

AllInv == TypeInv /\ LineageInv /\ PlanInv /\ DeliveryInv

LEMMA DeliveryInit == Init => DeliveryInv
BY DEF Init, DeliveryInv

LEMMA DeliveryNext ==
    TypeInv /\ LineageInv /\ DeliveryInv /\ [Next]_vars => DeliveryInv'
<1> USE DEF DeliveryInv, Go, EndTick, disk, git, ledger, proc, aux
<1> SUFFICES ASSUME TypeInv, LineageInv, DeliveryInv, [Next]_vars
             PROVE  DeliveryInv'
  OBVIOUS
<1>0. /\ accepted \in [Cycle -> Plan \cup {NoPlan}]
      /\ used \subseteq Cycle
      /\ HasPending(oi) => oi.pending.cycle \in used
      /\ job \in JobType
  BY DEF TypeInv, TypeOK, LineageInv, Minted
<1>1. CASE KillCheck
  BY <1>1 DEF KillCheck, NothingStale, StaleReconciled, StaleRecorded
<1>2. CASE Prepare
  BY <1>0, <1>2 DEF JobType, Prepare, Held, PrepareRepository, LatePush, LateAbandoned,
      LateSuperseded, LateSkipped, LatePushed, LatePushRecorded, LateRow,
      LateCleared, Cleared, Prepared, NotRestored
<1>3. CASE Session
  <2>1. ASSUME NEW c \in Cycle, NEW p \in Plan,
               PlanAnswer(c, p) \/ EditOrDelete(c, p)
        PROVE  DeliveryInv'
    BY <1>0, <2>1 DEF PlanAnswer, EditOrDelete, NewPlan
  <2>2. ASSUME NEW p \in Plan, KeepEdited(p)
        PROVE  DeliveryInv'
    BY <1>0, <2>2 DEF KeepEdited, Resume
  <2>3. CASE \/ SessionFails \/ SessionAnswers \/ NoPlanAnswer
             \/ KeepConfirmed \/ DeleteRefused
    BY <2>3 DEF SessionFails, SessionAnswers, NoPlanAnswer, KeepConfirmed,
                Resume, DeleteRefused
  <2> QED BY <1>3, <2>1, <2>2, <2>3 DEF Session
<1>4. CASE Attempt
  BY <1>4 DEF Attempt, DiaryPushed, DiaryFails, NotStarted, BranchReady,
      Register, Spawn, Commits, ExecutorEnds, SupplierPaused, Classified,
      RecordInterruption, InterruptedAs
<1>5. CASE Conclude
  BY <1>0, <1>5 DEF JobType, Conclude, NotIntegrated, RepairStarts, RepairEnds, Integrated,
      PushPends, PushLandsUnseen, IntegrationCleared, Cleared, RowWritten,
      AttemptEnds
<1>6. CASE Crash \/ HoldPasses \/ OperatorClearsFlag \/ UNCHANGED vars
  BY <1>6 DEF Crash, HoldPasses, OperatorClearsFlag, vars
<1> QED BY <1>1, <1>2, <1>3, <1>4, <1>5, <1>6 DEF Next, Tick

LEMMA AllAlways == Spec => []AllInv
<1>1. Init => AllInv
  BY TypeInit, LineageInit, PlanInit, DeliveryInit DEF AllInv
<1>2. AllInv /\ [Next]_vars => AllInv'
  BY TypeNext, LineageNext, PlanNext, DeliveryNext DEF AllInv
<1> QED BY <1>1, <1>2, PTL DEF Spec

-----------------------------------------------------------------------------
(* Where the increment is held                                             *)

LEMMA HoldingPending ==
    HasPending(oi) => /\ Holding.cycle = oi.pending.cycle
                      /\ Holding.plan = oi.pending.plan
                      /\ Holding.version = oi.pending.version
BY DEF Holding

LEMMA HoldingRunning ==
    ~HasPending(oi) /\ Unconcluded => /\ Holding.cycle = oi.running.cycle
                                      /\ Holding.plan = oi.running.plan
                                      /\ Holding.version = 1
BY DEF Holding

LEMMA HoldingNone ==
    ~HasPending(oi) /\ ~Unconcluded => /\ Holding.cycle = NoCycle
                                       /\ Holding.plan = NoPlan
                                       /\ Holding.version = 0
BY DEF Holding

\* A step that leaves what is pending and what is registered alone leaves the
\* held increment alone; so does one that only ends a concluded registration.
LEMMA HoldingKept ==
    ASSUME oi'.pending = oi.pending,
           \/ /\ oi'.running.cycle = oi.running.cycle
              /\ oi'.running.plan = oi.running.plan
              /\ rowed' = rowed
           \/ ~Unconcluded /\ ~Unconcluded'
    PROVE  Holding' = Holding
BY DEF Holding, HasPending, Unconcluded, HasRunning

\* The variables of Increment after a step that changes none of them.
Still == Holding' = Holding /\ rowed' = rowed /\ merged' = merged

LEMMA StillStutters ==
    ASSUME Still, pc' = "decide" <=> pc = "decide"
    PROVE  UNCHANGED Inc!vars
BY DEF Still, Inc!vars

LEMMA StillDecides ==
    ASSUME Still, pc = "decide", pc' # "decide"
    PROVE  Inc!Next
BY DEF Still, Inc!Next, Inc!Decide, Inc!SameIncrement

\* The parts of an interrupted record.
LEMMA InterruptedParts ==
    ASSUME NEW s \in StateType, NEW c \in Cycle, NEW k, NEW p, NEW why
    PROVE  /\ Interrupted(s, c, k, p, why).pending =
                  [cycle |-> c, key |-> k, plan |-> p,
                   version |-> CarriedVersion(s, c), reason |-> why]
           /\ Interrupted(s, c, k, p, why).running =
                  AttemptFinished(s, c).running
           /\ SupplyInterrupted(s, c, k, p).pending =
                  Interrupted(s, c, k, p, "interrupted_supply").pending
           /\ SupplyInterrupted(s, c, k, p).running =
                  AttemptFinished(s, c).running
           /\ InterruptedNoBackoff(s, c, k, p, why).pending =
                  Interrupted(s, c, k, p, why).pending
           /\ InterruptedNoBackoff(s, c, k, p, why).running =
                  AttemptFinished(s, c).running
BY DEF Interrupted, SupplyInterrupted, InterruptedNoBackoff, AttemptFinished,
       StateType

\* An interruption of the registered attempt, whose plan is the pending one's
\* if it is pending, holds what was held.
LEMMA InterruptionHolds ==
    ASSUME AllInv, rowed' = rowed, Unconcluded,
           oi'.pending.cycle = oi.running.cycle,
           oi'.pending.plan = oi.running.plan,
           oi'.pending.version = CarriedVersion(oi, oi.running.cycle)
    PROVE  Holding' = Holding
<1>1. /\ oi \in StateType /\ oi.running.cycle \in Cycle
      /\ oi.running.cycle # NoCycle
  BY DEF AllInv, TypeInv, TypeOK, Unconcluded, HasRunning, StateType,
         RunningType
<1>2. Holding' = [cycle |-> oi.running.cycle, plan |-> oi.running.plan,
                  version |-> CarriedVersion(oi, oi.running.cycle)]
  BY <1>1 DEF Holding, HasPending
<1>3. CASE HasPending(oi)
  <2>1. /\ oi.pending.cycle = oi.running.cycle
        /\ oi.pending.plan = oi.running.plan
    BY <1>3 DEF AllInv, LineageInv, SingleLineage, PlanInv,
                PlanMatchesAccepted, Unconcluded
  <2>2. Holding = [cycle |-> oi.pending.cycle, plan |-> oi.pending.plan,
                   version |-> oi.pending.version]
    BY <1>3 DEF Holding
  <2> QED BY <1>2, <2>1, <2>2 DEF CarriedVersion
<1>4. CASE ~HasPending(oi)
  <2>1. CarriedVersion(oi, oi.running.cycle) = 1
    BY <1>1, <1>4 DEF CarriedVersion, HasPending
  <2>2. Holding = [cycle |-> oi.running.cycle, plan |-> oi.running.plan,
                   version |-> 1]
    BY <1>4 DEF Holding
  <2> QED BY <1>2, <2>1, <2>2
<1> QED BY <1>3, <1>4

\* The attempt in progress is interrupted: it was held, or it takes the place.
LEMMA InterruptedAsImplements ==
    ASSUME AllInv, pc \in {"classify", "interrupt"}, NEW cause,
           InterruptedAs(cause), UNCHANGED <<git, ledger>>
    PROVE  Inc!Next \/ UNCHANGED Inc!vars
<1>1. /\ oi \in StateType /\ job.cyc \in Cycle /\ job.cyc \in used
      /\ oi.running.cycle = job.cyc /\ oi.running.plan = job.plan
      /\ job.plan = accepted[job.cyc] /\ job.plan \in Plan
      /\ NoCycle \notin Cycle
  BY OpenIncrementAssumption
     DEF AllInv, TypeInv, TypeOK, Waiting, LineageInv, RegisteredWhileRunning,
         Minted, PlanInv, DeliveryInv, OpenIncrementAssumption
<1>2. pc' # "decide" /\ rowed' = rowed /\ merged' = merged
  BY DEF InterruptedAs, Go, git, ledger
<1>3. \/ oi' = oi
      \/ /\ oi'.pending.cycle = job.cyc /\ oi'.pending.plan = job.plan
         /\ oi'.pending.version = CarriedVersion(oi, job.cyc)
  <2>1. PICK k \in TaskKey :
            \/ oi' = oi
            \/ oi' = SupplyInterrupted(oi, job.cyc, k, job.plan)
            \/ oi' = InterruptedNoBackoff(oi, job.cyc, k, job.plan,
                                         "interrupted_defect")
    BY DEF InterruptedAs, Store
  <2>2. /\ SupplyInterrupted(oi, job.cyc, k, job.plan).pending =
              [cycle |-> job.cyc, key |-> k, plan |-> job.plan,
               version |-> CarriedVersion(oi, job.cyc),
               reason |-> "interrupted_supply"]
        /\ InterruptedNoBackoff(oi, job.cyc, k, job.plan,
                                "interrupted_defect").pending =
              [cycle |-> job.cyc, key |-> k, plan |-> job.plan,
               version |-> CarriedVersion(oi, job.cyc),
               reason |-> "interrupted_defect"]
    BY <1>1, InterruptedParts
  <2> QED BY <2>1, <2>2
<1>4. CASE oi' = oi
  BY <1>2, <1>4, HoldingKept, StillStutters DEF Still
<1>5. CASE oi' # oi /\ Unconcluded
  BY <1>1, <1>2, <1>3, <1>5, InterruptionHolds, StillStutters DEF Still
<1>6. CASE oi' # oi /\ ~Unconcluded /\ HasPending(oi)
  <2>1. /\ oi.pending.cycle = job.cyc /\ oi.pending.plan = job.plan
    BY <1>1, <1>6 DEF AllInv, LineageInv, SingleLineage, HasRunning, PlanInv,
                      PlanMatchesAccepted
  <2>2. Holding' = Holding
    BY <1>1, <1>3, <1>6, <2>1 DEF Holding, HasPending, CarriedVersion
  <2> QED BY <1>2, <2>2, StillStutters DEF Still
<1>7. CASE oi' # oi /\ ~Unconcluded /\ ~HasPending(oi)
  <2>1. CarriedVersion(oi, job.cyc) = 1
    BY <1>1, <1>7 DEF CarriedVersion, HasPending
  <2>2. /\ Holding'.cycle = job.cyc /\ Holding'.plan = job.plan
        /\ Holding'.version = 1
    BY <1>1, <1>3, <1>7, <2>1 DEF Holding, HasPending
  <2>3. Inc!Take(job.cyc, job.plan)
    BY <1>2, <1>7, <2>2, HoldingNone DEF Inc!Take
  <2> QED BY <1>1, <2>3 DEF Inc!Next
<1> QED BY <1>4, <1>5, <1>6, <1>7

\* A row of c together with the end of its registration.
LEMMA LateRowConcludes ==
    ASSUME AllInv, pc \in {"late", "lateRow"}, NEW c \in Cycle, LateRow(c),
           merged' = merged, pc' # "decide"
    PROVE  Inc!Next
<1>1. ~Unconcluded
  BY DEF AllInv, PlanInv, Preparing, Unconcluded
<1>2. oi \in StateType
  BY DEF AllInv, TypeInv, TypeOK
<1>3. oi'.pending = oi.pending /\ ~Unconcluded'
  <2>1. \/ oi'.pending = oi.pending /\ oi'.running = oi.running
        \/ oi'.pending = oi.pending /\ oi'.running.cycle = NoCycle
    BY <1>2 DEF LateRow, Store, AttemptFinished, NoRunning, StateType
  <2> QED BY <1>1, <2>1 DEF LateRow, Unconcluded, HasRunning
<1>4. Holding' = Holding
  BY <1>1, <1>3, HoldingKept
<1>5. Inc!Conclude(c)
  BY <1>4 DEF Inc!Conclude, Inc!SameIncrement, LateRow
<1> QED BY <1>5 DEF Inc!Next

\* A step that only adds c to main.
LEMMA Delivers ==
    ASSUME NEW c \in Cycle, Holding' = Holding, rowed' = rowed,
           merged' = merged \cup {c}, pc # "decide", pc' # "decide"
    PROVE  Inc!Next
<1>1. Inc!Deliver(c)
  BY DEF Inc!Deliver
<1> QED BY <1>1 DEF Inc!Next

-----------------------------------------------------------------------------
(* Every step *)

LEMMA StepImplements ==
    AllInv /\ [Next]_vars => Inc!Next \/ UNCHANGED Inc!vars
<1> USE DEF Go, EndTick, disk, git, ledger, proc, aux
<1> SUFFICES ASSUME AllInv, [Next]_vars
             PROVE  Inc!Next \/ UNCHANGED Inc!vars
  OBVIOUS
<1>0. /\ oi \in StateType /\ job \in JobType /\ NoCycle \notin Cycle
      /\ pc \notin Waiting => job.cyc \in Cycle
      /\ pc \in Preparing => ~Unconcluded
  BY OpenIncrementAssumption
     DEF AllInv, TypeInv, TypeOK, PlanInv, Unconcluded,
         OpenIncrementAssumption
<1>1. CASE NothingStale \/ Held \/ PrepareRepository \/ Prepared \/ NotRestored
          \/ SessionFails \/ DiaryPushed \/ DiaryFails \/ NotStarted
          \/ BranchReady \/ Commits \/ NotIntegrated \/ RepairStarts
          \/ PushPends \/ UNCHANGED vars
          \/ \E s \in Status : ExecutorEnds(s) \/ RepairEnds(s)
  <2>1. oi' = oi /\ rowed' = rowed /\ merged' = merged
    BY <1>1 DEF NothingStale, Held, PrepareRepository, Prepared, NotRestored,
         SessionFails, DiaryPushed, DiaryFails, NotStarted, BranchReady,
         Commits, NotIntegrated, RepairStarts, PushPends, ExecutorEnds,
         RepairEnds, vars
  <2>2. pc' = "decide" <=> pc = "decide"
    BY <1>1 DEF NothingStale, Held, PrepareRepository, Prepared, NotRestored,
         SessionFails, DiaryPushed, DiaryFails, NotStarted, BranchReady,
         Commits, NotIntegrated, RepairStarts, PushPends, ExecutorEnds,
         RepairEnds, vars
  <2> QED BY <2>1, <2>2, HoldingKept, StillStutters DEF Still
<1>2. CASE StaleReconciled
  <2>1. /\ oi'.pending = oi.pending /\ ~Unconcluded /\ rowed' = rowed
        /\ oi'.running = oi.running \/ oi'.running.cycle = NoCycle
    BY <1>0, <1>2 DEF StaleReconciled, Store, AttemptFinished, NoRunning,
                      StateType, Unconcluded
  <2>2. ~Unconcluded'
    BY <2>1 DEF Unconcluded, HasRunning
  <2> QED BY <1>2, <2>1, <2>2, HoldingKept, StillStutters
          DEF Still, StaleReconciled
<1>3. CASE StaleRecorded
  <2> DEFINE c == oi.running.cycle
             p == oi.running.plan
             why == StaleCause(oi, tele)
  <2>1. rowed' = rowed /\ merged' = merged /\ pc # "decide" /\ pc' # "decide"
    BY <1>3 DEF StaleRecorded
  <2>2. Unconcluded /\ c \in Cycle
    BY <1>0, <1>3 DEF StaleRecorded, StaleRunning, Unconcluded, HasRunning,
                      StateType, RunningType
  <2>3. \/ oi' = oi
        \/ oi' = SupplyInterrupted(oi, c, KillKey(c), p)
        \/ oi' = InterruptedNoBackoff(oi, c, KillKey(c), p, why)
    BY <1>3 DEF StaleRecorded, Store
  <2>4. CASE oi' = oi
    BY <2>1, <2>4, HoldingKept, StillStutters DEF Still
  <2>5. CASE oi' # oi
    <3>1. /\ SupplyInterrupted(oi, c, KillKey(c), p).pending =
                [cycle |-> c, key |-> KillKey(c), plan |-> p,
                 version |-> CarriedVersion(oi, c),
                 reason |-> "interrupted_supply"]
          /\ InterruptedNoBackoff(oi, c, KillKey(c), p, why).pending =
                [cycle |-> c, key |-> KillKey(c), plan |-> p,
                 version |-> CarriedVersion(oi, c), reason |-> why]
      BY <1>0, <2>2, InterruptedParts
    <3>2. /\ oi'.pending.cycle = c /\ oi'.pending.plan = p
          /\ oi'.pending.version = CarriedVersion(oi, c)
      BY <2>3, <2>5, <3>1
    <3> QED BY <2>1, <2>2, <3>2, InterruptionHolds, StillStutters DEF Still
  <2> QED BY <2>4, <2>5
<1>4. ASSUME NEW c \in Cycle, LateAbandoned(c) \/ LateSuperseded(c)
      PROVE  Inc!Next
  BY <1>4, LateRowConcludes DEF LateAbandoned, LateSuperseded
<1>5. CASE LatePushRecorded
  BY <1>0, <1>5, LateRowConcludes DEF LatePushRecorded, Waiting
<1>6. ASSUME NEW c \in Cycle, LateSkipped(c) \/ LatePushed(c)
      PROVE  Inc!Next \/ UNCHANGED Inc!vars
  <2>1. /\ oi' = oi /\ rowed' = rowed /\ pc # "decide" /\ pc' # "decide"
        /\ merged' = merged \/ merged' = merged \cup {c}
    BY <1>6 DEF LateSkipped, LatePushed
  <2>2. Holding' = Holding
    BY <2>1, HoldingKept
  <2> QED BY <2>1, <2>2, Delivers, StillStutters DEF Still
<1>7. CASE Integrated \/ PushLandsUnseen
  <2>1. /\ oi' = oi /\ rowed' = rowed /\ pc # "decide" /\ pc' # "decide"
        /\ merged' = merged \cup {job.cyc} /\ job.cyc \in Cycle
    BY <1>0, <1>7 DEF Integrated, PushLandsUnseen, Waiting
  <2>2. Holding' = Holding
    BY <2>1, HoldingKept
  <2> QED BY <2>1, <2>2, Delivers
<1>8. CASE LateCleared \/ IntegrationCleared
  <2>1. /\ rowed' = rowed /\ merged' = merged /\ pc # "decide" /\ pc' # "decide"
        /\ Cleared(job.cyc) /\ job.cyc \in merged /\ job.cyc \in Cycle
    BY <1>0, <1>8 DEF LateCleared, IntegrationCleared, AllInv, DeliveryInv,
                      Waiting
  <2>2. \/ oi' = oi
        \/ /\ oi.pending.cycle = job.cyc
           /\ oi'.pending = NoPending /\ oi'.running = oi.running
    BY <1>0, <2>1 DEF Cleared, Store, ClearedOnIntegration, Dropped, Unheld,
                      StateType
  <2>3. CASE oi' = oi
    BY <2>1, <2>3, HoldingKept, StillStutters DEF Still
  <2>4. CASE oi.pending.cycle = job.cyc /\ oi'.pending = NoPending
             /\ oi'.running = oi.running
    <3>1. /\ Holding.cycle = job.cyc /\ Holding.plan = oi.pending.plan
          /\ ~HasPending(oi)'
      BY <1>0, <2>1, <2>4 DEF Holding, HasPending, NoPending
    <3>2. CASE Unconcluded
      <4>1. /\ oi.running.cycle = job.cyc
            /\ oi.running.plan = oi.pending.plan
        BY <1>0, <2>1, <2>4, <3>2
           DEF AllInv, LineageInv, SingleLineage, HasPending, Unconcluded,
               PlanInv, PlanMatchesAccepted
      <4>2. Unconcluded'
        BY <2>1, <2>4, <3>2 DEF Unconcluded, HasRunning
      <4>3. /\ Holding'.cycle = job.cyc /\ Holding'.plan = oi.pending.plan
            /\ Holding'.version = 1
        BY <2>4, <3>1, <4>1, <4>2 DEF Holding
      <4>4. Inc!Forget
        BY <2>1, <3>1, <4>3 DEF Inc!Forget
      <4> QED BY <4>4 DEF Inc!Next
    <3>3. CASE ~Unconcluded
      <4>1. ~Unconcluded'
        BY <2>1, <2>4, <3>3 DEF Unconcluded, HasRunning
      <4>2. /\ Holding'.cycle = NoCycle /\ Holding'.plan = NoPlan
            /\ Holding'.version = 0
        BY <3>1, <4>1 DEF Holding
      <4>3. Inc!Forget
        BY <2>1, <3>1, <4>2 DEF Inc!Forget, Inc!LetGo
      <4> QED BY <4>3 DEF Inc!Next
    <3> QED BY <3>2, <3>3
  <2> QED BY <2>2, <2>3, <2>4
<1>9. CASE SessionAnswers
  <2>1. /\ oi'.pending = oi.pending /\ oi'.running = oi.running
        /\ rowed' = rowed /\ merged' = merged /\ pc = "session"
        /\ pc' = "decide"
    BY <1>0, <1>9 DEF SessionAnswers, Store, ModelCallCompleted, StateType
  <2>2. Holding' = Holding
    BY <2>1, HoldingKept
  <2>3. Inc!Ask
    BY <2>1, <2>2 DEF Inc!Ask
  <2> QED BY <2>3 DEF Inc!Next
<1>10. CASE \/ NoPlanAnswer \/ KeepConfirmed \/ DeleteRefused
            \/ \E c \in Cycle, p \in Plan : PlanAnswer(c, p)
  <2>1. /\ oi'.pending = oi.pending /\ oi'.running = oi.running
        /\ rowed' = rowed /\ merged' = merged /\ pc = "decide"
        /\ pc' # "decide"
    BY <1>0, <1>10 DEF NoPlanAnswer, KeepConfirmed, Resume, DeleteRefused,
                       PlanAnswer, NewPlan, Store, Kept, Unheld, StateType
  <2>2. Holding' = Holding
    BY <2>1, HoldingKept
  <2> QED BY <2>1, <2>2, StillDecides DEF Still
<1>11. ASSUME NEW p \in Plan, KeepEdited(p)
       PROVE  Inc!Next
  <2>1. /\ rowed' = rowed /\ merged' = merged /\ pc = "decide"
        /\ pc' # "decide" /\ HasPending(oi)
    BY <1>11 DEF KeepEdited, Resume
  <2>2. \/ oi' = oi
        \/ /\ oi'.pending.cycle = oi.pending.cycle /\ oi'.pending.plan = p
           /\ oi'.pending.version = oi.pending.version + 1
    BY <1>0, <1>11 DEF KeepEdited, Store, KeptEdited, Unheld, StateType,
                       PendingType
  <2>3. CASE oi' = oi
    BY <2>1, <2>3, HoldingKept, StillDecides DEF Still
  <2>4. CASE oi' # oi
    <3>1. /\ Holding.cycle = oi.pending.cycle
          /\ Holding.version = oi.pending.version
          /\ Holding'.cycle = oi.pending.cycle /\ Holding'.plan = p
          /\ Holding'.version = oi.pending.version + 1
      BY <2>1, <2>2, <2>4 DEF Holding, HasPending
    <3>2. Inc!Edit(p)
      BY <2>1, <3>1 DEF Inc!Edit, HasPending
    <3> QED BY <3>2 DEF Inc!Next
  <2> QED BY <2>3, <2>4
<1>12. ASSUME NEW c \in Cycle, NEW p \in Plan, EditOrDelete(c, p)
       PROVE  Inc!Next
  <2>1. /\ rowed' = rowed /\ merged' = merged /\ pc = "decide"
        /\ pc' # "decide" /\ ~Unconcluded
    BY <1>0, <1>12 DEF EditOrDelete, NewPlan, Preparing
  <2>2. \/ oi' = oi
        \/ oi'.pending = NoPending /\ oi'.running = oi.running
    BY <1>0, <1>12 DEF EditOrDelete, Store, Dropped, Unheld, StateType
  <2>3. CASE oi' = oi
    BY <2>1, <2>3, HoldingKept, StillDecides DEF Still
  <2>4. CASE oi'.pending = NoPending /\ oi'.running = oi.running
    <3>1. ~HasPending(oi)' /\ ~Unconcluded'
      BY <2>1, <2>4 DEF HasPending, NoPending, Unconcluded, HasRunning
    <3>2. /\ Holding'.cycle = NoCycle /\ Holding'.plan = NoPlan
          /\ Holding'.version = 0
      BY <3>1 DEF Holding
    <3>3. Inc!Decide
      BY <2>1, <3>2 DEF Inc!Decide, Inc!LetGo
    <3> QED BY <3>3 DEF Inc!Next
  <2> QED BY <2>2, <2>3, <2>4
<1>13. CASE Register
  <2>1. /\ rowed' = rowed /\ merged' = merged /\ pc = "register"
        /\ pc' # "decide" /\ job.cyc \in Cycle /\ ~Unconcluded
        /\ job.plan = accepted[job.cyc] /\ job.plan \in Plan
    BY <1>0, <1>13 DEF Register, Waiting, Preparing, AllInv, PlanInv,
                       Dispatching, DeliveryInv, LineageInv, Minted
  <2>2. \/ oi' = oi
        \/ /\ oi'.pending = oi.pending /\ oi'.running.cycle = job.cyc
           /\ oi'.running.plan = job.plan
    BY <1>0, <1>13 DEF Register, Store, AttemptStarted, StateType
  <2>3. CASE oi' = oi
    BY <2>1, <2>3, HoldingKept, StillStutters DEF Still
  <2>4. CASE oi' # oi /\ HasPending(oi)
    <3>1. Holding' = Holding
      BY <2>2, <2>4 DEF Holding, HasPending
    <3> QED BY <2>1, <3>1, StillStutters DEF Still
  <2>5. CASE oi' # oi /\ ~HasPending(oi)
    <3>1. job.cyc \notin rowed
      BY <1>0, <2>1, <2>5
         DEF AllInv, LineageInv, Whereabouts, Dispatching, HasPending
    <3>2. ~HasPending(oi)' /\ Unconcluded'
      BY <1>0, <2>1, <2>2, <2>5, <3>1 DEF HasPending, Unconcluded, HasRunning
    <3>3. /\ Holding'.cycle = job.cyc /\ Holding'.plan = job.plan
          /\ Holding'.version = 1 /\ Holding.cycle = NoCycle
      BY <2>1, <2>2, <2>5, <3>2 DEF Holding
    <3>4. Inc!Take(job.cyc, job.plan)
      BY <2>1, <3>3 DEF Inc!Take
    <3> QED BY <2>1, <3>4 DEF Inc!Next
  <2> QED BY <2>3, <2>4, <2>5
<1>14. CASE Spawn \/ Classified
  <2>1. /\ rowed' = rowed /\ merged' = merged /\ pc # "decide"
        /\ pc' # "decide"
    BY <1>14 DEF Spawn, Classified
  <2>2. /\ oi'.pending = oi.pending
        /\ oi'.running.cycle = oi.running.cycle
        /\ oi'.running.plan = oi.running.plan
    <3>1. CASE Spawn
      BY <1>0, <3>1 DEF Spawn, Store, TaskAttached, StateType, RunningType
    <3>2. CASE Classified
      BY <1>0, <3>2 DEF Classified, Store, ModelCallCompleted, StateType
    <3> QED BY <1>14, <3>1, <3>2
  <2> QED BY <2>1, <2>2, HoldingKept, StillStutters DEF Still
<1>15. CASE SupplierPaused
  BY <1>15, InterruptedAsImplements DEF SupplierPaused
<1>16. CASE RecordInterruption
  BY <1>16, InterruptedAsImplements DEF RecordInterruption
<1>17. CASE RowWritten
  <2>1. /\ rowed' = rowed \cup {job.cyc} /\ merged' = merged /\ oi' = oi
        /\ pc # "decide" /\ pc' # "decide" /\ job.cyc \in Cycle
    BY <1>0, <1>17 DEF RowWritten, Waiting
  <2>2. CASE HasPending(oi) \/ (Unconcluded <=> Unconcluded')
    <3>1. Holding' = Holding
      BY <2>1, <2>2 DEF Holding, HasPending
    <3>2. Inc!Conclude(job.cyc)
      BY <2>1, <3>1 DEF Inc!Conclude, Inc!SameIncrement
    <3> QED BY <2>1, <3>2 DEF Inc!Next
  <2>3. CASE ~HasPending(oi) /\ ~(Unconcluded <=> Unconcluded')
    <3>1. Unconcluded /\ ~Unconcluded' /\ oi.running.cycle = job.cyc
      BY <2>1, <2>3 DEF Unconcluded, HasRunning
    <3>2. /\ Holding.cycle = job.cyc /\ Holding'.cycle = NoCycle
          /\ Holding'.plan = NoPlan /\ Holding'.version = 0
      BY <2>1, <2>3, <3>1 DEF Holding, HasPending
    <3>3. Inc!Conclude(job.cyc)
      BY <2>1, <3>2 DEF Inc!Conclude, Inc!LetGo
    <3> QED BY <2>1, <3>3 DEF Inc!Next
  <2> QED BY <2>2, <2>3
<1>18. CASE AttemptEnds
  <2>1. /\ rowed' = rowed /\ merged' = merged /\ pc = "finish"
        /\ pc' = "idle" /\ job.cyc \in rowed
    BY <1>18 DEF AttemptEnds, AllInv, LineageInv, Rows
  <2>2. /\ oi'.pending = oi.pending
        /\ \/ oi'.running = oi.running
           \/ oi.running.cycle = job.cyc /\ oi'.running.cycle = NoCycle
    BY <1>0, <1>18 DEF AttemptEnds, Store, AttemptFinished, NoRunning,
                       StateType
  <2>3. \/ oi'.running = oi.running
        \/ ~Unconcluded /\ ~Unconcluded'
    BY <2>1, <2>2 DEF Unconcluded, HasRunning
  <2> QED BY <2>1, <2>2, <2>3, HoldingKept, StillStutters DEF Still
<1>19. CASE Crash
  <2>1. /\ oi' = oi /\ rowed' = rowed /\ merged' = merged
        /\ pc' = "idle"
    BY <1>19 DEF Crash
  <2>2. Still
    BY <2>1, HoldingKept DEF Still
  <2> QED BY <2>1, <2>2, StillDecides, StillStutters
<1>20. CASE HoldPasses \/ OperatorClearsFlag
  <2>1. /\ oi'.pending = oi.pending /\ oi'.running = oi.running
        /\ rowed' = rowed /\ merged' = merged /\ pc' = pc
    BY <1>0, <1>20 DEF HoldPasses, OperatorClearsFlag, FlagCleared, StateType
  <2> QED BY <2>1, HoldingKept, StillStutters DEF Still
<1> QED
  BY <1>1, <1>2, <1>3, <1>4, <1>5, <1>6, <1>7, <1>8, <1>9, <1>10, <1>11,
     <1>12, <1>13, <1>14, <1>15, <1>16, <1>17, <1>18, <1>19, <1>20
     DEF Next, Tick, KillCheck, Prepare, LatePush, Session, Attempt, Conclude

LEMMA InitImplements == Init => Inc!Init
BY DEF Init, EmptyState, NoPending, NoRunning, Inc!Init, Inc!Nothing, Holding,
       HasPending, Unconcluded, HasRunning

\* The bridge implements Increment: through kills, failed saves and lost
\* acknowledgements the record lets go of an increment only by the planner's
\* decision, by its delivery or together with its outcome, and never puts
\* another cycle in its place.
THEOREM BridgeImplementsIncrement == Spec => ImplementsIncrement
<1>1. AllInv /\ [Next]_vars => [Inc!Next]_(Inc!vars)
  BY StepImplements
<1> QED BY InitImplements, <1>1, AllAlways, PTL
        DEF Spec, ImplementsIncrement, Inc!Spec
=============================================================================
