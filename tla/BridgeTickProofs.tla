-------------------------- MODULE BridgeTickProofs --------------------------
(***************************************************************************)
(* Proofs about BridgeTick for any number of cycles, plans and repair      *)
(* turns, with and without failing saves, lost acknowledgements and kills. *)
(***************************************************************************)
EXTENDS BridgeTick, TLAPS

-----------------------------------------------------------------------------
(* The functions of OpenIncrement return records.                          *)

LEMMA KillKeyType == \A c \in Cycle : KillKey(c) \in Key
BY DEF Key

LEMMA FinishedType ==
    \A s \in StateType, c \in Cycle : AttemptFinished(s, c) \in StateType
BY DEF AttemptFinished, StateType, RunningType, NoRunning

LEMMA CompletedType == \A s \in StateType : ModelCallCompleted(s) \in StateType
<1>1. 0 \in 0 .. StreakCap
  BY OpenIncrementAssumption DEF OpenIncrementAssumption
<1> QED BY <1>1 DEF ModelCallCompleted, StateType

\* The record of an interruption, before its hold and its streak.
LEMMA InterruptedType ==
    ASSUME NEW s \in StateType, NEW c \in Cycle, NEW k \in Key,
           NEW p \in Plan \cup {NoPlan}, NEW why \in Reason
    PROVE  Interrupted(s, c, k, p, why) \in StateType
<1>1. CarriedVersion(s, c) \in 0 .. VersionCap
  BY OpenIncrementAssumption
     DEF OpenIncrementAssumption, CarriedVersion, StateType, PendingType
<1> QED BY <1>1, FinishedType DEF Interrupted, StateType, PendingType

LEMMA SupplyType ==
    \A s \in StateType, c \in Cycle, k \in Key, p \in Plan \cup {NoPlan} :
        SupplyInterrupted(s, c, k, p) \in StateType
<1> TAKE s \in StateType, c \in Cycle, k \in Key, p \in Plan \cup {NoPlan}
<1>1. Interrupted(s, c, k, p, "interrupted_supply") \in StateType
  BY InterruptedType DEF Reason
<1>2. NextStreak(s, k) \in 0 .. StreakCap
  BY OpenIncrementAssumption
     DEF OpenIncrementAssumption, NextStreak, StateType
<1>3. (s.flagged \/ NextStreak(s, k) >= FlagThreshold) \in BOOLEAN
  OBVIOUS
<1> QED BY <1>1, <1>2, <1>3 DEF SupplyInterrupted, StateType

LEMMA NoBackoffType ==
    \A s \in StateType, c \in Cycle, k \in Key, p \in Plan \cup {NoPlan},
       why \in Reason : InterruptedNoBackoff(s, c, k, p, why) \in StateType
<1> TAKE s \in StateType, c \in Cycle, k \in Key, p \in Plan \cup {NoPlan},
         why \in Reason
<1>1. Interrupted(s, c, k, p, why) \in StateType
  BY InterruptedType
<1> QED BY <1>1 DEF InterruptedNoBackoff, StateType

LEMMA UnheldType ==
    \A s \in StateType : Unheld(s) \in StateType /\ Kept(s) \in StateType
<1>1. 0 \in 0 .. StreakCap
  BY OpenIncrementAssumption DEF OpenIncrementAssumption
<1> QED BY <1>1 DEF Kept, Unheld, StateType

LEMMA EditedType ==
    \A s \in StateType, p \in Plan :
        s.pending.version < VersionCap => KeptEdited(s, p) \in StateType
<1> SUFFICES ASSUME NEW s \in StateType, NEW p \in Plan,
                    s.pending.version < VersionCap
             PROVE  KeptEdited(s, p) \in StateType
  OBVIOUS
<1>1. s.pending.version + 1 \in 0 .. VersionCap
  BY OpenIncrementAssumption
     DEF OpenIncrementAssumption, StateType, PendingType
<1>2. [s.pending EXCEPT !.plan = p, !.version = @ + 1] \in PendingType
  BY <1>1 DEF StateType, PendingType
<1>3. KeptEdited(s, p) = [Unheld(s) EXCEPT
          !.pending = [s.pending EXCEPT !.plan = p, !.version = @ + 1]]
  BY DEF KeptEdited, Unheld, StateType, PendingType
<1> QED BY UnheldType, <1>2, <1>3 DEF StateType

LEMMA DroppedType == \A s \in StateType : Dropped(s) \in StateType
<1>1. NoPending \in PendingType
  BY OpenIncrementAssumption
     DEF OpenIncrementAssumption, NoPending, PendingType
<1> QED BY <1>1, UnheldType DEF Dropped, StateType

LEMMA ClearedType ==
    \A s \in StateType, c \in Cycle : ClearedOnIntegration(s, c) \in StateType
BY DroppedType DEF ClearedOnIntegration

LEMMA StartedType ==
    \A s \in StateType, c \in Cycle, p \in Plan \cup {NoPlan} :
        AttemptStarted(s, c, p) \in StateType
BY DEF AttemptStarted, StateType, RunningType

LEMMA AttachedType ==
    \A s \in StateType, c \in Cycle : TaskAttached(s, c) \in StateType
BY DEF TaskAttached, StateType, RunningType

LEMMA SurroundingsTypes ==
    \A s \in StateType : /\ FlagCleared(s) \in StateType
                         /\ [s EXCEPT !.hold = "due"] \in StateType
BY DEF FlagCleared, StateType

LEMMA NoJobType == NoJob \in JobType
<1>1. 0 \in 0 .. MaxRepairs
  BY BridgeTickAssumption DEF BridgeTickAssumption
<1> QED BY <1>1 DEF NoJob, JobFor, JobType, Verdicts

LEMMA JobForType ==
    ASSUME NEW c \in Cycle, NEW p \in Plan \cup {NoPlan}
    PROVE  /\ JobFor(c, p, FALSE) \in JobType /\ JobFor(c, p, FALSE).cyc = c
           /\ JobFor(c, p, TRUE) \in JobType /\ JobFor(c, p, TRUE).cyc = c
<1>1. 0 \in 0 .. MaxRepairs
  BY BridgeTickAssumption DEF BridgeTickAssumption
<1> QED BY <1>1 DEF JobFor, JobType, Verdicts

-----------------------------------------------------------------------------
(* Types.  From the pick of a late push or of a plan to the end of the     *)
(* tick the job names a cycle.                                             *)

Waiting == {"idle", "precheck", "late", "session", "decide"}

TypeInv ==
    /\ TypeOK
    /\ pc \notin Waiting => job.cyc \in Cycle

LEMMA TypeInit == Init => TypeInv
<1> USE OpenIncrementAssumption DEF OpenIncrementAssumption
<1> SUFFICES ASSUME Init PROVE TypeInv
  OBVIOUS
<1>1. EmptyState \in StateType
  <2>1. 0 \in 0 .. StreakCap /\ 0 \in 0 .. VersionCap
    OBVIOUS
  <2> QED BY <2>1 DEF EmptyState, NoPending, NoRunning, StateType,
                      PendingType, RunningType
<1> QED BY <1>1, NoJobType DEF Init, TypeInv, TypeOK, Waiting, Status

LEMMA TypeNext == TypeInv /\ [Next]_vars => TypeInv'
<1> USE DEF TypeInv, TypeOK, Waiting, Verdicts, Status,
            Go, EndTick, disk, git, ledger, proc, aux
<1> SUFFICES ASSUME TypeInv, [Next]_vars PROVE TypeInv'
  OBVIOUS
<1>1. CASE NothingStale
  BY <1>1 DEF NothingStale
<1>2. CASE StaleReconciled
  BY <1>2, FinishedType
     DEF StaleReconciled, Store, StaleRunning, HasRunning, StateType,
         RunningType
<1>3. CASE StaleRecorded
  <2>1. /\ oi.running.cycle \in Cycle
        /\ oi.running.plan \in Plan \cup {NoPlan}
        /\ KillKey(oi.running.cycle) \in Key
    BY <1>3, KillKeyType
       DEF StaleRecorded, StaleRunning, HasRunning, StateType, RunningType
  <2>2. StaleCause(oi, tele) \in Reason
    BY DEF StaleCause, Reason
  <2>3. /\ SupplyInterrupted(oi, oi.running.cycle, KillKey(oi.running.cycle),
                             oi.running.plan) \in StateType
        /\ InterruptedNoBackoff(oi, oi.running.cycle, KillKey(oi.running.cycle),
                                oi.running.plan, StaleCause(oi, tele))
               \in StateType
    BY <2>1, <2>2, SupplyType, NoBackoffType
  <2>4. oi' \in StateType
    BY <1>3, <2>3 DEF StaleRecorded, Store
  <2> QED BY <1>3, <2>4 DEF StaleRecorded
<1>4. CASE Held
  BY <1>4 DEF Held
<1>5. CASE PrepareRepository
  BY <1>5 DEF PrepareRepository, Todo, MainMoved
<1>6. ASSUME NEW c \in Cycle, LateAbandoned(c)
       PROVE  TypeInv'
  BY <1>6, FinishedType DEF LateAbandoned, LateRow, Store
<1>7. ASSUME NEW c \in Cycle, LateSuperseded(c)
       PROVE  TypeInv'
  BY <1>7, FinishedType DEF LateSuperseded, LateRow, Store
<1>8. ASSUME NEW c \in Cycle, LateSkipped(c)
       PROVE  TypeInv'
  BY <1>8 DEF LateSkipped, MainMoved
<1>9. ASSUME NEW c \in Cycle, LatePushed(c)
       PROVE  TypeInv'
  BY <1>9 DEF LatePushed, MainMoved, JobType
<1>10. CASE LatePushRecorded
  BY <1>10, FinishedType DEF LatePushRecorded, LateRow, Store
<1>11. CASE LateCleared
  BY <1>11, ClearedType, NoJobType DEF LateCleared, Cleared, Store
<1>12. CASE Prepared
  BY <1>12 DEF Prepared
<1>13. CASE NotRestored
  BY <1>13, NoJobType DEF NotRestored
<1>14. CASE SessionFails
  BY <1>14 DEF SessionFails
<1>15. CASE SessionAnswers
  BY <1>15, CompletedType DEF SessionAnswers, Store
<1>16. CASE NoPlanAnswer
  BY <1>16 DEF NoPlanAnswer
<1>17. ASSUME NEW c \in Cycle, NEW p \in Plan, PlanAnswer(c, p)
       PROVE  TypeInv'
  <2>1. job' \in JobType /\ job'.cyc = c
    BY <1>17, JobForType DEF PlanAnswer, NewPlan
  <2> QED BY <1>17, <2>1 DEF PlanAnswer, NewPlan
<1>18. CASE KeepConfirmed
  <2>1. oi' \in StateType
    BY <1>18, UnheldType DEF KeepConfirmed, Store
  <2>2. oi.pending.cycle \in Cycle /\ oi.pending.plan \in Plan \cup {NoPlan}
    BY <1>18 DEF KeepConfirmed, HasPending, StateType, PendingType
  <2>3. \/ job' = NoJob /\ pc' = "idle"
        \/ job' = JobFor(oi.pending.cycle, oi.pending.plan, TRUE)
    BY <1>18 DEF KeepConfirmed, Resume
  <2>4. /\ JobFor(oi.pending.cycle, oi.pending.plan, TRUE) \in JobType
        /\ JobFor(oi.pending.cycle, oi.pending.plan, TRUE).cyc = oi.pending.cycle
    BY <2>2, JobForType
  <2>5. job' \in JobType /\ (pc' \notin Waiting => job'.cyc \in Cycle)
    BY <2>2, <2>3, <2>4, NoJobType
  <2> QED BY <1>18, <2>1, <2>5 DEF KeepConfirmed, Resume
<1>19. ASSUME NEW p \in Plan, KeepEdited(p)
       PROVE  TypeInv'
  <2>1. oi' \in StateType
    BY <1>19, EditedType DEF KeepEdited, Store
  <2>2. oi.pending.cycle \in Cycle
    BY <1>19 DEF KeepEdited, HasPending, StateType, PendingType
  <2>3. \/ job' = NoJob /\ pc' = "idle"
        \/ job' = JobFor(oi.pending.cycle, p, TRUE)
    BY <1>19 DEF KeepEdited, Resume
  <2>4. /\ JobFor(oi.pending.cycle, p, TRUE) \in JobType
        /\ JobFor(oi.pending.cycle, p, TRUE).cyc = oi.pending.cycle
    BY <2>2, JobForType
  <2>5. job' \in JobType /\ (pc' \notin Waiting => job'.cyc \in Cycle)
    BY <2>2, <2>3, <2>4, NoJobType
  <2> QED BY <1>19, <2>1, <2>5 DEF KeepEdited, Resume
<1>20. ASSUME NEW c \in Cycle, NEW p \in Plan, EditOrDelete(c, p)
       PROVE  TypeInv'
  <2>1. oi' \in StateType
    BY <1>20, DroppedType DEF EditOrDelete, Store
  <2>2. \/ job' = NoJob /\ pc' = "idle"
        \/ job' = JobFor(c, p, FALSE)
    BY <1>20 DEF EditOrDelete, NewPlan
  <2>3. /\ JobFor(c, p, FALSE) \in JobType
        /\ JobFor(c, p, FALSE).cyc = c
    BY JobForType
  <2>4. job' \in JobType /\ (pc' \notin Waiting => job'.cyc \in Cycle)
    BY <2>2, <2>3, NoJobType
  <2> QED BY <1>20, <2>1, <2>4 DEF EditOrDelete, NewPlan
<1>21. CASE DeleteRefused
  BY <1>21, UnheldType DEF DeleteRefused, Store
<1>22. CASE DiaryPushed
  BY <1>22 DEF DiaryPushed, MainMoved
<1>23. CASE DiaryFails
  BY <1>23, NoJobType DEF DiaryFails, MainMoved
<1>24. CASE NotStarted
  BY <1>24 DEF NotStarted, JobType
<1>25. CASE BranchReady
  BY <1>25 DEF BranchReady
<1>26. CASE Register
  BY <1>26, StartedType DEF Register, Store, JobType
<1>27. CASE Spawn
  BY <1>27, AttachedType DEF Spawn, Store
<1>28. CASE Commits
  BY <1>28 DEF Commits, JobType
<1>29. ASSUME NEW s \in Status, ExecutorEnds(s)
       PROVE  TypeInv'
  BY <1>29 DEF ExecutorEnds
<1>30. CASE SupplierPaused
  BY <1>30, SupplyType, NoJobType
     DEF SupplierPaused, InterruptedAs, Store, Key, JobType
<1>31. CASE Classified
  BY <1>31, CompletedType DEF Classified, Store, JobType
<1>32. CASE RecordInterruption
  <2>1. /\ TaskKey \subseteq Key
        /\ "interrupted_defect" \in Reason
        /\ job.plan \in Plan \cup {NoPlan}
    BY DEF Key, Reason, JobType
  <2>2. \A k \in TaskKey :
            /\ SupplyInterrupted(oi, job.cyc, k, job.plan) \in StateType
            /\ InterruptedNoBackoff(oi, job.cyc, k, job.plan,
                                    "interrupted_defect") \in StateType
    BY <1>32, <2>1, SupplyType, NoBackoffType DEF RecordInterruption
  <2>3. oi' \in StateType
    BY <1>32, <2>2 DEF RecordInterruption, InterruptedAs, Store
  <2>4. job' \in JobType /\ (pc' \notin Waiting => job'.cyc \in Cycle)
    <3>1. CASE job' = [job EXCEPT !.verdict = "interrupted"]
      BY <1>32, <3>1 DEF RecordInterruption, JobType
    <3>2. CASE job' = NoJob /\ pc' = "idle"
      BY <3>2, NoJobType DEF Waiting
    <3> QED BY <1>32, <3>1, <3>2 DEF RecordInterruption, InterruptedAs, Go
  <2> QED BY <1>32, <2>3, <2>4 DEF RecordInterruption, InterruptedAs
<1>33. CASE NotIntegrated
  BY <1>33 DEF NotIntegrated, JobType
<1>34. CASE RepairStarts
  <2>1. job.repairs + 1 \in 0 .. MaxRepairs
    BY <1>34, BridgeTickAssumption DEF RepairStarts, BridgeTickAssumption,
       JobType
  <2> QED BY <1>34, <2>1 DEF RepairStarts, JobType
<1>35. ASSUME NEW s \in Status, RepairEnds(s)
       PROVE  TypeInv'
  BY <1>35 DEF RepairEnds, JobType
<1>36. CASE Integrated
  BY <1>36 DEF Integrated, MainMoved, JobType
<1>37. CASE PushPends
  BY <1>37 DEF PushPends, JobType
<1>38. CASE PushLandsUnseen
  BY <1>38 DEF PushLandsUnseen, MainMoved, JobType
<1>39. CASE IntegrationCleared
  BY <1>39, ClearedType DEF IntegrationCleared, Cleared, Store
<1>40. CASE RowWritten
  BY <1>40 DEF RowWritten, JobType
<1>41. CASE AttemptEnds
  BY <1>41, FinishedType, NoJobType DEF AttemptEnds, Store
<1>42. CASE Crash
  BY <1>42, NoJobType DEF Crash
<1>43. CASE HoldPasses
  BY <1>43, SurroundingsTypes DEF HoldPasses
<1>44. CASE OperatorClearsFlag
  <2>1. oi' \in StateType
    BY <1>44, SurroundingsTypes DEF OperatorClearsFlag
  <2> QED BY <1>44, <2>1 DEF OperatorClearsFlag
<1>45. CASE UNCHANGED vars
  BY <1>45 DEF vars
<1> QED
  BY <1>1, <1>2, <1>3, <1>4, <1>5, <1>6, <1>7, <1>8, <1>9, <1>10, <1>11, <1>12,
     <1>13, <1>14, <1>15, <1>16, <1>17, <1>18, <1>19, <1>20, <1>21, <1>22,
     <1>23, <1>24, <1>25, <1>26, <1>27, <1>28, <1>29, <1>30, <1>31, <1>32,
     <1>33, <1>34, <1>35, <1>36, <1>37, <1>38, <1>39, <1>40, <1>41, <1>42,
     <1>43, <1>44, <1>45
     DEF Next, Tick, KillCheck, Prepare, LatePush, Session, Attempt, Conclude

\* TypeOK holds in every reachable state; the second part of TypeInv is what
\* makes it inductive.
THEOREM TypeCorrect == Spec => []TypeOK
<1>1. TypeInv => TypeOK
  BY DEF TypeInv
<1> QED BY TypeInit, TypeNext, <1>1, PTL DEF Spec

LEMMA TypesAlways == Spec => []TypeInv
BY TypeInit, TypeNext, PTL DEF Spec

-----------------------------------------------------------------------------
(* Lineage.  NoAttemptLost, SingleLineage and RegisteredWhileRunning are   *)
(* not inductive: a finished attempt may leave its registration on disk    *)
(* when a save is lost, and the next Register overwrites it.  What makes   *)
(* that harmless is that such a registration belongs to a cycle that has a *)
(* row, and that an open cycle with a row is the pending one.              *)

Preparing == {"precheck", "late", "lateRow", "lateClear", "session", "decide",
              "diary", "dispatch", "register"}

Dispatching == {"diary", "dispatch", "register"}

\* The ids in use: every cycle the durable state or the job names was minted.
Minted ==
    /\ rowed \subseteq used
    /\ HasPending(oi) => oi.pending.cycle \in used
    /\ HasRunning(oi) => oi.running.cycle \in used
    /\ pc \notin Waiting => job.cyc \in used

\* Rows come before registrations are dropped.
Rows ==
    /\ \A c \in Cycle : pushRow[c] # "none" => c \in rowed
    /\ todo \subseteq rowed
    /\ pc \in {"lateRow", "lateClear", "finish"} => job.cyc \in rowed

\* Where an open attempt is when it is not running.
Whereabouts ==
    /\ pc \in Preparing => open \subseteq {oi.pending.cycle}
    /\ open \cap rowed \subseteq {oi.pending.cycle}
    /\ pc \in {"lateRow", "lateClear", "clear"} => job.cyc \notin open
    /\ pc \in Dispatching =>
           /\ HasPending(oi) => oi.pending.cycle = job.cyc
           /\ job.cyc \in rowed => oi.pending.cycle = job.cyc
    /\ pc = "row" /\ job.verdict \in {"blocked", "interrupted"}
           => (job.cyc \in open => oi.pending.cycle = job.cyc)

LineageInv ==
    /\ NoAttemptLost /\ SingleLineage /\ RegisteredWhileRunning
    /\ Minted /\ Rows /\ Whereabouts

LEMMA LineageInit == Init => LineageInv
BY DEF Init, EmptyState, NoPending, NoRunning, NoJob, JobFor, LineageInv,
       NoAttemptLost, SingleLineage, RegisteredWhileRunning, Minted, Rows,
       Whereabouts, HasPending, HasRunning, Waiting, Preparing, Dispatching

LEMMA LineageNext == TypeInv /\ LineageInv /\ [Next]_vars => LineageInv'
<1> USE DEF LineageInv, NoAttemptLost, SingleLineage, RegisteredWhileRunning,
            Minted, Rows, Whereabouts, TypeInv, TypeOK, StateType,
            PendingType, RunningType, JobType, NoJob, JobFor, HasPending,
            HasRunning,
            Waiting, Preparing, Dispatching, Store, Go, EndTick, disk, git,
            ledger, proc, aux
<1> SUFFICES ASSUME TypeInv /\ LineageInv, [Next]_vars PROVE LineageInv'
  OBVIOUS
<1>1. CASE NothingStale
  <2>1. NoCycle \notin Cycle
    BY OpenIncrementAssumption DEF OpenIncrementAssumption
  <2> QED BY <1>1, <2>1 DEF NothingStale, StaleRunning
<1>2. CASE StaleReconciled
  BY <1>2
     DEF StaleReconciled, StaleRunning, AttemptFinished, NoRunning
<1>3. CASE StaleRecorded
  <2> DEFINE c == oi.running.cycle
  <2>1. c \in Cycle /\ c \notin rowed /\ c \in used /\ NoCycle \notin Cycle
    BY <1>3, OpenIncrementAssumption
       DEF StaleRecorded, StaleRunning, OpenIncrementAssumption
  <2>2. open \subseteq {c}
    BY <1>3, <2>1 DEF StaleRecorded, StaleRunning
  <2>3. \/ oi' = oi /\ pc' = "idle"
        \/ oi'.pending.cycle = c /\ oi'.running = NoRunning
    BY <1>3 DEF StaleRecorded, SupplyInterrupted, InterruptedNoBackoff,
                Interrupted, AttemptFinished, Landed
  <2>4. pc' \in {"idle", "precheck"} /\ UNCHANGED <<tele, git, ledger, job, todo, aux>>
    BY <1>3 DEF StaleRecorded
  <2>5. CASE oi' = oi /\ pc' = "idle"
    BY <2>1, <2>2, <2>4, <2>5
  <2>6. CASE oi'.pending.cycle = c /\ oi'.running = NoRunning
    <3> HIDE DEF c
    <3>1. NoAttemptLost' /\ SingleLineage' /\ RegisteredWhileRunning'
      BY <2>1, <2>2, <2>4, <2>6 DEF NoRunning
    <3>2. Minted' /\ Rows'
      BY <2>1, <2>4, <2>6 DEF NoRunning
    <3>3. Whereabouts'
      BY <2>1, <2>2, <2>4, <2>6
    <3> QED BY <3>1, <3>2, <3>3
  <2> QED BY <2>3, <2>4, <2>5, <2>6
<1>4. CASE Held
  BY <1>4 DEF Held
<1>5. CASE PrepareRepository
  BY <1>5 DEF PrepareRepository, Todo, MainMoved
<1>6. ASSUME NEW c \in Cycle, LateAbandoned(c)
       PROVE  LineageInv'
  BY <1>6 DEF LateAbandoned, LateRow, AttemptFinished, NoRunning
<1>7. ASSUME NEW c \in Cycle, LateSuperseded(c)
       PROVE  LineageInv'
  BY <1>7 DEF LateSuperseded, LateRow, AttemptFinished, NoRunning
<1>8. ASSUME NEW c \in Cycle, LateSkipped(c)
       PROVE  LineageInv'
  BY <1>8 DEF LateSkipped, MainMoved
<1>9. ASSUME NEW c \in Cycle, LatePushed(c)
       PROVE  LineageInv'
  BY <1>9 DEF LatePushed, MainMoved
<1>10. CASE LatePushRecorded
  BY <1>10 DEF LatePushRecorded, LateRow, AttemptFinished, NoRunning
<1>11. CASE LateCleared
  BY <1>11
     DEF LateCleared, Cleared, ClearedOnIntegration, Dropped, Unheld, NoPending
<1>12. CASE Prepared
  BY <1>12 DEF Prepared
<1>13. CASE NotRestored
  BY <1>13 DEF NotRestored
<1>14. CASE SessionFails
  BY <1>14 DEF SessionFails
<1>15. CASE SessionAnswers
  BY <1>15 DEF SessionAnswers, ModelCallCompleted
<1>16. CASE NoPlanAnswer
  BY <1>16 DEF NoPlanAnswer
<1>17. ASSUME NEW c \in Cycle, NEW p \in Plan, PlanAnswer(c, p)
       PROVE  LineageInv'
  BY <1>17 DEF PlanAnswer, NewPlan
<1>18. CASE KeepConfirmed
  <2> DEFINE c == oi.pending.cycle
  <2>1. /\ c \in Cycle /\ c \in used
        /\ oi'.pending.cycle = c /\ oi'.running = oi.running
    BY <1>18 DEF KeepConfirmed, Kept, Unheld
  <2>2. \/ pc' = "idle" /\ job' = NoJob
        \/ pc' = "diary" /\ job'.cyc = c
    BY <1>18 DEF KeepConfirmed, Resume
  <2> QED BY <1>18, <2>1, <2>2 DEF KeepConfirmed
<1>19. ASSUME NEW p \in Plan, KeepEdited(p)
       PROVE  LineageInv'
  <2> DEFINE c == oi.pending.cycle
  <2>1. /\ c \in Cycle /\ c \in used
        /\ oi'.pending.cycle = c /\ oi'.running = oi.running
    BY <1>19 DEF KeepEdited, KeptEdited, Unheld
  <2>2. \/ pc' = "idle" /\ job' = NoJob
        \/ pc' = "diary" /\ job'.cyc = c
    BY <1>19 DEF KeepEdited, Resume
  <2> QED BY <1>19, <2>1, <2>2 DEF KeepEdited
<1>20. ASSUME NEW c \in Cycle, NEW p \in Plan, EditOrDelete(c, p)
       PROVE  LineageInv'
  <2>1. /\ oi.pending.cycle \in Cycle /\ oi'.running = oi.running
        /\ NoCycle \notin Cycle
    BY <1>20, OpenIncrementAssumption
       DEF EditOrDelete, Dropped, Unheld, OpenIncrementAssumption
  <2>2. \/ oi'.pending = oi.pending /\ open' = open
        \/ oi'.pending = NoPending /\ open' = open \ {oi.pending.cycle}
    BY <1>20 DEF EditOrDelete, Dropped, Unheld, Landed
  <2>3. \/ pc' = "idle" /\ job' = NoJob /\ used' = used
        \/ /\ pc' = "diary" /\ job'.cyc = c
           /\ c \notin used /\ used' = used \cup {c}
           /\ oi'.pending = NoPending
    BY <1>20 DEF EditOrDelete, NewPlan, Dropped, Unheld, Landed
  <2> QED BY <1>20, <2>1, <2>2, <2>3 DEF EditOrDelete, NoPending
<1>21. CASE DeleteRefused
  BY <1>21 DEF DeleteRefused, Unheld
<1>22. CASE DiaryPushed
  BY <1>22 DEF DiaryPushed, MainMoved
<1>23. CASE DiaryFails
  BY <1>23 DEF DiaryFails, MainMoved
<1>24. CASE NotStarted
  BY <1>24 DEF NotStarted
<1>25. CASE BranchReady
  BY <1>25 DEF BranchReady
<1>26. CASE Register
  <2>1. /\ job.cyc \in Cycle /\ job.cyc \in used /\ NoCycle \notin Cycle
        /\ oi'.pending = oi.pending
    BY <1>26, OpenIncrementAssumption
       DEF Register, AttemptStarted, OpenIncrementAssumption
  <2>2. \/ /\ pc' = "spawn" /\ job' = job /\ open' = open \cup {job.cyc}
           /\ oi'.running.cycle = job.cyc /\ oi'.running.plan = job.plan
        \/ /\ pc' = "row" /\ job'.cyc = job.cyc /\ open' = open
           /\ oi'.running = oi.running \/ oi'.running.cycle = job.cyc
    BY <1>26 DEF Register, AttemptStarted, Landed
  <2> QED BY <1>26, <2>1, <2>2 DEF Register
<1>27. CASE Spawn
  BY <1>27 DEF Spawn, TaskAttached
<1>28. CASE Commits
  BY <1>28 DEF Commits
<1>29. ASSUME NEW s \in Status, ExecutorEnds(s)
       PROVE  LineageInv'
  BY <1>29 DEF ExecutorEnds
<1>30. CASE SupplierPaused
  <2>1. /\ job.cyc \in Cycle /\ job.cyc \in used
        /\ oi.running.cycle = job.cyc
        /\ open \subseteq {job.cyc}
    BY <1>30, OpenIncrementAssumption
       DEF OpenIncrementAssumption, SupplierPaused
  <2>2. \/ oi' = oi /\ pc' = "idle" /\ job' = NoJob
        \/ /\ oi'.pending.cycle = job.cyc /\ oi'.running = NoRunning
           /\ \/ pc' = "idle" /\ job' = NoJob
              \/ pc' = "row" /\ job'.cyc = job.cyc
    BY <1>30, <2>1 DEF SupplierPaused, InterruptedAs, SupplyInterrupted,
           Interrupted, AttemptFinished, Landed
  <2> QED BY <1>30, <2>1, <2>2 DEF SupplierPaused, NoRunning
<1>31. CASE Classified
  BY <1>31 DEF Classified, ModelCallCompleted
<1>32. CASE RecordInterruption
  <2>1. /\ job.cyc \in Cycle /\ job.cyc \in used
        /\ oi.running.cycle = job.cyc
        /\ open \subseteq {job.cyc}
    BY <1>32, OpenIncrementAssumption
       DEF OpenIncrementAssumption, RecordInterruption
  <2>2. \/ oi' = oi /\ pc' = "idle" /\ job' = NoJob
        \/ /\ oi'.pending.cycle = job.cyc /\ oi'.running = NoRunning
           /\ \/ pc' = "idle" /\ job' = NoJob
              \/ pc' = "row" /\ job'.cyc = job.cyc
    BY <1>32, <2>1 DEF RecordInterruption, InterruptedAs, SupplyInterrupted,
       InterruptedNoBackoff,
           Interrupted, AttemptFinished, Landed
  <2> QED BY <1>32, <2>1, <2>2 DEF RecordInterruption, NoRunning
<1>33. CASE NotIntegrated
  BY <1>33 DEF NotIntegrated
<1>34. CASE RepairStarts
  BY <1>34 DEF RepairStarts
<1>35. ASSUME NEW s \in Status, RepairEnds(s)
       PROVE  LineageInv'
  BY <1>35 DEF RepairEnds
<1>36. CASE Integrated
  BY <1>36 DEF Integrated, MainMoved
<1>37. CASE PushPends
  BY <1>37 DEF PushPends
<1>38. CASE PushLandsUnseen
  BY <1>38 DEF PushLandsUnseen, MainMoved
<1>39. CASE IntegrationCleared
  BY <1>39
     DEF IntegrationCleared, Cleared, ClearedOnIntegration, Dropped, Unheld,
         NoPending
<1>40. CASE RowWritten
  BY <1>40 DEF RowWritten
<1>41. CASE AttemptEnds
  BY <1>41 DEF AttemptEnds, AttemptFinished, NoRunning
<1>42. CASE Crash
  BY <1>42 DEF Crash
<1>43. CASE HoldPasses
  BY <1>43 DEF HoldPasses
<1>44. CASE OperatorClearsFlag
  BY <1>44 DEF OperatorClearsFlag, FlagCleared
<1>45. CASE UNCHANGED vars
  BY <1>45 DEF vars
<1> QED
  BY <1>1, <1>2, <1>3, <1>4, <1>5, <1>6, <1>7, <1>8, <1>9, <1>10, <1>11, <1>12,
     <1>13, <1>14, <1>15, <1>16, <1>17, <1>18, <1>19, <1>20, <1>21, <1>22,
     <1>23, <1>24, <1>25, <1>26, <1>27, <1>28, <1>29, <1>30, <1>31, <1>32,
     <1>33, <1>34, <1>35, <1>36, <1>37, <1>38, <1>39, <1>40, <1>41, <1>42,
     <1>43, <1>44, <1>45
     DEF Next, Tick, KillCheck, Prepare, LatePush, Session, Attempt, Conclude

\* An attempt that was registered is never lost: LineageInv for every number
\* of cycles, kills and failing saves.
THEOREM AttemptsSurvive == Spec => []NoAttemptLost
<1>1. LineageInv => NoAttemptLost
  BY DEF LineageInv
<1> QED BY TypeInit, TypeNext, LineageInit, LineageNext, <1>1, PTL DEF Spec

\* At most one increment is under way: what runs is what is pending.
THEOREM OneLineage == Spec => []SingleLineage
<1>1. LineageInv => SingleLineage
  BY DEF LineageInv
<1> QED BY TypeInit, TypeNext, LineageInit, LineageNext, <1>1, PTL DEF Spec

\* Nothing is executed without its registration on disk.
THEOREM NothingRunsUnregistered == Spec => []RegisteredWhileRunning
<1>1. LineageInv => RegisteredWhileRunning
  BY DEF LineageInv
<1> QED BY TypeInit, TypeNext, LineageInit, LineageNext, <1>1, PTL DEF Spec

-----------------------------------------------------------------------------
(* The accepted plan.  A registration that outlived a keep with an edit    *)
(* still carries the old text; it does no harm because its cycle has a     *)
(* row, and the kill check recovers no such registration.                  *)

PlanInv ==
    /\ PlanMatchesAccepted
    /\ HasRunning(oi) /\ oi.running.cycle \notin rowed
           => oi.running.plan = accepted[oi.running.cycle]
    /\ pc \in Preparing /\ HasRunning(oi) => oi.running.cycle \in rowed
    /\ pc \in Dispatching \cup {"spawn", "running", "classify", "gate",
                                "repair", "interrupt"}
           => job.plan = accepted[job.cyc]

LEMMA PlanInit == Init => PlanInv
BY DEF Init, EmptyState, NoPending, NoRunning, PlanInv, PlanMatchesAccepted,
       HasPending, HasRunning, Preparing, Dispatching

LEMMA PlanNext == TypeInv /\ LineageInv /\ PlanInv /\ [Next]_vars => PlanInv'
<1> USE DEF PlanInv, PlanMatchesAccepted, LineageInv, SingleLineage,
            RegisteredWhileRunning, Minted, Rows, Whereabouts, TypeInv,
            TypeOK, StateType, PendingType, RunningType, JobType, NoJob,
            JobFor, HasPending, HasRunning, Waiting, Preparing, Dispatching,
            Store, Go, EndTick, disk, git, ledger, proc, aux
<1> SUFFICES ASSUME TypeInv /\ LineageInv /\ PlanInv, [Next]_vars
             PROVE  PlanInv'
  OBVIOUS
<1>1. CASE NothingStale
  BY <1>1 DEF NothingStale, StaleRunning
<1>2. CASE StaleReconciled
  BY <1>2
     DEF StaleReconciled, StaleRunning, AttemptFinished, NoRunning
<1>3. CASE StaleRecorded
  <2> DEFINE c == oi.running.cycle
  <2>1. c \in Cycle /\ c \notin rowed /\ NoCycle \notin Cycle
    BY <1>3, OpenIncrementAssumption
       DEF StaleRecorded, StaleRunning, OpenIncrementAssumption
  <2>2. \/ oi' = oi /\ pc' = "idle"
        \/ /\ oi'.pending.cycle = c /\ oi'.pending.plan = oi.running.plan
           /\ oi'.running = NoRunning
    BY <1>3 DEF StaleRecorded, SupplyInterrupted, InterruptedNoBackoff,
                Interrupted, AttemptFinished, Landed
  <2>3. pc' \in {"idle", "precheck"} /\ UNCHANGED <<tele, git, ledger, job, todo, aux>>
    BY <1>3 DEF StaleRecorded
  <2>4. CASE oi' = oi /\ pc' = "idle"
    BY <2>1, <2>3, <2>4
  <2>5. CASE /\ oi'.pending.cycle = c /\ oi'.pending.plan = oi.running.plan
             /\ oi'.running = NoRunning
    <3>1. oi.running.plan = accepted[c]
      BY <1>3, <2>1 DEF StaleRecorded, StaleRunning
    <3> HIDE DEF c
    <3>2. PlanMatchesAccepted'
      BY <2>1, <2>3, <2>5, <3>1
    <3> QED BY <2>1, <2>3, <2>5, <3>2 DEF NoRunning
  <2> QED BY <2>2, <2>3, <2>4, <2>5
<1>4. CASE Held
  BY <1>4 DEF Held
<1>5. CASE PrepareRepository
  BY <1>5 DEF PrepareRepository, Todo, MainMoved
<1>6. ASSUME NEW c \in Cycle, LateAbandoned(c)
       PROVE  PlanInv'
  BY <1>6 DEF LateAbandoned, LateRow, AttemptFinished, NoRunning
<1>7. ASSUME NEW c \in Cycle, LateSuperseded(c)
       PROVE  PlanInv'
  BY <1>7 DEF LateSuperseded, LateRow, AttemptFinished, NoRunning
<1>8. ASSUME NEW c \in Cycle, LateSkipped(c)
       PROVE  PlanInv'
  BY <1>8 DEF LateSkipped, MainMoved
<1>9. ASSUME NEW c \in Cycle, LatePushed(c)
       PROVE  PlanInv'
  BY <1>9 DEF LatePushed, MainMoved
<1>10. CASE LatePushRecorded
  BY <1>10 DEF LatePushRecorded, LateRow, AttemptFinished, NoRunning
<1>11. CASE LateCleared
  BY <1>11
     DEF LateCleared, Cleared, ClearedOnIntegration, Dropped, Unheld, NoPending
<1>12. CASE Prepared
  BY <1>12 DEF Prepared
<1>13. CASE NotRestored
  BY <1>13 DEF NotRestored
<1>14. CASE SessionFails
  BY <1>14 DEF SessionFails
<1>15. CASE SessionAnswers
  BY <1>15 DEF SessionAnswers, ModelCallCompleted
<1>16. CASE NoPlanAnswer
  BY <1>16 DEF NoPlanAnswer
<1>17. ASSUME NEW c \in Cycle, NEW p \in Plan, PlanAnswer(c, p)
       PROVE  PlanInv'
  BY <1>17 DEF PlanAnswer, NewPlan
<1>18. CASE KeepConfirmed
  <2> DEFINE c == oi.pending.cycle
  <2>1. /\ c \in Cycle /\ oi'.pending = oi.pending
        /\ oi'.running = oi.running
    BY <1>18 DEF KeepConfirmed, Kept, Unheld
  <2>2. \/ pc' = "idle"
        \/ pc' = "diary" /\ job'.cyc = c /\ job'.plan = oi.pending.plan
    BY <1>18 DEF KeepConfirmed, Resume
  <2> QED BY <1>18, <2>1, <2>2 DEF KeepConfirmed
<1>19. ASSUME NEW p \in Plan, KeepEdited(p)
       PROVE  PlanInv'
  <2> DEFINE c == oi.pending.cycle
  <2>1. c \in Cycle /\ oi'.pending.cycle = c /\ oi'.running = oi.running
    BY <1>19 DEF KeepEdited, KeptEdited, Unheld
  <2>2. \/ oi'.pending.plan = oi.pending.plan /\ accepted' = accepted
        \/ oi'.pending.plan = p /\ accepted' = [accepted EXCEPT ![c] = p]
    BY <1>19 DEF KeepEdited, KeptEdited, Unheld, Landed
  <2>3. \/ pc' = "idle"
        \/ /\ pc' = "diary" /\ job'.cyc = c /\ job'.plan = p
           /\ accepted' = [accepted EXCEPT ![c] = p]
    BY <1>19 DEF KeepEdited, Resume, Landed
  <2> QED BY <1>19, <2>1, <2>2, <2>3 DEF KeepEdited
<1>20. ASSUME NEW c \in Cycle, NEW p \in Plan, EditOrDelete(c, p)
       PROVE  PlanInv'
  <2>1. oi'.running = oi.running /\ NoCycle \notin Cycle
    BY <1>20, OpenIncrementAssumption
       DEF EditOrDelete, Dropped, Unheld, OpenIncrementAssumption
  <2>2. oi'.pending = oi.pending \/ oi'.pending = NoPending
    BY <1>20 DEF EditOrDelete, Dropped, Unheld, Landed
  <2>3. \/ pc' = "idle" /\ job' = NoJob /\ accepted' = accepted
        \/ /\ pc' = "diary" /\ job'.cyc = c /\ job'.plan = p
           /\ c \notin used /\ accepted' = [accepted EXCEPT ![c] = p]
           /\ oi'.pending = NoPending
    BY <1>20 DEF EditOrDelete, NewPlan, Dropped, Unheld, Landed
  <2> QED BY <1>20, <2>1, <2>2, <2>3 DEF EditOrDelete, NoPending
<1>21. CASE DeleteRefused
  BY <1>21 DEF DeleteRefused, Unheld
<1>22. CASE DiaryPushed
  BY <1>22 DEF DiaryPushed, MainMoved
<1>23. CASE DiaryFails
  BY <1>23 DEF DiaryFails, MainMoved
<1>24. CASE NotStarted
  BY <1>24 DEF NotStarted
<1>25. CASE BranchReady
  BY <1>25 DEF BranchReady
<1>26. CASE Register
  BY <1>26 DEF Register, AttemptStarted
<1>27. CASE Spawn
  BY <1>27 DEF Spawn, TaskAttached
<1>28. CASE Commits
  BY <1>28 DEF Commits
<1>29. ASSUME NEW s \in Status, ExecutorEnds(s)
       PROVE  PlanInv'
  BY <1>29 DEF ExecutorEnds
<1>30. CASE SupplierPaused
  BY <1>30
     DEF SupplierPaused, InterruptedAs, SupplyInterrupted, Interrupted,
         AttemptFinished, NoRunning
<1>31. CASE Classified
  BY <1>31 DEF Classified, ModelCallCompleted
<1>32. CASE RecordInterruption
  BY <1>32
     DEF RecordInterruption, InterruptedAs, SupplyInterrupted,
         InterruptedNoBackoff, Interrupted, AttemptFinished, NoRunning
<1>33. CASE NotIntegrated
  BY <1>33 DEF NotIntegrated
<1>34. CASE RepairStarts
  BY <1>34 DEF RepairStarts
<1>35. ASSUME NEW s \in Status, RepairEnds(s)
       PROVE  PlanInv'
  BY <1>35 DEF RepairEnds
<1>36. CASE Integrated
  BY <1>36 DEF Integrated, MainMoved
<1>37. CASE PushPends
  BY <1>37 DEF PushPends
<1>38. CASE PushLandsUnseen
  BY <1>38 DEF PushLandsUnseen, MainMoved
<1>39. CASE IntegrationCleared
  BY <1>39
     DEF IntegrationCleared, Cleared, ClearedOnIntegration, Dropped, Unheld,
         NoPending
<1>40. CASE RowWritten
  BY <1>40 DEF RowWritten
<1>41. CASE AttemptEnds
  BY <1>41 DEF AttemptEnds, AttemptFinished, NoRunning
<1>42. CASE Crash
  BY <1>42 DEF Crash
<1>43. CASE HoldPasses
  BY <1>43 DEF HoldPasses
<1>44. CASE OperatorClearsFlag
  BY <1>44 DEF OperatorClearsFlag, FlagCleared
<1>45. CASE UNCHANGED vars
  BY <1>45 DEF vars
<1> QED
  BY <1>1, <1>2, <1>3, <1>4, <1>5, <1>6, <1>7, <1>8, <1>9, <1>10, <1>11, <1>12,
     <1>13, <1>14, <1>15, <1>16, <1>17, <1>18, <1>19, <1>20, <1>21, <1>22,
     <1>23, <1>24, <1>25, <1>26, <1>27, <1>28, <1>29, <1>30, <1>31, <1>32,
     <1>33, <1>34, <1>35, <1>36, <1>37, <1>38, <1>39, <1>40, <1>41, <1>42,
     <1>43, <1>44, <1>45
     DEF Next, Tick, KillCheck, Prepare, LatePush, Session, Attempt, Conclude

\* The pending plan is always the last one accepted for its cycle.
THEOREM PendingPlanIsAccepted == Spec => []PlanMatchesAccepted
<1>1. PlanInv => PlanMatchesAccepted
  BY DEF PlanInv
<1> QED BY TypeInit, TypeNext, LineageInit, LineageNext, PlanInit, PlanNext,
           <1>1, PTL DEF Spec

-----------------------------------------------------------------------------
(* What a single step may do, given the types.                             *)

\* The ways in which a step changes the pending increment.
LEMMA PendingSteps ==
    ASSUME TypeInv, Next
    PROVE  \/ oi'.pending = oi.pending
           \/ oi'.pending = NoPending
           \/ \E c \in Cycle :
                  /\ oi'.pending.cycle = c
                  /\ oi'.pending.version = CarriedVersion(oi, c)
           \/ /\ oi'.pending.cycle = oi.pending.cycle
              /\ oi'.pending.version = oi.pending.version + 1
<1> USE DEF TypeInv, TypeOK, Store, disk
<1>1. CASE NothingStale
  BY <1>1 DEF NothingStale
<1>2. CASE StaleReconciled
  BY <1>2 DEF StaleReconciled, AttemptFinished, StateType
<1>3. CASE StaleRecorded
  <2>1. oi.running.cycle \in Cycle
    BY <1>3 DEF StaleRecorded, StaleRunning, HasRunning, StateType, RunningType
  <2> QED BY <1>3, <2>1
          DEF StaleRecorded, SupplyInterrupted, InterruptedNoBackoff,
              Interrupted, AttemptFinished, StateType
<1>4. CASE Prepare
  <2>1. CASE Held \/ PrepareRepository \/ Prepared \/ NotRestored
    BY <2>1 DEF Held, PrepareRepository, Prepared, NotRestored
  <2>2. ASSUME NEW c \in Cycle, LateAbandoned(c) \/ LateSuperseded(c)
        PROVE  oi'.pending = oi.pending
    BY <2>2 DEF LateAbandoned, LateSuperseded, LateRow, AttemptFinished,
                StateType
  <2>3. ASSUME NEW c \in Cycle, LateSkipped(c) \/ LatePushed(c)
        PROVE  oi'.pending = oi.pending
    BY <2>3 DEF LateSkipped, LatePushed
  <2>4. CASE LatePushRecorded
    BY <2>4 DEF LatePushRecorded, LateRow, AttemptFinished, StateType
  <2>5. CASE LateCleared
    BY <2>5 DEF LateCleared, Cleared, ClearedOnIntegration, Dropped, Unheld,
                StateType
  <2> QED BY <1>4, <2>1, <2>2, <2>3, <2>4, <2>5 DEF Prepare, LatePush
<1>5. CASE Session
  <2>1. CASE SessionFails \/ NoPlanAnswer
    BY <2>1 DEF SessionFails, NoPlanAnswer
  <2>2. CASE SessionAnswers
    BY <2>2 DEF SessionAnswers, ModelCallCompleted, StateType
  <2>3. ASSUME NEW c \in Cycle, NEW p \in Plan, PlanAnswer(c, p)
        PROVE  oi'.pending = oi.pending
    BY <2>3 DEF PlanAnswer
  <2>4. CASE KeepConfirmed \/ DeleteRefused
    BY <2>4 DEF KeepConfirmed, DeleteRefused, Kept, Unheld, StateType
  <2>5. ASSUME NEW p \in Plan, KeepEdited(p)
        PROVE  \/ oi'.pending = oi.pending
               \/ /\ oi'.pending.cycle = oi.pending.cycle
                  /\ oi'.pending.version = oi.pending.version + 1
    BY <2>5 DEF KeepEdited, KeptEdited, Unheld, StateType, PendingType
  <2>6. ASSUME NEW c \in Cycle, NEW p \in Plan, EditOrDelete(c, p)
        PROVE  oi'.pending = oi.pending \/ oi'.pending = NoPending
    BY <2>6 DEF EditOrDelete, Dropped, Unheld, StateType
  <2> QED BY <1>5, <2>1, <2>2, <2>3, <2>4, <2>5, <2>6 DEF Session
<1>6. CASE Attempt
  <2>1. CASE DiaryPushed \/ DiaryFails \/ NotStarted \/ BranchReady \/ Commits
    BY <2>1 DEF DiaryPushed, DiaryFails, NotStarted, BranchReady, Commits
  <2>2. CASE Register
    BY <2>2 DEF Register, AttemptStarted, StateType
  <2>3. CASE Spawn
    BY <2>3 DEF Spawn, TaskAttached, StateType
  <2>4. ASSUME NEW s \in Status, ExecutorEnds(s)
        PROVE  oi'.pending = oi.pending
    BY <2>4 DEF ExecutorEnds
  <2>5. CASE Classified
    BY <2>5 DEF Classified, ModelCallCompleted, StateType
  <2>6. CASE SupplierPaused \/ RecordInterruption
    <3>1. job.cyc \in Cycle
      BY <2>6 DEF SupplierPaused, RecordInterruption, Waiting
    <3>2. ASSUME NEW k \in TaskKey, NEW h \in {"none", "active"},
                 NEW why
          PROVE  /\ Interrupted(oi, job.cyc, k, job.plan, why).pending.cycle
                        = job.cyc
                 /\ Interrupted(oi, job.cyc, k, job.plan, why).pending.version
                        = CarriedVersion(oi, job.cyc)
      BY DEF Interrupted, AttemptFinished, StateType
    <3>3. \E cause \in {"supply", "defect", "none"} : InterruptedAs(cause)
      BY <2>6 DEF SupplierPaused, RecordInterruption, JobType
    <3>4. \/ oi'.pending = oi.pending
          \/ \E k \in TaskKey :
                oi'.pending =
                  SupplyInterrupted(oi, job.cyc, k, job.plan).pending
          \/ \E k \in TaskKey :
                oi'.pending = InterruptedNoBackoff(oi, job.cyc, k, job.plan,
                                                  "interrupted_defect").pending
      BY <3>3 DEF InterruptedAs
    <3>5. \A k \in TaskKey :
             /\ SupplyInterrupted(oi, job.cyc, k, job.plan).pending =
                  Interrupted(oi, job.cyc, k, job.plan,
                              "interrupted_supply").pending
             /\ InterruptedNoBackoff(oi, job.cyc, k, job.plan,
                                     "interrupted_defect").pending =
                  Interrupted(oi, job.cyc, k, job.plan,
                              "interrupted_defect").pending
      BY DEF SupplyInterrupted, InterruptedNoBackoff, Interrupted,
             AttemptFinished, StateType
    <3>6. \/ oi'.pending = oi.pending
          \/ /\ oi'.pending.cycle = job.cyc
             /\ oi'.pending.version = CarriedVersion(oi, job.cyc)
      BY <3>2, <3>4, <3>5
    <3> QED BY <3>1, <3>6
  <2> QED BY <1>6, <2>1, <2>2, <2>3, <2>4, <2>5, <2>6 DEF Attempt
<1>7. CASE Conclude
  <2>1. CASE \/ NotIntegrated \/ RepairStarts \/ Integrated \/ PushPends
             \/ PushLandsUnseen \/ RowWritten
    BY <2>1 DEF NotIntegrated, RepairStarts, Integrated, PushPends,
                PushLandsUnseen, RowWritten
  <2>2. ASSUME NEW s \in Status, RepairEnds(s)
        PROVE  oi'.pending = oi.pending
    BY <2>2 DEF RepairEnds
  <2>3. CASE IntegrationCleared
    BY <2>3 DEF IntegrationCleared, Cleared, ClearedOnIntegration, Dropped,
                Unheld, StateType
  <2>4. CASE AttemptEnds
    BY <2>4 DEF AttemptEnds, AttemptFinished, StateType
  <2> QED BY <1>7, <2>1, <2>2, <2>3, <2>4 DEF Conclude
<1>8. CASE Crash \/ HoldPasses \/ OperatorClearsFlag
  BY <1>8 DEF Crash, HoldPasses, OperatorClearsFlag, FlagCleared, StateType
<1> QED BY <1>1, <1>2, <1>3, <1>4, <1>5, <1>6, <1>7, <1>8
        DEF Next, Tick, KillCheck

\* The plan version of an increment that stays pending never goes back.
THEOREM VersionsNeverGoBack == Spec => VersionMonotone
<1>1. TypeInv /\ [Next]_vars
          => [HasPending(oi) /\ oi'.pending.cycle = oi.pending.cycle
              => oi'.pending.version >= oi.pending.version]_vars
  <2> SUFFICES ASSUME TypeInv, Next, HasPending(oi),
                      oi'.pending.cycle = oi.pending.cycle
               PROVE  oi'.pending.version >= oi.pending.version
    OBVIOUS
  <2>1. oi.pending.version \in Nat /\ oi.pending.cycle # NoPending.cycle
    BY DEF TypeInv, TypeOK, StateType, PendingType, HasPending, NoPending
  <2> QED BY <2>1, PendingSteps DEF CarriedVersion
<1> QED BY TypeInit, TypeNext, <1>1, PTL DEF Spec, VersionMonotone

-----------------------------------------------------------------------------
(* The hold.                                                               *)

LEMMA HoldNext == TypeInv /\ HoldRespected /\ [Next]_vars => HoldRespected'
<1> USE DEF HoldRespected, TypeInv, TypeOK, StateType, Waiting, Store, Go,
            EndTick, disk, git, ledger, proc, aux
<1> SUFFICES ASSUME TypeInv /\ HoldRespected, [Next]_vars PROVE HoldRespected'
  OBVIOUS
<1>1. CASE NothingStale
  BY <1>1 DEF NothingStale, StaleRunning
<1>2. CASE StaleReconciled
  BY <1>2
     DEF StaleReconciled, StaleRunning, AttemptFinished, NoRunning
<1>3. CASE StaleRecorded
  BY <1>3
     DEF StaleRecorded, StaleRunning, SupplyInterrupted, InterruptedNoBackoff,
         Interrupted, AttemptFinished, NoRunning
<1>4. CASE Held
  BY <1>4 DEF Held
<1>5. CASE PrepareRepository
  BY <1>5 DEF PrepareRepository, Todo, MainMoved
<1>6. ASSUME NEW c \in Cycle, LateAbandoned(c)
       PROVE  HoldRespected'
  BY <1>6 DEF LateAbandoned, LateRow, AttemptFinished, NoRunning
<1>7. ASSUME NEW c \in Cycle, LateSuperseded(c)
       PROVE  HoldRespected'
  BY <1>7 DEF LateSuperseded, LateRow, AttemptFinished, NoRunning
<1>8. ASSUME NEW c \in Cycle, LateSkipped(c)
       PROVE  HoldRespected'
  BY <1>8 DEF LateSkipped, MainMoved
<1>9. ASSUME NEW c \in Cycle, LatePushed(c)
       PROVE  HoldRespected'
  BY <1>9 DEF LatePushed, MainMoved
<1>10. CASE LatePushRecorded
  BY <1>10 DEF LatePushRecorded, LateRow, AttemptFinished, NoRunning
<1>11. CASE LateCleared
  BY <1>11
     DEF LateCleared, Cleared, ClearedOnIntegration, Dropped, Unheld, NoPending
<1>12. CASE Prepared
  BY <1>12 DEF Prepared
<1>13. CASE NotRestored
  BY <1>13 DEF NotRestored
<1>14. CASE SessionFails
  BY <1>14 DEF SessionFails
<1>15. CASE SessionAnswers
  BY <1>15 DEF SessionAnswers, ModelCallCompleted
<1>16. CASE NoPlanAnswer
  BY <1>16 DEF NoPlanAnswer
<1>17. ASSUME NEW c \in Cycle, NEW p \in Plan, PlanAnswer(c, p)
       PROVE  HoldRespected'
  BY <1>17 DEF PlanAnswer, NewPlan, JobFor
<1>18. CASE KeepConfirmed
  BY <1>18 DEF KeepConfirmed, Resume, JobFor, Kept, Unheld
<1>19. ASSUME NEW p \in Plan, KeepEdited(p)
       PROVE  HoldRespected'
  BY <1>19 DEF KeepEdited, Resume, JobFor, KeptEdited, Unheld
<1>20. ASSUME NEW c \in Cycle, NEW p \in Plan, EditOrDelete(c, p)
       PROVE  HoldRespected'
  BY <1>20
     DEF EditOrDelete, NewPlan, JobFor, Dropped, Unheld, NoPending
<1>21. CASE DeleteRefused
  BY <1>21 DEF DeleteRefused, Unheld
<1>22. CASE DiaryPushed
  BY <1>22 DEF DiaryPushed, MainMoved
<1>23. CASE DiaryFails
  BY <1>23 DEF DiaryFails, MainMoved
<1>24. CASE NotStarted
  BY <1>24 DEF NotStarted
<1>25. CASE BranchReady
  BY <1>25 DEF BranchReady
<1>26. CASE Register
  BY <1>26 DEF Register, AttemptStarted
<1>27. CASE Spawn
  BY <1>27 DEF Spawn, TaskAttached
<1>28. CASE Commits
  BY <1>28 DEF Commits
<1>29. ASSUME NEW s \in Status, ExecutorEnds(s)
       PROVE  HoldRespected'
  BY <1>29 DEF ExecutorEnds
<1>30. CASE SupplierPaused
  BY <1>30
     DEF SupplierPaused, InterruptedAs, SupplyInterrupted, Interrupted,
         AttemptFinished, NoRunning
<1>31. CASE Classified
  BY <1>31 DEF Classified, ModelCallCompleted
<1>32. CASE RecordInterruption
  BY <1>32
     DEF RecordInterruption, InterruptedAs, SupplyInterrupted,
         InterruptedNoBackoff, Interrupted, AttemptFinished, NoRunning
<1>33. CASE NotIntegrated
  BY <1>33 DEF NotIntegrated
<1>34. CASE RepairStarts
  BY <1>34 DEF RepairStarts
<1>35. ASSUME NEW s \in Status, RepairEnds(s)
       PROVE  HoldRespected'
  BY <1>35 DEF RepairEnds
<1>36. CASE Integrated
  BY <1>36 DEF Integrated, MainMoved
<1>37. CASE PushPends
  BY <1>37 DEF PushPends
<1>38. CASE PushLandsUnseen
  BY <1>38 DEF PushLandsUnseen, MainMoved
<1>39. CASE IntegrationCleared
  BY <1>39
     DEF IntegrationCleared, Cleared, ClearedOnIntegration, Dropped, Unheld,
         NoPending
<1>40. CASE RowWritten
  BY <1>40 DEF RowWritten
<1>41. CASE AttemptEnds
  BY <1>41 DEF AttemptEnds, AttemptFinished, NoRunning
<1>42. CASE Crash
  BY <1>42 DEF Crash
<1>43. CASE HoldPasses
  BY <1>43 DEF HoldPasses
<1>44. CASE OperatorClearsFlag
  BY <1>44 DEF OperatorClearsFlag, FlagCleared
<1>45. CASE UNCHANGED vars
  BY <1>45 DEF vars
<1> QED
  BY <1>1, <1>2, <1>3, <1>4, <1>5, <1>6, <1>7, <1>8, <1>9, <1>10, <1>11, <1>12,
     <1>13, <1>14, <1>15, <1>16, <1>17, <1>18, <1>19, <1>20, <1>21, <1>22,
     <1>23, <1>24, <1>25, <1>26, <1>27, <1>28, <1>29, <1>30, <1>31, <1>32,
     <1>33, <1>34, <1>35, <1>36, <1>37, <1>38, <1>39, <1>40, <1>41, <1>42,
     <1>43, <1>44, <1>45
     DEF Next, Tick, KillCheck, Prepare, LatePush, Session, Attempt, Conclude

\* A tick that backs off never asks the planner.
THEOREM BackoffIsRespected == Spec => []HoldRespected
<1>1. Init => HoldRespected
  BY DEF Init, HoldRespected
<1> QED BY TypeInit, TypeNext, HoldNext, <1>1, PTL DEF Spec

-----------------------------------------------------------------------------
(* Branches.                                                               *)

\* The steps that delete a branch.
LEMMA DeletingSteps ==
    ASSUME TypeInv, Next
    PROVE  branches \subseteq branches' \/ BranchReady
           \/ (Cleared(job.cyc) /\ job.cyc \in Cycle)
<1> USE DEF git
<1>1. CASE NothingStale \/ StaleReconciled \/ StaleRecorded
  BY <1>1 DEF NothingStale, StaleReconciled, StaleRecorded
<1>2. CASE Held \/ PrepareRepository \/ Prepared \/ NotRestored
  BY <1>2 DEF Held, PrepareRepository, Prepared, NotRestored
<1>3. CASE SessionFails \/ SessionAnswers \/ NoPlanAnswer \/ KeepConfirmed \/
          DeleteRefused
  BY <1>3 DEF SessionFails, SessionAnswers, NoPlanAnswer, KeepConfirmed,
          DeleteRefused
<1>4. CASE DiaryPushed \/ DiaryFails \/ NotStarted \/ Register \/ Spawn \/
          Commits \/ SupplierPaused \/ Classified \/ RecordInterruption
  BY <1>4 DEF DiaryPushed, DiaryFails, NotStarted, Register, Spawn, Commits,
          SupplierPaused, Classified, RecordInterruption
<1>5. CASE NotIntegrated \/ RepairStarts \/ Integrated \/ PushPends \/
          PushLandsUnseen \/ RowWritten \/ AttemptEnds
  BY <1>5 DEF NotIntegrated, RepairStarts, Integrated, PushPends,
          PushLandsUnseen, RowWritten, AttemptEnds
<1>6. CASE Crash \/ HoldPasses \/ OperatorClearsFlag \/ LatePushRecorded
  BY <1>6 DEF Crash, HoldPasses, OperatorClearsFlag, LatePushRecorded
<1>7. ASSUME NEW c \in Cycle, \/ LateAbandoned(c) \/ LateSuperseded(c)
                             \/ LateSkipped(c) \/ LatePushed(c)
      PROVE  branches' = branches
  BY <1>7 DEF LateAbandoned, LateSuperseded, LateSkipped, LatePushed
<1>8. ASSUME NEW c \in Cycle, NEW p \in Plan,
             PlanAnswer(c, p) \/ EditOrDelete(c, p)
      PROVE  branches' = branches
  BY <1>8 DEF PlanAnswer, EditOrDelete
<1>9. ASSUME NEW p \in Plan, KeepEdited(p)
      PROVE  branches' = branches
  BY <1>9 DEF KeepEdited
<1>10. ASSUME NEW s \in Status, ExecutorEnds(s) \/ RepairEnds(s)
       PROVE  branches' = branches
  BY <1>10 DEF ExecutorEnds, RepairEnds
<1>11. CASE LateCleared \/ IntegrationCleared
  BY <1>11 DEF LateCleared, IntegrationCleared, TypeInv, Waiting
<1> QED
  BY <1>1, <1>2, <1>3, <1>4, <1>5, <1>6, <1>7, <1>8, <1>9, <1>10, <1>11
     DEF Next, Tick, KillCheck, Prepare, LatePush, Session, Attempt, Conclude

\* No step deletes the branch of a cycle that is pending after it.
THEOREM PendingKeepsItsBranch == Spec => PendingBranchNotDeleted
<1>1. TypeInv /\ [Next]_vars
          => [oi'.pending.cycle \notin branches \ branches']_vars
  <2> SUFFICES ASSUME TypeInv, Next
               PROVE  oi'.pending.cycle \notin branches \ branches'
    OBVIOUS
  <2>1. CASE branches \subseteq branches'
    BY <2>1
  <2>2. CASE BranchReady
    BY <2>2 DEF BranchReady, disk
  <2>3. CASE Cleared(job.cyc) /\ job.cyc \in Cycle
    <3>1. NoCycle \notin Cycle
      BY OpenIncrementAssumption DEF OpenIncrementAssumption
    <3> QED BY <2>3, <3>1
            DEF Cleared, Store, ClearedOnIntegration, Dropped, Unheld,
                NoPending, TypeInv, TypeOK, StateType
  <2> QED BY <2>1, <2>2, <2>3, DeletingSteps
<1> QED BY TypeInit, TypeNext, <1>1, PTL DEF Spec, PendingBranchNotDeleted

-----------------------------------------------------------------------------
(* Unfinished work.  A push_pending row can only be acted on while its     *)
(* base is fresh; the diary push that precedes every attempt makes all of  *)
(* them stale, so none is left when the session adds commits to an older   *)
(* attempt's branch.                                                       *)

Attempting == {"dispatch", "register", "spawn", "running", "classify",
               "interrupt", "gate", "repair", "clear", "row"}

\* Where a session is known to have finished.
BehindBarrier ==
    \/ pc = "gate"
    \/ pc = "classify" /\ tele = "ok"
    \/ pc = "repair" /\ ~job.changed
    \/ pc = "row" /\ job.verdict = "push_pending"

CleanInv ==
    /\ \A c \in Cycle : pushRow[c] = "fresh" => c \notin unfinished
    /\ pc \in Attempting => \A c \in Cycle : pushRow[c] # "fresh"
    /\ BehindBarrier => job.cyc \notin unfinished
    /\ pc = "clear" => job.verdict = "integrated"

LEMMA CleanInit == Init => CleanInv
BY DEF Init, CleanInv, BehindBarrier, Attempting

LEMMA CleanNext == TypeInv /\ CleanInv /\ [Next]_vars => CleanInv'
<1> USE DEF CleanInv, BehindBarrier, Attempting, TypeInv, TypeOK, JobType,
            NoJob, JobFor, Verdicts, Waiting, Store, Go, EndTick, disk, git,
            ledger, proc, aux
<1> SUFFICES ASSUME TypeInv /\ CleanInv, [Next]_vars PROVE CleanInv'
  OBVIOUS
<1>1. CASE NothingStale
  BY <1>1 DEF NothingStale
<1>2. CASE StaleReconciled
  BY <1>2 DEF StaleReconciled
<1>3. CASE StaleRecorded
  BY <1>3 DEF StaleRecorded
<1>4. CASE Held
  BY <1>4 DEF Held
<1>5. CASE PrepareRepository
  BY <1>5 DEF PrepareRepository, MainMoved
<1>6. ASSUME NEW c \in Cycle, LateAbandoned(c)
       PROVE  CleanInv'
  BY <1>6 DEF LateAbandoned, LateRow
<1>7. ASSUME NEW c \in Cycle, LateSuperseded(c)
       PROVE  CleanInv'
  BY <1>7 DEF LateSuperseded, LateRow
<1>8. ASSUME NEW c \in Cycle, LateSkipped(c)
       PROVE  CleanInv'
  BY <1>8 DEF LateSkipped, MainMoved
<1>9. ASSUME NEW c \in Cycle, LatePushed(c)
       PROVE  CleanInv'
  BY <1>9 DEF LatePushed, MainMoved
<1>10. CASE LatePushRecorded
  BY <1>10 DEF LatePushRecorded, LateRow
<1>11. CASE LateCleared
  BY <1>11 DEF LateCleared
<1>12. CASE Prepared
  BY <1>12 DEF Prepared
<1>13. CASE NotRestored
  BY <1>13 DEF NotRestored
<1>14. CASE SessionFails
  BY <1>14 DEF SessionFails
<1>15. CASE SessionAnswers
  BY <1>15 DEF SessionAnswers
<1>16. CASE NoPlanAnswer
  BY <1>16 DEF NoPlanAnswer
<1>17. ASSUME NEW c \in Cycle, NEW p \in Plan, PlanAnswer(c, p)
       PROVE  CleanInv'
  BY <1>17 DEF PlanAnswer, NewPlan
<1>18. CASE KeepConfirmed
  BY <1>18 DEF KeepConfirmed, Resume
<1>19. ASSUME NEW p \in Plan, KeepEdited(p)
       PROVE  CleanInv'
  BY <1>19 DEF KeepEdited, Resume
<1>20. ASSUME NEW c \in Cycle, NEW p \in Plan, EditOrDelete(c, p)
       PROVE  CleanInv'
  BY <1>20 DEF EditOrDelete, NewPlan
<1>21. CASE DeleteRefused
  BY <1>21 DEF DeleteRefused
<1>22. CASE DiaryPushed
  BY <1>22 DEF DiaryPushed, MainMoved
<1>23. CASE DiaryFails
  BY <1>23 DEF DiaryFails, MainMoved
<1>24. CASE NotStarted
  BY <1>24 DEF NotStarted
<1>25. CASE BranchReady
  BY <1>25 DEF BranchReady
<1>26. CASE Register
  BY <1>26 DEF Register
<1>27. CASE Spawn
  BY <1>27 DEF Spawn
<1>28. CASE Commits
  BY <1>28 DEF Commits
<1>29. ASSUME NEW s \in Status, ExecutorEnds(s)
       PROVE  CleanInv'
  BY <1>29 DEF ExecutorEnds
<1>30. CASE SupplierPaused
  BY <1>30 DEF SupplierPaused, InterruptedAs
<1>31. CASE Classified
  BY <1>31 DEF Classified
<1>32. CASE RecordInterruption
  BY <1>32 DEF RecordInterruption, InterruptedAs
<1>33. CASE NotIntegrated
  BY <1>33 DEF NotIntegrated
<1>34. CASE RepairStarts
  BY <1>34 DEF RepairStarts
<1>35. ASSUME NEW s \in Status, RepairEnds(s)
       PROVE  CleanInv'
  BY <1>35 DEF RepairEnds
<1>36. CASE Integrated
  BY <1>36 DEF Integrated, MainMoved
<1>37. CASE PushPends
  BY <1>37 DEF PushPends
<1>38. CASE PushLandsUnseen
  BY <1>38 DEF PushLandsUnseen, MainMoved
<1>39. CASE IntegrationCleared
  BY <1>39 DEF IntegrationCleared
<1>40. CASE RowWritten
  BY <1>40 DEF RowWritten
<1>41. CASE AttemptEnds
  BY <1>41 DEF AttemptEnds
<1>42. CASE Crash
  BY <1>42 DEF Crash
<1>43. CASE HoldPasses
  BY <1>43 DEF HoldPasses
<1>44. CASE OperatorClearsFlag
  BY <1>44 DEF OperatorClearsFlag
<1>45. CASE UNCHANGED vars
  BY <1>45 DEF vars
<1> QED
  BY <1>1, <1>2, <1>3, <1>4, <1>5, <1>6, <1>7, <1>8, <1>9, <1>10, <1>11, <1>12,
     <1>13, <1>14, <1>15, <1>16, <1>17, <1>18, <1>19, <1>20, <1>21, <1>22,
     <1>23, <1>24, <1>25, <1>26, <1>27, <1>28, <1>29, <1>30, <1>31, <1>32,
     <1>33, <1>34, <1>35, <1>36, <1>37, <1>38, <1>39, <1>40, <1>41, <1>42,
     <1>43, <1>44, <1>45
     DEF Next, Tick, KillCheck, Prepare, LatePush, Session, Attempt, Conclude

\* The steps that put commits on origin/main.
LEMMA OnlyPushesMerge ==
    ASSUME Next
    PROVE  \/ merged' = merged
           \/ \E c \in Cycle : LateSkipped(c) \/ LatePushed(c)
           \/ Integrated \/ PushLandsUnseen
<1> USE DEF git
<1>1. CASE NothingStale \/ StaleReconciled \/ StaleRecorded
  BY <1>1 DEF NothingStale, StaleReconciled, StaleRecorded
<1>2. CASE Held \/ PrepareRepository \/ Prepared \/ NotRestored \/
          LatePushRecorded \/ LateCleared
  BY <1>2 DEF Held, PrepareRepository, Prepared, NotRestored, LatePushRecorded,
          LateCleared
<1>3. CASE SessionFails \/ SessionAnswers \/ NoPlanAnswer \/ KeepConfirmed \/
          DeleteRefused
  BY <1>3 DEF SessionFails, SessionAnswers, NoPlanAnswer, KeepConfirmed,
          DeleteRefused
<1>4. CASE DiaryPushed \/ DiaryFails \/ NotStarted \/ BranchReady \/ Register
          \/ Spawn \/ Commits \/ SupplierPaused \/ Classified \/
          RecordInterruption
  BY <1>4 DEF DiaryPushed, DiaryFails, NotStarted, BranchReady, Register,
          Spawn, Commits, SupplierPaused, Classified, RecordInterruption
<1>5. CASE NotIntegrated \/ RepairStarts \/ PushPends \/ IntegrationCleared \/
          RowWritten \/ AttemptEnds
  BY <1>5 DEF NotIntegrated, RepairStarts, PushPends, IntegrationCleared,
          RowWritten, AttemptEnds
<1>6. CASE Crash \/ HoldPasses \/ OperatorClearsFlag
  BY <1>6 DEF Crash, HoldPasses, OperatorClearsFlag
<1>7. ASSUME NEW c \in Cycle, LateAbandoned(c) \/ LateSuperseded(c)
      PROVE  merged' = merged
  BY <1>7 DEF LateAbandoned, LateSuperseded
<1>8. ASSUME NEW c \in Cycle, NEW p \in Plan,
             PlanAnswer(c, p) \/ EditOrDelete(c, p)
      PROVE  merged' = merged
  BY <1>8 DEF PlanAnswer, EditOrDelete, NewPlan
<1>9. ASSUME NEW p \in Plan, KeepEdited(p)
      PROVE  merged' = merged
  BY <1>9 DEF KeepEdited
<1>10. ASSUME NEW s \in Status, ExecutorEnds(s) \/ RepairEnds(s)
       PROVE  merged' = merged
  BY <1>10 DEF ExecutorEnds, RepairEnds
<1> QED
  BY <1>1, <1>2, <1>3, <1>4, <1>5, <1>6, <1>7, <1>8, <1>9, <1>10
     DEF Next, Tick, KillCheck, Prepare, LatePush, Session, Attempt, Conclude

\* Commits of a session that did not finish never reach origin/main.
THEOREM UnfinishedStaysOut == Spec => UnfinishedNeverIntegrates
<1>1. TypeInv /\ CleanInv /\ [Next]_vars
          => [(merged' \ merged) \cap unfinished = {}]_vars
  <2> SUFFICES ASSUME TypeInv, CleanInv, Next
               PROVE  (merged' \ merged) \cap unfinished = {}
    OBVIOUS
  <2>1. ASSUME NEW c \in Cycle, LateSkipped(c) \/ LatePushed(c)
        PROVE  (merged' \ merged) \cap unfinished = {}
    BY <2>1 DEF LateSkipped, LatePushed, CleanInv
  <2>2. CASE Integrated \/ PushLandsUnseen
    BY <2>2 DEF Integrated, PushLandsUnseen, CleanInv, BehindBarrier
  <2>3. \/ merged' = merged
        \/ \E c \in Cycle : LateSkipped(c) \/ LatePushed(c)
        \/ Integrated \/ PushLandsUnseen
    BY OnlyPushesMerge
  <2> QED BY <2>1, <2>2, <2>3
<1> QED BY TypeInit, TypeNext, CleanInit, CleanNext, <1>1, PTL
        DEF Spec, UnfinishedNeverIntegrates

=============================================================================
