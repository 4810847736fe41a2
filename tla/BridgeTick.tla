----------------------------- MODULE BridgeTick -----------------------------
(***************************************************************************)
(* One self-evolving bridge (nanobot/runtime/bridge.py): a process that a  *)
(* timer starts, that runs one tick under the bridge lock and ends, and    *)
(* that may be killed anywhere in it.  A tick recovers a dead attempt,     *)
(* respects the backoff hold, prepares the repository (finishing pushes an *)
(* earlier cycle left pending), asks the planning session, pushes the      *)
(* accepted plan to the diary on main, registers the attempt, runs the     *)
(* executor on the cycle's branch, gates and integrates it, and writes the *)
(* outcome row.  Each action below is the stretch of _main_impl_body       *)
(* between two points where a kill leaves a different durable state.       *)
(*                                                                         *)
(* Durable: the open-increment record, the executor's telemetry, the       *)
(* branches and origin/main, the cycle ledger.  Volatile: pc, job, todo.   *)
(***************************************************************************)
EXTENDS OpenIncrement, FiniteSets

CONSTANTS
    StateFaults,    \* saves and read-backs of the record may fail
    LostAcks,       \* a push may land although it is reported as failed
    MaxRepairs      \* repair turns per attempt (3 in the code)

ASSUME BridgeTickAssumption ==
    /\ StateFaults \in BOOLEAN /\ LostAcks \in BOOLEAN
    /\ MaxRepairs \in Nat

VARIABLES
    \* durable, program
    oi,         \* the open-increment record
    tele,       \* terminal telemetry of the last spawned executor
    branches,   \* cycle branches that exist
    work,       \* cycles whose branch has commits that are not on main
    merged,     \* cycles whose branch origin/main contains
    used,       \* cycle ids minted so far
    rowed,      \* cycles with an outcome row in the ledger
    pushRow,    \* the push_pending row of a cycle that no later resolution
                \* follows: its recorded base is still origin/main ("fresh")
                \* or not ("moved")
    resolved,   \* cycles with any row that resolves a late push
    \* volatile
    pc,
    job,        \* what the tick is working on
    todo,       \* push_pending cycles the late-push pass has still to visit
    \* auxiliary: no guard reads them
    open,       \* registered attempts that have not been concluded
    accepted,   \* the last plan the harness accepted for a cycle
    unfinished  \* branches with commits of a session that did not finish

disk   == <<oi, tele>>
git    == <<branches, work, merged, used>>
ledger == <<rowed, pushRow, resolved>>
proc   == <<pc, job, todo>>
aux    == <<open, accepted, unfinished>>
vars   == <<disk, git, ledger, proc, aux>>

Verdicts == {"none", "blocked", "closed", "interrupted", "push_pending",
             "integrated"}

JobFor(c, p, again) ==
    [cyc |-> c, plan |-> p, resume |-> again, verdict |-> "none",
     cause |-> "none", changed |-> FALSE, repairs |-> 0, base |-> "fresh"]

NoJob == JobFor(NoCycle, NoPlan, FALSE)

JobType == [cyc : Cycle \cup {NoCycle}, plan : Plan \cup {NoPlan},
            resume : BOOLEAN, verdict : Verdicts,
            cause : {"none", "supply", "defect"}, changed : BOOLEAN,
            repairs : 0 .. MaxRepairs, base : {"fresh", "moved"}]

-----------------------------------------------------------------------------
(* Saving the record: "verified" is a save whose read-back agrees,         *)
(* "unverified" one that landed but could not be read back, "lost" one     *)
(* that never replaced the file.                                           *)

SaveOutcome == IF StateFaults THEN {"verified", "unverified", "lost"}
                              ELSE {"verified"}

Landed(how) == how # "lost"

Store(new, how) == oi' = IF Landed(how) THEN new ELSE oi

\* Every push to origin/main leaves the recorded base of a push_pending row
\* behind.
MainMoved == [c \in Cycle |-> IF pushRow[c] = "fresh" THEN "moved"
                                                      ELSE pushRow[c]]

\* The push_pending rows that _finish_pending_pushes acts on: a resolution
\* row anywhere in the ledger, earlier or later, takes a cycle out, and so
\* does the row of a cycle that integrated service files only.
Todo == {c \in Cycle : pushRow[c] # "none" /\ c \notin resolved}

Go(label) == pc' = label
EndTick == pc' = "idle" /\ job' = NoJob /\ todo' = {}

-----------------------------------------------------------------------------
Init ==
    /\ oi = EmptyState /\ tele = "none"
    /\ branches = {} /\ work = {} /\ merged = {} /\ used = {}
    /\ rowed = {} /\ pushRow = [c \in Cycle |-> "none"] /\ resolved = {}
    /\ pc = "idle" /\ job = NoJob /\ todo = {}
    /\ open = {} /\ accepted = [c \in Cycle |-> NoPlan] /\ unfinished = {}

-----------------------------------------------------------------------------
(* The kill check: the first thing of a tick, before the backoff hold      *)

\* No registration, or one the check leaves alone.
NothingStale ==
    /\ pc = "idle" /\ ~StaleRunning(oi)
    /\ Go("precheck")
    /\ UNCHANGED <<disk, git, ledger, job, todo, aux>>

\* Mutant of StaleReconciled: the ledger is not asked.
ReconciledUnasked ==
    /\ pc = "idle" /\ StaleRunning(oi)
    /\ \E how \in SaveOutcome :
           Store(AttemptFinished(oi, oi.running.cycle), how)
    /\ Go("precheck")
    /\ UNCHANGED <<tele, git, ledger, job, todo, aux>>

\* The ledger has an outcome row for the registered cycle: the registration
\* is taken to be finished.  The save is not checked.
StaleReconciled ==
    /\ pc = "idle" /\ StaleRunning(oi)
    /\ oi.running.cycle \in rowed
    /\ \E how \in SaveOutcome :
           Store(AttemptFinished(oi, oi.running.cycle), how)
    /\ Go("precheck")
    /\ UNCHANGED <<tele, git, ledger, job, todo, aux>>

\* Mutant of StaleRecorded: the recovery comes after the pre-check of the hold.
RecordedAfterPrecheck ==
    /\ pc = "idle" /\ StaleRunning(oi)
    /\ oi.running.cycle \notin rowed
    /\ LET c == oi.running.cycle
           p == oi.running.plan
           why == StaleCause(oi, tele)
       IN  \E how \in SaveOutcome :
           /\ Store(IF why = "interrupted_supply"
                    THEN SupplyInterrupted(oi, c, KillKey(c), p)
                    ELSE InterruptedNoBackoff(oi, c, KillKey(c), p, why), how)
           /\ Go(IF how = "verified" THEN "late" ELSE "idle")
    /\ UNCHANGED <<tele, git, ledger, job, todo, aux>>

\* Otherwise the dead attempt becomes the pending increment; a record that
\* is not verified ends the tick.
StaleRecorded ==
    /\ pc = "idle" /\ StaleRunning(oi)
    /\ oi.running.cycle \notin rowed
    /\ LET c == oi.running.cycle
           p == oi.running.plan
           why == StaleCause(oi, tele)
       IN  \E how \in SaveOutcome :
           /\ Store(IF why = "interrupted_supply"
                    THEN SupplyInterrupted(oi, c, KillKey(c), p)
                    ELSE InterruptedNoBackoff(oi, c, KillKey(c), p, why), how)
           /\ Go(IF how = "verified" THEN "precheck" ELSE "idle")
    /\ UNCHANGED <<tele, git, ledger, job, todo, aux>>

-----------------------------------------------------------------------------
(* The hold, and the preparation of the repository                         *)

\* record_held_tick only counts: no session and no preparation.
Held ==
    /\ pc = "precheck" /\ oi.hold = "active"
    /\ Go("idle")
    /\ UNCHANGED <<disk, git, ledger, job, todo, aux>>

\* _prepare_repository_for_cycle up to its late-push pass.  Restoring main
\* and picking up staged promotions may push to main.
PrepareRepository ==
    /\ pc = "precheck" /\ oi.hold # "active"
    /\ \E moves \in BOOLEAN :
           pushRow' = IF moves THEN MainMoved ELSE pushRow
    /\ todo' = Todo
    /\ Go("late")
    /\ UNCHANGED <<disk, git, rowed, resolved, job, aux>>

\* A late-push resolution row of c, and the end of attempt every outcome row
\* implies (record_cycle_outcome).
LateRow(c) ==
    /\ rowed' = rowed \cup {c}
    /\ resolved' = resolved \cup {c}
    /\ pushRow' = [pushRow EXCEPT ![c] = "none"]
    /\ \E how \in SaveOutcome : Store(AttemptFinished(oi, c), how)

\* The branch is gone: recorded abandoned.
LateAbandoned(c) ==
    /\ pc = "late" /\ c \in todo /\ c \notin branches
    /\ LateRow(c)
    /\ todo' = todo \ {c}
    /\ UNCHANGED <<tele, git, pc, job, aux>>

\* origin/main moved past the recorded base: recorded superseded, and the
\* branch is kept.
LateSuperseded(c) ==
    /\ pc = "late" /\ c \in todo /\ c \in branches
    /\ pushRow[c] = "moved"
    /\ LateRow(c)
    /\ todo' = todo \ {c}
    /\ UNCHANGED <<tele, git, pc, job, aux>>

\* A fetch, checkout, merge or push failed: no row, the next tick tries
\* again.  With LostAcks the push may have landed all the same.
LateSkipped(c) ==
    /\ pc = "late" /\ c \in todo /\ c \in branches
    /\ todo' = todo \ {c}
    /\ \/ UNCHANGED <<merged, work, pushRow>>
       \/ /\ LostAcks /\ pushRow[c] = "fresh"
          /\ merged' = merged \cup {c} /\ work' = work \ {c}
          /\ pushRow' = MainMoved
    /\ UNCHANGED <<disk, branches, used, rowed, resolved, pc, job, aux>>

\* Mutant of LatePushed: the recorded base is not compared with origin/main.
PushedAnyway(c) ==
    /\ pc = "late" /\ c \in todo /\ c \in branches
    /\ merged' = merged \cup {c} /\ work' = work \ {c}
    /\ pushRow' = MainMoved
    /\ open' = open \ {c}
    /\ todo' = todo \ {c}
    /\ job' = [job EXCEPT !.cyc = c]
    /\ Go("lateRow")
    /\ UNCHANGED <<disk, branches, used, rowed, resolved, accepted,
                   unfinished>>

\* The base, taken as recorded, is unchanged: merge and push again.
LatePushed(c) ==
    /\ pc = "late" /\ c \in todo /\ c \in branches
    /\ pushRow[c] = "fresh"
    /\ merged' = merged \cup {c} /\ work' = work \ {c}
    /\ pushRow' = MainMoved
    /\ open' = open \ {c}
    /\ todo' = todo \ {c}
    /\ job' = [job EXCEPT !.cyc = c]
    /\ Go("lateRow")
    /\ UNCHANGED <<disk, branches, used, rowed, resolved, accepted,
                   unfinished>>

LatePushRecorded ==
    /\ pc = "lateRow"
    /\ LateRow(job.cyc)
    /\ Go("lateClear")
    /\ UNCHANGED <<tele, git, job, todo, aux>>

\* Mutant of Cleared: the branch is deleted whether or not the save landed.
ClearedAndDeleted(c) ==
    \E how \in SaveOutcome :
        /\ Store(ClearedOnIntegration(oi, c), how)
        /\ branches' = branches \ {c}

\* The pending increment of an integrated cycle is cleared, and the branch
\* is deleted unless that save failed.
Cleared(c) ==
    \E how \in SaveOutcome :
        /\ Store(ClearedOnIntegration(oi, c), how)
        /\ branches' = IF Landed(how) \/ oi.pending.cycle # c
                       THEN branches \ {c} ELSE branches

LateCleared ==
    /\ pc = "lateClear"
    /\ Cleared(job.cyc)
    /\ job' = NoJob
    /\ Go("late")
    /\ UNCHANGED <<tele, work, merged, used, ledger, todo, aux>>

\* The late-push pass runs even when main could not be restored; then the
\* tick ends.
Prepared ==
    /\ pc = "late" /\ todo = {}
    /\ Go("session")
    /\ UNCHANGED <<disk, git, ledger, job, todo, aux>>

NotRestored ==
    /\ pc = "late" /\ todo = {}
    /\ Go("idle")
    /\ UNCHANGED <<disk, git, ledger, job, todo, aux>>

-----------------------------------------------------------------------------
(* The planning session                                                    *)

\* No session (the planner is stopped) or one that did not answer.
SessionFails ==
    /\ pc = "session"
    /\ Go("idle")
    /\ UNCHANGED <<disk, git, ledger, job, todo, aux>>

\* Any answer proves the supplier reachable: record_model_call_completed.
SessionAnswers ==
    /\ pc = "session"
    /\ \E how \in SaveOutcome : Store(ModelCallCompleted(oi), how)
    /\ Go("decide")
    /\ UNCHANGED <<tele, git, ledger, job, todo, aux>>

\* no_plan, malformed, a rest, or no decision on the pending increment.
NoPlanAnswer ==
    /\ pc = "decide"
    /\ Go("idle")
    /\ UNCHANGED <<disk, git, ledger, job, todo, aux>>

\* A plan for the cycle id this tick minted.
NewPlan(c, p) ==
    /\ c \notin used
    /\ used' = used \cup {c}
    /\ accepted' = [accepted EXCEPT ![c] = p]
    /\ job' = JobFor(c, p, FALSE)
    /\ Go("diary")

\* Mutant of PlanAnswer: no decision on the pending increment is asked for.
PlanOverPending(c, p) ==
    /\ pc = "decide"
    /\ NewPlan(c, p)
    /\ UNCHANGED <<disk, branches, work, merged, ledger, todo, open,
                   unfinished>>

PlanAnswer(c, p) ==
    /\ pc = "decide" /\ ~HasPending(oi)
    /\ NewPlan(c, p)
    /\ UNCHANGED <<disk, branches, work, merged, ledger, todo, open,
                   unfinished>>

\* The kept increment is run again under its own cycle id, provided that the
\* decision was verified on disk.
Resume(p, how) ==
    IF how = "verified"
    THEN job' = JobFor(oi.pending.cycle, p, TRUE) /\ Go("diary")
    ELSE job' = NoJob /\ Go("idle")

KeepConfirmed ==
    /\ pc = "decide" /\ HasPending(oi)
    /\ \E how \in SaveOutcome :
           /\ Store(Kept(oi), how)
           /\ Resume(oi.pending.plan, how)
    /\ UNCHANGED <<tele, git, ledger, todo, aux>>

KeepEdited(p) ==
    /\ pc = "decide" /\ HasPending(oi)
    /\ oi.pending.version < VersionCap
    /\ \E how \in SaveOutcome :
           /\ Store(KeptEdited(oi, p), how)
           /\ accepted' = IF Landed(how)
                          THEN [accepted EXCEPT ![oi.pending.cycle] = p]
                          ELSE accepted
           /\ Resume(p, how)
    /\ UNCHANGED <<tele, git, ledger, todo, open, unfinished>>

\* edit or delete: the increment is dropped and the answer's plan is new
\* work.  An unverified save ends the tick, whatever is on disk.
EditOrDelete(c, p) ==
    /\ pc = "decide" /\ HasPending(oi)
    /\ \E how \in SaveOutcome :
           /\ Store(Dropped(oi), how)
           /\ open' = IF Landed(how) THEN open \ {oi.pending.cycle} ELSE open
           /\ IF how = "verified"
              THEN NewPlan(c, p)
              ELSE /\ job' = NoJob /\ Go("idle")
                   /\ UNCHANGED <<used, accepted>>
    /\ UNCHANGED <<tele, branches, work, merged, ledger, todo, unfinished>>

\* delete, but the inspection ref could not be written: only unheld.
DeleteRefused ==
    /\ pc = "decide" /\ HasPending(oi)
    /\ \E how \in SaveOutcome : Store(Unheld(oi), how)
    /\ Go("idle")
    /\ UNCHANGED <<tele, git, ledger, job, todo, aux>>

-----------------------------------------------------------------------------
(* Diary, dispatch, branch and registration                                *)

\* The plan block must reach origin/main before anybody executes the plan.
DiaryPushed ==
    /\ pc = "diary"
    /\ pushRow' = MainMoved
    /\ Go("dispatch")
    /\ UNCHANGED <<disk, git, rowed, resolved, job, todo, aux>>

DiaryFails ==
    /\ pc = "diary"
    /\ pushRow' \in IF LostAcks THEN {pushRow, MainMoved} ELSE {pushRow}
    /\ EndTick
    /\ UNCHANGED <<disk, git, rowed, resolved, aux>>

\* A duplicate of earlier work, or no branch to work on: an outcome row
\* without an attempt.
NotStarted ==
    /\ pc = "dispatch"
    /\ job' = [job EXCEPT !.verdict = "blocked"]
    /\ Go("row")
    /\ UNCHANGED <<disk, git, ledger, todo, aux>>

\* A fresh branch off origin/main, or the kept increment's own branch as it
\* is.  Then branches are pruned, never the current one nor the one on which
\* a pending increment waits; which of the others is a matter of their age.
BranchReady ==
    /\ pc = "dispatch"
    /\ job.resume => job.cyc \in branches
    /\ \E gone \in SUBSET (branches \ {job.cyc, oi.pending.cycle}) :
           branches' = (branches \cup {job.cyc}) \ gone
    /\ Go("register")
    /\ UNCHANGED <<disk, work, merged, used, ledger, job, todo, aux>>

\* Mutant of Register: the read-back is not looked at.
RegisterUnverified ==
    /\ pc = "register"
    /\ \E how \in SaveOutcome :
           Store(AttemptStarted(oi, job.cyc, job.plan), how)
    /\ open' = open \cup {job.cyc}
    /\ Go("spawn")
    /\ UNCHANGED <<tele, git, ledger, job, todo, accepted, unfinished>>

\* No registration, no executor.
Register ==
    /\ pc = "register"
    /\ \E how \in SaveOutcome :
           /\ Store(AttemptStarted(oi, job.cyc, job.plan), how)
           /\ IF how = "verified"
              THEN /\ open' = open \cup {job.cyc}
                   /\ job' = job /\ Go("spawn")
              ELSE /\ open' = open
                   /\ job' = [job EXCEPT !.verdict = "blocked"] /\ Go("row")
    /\ UNCHANGED <<tele, git, ledger, todo, accepted, unfinished>>

Spawn ==
    /\ pc = "spawn"
    /\ tele' = "none"
    /\ \E how \in SaveOutcome : Store(TaskAttached(oi, job.cyc), how)
    /\ Go("running")
    /\ UNCHANGED <<git, ledger, job, todo, aux>>

-----------------------------------------------------------------------------
(* The executor, and what its own telemetry says of it                     *)

\* Checkpoint, ordinary or residual commits of the session in progress.
Commits ==
    /\ pc \in {"running", "repair"} /\ ~job.changed
    /\ work' = work \cup {job.cyc}
    /\ unfinished' = unfinished \cup {job.cyc}
    /\ job' = [job EXCEPT !.changed = TRUE]
    /\ UNCHANGED <<disk, branches, merged, used, ledger, pc, todo, open,
                   accepted>>

\* "ok", an error of the supplier's ("supply") or of our own ("defect"), or
\* any other status and no telemetry at all ("none").
ExecutorEnds(status) ==
    /\ pc = "running"
    /\ tele' = status
    /\ unfinished' = IF status = "ok" THEN unfinished \ {job.cyc}
                                      ELSE unfinished
    /\ Go("classify")
    /\ UNCHANGED <<oi, git, ledger, job, todo, open, accepted>>

\* Mutant of InterruptedAs: the outcome row is written whatever became of the
\* record.
InterruptedUnverified(cause) ==
    \E how \in SaveOutcome, k \in TaskKey :
        /\ Store(IF cause = "supply"
                 THEN SupplyInterrupted(oi, job.cyc, k, job.plan)
                 ELSE InterruptedNoBackoff(oi, job.cyc, k, job.plan,
                                           "interrupted_defect"), how)
        /\ job' = [job EXCEPT !.verdict = "interrupted"]
        /\ Go("row")

\* The supply or defect record of the attempt in progress: the
\* outcome row is written only when the record was verified.
InterruptedAs(cause) ==
    \E how \in SaveOutcome, k \in TaskKey :
        /\ Store(IF cause = "supply"
                 THEN SupplyInterrupted(oi, job.cyc, k, job.plan)
                 ELSE InterruptedNoBackoff(oi, job.cyc, k, job.plan,
                                           "interrupted_defect"), how)
        /\ IF how = "verified"
           THEN /\ job' = [job EXCEPT !.verdict = "interrupted"]
                /\ Go("row")
           ELSE job' = NoJob /\ Go("idle")

\* The supplier failed before anything was committed.
SupplierPaused ==
    /\ pc = "classify" /\ tele = "supply" /\ job.cyc \notin work
    /\ InterruptedAs("supply")
    /\ UNCHANGED <<tele, git, ledger, todo, aux>>

\* Any other ending counts as a completed model call, also that of a session
\* that is about to be recorded as interrupted.
Classified ==
    /\ pc = "classify" /\ ~(tele = "supply" /\ job.cyc \notin work)
    /\ \E how \in SaveOutcome : Store(ModelCallCompleted(oi), how)
    /\ \/ /\ job.cyc \notin work
          /\ job' = [job EXCEPT !.verdict = "closed"] /\ Go("row")
       \/ /\ job.cyc \in work /\ tele # "ok"
          /\ job' = [job EXCEPT !.cause = IF tele = "supply" THEN "supply"
                                                             ELSE "defect"]
          /\ Go("interrupt")
       \/ /\ job.cyc \in work /\ tele = "ok"
          /\ job' = job /\ Go("gate")
    /\ UNCHANGED <<tele, git, ledger, todo, aux>>

RecordInterruption ==
    /\ pc = "interrupt"
    /\ InterruptedAs(job.cause)
    /\ UNCHANGED <<tele, git, ledger, todo, aux>>

\* An unexpected exception, the closing commit, the gate or the integration
\* fails: an ordinary outcome, the branch is kept.
NotIntegrated ==
    /\ pc \in {"spawn", "classify", "gate"}
    /\ job' = [job EXCEPT !.verdict = "closed"]
    /\ Go("row")
    /\ UNCHANGED <<disk, git, ledger, todo, aux>>

-----------------------------------------------------------------------------
(* Repair turns, gate and integration                                      *)

RepairStarts ==
    /\ pc = "gate" /\ job.repairs < MaxRepairs
    /\ job' = [job EXCEPT !.repairs = @ + 1, !.changed = FALSE]
    /\ Go("repair")
    /\ UNCHANGED <<disk, git, ledger, todo, aux>>

\* A repair turn that changed the branch must have finished as well.
RepairEnds(status) ==
    /\ pc = "repair"
    /\ unfinished' = IF status = "ok" THEN unfinished \ {job.cyc}
                                      ELSE unfinished
    /\ IF job.changed /\ status # "ok"
       THEN /\ job' = [job EXCEPT !.cause = IF status = "supply"
                                            THEN "supply" ELSE "defect"]
            /\ Go("interrupt")
       ELSE job' = job /\ Go("gate")
    /\ UNCHANGED <<disk, git, ledger, todo, open, accepted>>

Integrated ==
    /\ pc = "gate"
    /\ merged' = merged \cup {job.cyc} /\ work' = work \ {job.cyc}
    /\ pushRow' = MainMoved
    /\ open' = open \ {job.cyc}
    /\ job' = [job EXCEPT !.verdict = "integrated"]
    /\ Go("clear")
    /\ UNCHANGED <<disk, branches, used, rowed, resolved, todo, accepted,
                   unfinished>>

\* Every retry of the push failed on the connection.  origin/main may have
\* moved meanwhile.
PushPends ==
    /\ pc = "gate"
    /\ \E base \in {"fresh", "moved"} :
           job' = [job EXCEPT !.verdict = "push_pending", !.base = base]
    /\ Go("row")
    /\ UNCHANGED <<disk, git, ledger, todo, aux>>

\* The push landed, its acknowledgement did not: reported pending, or, after
\* a retry against the moved main, rejected.
PushLandsUnseen ==
    /\ pc = "gate" /\ LostAcks
    /\ merged' = merged \cup {job.cyc} /\ work' = work \ {job.cyc}
    /\ pushRow' = MainMoved
    /\ \E v \in {"closed", "push_pending"} :
           job' = [job EXCEPT !.verdict = v, !.base = "moved"]
    /\ Go("row")
    /\ UNCHANGED <<disk, branches, used, rowed, resolved, todo, aux>>

IntegrationCleared ==
    /\ pc = "clear"
    /\ Cleared(job.cyc)
    /\ Go("row")
    /\ UNCHANGED <<tele, work, merged, used, ledger, job, todo, aux>>

-----------------------------------------------------------------------------
(* The outcome row and the end of the tick                                 *)

\* Whether an integrated cycle changed service files only is free.
RowWritten ==
    /\ pc = "row"
    /\ LET c == job.cyc
           v == job.verdict
       IN  /\ rowed' = rowed \cup {c}
           /\ pushRow' = IF v = "push_pending"
                         THEN [pushRow EXCEPT ![c] = job.base] ELSE pushRow
           /\ \/ UNCHANGED resolved
              \/ v = "integrated" /\ resolved' = resolved \cup {c}
           /\ open' = IF v \in {"blocked", "interrupted"} THEN open
                                                          ELSE open \ {c}
    /\ Go("finish")
    /\ UNCHANGED <<disk, git, job, todo, accepted, unfinished>>

\* record_cycle_outcome ends with record_attempt_finished.
AttemptEnds ==
    /\ pc = "finish"
    /\ \E how \in SaveOutcome : Store(AttemptFinished(oi, job.cyc), how)
    /\ EndTick
    /\ UNCHANGED <<tele, git, ledger, aux>>

-----------------------------------------------------------------------------
(* Surroundings: a kill, and time passing                                  *)

Crash ==
    /\ pc # "idle"
    /\ EndTick
    /\ UNCHANGED <<disk, git, ledger, aux>>

\* The deadline passes, or the input the hold waits for changes.
HoldPasses ==
    /\ pc \in {"idle", "precheck"} /\ oi.hold = "active"
    /\ oi' = [oi EXCEPT !.hold = "due"]
    /\ UNCHANGED <<tele, git, ledger, proc, aux>>

\* operator_clear_flag, run by hand.
OperatorClearsFlag ==
    /\ oi' = FlagCleared(oi)
    /\ UNCHANGED <<tele, git, ledger, proc, aux>>

KillCheck == NothingStale \/ StaleReconciled \/ StaleRecorded

LatePush == \/ \E c \in Cycle : \/ LateAbandoned(c) \/ LateSuperseded(c)
                                \/ LateSkipped(c) \/ LatePushed(c)
            \/ LatePushRecorded \/ LateCleared

Prepare == Held \/ PrepareRepository \/ LatePush \/ Prepared \/ NotRestored

Session == \/ SessionFails \/ SessionAnswers \/ NoPlanAnswer
           \/ \E c \in Cycle, p \in Plan : PlanAnswer(c, p)
           \/ KeepConfirmed
           \/ \E p \in Plan : KeepEdited(p)
           \/ \E c \in Cycle, p \in Plan : EditOrDelete(c, p)
           \/ DeleteRefused

Status == {"ok", "supply", "defect", "none"}

Attempt == \/ DiaryPushed \/ DiaryFails \/ NotStarted \/ BranchReady
           \/ Register \/ Spawn \/ Commits
           \/ \E s \in Status : ExecutorEnds(s)
           \/ SupplierPaused \/ Classified \/ RecordInterruption

Conclude == \/ NotIntegrated \/ RepairStarts
            \/ \E s \in Status : RepairEnds(s)
            \/ Integrated \/ PushPends \/ PushLandsUnseen
            \/ IntegrationCleared \/ RowWritten \/ AttemptEnds

Tick == KillCheck \/ Prepare \/ Session \/ Attempt \/ Conclude

Next == Tick \/ Crash \/ HoldPasses \/ OperatorClearsFlag

Spec == Init /\ [][Next]_vars

\* The timer fires again and again and a tick goes on unless it is killed;
\* deadlines pass; a recovery that is tried again and again is not failed by
\* the disk every time, and a preparation neither killed nor failed by the
\* repository.
FairSpec ==
    /\ Spec
    /\ WF_vars(Tick) /\ WF_vars(HoldPasses)
    /\ SF_vars(StaleRecorded /\ pc' = "precheck")
    /\ SF_vars(PrepareRepository) /\ SF_vars(LatePush) /\ SF_vars(Prepared)

-----------------------------------------------------------------------------
(* Properties                                                              *)

\* The variables stay in their types.
TypeOK ==
    /\ oi \in StateType /\ tele \in Status
    /\ branches \subseteq Cycle /\ work \subseteq Cycle
    /\ merged \subseteq Cycle /\ used \subseteq Cycle
    /\ rowed \subseteq Cycle /\ resolved \subseteq Cycle
    /\ pushRow \in [Cycle -> {"none", "fresh", "moved"}]
    /\ pc \in {"idle", "precheck", "late", "lateRow", "lateClear", "session",
               "decide", "diary", "dispatch", "register", "spawn", "running",
               "classify", "interrupt", "gate", "repair", "clear", "row",
               "finish"}
    /\ job \in JobType /\ todo \subseteq Cycle
    /\ open \subseteq Cycle /\ unfinished \subseteq Cycle
    /\ accepted \in [Cycle -> Plan \cup {NoPlan}]

\* An attempt that was registered and neither concluded by an outcome of its
\* own, integrated, nor edited or deleted away is on disk, as the running
\* registration or as the pending increment: whatever kills, failed saves and
\* failed read-backs happen, the next kill check or the planner meets it.
NoAttemptLost == open \subseteq {oi.running.cycle, oi.pending.cycle}

\* While an attempt runs, the only increment that can be pending is its own.
\* Without this the kill check would leave a dead attempt alone ("an
\* unrelated pending increment defers"), and the next registration would
\* overwrite it.
SingleLineage ==
    HasRunning(oi) /\ HasPending(oi) => oi.running.cycle = oi.pending.cycle

\* The pending plan is the last one the harness accepted for that cycle: no
\* recovery, from the registration's copy or from the tick's, puts back a
\* text that a keep with an edit has replaced.
PlanMatchesAccepted ==
    HasPending(oi) => oi.pending.plan = accepted[oi.pending.cycle]

\* As long as the same increment is pending, its plan version never goes
\* back, however often it is interrupted again.
VersionMonotone ==
    [][HasPending(oi) /\ oi'.pending.cycle = oi.pending.cycle
       => oi'.pending.version >= oi.pending.version]_vars

\* A tick that backs off does not ask the planner, also when the hold was
\* created by this tick's own recovery of a dead attempt.
HoldRespected ==
    pc \in {"late", "lateRow", "lateClear", "session", "decide"}
        => oi.hold # "active"

\* A branch is never deleted, by pruning or after an integration, in a step
\* that leaves its cycle pending: a keep would find nothing to resume.
PendingBranchNotDeleted == [][oi'.pending.cycle \notin branches \ branches']_vars

\* Commits of a session that did not finish never reach origin/main, by the
\* gate or by a late push of an older attempt on the same branch.
UnfinishedNeverIntegrates ==
    [][(merged' \ merged) \cap unfinished = {}]_vars

\* From before the spawn until the attempt is over, its registration is on
\* disk and names the plan that is being executed, so that a kill at any point
\* of it leaves something for the kill check to recover.
RegisteredWhileRunning ==
    pc \in {"spawn", "running", "classify", "gate", "repair", "interrupt"}
        => oi.running.cycle = job.cyc /\ oi.running.plan = job.plan

\* A registered attempt is concluded or, whatever interrupted it, comes before
\* the planner as the pending increment: no registration is left alone for
\* good, holds end, and no recovery keeps a tick from getting there.
AttemptReachesPlanner ==
    \A c \in Cycle :
        c \in open ~> c \notin open \/ (pc = "session" /\ oi.pending.cycle = c)
-----------------------------------------------------------------------------
(* The abstract life of an increment, and where the bridge keeps it        *)

\* The increment that is held: the pending one or, while nothing is pending,
\* the registered one until its cycle has an outcome.
Unconcluded == HasRunning(oi) /\ oi.running.cycle \notin rowed

Holding ==
    CASE HasPending(oi) -> [cycle |-> oi.pending.cycle, plan |-> oi.pending.plan,
                            version |-> oi.pending.version]
      [] ~HasPending(oi) /\ Unconcluded
                        -> [cycle |-> oi.running.cycle, plan |-> oi.running.plan,
                            version |-> 1]
      [] OTHER          -> [cycle |-> NoCycle, plan |-> NoPlan, version |-> 0]

Inc == INSTANCE Increment
           WITH held <- Holding.cycle, plan <- Holding.plan,
                version <- Holding.version, deciding <- (pc = "decide"),
                concluded <- rowed, delivered <- merged

\* The record keeps the promise of Increment through failed saves, kills and
\* late pushes: an increment is let go of only by the planner's decision, by
\* its delivery or together with its outcome, no other cycle takes its place,
\* and its plan and version change by an edit only.
ImplementsIncrement == Inc!Spec
-----------------------------------------------------------------------------
(* What the documentation says, and the code does not do                   *)

\* "If THAT exact resumed attempt goes stale, it must be classified exactly
\* like any other stale attempt": a registration that the kill check takes to
\* be finished belongs to an attempt that was concluded.
ReconciledWasConcluded ==
    pc = "idle" /\ HasRunning(oi) /\ oi.running.cycle \in rowed
        => oi.running.cycle \notin open
=============================================================================
