--------------------------- MODULE OpenIncrement ---------------------------
(***************************************************************************)
(* The durable open-increment record of the bridge                         *)
(* (nanobot/runtime/open_increment.py, file state/planner/                 *)
(* open_increment.json), as a value and the functions that compute its     *)
(* next value.  The functions that touch the disk are the actions of       *)
(* BridgeTick, which store what these operators return.                    *)
(*                                                                         *)
(* What is abstracted: time stamps, the candidate id, the branch name (it  *)
(* is a function of the cycle id) and the counter of held ticks, which no  *)
(* code reads back.  A hold is "active" until its deadline passes or its   *)
(* input changes or cannot be read; from then on it is "due".              *)
(***************************************************************************)
EXTENDS Integers

CONSTANTS
    Cycle,          \* cycle ids (uuid4 in the code)
    NoCycle,        \* "no cycle": the record has no pending or no running part
    Plan,           \* plan texts
    NoPlan,
    TaskKey,        \* retry keys built from a candidate id or a title
    NoKey,
    FlagThreshold,  \* OPERATOR_FLAG_THRESHOLD
    StreakCap,      \* bound: the streak saturates here
    VersionCap      \* bound: plan_version is not edited past this

\* The streak is only compared with the threshold and used in a backoff that
\* has reached its ceiling by then, so it may saturate at the threshold.
ASSUME OpenIncrementAssumption ==
    /\ NoCycle \notin Cycle
    /\ NoPlan \notin Plan
    /\ NoKey \notin TaskKey
    /\ FlagThreshold \in Nat \ {0}
    /\ StreakCap \in Nat /\ StreakCap >= FlagThreshold
    /\ VersionCap \in Nat \ {0}

\* The retry key of an attempt recovered by the kill check.
KillKey(c) == <<"kill", c>>

Key == TaskKey \cup {KillKey(c) : c \in Cycle}

Reason == {"interrupted_supply", "interrupted_defect", "interrupted_kill"}

NoPending == [cycle |-> NoCycle, key |-> NoKey, plan |-> NoPlan,
              version |-> 0, reason |-> "none"]

NoRunning == [cycle |-> NoCycle, plan |-> NoPlan, task |-> FALSE]

\* OpenIncrementState(): nothing pending, nothing held, nothing running.
EmptyState == [pending |-> NoPending, hold |-> "none", streak |-> 0,
               flagged |-> FALSE, running |-> NoRunning]

PendingType == [cycle : Cycle \cup {NoCycle}, key : Key \cup {NoKey},
                plan : Plan \cup {NoPlan}, version : 0 .. VersionCap,
                reason : Reason \cup {"none"}]

RunningType == [cycle : Cycle \cup {NoCycle}, plan : Plan \cup {NoPlan},
                task : BOOLEAN]

StateType == [pending : PendingType, hold : {"none", "active", "due"},
              streak : 0 .. StreakCap, flagged : BOOLEAN,
              running : RunningType]

HasPending(s) == s.pending.cycle # NoCycle
HasRunning(s) == s.running.cycle # NoCycle

-----------------------------------------------------------------------------
(* Interruptions                                                           *)

\* record_attempt_finished: the registration of c, and only of c, is dropped.
AttemptFinished(s, c) ==
    [s EXCEPT !.running = IF s.running.cycle = c THEN NoRunning ELSE @]

\* Mutant of CarriedVersion: every interruption starts over.
RestartedVersion(s, c) == 1

\* A re-interruption of the same cycle carries its plan version forward.
CarriedVersion(s, c) == IF s.pending.cycle = c THEN s.pending.version ELSE 1

\* running -> pending in one value, so that one save moves both.
Interrupted(s, c, k, p, why) ==
    [AttemptFinished(s, c) EXCEPT
        !.pending = [cycle |-> c, key |-> k, plan |-> p,
                     version |-> CarriedVersion(s, c), reason |-> why]]

NextStreak(s, k) ==
    IF HasPending(s) /\ s.pending.key = k
    THEN IF s.streak < StreakCap THEN s.streak + 1 ELSE s.streak
    ELSE 1

\* record_supply_interruption: a backoff hold and, from FlagThreshold
\* consecutive interruptions on, the operator flag.
SupplyInterrupted(s, c, k, p) ==
    LET n == NextStreak(s, k)
    IN  [Interrupted(s, c, k, p, "interrupted_supply") EXCEPT
            !.streak = n,
            !.flagged = s.flagged \/ n >= FlagThreshold,
            !.hold = "active"]

\* Mutant of InterruptedNoBackoff: the registration goes, nothing is pending.
Forgotten(s, c, k, p, why) == [AttemptFinished(s, c) EXCEPT !.hold = "none"]

\* record_kill_interruption and record_defect_interruption: no backoff.
InterruptedNoBackoff(s, c, k, p, why) ==
    [Interrupted(s, c, k, p, why) EXCEPT !.hold = "none"]

\* record_model_call_completed
ModelCallCompleted(s) == [s EXCEPT !.streak = 0]

-----------------------------------------------------------------------------
(* The planning session's decision (resolve) and the end of an increment   *)

Unheld(s) == [s EXCEPT !.hold = "none", !.streak = 0]

\* keep, confirming the stored plan; also what is left on disk by a delete
\* whose inspection ref could not be written.
Kept(s) == Unheld(s)

\* Mutants of KeptEdited: the text is forgotten; the edit is counted twice.
VersionOnly(s, p) == [Unheld(s) EXCEPT !.pending.version = @ + 1]
EditedTwice(s, p) ==
    [Unheld(s) EXCEPT !.pending.plan = p, !.pending.version = @ + 2]

\* keep with plan_action "edit": the text and the version change together.
KeptEdited(s, p) ==
    [Unheld(s) EXCEPT !.pending.plan = p, !.pending.version = @ + 1]

\* edit or delete
Dropped(s) == [Unheld(s) EXCEPT !.pending = NoPending]

\* clear_pending_on_integration
ClearedOnIntegration(s, c) == IF s.pending.cycle = c THEN Dropped(s) ELSE s

-----------------------------------------------------------------------------
(* Registration of an attempt, and its recovery                            *)

\* record_attempt_started
AttemptStarted(s, c, p) ==
    [s EXCEPT !.running = [cycle |-> c, plan |-> p, task |-> FALSE]]

\* record_attempt_task_id
TaskAttached(s, c) ==
    [s EXCEPT !.running.task = IF s.running.cycle = c THEN TRUE ELSE @]

\* check_running_for_kill, its first two guards: a registration left by
\* another process, unless an unrelated increment is already pending.
StaleRunning(s) ==
    /\ HasRunning(s)
    /\ HasPending(s) => s.pending.cycle = s.running.cycle

\* check_running_for_kill and its caller: the cause of a stale registration,
\* from the executor's own terminal telemetry when its task id is known.
StaleCause(s, telemetry) ==
    CASE s.running.task /\ telemetry = "supply" -> "interrupted_supply"
      [] s.running.task /\ telemetry = "defect" -> "interrupted_defect"
      [] OTHER -> "interrupted_kill"

\* operator_clear_flag
FlagCleared(s) == [s EXCEPT !.flagged = FALSE]
=============================================================================
