--------------------------- MODULE PlannerGuards ---------------------------
(***************************************************************************)
(* What stands between the timer and the planning session: the rest the    *)
(* planner asked for (planner_rest.py), the stop after too many failed     *)
(* sessions (no_plan_recovery.py), the operator's resume                   *)
(* (operator_recovery.py) and the places in bridge.py that read and write  *)
(* their two state files.                                                  *)
(*                                                                         *)
(* A tick runs under the bridge lock, so does the resume: one of them at a *)
(* time, and either may be killed.  A save that fails is swallowed and a   *)
(* file that cannot be read counts as empty; both are faults here.  The    *)
(* planner's answer and the changes of what a rest waits for are free.     *)
(* Left out: the held-tick counter, the deferred verdicts (no caller), the *)
(* hold of the open increment, which BridgeTick has.                       *)
(***************************************************************************)
EXTENDS Integers, Sequences

CONSTANTS
    Input,        \* what a rest may wait for, origin/main among it
    Main,         \* the commit on main: read from the checkout's own ref
    DegradedAt,   \* planner failures before minimal mode (3)
    StopAt,       \* planner failures before the stop (6)
    SupplyAt,     \* supply failures before the supply is called degraded (6)
    ReviewAt,     \* rests in a row before the review signal (6)
    MaxHistory,   \* bounds: counted sessions since the last plan,
    MaxRests,     \*   rests in a row,
    MaxFaults,    \*   faults,
    MaxResumes,   \*   operator resumes,
    MaxChanges    \*   changes of an input

ASSUME GuardsAssumption ==
    /\ Main \in Input
    /\ DegradedAt \in Nat \ {0} /\ StopAt \in Nat /\ DegradedAt < StopAt
    /\ SupplyAt \in Nat \ {0} /\ ReviewAt \in Nat \ {0}
    /\ {MaxHistory, MaxRests, MaxFaults, MaxResumes, MaxChanges} \subseteq Nat

VARIABLES
    recovery,     \* planner/no_plan_recovery.json
    rest,         \* planner/rest_state.json
    pc,           \* what the holder of the bridge lock does
    outcome,      \* the outcome of the session that is being recorded
    version,      \* of each input, in the world
    fetched,      \* the version of main the checkout knows
    \* auxiliary
    history,      \* counted outcomes since the last plan, oldest first
    restsRun,     \* rest decisions since the last session of another outcome
    faults,       \* lost saves, failed reads, kills that lost an update
    resumes       \* times an operator resumed

files == <<recovery, rest>>
world == <<version, fetched>>
aux == <<history, restsRun, faults, resumes>>
vars == <<recovery, rest, pc, outcome, version, fetched, history, restsRun, faults, resumes>>

Supply == "supply"        \* timed_out, supplier_error
Planner == "planner"      \* refused, malformed, no_plan
Infra == "infra"          \* spawn_failed, commit_failed
Plan == "integrated"
Rest == "rest"
None == "none"
Outcome == {Supply, Planner, Infra, Plan, Rest}
NoVersion == -1
Versions == 0..MaxChanges
-----------------------------------------------------------------------------
(* no_plan_recovery.py                                                      *)

\* planner_degraded is set and cleared together with minimal_mode.
RecoveryType == [supply : Nat, planner : Nat, minimal : BOOLEAN,
                 stopped : BOOLEAN, supplyDegraded : BOOLEAN]

EmptyRecovery == [supply |-> 0, planner |-> 0, minimal |-> FALSE,
                  stopped |-> FALSE, supplyDegraded |-> FALSE]

\* Mutant of SupplyFailed: it does not end the planner's streak.
SupplyOnly(r) == [r EXCEPT !.supply = @ + 1,
                           !.supplyDegraded = @ \/ r.supply + 1 >= SupplyAt]

SupplyFailed(r) ==
    [supply |-> r.supply + 1, planner |-> 0, minimal |-> r.minimal,
     stopped |-> r.stopped,
     supplyDegraded |-> r.supplyDegraded \/ r.supply + 1 >= SupplyAt]

\* Mutant of PlannerFailed: stopped at an exact count, which a resume leaves
\* behind.
StoppedOnce(r) ==
    LET stop == r.planner + 1 = StopAt
    IN  [r EXCEPT !.supply = 0, !.planner = @ + 1, !.stopped = @ \/ stop,
                  !.minimal = @ \/ (~stop /\ r.planner + 1 >= DegradedAt)]

\* Mutant of PlannerFailed: takes one off the supply's streak.
SupplyForgiven(r) ==
    [r EXCEPT !.supply = @ - 1, !.planner = @ + 1,
              !.stopped = @ \/ r.planner + 1 >= StopAt,
              !.minimal = @ \/ r.planner + 1 >= DegradedAt]

\* The stop is looked at first: minimal mode was set on the way to it.
PlannerFailed(r) ==
    LET stop == r.planner + 1 >= StopAt /\ ~r.stopped
    IN  [supply |-> 0, planner |-> r.planner + 1,
         minimal |-> r.minimal \/ (~stop /\ r.planner + 1 >= DegradedAt),
         stopped |-> r.stopped \/ stop, supplyDegraded |-> r.supplyDegraded]

Counted(r, o) == CASE o = Supply  -> SupplyFailed(r)
                   [] o = Planner -> PlannerFailed(r)
                   [] o = Plan    -> EmptyRecovery
                   [] OTHER       -> r
-----------------------------------------------------------------------------
(* planner_rest.py.  due: the deadline has passed, a fact of the clock      *)

RestType == [wake : Input \cup {None}, snapshot : Versions \cup {NoVersion},
             due : BOOLEAN, streak : Nat, signal : BOOLEAN]

EmptyRest == [wake |-> None, snapshot |-> NoVersion, due |-> FALSE,
              streak |-> 0, signal |-> FALSE]

Rested(r, i, v) ==
    [wake |-> i, snapshot |-> v, due |-> FALSE, streak |-> r.streak + 1,
     signal |-> r.signal \/ r.streak + 1 >= ReviewAt]

\* What the bridge can see of an input; it may be unreadable at any time.
Seen(i) == {NoVersion, IF i = Main THEN fetched ELSE version[i]}

\* Mutant of Holds: the deadline is forgotten.
HoldsForever(v) == rest.wake # None /\ v # NoVersion /\ v = rest.snapshot

\* precheck: version only, and every doubt returns the choice to the planner.
Holds(v) == rest.wake # None /\ ~rest.due /\ v # NoVersion /\ v = rest.snapshot
-----------------------------------------------------------------------------
Init ==
    /\ recovery = EmptyRecovery /\ rest = EmptyRest
    /\ pc = "idle" /\ outcome = None
    /\ version = [i \in Input |-> 0] /\ fetched = 0
    /\ history = <<>> /\ restsRun = 0 /\ faults = 0 /\ resumes = 0

Fault == faults < MaxFaults /\ faults' = faults + 1

\* Both precheck calls, the second at the top of the session.
Look == IF rest.wake = None THEN {NoVersion} ELSE Seen(rest.wake)

StartTick ==
    /\ pc = "idle" /\ pc' = "prepare"
    /\ \/ (\E v \in Look : ~Holds(v)) /\ UNCHANGED faults
       \/ Fault            \* the rest file reads as empty
    /\ UNCHANGED <<files, outcome, world, history, restsRun, resumes>>

\* record_held_tick saves what it loads: an unreadable file is made empty.
HeldTickWipes ==
    /\ pc = "idle" /\ (\E v \in Look : Holds(v)) /\ Fault
    /\ rest' = EmptyRest
    /\ UNCHANGED <<recovery, pc, outcome, world, history, restsRun, resumes>>

Prepared ==
    /\ pc = "prepare" /\ pc' = "gate"
    /\ fetched' = version[Main]
    /\ UNCHANGED <<files, outcome, version, aux>>

NotPrepared ==
    /\ pc = "prepare" /\ pc' = "idle"
    /\ UNCHANGED <<files, outcome, world, aux>>

\* The stop, then the session's own precheck: an input that was unreadable in
\* the first may hold here, after the preparation.
Gate ==
    /\ pc = "gate"
    /\ \E v \in Look :
         \/ /\ pc' = IF recovery.stopped \/ Holds(v) THEN "idle" ELSE "asked"
            /\ UNCHANGED faults
         \/ /\ pc' = IF Holds(v) THEN "idle" ELSE "asked"
            /\ recovery.stopped /\ Fault
    /\ UNCHANGED <<files, outcome, world, history, restsRun, resumes>>

\* An exception that is not one of the session's own outcomes.
SessionRaises ==
    /\ pc = "asked" /\ pc' = "idle"
    /\ UNCHANGED <<files, outcome, world, aux>>

\* The planning_session row.
SessionEnds(o) ==
    /\ pc = "asked"
    /\ outcome' = o
    /\ pc' = IF o = Rest THEN "note" ELSE "count"
    /\ IF o \in {Supply, Planner}
       THEN Len(history) < MaxHistory /\ history' = Append(history, o)
       ELSE history' = (IF o = Plan THEN <<>> ELSE history)
    /\ IF o = Rest THEN restsRun < MaxRests /\ restsRun' = restsRun + 1
                   ELSE restsRun' = 0
    /\ UNCHANGED <<files, world, faults, resumes>>

\* A load-change-save of `file': it lands, starts from an empty file because
\* the load failed, or is lost.
Saved(file, changed, changedEmpty) ==
    \/ file' = changed /\ UNCHANGED faults
    \/ file' = changedEmpty /\ Fault
    \/ UNCHANGED file /\ Fault

CountOutcome ==
    /\ pc = "count" /\ pc' = "note"
    /\ IF outcome = Infra
       THEN UNCHANGED <<recovery, faults>>
       ELSE Saved(recovery, Counted(recovery, outcome), Counted(EmptyRecovery, outcome))
    /\ UNCHANGED <<rest, outcome, world, history, restsRun, resumes>>

NoteRest ==
    /\ pc = "note" /\ outcome = Rest
    /\ \E i \in Input : \E v \in Seen(i) :
           Saved(rest, Rested(rest, i, v), Rested(EmptyRest, i, v))
    /\ pc' = "idle" /\ outcome' = None
    /\ UNCHANGED <<recovery, world, history, restsRun, resumes>>

\* record_non_rest_outcome does not load the file.
NoteOther ==
    /\ pc = "note" /\ outcome # Rest
    /\ \/ rest' = EmptyRest /\ UNCHANGED faults
       \/ UNCHANGED rest /\ Fault
    /\ pc' = "idle" /\ outcome' = None
    /\ UNCHANGED <<recovery, world, history, restsRun, resumes>>

\* resume_operator under the bridge lock: strict read, a file that is not a
\* stopped one is refused, the state is written before the audit row.
OperatorResumes ==
    /\ pc = "idle" /\ recovery.stopped /\ resumes < MaxResumes
    /\ recovery' = [recovery EXCEPT !.stopped = FALSE]
    /\ resumes' = resumes + 1
    /\ UNCHANGED <<rest, pc, outcome, world, history, restsRun, faults>>

Killed ==
    /\ pc # "idle" /\ pc' = "idle" /\ outcome' = None
    /\ IF pc \in {"count", "note"} THEN Fault ELSE UNCHANGED faults
    /\ UNCHANGED <<files, world, history, restsRun, resumes>>

DeadlinePasses ==
    /\ rest.wake # None /\ ~rest.due
    /\ rest' = [rest EXCEPT !.due = TRUE]
    /\ UNCHANGED <<recovery, pc, outcome, world, aux>>

InputChanges(i) ==
    /\ version[i] < MaxChanges
    /\ version' = [version EXCEPT ![i] = @ + 1]
    /\ UNCHANGED <<files, pc, outcome, fetched, aux>>

Session == SessionRaises \/ \E o \in Outcome : SessionEnds(o)
Record == CountOutcome \/ NoteRest \/ NoteOther
Tick == StartTick \/ HeldTickWipes \/ Prepared \/ NotPrepared \/ Gate \/ Session \/ Record
World == Killed \/ DeadlinePasses \/ \E i \in Input : InputChanges(i)

Next == Tick \/ OperatorResumes \/ World
Spec == Init /\ [][Next]_vars

\* The timer goes on, deadlines pass, and the preparation and the steps after
\* it are not killed or failed every single time.
FairSpec ==
    /\ Spec
    /\ WF_vars(StartTick /\ faults' = faults) /\ WF_vars(DeadlinePasses)
    /\ SF_vars(Prepared) /\ SF_vars(Gate /\ faults' = faults)
    /\ WF_vars(Session) /\ WF_vars(Record)
-----------------------------------------------------------------------------
TypeOK ==
    /\ recovery \in RecoveryType /\ rest \in RestType
    /\ pc \in {"idle", "prepare", "gate", "asked", "count", "note"}
    /\ outcome \in Outcome \cup {None}
    /\ version \in [Input -> Versions] /\ fetched \in Versions
    /\ history \in Seq({Supply, Planner}) /\ restsRun \in Nat
    /\ faults \in Nat /\ resumes \in Nat

\* The last n of the sessions h all failed on side f.
Run(h, f, n) ==
    /\ n \in 0..Len(h)
    /\ \A k \in Len(h) - n + 1 .. Len(h) : h[k] = f

\* Some n sessions of h in a row failed on side f.
Ran(h, f, n) ==
    \E m \in 0..Len(h) - n : \A k \in m + 1 .. m + n : h[k] = f

\* Without faults the two files say what the sessions were: the counters are
\* the streaks of failures since the last plan, whatever rests, held ticks,
\* infrastructure failures and kills of a session came in between, minimal
\* mode and the degraded supply are remembered until a plan, a stop is never
\* early, and the review signal means rests in a row.
CountersMatchSessions ==
    faults = 0 /\ pc \notin {"count", "note"} =>
        /\ Run(history, Planner, recovery.planner)
        /\ ~Run(history, Planner, recovery.planner + 1)
        /\ Run(history, Supply, recovery.supply)
        /\ ~Run(history, Supply, recovery.supply + 1)
        /\ recovery.minimal <=> Ran(history, Planner, DegradedAt)
        /\ recovery.supplyDegraded <=> Ran(history, Supply, SupplyAt)
        /\ recovery.stopped => Ran(history, Planner, StopAt)
        /\ restsRun = rest.streak /\ (rest.signal <=> restsRun >= ReviewAt)

\* A planner that keeps failing is stopped: a fault gives it at most StopAt
\* more sessions, an operator's resume a single one, because a resume leaves
\* the counter where it is.
StoppedInTime ==
    \A n \in 1..Len(history) :
        Run(history, Planner, n) => n <= StopAt * (1 + faults) + resumes

\* A planner that rests is asked again, or the bridge is stopped.
AskedAgain == rest.wake # None ~> (pc = "asked" \/ recovery.stopped)
=============================================================================
