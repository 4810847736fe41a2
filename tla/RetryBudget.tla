---------------------------- MODULE RetryBudget -----------------------------
(***************************************************************************)
(* What the bridge remembers of an attempt that produced nothing, and what *)
(* of it keeps the same work from being run again (runtime/bridge.py):     *)
(* the counter of attempts that died on their LLM call (retry_<key>.json), *)
(* the ledger rows that witness them, and the result rows of the last day, *)
(* which suppress a proposal of the same title.                            *)
(*                                                                         *)
(* Titles match if they are the same title; intents, target paths and      *)
(* word overlap are abstracted to that.  Result rows move to the archive   *)
(* with their age, so one sequence holds both.  The handled_ markers the   *)
(* bridge writes for these keys are left out: nothing reads them.          *)
(***************************************************************************)
EXTENDS Integers, Sequences, FiniteSets

CONSTANTS
    Candidate,   \* candidates' ids
    Title,       \* titles the planner may give to an increment
    Max,         \* LLM_ERROR_MAX_RETRIES (3)
    MaxScan,     \* failures the suppression looks at (10)
    MaxRows,     \* bounds: live result rows,
    MaxDeaths,   \*   dead attempts,
    MaxFaults    \*   kills, failing writes and lost counters

ASSUME RetryAssumption ==
    /\ Candidate \cap Title = {}
    /\ {Max, MaxScan} \subseteq Nat \ {0}
    /\ {MaxRows, MaxDeaths, MaxFaults} \subseteq Nat

VARIABLES
    pc,          \* "idle", "runs", "decided" or "rowed": where the attempt is
    job,         \* the attempt's key, title and reason
    counter,     \* retry_<key>.json: a count, or Missing, or Unreadable
    rows,        \* result rows younger than a day, the oldest first
    recorded,    \* keys with an executor_llm_error outcome row of this month
    \* auxiliary
    deaths,      \* how often an attempt of the key died by our own defect
    spoiled,     \* keys whose counter was lost, or not written
    behind,      \* keys with a death on a row that their counter does not know
    died, faults

vars == <<pc, job, counter, rows, recorded, deaths, spoiled, behind, died, faults>>

None == <<>>
Missing == -1
Unreadable == -2

\* _retry_key_for: a candidate's id, or a hash of the title without one.
Key == Candidate \cup Title
Offer == (Candidate \X Title) \cup {<<t, t>> : t \in Title}

\* "spared" is the row of an outage, of an interruption or of work delivered.
Reason == {"dead", "failed", "spared", "skip"}
Row == [key : Key, title : Title, reason : Reason]

Init ==
    /\ pc = "idle"
    /\ job = None
    /\ counter = [k \in Key |-> Missing]
    /\ rows = <<>> /\ recorded = {}
    /\ deaths = [k \in Key |-> 0] /\ spoiled = {} /\ behind = {} /\ died = 0 /\ faults = 0

Fault == faults < MaxFaults /\ faults' = faults + 1
-----------------------------------------------------------------------------
(* The suppression                                                          *)

\* Mutant of Exhausted: the attempt that spends the budget is not counted.
ExhaustedEarly(c) == c < 0 \/ c >= Max - 1

\* Mutant of Exhausted: a counter that is not there leaves the budget open.
ExhaustedIfRead(c) == c >= Max

\* _llm_error_retries_exhausted of a counter c: what cannot be read is spent.
Exhausted(c) == c < 0 \/ c >= Max

\* Mutant of IsFailure: a skip's own row is a failure of the title.
IsFailureOrSkip(row, c) ==
    \/ row.reason \in {"failed", "skip"}
    \/ row.reason = "dead" /\ Exhausted(c)

\* What of a row counts against its title, its key's counter being c.
IsFailure(row, c) ==
    \/ row.reason = "failed"
    \/ row.reason = "dead" /\ Exhausted(c)

Counts(i) == IsFailure(rows[i], counter[rows[i].key])

\* Row i is looked at if it counts: fewer than MaxScan newer ones do.
Scanned(i) == Cardinality({j \in DOMAIN rows : j > i /\ Counts(j)}) < MaxScan

\* _recent_failure_match
Suppressed(t) == \E i \in DOMAIN rows : Counts(i) /\ Scanned(i) /\ rows[i].title = t
-----------------------------------------------------------------------------
(* A cycle                                                                  *)

Plan(p, reason) == [key |-> p[1], title |-> p[2], reason |-> reason]
HasRoom == Len(rows) < MaxRows

\* The pre-spawn checks: a failure of the title, or a success tag or an
\* artifact that is there already, ends the cycle with a row of its own.
Skips(p) ==
    /\ pc = "idle" /\ HasRoom
    /\ \/ rows' = Append(rows, Plan(p, "skip")) /\ UNCHANGED faults
       \/ rows' = rows /\ Fault
    /\ UNCHANGED <<pc, job, counter, recorded, deaths, spoiled, behind, died>>

Starts(p) ==
    /\ pc = "idle" /\ HasRoom
    /\ ~Suppressed(p[2])
    /\ pc' = "runs" /\ job' = Plan(p, "spared")
    /\ UNCHANGED <<counter, rows, recorded, deaths, spoiled, behind, died, faults>>

\* It ends integrated, unfinished with commits, or with a verdict against it.
Ends(reason) ==
    /\ pc = "runs"
    /\ pc' = "decided" /\ job' = [job EXCEPT !.reason = reason]
    /\ UNCHANGED <<counter, rows, recorded, deaths, spoiled, behind, died, faults>>

\* Mutant of Pauses: an outage is charged like a defect.
PausesCharged ==
    /\ pc = "runs" /\ pc' = "decided"
    /\ counter' = [counter EXCEPT ![job.key] = IF @ < 0 THEN 1 ELSE @ + 1]
    /\ UNCHANGED <<job, rows, recorded, deaths, spoiled, behind, died, faults>>

\* The supplier is out: the budget is not touched, and the cycle writes no
\* rows if the interruption cannot be recorded.
Pauses ==
    /\ pc = "runs" /\ pc' = "idle" /\ job' = None
    /\ UNCHANGED <<counter, rows, recorded, deaths, spoiled, behind, died, faults>>

\* Mutant of Charged: a file that is missing counts -1.
ChargedFrom(c, known) == IF c = Unreadable \/ (c = Missing /\ known) THEN c ELSE c + 1

\* _decide_handled_marker for a dead LLM call without commits: the counter
\* goes up, but not if it cannot be read, or is gone while the ledger knows
\* of an earlier death.
Charged(c, known) ==
    IF c = Unreadable \/ (c = Missing /\ known) THEN c
    ELSE IF c = Missing THEN 1 ELSE c + 1

\* The rows of deaths of key k.
DeathsOf(k) == {i \in DOMAIN rows : rows[i].key = k /\ rows[i].reason = "dead"}

\* The count of k begins anew although a death of it is on a row.
Restarts(k) == counter[k] = Missing /\ k \notin recorded /\ DeathsOf(k) # {}

Dies ==
    /\ pc = "runs" /\ died < MaxDeaths /\ died' = died + 1
    /\ deaths' = [deaths EXCEPT ![job.key] = @ + 1]
    /\ \/ /\ counter' = [counter EXCEPT ![job.key] = Charged(@, job.key \in recorded)]
          /\ pc' = "decided" /\ job' = [job EXCEPT !.reason = "dead"]
          /\ behind' = IF Restarts(job.key) THEN behind \cup {job.key} ELSE behind
          /\ UNCHANGED <<spoiled, faults>>
       \/ /\ Fault                      \* the write fails, maybe with a kill
          /\ \/ counter' = counter /\ behind' = behind \cup {job.key}
             \/ counter' = [counter EXCEPT ![job.key] = Unreadable] /\ UNCHANGED behind
          /\ \/ pc' = "decided" /\ job' = [job EXCEPT !.reason = "dead"]
             \/ pc' = "idle" /\ job' = None
          /\ spoiled' = spoiled \cup {job.key}
    /\ UNCHANGED <<rows, recorded>>

\* A result row that cannot be written is done without.
ResultWritten ==
    /\ pc = "decided" /\ pc' = "rowed"
    /\ \/ rows' = Append(rows, job) /\ UNCHANGED faults
       \/ rows' = rows /\ Fault
    /\ UNCHANGED <<job, counter, recorded, deaths, spoiled, behind, died>>

OutcomeWritten ==
    /\ pc = "rowed" /\ pc' = "idle" /\ job' = None
    /\ recorded' = IF job.reason = "dead" THEN recorded \cup {job.key} ELSE recorded
    /\ UNCHANGED <<counter, rows, deaths, spoiled, behind, died, faults>>

Killed ==
    /\ pc # "idle" /\ pc' = "idle" /\ job' = None /\ Fault
    /\ UNCHANGED <<counter, rows, recorded, deaths, spoiled, behind, died>>
-----------------------------------------------------------------------------
(* Time and the state directory                                             *)

RowExpires ==
    /\ rows # <<>> /\ rows' = Tail(rows)
    /\ UNCHANGED <<pc, job, counter, recorded, deaths, spoiled, behind, died, faults>>

\* A month without a death of the key.
MonthPasses(k) ==
    /\ k \in recorded /\ \A i \in DOMAIN rows : rows[i].key # k
    /\ recorded' = recorded \ {k}
    /\ UNCHANGED <<pc, job, counter, rows, deaths, spoiled, behind, died, faults>>

CounterLost(k) ==
    /\ counter[k] # Missing /\ Fault
    /\ counter' = [counter EXCEPT ![k] = Missing]
    /\ spoiled' = spoiled \cup {k}
    /\ UNCHANGED <<pc, job, rows, recorded, deaths, behind, died>>

Next ==
    \/ \E p \in Offer : Skips(p) \/ Starts(p)
    \/ \E reason \in {"spared", "failed"} : Ends(reason)
    \/ Pauses \/ Dies \/ ResultWritten \/ OutcomeWritten \/ Killed
    \/ RowExpires
    \/ \E k \in Key : MonthPasses(k) \/ CounterLost(k)

Spec == Init /\ [][Next]_vars

\* Days pass.
FairSpec == Spec /\ WF_vars(RowExpires)
-----------------------------------------------------------------------------
TypeOK ==
    /\ pc \in {"idle", "runs", "decided", "rowed"}
    /\ (IF pc = "idle" THEN job = None ELSE job \in Row) /\ rows \in Seq(Row)
    /\ counter \in [Key -> Int] /\ \A k \in Key : counter[k] >= Unreadable /\ counter[k] # 0
    /\ recorded \subseteq Key /\ spoiled \subseteq Key /\ behind \subseteq Key
    /\ deaths \in [Key -> Nat] /\ died \in Nat /\ faults \in Nat

\* The counter is the number of attempts that died of our own defect, through
\* outages, skips, verdicts and kills between any two writes.
DeathsAreCounted ==
    \A k \in Key \ spoiled :
        counter[k] = IF deaths[k] = 0 THEN Missing ELSE deaths[k]

\* A title is kept from running only by a verdict against it, by a key of its
\* own whose budget is spent, or by a key whose counter was lost.
SuppressedForCause ==
    \A t \in Title : Suppressed(t) =>
        \E i \in DOMAIN rows :
            /\ rows[i].title = t
            /\ \/ rows[i].reason = "failed"
               \/ /\ rows[i].reason = "dead"
                  /\ deaths[rows[i].key] >= Max \/ rows[i].key \in spoiled

\* While an attempt runs, fewer than Max others of the same work died today,
\* as far as the scan looks, whatever happened to its counter: only a write
\* that fails, or the loss of the counter after a kill between the two rows of
\* a death, lets a work have more.
BudgetHolds ==
    pc = "runs" /\ job.key \notin behind =>
        Cardinality({i \in DeathsOf(job.key) : Scanned(i) /\ rows[i].title = job.title}) < Max

\* A suppressed title may be run again some day: being skipped does not keep
\* it suppressed.
OfferedAgain == \A t \in Title : Suppressed(t) ~> ~Suppressed(t)
=============================================================================
