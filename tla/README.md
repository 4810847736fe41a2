# Formal models of the self-evolving bridge

This directory holds TLA+ models of the control core of this repository, the
TLC runs that check them on small instances, and TLAPS proofs for instances of
any size. Source paths are relative to `src/`; `bridge.py`,
`open_increment.py`, `cycle_ledger.py`, `planner_rest.py` and
`no_plan_recovery.py` are under `nanobot/runtime/`, the verifier is
`host/eeepc/libexec/eeepc_promotion_verifier.py`.

## 1. The system

The program is an agent that improves its own repository. A systemd timer
starts `bridge.main()`; one process runs one *tick* under a file lock and ends.
A tick recovers what an earlier, killed tick left, asks a planning session (an
LLM) for a plan, publishes that plan in a diary on `main`, lets an executor
(another LLM session) work on a branch of the cycle, gates the result,
integrates it into `origin/main` and writes one outcome row to a ledger.
Nothing survives between ticks but files, branches and `origin/main`. Some
integrated modules become candidates for the running program itself: a second,
root-run process measures them, lets them soak and promotes them into an
overlay tree. Around that core there is a chat agent (loop, bus, channels,
cron, heartbeat), a body of advisory analysis (scorecard, lessons, demand,
evolution tree) and the deployment on the host.

### Inventory

| component | state it keeps | operations | what makes it correct |
|---|---|---|---|
| open-increment record (`open_increment.py`) | `state/planner/open_increment.json`: pending increment, hold, supply streak, operator flag, running registration | started, task id, finished, supply/defect/kill interruption, model call completed, resolve (keep/edit/delete), cleared on integration, operator clear | an interrupted attempt is never forgotten, confused with another or resumed with the wrong plan |
| bridge tick (`bridge.py`, `_main_impl_body`, `_run_planning_session`, `_evaluate_candidate`) | none across ticks; `pc`, request and verdict within one | the stages above | order of the durable writes, so that a kill between any two of them is recoverable; only finished, gated work reaches `main` |
| cycle git repository (`bridge.py`, `_setup_cycle_branch` ... `_restore_to_main`) | branches, checkout, `origin/main` | set up, prune, integrate, catch up, late push, restore | lease on pushes, no branch lost that something still names |
| cycle ledger (`cycle_ledger.py`) | append-only JSONL of phases and outcomes, rotated | append, outcome row, read, rotate | one terminal row per concluded attempt, rows agree with `main` |
| planner rest (`planner_rest.py`) | active rest, consecutive rests, review signal | pre-check, record rest, record anything else | a rest ends; repeated rests are raised |
| no-plan recovery (`no_plan_recovery.py`, `operator_recovery.py`) | failure counters, minimal mode, stopped | record outcome, gate, resume | the counters are the streaks; a failing planner is stopped, a supply failure never stops it |
| retry budget and failure suppression (`bridge.py:8157-8620`) | counter files, result rows, outcome rows | charge, suppress, expire | a dead work is not run for ever, and no title is dropped without cause or for good |
| candidate exploration (`bridge.py:6989-7126`) | per-candidate branches | evaluate n candidates, choose | one registration and one row for the chosen one |
| proposer, demand, gate, existence index | caches, scores, queues | build prompts, rank, deduplicate | advisory input to the session |
| knowledge, lessons, reflection | lesson stores, rotated files | append, rotate, promote | advisory |
| scorecard, health, evolution tree, tech tree | derived reports | recompute | read-only over the ledger |
| validators, enhancement gate, mutation policy | none | tree to verdict | pure |
| session/day clocks, context compaction, diary | clock files, diary blocks | open, append, compact | the plan block reaches `main` before it is executed |
| agent loop (`nanobot/agent/loop.py`, `memory.py`) | running turns, the processing and consolidation locks, the failure count of the memory | dispatch, `/stop`, `/new`, turn, consolidate, archive | no turn is lost, archived twice, or answered to nobody; a stopped turn leaves nothing but the partial context its cancellation restores |
| sessions (`session/manager.py`) | JSONL history with a consolidation offset, a cache of objects | get or create, save, clear, invalidate | what the offset hides is in the archive |
| bus and channels | two queues | publish, consume | order per session |
| subagents | running tasks, telemetry files | spawn, cancel, finish | a task's terminal telemetry is written once |
| cron (`cron/service.py`) | job store, timer task | add, remove, enable, arm, run due | a job is not lost, doubled or cancelled by itself |
| heartbeat, providers | timers; none | tick; call with retries | bounded retries |
| promotion verifier and overlay (verifier, `promotions_rotation.py`, `promoted_overlay.py`) | candidate records and their archive, the promoted tree, `manifest.json`, `verifier_state.json` | record and rotate; measure, soak, promote, watch, roll back; veto; load | only a soaked module runs; what was rejected or rolled back stays out; a module under suspicion goes out |
| release deployment (`host/eeepc/`) | releases, current link | stage, switch, verify, roll back | a failed release is rolled back |
| dashboard, scripts, aliases, docs | none of the program's own | reports | - |

How they interact: the tick calls everything else of the bridge in one process
and in program order. The ledger's `record_cycle_outcome` calls back into the
open-increment record (`record_attempt_finished`); the kill check reads the
ledger and the executor's telemetry; the pruner reads the open-increment record;
the operator changes shared files from outside the tick. The verifier reads the
bridge's candidate records and the integrity rows of its ledger from a process
of its own, and the next bridge process loads what the manifest names. In the
gateway, chats, cron jobs and background tasks share one event loop: the memory,
the message tool and the session objects are shared between them.

What is hard: every pair of consecutive durable writes with a kill in between;
a save that fails or cannot be verified; a push that lands without being
acknowledged; late pushes of one cycle while another one runs; the same cycle
id attempted several times, with plan texts in three places; holds created
and read within one tick; counters that reset one another; state read before an
`await` and written after it; two processes that load, change and save one file.

## 2. Modules

| module | models |
|---|---|
| `Increment` | abstract: the life of the increment the bridge holds, as the planner and an operator may rely on it. |
| `OpenIncrement` | the open-increment record as a value, one operator per function of `open_increment.py` that computes a next value. No variables. |
| `BridgeTick` | one bridge: the durable state, the program counter of a tick and one action per stretch of the code between two points where a kill leaves a different durable state. EXTENDS `OpenIncrement`, stores what its operators return, and instantiates `Increment`. |
| `BridgeTickProofs`, `BridgeRefinement` | theorems about `BridgeTick`; that it implements `Increment`. |
| `Trial` | abstract: from a candidate's measurement to its verdict, and what may be listed to run. |
| `PlannerGuards` | what stands between the timer and the planning session: the rest, the stop, the operator's resume. |
| `RetryBudget` | what the bridge remembers of attempts that produced nothing, and what of it suppresses the same work. |
| `Promotions` | from a candidate record to code that runs: bridge, verifier, operator and overlay loader; instantiates `Trial`. |
| `CronService` | the cron service of the chat gateway: store, file, timer task. |
| `ChatSessions` | the gateway's chats: turns, locks, sessions, consolidation, `/new`, `/stop`, the message tool, cron turns beside them. |
| `PlannerGuardsProofs`, `RetryBudgetProofs`, `PromotionsProofs`, `CronServiceProofs`, `ChatSessionsProofs` | theorems about these. |
| `ChatArchiveProofs` | what becomes of a session's turns; EXTENDS `ChatSessionsProofs` and its invariants. |
| `MCBridgeTick`, `MCCronService`, `MCPromotions` | symmetry sets and constant functions for TLC. |

`BridgeTick` chooses freely whether the planner may be asked, what it answers
and what its increment is about; `PlannerGuards` and `RetryBudget` model those
choices with their own state, which no other module reads.

### The bridge tick

| variable | in the code |
|---|---|
| `oi` | the record in `open_increment.json`: `pending` (cycle, retry key, plan text, plan version, reason), `hold`, `streak` (`consecutive_supply_interrupts`), `flagged`, `running` (cycle, plan, whether a task id is attached) |
| `tele` | the terminal status in the last spawned executor's telemetry file |
| `branches`, `work`, `merged` | cycle branches; which of them have commits `main` lacks; which `origin/main` contains |
| `used` | minted cycle ids (`uuid4`) |
| `rowed`, `pushRow`, `resolved` | the ledger: cycles with an outcome row; the latest `push_pending` row and whether its `main_sha_before` is still `origin/main`; cycles with any late-push resolution row |
| `pc`, `job`, `todo` | the running process: where it is, what it works on, what the late-push pass has still to visit. A kill resets them. |
| `open`, `accepted`, `unfinished` | auxiliary, read by no guard: attempts registered and not concluded; the plan the harness last accepted per cycle; branches whose newest commits are of a session that did not end `ok` |

```
idle -> kill check -> precheck -> late -> session -> decide -> diary
     -> dispatch -> register -> spawn -> running -> classify
     -> (interrupt | gate <-> repair -> clear) -> row -> finish -> idle
```

Early returns go to `idle`. `Crash` goes there from anywhere, which is the kill
of the process or of the machine. Each action has all the calls of its stretch:
for instance `LatePushRecorded` is the resolution row *and* the
`record_attempt_finished` inside `record_cycle_outcome`; `StaleRecorded` is the
kill check with its cause, its backoff and its early return.

A save of the record is one of three things (`SaveOutcome`): verified, landed
but not verified by its read-back, or lost. Callers of the code that ignore the
result go on either way, callers that check it go on after "verified" only.
`LostAcks` allows a push to land although git reports a failure: it may then be
retried and rejected (the lease is stale), or be reported as `push_pending`.

Plan texts, cycle ids and retry keys are model values. A hold is "active" until
its deadline passes, its input changes or it cannot be read, then "due"; the
counter of held ticks is left out because no code reads it back. The streak
saturates at `StreakCap` (it is only compared with the threshold), and an
increment is not edited past `VersionCap`. The session's answer, the executor's
ending, the gate's verdict and the result of each git command are choices.
Pruning may delete any unprotected branch, because which ones go is a matter of
commit age. Staged promotions, the catch-up of a local `main` and the diary are
pushes that move `main`.

`Increment` has six variables: what is held with its plan and version, whether
the planner is being asked, and which cycles are concluded or delivered. Under
the mapping the held increment is the pending one or, without one, the
registered attempt until it has an outcome; "deciding" is the point where the
planner's answer is acted on; an outcome row concludes and a merge delivers. It is far coarser than
`BridgeTick`: it knows no file, save, kill, push or recovery.

### The planner's guards

| variable | in the code |
|---|---|
| `recovery` | `no_plan_recovery.json`: failure counters of supply and planner, minimal mode, stopped, supply degraded |
| `rest` | `rest_state.json`: what the rest waits for with the version seen, whether its deadline has passed, rests in a row, review signal |
| `version`, `fetched` | the inputs a rest may wait for; what the checkout knows of `origin/main` |
| `pc`, `outcome` | the holder of the bridge lock: `idle -> prepare -> gate -> asked -> count -> note` |
| `history`, `restsRun`, `faults`, `resumes` | auxiliary: what really happened |

`StartTick` is the first pre-check, `Gate` the stop and the second pre-check,
`CountOutcome` and `NoteRest`/`NoteOther` the two load-change-saves after a
session, `OperatorResumes` the whole of `resume_operator`. A load-change-save
lands, starts from an empty file (the load failed) or is lost. That `origin/main`
moves is seen only after a preparation, which a held tick does not make: hence
deadlines.

### The retry budget

`counter` is `retry_<key>.json` (a count, missing, or unreadable), `rows` the
result rows younger than a day, live and archived, `recorded` the keys with an
`executor_llm_error` outcome row. A cycle is `Starts -> Ends | Dies | Pauses ->
ResultWritten -> OutcomeWritten`, or `Skips` when its title is suppressed; a kill
may fall between any two. A proposal's key is its candidate id or, without one,
its title, so one candidate may come back under another title and one title
under several keys. Titles match if they are equal: the word overlap, intents and
target paths that decide it in the code are pure functions of the text.

### Promotions

| variable | in the code |
|---|---|
| `files`, `old`, `archived` | candidate records in `promotions/`, those of an earlier day, and `promotions/archive/` |
| `events` | the number of integrity rows in the ledger; every time stamp of the model is such a number, because time stamps are only compared with rows |
| `tree`, `manifest`, `states` | the promoted files; `manifest.json`; `verifier_state.json` |
| `pc`, `todo`, `entries`, `cands`, `dirty`, `at` | one pass of the verifier and its copies of the two files |
| `sound`, `missed`, `faults` | auxiliary: clean checks a candidate has really had; candidates a soak check passed because the ledger could not be read |

A pass is `StartPass`, one step per candidate record (`LeftAlone`, `FirstLook`,
`SoakFails`, `SoakGoesOn`, `Promote`, `PromoteFails`), `StartWatch`, one step per
entry of the manifest (`Keep`, `Rollback`), `EndWatch`, `SaveManifest`,
`SaveStates`. `Promote` writes the tree at once and the other two files later;
`Killed` forgets the copies. `Record` and `Midnight` are the bridge and the
calendar, `Veto` is the operator's edit of the manifest, at any time. What a
child process measures is a choice; a candidate is recorded once. Which
candidate comes first is left open (the code sorts by file name).

`Trial` has four variables: the verdict on each candidate, when its trial began,
how many checks it has passed and which candidates are listed. Under the mapping
verdict and beginning are what `verifier_state.json` holds, the passed checks are
`sound`, and listed is what has an entry in `manifest.json`, vetoed or not. It
knows no pass, copy, kill or tree.

### The cron service

| variable | in the code |
|---|---|
| `disk`, `mem` | `jobs.json` and `_store`: per job its kind, whether it is enabled and the occasion it waits for (`next_run_at_ms`) |
| `behind` | the file's mtime differs from `_last_mtime`, so that every load reads the file |
| `up`, `tick` | `_running`; `_timer_task`, which sleeps for the occasions in `watch` or executes `job`, one of the jobs `due`, and whether these are still entries of `_store` |
| `clock` | how many occasions of each job are past |
| `added`, `gone`, `done`, `edited` | auxiliary: ids given out, jobs removed or disabled by a chat turn, occasions served, whether the second process has written the file |

The service shares an event loop with chat turns and with the jobs it runs, so an
action is what happens between two awaits: `Start`, `AddJob`, `RemoveJob`,
`EnableJob` and `Look` (everything that only loads) are whole functions, `Fire`
is `_on_timer` up to the first job's await, `JobEnds` one job's bookkeeping and
whatever follows up to the next await. Each change ends in a save and in
`_arm_timer`, which cancels the timer task wherever it is. `Down` is `stop` or a
kill: nothing is saved by either. A time stamp is replaced by the number of the
job's occasion, so "in the past" is a comparison with `clock`; the timer is
taken not to fire before the occasion it was set for.

### Chats

| variable | in the code |
|---|---|
| `disk`, `heap`, `cache` | session files; the `Session` objects made of them; `SessionManager._cache`. A background task may hold an object the cache no longer has. |
| `inbox`, `lock`, `task` | the inbound queue; who holds the processing lock and who waits for it; each turn and the task it leaves behind (consolidation, or the archiving of a `/new`) |
| `fitting`, `failures`, `archived` | consolidation locks, the failure count of the shared `MemoryStore`, `HISTORY.md` as how often it has each turn |
| `tool` | the message tool's target and whether it sent in the turn |
| `came`, `told`, `crossed`, `silent`, `kept`, `lost`, `again`, `overrun`, `disturbed`, `cancelled` | auxiliary: what was asked, answered and saved, and the accidents that excuse an exception |

An action is what happens between two awaits: `BeginTurn`, `NewSession` (all of
`/new`), `FitStarts`/`FitEnds` (a round of a consolidation before and after its
call of the model), `AgentSends`/`AgentEnds`, `Archives`. `HandleStop` cancels a
chat's turns wherever they are; for the one that holds the processing lock the
cancel handler of `_dispatch` runs (`Rescue`): it puts the turn's runtime
checkpoint, if there is one, into the session and saves it. Only the tests write
a checkpoint (`_emit_runtime_checkpoint`, `tests/test_task_cancel.py:115-142`);
the model leaves free whether a turn that talks to the model has left one.
`CronTurn` runs without the processing lock; its messages go to the chat the job
was made in (`tools/cron.py:141-142`) or to one the model does not have. A turn,
and what a checkpoint restores of it, is a number in a session's log.
Faults are kills, session files that cannot be saved, a `MEMORY.md` that cannot
be written after `HISTORY.md` was (the consolidation counts as failed, its turns
are archived again) and a raw dump that fails (its exception ends the task).

## 3. Runs

| run | instance | properties |
|---|---|---|
| `faults` | `BridgeTick`: 2 cycles, 1 plan, save faults, lost acks, no repairs | `TypeOK`, `NoAttemptLost`, `SingleLineage`, `RegisteredWhileRunning`, `PendingBranchNotDeleted`, `ImplementsIncrement` |
| `edits` | `BridgeTick`: 1 cycle, 2 plans, save faults, lost acks, 1 repair, fairness | `PlanMatchesAccepted`, `HoldRespected`, `VersionMonotone`, `UnfinishedNeverIntegrates`, `AttemptReachesPlanner` |
| `planner` | `PlannerGuards`: rests on `main` and on a file, thresholds 1 and 2, 4 counted sessions, 1 fault, 1 resume, 1 change of each input, fairness | `TypeOK`, `CountersMatchSessions`, `StoppedInTime`, `AskedAgain` |
| `retries` | `RetryBudget`: 1 candidate, 2 titles, budget 2, scan of 3, 3 rows, 3 deaths, 1 fault, fairness | `TypeOK`, `DeathsAreCounted`, `SuppressedForCause`, `BudgetHolds`, `OfferedAgain` |
| `promotions` | `Promotions`: 2 candidates for 1 module, soak of 2, 1 integrity row, 2 faults, fairness | `TypeOK`, `OnlySoakedRuns`, `NoEventUnderSoak`, `DecidedStaysOut`, `ImplementsTrial`, `FlaggedGoesOut`, `SoakEndsIfKept` |
| `cron_jobs` | `CronService`: 2 jobs, 2 occasions each, a second process, fairness | `TypeOK`, `Watched`, `ServedOnce`, `RemovedNeverStarts`, `DueIsRun` |
| `chats` | `ChatSessions`: 1 chat with 2 new turns, 1 cron session with 1 new turn, 1 turn each from before, 2 faults, 1 `/stop`, 2 rounds, dump after 2 failures, fairness | `TypeOK`, `HiddenIsArchived`, `NothingLost`, `ArchivedOnce`, `StoppedIsSettled`, `ChatIsTold`, `TurnsEnd` |
| `reconcile`, `cron_onetime`, `chats_offset`, `chats_archive`, `promotions_rotated` | no faults | one disagreement with the documentation each, see section 5 |

The runs of `BridgeTick`, `CronService` and `PlannerGuards` check deadlock. The
others stop where a bound is used up (no more messages, rows, deaths or
candidates), which is not a deadlock of the program, and do not.

Why these bounds are enough. Two cycles are the least with which one increment
can get in another's way (an unrelated pending increment, a late push of the
first during the second, a delete with a successor); the code never compares
three ids. Cycle ids are never reused, so `Cycle` bounds the number of
increments; an increment itself may be interrupted, kept, resumed and killed
without bound. Two plan texts are the least with which an edit can be lost. The
repair loop repeats one body, so one turn has all its states (`MaxRepairs` is 3
in the code). Thresholds of 2 are the least that differ from "at once", and
where two thresholds are ordered (minimal mode before the stop) they are 1 and
2. Four sessions reach the stop, a resume and a stop again; three deaths are one
more than the budget. A soak of 2 has a pass that is not the last one; two
candidates for one module replace each other; one integrity row can fall into
any pass and after any stamp; two faults are a kill and another failure, or two
kills between the saves of two passes. Two jobs are the least with which one is
cancelled, reloaded or overwritten while the other runs, a second occasion the
least that tells "again" from "next". Two turns are the least of which one can be
consolidated while the other stays; a second session is what shares the
memory and the message tool. The proofs cover all sizes.

Bridge:

* `NoAttemptLost`: an attempt that was registered, and neither concluded by an
  outcome of its own nor edited or deleted away, is the running registration or
  the pending increment on disk.
* `SingleLineage`: while an attempt runs no *other* increment is pending. The
  kill check leaves a registration alone in that case, and the next one would
  overwrite it.
* `RegisteredWhileRunning`: from the spawn to the end of an attempt its
  registration is on disk with the plan being executed.
* `ImplementsIncrement`: through all of this an increment is let go of only by
  the planner's decision, by its delivery or together with its outcome, nothing
  takes its place meanwhile, and its plan changes by an edit only.
* `PlanMatchesAccepted`, `VersionMonotone`: the plan text is kept in the pending
  record, in the registration and in the tick's memory, and an interruption
  writes one copy over another. It never brings back a text the planner has
  edited, nor an older version number.
* `HoldRespected`: no session in a tick with an active hold, also when this
  tick's own recovery created it.
* `PendingBranchNotDeleted`: no step deletes the branch of a cycle that is
  pending after it.
* `UnfinishedNeverIntegrates`: commits of a session that did not finish do not
  reach `main`, neither by the gate nor by a late push of an older attempt on
  the same branch.
* `AttemptReachesPlanner`: a registered attempt is concluded, or comes before
  the planner as the pending increment.

Before and after the session:

* `CountersMatchSessions`: without faults, counters, minimal mode, degraded
  supply, stop and review signal are exactly what the sessions since the last
  plan were, whatever rests, held ticks and kills came in between.
* `StoppedInTime`: a planner that keeps failing is stopped; a fault may cost
  that at most one threshold of sessions, an operator's resume a single one.
* `AskedAgain`: a planner that rests is asked again, or the bridge is stopped.
* `DeathsAreCounted`: the counter is the number of attempts that died of our
  own defect, not of outages, unless it was itself lost.
* `SuppressedForCause`: a title is kept from running by a verdict, a spent
  budget or a lost counter, and never by the rows its own suppression leaves.
* `BudgetHolds`: a work that runs had fewer than `Max` dead attempts under its
  key and title among the rows the scan looks at, even if its counter is lost.
  Two accidents excuse a key (`behind`): the write of its counter failed, or the
  counter was lost after a kill between the result row and the outcome row of
  its only death, so that nothing witnesses that one and the count starts anew.
* `OfferedAgain`: a suppressed title may be run again some day.

Promotions:

* `OnlySoakedRuns`: what the overlay loads had `Soak` really clean checks.
* `NoEventUnderSoak`: an entry is watched from the moment its candidate's soak
  began, so no integrity row falls between the two, unless a soak check could
  not read the ledger.
* `DecidedStaysOut`: a verdict on file is final, and a decided candidate without
  an entry never gets one.
* `ImplementsTrial`: through kills between the two saves, vetoes and failing
  writes the files only move as `Trial` allows: a trial is never begun anew, a
  candidate gets an entry only while it is on trial on file and after all its
  checks, nothing unmeasured is promoted, and a module has one entry.
* `FlaggedGoesOut`: an entry that has seen an integrity row, or was vetoed
  between two passes, leaves the manifest.
* `SoakEndsIfKept`: a soak ends, if the record of its candidate is kept.

Gateway:

* `Watched`: until the second process writes the file, and unless the timer task
  is executing jobs, it sleeps for exactly the runnable jobs of the store, so no
  cancellation leaves the service deaf.
* `ServedOnce`: likewise, no occasion is served again after its job ran to its
  end, though a later job of the same list is cancelled or the process is killed
  before the save.
* `RemovedNeverStarts`: a job a chat turn removed or disabled is not started,
  though the timer task had it on its list and other processes write the file.
* `DueIsRun`: a due job runs to its end, is removed, disabled or rescheduled,
  unless the service stops or the second process writes the file.
* `HiddenIsArchived`: the turns a session's offset hides from the model are in
  `HISTORY.md`, unless a `/new` has cleared the session under a consolidation.
* `NothingLost`: a saved turn is in its file, in `HISTORY.md` or with a running
  archive task, but for the accidents that `lost` names (a kill or a failed dump
  of an archive task, a `/new` that cannot be saved, an archive task whose count
  of failures another session reset) and but for the sessions in `overrun`: there
  a consolidation went on over a `/new`, so that a turn in progress and the
  consolidation hold two `Session` objects, each of which saves itself over the
  other's file.
* `ArchivedOnce`: no turn is archived twice, but for a kill, a failed write or a
  `/new` in the middle of a consolidation.
* `StoppedIsSettled`: what a `/stop` found running or waiting gets into the session
  in no later step, and in the step of the `/stop` only the turn that held the
  processing lock does, as the partial context its cancellation restores.
* `ChatIsTold`: a chat that counts as answered got a message of that turn, unless
  another turn's message, or one of its own to another chat, was sent while it
  was with the model. That a cron job's turn overlaps it excuses nothing.
* `TurnsEnd`: every message taken from the bus is answered, fails or is stopped.

### Fairness

* `BridgeTick`: `WF(Tick)`: the timer fires again and again and a process that is
  not killed takes its next step. `WF(HoldPasses)`: deadlines are wall-clock
  times. `SF(StaleRecorded)`: the disk does not fail a recovery every time.
  `SF(PrepareRepository)`, `SF(LatePush)`, `SF(Prepared)`: a preparation
  of the repository that is tried in tick after tick is not killed at the same
  point every time, and `main` can be restored in one of them; without that every
  tick may end at `NotRestored` (`bridge.py:4191-4202`) or in a kill, and nothing
  is owed. Kills may go on for ever otherwise. Nothing is assumed of what the
  planner answers or how an executor ends, so the property is over when the
  increment is put before the planner.
* `PlannerGuards`: the same timer and deadlines, strong fairness of a preparation
  and of the gate after it, a session that answers.
* `RetryBudget`: only that days pass and rows expire. No cycle has to happen.
* `Promotions`: `WF(Verifier)`: a timer starts a pass every 15 minutes and a pass
  goes on. Faults are finite by their bound.
* `CronService`: the event loop wakes a task whose sleep is over (`WF(Fire)`), and
  a job that is started again and again is not cancelled every time
  (`SF(JobEnds)` per job); how long a job takes is up to it.
* `ChatSessions`: `WF(Loop)`: the event loop runs something that is ready, and
  calls of the model return, if only with an error (they have timeouts). Not that
  a message comes or that the message tool is used.

Every property has a mutant in `PROJECT.json`: a definition replaced by one with
a plausible bug (the record written after the pre-check, the read-back not
looked at, the text of an edit forgotten, the late push without its base check,
the lock kept by a failed consolidation and so on) that makes the property fail.

## 4. Proofs

Each theorem is about the specification without fairness, for any sets of
model values and any bounds that satisfy the module's assumption ("no cycle" is
not a cycle, thresholds are positive, and so on), and for any number of faults,
kills and restarts. Each takes the form `Init => IInv`,
`IInv /\ [Next]_vars => IInv'`, `IInv => property`, one lemma or step per action.

| module | theorem | property |
|---|---|---|
| `BridgeTickProofs` | `TypeCorrect` | `TypeOK` |
| | `AttemptsSurvive` | `NoAttemptLost` |
| | `OneLineage` | `SingleLineage` |
| | `NothingRunsUnregistered` | `RegisteredWhileRunning` |
| | `PendingPlanIsAccepted` | `PlanMatchesAccepted` |
| | `VersionsNeverGoBack` | `VersionMonotone` |
| | `BackoffIsRespected` | `HoldRespected` |
| | `PendingKeepsItsBranch` | `PendingBranchNotDeleted` |
| | `UnfinishedStaysOut` | `UnfinishedNeverIntegrates` |
| `BridgeRefinement` | `BridgeImplementsIncrement` | `ImplementsIncrement` |
| `PlannerGuardsProofs` | `TypeCorrect` | `TypeOK` |
| | `CountersAreRight` | `CountersMatchSessions` |
| | `StopsInTime` | `StoppedInTime` |
| `RetryBudgetProofs` | `TypeCorrect` | `TypeOK` |
| | `CountersAreRight` | `DeathsAreCounted` |
| | `SuppressionHasCause` | `SuppressedForCause` |
| | `BudgetIsKept` | `BudgetHolds` |
| `PromotionsProofs` | `Typing` | `TypeOK` |
| | `SoakedFirst` | `OnlySoakedRuns` |
| | `NoGap` | `NoEventUnderSoak` |
| | `VerdictsStand` | `DecidedStaysOut` |
| | `VerifierImplementsTrial` | `ImplementsTrial` |
| `CronServiceProofs` | `TypeCorrect` | `TypeOK` |
| | `TimerIsArmed` | `Watched` |
| | `RemovedIsFinal` | `RemovedNeverStarts` |
| | `OccasionsServedOnce` | `ServedOnce` |
| `ChatSessionsProofs` | `TypeCorrect` | `TypeOK` |
| | `StoppedCorrect` | `StoppedIsSettled` |
| | `ToldCorrect` | `ChatIsTold` |
| | `HiddenCorrect` | `HiddenIsArchived` |
| `ChatArchiveProofs` | `ArchivedOnceCorrect` | `ArchivedOnce` |
| | `NothingLostCorrect` | `NothingLost` |

The arguments.

*Lineage* (`LineageInv`). The first three invariants of the bridge are not
inductive: a finished attempt leaves its registration on disk when a save is
lost, and then "an open attempt is on disk" says nothing about what the next
registration may overwrite. The strengthening says where an open attempt is when
it does *not* run (`Whereabouts`): before a registration it can only be the
pending increment; an open cycle that has an outcome row is the pending
increment; between the decision and the registration whatever is pending is the
job's own. With `Minted` (everything the state names was minted, so a fresh id
meets nothing) and `Rows` (a row comes before its registration is dropped, so a
left-over registration is one the kill check drops), each action preserves it.

*Plans* (`PlanInv`): a left-over registration may carry a text that has been
edited since; it is harmless since its cycle has a row, and only registrations
without one are recovered. The others carry the accepted text.

*Unfinished work* (`CleanInv`): a `push_pending` row can be acted on only while
its base is `origin/main`. Every attempt is preceded by a diary push, which
moves `main`, so no row is fresh while a session adds commits. This is why the
late-push pass may trust a branch it did not see built.

*Steps*: `VersionsNeverGoBack`, `PendingKeepsItsBranch` and `UnfinishedStaysOut`
follow from a lemma each that lists the steps that change the pending record,
delete a branch, or put commits on `main`.

*Refinement*: an action either leaves what is held alone, or is mapped to the
one step of `Increment` it carries out. It rests on the lineage and on
`DeliveryInv`: what an integration or a late push is about to clear is on `main`
already, so letting go of it is allowed.

*The planner's stop* (`StopInv`): how many planner failures in a row a bridge can
still have seen is bounded by what its counter, its faults and its resumes are
worth (`Worth`); a stopped bridge is worth one session more only by a resume.
*The counters* (`MatchInv`): while no fault has happened the file is the function
`Match` of the history; between a session and its record it is that after
`Counted`. Lemmas say how a streak grows and breaks with one more outcome.

*The budget*: a row that tells of a death has one (`Witnessed`), so a spent
counter means as many deaths, and a row without a counter means a lost one. The
other way round, a counter covers the rows of its key's deaths and the one about
to be written (`CounterKnows`, for keys that are not `behind`). When an attempt
starts, the scan has found no row that counts against its title: if its key's
counter were spent, the rows of its deaths would count, so a counter that is
there is below the budget and covers them, and one that is not there makes every
row count. While it runs, rows only expire and counters are only lost; `Scanned`
may then select other rows, but never more of one key (`ExpireHolds`,
`LostHolds`).

*Promotions*: four copies of the same facts (manifest and states, on disk and in
memory) change one after the other. A candidate is looked at once in a pass, so
until then the copies of its state agree (`Carried`); after that the memory
follows the disk (`Follows`). An entry's candidate is at least soaking on disk
(`Stamped`), which is why the manifest may be saved before the states. `Counted`
ties the passes of a state to the clean checks, `Times` keeps stamps in order.
For the refinement, `Earned` adds that a promotion has counted all its passes and
is of a candidate the file knew. Then only three kinds of step are visible to
`Trial`: a clean check, the save of the manifest, whose new entries are on trial
because decided candidates have none that is new (`Follows`), and the save of the
states, in which each candidate moves on by one verdict at most.

*Cron*: without a second process the service never reloads while it is up
(`InStep`), which `Watched` needs. `GoneIsOut` says where a removed job is not:
in neither copy of the store and not on the list of the running timer task, since
removing it cancels that task. `Served` adds that served occasions are past, so a
schedule computed afterwards never names one; it does not speak of the file,
which may be behind, because `start` recomputes every schedule. `Watched` and
`ServedOnce` end with the first write of the second process (`edited`), and are
false after it: a reload arms no timer, and section 5, 2 shows an occasion served
twice.

*Chats*: a turn begins once, since a message waits for a turn that has not begun
(`Asked`, `Waiting`), and what a log holds is from before the start or over
(`Logged`); only a turn at the model gets into a log, by a step that ends it
(`Enters`, `HeldStep`), and a `/stop` ends all it finds (`CancelledInv`). If the
message tool has sent, every turn with the model has told its chat or was crossed
by that message (`ToolInv`): a turn that joins later clears the flag. For the offsets: whoever consolidates holds the session's lock
(`LockInv`), so between the choice of a chunk and the move of the offset the
chunk is exactly what the new offset will hide, or, after a `/new`, nothing of it
is in the log any more (`ChunkInv`); moving the offset then hides archived turns
only (`StoredGood`).

*Archived once* (`OnceInv`). Every step changes a session in one of six ways
(`KeyStep`), which the lemmas below it are split by. A turn may still be archived
(`Pending`) while a log has it behind its offset or a consolidation or an archive
task has it in its chunk, and what is pending has no entry yet (`FreshInv`). That
survives an entry because nobody else has the turn: a log has it once and two
objects of a session share none (`LogsInv`), the turns of an archive task are in
no log and in no other such task (`ArchiveInv`), and those of a consolidation are
in its own object only and in an archive task only if a `/new` came in between,
which `again` names (`ApartInv`). What has an entry is over (`HistoryInv`), so a
turn that is recorded has none.

*Nothing lost* (`LostInv`). A saved turn is in the file *and* in the cached
object, or has left both for an archive task or for `HISTORY.md` (`KeptInv`). The
file is overwritten by whoever saves, so the object that is saved has to be the
cached one. A turn at work has it (`HasCached`): a chat's turn holds the
processing lock (`LockHeld`), without which no `/new` can replace the object. A
background task may have an older one; that is empty (`RestIsEmpty`), so a
consolidation that was under way on it is stale, and the session is `overrun` as
soon as it saves. An archive task whose count no other session has touched has
the failures it needs to reach the raw dump before it gives up (`CountInv`).

Only model-checked: the liveness properties (`AttemptReachesPlanner`,
`AskedAgain`, `OfferedAgain`, `FlaggedGoesOut`, `SoakEndsIfKept`, `DueIsRun`,
`TurnsEnd`: temporal formulas under fairness, which are out of this prover's
reach), and the violations of section 5. Every safety property of the runs that
pass is a theorem. The exceptions that
`BudgetHolds` and `NothingLost` name are needed at bounds larger than those of
`retries` and `chats`; the proofs, which hold for every bound, are what showed it.

## 5. Where code and documentation disagree

Each with a run that shows it; `PROJECT.json` quotes the lines.

1. **Reconciled too early** (`reconcile`). The kill check takes any outcome row
   of the registered cycle id for the end of the attempt
   (`open_increment.py:928-936`). A resumed attempt has one from its first
   interruption, so a kill of it is dropped silently; the docstring wants it
   "classified exactly like any other stale attempt". The increment is still
   pending, so nothing is lost but the cause and the backoff.
2. **A one-time job runs twice** (`cron_onetime`). A load does not remember the
   mtime of what it read, so after an edit by another process every load reads
   the file again until the next save. A `list` while a tick runs its second job
   brings back the one-time job that was the first, and it is executed again.
3. **An offset beyond the archive** (`chats_offset`). A consolidation sets the
   offset it computed before it waited for the model, also on a session that a
   `/new` has cleared meanwhile: the next turns of the chat are hidden from the
   model without being archived by anyone, and the next `/new` drops them for
   good. Its save also makes its old `Session` object the cached one again, while
   a turn that began after the `/new` works on a new object: the two save
   themselves over each other's file.
4. **An archive that gives up** (`chats_archive`). The archive task of a `/new`
   tries as often as it takes *one* task to reach the raw dump, but other
   sessions reset the shared count of failures: the conversation may be in no
   file at all, although its docstring guarantees persistence.
5. **A soak that never ends** (`promotions_rotated`). The rotation of candidate
   records takes those of earlier days away although they are soaking, and the
   verifier finds candidates by these records only.

Seen while modelling, without a run: a `push_pending` row *after* a resolution of
the same cycle id is never visited, because resolutions are matched without
regard to order (`bridge.py:1430`); the supply streak is reset on the way to
every resumption (`keep`, an answered session), so the documented flag after
three supply interruptions of one increment is hard to reach; a terminal outcome
of a resumed attempt does not remove its increment, only an integration does; a
kill between merge and outcome row leaves a cycle on `main` that the next kill
check records as interrupted; a candidate whose budget is spent may be tried
again under another title, because only titles are compared before a spawn; a
failed write of the retry counter, or one that is lost before the ledger has a
row of its only death, gives a work more attempts than its budget
(`bridge.py:8210-8238`); a veto written while a pass runs is overwritten by the pass's manifest
(verifier:1283), and a veto of an entry whose candidate a kill left soaking is
promoted over; a ledger that cannot be read counts as "no integrity rows"
(verifier:468-478); the checkpoint that the cancel handler of `_dispatch` restores
(`loop.py:396-407`, asserted by `tests/test_task_cancel.py:115-142`) is written by
no code, so today a `/stop` restores nothing; were one written, no normal end of a
turn would clear it, and a later `/stop` of the session would restore it stale.

## 6. Not modelled, and the plan

The maps cover the control core: a few thousand of some 94,000 lines of Python.
Most of the rest computes text or numbers and decides nothing by itself: prompt
assembly, ranking and scoring (`llm_proposer.py`, `demand.py`, `scorecard.py`,
`knowledge_curator.py`), reports (`eeebot_dashboard.py`), tools and
providers. Their only effect on control is a choice, and the models make that
choice freely. What LLM sessions answer is never modelled.

Left out inside modelled components:

* `BridgeTick`: the base of a `push_pending` row is taken as recorded, while
  `bridge.py:1505` skips the comparison for an empty one (a `rev-parse` that fails
  right after a fetch that did not); the append of an outcome row always succeeds,
  while the code's is best-effort; explore mode; single git commands; the rotation of the ledger;
  an unreadable record (a permissive load followed by a save); the two steps of
  the operator's flag clearing, which takes no lock; an exception inside the kill
  check.
* `PlannerGuards`: the held-tick counter (read by nobody), deferred verdicts (no
  caller).
* `RetryBudget`: the `handled_` markers (read by nobody for these keys) and the
  text comparison of titles.
* `Promotions`: the scan for integrity rows reads all rows, while the code reads the
  active ledger and its three newest archives (`Quiet`, verifier:468-518); what a
  child measures; an unreadable manifest or state file,
  which counts as empty; the trust ladder, which widens the set of eligible
  modules; ownership repair; the verifier's own ledger; a promotion that fails
  in the very check whose ledger cannot be read. A status "rolled back" is
  documented and never written, so the model has none.
* `CronService`: saves that fail, a file read while it is written, `run_job` (no
  caller).
* `ChatSessions`: a runtime checkpoint left behind by an earlier turn (see the end
  of section 5); subagents, tools but `message`, the outbound side, repair and
  migration of session files.

Planned, in this order:

1. `CronService`: saves that fail, with the effect of the exception on each
   caller, and writes of the second process in two steps.
2. `Ledger`: append, torn line, rotation, readers of the active file; then
   `BridgeTick`'s late pushes over a rotated ledger.
3. `CycleRepo`: the git commands of set-up, integration, late push and restore,
   one action per command, implementing the one-step pushes of `BridgeTick`.
4. `ExploreTick`: best-of-n candidates over one registration.
5. In `BridgeTick`: an unreadable record, the operator as a second process, an
   exception inside the kill check.
6. Subagents with their telemetry and the bus's outbound side, composed with
   `ChatSessions`; the release deployment of the host.
