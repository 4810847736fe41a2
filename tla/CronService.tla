---------------------------- MODULE CronService ----------------------------
(***************************************************************************)
(* The cron service of the gateway (nanobot/cron/service.py): a job store  *)
(* in memory and in jobs.json, and one timer task of the event loop that   *)
(* sleeps until the next job is due and then runs the due jobs one after   *)
(* another.  Chat turns add, remove, enable and disable jobs whenever the  *)
(* loop is free, that is while the timer sleeps or a job awaits; each of   *)
(* them cancels the timer task, a running job included, and makes a new    *)
(* one (a job awaits after every call it makes, so it does not outlive its *)
(* own cancellation).  Due jobs run in the order of the store, which is    *)
(* left open here.  A second process, the command line agent, may edit     *)
(* jobs.json; each of its edits is one load, change and save.              *)
(*                                                                         *)
(* Time is a counter per job: its n-th occasion is past when clock[j] >= n,*)
(* and next = n is the occasion its job waits for, 0 standing for None.    *)
(* "every" also stands for cron expressions.  Run histories, payloads and  *)
(* the status of a run are left out; so is run_job, which nothing calls.   *)
(***************************************************************************)
EXTENDS Naturals, Functions

CONSTANTS
    Job,        \* job ids
    NoJob,      \* "no job is being executed"
    MaxClock    \* bound: occasions per job

ASSUME CronServiceAssumption ==
    /\ NoJob \notin Job
    /\ MaxClock \in Nat \ {0}

VARIABLES
    disk,       \* jobs.json
    mem,        \* _store
    behind,     \* the file's mtime is not _last_mtime
    up,         \* the service runs
    tick,       \* _timer_task
    clock,      \* occasions that are past
    \* auxiliary: no guard of the code reads them
    added,      \* ids given out (uuid4 in the code)
    gone,       \* ids of jobs removed or disabled in this process
    done,       \* occasions on which a job ran to its end
    edited      \* the second process has written jobs.json

vars == <<disk, mem, behind, up, tick, clock, added, gone, done, edited>>

\* "once" is "at" with delete_after_run, which is what the cron tool makes.
Kind == {"every", "at", "once"}

Entry == [kind : Kind, enabled : BOOLEAN, next : 0 .. MaxClock + 1]

Stores == UNION {[D -> Entry] : D \in SUBSET Job}

Empty == [j \in {} |-> 0]

Without(s, j) == Restrict(s, DOMAIN s \ {j})

With(s, j, e) == [i \in DOMAIN s \cup {j} |-> IF i = j THEN e ELSE s[i]]

-----------------------------------------------------------------------------
(* Schedules                                                               *)

\* Mutant of NextRun: an occasion is skipped.
LaterRun(kind, j) == IF kind = "every" THEN clock[j] + 2
                     ELSE IF clock[j] = 0 THEN 1 ELSE 0

\* _compute_next_run: the next occasion of a repeated job from now on; the
\* only one of an "at" job, unless it is past.
NextRun(kind, j) == IF kind = "every" THEN clock[j] + 1
                    ELSE IF clock[j] = 0 THEN 1 ELSE 0

\* A job's entry when it is disabled or over.
Off(e) == [e EXCEPT !.enabled = FALSE, !.next = 0]

\* A job's entry with its next occasion.
Moved(e, j) == [e EXCEPT !.next = NextRun(e.kind, j)]

\* Mutant of Recomputed: the stored occasions are used as they are.
AsStored(s) == s

\* _recompute_next_runs
Recomputed(s) ==
    [j \in DOMAIN s |-> IF s[j].enabled THEN Moved(s[j], j) ELSE s[j]]

Runnable(e) == e.enabled /\ e.next # 0

\* The entries of s that _on_timer runs.
DueIn(s) ==
    Restrict(s, {j \in DOMAIN s : Runnable(s[j]) /\ s[j].next <= clock[j]})

Watch(s) == {<<j, s[j].next>> : j \in {i \in DOMAIN s : Runnable(s[i])}}

-----------------------------------------------------------------------------
(* The timer task: "sleeping" until the first occasion of watch is past, or*)
(* "running" one job of due.  fresh: the entries of due are still those of *)
(* mem, not of a store that a reload has replaced.                         *)

NoTick == [at |-> "none", watch |-> {}, due |-> Empty, job |-> NoJob,
           fresh |-> TRUE]

\* Mutant of Armed: a running timer task is cancelled and not replaced.
ArmedIfIdle(s) ==
    IF Watch(s) = {} \/ tick.at = "running" THEN NoTick
    ELSE [NoTick EXCEPT !.at = "sleeping", !.watch = Watch(s)]

\* _arm_timer: whatever the old task was doing is cancelled.
Armed(s) ==
    IF Watch(s) = {} THEN NoTick
    ELSE [NoTick EXCEPT !.at = "sleeping", !.watch = Watch(s)]

-----------------------------------------------------------------------------
(* Load and save                                                           *)

\* _load_store does not remember the mtime of what it read: once the file
\* has been changed by others, every load reads it again until the next save.
Loaded == IF behind THEN disk ELSE mem

Reload ==
    /\ mem' = Loaded
    /\ tick' = [tick EXCEPT !.fresh = @ /\ ~behind]

Save(s) == disk' = s /\ mem' = s /\ behind' = FALSE

\* _save_store and _arm_timer, with which every change ends.
SaveAndArm(s) == Save(s) /\ tick' = Armed(s)

-----------------------------------------------------------------------------
Init ==
    /\ disk = Empty /\ mem = Empty /\ behind = TRUE /\ up = FALSE
    /\ tick = NoTick /\ clock = [j \in Job |-> 0]
    /\ added = {} /\ gone = {} /\ done = {} /\ edited = FALSE

\* start
Start ==
    /\ ~up /\ up' = TRUE
    /\ SaveAndArm(Recomputed(disk))
    /\ UNCHANGED <<clock, added, gone, done, edited>>

\* stop, or the end of the process: nothing is saved.
Down ==
    /\ up /\ up' = FALSE
    /\ mem' = Empty /\ behind' = TRUE /\ tick' = NoTick
    /\ UNCHANGED <<disk, clock, added, gone, done, edited>>

AddJob(j, kind) ==
    /\ up /\ j \notin added
    /\ added' = added \cup {j}
    /\ SaveAndArm(With(Loaded, j, [kind |-> kind, enabled |-> TRUE,
                                   next |-> NextRun(kind, j)]))
    /\ UNCHANGED <<up, clock, gone, done, edited>>

\* Mutant of RemoveJob: the timer is left as it is.
RemovedQuietly(j) ==
    /\ up /\ j \in DOMAIN Loaded
    /\ Save(Without(Loaded, j))
    /\ gone' = gone \cup {j}
    /\ UNCHANGED <<up, tick, clock, added, done, edited>>

\* By a chat turn or by the running job itself.
RemoveJob(j) ==
    /\ up /\ j \in DOMAIN Loaded
    /\ SaveAndArm(Without(Loaded, j))
    /\ gone' = gone \cup {j}
    /\ UNCHANGED <<up, clock, added, done, edited>>

EnableJob(j, enabled) ==
    /\ up /\ j \in DOMAIN Loaded
    /\ SaveAndArm([Loaded EXCEPT
           ![j] = IF enabled THEN Moved([@ EXCEPT !.enabled = TRUE], j)
                  ELSE Off(@)])
    /\ gone' = IF enabled THEN gone \ {j} ELSE gone \cup {j}
    /\ UNCHANGED <<up, clock, added, done, edited>>

\* list_jobs, status, get_job, and the other operations on an unknown id.
Look ==
    /\ up /\ Reload
    /\ UNCHANGED <<disk, behind, up, clock, added, gone, done, edited>>

-----------------------------------------------------------------------------
(* _on_timer and _execute_job, between two awaits                          *)

\* The next job of due starts, or all have run: save and arm again.
RunNext(s, due, fresh) ==
    IF due = Empty THEN SaveAndArm(s)
    ELSE /\ \E j \in DOMAIN due :
                tick' = [at |-> "running", watch |-> {}, due |-> due,
                         job |-> j, fresh |-> fresh]
         /\ mem' = s
         /\ UNCHANGED <<disk, behind>>

Fire ==
    /\ up /\ tick.at = "sleeping"
    /\ \E w \in tick.watch : w[2] <= clock[w[1]]
    /\ RunNext(Loaded, DueIn(Loaded), TRUE)
    /\ UNCHANGED <<up, clock, added, gone, done, edited>>

\* A one-shot job is deleted by its id; any other change goes to the entry
\* the task holds, which is the store's unless a reload has replaced it.
Executed(s, j, e) ==
    IF e.kind = "once" THEN Without(s, j)
    ELSE IF ~tick.fresh THEN s
    ELSE [s EXCEPT ![j] = IF e.kind = "at" THEN Off(@) ELSE Moved(@, j)]

\* The job returns or raises.
JobEnds ==
    /\ up /\ tick.at = "running"
    /\ LET j == tick.job
       IN  /\ done' = done \cup {<<j, tick.due[j].next>>}
           /\ RunNext(Executed(mem, j, tick.due[j]), Without(tick.due, j),
                      tick.fresh)
    /\ UNCHANGED <<up, clock, added, gone, edited>>

-----------------------------------------------------------------------------
(* Surroundings                                                            *)

TimePasses(j) ==
    /\ clock[j] < MaxClock
    /\ clock' = [clock EXCEPT ![j] = @ + 1]
    /\ UNCHANGED <<disk, mem, behind, up, tick, added, gone, done, edited>>

\* Another process loads, changes and saves jobs.json.
OthersWrite(s) ==
    /\ disk' = s /\ behind' = TRUE /\ edited' = TRUE
    /\ UNCHANGED <<mem, up, tick, clock, gone, done>>

OthersAdd(j, kind) ==
    /\ j \notin added
    /\ added' = added \cup {j}
    /\ OthersWrite(With(disk, j, [kind |-> kind, enabled |-> TRUE,
                                  next |-> NextRun(kind, j)]))

OthersDisable(j) ==
    /\ j \in DOMAIN disk /\ disk[j].enabled
    /\ OthersWrite([disk EXCEPT ![j] = Off(@)])
    /\ UNCHANGED added

OthersRemove(j) ==
    /\ j \in DOMAIN disk
    /\ OthersWrite(Without(disk, j))
    /\ UNCHANGED added

Next ==
    \/ Start \/ Down \/ Look \/ Fire \/ JobEnds
    \/ \E j \in Job, kind \in Kind : AddJob(j, kind) \/ OthersAdd(j, kind)
    \/ \E j \in Job, enabled \in BOOLEAN : EnableJob(j, enabled)
    \/ \E j \in Job : \/ RemoveJob(j) \/ TimePasses(j)
                      \/ OthersDisable(j) \/ OthersRemove(j)

Spec == Init /\ [][Next]_vars

\* The event loop wakes a task whose time has come, and a job that is started
\* again and again is not cancelled every time.
FairSpec == Spec /\ WF_vars(Fire)
                 /\ \A j \in Job : SF_vars(JobEnds /\ tick.job = j)

-----------------------------------------------------------------------------
(* Properties                                                              *)

\* The variables stay in their types.
TypeOK ==
    /\ disk \in Stores /\ mem \in Stores
    /\ behind \in BOOLEAN /\ up \in BOOLEAN
    /\ tick \in [at : {"none", "sleeping", "running"},
                 watch : SUBSET (Job \X (1 .. MaxClock + 1)), due : Stores,
                 job : Job \cup {NoJob}, fresh : BOOLEAN]
    /\ clock \in [Job -> 0 .. MaxClock]
    /\ added \subseteq Job /\ gone \subseteq Job
    /\ done \subseteq Job \X (0 .. MaxClock + 1)
    /\ edited \in BOOLEAN

\* The service never goes deaf and never oversleeps: unless the timer task is
\* running jobs, and will arm the timer afterwards, it sleeps for an occasion
\* not later than that of any runnable job, whoever cancelled whom before (and
\* as long as no other process has written the file).
Watched ==
    up /\ tick.at # "running" /\ ~edited => Watch(mem) = tick.watch

Starts(j) ==
    /\ tick'.at = "running" /\ tick'.job = j
    /\ tick.at = "running" => tick.due # tick'.due

\* A job that a chat turn removed or disabled is not started any more, although
\* the timer task took its list of due jobs before and is in the middle of it,
\* and although every load may bring back what another process wrote.
RemovedNeverStarts == [][\A j \in gone : ~Starts(j)]_vars

\* No occasion of a job is served again after the job ran to its end on it:
\* not after a cancellation in a later job of the same list, and not after a
\* crash before the store was saved (as long as no other process has written
\* the file; with its edits see OneTime).
ServedOnce ==
    [][\A j \in Job : Starts(j) /\ ~edited
           => <<j, tick'.due[j].next>> \notin done]_vars

\* A due job is run to its end, removed or disabled, however often the timer
\* task is cancelled on the way, unless the service goes down or another
\* process writes the file.
DueIsRun ==
    \A j \in Job, n \in 1 .. MaxClock :
        up /\ j \in DOMAIN mem /\ mem[j].enabled /\ mem[j].next = n
           /\ n <= clock[j]
        ~> \/ ~up \/ edited \/ <<j, n>> \in done \/ j \notin DOMAIN mem
           \/ mem[j].next # n

-----------------------------------------------------------------------------
(* What the documentation says, and the code does not do                   *)

\* The cron tool's "at" is "for one-time execution": such a job is not started
\* again after it ran to its end.
OneTime ==
    [][\A j \in Job : Starts(j) /\ tick'.due[j].kind = "once"
           => <<j, tick'.due[j].next>> \notin done]_vars
=============================================================================
