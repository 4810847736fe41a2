---------------------------- MODULE ChatSessions ----------------------------
(***************************************************************************)
(* The gateway's chats: messages from the bus become turns under the       *)
(* processing lock (agent/loop.py), a turn reads and extends its session   *)
(* (session/manager.py), and old turns of a session move to HISTORY.md     *)
(* (agent/memory.py) before a turn, in a task after it, and after /new.    *)
(* A cron job's turn runs beside them, without the processing lock.        *)
(*                                                                         *)
(* Everything between two awaits is one step.  The model's answers, the    *)
(* prompt sizes and the points of a consolidation's end are free.  A turn  *)
(* is one entry of a log, named by its session and its number.  Left out:  *)
(* what messages say, the tools but `message', subagents (their results    *)
(* come back over the bus as messages), progress messages, MCP.            *)
(***************************************************************************)
EXTENDS Integers, Sequences, SequencesExt

CONSTANTS
    Chat,        \* sessions of chats
    Cron,        \* sessions of cron jobs
    Old,         \* turns each session has when the gateway starts
    MaxTurn,     \* bounds: turns of a chat,
    MaxCron,     \*   turns of a cron job's session,
    MaxFaults,   \*   kills and failing writes,
    MaxStops,    \*   /stop messages,
    MaxRounds,   \* rounds of one consolidation (5)
    RawAfter     \* failures in a row before messages are archived raw (3)

ASSUME SessionsAssumption ==
    /\ Chat \cap Cron = {}
    /\ {Old, MaxTurn, MaxCron, MaxFaults, MaxStops} \subseteq Nat
    /\ MaxCron <= MaxTurn /\ Old <= MaxTurn
    /\ {MaxRounds, RawAfter} \subseteq Nat \ {0}

VARIABLES
    disk,        \* the session files
    heap,        \* the Session objects made of them since the start
    cache,       \* SessionManager._cache: an index into heap, 0 for none
    inbox,       \* the bus, inbound
    came,        \* turns the chats and the cron service have asked for
    lock,        \* the processing lock: the turn that holds it, those that wait
    task,        \* the turns, and the background task each one leaves
    fitting,     \* the holder of each session's consolidation lock
    failures,    \* MemoryStore._consecutive_failures
    archived,    \* how often each turn was written to HISTORY.md
    tool,        \* the message tool: its target, whether it sent in the turn
    \* auxiliary
    told,        \* running turns that have sent something to their own chat
    crossed,     \* turns whose chat another turn's message, or their own, went past
    silent,      \* answered turns whose chat got nothing
    kept,        \* turns that were saved
    lost,        \* turns a known accident may lose
    again,       \* turns a known accident may archive twice
    overrun,     \* sessions cleared under a consolidation that went on
    disturbed,   \* archive tasks whose count of failures another task changed
    cancelled,   \* turns a /stop found
    faults, stops

vars == <<disk, heap, cache, inbox, came, lock, task, fitting, failures, archived, tool,
          told, crossed, silent, kept, lost, again, overrun, disturbed, cancelled, faults, stops>>
sessions == <<disk, heap, cache>>
talk == <<tool, told, crossed, silent>>
memory == <<failures, archived>>
bounds == <<faults, stops>>

Key == Chat \cup Cron
Number == 1..MaxTurn
Turn == Key \X Number \X {"turn"}
After == Key \X Number \X {"after"}
KeyOf(t) == t[1]
Name(t) == <<t[1], t[2]>>
Names(k, numbers) == {k} \X numbers
None == <<>>

Idle == [pc |-> "none", obj |-> 0, end |-> 0, chunk |-> {}, left |-> 0]
Done == [Idle EXCEPT !.pc = "done"]
Free == [holder |-> None, waiters |-> <<>>]
EmptySession == [log |-> <<>>, cons |-> 0]
Running == {t \in Turn : task[t].pc \in {"queued", "new", "fit", "fitting", "agent"}}
AtAgent == {t \in Turn : task[t].pc = "agent"}
Archiving == {t \in After : task[t].pc = "archive"}
-----------------------------------------------------------------------------
Init ==
    /\ disk = [k \in Key |-> [log |-> [i \in 1..Old |-> i], cons |-> 0]]
    /\ heap = [k \in Key |-> <<>>] /\ cache = [k \in Key |-> 0]
    /\ inbox = <<>> /\ came = [k \in Key |-> Old] /\ lock = Free
    /\ task = [t \in Turn \cup After |-> Idle]
    /\ fitting = [k \in Key |-> None]
    /\ failures = 0 /\ archived = [k \in Key |-> [n \in Number |-> 0]]
    /\ tool = [ctx |-> None, sent |-> FALSE]
    /\ told = {} /\ crossed = {} /\ silent = {} /\ kept = Key \X (1..Old) /\ lost = {} /\ again = {}
    /\ overrun = {} /\ disturbed = {} /\ cancelled = {} /\ faults = 0 /\ stops = 0

Fault == faults < MaxFaults /\ faults' = faults + 1

\* get_or_create: the cached object, or a new one of the file.
Got(k) == IF cache[k] # 0 THEN cache[k] ELSE Len(heap[k]) + 1
Opened(k) == IF cache[k] # 0 THEN heap[k] ELSE Append(heap[k], disk[k])
GetOrCreate(k) ==
    /\ heap' = [heap EXCEPT ![k] = Opened(k)]
    /\ cache' = [cache EXCEPT ![k] = Got(k)]

\* save of object o, whose contents are now s: the file and the cache.
Save(k, o, s) ==
    /\ heap' = [heap EXCEPT ![k][o] = s]
    /\ disk' = [disk EXCEPT ![k] = s]
    /\ cache' = [cache EXCEPT ![k] = o]

SaveFails(k, o, s) ==
    /\ heap' = [heap EXCEPT ![k][o] = s]
    /\ UNCHANGED <<disk, cache>>
    /\ Fault

\* The object a turn is at work on, and that object with the turn's entry.
ObjectOf(t) == heap[KeyOf(t)][task[t].obj]
Written(t) == [ObjectOf(t) EXCEPT !.log = Append(@, t[2])]

\* Where a turn's messages go: a cron job's to the chat it was made in.
Targets(k) == IF k \in Chat THEN {k} ELSE Chat \cup {k}

\* Mutant of UseTool: start_turn is not called.
UseToolAgain(t) == \E k \in Targets(KeyOf(t)) : tool' = [tool EXCEPT !.ctx = k]

\* _set_tool_context and start_turn, in the step that goes on to the model.
UseTool(t) == \E k \in Targets(KeyOf(t)) : tool' = [ctx |-> k, sent |-> FALSE]

\* The turns named have ended with an apology or without a word.
Over(names) ==
    /\ told' = told \ names /\ crossed' = crossed \ names
    /\ UNCHANGED <<tool, silent>>
-----------------------------------------------------------------------------
(* The bus and the run loop                                                 *)

Come(k, cmd) ==
    /\ came[k] < MaxTurn
    /\ came' = [came EXCEPT ![k] = @ + 1]
    /\ inbox' = Append(inbox, [key |-> k, n |-> came[k] + 1, cmd |-> cmd])
    /\ UNCHANGED <<sessions, lock, task, fitting, memory, talk, kept, lost,
                   again, overrun, disturbed, cancelled, bounds>>

ComeStop(k) ==
    /\ stops < MaxStops /\ stops' = stops + 1
    /\ inbox' = Append(inbox, [key |-> k, n |-> 0, cmd |-> "stop"])
    /\ UNCHANGED <<sessions, came, lock, task, fitting, memory, talk, kept,
                   lost, again, overrun, disturbed, cancelled, faults>>

\* A turn ends, whatever it did: it leaves the locks it holds or waits for.
Released(t) == [fitting EXCEPT ![KeyOf(t)] = IF @ = t THEN None ELSE @]
Without(ts) == [holder |-> IF lock.holder \in ts THEN None ELSE lock.holder,
                waiters |-> SelectSeq(lock.waiters, LAMBDA t : t \notin ts)]

\* Mutant of Stopped: the turn that runs is not among the cancelled ones.
StoppedWaiting(k) == {t \in Running : KeyOf(t) = k /\ task[t].pc = "queued"}

Stopped(k) == {t \in Running : KeyOf(t) = k}

\* The cancel handler of _dispatch, for the turn that holds the lock: what the
\* turn has put into its session as a checkpoint becomes its entry, if the
\* object in the cache is the turn's.  Whether there is a checkpoint is free.
Rescue(t) ==
    LET k == KeyOf(t)  o == task[t].obj IN
    \/ GetOrCreate(k) /\ UNCHANGED <<disk, kept, faults>>
    \/ /\ task[t].pc = "agent" /\ cache[k] = o
       /\ \/ Save(k, o, Written(t)) /\ kept' = kept \cup {Name(t)} /\ UNCHANGED faults
          \/ SaveFails(k, o, Written(t)) /\ UNCHANGED kept

\* The run loop waits for what it cancels.
HandleStop(k) ==
    /\ IF lock.holder \in Stopped(k) THEN Rescue(lock.holder)
       ELSE UNCHANGED <<sessions, kept, faults>>
    /\ task' = [t \in DOMAIN task |-> IF t \in Stopped(k) THEN Done ELSE task[t]]
    /\ lock' = Without(Stopped(k))
    /\ fitting' = [fitting EXCEPT ![k] = IF @ \in Stopped(k) THEN None ELSE @]
    /\ cancelled' = cancelled \cup {Name(t) : t \in {u \in Running : KeyOf(u) = k}}
    /\ Over({Name(t) : t \in Stopped(k)})

ReadInbox ==
    /\ inbox # <<>> /\ inbox' = Tail(inbox)
    /\ LET m == Head(inbox)  t == <<m.key, m.n, "turn">> IN
       IF m.cmd = "stop"
       THEN HandleStop(m.key)
       ELSE /\ task' = [task EXCEPT ![t].pc = IF m.cmd = "new" THEN "new" ELSE "queued"]
            /\ lock' = [lock EXCEPT !.waiters = Append(@, t)]
            /\ UNCHANGED <<sessions, fitting, kept, cancelled, talk, faults>>
    /\ UNCHANGED <<came, memory, lost, again, overrun, disturbed, stops>>
-----------------------------------------------------------------------------
(* Turns                                                                    *)

\* Turn t is the next one to get the processing lock, and the lock is free.
GetsLock(t) == lock.holder = None /\ lock.waiters # <<>> /\ Head(lock.waiters) = t

BeginTurn(t) ==
    /\ GetsLock(t) /\ task[t].pc = "queued"
    /\ lock' = [holder |-> t, waiters |-> Tail(lock.waiters)]
    /\ GetOrCreate(KeyOf(t))
    /\ task' = [task EXCEPT ![t].pc = "fit", ![t].obj = Got(KeyOf(t))]
    /\ UNCHANGED <<disk, inbox, came, fitting, memory, talk, kept, lost,
                   again, overrun, disturbed, cancelled, bounds>>

\* The cron service runs one job at a time.
CronTurn(k) ==
    /\ came[k] < MaxCron /\ \A t \in Running : KeyOf(t) \notin Cron
    /\ came' = [came EXCEPT ![k] = @ + 1]
    /\ GetOrCreate(k)
    /\ task' = [task EXCEPT ![<<k, came[k] + 1, "turn">>] =
                    [Idle EXCEPT !.pc = "fit", !.obj = Got(k)]]
    /\ UNCHANGED <<disk, inbox, lock, fitting, memory, talk, kept, lost, again,
                   overrun, disturbed, cancelled, bounds>>

\* The timer task the job runs in is cancelled.
CronCancelled(t) ==
    /\ t \in Running /\ KeyOf(t) \in Cron
    /\ task' = [task EXCEPT ![t] = Done]
    /\ fitting' = Released(t)
    /\ Over({Name(t)})
    /\ UNCHANGED <<sessions, inbox, came, lock, memory, kept, lost, again,
                   overrun, disturbed, cancelled, bounds>>

\* Mutant of Unconsolidated: the offset taken for the next turn's index.
UnconsolidatedNext(s) == {s.log[i] : i \in s.cons + 2 .. Len(s.log)}

\* What is not yet consolidated of s.
Unconsolidated(s) == {s.log[i] : i \in s.cons + 1 .. Len(s.log)}

\* /new: no await between the snapshot and the answer.  The turns of a
\* consolidation that is under way are archived once more.
NewSession(t) ==
    /\ GetsLock(t) /\ task[t].pc = "new"
    /\ lock' = [lock EXCEPT !.waiters = Tail(@)]
    /\ LET k == KeyOf(t)  o == Got(k)
           snapshot == Unconsolidated(Opened(k)[o])
           under == IF fitting[k] = None THEN {} ELSE task[fitting[k]].chunk
       IN
       /\ heap' = [heap EXCEPT ![k] = [Opened(k) EXCEPT ![o] = EmptySession]]
       /\ \/ /\ disk' = [disk EXCEPT ![k] = EmptySession]
             /\ cache' = [cache EXCEPT ![k] = 0]
             /\ task' = [task EXCEPT
                    ![t] = Done,
                    ![<<k, t[2], "after">>] =
                        IF snapshot = {} THEN Done
                        ELSE [Idle EXCEPT !.pc = "archive", !.chunk = snapshot,
                                          !.left = RawAfter]]
             /\ again' = again \cup Names(k, snapshot \cap under)
             /\ UNCHANGED <<lost, faults>>
          \/ /\ Fault
             /\ cache' = [cache EXCEPT ![k] = o]
             /\ task' = [task EXCEPT ![t] = Done]
             /\ lost' = lost \cup Names(k, snapshot)
             /\ UNCHANGED <<disk, again>>
    /\ UNCHANGED <<inbox, came, fitting, memory, talk, kept, overrun, disturbed, cancelled,
                   stops>>

\* The message tool sends to its default target.
AgentSends(t) ==
    /\ task[t].pc = "agent"
    /\ tool' = [tool EXCEPT !.sent = TRUE]
    /\ told' = IF tool.ctx = KeyOf(t) THEN told \cup {Name(t)} ELSE told
    /\ crossed' = crossed \cup {Name(u) : u \in AtAgent \ {t}}
                          \cup (IF tool.ctx = KeyOf(t) THEN {} ELSE {Name(t)})
    /\ UNCHANGED <<sessions, inbox, came, lock, task, fitting, memory, silent, kept, lost,
                   again, overrun, disturbed, cancelled, bounds>>

AgentEnds(t) ==
    /\ task[t].pc = "agent"
    /\ LET k == KeyOf(t)  o == task[t].obj IN
       \/ /\ Save(k, o, Written(t))
          /\ kept' = kept \cup {Name(t)}
          /\ IF tool.sent /\ Name(t) \notin told /\ k \in Chat
             THEN silent' = silent \cup {Name(t)} /\ UNCHANGED <<tool, told, crossed>>
             ELSE Over({Name(t)})
          /\ task' = [task EXCEPT
                 ![t] = Done,
                 ![<<k, t[2], "after">>] = [Idle EXCEPT !.pc = "fit", !.obj = o]]
          /\ UNCHANGED faults
       \/ /\ SaveFails(k, o, Written(t))
          /\ Over({Name(t)})
          /\ task' = [task EXCEPT ![t] = Done]
          /\ UNCHANGED kept
    /\ lock' = Without({t})
    /\ UNCHANGED <<inbox, came, fitting, memory, lost, again, overrun, disturbed, cancelled,
                   stops>>

\* An exception: the chat gets an apology, the session nothing.
AgentFails(t) ==
    /\ task[t].pc = "agent"
    /\ task' = [task EXCEPT ![t] = Done]
    /\ lock' = Without({t})
    /\ Over({Name(t)})
    /\ UNCHANGED <<sessions, inbox, came, fitting, memory, kept, lost, again, overrun,
                   disturbed, cancelled, bounds>>
-----------------------------------------------------------------------------
(* maybe_consolidate_by_tokens, before a turn and in the task after it      *)

\* The turn goes on to the model, the background task is done.
GoesOn(t) ==
    /\ task' = [task EXCEPT ![t] = IF t \in Turn
                                   THEN [Idle EXCEPT !.pc = "agent", !.obj = task[t].obj]
                                   ELSE Done]
    /\ IF t \in Turn THEN UseTool(t) ELSE UNCHANGED tool

\* The prompt fits, or there is nothing that could be taken out of it.
FitSkips(t) ==
    /\ task[t].pc = "fit"
    /\ ObjectOf(t).log = <<>> \/ fitting[KeyOf(t)] = None
    /\ GoesOn(t)
    /\ UNCHANGED <<sessions, inbox, came, lock, fitting, memory, told, crossed, silent, kept,
                   lost, again, overrun, disturbed, cancelled, bounds>>

\* A round: up to a later turn's beginning, so the last turn always stays.
Boundaries(s) == s.cons + 1 .. Len(s.log) - 1

\* Mutant of Round: the chunk starts at the session's first turn.
RoundFromStart(t, s, end, left) ==
    [pc |-> "fitting", obj |-> task[t].obj, end |-> end, left |-> left,
     chunk |-> {s.log[i] : i \in 1 .. end}]

Round(t, s, end, left) ==
    [pc |-> "fitting", obj |-> task[t].obj, end |-> end, left |-> left,
     chunk |-> {s.log[i] : i \in s.cons + 1 .. end}]

FitStarts(t) ==
    /\ task[t].pc = "fit" /\ fitting[KeyOf(t)] = None
    /\ \E end \in Boundaries(ObjectOf(t)) :
           task' = [task EXCEPT ![t] = Round(t, ObjectOf(t), end, MaxRounds - 1)]
    /\ fitting' = [fitting EXCEPT ![KeyOf(t)] = t]
    /\ UNCHANGED <<sessions, inbox, came, lock, memory, talk, kept, lost, again,
                   overrun, disturbed, cancelled, bounds>>

\* Mutant of Lands: the count is compared before it is increased.
LandsLate(ok) == ok \/ failures >= RawAfter

Lands(ok) == ok \/ failures + 1 >= RawAfter

\* How many entries HISTORY.md gets.
Entries(ok, half) == (IF half THEN 1 ELSE 0) + (IF Lands(ok) THEN 1 ELSE 0)

\* MemoryStore.consolidate: the model answers or not; after RawAfter failures
\* in a row, whoever had them, the turns are archived as they are.  half:
\* HISTORY.md has the summary, MEMORY.md cannot be written; that is a failure.
Consolidated(t, ok, half) ==
    /\ half => ~ok
    /\ archived' = [archived EXCEPT ![KeyOf(t)] = [n \in Number |->
                        IF n \in task[t].chunk THEN @[n] + Entries(ok, half) ELSE @[n]]]
    /\ failures' = IF Lands(ok) THEN 0 ELSE failures + 1
    /\ disturbed' = disturbed \cup {u \in Archiving \ {t} : task[u].left < RawAfter}

\* The turns a consolidation leaves half done are archived once more.
Twice(t, half) == IF half THEN Names(KeyOf(t), task[t].chunk) ELSE {}
FaultIf(half) == IF half THEN Fault ELSE UNCHANGED faults

\* The session was cleared while the model summarised its turns.
Stale(t) == ~(task[t].chunk \subseteq Range(ObjectOf(t).log))

\* Mutant of Moved: the offset moves whether the turns were archived or not.
MovedAnyway(s, t, ok) == [s EXCEPT !.cons = task[t].end]

Moved(s, t, ok) == IF Lands(ok) THEN [s EXCEPT !.cons = task[t].end] ELSE s

\* Mutant of FitReleased: a failed consolidation returns with the lock.
ReleasedIfLanded(t, ok) == IF Lands(ok) THEN Released(t) ELSE fitting

FitReleased(t, ok) == Released(t)

FitEnds(t) ==
    /\ task[t].pc = "fitting"
    /\ \E ok, half \in BOOLEAN :
       LET k == KeyOf(t)  s == Moved(ObjectOf(t), t, ok) IN
       /\ Consolidated(t, ok, half)
       /\ \/ /\ IF s # ObjectOf(t) THEN Save(k, task[t].obj, s) ELSE UNCHANGED sessions
             /\ \/ GoesOn(t) /\ fitting' = FitReleased(t, ok)
                \/ /\ Lands(ok) /\ task[t].left > 0
                   /\ \E end \in Boundaries(s) :
                        task' = [task EXCEPT ![t] = Round(t, s, end, task[t].left - 1)]
                   /\ UNCHANGED <<fitting, tool>>
             /\ again' = again \cup Twice(t, half)
             /\ UNCHANGED lock /\ FaultIf(half)
          \/ /\ Lands(ok)
             /\ SaveFails(k, task[t].obj, s)
             /\ task' = [task EXCEPT ![t] = Done]
             /\ fitting' = Released(t)
             /\ again' = again \cup Names(k, task[t].chunk)
             /\ lock' = Without({t})
             /\ UNCHANGED tool
       /\ overrun' = IF Stale(t) /\ Lands(ok) THEN overrun \cup {k} ELSE overrun
    /\ UNCHANGED <<inbox, came, told, crossed, silent, kept, lost, cancelled, stops>>

\* archive_messages: RawAfter attempts, then it is done whatever came of them.
Archives(t) ==
    /\ task[t].pc = "archive"
    /\ \E ok, half \in BOOLEAN :
       /\ Consolidated(t, ok, half) /\ FaultIf(half)
       /\ again' = again \cup Twice(t, half)
       /\ task' = [task EXCEPT ![t] = IF Lands(ok) \/ task[t].left = 1 THEN Done
                                      ELSE [task[t] EXCEPT !.left = @ - 1]]
       /\ lost' = IF ~Lands(ok) /\ task[t].left = 1 /\ t \in disturbed
                  THEN lost \cup Names(KeyOf(t), task[t].chunk) ELSE lost
    /\ UNCHANGED <<sessions, inbox, came, lock, fitting, talk, kept, overrun,
                   cancelled, stops>>

\* The raw dump cannot be written, nor the summary (or, half, what follows it):
\* the exception ends the task, and the count of failures stays increased.
DumpFails(t) ==
    /\ task[t].pc = "fitting" \/ t \in Archiving
    /\ failures + 1 >= RawAfter
    /\ Fault /\ failures' = failures + 1
    /\ \E half \in BOOLEAN :
       /\ archived' = [archived EXCEPT ![KeyOf(t)] = [n \in Number |->
                           IF half /\ n \in task[t].chunk THEN @[n] + 1 ELSE @[n]]]
       /\ again' = again \cup Twice(t, half)
    /\ task' = [task EXCEPT ![t] = Done]
    /\ lock' = Without({t}) /\ fitting' = Released(t)
    /\ lost' = IF t \in Archiving THEN lost \cup Names(KeyOf(t), task[t].chunk) ELSE lost
    /\ UNCHANGED <<sessions, inbox, came, talk, kept, overrun, disturbed, cancelled, stops>>
-----------------------------------------------------------------------------
\* A kill or /restart, maybe between HISTORY.md and the file: what is in
\* memory is gone, an archive that /new has started included.
Killed ==
    /\ Fault
    /\ \/ UNCHANGED <<archived, again>>
       \/ \E t \in DOMAIN task :
            /\ task[t].pc = "fitting"
            /\ archived' = [archived EXCEPT ![KeyOf(t)] = [n \in Number |->
                                IF n \in task[t].chunk THEN @[n] + 1 ELSE @[n]]]
            /\ again' = again \cup Names(KeyOf(t), task[t].chunk)
    /\ lost' = lost \cup UNION {Names(KeyOf(t), task[t].chunk) : t \in Archiving}
    /\ task' = [t \in DOMAIN task |-> IF task[t].pc = "none" THEN Idle ELSE Done]
    /\ heap' = [k \in Key |-> <<>>] /\ cache' = [k \in Key |-> 0]
    /\ inbox' = <<>> /\ lock' = Free /\ fitting' = [k \in Key |-> None]
    /\ failures' = 0 /\ tool' = [ctx |-> None, sent |-> FALSE] /\ disturbed' = {}
    /\ told' = {} /\ crossed' = crossed \cap silent
    /\ UNCHANGED <<disk, came, silent, kept, overrun, cancelled, stops>>

Coming == \E k \in Chat : ComeStop(k) \/ \E cmd \in {"say", "new"} : Come(k, cmd)
Agent(t) == AgentEnds(t) \/ AgentFails(t)
Fit(t) == FitSkips(t) \/ FitStarts(t) \/ FitEnds(t)
Loop == \/ ReadInbox
        \/ \E t \in Turn : BeginTurn(t) \/ NewSession(t) \/ Agent(t)
        \/ \E t \in Turn \cup After : Fit(t)
        \/ \E t \in After : Archives(t)

Next ==
    \/ Coming \/ Loop \/ Killed
    \/ \E k \in Cron : CronTurn(k)
    \/ \E t \in Turn : AgentSends(t) \/ CronCancelled(t)
    \/ \E t \in Turn \cup After : DumpFails(t)

Spec == Init /\ [][Next]_vars

\* The event loop runs something that is ready, and calls of the model end.
FairSpec == Spec /\ WF_vars(Loop)
-----------------------------------------------------------------------------
SessionType == [log : Seq(Number), cons : Nat]
Message == [key : Chat, n : 0..MaxTurn, cmd : {"say", "new", "stop"}]
TaskType == [pc : {"none", "queued", "new", "fit", "fitting", "archive", "agent", "done"},
             obj : Nat, end : Nat, chunk : SUBSET Number, left : Nat]

TypeOK ==
    /\ disk \in [Key -> SessionType]
    /\ heap \in [Key -> Seq(SessionType)] /\ cache \in [Key -> Nat]
    /\ \A k \in Key : cache[k] <= Len(heap[k])
    /\ inbox \in Seq(Message) /\ came \in [Key -> Old..MaxTurn]
    /\ task \in [Turn \cup After -> TaskType]
    /\ \A t \in DOMAIN task :
          /\ task[t].pc \in {"fit", "fitting", "agent"} =>
                 task[t].obj \in 1..Len(heap[KeyOf(t)])
          /\ task[t].pc = "archive" => task[t].left > 0
    /\ fitting \in [Key -> Turn \cup After \cup {None}]
    /\ failures \in 0 .. RawAfter - 1 + faults
    /\ archived \in [Key -> [Number -> Nat]]
    /\ tool \in [ctx : Key \cup {None}, sent : BOOLEAN]
    /\ faults \in Nat

\* What the program reads next: the file, or the object in the cache.
Seen(k) == {disk[k]} \cup (IF cache[k] = 0 THEN {} ELSE {heap[k][cache[k]]})

\* The turns a session's offset hides were archived, whichever task moved it
\* and whenever the process was killed, unless /new has cleared the session
\* under a consolidation.
OffsetIsArchived(k) ==
    \A s \in Seen(k) : \A i \in 1..s.cons : i <= Len(s.log) /\ archived[k][s.log[i]] > 0

HiddenIsArchived == \A k \in Key \ overrun : OffsetIsArchived(k)

\* A turn is in its session's file, in HISTORY.md or with the archive task of
\* a /new.
Safe(m) ==
    \/ m[2] \in Range(disk[m[1]].log) \/ archived[m[1]][m[2]] > 0
    \/ \E t \in Archiving : KeyOf(t) = m[1] /\ m[2] \in task[t].chunk

\* A saved turn stays safe: only a kill, a failed write or another session's
\* consolidation, each at its worst moment, can lose it, or a consolidation
\* that goes on over a /new and brings the session's old object back.
NothingLost == \A m \in kept \ lost : m[1] \notin overrun => Safe(m)

\* Consolidations of one session exclude each other: no turn is written to
\* HISTORY.md twice, but for a /new, a kill or a failed write in the middle of one.
ArchivedOnce ==
    \A k \in Key, n \in Number : archived[k][n] > 1 => <<k, n>> \in again

\* The turn is in its session's file or in an object made of it.
InSession(m) ==
    \E s \in {disk[m[1]]} \cup Range(heap[m[1]]) : m[2] \in Range(s.log)

\* What a /stop has found running or waiting gets into the session in no later
\* step, and in the step of the /stop only the turn that held the lock does,
\* as the partial context the cancel handler restores.
StoppedIsSettled ==
    [][\A m \in cancelled' :
          InSession(m)' => \/ InSession(m)
                           \/ /\ m \notin cancelled
                              /\ lock.holder \in Turn /\ m = Name(lock.holder)]_vars

\* A chat whose turn ends without an answer got a message of that turn, unless
\* a message of another turn, or to the chat of another one, was sent while it
\* ran: that the turns overlap excuses nothing.
ChatIsTold == silent \subseteq crossed

\* Every message the run loop has taken is answered, fails or is stopped.
TurnsEnd ==
    \A k \in Chat, n \in Old + 1 .. MaxTurn :
        LET pc == task[<<k, n, "turn">>].pc
        IN  pc \in {"queued", "new"} ~> pc = "done"

(* What comments and tests say, for the runs that expect a violation.       *)

\* "Number of messages already consolidated to files"
OffsetCountsArchived == \A k \in Key : OffsetIsArchived(k)

\* "Archive messages with guaranteed persistence (retries until raw-dump
\* fallback)": with no kill and no failing save.
ArchiveGuaranteed ==
    \A m \in kept : faults = 0 /\ m[1] \notin overrun => Safe(m)
=============================================================================
