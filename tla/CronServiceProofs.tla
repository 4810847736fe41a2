------------------------- MODULE CronServiceProofs -------------------------
(***************************************************************************)
(* Proofs about CronService for any set of jobs and any number of          *)
(* occasions, with and without a second process that edits the job file.   *)
(***************************************************************************)
EXTENDS CronService, TLAPS

-----------------------------------------------------------------------------
(* The functions on stores return stores.                                  *)

LEMMA StoreIs ==
    \A s : s \in Stores <=> /\ DOMAIN s \subseteq Job
                            /\ s = [j \in DOMAIN s |-> s[j]]
                            /\ \A j \in DOMAIN s : s[j] \in Entry
BY DEF Stores

LEMMA EmptyType == Empty \in Stores /\ DOMAIN Empty = {}
BY StoreIs DEF Empty

LEMMA NextRunType ==
    ASSUME clock \in [Job -> 0 .. MaxClock], NEW kind, NEW j \in Job
    PROVE  NextRun(kind, j) \in 0 .. MaxClock + 1
<1>1. clock[j] \in 0 .. MaxClock
  OBVIOUS
<1> QED BY <1>1, CronServiceAssumption DEF CronServiceAssumption, NextRun

LEMMA RestrictType ==
    ASSUME NEW s \in Stores, NEW D \in SUBSET DOMAIN s
    PROVE  /\ Restrict(s, D) \in Stores
           /\ DOMAIN Restrict(s, D) = D
           /\ \A j \in D : Restrict(s, D)[j] = s[j]
BY StoreIs DEF Restrict

LEMMA WithoutType ==
    ASSUME NEW s \in Stores, NEW j
    PROVE  /\ Without(s, j) \in Stores
           /\ DOMAIN Without(s, j) = DOMAIN s \ {j}
           /\ \A i \in DOMAIN s \ {j} : Without(s, j)[i] = s[i]
BY RestrictType DEF Without

LEMMA DueType ==
    ASSUME NEW s \in Stores
    PROVE  /\ DueIn(s) \in Stores
           /\ DOMAIN DueIn(s) \subseteq {j \in DOMAIN s : s[j].enabled}
BY RestrictType DEF DueIn, Runnable

LEMMA WithType ==
    ASSUME NEW s \in Stores, NEW j \in Job, NEW e \in Entry
    PROVE  /\ With(s, j, e) \in Stores
           /\ DOMAIN With(s, j, e) = DOMAIN s \cup {j}
           /\ \A i \in DOMAIN s \ {j} : With(s, j, e)[i] = s[i]
BY StoreIs DEF With

LEMMA OffType == \A e \in Entry : Off(e) \in Entry /\ ~Off(e).enabled
<1>1. 0 \in 0 .. MaxClock + 1
  BY CronServiceAssumption DEF CronServiceAssumption
<1> QED BY <1>1 DEF Off, Entry

LEMMA OnType == \A e \in Entry : [e EXCEPT !.enabled = TRUE] \in Entry
BY DEF Entry

LEMMA MovedType ==
    ASSUME clock \in [Job -> 0 .. MaxClock], NEW e \in Entry, NEW j \in Job
    PROVE  Moved(e, j) \in Entry /\ Moved(e, j).enabled = e.enabled
BY NextRunType DEF Moved, Entry

LEMMA RecomputedType ==
    ASSUME clock \in [Job -> 0 .. MaxClock], NEW s \in Stores
    PROVE  /\ Recomputed(s) \in Stores
           /\ DOMAIN Recomputed(s) = DOMAIN s
           /\ \A j \in DOMAIN s : Recomputed(s)[j].enabled = s[j].enabled
<1>1. ASSUME NEW j \in DOMAIN s
      PROVE  Recomputed(s)[j] \in Entry /\ Recomputed(s)[j].enabled = s[j].enabled
  <2>1. j \in Job /\ s[j] \in Entry
    BY StoreIs
  <2> QED BY <2>1, MovedType DEF Recomputed
<1> QED BY <1>1, StoreIs DEF Recomputed

\* An entry of s is replaced.
LEMMA ReplacedType ==
    ASSUME NEW s \in Stores, NEW j, NEW e \in Entry
    PROVE  /\ [s EXCEPT ![j] = e] \in Stores
           /\ DOMAIN [s EXCEPT ![j] = e] = DOMAIN s
           /\ \A i \in DOMAIN s : 
                  [s EXCEPT ![j] = e][i] = IF i = j THEN e ELSE s[i]
BY StoreIs

LEMMA LoadedType == TypeOK => Loaded \in Stores
BY DEF TypeOK, Loaded

LEMMA WatchType ==
    ASSUME NEW s \in Stores
    PROVE  Watch(s) \in SUBSET (Job \X (1 .. MaxClock + 1))
<1>1. ASSUME NEW j \in DOMAIN s, Runnable(s[j])
      PROVE  <<j, s[j].next>> \in Job \X (1 .. MaxClock + 1)
  <2>1. j \in Job /\ s[j] \in Entry
    BY StoreIs
  <2>2. s[j].next \in 0 .. MaxClock + 1 /\ s[j].next # 0
    BY <1>1, <2>1 DEF Entry, Runnable
  <2> QED BY <2>1, <2>2, CronServiceAssumption DEF CronServiceAssumption
<1> QED BY <1>1 DEF Watch

Tick == [at : {"none", "sleeping", "running"},
         watch : SUBSET (Job \X (1 .. MaxClock + 1)), due : Stores,
         job : Job \cup {NoJob}, fresh : BOOLEAN]

LEMMA ArmedType ==
    ASSUME NEW s \in Stores
    PROVE  /\ NoTick \in Tick /\ NoTick.at = "none" /\ NoTick.watch = {}
           /\ NoTick.due = Empty
           /\ Armed(s) \in Tick /\ Armed(s).at # "running"
           /\ Armed(s).watch = Watch(s) /\ Armed(s).due = Empty
BY EmptyType, WatchType DEF NoTick, Tick, Armed

LEMMA ExecutedType ==
    ASSUME TypeOK, NEW s \in Stores, NEW j \in Job, NEW e \in Entry
    PROVE  /\ Executed(s, j, e) \in Stores
           /\ DOMAIN Executed(s, j, e) \subseteq DOMAIN s
           /\ \A i \in DOMAIN Executed(s, j, e) :
                  ~s[i].enabled => ~Executed(s, j, e)[i].enabled
<1>1. CASE e.kind = "once"
  BY <1>1, WithoutType DEF Executed
<1>2. CASE e.kind # "once" /\ ~(tick.fresh /\ j \in DOMAIN s)
  BY <1>2, StoreIs DEF Executed
<1>3. CASE e.kind # "once" /\ tick.fresh /\ j \in DOMAIN s
  <2> DEFINE new == IF e.kind = "at" THEN Off(s[j]) ELSE Moved(s[j], j)
  <2>1. s[j] \in Entry
    BY <1>3, StoreIs
  <2>2. new \in Entry /\ (~s[j].enabled => ~new.enabled)
    BY <2>1, OffType, MovedType DEF TypeOK
  <2>3. Executed(s, j, e) = [s EXCEPT ![j] = new]
    BY <1>3 DEF Executed
  <2> HIDE DEF new
  <2> DEFINE t == [s EXCEPT ![j] = new]
  <2>4. /\ t \in Stores /\ DOMAIN t = DOMAIN s
        /\ \A i \in DOMAIN s : t[i] = IF i = j THEN new ELSE s[i]
    BY <2>2, ReplacedType
  <2> HIDE DEF t
  <2>5. Executed(s, j, e) = t
    BY <2>3 DEF t
  <2> QED BY <2>2, <2>4, <2>5
<1> QED BY <1>1, <1>2, <1>3

-----------------------------------------------------------------------------
(* The inductive invariant                                                 *)

\* j has no enabled entry in s.
Out(s, j) == j \in DOMAIN s => ~s[j].enabled

\* A removed or disabled job is out of both copies of the store and out of the
\* timer task's list, and its id is not given out again.
GoneIsOut ==
    \A j \in gone : /\ j \in added
                   /\ Out(disk, j) /\ Out(mem, j)
                   /\ j \notin DOMAIN tick.due

\* Jobs in a store have ids that were given out.
Known == DOMAIN disk \subseteq added /\ DOMAIN mem \subseteq added

\* The job that is being executed is on the timer task's list.
Executing == tick.at = "running" => tick.job \in DOMAIN tick.due

\* As long as no other process has written the file, the service never has to
\* reload.
InStep == up /\ behind => edited

IInv == TypeOK /\ GoneIsOut /\ Known /\ Executing /\ InStep
        /\ Watched

-----------------------------------------------------------------------------
(* What the steps have in common.                                          *)

\* Saving s and arming the timer for it.
LEMMA SaveStep ==
    ASSUME IInv, NEW s \in Stores, SaveAndArm(s), up', clock' = clock,
           edited' = edited,
           added' \subseteq Job, gone' \subseteq Job,
           done' \subseteq Job \X (0 .. MaxClock + 1),
           gone' \subseteq added', DOMAIN s \subseteq added',
           \A j \in gone' : Out(s, j)
    PROVE  IInv'
<1>1. disk' = s /\ mem' = s /\ behind' = FALSE /\ tick' = Armed(s)
  BY DEF SaveAndArm, Save
<1>2. TypeOK'
  BY <1>1, ArmedType DEF IInv, TypeOK, Tick
<1>3. GoneIsOut' /\ Known'
  BY <1>1, ArmedType, EmptyType DEF IInv, GoneIsOut, Known, Out
<1>4. Executing' /\ InStep'
  BY <1>1, ArmedType DEF Executing, InStep
<1>5. Watched'
  BY <1>1, ArmedType DEF Watched, Watch, Runnable
<1> QED BY <1>2, <1>3, <1>4, <1>5 DEF IInv

\* Going on with the timer task's list.
LEMMA RunStep ==
    ASSUME IInv, NEW s \in Stores, NEW due \in Stores, NEW fresh \in BOOLEAN,
           RunNext(s, due, fresh), up, up' = up,
           clock' = clock, added' = added, gone' = gone, edited' = edited,
           done' \subseteq Job \X (0 .. MaxClock + 1),
           DOMAIN s \subseteq added,
           \A j \in gone : Out(s, j) /\ j \notin DOMAIN due
    PROVE  IInv'
<1>1. CASE due = Empty
  BY <1>1, SaveStep DEF RunNext, IInv, TypeOK, GoneIsOut
<1>2. CASE due # Empty
  <2>1. PICK j \in DOMAIN due :
            /\ tick' = [at |-> "running", watch |-> {}, due |-> due,
                        job |-> j, fresh |-> fresh]
            /\ mem' = s /\ UNCHANGED <<disk, behind>>
    BY <1>2 DEF RunNext
  <2>2. tick' \in Tick
    BY <2>1, StoreIs DEF Tick
  <2>3. TypeOK'
    BY <2>1, <2>2 DEF IInv, TypeOK, Tick
  <2>4. GoneIsOut' /\ Known'
    BY <2>1 DEF IInv, GoneIsOut, Known, Out
  <2>5. Executing' /\ InStep' /\ Watched'
    BY <2>1 DEF IInv, Executing, InStep, Watched
  <2> QED BY <2>3, <2>4, <2>5 DEF IInv
<1> QED BY <1>1, <1>2

\* Writing s to the file in the other process.
LEMMA OthersStep ==
    ASSUME IInv, NEW s \in Stores, OthersWrite(s),
           added \subseteq added', added' \subseteq Job,
           DOMAIN s \subseteq added', \A j \in gone : Out(s, j)
    PROVE  IInv'
<1>1. /\ disk' = s /\ behind' = TRUE /\ edited' = TRUE
      /\ UNCHANGED <<mem, up, tick, clock, gone, done>>
  BY DEF OthersWrite
<1>2. TypeOK'
  BY <1>1 DEF IInv, TypeOK
<1>3. GoneIsOut' /\ Known'
  BY <1>1 DEF IInv, GoneIsOut, Known, Out
<1>4. Executing' /\ InStep' /\ Watched'
  BY <1>1 DEF IInv, Executing, InStep, Watched
<1> QED BY <1>1, <1>2, <1>3, <1>4 DEF IInv

\* What a load returns is typed, known, and free of removed jobs.
LEMMA LoadedIs ==
    ASSUME IInv
    PROVE  /\ Loaded \in Stores /\ DOMAIN Loaded \subseteq added
           /\ \A j \in gone : Out(Loaded, j)
BY LoadedType DEF IInv, Known, GoneIsOut, Loaded

-----------------------------------------------------------------------------
LEMMA Initially == Init => IInv
<1> SUFFICES ASSUME Init PROVE IInv
  OBVIOUS
<1>1. TypeOK
  <2>1. 0 \in 0 .. MaxClock
    BY CronServiceAssumption DEF CronServiceAssumption
  <2> QED BY <2>1, EmptyType, ArmedType DEF Init, TypeOK, Tick
<1>2. GoneIsOut /\ Known /\ Executing /\ InStep /\ Watched
  BY EmptyType, ArmedType
     DEF Init, GoneIsOut, Known, Executing, InStep, Watched
<1> QED BY <1>1, <1>2 DEF IInv

LEMMA Inductive == IInv /\ [Next]_vars => IInv'
<1> SUFFICES ASSUME IInv, [Next]_vars PROVE IInv'
  OBVIOUS
<1> USE DEF IInv
<1>0. added \subseteq Job /\ gone \subseteq added /\ gone \subseteq Job
      /\ clock \in [Job -> 0 .. MaxClock]
      /\ done \subseteq Job \X (0 .. MaxClock + 1)
      /\ disk \in Stores /\ mem \in Stores /\ tick \in Tick
  BY DEF TypeOK, GoneIsOut, Tick
<1>1. CASE Start
  <2>1. Recomputed(disk) \in Stores /\ DOMAIN Recomputed(disk) = DOMAIN disk
        /\ \A j \in DOMAIN disk :
               Recomputed(disk)[j].enabled = disk[j].enabled
    BY <1>0, RecomputedType
  <2>2. DOMAIN Recomputed(disk) \subseteq added
        /\ \A j \in gone : Out(Recomputed(disk), j)
    BY <2>1 DEF Known, GoneIsOut, Out
  <2> QED BY <1>0, <1>1, <2>1, <2>2, SaveStep DEF Start
<1>2. CASE Down
  <2>1. TypeOK'
    BY <1>2, EmptyType, ArmedType DEF Down, TypeOK, Tick
  <2>2. GoneIsOut' /\ Known' /\ Executing' /\ InStep' /\ Watched'
    BY <1>2, EmptyType, ArmedType
       DEF Down, GoneIsOut, Known, Executing, InStep, Watched, Out
  <2> QED BY <2>1, <2>2
<1>3. ASSUME NEW j \in Job, NEW kind \in Kind, AddJob(j, kind)
      PROVE  IInv'
  <2> DEFINE e == [kind |-> kind, enabled |-> TRUE, next |-> NextRun(kind, j)]
             s == With(Loaded, j, e)
  <2>1. e \in Entry
    BY <1>0, NextRunType DEF Entry
  <2> HIDE DEF e
  <2>2. s \in Stores /\ DOMAIN s = DOMAIN Loaded \cup {j}
        /\ \A i \in DOMAIN Loaded \ {j} : s[i] = Loaded[i]
    BY <2>1, WithType, LoadedIs
  <2>3. j \notin added /\ SaveAndArm(s) /\ added' = added \cup {j}
        /\ up' /\ UNCHANGED <<clock, gone, done, edited>>
    BY <1>3 DEF AddJob, e
  <2> HIDE DEF s
  <2>4. \A i \in gone' : Out(s, i)
    BY <1>0, <2>2, <2>3, LoadedIs DEF Out
  <2> QED BY <1>0, <2>2, <2>3, <2>4, LoadedIs, SaveStep
<1>4. ASSUME NEW j \in Job, RemoveJob(j)
      PROVE  IInv'
  <2> DEFINE s == Without(Loaded, j)
  <2>1. s \in Stores /\ DOMAIN s = DOMAIN Loaded \ {j}
        /\ \A i \in DOMAIN Loaded \ {j} : s[i] = Loaded[i]
    BY WithoutType, LoadedIs
  <2>2. j \in DOMAIN Loaded /\ SaveAndArm(s) /\ gone' = gone \cup {j}
        /\ up' /\ UNCHANGED <<clock, added, done, edited>>
    BY <1>4 DEF RemoveJob
  <2> HIDE DEF s
  <2>3. gone' \subseteq added' /\ DOMAIN s \subseteq added'
        /\ \A i \in gone' : Out(s, i)
    BY <1>0, <2>1, <2>2, LoadedIs DEF Out
  <2> QED BY <1>0, <2>1, <2>2, <2>3, SaveStep
<1>5. ASSUME NEW j \in Job, NEW enabled \in BOOLEAN, EnableJob(j, enabled)
      PROVE  IInv'
  <2> DEFINE on  == [Loaded[j] EXCEPT !.enabled = TRUE]
             new == IF enabled THEN Moved(on, j) ELSE Off(Loaded[j])
             s   == [Loaded EXCEPT ![j] = new]
  <2>1. j \in DOMAIN Loaded /\ Loaded[j] \in Entry
    BY <1>5, LoadedIs, StoreIs DEF EnableJob
  <2>2. on \in Entry
    BY <2>1 DEF Entry
  <2> HIDE DEF on
  <2>3. new \in Entry /\ (~enabled => ~new.enabled)
    BY <1>0, <2>1, <2>2, MovedType, OffType
  <2>4. SaveAndArm(s) /\ up' /\ UNCHANGED <<clock, added, done, edited>>
        /\ gone' = (IF enabled THEN gone \ {j} ELSE gone \cup {j})
    BY <1>5 DEF EnableJob, on
  <2> HIDE DEF new
  <2>5. s \in Stores /\ DOMAIN s = DOMAIN Loaded
        /\ \A i \in DOMAIN Loaded : s[i] = IF i = j THEN new ELSE Loaded[i]
    BY <2>3, LoadedIs, ReplacedType
  <2> HIDE DEF s
  <2>6. gone' \subseteq added' /\ DOMAIN s \subseteq added'
        /\ \A i \in gone' : Out(s, i)
    BY <1>0, <2>1, <2>3, <2>4, <2>5, LoadedIs DEF Out
  <2> QED BY <1>0, <2>4, <2>5, <2>6, SaveStep
<1>6. CASE Look
  <2>1. TypeOK'
    BY <1>6, LoadedIs DEF Look, Reload, TypeOK
  <2>2. GoneIsOut' /\ Known' /\ Executing' /\ InStep'
    BY <1>0, <1>6, LoadedIs
       DEF Look, Reload, Tick, GoneIsOut, Known, Executing, InStep, Out
  <2>3. Watched'
    BY <1>0, <1>6 DEF Look, Reload, Tick, Watched, InStep, Loaded, Watch, Runnable
  <2> QED BY <2>1, <2>2, <2>3
<1>7. CASE Fire
  <2>1. DueIn(Loaded) \in Stores
        /\ DOMAIN DueIn(Loaded) \subseteq {j \in DOMAIN Loaded : Loaded[j].enabled}
    BY DueType, LoadedIs
  <2>2. \A j \in gone : Out(Loaded, j) /\ j \notin DOMAIN DueIn(Loaded)
    BY <2>1, LoadedIs DEF Out
  <2>3. RunNext(Loaded, DueIn(Loaded), TRUE) /\ up /\ up' = up
        /\ UNCHANGED <<clock, added, gone, done, edited>>
    BY <1>7 DEF Fire
  <2> QED BY <1>0, <2>1, <2>2, <2>3, LoadedIs, RunStep
<1>8. CASE JobEnds
  <2> DEFINE j    == tick.job
             e    == tick.due[j]
             s    == Executed(mem, j, e)
             rest == Without(tick.due, j)
  <2>1. j \in DOMAIN tick.due /\ tick.due \in Stores
    BY <1>0, <1>8 DEF JobEnds, Executing, Tick
  <2>2. j \in Job /\ e \in Entry /\ tick.fresh \in BOOLEAN
    BY <1>0, <2>1, StoreIs DEF Tick
  <2>3. s \in Stores /\ DOMAIN s \subseteq DOMAIN mem
        /\ \A i \in DOMAIN s : ~mem[i].enabled => ~s[i].enabled
    BY <1>0, <2>2, ExecutedType
  <2>4. rest \in Stores /\ DOMAIN rest = DOMAIN tick.due \ {j}
    BY <2>1, WithoutType
  <2>5. RunNext(s, rest, tick.fresh) /\ up /\ up' = up
        /\ UNCHANGED <<clock, added, gone, edited>>
        /\ done' = done \cup {<<j, e.next>>}
    BY <1>8 DEF JobEnds
  <2>6. <<j, e.next>> \in Job \X (0 .. MaxClock + 1)
    BY <2>2 DEF Entry
  <2> HIDE DEF j, e, s, rest
  <2>7. DOMAIN s \subseteq added
        /\ \A i \in gone : Out(s, i) /\ i \notin DOMAIN rest
    BY <2>3, <2>4 DEF Known, GoneIsOut, Out
  <2>8. done' \subseteq Job \X (0 .. MaxClock + 1)
    BY <1>0, <2>5, <2>6
  <2> QED BY <2>2, <2>3, <2>4, <2>5, <2>7, <2>8, RunStep
<1>9. ASSUME NEW j \in Job, TimePasses(j)
      PROVE  IInv'
  <2>1. clock' \in [Job -> 0 .. MaxClock]
    BY <1>0, <1>9, CronServiceAssumption
       DEF CronServiceAssumption, TimePasses
  <2>2. UNCHANGED <<disk, mem, behind, up, tick, added, gone, done, edited>>
    BY <1>9 DEF TimePasses
  <2>3. TypeOK' /\ GoneIsOut' /\ Known' /\ Executing' /\ InStep'
    BY <2>1, <2>2 DEF TypeOK, GoneIsOut, Known, Executing, InStep, Out
  <2>4. Watched'
    BY <2>2 DEF Watched, Watch, Runnable
  <2> QED BY <2>3, <2>4
<1>10. ASSUME NEW j \in Job, NEW kind \in Kind, OthersAdd(j, kind)
       PROVE  IInv'
  <2> DEFINE e == [kind |-> kind, enabled |-> TRUE, next |-> NextRun(kind, j)]
             s == With(disk, j, e)
  <2>1. e \in Entry
    BY <1>0, NextRunType DEF Entry
  <2> HIDE DEF e
  <2>2. s \in Stores /\ DOMAIN s = DOMAIN disk \cup {j}
        /\ \A i \in DOMAIN disk \ {j} : s[i] = disk[i]
    BY <1>0, <2>1, WithType
  <2>3. j \notin added /\ OthersWrite(s) /\ added' = added \cup {j}
    BY <1>10 DEF OthersAdd, e
  <2> HIDE DEF s
  <2>4. DOMAIN s \subseteq added' /\ \A i \in gone : Out(s, i)
    BY <1>0, <2>2, <2>3 DEF Known, GoneIsOut, Out
  <2> QED BY <1>0, <2>2, <2>3, <2>4, OthersStep
<1>11. ASSUME NEW j \in Job, OthersDisable(j)
       PROVE  IInv'
  <2> DEFINE s == [disk EXCEPT ![j] = Off(disk[j])]
  <2>1. Off(disk[j]) \in Entry /\ ~Off(disk[j]).enabled
    BY <1>0, <1>11, StoreIs, OffType DEF OthersDisable
  <2>2. s \in Stores /\ DOMAIN s = DOMAIN disk
        /\ \A i \in DOMAIN disk :
               s[i] = IF i = j THEN Off(disk[j]) ELSE disk[i]
    BY <1>0, <2>1, ReplacedType
  <2>3. OthersWrite(s) /\ added' = added
    BY <1>11 DEF OthersDisable
  <2> HIDE DEF s
  <2>4. DOMAIN s \subseteq added' /\ \A i \in gone : Out(s, i)
    BY <2>1, <2>2, <2>3 DEF Known, GoneIsOut, Out
  <2> QED BY <1>0, <2>2, <2>3, <2>4, OthersStep
<1>12. ASSUME NEW j \in Job, OthersRemove(j)
       PROVE  IInv'
  <2> DEFINE s == Without(disk, j)
  <2>1. s \in Stores /\ DOMAIN s = DOMAIN disk \ {j}
        /\ \A i \in DOMAIN disk \ {j} : s[i] = disk[i]
    BY <1>0, WithoutType
  <2>2. OthersWrite(s) /\ added' = added
    BY <1>12 DEF OthersRemove
  <2> HIDE DEF s
  <2>3. DOMAIN s \subseteq added' /\ \A i \in gone : Out(s, i)
    BY <2>1, <2>2 DEF Known, GoneIsOut, Out
  <2> QED BY <1>0, <2>1, <2>2, <2>3, OthersStep
<1>13. CASE UNCHANGED vars
  <2>1. UNCHANGED <<disk, mem, behind, up, tick, clock, added, gone, done,
                    edited>>
    BY <1>13 DEF vars
  <2>2. TypeOK' /\ GoneIsOut' /\ Known' /\ Executing' /\ InStep'
    BY <2>1 DEF TypeOK, GoneIsOut, Known, Executing, InStep, Out
  <2>3. Watched'
    BY <2>1 DEF Watched, Watch, Runnable
  <2> QED BY <2>2, <2>3
<1> QED BY <1>1, <1>2, <1>3, <1>4, <1>5, <1>6, <1>7, <1>8, <1>9, <1>10,
           <1>11, <1>12, <1>13 DEF Next

LEMMA Invariant == Spec => []IInv
BY Initially, Inductive, PTL DEF Spec

-----------------------------------------------------------------------------
(* The theorems                                                            *)

\* The variables stay in their types, whatever is interleaved with what.
THEOREM TypeCorrect == Spec => []TypeOK
<1>1. IInv => TypeOK
  BY DEF IInv
<1> QED BY <1>1, Invariant, PTL

\* While no other process edits the job file, the timer is never left unset or
\* set too late: every runnable job is waited for, or the timer task is busy.
THEOREM TimerIsArmed == Spec => []Watched
<1>1. IInv => Watched
  BY DEF IInv
<1> QED BY <1>1, Invariant, PTL

\* A job removed or disabled in a chat turn is not started again, even when the
\* other process edits the job file meanwhile.
THEOREM RemovedIsFinal == Spec => RemovedNeverStarts
<1>1. ASSUME IInv, IInv', [Next]_vars, NEW j \in gone
      PROVE  ~Starts(j)
  <2> SUFFICES ASSUME Starts(j) PROVE FALSE
    OBVIOUS
  <2>1. j \in DOMAIN tick'.due
    BY <1>1 DEF IInv, Executing, Starts
  <2>2. j \in gone'
    <3>1. CASE \E i \in Job, enabled \in BOOLEAN : EnableJob(i, enabled)
      <4>1. PICK i \in Job, enabled \in BOOLEAN : EnableJob(i, enabled)
        BY <3>1
      <4>2. mem' \in Stores /\ tick' = Armed(mem')
        BY <1>1, <4>1 DEF EnableJob, SaveAndArm, Save, IInv, TypeOK
      <4> QED BY <4>2, ArmedType DEF Starts
    <3>2. CASE ~(\E i \in Job, enabled \in BOOLEAN : EnableJob(i, enabled))
      BY <1>1, <3>2
         DEF Next, vars, Start, Down, Look, Fire, JobEnds, AddJob, OthersAdd,
             RemoveJob, TimePasses, OthersDisable, OthersRemove, OthersWrite
    <3> QED BY <3>1, <3>2
  <2> QED BY <1>1, <2>1, <2>2 DEF IInv, GoneIsOut
<1>2. IInv /\ IInv' /\ [Next]_vars => [\A j \in gone : ~Starts(j)]_vars
  BY <1>1
<1> QED BY <1>2, Invariant, PTL DEF Spec, RemovedNeverStarts

-----------------------------------------------------------------------------
(* Occasions are served once.                                              *)

\* What is runnable in s waits for an occasion nobody served.
Unserved(s) == \A j \in DOMAIN s : Runnable(s[j]) => <<j, s[j].next>> \notin done

\* Served occasions are past, so that a schedule never names one of them, and
\* neither do the store and the list of the timer task.
Served ==
    /\ \A j \in Job, n \in Nat : <<j, n>> \in done => n <= clock[j]
    /\ up => Unserved(mem)
    /\ tick.at = "running" =>
           /\ up /\ tick.fresh
           /\ \A j \in DOMAIN tick.due :
                  /\ tick.due[j].next <= clock[j]
                  /\ <<j, tick.due[j].next>> \notin done

LEMMA NextIsNew ==
    ASSUME IInv, Served, NEW e \in Entry, NEW j \in Job
    PROVE  /\ <<j, NextRun(e.kind, j)>> \notin done \/ NextRun(e.kind, j) = 0
           /\ Moved(e, j).next = NextRun(e.kind, j)
<1>1. clock[j] \in Nat
  BY CronServiceAssumption DEF CronServiceAssumption, IInv, TypeOK
<1>2. NextRun(e.kind, j) \in Nat
      /\ (NextRun(e.kind, j) = 0 \/ NextRun(e.kind, j) > clock[j])
  BY <1>1 DEF NextRun
<1>3. Moved(e, j).next = NextRun(e.kind, j)
  BY DEF Moved, Entry
<1> QED BY <1>1, <1>2, <1>3 DEF Served

\* A change saved by a chat turn or at the start.
LEMMA ServedSave ==
    ASSUME Served, NEW s \in Stores, SaveAndArm(s), Unserved(s),
           clock' = clock, done' = done
    PROVE  Served'
<1>1. mem' = s /\ tick'.at # "running"
  BY ArmedType DEF SaveAndArm, Save
<1> QED BY <1>1 DEF Served, Unserved, Runnable

LEMMA ServedStep ==
    ASSUME ~edited, ~edited', IInv, IInv', Served, [Next]_vars
    PROVE  Served'
<1>0. /\ disk \in Stores /\ mem \in Stores /\ tick \in Tick
      /\ clock \in [Job -> 0 .. MaxClock]
      /\ done \subseteq Job \X (0 .. MaxClock + 1)
      /\ up => Loaded = mem
  BY DEF IInv, TypeOK, Tick, InStep, Loaded
<1>1. CASE Start
  <2>1. \A j \in DOMAIN disk : j \in Job /\ disk[j] \in Entry
    BY <1>0, StoreIs
  <2>2. Unserved(Recomputed(disk))
    BY <2>1, NextIsNew DEF Unserved, Recomputed, Runnable
  <2> QED BY <1>0, <1>1, <2>2, RecomputedType, ServedSave DEF Start
<1>2. CASE Down
  BY <1>2 DEF Down, Served, NoTick
<1>3. ASSUME NEW j \in Job, NEW kind \in Kind, AddJob(j, kind)
      PROVE  Served'
  <2> DEFINE e == [kind |-> kind, enabled |-> TRUE, next |-> NextRun(kind, j)]
             s == With(mem, j, e)
  <2>1. e \in Entry /\ e.kind = kind /\ e.next = NextRun(kind, j)
    BY <1>0, NextRunType DEF Entry
  <2>2. up /\ SaveAndArm(s) /\ clock' = clock /\ done' = done
    BY <1>0, <1>3 DEF AddJob
  <2> HIDE DEF e
  <2>3. s \in Stores /\ DOMAIN s = DOMAIN mem \cup {j} /\ s[j] = e
        /\ \A i \in DOMAIN mem \ {j} : s[i] = mem[i]
    <3>1. s[j] = e
      BY DEF With
    <3> QED BY <1>0, <2>1, <3>1, WithType
  <2> HIDE DEF s
  <2>4. Runnable(e) => <<j, e.next>> \notin done
    BY <2>1, NextIsNew DEF Runnable
  <2>5. Unserved(s)
    BY <2>2, <2>3, <2>4 DEF Unserved, Served
  <2> QED BY <2>2, <2>3, <2>5, ServedSave
<1>4. ASSUME NEW j \in Job, RemoveJob(j)
      PROVE  Served'
  <2>1. Without(mem, j) \in Stores /\ DOMAIN Without(mem, j) = DOMAIN mem \ {j}
        /\ \A i \in DOMAIN mem \ {j} : Without(mem, j)[i] = mem[i]
    BY <1>0, WithoutType
  <2>2. Unserved(Without(mem, j))
    BY <1>4, <2>1 DEF RemoveJob, Unserved, Served
  <2> QED BY <1>0, <1>4, <2>1, <2>2, ServedSave DEF RemoveJob
<1>5. ASSUME NEW j \in Job, NEW enabled \in BOOLEAN, EnableJob(j, enabled)
      PROVE  Served'
  <2> DEFINE on  == [mem[j] EXCEPT !.enabled = TRUE]
             new == IF enabled THEN Moved(on, j) ELSE Off(mem[j])
             s   == [mem EXCEPT ![j] = new]
  <2>1. up /\ SaveAndArm(s) /\ clock' = clock /\ done' = done
        /\ j \in DOMAIN mem
    BY <1>0, <1>5 DEF EnableJob
  <2>2. mem[j] \in Entry /\ on \in Entry
    BY <1>0, <2>1, StoreIs, OnType
  <2> HIDE DEF on
  <2>3. new \in Entry /\ (Runnable(new) => <<j, new.next>> \notin done)
    <3>1. CASE enabled
      <4>1. new = Moved(on, j) /\ new \in Entry
        BY <1>0, <2>2, <3>1, MovedType
      <4> QED BY <2>2, <4>1, NextIsNew DEF Runnable
    <3>2. CASE ~enabled
      BY <2>2, <3>2, OffType DEF Runnable
    <3> QED BY <3>1, <3>2
  <2> HIDE DEF new
  <2>4. s \in Stores /\ DOMAIN s = DOMAIN mem
        /\ \A i \in DOMAIN mem : s[i] = IF i = j THEN new ELSE mem[i]
    BY <1>0, <2>3, ReplacedType
  <2> HIDE DEF s
  <2>5. Unserved(s)
    BY <2>1, <2>3, <2>4 DEF Unserved, Served
  <2> QED BY <2>1, <2>4, <2>5, ServedSave
<1>6. CASE Look
  BY <1>0, <1>6 DEF Look, Reload, Tick, Served, Unserved, Runnable, IInv, InStep
<1>7. CASE Fire
  <2>1. up /\ up' = up /\ Loaded = mem /\ Unserved(mem)
        /\ clock' = clock /\ done' = done
        /\ RunNext(mem, DueIn(mem), TRUE)
    BY <1>0, <1>7 DEF Fire, Served
  <2>2. CASE DueIn(mem) = Empty
    BY <1>0, <2>1, <2>2, ServedSave DEF RunNext
  <2>3. CASE DueIn(mem) # Empty
    <3>1. tick'.due = DueIn(mem) /\ tick'.fresh = TRUE /\ mem' = mem
      BY <2>1, <2>3 DEF RunNext
    <3>2. \A j \in DOMAIN DueIn(mem) : /\ j \in DOMAIN mem
                                      /\ DueIn(mem)[j] = mem[j]
                                      /\ Runnable(mem[j])
                                      /\ mem[j].next <= clock[j]
      BY <1>0, RestrictType DEF DueIn
    <3> QED BY <2>1, <3>1, <3>2 DEF Served, Unserved, Runnable
  <2> QED BY <2>2, <2>3
<1>8. CASE JobEnds
  <2> DEFINE j    == tick.job
             e    == tick.due[j]
             s    == Executed(mem, j, e)
             rest == Without(tick.due, j)
  <2>1. /\ up /\ up' = up /\ clock' = clock /\ tick.at = "running"
        /\ done' = done \cup {<<j, e.next>>}
        /\ RunNext(s, rest, tick.fresh)
    BY <1>8 DEF JobEnds
  <2>2. /\ j \in DOMAIN tick.due /\ tick.due \in Stores /\ tick.fresh
        /\ e.next <= clock[j] /\ Unserved(mem)
    BY <1>0, <2>1 DEF IInv, Executing, Tick, Served
  <2>3. j \in Job /\ e \in Entry /\ clock[j] \in Nat /\ e.next \in Nat
    BY <1>0, <2>2, StoreIs, CronServiceAssumption
       DEF CronServiceAssumption, Entry
  <2>4. rest \in Stores /\ DOMAIN rest = DOMAIN tick.due \ {j}
        /\ \A i \in DOMAIN tick.due \ {j} : rest[i] = tick.due[i]
    BY <2>2, WithoutType
  <2>5. s \in Stores /\ DOMAIN s \subseteq DOMAIN mem
    BY <1>0, <2>3, ExecutedType DEF IInv
  \* The other jobs keep their entries; this one is over or has moved on.
  <2>6. \A i \in DOMAIN s : i # j => s[i] = mem[i]
    BY <1>0, <2>2, WithoutType, StoreIs DEF Executed
  <2>7. ASSUME j \in DOMAIN s, Runnable(s[j])
        PROVE  s[j].next \notin {e.next, 0} /\ <<j, s[j].next>> \notin done
    <3>1. mem[j] \in Entry /\ j \in DOMAIN mem
      BY <1>0, <2>5, <2>7, StoreIs
    <3>2. e.kind # "once"
      BY <1>0, <2>7, WithoutType DEF Executed
    <3>3. s[j] = IF e.kind = "at" THEN Off(mem[j]) ELSE Moved(mem[j], j)
      BY <1>0, <2>2, <3>1, <3>2, StoreIs DEF Executed
    <3>4. s[j] = Moved(mem[j], j) /\ s[j].next # 0
      BY <2>7, <3>1, <3>3, OffType DEF Runnable
    <3>5. s[j].next = NextRun(mem[j].kind, j) /\ <<j, s[j].next>> \notin done
      BY <2>3, <3>1, <3>4, NextIsNew
    <3>6. s[j].next > clock[j]
      BY <2>3, <3>4, <3>5 DEF NextRun
    <3> QED BY <2>2, <2>3, <3>4, <3>5, <3>6
  <2> HIDE DEF s, rest, e, j
  <2>8. \A i \in Job, n \in Nat : <<i, n>> \in done' => n <= clock'[i]
    BY <2>1, <2>2, <2>3 DEF Served
  <2>9. \A i \in DOMAIN s : Runnable(s[i]) => <<i, s[i].next>> \notin done'
    BY <2>1, <2>2, <2>5, <2>6, <2>7 DEF Unserved
  <2>10. \A i \in DOMAIN rest : /\ rest[i].next <= clock[i]
                                /\ <<i, rest[i].next>> \notin done'
    BY <2>1, <2>4 DEF Served
  <2>11. CASE rest = Empty
    <3>1. mem' = s /\ tick'.at # "running"
      BY <2>1, <2>5, <2>11, ArmedType DEF RunNext, SaveAndArm, Save
    <3>2. Unserved(mem)'
      BY <2>9, <3>1 DEF Unserved, Runnable
    <3> QED BY <2>8, <3>1, <3>2 DEF Served
  <2>12. CASE rest # Empty
    <3>1. mem' = s /\ tick'.due = rest /\ tick'.fresh = tick.fresh
      BY <2>1, <2>12 DEF RunNext
    <3>2. Unserved(mem)'
      BY <2>9, <3>1 DEF Unserved, Runnable
    <3> QED BY <2>1, <2>2, <2>8, <2>10, <3>1, <3>2 DEF Served
  <2> QED BY <2>11, <2>12
<1>9. ASSUME NEW j \in Job, TimePasses(j)
      PROVE  Served'
  <2>1. UNCHANGED <<mem, up, tick, done>>
    BY <1>9 DEF TimePasses
  <2>2. \A i \in Job : clock[i] \in Nat /\ clock'[i] \in Nat
                      /\ clock[i] <= clock'[i]
    BY <1>0, <1>9, CronServiceAssumption DEF CronServiceAssumption, TimePasses
  <2>3. \A i \in DOMAIN tick.due : i \in Job /\ tick.due[i].next \in Nat
    BY <1>0, StoreIs, CronServiceAssumption
       DEF CronServiceAssumption, Tick, Entry
  <2>4. \A i \in Job, n \in Nat : <<i, n>> \in done' => n <= clock'[i]
    BY <2>1, <2>2 DEF Served
  <2>5. ASSUME tick.at = "running", NEW i \in DOMAIN tick.due
        PROVE  tick.due[i].next <= clock'[i]
    <3>1. tick.due[i].next <= clock[i]
      BY <2>5 DEF Served
    <3> QED BY <2>2, <2>3, <3>1
  <2> QED BY <2>1, <2>4, <2>5 DEF Served, Unserved, Runnable
<1>10. CASE \E j \in Job, kind \in Kind : OthersAdd(j, kind)
  BY <1>10 DEF OthersAdd, OthersWrite
<1>11. CASE \E j \in Job : OthersDisable(j) \/ OthersRemove(j)
  BY <1>11 DEF OthersDisable, OthersRemove, OthersWrite
<1>12. CASE UNCHANGED vars
  BY <1>12 DEF vars, Served, Unserved, Runnable
<1> QED BY <1>1, <1>2, <1>3, <1>4, <1>5, <1>6, <1>7, <1>8, <1>9, <1>10,
           <1>11, <1>12 DEF Next

\* While no other process edits the job file, no occasion is served again after
\* its job ran to its end: not after a cancellation later in the same list of
\* jobs, and not after a kill before the save.
THEOREM OccasionsServedOnce == Spec => ServedOnce
<1> DEFINE ServedInv == ~edited => Served
<1>1. Init => ServedInv
  BY DEF Init, Served, NoTick
<1>2. [Next]_vars => (edited => edited')
  BY DEF Next, vars, Start, Down, Look, Fire, JobEnds, AddJob, OthersAdd,
         RemoveJob, EnableJob, TimePasses, OthersDisable, OthersRemove,
         OthersWrite
<1>3. IInv /\ IInv' /\ ServedInv /\ [Next]_vars => ServedInv'
  <2> SUFFICES ASSUME IInv, IInv', ServedInv, [Next]_vars, ~edited'
               PROVE  Served'
    OBVIOUS
  <2> QED BY <1>2, ServedStep
<1>4. ASSUME IInv, IInv', ServedInv, ServedInv', [Next]_vars,
             NEW j \in Job, Starts(j), ~edited
      PROVE  <<j, tick'.due[j].next>> \notin done
  <2>1. ~edited'
    BY <1>4 DEF Next, vars, Start, Down, Look, Fire, JobEnds, AddJob, OthersAdd,
         RemoveJob, EnableJob, TimePasses, OthersDisable, OthersRemove,
         OthersWrite, Starts
  <2>2. j \in DOMAIN tick'.due /\ <<j, tick'.due[j].next>> \notin done'
    BY <1>4, <2>1 DEF IInv, Executing, Served, Starts
  <2>3. done \subseteq done'
    BY <1>4 DEF Next, vars, Start, Down, Look, Fire, JobEnds, AddJob, OthersAdd,
                RemoveJob, EnableJob, TimePasses, OthersDisable, OthersRemove,
                OthersWrite
  <2> QED BY <2>2, <2>3
<1>5. IInv /\ IInv' /\ ServedInv /\ ServedInv' /\ [Next]_vars =>
      [\A j \in Job : Starts(j) /\ ~edited
                      => <<j, tick'.due[j].next>> \notin done]_vars
  BY <1>4
<1> QED BY <1>1, <1>3, <1>5, Initially, Invariant, PTL DEF Spec, ServedOnce
=============================================================================
