------------------------- MODULE ChatSessionsProofs -------------------------
(***************************************************************************)
(* For any chats, cron jobs and lengths of their sessions, any number of   *)
(* faults and any thresholds.                                              *)
(***************************************************************************)
EXTENDS ChatSessions, SequenceTheorems, TLAPS

SessionsOK ==
    /\ disk \in [Key -> SessionType]
    /\ heap \in [Key -> Seq(SessionType)] /\ cache \in [Key -> Nat]
    /\ \A k \in Key : cache[k] <= Len(heap[k])

BusOK == inbox \in Seq(Message) /\ came \in [Key -> Old..MaxTurn]

Placed(t) ==
    /\ task[t].pc \in {"fit", "fitting", "agent"} =>
           task[t].obj \in 1..Len(heap[KeyOf(t)])
    /\ task[t].pc = "archive" => task[t].left > 0

TasksOK ==
    /\ task \in [Turn \cup After -> TaskType]
    /\ \A t \in Turn \cup After : Placed(t)

MemoryOK ==
    /\ failures \in 0 .. RawAfter - 1 + faults
    /\ archived \in [Key -> [Number -> Nat]]
    /\ faults \in Nat

LockOK == fitting \in [Key -> Turn \cup After \cup {None}]
ToolOK == tool \in [ctx : Key \cup {None}, sent : BOOLEAN]

LEMMA TypeParts == TypeOK <=> SessionsOK /\ BusOK /\ TasksOK /\ MemoryOK /\ LockOK /\ ToolOK
BY DEF TypeOK, SessionsOK, BusOK, TasksOK, MemoryOK, LockOK, ToolOK, Placed

LEMMA TypePartsNext ==
    TypeOK' <=> SessionsOK' /\ BusOK' /\ TasksOK' /\ MemoryOK' /\ LockOK' /\ ToolOK'
BY DEF TypeOK, SessionsOK, BusOK, TasksOK, MemoryOK, LockOK, ToolOK, Placed

LEMMA Constants ==
    /\ Chat \subseteq Key /\ Cron \subseteq Key /\ Chat \cap Cron = {}
    /\ Old \in Nat /\ MaxTurn \in Nat /\ MaxCron \in Nat /\ MaxFaults \in Nat
    /\ MaxCron <= MaxTurn /\ Old <= MaxTurn
    /\ MaxRounds \in Nat \ {0} /\ RawAfter \in Nat \ {0}
BY SessionsAssumption DEF SessionsAssumption, Key

\* A turn, the task it leaves, and what they are named after.
LEMMA TurnParts ==
    ASSUME NEW t \in Turn \cup After
    PROVE  /\ KeyOf(t) \in Key /\ t[2] \in Number
           /\ t \in Turn => t = <<KeyOf(t), t[2], "turn">>
           /\ t \in After => t = <<KeyOf(t), t[2], "after">>
           /\ <<KeyOf(t), t[2], "after">> \in After
           /\ Name(t) = <<KeyOf(t), t[2]>>
BY DEF Turn, After, KeyOf, Name

LEMMA NewTurn ==
    ASSUME NEW k \in Key, NEW n \in Number
    PROVE  /\ <<k, n, "turn">> \in Turn /\ <<k, n, "after">> \in After
           /\ KeyOf(<<k, n, "turn">>) = k /\ KeyOf(<<k, n, "after">>) = k
           /\ Name(<<k, n, "turn">>) = <<k, n>>
BY DEF Turn, After, KeyOf, Name

LEMMA NoTurnIsAfter ==
    ASSUME NEW t \in Turn, NEW u \in After PROVE t # u
BY DEF Turn, After

LEMMA Records ==
    /\ Idle \in TaskType /\ Done \in TaskType
    /\ Idle.pc = "none" /\ Done.pc = "done"
    /\ EmptySession \in SessionType /\ EmptySession.log = <<>> /\ EmptySession.cons = 0
BY EmptySeq DEF Idle, Done, TaskType, EmptySession, SessionType
-----------------------------------------------------------------------------
(* How the session objects change                                           *)

LEMMA OpenedType ==
    ASSUME SessionsOK, NEW k \in Key
    PROVE  /\ Opened(k) \in Seq(SessionType) /\ Got(k) \in 1..Len(Opened(k))
           /\ Len(heap[k]) \in Nat /\ Len(Opened(k)) >= Len(heap[k])
           /\ \A i \in 1..Len(Opened(k)) :
                 Opened(k)[i] = IF i <= Len(heap[k]) THEN heap[k][i] ELSE disk[k]
<1>1. /\ heap[k] \in Seq(SessionType) /\ disk[k] \in SessionType /\ cache[k] \in Nat
      /\ cache[k] <= Len(heap[k]) /\ Len(heap[k]) \in Nat
  BY DEF SessionsOK
<1>2. CASE cache[k] # 0
  BY <1>1, <1>2 DEF Opened, Got
<1>3. CASE cache[k] = 0
  BY <1>1, <1>3 DEF Opened, Got
<1> QED BY <1>2, <1>3

LEMMA OpenType ==
    ASSUME SessionsOK, NEW k \in Key, GetOrCreate(k), disk' = disk
    PROVE  /\ SessionsOK' /\ Got(k) \in 1..Len(heap'[k])
           /\ \A j \in Key : Len(heap[j]) \in Nat /\ Len(heap[j]) <= Len(heap'[j])
<1>1. /\ heap' = [heap EXCEPT ![k] = Opened(k)] /\ cache' = [cache EXCEPT ![k] = Got(k)]
  BY DEF GetOrCreate
<1>2. /\ heap \in [Key -> Seq(SessionType)] /\ cache \in [Key -> Nat]
      /\ \A j \in Key : cache[j] <= Len(heap[j])
  BY DEF SessionsOK
<1>3. \A j \in Key : Len(heap[j]) \in Nat
  BY <1>2
<1> QED BY <1>1, <1>2, <1>3, OpenedType DEF SessionsOK

LEMMA SaveType ==
    ASSUME SessionsOK, NEW k \in Key, NEW o \in 1..Len(heap[k]), NEW s \in SessionType,
           Save(k, o, s) \/ SaveFails(k, o, s)
    PROVE  /\ SessionsOK'
           /\ \A j \in Key : Len(heap[j]) \in Nat /\ Len(heap[j]) = Len(heap'[j])
<1>1. /\ heap \in [Key -> Seq(SessionType)] /\ cache \in [Key -> Nat]
      /\ \A j \in Key : cache[j] <= Len(heap[j]) /\ Len(heap[j]) \in Nat
  BY DEF SessionsOK
<1>2. /\ heap' = [heap EXCEPT ![k][o] = s]
      /\ disk' = [disk EXCEPT ![k] = s] \/ disk' = disk
      /\ cache' = [cache EXCEPT ![k] = o] \/ cache' = cache
  BY DEF Save, SaveFails
<1>3. [heap[k] EXCEPT ![o] = s] \in Seq(SessionType) /\ Len([heap[k] EXCEPT ![o] = s]) = Len(heap[k])
  BY <1>1, ExceptSeq
<1>4. \A j \in Key : heap'[j] = IF j = k THEN [heap[k] EXCEPT ![o] = s] ELSE heap[j]
  BY <1>1, <1>2
<1>5. heap' \in [Key -> Seq(SessionType)] /\ \A j \in Key : Len(heap'[j]) = Len(heap[j])
  BY <1>1, <1>2, <1>3, <1>4
<1>6. disk' \in [Key -> SessionType] /\ cache' \in [Key -> Nat]
  <2>1. o \in Nat /\ disk \in [Key -> SessionType]
    BY <1>1 DEF SessionsOK
  <2>2. cache' \in [Key -> Nat]
    BY <1>1, <1>2, <2>1
  <2> QED BY <1>2, <2>1, <2>2
<1>7. \A j \in Key : cache'[j] <= Len(heap'[j])
  BY <1>1, <1>2, <1>5
<1> QED BY <1>1, <1>5, <1>6, <1>7 DEF SessionsOK

\* What TasksOK asks of the other tasks still holds when no object is dropped.
LEMMA TasksKept ==
    ASSUME TasksOK, NEW T \in SUBSET (Turn \cup After),
           task' \in [Turn \cup After -> TaskType],
           \A j \in Key : Len(heap[j]) \in Nat /\ Len(heap'[j]) \in Nat
                          /\ Len(heap[j]) <= Len(heap'[j]),
           \A t \in (Turn \cup After) \ T : task'[t] = task[t],
           \A t \in T : Placed(t)'
    PROVE  TasksOK'
<1> SUFFICES ASSUME NEW t \in Turn \cup After, t \notin T PROVE Placed(t)'
  BY DEF TasksOK
<1>1. KeyOf(t) \in Key
  BY TurnParts
<1>2. Placed(t) /\ task'[t] = task[t]
  BY DEF TasksOK
<1> QED BY <1>1, <1>2 DEF Placed

\* The same when no session object changes.
LEMMA TasksMoved ==
    ASSUME TasksOK, SessionsOK, heap' = heap, NEW T \in SUBSET (Turn \cup After),
           task' \in [Turn \cup After -> TaskType],
           \A t \in (Turn \cup After) \ T : task'[t] = task[t],
           \A t \in T : Placed(t)'
    PROVE  TasksOK'
<1>1. \A j \in Key : heap[j] \in Seq(SessionType) /\ Len(heap[j]) \in Nat
  BY DEF SessionsOK
<1> QED BY <1>1, TasksKept

LEMMA TwoTasks ==
    ASSUME TasksOK, NEW t \in Turn \cup After, NEW v \in Turn \cup After,
           task' \in [Turn \cup After -> TaskType],
           \A j \in Key : Len(heap[j]) \in Nat /\ Len(heap'[j]) \in Nat
                          /\ Len(heap[j]) <= Len(heap'[j]),
           \A u \in (Turn \cup After) \ {t, v} : task'[u] = task[u],
           Placed(t)', Placed(v)'
    PROVE  TasksOK'
<1> SUFFICES ASSUME NEW u \in Turn \cup After PROVE Placed(u)'
  BY DEF TasksOK
<1>1. CASE u \in {t, v}
  BY <1>1
<1>2. CASE u \notin {t, v}
  <2>1. KeyOf(u) \in Key
    BY TurnParts
  <2>2. Placed(u) /\ task'[u] = task[u]
    BY <1>2 DEF TasksOK
  <2> QED BY <2>1, <2>2 DEF Placed
<1> QED BY <1>1, <1>2

LEMMA OneTask ==
    ASSUME TasksOK, SessionsOK, heap' = heap, NEW t \in Turn \cup After,
           task' \in [Turn \cup After -> TaskType],
           \A u \in (Turn \cup After) \ {t} : task'[u] = task[u],
           Placed(t)'
    PROVE  TasksOK'
<1>1. \A j \in Key : heap[j] \in Seq(SessionType) /\ Len(heap[j]) \in Nat
  BY DEF SessionsOK
<1> QED BY <1>1, TwoTasks

\* A task that is not at work on an object nor at an archive.
LEMMA Resting ==
    ASSUME NEW t, task'[t].pc \in {"none", "done", "queued", "new"}
    PROVE  Placed(t)'
BY DEF Placed

LEMMA LocksLeft ==
    ASSUME LockOK, NEW t \in Turn \cup After
    PROVE  Released(t) \in [Key -> Turn \cup After \cup {None}]
BY DEF LockOK, Released
LEMMA SameLengths ==
    ASSUME SessionsOK, heap' = heap
    PROVE  \A j \in Key : Len(heap[j]) \in Nat /\ Len(heap[j]) = Len(heap'[j])
<1>1. \A j \in Key : heap[j] \in Seq(SessionType)
  BY DEF SessionsOK
<1> QED BY <1>1

LEMMA ObjectType ==
    ASSUME SessionsOK, TasksOK, NEW t \in Turn \cup After,
           task[t].pc \in {"fit", "fitting", "agent"}
    PROVE  /\ ObjectOf(t) \in SessionType /\ KeyOf(t) \in Key
           /\ task[t].obj \in 1..Len(heap[KeyOf(t)])
<1>1. KeyOf(t) \in Key /\ task[t].obj \in 1..Len(heap[KeyOf(t)])
  BY TurnParts DEF TasksOK, Placed
<1>2. heap[KeyOf(t)] \in Seq(SessionType)
  BY <1>1 DEF SessionsOK
<1> QED BY <1>1, <1>2 DEF ObjectOf

\* Turn t puts its entry into the object it is at work on.
Enters(t) ==
    /\ task[t].pc = "agent"
    /\ \/ Save(KeyOf(t), task[t].obj, Written(t)) \/ SaveFails(KeyOf(t), task[t].obj, Written(t))

LEMMA WrittenType ==
    ASSUME SessionsOK, TasksOK, NEW t \in Turn, task[t].pc = "agent"
    PROVE  Written(t) \in SessionType
<1>1. PICK old \in SessionType : old = ObjectOf(t)
  <2>1. ObjectOf(t) \in SessionType
    BY ObjectType
  <2> QED BY <2>1
<1>2. t[2] \in Number /\ old.log \in Seq(Number)
  BY TurnParts DEF SessionType
<1>3. PICK log \in Seq(Number) : log = Append(old.log, t[2])
  <2>1. \A was \in Seq(Number), n \in Number : Append(was, n) \in Seq(Number)
    OBVIOUS
  <2> QED BY <1>2, <2>1, Zenon
<1>4. Written(t) = [old EXCEPT !.log = log]
  BY <1>1, <1>3 DEF Written
<1> QED BY <1>4 DEF SessionType

LEMMA EntersType ==
    ASSUME SessionsOK, TasksOK, NEW t \in Turn, Enters(t)
    PROVE  /\ SessionsOK'
           /\ \A j \in Key : Len(heap[j]) \in Nat /\ Len(heap[j]) = Len(heap'[j])
<1>1. /\ KeyOf(t) \in Key /\ task[t].obj \in 1..Len(heap[KeyOf(t)])
      /\ Written(t) \in SessionType
  BY ObjectType, WrittenType DEF Enters
<1> QED BY <1>1, SaveType DEF Enters

LEMMA RescueCases ==
    ASSUME NEW t, Rescue(t)
    PROVE  /\ \/ GetOrCreate(KeyOf(t)) /\ UNCHANGED <<disk, kept, faults>>
              \/ Enters(t)
           /\ UNCHANGED faults \/ Fault
<1>1. ASSUME NEW k, NEW o, NEW w, SaveFails(k, o, w)
      PROVE  Fault
  BY <1>1 DEF SaveFails
<1>2. \/ GetOrCreate(KeyOf(t)) /\ UNCHANGED <<disk, kept, faults>>
      \/ /\ task[t].pc = "agent"
         /\ \/ Save(KeyOf(t), task[t].obj, Written(t)) /\ UNCHANGED faults
            \/ SaveFails(KeyOf(t), task[t].obj, Written(t))
  BY DEF Rescue
<1> QED BY <1>1, <1>2 DEF Enters

-----------------------------------------------------------------------------
(* Types                                                                    *)

LEMMA InitType == Init => TypeOK
<1> SUFFICES ASSUME Init PROVE TypeOK
  OBVIOUS
<1>1. [i \in 1..Old |-> i] \in Seq(Number)
  BY Constants DEF Number
<1>2. [log |-> [i \in 1..Old |-> i], cons |-> 0] \in SessionType
  BY <1>1 DEF SessionType
<1>3. SessionsOK
  <2>1. <<>> \in Seq(SessionType) /\ Len(<<>>) = 0
    BY EmptySeq
  <2>2. disk \in [Key -> SessionType]
    BY <1>2 DEF Init
  <2>3. /\ heap \in [Key -> Seq(SessionType)] /\ cache \in [Key -> Nat]
        /\ \A k \in Key : heap[k] = <<>> /\ cache[k] = 0
    BY <2>1 DEF Init
  <2> QED BY <2>1, <2>2, <2>3 DEF SessionsOK
<1>4. BusOK
  BY Constants DEF Init, BusOK
<1>5. TasksOK
  BY Records DEF Init, TasksOK, Placed
<1>6. MemoryOK /\ LockOK /\ ToolOK
  BY Constants DEF Init, MemoryOK, LockOK, ToolOK
<1> QED BY <1>3, <1>4, <1>5, <1>6, TypeParts

LEMMA ComingType ==
    ASSUME TypeOK, Coming PROVE TypeOK'
<1>1. PICK k \in Chat : ComeStop(k) \/ \E cmd \in {"say", "new"} : Come(k, cmd)
  BY DEF Coming
<1>2. /\ SessionsOK /\ BusOK /\ TasksOK /\ MemoryOK /\ LockOK /\ ToolOK /\ k \in Key
  BY TypeParts, Constants
<1>3. /\ UNCHANGED <<sessions, lock, task, fitting, memory, talk, faults>>
  BY <1>1 DEF ComeStop, Come, bounds
<1>4. BusOK'
  <2>1. PICK m \in Message : inbox' = Append(inbox, m)
    <3>1. CASE ComeStop(k)
      BY <3>1, Constants DEF ComeStop, Message
    <3>2. ASSUME NEW cmd \in {"say", "new"}, Come(k, cmd)
          PROVE  \E m \in Message : inbox' = Append(inbox, m)
      <4>1. came[k] \in Old..MaxTurn /\ came[k] < MaxTurn
        BY <1>2, <3>2 DEF Come, BusOK
      <4>2. [key |-> k, n |-> came[k] + 1, cmd |-> cmd] \in Message
        BY <4>1, Constants DEF Message
      <4> QED BY <3>2, <4>2 DEF Come
    <3> QED BY <1>1, <3>1, <3>2
  <2>2. inbox' \in Seq(Message)
    BY <1>2, <2>1 DEF BusOK
  <2>3. came' \in [Key -> Old..MaxTurn]
    BY <1>1, <1>2, Constants DEF BusOK, Come, ComeStop
  <2> QED BY <2>2, <2>3 DEF BusOK
<1>5. SessionsOK' /\ TasksOK'
  BY <1>2, <1>3 DEF SessionsOK, TasksOK, Placed, sessions
<1>6. MemoryOK' /\ LockOK' /\ ToolOK'
  BY <1>2, <1>3 DEF MemoryOK, LockOK, ToolOK, memory, talk
<1> QED BY <1>4, <1>5, <1>6, TypePartsNext

LEMMA ReadInboxType ==
    ASSUME TypeOK, ReadInbox PROVE TypeOK'
<1>1. /\ SessionsOK /\ BusOK /\ TasksOK /\ MemoryOK /\ LockOK /\ ToolOK
  BY TypeParts
<1>2. inbox # <<>> /\ inbox' = Tail(inbox) /\ UNCHANGED <<came, memory>>
  BY DEF ReadInbox
<1>3. Head(inbox) \in Message /\ BusOK'
  BY <1>1, <1>2 DEF BusOK
<1>m. PICK m \in Message : m = Head(inbox)
  BY <1>3
<1> DEFINE t == <<m.key, m.n, "turn">>
<1>5. CASE m.cmd = "stop"
  <2>1. HandleStop(m.key)
    BY <1>5, <1>m DEF ReadInbox
  <2>k. lock.holder \in Stopped(m.key) => lock.holder \in Turn /\ KeyOf(lock.holder) \in Key
    BY TurnParts DEF Stopped, Running
  <2>s. /\ SessionsOK'
        /\ \A j \in Key : /\ Len(heap[j]) \in Nat /\ Len(heap'[j]) \in Nat
                           /\ Len(heap[j]) <= Len(heap'[j])
    <3>1. CASE UNCHANGED sessions
      BY <1>1, <3>1, SameLengths DEF SessionsOK, sessions
    <3>2. CASE lock.holder \in Stopped(m.key) /\ Rescue(lock.holder)
      <4>1. PICK u \in Turn : u = lock.holder /\ KeyOf(u) \in Key
        BY <2>k, <3>2
      <4>2. CASE GetOrCreate(KeyOf(u)) /\ disk' = disk
        <5>1. /\ SessionsOK'
              /\ \A j \in Key : Len(heap[j]) \in Nat /\ Len(heap[j]) <= Len(heap'[j])
          BY <1>1, <4>1, <4>2, OpenType
        <5> QED BY <5>1 DEF SessionsOK
      <4>3. CASE Enters(u)
        BY <1>1, <4>3, EntersType
      <4> QED BY <3>2, <4>1, <4>2, <4>3, RescueCases
    <3> QED BY <2>1, <3>1, <3>2 DEF HandleStop
  <2>m. MemoryOK'
    <3>1. UNCHANGED faults \/ Fault
      BY <2>1, RescueCases DEF HandleStop
    <3> QED BY <1>1, <1>2, <3>1, Constants DEF MemoryOK, memory, Fault
  <2>2. task' = [u \in DOMAIN task |-> IF u \in Stopped(m.key) THEN Done ELSE task[u]]
    BY <2>1 DEF HandleStop
  <2>3. task' \in [Turn \cup After -> TaskType]
    BY <1>1, <2>2, Records DEF TasksOK
  <2>4. \A u \in Stopped(m.key) : Placed(u)'
    <3> SUFFICES ASSUME NEW u \in Stopped(m.key) PROVE Placed(u)'
      OBVIOUS
    <3>1. u \in Turn \cup After
      BY DEF Stopped, Running
    <3>2. task'[u] = Done
      BY <1>1, <2>2, <3>1 DEF TasksOK
    <3> QED BY <3>2, Records, Resting
  <2>5. TasksOK'
    <3>1. Stopped(m.key) \in SUBSET (Turn \cup After)
      BY DEF Stopped, Running
    <3>2. \A u \in (Turn \cup After) \ Stopped(m.key) : task'[u] = task[u]
      BY <1>1, <2>2 DEF TasksOK
    <3> QED BY <1>1, <2>s, <2>3, <2>4, <3>1, <3>2, TasksKept
  <2>6. LockOK' /\ ToolOK'
    BY <1>1, <2>1 DEF LockOK, ToolOK, HandleStop, Over
  <2> QED BY <1>3, <2>s, <2>m, <2>5, <2>6, TypePartsNext
<1>6. CASE m.cmd # "stop"
  <2>1. /\ task' = [task EXCEPT ![t].pc = IF m.cmd = "new" THEN "new" ELSE "queued"]
        /\ UNCHANGED <<sessions, fitting, cancelled, talk, faults>>
    BY <1>6, <1>m DEF ReadInbox
  <2>s. SessionsOK' /\ MemoryOK'
    BY <1>1, <1>2, <2>1 DEF SessionsOK, MemoryOK, sessions, memory
  <2>2. task' \in [Turn \cup After -> TaskType]
    <3>1. PICK pc \in {"new", "queued"} : task' = [task EXCEPT ![t].pc = pc]
      BY <2>1
    <3>2. \A u \in TaskType : [u EXCEPT !.pc = pc] \in TaskType
      BY DEF TaskType
    <3>3. task' = [task EXCEPT ![t] = [task[t] EXCEPT !.pc = pc]]
      BY <3>1
    <3> QED BY <1>1, <3>2, <3>3 DEF TasksOK
  <2>3. TasksOK'
    <3>1. CASE t \in Turn \cup After
      <4>1. task'[t].pc \in {"new", "queued"}
        BY <1>1, <2>1, <3>1 DEF TasksOK, TaskType
      <4>2. \A u \in (Turn \cup After) \ {t} : task'[u] = task[u]
        BY <1>1, <2>1 DEF TasksOK
      <4> HIDE DEF t
      <4>3. Placed(t)' /\ heap' = heap
        BY <2>1, <4>1, Resting DEF sessions
      <4> QED BY <1>1, <2>2, <3>1, <4>2, <4>3, OneTask
    <3>2. CASE t \notin Turn \cup After
      <4>1. task' = task
        BY <1>1, <2>1, <3>2 DEF TasksOK
      <4> QED BY <1>1, <2>1, <4>1 DEF TasksOK, Placed, sessions
    <3> QED BY <3>1, <3>2
  <2>4. LockOK' /\ ToolOK'
    BY <1>1, <2>1 DEF LockOK, ToolOK, talk
  <2> QED BY <1>3, <2>s, <2>3, <2>4, TypePartsNext
<1> QED BY <1>5, <1>6

LEMMA BeginTurnType ==
    ASSUME TypeOK, NEW t \in Turn, BeginTurn(t) PROVE TypeOK'
<1> DEFINE k == KeyOf(t)
<1>1. /\ SessionsOK /\ BusOK /\ TasksOK /\ MemoryOK /\ LockOK /\ ToolOK /\ k \in Key
  BY TypeParts, TurnParts
<1>2. /\ GetOrCreate(k) /\ disk' = disk
      /\ task' = [task EXCEPT ![t].pc = "fit", ![t].obj = Got(k)]
      /\ UNCHANGED <<inbox, came, fitting, memory, talk, bounds>>
  BY DEF BeginTurn
<1> HIDE DEF k
<1>3. /\ SessionsOK' /\ Got(k) \in 1..Len(heap'[k])
      /\ \A j \in Key : Len(heap[j]) \in Nat /\ Len(heap[j]) <= Len(heap'[j])
  BY <1>1, <1>2, OpenType
<1>4. (\A j \in Key : Len(heap'[j]) \in Nat) /\ Got(k) \in Nat
  BY <1>1, <1>3 DEF SessionsOK
<1>5. /\ task' \in [Turn \cup After -> TaskType]
      /\ task'[t].pc = "fit" /\ task'[t].obj = Got(k)
      /\ \A u \in (Turn \cup After) \ {t} : task'[u] = task[u]
  BY <1>1, <1>2, <1>4 DEF TasksOK, TaskType
<1>6. Placed(t)'
  BY <1>3, <1>5 DEF Placed, k
<1>7. TasksOK'
  BY <1>1, <1>3, <1>4, <1>5, <1>6, TwoTasks
<1>8. BusOK' /\ MemoryOK' /\ LockOK' /\ ToolOK'
  BY <1>1, <1>2 DEF BusOK, MemoryOK, LockOK, ToolOK, memory, talk, bounds
<1> QED BY <1>3, <1>7, <1>8, TypePartsNext

LEMMA CronTurnType ==
    ASSUME TypeOK, NEW k \in Cron, CronTurn(k) PROVE TypeOK'
<1>1. /\ SessionsOK /\ BusOK /\ TasksOK /\ MemoryOK /\ LockOK /\ ToolOK /\ k \in Key
  BY TypeParts, Constants
<1>2. /\ came[k] < MaxCron /\ came' = [came EXCEPT ![k] = came[k] + 1]
      /\ GetOrCreate(k) /\ disk' = disk
      /\ task' = [task EXCEPT ![<<k, came[k] + 1, "turn">>] =
                      [Idle EXCEPT !.pc = "fit", !.obj = Got(k)]]
      /\ UNCHANGED <<inbox, fitting, memory, talk, bounds>>
  BY DEF CronTurn
<1>3. /\ SessionsOK' /\ Got(k) \in 1..Len(heap'[k])
      /\ \A j \in Key : Len(heap[j]) \in Nat /\ Len(heap[j]) <= Len(heap'[j])
  BY <1>1, <1>2, OpenType
<1>4. (\A j \in Key : Len(heap'[j]) \in Nat) /\ Got(k) \in Nat
  BY <1>1, <1>3 DEF SessionsOK
<1>5. came[k] \in Nat /\ came[k] + 1 \in Number /\ BusOK'
  BY <1>1, <1>2, Constants DEF BusOK, Number
<1>6. PICK n \in Number : n = came[k] + 1
  BY <1>5
<1> DEFINE t == <<k, n, "turn">>
<1>7. t \in Turn \cup After /\ KeyOf(t) = k
  BY <1>1, NewTurn
<1>8. /\ task' \in [Turn \cup After -> TaskType]
      /\ task'[t].pc = "fit" /\ task'[t].obj = Got(k)
      /\ \A u \in (Turn \cup After) \ {t} : task'[u] = task[u]
  <2>1. task' = [task EXCEPT ![t] = [Idle EXCEPT !.pc = "fit", !.obj = Got(k)]]
    BY <1>2, <1>6
  <2> HIDE DEF t
  <2>2. [Idle EXCEPT !.pc = "fit", !.obj = Got(k)] \in TaskType
    BY <1>4 DEF TaskType, Idle
  <2> QED BY <1>1, <1>7, <2>1, <2>2 DEF TasksOK, Idle
<1> HIDE DEF t
<1>9. Placed(t)'
  BY <1>3, <1>7, <1>8 DEF Placed
<1>10. TasksOK'
  BY <1>1, <1>3, <1>4, <1>7, <1>8, <1>9, TwoTasks
<1>11. MemoryOK' /\ LockOK' /\ ToolOK'
  BY <1>1, <1>2 DEF MemoryOK, LockOK, ToolOK, memory, talk, bounds
<1> QED BY <1>3, <1>5, <1>10, <1>11, TypePartsNext

\* A task ends, and the objects are what they were.
LEMMA TaskDone ==
    ASSUME TasksOK, SessionsOK, heap' = heap, NEW t \in Turn \cup After,
           task' = [task EXCEPT ![t] = Done]
    PROVE  TasksOK'
<1>1. /\ task' \in [Turn \cup After -> TaskType] /\ task'[t] = Done
      /\ \A u \in (Turn \cup After) \ {t} : task'[u] = task[u]
  BY Records DEF TasksOK
<1> QED BY <1>1, Records, Resting, OneTask

LEMMA TurnEndsType ==
    ASSUME TypeOK, NEW t \in Turn, CronCancelled(t) \/ AgentFails(t) PROVE TypeOK'
<1>1. /\ SessionsOK /\ BusOK /\ TasksOK /\ MemoryOK /\ LockOK /\ ToolOK
  BY TypeParts
<1>2. /\ task' = [task EXCEPT ![t] = Done]
      /\ fitting' = Released(t) \/ fitting' = fitting
      /\ UNCHANGED <<sessions, inbox, came, memory, tool, bounds>>
  BY DEF CronCancelled, AgentFails, Over
<1>3. TasksOK'
  BY <1>1, <1>2, TaskDone DEF sessions
<1>4. LockOK'
  <2>1. CASE fitting' = Released(t)
    BY <1>1, <2>1, LocksLeft DEF LockOK
  <2> QED BY <1>1, <1>2, <2>1 DEF LockOK
<1>5. SessionsOK' /\ BusOK' /\ MemoryOK' /\ ToolOK'
  BY <1>1, <1>2 DEF SessionsOK, BusOK, MemoryOK, ToolOK, memory, sessions, bounds
<1> QED BY <1>3, <1>4, <1>5, TypePartsNext

LEMMA AgentSendsType ==
    ASSUME TypeOK, NEW t \in Turn, AgentSends(t) PROVE TypeOK'
<1>1. /\ SessionsOK /\ BusOK /\ TasksOK /\ MemoryOK /\ LockOK /\ ToolOK
  BY TypeParts
<1>2. /\ tool' = [tool EXCEPT !.sent = TRUE]
      /\ UNCHANGED <<sessions, inbox, came, task, fitting, memory, bounds>>
  BY DEF AgentSends
<1>3. SessionsOK' /\ BusOK' /\ TasksOK' /\ MemoryOK' /\ LockOK'
  BY <1>1, <1>2 DEF SessionsOK, BusOK, TasksOK, Placed, MemoryOK, LockOK, memory, sessions, bounds
<1>4. ToolOK'
  BY <1>1, <1>2 DEF ToolOK
<1> QED BY <1>3, <1>4, TypePartsNext

LEMMA NewSessionType ==
    ASSUME TypeOK, NEW t \in Turn, NewSession(t) PROVE TypeOK'
<1> DEFINE k == KeyOf(t)
<1> DEFINE o == Got(k)
<1> DEFINE h == [Opened(k) EXCEPT ![o] = EmptySession]
<1> DEFINE a == <<k, t[2], "after">>
<1> DEFINE snapshot == Unconsolidated(Opened(k)[o])
<1>1. /\ SessionsOK /\ BusOK /\ TasksOK /\ MemoryOK /\ LockOK /\ ToolOK
      /\ k \in Key /\ a \in After
  BY TypeParts, TurnParts
<1>2. /\ Opened(k) \in Seq(SessionType) /\ o \in 1..Len(Opened(k))
      /\ Len(heap[k]) \in Nat /\ Len(Opened(k)) >= Len(heap[k])
  BY <1>1, OpenedType
<1>3. h \in Seq(SessionType) /\ Len(h) = Len(Opened(k))
  BY <1>2, Records, ExceptSeq
<1>4. /\ heap' = [heap EXCEPT ![k] = h]
      /\ \/ /\ disk' = [disk EXCEPT ![k] = EmptySession]
            /\ cache' = [cache EXCEPT ![k] = 0]
            /\ task' = [task EXCEPT ![t] = Done, ![a] =
                   IF snapshot = {} THEN Done
                   ELSE [Idle EXCEPT !.pc = "archive", !.chunk = snapshot, !.left = RawAfter]]
            /\ UNCHANGED faults
         \/ /\ Fault /\ cache' = [cache EXCEPT ![k] = o] /\ disk' = disk
            /\ task' = [task EXCEPT ![t] = Done]
      /\ UNCHANGED <<inbox, came, fitting, memory, talk>>
  BY DEF NewSession
<1>5. snapshot \in SUBSET Number
  <2>1. Opened(k)[o] \in SessionType
    BY <1>2
  <2> QED BY <2>1 DEF Unconsolidated, SessionType
<1> HIDE DEF k, o, h, a, snapshot
<1>6. /\ heap' \in [Key -> Seq(SessionType)] /\ disk' \in [Key -> SessionType]
      /\ \A j \in Key : /\ Len(heap[j]) \in Nat /\ Len(heap'[j]) \in Nat
                         /\ Len(heap[j]) <= Len(heap'[j])
      /\ Len(heap'[k]) = Len(Opened(k))
  <2>1. heap \in [Key -> Seq(SessionType)] /\ disk \in [Key -> SessionType]
    BY <1>1 DEF SessionsOK
  <2>2. heap' \in [Key -> Seq(SessionType)]
    BY <1>1, <1>3, <1>4, <2>1
  <2>3. disk' \in [Key -> SessionType]
    BY <1>4, <2>1, Records
  <2>4. heap'[k] = h /\ \A j \in Key \ {k} : heap'[j] = heap[j]
    BY <1>1, <1>4, <2>1
  <2>5. ASSUME NEW j \in Key
        PROVE  /\ Len(heap[j]) \in Nat /\ Len(heap'[j]) \in Nat
               /\ Len(heap[j]) <= Len(heap'[j])
    <3>1. heap[j] \in Seq(SessionType) /\ Len(heap[j]) \in Nat
      BY <2>1
    <3>2. CASE j = k
      <4>1. Len(h) \in Nat
        BY <1>3
      <4> QED BY <1>2, <1>3, <2>4, <3>2, <4>1
    <3>3. CASE j # k
      BY <2>4, <3>1, <3>3
    <3> QED BY <3>2, <3>3
  <2> QED BY <1>3, <2>2, <2>3, <2>4, <2>5
<1>7. SessionsOK'
  <2>1. o \in Nat /\ o <= Len(heap'[k])
    BY <1>2, <1>6
  <2>2. /\ cache \in [Key -> Nat] /\ \A j \in Key : cache[j] <= Len(heap[j])
        /\ cache' = [cache EXCEPT ![k] = 0] \/ cache' = [cache EXCEPT ![k] = o]
    BY <1>1, <1>4 DEF SessionsOK
  <2>3. cache' \in [Key -> Nat]
    BY <1>1, <2>1, <2>2
  <2>4. ASSUME NEW j \in Key PROVE cache'[j] <= Len(heap'[j])
    <3>1. CASE j = k
      <4>1. cache'[k] \in {0, o}
        BY <1>1, <2>2
      <4> QED BY <1>6, <2>1, <3>1, <4>1
    <3>2. CASE j # k
      <4>1. cache'[j] = cache[j] /\ cache[j] \in Nat /\ cache[j] <= Len(heap[j])
        BY <1>1, <2>2, <3>2
      <4>2. Len(heap[j]) \in Nat /\ Len(heap'[j]) \in Nat /\ Len(heap[j]) <= Len(heap'[j])
        BY <1>6
      <4> QED BY <4>1, <4>2
    <3> QED BY <3>1, <3>2
  <2> QED BY <1>6, <2>3, <2>4 DEF SessionsOK
<1>8. TasksOK'
  <2>1. /\ task' \in [Turn \cup After -> TaskType] /\ task'[t].pc = "done"
        /\ \/ task'[a] = task[a]
           \/ task'[a].pc = "done"
           \/ task'[a].pc = "archive" /\ task'[a].left = RawAfter
        /\ \A u \in (Turn \cup After) \ {t, a} : task'[u] = task[u]
    <3> DEFINE r == [Idle EXCEPT !.pc = "archive", !.chunk = snapshot, !.left = RawAfter]
    <3>1. /\ r \in TaskType /\ r.pc = "archive" /\ r.left = RawAfter
          /\ a \in Turn \cup After /\ t # a
      BY <1>1, <1>5, Constants, NoTurnIsAfter DEF Idle, TaskType
    <3>2. \/ task' = [task EXCEPT ![t] = Done]
          \/ task' = [task EXCEPT ![t] = Done, ![a] = Done]
          \/ task' = [task EXCEPT ![t] = Done, ![a] = r]
      BY <1>4
    <3> HIDE DEF r
    <3> QED BY <1>1, <3>1, <3>2, Records DEF TasksOK
  <2>2. Placed(t)'
    BY <2>1, Resting
  <2>3. Placed(a)'
    <3>1. CASE task'[a] = task[a]
      <4>1. Placed(a) /\ KeyOf(a) \in Key
        BY <1>1, TurnParts DEF TasksOK
      <4> QED BY <1>6, <3>1, <4>1 DEF Placed
    <3>2. CASE task'[a].pc = "done"
      BY <3>2, Resting
    <3>3. CASE task'[a].pc = "archive" /\ task'[a].left = RawAfter
      BY <3>3, Constants DEF Placed
    <3> QED BY <2>1, <3>1, <3>2, <3>3
  <2> QED BY <1>1, <1>6, <2>1, <2>2, <2>3, TwoTasks
<1>9. BusOK' /\ LockOK' /\ ToolOK'
  BY <1>1, <1>4 DEF BusOK, LockOK, ToolOK, talk
<1>10. MemoryOK'
  BY <1>1, <1>4, Constants DEF MemoryOK, memory, Fault
<1> QED BY <1>7, <1>8, <1>9, <1>10, TypePartsNext

LEMMA AgentEndsType ==
    ASSUME TypeOK, NEW t \in Turn, AgentEnds(t) PROVE TypeOK'
<1> DEFINE k == KeyOf(t)
<1> DEFINE o == task[t].obj
<1> DEFINE s == Written(t)
<1> DEFINE a == <<k, t[2], "after">>
<1>1. /\ SessionsOK /\ BusOK /\ TasksOK /\ MemoryOK /\ LockOK /\ ToolOK
      /\ k \in Key /\ a \in After /\ t[2] \in Number /\ KeyOf(a) = k
  BY TypeParts, TurnParts DEF KeyOf
<1>2. /\ task[t].pc = "agent"
      /\ \/ /\ Save(k, o, s) /\ UNCHANGED faults
            /\ task' = [task EXCEPT ![t] = Done, ![a] = [Idle EXCEPT !.pc = "fit", !.obj = o]]
         \/ SaveFails(k, o, s) /\ task' = [task EXCEPT ![t] = Done]
      /\ UNCHANGED <<inbox, came, fitting, memory, tool>>
  BY DEF AgentEnds, Over
<1>3. o \in 1..Len(heap[k])
  BY <1>1, <1>2 DEF TasksOK, Placed
<1>4. s \in SessionType
  BY <1>1, <1>2, WrittenType
<1> HIDE DEF k, o, s, a
<1>5. /\ SessionsOK'
      /\ \A j \in Key : Len(heap[j]) \in Nat /\ Len(heap[j]) = Len(heap'[j])
  BY <1>1, <1>2, <1>3, <1>4, SaveType
<1>6. TasksOK'
  <2> DEFINE r == [Idle EXCEPT !.pc = "fit", !.obj = o]
  <2>o. o \in Nat
    BY <1>1, <1>3, <1>5
  <2>1. r \in TaskType /\ r.pc = "fit" /\ r.obj = o /\ a \in Turn \cup After /\ t # a
    BY <1>1, <2>o, NoTurnIsAfter DEF Idle, TaskType
  <2>2. \/ task' = [task EXCEPT ![t] = Done]
        \/ task' = [task EXCEPT ![t] = Done, ![a] = r]
    BY <1>2
  <2> HIDE DEF r
  <2>3. /\ task' \in [Turn \cup After -> TaskType] /\ task'[t].pc = "done"
        /\ task'[a] \in {task[a], r}
        /\ \A u \in (Turn \cup After) \ {t, a} : task'[u] = task[u]
    <3>1. task \in [Turn \cup After -> TaskType] /\ t \in Turn \cup After
      BY <1>1 DEF TasksOK
    <3>2. task'[t] = Done /\ task'[a] \in {task[a], r}
      BY <2>1, <2>2, <3>1
    <3> QED BY <2>1, <2>2, <3>1, <3>2, Records
  <2>4. Placed(t)'
    BY <2>3, Resting
  <2>5. Placed(a)'
    <3>1. Placed(a)
      BY <1>1 DEF TasksOK
    <3> QED BY <1>1, <1>3, <1>5, <2>1, <2>3, <3>1 DEF Placed
  <2>6. \A j \in Key : /\ Len(heap[j]) \in Nat /\ Len(heap'[j]) \in Nat
                       /\ Len(heap[j]) <= Len(heap'[j])
    BY <1>5
  <2> QED BY <1>1, <2>1, <2>3, <2>4, <2>5, <2>6, TwoTasks
<1>7. BusOK' /\ LockOK' /\ ToolOK'
  BY <1>1, <1>2 DEF BusOK, LockOK, ToolOK
<1>8. MemoryOK'
  BY <1>1, <1>2, Constants DEF MemoryOK, memory, Fault, SaveFails
<1> QED BY <1>5, <1>6, <1>7, <1>8, TypePartsNext

\* A task goes on, or to its next round, with the object it has.
LEMMA GoesOnType ==
    ASSUME TasksOK, ToolOK, NEW t \in Turn \cup After, GoesOn(t),
           task[t].pc \in {"fit", "fitting"},
           \A j \in Key : Len(heap[j]) \in Nat /\ Len(heap[j]) = Len(heap'[j])
    PROVE  TasksOK' /\ ToolOK'
<1>1. KeyOf(t) \in Key /\ task[t].obj \in 1..Len(heap[KeyOf(t)])
  BY TurnParts DEF TasksOK, Placed
<1>2. PICK r : /\ task' = [task EXCEPT ![t] = r]
               /\ \/ r = Done
                  \/ r = [Idle EXCEPT !.pc = "agent", !.obj = task[t].obj]
  BY DEF GoesOn
<1>3. r \in TaskType /\ r.pc \in {"done", "agent"} /\ (r.pc = "agent" => r.obj = task[t].obj)
  <2>1. task[t] \in TaskType
    BY DEF TasksOK
  <2>2. task[t].obj \in Nat
    BY <2>1 DEF TaskType
  <2>3. PICK o \in Nat : o = task[t].obj
    BY <2>2
  <2>4. r = Done \/ r = [Idle EXCEPT !.pc = "agent", !.obj = o]
    BY <1>2, <2>3
  <2> QED BY <2>3, <2>4, Records DEF TaskType, Idle
<1>4. /\ task' \in [Turn \cup After -> TaskType] /\ task'[t] = r
      /\ \A u \in (Turn \cup After) \ {t} : task'[u] = task[u]
  BY <1>2, <1>3 DEF TasksOK
<1>5. Placed(t)'
  BY <1>1, <1>3, <1>4 DEF Placed
<1>6. ToolOK'
  <2>1. Targets(KeyOf(t)) \subseteq Key
    BY <1>1, Constants DEF Targets
  <2>2. tool' = tool \/ UseTool(t)
    BY DEF GoesOn
  <2>3. tool' = tool \/ \E k \in Key : tool' = [ctx |-> k, sent |-> FALSE]
    BY <2>1, <2>2 DEF UseTool
  <2>4. ASSUME NEW k \in Key, tool' = [ctx |-> k, sent |-> FALSE]
        PROVE  ToolOK'
    BY <2>4 DEF ToolOK
  <2>5. CASE tool' = tool
    BY <2>5 DEF TasksOK, ToolOK
  <2> QED BY <2>3, <2>4, <2>5
<1>7. \A j \in Key : /\ Len(heap[j]) \in Nat /\ Len(heap'[j]) \in Nat
                     /\ Len(heap[j]) <= Len(heap'[j])
  OBVIOUS
<1> QED BY <1>4, <1>5, <1>6, <1>7, TwoTasks

LEMMA RoundType ==
    ASSUME TasksOK, SessionsOK, NEW t \in Turn \cup After, task[t].pc \in {"fit", "fitting"},
           NEW s \in SessionType, NEW end \in Boundaries(s), NEW left \in Nat,
           task' = [task EXCEPT ![t] = Round(t, s, end, left)],
           \A j \in Key : Len(heap[j]) \in Nat /\ Len(heap[j]) = Len(heap'[j])
    PROVE  TasksOK'
<1>1. KeyOf(t) \in Key /\ task[t].obj \in 1..Len(heap[KeyOf(t)]) /\ task[t] \in TaskType
  BY TurnParts DEF TasksOK, Placed
<1>2. /\ s.log \in Seq(Number) /\ s.cons \in Nat /\ Len(s.log) \in Nat
      /\ end \in s.cons + 1 .. Len(s.log) - 1
  BY DEF SessionType, Boundaries
<1>3. end \in Nat /\ \A i \in s.cons + 1 .. end : s.log[i] \in Number
  BY <1>2
<1>4. PICK chunk \in SUBSET Number : chunk = {s.log[i] : i \in s.cons + 1 .. end}
  BY <1>3
<1>5. PICK r : r = Round(t, s, end, left)
  OBVIOUS
<1>6. r \in TaskType /\ r.pc = "fitting" /\ r.obj = task[t].obj
  <2>1. PICK o \in Nat : o = task[t].obj
    BY <1>1 DEF TaskType
  <2>2. r = [pc |-> "fitting", obj |-> o, end |-> end, left |-> left, chunk |-> chunk]
    BY <1>4, <1>5, <2>1 DEF Round
  <2> QED BY <1>3, <2>1, <2>2 DEF TaskType
<1>7. /\ task' \in [Turn \cup After -> TaskType] /\ task'[t] = r
      /\ \A u \in (Turn \cup After) \ {t} : task'[u] = task[u]
  BY <1>5, <1>6 DEF TasksOK
<1>8. Placed(t)'
  BY <1>1, <1>6, <1>7 DEF Placed
<1>9. \A j \in Key : /\ Len(heap[j]) \in Nat /\ Len(heap'[j]) \in Nat
                     /\ Len(heap[j]) <= Len(heap'[j])
  OBVIOUS
<1> QED BY <1>7, <1>8, <1>9, TwoTasks

LEMMA FitSkipsType ==
    ASSUME TypeOK, NEW t \in Turn \cup After, FitSkips(t) PROVE TypeOK'
<1>1. /\ SessionsOK /\ BusOK /\ TasksOK /\ MemoryOK /\ LockOK /\ ToolOK
  BY TypeParts
<1>2. /\ task[t].pc = "fit" /\ GoesOn(t)
      /\ UNCHANGED <<sessions, inbox, came, fitting, memory, bounds>>
  BY DEF FitSkips
<1>3. TasksOK' /\ ToolOK'
  BY <1>1, <1>2, SameLengths, GoesOnType DEF sessions
<1>4. SessionsOK' /\ BusOK' /\ MemoryOK' /\ LockOK'
  BY <1>1, <1>2 DEF SessionsOK, BusOK, MemoryOK, LockOK, sessions, memory, bounds
<1> QED BY <1>3, <1>4, TypePartsNext

LEMMA FitStartsType ==
    ASSUME TypeOK, NEW t \in Turn \cup After, FitStarts(t) PROVE TypeOK'
<1>1. /\ SessionsOK /\ BusOK /\ TasksOK /\ MemoryOK /\ LockOK /\ ToolOK /\ KeyOf(t) \in Key
  BY TypeParts, TurnParts
<1>2. /\ task[t].pc = "fit"
      /\ \E end \in Boundaries(ObjectOf(t)) :
             task' = [task EXCEPT ![t] = Round(t, ObjectOf(t), end, MaxRounds - 1)]
      /\ fitting' = [fitting EXCEPT ![KeyOf(t)] = t]
      /\ UNCHANGED <<sessions, inbox, came, memory, talk, bounds>>
  BY DEF FitStarts
<1>3. TasksOK'
  <2>1. ObjectOf(t) \in SessionType /\ MaxRounds - 1 \in Nat
    BY <1>1, <1>2, ObjectType, Constants
  <2>2. \A j \in Key : Len(heap[j]) \in Nat /\ Len(heap[j]) = Len(heap'[j])
    BY <1>1, <1>2, SameLengths DEF sessions
  <2> QED BY <1>1, <1>2, <2>1, <2>2, RoundType
<1>4. LockOK'
  BY <1>1, <1>2 DEF LockOK
<1>5. SessionsOK' /\ BusOK' /\ MemoryOK' /\ ToolOK'
  BY <1>1, <1>2 DEF SessionsOK, BusOK, MemoryOK, ToolOK, sessions, memory, talk, bounds
<1> QED BY <1>3, <1>4, <1>5, TypePartsNext

LEMMA ConsolidatedType ==
    ASSUME MemoryOK, NEW t \in Turn \cup After, NEW ok \in BOOLEAN, NEW half \in BOOLEAN,
           Consolidated(t, ok, half), UNCHANGED faults \/ Fault
    PROVE  MemoryOK'
<1>1. faults' \in Nat /\ faults' >= faults /\ faults \in Nat
  BY DEF MemoryOK, Fault
<1>2. failures' \in 0 .. RawAfter - 1 + faults'
  <2>1. CASE Lands(ok)
    BY <1>1, <2>1, Constants DEF MemoryOK, Consolidated
  <2>2. CASE ~Lands(ok)
    <3>1. PICK f \in Nat, b \in Nat, r \in Nat : f = failures /\ b = faults' /\ r = RawAfter
      BY <1>1, Constants DEF MemoryOK
    <3>2. failures' = f + 1 /\ ~(f + 1 >= r)
      BY <2>2, <3>1 DEF Consolidated, Lands
    <3>3. f + 1 \in 0 .. r - 1 + b
      BY <3>2
    <3> QED BY <3>1, <3>2, <3>3
  <2> QED BY <2>1, <2>2
<1>3. archived' \in [Key -> [Number -> Nat]]
  <2>1. PICK e \in Nat : e = Entries(ok, half)
    BY DEF Entries
  <2>2. PICK k \in Key : k = KeyOf(t)
    BY TurnParts
  <2>3. archived' = [archived EXCEPT ![k] = [n \in Number |->
                        IF n \in task[t].chunk THEN archived[k][n] + e ELSE archived[k][n]]]
    BY <2>1, <2>2 DEF Consolidated
  <2>4. archived[k] \in [Number -> Nat] /\ archived \in [Key -> [Number -> Nat]]
    BY DEF MemoryOK
  <2>5. PICK f : f = [n \in Number |->
                        IF n \in task[t].chunk THEN archived[k][n] + e ELSE archived[k][n]]
    OBVIOUS
  <2>6. f \in [Number -> Nat]
    BY <2>4, <2>5
  <2>7. archived' = [archived EXCEPT ![k] = f]
    BY <2>3, <2>5
  <2> QED BY <2>4, <2>6, <2>7
<1> QED BY <1>1, <1>2, <1>3 DEF MemoryOK

LEMMA FitEndsType ==
    ASSUME TypeOK, NEW t \in Turn \cup After, FitEnds(t) PROVE TypeOK'
<1> DEFINE k == KeyOf(t)
<1>1. /\ SessionsOK /\ BusOK /\ TasksOK /\ MemoryOK /\ LockOK /\ ToolOK /\ k \in Key
  BY TypeParts, TurnParts
<1>2. PICK ok \in BOOLEAN, half \in BOOLEAN :
         LET s == Moved(ObjectOf(t), t, ok) IN
         /\ Consolidated(t, ok, half)
         /\ \/ /\ IF s # ObjectOf(t) THEN Save(k, task[t].obj, s) ELSE UNCHANGED sessions
               /\ \/ GoesOn(t) /\ fitting' = FitReleased(t, ok)
                  \/ /\ Lands(ok) /\ task[t].left > 0
                     /\ \E end \in Boundaries(s) :
                          task' = [task EXCEPT ![t] = Round(t, s, end, task[t].left - 1)]
                     /\ UNCHANGED <<fitting, tool>>
               /\ FaultIf(half)
            \/ /\ SaveFails(k, task[t].obj, s)
               /\ task' = [task EXCEPT ![t] = Done]
               /\ fitting' = Released(t)
               /\ UNCHANGED tool
  BY DEF FitEnds
<1>3. task[t].pc = "fitting" /\ UNCHANGED <<inbox, came>>
  BY DEF FitEnds
<1>4. /\ ObjectOf(t) \in SessionType /\ task[t].obj \in 1..Len(heap[k])
      /\ task[t].end \in Nat /\ task[t].left \in Nat
  BY <1>1, <1>3, ObjectType DEF TasksOK, TaskType
<1>5. PICK s \in SessionType : s = Moved(ObjectOf(t), t, ok)
  BY <1>4 DEF Moved, SessionType
<1> HIDE DEF k
<1>6. SessionsOK' /\ \A j \in Key : Len(heap[j]) \in Nat /\ Len(heap[j]) = Len(heap'[j])
  <2>1. CASE UNCHANGED sessions
    BY <1>1, <2>1, SameLengths DEF SessionsOK, sessions
  <2>2. CASE Save(k, task[t].obj, s) \/ SaveFails(k, task[t].obj, s)
    BY <1>1, <1>4, <2>2, SaveType
  <2> QED BY <1>2, <1>5, <2>1, <2>2
<1>7. TasksOK' /\ ToolOK'
  <2>1. CASE GoesOn(t)
    BY <1>1, <1>3, <1>6, <2>1, GoesOnType
  <2>2. ASSUME task[t].left > 0, tool' = tool, NEW end \in Boundaries(s),
               task' = [task EXCEPT ![t] = Round(t, s, end, task[t].left - 1)]
        PROVE  TasksOK' /\ ToolOK'
    <3>1. PICK left \in Nat : left = task[t].left - 1
      BY <1>4, <2>2
    <3>2. TasksOK'
      BY <1>1, <1>3, <1>6, <2>2, <3>1, RoundType
    <3> QED BY <1>1, <2>2, <3>2 DEF ToolOK
  <2>3. CASE tool' = tool /\ task' = [task EXCEPT ![t] = Done]
    <3>1. /\ task' \in [Turn \cup After -> TaskType] /\ task'[t] = Done
          /\ \A u \in (Turn \cup After) \ {t} : task'[u] = task[u]
      BY <1>1, <2>3, Records DEF TasksOK
    <3>2. Placed(t)'
      BY <3>1, Records, Resting
    <3>3. \A j \in Key : /\ Len(heap[j]) \in Nat /\ Len(heap'[j]) \in Nat
                         /\ Len(heap[j]) <= Len(heap'[j])
      BY <1>6
    <3>4. TasksOK'
      BY <1>1, <3>1, <3>2, <3>3, TwoTasks
    <3> QED BY <1>1, <2>3, <3>4 DEF ToolOK
  <2> QED BY <1>2, <1>5, <2>1, <2>2, <2>3
<1>8. MemoryOK'
  <2>1. UNCHANGED faults \/ Fault
    BY <1>2 DEF FaultIf, SaveFails
  <2> QED BY <1>1, <1>2, <2>1, ConsolidatedType
<1>9. LockOK'
  <2>1. fitting' = Released(t) \/ fitting' = fitting
    BY <1>2 DEF FitReleased
  <2>2. CASE fitting' = Released(t)
    BY <1>1, <2>2, LocksLeft DEF LockOK
  <2> QED BY <1>1, <2>1, <2>2 DEF LockOK
<1>10. BusOK'
  BY <1>1, <1>3 DEF BusOK
<1> QED BY <1>6, <1>7, <1>8, <1>9, <1>10, TypePartsNext

LEMMA ArchivesType ==
    ASSUME TypeOK, NEW t \in After, Archives(t) PROVE TypeOK'
<1>1. /\ SessionsOK /\ BusOK /\ TasksOK /\ MemoryOK /\ LockOK /\ ToolOK
      /\ t \in Turn \cup After
  BY TypeParts
<1>2. PICK ok \in BOOLEAN, half \in BOOLEAN :
         /\ Consolidated(t, ok, half) /\ FaultIf(half)
         /\ task' = [task EXCEPT ![t] = IF Lands(ok) \/ task[t].left = 1 THEN Done
                                        ELSE [task[t] EXCEPT !.left = @ - 1]]
  BY DEF Archives
<1>3. task[t].pc = "archive" /\ UNCHANGED <<sessions, inbox, came, fitting, talk>>
  BY DEF Archives
<1>4. TasksOK'
  <2>1. CASE task' = [task EXCEPT ![t] = Done]
    BY <1>1, <1>3, <2>1, TaskDone DEF sessions
  <2>2. CASE /\ task[t].left # 1
             /\ task' = [task EXCEPT ![t] = [task[t] EXCEPT !.left = task[t].left - 1]]
    <3>1. PICK r \in TaskType : r = task[t]
      BY <1>1 DEF TasksOK
    <3>2. r.left \in Nat /\ r.left > 0 /\ r.left # 1 /\ r.pc = "archive"
      BY <1>1, <1>3, <2>2, <3>1 DEF TasksOK, Placed, TaskType
    <3>3. PICK n : n = [r EXCEPT !.left = r.left - 1]
      OBVIOUS
    <3>4. n \in TaskType /\ n.left > 0 /\ n.pc = "archive"
      BY <3>2, <3>3 DEF TaskType
    <3>5. /\ task' \in [Turn \cup After -> TaskType] /\ task'[t] = n
          /\ \A u \in (Turn \cup After) \ {t} : task'[u] = task[u]
      BY <1>1, <2>2, <3>1, <3>3, <3>4 DEF TasksOK
    <3>6. Placed(t)'
      BY <3>4, <3>5 DEF Placed
    <3> QED BY <1>1, <1>3, <3>5, <3>6, OneTask DEF sessions
  <2>3. CASE Lands(ok) \/ task[t].left = 1
    BY <1>2, <2>1, <2>3
  <2>4. CASE ~(Lands(ok) \/ task[t].left = 1)
    BY <1>2, <2>2, <2>4
  <2> QED BY <2>3, <2>4
<1>5. MemoryOK'
  BY <1>1, <1>2, ConsolidatedType DEF FaultIf
<1>6. SessionsOK' /\ BusOK' /\ LockOK' /\ ToolOK'
  BY <1>1, <1>3 DEF SessionsOK, BusOK, LockOK, ToolOK, sessions, talk
<1> QED BY <1>4, <1>5, <1>6, TypePartsNext

LEMMA DumpFailsType ==
    ASSUME TypeOK, NEW t \in Turn \cup After, DumpFails(t) PROVE TypeOK'
<1>1. /\ SessionsOK /\ BusOK /\ TasksOK /\ MemoryOK /\ LockOK /\ ToolOK
  BY TypeParts
<1>2. /\ faults' = faults + 1 /\ failures' = failures + 1
      /\ task' = [task EXCEPT ![t] = Done] /\ fitting' = Released(t)
      /\ UNCHANGED <<sessions, inbox, came, talk>>
  BY DEF DumpFails, Fault
<1>3. TasksOK'
  BY <1>1, <1>2, TaskDone DEF sessions
<1>a. archived' \in [Key -> [Number -> Nat]]
  <2>1. PICK half \in BOOLEAN :
           archived' = [archived EXCEPT ![KeyOf(t)] = [n \in Number |->
               IF half /\ n \in task[t].chunk THEN archived[KeyOf(t)][n] + 1
                                              ELSE archived[KeyOf(t)][n]]]
    BY DEF DumpFails
  <2>2. PICK k \in Key : k = KeyOf(t)
    BY TurnParts
  <2>3. archived[k] \in [Number -> Nat] /\ archived \in [Key -> [Number -> Nat]]
    BY <1>1 DEF MemoryOK
  <2>4. PICK f : f = [n \in Number |->
                        IF half /\ n \in task[t].chunk THEN archived[k][n] + 1
                                                       ELSE archived[k][n]]
    OBVIOUS
  <2>5. f \in [Number -> Nat] /\ archived' = [archived EXCEPT ![k] = f]
    BY <2>1, <2>2, <2>3, <2>4
  <2> QED BY <2>3, <2>5
<1>4. MemoryOK'
  BY <1>1, <1>2, <1>a, Constants DEF MemoryOK
<1>5. LockOK'
  BY <1>1, <1>2, LocksLeft DEF LockOK
<1>6. SessionsOK' /\ BusOK' /\ ToolOK'
  BY <1>1, <1>2 DEF SessionsOK, BusOK, ToolOK, sessions, talk
<1> QED BY <1>3, <1>4, <1>5, <1>6, TypePartsNext

LEMMA KilledType ==
    ASSUME TypeOK, Killed PROVE TypeOK'
<1>1. /\ SessionsOK /\ BusOK /\ TasksOK /\ MemoryOK /\ LockOK /\ ToolOK
  BY TypeParts
<1>2. /\ task' = [t \in DOMAIN task |-> IF task[t].pc = "none" THEN Idle ELSE Done]
      /\ heap' = [k \in Key |-> <<>>] /\ cache' = [k \in Key |-> 0] /\ disk' = disk
      /\ inbox' = <<>> /\ fitting' = [k \in Key |-> None] /\ came' = came
      /\ failures' = 0 /\ faults' = faults + 1 /\ tool' = [ctx |-> None, sent |-> FALSE]
  BY DEF Killed, Fault
<1>3. SessionsOK'
  <2>1. <<>> \in Seq(SessionType) /\ Len(<<>>) = 0
    BY EmptySeq
  <2> QED BY <1>1, <1>2, <2>1 DEF SessionsOK
<1>4. TasksOK'
  <2>1. /\ task' \in [Turn \cup After -> TaskType]
        /\ \A t \in Turn \cup After : task'[t].pc \in {"none", "done"}
    BY <1>1, <1>2, Records DEF TasksOK
  <2> QED BY <2>1 DEF TasksOK, Placed
<1>5. archived' \in [Key -> [Number -> Nat]]
  <2>1. CASE archived' = archived
    BY <1>1, <2>1 DEF MemoryOK
  <2>2. ASSUME NEW t \in DOMAIN task,
               archived' = [archived EXCEPT ![KeyOf(t)] = [n \in Number |->
                    IF n \in task[t].chunk THEN archived[KeyOf(t)][n] + 1
                                           ELSE archived[KeyOf(t)][n]]]
        PROVE  archived' \in [Key -> [Number -> Nat]]
    <3>1. PICK k \in Key : k = KeyOf(t)
      BY <1>1, TurnParts DEF TasksOK
    <3>2. archived[k] \in [Number -> Nat] /\ archived \in [Key -> [Number -> Nat]]
      BY <1>1 DEF MemoryOK
    <3>3. PICK f : f = [n \in Number |->
                          IF n \in task[t].chunk THEN archived[k][n] + 1 ELSE archived[k][n]]
      OBVIOUS
    <3>4. f \in [Number -> Nat] /\ archived' = [archived EXCEPT ![k] = f]
      BY <2>2, <3>1, <3>2, <3>3
    <3> QED BY <3>2, <3>4
  <2> QED BY <2>1, <2>2 DEF Killed
<1>6. MemoryOK' /\ LockOK' /\ ToolOK' /\ BusOK'
  BY <1>1, <1>2, <1>5, Constants DEF MemoryOK, LockOK, ToolOK, BusOK
<1> QED BY <1>3, <1>4, <1>6, TypePartsNext

LEMMA StutterType ==
    ASSUME TypeOK, UNCHANGED vars PROVE TypeOK'
BY DEF vars, TypeOK

LEMMA TypeStep == TypeOK /\ [Next]_vars => TypeOK'
<1> SUFFICES ASSUME TypeOK, [Next]_vars PROVE TypeOK'
  OBVIOUS
<1>1. CASE UNCHANGED vars
  BY <1>1, StutterType
<1>2. CASE Next
  BY <1>2, ComingType, ReadInboxType, BeginTurnType, NewSessionType, AgentEndsType,
     TurnEndsType, FitSkipsType, FitStartsType, FitEndsType, ArchivesType, KilledType,
     CronTurnType, AgentSendsType, DumpFailsType DEF Next, Loop, Agent, Fit
<1> QED BY <1>1, <1>2

\* Session objects, files and tasks fit together: an object a task is at work
\* on is one the process still holds, and so is the cached one.
THEOREM TypeCorrect == Spec => []TypeOK
<1> QED BY InitType, TypeStep, PTL DEF Spec
-----------------------------------------------------------------------------
(* What is recorded of whom                                                 *)

TurnOf(m) == <<m.key, m.n, "turn">>

\* A turn that has begun in any way was asked for since the gateway started.
Asked == \A t \in Turn : task[t].pc # "none" => Old < t[2] /\ t[2] <= came[KeyOf(t)]

\* A message waits on the bus for one turn, which has not begun.
Waiting ==
    \A i \in 1..Len(inbox) : inbox[i].cmd # "stop" =>
        /\ Old < inbox[i].n /\ inbox[i].n <= came[inbox[i].key]
        /\ task[TurnOf(inbox[i])].pc = "none"
        /\ \A j \in 1..Len(inbox) :
              inbox[j].cmd # "stop" /\ TurnOf(inbox[j]) = TurnOf(inbox[i]) => j = i

\* s is what the file of k or one of its objects holds, and n is in a log of k.
Stored(k, s) == s = disk[k] \/ \E i \in 1..Len(heap[k]) : s = heap[k][i]
Held(k, n) == \E s : Stored(k, s) /\ n \in Range(s.log)

\* What a log has is from before the start, or over.
Logged == \A t \in Turn : Held(KeyOf(t), t[2]) => t[2] <= Old \/ task[t].pc = "done"

CancelledInv ==
    \A m \in cancelled : \E t \in Turn :
        m = Name(t) /\ task[t].pc = "done"

\* When the tool has sent, every turn at the model was told or crossed.
ToolInv ==
    tool.sent => \A t \in Turn : task[t].pc = "agent" => Name(t) \in told \cup crossed

SilentInv ==
    /\ silent \subseteq crossed
    /\ \A m \in silent : \E t \in Turn : m = Name(t) /\ task[t].pc = "done"

TurnsInv == Asked /\ Waiting /\ Logged /\ CancelledInv /\ ToolInv /\ SilentInv

\* The turns outside T neither begin nor come back.
Moves(T) ==
    \A t \in Turn \ T : /\ task'[t].pc = "none" <=> task[t].pc = "none"
                        /\ task[t].pc = "done" => task'[t].pc = "done"

LEMMA NameIsUnique ==
    ASSUME NEW t \in Turn, NEW u \in Turn, Name(t) = Name(u) PROVE t = u
<1>1. t[1] = u[1] /\ t[2] = u[2]
  BY DEF Name
<1>2. t = <<t[1], t[2], "turn">> /\ u = <<u[1], u[2], "turn">>
  BY DEF Turn
<1> QED BY <1>1, <1>2

LEMMA MoveOne ==
    ASSUME TasksOK, NEW t \in Turn \cup After, NEW r, task' = [task EXCEPT ![t] = r],
           task[t].pc \notin {"none", "done"}, r.pc # "none"
    PROVE  Moves({})
BY DEF Moves, TasksOK

LEMMA MoveTwo ==
    ASSUME TasksOK, NEW t \in Turn, NEW a \in After, NEW r, NEW q,
           task' = [task EXCEPT ![t] = r, ![a] = q],
           task[t].pc \notin {"none", "done"}, r.pc # "none"
    PROVE  Moves({})
BY NoTurnIsAfter DEF Moves, TasksOK

LEMMA GoesOnMoves ==
    ASSUME TasksOK, NEW t \in Turn \cup After, GoesOn(t), task[t].pc \notin {"none", "done"}
    PROVE  Moves({})
<1>1. PICK r : /\ task' = [task EXCEPT ![t] = r]
               /\ \/ r = Done
                  \/ r = [Idle EXCEPT !.pc = "agent", !.obj = task[t].obj]
  BY DEF GoesOn
<1>2. r.pc # "none"
  BY <1>1, Records DEF Idle
<1> QED BY <1>1, <1>2, MoveOne

LEMMA FitMoves ==
    ASSUME TasksOK, NEW t \in Turn \cup After, Fit(t) PROVE Moves({})
<1>1. CASE FitSkips(t)
  BY <1>1, GoesOnMoves DEF FitSkips
<1>2. CASE FitStarts(t)
  <2>1. PICK end : task' = [task EXCEPT ![t] = Round(t, ObjectOf(t), end, MaxRounds - 1)]
    BY <1>2 DEF FitStarts
  <2>2. Round(t, ObjectOf(t), end, MaxRounds - 1).pc = "fitting" /\ task[t].pc = "fit"
    BY <1>2 DEF Round, FitStarts
  <2> QED BY <2>1, <2>2, MoveOne
<1>3. CASE FitEnds(t)
  <2>1. /\ task[t].pc = "fitting"
        /\ \/ GoesOn(t) \/ task' = [task EXCEPT ![t] = Done]
           \/ \E s, end, left : task' = [task EXCEPT ![t] = Round(t, s, end, left)]
    BY <1>3 DEF FitEnds
  <2>2. ASSUME NEW s, NEW end, NEW left,
               task' = [task EXCEPT ![t] = Round(t, s, end, left)]
        PROVE  Moves({})
    <3>1. Round(t, s, end, left).pc = "fitting"
      BY DEF Round
    <3> QED BY <2>1, <2>2, <3>1, MoveOne
  <2>3. CASE task' = [task EXCEPT ![t] = Done]
    BY <2>1, <2>3, Records, MoveOne
  <2> QED BY <2>1, <2>2, <2>3, GoesOnMoves
<1> QED BY <1>1, <1>2, <1>3 DEF Fit

LEMMA NewSessionMoves ==
    ASSUME TasksOK, NEW t \in Turn, NewSession(t) PROVE Moves({})
<1>1. /\ task[t].pc = "new"
      /\ \/ task' = [task EXCEPT ![t] = Done]
         \/ \E q : task' = [task EXCEPT ![t] = Done, ![<<KeyOf(t), t[2], "after">>] = q]
  BY DEF NewSession
<1>2. <<KeyOf(t), t[2], "after">> \in After
  BY TurnParts
<1> QED BY <1>1, <1>2, Records, MoveOne, MoveTwo

LEMMA AgentEndsMoves ==
    ASSUME TasksOK, NEW t \in Turn, AgentEnds(t) PROVE Moves({})
<1>1. /\ task[t].pc = "agent"
      /\ \/ task' = [task EXCEPT ![t] = Done]
         \/ \E q : task' = [task EXCEPT ![t] = Done, ![<<KeyOf(t), t[2], "after">>] = q]
  BY DEF AgentEnds
<1>2. <<KeyOf(t), t[2], "after">> \in After
  BY TurnParts
<1>3. CASE task' = [task EXCEPT ![t] = Done]
  BY <1>1, <1>3, Records, MoveOne
<1>4. ASSUME NEW q, task' = [task EXCEPT ![t] = Done, ![<<KeyOf(t), t[2], "after">>] = q]
      PROVE  Moves({})
  BY <1>1, <1>2, <1>4, Records, MoveTwo
<1> QED BY <1>1, <1>3, <1>4

LEMMA ArchivesMoves ==
    ASSUME TasksOK, NEW t \in After, Archives(t) PROVE Moves({})
<1>1. PICK r : task' = [task EXCEPT ![t] = r]
  BY DEF Archives
<1> QED BY <1>1, NoTurnIsAfter DEF Moves, TasksOK

LEMMA TurnEndsMoves ==
    ASSUME TasksOK, NEW t \in Turn \cup After,
           \/ t \in Turn /\ (AgentFails(t) \/ CronCancelled(t))
           \/ DumpFails(t)
    PROVE  Moves({})
<1>1. task' = [task EXCEPT ![t] = Done] /\ task[t].pc \notin {"none", "done"}
  BY DEF AgentFails, CronCancelled, DumpFails, Archiving, Running
<1> QED BY <1>1, Records, MoveOne

LEMMA OtherMoves ==
    ASSUME TypeOK, Next, ~ReadInbox, \A k \in Cron : ~CronTurn(k)
    PROVE  Moves({})
<1>1. TasksOK
  BY TypeParts
<1>2. CASE Coming \/ \E t \in Turn : AgentSends(t)
  <2>1. task' = task
    BY <1>2 DEF Coming, Come, ComeStop, AgentSends
  <2> QED BY <2>1 DEF Moves
<1>3. ASSUME NEW t \in Turn, BeginTurn(t) PROVE Moves({})
  <2>1. /\ task' = [task EXCEPT ![t].pc = "fit", ![t].obj = Got(KeyOf(t))]
        /\ task[t].pc = "queued"
    BY <1>3 DEF BeginTurn
  <2>2. task[t] \in TaskType /\ \A u \in (Turn \cup After) \ {t} : task'[u] = task[u]
    BY <1>1, <2>1 DEF TasksOK
  <2>3. task'[t].pc = "fit"
    BY <1>1, <2>1, <2>2 DEF TasksOK, TaskType
  <2> QED BY <2>1, <2>2, <2>3 DEF Moves
<1>4. CASE Killed
  <2>1. task' = [t \in DOMAIN task |-> IF task[t].pc = "none" THEN Idle ELSE Done]
    BY <1>4 DEF Killed
  <2> QED BY <1>1, <2>1, Records DEF Moves, TasksOK
<1> QED BY <1>1, <1>2, <1>3, <1>4, FitMoves, NewSessionMoves, AgentEndsMoves, ArchivesMoves,
           TurnEndsMoves DEF Next, Loop, Agent
-----------------------------------------------------------------------------
(* What a log has, it had, or the turn whose end this step is put it there. *)

LEMMA ObjectStored ==
    ASSUME SessionsOK, NEW k \in Key, NEW o \in 1..Len(heap[k]), NEW s \in SessionType,
           Save(k, o, s) \/ SaveFails(k, o, s), NEW j \in Key, NEW r, Stored(j, r)'
    PROVE  Stored(j, r) \/ (j = k /\ r = s)
<1>1. /\ heap' = [heap EXCEPT ![k][o] = s]
      /\ disk' = disk \/ disk' = [disk EXCEPT ![k] = s]
      /\ heap \in [Key -> Seq(SessionType)] /\ disk \in [Key -> SessionType]
  BY DEF Save, SaveFails, SessionsOK
<1>2. heap[k] \in Seq(SessionType) /\ [heap[k] EXCEPT ![o] = s] \in Seq(SessionType)
      /\ Len([heap[k] EXCEPT ![o] = s]) = Len(heap[k])
  BY <1>1, ExceptSeq
<1>3. \A i \in 1..Len(heap'[k]) : i \in 1..Len(heap[k])
                                   /\ heap'[k][i] = IF i = o THEN s ELSE heap[k][i]
  BY <1>1, <1>2
<1>4. CASE r = disk'[j]
  BY <1>1, <1>4 DEF Stored
<1>5. ASSUME NEW i \in 1..Len(heap'[j]), r = heap'[j][i]
      PROVE  Stored(j, r) \/ (j = k /\ r = s)
  <2>1. CASE j = k
    BY <1>3, <1>5, <2>1 DEF Stored
  <2>2. CASE j # k
    BY <1>1, <1>5, <2>2 DEF Stored
  <2> QED BY <2>1, <2>2
<1> QED BY <1>4, <1>5 DEF Stored

LEMMA OpenStored ==
    ASSUME SessionsOK, NEW k \in Key, GetOrCreate(k), disk' = disk,
           NEW j \in Key, NEW r, Stored(j, r)'
    PROVE  Stored(j, r)
<1>1. heap' = [heap EXCEPT ![k] = Opened(k)] /\ heap \in [Key -> Seq(SessionType)]
  BY DEF GetOrCreate, SessionsOK
<1>2. \A i \in 1..Len(heap'[k]) :
         heap'[k][i] = IF i <= Len(heap[k]) THEN heap[k][i] ELSE disk[k]
  BY <1>1, OpenedType
<1>3. Len(heap[k]) \in Nat
  BY OpenedType
<1>4. ASSUME NEW i \in 1..Len(heap'[j]), r = heap'[j][i] PROVE Stored(j, r)
  <2>1. CASE j = k
    BY <1>2, <1>3, <1>4, <2>1 DEF Stored
  <2>2. CASE j # k
    BY <1>1, <1>4, <2>2 DEF Stored
  <2> QED BY <2>1, <2>2
<1> QED BY <1>4 DEF Stored

LEMMA NewSessionStored ==
    ASSUME TypeOK, NEW t \in Turn, NewSession(t), NEW j \in Key, NEW r, Stored(j, r)'
    PROVE  Stored(j, r) \/ r = EmptySession
<1> DEFINE k == KeyOf(t)
<1> DEFINE o == Got(k)
<1> DEFINE h == [Opened(k) EXCEPT ![o] = EmptySession]
<1>1. SessionsOK /\ k \in Key
  BY TypeParts, TurnParts
<1>2. /\ heap' = [heap EXCEPT ![k] = h]
      /\ disk' = disk \/ disk' = [disk EXCEPT ![k] = EmptySession]
      /\ heap \in [Key -> Seq(SessionType)] /\ disk \in [Key -> SessionType]
  BY <1>1 DEF NewSession, SessionsOK
<1>3. /\ Opened(k) \in Seq(SessionType) /\ o \in 1..Len(Opened(k)) /\ Len(heap[k]) \in Nat
      /\ \A i \in 1..Len(Opened(k)) :
            Opened(k)[i] = IF i <= Len(heap[k]) THEN heap[k][i] ELSE disk[k]
  BY <1>1, OpenedType
<1>4. h \in Seq(SessionType) /\ Len(h) = Len(Opened(k))
  BY <1>3, Records, ExceptSeq
<1>5. \A i \in 1..Len(h) : h[i] \in {EmptySession, Opened(k)[i]}
  BY <1>3, <1>4
<1> HIDE DEF k, o, h
<1>6. CASE r = disk'[j]
  BY <1>2, <1>6 DEF Stored
<1>7. ASSUME NEW i \in 1..Len(heap'[j]), r = heap'[j][i], r # EmptySession PROVE Stored(j, r)
  <2>1. CASE j = k
    <3>1. heap'[k] = h
      BY <1>1, <1>2
    <3>2. i \in 1..Len(h) /\ r = h[i]
      BY <1>7, <2>1, <3>1
    <3>3. i \in 1..Len(Opened(k)) /\ r = Opened(k)[i]
      BY <1>4, <1>5, <1>7, <3>2
    <3> QED BY <1>3, <2>1, <3>3 DEF Stored
  <2>2. CASE j # k
    BY <1>2, <1>7, <2>2 DEF Stored
  <2> QED BY <2>1, <2>2
<1> QED BY <1>6, <1>7 DEF Stored

\* A consolidation leaves the log what it is.
LEMMA MovedType ==
    ASSUME TypeOK, NEW t \in Turn \cup After, task[t].pc = "fitting", NEW ok \in BOOLEAN, NEW s,
           s = Moved(ObjectOf(t), t, ok)
    PROVE  /\ s \in SessionType /\ s.log = ObjectOf(t).log
           /\ s.cons = IF Lands(ok) THEN task[t].end ELSE ObjectOf(t).cons
<1>1. SessionsOK /\ TasksOK
  BY TypeParts
<1>2. ObjectOf(t) \in SessionType /\ task[t].end \in Nat
  BY <1>1, ObjectType DEF TasksOK, TaskType
<1> QED BY <1>2 DEF Moved, SessionType

LEMMA FitStored ==
    ASSUME TypeOK, NEW t \in Turn \cup After, Fit(t), NEW j \in Key, NEW r, Stored(j, r)'
    PROVE  \/ Stored(j, r)
           \/ /\ j = KeyOf(t) /\ FitEnds(t)
              /\ \E ok, half \in BOOLEAN :
                    Consolidated(t, ok, half) /\ r = Moved(ObjectOf(t), t, ok)
                    /\ (Stale(t) /\ Lands(ok) => overrun' = overrun \cup {j})
<1>1. SessionsOK /\ TasksOK
  BY TypeParts
<1>2. CASE UNCHANGED sessions
  BY <1>2 DEF sessions, Stored
<1>3. ASSUME NEW ok \in BOOLEAN, NEW s, s = Moved(ObjectOf(t), t, ok), task[t].pc = "fitting",
             Save(KeyOf(t), task[t].obj, s) \/ SaveFails(KeyOf(t), task[t].obj, s)
      PROVE  Stored(j, r) \/ (j = KeyOf(t) /\ r = s)
  <2>1. KeyOf(t) \in Key /\ task[t].obj \in 1..Len(heap[KeyOf(t)])
    BY <1>1, <1>3, ObjectType
  <2>2. s \in SessionType
    BY <1>3, MovedType
  <2> QED BY <1>1, <1>3, <2>1, <2>2, ObjectStored
<1>4. CASE FitEnds(t)
  <2>1. PICK ok \in BOOLEAN, half \in BOOLEAN :
           LET s == Moved(ObjectOf(t), t, ok) IN
           /\ Consolidated(t, ok, half)
           /\ \/ UNCHANGED sessions
              \/ Save(KeyOf(t), task[t].obj, s) \/ SaveFails(KeyOf(t), task[t].obj, s)
           /\ Stale(t) /\ Lands(ok) => overrun' = overrun \cup {KeyOf(t)}
    BY <1>4 DEF FitEnds
  <2>2. task[t].pc = "fitting"
    BY <1>4 DEF FitEnds
  <2> QED BY <1>2, <1>3, <1>4, <2>1, <2>2
<1> QED BY <1>2, <1>4 DEF Fit, FitSkips, FitStarts

LEMMA EntersStored ==
    ASSUME TypeOK, NEW t \in Turn, Enters(t), NEW j \in Key, NEW r, Stored(j, r)'
    PROVE  \/ Stored(j, r)
           \/ /\ j = KeyOf(t) /\ Stored(j, ObjectOf(t)) /\ ObjectOf(t) \in SessionType
              /\ r = [ObjectOf(t) EXCEPT !.log = Append(ObjectOf(t).log, t[2])]
<1>1. SessionsOK /\ TasksOK /\ task[t].pc = "agent"
  BY TypeParts DEF Enters
<1>2. /\ ObjectOf(t) \in SessionType /\ KeyOf(t) \in Key
      /\ task[t].obj \in 1..Len(heap[KeyOf(t)]) /\ Written(t) \in SessionType
  BY <1>1, ObjectType, WrittenType
<1>3. Stored(j, r) \/ (j = KeyOf(t) /\ r = Written(t))
  BY <1>1, <1>2, ObjectStored DEF Enters
<1> QED BY <1>2, <1>3 DEF Stored, ObjectOf, Written

LEMMA EntersHeld ==
    ASSUME TypeOK, NEW t \in Turn, Enters(t), NEW j \in Key, NEW n \in Number, Held(j, n)'
    PROVE  Held(j, n) \/ (j = KeyOf(t) /\ n = t[2])
<1>1. PICK r : Stored(j, r)' /\ n \in Range(r.log)
  BY DEF Held
<1>2. CASE Stored(j, r)
  BY <1>1, <1>2 DEF Held
<1>3. CASE /\ j = KeyOf(t) /\ Stored(j, ObjectOf(t)) /\ ObjectOf(t) \in SessionType
           /\ r = [ObjectOf(t) EXCEPT !.log = Append(ObjectOf(t).log, t[2])]
  <2>1. PICK old \in SessionType : old = ObjectOf(t)
    BY <1>3
  <2>2. r.log = Append(old.log, t[2]) /\ old.log \in Seq(Number) /\ t[2] \in Number
    BY <1>3, <2>1, TurnParts DEF SessionType
  <2>3. n \in Range(old.log) \/ n = t[2]
    BY <1>1, <2>2 DEF Range
  <2> QED BY <1>3, <2>1, <2>3 DEF Held
<1> QED BY <1>1, <1>2, <1>3, EntersStored

LEMMA FitHeld ==
    ASSUME TypeOK, NEW t \in Turn \cup After, Fit(t), NEW j \in Key, NEW n \in Number, Held(j, n)'
    PROVE  Held(j, n)
<1>1. PICK r : Stored(j, r)' /\ n \in Range(r.log)
  BY DEF Held
<1>2. CASE Stored(j, r)
  BY <1>1, <1>2 DEF Held
<1>3. ASSUME j = KeyOf(t), FitEnds(t), NEW ok \in BOOLEAN, r = Moved(ObjectOf(t), t, ok)
      PROVE  Held(j, n)
  <2>1. task[t].pc = "fitting"
    BY <1>3 DEF FitEnds
  <2>2. r.log = ObjectOf(t).log
    BY <1>3, <2>1, MovedType
  <2>3. task[t].obj \in 1..Len(heap[KeyOf(t)])
    BY <2>1, TypeParts, ObjectType
  <2> QED BY <1>1, <1>3, <2>2, <2>3 DEF Held, Stored, ObjectOf
<1> QED BY <1>1, <1>2, <1>3, FitStored

LEMMA ReadSessions ==
    ASSUME ReadInbox
    PROVE  \/ UNCHANGED <<sessions, kept, faults>>
           \/ \E t \in Turn :
                 /\ t = lock.holder /\ Head(inbox).cmd = "stop" /\ t \in Stopped(Head(inbox).key)
                 /\ \/ GetOrCreate(KeyOf(t)) /\ UNCHANGED <<disk, kept, faults>>
                    \/ Enters(t)
<1>1. \A k : Stopped(k) \subseteq Turn
  BY DEF Stopped, Running
<1> QED BY <1>1, RescueCases DEF ReadInbox, HandleStop

LEMMA EndsEnter ==
    ASSUME TasksOK, NEW t \in Turn, AgentEnds(t)
    PROVE  Enters(t) /\ task'[t].pc = "done"
<1>1. <<KeyOf(t), t[2], "after">> \in After
  BY TurnParts
<1>2. task'[t] = Done
  BY <1>1, NoTurnIsAfter DEF AgentEnds, TasksOK
<1> QED BY <1>2, Records DEF AgentEnds, Enters

\* How a step changes files and objects.
LEMMA StepSessions ==
    ASSUME TypeOK, Next
    PROVE  \/ UNCHANGED sessions \/ Killed
           \/ \E j \in Key : GetOrCreate(j) /\ disk' = disk
           \/ \E u \in Turn : NewSession(u)
           \/ \E u \in Turn : Enters(u) /\ task'[u].pc = "done"
           \/ \E u \in Turn \cup After : Fit(u)
<1>1. CASE ReadInbox
  <2>1. PICK m : m = Head(inbox)
    OBVIOUS
  <2>2. ASSUME NEW t \in Turn, m.cmd = "stop", t \in Stopped(m.key) PROVE task'[t].pc = "done"
    <3>1. task' = [u \in DOMAIN task |-> IF u \in Stopped(m.key) THEN Done ELSE task[u]]
      BY <1>1, <2>1, <2>2 DEF ReadInbox, HandleStop
    <3> QED BY <2>2, <3>1, TypeParts, Records DEF TasksOK
  <2>3. \A t \in Turn : KeyOf(t) \in Key
    BY TurnParts
  <2> QED BY <1>1, <2>1, <2>2, <2>3, ReadSessions
<1>2. CASE (\E u \in Turn : BeginTurn(u)) \/ \E j \in Cron : CronTurn(j)
  <2>1. \A t \in Turn : KeyOf(t) \in Key
    BY TurnParts
  <2> QED BY <1>2, <2>1, Constants DEF BeginTurn, CronTurn
<1>3. CASE \E u \in Turn : AgentEnds(u)
  BY <1>3, TypeParts, EndsEnter
<1>4. CASE \/ Coming \/ \E u \in Turn : AgentFails(u) \/ AgentSends(u) \/ CronCancelled(u)
           \/ \E u \in Turn \cup After : DumpFails(u) \/ \E v \in After : Archives(v)
  BY <1>4 DEF Coming, Come, ComeStop, AgentFails, AgentSends, CronCancelled, DumpFails, Archives,
              sessions
<1> QED BY <1>1, <1>2, <1>3, <1>4 DEF Next, Loop, Agent

LEMMA EntersOwn ==
    ASSUME TypeOK, NEW t \in Turn, NEW u \in Turn, Enters(u), Held(KeyOf(t), t[2])'
    PROVE  Held(KeyOf(t), t[2]) \/ t = u
<1>1. PICK k \in Key, n \in Number : k = KeyOf(t) /\ n = t[2]
  BY TurnParts
<1>2. Held(KeyOf(t), t[2]) \/ (KeyOf(t) = KeyOf(u) /\ t[2] = u[2])
  BY <1>1, EntersHeld
<1>3. t = <<t[1], t[2], "turn">> /\ u = <<u[1], u[2], "turn">>
  BY DEF Turn
<1> QED BY <1>2, <1>3 DEF KeyOf

LEMMA OpenHeld ==
    ASSUME TypeOK, NEW j \in Key, GetOrCreate(j), disk' = disk,
           NEW k \in Key, NEW n \in Number, Held(k, n)'
    PROVE  Held(k, n)
BY TypeParts, OpenStored DEF Held

\* A step puts no turn into a log but one that is at the model and ends in it,
LEMMA HeldStep ==
    ASSUME TypeOK, Next, NEW t \in Turn, Held(KeyOf(t), t[2])'
    PROVE  Held(KeyOf(t), t[2]) \/ (task[t].pc = "agent" /\ task'[t].pc = "done")
<1>1. SessionsOK /\ TasksOK /\ KeyOf(t) \in Key /\ t[2] \in Number
  BY TypeParts, TurnParts
<1>2. PICK k \in Key, n \in Number : k = KeyOf(t) /\ n = t[2]
  BY <1>1
<1>3. Held(k, n)'
  BY <1>2
<1>r. PICK r : Stored(k, r)' /\ n \in Range(r.log)
  BY <1>3 DEF Held
<1>4. CASE UNCHANGED sessions
  BY <1>r, <1>4 DEF sessions, Held, Stored
<1>5. CASE Killed
  <2>1. disk' = disk /\ heap'[k] = <<>> /\ Len(<<>>) = 0
    BY <1>5 DEF Killed
  <2>2. r = disk[k]
    BY <1>r, <2>1 DEF Stored
  <2> QED BY <1>2, <1>r, <2>2 DEF Held, Stored
<1>6. ASSUME NEW j \in Key, GetOrCreate(j), disk' = disk PROVE Held(k, n)
  BY <1>3, <1>6, OpenHeld
<1>7. ASSUME NEW u \in Turn, Enters(u), task'[u].pc = "done"
      PROVE  Held(k, n) \/ (task[t].pc = "agent" /\ task'[t].pc = "done")
  <2>1. Held(KeyOf(t), t[2]) \/ t = u
    BY <1>7, EntersOwn
  <2> QED BY <1>2, <1>7, <2>1 DEF Enters
<1>8. ASSUME NEW u \in Turn \cup After, Fit(u) PROVE Held(k, n)
  BY <1>3, <1>8, FitHeld
<1>9. ASSUME NEW u \in Turn, NewSession(u) PROVE Held(k, n)
  <2>1. r # EmptySession
    BY <1>r, Records DEF Range
  <2> QED BY <1>r, <1>9, <2>1, NewSessionStored DEF Held
<1> QED BY <1>2, <1>4, <1>5, <1>6, <1>7, <1>8, <1>9, StepSessions

\* and a /stop only the turn that holds the lock.
LEMMA ReadHeld ==
    ASSUME TypeOK, ReadInbox, NEW t \in Turn, Held(KeyOf(t), t[2])'
    PROVE  Held(KeyOf(t), t[2]) \/ t = lock.holder
<1>1. PICK k \in Key, n \in Number : k = KeyOf(t) /\ n = t[2]
  BY TurnParts
<1>2. CASE UNCHANGED sessions
  BY <1>2 DEF sessions, Held, Stored
<1>3. ASSUME NEW u \in Turn, u = lock.holder,
             (GetOrCreate(KeyOf(u)) /\ disk' = disk) \/ Enters(u)
      PROVE  Held(KeyOf(t), t[2]) \/ t = lock.holder
  <2>1. KeyOf(u) \in Key
    BY TurnParts
  <2>2. CASE GetOrCreate(KeyOf(u)) /\ disk' = disk
    BY <1>1, <2>1, <2>2, OpenHeld
  <2>3. CASE Enters(u)
    BY <1>3, <2>3, EntersOwn
  <2> QED BY <1>3, <2>2, <2>3
<1> QED BY <1>2, <1>3, ReadSessions
-----------------------------------------------------------------------------
(* Turns begin once, and what is over stays over                            *)

LEMMA Numbers ==
    ASSUME TypeOK, NEW k \in Key
    PROVE  came[k] \in Nat /\ Old <= came[k] /\ came[k] <= MaxTurn
BY TypeParts, Constants DEF BusOK

LEMMA ReadTurn ==
    ASSUME TypeOK, Waiting, ReadInbox, NEW m \in Message, m = Head(inbox), m.cmd # "stop"
    PROVE  /\ TurnOf(m) \in Turn /\ task[TurnOf(m)].pc = "none"
           /\ KeyOf(TurnOf(m)) = m.key /\ TurnOf(m)[2] = m.n
           /\ Old < m.n /\ m.n <= came[m.key] /\ came' = came
           /\ task'[TurnOf(m)].pc \in {"new", "queued"}
           /\ \A u \in (Turn \cup After) \ {TurnOf(m)} : task'[u] = task[u]
           /\ UNCHANGED <<cancelled, talk>>
<1>1. TasksOK /\ BusOK /\ inbox # <<>>
  BY TypeParts DEF ReadInbox
<1>2. inbox \in Seq(Message) /\ 1 \in 1..Len(inbox) /\ m = inbox[1]
  BY <1>1 DEF BusOK
<1>3. Old < m.n /\ m.n <= came[m.key] /\ task[TurnOf(m)].pc = "none"
  BY <1>2 DEF Waiting
<1>4. m.key \in Key /\ m.n \in Nat /\ m.n <= MaxTurn
  BY Constants DEF Message
<1>5. TurnOf(m) \in Turn /\ KeyOf(TurnOf(m)) = m.key /\ TurnOf(m)[2] = m.n
  BY <1>3, <1>4, Constants DEF TurnOf, Turn, Number, KeyOf
<1>6. /\ task' = [task EXCEPT ![TurnOf(m)].pc = IF m.cmd = "new" THEN "new" ELSE "queued"]
      /\ came' = came /\ UNCHANGED <<cancelled, talk>>
  BY DEF ReadInbox, TurnOf
<1>7. PICK t \in Turn : t = TurnOf(m)
  BY <1>5
<1>8. task[t] \in TaskType /\ task \in [Turn \cup After -> TaskType]
  BY <1>1 DEF TasksOK
<1>9. /\ task'[t].pc \in {"new", "queued"}
      /\ \A u \in (Turn \cup After) \ {t} : task'[u] = task[u]
  BY <1>6, <1>7, <1>8 DEF TaskType
<1> QED BY <1>3, <1>5, <1>6, <1>7, <1>9

LEMMA ReadStop ==
    ASSUME TypeOK, ReadInbox, NEW m \in Message, m = Head(inbox), m.cmd = "stop"
    PROVE  /\ HandleStop(m.key) /\ Moves({}) /\ came' = came
           /\ \A t \in Stopped(m.key) : t \in Turn /\ task'[t].pc = "done"
<1>1. TasksOK /\ HandleStop(m.key) /\ came' = came
  BY TypeParts DEF ReadInbox
<1>2. task' = [u \in DOMAIN task |-> IF u \in Stopped(m.key) THEN Done ELSE task[u]]
  BY <1>1 DEF HandleStop
<1>3. \A t \in Stopped(m.key) : t \in Turn /\ task[t].pc \notin {"none", "done"}
  BY DEF Stopped, Running
<1>4. \A u \in Turn : task'[u] = IF u \in Stopped(m.key) THEN Done ELSE task[u]
  BY <1>1, <1>2 DEF TasksOK
<1> QED BY <1>1, <1>3, <1>4, Records DEF Moves

LEMMA CronBegins ==
    ASSUME TypeOK, Asked, NEW k \in Cron, CronTurn(k)
    PROVE  \E t \in Turn :
              /\ t = <<k, came[k] + 1, "turn">> /\ KeyOf(t) = k /\ t[2] = came[k] + 1
              /\ task[t].pc = "none" /\ task'[t].pc = "fit" /\ Old < t[2]
              /\ came'[k] = came[k] + 1 /\ \A j \in Key \ {k} : came'[j] = came[j]
              /\ \A u \in (Turn \cup After) \ {t} : task'[u] = task[u]
<1>1. TasksOK /\ BusOK /\ k \in Key
  BY TypeParts, Constants
<1>2. came[k] \in Nat /\ Old <= came[k] /\ came[k] + 1 <= MaxTurn
  BY <1>1, Numbers, Constants DEF CronTurn
<1>3. PICK n \in Number : n = came[k] + 1
  BY <1>2, Constants DEF Number
<1>4. PICK t \in Turn : t = <<k, n, "turn">> /\ KeyOf(t) = k /\ t[2] = n
  BY <1>1, NewTurn
<1>5. task[t].pc = "none"
  BY <1>2, <1>3, <1>4 DEF Asked
<1>6. task' = [task EXCEPT ![t] = [Idle EXCEPT !.pc = "fit", !.obj = Got(k)]]
  BY <1>3, <1>4 DEF CronTurn
<1>7. /\ task'[t].pc = "fit" /\ \A u \in (Turn \cup After) \ {t} : task'[u] = task[u]
  BY <1>1, <1>6 DEF TasksOK, Idle
<1>8. came'[k] = came[k] + 1 /\ \A j \in Key \ {k} : came'[j] = came[j]
  BY <1>1 DEF CronTurn, BusOK
<1> QED BY <1>2, <1>3, <1>4, <1>5, <1>7, <1>8, Constants

LEMMA HeadMessage ==
    ASSUME TypeOK, ReadInbox PROVE Head(inbox) \in Message
BY TypeParts DEF BusOK, ReadInbox

LEMMA DoneStays ==
    ASSUME TypeOK, Asked, Waiting, Next
    PROVE  \A t \in Turn : task[t].pc = "done" => task'[t].pc = "done"
<1> SUFFICES ASSUME NEW t \in Turn, task[t].pc = "done" PROVE task'[t].pc = "done"
  OBVIOUS
<1>1. CASE ReadInbox
  <2>1. PICK m \in Message : m = Head(inbox)
    BY <1>1, HeadMessage
  <2>2. CASE m.cmd = "stop"
    BY <1>1, <2>1, <2>2, ReadStop DEF Moves
  <2>3. CASE m.cmd # "stop"
    <3>1. t # TurnOf(m) /\ \A u \in (Turn \cup After) \ {TurnOf(m)} : task'[u] = task[u]
      BY <1>1, <2>1, <2>3, ReadTurn
    <3> QED BY <3>1
  <2> QED BY <2>2, <2>3
<1>2. ASSUME NEW k \in Cron, CronTurn(k) PROVE task'[t].pc = "done"
  BY <1>2, CronBegins
<1>3. CASE ~ReadInbox /\ \A k \in Cron : ~CronTurn(k)
  BY <1>3, OtherMoves DEF Moves
<1> QED BY <1>1, <1>2, <1>3

LEMMA CameGrows ==
    ASSUME TypeOK, Next, NEW k \in Key
    PROVE  came'[k] \in Nat /\ came[k] \in Nat /\ came[k] <= came'[k]
<1>1. BusOK
  BY TypeParts
<1>2. came[k] \in Nat
  BY Numbers
<1>3. came' = came \/ \E j : came' = [came EXCEPT ![j] = came[j] + 1]
  BY DEF Next, Coming, Come, ComeStop, Loop, ReadInbox, BeginTurn, NewSession, Agent, AgentEnds,
         AgentFails, AgentSends, CronTurn, CronCancelled, Fit, FitSkips, FitStarts, FitEnds,
         Archives, DumpFails, Killed
<1> QED BY <1>1, <1>2, <1>3 DEF BusOK

LEMMA AskedStep ==
    ASSUME TypeOK, Asked, Waiting, Next PROVE Asked'
<1> SUFFICES ASSUME NEW t \in Turn, task'[t].pc # "none"
             PROVE  Old < t[2] /\ t[2] <= came'[KeyOf(t)]
  BY DEF Asked
<1>1. KeyOf(t) \in Key /\ t[2] \in Nat
  <2>1. KeyOf(t) \in Key /\ t[2] \in Number
    BY TurnParts
  <2> QED BY <2>1, Constants DEF Number
<1>2. came'[KeyOf(t)] \in Nat /\ came[KeyOf(t)] \in Nat /\ came[KeyOf(t)] <= came'[KeyOf(t)]
  BY <1>1, CameGrows
<1>3. CASE task[t].pc # "none"
  <2>1. Old < t[2] /\ t[2] <= came[KeyOf(t)]
    BY <1>3 DEF Asked
  <2> QED BY <1>1, <1>2, <2>1, Constants
<1>4. CASE task[t].pc = "none"
  <2>1. CASE ReadInbox
    <3>1. PICK m \in Message : m = Head(inbox)
      BY <2>1, HeadMessage
    <3>2. m.cmd # "stop" /\ t = TurnOf(m)
      BY <1>4, <2>1, <3>1, ReadStop, ReadTurn DEF Moves
    <3> QED BY <2>1, <3>1, <3>2, ReadTurn
  <2>2. ASSUME NEW k \in Cron, CronTurn(k) PROVE Old < t[2] /\ t[2] <= came'[KeyOf(t)]
    <3>1. t = <<k, came[k] + 1, "turn">>
      BY <1>4, <2>2, CronBegins
    <3>2. Old < t[2] /\ t[2] = came[k] + 1 /\ KeyOf(t) = k /\ came'[k] = came[k] + 1
      BY <2>2, <3>1, CronBegins
    <3> QED BY <1>1, <1>2, <3>2
  <2>3. CASE ~ReadInbox /\ \A k \in Cron : ~CronTurn(k)
    BY <1>4, <2>3, OtherMoves DEF Moves
  <2> QED BY <2>1, <2>2, <2>3
<1> QED BY <1>3, <1>4

\* Messages that are still on the bus after a step still wait for their turns.
LEMMA StillWaiting ==
    ASSUME TypeOK, Waiting, Next, NEW d \in Nat,
           \A i \in 1..Len(inbox') : i + d \in 1..Len(inbox) /\ inbox'[i] = inbox[i + d],
           \A i \in 1..Len(inbox') : inbox'[i].cmd # "stop" =>
               task'[TurnOf(inbox'[i])].pc = "none"
    PROVE  Waiting'
<1>1. \A i \in 1..Len(inbox) : inbox[i] \in Message
  BY TypeParts DEF BusOK
<1> SUFFICES ASSUME NEW i \in 1..Len(inbox'), inbox'[i].cmd # "stop"
             PROVE  /\ Old < inbox'[i].n /\ inbox'[i].n <= came'[inbox'[i].key]
                    /\ \A j \in 1..Len(inbox') :
                          inbox'[j].cmd # "stop" /\ TurnOf(inbox'[j]) = TurnOf(inbox'[i]) => j = i
  BY DEF Waiting, TurnOf
<1>2. PICK m \in Message : m = inbox'[i]
  BY <1>1
<1>3. m.key \in Key /\ m.n \in Nat
  BY Constants DEF Message
<1>4. Old < m.n /\ m.n <= came[m.key]
  BY <1>2 DEF Waiting
<1>5. came'[m.key] \in Nat /\ came[m.key] \in Nat /\ came[m.key] <= came'[m.key]
  BY <1>3, CameGrows
<1>6. Old < m.n /\ m.n <= came'[m.key]
  BY <1>3, <1>4, <1>5
<1>7. ASSUME NEW j \in 1..Len(inbox'), inbox'[j].cmd # "stop",
             TurnOf(inbox'[j]) = TurnOf(inbox'[i])
      PROVE  j = i
  <2>1. /\ i + d \in 1..Len(inbox) /\ inbox'[i] = inbox[i + d]
        /\ j + d \in 1..Len(inbox) /\ inbox'[j] = inbox[j + d]
    OBVIOUS
  <2>2. /\ inbox[i + d].cmd # "stop" /\ inbox[j + d].cmd # "stop"
        /\ TurnOf(inbox[j + d]) = TurnOf(inbox[i + d])
    BY <1>7, <2>1
  <2>3. j + d = i + d
    BY <2>1, <2>2 DEF Waiting
  <2> QED BY <2>3
<1> QED BY <1>2, <1>6, <1>7

LEMMA WaitingOther ==
    ASSUME TypeOK, Waiting, Next, inbox' = inbox,
           \A t \in Turn : task[t].pc = "none" /\ KeyOf(t) \in Chat => task'[t].pc = "none"
    PROVE  Waiting'
<1>1. ASSUME NEW i \in 1..Len(inbox), inbox[i].cmd # "stop"
      PROVE  task'[TurnOf(inbox[i])].pc = "none"
  <2>1. PICK m \in Message : m = inbox[i]
    BY TypeParts DEF BusOK
  <2>2. Old < m.n /\ m.n <= came[m.key] /\ task[TurnOf(m)].pc = "none"
    BY <1>1, <2>1 DEF Waiting
  <2>3. m.key \in Key /\ m.key \in Chat /\ m.n \in Nat /\ m.n <= MaxTurn
    BY Constants DEF Message
  <2>4. TurnOf(m) \in Turn /\ KeyOf(TurnOf(m)) \in Chat
    BY <2>2, <2>3, Constants DEF TurnOf, Turn, Number, KeyOf
  <2> QED BY <2>1, <2>2, <2>4
<1>2. Len(inbox) \in Nat
  BY TypeParts DEF BusOK
<1> QED BY <1>1, <1>2, StillWaiting

LEMMA ComesLast ==
    ASSUME TypeOK, Asked, Waiting, NEW k \in Chat, ComeStop(k) \/ \E cmd \in {"say", "new"} : Come(k, cmd)
    PROVE  Waiting'
<1>1. PICK m : /\ inbox' = Append(inbox, m) /\ m.key = k
               /\ m.cmd # "stop" => /\ m.n = came[k] + 1
                                    /\ came[k] < MaxTurn /\ came' = [came EXCEPT ![k] = m.n]
               /\ m.cmd = "stop" => came' = came
  <2>1. CASE ComeStop(k)
    BY <2>1 DEF ComeStop
  <2>2. ASSUME NEW cmd \in {"say", "new"}, Come(k, cmd)
        PROVE  /\ inbox' = Append(inbox, [key |-> k, n |-> came[k] + 1, cmd |-> cmd])
               /\ came[k] < MaxTurn /\ came' = [came EXCEPT ![k] = came[k] + 1]
    BY <2>2 DEF Come
  <2> QED BY <2>1, <2>2
<1>2. task' = task
  BY DEF ComeStop, Come
<1>3. /\ inbox \in Seq(Message) /\ Len(inbox) \in Nat /\ Len(inbox') = Len(inbox) + 1
      /\ inbox'[Len(inbox) + 1] = m /\ \A i \in 1..Len(inbox) : inbox'[i] = inbox[i]
  BY <1>1, TypeParts DEF BusOK
<1>4. /\ k \in Key /\ came[k] \in Nat /\ Old <= came[k] /\ came \in [Key -> Old..MaxTurn]
  BY TypeParts, Numbers, Constants DEF BusOK
<1>5. ASSUME NEW i \in 1..Len(inbox), inbox[i].cmd # "stop"
      PROVE  /\ Old < inbox[i].n /\ inbox[i].n <= came'[inbox[i].key]
             /\ task'[TurnOf(inbox[i])].pc = "none"
             /\ m.cmd # "stop" => TurnOf(m) # TurnOf(inbox[i])
             /\ \A j \in 1..Len(inbox) :
                   inbox[j].cmd # "stop" /\ TurnOf(inbox[j]) = TurnOf(inbox[i]) => j = i
  <2>1. PICK w \in Message : w = inbox[i]
    BY <1>3
  <2>2. w.key \in Key /\ w.n \in Nat /\ came[w.key] \in Nat
    BY Numbers, Constants DEF Message
  <2>3. Old < w.n /\ w.n <= came[w.key] /\ task[TurnOf(w)].pc = "none"
    BY <1>5, <2>1 DEF Waiting
  <2>4. came'[w.key] = came[w.key] \/ came'[w.key] = came[w.key] + 1
    BY <1>1, <1>4, <2>2
  <2>5. w.n <= came'[w.key]
    BY <2>2, <2>3, <2>4
  <2>6. m.cmd # "stop" => TurnOf(m) # TurnOf(w)
    <3> SUFFICES ASSUME m.cmd # "stop", TurnOf(m) = TurnOf(w) PROVE FALSE
      OBVIOUS
    <3>1. w.key = k /\ w.n = came[k] + 1
      BY <1>1 DEF TurnOf
    <3> QED BY <1>4, <2>3, <3>1
  <2> QED BY <1>2, <1>5, <2>1, <2>3, <2>5, <2>6 DEF Waiting
<1>6. ASSUME m.cmd # "stop"
      PROVE  Old < m.n /\ m.n <= came'[m.key] /\ task'[TurnOf(m)].pc = "none"
  <2>1. m.n = came[k] + 1 /\ m.n <= MaxTurn /\ came'[k] = m.n
    BY <1>1, <1>4, <1>6, Constants
  <2>2. PICK n \in Number : n = m.n
    BY <1>4, <2>1, Constants DEF Number
  <2>3. TurnOf(m) = <<k, n, "turn">>
    BY <1>1, <2>2 DEF TurnOf
  <2>4. PICK t \in Turn : t = <<k, n, "turn">> /\ KeyOf(t) = k /\ t[2] = n
    BY Constants, NewTurn
  <2>5. task[t].pc = "none"
    BY <1>4, <2>1, <2>2, <2>4 DEF Asked
  <2> QED BY <1>1, <1>2, <1>4, <2>1, <2>3, <2>4, <2>5, Constants
<1> SUFFICES ASSUME NEW i \in 1..Len(inbox'), inbox'[i].cmd # "stop"
             PROVE  /\ Old < inbox'[i].n /\ inbox'[i].n <= came'[inbox'[i].key]
                    /\ task'[TurnOf(inbox'[i])].pc = "none"
                    /\ \A j \in 1..Len(inbox') :
                          inbox'[j].cmd # "stop" /\ TurnOf(inbox'[j]) = TurnOf(inbox'[i]) => j = i
  BY DEF Waiting, TurnOf
<1>7. CASE i = Len(inbox) + 1
  <2>1. inbox'[i] = m
    BY <1>3, <1>7
  <2>2. ASSUME NEW j \in 1..Len(inbox'), inbox'[j].cmd # "stop", TurnOf(inbox'[j]) = TurnOf(m)
        PROVE  j = i
    <3>1. CASE j \in 1..Len(inbox)
      BY <1>3, <1>5, <2>1, <2>2, <3>1
    <3> QED BY <1>3, <1>7, <3>1
  <2> QED BY <1>6, <2>1, <2>2
<1>8. CASE i \in 1..Len(inbox)
  <2>1. inbox'[i] = inbox[i]
    BY <1>3, <1>8
  <2>2. ASSUME NEW j \in 1..Len(inbox'), inbox'[j].cmd # "stop",
               TurnOf(inbox'[j]) = TurnOf(inbox[i])
        PROVE  j = i
    <3>1. CASE j \in 1..Len(inbox)
      BY <1>3, <1>5, <1>8, <2>1, <2>2, <3>1
    <3>2. CASE j = Len(inbox) + 1
      BY <1>3, <1>5, <1>8, <2>1, <2>2, <3>2
    <3> QED BY <1>3, <3>1, <3>2
  <2> QED BY <1>5, <1>8, <2>1, <2>2
<1> QED BY <1>3, <1>7, <1>8

LEMMA WaitingStep ==
    ASSUME TypeOK, Asked, Waiting, Next PROVE Waiting'
<1>1. CASE Coming
  BY <1>1, ComesLast DEF Coming
<1>2. CASE Killed
  <2>1. inbox' = <<>> /\ Len(<<>>) = 0
    BY <1>2 DEF Killed
  <2> QED BY <2>1 DEF Waiting
<1>3. CASE ReadInbox
  <2>1. PICK m \in Message : m = Head(inbox)
    BY <1>3, HeadMessage
  <2>2. /\ inbox \in Seq(Message) /\ inbox # <<>> /\ inbox' = Tail(inbox) /\ m = inbox[1]
    BY <1>3, <2>1, TypeParts DEF BusOK, ReadInbox
  <2>3. /\ Len(inbox) \in Nat /\ 1 \in 1..Len(inbox)
        /\ \A i \in 1..Len(inbox') : i + 1 \in 1..Len(inbox) /\ inbox'[i] = inbox[i + 1]
    BY <2>2
  <2>4. ASSUME NEW i \in 1..Len(inbox'), inbox'[i].cmd # "stop"
        PROVE  task'[TurnOf(inbox'[i])].pc = "none"
    <3>1. PICK w \in Message : w = inbox'[i] /\ w = inbox[i + 1]
      BY <2>2, <2>3
    <3>2. Old < w.n /\ w.n <= came[w.key] /\ task[TurnOf(w)].pc = "none"
      BY <2>3, <2>4, <3>1 DEF Waiting
    <3>3. w.key \in Key /\ w.n \in Nat /\ w.n <= MaxTurn
      BY Constants DEF Message
    <3>4. TurnOf(w) \in Turn
      BY <3>2, <3>3, Constants DEF TurnOf, Turn, Number
    <3>5. CASE m.cmd = "stop"
      BY <1>3, <2>1, <3>1, <3>2, <3>4, <3>5, ReadStop DEF Moves
    <3>6. CASE m.cmd # "stop"
      <4>1. TurnOf(w) # TurnOf(m)
        <5>1. i + 1 # 1
          OBVIOUS
        <5> QED BY <2>2, <2>3, <2>4, <3>1, <3>6, <5>1 DEF Waiting
      <4>2. \A u \in (Turn \cup After) \ {TurnOf(m)} : task'[u] = task[u]
        BY <1>3, <2>1, <3>6, ReadTurn
      <4> QED BY <3>1, <3>2, <3>4, <4>1, <4>2
    <3> QED BY <3>5, <3>6
  <2> QED BY <2>3, <2>4, StillWaiting
<1>4. ASSUME NEW k \in Cron, CronTurn(k) PROVE Waiting'
  <2>1. PICK t \in Turn : KeyOf(t) = k /\ \A u \in (Turn \cup After) \ {t} : task'[u] = task[u]
    BY <1>4, CronBegins
  <2>2. inbox' = inbox
    BY <1>4 DEF CronTurn
  <2> QED BY <2>1, <2>2, Constants, WaitingOther
<1>5. CASE ~Coming /\ ~Killed /\ ~ReadInbox /\ \A k \in Cron : ~CronTurn(k)
  <2>1. inbox' = inbox
    BY <1>5 DEF Next, Loop, BeginTurn, NewSession, Agent, AgentEnds, AgentFails, AgentSends,
                CronCancelled, Fit, FitSkips, FitStarts, FitEnds, Archives, DumpFails
  <2>2. Moves({})
    BY <1>5, OtherMoves
  <2> QED BY <2>1, <2>2, WaitingOther DEF Moves
<1> QED BY <1>1, <1>2, <1>3, <1>4, <1>5
-----------------------------------------------------------------------------
(* Logs, /stop and the message tool                                         *)

LEMMA LoggedStep ==
    ASSUME TypeOK, Asked, Waiting, Logged, Next PROVE Logged'
<1> SUFFICES ASSUME NEW t \in Turn, Held(KeyOf(t), t[2])', ~(t[2] <= Old)
             PROVE  task'[t].pc = "done"
  BY DEF Logged
<1> QED BY HeldStep, DoneStays DEF Logged

\* A turn that runs or waits is in no log yet.
LEMMA RunningNotHeld ==
    ASSUME TypeOK, Asked, Logged, NEW t \in Running
    PROVE  t \in Turn /\ task[t].pc # "done" /\ ~Held(KeyOf(t), t[2])
<1>1. t \in Turn /\ task[t].pc \notin {"none", "done"}
  BY DEF Running
<1>2. Old < t[2]
  BY <1>1 DEF Asked
<1>3. t[2] \in Number
  BY <1>1, TurnParts
<1>4. ~(t[2] <= Old)
  BY <1>2, <1>3, Constants DEF Number
<1> QED BY <1>1, <1>4 DEF Logged

LEMMA CancelledStep ==
    ASSUME TypeOK, Asked, Waiting, Logged, CancelledInv, Next PROVE CancelledInv'
<1>1. \A t \in Turn : task[t].pc = "done" => task'[t].pc = "done"
  BY DoneStays
<1>2. CASE cancelled' = cancelled
  BY <1>1, <1>2 DEF CancelledInv
<1>3. CASE cancelled' # cancelled
  <2>1. ReadInbox
    BY <1>3 DEF Next, Coming, Come, ComeStop, Loop, BeginTurn, NewSession, Agent, AgentEnds,
                AgentFails, AgentSends, CronTurn, CronCancelled, Fit, FitSkips, FitStarts, FitEnds,
                Archives, DumpFails, Killed
  <2>2. PICK m \in Message : m = Head(inbox)
    BY <2>1, HeadMessage
  <2>3. CASE m.cmd # "stop"
    BY <1>3, <2>1, <2>2, <2>3, ReadTurn
  <2>4. CASE m.cmd = "stop"
    <3>1. HandleStop(m.key) /\ \A t \in Stopped(m.key) : t \in Turn /\ task'[t].pc = "done"
      BY <2>1, <2>2, <2>4, ReadStop
    <3>2. cancelled' = cancelled \cup {Name(t) : t \in Stopped(m.key)}
      BY <3>1 DEF HandleStop, Stopped
    <3> QED BY <1>1, <3>1, <3>2 DEF CancelledInv
  <2> QED BY <2>3, <2>4
<1> QED BY <1>2, <1>3

\* What a step makes of the names of the turns it ends with Over.
LEMMA OverSilent ==
    ASSUME TypeOK, SilentInv, NEW T \in SUBSET Turn, Over({Name(t) : t \in T}),
           \A t \in T : task[t].pc # "done"
    PROVE  silent' = silent /\ silent' \subseteq crossed'
<1> SUFFICES ASSUME NEW m \in silent, m \in {Name(t) : t \in T} PROVE FALSE
  BY DEF Over, SilentInv
<1> QED BY NameIsUnique DEF SilentInv

LEMMA SilentStep ==
    ASSUME TypeOK, Asked, Waiting, Logged, SilentInv, ToolInv, Next PROVE SilentInv'
<1>1. \A t \in Turn : task[t].pc = "done" => task'[t].pc = "done"
  BY DoneStays
<1>2. CASE silent' = silent /\ silent' \subseteq crossed'
  BY <1>1, <1>2 DEF SilentInv
<1>3. CASE silent' = silent /\ crossed \subseteq crossed'
  BY <1>1, <1>3 DEF SilentInv
<1>4. ASSUME NEW t \in Turn, AgentEnds(t) PROVE SilentInv'
  <2>1. task[t].pc = "agent" /\ <<KeyOf(t), t[2], "after">> \in After /\ TasksOK
    BY <1>4, TurnParts, TypeParts DEF AgentEnds
  <2>2. task'[t].pc = "done"
    BY <1>4, <2>1, NoTurnIsAfter, Records DEF AgentEnds, TasksOK
  <2>3. CASE Over({Name(t)})
    <3>1. {Name(t)} = {Name(u) : u \in {t}} /\ {t} \in SUBSET Turn
      OBVIOUS
    <3>2. \A u \in {t} : task[u].pc # "done"
      BY <2>1
    <3>3. Over({Name(u) : u \in {t}})
      BY <2>3, <3>1
    <3> QED BY <1>2, <3>1, <3>2, <3>3, OverSilent
  <2>4. CASE /\ tool.sent /\ Name(t) \notin told
             /\ silent' = silent \cup {Name(t)} /\ crossed' = crossed
    <3>1. Name(t) \in crossed
      BY <2>1, <2>4 DEF ToolInv
    <3> QED BY <1>1, <2>2, <2>4, <3>1 DEF SilentInv
  <2> QED BY <1>4, <2>3, <2>4 DEF AgentEnds
<1>5. ASSUME NEW t \in Turn, AgentFails(t) \/ CronCancelled(t) PROVE SilentInv'
  <2>1. Over({Name(t)}) /\ task[t].pc # "done"
    BY <1>5 DEF AgentFails, CronCancelled, Running
  <2>2. {Name(t)} = {Name(u) : u \in {t}} /\ {t} \in SUBSET Turn /\ \A u \in {t} : task[u].pc # "done"
    BY <2>1
  <2>3. Over({Name(u) : u \in {t}})
    BY <2>1, <2>2
  <2> QED BY <1>2, <2>2, <2>3, OverSilent
<1>6. CASE ReadInbox
  <2>1. PICK m \in Message : m = Head(inbox)
    BY <1>6, HeadMessage
  <2>2. CASE m.cmd = "stop"
    <3>1. Over({Name(t) : t \in Stopped(m.key)}) /\ Stopped(m.key) \in SUBSET Turn
      BY <1>6, <2>1, <2>2, ReadStop DEF HandleStop
    <3>2. \A t \in Stopped(m.key) : task[t].pc # "done"
      BY DEF Stopped, Running
    <3> QED BY <1>2, <3>1, <3>2, OverSilent
  <2>3. CASE m.cmd # "stop"
    <3>1. UNCHANGED <<silent, crossed>>
      BY <1>6, <2>1, <2>3, ReadTurn DEF talk
    <3> QED BY <1>3, <3>1
  <2> QED BY <2>2, <2>3
<1>7. CASE Killed
  BY <1>2, <1>7 DEF Killed, SilentInv
<1>8. CASE /\ ~ReadInbox /\ ~Killed
           /\ \A t \in Turn : ~AgentEnds(t) /\ ~AgentFails(t) /\ ~CronCancelled(t)
  <2>1. CASE \/ Coming \/ \E t \in Turn : BeginTurn(t) \/ NewSession(t)
             \/ \E k \in Cron : CronTurn(k)
    BY <1>3, <2>1 DEF Coming, Come, ComeStop, BeginTurn, NewSession, CronTurn, talk
  <2>2. CASE \/ \E t \in Turn : AgentSends(t)
             \/ \E t \in Turn \cup After : FitStarts(t) \/ DumpFails(t)
             \/ \E t \in After : Archives(t)
    BY <1>3, <2>2 DEF AgentSends, FitStarts, DumpFails, Archives, talk
  <2>3. ASSUME NEW t \in Turn \cup After, FitSkips(t) \/ FitEnds(t) PROVE SilentInv'
    <3>1. silent' = silent /\ crossed' = crossed
      BY <2>3 DEF FitSkips, FitEnds
    <3> QED BY <1>3, <3>1
  <2> QED BY <1>8, <2>1, <2>2, <2>3 DEF Next, Loop, Agent, Fit
<1> QED BY <1>4, <1>5, <1>6, <1>7, <1>8

\* No turn comes to the model, those of T leave it.
NoAgent(T) == \A t \in Turn : task'[t].pc = "agent" => task[t].pc = "agent" /\ t \notin T

LEMMA ToolKept ==
    ASSUME ToolInv, NEW T \in SUBSET Turn, tool' = tool, NoAgent(T),
           crossed' = crossed \ {Name(t) : t \in T}, told' = told \ {Name(t) : t \in T}
    PROVE  ToolInv'
<1> SUFFICES ASSUME tool.sent, NEW t \in Turn, task'[t].pc = "agent"
             PROVE  Name(t) \in told' \cup crossed'
  BY DEF ToolInv
<1>1. task[t].pc = "agent" /\ t \notin T
  BY DEF NoAgent
<1>2. Name(t) \notin {Name(u) : u \in T}
  BY <1>1, NameIsUnique
<1> QED BY <1>1, <1>2 DEF ToolInv

LEMMA ToolUnused ==
    ASSUME ToolInv, NoAgent({}), UNCHANGED <<tool, crossed, told>> PROVE ToolInv'
<1>1. {} \in SUBSET Turn /\ crossed' = crossed \ {Name(t) : t \in {}} /\ told' = told \ {Name(t) : t \in {}}
  OBVIOUS
<1> QED BY <1>1, ToolKept

LEMMA LeavesAgent ==
    ASSUME TasksOK, NEW t \in Turn \cup After, NEW r, task' = [task EXCEPT ![t] = r],
           r.pc # "agent"
    PROVE  NoAgent({}) /\ (t \in Turn => NoAgent({t}))
BY DEF TasksOK, NoAgent

LEMMA LeavesTask ==
    ASSUME TasksOK, NEW t \in Turn, NEW r, NEW a \in After, NEW q, r.pc # "agent",
           task' = [task EXCEPT ![t] = r, ![a] = q]
    PROVE  NoAgent({}) /\ NoAgent({t})
BY NoTurnIsAfter DEF TasksOK, NoAgent

\* For the turn that comes to the model the tool has sent nothing.
LEMMA GoesOnTool ==
    ASSUME TasksOK, ToolInv, NEW t \in Turn \cup After, GoesOn(t), UNCHANGED <<told, crossed>>
    PROVE  ToolInv'
<1>1. CASE t \in Turn
  <2>1. tool'.sent = FALSE
    BY <1>1 DEF GoesOn, UseTool
  <2> QED BY <2>1 DEF ToolInv
<1>2. CASE t \in After
  <2>1. t \notin Turn
    BY <1>2, NoTurnIsAfter
  <2>2. task' = [task EXCEPT ![t] = Done] /\ tool' = tool
    BY <2>1 DEF GoesOn
  <2> QED BY <2>2, Records, LeavesAgent, ToolUnused
<1> QED BY <1>1, <1>2

LEMMA FitTool ==
    ASSUME TasksOK, ToolInv, NEW t \in Turn \cup After, Fit(t) PROVE ToolInv'
<1>1. told' = told /\ crossed' = crossed
  BY DEF Fit, FitSkips, FitStarts, FitEnds, talk
<1>2. CASE GoesOn(t)
  BY <1>1, <1>2, GoesOnTool
<1>3. ASSUME tool' = tool, NEW s, NEW end, NEW left,
             task' = [task EXCEPT ![t] = Round(t, s, end, left)]
      PROVE  ToolInv'
  <2>1. Round(t, s, end, left).pc # "agent"
    BY DEF Round
  <2> QED BY <1>1, <1>3, <2>1, LeavesAgent, ToolUnused
<1>4. CASE tool' = tool /\ task' = [task EXCEPT ![t] = Done]
  BY <1>1, <1>4, Records, LeavesAgent, ToolUnused
<1> QED BY <1>2, <1>3, <1>4 DEF Fit, FitSkips, FitStarts, FitEnds, talk

LEMMA AgentEndsTool ==
    ASSUME TasksOK, ToolInv, NEW t \in Turn, AgentEnds(t) PROVE ToolInv'
<1>1. PICK a \in After : a = <<KeyOf(t), t[2], "after">>
  BY TurnParts
<1>2. NoAgent({}) /\ NoAgent({t})
  BY <1>1, Records, LeavesAgent, LeavesTask DEF AgentEnds
<1>3. CASE Over({Name(t)})
  <2>1. {Name(t)} = {Name(u) : u \in {t}} /\ {t} \in SUBSET Turn
    OBVIOUS
  <2>2. /\ tool' = tool /\ crossed' = crossed \ {Name(u) : u \in {t}}
        /\ told' = told \ {Name(u) : u \in {t}}
    BY <1>3, <2>1 DEF Over
  <2> QED BY <1>2, <2>1, <2>2, ToolKept
<1>4. CASE UNCHANGED <<tool, told, crossed>>
  BY <1>2, <1>4, ToolUnused
<1> QED BY <1>3, <1>4 DEF AgentEnds

LEMMA AgentSendsTool ==
    ASSUME ToolInv, NEW t \in Turn, AgentSends(t) PROVE ToolInv'
<1>1. /\ task' = task
      /\ told' = IF tool.ctx = KeyOf(t) THEN told \cup {Name(t)} ELSE told
      /\ crossed' = crossed \cup {Name(u) : u \in AtAgent \ {t}}
                           \cup (IF tool.ctx = KeyOf(t) THEN {} ELSE {Name(t)})
  BY DEF AgentSends
<1> SUFFICES ASSUME NEW u \in Turn, task[u].pc = "agent" PROVE Name(u) \in told' \cup crossed'
  BY <1>1 DEF ToolInv
<1>2. CASE u = t
  BY <1>1, <1>2
<1>3. CASE u # t
  BY <1>1, <1>3 DEF AtAgent
<1> QED BY <1>2, <1>3

LEMMA ToolStep ==
    ASSUME TypeOK, Asked, Waiting, ToolInv, Next PROVE ToolInv'
<1>1. TasksOK /\ ToolOK
  BY TypeParts
<1>2. CASE Coming
  <2>1. UNCHANGED <<task, tool, crossed, told>>
    BY <1>2 DEF Coming, Come, ComeStop, talk
  <2> QED BY <2>1, ToolUnused DEF NoAgent
<1>3. CASE ReadInbox
  <2>1. PICK m \in Message : m = Head(inbox)
    BY <1>3, HeadMessage
  <2>2. CASE m.cmd = "stop"
    <3> DEFINE T == Stopped(m.key)
    <3>1. HandleStop(m.key) /\ T \in SUBSET Turn /\ \A t \in T : task'[t].pc = "done"
      BY <1>3, <2>1, <2>2, ReadStop
    <3>2. \A t \in Turn \ T : task'[t] = task[t]
      BY <1>1, <3>1 DEF HandleStop, TasksOK
    <3>3. NoAgent(T)
      BY <3>1, <3>2 DEF NoAgent
    <3>4. /\ tool' = tool /\ crossed' = crossed \ {Name(t) : t \in T}
          /\ told' = told \ {Name(t) : t \in T}
      BY <3>1 DEF HandleStop, Over
    <3> QED BY <3>1, <3>3, <3>4, ToolKept
  <2>3. CASE m.cmd # "stop"
    <3>1. /\ task'[TurnOf(m)].pc \in {"new", "queued"} /\ UNCHANGED talk
          /\ \A u \in (Turn \cup After) \ {TurnOf(m)} : task'[u] = task[u]
      BY <1>3, <2>1, <2>3, ReadTurn
    <3>2. NoAgent({})
      BY <3>1 DEF NoAgent
    <3> QED BY <3>1, <3>2, ToolUnused DEF talk
  <2> QED BY <2>2, <2>3
<1>4. ASSUME NEW t \in Turn, BeginTurn(t) PROVE ToolInv'
  <2>1. /\ task' = [task EXCEPT ![t].pc = "fit", ![t].obj = Got(KeyOf(t))] /\ UNCHANGED talk
    BY <1>4 DEF BeginTurn
  <2>2. task[t] \in TaskType /\ \A u \in (Turn \cup After) \ {t} : task'[u] = task[u]
    BY <1>1, <2>1 DEF TasksOK
  <2>3. task'[t].pc = "fit"
    BY <1>1, <2>1, <2>2 DEF TasksOK, TaskType
  <2>4. NoAgent({})
    BY <2>2, <2>3 DEF NoAgent
  <2> QED BY <2>1, <2>4, ToolUnused DEF talk
<1>5. ASSUME NEW k \in Cron, CronTurn(k) PROVE ToolInv'
  <2>1. NoAgent({})
    BY <1>5, CronBegins DEF NoAgent
  <2> QED BY <1>5, <2>1, ToolUnused DEF CronTurn, talk
<1>6. ASSUME NEW t \in Turn, NewSession(t) PROVE ToolInv'
  <2>1. PICK a \in After : a = <<KeyOf(t), t[2], "after">>
    BY TurnParts
  <2>2. \/ task' = [task EXCEPT ![t] = Done]
        \/ \E q : task' = [task EXCEPT ![t] = Done, ![a] = q]
    BY <1>6, <2>1 DEF NewSession
  <2>3. NoAgent({})
    <3>1. CASE task' = [task EXCEPT ![t] = Done]
      BY <1>1, <3>1, Records, LeavesAgent
    <3>2. ASSUME NEW q, task' = [task EXCEPT ![t] = Done, ![a] = q] PROVE NoAgent({})
      BY <1>1, <3>2, Records, LeavesTask
    <3> QED BY <2>2, <3>1, <3>2
  <2> QED BY <1>6, <2>3, ToolUnused DEF NewSession, talk
<1>7. ASSUME NEW t \in Turn, AgentFails(t) \/ CronCancelled(t) PROVE ToolInv'
  <2>1. task' = [task EXCEPT ![t] = Done] /\ Over({Name(t)})
    BY <1>7 DEF AgentFails, CronCancelled
  <2>2. {Name(t)} = {Name(u) : u \in {t}} /\ {t} \in SUBSET Turn
    OBVIOUS
  <2>3. /\ tool' = tool /\ crossed' = crossed \ {Name(u) : u \in {t}}
        /\ told' = told \ {Name(u) : u \in {t}}
    BY <2>1, <2>2 DEF Over
  <2> QED BY <1>1, <2>1, <2>2, <2>3, Records, LeavesAgent, ToolKept
<1>8. ASSUME NEW t \in After, Archives(t) PROVE ToolInv'
  <2>1. PICK r : task' = [task EXCEPT ![t] = r]
    BY <1>8 DEF Archives
  <2>2. NoAgent({})
    BY <1>1, <2>1, NoTurnIsAfter DEF NoAgent, TasksOK
  <2> QED BY <1>8, <2>2, ToolUnused DEF Archives, talk
<1>9. ASSUME NEW t \in Turn \cup After, DumpFails(t) PROVE ToolInv'
  <2>1. task' = [task EXCEPT ![t] = Done] /\ UNCHANGED talk
    BY <1>9 DEF DumpFails
  <2> QED BY <1>1, <2>1, Records, LeavesAgent, ToolUnused DEF talk
<1>10. CASE Killed
  <2>1. tool'.sent = FALSE
    BY <1>10 DEF Killed
  <2> QED BY <2>1 DEF ToolInv
<1> QED BY <1>1, <1>2, <1>3, <1>4, <1>5, <1>6, <1>7, <1>8, <1>9, <1>10, FitTool, AgentEndsTool,
           AgentSendsTool DEF Next, Loop, Agent

LEMMA TurnsInit ==
    Init => TurnsInv
<1> SUFFICES ASSUME Init PROVE TurnsInv
  OBVIOUS
<1>1. /\ \A t \in Turn : task[t] = Idle
      /\ inbox = <<>> /\ cancelled = {} /\ silent = {} /\ tool.sent = FALSE
  BY DEF Init
<1>2. Asked /\ Waiting /\ CancelledInv /\ ToolInv /\ SilentInv
  BY <1>1, Records DEF Asked, Waiting, CancelledInv, ToolInv, SilentInv
<1>3. Logged
  <2> SUFFICES ASSUME NEW t \in Turn, Held(KeyOf(t), t[2]) PROVE t[2] <= Old
    BY DEF Logged
  <2>1. PICK k \in Key, n \in Number : k = KeyOf(t) /\ n = t[2]
    BY TurnParts
  <2>2. disk[k].log = [i \in 1..Old |-> i] /\ Len(heap[k]) = 0
    BY <2>1 DEF Init
  <2>3. Range([i \in 1..Old |-> i]) = 1..Old
    BY DEF Range
  <2>4. n \in 1..Old
    <3>1. PICK s : Stored(k, s) /\ n \in Range(s.log)
      BY <2>1 DEF Held
    <3>2. s = disk[k]
      BY <2>2, <3>1 DEF Stored
    <3> QED BY <2>2, <2>3, <3>1, <3>2
  <2> QED BY <2>1, <2>4, Constants
<1> QED BY <1>2, <1>3 DEF TurnsInv

LEMMA TurnsStep == TypeOK /\ TurnsInv /\ [Next]_vars => TurnsInv'
<1> SUFFICES ASSUME TypeOK, TurnsInv, [Next]_vars PROVE TurnsInv'
  OBVIOUS
<1>1. CASE UNCHANGED vars
  BY <1>1 DEF vars, TurnsInv, Asked, Waiting, Logged, Held, Stored, CancelledInv, ToolInv, SilentInv
<1>2. CASE Next
  BY <1>2, AskedStep, WaitingStep, LoggedStep, CancelledStep, ToolStep, SilentStep DEF TurnsInv
<1> QED BY <1>1, <1>2

LEMMA TurnsCorrect == Spec => [](TypeOK /\ TurnsInv)
<1>1. TypeOK /\ TurnsInv /\ [Next]_vars => (TypeOK /\ TurnsInv)'
  BY TypeStep, TurnsStep
<1> QED BY <1>1, InitType, TurnsInit, PTL DEF Spec

LEMMA SessionHeld ==
    ASSUME SessionsOK, NEW t \in Turn
    PROVE  InSession(Name(t)) <=> Held(KeyOf(t), t[2])
<1>1. PICK k \in Key, n \in Number : k = KeyOf(t) /\ n = t[2] /\ Name(t) = <<k, n>>
  <2>1. KeyOf(t) \in Key /\ Name(t) = <<KeyOf(t), t[2]>>
    BY TurnParts
  <2> QED BY <2>1, TurnParts, Zenon
<1>2. heap[k] \in Seq(SessionType)
  BY DEF SessionsOK
<1>3. DOMAIN heap[k] = 1..Len(heap[k])
  BY <1>2
<1>4. \A s : s \in {disk[k]} \cup Range(heap[k]) <=> Stored(k, s)
  BY <1>3, Zenon DEF Range, Stored
<1> QED BY <1>1, <1>4 DEF InSession, Held

LEMMA SessionHeldNext ==
    ASSUME SessionsOK', NEW t \in Turn
    PROVE  InSession(Name(t))' <=> Held(KeyOf(t), t[2])'
<1>1. PICK k \in Key, n \in Number : k = KeyOf(t) /\ n = t[2] /\ Name(t) = <<k, n>>
  <2>1. KeyOf(t) \in Key /\ Name(t) = <<KeyOf(t), t[2]>>
    BY TurnParts
  <2> QED BY <2>1, TurnParts, Zenon
<1>2. heap'[k] \in Seq(SessionType)
  BY DEF SessionsOK
<1>3. DOMAIN heap'[k] = 1..Len(heap'[k])
  BY <1>2
<1>4. \A s : s \in {disk'[k]} \cup Range(heap'[k]) <=> Stored(k, s)'
  BY <1>3, Zenon DEF Range, Stored
<1> QED BY <1>1, <1>4 DEF InSession, Held

\* Whatever sessions, turns, consolidations, kills and failing writes there
\* are, a turn that a /stop found running or waiting is recorded in no later
\* step, and in that step only if it held the processing lock.
THEOREM StoppedCorrect == Spec => StoppedIsSettled
<1> DEFINE Settled == \A m \in cancelled' :
        InSession(m)' => \/ InSession(m)
                         \/ /\ m \notin cancelled
                            /\ lock.holder \in Turn /\ m = Name(lock.holder)
<1>1. ASSUME TypeOK, TypeOK', TurnsInv, Next PROVE Settled
  <2>1. /\ SessionsOK /\ SessionsOK' /\ Asked /\ Waiting /\ Logged
        /\ CancelledInv /\ CancelledInv'
    BY <1>1, TypeParts, TypePartsNext, CancelledStep DEF TurnsInv
  <2> SUFFICES ASSUME NEW m \in cancelled', InSession(m)', ~InSession(m)
               PROVE  m \notin cancelled /\ lock.holder \in Turn /\ m = Name(lock.holder)
    OBVIOUS
  <2>2. PICK t \in Turn : m = Name(t)
    BY <2>1 DEF CancelledInv
  <2>3. Held(KeyOf(t), t[2])' /\ ~Held(KeyOf(t), t[2])
    BY <2>1, <2>2, SessionHeld, SessionHeldNext
  <2>4. m \notin cancelled
    <3> SUFFICES ASSUME m \in cancelled PROVE FALSE
      OBVIOUS
    <3>1. task[t].pc = "done"
      BY <2>1, <2>2, NameIsUnique DEF CancelledInv
    <3> QED BY <1>1, <2>3, <3>1, HeldStep
  <2>5. ReadInbox
    BY <1>1, <2>4 DEF Next, Coming, Come, ComeStop, Loop, BeginTurn, NewSession, Agent, AgentEnds,
                AgentFails, AgentSends, CronTurn, CronCancelled, Fit, FitSkips, FitStarts, FitEnds,
                Archives, DumpFails, Killed
  <2>6. t = lock.holder
    BY <1>1, <2>3, <2>5, ReadHeld
  <2> QED BY <2>2, <2>4, <2>6
<1>2. UNCHANGED vars => Settled
  BY DEF vars, InSession
<1>3. TypeOK /\ TypeOK' /\ TurnsInv /\ [Next]_vars => [Settled]_vars
  BY <1>1, <1>2
<1> HIDE DEF Settled
<1>4. Spec => [][Settled]_vars
  BY <1>3, TurnsCorrect, PTL DEF Spec
<1> QED BY <1>4 DEF StoppedIsSettled, Settled

\* However the turns of chats and cron jobs run into each other, a chat whose
\* turn ended without an answer got a message of that turn, unless one went
\* past it.
THEOREM ToldCorrect == Spec => []ChatIsTold
<1>1. TurnsInv => ChatIsTold
  BY DEF TurnsInv, SilentInv, ChatIsTold
<1> QED BY <1>1, TurnsCorrect, PTL
-----------------------------------------------------------------------------
(* Offsets                                                                  *)

\* The turns the offset of s hides are in HISTORY.md.
Good(k, s) == \A i \in 1..s.cons : i <= Len(s.log) /\ archived[k][s.log[i]] > 0

StoredGood ==
    \A k \in Key \ overrun :
        Good(k, disk[k]) /\ \A i \in 1..Len(heap[k]) : Good(k, heap[k][i])

LockInv == \A t \in Turn \cup After : task[t].pc = "fitting" => fitting[KeyOf(t)] = t

\* What a consolidation archives is what its offset will hide.
Exact(t, s) ==
    /\ s.cons < task[t].end /\ task[t].end <= Len(s.log)
    /\ task[t].chunk = {s.log[i] : i \in s.cons + 1 .. task[t].end}

\* Or the session was cleared under it: nothing of it is there any more.
ChunkGood(t) ==
    /\ task[t].chunk # {}
    /\ \A u \in Turn : KeyOf(u) = KeyOf(t) /\ u[2] \in task[t].chunk =>
           u[2] <= Old \/ task[u].pc = "done"
    /\ Exact(t, ObjectOf(t)) \/ task[t].chunk \cap Range(ObjectOf(t).log) = {}

ChunkInv == \A t \in Turn \cup After : task[t].pc = "fitting" => ChunkGood(t)

OffsetInv == StoredGood /\ LockInv /\ ChunkInv

\* HISTORY.md only grows.
Grows == \A k \in Key, n \in Number :
    archived[k][n] \in Nat /\ archived'[k][n] \in Nat /\ archived[k][n] <= archived'[k][n]

LEMMA ConsolidatedGrows ==
    ASSUME TypeOK, NEW t \in Turn \cup After, NEW ok \in BOOLEAN, NEW half \in BOOLEAN,
           Consolidated(t, ok, half)
    PROVE  /\ Grows
           /\ Lands(ok) => \A n \in task[t].chunk : n \in Number => archived'[KeyOf(t)][n] > 0
<1>1. archived \in [Key -> [Number -> Nat]] /\ KeyOf(t) \in Key
  BY TypeParts, TurnParts DEF MemoryOK
<1>2. PICK k \in Key : k = KeyOf(t)
  BY <1>1
<1>3. PICK e \in Nat : e = Entries(ok, half) /\ (Lands(ok) => e > 0)
  BY DEF Entries
<1>4. archived' = [archived EXCEPT ![k] = [n \in Number |->
                      IF n \in task[t].chunk THEN archived[k][n] + e ELSE archived[k][n]]]
  BY <1>2, <1>3 DEF Consolidated
<1>5. ASSUME NEW j \in Key, NEW n \in Number
      PROVE  /\ archived[j][n] \in Nat
             /\ archived'[j][n] = IF j = k /\ n \in task[t].chunk THEN archived[j][n] + e
                                                                  ELSE archived[j][n]
  BY <1>1, <1>4
<1>6. Grows
  <2> SUFFICES ASSUME NEW j \in Key, NEW n \in Number
               PROVE  /\ archived[j][n] \in Nat /\ archived'[j][n] \in Nat
                      /\ archived[j][n] <= archived'[j][n]
    BY DEF Grows
  <2>1. PICK a \in Nat : a = archived[j][n]
    BY <1>5
  <2>2. archived'[j][n] = a \/ archived'[j][n] = a + e
    BY <1>5, <2>1
  <2> QED BY <2>1, <2>2
<1>7. ASSUME Lands(ok), NEW n \in task[t].chunk, n \in Number PROVE archived'[k][n] > 0
  <2>1. PICK a \in Nat : a = archived[k][n]
    BY <1>5, <1>7
  <2>2. archived'[k][n] = a + e /\ e > 0
    BY <1>3, <1>5, <1>7, <2>1
  <2> QED BY <2>2
<1> QED BY <1>2, <1>6, <1>7

LEMMA ArchivedGrows ==
    ASSUME TypeOK, Next PROVE Grows
<1>1. archived \in [Key -> [Number -> Nat]]
  BY TypeParts DEF MemoryOK
<1>2. CASE archived' = archived
  BY <1>1, <1>2 DEF Grows
<1>3. CASE Killed /\ archived' # archived
  <2>1. PICK t \in Turn \cup After :
           archived' = [archived EXCEPT ![KeyOf(t)] = [n \in Number |->
               IF n \in task[t].chunk THEN archived[KeyOf(t)][n] + 1
                                      ELSE archived[KeyOf(t)][n]]]
    BY <1>3, TypeParts DEF Killed, TasksOK
  <2>2. PICK k \in Key : k = KeyOf(t)
    BY TurnParts
  <2>3. archived' = [archived EXCEPT ![k] = [n \in Number |->
            IF n \in task[t].chunk THEN archived[k][n] + 1 ELSE archived[k][n]]]
    BY <2>1, <2>2
  <2> SUFFICES ASSUME NEW j \in Key, NEW n \in Number
               PROVE  /\ archived[j][n] \in Nat /\ archived'[j][n] \in Nat
                      /\ archived[j][n] <= archived'[j][n]
    BY DEF Grows
  <2>4. PICK a \in Nat : a = archived[j][n]
    BY <1>1
  <2>5. archived'[j][n] = a \/ archived'[j][n] = a + 1
    BY <1>1, <2>3, <2>4
  <2> QED BY <2>4, <2>5
<1>5. ASSUME NEW t \in Turn \cup After, DumpFails(t) PROVE Grows
  <2>1. PICK half \in BOOLEAN :
           archived' = [archived EXCEPT ![KeyOf(t)] = [n \in Number |->
               IF half /\ n \in task[t].chunk THEN archived[KeyOf(t)][n] + 1
                                              ELSE archived[KeyOf(t)][n]]]
    BY <1>5 DEF DumpFails
  <2>2. PICK k \in Key : k = KeyOf(t)
    BY TurnParts
  <2> SUFFICES ASSUME NEW j \in Key, NEW n \in Number
               PROVE  /\ archived[j][n] \in Nat /\ archived'[j][n] \in Nat
                      /\ archived[j][n] <= archived'[j][n]
    BY DEF Grows
  <2>4. PICK a \in Nat : a = archived[j][n]
    BY <1>1
  <2>5. archived'[j][n] = a \/ archived'[j][n] = a + 1
    BY <1>1, <2>1, <2>2, <2>4
  <2> QED BY <2>4, <2>5
<1>4. ASSUME NEW t \in Turn \cup After, FitEnds(t) \/ Archives(t) PROVE Grows
  <2>1. PICK ok \in BOOLEAN, half \in BOOLEAN : Consolidated(t, ok, half)
    BY <1>4 DEF FitEnds, Archives
  <2> QED BY <2>1, ConsolidatedGrows
<1> QED BY <1>2, <1>3, <1>4, <1>5 DEF Next, Coming, Come, ComeStop, Loop, ReadInbox, BeginTurn,
           NewSession, Agent, AgentEnds, AgentFails, AgentSends, CronTurn, CronCancelled, Fit,
           FitSkips, FitStarts, memory

LEMMA StoredType ==
    ASSUME SessionsOK, NEW k \in Key, NEW s, Stored(k, s) PROVE s \in SessionType
<1>1. heap[k] \in Seq(SessionType) /\ disk[k] \in SessionType
  BY DEF SessionsOK
<1> QED BY <1>1 DEF Stored

LEMMA GoodGrows ==
    ASSUME Grows, NEW k \in Key, NEW s \in SessionType, Good(k, s) PROVE Good(k, s)'
<1>1. s.log \in Seq(Number) /\ s.cons \in Nat /\ Len(s.log) \in Nat
  BY DEF SessionType
<1> SUFFICES ASSUME NEW i \in 1..s.cons PROVE i <= Len(s.log) /\ archived'[k][s.log[i]] > 0
  BY DEF Good
<1>2. i <= Len(s.log) /\ archived[k][s.log[i]] > 0 /\ i \in Nat /\ i >= 1
  BY <1>1 DEF Good
<1>3. PICK n \in Number : n = s.log[i]
  BY <1>1, <1>2
<1>4. PICK a \in Nat, b \in Nat : a = archived[k][n] /\ b = archived'[k][n] /\ a <= b
  BY DEF Grows
<1>5. a > 0
  BY <1>2, <1>3, <1>4
<1>6. b > 0
  BY <1>4, <1>5
<1> QED BY <1>2, <1>3, <1>4, <1>6

\* A later turn in the log does not change what the offset hides.
LEMMA LongerGood ==
    ASSUME NEW k \in Key, NEW old \in SessionType, Good(k, old), NEW n \in Number,
           NEW s, s = [old EXCEPT !.log = Append(old.log, n)]
    PROVE  s \in SessionType /\ Good(k, s)
<1>1. old.log \in Seq(Number) /\ old.cons \in Nat /\ Len(old.log) \in Nat
  BY DEF SessionType
<1>2. s \in SessionType /\ s.log = Append(old.log, n) /\ s.cons = old.cons
  <2>1. Append(old.log, n) \in Seq(Number)
    BY <1>1
  <2> QED BY <2>1 DEF SessionType
<1> SUFFICES ASSUME NEW i \in 1..s.cons PROVE i <= Len(s.log) /\ archived[k][s.log[i]] > 0
  BY <1>2 DEF Good
<1>3. i \in Nat /\ i >= 1 /\ i <= Len(old.log) /\ archived[k][old.log[i]] > 0
  BY <1>1, <1>2 DEF Good
<1>4. s.log[i] = old.log[i] /\ Len(s.log) = Len(old.log) + 1
  BY <1>1, <1>2, <1>3
<1> QED BY <1>1, <1>3, <1>4

LEMMA OverrunGrows ==
    ASSUME Next PROVE overrun \subseteq overrun'
<1>1. CASE Coming \/ ReadInbox \/ Killed \/ \E k \in Cron : CronTurn(k)
  BY <1>1 DEF Coming, Come, ComeStop, ReadInbox, Killed, CronTurn
<1>2. CASE \E t \in Turn : BeginTurn(t) \/ NewSession(t) \/ CronCancelled(t)
  BY <1>2 DEF BeginTurn, NewSession, CronCancelled
<1>3. CASE \E t \in Turn : AgentSends(t) \/ AgentEnds(t) \/ AgentFails(t)
  BY <1>3 DEF AgentSends, AgentEnds, AgentFails
<1>4. CASE \E t \in Turn \cup After : FitSkips(t) \/ FitStarts(t) \/ FitEnds(t) \/ DumpFails(t)
  BY <1>4 DEF FitSkips, FitStarts, FitEnds, DumpFails
<1>5. CASE \E t \in After : Archives(t)
  BY <1>5 DEF Archives
<1> QED BY <1>1, <1>2, <1>3, <1>4, <1>5 DEF Next, Loop, Agent, Fit

\* The offset moves over what was archived, or the session was cleared.
LEMMA MovedGood ==
    ASSUME TypeOK, NEW t \in Turn \cup After, task[t].pc = "fitting", ChunkGood(t),
           Good(KeyOf(t), ObjectOf(t)), NEW ok \in BOOLEAN, NEW half \in BOOLEAN,
           Consolidated(t, ok, half), ~(Stale(t) /\ Lands(ok)),
           NEW s, s = Moved(ObjectOf(t), t, ok)
    PROVE  Good(KeyOf(t), s)'
<1>1. /\ ObjectOf(t) \in SessionType /\ KeyOf(t) \in Key
      /\ task[t].chunk \in SUBSET Number /\ task[t].end \in Nat
  BY TypeParts, ObjectType DEF TasksOK, TaskType
<1>2. PICK k \in Key, old \in SessionType : k = KeyOf(t) /\ old = ObjectOf(t)
  BY <1>1
<1>3. Grows
  BY ConsolidatedGrows
<1>4. CASE ~Lands(ok)
  <2>1. s = old
    BY <1>2, <1>4 DEF Moved
  <2> QED BY <1>2, <1>3, <2>1, GoodGrows
<1>5. CASE Lands(ok)
  <2>1. Exact(t, old)
    BY <1>2, <1>5 DEF ChunkGood, Stale
  <2>2. s.log = old.log /\ s.cons = task[t].end
    BY <1>2, <1>5, MovedType
  <2>3. old.log \in Seq(Number) /\ old.cons \in Nat /\ Len(old.log) \in Nat
    BY DEF SessionType
  <2>4. Good(k, old)'
    BY <1>2, <1>3, GoodGrows
  <2> SUFFICES ASSUME NEW i \in 1..task[t].end
               PROVE  i <= Len(old.log) /\ archived'[k][old.log[i]] > 0
    BY <1>2, <2>2 DEF Good
  <2>5. i \in Nat /\ i >= 1 /\ i <= task[t].end /\ i <= Len(old.log)
    BY <1>1, <2>1, <2>3 DEF Exact
  <2>6. CASE i <= old.cons
    BY <2>3, <2>4, <2>5, <2>6 DEF Good
  <2>7. CASE ~(i <= old.cons)
    <3>1. i \in old.cons + 1 .. task[t].end
      BY <1>1, <2>3, <2>5, <2>7
    <3>2. old.log[i] \in task[t].chunk
      BY <2>1, <3>1 DEF Exact
    <3> QED BY <1>1, <1>2, <1>5, <2>5, <3>2, ConsolidatedGrows
  <2> QED BY <2>6, <2>7
<1> QED BY <1>4, <1>5

LEMMA StoredGoodStep ==
    ASSUME TypeOK, StoredGood, ChunkInv, Next PROVE StoredGood'
<1> SUFFICES ASSUME NEW k \in Key, k \notin overrun', NEW s, Stored(k, s)' PROVE Good(k, s)'
  BY DEF StoredGood, Stored
<1>1. SessionsOK /\ TasksOK /\ Grows /\ k \notin overrun
  BY TypeParts, ArchivedGrows, OverrunGrows
<1>2. ASSUME NEW r, Stored(k, r) PROVE r \in SessionType /\ Good(k, r) /\ Good(k, r)'
  BY <1>1, <1>2, StoredType, GoodGrows DEF StoredGood, Stored
<1>3. CASE Stored(k, s)
  BY <1>2, <1>3
<1>4. CASE UNCHANGED sessions
  BY <1>2, <1>4 DEF sessions, Stored
<1>5. CASE Killed
  <2>1. disk' = disk /\ heap'[k] = <<>> /\ Len(<<>>) = 0
    BY <1>5 DEF Killed
  <2>2. s = disk[k]
    BY <2>1 DEF Stored
  <2> QED BY <1>2, <2>2 DEF Stored
<1>6. ASSUME NEW j \in Key, GetOrCreate(j), disk' = disk PROVE Good(k, s)'
  BY <1>1, <1>3, <1>6, OpenStored
<1>8. ASSUME NEW u \in Turn, Enters(u) PROVE Good(k, s)'
  <2>1. CASE /\ k = KeyOf(u) /\ Stored(k, ObjectOf(u)) /\ ObjectOf(u) \in SessionType
             /\ s = [ObjectOf(u) EXCEPT !.log = Append(ObjectOf(u).log, u[2])]
    <3>1. PICK old \in SessionType, n \in Number : old = ObjectOf(u) /\ n = u[2]
      BY <2>1, TurnParts
    <3>2. Good(k, old) /\ s = [old EXCEPT !.log = Append(old.log, n)]
      BY <1>2, <2>1, <3>1
    <3>3. s \in SessionType /\ Good(k, s)
      BY <3>2, LongerGood
    <3> QED BY <1>1, <3>3, GoodGrows
  <2> QED BY <1>3, <1>8, <2>1, EntersStored
<1>9. ASSUME NEW u \in Turn \cup After, Fit(u) PROVE Good(k, s)'
  <2>1. ASSUME k = KeyOf(u), FitEnds(u), NEW ok \in BOOLEAN, NEW half \in BOOLEAN,
               Consolidated(u, ok, half), s = Moved(ObjectOf(u), u, ok),
               Stale(u) /\ Lands(ok) => overrun' = overrun \cup {k}
        PROVE  Good(k, s)'
    <3>1. task[u].pc = "fitting" /\ ChunkGood(u) /\ ~(Stale(u) /\ Lands(ok))
      BY <2>1 DEF FitEnds, ChunkInv
    <3>2. task[u].obj \in 1..Len(heap[KeyOf(u)])
      BY <1>1, <3>1, ObjectType
    <3>3. Good(KeyOf(u), ObjectOf(u))
      BY <1>2, <2>1, <3>2 DEF Stored, ObjectOf
    <3> QED BY <2>1, <3>1, <3>3, MovedGood
  <2> QED BY <1>3, <1>9, <2>1, FitStored
<1>10. ASSUME NEW u \in Turn, NewSession(u) PROVE Good(k, s)'
  <2>1. s = EmptySession => Good(k, s)'
    BY Records DEF Good
  <2> QED BY <1>3, <1>10, <2>1, NewSessionStored
<1> QED BY <1>4, <1>5, <1>6, <1>8, <1>9, <1>10, StepSessions

\* Any step leaves any other task either as it is or not at a consolidation.
LEMMA OtherTask ==
    ASSUME TasksOK, NEW t \in Turn \cup After, NEW u \in Turn \cup After, NEW r,
           task' = [task EXCEPT ![u] = r], r.pc # "fitting"
    PROVE  task'[t] = task[t] \/ task'[t].pc # "fitting"
BY DEF TasksOK

LEMMA OtherTwo ==
    ASSUME TasksOK, NEW t \in Turn \cup After, NEW u \in Turn, NEW r, NEW a \in After, NEW q,
           task' = [task EXCEPT ![u] = r, ![a] = q], r.pc # "fitting", q.pc # "fitting"
    PROVE  task'[t] = task[t] \/ task'[t].pc # "fitting"
BY NoTurnIsAfter DEF TasksOK

LEMMA OnlyFit ==
    ASSUME TypeOK, Asked, Waiting, Next, NEW t \in Turn \cup After, task'[t].pc = "fitting"
    PROVE  FitStarts(t) \/ FitEnds(t) \/ task'[t] = task[t]
<1> SUFFICES ASSUME ~FitStarts(t), ~FitEnds(t) PROVE task'[t] = task[t]
  OBVIOUS
<1>1. TasksOK
  BY TypeParts
<1>2. CASE task' = task
  BY <1>2
<1>3. CASE ReadInbox
  <2>1. PICK m \in Message : m = Head(inbox)
    BY <1>3, HeadMessage
  <2>2. CASE m.cmd = "stop"
    <3>1. task'[t] \in {Done, task[t]}
      BY <1>1, <1>3, <2>1, <2>2, ReadStop DEF HandleStop, TasksOK
    <3> QED BY <3>1, Records
  <2>3. CASE m.cmd # "stop"
    BY <1>3, <2>1, <2>3, ReadTurn
  <2> QED BY <2>2, <2>3
<1>4. ASSUME NEW u \in Turn, BeginTurn(u) PROVE task'[t] = task[t]
  <2>1. /\ task' = [task EXCEPT ![u].pc = "fit", ![u].obj = Got(KeyOf(u))]
    BY <1>4 DEF BeginTurn
  <2>2. task[u] \in TaskType /\ \A v \in (Turn \cup After) \ {u} : task'[v] = task[v]
    BY <1>1, <2>1 DEF TasksOK
  <2>3. task'[u].pc = "fit"
    BY <1>1, <2>1, <2>2 DEF TasksOK, TaskType
  <2> QED BY <2>2, <2>3
<1>5. ASSUME NEW k \in Cron, CronTurn(k) PROVE task'[t] = task[t]
  BY <1>5, CronBegins
<1>6. ASSUME NEW u \in Turn, NewSession(u) PROVE task'[t] = task[t]
  <2>1. PICK a \in After : a = <<KeyOf(u), u[2], "after">>
    BY TurnParts
  <2>2. \/ task' = [task EXCEPT ![u] = Done]
        \/ \E q : task' = [task EXCEPT ![u] = Done, ![a] = q] /\ q.pc # "fitting"
    <3>1. /\ Done.pc # "fitting"
          /\ \A c : [Idle EXCEPT !.pc = "archive", !.chunk = c, !.left = RawAfter].pc # "fitting"
      BY Records DEF Idle
    <3> QED BY <1>6, <2>1, <3>1 DEF NewSession
  <2>3. ASSUME NEW q, task' = [task EXCEPT ![u] = Done, ![a] = q], q.pc # "fitting"
        PROVE  task'[t] = task[t]
    BY <1>1, <2>3, Records, OtherTwo
  <2> QED BY <1>1, <2>2, <2>3, Records, OtherTask
<1>7. ASSUME NEW u \in Turn, AgentEnds(u) PROVE task'[t] = task[t]
  <2>1. PICK a \in After : a = <<KeyOf(u), u[2], "after">>
    BY TurnParts
  <2>2. \/ task' = [task EXCEPT ![u] = Done]
        \/ \E q : task' = [task EXCEPT ![u] = Done, ![a] = q] /\ q.pc # "fitting"
    <3>1. \A o : [Idle EXCEPT !.pc = "fit", !.obj = o].pc # "fitting"
      BY DEF Idle
    <3> QED BY <1>7, <2>1, <3>1 DEF AgentEnds
  <2>3. ASSUME NEW q, task' = [task EXCEPT ![u] = Done, ![a] = q], q.pc # "fitting"
        PROVE  task'[t] = task[t]
    BY <1>1, <2>3, Records, OtherTwo
  <2> QED BY <1>1, <2>2, <2>3, Records, OtherTask
<1>8. ASSUME NEW u \in Turn \cup After, task' = [task EXCEPT ![u] = Done] PROVE task'[t] = task[t]
  BY <1>1, <1>8, Records, OtherTask
<1>9. ASSUME NEW u \in After, Archives(u) PROVE task'[t] = task[t]
  <2>1. PICK r : task' = [task EXCEPT ![u] = r] /\ r.pc # "fitting"
    <3>1. task[u] \in TaskType /\ task[u].pc = "archive"
      BY <1>1, <1>9 DEF Archives, TasksOK
    <3>2. [task[u] EXCEPT !.left = task[u].left - 1].pc # "fitting"
      BY <3>1 DEF TaskType
    <3> QED BY <1>9, <3>2, Records DEF Archives
  <2> QED BY <1>1, <2>1, OtherTask
<1>10. ASSUME NEW u \in Turn \cup After, GoesOn(u) PROVE task'[t] = task[t]
  <2>1. PICK r : task' = [task EXCEPT ![u] = r]
                 /\ (r = Done \/ r = [Idle EXCEPT !.pc = "agent", !.obj = task[u].obj])
    BY <1>10 DEF GoesOn
  <2>2. r.pc # "fitting"
    BY <2>1, Records DEF Idle
  <2> QED BY <1>1, <2>1, <2>2, OtherTask
<1>11. ASSUME NEW u \in Turn \cup After, FitStarts(u) \/ FitEnds(u) PROVE task'[t] = task[t]
  <2>1. u # t
    BY <1>11
  <2>2. \A v \in (Turn \cup After) \ {u} : task'[v] = task[v]
    BY <1>1, <1>11 DEF FitStarts, FitEnds, GoesOn, TasksOK
  <2> QED BY <2>1, <2>2
<1>12. CASE Killed
  BY <1>1, <1>12, Records DEF Killed, TasksOK
<1> QED BY <1>2, <1>3, <1>4, <1>5, <1>6, <1>7, <1>8, <1>9, <1>10, <1>11, <1>12
        DEF Next, Coming, Come, ComeStop, Loop, Agent, AgentFails, AgentSends, CronCancelled,
            DumpFails, Fit, FitSkips

LEMMA LockKept ==
    ASSUME LockOK, NEW t \in Turn \cup After, fitting[KeyOf(t)] = t,
           NEW u, u # t, fitting' = Released(u)
    PROVE  fitting'[KeyOf(t)] = t
<1>1. KeyOf(t) \in Key
  BY TurnParts
<1> QED BY <1>1 DEF LockOK, Released

LEMMA NoneIsNoTask == ASSUME NEW t \in Turn \cup After PROVE t # None
BY DEF Turn, After, None

LEMMA LockStep ==
    ASSUME TypeOK, Asked, Waiting, LockInv, Next PROVE LockInv'
<1> SUFFICES ASSUME NEW t \in Turn \cup After, task'[t].pc = "fitting"
             PROVE  fitting'[KeyOf(t)] = t
  BY DEF LockInv
<1>1. TasksOK /\ LockOK /\ KeyOf(t) \in Key
  BY TypeParts, TurnParts
<1>2. CASE FitStarts(t)
  BY <1>1, <1>2 DEF FitStarts, LockOK
<1>3. \A r : task' = [task EXCEPT ![t] = r] => task'[t] = r
  BY <1>1 DEF TasksOK
<1>4. ~GoesOn(t) /\ task' # [task EXCEPT ![t] = Done]
  <2>1. ASSUME GoesOn(t) PROVE FALSE
    <3>1. task'[t] = Done \/ task'[t] = [Idle EXCEPT !.pc = "agent", !.obj = task[t].obj]
      BY <1>3, <2>1 DEF GoesOn
    <3> QED BY <3>1, Records DEF Idle
  <2> QED BY <1>3, <2>1, Records
<1>5. CASE FitEnds(t)
  <2>1. fitting' = fitting /\ task[t].pc = "fitting"
    BY <1>4, <1>5 DEF FitEnds
  <2> QED BY <2>1 DEF LockInv
<1>6. CASE ~FitStarts(t) /\ ~FitEnds(t)
  <2>1. task'[t] = task[t] /\ fitting[KeyOf(t)] = t
    BY <1>6, OnlyFit DEF LockInv
  <2>2. CASE fitting' = fitting
    BY <2>1, <2>2
  <2>3. CASE ReadInbox
    <3>1. PICK m \in Message : m = Head(inbox)
      BY <2>3, HeadMessage
    <3>2. CASE m.cmd = "stop"
      <4>1. HandleStop(m.key) /\ t \notin Stopped(m.key)
        BY <2>3, <3>1, <3>2, ReadStop
      <4> QED BY <1>1, <2>1, <4>1 DEF HandleStop, LockOK
    <3>3. CASE m.cmd # "stop"
      BY <2>2, <2>3, <3>1, <3>3 DEF ReadInbox
    <3> QED BY <3>2, <3>3
  <2>4. ASSUME NEW u \in Turn \cup After, FitStarts(u) PROVE fitting'[KeyOf(t)] = t
    <3>1. fitting[KeyOf(u)] = None /\ fitting' = [fitting EXCEPT ![KeyOf(u)] = u]
      BY <2>4 DEF FitStarts
    <3>2. KeyOf(u) # KeyOf(t)
      BY <2>1, <3>1, NoneIsNoTask
    <3> QED BY <1>1, <2>1, <3>1, <3>2 DEF LockOK
  <2>5. ASSUME NEW u \in Turn \cup After, FitEnds(u) PROVE fitting'[KeyOf(t)] = t
    <3>1. u # t /\ (fitting' = fitting \/ fitting' = Released(u))
      BY <1>6, <2>5 DEF FitEnds, FitReleased
    <3> QED BY <1>1, <2>1, <2>2, <3>1, LockKept
  <2>6. ASSUME NEW u \in Turn \cup After, task' = [task EXCEPT ![u] = Done], fitting' = Released(u)
        PROVE  fitting'[KeyOf(t)] = t
    <3>1. u # t
      BY <1>4, <2>6
    <3> QED BY <1>1, <2>1, <2>6, <3>1, LockKept
  <2>7. CASE Killed
    <3>1. task'[t].pc # "fitting"
      BY <1>1, <2>7, Records DEF Killed, TasksOK
    <3> QED BY <3>1
  <2> QED BY <2>2, <2>3, <2>4, <2>5, <2>6, <2>7
          DEF Next, Coming, Come, ComeStop, Loop, BeginTurn, NewSession, Agent, AgentEnds, AgentFails,
              AgentSends, CronTurn, CronCancelled, Fit, FitSkips, Archives, DumpFails
<1> QED BY <1>2, <1>5, <1>6

\* A new round takes what the log has beyond the offset, all of it over.
LEMMA RoundGood ==
    ASSUME TypeOK, Logged, NEW t \in Turn \cup After, NEW s \in SessionType,
           NEW end \in Boundaries(s), NEW left, task'[t] = Round(t, s, end, left),
           ObjectOf(t)' = s, \A n \in Range(s.log) : Held(KeyOf(t), n),
           \A u \in Turn : task[u].pc = "done" => task'[u].pc = "done"
    PROVE  ChunkGood(t)'
<1>1. /\ s.log \in Seq(Number) /\ s.cons \in Nat /\ Len(s.log) \in Nat
      /\ end \in s.cons + 1 .. Len(s.log) - 1
  BY DEF SessionType, Boundaries
<1>2. /\ task'[t].end = end /\ task'[t].chunk = {s.log[i] : i \in s.cons + 1 .. end}
  BY DEF Round
<1>3. Exact(t, s)'
  BY <1>1, <1>2 DEF Exact
<1>4. task'[t].chunk # {}
  <2>1. s.cons + 1 \in s.cons + 1 .. end
    BY <1>1
  <2>2. s.log[s.cons + 1] \in task'[t].chunk
    BY <1>2, <2>1
  <2> QED BY <2>2
<1>5. \A n \in task'[t].chunk : n \in Range(s.log)
  BY <1>1, <1>2 DEF Range
<1>6. ASSUME NEW u \in Turn, KeyOf(u) = KeyOf(t), u[2] \in task'[t].chunk
      PROVE  u[2] <= Old \/ task'[u].pc = "done"
  BY <1>5, <1>6 DEF Logged
<1>7. Exact(t, ObjectOf(t))'
  BY <1>3 DEF Exact
<1> QED BY <1>4, <1>6, <1>7 DEF ChunkGood

\* What becomes of the object a consolidation is at work on.
LEMMA ObjectStep ==
    ASSUME TypeOK, Asked, Waiting, LockInv, Next, NEW t \in Turn \cup After,
           task'[t].pc = "fitting", ~FitStarts(t), ~FitEnds(t)
    PROVE  \/ ObjectOf(t)' = ObjectOf(t)
           \/ ObjectOf(t)' = EmptySession
           \/ \E u \in Turn : /\ KeyOf(u) = KeyOf(t) /\ task[u].pc = "agent"
                              /\ ObjectOf(t)' = [ObjectOf(t) EXCEPT
                                                     !.log = Append(ObjectOf(t).log, u[2])]
<1>1. SessionsOK /\ TasksOK /\ task'[t] = task[t] /\ task[t].pc = "fitting"
  BY TypeParts, OnlyFit
<1>k. PICK k \in Key : k = KeyOf(t)
  BY TurnParts
<1>2. PICK o \in 1..Len(heap[k]) : k = KeyOf(t) /\ o = task[t].obj
  BY <1>1, <1>k, ObjectType
<1>3. ObjectOf(t) = heap[k][o] /\ ObjectOf(t)' = heap'[k][o]
  BY <1>1, <1>2 DEF ObjectOf
<1>4. heap \in [Key -> Seq(SessionType)] /\ Len(heap[k]) \in Nat
  BY <1>1 DEF SessionsOK
<1>5. CASE heap' = heap
  BY <1>3, <1>5
<1>6. ASSUME NEW j \in Key, heap' = [heap EXCEPT ![j] = Opened(j)] PROVE heap'[k][o] = heap[k][o]
  <2>1. heap'[k] = IF j = k THEN Opened(k) ELSE heap[k]
    BY <1>4, <1>6
  <2>2. o \in 1..Len(Opened(k)) /\ o <= Len(heap[k])
    BY <1>1, <1>4, OpenedType
  <2>3. Opened(k)[o] = heap[k][o]
    BY <1>1, <2>2, OpenedType
  <2> QED BY <2>1, <2>3
<1>7. ASSUME NEW u \in Turn, NewSession(u) PROVE heap'[k][o] \in {heap[k][o], EmptySession}
  <2>1. PICK j \in Key : j = KeyOf(u)
    BY TurnParts
  <2>2. heap' = [heap EXCEPT ![j] = [Opened(j) EXCEPT ![Got(j)] = EmptySession]]
    BY <1>7, <2>1 DEF NewSession
  <2>3. Opened(k) \in Seq(SessionType) /\ o \in 1..Len(Opened(k)) /\ Opened(k)[o] = heap[k][o]
    BY <1>1, <1>4, OpenedType
  <2> QED BY <1>4, <2>2, <2>3
<1>8. ASSUME NEW u \in Turn, Enters(u)
      PROVE  \/ heap'[k][o] = heap[k][o]
             \/ /\ KeyOf(u) = k /\ task[u].pc = "agent"
                /\ heap'[k][o] = [heap[k][o] EXCEPT !.log = Append(heap[k][o].log, u[2])]
  <2>1. /\ task[u].pc = "agent"
        /\ heap' = [heap EXCEPT ![KeyOf(u)][task[u].obj] =
               [heap[KeyOf(u)][task[u].obj] EXCEPT
                    !.log = Append(heap[KeyOf(u)][task[u].obj].log, u[2])]]
    BY <1>8 DEF Enters, Written, ObjectOf, Save, SaveFails
  <2>j. PICK j \in Key : j = KeyOf(u)
    BY TurnParts
  <2>2. PICK p \in 1..Len(heap[j]) : j = KeyOf(u) /\ p = task[u].obj
    BY <1>1, <2>1, <2>j, ObjectType
  <2>3. heap' = [heap EXCEPT ![j][p] = [heap[j][p] EXCEPT !.log = Append(heap[j][p].log, u[2])]]
    BY <2>1, <2>2
  <2>4. CASE j = k /\ p = o
    <3>1. PICK r : r = [heap[k][o] EXCEPT !.log = Append(heap[k][o].log, u[2])]
      OBVIOUS
    <3>2. heap' = [heap EXCEPT ![k][o] = r]
      BY <2>3, <2>4, <3>1
    <3>3. heap'[k][o] = r
      BY <1>4, <3>2
    <3> QED BY <2>1, <2>2, <2>4, <3>1, <3>3
  <2>5. CASE ~(j = k /\ p = o)
    <3>1. PICK r : heap' = [heap EXCEPT ![j][p] = r]
      BY <2>3
    <3>2. heap'[k][o] = heap[k][o]
      BY <1>4, <2>5, <3>1
    <3> QED BY <3>2
  <2> QED BY <2>4, <2>5
<1>9. ASSUME NEW u \in Turn \cup After, FitEnds(u) PROVE heap'[k][o] = heap[k][o]
  <2>1. task[u].pc = "fitting" /\ u # t
    BY <1>9 DEF FitEnds
  <2>2. KeyOf(u) # k
    BY <1>1, <1>2, <2>1 DEF LockInv
  <2>3. heap' = heap \/ \E p, r : heap' = [heap EXCEPT ![KeyOf(u)][p] = r]
    BY <1>9 DEF FitEnds, Save, SaveFails, sessions
  <2> QED BY <1>4, <2>2, <2>3
<1>10. CASE Killed
  <2>1. task'[t].pc # "fitting"
    BY <1>1, <1>10, Records DEF Killed, TasksOK
  <2> QED BY <2>1
<1>11. \/ heap' = heap \/ Killed \/ \E j \in Key : heap' = [heap EXCEPT ![j] = Opened(j)]
       \/ \E u \in Turn : NewSession(u) \/ Enters(u)
       \/ \E u \in Turn \cup After : FitEnds(u)
  <2>1. (\E u \in Turn \cup After : Fit(u)) =>
            heap' = heap \/ \E u \in Turn \cup After : FitEnds(u)
    BY DEF Fit, FitSkips, FitStarts, sessions
  <2> QED BY <2>1, StepSessions DEF sessions, GetOrCreate
<1>12. CASE heap'[k][o] \in {heap[k][o], EmptySession}
  BY <1>3, <1>12
<1>13. ASSUME NEW u \in Turn, KeyOf(u) = k, task[u].pc = "agent",
              heap'[k][o] = [heap[k][o] EXCEPT !.log = Append(heap[k][o].log, u[2])]
       PROVE  \E v \in Turn : /\ KeyOf(v) = KeyOf(t) /\ task[v].pc = "agent"
                              /\ ObjectOf(t)' = [ObjectOf(t) EXCEPT
                                                     !.log = Append(ObjectOf(t).log, v[2])]
  BY <1>2, <1>3, <1>13
<1>14. CASE Killed
  BY <1>10, <1>14
<1>15. CASE heap' = heap \/ (\E j \in Key : heap' = [heap EXCEPT ![j] = Opened(j)])
  BY <1>5, <1>6, <1>12, <1>15
<1>16. CASE (\E u \in Turn : NewSession(u)) \/ \E u \in Turn \cup After : FitEnds(u)
  BY <1>7, <1>9, <1>12, <1>16
<1>17. CASE \E u \in Turn : Enters(u)
  BY <1>8, <1>12, <1>13, <1>17
<1> QED BY <1>11, <1>14, <1>15, <1>16, <1>17

LEMMA ChunkStep ==
    ASSUME TypeOK, Asked, Waiting, Logged, LockInv, ChunkInv, Next PROVE ChunkInv'
<1> SUFFICES ASSUME NEW t \in Turn \cup After, task'[t].pc = "fitting" PROVE ChunkGood(t)'
  BY DEF ChunkInv
<1>1. SessionsOK /\ TasksOK
  BY TypeParts
<1>2. \A u \in Turn : task[u].pc = "done" => task'[u].pc = "done"
  BY DoneStays
<1>3. \A r : task' = [task EXCEPT ![t] = r] => task'[t] = r
  BY <1>1 DEF TasksOK
<1>4. ASSUME task[t].pc \in {"fit", "fitting"}
      PROVE  /\ ObjectOf(t) \in SessionType
             /\ \A n \in Range(ObjectOf(t).log) : Held(KeyOf(t), n)
  <2>1. ObjectOf(t) \in SessionType /\ task[t].obj \in 1..Len(heap[KeyOf(t)])
    BY <1>1, <1>4, ObjectType
  <2> QED BY <2>1 DEF Held, Stored, ObjectOf
<1>5. CASE FitStarts(t)
  <2>1. task[t].pc = "fit" /\ heap' = heap
    BY <1>5 DEF FitStarts, sessions
  <2>2. PICK s \in SessionType : s = ObjectOf(t)
    BY <1>4, <2>1
  <2>3. PICK end \in Boundaries(s) : task'[t] = Round(t, s, end, MaxRounds - 1)
    BY <1>3, <1>5, <2>2 DEF FitStarts
  <2>4. task'[t].obj = task[t].obj
    BY <2>3 DEF Round
  <2>5. ObjectOf(t)' = s
    BY <2>1, <2>2, <2>4 DEF ObjectOf
  <2> QED BY <1>2, <1>4, <2>1, <2>2, <2>3, <2>5, RoundGood
<1>6. CASE FitEnds(t)
  <2>1. task[t].pc = "fitting"
    BY <1>6 DEF FitEnds
  <2>2. ~GoesOn(t) /\ task' # [task EXCEPT ![t] = Done]
    <3>1. ASSUME GoesOn(t) PROVE FALSE
      <4>1. task'[t] = Done \/ task'[t] = [Idle EXCEPT !.pc = "agent", !.obj = task[t].obj]
        BY <1>3, <3>1 DEF GoesOn
      <4> QED BY <4>1, Records DEF Idle
    <3> QED BY <1>3, <3>1, Records
  <2>3. PICK ok \in BOOLEAN :
           LET s == Moved(ObjectOf(t), t, ok) IN
           /\ IF s # ObjectOf(t) THEN Save(KeyOf(t), task[t].obj, s) ELSE UNCHANGED sessions
           /\ \E end \in Boundaries(s) :
                 task' = [task EXCEPT ![t] = Round(t, s, end, task[t].left - 1)]
    BY <1>6, <2>2 DEF FitEnds
  <2>4. PICK s \in SessionType : s = Moved(ObjectOf(t), t, ok) /\ s.log = ObjectOf(t).log
    BY <2>1, MovedType
  <2>5. PICK end \in Boundaries(s) : task'[t] = Round(t, s, end, task[t].left - 1)
    BY <1>3, <2>3, <2>4
  <2>6. task'[t].obj = task[t].obj
    BY <2>5 DEF Round
  <2>k. PICK k \in Key : k = KeyOf(t)
    BY TurnParts
  <2>7. PICK o \in 1..Len(heap[k]) : o = task[t].obj
    BY <1>1, <2>1, <2>k, ObjectType
  <2>8. heap'[k][o] = s
    <3>1. heap \in [Key -> Seq(SessionType)]
      BY <1>1 DEF SessionsOK
    <3>2. CASE s # ObjectOf(t)
      <4>1. heap' = [heap EXCEPT ![k][o] = s]
        BY <2>3, <2>4, <2>k, <2>7, <3>2 DEF Save
      <4> QED BY <3>1, <4>1
    <3>3. CASE s = ObjectOf(t)
      <4>1. heap' = heap
        BY <2>3, <2>4, <3>3 DEF sessions
      <4> QED BY <2>k, <2>7, <3>3, <4>1 DEF ObjectOf
    <3> QED BY <3>2, <3>3
  <2>9. ObjectOf(t)' = s
    BY <2>6, <2>k, <2>7, <2>8 DEF ObjectOf
  <2> QED BY <1>2, <1>4, <2>1, <2>4, <2>5, <2>9, RoundGood
<1>7. CASE ~FitStarts(t) /\ ~FitEnds(t)
  <2>1. task'[t] = task[t] /\ ChunkGood(t)
    BY <1>7, OnlyFit DEF ChunkInv
  <2>2. PICK old \in SessionType : old = ObjectOf(t)
    BY <1>4, <2>1
  <2>3. old.log \in Seq(Number) /\ old.cons \in Nat /\ Len(old.log) \in Nat
    BY DEF SessionType
  <2>4. task[t].end \in Nat
    BY <1>1 DEF TasksOK, TaskType
  <2>5. PICK new : new = ObjectOf(t)'
    OBVIOUS
  <2>6. Exact(t, new) \/ task[t].chunk \cap Range(new.log) = {}
    <3>1. CASE new = old
      BY <2>1, <2>2, <3>1 DEF ChunkGood
    <3>2. CASE new = EmptySession
      BY <3>2, Records DEF Range
    <3>3. ASSUME NEW u \in Turn, KeyOf(u) = KeyOf(t), task[u].pc = "agent",
                 new = [old EXCEPT !.log = Append(old.log, u[2])]
          PROVE  Exact(t, new) \/ task[t].chunk \cap Range(new.log) = {}
      <4>1. u[2] \in Number /\ Old < u[2]
        BY <3>3, TurnParts DEF Asked
      <4>2. u[2] \notin task[t].chunk
        <5>1. ~(u[2] <= Old)
          BY <4>1, Constants DEF Number
        <5> QED BY <2>1, <3>3, <5>1 DEF ChunkGood
      <4>3. new.log = Append(old.log, u[2]) /\ new.cons = old.cons
        BY <3>3 DEF SessionType
      <4>4. /\ Len(new.log) = Len(old.log) + 1
            /\ \A i \in 1..Len(old.log) : new.log[i] = old.log[i]
        BY <2>3, <4>1, <4>3
      <4>5. CASE Exact(t, old)
        <5>1. old.cons < task[t].end /\ task[t].end <= Len(old.log)
              /\ task[t].chunk = {old.log[i] : i \in old.cons + 1 .. task[t].end}
          BY <4>5 DEF Exact
        <5>2. \A i \in old.cons + 1 .. task[t].end : new.log[i] = old.log[i]
          BY <2>3, <2>4, <4>4, <5>1
        <5>3. task[t].chunk = {new.log[i] : i \in new.cons + 1 .. task[t].end}
          BY <4>3, <5>1, <5>2
        <5>4. new.cons < task[t].end /\ task[t].end <= Len(new.log)
          BY <2>3, <2>4, <4>3, <4>4, <5>1
        <5> QED BY <5>3, <5>4 DEF Exact
      <4>6. CASE task[t].chunk \cap Range(old.log) = {}
        <5>1. \A n \in Range(new.log) : n \in Range(old.log) \/ n = u[2]
          BY <2>3, <4>1, <4>3 DEF Range
        <5> QED BY <4>2, <4>6, <5>1
      <4> QED BY <2>1, <2>2, <4>5, <4>6 DEF ChunkGood
    <3> QED BY <1>7, <2>2, <2>5, <3>1, <3>2, <3>3, ObjectStep
  <2>7. (Exact(t, ObjectOf(t)) \/ task[t].chunk \cap Range(ObjectOf(t).log) = {})'
    BY <2>1, <2>5, <2>6 DEF Exact
  <2>8. \A u \in Turn : KeyOf(u) = KeyOf(t) /\ u[2] \in task'[t].chunk =>
            u[2] <= Old \/ task'[u].pc = "done"
    BY <1>2, <2>1 DEF ChunkGood
  <2>9. task'[t].chunk # {}
    BY <2>1 DEF ChunkGood
  <2> QED BY <2>7, <2>8, <2>9 DEF ChunkGood
<1> QED BY <1>5, <1>6, <1>7

LEMMA OffsetInit == Init => OffsetInv
<1> SUFFICES ASSUME Init PROVE OffsetInv
  OBVIOUS
<1>1. \A k \in Key : disk[k].cons = 0 /\ Len(heap[k]) = 0
  BY DEF Init
<1>2. \A t \in Turn \cup After : task[t].pc # "fitting"
  BY Records DEF Init
<1> QED BY <1>1, <1>2 DEF OffsetInv, StoredGood, Good, LockInv, ChunkInv

LEMMA OffsetStep == TypeOK /\ TurnsInv /\ OffsetInv /\ [Next]_vars => OffsetInv'
<1> SUFFICES ASSUME TypeOK, TurnsInv, OffsetInv, [Next]_vars PROVE OffsetInv'
  OBVIOUS
<1>1. CASE UNCHANGED vars
  <2>s. /\ disk' = disk /\ heap' = heap /\ archived' = archived /\ overrun' = overrun
        /\ task' = task /\ fitting' = fitting
    BY <1>1 DEF vars
  <2>o. StoredGood /\ LockInv /\ ChunkInv
    BY DEF OffsetInv
  <2>1. StoredGood'
    BY <2>s, <2>o DEF StoredGood, Good
  <2>2. LockInv'
    BY <2>s, <2>o DEF LockInv
  <2>3. ChunkInv'
    BY <2>s, <2>o DEF ChunkInv, ChunkGood, Exact, ObjectOf
  <2> QED BY <2>1, <2>2, <2>3 DEF OffsetInv
<1>2. CASE Next
  BY <1>2, StoredGoodStep, LockStep, ChunkStep DEF TurnsInv, OffsetInv
<1> QED BY <1>1, <1>2

\* What an offset hides from the model was written to HISTORY.md, for any
\* sessions, any interleaving of turns and consolidations, any number of kills
\* and failing writes, unless /new cleared a session under a consolidation.
THEOREM HiddenCorrect == Spec => []HiddenIsArchived
<1>1. TypeOK /\ OffsetInv => HiddenIsArchived
  <2> SUFFICES ASSUME TypeOK, OffsetInv, NEW k \in Key \ overrun, NEW s \in Seen(k)
               PROVE  Good(k, s)
    BY DEF HiddenIsArchived, OffsetIsArchived, Good
  <2>1. cache[k] \in Nat /\ cache[k] <= Len(heap[k])
    BY TypeParts DEF SessionsOK
  <2>2. s = disk[k] \/ (cache[k] # 0 /\ s = heap[k][cache[k]])
    BY DEF Seen
  <2>3. cache[k] # 0 => cache[k] \in 1..Len(heap[k])
    BY <2>1, TypeParts DEF SessionsOK
  <2> QED BY <2>2, <2>3 DEF OffsetInv, StoredGood
<1>2. TypeOK /\ TurnsInv /\ OffsetInv /\ [Next]_vars => (TypeOK /\ TurnsInv /\ OffsetInv)'
  BY TypeStep, TurnsStep, OffsetStep
<1> QED BY <1>1, <1>2, InitType, TurnsInit, OffsetInit, PTL DEF Spec
=============================================================================
