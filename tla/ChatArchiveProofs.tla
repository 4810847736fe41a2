-------------------------- MODULE ChatArchiveProofs -------------------------
(***************************************************************************)
(* What becomes of the turns of a session: none is lost, and none is       *)
(* written to HISTORY.md twice, for any chats, cron jobs and lengths of    *)
(* their sessions, any number of faults and any thresholds.                *)
(*                                                                         *)
(* The second holds because everything that may still be archived - what   *)
(* is not consolidated of the file and of the objects, the chunks of the   *)
(* consolidations and of the archive tasks - is new to HISTORY.md, and the *)
(* logs and chunks of a session that two tasks are at share no turn.       *)
(***************************************************************************)
EXTENDS ChatSessionsProofs

Objects(k) == 1..Len(heap[k])

\* How a step changes the file, the objects and the cache of session k.
Same(k) == heap'[k] = heap[k] /\ disk'[k] = disk[k] /\ cache'[k] = cache[k]

Opens(k) ==
    /\ cache[k] = 0 /\ cache'[k] = Len(heap[k]) + 1 /\ disk'[k] = disk[k]
    /\ Len(heap'[k]) = Len(heap[k]) + 1
    /\ \A i \in Objects(k) : heap'[k][i] = heap[k][i]
    /\ heap'[k][Len(heap[k]) + 1] = disk[k]

Writes(k, o, s) ==
    /\ o \in Objects(k) /\ Len(heap'[k]) = Len(heap[k]) /\ heap'[k][o] = s
    /\ \A i \in Objects(k) \ {o} : heap'[k][i] = heap[k][i]
    /\ \/ disk'[k] = s /\ cache'[k] = o
       \/ disk'[k] = disk[k] /\ cache'[k] = cache[k]

\* What get_or_create returns.
Current(k) == IF cache[k] = 0 THEN disk[k] ELSE heap[k][cache[k]]

\* Object o of the session, a new one perhaps, is emptied.
Clears(k, o) ==
    /\ o = Got(k) /\ o \in 1..Len(heap'[k]) /\ heap'[k][o] = EmptySession
    /\ Len(heap[k]) <= Len(heap'[k])
    /\ \A i \in 1..Len(heap'[k]) : i # o => i \in Objects(k) /\ heap'[k][i] = heap[k][i]
    /\ \/ disk'[k] = EmptySession /\ cache'[k] = 0
       \/ disk'[k] = disk[k] /\ cache'[k] = o

Drops(k) == Len(heap'[k]) = 0 /\ disk'[k] = disk[k] /\ cache'[k] = 0

LEMMA SessionParts ==
    ASSUME SessionsOK, NEW k \in Key
    PROVE  /\ heap[k] \in Seq(SessionType) /\ Len(heap[k]) \in Nat
           /\ disk[k] \in SessionType /\ cache[k] \in Nat /\ cache[k] <= Len(heap[k])
           /\ cache[k] # 0 => cache[k] \in Objects(k)
           /\ \A i \in Objects(k) : heap[k][i] \in SessionType
           /\ Opened(k)[Got(k)] = Current(k) /\ Current(k) \in SessionType
<1>1. /\ heap[k] \in Seq(SessionType) /\ disk[k] \in SessionType /\ cache[k] \in Nat
      /\ cache[k] <= Len(heap[k])
  BY DEF SessionsOK
<1>2. Len(heap[k]) \in Nat /\ \A i \in 1..Len(heap[k]) : heap[k][i] \in SessionType
  BY <1>1
<1>3. cache[k] # 0 => cache[k] \in Objects(k)
  BY <1>1, <1>2 DEF Objects
<1>4. CASE cache[k] = 0
  <2>1. Opened(k) = Append(heap[k], disk[k]) /\ Got(k) = Len(heap[k]) + 1
    BY <1>4 DEF Opened, Got
  <2>2. Opened(k)[Got(k)] = disk[k]
    BY <1>1, <2>1
  <2> QED BY <1>1, <1>2, <1>4, <2>2 DEF Current, Objects
<1>5. CASE cache[k] # 0
  <2>1. Opened(k)[Got(k)] = heap[k][cache[k]]
    BY <1>5 DEF Opened, Got
  <2> QED BY <1>1, <1>2, <1>3, <1>5, <2>1 DEF Current, Objects
<1> QED BY <1>4, <1>5

LEMMA OpenEffect ==
    ASSUME SessionsOK, NEW k \in Key, GetOrCreate(k), disk' = disk, NEW j \in Key
    PROVE  Same(j) \/ (j = k /\ Opens(j))
<1>1. /\ heap' = [heap EXCEPT ![k] = Opened(k)] /\ cache' = [cache EXCEPT ![k] = Got(k)]
      /\ heap \in [Key -> Seq(SessionType)] /\ cache \in [Key -> Nat]
  BY DEF GetOrCreate, SessionsOK
<1>2. CASE j # k
  BY <1>1, <1>2 DEF Same
<1>3. CASE j = k /\ cache[k] # 0
  BY <1>1, <1>3 DEF Same, Opened, Got
<1>4. CASE j = k /\ cache[k] = 0
  <2>1. heap'[k] = Append(heap[k], disk[k]) /\ cache'[k] = Len(heap[k]) + 1
    BY <1>1, <1>4 DEF Opened, Got
  <2>2. heap[k] \in Seq(SessionType) /\ disk[k] \in SessionType /\ Len(heap[k]) \in Nat
    BY SessionParts
  <2>3. /\ Len(heap'[k]) = Len(heap[k]) + 1 /\ heap'[k][Len(heap[k]) + 1] = disk[k]
        /\ \A i \in 1..Len(heap[k]) : heap'[k][i] = heap[k][i]
    BY <2>1, <2>2
  <2> QED BY <1>4, <2>1, <2>3 DEF Opens, Objects
<1> QED BY <1>2, <1>3, <1>4

LEMMA WriteEffect ==
    ASSUME SessionsOK, NEW k \in Key, NEW o \in Objects(k), NEW s \in SessionType,
           Save(k, o, s) \/ SaveFails(k, o, s), NEW j \in Key
    PROVE  IF j = k THEN Writes(k, o, s) ELSE Same(j)
<1>1. /\ heap' = [heap EXCEPT ![k][o] = s] /\ heap \in [Key -> Seq(SessionType)]
      /\ \/ disk' = [disk EXCEPT ![k] = s] /\ cache' = [cache EXCEPT ![k] = o]
         \/ disk' = disk /\ cache' = cache
      /\ disk \in [Key -> SessionType] /\ cache \in [Key -> Nat]
  BY DEF Save, SaveFails, SessionsOK
<1>2. CASE j # k
  BY <1>1, <1>2 DEF Same
<1>3. CASE j = k
  <2>1. heap[k] \in Seq(SessionType) /\ o \in 1..Len(heap[k])
    BY SessionParts DEF Objects
  <2>2. heap'[k] = [heap[k] EXCEPT ![o] = s]
    BY <1>1
  <2>3. /\ Len(heap'[k]) = Len(heap[k]) /\ heap'[k][o] = s
        /\ \A i \in 1..Len(heap[k]) : i # o => heap'[k][i] = heap[k][i]
    BY <2>1, <2>2, ExceptSeq
  <2>4. \/ disk'[k] = s /\ cache'[k] = o
        \/ disk'[k] = disk[k] /\ cache'[k] = cache[k]
    BY <1>1
  <2> QED BY <1>3, <2>1, <2>3, <2>4 DEF Writes, Objects
<1> QED BY <1>2, <1>3

LEMMA ClearEffect ==
    ASSUME TypeOK, NEW t \in Turn, NewSession(t), NEW j \in Key
    PROVE  IF j = KeyOf(t) THEN Clears(j, Got(j)) ELSE Same(j)
<1>1. PICK k \in Key : k = KeyOf(t)
  BY TurnParts
<1>2. SessionsOK
  BY TypeParts
<1>3. /\ heap' = [heap EXCEPT ![k] = [Opened(k) EXCEPT ![Got(k)] = EmptySession]]
      /\ \/ disk' = [disk EXCEPT ![k] = EmptySession] /\ cache' = [cache EXCEPT ![k] = 0]
         \/ disk' = disk /\ cache' = [cache EXCEPT ![k] = Got(k)]
      /\ heap \in [Key -> Seq(SessionType)]
      /\ disk \in [Key -> SessionType] /\ cache \in [Key -> Nat]
  BY <1>1, <1>2 DEF NewSession, SessionsOK
<1>4. CASE j # k
  BY <1>1, <1>3, <1>4 DEF Same
<1>5. CASE j = k
  <2>1. /\ Opened(k) \in Seq(SessionType) /\ Got(k) \in 1..Len(Opened(k))
        /\ Len(heap[k]) \in Nat /\ Len(Opened(k)) >= Len(heap[k])
        /\ \A i \in 1..Len(Opened(k)) :
              Opened(k)[i] = IF i <= Len(heap[k]) THEN heap[k][i] ELSE disk[k]
    BY <1>2, OpenedType
  <2>2. heap'[k] = [Opened(k) EXCEPT ![Got(k)] = EmptySession]
    BY <1>3
  <2>3. /\ Len(heap'[k]) = Len(Opened(k)) /\ heap'[k][Got(k)] = EmptySession
        /\ \A i \in 1..Len(Opened(k)) : i # Got(k) => heap'[k][i] = Opened(k)[i]
    BY <2>1, <2>2, Records, ExceptSeq
  <2>4. \A i \in 1..Len(Opened(k)) : i # Got(k) => i \in 1..Len(heap[k])
    <3>1. CASE cache[k] = 0
      <4>1. Opened(k) = Append(heap[k], disk[k]) /\ Got(k) = Len(heap[k]) + 1
        BY <3>1 DEF Opened, Got
      <4>2. Len(Opened(k)) = Len(heap[k]) + 1
        BY <1>2, <4>1, SessionParts
      <4> QED BY <2>1, <4>1, <4>2
    <3>2. CASE cache[k] # 0
      BY <3>2 DEF Opened
    <3> QED BY <3>1, <3>2
  <2>5. \A i \in 1..Len(heap'[k]) : i # Got(k) => i \in 1..Len(heap[k]) /\ heap'[k][i] = heap[k][i]
    BY <2>1, <2>3, <2>4
  <2>6. \/ disk'[k] = EmptySession /\ cache'[k] = 0
        \/ disk'[k] = disk[k] /\ cache'[k] = Got(k)
    BY <1>3
  <2> QED BY <1>1, <1>5, <2>1, <2>3, <2>5, <2>6 DEF Clears, Objects
<1> QED BY <1>1, <1>4, <1>5

\* A turn more in the log.
Longer(s, n) == [s EXCEPT !.log = Append(s.log, n)]

LEMMA LongerType ==
    ASSUME NEW s \in SessionType, NEW n \in Number
    PROVE  /\ Longer(s, n) \in SessionType /\ Longer(s, n).cons = s.cons
           /\ Longer(s, n).log = Append(s.log, n)
           /\ s.log \in Seq(Number) /\ Len(s.log) \in Nat /\ s.cons \in Nat
           /\ Len(Append(s.log, n)) = Len(s.log) + 1
           /\ \A i \in 1..Len(s.log) : Append(s.log, n)[i] = s.log[i]
           /\ Append(s.log, n)[Len(s.log) + 1] = n
<1>1. s.log \in Seq(Number) /\ s.cons \in Nat
  BY DEF SessionType
<1>2. /\ Append(s.log, n) \in Seq(Number) /\ Len(s.log) \in Nat
      /\ Len(Append(s.log, n)) = Len(s.log) + 1
      /\ \A i \in 1..Len(s.log) : Append(s.log, n)[i] = s.log[i]
      /\ Append(s.log, n)[Len(s.log) + 1] = n
  BY <1>1, AppendProperties
<1>3. Longer(s, n) \in SessionType
  BY <1>1, <1>2 DEF Longer, SessionType
<1>4. Longer(s, n).cons = s.cons /\ Longer(s, n).log = Append(s.log, n)
  BY DEF Longer, SessionType
<1> QED BY <1>1, <1>2, <1>3, <1>4

EndsTurn(k, t) ==
    /\ t \in Turn /\ KeyOf(t) = k /\ Enters(t) /\ task[t].pc = "agent" /\ task'[t].pc = "done"
    /\ task[t].obj \in Objects(k)
    /\ Writes(k, task[t].obj, Longer(heap[k][task[t].obj], t[2]))

EndsRound(k, t, s) ==
    /\ t \in Turn \cup After /\ KeyOf(t) = k /\ FitEnds(t) /\ task[t].pc = "fitting"
    /\ task[t].obj \in Objects(k)
    /\ s \in SessionType /\ s.log = heap[k][task[t].obj].log
    /\ s.cons = heap[k][task[t].obj].cons \/ s.cons = task[t].end
    /\ Stale(t) => k \in overrun'
    /\ Writes(k, task[t].obj, s)

LEMMA EntersEffect ==
    ASSUME TypeOK, NEW t \in Turn, Enters(t), task'[t].pc = "done", NEW j \in Key
    PROVE  IF j = KeyOf(t) THEN EndsTurn(j, t) ELSE Same(j)
<1>1. PICK k \in Key : k = KeyOf(t)
  BY TurnParts
<1>2. SessionsOK /\ TasksOK /\ task[t].pc = "agent" /\ t[2] \in Number
  BY TypeParts, TurnParts DEF Enters
<1>3. PICK o \in Objects(k) : o = task[t].obj
  BY <1>1, <1>2, ObjectType DEF Objects
<1>4. heap[k][o] \in SessionType
  BY <1>2, SessionParts
<1>5. PICK s \in SessionType : s = Longer(heap[k][o], t[2])
  BY <1>2, <1>4, LongerType
<1>6. Written(t) = s
  BY <1>1, <1>3, <1>5 DEF Written, ObjectOf, Longer
<1>7. Save(k, o, s) \/ SaveFails(k, o, s)
  BY <1>1, <1>3, <1>6 DEF Enters
<1>8. IF j = k THEN Writes(k, o, s) ELSE Same(j)
  BY <1>2, <1>7, WriteEffect
<1> QED BY <1>1, <1>2, <1>3, <1>5, <1>8 DEF EndsTurn

LEMMA FitEndsEffect ==
    ASSUME TypeOK, NEW t \in Turn \cup After, NEW ok \in BOOLEAN, NEW half \in BOOLEAN,
           FitEnds(t), NEW s, s = Moved(ObjectOf(t), t, ok), NEW j \in Key,
           Stale(t) => KeyOf(t) \in overrun',
           Save(KeyOf(t), task[t].obj, s) \/ SaveFails(KeyOf(t), task[t].obj, s)
    PROVE  IF j = KeyOf(t) THEN EndsRound(j, t, s) ELSE Same(j)
<1>1. PICK k \in Key : k = KeyOf(t)
  BY TurnParts
<1>2. SessionsOK /\ TasksOK /\ task[t].pc = "fitting"
  BY TypeParts DEF FitEnds
<1>3. PICK o \in Objects(k) : o = task[t].obj
  BY <1>1, <1>2, ObjectType DEF Objects
<1>4. /\ s \in SessionType /\ s.log = heap[k][o].log
      /\ s.cons = heap[k][o].cons \/ s.cons = task[t].end
  <2>1. /\ s \in SessionType /\ s.log = ObjectOf(t).log
        /\ s.cons = IF Lands(ok) THEN task[t].end ELSE ObjectOf(t).cons
    BY <1>2, MovedType
  <2>2. ObjectOf(t) = heap[k][o]
    BY <1>1, <1>3 DEF ObjectOf
  <2> QED BY <2>1, <2>2
<1>5. Save(k, o, s) \/ SaveFails(k, o, s)
  BY <1>1, <1>3
<1>6. IF j = k THEN Writes(k, o, s) ELSE Same(j)
  BY <1>2, <1>4, <1>5, WriteEffect
<1> QED BY <1>1, <1>2, <1>3, <1>4, <1>6 DEF EndsRound

\* What any step does to any session.
LEMMA KeyStep ==
    ASSUME TypeOK, Next, NEW k \in Key
    PROVE  \/ Same(k) \/ Opens(k)
           \/ Killed /\ Drops(k)
           \/ \E t \in Turn : KeyOf(t) = k /\ NewSession(t) /\ Clears(k, Got(k))
           \/ \E t \in Turn : EndsTurn(k, t)
           \/ \E t \in Turn \cup After, s \in SessionType : EndsRound(k, t, s)
<1>1. SessionsOK
  BY TypeParts
<1>2. CASE UNCHANGED sessions
  BY <1>2 DEF sessions, Same
<1>3. CASE Killed
  BY <1>3 DEF Killed, Drops
<1>4. ASSUME NEW j \in Key, GetOrCreate(j), disk' = disk PROVE Same(k) \/ Opens(k)
  BY <1>1, <1>4, OpenEffect
<1>5. ASSUME NEW t \in Turn \cup After, Fit(t)
      PROVE  UNCHANGED sessions \/ FitEnds(t)
  BY <1>5 DEF Fit, FitSkips, FitStarts, sessions
<1>6. ASSUME NEW t \in Turn, NewSession(t)
      PROVE  Same(k) \/ (KeyOf(t) = k /\ Clears(k, Got(k)))
  BY <1>6, ClearEffect
<1>7. ASSUME NEW t \in Turn, Enters(t), task'[t].pc = "done" PROVE Same(k) \/ EndsTurn(k, t)
  BY <1>7, EntersEffect
<1>8. ASSUME NEW t \in Turn \cup After, FitEnds(t)
      PROVE  Same(k) \/ \E s \in SessionType : EndsRound(k, t, s)
  <2>1. CASE UNCHANGED sessions
    BY <2>1 DEF sessions, Same
  <2>2. ASSUME NEW ok \in BOOLEAN, NEW half \in BOOLEAN, NEW s, s = Moved(ObjectOf(t), t, ok),
               Stale(t) => KeyOf(t) \in overrun',
               Save(KeyOf(t), task[t].obj, s) \/ SaveFails(KeyOf(t), task[t].obj, s)
        PROVE  Same(k) \/ EndsRound(k, t, s)
    BY <1>8, <2>2, FitEndsEffect
  <2>3. \/ UNCHANGED sessions
        \/ \E ok, half \in BOOLEAN : \E s :
              /\ s = Moved(ObjectOf(t), t, ok)
              /\ Stale(t) => KeyOf(t) \in overrun'
              /\ Save(KeyOf(t), task[t].obj, s) \/ SaveFails(KeyOf(t), task[t].obj, s)
    <3>1. PICK ok \in BOOLEAN, half \in BOOLEAN :
             /\ \/ IF Moved(ObjectOf(t), t, ok) # ObjectOf(t)
                   THEN Save(KeyOf(t), task[t].obj, Moved(ObjectOf(t), t, ok))
                   ELSE UNCHANGED sessions
                \/ /\ Lands(ok)
                   /\ SaveFails(KeyOf(t), task[t].obj, Moved(ObjectOf(t), t, ok))
             /\ overrun' = IF Stale(t) /\ Lands(ok) THEN overrun \cup {KeyOf(t)} ELSE overrun
      BY <1>8 DEF FitEnds
    <3>2. Moved(ObjectOf(t), t, ok) # ObjectOf(t) => Lands(ok)
      BY DEF Moved
    <3>3. Lands(ok) => (Stale(t) => KeyOf(t) \in overrun')
      BY <3>1
    <3> QED BY <3>1, <3>2, <3>3
  <2>4. \A s : EndsRound(k, t, s) => s \in SessionType
    BY DEF EndsRound
  <2> QED BY <2>1, <2>2, <2>3, <2>4
<1> QED BY <1>2, <1>3, <1>4, <1>5, <1>6, <1>7, <1>8, StepSessions
-----------------------------------------------------------------------------
(* Logs                                                                     *)

Distinct(s) == \A i, j \in 1..Len(s.log) : s.log[i] = s.log[j] => i = j

\* A log has a turn once, and no other object's log has it; when the cache is
\* empty, a /new has emptied the file, or the process has just started.
LogsGood(k) ==
    /\ Distinct(disk[k]) /\ \A i \in Objects(k) : Distinct(heap[k][i])
    /\ \A i, j \in Objects(k) : i # j =>
           Range(heap[k][i].log) \cap Range(heap[k][j].log) = {}
    /\ cache[k] = 0 /\ Len(heap[k]) > 0 => disk[k] = EmptySession

LogsInv == \A k \in Key : LogsGood(k)

LEMMA EmptyLog ==
    /\ Distinct(EmptySession) /\ Range(EmptySession.log) = {} /\ Unconsolidated(EmptySession) = {}
<1>1. EmptySession.log = <<>> /\ EmptySession.cons = 0 /\ Len(<<>>) = 0
  BY Records
<1> QED BY <1>1 DEF Distinct, Range, Unconsolidated

LEMMA LongerLog ==
    ASSUME NEW s \in SessionType, NEW n \in Number
    PROVE  /\ Range(Longer(s, n).log) = Range(s.log) \cup {n}
           /\ Unconsolidated(Longer(s, n)) \subseteq Unconsolidated(s) \cup {n}
           /\ Distinct(s) /\ n \notin Range(s.log) => Distinct(Longer(s, n))
<1>1. PICK l : l = Longer(s, n).log
  OBVIOUS
<1>2. PICK m \in Nat : m = Len(s.log)
  BY LongerType
<1>3. /\ s.log \in Seq(Number) /\ l = Append(s.log, n) /\ Len(l) = m + 1 /\ l \in Seq(Number)
      /\ \A i \in 1..m : l[i] = s.log[i]
      /\ l[m + 1] = n /\ Longer(s, n).cons = s.cons /\ s.cons \in Nat
  <2>1. l = Append(s.log, n)
    BY <1>1, LongerType
  <2>2. s.log \in Seq(Number)
    BY LongerType
  <2>3. l \in Seq(Number) /\ Len(l) = m + 1
    BY <1>2, <2>1, <2>2, AppendProperties
  <2>4. /\ \A i \in 1..Len(s.log) : Append(s.log, n)[i] = s.log[i]
        /\ Append(s.log, n)[Len(s.log) + 1] = n
        /\ Longer(s, n).cons = s.cons /\ s.cons \in Nat
    BY LongerType
  <2> QED BY <1>2, <2>1, <2>2, <2>3, <2>4
<1>4. DOMAIN l = 1 .. m + 1 /\ DOMAIN s.log = 1..m
  BY <1>2, <1>3, LenProperties
<1>5. Range(l) = Range(s.log) \cup {n}
  <2>1. \A i \in 1 .. m + 1 : i \in 1..m \/ i = m + 1
    BY <1>2
  <2>2. \A i \in 1 .. m + 1 : l[i] \in Range(s.log) \cup {n}
    BY <1>3, <1>4, <2>1 DEF Range
  <2>3. \A i \in 1..m : i \in 1 .. m + 1 /\ l[i] = s.log[i]
    BY <1>2, <1>3
  <2>4. n \in Range(l)
    BY <1>2, <1>3, <1>4 DEF Range
  <2>5. \A i \in 1..m : s.log[i] \in Range(l)
    BY <1>4, <2>3 DEF Range
  <2>6. Range(l) = {l[i] : i \in 1 .. m + 1} /\ Range(s.log) = {s.log[i] : i \in 1..m}
    BY <1>4 DEF Range
  <2> QED BY <2>2, <2>4, <2>5, <2>6
<1>6. Unconsolidated(Longer(s, n)) \subseteq Unconsolidated(s) \cup {n}
  <2> SUFFICES ASSUME NEW i \in s.cons + 1 .. m + 1
               PROVE  l[i] \in Unconsolidated(s) \cup {n}
    BY <1>1, <1>3 DEF Unconsolidated
  <2>1. CASE i = m + 1
    BY <1>3, <2>1
  <2>2. CASE i \in s.cons + 1 .. m
    <3>1. i \in 1..m
      BY <1>3, <2>2
    <3>2. l[i] = s.log[i]
      BY <1>3, <3>1
    <3> QED BY <1>2, <2>2, <3>2 DEF Unconsolidated
  <2> QED BY <1>3, <2>1, <2>2
<1>7. ASSUME Distinct(s), n \notin Range(s.log) PROVE Distinct(Longer(s, n))
  <2> SUFFICES ASSUME NEW i \in 1 .. m + 1, NEW j \in 1 .. m + 1, l[i] = l[j] PROVE i = j
    BY <1>1, <1>3 DEF Distinct
  <2>1. \A h \in 1..m : s.log[h] # n
    BY <1>4, <1>7 DEF Range
  <2>2. CASE i \in 1..m /\ j \in 1..m
    BY <1>2, <1>3, <1>7, <2>2 DEF Distinct
  <2>3. CASE i = m + 1 \/ j = m + 1
    BY <1>3, <2>1, <2>3
  <2> QED BY <2>2, <2>3
<1> QED BY <1>1, <1>5, <1>6, <1>7

\* A turn that is about to be recorded is in no log.
LEMMA NotYet ==
    ASSUME TypeOK, Asked, Logged, NEW k \in Key, NEW t, EndsTurn(k, t)
    PROVE  /\ t \in Turn /\ KeyOf(t) = k /\ t[2] \in Number /\ ~Held(k, t[2])
           /\ \A i \in Objects(k) : t[2] \notin Range(heap[k][i].log)
           /\ t[2] \notin Range(disk[k].log)
<1>1. t \in Turn /\ KeyOf(t) = k /\ t \in Running
  BY DEF EndsTurn, Running
<1>2. t[2] \in Number /\ ~Held(k, t[2])
  BY <1>1, TurnParts, RunningNotHeld
<1>3. \A s : Stored(k, s) => t[2] \notin Range(s.log)
  BY <1>2 DEF Held
<1>4. Stored(k, disk[k]) /\ \A i \in Objects(k) : Stored(k, heap[k][i])
  BY DEF Stored, Objects
<1> QED BY <1>1, <1>2, <1>3, <1>4

LEMMA LogsNext ==
    ASSUME NEW k \in Key,
           Distinct(disk'[k]), \A i \in 1..Len(heap'[k]) : Distinct(heap'[k][i]),
           \A i, j \in 1..Len(heap'[k]) : i # j =>
               Range(heap'[k][i].log) \cap Range(heap'[k][j].log) = {},
           cache'[k] = 0 /\ Len(heap'[k]) > 0 => disk'[k] = EmptySession
    PROVE  LogsGood(k)'
BY DEF LogsGood, Objects

LEMMA LogsStep ==
    ASSUME TypeOK, Asked, Logged, LogsInv, Next PROVE LogsInv'
<1> SUFFICES ASSUME NEW k \in Key PROVE LogsGood(k)'
  BY DEF LogsInv
<1>1. LogsGood(k) /\ SessionsOK
  BY TypeParts DEF LogsInv
<1>2. /\ Len(heap[k]) \in Nat /\ disk[k] \in SessionType
      /\ \A i \in Objects(k) : heap[k][i] \in SessionType
  BY <1>1, SessionParts
<1>3. CASE Same(k)
  BY <1>1, <1>3 DEF Same, LogsGood, Objects, Distinct
<1>4. CASE Opens(k)
  <2>1. /\ cache'[k] # 0 /\ disk'[k] = disk[k]
        /\ \A i \in 1..Len(heap'[k]) :
              \/ i \in Objects(k) /\ heap'[k][i] = heap[k][i]
              \/ i = Len(heap[k]) + 1 /\ heap'[k][i] = disk[k]
    BY <1>2, <1>4 DEF Opens, Objects
  <2>2. \A i \in Objects(k) : disk[k] = EmptySession
    BY <1>1, <1>2, <1>4 DEF LogsGood, Opens, Objects
  <2>3. \A i \in 1..Len(heap'[k]) : Distinct(heap'[k][i])
    BY <1>1, <2>1 DEF LogsGood
  <2>4. ASSUME NEW i \in 1..Len(heap'[k]), NEW j \in 1..Len(heap'[k]), i # j
        PROVE  Range(heap'[k][i].log) \cap Range(heap'[k][j].log) = {}
    <3>1. CASE i \in Objects(k) /\ j \in Objects(k)
      BY <1>1, <1>4, <2>4, <3>1 DEF LogsGood, Opens
    <3>2. CASE i \notin Objects(k)
      <4>1. j \in Objects(k) /\ heap'[k][i] = disk[k]
        BY <2>1, <2>4, <3>2
      <4> QED BY <2>2, <4>1, EmptyLog
    <3>3. CASE j \notin Objects(k)
      <4>1. i \in Objects(k) /\ heap'[k][j] = disk[k]
        BY <2>1, <2>4, <3>3
      <4> QED BY <2>2, <4>1, EmptyLog
    <3> QED BY <3>1, <3>2, <3>3
  <2>5. Distinct(disk[k])
    BY <1>1 DEF LogsGood
  <2> QED BY <2>1, <2>3, <2>4, <2>5, LogsNext
<1>5. CASE Drops(k)
  BY <1>1, <1>5 DEF Drops, LogsGood, Objects, Distinct
<1>6. ASSUME Clears(k, Got(k)) PROVE LogsGood(k)'
  <2>1. \A i \in 1..Len(heap'[k]) :
            \/ i = Got(k) /\ heap'[k][i] = EmptySession
            \/ i \in Objects(k) /\ heap'[k][i] = heap[k][i]
    BY <1>6 DEF Clears, Objects
  <2>2. \A i \in 1..Len(heap'[k]) : Distinct(heap'[k][i])
    BY <1>1, <2>1, EmptyLog DEF LogsGood
  <2>3. ASSUME NEW i \in 1..Len(heap'[k]), NEW j \in 1..Len(heap'[k]), i # j
        PROVE  Range(heap'[k][i].log) \cap Range(heap'[k][j].log) = {}
    <3>1. CASE heap'[k][i] = EmptySession \/ heap'[k][j] = EmptySession
      BY <3>1, EmptyLog
    <3>2. CASE heap'[k][i] # EmptySession /\ heap'[k][j] # EmptySession
      BY <1>1, <2>1, <2>3, <3>2 DEF LogsGood
    <3> QED BY <3>1, <3>2
  <2>4. disk'[k] = EmptySession \/ (disk'[k] = disk[k] /\ cache'[k] = Got(k))
    BY <1>6 DEF Clears
  <2>5. Distinct(disk'[k])
    BY <1>1, <2>4, EmptyLog DEF LogsGood
  <2>6. Got(k) # 0
    BY <1>2 DEF Got
  <2>7. cache'[k] = 0 => disk'[k] = EmptySession
    BY <2>4, <2>6
  <2> QED BY <2>2, <2>3, <2>5, <2>7, LogsNext
<1>7. ASSUME NEW o, NEW s \in SessionType, Writes(k, o, s), Distinct(s),
             \A i \in Objects(k) \ {o} : Range(s.log) \cap Range(heap[k][i].log) = {}
      PROVE  LogsGood(k)'
  <2>1. /\ o \in Objects(k) /\ o # 0 /\ 1..Len(heap'[k]) = Objects(k)
        /\ heap'[k][o] = s /\ \A i \in Objects(k) : i # o => heap'[k][i] = heap[k][i]
        /\ (disk'[k] = s /\ cache'[k] = o) \/ (disk'[k] = disk[k] /\ cache'[k] = cache[k])
        /\ Len(heap'[k]) = Len(heap[k])
    BY <1>7 DEF Writes, Objects
  <2>2. \A i \in Objects(k) : Distinct(heap'[k][i])
    BY <1>1, <1>7, <2>1 DEF LogsGood
  <2>3. ASSUME NEW i \in Objects(k), NEW j \in Objects(k), i # j
        PROVE  Range(heap'[k][i].log) \cap Range(heap'[k][j].log) = {}
    <3>1. CASE i = o
      BY <1>7, <2>1, <2>3, <3>1
    <3>2. CASE j = o
      BY <1>7, <2>1, <2>3, <3>2
    <3>3. CASE i # o /\ j # o
      BY <1>1, <2>1, <2>3, <3>3 DEF LogsGood
    <3> QED BY <3>1, <3>2, <3>3
  <2>4. Distinct(disk'[k]) /\ (cache'[k] = 0 /\ Len(heap'[k]) > 0 => disk'[k] = EmptySession)
    BY <1>1, <1>7, <2>1 DEF LogsGood
  <2> QED BY <2>1, <2>2, <2>3, <2>4, LogsNext
<1>8. ASSUME NEW t, EndsTurn(k, t) PROVE LogsGood(k)'
  <2>1. PICK o \in Objects(k) : o = task[t].obj
    BY <1>8 DEF EndsTurn
  <2>2. PICK n \in Number : n = t[2] /\ \A i \in Objects(k) : n \notin Range(heap[k][i].log)
    BY <1>8, NotYet
  <2>3. PICK s \in SessionType : s = heap[k][o]
    BY <1>2
  <2>4. Writes(k, o, Longer(s, n)) /\ Longer(s, n) \in SessionType
    BY <1>8, <2>1, <2>2, <2>3, LongerType DEF EndsTurn
  <2>5. Distinct(Longer(s, n)) /\ Range(Longer(s, n).log) = Range(s.log) \cup {n}
    BY <1>1, <2>2, <2>3, LongerLog DEF LogsGood
  <2>6. \A i \in Objects(k) \ {o} : Range(Longer(s, n).log) \cap Range(heap[k][i].log) = {}
    BY <1>1, <2>2, <2>3, <2>5 DEF LogsGood
  <2> QED BY <1>7, <2>4, <2>5, <2>6
<1>9. ASSUME NEW t, NEW s \in SessionType, EndsRound(k, t, s) PROVE LogsGood(k)'
  <2>1. PICK o \in Objects(k) : o = task[t].obj /\ s.log = heap[k][o].log /\ Writes(k, o, s)
    BY <1>9 DEF EndsRound
  <2>2. Distinct(s) /\ \A i \in Objects(k) \ {o} : Range(s.log) \cap Range(heap[k][i].log) = {}
    BY <1>1, <2>1 DEF LogsGood, Distinct
  <2> QED BY <1>7, <2>1, <2>2
<1> QED BY <1>3, <1>4, <1>5, <1>6, <1>8, <1>9, KeyStep
-----------------------------------------------------------------------------
(* What becomes of the chunks                                               *)

AfterOf(t) == <<KeyOf(t), t[2], "after">>
Snapshot(k) == Unconsolidated(Current(k))
Under(k) == IF fitting[k] = None THEN {} ELSE task[fitting[k]].chunk
ArchiveTask(c) == [Idle EXCEPT !.pc = "archive", !.chunk = c, !.left = RawAfter]

NewSaved(t) ==
    /\ disk'[KeyOf(t)] = EmptySession /\ cache'[KeyOf(t)] = 0
    /\ task' = [task EXCEPT ![t] = Done,
                            ![AfterOf(t)] = IF Snapshot(KeyOf(t)) = {} THEN Done
                                            ELSE ArchiveTask(Snapshot(KeyOf(t)))]
    /\ again' = again \cup Names(KeyOf(t), Snapshot(KeyOf(t)) \cap Under(KeyOf(t)))
    /\ lost' = lost

NewFails(t) ==
    /\ disk' = disk /\ task' = [task EXCEPT ![t] = Done]
    /\ again' = again /\ lost' = lost \cup Names(KeyOf(t), Snapshot(KeyOf(t)))

LEMMA NewSessionEither ==
    ASSUME TypeOK, NEW t \in Turn, NewSession(t)
    PROVE  NewSaved(t) \/ NewFails(t)
<1>1. PICK k \in Key : k = KeyOf(t)
  BY TurnParts
<1>2. SessionsOK /\ disk \in [Key -> SessionType] /\ cache \in [Key -> Nat]
  BY TypeParts DEF SessionsOK
<1>3. Unconsolidated(Opened(k)[Got(k)]) = Snapshot(k)
  BY <1>2, SessionParts DEF Snapshot
<1>4. \/ /\ disk' = [disk EXCEPT ![k] = EmptySession]
         /\ cache' = [cache EXCEPT ![k] = 0]
         /\ task' = [task EXCEPT ![t] = Done,
                ![<<k, t[2], "after">>] =
                    IF Snapshot(k) = {} THEN Done
                    ELSE [Idle EXCEPT !.pc = "archive", !.chunk = Snapshot(k),
                                      !.left = RawAfter]]
         /\ again' = again \cup Names(k, Snapshot(k) \cap Under(k))
         /\ lost' = lost
      \/ /\ disk' = disk /\ again' = again
         /\ task' = [task EXCEPT ![t] = Done]
         /\ lost' = lost \cup Names(k, Snapshot(k))
  BY <1>1, <1>3 DEF NewSession, Under
<1>5. CASE /\ disk' = [disk EXCEPT ![k] = EmptySession]
           /\ cache' = [cache EXCEPT ![k] = 0]
  <2>1. disk'[k] = EmptySession /\ cache'[k] = 0
    BY <1>2, <1>5
  <2> QED BY <1>1, <1>4, <2>1 DEF NewSaved, NewFails, AfterOf, ArchiveTask
<1> QED BY <1>1, <1>4, <1>5 DEF NewFails

LEMMA ArchiveTaskParts ==
    ASSUME NEW c
    PROVE  /\ ArchiveTask(c).pc = "archive" /\ ArchiveTask(c).chunk = c
           /\ ArchiveTask(c).left = RawAfter
BY DEF ArchiveTask, Idle

\* What /new makes of the tasks.
LEMMA NewSavedTasks ==
    ASSUME TasksOK, NEW t \in Turn, NewSaved(t)
    PROVE  /\ AfterOf(t) \in After /\ KeyOf(AfterOf(t)) = KeyOf(t) /\ t # AfterOf(t)
           /\ task'[t] = Done
           /\ task'[AfterOf(t)] = IF Snapshot(KeyOf(t)) = {} THEN Done
                                  ELSE ArchiveTask(Snapshot(KeyOf(t)))
           /\ \A u \in (Turn \cup After) \ {t, AfterOf(t)} : task'[u] = task[u]
<1>1. KeyOf(t) \in Key /\ t[2] \in Number /\ AfterOf(t) \in After
  BY TurnParts DEF AfterOf
<1>2. KeyOf(AfterOf(t)) = KeyOf(t)
  BY DEF AfterOf, KeyOf
<1>3. t # AfterOf(t)
  BY <1>1, NoTurnIsAfter
<1> QED BY <1>1, <1>2, <1>3 DEF NewSaved, TasksOK

\* The tasks outside T are no new archives.
NoNewArchive(T) ==
    \A a \in (Turn \cup After) \ T : task'[a].pc = "archive" =>
        /\ task[a].pc = "archive" /\ task'[a].chunk = task[a].chunk
        /\ task'[a].left = task[a].left \/ Archives(a)

LEMMA NoArchiveOne ==
    ASSUME TasksOK, NEW u \in Turn \cup After, NEW r, task' = [task EXCEPT ![u] = r],
           r.pc # "archive"
    PROVE  NoNewArchive({})
BY DEF TasksOK, NoNewArchive

LEMMA NoArchiveTwo ==
    ASSUME TasksOK, NEW u \in Turn, NEW r, NEW a \in After, NEW q,
           task' = [task EXCEPT ![u] = r, ![a] = q], r.pc # "archive", q.pc # "archive"
    PROVE  NoNewArchive({})
BY NoTurnIsAfter DEF TasksOK, NoNewArchive

LEMMA GoesOnNoArchive ==
    ASSUME TasksOK, NEW u \in Turn \cup After, GoesOn(u) PROVE NoNewArchive({})
<1>1. PICK r : task' = [task EXCEPT ![u] = r]
               /\ (r = Done \/ r = [Idle EXCEPT !.pc = "agent", !.obj = task[u].obj])
  BY DEF GoesOn
<1>2. r.pc # "archive"
  BY <1>1, Records DEF Idle
<1> QED BY <1>1, <1>2, NoArchiveOne

LEMMA FitNoArchive ==
    ASSUME TasksOK, NEW u \in Turn \cup After, FitStarts(u) \/ FitEnds(u)
    PROVE  NoNewArchive({})
<1>1. \/ GoesOn(u) \/ task' = [task EXCEPT ![u] = Done]
      \/ \E s, end, left : task' = [task EXCEPT ![u] = Round(u, s, end, left)]
  BY DEF FitStarts, FitEnds
<1>2. ASSUME NEW s, NEW end, NEW left, task' = [task EXCEPT ![u] = Round(u, s, end, left)]
      PROVE  NoNewArchive({})
  <2>1. Round(u, s, end, left).pc # "archive"
    BY DEF Round
  <2> QED BY <1>2, <2>1, NoArchiveOne
<1>3. CASE task' = [task EXCEPT ![u] = Done]
  BY <1>3, Records, NoArchiveOne
<1> QED BY <1>1, <1>2, <1>3, GoesOnNoArchive

LEMMA ArchiveStep ==
    ASSUME TypeOK, Asked, Waiting, Next
    PROVE  \/ NoNewArchive({})
           \/ \E t \in Turn : NewSession(t) /\ NewSaved(t) /\ NoNewArchive({AfterOf(t)})
<1>1. TasksOK
  BY TypeParts
<1>d. Done.pc # "archive"
  BY Records
<1>2. CASE task' = task
  BY <1>2 DEF NoNewArchive
<1>3. CASE ReadInbox
  <2>1. PICK m \in Message : m = Head(inbox)
    BY <1>3, HeadMessage
  <2>2. CASE m.cmd = "stop"
    <3>1. \A t \in Turn \cup After : task'[t] \in {Done, task[t]}
      BY <1>1, <1>3, <2>1, <2>2, ReadStop DEF HandleStop, TasksOK
    <3> QED BY <3>1, <1>d DEF NoNewArchive
  <2>3. CASE m.cmd # "stop"
    <3>1. /\ task'[TurnOf(m)].pc \in {"new", "queued"}
          /\ \A u \in (Turn \cup After) \ {TurnOf(m)} : task'[u] = task[u]
      BY <1>3, <2>1, <2>3, ReadTurn
    <3> QED BY <3>1 DEF NoNewArchive
  <2> QED BY <2>2, <2>3
<1>4. ASSUME NEW u \in Turn, BeginTurn(u) PROVE NoNewArchive({})
  <2>1. /\ task' = [task EXCEPT ![u].pc = "fit", ![u].obj = Got(KeyOf(u))]
    BY <1>4 DEF BeginTurn
  <2>2. task[u] \in TaskType /\ \A v \in (Turn \cup After) \ {u} : task'[v] = task[v]
    BY <1>1, <2>1 DEF TasksOK
  <2>3. task'[u].pc = "fit"
    BY <1>1, <2>1, <2>2 DEF TasksOK, TaskType
  <2> QED BY <2>2, <2>3 DEF NoNewArchive
<1>5. ASSUME NEW k \in Cron, CronTurn(k) PROVE NoNewArchive({})
  <2>1. PICK t \in Turn : /\ task'[t].pc = "fit"
                          /\ \A u \in (Turn \cup After) \ {t} : task'[u] = task[u]
    BY <1>5, CronBegins
  <2> QED BY <2>1 DEF NoNewArchive
<1>6. ASSUME NEW u \in Turn, NewSession(u)
      PROVE  NoNewArchive({}) \/ (NewSaved(u) /\ NoNewArchive({AfterOf(u)}))
  <2>1. CASE NewSaved(u)
    <3>1. \A v \in (Turn \cup After) \ {u, AfterOf(u)} : task'[v] = task[v]
      BY <1>1, <2>1, NewSavedTasks
    <3>2. task'[u] = Done
      BY <1>1, <2>1, NewSavedTasks
    <3> QED BY <2>1, <3>1, <3>2, <1>d DEF NoNewArchive
  <2>2. CASE NewFails(u)
    BY <1>1, <1>d, <2>2, NoArchiveOne DEF NewFails
  <2> QED BY <1>6, <2>1, <2>2, NewSessionEither
<1>7. ASSUME NEW u \in Turn, AgentEnds(u) PROVE NoNewArchive({})
  <2>1. PICK a \in After : a = <<KeyOf(u), u[2], "after">>
    BY TurnParts
  <2>2. \/ task' = [task EXCEPT ![u] = Done]
        \/ \E q : task' = [task EXCEPT ![u] = Done, ![a] = q] /\ q.pc # "archive"
    <3>1. \A o : [Idle EXCEPT !.pc = "fit", !.obj = o].pc # "archive"
      BY DEF Idle
    <3> QED BY <1>7, <2>1, <3>1 DEF AgentEnds
  <2>3. ASSUME NEW q, task' = [task EXCEPT ![u] = Done, ![a] = q], q.pc # "archive"
        PROVE  NoNewArchive({})
    BY <1>1, <1>d, <2>3, NoArchiveTwo
  <2> QED BY <1>1, <1>d, <2>2, <2>3, NoArchiveOne
<1>8. ASSUME NEW u \in Turn \cup After, task' = [task EXCEPT ![u] = Done] PROVE NoNewArchive({})
  BY <1>1, <1>d, <1>8, NoArchiveOne
<1>9. ASSUME NEW u \in After, Archives(u) PROVE NoNewArchive({})
  <2>1. task[u] \in TaskType /\ task[u].pc = "archive"
    BY <1>1, <1>9 DEF Archives, TasksOK
  <2>2. [task[u] EXCEPT !.left = task[u].left - 1].chunk = task[u].chunk
    BY <2>1 DEF TaskType
  <2>3. \A v \in (Turn \cup After) \ {u} : task'[v] = task[v]
    BY <1>1, <1>9 DEF Archives, TasksOK
  <2>4. task'[u] = Done \/ task'[u] = [task[u] EXCEPT !.left = task[u].left - 1]
    BY <1>1, <1>9 DEF Archives, TasksOK
  <2> QED BY <1>9, <1>d, <2>1, <2>2, <2>3, <2>4 DEF NoNewArchive
<1>10. ASSUME NEW u \in Turn \cup After, GoesOn(u) \/ FitStarts(u) \/ FitEnds(u)
       PROVE  NoNewArchive({})
  BY <1>1, <1>10, GoesOnNoArchive, FitNoArchive
<1>11. CASE Killed
  BY <1>1, <1>11, Records DEF Killed, TasksOK, NoNewArchive
<1> QED BY <1>2, <1>3, <1>4, <1>5, <1>6, <1>7, <1>8, <1>9, <1>10, <1>11
        DEF Next, Coming, Come, ComeStop, Loop, Agent, AgentFails, AgentSends, CronCancelled,
            DumpFails, Fit, FitSkips

LEMMA AgainGrows ==
    ASSUME Next PROVE again \subseteq again'
<1>1. CASE Coming \/ ReadInbox \/ Killed \/ \E k \in Cron : CronTurn(k)
  BY <1>1 DEF Coming, Come, ComeStop, ReadInbox, Killed, CronTurn
<1>2. CASE \E t \in Turn : BeginTurn(t) \/ NewSession(t) \/ CronCancelled(t)
  BY <1>2 DEF BeginTurn, NewSession, CronCancelled
<1>3. CASE \E t \in Turn : AgentSends(t) \/ AgentEnds(t) \/ AgentFails(t)
  BY <1>3 DEF AgentSends, AgentEnds, AgentFails
<1>4. CASE \E t \in Turn \cup After : FitSkips(t) \/ FitStarts(t) \/ FitEnds(t) \/ DumpFails(t)
  BY <1>4 DEF FitSkips, FitStarts, FitEnds, DumpFails
<1>5. CASE \E t \in After : Archives(t)
  BY <1>5 DEF Archives
<1> QED BY <1>1, <1>2, <1>3, <1>4, <1>5 DEF Next, Loop, Agent, Fit

\* Turn n of session k is from before the start, or over.
Past(k, n) == n <= Old \/ task[<<k, n, "turn">>].pc = "done"

LEMMA PastStays ==
    ASSUME TypeOK, Asked, Waiting, Next, NEW k \in Key, NEW n \in Number, Past(k, n)
    PROVE  Past(k, n)'
BY NewTurn, DoneStays DEF Past

LEMMA HeldIsPast ==
    ASSUME Logged, NEW k \in Key, NEW n \in Number, Held(k, n)
    PROVE  Past(k, n)
<1>1. PICK t \in Turn : t = <<k, n, "turn">> /\ KeyOf(t) = k /\ t[2] = n
  BY NewTurn
<1> QED BY <1>1 DEF Logged, Past

LEMMA PastUnheld ==
    ASSUME TypeOK, Asked, Next, NEW k \in Key, NEW n \in Number, Past(k, n), ~Held(k, n)
    PROVE  ~Held(k, n)'
<1>1. PICK t \in Turn : t = <<k, n, "turn">> /\ KeyOf(t) = k /\ t[2] = n
  BY NewTurn
<1>2. task[t].pc # "agent"
  <2>1. n \in Nat /\ Old \in Nat
    BY Constants DEF Number
  <2> QED BY <1>1, <2>1 DEF Asked, Past
<1>3. ~Held(KeyOf(t), t[2])'
  BY <1>1, <1>2, HeldStep
<1> QED BY <1>1, <1>3

LEMMA UnconsolidatedInLog ==
    ASSUME NEW s \in SessionType
    PROVE  Unconsolidated(s) \subseteq Range(s.log) /\ Range(s.log) \subseteq Number
<1>1. s.log \in Seq(Number) /\ s.cons \in Nat /\ Len(s.log) \in Nat
  BY DEF SessionType
<1>2. \A i \in s.cons + 1 .. Len(s.log) : i \in DOMAIN s.log
  BY <1>1
<1>3. \A i \in DOMAIN s.log : s.log[i] \in Number
  BY <1>1
<1> QED BY <1>2, <1>3 DEF Unconsolidated, Range

LEMMA CurrentStored ==
    ASSUME SessionsOK, NEW k \in Key
    PROVE  Stored(k, Current(k)) /\ Current(k) \in SessionType
<1>1. Current(k) = disk[k] \/ (cache[k] \in 1..Len(heap[k]) /\ Current(k) = heap[k][cache[k]])
  BY SessionParts DEF Current, Objects
<1> QED BY <1>1, SessionParts DEF Stored

\* What a /new takes out of a session is over and in no log any more.
LEMMA SnapshotGood ==
    ASSUME TypeOK, Asked, Waiting, Logged, LogsInv, Next, NEW t \in Turn, NewSession(t), NewSaved(t),
           NEW k \in Key, k = KeyOf(t), NEW n \in Snapshot(k)
    PROVE  n \in Number /\ Held(k, n) /\ Past(k, n) /\ ~Held(k, n)'
<1>1. SessionsOK /\ LogsGood(k) /\ Current(k) \in SessionType /\ Stored(k, Current(k))
  BY TypeParts, CurrentStored DEF LogsInv
<1>2. n \in Range(Current(k).log) /\ n \in Number
  BY <1>1, UnconsolidatedInLog DEF Snapshot
<1>3. Held(k, n) /\ Past(k, n)
  BY <1>1, <1>2, HeldIsPast DEF Held
<1>4. Clears(k, Got(k)) /\ disk'[k] = EmptySession
  BY ClearEffect DEF NewSaved
<1>5. ASSUME NEW i \in Objects(k), i # Got(k) PROVE n \notin Range(heap[k][i].log)
  <2>1. CASE cache[k] = 0
    <3>1. Len(heap[k]) > 0
      BY <1>1, SessionParts DEF Objects
    <3>2. Current(k) = EmptySession
      BY <1>1, <2>1, <3>1 DEF LogsGood, Current
    <3> QED BY <1>2, <3>2, EmptyLog
  <2>2. CASE cache[k] # 0
    <3>1. cache[k] \in Objects(k) /\ Current(k) = heap[k][cache[k]] /\ i # cache[k]
      BY <1>1, <1>5, <2>2, SessionParts DEF Current, Got
    <3>2. Range(heap[k][i].log) \cap Range(heap[k][cache[k]].log) = {}
      BY <1>1, <3>1 DEF LogsGood
    <3> QED BY <1>2, <3>1, <3>2
  <2> QED BY <2>1, <2>2
<1>6. ASSUME NEW i \in 1..Len(heap'[k]) PROVE n \notin Range(heap'[k][i].log)
  <2>1. CASE i = Got(k)
    BY <1>4, <2>1, EmptyLog DEF Clears
  <2>2. CASE i # Got(k)
    <3>1. i \in Objects(k) /\ heap'[k][i] = heap[k][i]
      BY <1>4, <2>2 DEF Clears
    <3> QED BY <1>5, <2>2, <3>1
  <2> QED BY <2>1, <2>2
<1>7. n \notin Range(disk'[k].log)
  BY <1>4, EmptyLog
<1>8. ~Held(k, n)'
  BY <1>6, <1>7 DEF Held, Stored
<1> QED BY <1>2, <1>3, <1>8

\* What waits to be archived is over, in no log, and waits once.
ArchiveGood(a) ==
    /\ \A n \in task[a].chunk : Past(KeyOf(a), n) /\ ~Held(KeyOf(a), n)
    /\ \A b \in Archiving : b # a /\ KeyOf(b) = KeyOf(a) => task[a].chunk \cap task[b].chunk = {}

ArchiveInv == \A a \in Archiving : ArchiveGood(a)

LEMMA ChunkType ==
    ASSUME TasksOK, NEW t \in Turn \cup After PROVE task[t].chunk \subseteq Number
BY DEF TasksOK, TaskType

LEMMA ArchiveInvStep ==
    ASSUME TypeOK, Asked, Waiting, Logged, LogsInv, ArchiveInv, Next PROVE ArchiveInv'
<1>1. TasksOK
  BY TypeParts
<1>2. ASSUME NEW a \in After, task[a].pc = "archive"
      PROVE  \A n \in task[a].chunk : Past(KeyOf(a), n)' /\ ~Held(KeyOf(a), n)' /\ ~Held(KeyOf(a), n)
  <2> SUFFICES ASSUME NEW n \in task[a].chunk
               PROVE  Past(KeyOf(a), n)' /\ ~Held(KeyOf(a), n)' /\ ~Held(KeyOf(a), n)
    OBVIOUS
  <2>1. PICK k \in Key : k = KeyOf(a)
    BY TurnParts
  <2>2. Past(k, n) /\ ~Held(k, n) /\ n \in Number
    BY <1>1, <1>2, <2>1, ChunkType DEF ArchiveInv, Archiving, ArchiveGood
  <2>3. Past(k, n)' /\ ~Held(k, n)'
    BY <2>2, PastStays, PastUnheld
  <2> QED BY <2>1, <2>2, <2>3
<1>3. ASSUME NEW a \in After, NEW b \in After, a # b, KeyOf(a) = KeyOf(b),
             task[a].pc = "archive", task[b].pc = "archive"
      PROVE  task[a].chunk \cap task[b].chunk = {}
  BY <1>3 DEF ArchiveInv, Archiving, ArchiveGood
<1> SUFFICES ASSUME NEW a \in After, task'[a].pc = "archive"
             PROVE  /\ \A n \in task'[a].chunk : Past(KeyOf(a), n)' /\ ~Held(KeyOf(a), n)'
                    /\ \A b \in After : task'[b].pc = "archive" /\ b # a /\ KeyOf(b) = KeyOf(a) =>
                           task'[a].chunk \cap task'[b].chunk = {}
  BY DEF ArchiveInv, Archiving, ArchiveGood
<1>4. CASE NoNewArchive({})
  <2>1. \A b \in After : task'[b].pc = "archive" =>
            task[b].pc = "archive" /\ task'[b].chunk = task[b].chunk
    BY <1>4 DEF NoNewArchive
  <2> QED BY <1>2, <1>3, <2>1
<1>5. ASSUME NEW t \in Turn, NewSession(t), NewSaved(t), NoNewArchive({AfterOf(t)})
      PROVE  /\ \A n \in task'[a].chunk : Past(KeyOf(a), n)' /\ ~Held(KeyOf(a), n)'
             /\ \A b \in After : task'[b].pc = "archive" /\ b # a /\ KeyOf(b) = KeyOf(a) =>
                    task'[a].chunk \cap task'[b].chunk = {}
  <2>1. PICK k \in Key, c \in After : k = KeyOf(t) /\ c = AfterOf(t)
    BY <1>1, <1>5, NewSavedTasks, TurnParts
  <2>2. /\ \A b \in After \ {c} : task'[b].pc = "archive" =>
               task[b].pc = "archive" /\ task'[b].chunk = task[b].chunk
        /\ KeyOf(c) = k
    BY <1>1, <1>5, <2>1, NewSavedTasks DEF NoNewArchive
  <2>3. task'[c].pc = "archive" => task'[c].chunk = Snapshot(k)
    BY <1>1, <1>5, <2>1, NewSavedTasks, ArchiveTaskParts, Records
  <2>4. \A n \in Snapshot(k) : n \in Number /\ Held(k, n) /\ Past(k, n)' /\ ~Held(k, n)'
    BY <1>5, <2>1, SnapshotGood, PastStays
  <2>5. ASSUME NEW b \in After \ {c}, task'[b].pc = "archive", KeyOf(b) = k
        PROVE  task'[b].chunk \cap Snapshot(k) = {}
    BY <1>2, <2>2, <2>4, <2>5
  <2>6. CASE a = c
    BY <2>2, <2>3, <2>4, <2>5, <2>6
  <2>7. CASE a # c
    <3>1. \A n \in task'[a].chunk : Past(KeyOf(a), n)' /\ ~Held(KeyOf(a), n)'
      BY <1>2, <2>2, <2>7
    <3>2. ASSUME NEW b \in After, task'[b].pc = "archive", b # a, KeyOf(b) = KeyOf(a)
          PROVE  task'[a].chunk \cap task'[b].chunk = {}
      <4>1. CASE b = c
        BY <2>2, <2>3, <2>5, <2>7, <3>2, <4>1
      <4>2. CASE b # c
        BY <1>3, <2>2, <2>7, <3>2, <4>2
      <4> QED BY <4>1, <4>2
    <3> QED BY <3>1, <3>2
  <2> QED BY <2>6, <2>7
<1> QED BY <1>4, <1>5, ArchiveStep

\* The round a consolidation begins with, or goes on to.
LEMMA NewRound ==
    ASSUME TypeOK, NEW t \in Turn \cup After, FitStarts(t) \/ FitEnds(t), task'[t].pc = "fitting"
    PROVE  \E s \in SessionType, left \in Int : \E end \in Boundaries(s) :
              /\ task'[t] = Round(t, s, end, left)
              /\ s.log = ObjectOf(t).log /\ ObjectOf(t)' = s
<1>1. SessionsOK /\ TasksOK /\ task[t].pc \in {"fit", "fitting"}
  BY TypeParts DEF FitStarts, FitEnds
<1>2. PICK k \in Key : k = KeyOf(t)
  BY TurnParts
<1>3. PICK o \in Objects(k) : o = task[t].obj
  BY <1>1, <1>2, ObjectType DEF Objects
<1>4. PICK s0 \in SessionType : s0 = ObjectOf(t) /\ s0 = heap[k][o]
  BY <1>1, <1>2, <1>3, ObjectType DEF ObjectOf
<1>5. \A r : task' = [task EXCEPT ![t] = r] => task'[t] = r
  BY <1>1 DEF TasksOK
<1>6. task[t].left \in Nat /\ MaxRounds \in Nat
  BY <1>1, Constants DEF TasksOK, TaskType
<1>7. CASE FitStarts(t)
  <2>1. PICK end \in Boundaries(s0) : task'[t] = Round(t, s0, end, MaxRounds - 1)
    BY <1>4, <1>5, <1>7 DEF FitStarts
  <2>2. task'[t].obj = o /\ heap' = heap
    BY <1>3, <1>7, <2>1 DEF Round, FitStarts, sessions
  <2>3. ObjectOf(t)' = s0
    BY <1>2, <1>4, <2>2 DEF ObjectOf
  <2> QED BY <1>4, <1>6, <2>1, <2>3
<1>8. CASE FitEnds(t)
  <2>1. task[t].pc = "fitting"
    BY <1>8 DEF FitEnds
  <2>2. ~GoesOn(t) /\ task' # [task EXCEPT ![t] = Done]
    <3>1. ASSUME GoesOn(t) PROVE FALSE
      <4>1. task'[t] = Done \/ task'[t] = [Idle EXCEPT !.pc = "agent", !.obj = task[t].obj]
        BY <1>5, <3>1 DEF GoesOn
      <4> QED BY <4>1, Records DEF Idle
    <3> QED BY <1>5, <3>1, Records
  <2>3. PICK ok \in BOOLEAN :
           LET s == Moved(ObjectOf(t), t, ok) IN
           /\ IF s # ObjectOf(t) THEN Save(KeyOf(t), task[t].obj, s) ELSE UNCHANGED sessions
           /\ \E end \in Boundaries(s) :
                 task' = [task EXCEPT ![t] = Round(t, s, end, task[t].left - 1)]
    BY <1>8, <2>2 DEF FitEnds
  <2>4. PICK s \in SessionType : s = Moved(ObjectOf(t), t, ok) /\ s.log = ObjectOf(t).log
    BY <2>1, MovedType
  <2>5. PICK end \in Boundaries(s) : task'[t] = Round(t, s, end, task[t].left - 1)
    BY <1>5, <2>3, <2>4
  <2>6. task'[t].obj = o
    BY <1>3, <2>5 DEF Round
  <2>7. heap'[k][o] = s
    <3>1. CASE s # s0
      <4>1. Save(k, o, s)
        BY <1>2, <1>3, <1>4, <2>3, <2>4, <3>1
      <4> QED BY <1>1, <4>1, WriteEffect DEF Writes
    <3>2. CASE s = s0
      <4>1. heap' = heap
        BY <1>4, <2>3, <2>4, <3>2 DEF sessions
      <4> QED BY <1>4, <3>2, <4>1
    <3> QED BY <3>1, <3>2
  <2>8. ObjectOf(t)' = s
    BY <1>2, <2>6, <2>7 DEF ObjectOf
  <2>9. PICK left \in Int : left = task[t].left - 1
    BY <1>6
  <2>10. task'[t] = Round(t, s, end, left) /\ end \in Boundaries(s)
    BY <2>5, <2>9
  <2> QED BY <2>4, <2>8, <2>10
<1> QED BY <1>7, <1>8

LEMMA RoundParts ==
    ASSUME NEW t \in Turn \cup After, NEW s \in SessionType, NEW left \in Int,
           NEW end \in Boundaries(s), NEW r, r = Round(t, s, end, left)
    PROVE  r.chunk \subseteq Unconsolidated(s) /\ s.cons < r.end
<1>1. /\ s.log \in Seq(Number) /\ s.cons \in Nat /\ Len(s.log) \in Nat
      /\ end \in s.cons + 1 .. Len(s.log) - 1
  BY DEF SessionType, Boundaries
<1>2. \A i \in s.cons + 1 .. end : i \in s.cons + 1 .. Len(s.log)
  BY <1>1
<1>3. r.chunk = {s.log[i] : i \in s.cons + 1 .. end} /\ r.end = end
  BY DEF Round
<1>4. {s.log[i] : i \in s.cons + 1 .. end} \subseteq Unconsolidated(s)
  BY <1>2 DEF Unconsolidated
<1> QED BY <1>1, <1>3, <1>4

\* Nobody else has the turns of a consolidation, but a /new in the middle of it.
Apart(t) ==
    /\ ObjectOf(t).cons < task[t].end
    /\ \A i \in Objects(KeyOf(t)) : i # task[t].obj =>
           task[t].chunk \cap Range(heap[KeyOf(t)][i].log) = {}
    /\ \A a \in Archiving : KeyOf(a) = KeyOf(t) =>
           \A n \in task[t].chunk \cap task[a].chunk : <<KeyOf(t), n>> \in again

ApartInv == \A t \in Turn \cup After : task[t].pc = "fitting" => Apart(t)

LEMMA NewRoundApart ==
    ASSUME TypeOK, TypeOK', LogsInv', ArchiveInv', NEW t \in Turn \cup After,
           FitStarts(t) \/ FitEnds(t), task'[t].pc = "fitting"
    PROVE  Apart(t)'
<1>1. PICK s \in SessionType, left \in Int :
         \E end \in Boundaries(s) : task'[t] = Round(t, s, end, left) /\ ObjectOf(t)' = s
  BY NewRound
<1>2. PICK end \in Boundaries(s) : task'[t] = Round(t, s, end, left) /\ ObjectOf(t)' = s
  BY <1>1
<1>3. PICK k \in Key : k = KeyOf(t)
  BY TurnParts
<1>4. task'[t].chunk \subseteq Range(s.log) /\ s.cons < task'[t].end
  <2>1. task'[t].chunk \subseteq Unconsolidated(s) /\ s.cons < task'[t].end
    <3>1. PICK r : r = task'[t]
      OBVIOUS
    <3>2. r = Round(t, s, end, left)
      BY <1>2, <3>1
    <3>3. r.chunk \subseteq Unconsolidated(s) /\ s.cons < r.end
      BY <3>2, RoundParts
    <3> QED BY <3>1, <3>3
  <2> QED BY <2>1, UnconsolidatedInLog
<1>5. task'[t].obj \in 1..Len(heap'[k]) /\ heap'[k][task'[t].obj] = s
  <2>1. task'[t].obj \in 1..Len(heap'[k])
    BY <1>3, TypePartsNext DEF TasksOK, Placed
  <2> QED BY <1>2, <1>3, <2>1 DEF ObjectOf
<1>6. \A i \in 1..Len(heap'[k]) : i # task'[t].obj =>
          task'[t].chunk \cap Range(heap'[k][i].log) = {}
  <2>1. \A i, j \in 1..Len(heap'[k]) : i # j =>
            Range(heap'[k][i].log) \cap Range(heap'[k][j].log) = {}
    BY DEF LogsInv, LogsGood, Objects
  <2> QED BY <1>4, <1>5, <2>1
<1>7. ASSUME NEW a \in After, task'[a].pc = "archive", KeyOf(a) = k
      PROVE  task'[t].chunk \cap task'[a].chunk = {}
  <2>1. \A n \in task'[a].chunk : ~Held(k, n)'
    BY <1>7 DEF ArchiveInv, Archiving, ArchiveGood
  <2>2. \A n \in task'[t].chunk : Held(k, n)'
    BY <1>4, <1>5 DEF Held, Stored
  <2> QED BY <2>1, <2>2
<1>8. ObjectOf(t)'.cons < task'[t].end
  BY <1>2, <1>4
<1> QED BY <1>3, <1>6, <1>7, <1>8 DEF Apart, Objects, Archiving, ObjectOf

\* What a consolidation archives is over.
LEMMA ChunkIsPast ==
    ASSUME ChunkInv, NEW t \in Turn \cup After, task[t].pc = "fitting",
           NEW n \in task[t].chunk, n \in Number
    PROVE  Past(KeyOf(t), n)
<1>1. PICK k \in Key : k = KeyOf(t)
  BY TurnParts
<1>2. PICK u \in Turn : u = <<k, n, "turn">> /\ KeyOf(u) = k /\ u[2] = n
  BY NewTurn
<1> QED BY <1>1, <1>2 DEF ChunkInv, ChunkGood, Past

LEMMA OldRoundApart ==
    ASSUME TypeOK, TypeOK', Asked, Waiting, Logged, LockInv, ChunkInv, LogsInv, ApartInv, Next,
           NEW t \in Turn \cup After, ~FitStarts(t), ~FitEnds(t), task'[t].pc = "fitting"
    PROVE  Apart(t)'
<1>1. SessionsOK /\ TasksOK /\ task'[t] = task[t] /\ task[t].pc = "fitting" /\ Apart(t)
  BY TypeParts, OnlyFit DEF ApartInv
<1>2. PICK k \in Key : k = KeyOf(t)
  BY TurnParts
<1>3. PICK o \in Objects(k) : o = task[t].obj
  BY <1>1, <1>2, ObjectType DEF Objects
<1>4. /\ ObjectOf(t).cons < task[t].end /\ ObjectOf(t) \in SessionType /\ task[t].end \in Nat
      /\ task[t].chunk \subseteq Number
  BY <1>1, ObjectType, ChunkType DEF Apart, TasksOK, TaskType
<1>5. ObjectOf(t)'.cons < task'[t].end
  <2>1. PICK old \in SessionType : old = ObjectOf(t)
    BY <1>4
  <2>2. old.cons \in Nat /\ old.cons < task[t].end
    BY <1>4, <2>1 DEF SessionType
  <2>3. ObjectOf(t)'.cons = old.cons \/ ObjectOf(t)'.cons = 0
    <3>1. \A n : [old EXCEPT !.log = Append(old.log, n)].cons = old.cons
      BY DEF SessionType
    <3>2. PICK new : new = ObjectOf(t)'
      OBVIOUS
    <3>3. \/ new = old \/ new = EmptySession
          \/ \E n : new = [old EXCEPT !.log = Append(old.log, n)]
      BY <2>1, <3>2, ObjectStep
    <3>4. new.cons = old.cons \/ new.cons = 0
      BY <3>1, <3>3, Records
    <3> QED BY <3>2, <3>4
  <2> QED BY <1>1, <1>4, <2>2, <2>3
<1>6. ASSUME NEW i \in 1..Len(heap'[k]), i # o
      PROVE  task[t].chunk \cap Range(heap'[k][i].log) = {}
  <2>1. \A j \in Objects(k) : j # o => task[t].chunk \cap Range(heap[k][j].log) = {}
    BY <1>1, <1>2, <1>3 DEF Apart
  <2>2. CASE i \in Objects(k) /\ heap'[k][i].log = heap[k][i].log
    BY <1>6, <2>1, <2>2
  <2>3. CASE heap'[k][i] = EmptySession
    BY <2>3, EmptyLog
  <2>4. CASE Same(k)
    BY <2>2, <2>4 DEF Same, Objects
  <2>5. CASE Opens(k)
    <3>1. disk[k] = EmptySession
      <4>1. Len(heap[k]) > 0 /\ cache[k] = 0
        BY <1>1, <2>5, SessionParts DEF Objects, Opens
      <4> QED BY <4>1 DEF LogsInv, LogsGood
    <3>2. i \in Objects(k) \/ i = Len(heap[k]) + 1
      BY <1>1, <2>5, SessionParts DEF Objects, Opens
    <3> QED BY <2>2, <2>3, <2>5, <3>1, <3>2 DEF Opens
  <2>6. CASE Drops(k)
    BY <2>6 DEF Drops
  <2>7. CASE Clears(k, Got(k))
    BY <2>2, <2>3, <2>7 DEF Clears
  <2>8. ASSUME NEW u, EndsTurn(k, u) PROVE task[t].chunk \cap Range(heap'[k][i].log) = {}
    <3>1. PICK p \in Objects(k) : p = task[u].obj
      BY <2>8 DEF EndsTurn
    <3>2. i \in Objects(k) /\ Writes(k, p, Longer(heap[k][p], u[2]))
      BY <2>8, <3>1 DEF EndsTurn, Writes, Objects
    <3>3. CASE i # p
      BY <2>2, <3>2, <3>3 DEF Writes
    <3>4. CASE i = p
      <4>1. PICK n \in Number : n = u[2] /\ u \in Turn /\ KeyOf(u) = k /\ task[u].pc = "agent"
        BY <2>8, NotYet DEF EndsTurn
      <4>2. n \notin task[t].chunk
        <5>1. n \in Nat /\ Old \in Nat /\ Old < n
          BY <4>1, Constants DEF Asked, Number
        <5> QED BY <1>1, <1>2, <4>1, <5>1 DEF ChunkInv, ChunkGood
      <4>3. heap'[k][i] = Longer(heap[k][p], n)
        BY <3>2, <3>4, <4>1 DEF Writes
      <4>4. Range(heap'[k][i].log) = Range(heap[k][p].log) \cup {n}
        BY <1>1, <4>3, SessionParts, LongerLog
      <4> QED BY <1>6, <2>1, <3>4, <4>2, <4>4
    <3> QED BY <3>3, <3>4
  <2>9. ASSUME NEW u, NEW s \in SessionType, EndsRound(k, u, s)
        PROVE  task[t].chunk \cap Range(heap'[k][i].log) = {}
    <3>1. PICK p \in Objects(k) : Writes(k, p, s) /\ s.log = heap[k][p].log
      BY <2>9 DEF EndsRound
    <3>2. i \in Objects(k) /\ heap'[k][i].log = heap[k][i].log
      BY <3>1 DEF Writes, Objects
    <3> QED BY <2>2, <3>2
  <2> QED BY <2>4, <2>5, <2>6, <2>7, <2>8, <2>9, KeyStep
<1>7. ASSUME NEW a \in After, task'[a].pc = "archive", KeyOf(a) = k,
             NEW n \in task[t].chunk \cap task'[a].chunk
      PROVE  <<k, n>> \in again'
  <2>1. CASE task[a].pc = "archive" /\ task'[a].chunk = task[a].chunk
    BY <1>1, <1>2, <1>7, <2>1, AgainGrows DEF Apart, Archiving
  <2>2. ASSUME NEW u \in Turn, NewSession(u), NewSaved(u), NoNewArchive({AfterOf(u)})
        PROVE  <<k, n>> \in again'
    <3>1. CASE a # AfterOf(u)
      BY <1>7, <2>1, <2>2, <3>1 DEF NoNewArchive
    <3>2. CASE a = AfterOf(u)
      <4>1. KeyOf(u) = k /\ task'[a].chunk = Snapshot(k)
        BY <1>1, <1>7, <2>2, <3>2, NewSavedTasks, ArchiveTaskParts, Records
      <4>2. Under(k) = task[t].chunk
        <5>1. fitting[k] = t /\ t # None
          BY <1>1, <1>2, NoneIsNoTask DEF LockInv
        <5> QED BY <5>1 DEF Under
      <4>3. <<k, n>> \in Names(k, Snapshot(k) \cap Under(k))
        BY <1>7, <4>1, <4>2 DEF Names
      <4> QED BY <2>2, <4>1, <4>3 DEF NewSaved
    <3> QED BY <3>1, <3>2
  <2> QED BY <1>7, <2>1, <2>2, ArchiveStep DEF NoNewArchive
<1> QED BY <1>1, <1>2, <1>3, <1>5, <1>6, <1>7 DEF Apart, Objects, Archiving, ObjectOf

LEMMA ApartStep ==
    ASSUME TypeOK, TypeOK', Asked, Waiting, Logged, LockInv, ChunkInv, LogsInv, LogsInv',
           ArchiveInv', ApartInv, Next
    PROVE  ApartInv'
BY NewRoundApart, OldRoundApart DEF ApartInv
-----------------------------------------------------------------------------
(* HISTORY.md                                                               *)

\* Turn n of session k may still be archived.
Pending(k, n) ==
    \/ \E s : Stored(k, s) /\ n \in Unconsolidated(s)
    \/ \E t \in Turn \cup After :
          KeyOf(t) = k /\ task[t].pc = "fitting" /\ n \in task[t].chunk
    \/ \E a \in Archiving : KeyOf(a) = k /\ n \in task[a].chunk

Fresh(k, n) == archived[k][n] = 0 \/ <<k, n>> \in again

HistoryInv == \A k \in Key, n \in Number : archived[k][n] > 0 => Past(k, n)
FreshInv == \A k \in Key, n \in Number : Pending(k, n) => Fresh(k, n)

FitLands(t) ==
    /\ t \in Turn \cup After /\ FitEnds(t) /\ task[t].pc = "fitting"
    /\ \E s \in SessionType : s.log = ObjectOf(t).log /\ s.cons = task[t].end
                              /\ Save(KeyOf(t), task[t].obj, s)

ArchiveLands(t) ==
    /\ t \in After /\ task[t].pc = "archive"
    /\ task' = [task EXCEPT ![t] = Done] /\ UNCHANGED sessions

LEMMA ConsolidatedOnce ==
    ASSUME TypeOK, NEW t \in Turn \cup After, NEW ok \in BOOLEAN, NEW half \in BOOLEAN,
           Consolidated(t, ok, half), NEW k \in Key, NEW n \in Number,
           archived'[k][n] # archived[k][n]
    PROVE  /\ k = KeyOf(t) /\ n \in task[t].chunk
           /\ half \/ (Lands(ok) /\ archived'[k][n] = archived[k][n] + 1)
<1>1. archived \in [Key -> [Number -> Nat]] /\ KeyOf(t) \in Key
  BY TypeParts, TurnParts DEF MemoryOK
<1>2. PICK j \in Key : j = KeyOf(t)
  BY <1>1
<1>3. PICK e \in Nat : e = Entries(ok, half)
  BY DEF Entries
<1>4. archived' = [archived EXCEPT ![j] = [m \in Number |->
                      IF m \in task[t].chunk THEN archived[j][m] + e ELSE archived[j][m]]]
  BY <1>2, <1>3 DEF Consolidated
<1>5. PICK a \in Nat : a = archived[k][n]
  BY <1>1
<1>6. archived'[k][n] = IF k = j /\ n \in task[t].chunk THEN a + e ELSE a
  BY <1>1, <1>4, <1>5
<1>7. k = j /\ n \in task[t].chunk /\ archived'[k][n] = a + e /\ e # 0
  BY <1>5, <1>6
<1>8. ~half => Lands(ok) /\ e = 1
  BY <1>3, <1>7 DEF Entries
<1> QED BY <1>2, <1>5, <1>7, <1>8

LEMMA InNames ==
    ASSUME NEW k, NEW N, NEW n \in N PROVE <<k, n>> \in Names(k, N)
BY DEF Names

\* An entry more for a turn: a known accident, or an archive that lands.
LEMMA HistoryStep ==
    ASSUME TypeOK, ApartInv, Next, NEW k \in Key, NEW n \in Number,
           archived'[k][n] # archived[k][n]
    PROVE  \E t \in Turn \cup After :
              /\ KeyOf(t) = k /\ n \in task[t].chunk
              /\ task[t].pc = "fitting" \/ t \in Archiving
              /\ \/ <<k, n>> \in again'
                 \/ archived'[k][n] = archived[k][n] + 1 /\ (FitLands(t) \/ ArchiveLands(t))
<1>1. TasksOK /\ archived \in [Key -> [Number -> Nat]]
  BY TypeParts DEF MemoryOK
<1>2. archived' # archived
  OBVIOUS
<1>3. CASE Killed
  <2>1. PICK t \in Turn \cup After :
           /\ task[t].pc = "fitting"
           /\ archived' = [archived EXCEPT ![KeyOf(t)] = [m \in Number |->
                  IF m \in task[t].chunk THEN archived[KeyOf(t)][m] + 1
                                         ELSE archived[KeyOf(t)][m]]]
           /\ again' = again \cup Names(KeyOf(t), task[t].chunk)
    BY <1>1, <1>2, <1>3 DEF Killed, TasksOK
  <2>2. PICK j \in Key : j = KeyOf(t)
    BY TurnParts
  <2>3. archived' = [archived EXCEPT ![j] = [m \in Number |->
            IF m \in task[t].chunk THEN archived[j][m] + 1 ELSE archived[j][m]]]
    BY <2>1, <2>2
  <2>4. k = j /\ n \in task[t].chunk
    BY <1>1, <2>3
  <2>5. <<k, n>> \in again'
    BY <2>1, <2>2, <2>4, InNames
  <2> QED BY <2>1, <2>2, <2>4, <2>5
<1>4. ASSUME NEW t \in Turn \cup After, FitEnds(t)
      PROVE  /\ KeyOf(t) = k /\ n \in task[t].chunk /\ task[t].pc = "fitting"
             /\ \/ <<k, n>> \in again'
                \/ archived'[k][n] = archived[k][n] + 1 /\ FitLands(t)
  <2>1. PICK ok \in BOOLEAN, half \in BOOLEAN :
           LET s == Moved(ObjectOf(t), t, ok) IN
           /\ Consolidated(t, ok, half)
           /\ \/ /\ IF s # ObjectOf(t) THEN Save(KeyOf(t), task[t].obj, s) ELSE UNCHANGED sessions
                 /\ again' = again \cup Twice(t, half)
              \/ again' = again \cup Names(KeyOf(t), task[t].chunk)
    BY <1>4 DEF FitEnds
  <2>2. /\ k = KeyOf(t) /\ n \in task[t].chunk
        /\ half \/ (Lands(ok) /\ archived'[k][n] = archived[k][n] + 1)
    BY <2>1, ConsolidatedOnce
  <2>3. task[t].pc = "fitting" /\ ObjectOf(t).cons < task[t].end
    BY <1>4 DEF FitEnds, ApartInv, Apart
  <2>4. ObjectOf(t) \in SessionType /\ task[t].end \in Nat
    BY <1>1, <2>3, TypeParts, ObjectType DEF TasksOK, TaskType
  <2>5. CASE again' = again \cup Names(KeyOf(t), task[t].chunk)
    BY <2>2, <2>3, <2>5, InNames
  <2>6. CASE /\ again' = again \cup Twice(t, half)
             /\ IF Moved(ObjectOf(t), t, ok) # ObjectOf(t)
                THEN Save(KeyOf(t), task[t].obj, Moved(ObjectOf(t), t, ok))
                ELSE UNCHANGED sessions
    <3>1. CASE half
      BY <2>2, <2>5, <2>6, <3>1 DEF Twice
    <3>2. CASE ~half
      <4>1. PICK s : s = Moved(ObjectOf(t), t, ok)
        OBVIOUS
      <4>2. Lands(ok) /\ archived'[k][n] = archived[k][n] + 1
        BY <2>2, <3>2
      <4>3. s \in SessionType /\ s.log = ObjectOf(t).log /\ s.cons = task[t].end
        BY <2>3, <4>1, <4>2, MovedType
      <4>4. s # ObjectOf(t)
        BY <2>3, <2>4, <4>3 DEF SessionType
      <4>5. Save(KeyOf(t), task[t].obj, s)
        BY <2>6, <4>1, <4>4
      <4> QED BY <1>4, <2>2, <2>3, <4>2, <4>3, <4>5 DEF FitLands
    <3> QED BY <3>1, <3>2
  <2> QED BY <2>1, <2>5, <2>6
<1>5. ASSUME NEW t \in After, Archives(t)
      PROVE  /\ KeyOf(t) = k /\ n \in task[t].chunk /\ t \in Archiving
             /\ \/ <<k, n>> \in again'
                \/ archived'[k][n] = archived[k][n] + 1 /\ ArchiveLands(t)
  <2>1. PICK ok \in BOOLEAN, half \in BOOLEAN :
           /\ Consolidated(t, ok, half)
           /\ again' = again \cup Twice(t, half)
           /\ Lands(ok) => task' = [task EXCEPT ![t] = Done]
    BY <1>5 DEF Archives
  <2>2. /\ k = KeyOf(t) /\ n \in task[t].chunk
        /\ half \/ (Lands(ok) /\ archived'[k][n] = archived[k][n] + 1)
    BY <2>1, ConsolidatedOnce
  <2>3. t \in Archiving /\ task[t].pc = "archive" /\ UNCHANGED sessions
    BY <1>5 DEF Archives, Archiving
  <2>4. CASE half
    BY <2>1, <2>2, <2>3, <2>4, InNames DEF Twice
  <2>5. CASE ~half
    BY <2>1, <2>2, <2>3, <2>5 DEF ArchiveLands
  <2> QED BY <2>4, <2>5
<1>7. ASSUME NEW t \in Turn \cup After, DumpFails(t)
      PROVE  /\ KeyOf(t) = k /\ n \in task[t].chunk /\ <<k, n>> \in again'
             /\ task[t].pc = "fitting" \/ t \in Archiving
  <2>1. PICK half \in BOOLEAN :
           /\ archived' = [archived EXCEPT ![KeyOf(t)] = [m \in Number |->
                  IF half /\ m \in task[t].chunk THEN archived[KeyOf(t)][m] + 1
                                                 ELSE archived[KeyOf(t)][m]]]
           /\ again' = again \cup Twice(t, half)
           /\ task[t].pc = "fitting" \/ t \in Archiving
    BY <1>7 DEF DumpFails
  <2>2. PICK j \in Key : j = KeyOf(t)
    BY TurnParts
  <2>3. k = j /\ half /\ n \in task[t].chunk
    BY <1>1, <2>1, <2>2
  <2>4. <<k, n>> \in Names(k, task[t].chunk)
    BY <2>3, InNames
  <2> QED BY <2>1, <2>2, <2>3, <2>4 DEF Twice
<1>6. \/ Killed \/ (\E t \in Turn \cup After : FitEnds(t)) \/ \E t \in After : Archives(t)
      \/ \E t \in Turn \cup After : DumpFails(t)
  BY <1>2 DEF Next, Coming, Come, ComeStop, Loop, ReadInbox, BeginTurn, NewSession,
           Agent, AgentEnds, AgentFails, AgentSends, CronTurn, CronCancelled, Fit, FitSkips,
           FitStarts, memory
<1> QED BY <1>3, <1>4, <1>5, <1>6, <1>7

LEMMA FewerLeft ==
    ASSUME NEW old \in SessionType, NEW s \in SessionType, s.log = old.log, old.cons <= s.cons
    PROVE  Unconsolidated(s) \subseteq Unconsolidated(old)
<1>1. /\ old.cons \in Nat /\ s.cons \in Nat
      /\ old.log \in Seq(Number) /\ Len(old.log) \in Nat
  BY DEF SessionType
<1>2. \A i \in s.cons + 1 .. Len(s.log) : i \in old.cons + 1 .. Len(old.log) /\ s.log[i] = old.log[i]
  BY <1>1
<1> QED BY <1>2 DEF Unconsolidated

\* What a session has not yet consolidated, it had not before the step, or a
\* turn's end brought it.
LEMMA LeftStep ==
    ASSUME TypeOK, Asked, Logged, ApartInv, Next, NEW k \in Key,
           NEW r, Stored(k, r)', NEW n \in Unconsolidated(r)
    PROVE  \/ \E s : Stored(k, s) /\ n \in Unconsolidated(s)
           \/ \E t \in Turn : EndsTurn(k, t) /\ n = t[2]
<1>1. /\ SessionsOK /\ disk[k] \in SessionType /\ Len(heap[k]) \in Nat
      /\ \A i \in Objects(k) : heap[k][i] \in SessionType
  BY TypeParts, SessionParts
<1>2. r = disk'[k] \/ \E i \in 1..Len(heap'[k]) : r = heap'[k][i]
  BY DEF Stored
<1>3. CASE Stored(k, r)
  BY <1>3
<1>4. r # EmptySession
  BY EmptyLog
<1>5. CASE Same(k)
  BY <1>2, <1>3, <1>5 DEF Same, Stored
<1>6. CASE Opens(k)
  <2>1. \A i \in 1..Len(heap'[k]) : i \in Objects(k) \/ i = Len(heap[k]) + 1
    BY <1>1, <1>6 DEF Opens, Objects
  <2>2. Stored(k, disk[k]) /\ \A i \in Objects(k) : Stored(k, heap[k][i])
    BY DEF Stored, Objects
  <2> QED BY <1>2, <1>3, <1>6, <2>1, <2>2 DEF Opens
<1>7. CASE Drops(k)
  BY <1>2, <1>3, <1>7 DEF Drops, Stored
<1>8. CASE Clears(k, Got(k))
  <2>1. Stored(k, disk[k]) /\ \A i \in Objects(k) : Stored(k, heap[k][i])
    BY DEF Stored, Objects
  <2> QED BY <1>2, <1>3, <1>4, <1>8, <2>1 DEF Clears
<1>9. ASSUME NEW o, NEW s, Writes(k, o, s) PROVE Stored(k, r) \/ r = s
  <2>1. Stored(k, disk[k]) /\ \A i \in Objects(k) : Stored(k, heap[k][i])
    BY DEF Stored, Objects
  <2>2. 1..Len(heap'[k]) = Objects(k)
    BY <1>9 DEF Writes, Objects
  <2> QED BY <1>2, <1>9, <2>1, <2>2 DEF Writes
<1>10. ASSUME NEW t, EndsTurn(k, t)
       PROVE  (\E s : Stored(k, s) /\ n \in Unconsolidated(s)) \/ n = t[2]
  <2>1. PICK o \in Objects(k) : o = task[t].obj
    BY <1>10 DEF EndsTurn
  <2>2. PICK old \in SessionType : old = heap[k][o]
    BY <1>1
  <2>3. Stored(k, old)
    BY <2>2 DEF Stored, Objects
  <2>4. t[2] \in Number
    BY <1>10, TurnParts DEF EndsTurn
  <2>5. Stored(k, r) \/ r = Longer(old, t[2])
    BY <1>9, <1>10, <2>1, <2>2 DEF EndsTurn
  <2>6. Unconsolidated(Longer(old, t[2])) \subseteq Unconsolidated(old) \cup {t[2]}
    BY <2>4, LongerLog
  <2> QED BY <2>3, <2>5, <2>6
<1>11. ASSUME NEW t, NEW s \in SessionType, EndsRound(k, t, s)
       PROVE  \E q : Stored(k, q) /\ n \in Unconsolidated(q)
  <2>1. PICK o \in Objects(k) : o = task[t].obj
    BY <1>11 DEF EndsRound
  <2>2. PICK old \in SessionType : old = heap[k][o]
    BY <1>1
  <2>3. Stored(k, old)
    BY <2>2 DEF Stored, Objects
  <2>4. s.log = old.log /\ (s.cons = old.cons \/ s.cons = task[t].end)
    BY <1>11, <2>1, <2>2 DEF EndsRound
  <2>5. old.cons <= s.cons
    <3>1. old.cons < task[t].end
      BY <1>11, <2>1, <2>2 DEF EndsRound, ApartInv, Apart, ObjectOf
    <3>2. old.cons \in Nat /\ s.cons \in Nat
      BY DEF SessionType
    <3> QED BY <2>4, <3>1, <3>2
  <2>6. Stored(k, r) \/ r = s
    BY <1>9, <1>11, <2>1 DEF EndsRound
  <2> QED BY <2>2, <2>3, <2>4, <2>5, <2>6, FewerLeft
<1>12. \A t : EndsTurn(k, t) => t \in Turn
  BY DEF EndsTurn
<1> QED BY <1>5, <1>6, <1>7, <1>8, <1>10, <1>11, <1>12, KeyStep

LEMMA NewRoundLeft ==
    ASSUME TypeOK, TypeOK', NEW t \in Turn \cup After, FitStarts(t) \/ FitEnds(t),
           task'[t].pc = "fitting", NEW n \in task'[t].chunk
    PROVE  \E r : Stored(KeyOf(t), r)' /\ n \in Unconsolidated(r)
<1>1. PICK s \in SessionType, left \in Int :
         \E end \in Boundaries(s) : task'[t] = Round(t, s, end, left) /\ ObjectOf(t)' = s
  BY NewRound
<1>2. PICK end \in Boundaries(s) : task'[t] = Round(t, s, end, left) /\ ObjectOf(t)' = s
  BY <1>1
<1>3. PICK k \in Key : k = KeyOf(t)
  BY TurnParts
<1>4. task'[t].chunk \subseteq Unconsolidated(s)
  <2>1. PICK r : r = task'[t]
    OBVIOUS
  <2>2. r = Round(t, s, end, left)
    BY <1>2, <2>1
  <2> QED BY <2>1, <2>2, RoundParts
<1>5. task'[t].obj \in 1..Len(heap'[k]) /\ heap'[k][task'[t].obj] = s
  <2>1. task'[t].obj \in 1..Len(heap'[k])
    BY <1>3, TypePartsNext DEF TasksOK, Placed
  <2> QED BY <1>2, <1>3, <2>1 DEF ObjectOf
<1> QED BY <1>3, <1>4, <1>5 DEF Stored

LEMMA PendingStep ==
    ASSUME TypeOK, TypeOK', Asked, Waiting, Logged, ApartInv, Next, NEW k \in Key, NEW n \in Number,
           Pending(k, n)'
    PROVE  Pending(k, n) \/ \E t \in Turn : EndsTurn(k, t) /\ n = t[2]
<1>1. TasksOK /\ SessionsOK
  BY TypeParts
<1>2. ASSUME NEW r, Stored(k, r)', n \in Unconsolidated(r)
      PROVE  Pending(k, n) \/ \E t \in Turn : EndsTurn(k, t) /\ n = t[2]
  BY <1>2, LeftStep DEF Pending
<1>3. ASSUME NEW t \in Turn \cup After, KeyOf(t) = k, task'[t].pc = "fitting", n \in task'[t].chunk
      PROVE  Pending(k, n) \/ \E u \in Turn : EndsTurn(k, u) /\ n = u[2]
  <2>1. CASE FitStarts(t) \/ FitEnds(t)
    BY <1>2, <1>3, <2>1, NewRoundLeft
  <2>2. CASE task'[t] = task[t]
    BY <1>3, <2>2 DEF Pending
  <2> QED BY <1>3, <2>1, <2>2, OnlyFit
<1>4. ASSUME NEW t \in After, KeyOf(t) = k, task'[t].pc = "archive", n \in task'[t].chunk
      PROVE  Pending(k, n)
  <2>1. CASE task[t].pc = "archive" /\ task'[t].chunk = task[t].chunk
    BY <1>4, <2>1 DEF Pending, Archiving
  <2>2. ASSUME NEW u \in Turn, NewSaved(u), NoNewArchive({AfterOf(u)}) PROVE Pending(k, n)
    <3>1. CASE t # AfterOf(u)
      BY <1>4, <2>1, <2>2, <3>1 DEF NoNewArchive
    <3>2. CASE t = AfterOf(u)
      <4>1. KeyOf(u) = k /\ task'[t].chunk = Snapshot(k)
        BY <1>1, <1>4, <2>2, <3>2, NewSavedTasks, ArchiveTaskParts, Records
      <4> QED BY <1>1, <1>4, <4>1, CurrentStored DEF Snapshot, Pending
    <3> QED BY <3>1, <3>2
  <2> QED BY <1>4, <2>1, <2>2, ArchiveStep DEF NoNewArchive
<1>5. \/ \E r : Stored(k, r)' /\ n \in Unconsolidated(r)
      \/ \E t \in Turn \cup After :
            KeyOf(t) = k /\ task'[t].pc = "fitting" /\ n \in task'[t].chunk
      \/ \E t \in After : KeyOf(t) = k /\ task'[t].pc = "archive" /\ n \in task'[t].chunk
  BY DEF Pending, Archiving
<1> QED BY <1>2, <1>3, <1>4, <1>5

\* A consolidation that lands leaves none of its turns to be archived again.
LEMMA FitLandsOnce ==
    ASSUME TypeOK, TypeOK', Asked, Waiting, Logged, LockInv, ChunkInv, LogsInv, ApartInv, Next,
           NEW t \in Turn \cup After, FitLands(t), NEW k \in Key, k = KeyOf(t),
           NEW n \in Number, n \in task[t].chunk, Pending(k, n)'
    PROVE  <<k, n>> \in again'
<1>1. /\ TasksOK /\ SessionsOK /\ FitEnds(t) /\ task[t].pc = "fitting"
      /\ Apart(t) /\ ChunkGood(t) /\ fitting[k] = t /\ LogsGood(k)
  BY TypeParts DEF FitLands, ApartInv, ChunkInv, LockInv, LogsInv
<1>2. PICK o \in Objects(k) : o = task[t].obj
  BY <1>1, ObjectType DEF Objects
<1>3. PICK old \in SessionType : old = heap[k][o] /\ ObjectOf(t) = old
  BY <1>1, <1>2, SessionParts DEF ObjectOf
<1>4. PICK s \in SessionType : s.log = old.log /\ s.cons = task[t].end /\ Save(k, o, s)
  BY <1>2, <1>3 DEF FitLands
<1>5. Writes(k, o, s) /\ disk'[k] = s
  <2>1. Writes(k, o, s)
    BY <1>1, <1>4, WriteEffect
  <2>2. disk'[k] = s
    BY <1>1, <1>4 DEF Save, SessionsOK
  <2> QED BY <2>1, <2>2
<1>6. n \notin Unconsolidated(s)
  <2>1. CASE task[t].chunk \cap Range(old.log) = {}
    BY <1>4, <2>1, UnconsolidatedInLog
  <2>2. CASE Exact(t, old)
    <3>1. PICK i \in old.cons + 1 .. task[t].end : n = old.log[i]
      BY <2>2 DEF Exact
    <3>2. /\ old.cons \in Nat /\ Len(old.log) \in Nat /\ task[t].end \in Nat
          /\ task[t].end <= Len(old.log)
      BY <1>1, <2>2 DEF SessionType, Exact, TasksOK, TaskType
    <3>3. \A j \in task[t].end + 1 .. Len(old.log) :
              i # j /\ i \in 1..Len(old.log) /\ j \in 1..Len(old.log)
      BY <3>1, <3>2
    <3>4. Distinct(old)
      BY <1>1, <1>3 DEF LogsGood
    <3>5. \A j \in task[t].end + 1 .. Len(old.log) : old.log[j] # n
      BY <3>1, <3>3, <3>4 DEF Distinct
    <3> QED BY <1>4, <3>5 DEF Unconsolidated
  <2> QED BY <1>1, <1>3, <2>1, <2>2 DEF ChunkGood
<1>7. ASSUME NEW r, Stored(k, r)' PROVE n \notin Unconsolidated(r)
  <2>1. \/ r = s
        \/ \E i \in Objects(k) : i # o /\ r = heap[k][i]
    <3>1. r = disk'[k] \/ \E i \in 1..Len(heap'[k]) : r = heap'[k][i]
      BY <1>7 DEF Stored
    <3>2. 1..Len(heap'[k]) = Objects(k)
      BY <1>5 DEF Writes, Objects
    <3> QED BY <1>5, <3>1, <3>2 DEF Writes
  <2>2. ASSUME NEW i \in Objects(k), i # o PROVE n \notin Unconsolidated(heap[k][i])
    <3>1. task[t].chunk \cap Range(heap[k][i].log) = {}
      BY <1>1, <1>2, <2>2 DEF Apart
    <3>2. Unconsolidated(heap[k][i]) \subseteq Range(heap[k][i].log)
      BY <1>1, SessionParts, UnconsolidatedInLog
    <3> QED BY <3>1, <3>2
  <2> QED BY <1>6, <2>1, <2>2
<1>8. ASSUME NEW u \in Turn \cup After, KeyOf(u) = k, task'[u].pc = "fitting"
      PROVE  n \notin task'[u].chunk
  <2>1. u = t
    <3>1. ~FitStarts(u)
      BY <1>1, <1>8, NoneIsNoTask DEF FitStarts
    <3>2. task[u].pc = "fitting"
      BY <1>8, <3>1, OnlyFit DEF FitEnds
    <3> QED BY <1>1, <1>8, <3>2 DEF LockInv
  <2> QED BY <1>1, <1>7, <1>8, <2>1, NewRoundLeft
<1>9. ASSUME NEW a \in After, KeyOf(a) = k, task'[a].pc = "archive", n \in task'[a].chunk
      PROVE  <<k, n>> \in again'
  <2>1. task[a].pc = "archive" /\ task'[a].chunk = task[a].chunk
    BY <1>1, <1>9, FitNoArchive DEF NoNewArchive
  <2>2. <<k, n>> \in again
    BY <1>1, <1>9, <2>1 DEF Apart, Archiving
  <2> QED BY <2>2, AgainGrows
<1> QED BY <1>7, <1>8, <1>9 DEF Pending, Archiving

\* Nor does an archive that lands.
LEMMA ArchiveLandsOnce ==
    ASSUME TypeOK, ArchiveInv, ApartInv, Next, NEW a \in After, ArchiveLands(a),
           NEW k \in Key, k = KeyOf(a), NEW n \in Number, n \in task[a].chunk, Pending(k, n)'
    PROVE  <<k, n>> \in again'
<1>1. /\ TasksOK /\ SessionsOK /\ ArchiveGood(a)
      /\ disk' = disk /\ heap' = heap /\ a \in Archiving
  BY TypeParts DEF ArchiveLands, ArchiveInv, Archiving, sessions
<1>2. \A t \in (Turn \cup After) \ {a} : task'[t] = task[t]
  BY <1>1 DEF ArchiveLands, TasksOK
<1>3. task'[a] = Done
  BY <1>1 DEF ArchiveLands, TasksOK
<1>4. ASSUME NEW r, Stored(k, r)' PROVE n \notin Unconsolidated(r)
  <2>1. Stored(k, r)
    BY <1>1, <1>4 DEF Stored
  <2>2. n \notin Range(r.log)
    BY <1>1, <2>1 DEF ArchiveGood, Held
  <2> QED BY <1>1, <2>1, <2>2, StoredType, UnconsolidatedInLog
<1>5. ASSUME NEW u \in Turn \cup After, KeyOf(u) = k, task'[u].pc = "fitting",
             n \in task'[u].chunk
      PROVE  <<k, n>> \in again'
  <2>1. u # a /\ task'[u] = task[u]
    BY <1>2, <1>3, <1>5, Records
  <2>2. <<k, n>> \in again
    BY <1>1, <1>5, <2>1 DEF ApartInv, Apart
  <2> QED BY <2>2, AgainGrows
<1>6. ASSUME NEW b \in After, KeyOf(b) = k, task'[b].pc = "archive" PROVE n \notin task'[b].chunk
  <2>1. b # a /\ task'[b] = task[b]
    BY <1>2, <1>3, <1>6, Records
  <2> QED BY <1>1, <1>6, <2>1 DEF ArchiveGood, Archiving
<1> QED BY <1>4, <1>5, <1>6 DEF Pending, Archiving

LEMMA HistoryInvStep ==
    ASSUME TypeOK, Asked, Waiting, ChunkInv, ArchiveInv, ApartInv, HistoryInv, Next
    PROVE  HistoryInv'
<1> SUFFICES ASSUME NEW k \in Key, NEW n \in Number, archived'[k][n] > 0 PROVE Past(k, n)'
  BY DEF HistoryInv
<1>1. CASE archived'[k][n] = archived[k][n]
  BY <1>1, PastStays DEF HistoryInv
<1>2. CASE archived'[k][n] # archived[k][n]
  <2>1. PICK t \in Turn \cup After :
           /\ KeyOf(t) = k /\ n \in task[t].chunk
           /\ task[t].pc = "fitting" \/ t \in Archiving
    BY <1>2, HistoryStep
  <2>2. Past(k, n)
    BY <2>1, ChunkIsPast DEF ArchiveInv, ArchiveGood
  <2> QED BY <2>2, PastStays
<1> QED BY <1>1, <1>2

LEMMA FreshStep ==
    ASSUME TypeOK, TypeOK', Asked, Waiting, Logged, LockInv, ChunkInv, LogsInv, ArchiveInv,
           ApartInv, HistoryInv, FreshInv, Next
    PROVE  FreshInv'
<1> SUFFICES ASSUME NEW k \in Key, NEW n \in Number, Pending(k, n)'
             PROVE  archived'[k][n] = 0 \/ <<k, n>> \in again'
  BY DEF FreshInv, Fresh
<1>1. CASE archived'[k][n] = archived[k][n]
  <2>1. CASE Pending(k, n)
    BY <1>1, <2>1, AgainGrows DEF FreshInv, Fresh
  <2>2. ASSUME NEW t \in Turn, EndsTurn(k, t), n = t[2] PROVE archived[k][n] = 0
    <3>1. t = <<k, n, "turn">> /\ task[t].pc = "agent" /\ KeyOf(t) = k
      BY <2>2, TurnParts DEF EndsTurn
    <3>2. n \in Nat /\ Old \in Nat /\ Old < n
      BY <2>2, <3>1, Constants DEF Asked, Number
    <3>3. ~Past(k, n)
      BY <3>1, <3>2 DEF Past
    <3>4. archived[k][n] \in Nat
      BY TypeParts DEF MemoryOK
    <3> QED BY <3>3, <3>4 DEF HistoryInv
  <2> QED BY <1>1, <2>1, <2>2, PendingStep
<1>2. CASE archived'[k][n] # archived[k][n]
  <2>1. PICK t \in Turn \cup After :
           /\ KeyOf(t) = k /\ n \in task[t].chunk
           /\ <<k, n>> \in again' \/ FitLands(t) \/ ArchiveLands(t)
    BY <1>2, HistoryStep
  <2>2. ArchiveLands(t) => t \in After
    BY DEF ArchiveLands
  <2> QED BY <2>1, <2>2, FitLandsOnce, ArchiveLandsOnce
<1> QED BY <1>1, <1>2

LEMMA OnceStep ==
    ASSUME TypeOK, ApartInv, FreshInv, ArchivedOnce, Next PROVE ArchivedOnce'
<1> SUFFICES ASSUME NEW k \in Key, NEW n \in Number, archived'[k][n] > 1
             PROVE  <<k, n>> \in again'
  BY DEF ArchivedOnce
<1>1. CASE archived'[k][n] = archived[k][n]
  BY <1>1, AgainGrows DEF ArchivedOnce
<1>2. CASE archived'[k][n] # archived[k][n]
  <2>1. PICK t \in Turn \cup After :
           /\ KeyOf(t) = k /\ n \in task[t].chunk
           /\ task[t].pc = "fitting" \/ t \in Archiving
           /\ <<k, n>> \in again' \/ archived'[k][n] = archived[k][n] + 1
    BY <1>2, HistoryStep
  <2>2. Pending(k, n)
    BY <2>1 DEF Pending
  <2>3. archived[k][n] = 0 \/ <<k, n>> \in again
    BY <2>2 DEF FreshInv, Fresh
  <2> QED BY <2>1, <2>3, AgainGrows
<1> QED BY <1>1, <1>2

OnceInv == LogsInv /\ ArchiveInv /\ ApartInv /\ HistoryInv /\ FreshInv /\ ArchivedOnce

LEMMA OnceInit == Init => OnceInv
<1> SUFFICES ASSUME Init PROVE OnceInv
  OBVIOUS
<1>1. \A k \in Key, n \in Number : archived[k][n] = 0
  BY DEF Init
<1>2. /\ \A t \in Turn \cup After : task[t].pc = "none"
      /\ Archiving = {}
  BY Records DEF Init, Archiving
<1>3. HistoryInv /\ FreshInv /\ ArchivedOnce
  BY <1>1 DEF HistoryInv, FreshInv, Fresh, ArchivedOnce
<1>4. ArchiveInv /\ ApartInv
  BY <1>2 DEF ArchiveInv, ApartInv
<1>5. LogsInv
  <2> SUFFICES ASSUME NEW k \in Key PROVE LogsGood(k)
    BY DEF LogsInv
  <2>1. heap[k] = <<>> /\ Len(heap[k]) = 0 /\ disk[k].log = [i \in 1..Old |-> i]
    BY DEF Init
  <2>2. Objects(k) = {}
    BY <2>1 DEF Objects
  <2>3. Distinct(disk[k])
    <3>1. PICK l : l = [i \in 1..Old |-> i]
      OBVIOUS
    <3>2. l \in Seq(Nat) /\ Len(l) = Old
      BY <3>1, Constants
    <3>3. \A i \in 1..Old : l[i] = i
      BY <3>1
    <3> QED BY <2>1, <3>1, <3>2, <3>3 DEF Distinct
  <2> QED BY <2>1, <2>2, <2>3 DEF LogsGood
<1> QED BY <1>3, <1>4, <1>5 DEF OnceInv

LEMMA OnceStutter ==
    ASSUME OnceInv, UNCHANGED vars PROVE OnceInv'
<1>1. /\ disk' = disk /\ heap' = heap /\ cache' = cache /\ task' = task
      /\ archived' = archived /\ again' = again
  BY DEF vars
<1>2. \A k, n : (Held(k, n)' <=> Held(k, n)) /\ (Past(k, n)' <=> Past(k, n))
  BY <1>1 DEF Held, Stored, Past
<1>3. LogsInv'
  BY <1>1 DEF OnceInv, LogsInv, LogsGood, Objects
<1>4. ArchiveInv'
  BY <1>1, <1>2 DEF OnceInv, ArchiveInv, ArchiveGood, Archiving
<1>5. ApartInv'
  BY <1>1 DEF OnceInv, ApartInv, Apart, Objects, ObjectOf, Archiving
<1>6. HistoryInv' /\ ArchivedOnce'
  BY <1>1, <1>2 DEF OnceInv, HistoryInv, ArchivedOnce
<1>7. FreshInv'
  BY <1>1 DEF OnceInv, FreshInv, Fresh, Pending, Stored, Archiving
<1> QED BY <1>3, <1>4, <1>5, <1>6, <1>7 DEF OnceInv

LEMMA OnceInvStep ==
    TypeOK /\ TypeOK' /\ TurnsInv /\ OffsetInv /\ OnceInv /\ [Next]_vars => OnceInv'
<1> SUFFICES ASSUME TypeOK, TypeOK', TurnsInv, OffsetInv, OnceInv, Next PROVE OnceInv'
  BY OnceStutter
<1>1. /\ Asked /\ Waiting /\ Logged /\ LockInv /\ ChunkInv
      /\ LogsInv /\ ArchiveInv /\ ApartInv /\ HistoryInv /\ FreshInv /\ ArchivedOnce
  BY DEF TurnsInv, OffsetInv, OnceInv
<1>2. LogsInv' /\ ArchiveInv'
  BY <1>1, LogsStep, ArchiveInvStep
<1>3. ApartInv'
  BY <1>1, <1>2, ApartStep
<1> QED BY <1>1, <1>2, <1>3, HistoryInvStep, FreshStep, OnceStep DEF OnceInv

LEMMA OnceCorrect == Spec => [](TypeOK /\ TurnsInv /\ OffsetInv /\ OnceInv)
<1>1. TypeOK /\ TurnsInv /\ OffsetInv /\ OnceInv /\ [Next]_vars
          => (TypeOK /\ TurnsInv /\ OffsetInv /\ OnceInv)'
  BY TypeStep, TurnsStep, OffsetStep, OnceInvStep
<1> QED BY <1>1, InitType, TurnsInit, OffsetInit, OnceInit, PTL DEF Spec

\* Whatever consolidations, /new commands, archive tasks and turns run into
\* each other, a turn has one entry in HISTORY.md, but for a /new, a kill, a
\* failed write or a failed save at its consolidation.
THEOREM ArchivedOnceCorrect == Spec => []ArchivedOnce
<1>1. OnceInv => ArchivedOnce
  BY DEF OnceInv
<1> QED BY <1>1, OnceCorrect, PTL
-----------------------------------------------------------------------------
(* Turns at work: the chats' turns hold the processing lock, and whoever is *)
(* at work has the cached object.                                           *)

Working == {"fit", "fitting", "agent"}

LockShape == lock = [holder |-> lock.holder, waiters |-> lock.waiters]
LockHeld == \A t \in Turn : KeyOf(t) \in Chat /\ task[t].pc \in Working => lock.holder = t
NewIsChat == \A t \in Turn : task[t].pc = "new" => KeyOf(t) \in Chat

\* The task a turn leaves behind begins when the turn is over.
AfterLater == \A t \in Turn : task[t].pc # "done" => task[AfterOf(t)].pc = "none"

HasCached ==
    \A t \in Turn : KeyOf(t) \notin overrun /\ task[t].pc \in Working =>
        task[t].obj = cache[KeyOf(t)]

\* What was cached before a /new or a failed save is empty.
RestIsEmpty ==
    \A k \in Key \ overrun : \A i \in Objects(k) : i # cache[k] => heap[k][i] = EmptySession

LEMMA LockShapeStep ==
    ASSUME LockShape, Next PROVE LockShape'
<1>1. CASE UNCHANGED lock
  BY <1>1 DEF LockShape
<1>2. ASSUME NEW h, NEW w, lock' = [holder |-> h, waiters |-> w] PROVE LockShape'
  BY <1>2 DEF LockShape
<1>3. ASSUME NEW w, lock' = [lock EXCEPT !.waiters = w] PROVE LockShape'
  <2>1. lock' = [holder |-> lock.holder, waiters |-> w]
    BY <1>3 DEF LockShape
  <2> QED BY <1>2, <2>1
<1>4. \/ UNCHANGED lock \/ (\E h, w : lock' = [holder |-> h, waiters |-> w])
      \/ \E w : lock' = [lock EXCEPT !.waiters = w]
  <2>1. CASE Coming \/ ReadInbox \/ Killed \/ \E k \in Cron : CronTurn(k)
    BY <2>1 DEF Coming, Come, ComeStop, ReadInbox, HandleStop, Without, Killed, Free, CronTurn
  <2>2. CASE \E t \in Turn : BeginTurn(t) \/ NewSession(t) \/ CronCancelled(t)
    BY <2>2 DEF BeginTurn, NewSession, CronCancelled
  <2>3. CASE \E t \in Turn : AgentSends(t) \/ AgentEnds(t) \/ AgentFails(t)
    BY <2>3 DEF AgentSends, AgentEnds, AgentFails, Without
  <2>4. ASSUME NEW t \in Turn \cup After, FitSkips(t) \/ FitStarts(t) \/ FitEnds(t) \/ DumpFails(t)
        PROVE  UNCHANGED lock \/ lock' = Without({t})
    <3>1. CASE FitSkips(t) \/ FitStarts(t)
      BY <3>1 DEF FitSkips, FitStarts
    <3>2. CASE FitEnds(t)
      BY <3>2 DEF FitEnds
    <3>3. CASE DumpFails(t)
      BY <3>3 DEF DumpFails
    <3> QED BY <2>4, <3>1, <3>2, <3>3
  <2>5. CASE \E t \in After : Archives(t)
    BY <2>5 DEF Archives
  <2>6. \A ts : \E h, w : Without(ts) = [holder |-> h, waiters |-> w]
    BY DEF Without
  <2> QED BY <2>1, <2>2, <2>3, <2>4, <2>5, <2>6 DEF Next, Loop, Agent, Fit
<1> QED BY <1>2, <1>3, <1>1, <1>4

\* The turns outside T are at work if they were, with the object they had, and
\* those of a /new are a chat's.
NoNewWork(T) ==
    \A t \in Turn \ T :
        /\ task'[t].pc \in Working => task[t].pc \in Working /\ task'[t].obj = task[t].obj
        /\ task'[t].pc = "new" => task[t].pc = "new" \/ KeyOf(t) \in Chat

LEMMA NoWorkOne ==
    ASSUME TasksOK, NEW u \in Turn \cup After, NEW r, task' = [task EXCEPT ![u] = r],
           u \in Turn /\ r.pc \in Working => task[u].pc \in Working /\ r.obj = task[u].obj,
           r.pc # "new"
    PROVE  NoNewWork({})
BY DEF TasksOK, NoNewWork

LEMMA NoWorkTwo ==
    ASSUME TasksOK, NEW u \in Turn, NEW a \in After, NEW q, task' = [task EXCEPT ![u] = Done, ![a] = q]
    PROVE  NoNewWork({})
BY NoTurnIsAfter, Records DEF TasksOK, NoNewWork, Working

LEMMA WorkStep ==
    ASSUME TypeOK, Asked, Waiting, Next
    PROVE  \/ NoNewWork({})
           \/ \E t \in Turn : /\ BeginTurn(t) /\ NoNewWork({t}) /\ task'[t].obj = Got(KeyOf(t))
                              /\ task'[t].pc = "fit" /\ task[t].pc = "queued"
           \/ \E t \in Turn : /\ KeyOf(t) \in Cron /\ CronTurn(KeyOf(t)) /\ NoNewWork({t})
                              /\ task'[t].obj = Got(KeyOf(t)) /\ task'[t].pc = "fit"
<1>1. TasksOK
  BY TypeParts
<1>d. Done.pc \notin Working /\ Done.pc # "new"
  BY Records DEF Working
<1>2. CASE task' = task
  BY <1>2 DEF NoNewWork
<1>3. CASE ReadInbox
  <2>1. PICK m \in Message : m = Head(inbox)
    BY <1>3, HeadMessage
  <2>2. CASE m.cmd = "stop"
    <3>1. \A t \in Turn \cup After : task'[t] \in {Done, task[t]}
      BY <1>1, <1>3, <2>1, <2>2, ReadStop DEF HandleStop, TasksOK
    <3> QED BY <3>1, <1>d DEF NoNewWork
  <2>3. CASE m.cmd # "stop"
    <3>1. /\ task'[TurnOf(m)].pc \in {"new", "queued"}
          /\ \A u \in (Turn \cup After) \ {TurnOf(m)} : task'[u] = task[u]
          /\ KeyOf(TurnOf(m)) = m.key /\ m.key \in Chat
      BY <1>3, <2>1, <2>3, ReadTurn DEF Message
    <3> QED BY <3>1 DEF NoNewWork, Working
  <2> QED BY <2>2, <2>3
<1>4. ASSUME NEW u \in Turn, BeginTurn(u)
      PROVE  /\ NoNewWork({u}) /\ task'[u].obj = Got(KeyOf(u))
             /\ task'[u].pc = "fit" /\ task[u].pc = "queued"
  <2>1. /\ task' = [task EXCEPT ![u].pc = "fit", ![u].obj = Got(KeyOf(u))]
        /\ task[u].pc = "queued"
    BY <1>4 DEF BeginTurn
  <2>2. task[u] \in TaskType /\ \A v \in (Turn \cup After) \ {u} : task'[v] = task[v]
    BY <1>1, <2>1 DEF TasksOK
  <2>3. task'[u].pc = "fit" /\ task'[u].obj = Got(KeyOf(u))
    BY <1>1, <2>1, <2>2 DEF TasksOK, TaskType
  <2> QED BY <2>1, <2>2, <2>3 DEF NoNewWork
<1>5. ASSUME NEW k \in Cron, CronTurn(k)
      PROVE  \E t \in Turn : /\ KeyOf(t) = k /\ NoNewWork({t}) /\ task'[t].obj = Got(k)
                              /\ task'[t].pc = "fit"
  <2>1. PICK t \in Turn : /\ t = <<k, came[k] + 1, "turn">> /\ KeyOf(t) = k
                          /\ \A u \in (Turn \cup After) \ {t} : task'[u] = task[u]
    BY <1>5, CronBegins
  <2>2. task'[t] = [Idle EXCEPT !.pc = "fit", !.obj = Got(k)]
    BY <1>1, <1>5, <2>1 DEF CronTurn, TasksOK
  <2>3. task'[t].obj = Got(k) /\ task'[t].pc = "fit"
    BY <2>2 DEF Idle
  <2> QED BY <2>1, <2>3 DEF NoNewWork
<1>6. ASSUME NEW u \in Turn \cup After, task' = [task EXCEPT ![u] = Done] PROVE NoNewWork({})
  BY <1>1, <1>d, <1>6, NoWorkOne
<1>7. ASSUME NEW u \in Turn, NewSession(u) \/ AgentEnds(u) PROVE NoNewWork({})
  <2>1. PICK a \in After : a = <<KeyOf(u), u[2], "after">>
    BY TurnParts
  <2>2. \/ task' = [task EXCEPT ![u] = Done]
        \/ \E q : task' = [task EXCEPT ![u] = Done, ![a] = q]
    BY <1>7, <2>1 DEF NewSession, AgentEnds
  <2> QED BY <1>1, <1>6, <2>2, NoWorkTwo
<1>8. ASSUME NEW u \in After, Archives(u) PROVE NoNewWork({})
  <2>1. \A v \in (Turn \cup After) \ {u} : task'[v] = task[v]
    BY <1>1, <1>8 DEF Archives, TasksOK
  <2> QED BY <2>1, NoTurnIsAfter DEF NoNewWork
<1>9. ASSUME NEW u \in Turn \cup After, GoesOn(u), task[u].pc \in {"fit", "fitting"}
      PROVE  NoNewWork({})
  <2>1. PICK r : task' = [task EXCEPT ![u] = r]
                 /\ (r = Done \/ r = [Idle EXCEPT !.pc = "agent", !.obj = task[u].obj])
    BY <1>9 DEF GoesOn
  <2>2. (r.pc \in Working => r.obj = task[u].obj) /\ r.pc # "new"
    BY <1>d, <2>1 DEF Idle
  <2> QED BY <1>1, <1>9, <2>1, <2>2, NoWorkOne DEF Working
<1>10. ASSUME NEW u \in Turn \cup After, FitStarts(u) \/ FitEnds(u) PROVE NoNewWork({})
  <2>1. task[u].pc \in {"fit", "fitting"}
    BY <1>10 DEF FitStarts, FitEnds
  <2>2. \/ GoesOn(u) \/ task' = [task EXCEPT ![u] = Done]
        \/ \E s, end, left : task' = [task EXCEPT ![u] = Round(u, s, end, left)]
    BY <1>10 DEF FitStarts, FitEnds
  <2>3. ASSUME NEW s, NEW end, NEW left, task' = [task EXCEPT ![u] = Round(u, s, end, left)]
        PROVE  NoNewWork({})
    <3>1. PICK r : r = Round(u, s, end, left)
      OBVIOUS
    <3>2. r.obj = task[u].obj /\ r.pc # "new"
      BY <3>1 DEF Round
    <3> QED BY <1>1, <2>1, <2>3, <3>1, <3>2, NoWorkOne DEF Working
  <2> QED BY <1>6, <1>9, <2>1, <2>2, <2>3
<1>11. CASE Killed
  BY <1>1, <1>11, Records DEF Killed, TasksOK, NoNewWork, Working
<1>12. \A u \in Turn \cup After : FitSkips(u) => GoesOn(u) /\ task[u].pc = "fit"
  BY DEF FitSkips
<1>13. \/ task' = task \/ ReadInbox \/ Killed \/ (\E u \in Turn : BeginTurn(u))
       \/ (\E k \in Cron : CronTurn(k))
       \/ (\E u \in Turn \cup After : task' = [task EXCEPT ![u] = Done])
       \/ (\E u \in Turn : NewSession(u) \/ AgentEnds(u))
       \/ (\E u \in After : Archives(u))
       \/ \E u \in Turn \cup After : FitSkips(u) \/ FitStarts(u) \/ FitEnds(u)
  BY DEF Next, Coming, Come, ComeStop, Loop, Agent, AgentFails, AgentSends, CronCancelled,
         DumpFails, Fit
<1> QED BY <1>2, <1>3, <1>4, <1>5, <1>6, <1>7, <1>8, <1>9, <1>10, <1>11, <1>12, <1>13

LEMMA LockStays ==
    ASSUME TypeOK, LockShape, Next, NEW t \in Turn, lock.holder = t, task'[t].pc \in Working
    PROVE  lock'.holder = t
<1>1. TasksOK /\ Done.pc \notin Working
  BY TypeParts, Records DEF Working
<1>2. CASE UNCHANGED lock
  BY <1>2
<1>3. CASE ReadInbox
  <2>1. PICK m \in Message : m = Head(inbox)
    BY <1>3, HeadMessage
  <2>2. CASE m.cmd = "stop"
    <3>1. HandleStop(m.key)
      BY <1>3, <2>1, <2>2, ReadStop
    <3>2. t \notin Stopped(m.key)
      BY <1>1, <3>1 DEF HandleStop, TasksOK
    <3> QED BY <3>1, <3>2 DEF HandleStop, Without
  <2>3. CASE m.cmd # "stop"
    <3>1. PICK w : lock' = [lock EXCEPT !.waiters = w]
      BY <1>3, <2>1, <2>3 DEF ReadInbox
    <3>2. lock' = [holder |-> lock.holder, waiters |-> w]
      BY <3>1 DEF LockShape
    <3> QED BY <3>2
  <2> QED BY <2>2, <2>3
<1>4. ASSUME NEW u \in Turn, BeginTurn(u) \/ NewSession(u) PROVE FALSE
  BY <1>4, NoneIsNoTask DEF BeginTurn, NewSession, GetsLock
<1>5. ASSUME NEW u \in Turn \cup After, lock' = Without({u}), task'[u] = Done \/ u # t
      PROVE  lock'.holder = t
  BY <1>1, <1>5 DEF Without
<1>6. CASE Killed
  BY <1>1, <1>6, Records DEF Killed, TasksOK, Working
<1>7. ASSUME NEW u \in Turn, AgentEnds(u) \/ AgentFails(u) PROVE lock'.holder = t
  <2>1. task'[u] = Done
    <3>1. <<KeyOf(u), u[2], "after">> \in After /\ <<KeyOf(u), u[2], "after">> # u
      BY TurnParts, NoTurnIsAfter
    <3> QED BY <1>1, <1>7, <3>1 DEF AgentEnds, AgentFails, TasksOK
  <2> QED BY <1>5, <1>7, <2>1 DEF AgentEnds, AgentFails
<1>8. ASSUME NEW u \in Turn \cup After, FitEnds(u) \/ DumpFails(u) PROVE lock'.holder = t
  <2>1. UNCHANGED lock \/ (lock' = Without({u}) /\ task' = [task EXCEPT ![u] = Done])
    BY <1>8 DEF FitEnds, DumpFails
  <2>2. task' = [task EXCEPT ![u] = Done] => task'[u] = Done
    BY <1>1 DEF TasksOK
  <2> QED BY <1>2, <1>5, <2>1, <2>2
<1>9. \/ UNCHANGED lock \/ ReadInbox \/ Killed
      \/ (\E u \in Turn : BeginTurn(u) \/ NewSession(u) \/ AgentEnds(u) \/ AgentFails(u))
      \/ \E u \in Turn \cup After : FitEnds(u) \/ DumpFails(u)
  <2>1. CASE Coming \/ \E k \in Cron : CronTurn(k)
    BY <2>1 DEF Coming, Come, ComeStop, CronTurn
  <2>2. CASE \E u \in Turn : CronCancelled(u) \/ AgentSends(u)
    BY <2>2 DEF CronCancelled, AgentSends
  <2>3. CASE \E u \in Turn \cup After : FitSkips(u) \/ FitStarts(u)
    BY <2>3 DEF FitSkips, FitStarts
  <2>4. CASE \E u \in After : Archives(u)
    BY <2>4 DEF Archives
  <2> QED BY <2>1, <2>2, <2>3, <2>4 DEF Next, Loop, Agent, Fit
<1> QED BY <1>2, <1>3, <1>4, <1>6, <1>7, <1>8, <1>9

LEMMA LockHeldStep ==
    ASSUME TypeOK, Asked, Waiting, LockShape, LockHeld, Next PROVE LockHeld'
<1> SUFFICES ASSUME NEW t \in Turn, KeyOf(t) \in Chat, task'[t].pc \in Working
             PROVE  lock'.holder = t
  BY DEF LockHeld
<1>1. CASE task[t].pc \in Working
  BY <1>1, LockStays DEF LockHeld
<1>2. CASE task[t].pc \notin Working
  <2>1. BeginTurn(t)
    BY <1>2, WorkStep, Constants DEF NoNewWork
  <2> QED BY <2>1 DEF BeginTurn
<1> QED BY <1>1, <1>2

LEMMA NewIsChatStep ==
    ASSUME TypeOK, Asked, Waiting, NewIsChat, Next PROVE NewIsChat'
<1> SUFFICES ASSUME NEW t \in Turn, task'[t].pc = "new" PROVE KeyOf(t) \in Chat
  BY DEF NewIsChat
<1> QED BY WorkStep DEF NoNewWork, NewIsChat

\* What may become of the task after a turn.
LEMMA AfterStep ==
    ASSUME TypeOK, Asked, Waiting, Next, NEW a \in After
    PROVE  \/ task'[a] = task[a] \/ Archives(a) \/ DumpFails(a) \/ Fit(a) \/ Killed
           \/ \E t \in Turn : /\ a = AfterOf(t)
                              /\ NewSession(t) \/ AgentEnds(t)
                              /\ task[t].pc # "done" /\ task'[t].pc = "done"
<1>1. TasksOK
  BY TypeParts
<1>2. CASE task' = task
  BY <1>2
<1>3. CASE ReadInbox
  <2>1. PICK m \in Message : m = Head(inbox)
    BY <1>3, HeadMessage
  <2>2. CASE m.cmd = "stop"
    <3>1. HandleStop(m.key)
      BY <1>3, <2>1, <2>2, ReadStop
    <3>2. a \notin Stopped(m.key)
      BY NoTurnIsAfter DEF Stopped, Running
    <3> QED BY <1>1, <3>1, <3>2 DEF HandleStop, TasksOK
  <2>3. CASE m.cmd # "stop"
    <3>1. /\ TurnOf(m) \in Turn
          /\ \A u \in (Turn \cup After) \ {TurnOf(m)} : task'[u] = task[u]
      BY <1>3, <2>1, <2>3, ReadTurn
    <3> QED BY <3>1, NoTurnIsAfter
  <2> QED BY <2>2, <2>3
<1>4. ASSUME NEW u \in Turn, BeginTurn(u) PROVE task'[a] = task[a]
  <2>1. u # a
    BY NoTurnIsAfter
  <2> QED BY <1>1, <1>4, <2>1 DEF BeginTurn, TasksOK
<1>5. ASSUME NEW k \in Cron, CronTurn(k) PROVE task'[a] = task[a]
  BY <1>5, CronBegins, NoTurnIsAfter
<1>6. ASSUME NEW u \in Turn, AgentFails(u) \/ CronCancelled(u) PROVE task'[a] = task[a]
  <2>1. u # a
    BY NoTurnIsAfter
  <2> QED BY <1>1, <1>6, <2>1 DEF AgentFails, CronCancelled, TasksOK
<1>7. ASSUME NEW u \in Turn, NewSession(u) \/ AgentEnds(u)
      PROVE  \/ task'[a] = task[a]
             \/ a = AfterOf(u) /\ task[u].pc # "done" /\ task'[u].pc = "done"
  <2>1. AfterOf(u) \in After /\ u # AfterOf(u) /\ u # a
    BY TurnParts, NoTurnIsAfter DEF AfterOf
  <2>2. task[u].pc # "done"
    BY <1>7 DEF NewSession, AgentEnds
  <2>3. \/ task' = [task EXCEPT ![u] = Done]
        \/ \E q : task' = [task EXCEPT ![u] = Done, ![AfterOf(u)] = q]
    BY <1>7 DEF NewSession, AgentEnds, AfterOf
  <2>4. task'[u] = Done /\ (a # AfterOf(u) => task'[a] = task[a])
    BY <1>1, <2>1, <2>3 DEF TasksOK
  <2> QED BY <2>2, <2>4, Records
<1>8. ASSUME NEW u \in Turn \cup After, Archives(u) \/ DumpFails(u) \/ Fit(u), u # a
      PROVE  task'[a] = task[a]
  BY <1>1, <1>8 DEF Archives, DumpFails, Fit, FitSkips, FitStarts, FitEnds, GoesOn, TasksOK
<1>9. \/ task' = task \/ ReadInbox \/ Killed \/ (\E u \in Turn : BeginTurn(u))
      \/ (\E k \in Cron : CronTurn(k))
      \/ (\E u \in Turn : AgentFails(u) \/ CronCancelled(u))
      \/ (\E u \in Turn : NewSession(u) \/ AgentEnds(u))
      \/ (\E u \in After : Archives(u))
      \/ \E u \in Turn \cup After : DumpFails(u) \/ Fit(u)
  BY DEF Next, Coming, Come, ComeStop, Loop, Agent, AgentSends
<1> QED BY <1>2, <1>3, <1>4, <1>5, <1>6, <1>7, <1>8, <1>9

LEMMA AfterLaterStep ==
    ASSUME TypeOK, Asked, Waiting, AfterLater, Next PROVE AfterLater'
<1> SUFFICES ASSUME NEW t \in Turn, task'[t].pc # "done" PROVE task'[AfterOf(t)].pc = "none"
  BY DEF AfterLater, AfterOf
<1>1. PICK a \in After : a = AfterOf(t)
  BY TurnParts DEF AfterOf
<1>2. task[t].pc # "done" /\ task[a].pc = "none" /\ TasksOK
  BY <1>1, DoneStays, TypeParts DEF AfterLater
<1>3. CASE task'[a] = task[a]
  BY <1>1, <1>2, <1>3
<1>4. ~(Archives(a) \/ DumpFails(a) \/ Fit(a))
  BY <1>2 DEF Archives, DumpFails, Archiving, Fit, FitSkips, FitStarts, FitEnds
<1>5. CASE Killed
  BY <1>1, <1>2, <1>5, Records DEF Killed, TasksOK
<1>6. ASSUME NEW u \in Turn, a = AfterOf(u) PROVE u = t
  BY <1>1, <1>6, TurnParts DEF AfterOf
<1> QED BY <1>2, <1>3, <1>4, <1>5, <1>6, AfterStep

\* An archive task goes on until it ends or the process is killed.
LEMMA ArchivingStays ==
    ASSUME TypeOK, Asked, Waiting, AfterLater, Next, NEW a \in Archiving
    PROVE  a \in After /\ (task'[a] = task[a] \/ Archives(a) \/ DumpFails(a) \/ Killed)
<1>1. a \in After /\ task[a].pc = "archive"
  BY DEF Archiving
<1>2. ~Fit(a)
  BY <1>1 DEF Fit, FitSkips, FitStarts, FitEnds
<1>3. ASSUME NEW t \in Turn, a = AfterOf(t), task[t].pc # "done" PROVE FALSE
  BY <1>1, <1>3 DEF AfterLater
<1> QED BY <1>1, <1>2, <1>3, AfterStep

\* Who ends a turn or a consolidation writes the cached object, or the session
\* is one that a consolidation has overrun.
LEMMA RoundCached ==
    ASSUME SessionsOK, ChunkInv, RestIsEmpty, Next, NEW k \in Key, k \notin overrun',
           NEW t, NEW s, EndsRound(k, t, s)
    PROVE  task[t].obj = cache[k]
<1>1. PICK o \in Objects(k) : o = task[t].obj
  BY DEF EndsRound
<1>2. t \in Turn \cup After /\ KeyOf(t) = k /\ ~Stale(t) /\ task[t].chunk # {}
  BY DEF EndsRound, ChunkInv, ChunkGood
<1>3. task[t].chunk \subseteq Range(heap[k][o].log)
  BY <1>1, <1>2 DEF Stale, ObjectOf
<1>4. heap[k][o] # EmptySession
  BY <1>2, <1>3, EmptyLog
<1>5. k \notin overrun
  BY OverrunGrows
<1> QED BY <1>1, <1>4, <1>5 DEF RestIsEmpty

LEMMA TurnCached ==
    ASSUME HasCached, NEW k \in Key, k \notin overrun, NEW t, EndsTurn(k, t)
    PROVE  task[t].obj = cache[k]
BY DEF EndsTurn, HasCached, Working

LEMMA RestStep ==
    ASSUME TypeOK, ChunkInv, HasCached, RestIsEmpty, Next PROVE RestIsEmpty'
<1> SUFFICES ASSUME NEW k \in Key, k \notin overrun', NEW i \in 1..Len(heap'[k]), i # cache'[k]
             PROVE  heap'[k][i] = EmptySession
  BY DEF RestIsEmpty, Objects
<1>1. SessionsOK /\ k \notin overrun /\ Len(heap[k]) \in Nat
  BY TypeParts, OverrunGrows, SessionParts
<1>2. \A j \in Objects(k) : j # cache[k] => heap[k][j] = EmptySession
  BY <1>1 DEF RestIsEmpty
<1>3. CASE Same(k)
  BY <1>2, <1>3 DEF Same, Objects
<1>4. CASE Opens(k)
  <2>1. i \in Objects(k) /\ cache[k] = 0 /\ heap'[k][i] = heap[k][i]
    BY <1>1, <1>4 DEF Opens, Objects
  <2> QED BY <1>1, <1>2, <2>1 DEF Objects
<1>5. CASE Drops(k)
  BY <1>5 DEF Drops
<1>6. CASE Clears(k, Got(k))
  <2>1. CASE i = Got(k)
    BY <1>6, <2>1 DEF Clears
  <2>2. CASE i # Got(k)
    <3>1. i \in Objects(k) /\ heap'[k][i] = heap[k][i]
      BY <1>6, <2>2 DEF Clears
    <3>2. i # cache[k]
      BY <1>1, <2>2, <3>1 DEF Got, Objects
    <3> QED BY <1>2, <3>1, <3>2
  <2> QED BY <2>1, <2>2
<1>7. ASSUME NEW s, Writes(k, cache[k], s) PROVE heap'[k][i] = EmptySession
  <2>1. i \in Objects(k) /\ i # cache[k] /\ heap'[k][i] = heap[k][i]
    BY <1>7 DEF Writes, Objects
  <2> QED BY <1>2, <2>1
<1>8. ASSUME NEW t, EndsTurn(k, t) PROVE heap'[k][i] = EmptySession
  <2>1. task[t].obj = cache[k] /\ \E s : Writes(k, task[t].obj, s)
    BY <1>1, <1>8, TurnCached DEF EndsTurn
  <2> QED BY <1>7, <2>1
<1>9. ASSUME NEW t, NEW s, EndsRound(k, t, s) PROVE heap'[k][i] = EmptySession
  <2>1. task[t].obj = cache[k] /\ Writes(k, task[t].obj, s)
    BY <1>1, <1>9, RoundCached DEF EndsRound
  <2> QED BY <1>7, <2>1
<1> QED BY <1>3, <1>4, <1>5, <1>6, <1>8, <1>9, KeyStep

\* The cached object of a turn that goes on working stays the cached one.
LEMMA CacheStays ==
    ASSUME TypeOK, TypeOK', ChunkInv, LockHeld, NewIsChat, HasCached, RestIsEmpty, Next,
           NEW t \in Turn, NEW k \in Key, k = KeyOf(t), k \notin overrun',
           task[t].pc \in Working, task'[t].pc \in Working
    PROVE  cache'[k] = cache[k]
<1>1. SessionsOK /\ TasksOK /\ k \notin overrun
  BY TypeParts, OverrunGrows
<1>2. task[t].obj = cache[k] /\ cache[k] # 0
  <2>1. task[t].obj \in 1..Len(heap[k]) /\ Len(heap[k]) \in Nat
    BY <1>1, SessionParts DEF TasksOK, Placed, Working
  <2> QED BY <1>1, <2>1 DEF HasCached
<1>3. ~Drops(k)
  <2>1. task'[t].obj \in 1..Len(heap'[k])
    BY TypePartsNext DEF TasksOK, Placed, Working
  <2> QED BY <2>1 DEF Drops
<1>4. ASSUME NEW u \in Turn, KeyOf(u) = k, NewSession(u) PROVE FALSE
  <2>1. task[u].pc = "new" /\ lock.holder = None
    BY <1>4 DEF NewSession, GetsLock
  <2>2. k \in Chat
    BY <1>4, <2>1 DEF NewIsChat
  <2>3. lock.holder = t
    BY <2>2 DEF LockHeld
  <2> QED BY <2>1, <2>3, NoneIsNoTask
<1>5. ASSUME NEW u, EndsTurn(k, u) PROVE cache'[k] = cache[k]
  <2>1. task[u].obj = cache[k]
    BY <1>1, <1>5, TurnCached
  <2> QED BY <1>5, <2>1 DEF EndsTurn, Writes
<1>6. ASSUME NEW u, NEW s, EndsRound(k, u, s) PROVE cache'[k] = cache[k]
  <2>1. task[u].obj = cache[k]
    BY <1>1, <1>6, RoundCached
  <2> QED BY <1>6, <2>1 DEF EndsRound, Writes
<1> QED BY <1>2, <1>3, <1>4, <1>5, <1>6, KeyStep DEF Same, Opens

LEMMA HasCachedStep ==
    ASSUME TypeOK, TypeOK', Asked, Waiting, ChunkInv, LockHeld, NewIsChat, HasCached,
           RestIsEmpty, Next
    PROVE  HasCached'
<1> SUFFICES ASSUME NEW t \in Turn, KeyOf(t) \notin overrun', task'[t].pc \in Working
             PROVE  task'[t].obj = cache'[KeyOf(t)]
  BY DEF HasCached
<1>1. PICK k \in Key : k = KeyOf(t)
  BY TurnParts
<1>2. SessionsOK /\ k \notin overrun
  BY <1>1, TypeParts, OverrunGrows
<1>3. CASE task[t].pc \in Working /\ task'[t].obj = task[t].obj
  <2>1. cache'[k] = cache[k]
    BY <1>1, <1>3, CacheStays
  <2> QED BY <1>1, <1>2, <1>3, <2>1 DEF HasCached
<1>4. CASE GetOrCreate(k) /\ task'[t].obj = Got(k)
  BY <1>1, <1>2, <1>4 DEF GetOrCreate, SessionsOK
<1>5. ASSUME NEW u \in Turn, NoNewWork({u}), u # t
      PROVE  task[t].pc \in Working /\ task'[t].obj = task[t].obj
  BY <1>5 DEF NoNewWork
<1>6. NoNewWork({}) => task[t].pc \in Working /\ task'[t].obj = task[t].obj
  BY DEF NoNewWork
<1>7. BeginTurn(t) \/ CronTurn(KeyOf(t)) => GetOrCreate(k)
  BY <1>1 DEF BeginTurn, CronTurn
<1> QED BY <1>1, <1>3, <1>4, <1>5, <1>6, <1>7, WorkStep
-----------------------------------------------------------------------------
(* The failures an archive task still has before it gives up                *)

\* An archive task that nobody disturbs reaches the raw dump before it gives up.
CountInv == \A a \in Archiving : a \notin disturbed => failures + task[a].left >= RawAfter

LEMMA FailuresStep ==
    ASSUME Next
    PROVE  \/ Killed
           \/ failures' \in {failures, failures + 1} /\ disturbed \subseteq disturbed'
           \/ \E t \in Turn \cup After, ok \in BOOLEAN, half \in BOOLEAN :
                 Consolidated(t, ok, half) /\ (FitEnds(t) \/ Archives(t))
<1>1. CASE Coming \/ ReadInbox \/ \E k \in Cron : CronTurn(k)
  BY <1>1 DEF Coming, Come, ComeStop, ReadInbox, CronTurn, memory
<1>2. CASE \E t \in Turn : BeginTurn(t) \/ NewSession(t) \/ CronCancelled(t)
  BY <1>2 DEF BeginTurn, NewSession, CronCancelled, memory
<1>3. CASE \E t \in Turn : AgentSends(t) \/ AgentEnds(t) \/ AgentFails(t)
  BY <1>3 DEF AgentSends, AgentEnds, AgentFails, memory
<1>4. CASE \E t \in Turn \cup After : FitSkips(t) \/ FitStarts(t) \/ DumpFails(t)
  BY <1>4 DEF FitSkips, FitStarts, DumpFails, memory
<1>5. ASSUME NEW t \in Turn \cup After, FitEnds(t) \/ Archives(t)
      PROVE  \E ok \in BOOLEAN, half \in BOOLEAN :
                Consolidated(t, ok, half) /\ (FitEnds(t) \/ Archives(t))
  BY <1>5 DEF FitEnds, Archives
<1> QED BY <1>1, <1>2, <1>3, <1>4, <1>5 DEF Next, Loop, Agent, Fit

\* What an attempt leaves of the task and of the count.
LEMMA ArchivesStep ==
    ASSUME TypeOK, NEW a \in After, Archives(a)
    PROVE  \E ok \in BOOLEAN, half \in BOOLEAN :
              /\ Consolidated(a, ok, half)
              /\ task[a].pc = "archive" /\ task[a].left \in Nat
              /\ Lands(ok) \/ task[a].left = 1 => task'[a] = Done
              /\ ~Lands(ok) /\ task[a].left # 1 =>
                    /\ task'[a].pc = "archive" /\ task'[a].chunk = task[a].chunk
                    /\ task'[a].left = task[a].left - 1
              /\ ~Lands(ok) /\ task[a].left = 1 /\ a \in disturbed =>
                    lost' = lost \cup Names(KeyOf(a), task[a].chunk)
<1>1. TasksOK
  BY TypeParts
<1>2. task[a] \in TaskType /\ task[a].pc = "archive"
  BY <1>1 DEF TasksOK, Archives
<1>3. PICK ok \in BOOLEAN, half \in BOOLEAN :
         /\ Consolidated(a, ok, half)
         /\ task' = [task EXCEPT ![a] = IF Lands(ok) \/ task[a].left = 1 THEN Done
                                        ELSE [task[a] EXCEPT !.left = task[a].left - 1]]
         /\ lost' = IF ~Lands(ok) /\ task[a].left = 1 /\ a \in disturbed
                    THEN lost \cup Names(KeyOf(a), task[a].chunk) ELSE lost
  BY DEF Archives
<1>4. task'[a] = IF Lands(ok) \/ task[a].left = 1 THEN Done
                 ELSE [task[a] EXCEPT !.left = task[a].left - 1]
  BY <1>1, <1>3 DEF TasksOK
<1>5. LET r == [task[a] EXCEPT !.left = task[a].left - 1] IN
      r.pc = "archive" /\ r.chunk = task[a].chunk /\ r.left = task[a].left - 1
  BY <1>2 DEF TaskType
<1>6. task[a].left \in Nat
  BY <1>2 DEF TaskType
<1> QED BY <1>2, <1>3, <1>4, <1>5, <1>6

LEMMA ConsolidatedAlone ==
    ASSUME TasksOK, NEW t \in Turn \cup After, FitEnds(t) \/ Archives(t),
           NEW a \in Turn \cup After, a # t
    PROVE  task'[a] = task[a]
BY DEF FitEnds, Archives, GoesOn, TasksOK

LEMMA CountStep ==
    ASSUME TypeOK, TypeOK', Asked, Waiting, AfterLater, CountInv, Next PROVE CountInv'
<1> SUFFICES ASSUME NEW a \in After, task'[a].pc = "archive", a \notin disturbed'
             PROVE  failures' + task'[a].left >= RawAfter
  BY DEF CountInv, Archiving
<1>1. TasksOK /\ failures \in Nat /\ failures' \in Nat /\ RawAfter \in Nat
  <2>1. /\ faults \in Nat /\ faults' \in Nat /\ failures \in 0 .. RawAfter - 1 + faults
        /\ failures' \in 0 .. RawAfter - 1 + faults'
    BY TypeParts, TypePartsNext DEF MemoryOK
  <2> QED BY <2>1, TypeParts, Constants
<1>2. task[a].left \in Nat /\ task'[a].left \in Nat
  BY <1>1, TypePartsNext DEF TasksOK, TaskType
<1>3. ~Killed
  BY <1>1, Records DEF Killed, TasksOK
<1>4. CASE task[a].pc # "archive"
  <2>1. PICK u \in Turn : NewSaved(u) /\ NoNewArchive({AfterOf(u)})
    BY <1>4, ArchiveStep DEF NoNewArchive
  <2>2. a = AfterOf(u)
    BY <1>4, <2>1 DEF NoNewArchive
  <2>3. task'[a].left = RawAfter
    BY <1>1, <2>1, <2>2, NewSavedTasks, ArchiveTaskParts, Records
  <2>4. failures' + RawAfter >= RawAfter
    <3>1. \A f, r \in Nat : f + r >= r
      OBVIOUS
    <3> QED BY <1>1, <3>1
  <2> QED BY <2>3, <2>4
<1>5. CASE task[a].pc = "archive"
  <2>1. a \in Archiving /\ (a \notin disturbed => failures + task[a].left >= RawAfter)
    BY <1>5 DEF Archiving, CountInv
  <2>2. CASE Archives(a)
    <3>1. PICK ok \in BOOLEAN, half \in BOOLEAN :
             /\ Consolidated(a, ok, half) /\ ~Lands(ok)
             /\ task'[a].left = task[a].left - 1
      BY <2>2, ArchivesStep, Records
    <3>2. failures' = failures + 1 /\ a \notin disturbed
      BY <3>1 DEF Consolidated
    <3> QED BY <1>1, <1>2, <2>1, <3>1, <3>2
  <2>3. CASE ~Archives(a)
    <3>1. task'[a] = task[a]
      <4>1. DumpFails(a) => task'[a] = Done
        BY <1>1 DEF DumpFails, TasksOK
      <4> QED BY <1>3, <2>1, <2>3, <4>1, ArchivingStays, Records
    <3>2. CASE failures' \in {failures, failures + 1} /\ disturbed \subseteq disturbed'
      BY <1>1, <1>2, <2>1, <3>1, <3>2
    <3>3. ASSUME NEW t \in Turn \cup After, NEW ok \in BOOLEAN, NEW half \in BOOLEAN,
                 Consolidated(t, ok, half), FitEnds(t) \/ Archives(t)
          PROVE  failures' + task'[a].left >= RawAfter
      <4>1. a # t
        BY <1>5, <2>3, <3>3 DEF FitEnds
      <4>2. ~(task[a].left < RawAfter)
        BY <2>1, <3>3, <4>1 DEF Consolidated
      <4> QED BY <1>1, <1>2, <3>1, <4>2
    <3> QED BY <1>3, <3>2, <3>3, FailuresStep
  <2> QED BY <2>2, <2>3
<1> QED BY <1>4, <1>5
-----------------------------------------------------------------------------
(* Where a saved turn is                                                    *)

\* In HISTORY.md or with an archive task.
Elsewhere(k, n) ==
    archived[k][n] > 0 \/ \E a \in Archiving : KeyOf(a) = k /\ n \in task[a].chunk

LEMMA LostGrows ==
    ASSUME Next PROVE lost \subseteq lost'
<1>1. CASE Coming \/ ReadInbox \/ Killed \/ \E k \in Cron : CronTurn(k)
  BY <1>1 DEF Coming, Come, ComeStop, ReadInbox, Killed, CronTurn
<1>2. CASE \E t \in Turn : BeginTurn(t) \/ NewSession(t) \/ CronCancelled(t)
  BY <1>2 DEF BeginTurn, NewSession, CronCancelled
<1>3. CASE \E t \in Turn : AgentSends(t) \/ AgentEnds(t) \/ AgentFails(t)
  BY <1>3 DEF AgentSends, AgentEnds, AgentFails
<1>4. CASE \E t \in Turn \cup After : FitSkips(t) \/ FitStarts(t) \/ FitEnds(t) \/ DumpFails(t)
  BY <1>4 DEF FitSkips, FitStarts, FitEnds, DumpFails
<1>5. CASE \E t \in After : Archives(t)
  BY <1>5 DEF Archives
<1> QED BY <1>1, <1>2, <1>3, <1>4, <1>5 DEF Next, Loop, Agent, Fit

LEMMA ElsewhereStays ==
    ASSUME TypeOK, Asked, Waiting, AfterLater, CountInv, Next,
           NEW k \in Key, NEW n \in Number, Elsewhere(k, n), <<k, n>> \notin lost'
    PROVE  Elsewhere(k, n)'
<1>1. TasksOK /\ archived[k][n] \in Nat /\ archived'[k][n] \in Nat
      /\ archived[k][n] <= archived'[k][n]
  BY TypeParts, ArchivedGrows DEF Grows
<1>2. CASE archived[k][n] > 0
  <2>1. archived'[k][n] > 0
    BY <1>1, <1>2
  <2> QED BY <2>1 DEF Elsewhere
<1>3. ASSUME NEW a \in Archiving, KeyOf(a) = k, n \in task[a].chunk PROVE Elsewhere(k, n)'
  <2>1. a \in After /\ task[a].pc = "archive"
    BY <1>3 DEF Archiving
  <2>2. task'[a].pc = "archive" /\ task'[a].chunk = task[a].chunk => Elsewhere(k, n)'
    BY <1>3, <2>1 DEF Elsewhere, Archiving
  <2>3. <<k, n>> \in Names(k, task[a].chunk)
    BY <1>3 DEF Names
  <2>4. CASE task'[a] = task[a]
    BY <2>1, <2>2, <2>4
  <2>5. ~Killed
    BY <1>3, <2>3 DEF Killed
  <2>6. ~DumpFails(a)
    BY <1>3, <2>3 DEF DumpFails
  <2>7. CASE Archives(a)
    <3>1. PICK ok \in BOOLEAN, half \in BOOLEAN :
             /\ Consolidated(a, ok, half) /\ task[a].left \in Nat
             /\ ~Lands(ok) /\ task[a].left # 1 =>
                   task'[a].pc = "archive" /\ task'[a].chunk = task[a].chunk
             /\ ~Lands(ok) /\ task[a].left = 1 /\ a \in disturbed =>
                   lost' = lost \cup Names(KeyOf(a), task[a].chunk)
      BY <2>1, <2>7, ArchivesStep
    <3>2. CASE Lands(ok)
      <4>1. archived'[k][n] > 0
        BY <1>3, <2>1, <3>1, <3>2, ConsolidatedGrows
      <4> QED BY <4>1 DEF Elsewhere
    <3>3. CASE ~Lands(ok) /\ task[a].left # 1
      BY <2>2, <3>1, <3>3
    <3>4. CASE ~Lands(ok) /\ task[a].left = 1
      <4>1. a \notin disturbed
        BY <1>3, <2>3, <3>1, <3>4
      <4>2. failures + 1 >= RawAfter
        BY <1>3, <3>4, <4>1 DEF CountInv
      <4> QED BY <3>4, <4>2 DEF Lands
    <3> QED BY <3>2, <3>3, <3>4
  <2> QED BY <1>3, <2>4, <2>5, <2>6, <2>7, ArchivingStays
<1> QED BY <1>2, <1>3 DEF Elsewhere

\* In the file and in what get_or_create returns.
InBoth(k, n) == n \in Range(disk[k].log) /\ n \in Range(Current(k).log)

KeptInv ==
    /\ kept \subseteq Key \X Number
    /\ \A k \in Key \ overrun, n \in Number : <<k, n>> \in kept \ lost =>
           Elsewhere(k, n) \/ InBoth(k, n)

\* The turn's entry gets to the file: it ends, or is cancelled with a checkpoint.
Enrols(t) ==
    /\ kept' = kept \cup {Name(t)} /\ Enters(t) /\ task'[t].pc = "done"
    /\ \E s : Save(KeyOf(t), task[t].obj, s)

LEMMA RescueEnrols ==
    ASSUME NEW t, Rescue(t), task'[t].pc = "done"
    PROVE  kept' = kept \/ Enrols(t)
<1>1. \/ UNCHANGED kept
      \/ /\ task[t].pc = "agent" /\ Save(KeyOf(t), task[t].obj, Written(t))
         /\ kept' = kept \cup {Name(t)}
  BY DEF Rescue
<1> QED BY <1>1 DEF Enrols, Enters

LEMMA KeptStep ==
    ASSUME TypeOK, Next
    PROVE  kept' = kept \/ \E t \in Turn : Enrols(t)
<1>1. CASE Coming \/ Killed \/ \E k \in Cron : CronTurn(k)
  BY <1>1 DEF Coming, Come, ComeStop, Killed, CronTurn
<1>r. CASE ReadInbox
  <2>1. PICK m : m = Head(inbox)
    OBVIOUS
  <2>2. \/ kept' = kept
        \/ /\ m.cmd = "stop" /\ lock.holder \in Stopped(m.key) /\ Rescue(lock.holder)
           /\ task' = [u \in DOMAIN task |-> IF u \in Stopped(m.key) THEN Done ELSE task[u]]
    BY <1>r, <2>1 DEF ReadInbox, HandleStop
  <2>3. ASSUME NEW t \in Turn, t \in Stopped(m.key),
               task' = [u \in DOMAIN task |-> IF u \in Stopped(m.key) THEN Done ELSE task[u]]
        PROVE  task'[t].pc = "done"
    BY <2>3, TypeParts, Records DEF TasksOK
  <2>4. Stopped(m.key) \subseteq Turn
    BY DEF Stopped, Running
  <2> QED BY <2>2, <2>3, <2>4, RescueEnrols
<1>2. CASE \E t \in Turn : BeginTurn(t) \/ NewSession(t) \/ CronCancelled(t)
  BY <1>2 DEF BeginTurn, NewSession, CronCancelled
<1>3. CASE \E t \in Turn : AgentSends(t) \/ AgentFails(t)
  BY <1>3 DEF AgentSends, AgentFails
<1>4. CASE \E t \in Turn \cup After : FitSkips(t) \/ FitStarts(t) \/ FitEnds(t) \/ DumpFails(t)
  BY <1>4 DEF FitSkips, FitStarts, FitEnds, DumpFails
<1>5. CASE \E t \in After : Archives(t)
  BY <1>5 DEF Archives
<1>6. ASSUME NEW t \in Turn, AgentEnds(t)
      PROVE  kept' = kept \/ Enrols(t)
  <2>1. Enters(t) /\ task'[t].pc = "done"
    BY <1>6, TypeParts, EndsEnter
  <2>2. kept' = kept \/ (/\ kept' = kept \cup {Name(t)}
                        /\ Save(KeyOf(t), task[t].obj, Written(t)))
    BY <1>6 DEF AgentEnds
  <2> QED BY <2>1, <2>2 DEF Enrols
<1> QED BY <1>1, <1>r, <1>2, <1>3, <1>4, <1>5, <1>6 DEF Next, Loop, Agent, Fit

\* A turn of a log is still to be archived or was.
LEMMA HiddenOrNot ==
    ASSUME NEW k \in Key, NEW s \in SessionType, Good(k, s), NEW n \in Range(s.log)
    PROVE  n \in Unconsolidated(s) \/ archived[k][n] > 0
<1>1. s.log \in Seq(Number) /\ s.cons \in Nat /\ Len(s.log) \in Nat
  BY DEF SessionType
<1>2. PICK i \in 1..Len(s.log) : n = s.log[i]
  BY <1>1 DEF Range
<1>3. CASE i <= s.cons
  BY <1>1, <1>2, <1>3 DEF Good
<1>4. CASE i > s.cons
  <2>1. i \in s.cons + 1 .. Len(s.log)
    BY <1>1, <1>2, <1>4
  <2> QED BY <1>2, <2>1 DEF Unconsolidated
<1> QED BY <1>1, <1>2, <1>3, <1>4

\* A /new moves what it clears to an archive task, or fails to.
LEMMA ClearedElsewhere ==
    ASSUME TypeOK, Asked, Waiting, AfterLater, StoredGood, CountInv, Next,
           NEW t \in Turn, NewSession(t), NEW k \in Key, k = KeyOf(t), k \notin overrun,
           NEW n \in Number, n \in Range(Current(k).log), <<k, n>> \notin lost'
    PROVE  Elsewhere(k, n)'
<1>1. SessionsOK /\ TasksOK
  BY TypeParts
<1>2. Current(k) \in SessionType /\ Good(k, Current(k))
  BY <1>1, CurrentStored DEF StoredGood, Stored
<1>3. CASE archived[k][n] > 0
  BY <1>3, ElsewhereStays DEF Elsewhere
<1>4. CASE n \in Snapshot(k)
  <2>1. ~NewFails(t)
    BY <1>4 DEF NewFails, Names
  <2>2. NewSaved(t)
    BY <2>1, NewSessionEither
  <2>3. /\ AfterOf(t) \in After /\ KeyOf(AfterOf(t)) = k
        /\ task'[AfterOf(t)] = ArchiveTask(Snapshot(k))
    BY <1>1, <1>4, <2>2, NewSavedTasks
  <2>4. task'[AfterOf(t)].pc = "archive" /\ task'[AfterOf(t)].chunk = Snapshot(k)
    BY <2>3, ArchiveTaskParts
  <2> QED BY <1>4, <2>3, <2>4 DEF Elsewhere, Archiving
<1> QED BY <1>2, <1>3, <1>4, HiddenOrNot DEF Snapshot

LEMMA InBothStays ==
    ASSUME TypeOK, Asked, Waiting, AfterLater, StoredGood, ChunkInv, HasCached, RestIsEmpty,
           CountInv, Next, NEW k \in Key, k \notin overrun',
           NEW n \in Number, InBoth(k, n), <<k, n>> \notin lost'
    PROVE  (Elsewhere(k, n) \/ InBoth(k, n))'
<1>1. SessionsOK /\ k \notin overrun /\ Len(heap[k]) \in Nat
  BY TypeParts, OverrunGrows, SessionParts
<1>2. n \in Range(disk[k].log) /\ n \in Range(Current(k).log)
  BY DEF InBoth
<1>3. CASE Same(k)
  BY <1>2, <1>3 DEF Same, InBoth, Current
<1>4. CASE Opens(k)
  <2>1. /\ cache'[k] # 0 /\ disk'[k] = disk[k] /\ heap'[k][cache'[k]] = disk[k]
    BY <1>1, <1>4 DEF Opens
  <2> QED BY <1>2, <2>1 DEF InBoth, Current
<1>5. CASE Drops(k)
  BY <1>2, <1>5 DEF Drops, InBoth, Current
<1>6. ASSUME NEW t \in Turn, KeyOf(t) = k, NewSession(t) PROVE Elsewhere(k, n)'
  BY <1>1, <1>2, <1>6, ClearedElsewhere
<1>7. ASSUME NEW s, Writes(k, cache[k], s), n \in Range(s.log) PROVE InBoth(k, n)'
  <2>1. cache'[k] = cache[k] /\ cache[k] # 0 /\ heap'[k][cache[k]] = s
    BY <1>1, <1>7 DEF Writes, Objects
  <2>2. disk'[k] = s \/ disk'[k] = disk[k]
    BY <1>7 DEF Writes
  <2> QED BY <1>2, <1>7, <2>1, <2>2 DEF InBoth, Current
<1>8. ASSUME NEW o \in Objects(k), o = cache[k]
      PROVE  n \in Range(heap[k][o].log) /\ heap[k][o] \in SessionType
  <2>1. o # 0
    BY <1>1 DEF Objects
  <2> QED BY <1>1, <1>2, <1>8, <2>1, SessionParts DEF Current
<1>9. ASSUME NEW t, EndsTurn(k, t) PROVE InBoth(k, n)'
  <2>1. PICK o \in Objects(k) : o = task[t].obj /\ Writes(k, o, Longer(heap[k][o], t[2]))
    BY <1>9 DEF EndsTurn
  <2>2. o = cache[k] /\ t[2] \in Number
    BY <1>1, <1>9, <2>1, TurnCached, TurnParts DEF EndsTurn
  <2>3. PICK old \in SessionType : old = heap[k][o] /\ n \in Range(old.log)
    BY <1>8, <2>2
  <2>4. Range(Longer(old, t[2]).log) = Range(old.log) \cup {t[2]}
    BY <2>2, LongerLog
  <2> QED BY <1>7, <2>1, <2>2, <2>3, <2>4
<1>10. ASSUME NEW t, NEW s, EndsRound(k, t, s) PROVE InBoth(k, n)'
  <2>1. PICK o \in Objects(k) : o = task[t].obj /\ Writes(k, o, s) /\ s.log = heap[k][o].log
    BY <1>10 DEF EndsRound
  <2>2. o = cache[k]
    BY <1>1, <1>10, <2>1, RoundCached
  <2> QED BY <1>7, <1>8, <2>1, <2>2
<1> QED BY <1>3, <1>4, <1>5, <1>6, <1>9, <1>10, KeyStep

LEMMA KeptInvStep ==
    ASSUME TypeOK, Asked, Waiting, AfterLater, StoredGood, ChunkInv, HasCached, RestIsEmpty,
           CountInv, KeptInv, Next
    PROVE  KeptInv'
<1>1. \A t \in Turn : Name(t) \in Key \X Number
  BY DEF Turn, Name
<1>2. kept' \subseteq Key \X Number
  BY <1>1, KeptStep DEF KeptInv, Enrols
<1>3. ASSUME NEW k \in Key, NEW n \in Number, k \notin overrun',
             <<k, n>> \in kept', <<k, n>> \notin lost'
      PROVE  (Elsewhere(k, n) \/ InBoth(k, n))'
  <2>1. <<k, n>> \notin lost /\ k \notin overrun
    BY <1>3, LostGrows, OverrunGrows
  <2>2. CASE <<k, n>> \in kept
    <3>1. Elsewhere(k, n) \/ InBoth(k, n)
      BY <2>1, <2>2 DEF KeptInv
    <3> QED BY <1>3, <3>1, ElsewhereStays, InBothStays
  <2>3. ASSUME NEW t \in Turn, Enrols(t), NEW r, Save(KeyOf(t), task[t].obj, r),
               Name(t) = <<k, n>>
        PROVE  InBoth(k, n)'
    <3>1. KeyOf(t) = k /\ t[2] = n /\ SessionsOK /\ EndsTurn(k, t)
      <4>1. Name(t) = <<KeyOf(t), t[2]>>
        BY TurnParts
      <4>2. KeyOf(t) = k /\ t[2] = n
        BY <2>3, <4>1
      <4>3. EndsTurn(k, t)
        BY <2>3, <4>2, EntersEffect DEF Enrols
      <4> QED BY <4>2, <4>3, TypeParts
    <3>2. PICK o \in Objects(k) : o = task[t].obj /\ Writes(k, o, Longer(heap[k][o], n))
      BY <3>1 DEF EndsTurn
    <3>3. disk'[k] = r /\ cache'[k] = o
      BY <2>3, <3>1, <3>2 DEF Save, SessionsOK
    <3>4. heap'[k][o] = Longer(heap[k][o], n) /\ o # 0
      BY <3>1, <3>2, SessionParts DEF Writes, Objects
    <3>5. heap'[k][o] = r
      <4>1. heap[k] \in Seq(SessionType) /\ o \in 1..Len(heap[k])
        BY <3>1, <3>2, SessionParts DEF Objects
      <4>2. heap'[k] = [heap[k] EXCEPT ![o] = r]
        BY <2>3, <3>1, <3>2 DEF Save, SessionsOK
      <4> QED BY <4>1, <4>2
    <3>6. n \in Range(Longer(heap[k][o], n).log)
      <4>1. PICK old \in SessionType : old = heap[k][o]
        BY <3>1, <3>2, SessionParts
      <4>2. Range(Longer(old, n).log) = Range(old.log) \cup {n}
        BY LongerLog
      <4> QED BY <4>1, <4>2
    <3> QED BY <3>3, <3>4, <3>5, <3>6 DEF InBoth, Current
  <2>4. ASSUME NEW t \in Turn, Enrols(t), <<k, n>> \notin kept PROVE InBoth(k, n)'
    <3>1. Name(t) = <<k, n>> /\ \E r : Save(KeyOf(t), task[t].obj, r)
      BY <1>3, <2>4 DEF Enrols
    <3> QED BY <2>3, <2>4, <3>1
  <2> QED BY <1>3, <2>2, <2>4, KeptStep
<1> QED BY <1>2, <1>3 DEF KeptInv

LostInv ==
    /\ LockShape /\ LockHeld /\ NewIsChat /\ AfterLater
    /\ HasCached /\ RestIsEmpty /\ CountInv /\ KeptInv

LEMMA LostInit == Init => LostInv
<1> SUFFICES ASSUME Init PROVE LostInv
  OBVIOUS
<1>1. \A t \in Turn \cup After : task[t].pc = "none"
  BY Records DEF Init
<1>2. lock = [holder |-> None, waiters |-> <<>>]
  BY DEF Init, Free
<1>3. LockShape /\ LockHeld /\ NewIsChat /\ HasCached
  BY <1>1, <1>2 DEF LockShape, LockHeld, NewIsChat, HasCached, Working
<1>4. AfterLater
  BY <1>1, TurnParts DEF AfterLater, AfterOf
<1>5. RestIsEmpty
  BY DEF Init, RestIsEmpty, Objects
<1>6. CountInv
  BY <1>1 DEF CountInv, Archiving
<1>7. KeptInv
  <2>1. kept = Key \X (1..Old) /\ 1..Old \subseteq Number
    BY Constants DEF Init, Number
  <2> SUFFICES ASSUME NEW k \in Key, NEW n \in 1..Old PROVE InBoth(k, n)
    BY <2>1 DEF KeptInv
  <2>2. PICK l : l = [i \in 1..Old |-> i] /\ disk[k].log = l /\ Current(k) = disk[k]
    BY DEF Init, Current
  <2>3. n \in Range(l)
    BY <2>2 DEF Range
  <2> QED BY <2>2, <2>3 DEF InBoth
<1> QED BY <1>3, <1>4, <1>5, <1>6, <1>7 DEF LostInv

LEMMA LostStutter ==
    ASSUME LostInv, UNCHANGED vars PROVE LostInv'
<1>1. /\ disk' = disk /\ heap' = heap /\ cache' = cache /\ task' = task /\ lock' = lock
      /\ failures' = failures /\ archived' = archived /\ overrun' = overrun
      /\ disturbed' = disturbed /\ kept' = kept /\ lost' = lost
  BY DEF vars
<1>2. (LockShape /\ LockHeld /\ NewIsChat /\ AfterLater)'
  BY <1>1 DEF LostInv, LockShape, LockHeld, NewIsChat, AfterLater
<1>3. (HasCached /\ RestIsEmpty)'
  BY <1>1 DEF LostInv, HasCached, RestIsEmpty, Objects
<1>4. CountInv'
  BY <1>1 DEF LostInv, CountInv, Archiving
<1>5. KeptInv'
  BY <1>1 DEF LostInv, KeptInv, Elsewhere, InBoth, Current, Archiving
<1> QED BY <1>2, <1>3, <1>4, <1>5 DEF LostInv

LEMMA LostStep ==
    TypeOK /\ TypeOK' /\ TurnsInv /\ OffsetInv /\ LostInv /\ [Next]_vars => LostInv'
<1> SUFFICES ASSUME TypeOK, TypeOK', TurnsInv, OffsetInv, LostInv, Next PROVE LostInv'
  BY LostStutter
<1>1. /\ Asked /\ Waiting /\ StoredGood /\ ChunkInv /\ LockShape /\ LockHeld /\ NewIsChat
      /\ AfterLater /\ HasCached /\ RestIsEmpty /\ CountInv /\ KeptInv
  BY DEF TurnsInv, OffsetInv, LostInv
<1>2. LockShape' /\ LockHeld' /\ NewIsChat' /\ AfterLater'
  BY <1>1, LockShapeStep, LockHeldStep, NewIsChatStep, AfterLaterStep
<1>3. HasCached' /\ RestIsEmpty'
  BY <1>1, HasCachedStep, RestStep
<1>4. CountInv' /\ KeptInv'
  BY <1>1, CountStep, KeptInvStep
<1> QED BY <1>2, <1>3, <1>4 DEF LostInv

LEMMA LostCorrect == Spec => [](TypeOK /\ TurnsInv /\ OffsetInv /\ LostInv)
<1>1. TypeOK /\ TurnsInv /\ OffsetInv /\ LostInv /\ [Next]_vars
          => (TypeOK /\ TurnsInv /\ OffsetInv /\ LostInv)'
  BY TypeStep, TurnsStep, OffsetStep, LostStep
<1> QED BY <1>1, InitType, TurnsInit, OffsetInit, LostInit, PTL DEF Spec

\* A saved turn stays in its file, in HISTORY.md or with an archive task of a
\* /new, but for a kill, a write that fails or another session's consolidation
\* at its worst moment: the turns at work and the file agree on the cached
\* object, and an archive task that nobody disturbs reaches the raw dump.
THEOREM NothingLostCorrect == Spec => []NothingLost
<1>1. LostInv => NothingLost
  <2> SUFFICES ASSUME LostInv, NEW m \in kept \ lost, m[1] \notin overrun PROVE Safe(m)
    BY DEF NothingLost
  <2>1. PICK k \in Key, n \in Number : m = <<k, n>>
    BY DEF LostInv, KeptInv
  <2>2. Elsewhere(k, n) \/ InBoth(k, n)
    BY <2>1 DEF LostInv, KeptInv
  <2> QED BY <2>1, <2>2 DEF Safe, Elsewhere, InBoth
<1> QED BY <1>1, LostCorrect, PTL
=============================================================================
