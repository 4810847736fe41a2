-------------------------- MODULE PromotionsProofs --------------------------
(***************************************************************************)
(* What the overlay runs has been soaked, no integrity row falls under a   *)
(* soak, and verdicts are final: for any candidates, modules and length of *)
(* the soak, any number of faults and of passes.                           *)
(*                                                                         *)
(* The invariant relates four copies of the same facts, the manifest and   *)
(* the states on disk and in memory, which a pass changes one after the    *)
(* other.  A candidate is looked at once in a pass, so until then the two  *)
(* copies of its state agree; and an entry, on disk or in memory, is of a  *)
(* candidate whose state on disk is at least soaking, so that the save of  *)
(* the manifest may come before the save of the states.  With what a       *)
(* promotion has counted (Earned), every step is one of Trial or none.     *)
(***************************************************************************)
EXTENDS Promotions, TLAPS

\* Every clean pass a state counts was one, and an entry had all of them.
Counted ==
    \A c \in Candidate :
        /\ states[c].passes <= sound[c] /\ cands[c].passes <= sound[c]
        /\ EntryOf(manifest, c) \/ EntryOf(entries, c) => sound[c] = Soak

\* No stamp is of the future, in a pass none is later than its beginning.
Times ==
    /\ \A c \in Candidate : states[c].mark <= events
    /\ pc # "idle" => at <= events
    /\ pc # "idle" => \A c \in Candidate : states[c].mark <= at /\ cands[c].mark <= at

\* An entry's candidate is known on disk, and measured when the watch begins.
Stamped(map, lost) ==
    \A c \in Candidate : EntryOf(map, c) =>
        /\ states[c].status # "fresh"
        /\ c \notin lost => map[ModuleOf[c]].since = states[c].mark

\* How the state a pass has in memory follows from the one on disk.
Follows(c) ==
    /\ states[c].status # "fresh" => /\ cands[c].mark = states[c].mark
                                     /\ cands[c].status # "fresh"
    /\ states[c].status \in {"promoted", "rejected"} =>
          /\ cands[c] = states[c]
          /\ EntryOf(entries, c) => EntryOf(manifest, c)

Carried ==
    pc # "idle" => \A c \in Candidate :
        /\ pc = "measure" /\ c \in todo => cands[c] = states[c]
        /\ Follows(c)

IInv ==
    /\ TypeOK /\ Counted /\ Times
    /\ Stamped(manifest, missed) /\ Stamped(entries, missed)
    /\ Carried

LEMMA Constants ==
    /\ ModuleOf \in [Candidate -> Module] /\ Soak \in Nat /\ Soak > 0
    /\ MaxEvents \in Nat /\ MaxFaults \in Nat
BY PromotionAssumption DEF PromotionAssumption

LEMMA FaultType ==
    ASSUME faults \in 0..MaxFaults, Fault \/ UNCHANGED faults
    PROVE  faults' \in 0..MaxFaults
BY Constants DEF Fault

\* An entry taken out leaves the others as they are.
LEMMA TakenOut ==
    ASSUME NEW map \in [Module -> Entry \cup {None}], NEW m \in Module, NEW c \in Candidate,
           EntryOf([map EXCEPT ![m] = None], c)
    PROVE  EntryOf(map, c) /\ [map EXCEPT ![m] = None][ModuleOf[c]] = map[ModuleOf[c]]
BY Constants DEF EntryOf

LEMMA NoEntry ==
    ASSUME NEW c \in Candidate
    PROVE  ~ EntryOf(NoEntries, c)
BY Constants DEF EntryOf, NoEntries

\* The state of one candidate is replaced.
LEMMA BecomesType ==
    ASSUME cands \in [Candidate -> State], NEW c \in Candidate,
           NEW s \in {"fresh", "soaking", "promoted", "rejected"},
           NEW p \in 0..Soak, NEW k \in 0..MaxEvents, Becomes(c, s, p, k)
    PROVE  /\ cands' \in [Candidate -> State]
           /\ cands'[c].status = s /\ cands'[c].passes = p /\ cands'[c].mark = k
           /\ \A d \in Candidate \ {c} : cands'[d] = cands[d]
BY DEF Becomes, State

LEMMA StateAt ==
    ASSUME NEW map \in [Candidate -> State], NEW c \in Candidate
    PROVE  /\ map[c].status \in {"fresh", "soaking", "promoted", "rejected"}
           /\ map[c].passes \in 0..Soak /\ map[c].mark \in 0..MaxEvents
BY DEF State

LEMMA EmptyMaps ==
    /\ NoEntries \in [Module -> Entry \cup {None}] /\ NoStates \in [Candidate -> State]
    /\ \A c \in Candidate : NoStates[c].passes = 0 /\ NoStates[c].mark = 0
BY Constants DEF NoEntries, NoStates, State, Fresh

LEMMA InitInv == Init => IInv
<1> SUFFICES ASSUME Init PROVE IInv
  OBVIOUS
<1>1. TypeOK
  <2>1. tree \in [Module -> Candidate \cup {None}] /\ sound \in [Candidate -> 0..Soak]
    BY Constants DEF Init, NoEntries
  <2>2. /\ manifest \in [Module -> Entry \cup {None}] /\ states \in [Candidate -> State]
        /\ entries \in [Module -> Entry \cup {None}] /\ cands \in [Candidate -> State]
    BY EmptyMaps DEF Init
  <2>3. events \in 0..MaxEvents /\ at \in 0..MaxEvents /\ faults \in 0..MaxFaults
    BY Constants DEF Init
  <2> QED BY <2>1, <2>2, <2>3 DEF Init, TypeOK
<1>2. Counted /\ Times /\ Stamped(manifest, missed) /\ Stamped(entries, missed) /\ Carried
  BY Constants, EmptyMaps, NoEntry DEF Init, Counted, Times, Stamped, Carried
<1> QED BY <1>1, <1>2 DEF IInv
-----------------------------------------------------------------------------
(* The environment                                                          *)

\* Records, days and integrity rows disturb no copy.
LEMMA OutsideInv ==
    ASSUME IInv, (\E c \in Candidate : Record(c)) \/ Midnight \/ Integrity
    PROVE  IInv'
<1>1. UNCHANGED <<disk, pass, sound, missed>>
  BY DEF Record, Midnight, Integrity
<1>2. events' \in 0..MaxEvents /\ events <= events'
  BY Constants DEF IInv, TypeOK, Record, Midnight, Integrity
<1>3. /\ files' \subseteq Candidate /\ old' \subseteq files' /\ archived' \subseteq Candidate
      /\ faults' \in 0..MaxFaults
  <2>1. faults \in 0..MaxFaults /\ (Fault \/ UNCHANGED faults)
    BY DEF IInv, TypeOK, Record, Midnight, Integrity
  <2>2. faults' \in 0..MaxFaults
    BY <2>1, FaultType
  <2>3. files \subseteq Candidate /\ old \subseteq files /\ archived \subseteq Candidate
    BY DEF IInv, TypeOK
  <2>4. CASE \E c \in Candidate : Record(c)
    BY <2>2, <2>3, <2>4 DEF Record
  <2>5. CASE Midnight
    BY <2>2, <2>3, <2>5 DEF Midnight
  <2>6. CASE Integrity
    BY <2>2, <2>3, <2>6 DEF Integrity, records
  <2> QED BY <2>4, <2>5, <2>6
<1>4. TypeOK'
  BY <1>1, <1>2, <1>3 DEF IInv, TypeOK, disk, pass
<1>5. Times'
  <2>1. states' = states /\ cands' = cands /\ at' = at /\ pc' = pc
    BY <1>1 DEF disk, pass
  <2>2. events \in Nat /\ events' \in Nat /\ at \in Nat
        /\ \A c \in Candidate : states[c].mark \in Nat
    BY <1>2, StateAt, Constants DEF IInv, TypeOK
  <2> QED BY <1>2, <2>1, <2>2 DEF IInv, Times
<1>6. Counted' /\ Stamped(manifest, missed)' /\ Stamped(entries, missed)' /\ Carried'
  BY <1>1 DEF IInv, disk, pass, Counted, Stamped, Carried, Follows, EntryOf
<1> QED BY <1>4, <1>5, <1>6 DEF IInv

\* The operator changes the status of an entry only.
LEMMA VetoInv ==
    ASSUME IInv, NEW m \in Module, Veto(m)
    PROVE  IInv'
<1> DEFINE e == [cand |-> manifest[m].cand, since |-> manifest[m].since,
                 status |-> "vetoed"]
<1>1. /\ manifest[m] # None /\ manifest' = [manifest EXCEPT ![m] = e]
      /\ UNCHANGED <<records, events, tree, states, pass, sound, missed, faults>>
  BY DEF Veto
<1>2. manifest[m] \in Entry /\ e \in Entry
  BY <1>1 DEF IInv, TypeOK, Entry
<1>3. manifest' \in [Module -> Entry \cup {None}]
  BY <1>1, <1>2 DEF IInv, TypeOK
<1>4. ASSUME NEW c \in Candidate
      PROVE  /\ EntryOf(manifest', c) <=> EntryOf(manifest, c)
             /\ EntryOf(manifest', c) => manifest'[ModuleOf[c]].since = manifest[ModuleOf[c]].since
  <2>1. ModuleOf[c] \in Module
    BY Constants
  <2>2. CASE ModuleOf[c] = m
    <3>1. manifest'[m].cand = manifest[m].cand /\ manifest'[m].since = manifest[m].since
      BY <1>1 DEF IInv, TypeOK
    <3>2. e # None
      BY <1>2, <1>1 DEF None
    <3> QED BY <1>1, <2>2, <3>1, <3>2 DEF EntryOf, IInv, TypeOK
  <2>3. CASE ModuleOf[c] # m
    BY <1>1, <2>1, <2>3 DEF EntryOf, IInv, TypeOK
  <2> QED BY <2>2, <2>3
<1>5. TypeOK'
  BY <1>1, <1>3 DEF IInv, TypeOK, records, pass
<1>6. Counted' /\ Times' /\ Stamped(entries, missed)'
  BY <1>1, <1>4 DEF IInv, Counted, Times, Stamped, pass
<1>7. Stamped(manifest, missed)'
  BY <1>1, <1>4 DEF IInv, Stamped
<1>8. Carried'
  BY <1>1, <1>4 DEF IInv, Carried, Follows, pass
<1> QED BY <1>5, <1>6, <1>7, <1>8 DEF IInv
-----------------------------------------------------------------------------
(* A pass                                                                   *)

LEMMA StartPassInv ==
    ASSUME IInv, StartPass
    PROVE  IInv'
<1>1. /\ pc' = "measure" /\ todo' = files /\ entries' = manifest /\ cands' = states
      /\ dirty' = FALSE /\ at' = events
      /\ UNCHANGED <<records, events, disk, sound, missed, faults>>
  BY DEF StartPass
<1>2. TypeOK'
  BY <1>1 DEF IInv, TypeOK, records, disk
<1>3. Times'
  BY <1>1 DEF IInv, TypeOK, Times, disk
<1>4. Counted' /\ Stamped(manifest, missed)' /\ Stamped(entries, missed)' /\ Carried'
  BY <1>1 DEF IInv, disk, Counted, Stamped, Carried, Follows
<1> QED BY <1>2, <1>3, <1>4 DEF IInv

\* Steps that only move on in the pass.
LEMMA MovesOnInv ==
    ASSUME IInv, \/ \E c \in Candidate : LeftAlone(c)
                 \/ StartWatch \/ EndWatch
                 \/ \E m \in Module : Keep(m)
    PROVE  IInv'
<1>1. /\ UNCHANGED <<records, events, disk, entries, cands, dirty, at, sound, missed>>
      /\ faults' \in 0..MaxFaults
  BY FaultType DEF IInv, TypeOK, LeftAlone, StartWatch, EndWatch, Keep
<1>2. /\ pc # "idle" /\ pc' \in {"measure", "watch", "manifest"}
      /\ pc' = "measure" => pc = "measure" /\ todo' \subseteq todo
      /\ pc' = "watch" => todo' \subseteq Module
  BY DEF LeftAlone, Measuring, StartWatch, EndWatch, Keep, Watching, IInv, TypeOK
<1>3. TypeOK'
  BY <1>1, <1>2 DEF IInv, TypeOK, records, disk
<1>4. Counted' /\ Times' /\ Stamped(manifest, missed)' /\ Stamped(entries, missed)'
  BY <1>1, <1>2 DEF IInv, disk, Counted, Times, Stamped
<1>5. Carried'
  BY <1>1, <1>2 DEF IInv, disk, Carried, Follows
<1> QED BY <1>3, <1>4, <1>5 DEF IInv

\* What holds of a candidate whose turn it is, before it is decided on.
LEMMA Turn ==
    ASSUME IInv, NEW c \in Candidate, Measuring(c), ~ Terminal(cands[c])
    PROVE  /\ cands[c] = states[c]
           /\ states[c].status \in {"fresh", "soaking"}
           /\ cands[c].passes \in 0..Soak /\ cands[c].mark \in 0..MaxEvents
           /\ cands[c].passes <= sound[c] /\ sound[c] \in 0..Soak
           /\ cands[c].mark <= at /\ at \in 0..MaxEvents
           /\ at <= events /\ events \in 0..MaxEvents
<1>1. pc = "measure" /\ c \in todo
  BY DEF Measuring
<1>2. cands[c] = states[c]
  BY <1>1 DEF IInv, Carried
<1>3. /\ cands[c].status \in {"fresh", "soaking", "promoted", "rejected"}
      /\ cands[c].passes \in 0..Soak /\ cands[c].mark \in 0..MaxEvents
  BY StateAt DEF IInv, TypeOK
<1>4. states[c].status \in {"fresh", "soaking"}
  BY <1>2, <1>3 DEF Terminal
<1>5. cands[c].passes <= sound[c] /\ sound[c] \in 0..Soak
  BY DEF IInv, Counted, TypeOK
<1>6. /\ cands[c].mark <= at /\ at \in 0..MaxEvents
      /\ at <= events /\ events \in 0..MaxEvents
  BY <1>1 DEF IInv, Times, TypeOK
<1> QED BY <1>2, <1>3, <1>4, <1>5, <1>6

\* A turn that gives candidate c the state (s, p, k): the soaking keep their
\* mark, and no more passes are counted than were clean.
LEMMA VerdictInv ==
    ASSUME IInv, NEW c \in Candidate, Measuring(c), ~ Terminal(cands[c]),
           NEW s \in {"soaking", "promoted", "rejected"},
           NEW p \in 0..Soak, NEW k \in 0..MaxEvents, Becomes(c, s, p, k),
           UNCHANGED <<records, events, manifest, states, at>>,
           states[c].status = "soaking" => k = cands[c].mark, k <= at,
           sound' \in [Candidate -> 0..Soak], p <= sound'[c],
           \A d \in Candidate : sound[d] <= sound'[d],
           missed \subseteq missed', missed' \subseteq Candidate,
           faults' \in 0..MaxFaults, dirty' \in BOOLEAN,
           tree' \in [Module -> Candidate \cup {None}],
           entries' \in [Module -> Entry \cup {None}],
           \A d \in Candidate : EntryOf(entries', d) =>
              \/ EntryOf(entries, d) /\ entries'[ModuleOf[d]] = entries[ModuleOf[d]]
              \/ /\ d = c /\ states[c].status = "soaking" /\ sound'[c] = Soak
                 /\ c \notin missed' => entries'[ModuleOf[c]].since = states[c].mark
    PROVE  IInv'
<1>1. /\ cands' \in [Candidate -> State]
      /\ cands'[c].status = s /\ cands'[c].passes = p /\ cands'[c].mark = k
      /\ \A d \in Candidate \ {c} : cands'[d] = cands[d]
  <2>1. s \in {"fresh", "soaking", "promoted", "rejected"} /\ cands \in [Candidate -> State]
    BY DEF IInv, TypeOK
  <2> QED BY <2>1, BecomesType
<1>2. pc = "measure" /\ pc' = "measure" /\ c \in todo /\ todo' = todo \ {c}
  BY DEF Measuring
<1>3. cands[c] = states[c] /\ states[c].status \in {"fresh", "soaking"}
  BY Turn
<1>4. TypeOK'
  BY <1>1, <1>2 DEF IInv, TypeOK, records
<1>5. Counted'
  <2> SUFFICES ASSUME NEW d \in Candidate
               PROVE  /\ states[d].passes <= sound'[d] /\ cands'[d].passes <= sound'[d]
                      /\ EntryOf(manifest, d) \/ EntryOf(entries', d) => sound'[d] = Soak
    BY DEF Counted
  <2>1. /\ states[d].passes \in 0..Soak /\ cands[d].passes \in 0..Soak
        /\ states[d].passes <= sound[d] /\ cands[d].passes <= sound[d]
        /\ sound[d] \in 0..Soak /\ sound'[d] \in 0..Soak /\ sound[d] <= sound'[d]
        /\ EntryOf(manifest, d) \/ EntryOf(entries, d) => sound[d] = Soak
    BY StateAt DEF IInv, TypeOK, Counted
  <2>2. cands'[d].passes <= sound'[d]
    BY <1>1, <2>1, Constants
  <2>3. EntryOf(manifest, d) \/ EntryOf(entries, d) => sound'[d] = Soak
    BY <2>1, Constants
  <2>4. states[d].passes <= sound'[d]
    BY <2>1, Constants
  <2> QED BY <2>2, <2>3, <2>4
<1>6. Times'
  <2>1. \A d \in Candidate : cands'[d].mark <= at
    BY <1>1, <1>2 DEF IInv, Times
  <2> QED BY <1>2, <2>1 DEF IInv, Times
<1>7. Stamped(manifest, missed)'
  BY DEF IInv, Stamped
<1>8. Stamped(entries, missed)'
  <2> SUFFICES ASSUME NEW d \in Candidate, EntryOf(entries', d)
               PROVE  /\ states[d].status # "fresh"
                      /\ d \notin missed' => entries'[ModuleOf[d]].since = states[d].mark
    BY DEF Stamped
  <2>1. CASE EntryOf(entries, d) /\ entries'[ModuleOf[d]] = entries[ModuleOf[d]]
    BY <2>1 DEF IInv, Stamped
  <2>2. CASE d = c /\ states[c].status = "soaking"
             /\ (c \notin missed' => entries'[ModuleOf[c]].since = states[c].mark)
    BY <2>2
  <2> QED BY <2>1, <2>2
<1>9. Carried'
  <2> SUFFICES ASSUME NEW d \in Candidate
               PROVE  (d \in todo' => cands'[d] = states[d]) /\ Follows(d)'
    BY <1>2 DEF Carried
  <2>1. CASE d = c
    <3>1. /\ states[c].status # "fresh" => cands'[c].mark = states[c].mark
          /\ cands'[c].status # "fresh"
      BY <1>1, <1>3
    <3> QED BY <1>2, <1>3, <2>1, <3>1 DEF Follows
  <2>2. CASE d # c
    <3>1. (d \in todo => cands[d] = states[d]) /\ Follows(d)
      BY <1>2 DEF IInv, Carried
    <3>2. EntryOf(entries', d) => EntryOf(entries, d)
      BY <2>2
    <3>3. cands'[d] = cands[d]
      BY <1>1, <2>2
    <3> QED BY <1>2, <3>1, <3>2, <3>3 DEF Follows
  <2> QED BY <2>1, <2>2
<1> QED BY <1>4, <1>5, <1>6, <1>7, <1>8, <1>9 DEF IInv

LEMMA FirstLookInv ==
    ASSUME IInv, NEW c \in Candidate, FirstLook(c)
    PROVE  IInv'
<1>1. /\ Measuring(c) /\ ~ Terminal(cands[c]) /\ cands[c].status # "soaking"
      /\ UNCHANGED <<records, events, disk, entries, dirty, at, sound, missed, faults>>
      /\ Becomes(c, "rejected", 0, 0) \/ Becomes(c, "soaking", 0, at)
  BY DEF FirstLook, ToMeasure
<1>2. PICK s \in {"soaking", "rejected"}, k \in {0, at} : Becomes(c, s, 0, k)
  BY <1>1
<1>3. states[c].status # "soaking"
  BY <1>1, Turn
<1>4. 0 \in 0..Soak /\ k \in 0..MaxEvents /\ k <= at /\ 0 <= sound[c]
  BY <1>1, Turn, Constants
<1>5. /\ sound \in [Candidate -> 0..Soak] /\ \A d \in Candidate : sound[d] <= sound[d]
      /\ missed \subseteq Candidate /\ faults \in 0..MaxFaults /\ dirty \in BOOLEAN
      /\ tree \in [Module -> Candidate \cup {None}]
      /\ entries \in [Module -> Entry \cup {None}]
  BY Constants DEF IInv, TypeOK
<1> QED BY <1>1, <1>2, <1>3, <1>4, <1>5, VerdictInv DEF disk

LEMMA SoakFailsInv ==
    ASSUME IInv, NEW c \in Candidate, SoakFails(c)
    PROVE  IInv'
<1>1. /\ Measuring(c) /\ ~ Terminal(cands[c])
      /\ UNCHANGED <<records, events, disk, entries, dirty, at, sound, missed, faults>>
      /\ Becomes(c, "rejected", cands[c].passes, cands[c].mark)
  BY DEF SoakFails, Terminal
<1>2. /\ cands[c].passes \in 0..Soak /\ cands[c].mark \in 0..MaxEvents
      /\ cands[c].mark <= at /\ cands[c].passes <= sound[c]
  BY <1>1, Turn
<1>3. /\ sound \in [Candidate -> 0..Soak] /\ \A d \in Candidate : sound[d] <= sound[d]
      /\ missed \subseteq Candidate /\ faults \in 0..MaxFaults /\ dirty \in BOOLEAN
      /\ tree \in [Module -> Candidate \cup {None}]
      /\ entries \in [Module -> Entry \cup {None}]
  BY Constants DEF IInv, TypeOK
<1> QED BY <1>1, <1>2, <1>3, VerdictInv DEF disk

\* A clean check is counted, up to the length of the soak.
LEMMA CleanCounts ==
    ASSUME IInv, NEW c \in Candidate, Clean(c)
    PROVE  /\ sound' \in [Candidate -> 0..Soak]
           /\ \A d \in Candidate : sound[d] <= sound'[d]
           /\ sound'[c] = IF sound[c] < Soak THEN sound[c] + 1 ELSE sound[c]
<1>1. /\ sound \in [Candidate -> 0..Soak]
      /\ sound' = [sound EXCEPT ![c] = IF @ < Soak THEN @ + 1 ELSE @]
  BY DEF Clean, IInv, TypeOK
<1> QED BY <1>1, Constants

\* The scan leaves the faults within their bound and the misses candidates.
LEMMA QuietType ==
    ASSUME IInv, NEW c \in Candidate, Quiet(c)
    PROVE  /\ missed \subseteq missed' /\ missed' \subseteq Candidate
           /\ faults' \in 0..MaxFaults
           /\ c \notin missed' => events <= cands[c].mark
<1>1. faults \in 0..MaxFaults /\ missed \subseteq Candidate
  BY DEF IInv, TypeOK
<1>2. faults' \in 0..MaxFaults
  BY <1>1, FaultType DEF Quiet
<1> QED BY <1>1, <1>2 DEF Quiet

LEMMA SoakGoesOnInv ==
    ASSUME IInv, NEW c \in Candidate, SoakGoesOn(c)
    PROVE  IInv'
<1>1. /\ Clean(c) /\ Quiet(c) /\ Measuring(c) /\ ~ Terminal(cands[c])
      /\ cands[c].passes + 1 < Soak
      /\ UNCHANGED <<records, events, disk, entries, dirty, at>>
      /\ Becomes(c, "soaking", cands[c].passes + 1, cands[c].mark)
  <2>1. Clean(c) /\ cands[c].status = "soaking" /\ ~ (cands[c].passes + 1 >= Soak)
    BY DEF SoakGoesOn, Clean, Soaked
  <2>2. cands[c].passes \in Nat
    BY StateAt, Constants DEF IInv, TypeOK
  <2> QED BY <2>1, <2>2, Constants DEF SoakGoesOn, Clean, Terminal
<1>2. /\ cands[c].passes + 1 \in 0..Soak /\ cands[c].mark \in 0..MaxEvents
      /\ cands[c].mark <= at
      /\ cands[c].passes + 1 <= sound'[c]
  BY <1>1, Turn, CleanCounts, Constants
<1>3. /\ sound' \in [Candidate -> 0..Soak] /\ \A d \in Candidate : sound[d] <= sound'[d]
  BY <1>1, CleanCounts
<1>4. /\ missed \subseteq missed' /\ missed' \subseteq Candidate /\ faults' \in 0..MaxFaults
  BY <1>1, QuietType
<1>5. /\ dirty' \in BOOLEAN /\ tree' \in [Module -> Candidate \cup {None}]
      /\ entries' \in [Module -> Entry \cup {None}] /\ entries' = entries
  BY <1>1 DEF IInv, TypeOK, disk
<1> QED BY <1>1, <1>2, <1>3, <1>4, <1>5, VerdictInv DEF disk

LEMMA PromoteInv ==
    ASSUME IInv, NEW c \in Candidate, Promote(c)
    PROVE  IInv'
<1> DEFINE e == [cand |-> c, since |-> at, status |-> "active"]
<1>1. /\ Clean(c) /\ Quiet(c) /\ Measuring(c) /\ ~ Terminal(cands[c])
      /\ cands[c].status = "soaking" /\ cands[c].passes + 1 >= Soak
      /\ UNCHANGED <<records, events, manifest, states, at>>
      /\ tree' = [tree EXCEPT ![ModuleOf[c]] = c]
      /\ entries' = [entries EXCEPT ![ModuleOf[c]] = e] /\ dirty' = TRUE
      /\ Becomes(c, "promoted", Soak, cands[c].mark)
  BY DEF Promote, Clean, Soaked, Terminal
<1>2. /\ cands[c].mark \in 0..MaxEvents /\ cands[c].mark <= at
      /\ Soak \in 0..Soak /\ sound'[c] = Soak /\ Soak <= sound'[c]
  BY <1>1, Turn, CleanCounts, Constants
<1>3. /\ sound' \in [Candidate -> 0..Soak] /\ \A d \in Candidate : sound[d] <= sound'[d]
  BY <1>1, CleanCounts
<1>4. /\ missed \subseteq missed' /\ missed' \subseteq Candidate /\ faults' \in 0..MaxFaults
  BY <1>1, QuietType
<1>5. states[c].status = "soaking" /\ cands[c].mark = states[c].mark
  BY <1>1, Turn
<1>6. c \notin missed' => at = states[c].mark
  BY <1>1, <1>5, Turn, QuietType, Constants
<1>7. e \in Entry /\ e.cand = c /\ e.since = at
  BY <1>1, Turn DEF Entry
<1>8. /\ tree' \in [Module -> Candidate \cup {None}]
      /\ entries' \in [Module -> Entry \cup {None}] /\ dirty' \in BOOLEAN
  BY <1>1, <1>7 DEF IInv, TypeOK
<1>9. ASSUME NEW d \in Candidate, EntryOf(entries', d)
      PROVE  \/ EntryOf(entries, d) /\ entries'[ModuleOf[d]] = entries[ModuleOf[d]]
             \/ d = c /\ entries'[ModuleOf[c]].since = at
  <2>1. entries \in [Module -> Entry \cup {None}]
    BY DEF IInv, TypeOK
  <2>2. ModuleOf[c] \in Module /\ ModuleOf[d] \in Module
    BY Constants
  <2>3. CASE ModuleOf[d] = ModuleOf[c]
    <3>1. entries'[ModuleOf[d]] = e
      BY <1>1, <2>1, <2>2, <2>3
    <3> QED BY <1>7, <1>9, <2>3, <3>1 DEF EntryOf
  <2>4. CASE ModuleOf[d] # ModuleOf[c]
    <3>1. entries'[ModuleOf[d]] = entries[ModuleOf[d]]
      BY <1>1, <2>1, <2>2, <2>4
    <3> QED BY <1>9, <3>1 DEF EntryOf
  <2> QED BY <2>3, <2>4
<1> QED BY <1>1, <1>2, <1>3, <1>4, <1>5, <1>6, <1>8, <1>9, VerdictInv

LEMMA PromoteFailsInv ==
    ASSUME IInv, NEW c \in Candidate, PromoteFails(c)
    PROVE  IInv'
<1>1. /\ Clean(c) /\ pc = "measure" /\ pc' = "measure" /\ todo' \subseteq todo
      /\ UNCHANGED <<records, events, disk, entries, cands, dirty, at, missed>>
      /\ faults' \in 0..MaxFaults
  BY FaultType DEF PromoteFails, Clean, Measuring, IInv, TypeOK
<1>2. /\ sound' \in [Candidate -> 0..Soak] /\ \A d \in Candidate : sound[d] <= sound'[d]
  BY <1>1, CleanCounts
<1>3. TypeOK'
  BY <1>1, <1>2 DEF IInv, TypeOK, records, disk
<1>4. Counted'
  <2> SUFFICES ASSUME NEW d \in Candidate
               PROVE  /\ states[d].passes <= sound'[d] /\ cands[d].passes <= sound'[d]
                      /\ EntryOf(manifest, d) \/ EntryOf(entries, d) => sound'[d] = Soak
    BY <1>1 DEF Counted, disk
  <2>1. /\ states[d].passes \in 0..Soak /\ cands[d].passes \in 0..Soak
        /\ states[d].passes <= sound[d] /\ cands[d].passes <= sound[d]
        /\ sound[d] \in 0..Soak /\ sound'[d] \in 0..Soak /\ sound[d] <= sound'[d]
        /\ EntryOf(manifest, d) \/ EntryOf(entries, d) => sound[d] = Soak
    BY <1>2, StateAt DEF IInv, TypeOK, Counted
  <2>2. EntryOf(manifest, d) \/ EntryOf(entries, d) => sound'[d] = Soak
    BY <2>1, Constants
  <2>3. states[d].passes <= sound'[d] /\ cands[d].passes <= sound'[d]
    BY <2>1, Constants
  <2> QED BY <2>2, <2>3
<1>5. Times' /\ Stamped(manifest, missed)' /\ Stamped(entries, missed)'
  BY <1>1 DEF IInv, Times, Stamped, disk
<1>6. Carried'
  BY <1>1 DEF IInv, Carried, Follows, disk
<1> QED BY <1>3, <1>4, <1>5, <1>6 DEF IInv

LEMMA RollbackInv ==
    ASSUME IInv, NEW m \in Module, Rollback(m)
    PROVE  IInv'
<1>1. /\ pc = "watch" /\ pc' = "watch" /\ todo' = todo \ {m}
      /\ entries' = [entries EXCEPT ![m] = None] /\ dirty' = TRUE
      /\ UNCHANGED <<records, events, manifest, states, cands, at, sound, missed>>
      /\ tree' = [tree EXCEPT ![m] = None] \/ tree' = tree
      /\ Fault \/ UNCHANGED faults
  BY DEF Rollback, Watching
<1>2. entries \in [Module -> Entry \cup {None}] /\ faults' \in 0..MaxFaults
  BY <1>1, FaultType DEF IInv, TypeOK
<1>3. /\ entries' \in [Module -> Entry \cup {None}]
      /\ tree' \in [Module -> Candidate \cup {None}]
  BY <1>1, <1>2 DEF IInv, TypeOK
<1>4. TypeOK'
  BY <1>1, <1>2, <1>3 DEF IInv, TypeOK, records
<1>5. \A c \in Candidate : EntryOf(entries', c) =>
         EntryOf(entries, c) /\ entries'[ModuleOf[c]] = entries[ModuleOf[c]]
  BY <1>1, <1>2, TakenOut
<1>6. Counted' /\ Times' /\ Stamped(manifest, missed)'
  BY <1>1, <1>5 DEF IInv, Counted, Times, Stamped
<1>7. Stamped(entries, missed)'
  BY <1>1, <1>5 DEF IInv, Stamped
<1>8. Carried'
  BY <1>1, <1>5 DEF IInv, Carried, Follows
<1> QED BY <1>4, <1>6, <1>7, <1>8 DEF IInv

LEMMA SaveManifestInv ==
    ASSUME IInv, SaveManifest
    PROVE  IInv'
<1>1. /\ pc = "manifest" /\ pc' = "states"
      /\ manifest' = entries \/ manifest' = manifest
      /\ UNCHANGED <<records, events, tree, states, todo, entries, cands, dirty, at,
                     sound, missed, faults>>
  BY DEF SaveManifest
<1>2. TypeOK'
  BY <1>1 DEF IInv, TypeOK, records
<1>3. Counted' /\ Times' /\ Stamped(manifest, missed)' /\ Stamped(entries, missed)'
  BY <1>1 DEF IInv, Counted, Times, Stamped
<1>4. Carried'
  BY <1>1 DEF IInv, Carried, Follows
<1> QED BY <1>2, <1>3, <1>4 DEF IInv

\* The pass is over, killed or not: its copies are gone.
LEMMA ForgetInv ==
    ASSUME IInv, Forget, UNCHANGED <<records, events, tree, manifest, sound, missed>>,
           faults' \in 0..MaxFaults,
           states' = states \/ (pc # "idle" /\ states' = cands)
    PROVE  IInv'
<1>1. /\ pc' = "idle" /\ todo' = {} /\ entries' = NoEntries /\ cands' = NoStates
      /\ dirty' = FALSE /\ at' = 0
  BY DEF Forget
<1>2. TypeOK'
  <2>1. states' \in [Candidate -> State]
    BY DEF IInv, TypeOK
  <2>2. /\ entries' \in [Module -> Entry \cup {None}] /\ cands' \in [Candidate -> State]
    BY <1>1, EmptyMaps
  <2>4. at' \in 0..MaxEvents
    BY <1>1, Constants
  <2>5. dirty' \in BOOLEAN
    BY <1>1
  <2>3. /\ files' \subseteq Candidate /\ old' \subseteq files' /\ archived' \subseteq Candidate
        /\ events' \in 0..MaxEvents
        /\ tree' \in [Module -> Candidate \cup {None}]
        /\ manifest' \in [Module -> Entry \cup {None}]
        /\ sound' \in [Candidate -> 0..Soak] /\ missed' \subseteq Candidate
    BY DEF IInv, TypeOK, records
  <2> QED BY <1>1, <2>1, <2>2, <2>3, <2>4, <2>5 DEF TypeOK
<1>3. ASSUME NEW c \in Candidate
      PROVE  /\ states'[c].passes <= sound[c] /\ states'[c].mark <= events
             /\ states[c].status # "fresh" =>
                   states'[c].status # "fresh" /\ states'[c].mark = states[c].mark
  <2>1. CASE states' = states
    BY <2>1 DEF IInv, Counted, Times
  <2>2. CASE pc # "idle" /\ states' = cands
    <3>1. cands[c].passes <= sound[c] /\ cands[c].mark <= at /\ at <= events
      BY <2>2 DEF IInv, Counted, Times
    <3>2. cands[c].mark \in Nat /\ at \in Nat /\ events \in Nat
      BY StateAt, Constants DEF IInv, TypeOK
    <3>3. Follows(c)
      BY <2>2 DEF IInv, Carried
    <3> QED BY <2>2, <3>1, <3>2, <3>3 DEF Follows
  <2> QED BY <2>1, <2>2
<1>4. Counted'
  <2> SUFFICES ASSUME NEW c \in Candidate
               PROVE  /\ states'[c].passes <= sound'[c] /\ cands'[c].passes <= sound'[c]
                      /\ EntryOf(manifest', c) \/ EntryOf(entries', c) => sound'[c] = Soak
    BY DEF Counted
  <2>1. sound[c] \in 0..Soak
    BY DEF IInv, TypeOK
  <2>2. cands'[c].passes = 0
    BY <1>1, EmptyMaps
  <2>3. cands'[c].passes <= sound'[c]
    BY <2>1, <2>2, Constants
  <2>4. ~ EntryOf(entries', c)
    BY <1>1, NoEntry
  <2> QED BY <1>3, <2>3, <2>4 DEF IInv, Counted
<1>5. Times'
  BY <1>1, <1>3 DEF Times
<1>6. Stamped(manifest, missed)'
  BY <1>3 DEF IInv, Stamped
<1>7. Stamped(entries, missed)'
  BY <1>1, NoEntry DEF Stamped
<1>8. Carried'
  BY <1>1 DEF Carried
<1> QED BY <1>2, <1>4, <1>5, <1>6, <1>7, <1>8 DEF IInv

LEMMA EndInv ==
    ASSUME IInv, SaveStates \/ Killed
    PROVE  IInv'
<1>1. /\ Forget /\ UNCHANGED <<records, events, tree, manifest, sound, missed>>
      /\ states' = states \/ (pc # "idle" /\ states' = cands)
      /\ faults \in 0..MaxFaults /\ (Fault \/ UNCHANGED faults)
  BY DEF SaveStates, Killed, disk, IInv, TypeOK
<1>2. faults' \in 0..MaxFaults
  BY <1>1, FaultType
<1> QED BY <1>1, <1>2, ForgetInv

LEMMA StepInv == IInv /\ [Next]_vars => IInv'
<1> SUFFICES ASSUME IInv, [Next]_vars PROVE IInv'
  OBVIOUS
<1>1. CASE (\E c \in Candidate : Record(c)) \/ Midnight \/ Integrity
  BY <1>1, OutsideInv
<1>2. CASE \E m \in Module : Veto(m)
  BY <1>2, VetoInv
<1>3. CASE StartPass
  BY <1>3, StartPassInv
<1>4. CASE Candidates
  <2>1. PICK c \in Candidate : \/ LeftAlone(c) \/ FirstLook(c) \/ SoakFails(c)
                              \/ SoakGoesOn(c) \/ Promote(c) \/ PromoteFails(c)
    BY <1>4 DEF Candidates
  <2> QED BY <2>1, MovesOnInv, FirstLookInv, SoakFailsInv, SoakGoesOnInv, PromoteInv,
             PromoteFailsInv
<1>5. CASE StartWatch \/ EndWatch
  BY <1>5, MovesOnInv
<1>6. CASE Entries
  BY <1>6, MovesOnInv, RollbackInv DEF Entries
<1>7. CASE SaveManifest
  BY <1>7, SaveManifestInv
<1>8. CASE SaveStates \/ Killed
  BY <1>8, EndInv
<1>9. CASE UNCHANGED vars
  BY <1>9 DEF vars, records, disk, pass, IInv, TypeOK, Counted, Times, Stamped, Carried,
              Follows, EntryOf
<1> QED BY <1>1, <1>2, <1>3, <1>4, <1>5, <1>6, <1>7, <1>8, <1>9 DEF Next, Verifier
-----------------------------------------------------------------------------
THEOREM Invariance == Spec => []IInv
BY InitInv, StepInv, PTL DEF Spec

\* The files, the copies a pass works on and its counters are well formed.
THEOREM Typing == Spec => []TypeOK
<1>1. IInv => TypeOK
  BY DEF IInv
<1> QED BY <1>1, Invariance, PTL

\* Whatever the overlay loads has had all the clean checks of a soak.
THEOREM SoakedFirst == Spec => []OnlySoakedRuns
<1>1. IInv => OnlySoakedRuns
  BY DEF IInv, Counted, OnlySoakedRuns, Loaded
<1> QED BY <1>1, Invariance, PTL

\* No integrity row falls between measurement and promotion, if it was read.
THEOREM NoGap == Spec => []NoEventUnderSoak
<1>1. IInv => NoEventUnderSoak
  BY DEF IInv, Stamped, NoEventUnderSoak
<1> QED BY <1>1, Invariance, PTL

\* A verdict on file is final, and no decided candidate gets an entry again.
THEOREM VerdictsStand == Spec => DecidedStaysOut
<1> DEFINE Stands == \A c \in Candidate :
        states[c].status \in {"promoted", "rejected"} =>
           /\ states'[c] = states[c]
           /\ ~ EntryOf(manifest, c) => ~ EntryOf(manifest', c)
<1>1. IInv /\ [Next]_vars => Stands
  <2> SUFFICES ASSUME IInv, [Next]_vars, NEW c \in Candidate,
                      states[c].status \in {"promoted", "rejected"}
               PROVE  /\ states'[c] = states[c]
                      /\ ~ EntryOf(manifest, c) => ~ EntryOf(manifest', c)
    OBVIOUS
  <2>1. CASE manifest' = manifest /\ states' = states
    BY <2>1
  <2>2. CASE SaveStates
    <3>1. pc = "states" /\ states' = cands /\ manifest' = manifest
      BY <2>2 DEF SaveStates
    <3>2. Follows(c)
      BY <3>1 DEF IInv, Carried
    <3> QED BY <3>1, <3>2 DEF Follows
  <2>3. CASE SaveManifest
    <3>1. pc = "manifest" /\ states' = states /\ (manifest' = entries \/ manifest' = manifest)
      BY <2>3 DEF SaveManifest
    <3>2. Follows(c)
      BY <3>1 DEF IInv, Carried
    <3> QED BY <3>1, <3>2 DEF Follows
  <2>4. CASE \E m \in Module : Veto(m)
    <3>1. PICK m \in Module : Veto(m)
      BY <2>4
    <3>2. ModuleOf[c] \in Module /\ states' = states
      BY <3>1, Constants DEF Veto
    <3>3. CASE ModuleOf[c] = m
      BY <3>1, <3>2, <3>3 DEF Veto, EntryOf, IInv, TypeOK
    <3>4. CASE ModuleOf[c] # m
      BY <3>1, <3>2, <3>4 DEF Veto, EntryOf, IInv, TypeOK
    <3> QED BY <3>2, <3>3, <3>4
  <2>5. \/ manifest' = manifest /\ states' = states
        \/ SaveStates \/ SaveManifest \/ \E m \in Module : Veto(m)
    BY DEF Next, Verifier, Candidates, Entries, Record, Midnight, Integrity, StartPass,
           LeftAlone, FirstLook, SoakFails, SoakGoesOn, Promote, PromoteFails, StartWatch,
           Keep, Rollback, EndWatch, Killed, disk, vars
  <2> QED BY <2>1, <2>2, <2>3, <2>4, <2>5
<1>2. Stands => (\A c \in Candidate :
        states[c].status \in {"promoted", "rejected"} =>
           /\ states'[c] = states[c]
           /\ ~ EntryOf(manifest, c) => ~ EntryOf(manifest', c))
  OBVIOUS
<1> QED BY <1>1, Invariance, PTL DEF Spec, DecidedStaysOut
-----------------------------------------------------------------------------
(* The refinement of Trial                                                  *)

\* A promotion, on file or in memory, has counted all passes of the soak, and
\* one in memory is of a candidate that was on trial when the pass began.
Earned ==
    \A c \in Candidate :
        /\ states[c].status = "promoted" => states[c].passes = Soak
        /\ cands[c].status = "promoted" =>
              cands[c].passes = Soak /\ states[c].status # "fresh"

LEMMA NothingKnown ==
    ASSUME NEW c \in Candidate
    PROVE  NoStates[c].status = "fresh" /\ NoStates[c].mark = 0
BY DEF NoStates, Fresh

\* What a turn in the measurement may do to the state of its candidate.
LEMMA TurnVerdict ==
    ASSUME IInv, NEW c \in Candidate,
           \/ FirstLook(c) \/ SoakFails(c) \/ SoakGoesOn(c) \/ Promote(c)
    PROVE  /\ Measuring(c) /\ ~ Terminal(cands[c]) /\ states' = states
           /\ \A d \in Candidate \ {c} : cands'[d] = cands[d]
           /\ cands'[c].status = "promoted" =>
                 cands'[c].passes = Soak /\ cands[c].status = "soaking"
<1>1. Measuring(c) /\ ~ Terminal(cands[c]) /\ states' = states
  BY DEF FirstLook, SoakFails, SoakGoesOn, Promote, Clean, ToMeasure, Terminal, disk
<1>2. /\ cands \in [Candidate -> State]
      /\ cands[c].passes \in 0..Soak /\ cands[c].mark \in 0..MaxEvents
      /\ at \in 0..MaxEvents
  BY StateAt DEF IInv, TypeOK
<1>3. CASE FirstLook(c)
  <2>1. PICK s \in {"soaking", "rejected"}, k \in {0, at} : Becomes(c, s, 0, k)
    BY <1>3 DEF FirstLook
  <2>2. 0 \in 0..Soak /\ k \in 0..MaxEvents /\ s \in {"fresh", "soaking", "promoted", "rejected"}
    BY <1>2, Constants
  <2>3. cands'[c].status = s /\ \A d \in Candidate \ {c} : cands'[d] = cands[d]
    BY <1>2, <2>1, <2>2, BecomesType
  <2> QED BY <1>1, <2>3
<1>4. CASE SoakFails(c)
  <2>1. Becomes(c, "rejected", cands[c].passes, cands[c].mark)
    BY <1>4 DEF SoakFails
  <2>2. cands'[c].status = "rejected" /\ \A d \in Candidate \ {c} : cands'[d] = cands[d]
    BY <1>2, <2>1, BecomesType
  <2> QED BY <1>1, <2>2
<1>5. CASE SoakGoesOn(c)
  <2>1. /\ Becomes(c, "soaking", cands[c].passes + 1, cands[c].mark)
        /\ ~ (cands[c].passes + 1 >= Soak)
    BY <1>5 DEF SoakGoesOn, Soaked
  <2>2. cands[c].passes + 1 \in 0..Soak
    BY <1>2, <2>1, Constants
  <2>3. cands'[c].status = "soaking" /\ \A d \in Candidate \ {c} : cands'[d] = cands[d]
    BY <1>2, <2>1, <2>2, BecomesType
  <2> QED BY <1>1, <2>3
<1>6. CASE Promote(c)
  <2>1. Becomes(c, "promoted", Soak, cands[c].mark) /\ cands[c].status = "soaking"
    BY <1>6 DEF Promote, Clean
  <2>2. Soak \in 0..Soak
    BY Constants
  <2>3. cands'[c].passes = Soak /\ \A d \in Candidate \ {c} : cands'[d] = cands[d]
    BY <1>2, <2>1, <2>2, BecomesType
  <2> QED BY <1>1, <2>1, <2>3
<1> QED BY <1>3, <1>4, <1>5, <1>6

LEMMA EarnedInit == Init => Earned
BY NothingKnown DEF Init, Earned

LEMMA EarnedStep == IInv /\ Earned /\ [Next]_vars => Earned'
<1> SUFFICES ASSUME IInv, Earned, [Next]_vars PROVE Earned'
  OBVIOUS
<1>1. CASE states' = states /\ cands' = cands
  BY <1>1 DEF Earned
<1>2. CASE StartPass
  <2>1. states' = states /\ cands' = states
    BY <1>2 DEF StartPass, disk
  <2> QED BY <2>1 DEF Earned
<1>3. CASE \E c \in Candidate : \/ FirstLook(c) \/ SoakFails(c)
                                \/ SoakGoesOn(c) \/ Promote(c)
  <2>1. PICK c \in Candidate : \/ FirstLook(c) \/ SoakFails(c)
                               \/ SoakGoesOn(c) \/ Promote(c)
    BY <1>3
  <2>2. /\ states' = states
        /\ \A d \in Candidate \ {c} : cands'[d] = cands[d]
        /\ cands'[c].status = "promoted" =>
              cands'[c].passes = Soak /\ cands[c].status = "soaking"
        /\ cands[c] = states[c]
    BY <2>1, TurnVerdict, Turn
  <2> QED BY <2>2 DEF Earned
<1>4. CASE SaveStates
  <2>1. states' = cands /\ cands' = NoStates
    BY <1>4 DEF SaveStates, Forget
  <2> QED BY <2>1, NothingKnown DEF Earned
<1>5. CASE Killed
  <2>1. states' = states /\ cands' = NoStates
    BY <1>5 DEF Killed, Forget, disk
  <2> QED BY <2>1, NothingKnown DEF Earned
<1>6. \/ states' = states /\ cands' = cands
      \/ StartPass \/ SaveStates \/ Killed
      \/ \E c \in Candidate : \/ FirstLook(c) \/ SoakFails(c)
                              \/ SoakGoesOn(c) \/ Promote(c)
  BY DEF Next, Verifier, Candidates, Entries, Record, Midnight, Integrity, Veto,
         LeftAlone, PromoteFails, StartWatch, Keep, Rollback, EndWatch, SaveManifest,
         disk, pass, vars
<1> QED BY <1>1, <1>2, <1>3, <1>4, <1>5, <1>6

\* A veto changes the status of an entry, never whose it is.
LEMMA VetoKeepsEntries ==
    ASSUME IInv, NEW m \in Module, Veto(m), NEW c \in Candidate
    PROVE  EntryOf(manifest', c) <=> EntryOf(manifest, c)
<1>1. ModuleOf[c] \in Module /\ manifest \in [Module -> Entry \cup {None}]
  BY Constants DEF IInv, TypeOK
<1>2. CASE ModuleOf[c] = m
  <2>1. manifest'[m].cand = manifest[m].cand /\ manifest'[m] # None /\ manifest[m] # None
    BY <1>1 DEF Veto, None
  <2> QED BY <1>2, <2>1 DEF EntryOf
<1>3. CASE ModuleOf[c] # m
  <2>1. manifest'[ModuleOf[c]] = manifest[ModuleOf[c]]
    BY <1>1, <1>3 DEF Veto
  <2> QED BY <2>1 DEF EntryOf
<1> QED BY <1>2, <1>3

\* A clean check is a check of Trial; one beyond the length of the soak, after
\* a promotion that failed, is nothing new.
LEMMA CleanImplements ==
    ASSUME IInv, NEW c \in Candidate, Clean(c), UNCHANGED <<manifest, states>>
    PROVE  [Trials!Next]_(Trials!vars)
<1>1. states[c].status = "soaking" /\ sound[c] \in 0..Soak
  <2>1. Measuring(c) /\ cands[c].status = "soaking" /\ ~ Terminal(cands[c])
    BY DEF Clean, Terminal
  <2> QED BY <2>1, Turn
<1>2. /\ sound \in [Candidate -> 0..Soak]
      /\ sound' = [sound EXCEPT ![c] = IF @ < Soak THEN @ + 1 ELSE @]
  BY DEF Clean, IInv, TypeOK
<1>3. CASE sound[c] < Soak
  <2>1. sound' = [sound EXCEPT ![c] = @ + 1]
    BY <1>2, <1>3
  <2>2. Trials!Check(c)
    BY <1>1, <1>3, <2>1 DEF Trials!Check, EntryOf
  <2> QED BY <2>2 DEF Trials!Next
<1>4. CASE ~ (sound[c] < Soak)
  <2>1. sound' = sound
    BY <1>2, <1>4
  <2> QED BY <2>1 DEF Trials!vars, EntryOf
<1> QED BY <1>3, <1>4

\* The manifest is saved before the states: what is new in it is on trial on
\* file, and has passed.
LEMMA SaveManifestImplements ==
    ASSUME IInv, SaveManifest
    PROVE  [Trials!Next]_(Trials!vars)
<1> DEFINE listed == {c \in Candidate : EntryOf(manifest, c)}
<1>1. /\ pc = "manifest" /\ states' = states /\ sound' = sound
      /\ manifest' = entries \/ manifest' = manifest
  BY DEF SaveManifest
<1>2. ASSUME NEW c \in Candidate, EntryOf(manifest', c), ~ EntryOf(manifest, c)
      PROVE  states[c].status = "soaking" /\ sound[c] = Soak
  <2>1. EntryOf(entries, c)
    BY <1>1, <1>2
  <2>2. states[c].status # "fresh" /\ sound[c] = Soak
    BY <2>1 DEF IInv, Stamped, Counted
  <2>3. Follows(c)
    BY <1>1 DEF IInv, Carried
  <2>4. states[c].status \notin {"promoted", "rejected"}
    BY <1>2, <2>1, <2>3 DEF Follows
  <2>5. states[c].status \in {"fresh", "soaking", "promoted", "rejected"}
    BY StateAt DEF IInv, TypeOK
  <2> QED BY <2>2, <2>4, <2>5
<1>3. ASSUME NEW c \in Candidate, NEW d \in Candidate, EntryOf(manifest', c),
             EntryOf(manifest', d), ModuleOf[c] = ModuleOf[d]
      PROVE  c = d
  BY <1>3 DEF EntryOf
<1>4. /\ listed' \subseteq Candidate
      /\ \A c \in listed' \ listed : states[c].status = "soaking" /\ sound[c] = Soak
      /\ \A c, d \in listed' : ModuleOf[c] = ModuleOf[d] => c = d
  BY <1>2, <1>3
<1>5. Trials!List
  BY <1>1, <1>4 DEF Trials!List, Trials!Passed
<1> QED BY <1>5 DEF Trials!Next

\* The states are saved: each moves on as Trial allows.
LEMMA SaveStatesImplements ==
    ASSUME IInv, Earned, SaveStates
    PROVE  [Trials!Next]_(Trials!vars)
<1> DEFINE verdict == [c \in Candidate |-> states[c].status]
           begun == [c \in Candidate |-> states[c].mark]
<1>1. pc = "states" /\ states' = cands /\ manifest' = manifest /\ sound' = sound
  BY DEF SaveStates
<1>2. ASSUME NEW c \in Candidate
      PROVE  /\ cands[c].status \in Trials!Verdict /\ cands[c].mark \in Nat
             /\ Trials!MayBe(c, cands[c].status)
             /\ states[c].status # "fresh" => cands[c].mark = states[c].mark
  <2>1. /\ states[c].status \in {"fresh", "soaking", "promoted", "rejected"}
        /\ cands[c].status \in {"fresh", "soaking", "promoted", "rejected"}
        /\ cands[c].mark \in Nat /\ sound[c] \in 0..Soak
        /\ cands[c].passes <= sound[c]
    BY StateAt, Constants DEF IInv, TypeOK, Counted
  <2>2. Follows(c)
    BY <1>1 DEF IInv, Carried
  <2>3. cands[c].status = "promoted" => states[c].status # "fresh" /\ sound[c] = Soak
    <3>1. cands[c].status = "promoted" =>
             cands[c].passes = Soak /\ states[c].status # "fresh"
      BY DEF Earned
    <3> QED BY <2>1, <3>1, Constants
  <2>4. states[c].status \in {"promoted", "rejected"} => cands[c].status = states[c].status
    BY <2>2 DEF Follows
  <2>5. states[c].status = "soaking" => cands[c].status # "fresh"
    BY <2>2 DEF Follows
  <2>6. states[c].status # "fresh" => cands[c].mark = states[c].mark
    BY <2>2 DEF Follows
  <2>7. Trials!MayBe(c, cands[c].status)
    BY <2>1, <2>3, <2>4, <2>5 DEF Trials!MayBe, Trials!Passed
  <2> QED BY <2>1, <2>6, <2>7 DEF Trials!Verdict
<1>3. /\ verdict' \in [Candidate -> Trials!Verdict] /\ begun' \in [Candidate -> Nat]
      /\ \A c \in Candidate :
            /\ Trials!MayBe(c, verdict'[c])
            /\ verdict[c] # "fresh" => begun'[c] = begun[c]
  BY <1>1, <1>2
<1>4. Trials!Judge
  BY <1>1, <1>3 DEF Trials!Judge, EntryOf
<1> QED BY <1>4 DEF Trials!Next

\* Every other step leaves what Trial knows as it is.
LEMMA OthersImplement ==
    ASSUME states' = states, sound' = sound,
           \A c \in Candidate : EntryOf(manifest', c) <=> EntryOf(manifest, c)
    PROVE  [Trials!Next]_(Trials!vars)
<1>1. {c \in Candidate : EntryOf(manifest', c)} = {c \in Candidate : EntryOf(manifest, c)}
  OBVIOUS
<1> QED BY <1>1 DEF Trials!vars, EntryOf

LEMMA StepImplements == IInv /\ Earned /\ [Next]_vars => [Trials!Next]_(Trials!vars)
<1> SUFFICES ASSUME IInv, Earned, [Next]_vars PROVE [Trials!Next]_(Trials!vars)
  OBVIOUS
<1>1. CASE states' = states /\ sound' = sound /\ manifest' = manifest
  BY <1>1, OthersImplement
<1>2. CASE \E m \in Module : Veto(m)
  <2>1. PICK m \in Module : Veto(m)
    BY <1>2
  <2>2. states' = states /\ sound' = sound
    BY <2>1 DEF Veto
  <2>3. \A c \in Candidate : EntryOf(manifest', c) <=> EntryOf(manifest, c)
    BY <2>1, VetoKeepsEntries
  <2> QED BY <2>2, <2>3, OthersImplement
<1>3. CASE \E c \in Candidate : Clean(c) /\ UNCHANGED <<manifest, states>>
  BY <1>3, CleanImplements
<1>4. CASE SaveManifest
  BY <1>4, SaveManifestImplements
<1>5. CASE SaveStates
  BY <1>5, SaveStatesImplements
<1>6. \/ states' = states /\ sound' = sound /\ manifest' = manifest
      \/ \E m \in Module : Veto(m)
      \/ \E c \in Candidate : Clean(c) /\ UNCHANGED <<manifest, states>>
      \/ SaveManifest \/ SaveStates
  BY DEF Next, Verifier, Candidates, Entries, Record, Midnight, Integrity, StartPass,
         LeftAlone, FirstLook, SoakFails, SoakGoesOn, Promote, PromoteFails, StartWatch,
         Keep, Rollback, EndWatch, Killed, disk, vars
<1> QED BY <1>1, <1>2, <1>3, <1>4, <1>5, <1>6

LEMMA InitImplements == Init => Trials!Init
<1> SUFFICES ASSUME Init PROVE Trials!Init
  OBVIOUS
<1>1. \A c \in Candidate : /\ states[c].status = "fresh" /\ states[c].mark = 0
                           /\ ~ EntryOf(manifest, c)
  BY NothingKnown, NoEntry DEF Init
<1> QED BY <1>1 DEF Init, Trials!Init

\* The verifier implements Trial: wherever a pass is killed, whatever is vetoed
\* and whichever write fails, only candidates on trial that have passed all
\* their checks get an entry or are promoted, and no trial is begun anew.
THEOREM VerifierImplementsTrial == Spec => ImplementsTrial
<1>1. Spec => [](IInv /\ Earned)
  <2>1. Init => Earned
    BY EarnedInit
  <2>2. IInv /\ Earned /\ [Next]_vars => Earned'
    BY EarnedStep
  <2> QED BY <2>1, <2>2, Invariance, PTL DEF Spec
<1>2. IInv /\ Earned /\ [Next]_vars => [Trials!Next]_(Trials!vars)
  BY StepImplements
<1>3. Init => Trials!Init
  BY InitImplements
<1> QED BY <1>1, <1>2, <1>3, PTL DEF Spec, ImplementsTrial, Trials!Spec
=============================================================================
