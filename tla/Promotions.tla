----------------------------- MODULE Promotions -----------------------------
(***************************************************************************)
(* From a candidate record to code that runs: the bridge records runtime   *)
(* candidates and rotates old records away (bridge.py,                     *)
(* promotions_rotation.py), the root-run verifier measures, soaks,         *)
(* promotes and rolls back (eeepc_promotion_verifier.py), and the overlay  *)
(* loader runs what the manifest and the tree agree on                     *)
(* (promoted_overlay.py).                                                  *)
(*                                                                         *)
(* A candidate stands for the bytes of one module at its head_sha.  What a *)
(* child process finds (eligible, faster, held-out pack clean) is a        *)
(* choice.  Times are counts of integrity rows: a row is later than a      *)
(* stamp iff more rows have been written by then.                          *)
(***************************************************************************)
EXTENDS Integers, FiniteSets

CONSTANTS
    Candidate,   \* ids of candidate records
    Module,      \* modules of the runtime slice
    ModuleOf,    \* the module a candidate changes
    Soak,        \* _SOAK_PASSES (3)
    MaxEvents,   \* bounds: integrity rows,
    MaxFaults    \*   kills, failing writes, children and ledger reads

ASSUME PromotionAssumption ==
    /\ ModuleOf \in [Candidate -> Module]
    /\ Soak \in Nat \ {0}
    /\ {MaxEvents, MaxFaults} \subseteq Nat

VARIABLES
    files,       \* candidate records in promotions/
    old,         \* those of them that are of an earlier day
    archived,    \* records in promotions/archive/
    events,      \* how many integrity rows the cycle ledger has
    tree,        \* the file of each module in the promoted tree
    manifest,    \* manifest.json: the entry of each module
    states,      \* verifier_state.json: what is known of each candidate
    \* one pass of the verifier
    pc,          \* "idle", "measure", "watch", "manifest" or "states"
    todo,        \* candidates and then modules it has still to look at
    entries,     \* the manifest in memory
    cands,       \* the states in memory
    dirty,       \* the manifest is to be written
    at,          \* when the pass began
    \* auxiliary
    sound,       \* clean soak checks a candidate has really had, up to Soak
    missed,      \* candidates a scan passed that could not read an event
    faults

disk == <<tree, manifest, states>>
records == <<files, old, archived>>
pass == <<pc, todo, entries, cands, dirty, at>>
vars == <<records, events, disk, pass, sound, missed, faults>>

None == <<>>
Entry == [cand : Candidate, since : 0..MaxEvents, status : {"active", "vetoed"}]
State == [status : {"fresh", "soaking", "promoted", "rejected"},
          passes : 0..Soak, mark : 0..MaxEvents]
Fresh == [status |-> "fresh", passes |-> 0, mark |-> 0]

NoEntries == [m \in Module |-> None]
NoStates == [c \in Candidate |-> Fresh]

Init ==
    /\ files = {} /\ old = {} /\ archived = {} /\ events = 0
    /\ tree = NoEntries /\ manifest = NoEntries /\ states = NoStates
    /\ pc = "idle" /\ todo = {}
    /\ entries = NoEntries /\ cands = NoStates /\ dirty = FALSE /\ at = 0
    /\ sound = [c \in Candidate |-> 0] /\ missed = {} /\ faults = 0

Fault == faults < MaxFaults /\ faults' = faults + 1

\* Mutant of Terminal: a rejected candidate is measured again.
TerminalIfPromoted(state) == state.status = "promoted"

\* _TERMINAL_STATUSES; "rolled_back" is among them but is never written.
Terminal(state) == state.status \in {"promoted", "rejected"}

\* An entry of the manifest is for candidate c.
EntryOf(map, c) == map[ModuleOf[c]] # None /\ map[ModuleOf[c]].cand = c

\* _load_one_module: an active entry whose sha is that of the tree's file.
Loaded(c) ==
    /\ EntryOf(manifest, c)
    /\ manifest[ModuleOf[c]].status = "active"
    /\ tree[ModuleOf[c]] = c
-----------------------------------------------------------------------------
(* The bridge, the calendar, the ledger and the operator                    *)

\* _record_runtime_slice_candidate: the record, then rotate_promotions, which
\* archives every record of an earlier day and is skipped when it fails.
Record(c) ==
    /\ c \notin files \cup archived
    /\ \/ /\ files' = (files \ old) \cup {c}
          /\ archived' = archived \cup old /\ old' = {} /\ UNCHANGED faults
       \/ files' = files \cup {c} /\ UNCHANGED <<old, archived>> /\ Fault
    /\ UNCHANGED <<events, disk, pass, sound, missed>>

Midnight ==
    /\ old' = files
    /\ UNCHANGED <<files, archived, events, disk, pass, sound, missed, faults>>

Integrity ==
    /\ events < MaxEvents /\ events' = events + 1
    /\ UNCHANGED <<records, disk, pass, sound, missed, faults>>

\* The operator edits manifest.json, whatever the verifier is doing.
Veto(m) ==
    /\ manifest[m] # None
    /\ manifest' = [manifest EXCEPT ![m] = [cand |-> manifest[m].cand,
                        since |-> manifest[m].since, status |-> "vetoed"]]
    /\ UNCHANGED <<records, events, tree, states, pass, sound, missed, faults>>
-----------------------------------------------------------------------------
(* A pass over the candidate records                                        *)

StartPass ==
    /\ pc = "idle" /\ pc' = "measure"
    /\ todo' = files
    /\ entries' = manifest /\ cands' = states /\ dirty' = FALSE /\ at' = events
    /\ UNCHANGED <<records, events, disk, sound, missed, faults>>

Measuring(c) == pc = "measure" /\ c \in todo /\ todo' = todo \ {c} /\ pc' = pc

Becomes(c, status, passes, mark) ==
    cands' = [cands EXCEPT ![c] = [status |-> status, passes |-> passes,
                                   mark |-> mark]]

\* Nothing is known that would end in a verdict: the record of a decided
\* candidate, one rotated away meanwhile, one that cannot be read, or (for a
\* soaking one) a child that fails.
LeftAlone(c) ==
    /\ Measuring(c)
    /\ \/ (Terminal(cands[c]) \/ c \notin files) /\ UNCHANGED faults
       \/ Fault
    /\ UNCHANGED <<records, events, disk, entries, cands, dirty, at, sound, missed>>

\* Mutant of ToMeasure: a soaking candidate is measured again.
ToMeasureAgain(state) == ~ Terminal(state)

\* A candidate nothing is known of yet.
ToMeasure(state) == ~ Terminal(state) /\ state.status # "soaking"

\* _classify_candidate and _measure_candidate of a fresh candidate: any
\* reason not to be satisfied is final, a child that crashed included.
FirstLook(c) ==
    /\ Measuring(c) /\ c \in files /\ ToMeasure(cands[c])
    /\ \/ Becomes(c, "rejected", 0, 0)
       \/ Becomes(c, "soaking", 0, at)
    /\ UNCHANGED <<records, events, disk, entries, dirty, at, sound, missed, faults>>

\* The held-out pack is not clean, or there are integrity rows: never again.
SoakFails(c) ==
    /\ Measuring(c) /\ c \in files /\ cands[c].status = "soaking"
    /\ Becomes(c, "rejected", cands[c].passes, cands[c].mark)
    /\ UNCHANGED <<records, events, disk, entries, dirty, at, sound, missed, faults>>

\* Mutant of Quiet: the soak looks at the held-out pack alone.
QuietIfClean(c) == UNCHANGED <<missed, faults>>

\* _integrity_events_since says no: there is no row, or none can be read.  The
\* ledger's archives it does not go back to are taken to have no such row.
Quiet(c) ==
    \/ events <= cands[c].mark /\ UNCHANGED <<missed, faults>>
    \/ Fault /\ missed' = missed \cup {c}

\* A clean check of a soaking candidate.
Clean(c) ==
    /\ Measuring(c) /\ c \in files /\ cands[c].status = "soaking"
    /\ sound' = [sound EXCEPT ![c] = IF @ < Soak THEN @ + 1 ELSE @]

\* Mutant of Soaked: the first measurement counts as a pass of the soak.
SoakedWithFirst(passes) == passes + 2 >= Soak

\* Mutant of Soaked: the soak never comes to its end in time.
SoakedLate(passes) == passes > Soak

\* This clean pass is the last one the soak needs.
Soaked(passes) == passes + 1 >= Soak

SoakGoesOn(c) ==
    /\ Clean(c) /\ Quiet(c) /\ ~ Soaked(cands[c].passes)
    /\ Becomes(c, "soaking", cands[c].passes + 1, cands[c].mark)
    /\ UNCHANGED <<records, events, disk, entries, dirty, at>>

\* _promote: the tree's file is written at once, the entry in memory only.
Promote(c) ==
    /\ Clean(c) /\ Quiet(c) /\ Soaked(cands[c].passes)
    /\ Becomes(c, "promoted", Soak, cands[c].mark)
    /\ tree' = [tree EXCEPT ![ModuleOf[c]] = c]
    /\ entries' = [entries EXCEPT ![ModuleOf[c]] =
                     [cand |-> c, since |-> at, status |-> "active"]]
    /\ dirty' = TRUE
    /\ UNCHANGED <<records, events, manifest, states, at>>

\* The bytes cannot be fetched or written: soaking still, tried again.
PromoteFails(c) ==
    /\ Clean(c) /\ events <= cands[c].mark /\ Soaked(cands[c].passes)
    /\ Fault
    /\ UNCHANGED <<records, events, disk, entries, cands, dirty, at, missed>>
-----------------------------------------------------------------------------
(* The watch over the manifest's entries, and the end of the pass           *)

StartWatch ==
    /\ pc = "measure" /\ todo = {} /\ pc' = "watch"
    /\ todo' = {m \in Module : entries[m] # None}
    /\ UNCHANGED <<records, events, disk, entries, cands, dirty, at, sound, missed, faults>>

Watching(m) == pc = "watch" /\ m \in todo /\ todo' = todo \ {m} /\ pc' = pc

\* Mutant of Kept: an entry is watched for rows of this pass only.
KeptIfQuietNow(entry) == entry.status = "active" /\ events <= at

\* No reason to roll the entry back.
Kept(entry) == entry.status = "active" /\ events <= entry.since

\* A fault is a child that fails or a ledger that cannot be read.
Keep(m) ==
    /\ Watching(m) /\ entries[m].status = "active"
    /\ \/ Kept(entries[m]) /\ UNCHANGED faults
       \/ Fault
    /\ UNCHANGED <<records, events, disk, entries, cands, dirty, at, sound, missed>>

\* A veto, a row since the promotion, or the held-out pack not clean.
\* _rollback takes the entry out even if the file cannot be removed.
Rollback(m) ==
    /\ Watching(m)
    /\ \/ tree' = [tree EXCEPT ![m] = None] /\ UNCHANGED faults
       \/ UNCHANGED tree /\ Fault
    /\ entries' = [entries EXCEPT ![m] = None] /\ dirty' = TRUE
    /\ UNCHANGED <<records, events, manifest, states, cands, at, sound, missed>>

EndWatch ==
    /\ pc = "watch" /\ todo = {} /\ pc' = "manifest"
    /\ UNCHANGED <<records, events, disk, todo, entries, cands, dirty, at, sound, missed, faults>>

\* Written only if something was promoted or rolled back.
SaveManifest ==
    /\ pc = "manifest" /\ pc' = "states"
    /\ manifest' = IF dirty THEN entries ELSE manifest
    /\ UNCHANGED <<records, events, tree, states, todo, entries, cands, dirty, at,
                   sound, missed, faults>>

Forget ==
    /\ pc' = "idle" /\ todo' = {} /\ entries' = NoEntries /\ cands' = NoStates
    /\ dirty' = FALSE /\ at' = 0

\* state_dirty is left out: an untouched copy is what the file holds.
SaveStates ==
    /\ pc = "states" /\ states' = cands /\ Forget
    /\ UNCHANGED <<records, events, tree, manifest, sound, missed, faults>>

\* A kill, or a manifest or state file that cannot be written: the exception
\* ends the pass.
Killed ==
    /\ pc # "idle" /\ Forget /\ Fault
    /\ UNCHANGED <<records, events, disk, sound, missed>>
-----------------------------------------------------------------------------
Candidates ==
    \E c \in Candidate :
        \/ LeftAlone(c) \/ FirstLook(c) \/ SoakFails(c)
        \/ SoakGoesOn(c) \/ Promote(c) \/ PromoteFails(c)

Entries == \E m \in Module : Keep(m) \/ Rollback(m)

Verifier ==
    \/ StartPass \/ Candidates \/ StartWatch \/ Entries \/ EndWatch
    \/ SaveManifest \/ SaveStates

Next ==
    \/ \E c \in Candidate : Record(c)
    \/ Midnight \/ Integrity
    \/ \E m \in Module : Veto(m)
    \/ Verifier \/ Killed

Spec == Init /\ [][Next]_vars

\* The timer starts a pass every 15 minutes, and a pass runs on to its end.
FairSpec == Spec /\ WF_vars(Verifier)
-----------------------------------------------------------------------------
(* Properties                                                               *)

TypeOK ==
    /\ files \subseteq Candidate /\ old \subseteq files /\ archived \subseteq Candidate
    /\ events \in 0..MaxEvents
    /\ tree \in [Module -> Candidate \cup {None}]
    /\ manifest \in [Module -> Entry \cup {None}]
    /\ states \in [Candidate -> State]
    /\ pc \in {"idle", "measure", "watch", "manifest", "states"}
    /\ pc = "measure" => todo \subseteq Candidate
    /\ pc = "watch" => todo \subseteq Module
    /\ entries \in [Module -> Entry \cup {None}]
    /\ cands \in [Candidate -> State]
    /\ dirty \in BOOLEAN /\ at \in 0..MaxEvents
    /\ sound \in [Candidate -> 0..Soak] /\ missed \subseteq Candidate
    /\ faults \in 0..MaxFaults

\* What the overlay loads has been found clean in as many soak checks as are
\* asked for: neither kills between the saves, nor a promotion that failed
\* and was repeated, nor a file left behind by a rollback shortens a soak.
OnlySoakedRuns == \A c \in Candidate : Loaded(c) => sound[c] = Soak

\* The watch of an entry begins where the soak's began: no integrity row
\* falls between the measurement of a candidate and its promotion, unless a
\* scan could not read the ledger.
NoEventUnderSoak ==
    \A c \in Candidate \ missed :
        EntryOf(manifest, c) => manifest[ModuleOf[c]].since = states[c].mark

\* A verdict on file is final, and a candidate that is on file as decided and
\* has no entry never gets one: what was rejected or rolled back stays out,
\* whatever is killed when.  The manifest is therefore saved before the states.
DecidedStaysOut ==
    [][\A c \in Candidate :
          states[c].status \in {"promoted", "rejected"} =>
             /\ states'[c] = states[c]
             /\ ~ EntryOf(manifest, c) => ~ EntryOf(manifest', c)]_vars

Trials == INSTANCE Trial
             WITH verdict <- [c \in Candidate |-> states[c].status],
                  begun <- [c \in Candidate |-> states[c].mark],
                  clean <- sound,
                  listed <- {c \in Candidate : EntryOf(manifest, c)}

\* The files keep the promise of Trial through kills between the two saves,
\* vetoes and writes that fail: a trial is not begun anew, a candidate gets an
\* entry only while it is on trial and after all its checks, and is promoted
\* only after them.
ImplementsTrial == Trials!Spec

\* An entry that has seen an integrity row, or was vetoed between two passes;
\* the veto of a candidate that a kill has left soaking can be promoted over.
Flagged(c) ==
    /\ EntryOf(manifest, c)
    /\ LET entry == manifest[ModuleOf[c]] IN
         \/ entry.status = "active" /\ events > entry.since
         \/ entry.status = "vetoed" /\ pc = "idle" /\ Terminal(states[c])

\* Such an entry is taken out of the manifest, through kills, children that
\* fail and ledgers that cannot be read (in the watch; a soak that misses a
\* row for good is in missed).
FlaggedGoesOut ==
    \A c \in Candidate : Flagged(c) ~> (~ EntryOf(manifest, c) \/ c \in missed)

\* A soak ends, with a promotion or a rejection, if its record stays.
SoakEndsIfKept ==
    \A c \in Candidate :
        states[c].status = "soaking" ~> (Terminal(states[c]) \/ c \in archived)

\* A soak ends with a promotion or a rejection (the documented life of a
\* candidate).  The rotation takes records of candidates that are soaking.
SoakEnds ==
    \A c \in Candidate : states[c].status = "soaking" ~> Terminal(states[c])
=============================================================================
