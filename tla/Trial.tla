------------------------------- MODULE Trial -------------------------------
(***************************************************************************)
(* What the promotion verifier promises, without saying how: a candidate   *)
(* is on trial from its measurement to its verdict, the trial is never     *)
(* begun anew, and the list of what runs instead of the release takes in   *)
(* only candidates on trial that have passed every check of it, at most    *)
(* one of a module.  From the list a candidate may fall at any time.       *)
(*                                                                         *)
(* The promise of the docstring of eeepc_promotion_verifier.py; Promotions *)
(* implements it with two files that are saved one after the other and a   *)
(* pass that is killed.                                                    *)
(***************************************************************************)
EXTENDS Naturals

CONSTANTS Candidate, Module, ModuleOf, Soak

VARIABLES
    verdict,   \* what is known of each candidate for good
    begun,     \* when its trial began
    clean,     \* how many checks it has passed, up to Soak
    listed     \* the candidates that have an entry

vars == <<verdict, begun, clean, listed>>

Verdict == {"fresh", "soaking", "promoted", "rejected"}

Init ==
    /\ verdict = [c \in Candidate |-> "fresh"] /\ begun = [c \in Candidate |-> 0]
    /\ clean = [c \in Candidate |-> 0] /\ listed = {}

Passed(c) == verdict[c] = "soaking" /\ clean[c] = Soak

\* A check of a candidate on trial is clean.
Check(c) ==
    /\ verdict[c] = "soaking" /\ clean[c] < Soak
    /\ clean' = [clean EXCEPT ![c] = @ + 1]
    /\ UNCHANGED <<verdict, begun, listed>>

\* What the verdict on a candidate may be next: one not measured yet is not promoted.
MayBe(c, v) ==
    \/ v = verdict[c]
    \/ verdict[c] = "fresh" /\ v \in {"soaking", "rejected"}
    \/ verdict[c] = "soaking" /\ v = "rejected"
    \/ Passed(c) /\ v = "promoted"

\* Verdicts on any number of candidates.
Judge ==
    /\ verdict' \in [Candidate -> Verdict] /\ begun' \in [Candidate -> Nat]
    /\ \A c \in Candidate :
          /\ MayBe(c, verdict'[c])
          /\ verdict[c] # "fresh" => begun'[c] = begun[c]
    /\ UNCHANGED <<clean, listed>>

\* Some entries are taken out, some are put in.
List ==
    /\ listed' \subseteq Candidate
    /\ \A c \in listed' \ listed : Passed(c)
    /\ \A c, d \in listed' : ModuleOf[c] = ModuleOf[d] => c = d
    /\ UNCHANGED <<verdict, begun, clean>>

Next == Judge \/ List \/ \E c \in Candidate : Check(c)

Spec == Init /\ [][Next]_vars
=============================================================================
