----------------------------- MODULE Increment -----------------------------
(***************************************************************************)
(* What the open-increment record promises, without saying how: at any     *)
(* time at most one increment is held, and it is let go of only when the   *)
(* planner decides so, when its cycle is delivered, or together with an    *)
(* outcome of its cycle.  Another cycle is never put in its place, and its *)
(* plan is changed by an edit only, which counts a version.                *)
(*                                                                         *)
(* The promise of docs/adr/ADR-035 and of nanobot/runtime/open_increment   *)
(* .py's module docstring; BridgeTick implements it with a file, saves     *)
(* that fail and processes that are killed.                                *)
(***************************************************************************)
EXTENDS Naturals

CONSTANTS Cycle, NoCycle, Plan, NoPlan

VARIABLES
    held,       \* the cycle of the held increment
    plan,       \* its plan text
    version,    \* its plan's version
    deciding,   \* the planner's answer is being acted on
    concluded,  \* cycles that have an outcome
    delivered   \* cycles whose work is on main

vars == <<held, plan, version, deciding, concluded, delivered>>

Nothing == held = NoCycle /\ plan = NoPlan /\ version = 0

Init == Nothing /\ deciding = FALSE /\ concluded = {} /\ delivered = {}

SameIncrement == UNCHANGED <<held, plan, version>>

LetGo == held' = NoCycle /\ plan' = NoPlan /\ version' = 0

\* A new attempt takes the place, which is free.
Take(c, p) ==
    /\ held = NoCycle /\ ~deciding
    /\ held' = c /\ plan' = p /\ version' = 1
    /\ UNCHANGED <<deciding, concluded, delivered>>

Edit(p) ==
    /\ held # NoCycle /\ deciding
    /\ plan' = p /\ version' = version + 1
    /\ deciding' = FALSE
    /\ UNCHANGED <<held, concluded, delivered>>

\* The planner edits the increment away or deletes it, or it has nothing to
\* decide about.
Decide ==
    /\ deciding /\ deciding' = FALSE
    /\ SameIncrement \/ LetGo
    /\ UNCHANGED <<concluded, delivered>>

Ask ==
    /\ ~deciding /\ deciding' = TRUE
    /\ UNCHANGED <<held, plan, version, concluded, delivered>>

\* An outcome of c, the held increment's or an earlier attempt's.
Conclude(c) ==
    /\ ~deciding
    /\ concluded' = concluded \cup {c}
    /\ SameIncrement \/ (held = c /\ LetGo)
    /\ UNCHANGED <<deciding, delivered>>

Deliver(c) ==
    /\ ~deciding
    /\ delivered' = delivered \cup {c}
    /\ UNCHANGED <<held, plan, version, deciding, concluded>>

\* Of a delivered increment the pending part goes first, its registration with
\* the outcome: a kill in between leaves it held with a version of its own.
Forget ==
    /\ ~deciding /\ held \in delivered
    /\ LetGo \/ (version' = 1 /\ UNCHANGED <<held, plan>>)
    /\ UNCHANGED <<deciding, concluded, delivered>>

Next ==
    \/ \E c \in Cycle, p \in Plan : Take(c, p)
    \/ \E p \in Plan : Edit(p)
    \/ Decide \/ Ask \/ Forget
    \/ \E c \in Cycle : Conclude(c) \/ Deliver(c)

Spec == Init /\ [][Next]_vars
=============================================================================
