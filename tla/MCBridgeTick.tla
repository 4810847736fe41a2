---------------------------- MODULE MCBridgeTick ----------------------------
(* Instances of BridgeTick for TLC. *)
EXTENDS BridgeTick, TLC

\* Cycle ids and plan texts are only compared.
Symmetric == Permutations(Cycle) \cup Permutations(Plan)
=============================================================================
