---------------------------- MODULE MCPromotions ----------------------------
(* Both candidates change the same module.                                  *)
EXTENDS Promotions, TLC

CONSTANTS c1, c2, mA

OneModule == (c1 :> mA) @@ (c2 :> mA)
=============================================================================
