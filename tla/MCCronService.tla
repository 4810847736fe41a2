--------------------------- MODULE MCCronService ---------------------------
(* CronService for TLC: jobs are interchangeable.                          *)
EXTENDS CronService, TLC

JobSymmetry == Permutations(Job)
=============================================================================
