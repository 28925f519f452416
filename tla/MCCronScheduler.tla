-------------------------- MODULE MCCronScheduler --------------------------
(* Small instances of CronScheduler for TLC. *)
EXTENDS CronScheduler, TLC

CONSTANTS r1, r2

Symmetric == Permutations(Replicas)
=============================================================================
