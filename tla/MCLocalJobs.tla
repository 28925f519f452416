---------------------------- MODULE MCLocalJobs ----------------------------
(* Small instances of LocalJobs for TLC: Loops is 1..MaxLoops. *)
EXTENDS LocalJobs

CONSTANTS s1, j1, j2, k1

SharedKey == [j \in Jobs |-> k1]
TwoOnce == (j1 :> 2) @@ (j2 :> 1)
LoopsAndOthers == Loops \cup Others
=============================================================================
