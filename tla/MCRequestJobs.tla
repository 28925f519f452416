--------------------------- MODULE MCRequestJobs ---------------------------
(* Small instances of RequestJobs for TLC. *)
EXTENDS RequestJobs

CONSTANTS j1, j2, j3, w1, r1

OneKey     == [j \in Jobs |-> "k"]
AllRun     == [w \in Workers |-> Jobs]
OneAttempt == [j \in Jobs |-> 1]
TwoPushes  == [r \in Requests |-> <<j1, j3>>]
=============================================================================
