----------------------------- MODULE MCThreads -----------------------------
(* Small instances of Threads for TLC. *)
EXTENDS Threads

CONSTANTS a, b

(* Only the first run of the thread, and the plain POST, get to a frame. *)
FewFrames == [r \in Runs |-> IF r = 1 THEN 2 ELSE IF r \in Pulled THEN 1 ELSE 0]
=============================================================================
