----------------------------- MODULE MCJobQueue -----------------------------
(* Small instances of JobQueue for TLC. *)
EXTENDS JobQueue

CONSTANTS j1, j3, w1, w2

NoKeys      == [j \in Jobs |-> NoKey]
TwoAttempts == [j \in Jobs |-> IF j = j1 THEN 2 ELSE 1]
(* w2 runs a deploy that no longer has j3's definition. *)
RollingDeploy == [w \in Workers |-> IF w = w2 THEN Jobs \ {j3} ELSE Jobs]
=============================================================================
