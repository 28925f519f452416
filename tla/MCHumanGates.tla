--------------------------- MODULE MCHumanGates ----------------------------
(* Small instances of HumanGates for TLC. *)
EXTENDS HumanGates

CONSTANTS k1, k2, t1, s1, b1, u1, u2, alice, bob

CallThreads == [k \in {k1, k2} |-> t1]
Identities == [c \in {s1, b1} |-> IF c = s1 THEN alice ELSE bob]
RunOwners == [k \in {k1, k2} |-> IF k = k1 THEN alice ELSE NoOne]
=============================================================================
