--------------------------- MODULE MCCacheEngine ---------------------------
(* Small instances of CacheEngine for TLC. *)
EXTENDS CacheEngine

CONSTANTS c1, c2, c3, k1, k2, t1, t2

(* c3 asks for another key, whose entry shares a tag with that of c1. *)
TwoKeys == [c \in Calls |-> IF c = c3 THEN k2 ELSE k1]
SomeTags ==
  [c \in Calls |-> IF c = c1 THEN {t1, t2} ELSE {t1}]
=============================================================================
