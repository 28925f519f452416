------------------------------- MODULE Orders -------------------------------
(***************************************************************************)
(* Going through positions in order, as a for-of over a Map or a filter of *)
(* an array does.                                                          *)
(***************************************************************************)
EXTENDS Naturals, Sequences, FiniteSets

(* The set I of positions in ascending order: there is one such sequence. *)
Ascending(I) ==
  {at \in [1..Cardinality(I) -> I] : \A h, i \in DOMAIN at : h < i => at[h] < at[i]}

(* What a filter of s keeps, in its order: again a set of one. *)
Filtered(s, S) ==
  {[i \in DOMAIN at |-> s[at[i]]] : at \in Ascending({i \in DOMAIN s : s[i] \in S})}

=============================================================================
