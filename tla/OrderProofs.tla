---------------------------- MODULE OrderProofs ----------------------------
(***************************************************************************)
(* What filtering a sequence and removing from it leave, for the proofs    *)
(* about the maps and lists of the program.                                *)
(***************************************************************************)
EXTENDS Orders, Integers, SequencesExt, FiniteSetTheorems, TLAPS

(* An ascending walk through positions visits each, once. *)
LEMMA AscendingVisits ==
  ASSUME NEW I, IsFiniteSet(I), I \subseteq Nat, NEW at \in Ascending(I)
  PROVE  /\ Cardinality(I) \in Nat
         /\ at \in [1..Cardinality(I) -> I]
         /\ \A h, k \in 1..Cardinality(I) : at[h] = at[k] => h = k
         /\ \A i \in I : \E k \in 1..Cardinality(I) : at[k] = i
<1>2. Cardinality(I) \in Nat
  BY FS_CardinalityType
<1> DEFINE c == Cardinality(I)
<1>3. at \in [1..c -> I] /\ \A h, k \in 1..c : h < k => at[h] < at[k]
  BY DEF Ascending
<1>4. \A h, k \in 1..c : at[h] = at[k] => h = k
  <2> SUFFICES ASSUME NEW h \in 1..c, NEW k \in 1..c, h # k
               PROVE  at[h] # at[k]
    OBVIOUS
  <2>1. at[h] \in Nat /\ at[k] \in Nat
    <3>1. at[h] \in I /\ at[k] \in I
      BY <1>3
    <3>2. \A i \in I : i \in Nat
      OBVIOUS
    <3> QED
      BY <3>1, <3>2
  <2>2. h < k \/ k < h
    BY <1>2
  <2> QED
    BY <1>3, <2>1, <2>2
<1>5. at \in Injection(1..c, I)
  BY <1>3, <1>4 DEF Injection, IsInjective
<1>6. Cardinality(1..c) = c
  BY <1>2, FS_Interval
<1>7. at \in Surjection(1..c, I)
  BY <1>2, <1>5, <1>6, FS_Injection
<1> QED
  BY <1>2, <1>3, <1>4, <1>7 DEF Surjection

(* A filter keeps the members it selects, and nothing twice. *)
LEMMA FilterKeeps ==
  ASSUME NEW T, NEW s \in Seq(T), NEW K, NEW t \in Filtered(s, K)
  PROVE  /\ t \in Seq(T)
         /\ \A k \in 1..Len(t) : t[k] \in K /\ \E i \in 1..Len(s) : t[k] = s[i]
         /\ \A i \in 1..Len(s) : s[i] \in K => \E k \in 1..Len(t) : t[k] = s[i]
         /\ (\A h, i \in 1..Len(s) : s[h] = s[i] => h = i) =>
              \A h, k \in 1..Len(t) : t[h] = t[k] => h = k
<1> DEFINE I == {i \in DOMAIN s : s[i] \in K}
           c == Cardinality(I)
<1>1. Len(s) \in Nat /\ DOMAIN s = 1..Len(s) /\ I \subseteq 1..Len(s)
  OBVIOUS
<1>2. PICK at \in Ascending(I) : t = [i \in DOMAIN at |-> s[at[i]]]
  BY DEF Filtered
<1>4. \A i \in I : i \in 1..Len(s) /\ s[i] \in K /\ s[i] \in T
  OBVIOUS
<1>5. \A i \in 1..Len(s) : s[i] \in K => i \in I
  OBVIOUS
<1> HIDE DEF I
<1>3. /\ c \in Nat /\ at \in [1..c -> I]
      /\ \A h, k \in 1..c : at[h] = at[k] => h = k
      /\ \A i \in I : \E k \in 1..c : at[k] = i
  <2>1. at \in Ascending(I)
    BY <1>2
  <2>2. I \subseteq Nat /\ IsFiniteSet(I)
    <3>1. IsFiniteSet(1..Len(s))
      BY <1>1, FS_Interval
    <3>2. I \in SUBSET (1..Len(s)) /\ I \subseteq Nat
      BY <1>1
    <3>3. IsFiniteSet(I)
      BY <3>1, <3>2, FS_Subset
    <3> QED
      BY <3>2, <3>3
  <2> QED
    BY <2>1, <2>2, AscendingVisits
<1> HIDE DEF c
<1>6. t \in [1..c -> T] /\ \A k \in 1..c : t[k] = s[at[k]]
  BY <1>2, <1>3, <1>4
<1>7. t \in Seq(T) /\ Len(t) = c
  BY <1>3, <1>6
<1>8. \A k \in 1..c : t[k] \in K /\ \E i \in 1..Len(s) : t[k] = s[i]
  BY <1>3, <1>4, <1>6
<1>9. \A i \in 1..Len(s) : s[i] \in K => \E k \in 1..c : t[k] = s[i]
  BY <1>3, <1>5, <1>6
<1>10. (\A h, i \in 1..Len(s) : s[h] = s[i] => h = i) =>
         \A h, k \in 1..c : t[h] = t[k] => h = k
  BY <1>3, <1>4, <1>6
<1> QED
  BY <1>7, <1>8, <1>9, <1>10

(* It keeps the first where it is, unless that is what it drops. *)
LEMMA FilterKeepsFirst ==
  ASSUME NEW T, NEW s \in Seq(T), s # << >>, NEW K, s[1] \in K, NEW t \in Filtered(s, K)
  PROVE  t # << >> /\ Head(t) = s[1]
<1> DEFINE I == {i \in DOMAIN s : s[i] \in K}
           c == Cardinality(I)
<1>1. Len(s) \in Nat /\ DOMAIN s = 1..Len(s) /\ 1 \in I /\ I \subseteq 1..Len(s)
  OBVIOUS
<1>2. PICK at \in Ascending(I) : t = [i \in DOMAIN at |-> s[at[i]]]
  BY DEF Filtered
<1>3. at \in [1..c -> I] /\ \A h, k \in 1..c : h < k => at[h] < at[k]
  BY <1>2 DEF Ascending
<1>4. \A i \in I : i \in Nat /\ i >= 1
  BY <1>1
<1> HIDE DEF I
<1>5. c \in Nat /\ \A i \in I : \E k \in 1..c : at[k] = i
  <2>1. IsFiniteSet(1..Len(s))
    BY <1>1, FS_Interval
  <2>2. I \in SUBSET (1..Len(s)) /\ I \subseteq Nat
    BY <1>1
  <2>3. IsFiniteSet(I)
    BY <2>1, <2>2, FS_Subset
  <2> QED
    BY <1>2, <2>2, <2>3, AscendingVisits
<1> HIDE DEF c
<1>6. PICK k \in 1..c : at[k] = 1
  BY <1>1, <1>5
<1>7. 1 \in 1..c
  BY <1>5, <1>6
<1>8. at[1] = 1
  BY <1>3, <1>4, <1>6, <1>7
<1>9. DOMAIN t = 1..c /\ t[1] = s[1] /\ t \in Seq(T)
  <2>1. t \in Seq(T)
    BY FilterKeeps
  <2> QED
    BY <1>2, <1>3, <1>7, <1>8, <2>1
<1>10. Len(t) = c
  BY <1>5, <1>9
<1> QED
  BY <1>7, <1>9, <1>10

(* Removing a position leaves the others, in their order. *)
LEMMA RemoveAtLeaves ==
  ASSUME NEW T, NEW s \in Seq(T), NEW i \in 1..Len(s)
  PROVE  /\ RemoveAt(s, i) \in Seq(T)
         /\ Len(RemoveAt(s, i)) = Len(s) - 1
         /\ \A k \in 1..(Len(s) - 1) : RemoveAt(s, i)[k] = IF k < i THEN s[k] ELSE s[k + 1]
<1> DEFINE a == SubSeq(s, 1, i - 1)
           b == SubSeq(s, i + 1, Len(s))
<1>1. a \in Seq(T) /\ Len(a) = i - 1 /\ \A k \in 1..(i - 1) : a[k] = s[k]
  OBVIOUS
<1>2. b \in Seq(T) /\ Len(b) = Len(s) - i /\ \A k \in 1..(Len(s) - i) : b[k] = s[i + k]
  OBVIOUS
<1> HIDE DEF a, b
<1>3. RemoveAt(s, i) = a \o b
  BY DEF RemoveAt, a, b
<1>4. Len(s) \in Nat
  OBVIOUS
<1>5. a \o b \in Seq(T) /\ Len(a \o b) = Len(s) - 1
  <2>1. Len(a) + Len(b) = Len(s) - 1
    BY <1>1, <1>2, <1>4
  <2>2. a \in Seq(T) /\ b \in Seq(T)
    BY <1>1, <1>2
  <2>3. a \o b \in Seq(T) /\ Len(a \o b) = Len(a) + Len(b)
    BY <2>2
  <2> QED
    BY <2>1, <2>3
<1>6. ASSUME NEW k \in 1..(Len(s) - 1)
      PROVE  (a \o b)[k] = IF k < i THEN s[k] ELSE s[k + 1]
  <2>1. CASE k < i
    BY <1>1, <1>2, <1>4, <2>1
  <2>2. CASE ~ k < i
    <3>1. k - (i - 1) \in 1..(Len(s) - i) /\ k > Len(a)
      BY <1>1, <1>4, <2>2
    <3>2. (a \o b)[k] = b[k - Len(a)]
      BY <1>1, <1>2, <1>4, <3>1
    <3> QED
      BY <1>1, <1>2, <2>2, <3>1, <3>2
  <2> QED
    BY <2>1, <2>2
<1> QED
  BY <1>3, <1>5, <1>6

(* From a sequence without duplicates it takes that member and no other. *)
LEMMA RemoveAtTakesOne ==
  ASSUME NEW T, NEW s \in Seq(T), NEW i \in 1..Len(s),
         \A h, k \in 1..Len(s) : s[h] = s[k] => h = k
  PROVE  /\ \A k \in 1..Len(RemoveAt(s, i)) :
              RemoveAt(s, i)[k] # s[i] /\ \E h \in 1..Len(s) : RemoveAt(s, i)[k] = s[h]
         /\ \A h \in 1..Len(s) : h # i => \E k \in 1..Len(RemoveAt(s, i)) : RemoveAt(s, i)[k] = s[h]
         /\ \A h, k \in 1..Len(RemoveAt(s, i)) : RemoveAt(s, i)[h] = RemoveAt(s, i)[k] => h = k
<1> DEFINE t == RemoveAt(s, i)
           n == Len(s)
<1>1. /\ Len(t) = n - 1 /\ n \in Nat /\ i \in 1..n
      /\ \A k \in 1..(n - 1) : t[k] = IF k < i THEN s[k] ELSE s[k + 1]
  BY RemoveAtLeaves
<1>2. \A h, k \in 1..n : s[h] = s[k] => h = k
  OBVIOUS
<1> HIDE DEF t, n
<1>3. ASSUME NEW k \in 1..(n - 1)
      PROVE  t[k] # s[i] /\ \E h \in 1..n : t[k] = s[h]
  BY <1>1, <1>2
<1>4. ASSUME NEW h \in 1..n, h # i
      PROVE  \E k \in 1..(n - 1) : t[k] = s[h]
  <2>1. CASE h < i
    BY <1>1, <2>1
  <2>2. CASE i < h
    <3>1. h - 1 \in 1..(n - 1) /\ ~ (h - 1 < i) /\ (h - 1) + 1 = h
      BY <1>1, <2>2
    <3>2. t[h - 1] = s[h]
      BY <1>1, <3>1
    <3> QED
      BY <3>1, <3>2
  <2> QED
    BY <1>1, <1>4, <2>1, <2>2
<1>5. ASSUME NEW h \in 1..(n - 1), NEW k \in 1..(n - 1), t[h] = t[k]
      PROVE  h = k
  BY <1>1, <1>2, <1>5
<1> QED
  BY <1>1, <1>3, <1>4, <1>5 DEF t, n

-----------------------------------------------------------------------------
(* s lists the members of S, each once. *)
Lists(s, S) ==
  /\ s \in Seq(S)
  /\ \A h, i \in 1..Len(s) : s[h] = s[i] => h = i
  /\ \A x \in S : \E i \in 1..Len(s) : s[i] = x

LEMMA FilterLists ==
  ASSUME NEW S, NEW s, Lists(s, S), NEW K, NEW t \in Filtered(s, K)
  PROVE  Lists(t, S \cap K)
<1>1. /\ s \in Seq(S) /\ \A h, i \in 1..Len(s) : s[h] = s[i] => h = i
      /\ \A x \in S : \E i \in 1..Len(s) : s[i] = x
  BY DEF Lists
<1>2. /\ t \in Seq(S)
      /\ \A k \in 1..Len(t) : t[k] \in K
      /\ \A i \in 1..Len(s) : s[i] \in K => \E k \in 1..Len(t) : t[k] = s[i]
      /\ \A h, k \in 1..Len(t) : t[h] = t[k] => h = k
  <2>0. s \in Seq(S) /\ t \in Filtered(s, K)
    BY <1>1
  <2>1. /\ t \in Seq(S)
        /\ \A k \in 1..Len(t) : t[k] \in K /\ \E i \in 1..Len(s) : t[k] = s[i]
        /\ \A i \in 1..Len(s) : s[i] \in K => \E k \in 1..Len(t) : t[k] = s[i]
        /\ (\A h, i \in 1..Len(s) : s[h] = s[i] => h = i) =>
             \A h, k \in 1..Len(t) : t[h] = t[k] => h = k
    BY <2>0, FilterKeeps
  <2> QED
    BY <1>1, <2>1, Zenon
<1>3. t \in Seq(S \cap K)
  <2>1. \A k \in 1..Len(t) : t[k] \in S \cap K
    BY <1>2
  <2> QED
    BY <1>2, <2>1
<1>4. \A x \in S \cap K : \E k \in 1..Len(t) : t[k] = x
  BY <1>1, <1>2
<1> QED
  BY <1>2, <1>3, <1>4 DEF Lists

LEMMA AppendLists ==
  ASSUME NEW S, NEW s, Lists(s, S), NEW x, x \notin S
  PROVE  Lists(Append(s, x), S \cup {x})
<1> DEFINE t == Append(s, x)
           n == Len(s)
<1>1. /\ s \in Seq(S) /\ n \in Nat
      /\ \A h, i \in 1..n : s[h] = s[i] => h = i
      /\ \A y \in S : \E i \in 1..n : s[i] = y
      /\ \A i \in 1..n : s[i] \in S
  BY DEF Lists
<1>2. s \in Seq(S \cup {x})
  BY <1>1
<1>3. /\ t \in Seq(S \cup {x}) /\ Len(t) = n + 1
      /\ \A i \in 1..n : t[i] = s[i]
      /\ t[n + 1] = x
  BY <1>1, <1>2
<1> HIDE DEF t, n
<1>4. \A h, i \in 1..(n + 1) : t[h] = t[i] => h = i
  BY <1>1, <1>3
<1>5. \A y \in S \cup {x} : \E i \in 1..(n + 1) : t[i] = y
  <2>1. n + 1 \in 1..(n + 1) /\ \A i \in 1..n : i \in 1..(n + 1)
    BY <1>1
  <2> QED
    BY <1>1, <1>3, <2>1
<1> QED
  BY <1>3, <1>4, <1>5 DEF Lists, t

LEMMA ListsCount ==
  ASSUME NEW S, NEW s, Lists(s, S)
  PROVE  IsFiniteSet(S) /\ Cardinality(S) = Len(s)
<1>1. /\ s \in [1..Len(s) -> S] /\ Len(s) \in Nat
      /\ \A h, i \in 1..Len(s) : s[h] = s[i] => h = i
      /\ \A x \in S : \E i \in 1..Len(s) : s[i] = x
  BY DEF Lists
<1>2. s \in Bijection(1..Len(s), S)
  BY <1>1 DEF Bijection, Injection, Surjection, IsInjective
<1>3. ExistsBijection(1..Len(s), S)
  BY <1>2 DEF ExistsBijection
<1> QED
  BY <1>1, <1>3, FS_CountingElements, FS_NatBijection

=============================================================================
