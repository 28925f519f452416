---------------------------- MODULE LimitsProofs ----------------------------
(***************************************************************************)
(* Proofs about RateLimits, for any number of callers, logins and entries, *)
(* any lengths of windows and any clock.                                   *)
(***************************************************************************)
EXTENDS RateLimits, OrderProofs

Windows == [count : Nat, resetAt : Nat, previous : Nat]
Events  == Int \X Int

(* The most wrong passwords one lockout window can count. *)
Most == MaxAttempts - 1 + Cardinality(Attempts)
Trying(id) == {a \in Attempts : attempt[a] = id}

AtMost(S, n) == IsFiniteSet(S) /\ Cardinality(S) <= n

(* The events of E that the window w counts, and those before it. *)
Newer(E, w, length) == {e \in E : e[1] >= w.resetAt - length}
Older(E, w, length) == {e \in E : e[1] < w.resetAt - length}

(* E happened within a window's length before t, and before w ends. *)
Timely(E, w, t, length) ==
  /\ w.resetAt - length <= t
  /\ \A e \in E : e[1] \in Int /\ t - length < e[1] /\ e[1] <= t /\ e[1] < w.resetAt

(* What a sliding limiter let through: no more than it counts, and one less when
   there was a window before.                                              *)
SliderOK(E, w, t) ==
  /\ Timely(E, w, t, WindowMs)
  /\ AtMost(Newer(E, w, WindowMs), w.count)
  /\ AtMost(Newer(E, w, WindowMs), Budget)
  /\ AtMost(Older(E, w, WindowMs), Budget)
  /\ Older(E, w, WindowMs) # {} => w.previous >= 1
  /\ w.previous >= 1 => AtMost(Newer(E, w, WindowMs), Budget - 1)

LoginOK(E, w, t) ==
  /\ Timely(E, w, t, LockoutMs)
  /\ AtMost(Newer(E, w, LockoutMs), w.count)
  /\ AtMost(Older(E, w, LockoutMs), Most)
  /\ w.count <= Most

StoreOK ==
  /\ now \in Nat
  /\ order \in Seq(StoreKeys)
  /\ window \in [StoreKeys -> Windows]
  /\ \A k \in StoreKeys : Stored(k) => window[k].count >= 1

LimitsOK ==
  /\ StoreOK
  /\ answer \in [Callers -> [at : Int, refused : BOOLEAN]]
  /\ attempt \in [Attempts -> Logins \cup {"idle"}]
  /\ served \in [Callers -> SUBSET Events]
  /\ wrong \in [Logins -> SUBSET Events]

SlidersInv ==
  \A k \in Sliders : IF Stored(k) THEN SliderOK(served[k], window[k], now) ELSE served[k] = {}

LoginsInv ==
  \A id \in Logins : IF Stored(id) THEN LoginOK(wrong[id], window[id], now) ELSE wrong[id] = {}

(* The wrong passwords of a window that runs, and those that may yet join them. *)
TryingInv == \A id \in Logins : CountOf(id) + Cardinality(Trying(id)) <= Most

(* A window began no later than its caller last asked, or is long over. *)
AnswersInv ==
  \A k \in Callers :
    /\ answer[k].at <= now
    /\ Stored(k) => \/ window[k].resetAt - WindowMs <= answer[k].at
                    \/ window[k].resetAt - WindowMs <= now - 2 * WindowMs

LimitsInv == LimitsOK /\ SlidersInv /\ LoginsInv /\ TryingInv /\ AnswersInv

-----------------------------------------------------------------------------
(* Counting *)

LEMMA Constants ==
  /\ WindowMs \in Nat \ {0} /\ Budget \in Nat \ {0}
  /\ MaxAttempts \in Nat \ {0} /\ LockoutMs \in Nat \ {0}
  /\ Cardinality(Attempts) \in Nat /\ IsFiniteSet(Attempts)
  /\ Most \in Nat /\ Most >= Cardinality(Attempts)
<1>1. WindowMs \in Nat \ {0} /\ Budget \in Nat \ {0} /\ MaxAttempts \in Nat \ {0} /\ LockoutMs \in Nat \ {0}
  BY LimitsAssumption
<1>2. IsFiniteSet(Attempts) /\ Cardinality(Attempts) \in Nat
  BY LimitsAssumption, FS_CardinalityType
<1> QED
  BY <1>1, <1>2 DEF Most

LEMMA AtMostNone ==
  ASSUME NEW n \in Nat
  PROVE  AtMost({}, n)
BY FS_EmptySet DEF AtMost

LEMMA AtMostSome ==
  ASSUME NEW S, NEW n \in Nat, AtMost(S, n), NEW T \in SUBSET S
  PROVE  AtMost(T, n)
<1>1. IsFiniteSet(S) /\ Cardinality(S) <= n
  BY DEF AtMost
<1>2. IsFiniteSet(T) /\ Cardinality(T) <= Cardinality(S)
  BY <1>1, FS_Subset
<1>3. Cardinality(T) \in Nat /\ Cardinality(S) \in Nat
  BY <1>1, <1>2, FS_CardinalityType
<1>4. Cardinality(T) <= n
  BY <1>1, <1>2, <1>3
<1> QED
  BY <1>2, <1>4 DEF AtMost

LEMMA AtMostMore ==
  ASSUME NEW S, NEW n \in Nat, AtMost(S, n), NEW x
  PROVE  AtMost(S \cup {x}, n + 1)
<1>1. IsFiniteSet(S) /\ Cardinality(S) <= n
  BY DEF AtMost
<1>2. Cardinality(S) \in Nat
  BY <1>1, FS_CardinalityType
<1>3. /\ IsFiniteSet(S \cup {x})
      /\ Cardinality(S \cup {x}) = IF x \in S THEN Cardinality(S) ELSE Cardinality(S) + 1
  BY <1>1, FS_AddElement
<1> DEFINE a == Cardinality(S)
           b == Cardinality(S \cup {x})
<1>4. b <= n + 1
  <2>1. a \in Nat /\ a <= n /\ (b = a \/ b = a + 1)
    BY <1>1, <1>2, <1>3
  <2> HIDE DEF a, b
  <2> QED
    BY <2>1
<1> QED
  BY <1>3, <1>4 DEF AtMost

LEMMA AtMostUp ==
  ASSUME NEW S, NEW m \in Nat, NEW n \in Nat, AtMost(S, m), m <= n
  PROVE  AtMost(S, n)
<1>1. IsFiniteSet(S) /\ Cardinality(S) <= m /\ Cardinality(S) \in Nat
  BY FS_CardinalityType DEF AtMost
<1> QED
  BY <1>1 DEF AtMost

LEMMA AtMostBoth ==
  ASSUME NEW S, NEW T, NEW m \in Nat, NEW n \in Nat, AtMost(S, m), AtMost(T, n)
  PROVE  AtMost(S \cup T, m + n)
<1>1. IsFiniteSet(S) /\ Cardinality(S) <= m /\ IsFiniteSet(T) /\ Cardinality(T) <= n
  BY DEF AtMost
<1>2. Cardinality(S) \in Nat /\ Cardinality(T) \in Nat
  BY <1>1, FS_CardinalityType
<1>3. IsFiniteSet(S \cap T) /\ IsFiniteSet(S \cup T)
  <2>1. (S \cap T) \in SUBSET S
    OBVIOUS
  <2> QED
    BY <1>1, <2>1, FS_Subset, FS_Union
<1>4. Cardinality(S \cap T) \in Nat /\ Cardinality(S \cup T) \in Nat
  BY <1>3, FS_CardinalityType
<1>5. Cardinality(S \cup T) = Cardinality(S) + Cardinality(T) - Cardinality(S \cap T)
  BY <1>1, FS_Union
<1> DEFINE a == Cardinality(S)
           b == Cardinality(T)
           c == Cardinality(S \cap T)
           d == Cardinality(S \cup T)
<1>6. d <= m + n
  <2>1. a \in Nat /\ b \in Nat /\ c \in Nat /\ d = a + b - c /\ a <= m /\ b <= n
    BY <1>1, <1>2, <1>4, <1>5
  <2> HIDE DEF a, b, c, d
  <2> QED
    BY <2>1
<1> QED
  BY <1>3, <1>6 DEF AtMost

-----------------------------------------------------------------------------
(* What a sliding limiter admits leaves room for what went before. *)
LEMMA AdmittedFits ==
  ASSUME now \in Nat, NEW w \in Windows, w.resetAt - WindowMs <= now, now < w.resetAt,
         ~ Sliding(w, WindowMs) > Budget * WindowMs
  PROVE  w.count <= Budget /\ (w.previous >= 1 => w.count <= Budget - 1)
<1>0. WindowMs \in Nat \ {0} /\ Budget \in Nat \ {0}
  BY Constants
<1> DEFINE inView == w.resetAt - now
           c == w.count
           p == w.previous
<1>1. c \in Nat /\ p \in Nat /\ inView \in Nat /\ inView >= 1
  BY DEF Windows
<1>2. Sliding(w, WindowMs) = c * WindowMs + p * inView
  <2>1. now - (w.resetAt - WindowMs) >= 0 /\ now - (w.resetAt - WindowMs) <= WindowMs
    BY <1>0 DEF Windows
  <2>2. WindowMs - (now - (w.resetAt - WindowMs)) = inView
    BY <1>0 DEF Windows
  <2> QED
    BY <1>0, <1>1, <2>1, <2>2 DEF Sliding, Windows
<1> HIDE DEF c, p, inView
<1>3. c * WindowMs + p * inView <= Budget * WindowMs
  <2>1. c * WindowMs + p * inView \in Nat /\ Budget * WindowMs \in Nat
    BY <1>0, <1>1
  <2> QED
    BY <1>2, <2>1
<1>4. c <= Budget
  <2>1. SUFFICES ASSUME c >= Budget + 1 PROVE FALSE
    BY <1>0, <1>1
  <2>2. c * WindowMs >= (Budget + 1) * WindowMs
    BY <1>0, <1>1, <2>1
  <2>3. (Budget + 1) * WindowMs = Budget * WindowMs + WindowMs
    BY <1>0
  <2>4. p * inView >= 0
    BY <1>1
  <2> QED
    BY <1>0, <1>1, <1>3, <2>2, <2>3, <2>4
<1>5. ASSUME p >= 1 PROVE c <= Budget - 1
  <2>1. SUFFICES ASSUME c >= Budget PROVE FALSE
    BY <1>0, <1>1
  <2>2. c * WindowMs >= Budget * WindowMs
    BY <1>0, <1>1, <2>1
  <2>3. p * inView >= 1
    BY <1>1, <1>5
  <2> QED
    BY <1>0, <1>1, <1>3, <2>2, <2>3
<1> QED
  BY <1>4, <1>5 DEF c, p

-----------------------------------------------------------------------------
(* What becomes of the events of a window *)

LEMMA TimelyAges ==
  ASSUME NEW E \in SUBSET Events, NEW w \in Windows, NEW t \in Nat, NEW length \in Nat \ {0},
         Timely(E, w, t, length)
  PROVE  LET F == Recent(E, length, t + 1)
         IN  /\ F \in SUBSET E
             /\ Timely(F, w, t + 1, length)
             /\ Newer(F, w, length) \in SUBSET Newer(E, w, length)
             /\ Older(F, w, length) \in SUBSET Older(E, w, length)
BY DEF Timely, Recent, Newer, Older, Windows, Events

LEMMA SliderAges ==
  ASSUME NEW E \in SUBSET Events, NEW w \in Windows, NEW t \in Nat, SliderOK(E, w, t)
  PROVE  SliderOK(Recent(E, WindowMs, t + 1), w, t + 1)
<1> DEFINE F == Recent(E, WindowMs, t + 1)
<1>1. /\ Timely(F, w, t + 1, WindowMs)
      /\ Newer(F, w, WindowMs) \in SUBSET Newer(E, w, WindowMs)
      /\ Older(F, w, WindowMs) \in SUBSET Older(E, w, WindowMs)
  BY Constants, TimelyAges DEF SliderOK
<1>2. w.count \in Nat /\ Budget \in Nat /\ Budget - 1 \in Nat
  BY Constants DEF Windows
<1> HIDE DEF F
<1>3. /\ AtMost(Newer(F, w, WindowMs), w.count)
      /\ AtMost(Newer(F, w, WindowMs), Budget)
      /\ AtMost(Older(F, w, WindowMs), Budget)
      /\ w.previous >= 1 => AtMost(Newer(F, w, WindowMs), Budget - 1)
  BY <1>1, <1>2, AtMostSome DEF SliderOK
<1>4. Older(F, w, WindowMs) # {} => w.previous >= 1
  BY <1>1 DEF SliderOK
<1> QED
  BY <1>1, <1>3, <1>4 DEF SliderOK, F

LEMMA LoginAges ==
  ASSUME NEW E \in SUBSET Events, NEW w \in Windows, NEW t \in Nat, LoginOK(E, w, t)
  PROVE  LoginOK(Recent(E, LockoutMs, t + 1), w, t + 1)
<1> DEFINE F == Recent(E, LockoutMs, t + 1)
<1>1. /\ Timely(F, w, t + 1, LockoutMs)
      /\ Newer(F, w, LockoutMs) \in SUBSET Newer(E, w, LockoutMs)
      /\ Older(F, w, LockoutMs) \in SUBSET Older(E, w, LockoutMs)
  BY Constants, TimelyAges DEF LoginOK
<1>2. w.count \in Nat /\ Most \in Nat
  BY Constants DEF Windows
<1> HIDE DEF F
<1>3. AtMost(Newer(F, w, LockoutMs), w.count) /\ AtMost(Older(F, w, LockoutMs), Most)
  BY <1>1, <1>2, AtMostSome DEF LoginOK
<1> QED
  BY <1>1, <1>3 DEF LoginOK, F

(* A fresh window: nothing went before. *)
LEMMA FreshWindow ==
  ASSUME NEW t \in Nat, NEW length \in Nat \ {0}, NEW E \in SUBSET {<<t, 1>>}
  PROVE  LET w == [count |-> 1, resetAt |-> t + length, previous |-> 0]
         IN  /\ w \in Windows
             /\ Timely(E, w, t, length)
             /\ Older(E, w, length) = {}
             /\ \A n \in Nat \ {0} : AtMost(Newer(E, w, length), n)
<1> DEFINE w == [count |-> 1, resetAt |-> t + length, previous |-> 0]
<1>1. w \in Windows /\ w.resetAt = t + length
  BY DEF Windows
<1>2. \A e \in E : e[1] = t
  OBVIOUS
<1> HIDE DEF w
<1>3. Timely(E, w, t, length) /\ Older(E, w, length) = {}
  BY <1>1, <1>2 DEF Timely, Older
<1>4. ASSUME NEW n \in Nat \ {0} PROVE AtMost(Newer(E, w, length), n)
  <2>1. AtMost({} \cup {<<t, 1>>}, 0 + 1)
    BY AtMostNone, AtMostMore
  <2>2. AtMost({<<t, 1>>}, 1)
    <3>1. {} \cup {<<t, 1>>} = {<<t, 1>>} /\ 0 + 1 = 1
      OBVIOUS
    <3> QED
      BY <2>1, <3>1
  <2>3. AtMost({<<t, 1>>}, n)
    BY <2>2, AtMostUp
  <2>4. Newer(E, w, length) \in SUBSET {<<t, 1>>}
    BY DEF Newer
  <2> QED
    BY <2>3, <2>4, AtMostSome
<1> QED
  BY <1>1, <1>3, <1>4 DEF w

(* A request of time t leaves F of E, and v of the window w. *)
Answered(E, w, t, length, x, F, v) ==
  /\ E \in SUBSET Events /\ w \in Windows /\ t \in Nat /\ length \in Nat \ {0}
  /\ Timely(E, w, t, length)
  /\ x[1] = t /\ F \in SUBSET (E \cup {x}) /\ v \in Windows

(* A window behind another, which it overlaps in time: what that one counted has
   become older, and what was older is out of sight.                       *)
LEMMA SlidWindow ==
  ASSUME NEW E, NEW w, NEW t, NEW length, NEW x, NEW F, NEW v,
         Answered(E, w, t, length, x, F, v),
         w.resetAt <= t, t - w.resetAt < length, v.resetAt = w.resetAt + length
  PROVE  /\ Timely(F, v, t, length)
         /\ Older(F, v, length) \in SUBSET Newer(E, w, length)
         /\ Newer(F, v, length) \in SUBSET (F \cap {x})
<1>0. /\ Timely(E, w, t, length) /\ w \in Windows /\ v \in Windows
      /\ t \in Nat /\ length \in Nat \ {0} /\ x[1] = t
  BY DEF Answered
<1>1. \A e \in F : e \in E \/ e = x
  BY DEF Answered
<1>2. \A e \in E : e[1] \in Int /\ t - length < e[1] /\ e[1] <= t /\ e[1] < w.resetAt
  BY <1>0 DEF Timely
<1>3. w.resetAt \in Nat /\ v.resetAt - length = w.resetAt
  BY <1>0 DEF Windows
<1>4. Timely(F, v, t, length)
  <2>1. v.resetAt - length <= t
    BY <1>0, <1>3
  <2>2. ASSUME NEW e \in F
        PROVE  e[1] \in Int /\ t - length < e[1] /\ e[1] <= t /\ e[1] < v.resetAt
    <3>1. CASE e \in E
      BY <1>0, <1>2, <1>3, <3>1
    <3>2. CASE e = x
      BY <1>0, <1>3, <3>2
    <3> QED
      BY <1>0, <1>1, <3>1, <3>2
  <2> QED
    BY <1>0, <2>1, <2>2 DEF Timely
<1>5. ASSUME NEW e \in F, e[1] < v.resetAt - length
      PROVE  e \in Newer(E, w, length)
  <2>1. e # x
    BY <1>0, <1>3, <1>5
  <2>2. e \in E /\ e[1] >= w.resetAt - length
    BY <1>0, <1>1, <1>2, <1>3, <2>1
  <2> QED
    BY <2>2 DEF Newer
<1>6. ASSUME NEW e \in F, e[1] >= v.resetAt - length
      PROVE  e = x
  BY <1>0, <1>1, <1>2, <1>3, <1>6
<1> QED
  BY <1>4, <1>5, <1>6 DEF Older, Newer

(* A window that goes on. *)
LEMMA SameWindow ==
  ASSUME NEW E, NEW w, NEW t, NEW length, NEW x, NEW F, NEW v,
         Answered(E, w, t, length, x, F, v),
         t < w.resetAt, v.resetAt = w.resetAt
  PROVE  /\ Timely(F, v, t, length)
         /\ Older(F, v, length) \in SUBSET Older(E, w, length)
         /\ Newer(F, v, length) \in SUBSET (Newer(E, w, length) \cup {x})
         /\ F \in SUBSET E => Newer(F, v, length) \in SUBSET Newer(E, w, length)
<1>0. /\ Timely(E, w, t, length) /\ w \in Windows /\ v \in Windows
      /\ t \in Nat /\ length \in Nat \ {0} /\ x[1] = t
  BY DEF Answered
<1>1. \A e \in F : e \in E \/ e = x
  BY DEF Answered
<1>2. \A e \in E : e[1] \in Int /\ t - length < e[1] /\ e[1] <= t /\ e[1] < w.resetAt
  BY <1>0 DEF Timely
<1>3. w.resetAt \in Nat /\ w.resetAt - length <= t /\ v.resetAt = w.resetAt
  BY <1>0 DEF Windows, Timely
<1>4. ASSUME NEW e \in F
      PROVE  e[1] \in Int /\ t - length < e[1] /\ e[1] <= t /\ e[1] < v.resetAt
  <2>1. CASE e \in E
    BY <1>0, <1>2, <1>3, <2>1
  <2>2. CASE e = x
    BY <1>0, <1>3, <2>2
  <2> QED
    BY <1>0, <1>1, <2>1, <2>2
<1>5. Timely(F, v, t, length)
  BY <1>3, <1>4 DEF Timely
<1>6. ASSUME NEW e \in F, e[1] < v.resetAt - length
      PROVE  e \in E /\ e[1] < w.resetAt - length
  BY <1>0, <1>1, <1>3, <1>6
<1> QED
  BY <1>0, <1>1, <1>3, <1>5, <1>6 DEF Older, Newer

-----------------------------------------------------------------------------
(* The store *)

LEMMA RoomKeeps ==
  ASSUME StoreOK
  PROVE  /\ Room \in Seq(StoreKeys)
         /\ Evicted = ToSet(order) \ ToSet(Room) /\ Evicted \subseteq StoreKeys
         /\ \A k \in StoreKeys : Contains(Room, k) <=> Stored(k) /\ k \notin Evicted
<1>1. order \in Seq(StoreKeys) /\ MaxEntries \in Nat \ {0}
  BY StoreAssumption DEF StoreOK
<1>2. Room \in Seq(StoreKeys)
  <2>1. CASE Len(order) >= MaxEntries
    <3>1. order # <<>>
      BY <1>1, <2>1
    <3> QED
      BY <1>1, <2>1, <3>1 DEF Room
  <2>2. CASE ~ Len(order) >= MaxEntries
    BY <1>1, <2>2 DEF Room
  <2> QED
    BY <2>1, <2>2
<1>3. ToSet(order) = {order[i] : i \in 1..Len(order)} /\ ToSet(Room) = {Room[i] : i \in 1..Len(Room)}
  BY <1>1, <1>2 DEF ToSet
<1>4. \A k \in StoreKeys : Contains(Room, k) => Stored(k)
  <2>1. \A i \in 1..Len(Room) : \E h \in 1..Len(order) : Room[i] = order[h]
    <3>1. CASE Len(order) >= MaxEntries
      <4>1. Room = Tail(order) /\ order # <<>>
        BY <1>1, <3>1 DEF Room
      <4>2. Len(Room) = Len(order) - 1 /\ \A i \in 1..Len(Room) : Room[i] = order[i + 1]
        BY <1>1, <4>1
      <4> QED
        BY <1>1, <4>2
    <3>2. CASE ~ Len(order) >= MaxEntries
      BY <1>1, <3>2 DEF Room
    <3> QED
      BY <3>1, <3>2
  <2> QED
    BY <2>1 DEF Stored, Contains
<1>5. \A k : k \in ToSet(Room) <=> Contains(Room, k)
  BY <1>3 DEF Contains
<1>6. \A k : k \in ToSet(order) <=> Stored(k)
  BY <1>3 DEF Stored, Contains
<1>7. ToSet(order) \subseteq StoreKeys
  BY <1>1, <1>3
<1> QED
  BY <1>2, <1>4, <1>5, <1>6, <1>7 DEF Evicted

(* What incrSync leaves under a key: a window that begins now, one that begins
   where the last one ended, or the same with one more.                    *)
Begun(v, length) == v = [count |-> 1, resetAt |-> now + length, previous |-> 0]

Kept(k) == Stored(k) /\ k \notin Evicted

LEMMA IncrementedCases ==
  ASSUME StoreOK, NEW k \in StoreKeys, NEW length \in Nat \ {0}
  PROVE  LET w == window[k]
             v == Incremented(k, length)
         IN  \/ ~ Kept(k) /\ Begun(v, length)
             \/ Kept(k) /\ w.resetAt <= now /\ now - w.resetAt >= length /\ Begun(v, length)
             \/ Kept(k) /\ w.resetAt <= now /\ now - w.resetAt < length
                /\ v = [count |-> 1, resetAt |-> w.resetAt + length, previous |-> w.count]
             \/ Kept(k) /\ now < w.resetAt /\ v = [w EXCEPT !.count = @ + 1]
<1>1. now \in Nat /\ window[k].resetAt \in Nat
  BY DEF StoreOK, Windows
<1>2. Contains(Room, k) <=> Kept(k)
  BY RoomKeeps DEF Kept
<1>3. CASE ~ Kept(k)
  BY <1>2, <1>3 DEF Incremented, Begun
<1>4. CASE Kept(k) /\ now >= window[k].resetAt
  <2>1. Incremented(k, length) = Reopened(window[k], length)
    BY <1>2, <1>4 DEF Incremented
  <2> QED
    BY <1>1, <1>4, <2>1 DEF Reopened, Begun
<1>5. CASE Kept(k) /\ now < window[k].resetAt
  <2>1. Incremented(k, length) = [window[k] EXCEPT !.count = @ + 1]
    BY <1>1, <1>2, <1>5 DEF Incremented
  <2> QED
    BY <1>5, <2>1
<1> QED
  BY <1>1, <1>3, <1>4, <1>5

LEMMA IncrementedIs ==
  ASSUME StoreOK, NEW k \in StoreKeys, NEW length \in Nat \ {0}
  PROVE  Incremented(k, length) \in Windows /\ Incremented(k, length).count >= 1
<1>1. now \in Nat /\ window[k] \in Windows
  BY DEF StoreOK
<1>2. now + length \in Nat
  BY <1>1
<1>3. window[k].resetAt + length \in Nat /\ window[k].count + 1 \in Nat /\ window[k].count + 1 >= 1
  BY <1>1 DEF Windows
<1> QED
  BY <1>1, <1>2, <1>3, IncrementedCases DEF Begun, Windows

LEMMA IncrKeeps ==
  ASSUME StoreOK, NEW k \in StoreKeys, NEW length \in Nat \ {0}, Incr(k, length), now' = now
  PROVE  /\ StoreOK'
         /\ Stored(k)' /\ window'[k] = Incremented(k, length)
         /\ \A i \in StoreKeys : i # k =>
              (Stored(i)' <=> Kept(i)) /\ (Kept(i) => window'[i] = window[i])
<1>1. Room \in Seq(StoreKeys) /\ \A i \in StoreKeys : Contains(Room, i) <=> Kept(i)
  BY RoomKeeps DEF Kept
<1>2. /\ order' = IF Contains(Room, k) THEN Room ELSE Append(Room, k)
      /\ window' = [i \in StoreKeys |-> IF i = k THEN Incremented(k, length)
                                        ELSE IF i \in Evicted THEN NoWindow ELSE window[i]]
  BY DEF Incr
<1>3. order' \in Seq(StoreKeys)
  BY <1>1, <1>2
<1>4. \A i \in StoreKeys : Stored(i)' <=> i = k \/ Contains(Room, i)
  <2>1. CASE Contains(Room, k)
    BY <1>2, <2>1 DEF Stored
  <2>2. CASE ~ Contains(Room, k)
    <3>1. /\ Len(order') = Len(Room) + 1 /\ order'[Len(Room) + 1] = k /\ Len(Room) \in Nat
          /\ \A i \in 1..Len(Room) : order'[i] = Room[i]
      BY <1>1, <1>2, <2>2
    <3> QED
      BY <3>1 DEF Stored, Contains
  <2> QED
    BY <2>1, <2>2
<1>5. Incremented(k, length) \in Windows /\ Incremented(k, length).count >= 1
  BY IncrementedIs
<1>6. NoWindow \in Windows
  BY DEF NoWindow, Windows
<1>7. window' \in [StoreKeys -> Windows] /\ window'[k] = Incremented(k, length)
  BY <1>2, <1>5, <1>6 DEF StoreOK
<1>8. \A i \in StoreKeys : i # k /\ Kept(i) => window'[i] = window[i]
  BY <1>2 DEF Kept
<1>9. \A i \in StoreKeys : Stored(i)' => window'[i].count >= 1
  BY <1>1, <1>4, <1>5, <1>7, <1>8 DEF StoreOK, Kept
<1>10. StoreOK'
  BY <1>3, <1>7, <1>9 DEF StoreOK
<1> QED
  BY <1>1, <1>4, <1>7, <1>8, <1>10

(* Keys that are filtered out of the map, and their windows. *)
LEMMA DropKeeps ==
  ASSUME StoreOK, now' = now, NEW gone \in SUBSET StoreKeys,
         order' \in Filtered(order, StoreKeys \ gone),
         window' = [i \in StoreKeys |-> IF i \in gone THEN NoWindow ELSE window[i]]
  PROVE  /\ StoreOK'
         /\ \A i \in StoreKeys :
              (Stored(i)' <=> Stored(i) /\ i \notin gone) /\ (Stored(i)' => window'[i] = window[i])
<1>1. order \in Seq(StoreKeys) /\ order' \in Filtered(order, StoreKeys \ gone)
  BY DEF StoreOK
<1>2. /\ order' \in Seq(StoreKeys)
      /\ \A k \in 1..Len(order') :
           order'[k] \in StoreKeys \ gone /\ \E i \in 1..Len(order) : order'[k] = order[i]
      /\ \A i \in 1..Len(order) :
           order[i] \in StoreKeys \ gone => \E k \in 1..Len(order') : order'[k] = order[i]
  BY <1>1, FilterKeeps
<1>3. \A i \in StoreKeys : Stored(i)' <=> Stored(i) /\ i \notin gone
  BY <1>2 DEF Stored, Contains
<1>4. NoWindow \in Windows
  BY DEF NoWindow, Windows
<1>5. window' \in [StoreKeys -> Windows] /\ \A i \in StoreKeys : i \notin gone => window'[i] = window[i]
  BY <1>4 DEF StoreOK
<1>6. StoreOK'
  BY <1>2, <1>3, <1>5 DEF StoreOK
<1> QED
  BY <1>3, <1>5, <1>6

-----------------------------------------------------------------------------
(* What a request leaves of its caller's window *)

(* Nothing that happened in a window is in view when the next begins late. *)
LEMMA OutOfSight ==
  ASSUME NEW E, NEW w \in Windows, NEW t \in Nat, NEW length \in Nat \ {0},
         Timely(E, w, t, length), t - w.resetAt >= length
  PROVE  E = {}
<1>1. SUFFICES ASSUME NEW e \in E PROVE FALSE
  OBVIOUS
<1>2. e[1] \in Int /\ t - length < e[1] /\ e[1] < w.resetAt /\ w.resetAt \in Nat
  BY DEF Timely, Windows
<1> QED
  BY <1>2

LEMMA BegunSlider ==
  ASSUME now \in Nat, NEW v \in Windows, Begun(v, WindowMs), NEW F \in SUBSET {<<now, 1>>}
  PROVE  SliderOK(F, v, now)
<1>1. WindowMs \in Nat \ {0} /\ Budget \in Nat \ {0}
  BY Constants
<1>2. v = [count |-> 1, resetAt |-> now + WindowMs, previous |-> 0]
  BY DEF Begun
<1>3. /\ Timely(F, v, now, WindowMs) /\ Older(F, v, WindowMs) = {}
      /\ \A n \in Nat \ {0} : AtMost(Newer(F, v, WindowMs), n)
  BY <1>1, <1>2, FreshWindow
<1>4. v.count = 1 /\ v.previous = 0
  BY <1>2
<1>5. AtMost(Older(F, v, WindowMs), Budget)
  BY <1>1, <1>3, AtMostNone
<1> QED
  BY <1>1, <1>3, <1>4, <1>5 DEF SliderOK

LEMMA SlidSlider ==
  ASSUME now \in Nat, NEW E \in SUBSET Events, NEW w \in Windows, SliderOK(E, w, now),
         w.count >= 1, w.resetAt <= now, now - w.resetAt < WindowMs,
         NEW v \in Windows,
         v.count = 1, v.resetAt = w.resetAt + WindowMs, v.previous = w.count,
         NEW F \in SUBSET (E \cup {<<now, 1>>}),
         Sliding(v, WindowMs) > Budget * WindowMs => F \in SUBSET E
  PROVE  SliderOK(F, v, now)
<1> DEFINE x == <<now, 1>>
<1>1. WindowMs \in Nat \ {0} /\ Budget \in Nat \ {0}
  BY Constants
<1>2. v.resetAt = w.resetAt + WindowMs /\ v.count = 1 /\ v.previous = w.count /\ w.resetAt \in Nat
  BY DEF Windows
<1>0. x[1] = now
  OBVIOUS
<1>3. F \in SUBSET (E \cup {x}) /\ Timely(E, w, now, WindowMs)
  BY DEF SliderOK
<1> HIDE DEF x
<1> Answered(E, w, now, WindowMs, x, F, v)
  BY <1>0, <1>1, <1>3 DEF Answered
<1>4. /\ Timely(F, v, now, WindowMs)
      /\ Older(F, v, WindowMs) \in SUBSET Newer(E, w, WindowMs)
      /\ Newer(F, v, WindowMs) \in SUBSET (F \cap {x})
  BY <1>2, SlidWindow
<1>5. AtMost(Older(F, v, WindowMs), Budget)
  <2>1. AtMost(Newer(E, w, WindowMs), Budget)
    BY DEF SliderOK
  <2> QED
    BY <1>1, <1>4, <2>1, AtMostSome
<1>6. AtMost({x}, 1)
  <2>1. AtMost({} \cup {x}, 0 + 1)
    BY AtMostNone, AtMostMore
  <2>2. {} \cup {x} = {x} /\ 0 + 1 = 1
    OBVIOUS
  <2> QED
    BY <2>1, <2>2
<1>7. AtMost(Newer(F, v, WindowMs), 1)
  <2>1. Newer(F, v, WindowMs) \in SUBSET {x}
    BY <1>4
  <2> QED
    BY <1>6, <2>1, AtMostSome
<1>8. AtMost(Newer(F, v, WindowMs), Budget)
  BY <1>1, <1>7, AtMostUp
<1>9. AtMost(Newer(F, v, WindowMs), Budget - 1)
  <2>1. CASE Sliding(v, WindowMs) > Budget * WindowMs
    <3>1. F \in SUBSET E /\ \A e \in E : e[1] < w.resetAt
      BY <2>1 DEF SliderOK, Timely
    <3>2. x \notin F
      BY <1>0, <1>2, <3>1
    <3>3. Newer(F, v, WindowMs) = {}
      BY <1>4, <3>2
    <3>4. Budget - 1 \in Nat
      BY <1>1
    <3> QED
      BY <3>3, <3>4, AtMostNone
  <2>2. CASE ~ Sliding(v, WindowMs) > Budget * WindowMs
    <3>1. v.resetAt - WindowMs <= now /\ now < v.resetAt
      BY <1>1, <1>2
    <3>2. v.count <= Budget - 1
      BY <1>2, <2>2, <3>1, AdmittedFits
    <3>3. Budget - 1 \in Nat /\ 1 <= Budget - 1
      BY <1>1, <1>2, <3>2
    <3> QED
      BY <1>7, <3>3, AtMostUp
  <2> QED
    BY <2>1, <2>2
<1> QED
  BY <1>2, <1>4, <1>5, <1>7, <1>8, <1>9 DEF SliderOK

LEMMA CountedSlider ==
  ASSUME now \in Nat, NEW E \in SUBSET Events, NEW w \in Windows, SliderOK(E, w, now),
         now < w.resetAt,
         NEW v \in Windows,
         v.count = w.count + 1, v.resetAt = w.resetAt, v.previous = w.previous,
         NEW F \in SUBSET (E \cup {<<now, v.count>>}),
         Sliding(v, WindowMs) > Budget * WindowMs => F \in SUBSET E
  PROVE  SliderOK(F, v, now)
<1> DEFINE x == <<now, v.count>>
<1>1. WindowMs \in Nat \ {0} /\ Budget \in Nat \ {0}
  BY Constants
<1>2. /\ v.resetAt = w.resetAt /\ v.count = w.count + 1 /\ v.previous = w.previous
      /\ w.count \in Nat /\ w.previous \in Nat /\ w.resetAt \in Nat
  BY DEF Windows
<1>0. x[1] = now
  OBVIOUS
<1>3. /\ F \in SUBSET (E \cup {x})
      /\ Timely(E, w, now, WindowMs)
      /\ AtMost(Newer(E, w, WindowMs), w.count)
      /\ AtMost(Newer(E, w, WindowMs), Budget)
      /\ AtMost(Older(E, w, WindowMs), Budget)
      /\ Older(E, w, WindowMs) # {} => w.previous >= 1
      /\ w.previous >= 1 => AtMost(Newer(E, w, WindowMs), Budget - 1)
  BY DEF SliderOK
<1> HIDE DEF x
<1> Answered(E, w, now, WindowMs, x, F, v)
  BY <1>0, <1>1, <1>3 DEF Answered
<1>4. /\ Timely(F, v, now, WindowMs)
      /\ Older(F, v, WindowMs) \in SUBSET Older(E, w, WindowMs)
      /\ Newer(F, v, WindowMs) \in SUBSET (Newer(E, w, WindowMs) \cup {x})
      /\ F \in SUBSET E => Newer(F, v, WindowMs) \in SUBSET Newer(E, w, WindowMs)
  BY <1>2, SameWindow
<1>5. AtMost(Newer(F, v, WindowMs), v.count)
  <2>1. AtMost(Newer(E, w, WindowMs) \cup {x}, w.count + 1)
    BY <1>2, <1>3, AtMostMore
  <2>2. v.count \in Nat /\ AtMost(Newer(E, w, WindowMs) \cup {x}, v.count)
    BY <1>2, <2>1
  <2> QED
    BY <1>4, <2>2, AtMostSome
<1>6. AtMost(Older(F, v, WindowMs), Budget)
  BY <1>1, <1>3, <1>4, AtMostSome
<1>7. Older(F, v, WindowMs) # {} => v.previous >= 1
  BY <1>2, <1>3, <1>4
<1>8. ASSUME NEW n \in Nat, AtMost(Newer(E, w, WindowMs), n),
             ~ Sliding(v, WindowMs) > Budget * WindowMs => v.count <= n
      PROVE  AtMost(Newer(F, v, WindowMs), n)
  <2>1. CASE Sliding(v, WindowMs) > Budget * WindowMs
    <3>1. F \in SUBSET E
      BY <2>1
    <3> QED
      BY <1>4, <1>8, <3>1, AtMostSome
  <2>2. CASE ~ Sliding(v, WindowMs) > Budget * WindowMs
    <3>1. v.count \in Nat /\ v.count <= n
      BY <1>2, <1>8, <2>2
    <3> QED
      BY <1>5, <3>1, AtMostUp
  <2> QED
    BY <2>1, <2>2
<1>9. ~ Sliding(v, WindowMs) > Budget * WindowMs =>
        v.count <= Budget /\ (v.previous >= 1 => v.count <= Budget - 1)
  <2>1. v.resetAt - WindowMs <= now /\ now < v.resetAt
    BY <1>2, <1>3 DEF Timely
  <2> QED
    BY <2>1, AdmittedFits
<1>10. AtMost(Newer(F, v, WindowMs), Budget)
  BY <1>1, <1>3, <1>8, <1>9
<1>11. ASSUME v.previous >= 1 PROVE AtMost(Newer(F, v, WindowMs), Budget - 1)
  <2>1. Budget - 1 \in Nat /\ AtMost(Newer(E, w, WindowMs), Budget - 1)
    BY <1>1, <1>2, <1>3, <1>11
  <2>2. ~ Sliding(v, WindowMs) > Budget * WindowMs => v.count <= Budget - 1
    BY <1>9, <1>11
  <2> QED
    BY <1>8, <2>1, <2>2
<1> QED
  BY <1>4, <1>5, <1>6, <1>7, <1>10, <1>11 DEF SliderOK

(* Wrong passwords: all are counted, and Most bounds the count. *)
LEMMA BegunLogin ==
  ASSUME now \in Nat, NEW v \in Windows, Begun(v, LockoutMs), NEW F \in SUBSET {<<now, 1>>},
         Most >= 1
  PROVE  LoginOK(F, v, now)
<1>1. LockoutMs \in Nat \ {0} /\ Most \in Nat
  BY Constants
<1>2. v = [count |-> 1, resetAt |-> now + LockoutMs, previous |-> 0]
  BY DEF Begun
<1>3. /\ Timely(F, v, now, LockoutMs) /\ Older(F, v, LockoutMs) = {}
      /\ \A n \in Nat \ {0} : AtMost(Newer(F, v, LockoutMs), n)
  BY <1>1, <1>2, FreshWindow
<1>4. v.count = 1
  BY <1>2
<1>5. AtMost(Older(F, v, LockoutMs), Most)
  BY <1>1, <1>3, AtMostNone
<1> QED
  BY <1>1, <1>3, <1>4, <1>5 DEF LoginOK

LEMMA SlidLogin ==
  ASSUME now \in Nat, NEW E \in SUBSET Events, NEW w \in Windows, LoginOK(E, w, now),
         w.resetAt <= now, now - w.resetAt < LockoutMs, Most >= 1,
         NEW v \in Windows,
         v.count = 1, v.resetAt = w.resetAt + LockoutMs, v.previous = w.count
  PROVE  LoginOK(E \cup {<<now, 1>>}, v, now)
<1> DEFINE x == <<now, 1>>
           F == E \cup {x}
<1>1. LockoutMs \in Nat \ {0} /\ Most \in Nat
  BY Constants
<1>2. v.resetAt = w.resetAt + LockoutMs /\ v.count = 1 /\ w.count \in Nat
  BY DEF Windows
<1>0. x[1] = now
  OBVIOUS
<1>3. /\ F \in SUBSET (E \cup {x}) /\ Timely(E, w, now, LockoutMs)
      /\ AtMost(Newer(E, w, LockoutMs), w.count) /\ w.count <= Most
  BY DEF LoginOK
<1> HIDE DEF F, x
<1> Answered(E, w, now, LockoutMs, x, F, v)
  BY <1>0, <1>1, <1>3 DEF Answered
<1>4. /\ Timely(F, v, now, LockoutMs)
      /\ Older(F, v, LockoutMs) \in SUBSET Newer(E, w, LockoutMs)
      /\ Newer(F, v, LockoutMs) \in SUBSET (F \cap {x})
  BY <1>2, SlidWindow
<1>5. AtMost(Older(F, v, LockoutMs), Most)
  <2>1. AtMost(Older(F, v, LockoutMs), w.count)
    BY <1>2, <1>3, <1>4, AtMostSome
  <2> QED
    BY <1>1, <1>2, <1>3, <2>1, AtMostUp
<1>6. AtMost(Newer(F, v, LockoutMs), v.count)
  <2>1. AtMost({} \cup {x}, 0 + 1)
    BY AtMostNone, AtMostMore
  <2>2. {} \cup {x} = {x} /\ 0 + 1 = v.count /\ v.count \in Nat
    BY <1>2
  <2>3. Newer(F, v, LockoutMs) \in SUBSET {x} /\ AtMost({x}, v.count)
    BY <1>4, <2>1, <2>2
  <2> QED
    BY <2>2, <2>3, AtMostSome
<1> QED
  BY <1>1, <1>2, <1>4, <1>5, <1>6 DEF LoginOK, F, x

LEMMA CountedLogin ==
  ASSUME now \in Nat, NEW E \in SUBSET Events, NEW w \in Windows, LoginOK(E, w, now),
         now < w.resetAt, w.count < Most,
         NEW v \in Windows,
         v.count = w.count + 1, v.resetAt = w.resetAt, v.previous = w.previous
  PROVE  LoginOK(E \cup {<<now, v.count>>}, v, now)
<1> DEFINE x == <<now, v.count>>
           F == E \cup {x}
<1>1. LockoutMs \in Nat \ {0} /\ Most \in Nat
  BY Constants
<1>2. v.resetAt = w.resetAt /\ v.count = w.count + 1 /\ w.count \in Nat
  BY DEF Windows
<1>0. x[1] = now
  OBVIOUS
<1>3. /\ F \in SUBSET (E \cup {x}) /\ Timely(E, w, now, LockoutMs)
      /\ AtMost(Newer(E, w, LockoutMs), w.count) /\ AtMost(Older(E, w, LockoutMs), Most)
  BY DEF LoginOK
<1> HIDE DEF F, x
<1> Answered(E, w, now, LockoutMs, x, F, v)
  BY <1>0, <1>1, <1>3 DEF Answered
<1>4. /\ Timely(F, v, now, LockoutMs)
      /\ Older(F, v, LockoutMs) \in SUBSET Older(E, w, LockoutMs)
      /\ Newer(F, v, LockoutMs) \in SUBSET (Newer(E, w, LockoutMs) \cup {x})
  BY <1>2, SameWindow
<1>5. AtMost(Older(F, v, LockoutMs), Most)
  BY <1>1, <1>3, <1>4, AtMostSome
<1>6. AtMost(Newer(F, v, LockoutMs), v.count)
  <2>1. AtMost(Newer(E, w, LockoutMs) \cup {x}, w.count + 1)
    BY <1>2, <1>3, AtMostMore
  <2>2. v.count \in Nat /\ AtMost(Newer(E, w, LockoutMs) \cup {x}, v.count)
    BY <1>2, <2>1
  <2> QED
    BY <1>4, <2>2, AtMostSome
<1>7. v.count <= Most
  BY <1>1, <1>2
<1> QED
  BY <1>4, <1>5, <1>6, <1>7 DEF LoginOK, F, x

-----------------------------------------------------------------------------
(* The callers and logins that a step is not about *)

LEMMA KeysAre ==
  /\ Callers \subseteq StoreKeys /\ Logins \subseteq StoreKeys /\ Sliders \subseteq Callers
  /\ \A k \in Callers : k \notin Logins
BY LimitsAssumption

LEMMA SliderRemains ==
  ASSUME SlidersInv, NEW i \in Sliders, now' = now, NEW gone,
         Stored(i)' <=> Stored(i) /\ i \notin gone,
         Stored(i)' => window'[i] = window[i],
         served'[i] = IF i \in gone THEN {} ELSE served[i]
  PROVE  IF Stored(i)' THEN SliderOK(served'[i], window'[i], now') ELSE served'[i] = {}
<1>1. IF Stored(i) THEN SliderOK(served[i], window[i], now) ELSE served[i] = {}
  BY DEF SlidersInv
<1> QED
  BY <1>1

LEMMA LoginRemains ==
  ASSUME LoginsInv, NEW i \in Logins, now' = now, NEW gone,
         Stored(i)' <=> Stored(i) /\ i \notin gone,
         Stored(i)' => window'[i] = window[i],
         wrong'[i] = IF i \in gone THEN {} ELSE wrong[i]
  PROVE  IF Stored(i)' THEN LoginOK(wrong'[i], window'[i], now') ELSE wrong'[i] = {}
<1>1. IF Stored(i) THEN LoginOK(wrong[i], window[i], now) ELSE wrong[i] = {}
  BY DEF LoginsInv
<1> QED
  BY <1>1

LEMMA CountIs ==
  ASSUME StoreOK, NEW i \in StoreKeys
  PROVE  CountOf(i) \in Nat
BY DEF StoreOK, CountOf, Windows

LEMMA CountFalls ==
  ASSUME StoreOK, StoreOK', NEW i \in StoreKeys, now <= now',
         Stored(i)' => Stored(i) /\ window'[i] = window[i]
  PROVE  CountOf(i)' <= CountOf(i)
<1>1. now \in Nat /\ now' \in Nat /\ window[i].count \in Nat /\ window[i].resetAt \in Nat
  BY DEF StoreOK, Windows
<1>2. CASE Stored(i)' /\ now' < window'[i].resetAt
  <2>1. Stored(i) /\ now < window[i].resetAt /\ window'[i] = window[i]
    BY <1>1, <1>2
  <2> QED
    BY <1>1, <1>2, <2>1 DEF CountOf
<1>3. CASE ~ (Stored(i)' /\ now' < window'[i].resetAt)
  <2>1. CountOf(i)' = 0 /\ CountOf(i) \in Nat
    BY <1>3, CountIs DEF CountOf
  <2> QED
    BY <2>1
<1> QED
  BY <1>2, <1>3

LEMMA TryingCount ==
  ASSUME NEW id \in Logins
  PROVE  IsFiniteSet(Trying(id)) /\ Cardinality(Trying(id)) \in Nat
         /\ Cardinality(Trying(id)) <= Cardinality(Attempts)
<1>1. Trying(id) \in SUBSET Attempts
  BY DEF Trying
<1> QED
  BY <1>1, Constants, FS_Subset, FS_CardinalityType

LEMMA TryingRemains ==
  ASSUME StoreOK, StoreOK', TryingInv, NEW id \in Logins,
         CountOf(id)' <= CountOf(id), Trying(id)' = Trying(id)
  PROVE  CountOf(id)' + Cardinality(Trying(id)') <= Most
<1>1. CountOf(id) \in Nat /\ CountOf(id)' \in Nat
  BY KeysAre, CountIs DEF StoreOK, CountOf, Windows
<1>2. Cardinality(Trying(id)) \in Nat /\ Most \in Nat
  BY TryingCount, Constants
<1>3. CountOf(id) + Cardinality(Trying(id)) <= Most
  BY DEF TryingInv
<1>4. Cardinality(Trying(id)') = Cardinality(Trying(id))
  OBVIOUS
<1> DEFINE a == CountOf(id)
           b == CountOf(id)'
           c == Cardinality(Trying(id))
           d == Cardinality(Trying(id)')
<1>5. a \in Nat /\ b \in Nat /\ c \in Nat /\ Most \in Nat /\ a + c <= Most /\ b <= a /\ d = c
  BY <1>1, <1>2, <1>3, <1>4
<1> HIDE DEF a, b, c, d
<1>6. b + d <= Most
  BY <1>5
<1> QED
  BY <1>6 DEF b, d

LEMMA AnswerRemains ==
  ASSUME AnswersInv, StoreOK, NEW k \in Callers, now' = now, answer'[k] = answer[k],
         Stored(k)' => Stored(k) /\ window'[k] = window[k]
  PROVE  /\ answer'[k].at <= now'
         /\ Stored(k)' => \/ window'[k].resetAt - WindowMs <= answer'[k].at
                          \/ window'[k].resetAt - WindowMs <= now' - 2 * WindowMs
BY DEF AnswersInv

LEMMA RememberedIs ==
  ASSUME NEW S, NEW T, NEW f \in [S -> T], NEW keys
  PROVE  /\ Remembered(f, keys) = [k \in S |-> IF k \in keys THEN {} ELSE f[k]]
         /\ DOMAIN Remembered(f, keys) = S
         /\ \A k \in S : Remembered(f, keys)[k] = IF k \in keys THEN {} ELSE f[k]
BY DEF Remembered

-----------------------------------------------------------------------------
(* One lemma per action *)

LEMMA ClockMovesKeeps == LimitsInv /\ ClockMoves => LimitsInv'
<1> SUFFICES ASSUME LimitsInv, ClockMoves PROVE LimitsInv'
  OBVIOUS
<1>0. LimitsOK /\ StoreOK
  BY DEF LimitsInv, LimitsOK
<1>1. now \in Nat /\ now' = now + 1 /\ now' \in Nat /\ now <= now'
  BY <1>0 DEF StoreOK, ClockMoves
<1>2. UNCHANGED <<order, window, attempt>> /\ \A k : Stored(k)' <=> Stored(k)
  BY DEF ClockMoves, Stored
<1>3. StoreOK'
  BY <1>0, <1>1, <1>2 DEF StoreOK, Stored
<1>4. \A k \in Callers : /\ served[k] \in SUBSET Events
                         /\ served'[k] = Recent(served[k], WindowMs, now + 1)
                         /\ served'[k] \in SUBSET Events
  BY <1>0, <1>1 DEF LimitsOK, ClockMoves, Recent
<1>5. \A k \in Logins : /\ wrong[k] \in SUBSET Events
                        /\ wrong'[k] = Recent(wrong[k], LockoutMs, now + 1)
                        /\ wrong'[k] \in SUBSET Events
  BY <1>0, <1>1 DEF LimitsOK, ClockMoves, Recent
<1>6. \A k \in Callers : /\ answer'[k].at = Clipped(answer[k].at, now')
                         /\ answer[k].at \in Int /\ answer'[k].at \in Int
                         /\ answer'[k] \in [at : Int, refused : BOOLEAN]
  <2>1. Never \in Int
    BY Constants DEF Never
  <2> QED
    BY <1>0, <2>1 DEF LimitsOK, ClockMoves, Clipped
<1>7. LimitsOK'
  <2>1. served' \in [Callers -> SUBSET Events] /\ wrong' \in [Logins -> SUBSET Events]
    BY <1>4, <1>5 DEF ClockMoves
  <2>2. answer' \in [Callers -> [at : Int, refused : BOOLEAN]]
    BY <1>6 DEF ClockMoves
  <2> QED
    BY <1>0, <1>2, <1>3, <2>1, <2>2 DEF LimitsOK
<1>8. SlidersInv'
  <2>1. SUFFICES ASSUME NEW k \in Sliders
                 PROVE  IF Stored(k)' THEN SliderOK(served'[k], window'[k], now') ELSE served'[k] = {}
    BY DEF SlidersInv
  <2>2. k \in Callers /\ window[k] \in Windows /\ window'[k] = window[k]
    BY <1>0, <1>2, KeysAre DEF StoreOK
  <2>3. IF Stored(k) THEN SliderOK(served[k], window[k], now) ELSE served[k] = {}
    BY DEF LimitsInv, SlidersInv
  <2>4. CASE Stored(k)
    <3>1. served[k] \in SUBSET Events /\ SliderOK(served[k], window[k], now)
      BY <1>4, <2>2, <2>3, <2>4
    <3>2. SliderOK(Recent(served[k], WindowMs, now + 1), window[k], now + 1)
      BY <1>1, <2>2, <3>1, SliderAges
    <3> QED
      BY <1>1, <1>2, <1>4, <2>2, <2>4, <3>2
  <2>5. CASE ~ Stored(k)
    BY <1>2, <1>4, <2>2, <2>3, <2>5 DEF Recent
  <2> QED
    BY <2>4, <2>5
<1>9. LoginsInv'
  <2>1. SUFFICES ASSUME NEW k \in Logins
                 PROVE  IF Stored(k)' THEN LoginOK(wrong'[k], window'[k], now') ELSE wrong'[k] = {}
    BY DEF LoginsInv
  <2>2. window[k] \in Windows /\ window'[k] = window[k]
    BY <1>0, <1>2, KeysAre DEF StoreOK
  <2>3. IF Stored(k) THEN LoginOK(wrong[k], window[k], now) ELSE wrong[k] = {}
    BY DEF LimitsInv, LoginsInv
  <2>4. CASE Stored(k)
    <3>1. wrong[k] \in SUBSET Events /\ LoginOK(wrong[k], window[k], now)
      BY <1>5, <2>3, <2>4
    <3>2. LoginOK(Recent(wrong[k], LockoutMs, now + 1), window[k], now + 1)
      BY <1>1, <2>2, <3>1, LoginAges
    <3> QED
      BY <1>1, <1>2, <1>5, <2>2, <2>4, <3>2
  <2>5. CASE ~ Stored(k)
    BY <1>2, <1>5, <2>3, <2>5 DEF Recent
  <2> QED
    BY <2>4, <2>5
<1>10. TryingInv'
  <2>1. SUFFICES ASSUME NEW id \in Logins
                 PROVE  CountOf(id)' + Cardinality(Trying(id)') <= Most
    BY DEF TryingInv, Most
  <2>2. CountOf(id)' <= CountOf(id)
    BY <1>0, <1>1, <1>2, <1>3, KeysAre, CountFalls
  <2>3. Trying(id)' = Trying(id)
    BY <1>2 DEF Trying
  <2> QED
    BY <1>0, <1>3, <2>2, <2>3, TryingRemains DEF LimitsInv
<1>11. AnswersInv'
  <2>1. SUFFICES ASSUME NEW k \in Callers
                 PROVE  /\ answer'[k].at <= now'
                        /\ Stored(k)' => \/ window'[k].resetAt - WindowMs <= answer'[k].at
                                         \/ window'[k].resetAt - WindowMs <= now' - 2 * WindowMs
    BY DEF AnswersInv
  <2>2. /\ answer[k].at <= now
        /\ Stored(k) => \/ window[k].resetAt - WindowMs <= answer[k].at
                        \/ window[k].resetAt - WindowMs <= now - 2 * WindowMs
    BY DEF LimitsInv, AnswersInv
  <2>3. window'[k].resetAt = window[k].resetAt /\ window[k].resetAt \in Nat /\ WindowMs \in Nat
    BY <1>0, <1>2, KeysAre, Constants DEF StoreOK, Windows
  <2>4. answer'[k].at = IF answer[k].at > now' - 2 * WindowMs THEN answer[k].at ELSE 0 - 2 * WindowMs
    BY <1>6 DEF Clipped, Never
  <2> QED
    BY <1>1, <1>2, <1>6, <2>2, <2>3, <2>4
<1> QED
  BY <1>7, <1>8, <1>9, <1>10, <1>11 DEF LimitsInv

LEMMA AskKeeps == ASSUME NEW k \in Callers PROVE LimitsInv /\ Ask(k) => LimitsInv'
<1> SUFFICES ASSUME LimitsInv, Ask(k) PROVE LimitsInv'
  OBVIOUS
<1> DEFINE v == Incremented(k, WindowMs)
           w == window[k]
           kept == Remembered(served, Evicted)
<1>0. LimitsOK /\ StoreOK /\ SlidersInv /\ LoginsInv /\ TryingInv /\ AnswersInv /\ now \in Nat
  BY DEF LimitsInv, LimitsOK, StoreOK
<1>1. k \in StoreKeys /\ k \notin Logins /\ WindowMs \in Nat \ {0} /\ Budget \in Nat \ {0}
  BY KeysAre, Constants
<1>2. now' = now /\ attempt' = attempt /\ Incr(k, WindowMs) /\ now <= now'
  BY <1>0 DEF Ask
<1>3. /\ StoreOK' /\ Stored(k)' /\ window'[k] = v
      /\ \A i \in StoreKeys : i # k =>
           (Stored(i)' <=> Kept(i)) /\ (Kept(i) => window'[i] = window[i])
  BY <1>0, <1>1, <1>2, IncrKeeps
<1>4. v \in Windows /\ w \in Windows
  BY <1>0, <1>1, IncrementedIs DEF StoreOK
<1>5. /\ kept \in [Callers -> SUBSET Events]
      /\ \A i \in Callers : kept[i] = IF i \in Evicted THEN {} ELSE served[i]
      /\ wrong' \in [Logins -> SUBSET Events]
      /\ \A i \in Logins : wrong'[i] = IF i \in Evicted THEN {} ELSE wrong[i]
  BY <1>0 DEF LimitsOK, Remembered, Ask
<1>6. /\ answer' = [answer EXCEPT ![k] = [at |-> now, refused |-> Refused(k, v)]]
      /\ served' = IF Refused(k, v) THEN kept ELSE [kept EXCEPT ![k] = @ \cup {<<now, v.count>>}]
  BY DEF Ask
<1>7. Refused(k, v) \in BOOLEAN
  <2>1. v.count \in Nat /\ v.previous \in Nat /\ v.resetAt \in Nat
    BY <1>4 DEF Windows
  <2> HIDE DEF v
  <2>2. Sliding(v, WindowMs) \in Int /\ Budget * WindowMs \in Int
    BY <1>0, <1>1, <2>1 DEF Sliding
  <2>3. (Sliding(v, WindowMs) > Budget * WindowMs) \in BOOLEAN /\ (v.count > Budget) \in BOOLEAN
    BY <1>1, <2>1, <2>2
  <2> QED
    BY <2>3 DEF Refused
<1>8. <<now, v.count>> \in Events
  BY <1>0, <1>4 DEF Events, Windows
<1> HIDE DEF v, w, kept
<1>9. /\ served' \in [Callers -> SUBSET Events]
      /\ \A i \in Callers : i # k => served'[i] = kept[i]
      /\ served'[k] = IF Refused(k, v) THEN kept[k] ELSE kept[k] \cup {<<now, v.count>>}
  BY <1>5, <1>6, <1>8
<1>10. LimitsOK'
  <2>1. answer' \in [Callers -> [at : Int, refused : BOOLEAN]]
    BY <1>0, <1>6, <1>7 DEF LimitsOK
  <2> QED
    BY <1>0, <1>2, <1>3, <1>5, <1>9, <2>1 DEF LimitsOK
<1>11. ASSUME k \in Sliders PROVE SliderOK(served'[k], v, now)
  <2> DEFINE E == kept[k]
             F == served'[k]
  <2>1. /\ E \in SUBSET Events /\ F \in SUBSET (E \cup {<<now, v.count>>})
        /\ Sliding(v, WindowMs) > Budget * WindowMs => F \in SUBSET E
    BY <1>5, <1>9, <1>11 DEF Refused
  <2>2. Kept(k) => SliderOK(E, w, now) /\ w.count >= 1
    BY <1>0, <1>1, <1>5, <1>11 DEF Kept, SlidersInv, StoreOK, w
  <2>3. ~ Kept(k) => E = {}
    BY <1>0, <1>5, <1>11 DEF Kept, SlidersInv
  <2> HIDE DEF E, F
  <2>4. \/ ~ Kept(k) /\ Begun(v, WindowMs)
        \/ Kept(k) /\ w.resetAt <= now /\ now - w.resetAt >= WindowMs /\ Begun(v, WindowMs)
        \/ Kept(k) /\ w.resetAt <= now /\ now - w.resetAt < WindowMs
           /\ v = [count |-> 1, resetAt |-> w.resetAt + WindowMs, previous |-> w.count]
        \/ Kept(k) /\ now < w.resetAt /\ v = [w EXCEPT !.count = @ + 1]
    BY <1>0, <1>1, IncrementedCases DEF v, w
  <2>5. CASE E = {} /\ Begun(v, WindowMs)
    <3>1. v.count = 1
      BY <2>5 DEF Begun
    <3>2. F \in SUBSET {<<now, 1>>}
      BY <2>1, <2>5, <3>1
    <3>3. SliderOK(F, v, now)
      BY <1>0, <1>4, <2>5, <3>2, BegunSlider
    <3> QED
      BY <3>3 DEF F
  <2>6. CASE Kept(k) /\ w.resetAt <= now /\ now - w.resetAt >= WindowMs /\ Begun(v, WindowMs)
    <3>1. Timely(E, w, now, WindowMs)
      BY <2>2, <2>6 DEF SliderOK
    <3>2. E = {}
      BY <1>0, <1>1, <1>4, <2>6, <3>1, OutOfSight
    <3> QED
      BY <2>5, <2>6, <3>2
  <2>7. CASE Kept(k) /\ w.resetAt <= now /\ now - w.resetAt < WindowMs
             /\ v = [count |-> 1, resetAt |-> w.resetAt + WindowMs, previous |-> w.count]
    <3>1. v.count = 1 /\ v.resetAt = w.resetAt + WindowMs /\ v.previous = w.count
      BY <2>7
    <3>2. F \in SUBSET (E \cup {<<now, 1>>})
      BY <2>1, <3>1
    <3>3. SliderOK(E, w, now) /\ w.count >= 1 /\ w.resetAt <= now /\ now - w.resetAt < WindowMs
      BY <2>2, <2>7
    <3>4. SliderOK(F, v, now)
      BY <1>0, <1>4, <2>1, <3>1, <3>2, <3>3, SlidSlider
    <3> QED
      BY <3>4 DEF F
  <2>8. CASE Kept(k) /\ now < w.resetAt /\ v = [w EXCEPT !.count = @ + 1]
    <3>1. v.count = w.count + 1 /\ v.resetAt = w.resetAt /\ v.previous = w.previous
      BY <1>4, <2>8 DEF Windows
    <3>2. SliderOK(E, w, now) /\ now < w.resetAt
      BY <2>2, <2>8
    <3>3. SliderOK(F, v, now)
      BY <1>0, <1>4, <2>1, <3>1, <3>2, CountedSlider
    <3> QED
      BY <3>3 DEF F
  <2> QED
    BY <2>3, <2>4, <2>5, <2>6, <2>7, <2>8
<1>12. SlidersInv'
  <2>1. SUFFICES ASSUME NEW i \in Sliders
                 PROVE  IF Stored(i)' THEN SliderOK(served'[i], window'[i], now') ELSE served'[i] = {}
    BY DEF SlidersInv
  <2>2. i \in Callers /\ i \in StoreKeys
    BY KeysAre
  <2>3. CASE i = k
    BY <1>2, <1>3, <1>11, <2>3
  <2>4. CASE i # k
    <3>1. /\ Stored(i)' <=> Stored(i) /\ i \notin Evicted
          /\ Stored(i)' => window'[i] = window[i]
          /\ served'[i] = IF i \in Evicted THEN {} ELSE served[i]
      BY <1>3, <1>5, <1>9, <2>2, <2>4 DEF Kept
    <3> QED
      BY <1>0, <1>2, <3>1, SliderRemains
  <2> QED
    BY <2>3, <2>4
<1>13. ASSUME NEW i \in StoreKeys, i # k
       PROVE  /\ Stored(i)' <=> Stored(i) /\ i \notin Evicted
              /\ Stored(i)' => Stored(i) /\ window'[i] = window[i]
  BY <1>3, <1>13 DEF Kept
<1>14. LoginsInv'
  <2>1. SUFFICES ASSUME NEW i \in Logins
                 PROVE  IF Stored(i)' THEN LoginOK(wrong'[i], window'[i], now') ELSE wrong'[i] = {}
    BY DEF LoginsInv
  <2>2. i \in StoreKeys /\ i # k
    BY <1>1, KeysAre
  <2> QED
    BY <1>0, <1>2, <1>5, <1>13, <2>2, LoginRemains
<1>15. TryingInv'
  <2>1. SUFFICES ASSUME NEW id \in Logins
                 PROVE  CountOf(id)' + Cardinality(Trying(id)') <= Most
    BY DEF TryingInv, Most
  <2>2. id \in StoreKeys /\ id # k
    BY <1>1, KeysAre
  <2>3. CountOf(id)' <= CountOf(id)
    BY <1>0, <1>2, <1>3, <1>13, <2>2, CountFalls
  <2>4. Trying(id)' = Trying(id)
    BY <1>2 DEF Trying
  <2> QED
    BY <1>0, <1>3, <2>3, <2>4, TryingRemains
<1>16. AnswersInv'
  <2>1. SUFFICES ASSUME NEW i \in Callers
                 PROVE  /\ answer'[i].at <= now'
                        /\ Stored(i)' => \/ window'[i].resetAt - WindowMs <= answer'[i].at
                                         \/ window'[i].resetAt - WindowMs <= now' - 2 * WindowMs
    BY DEF AnswersInv
  <2>2. CASE i = k
    <3>1. answer'[k].at = now
      BY <1>0, <1>6 DEF LimitsOK
    <3>2. v.resetAt - WindowMs <= now
      <4>1. /\ answer[k].at <= now /\ answer[k].at \in Int /\ w.resetAt \in Nat
            /\ Stored(k) => \/ w.resetAt - WindowMs <= answer[k].at
                            \/ w.resetAt - WindowMs <= now - 2 * WindowMs
        BY <1>0, <1>4 DEF AnswersInv, LimitsOK, w, Windows
      <4>2. Stored(k) => w.resetAt - WindowMs <= now
        BY <1>0, <1>1, <4>1
      <4>3. \/ v.resetAt = now + WindowMs
            \/ w.resetAt <= now /\ v.resetAt = w.resetAt + WindowMs
            \/ Stored(k) /\ v.resetAt = w.resetAt
        <5>1. \/ Begun(v, WindowMs)
              \/ w.resetAt <= now
                 /\ v = [count |-> 1, resetAt |-> w.resetAt + WindowMs, previous |-> w.count]
              \/ Stored(k) /\ v = [w EXCEPT !.count = @ + 1]
          BY <1>0, <1>1, IncrementedCases DEF v, w, Kept
        <5> QED
          BY <1>4, <5>1 DEF Begun, Windows
      <4> QED
        BY <1>0, <1>1, <4>1, <4>2, <4>3
    <3> QED
      BY <1>0, <1>2, <1>3, <2>2, <3>1, <3>2
  <2>3. CASE i # k
    <3>1. answer'[i] = answer[i] /\ i \in StoreKeys
      BY <1>0, <1>6, <2>3, KeysAre DEF LimitsOK
    <3> QED
      BY <1>0, <1>2, <1>13, <2>3, <3>1, AnswerRemains
  <2> QED
    BY <2>2, <2>3
<1> QED
  BY <1>10, <1>12, <1>14, <1>15, <1>16 DEF LimitsInv

LEMMA CheckKeeps ==
  ASSUME NEW a \in Attempts, NEW id \in Logins PROVE LimitsInv /\ Check(a, id) => LimitsInv'
<1> SUFFICES ASSUME LimitsInv, Check(a, id) PROVE LimitsInv'
  OBVIOUS
<1>0. LimitsOK /\ StoreOK /\ SlidersInv /\ LoginsInv /\ TryingInv /\ AnswersInv
  BY DEF LimitsInv, LimitsOK
<1>1. /\ UNCHANGED <<now, order, window, answer, served, wrong>>
      /\ attempt[a] = "idle" /\ attempt' = [attempt EXCEPT ![a] = id] /\ CountOf(id) < MaxAttempts
  BY DEF Check
<1>2. \A i : (Stored(i)' <=> Stored(i)) /\ CountOf(i)' = CountOf(i)
  BY <1>1 DEF Stored, CountOf
<1>3. StoreOK' /\ LimitsOK'
  BY <1>0, <1>1, <1>2 DEF LimitsOK, StoreOK
<1>4. SlidersInv' /\ LoginsInv' /\ AnswersInv'
  BY <1>0, <1>1, <1>2 DEF SlidersInv, LoginsInv, AnswersInv
<1>5. ASSUME NEW i \in Logins
      PROVE  CountOf(i)' + Cardinality(Trying(i)') <= Most
  <2>1. CASE i = id
    <3>1. Cardinality(Trying(id)') \in Nat /\ Cardinality(Trying(id)') <= Cardinality(Attempts)
      <4>1. Trying(id)' \in SUBSET Attempts
        BY DEF Trying
      <4> QED
        BY <4>1, Constants, FS_Subset, FS_CardinalityType
    <3>2. CountOf(id) \in Nat /\ MaxAttempts \in Nat /\ Cardinality(Attempts) \in Nat
      BY <1>0, KeysAre, CountIs, Constants
    <3>3. CountOf(i)' = CountOf(id)
      BY <1>2, <2>1
    <3> DEFINE n == Cardinality(Trying(id)')
               c == CountOf(id)
    <3>4. n \in Nat /\ c \in Nat /\ n <= Cardinality(Attempts) /\ c < MaxAttempts
      BY <1>1, <3>1, <3>2
    <3> HIDE DEF n, c
    <3>5. c + n <= Most
      BY <3>2, <3>4 DEF Most
    <3> QED
      BY <2>1, <3>3, <3>5 DEF n, c
  <2>2. CASE i # id
    <3>1. Trying(i)' = Trying(i)
      BY <1>0, <1>1, <2>2, LimitsAssumption DEF Trying, LimitsOK
    <3>2. CountOf(i)' <= CountOf(i)
      BY <1>0, <1>2, KeysAre, CountIs
    <3> QED
      BY <1>0, <1>3, <3>1, <3>2, TryingRemains
  <2> QED
    BY <2>1, <2>2
<1>6. TryingInv'
  BY <1>5 DEF TryingInv, Most
<1> QED
  BY <1>3, <1>4, <1>6 DEF LimitsInv

(* What the sweep and a right password share: keys leave the map, with all that
   is remembered of them.                                                  *)
LEMMA DroppedKeys ==
  ASSUME LimitsInv, now' = now, answer' = answer, NEW gone \in SUBSET StoreKeys,
         order' \in Filtered(order, StoreKeys \ gone),
         window' = [i \in StoreKeys |-> IF i \in gone THEN NoWindow ELSE window[i]],
         served' = Remembered(served, gone), wrong' = Remembered(wrong, gone),
         attempt' \in [Attempts -> Logins \cup {"idle"}]
  PROVE  /\ LimitsOK' /\ SlidersInv' /\ LoginsInv' /\ AnswersInv'
         /\ \A id \in Logins : CountOf(id)' <= CountOf(id)
         /\ \A id \in Logins : id \in gone => CountOf(id)' = 0
<1>0. LimitsOK /\ StoreOK /\ SlidersInv /\ LoginsInv /\ AnswersInv /\ now \in Nat /\ now <= now'
  BY DEF LimitsInv, LimitsOK, StoreOK
<1>1. /\ StoreOK'
      /\ \A i \in StoreKeys :
           (Stored(i)' <=> Stored(i) /\ i \notin gone) /\ (Stored(i)' => window'[i] = window[i])
  BY <1>0, DropKeeps
<1>2. /\ served' \in [Callers -> SUBSET Events] /\ wrong' \in [Logins -> SUBSET Events]
      /\ \A i \in Callers : served'[i] = IF i \in gone THEN {} ELSE served[i]
      /\ \A i \in Logins : wrong'[i] = IF i \in gone THEN {} ELSE wrong[i]
  BY <1>0 DEF LimitsOK, Remembered
<1>3. LimitsOK'
  BY <1>0, <1>1, <1>2 DEF LimitsOK
<1>4. ASSUME NEW i \in Sliders
      PROVE  IF Stored(i)' THEN SliderOK(served'[i], window'[i], now') ELSE served'[i] = {}
  <2>1. i \in Callers /\ i \in StoreKeys
    BY KeysAre
  <2> QED
    BY <1>0, <1>1, <1>2, <2>1, SliderRemains
<1>5. ASSUME NEW i \in Logins
      PROVE  IF Stored(i)' THEN LoginOK(wrong'[i], window'[i], now') ELSE wrong'[i] = {}
  <2>1. i \in StoreKeys
    BY KeysAre
  <2> QED
    BY <1>0, <1>1, <1>2, <2>1, LoginRemains
<1>6. AnswersInv'
  <2>1. SUFFICES ASSUME NEW i \in Callers
                 PROVE  /\ answer'[i].at <= now'
                        /\ Stored(i)' => \/ window'[i].resetAt - WindowMs <= answer'[i].at
                                         \/ window'[i].resetAt - WindowMs <= now' - 2 * WindowMs
    BY DEF AnswersInv
  <2>2. i \in StoreKeys /\ answer'[i] = answer[i]
    BY KeysAre
  <2> QED
    BY <1>0, <1>1, <2>2, AnswerRemains
<1>7. ASSUME NEW id \in Logins PROVE CountOf(id)' <= CountOf(id)
  BY <1>0, <1>1, KeysAre, CountFalls
<1>8. ASSUME NEW id \in Logins, id \in gone PROVE CountOf(id)' = 0
  BY <1>1, <1>8, KeysAre DEF CountOf
<1>9. SlidersInv' /\ LoginsInv'
  BY <1>4, <1>5 DEF SlidersInv, LoginsInv
<1> QED
  BY <1>3, <1>6, <1>7, <1>8, <1>9

LEMMA RecordRightKeeps ==
  ASSUME NEW a \in Attempts, NEW id \in Logins PROVE LimitsInv /\ RecordRight(a, id) => LimitsInv'
<1> SUFFICES ASSUME LimitsInv, RecordRight(a, id) PROVE LimitsInv'
  OBVIOUS
<1>0. LimitsOK /\ StoreOK /\ TryingInv
  BY DEF LimitsInv, LimitsOK
<1>1. /\ UNCHANGED <<now, answer, served>>
      /\ attempt[a] = id /\ attempt' = [attempt EXCEPT ![a] = "idle"]
      /\ Reset(id) /\ wrong' = Remembered(wrong, {id}) /\ id \in StoreKeys
  BY KeysAre DEF RecordRight
<1>2. served' = Remembered(served, {id})
  <2>1. \A k \in Callers : k # id
    BY KeysAre
  <2> QED
    BY <1>0, <1>1, <2>1 DEF Remembered, LimitsOK
<1>3. window' = [i \in StoreKeys |-> IF i \in {id} THEN NoWindow ELSE window[i]]
  BY <1>0, <1>1 DEF Reset, StoreOK
<1>4. attempt' \in [Attempts -> Logins \cup {"idle"}]
  BY <1>0, <1>1 DEF LimitsOK
<1>5. /\ LimitsOK' /\ SlidersInv' /\ LoginsInv' /\ AnswersInv'
      /\ \A i \in Logins : CountOf(i)' <= CountOf(i)
      /\ CountOf(id)' = 0
  <2>1. order' \in Filtered(order, StoreKeys \ {id}) /\ {id} \in SUBSET StoreKeys
    BY <1>1 DEF Reset
  <2> QED
    BY <1>1, <1>2, <1>3, <1>4, <2>1, DroppedKeys
<1>6. ASSUME NEW i \in Logins
      PROVE  CountOf(i)' + Cardinality(Trying(i)') <= Most
  <2>1. CASE i = id
    <3>1. Cardinality(Trying(i)') \in Nat /\ Cardinality(Trying(i)') <= Cardinality(Attempts)
      <4>1. Trying(i)' \in SUBSET Attempts
        BY DEF Trying
      <4> QED
        BY <4>1, Constants, FS_Subset, FS_CardinalityType
    <3> DEFINE n == Cardinality(Trying(i)')
    <3>2. n \in Nat /\ n <= Cardinality(Attempts) /\ CountOf(i)' = 0
      BY <1>5, <2>1, <3>1
    <3> HIDE DEF n
    <3>3. 0 + n <= Most
      BY <3>2, Constants
    <3> QED
      BY <3>2, <3>3 DEF n
  <2>2. CASE i # id
    <3>1. Trying(i)' = Trying(i)
      BY <1>0, <1>1, <2>2, LimitsAssumption DEF Trying, LimitsOK
    <3> QED
      BY <1>0, <1>5, <3>1, TryingRemains DEF LimitsOK
  <2> QED
    BY <2>1, <2>2
<1>7. TryingInv'
  BY <1>6 DEF TryingInv, Most
<1> QED
  BY <1>5, <1>7 DEF LimitsInv

LEMMA SweepsKeeps == LimitsInv /\ Sweeps => LimitsInv'
<1> SUFFICES ASSUME LimitsInv, Sweeps PROVE LimitsInv'
  OBVIOUS
<1>0. LimitsOK /\ StoreOK /\ TryingInv
  BY DEF LimitsInv, LimitsOK
<1>1. /\ UNCHANGED <<now, answer, attempt>> /\ Sweep
      /\ served' = Remembered(served, Over) /\ wrong' = Remembered(wrong, Over)
  BY DEF Sweeps
<1>2. Over \in SUBSET StoreKeys
  <2>1. order \in Seq(StoreKeys)
    BY <1>0 DEF StoreOK
  <2> QED
    BY <2>1 DEF Over, ToSet
<1>3. attempt' \in [Attempts -> Logins \cup {"idle"}]
  BY <1>0, <1>1 DEF LimitsOK
<1>4. /\ order' \in Filtered(order, StoreKeys \ Over)
      /\ window' = [k \in StoreKeys |-> IF k \in Over THEN NoWindow ELSE window[k]]
  BY <1>1 DEF Sweep
<1> HIDE DEF Over
<1>5. /\ LimitsOK' /\ SlidersInv' /\ LoginsInv' /\ AnswersInv'
      /\ \A i \in Logins : CountOf(i)' <= CountOf(i)
  BY <1>1, <1>2, <1>3, <1>4, DroppedKeys
<1>6. ASSUME NEW i \in Logins
      PROVE  CountOf(i)' + Cardinality(Trying(i)') <= Most
  <2>1. Trying(i)' = Trying(i)
    BY <1>1 DEF Trying
  <2> QED
    BY <1>0, <1>5, <2>1, TryingRemains DEF LimitsOK
<1>7. TryingInv'
  BY <1>6 DEF TryingInv, Most
<1> QED
  BY <1>5, <1>7 DEF LimitsInv

LEMMA RecordWrongKeeps ==
  ASSUME NEW a \in Attempts, NEW id \in Logins PROVE LimitsInv /\ RecordWrong(a, id) => LimitsInv'
<1> SUFFICES ASSUME LimitsInv, RecordWrong(a, id) PROVE LimitsInv'
  OBVIOUS
<1> DEFINE v == Incremented(id, LockoutMs)
           w == window[id]
           E == IF id \in Evicted THEN {} ELSE wrong[id]
<1>0. LimitsOK /\ StoreOK /\ SlidersInv /\ LoginsInv /\ TryingInv /\ AnswersInv /\ now \in Nat
  BY DEF LimitsInv, LimitsOK, StoreOK
<1>1. id \in StoreKeys /\ id \notin Callers /\ LockoutMs \in Nat \ {0} /\ Most \in Nat
  BY KeysAre, Constants
<1>2. /\ UNCHANGED <<now, answer>> /\ Incr(id, LockoutMs) /\ now <= now'
      /\ attempt[a] = id /\ attempt' = [attempt EXCEPT ![a] = "idle"]
      /\ wrong' = [Remembered(wrong, Evicted) EXCEPT ![id] = @ \cup {<<now, v.count>>}]
      /\ served' = Remembered(served, Evicted)
  BY <1>0 DEF RecordWrong
<1>3. /\ StoreOK' /\ Stored(id)' /\ window'[id] = v
      /\ \A i \in StoreKeys : i # id =>
           (Stored(i)' <=> Kept(i)) /\ (Kept(i) => window'[i] = window[i])
  BY <1>0, <1>1, <1>2, IncrKeeps
<1>4. v \in Windows /\ w \in Windows
  BY <1>0, <1>1, IncrementedIs DEF StoreOK
<1>5. <<now, v.count>> \in Events
  BY <1>0, <1>4 DEF Events, Windows
<1>6. \/ ~ Kept(id) /\ Begun(v, LockoutMs)
      \/ Kept(id) /\ w.resetAt <= now /\ now - w.resetAt >= LockoutMs /\ Begun(v, LockoutMs)
      \/ Kept(id) /\ w.resetAt <= now /\ now - w.resetAt < LockoutMs
         /\ v = [count |-> 1, resetAt |-> w.resetAt + LockoutMs, previous |-> w.count]
      \/ Kept(id) /\ now < w.resetAt /\ v = [w EXCEPT !.count = @ + 1]
  BY <1>0, <1>1, IncrementedCases
<1> HIDE DEF v
<1>7. /\ served' \in [Callers -> SUBSET Events]
      /\ \A i \in Callers : served'[i] = IF i \in Evicted THEN {} ELSE served[i]
  BY <1>0, <1>2 DEF LimitsOK, Remembered
<1>8. /\ wrong' \in [Logins -> SUBSET Events]
      /\ \A i \in Logins : i # id => wrong'[i] = IF i \in Evicted THEN {} ELSE wrong[i]
      /\ wrong'[id] = E \cup {<<now, v.count>>}
      /\ E \in SUBSET Events
  <2>1. /\ Remembered(wrong, Evicted) \in [Logins -> SUBSET Events]
        /\ \A i \in Logins : Remembered(wrong, Evicted)[i] = IF i \in Evicted THEN {} ELSE wrong[i]
    BY <1>0 DEF LimitsOK, Remembered
  <2> DEFINE r == Remembered(wrong, Evicted)
  <2>2. wrong' = [r EXCEPT ![id] = @ \cup {<<now, v.count>>}]
    BY <1>2
  <2>3. r \in [Logins -> SUBSET Events] /\ r[id] = E
    BY <2>1
  <2>4. \A i \in Logins : r[i] = IF i \in Evicted THEN {} ELSE wrong[i]
    BY <2>1
  <2> HIDE DEF r, E
  <2>5. E \in SUBSET Events
    BY <2>3
  <2>6. wrong' \in [Logins -> SUBSET Events] /\ wrong'[id] = E \cup {<<now, v.count>>}
    BY <1>5, <2>2, <2>3, <2>5
  <2> QED
    BY <2>2, <2>3, <2>4, <2>5, <2>6
<1>9. attempt' \in [Attempts -> Logins \cup {"idle"}]
  BY <1>0, <1>2 DEF LimitsOK
<1>10. LimitsOK'
  BY <1>0, <1>2, <1>3, <1>7, <1>8, <1>9 DEF LimitsOK
<1>11. CountOf(id) \in Nat /\ (Kept(id) /\ now < w.resetAt => CountOf(id) = w.count)
  BY <1>0, <1>1, CountIs DEF CountOf, Kept
<1>12. /\ Cardinality(Trying(id)) \in Nat /\ Cardinality(Trying(id)) >= 1
       /\ Cardinality(Trying(id)') = Cardinality(Trying(id)) - 1
  <2>1. a \in Trying(id) /\ IsFiniteSet(Trying(id))
    BY <1>2, TryingCount DEF Trying
  <2>2. Trying(id)' = Trying(id) \ {a}
    BY <1>0, <1>2, LimitsAssumption DEF Trying, LimitsOK
  <2>3. /\ Cardinality(Trying(id) \ {a}) = Cardinality(Trying(id)) - 1
        /\ Cardinality(Trying(id)) \in Nat
    BY <2>1, FS_RemoveElement, FS_CardinalityType
  <2>4. Trying(id) # {}
    BY <2>1
  <2>5. Cardinality(Trying(id)) # 0
    BY <2>1, <2>4, FS_EmptySet
  <2> QED
    BY <2>2, <2>3, <2>5
<1>13. CountOf(id) + Cardinality(Trying(id)) <= Most
  BY <1>0 DEF TryingInv
<1>14. Most >= 1 /\ CountOf(id) < Most
  <2> DEFINE c == CountOf(id)
             n == Cardinality(Trying(id))
  <2>1. c \in Nat /\ n \in Nat /\ n >= 1 /\ c + n <= Most
    BY <1>11, <1>12, <1>13
  <2> HIDE DEF c, n
  <2>2. c < Most /\ Most >= 1
    BY <1>1, <2>1
  <2> QED
    BY <2>2 DEF c
<1>15. LoginOK(wrong'[id], v, now)
  <2> DEFINE F == wrong'[id]
  <2>1. F = E \cup {<<now, v.count>>} /\ E \in SUBSET Events
    BY <1>8
  <2>2. (Kept(id) => LoginOK(E, w, now)) /\ (~ Kept(id) => E = {})
    BY <1>0 DEF Kept, LoginsInv
  <2> HIDE DEF E, F, w
  <2>3. CASE E = {} /\ Begun(v, LockoutMs)
    <3>1. v.count = 1
      BY <2>3 DEF Begun
    <3>2. F \in SUBSET {<<now, 1>>}
      BY <2>1, <2>3, <3>1
    <3>3. LoginOK(F, v, now)
      BY <1>0, <1>4, <1>14, <2>3, <3>2, BegunLogin
    <3> QED
      BY <3>3 DEF F
  <2>4. CASE Kept(id) /\ w.resetAt <= now /\ now - w.resetAt >= LockoutMs /\ Begun(v, LockoutMs)
    <3>1. Timely(E, w, now, LockoutMs)
      BY <2>2, <2>4 DEF LoginOK
    <3>2. E = {}
      BY <1>0, <1>1, <1>4, <2>4, <3>1, OutOfSight
    <3> QED
      BY <2>3, <2>4, <3>2
  <2>5. CASE Kept(id) /\ w.resetAt <= now /\ now - w.resetAt < LockoutMs
             /\ v = [count |-> 1, resetAt |-> w.resetAt + LockoutMs, previous |-> w.count]
    <3>1. v.count = 1 /\ v.resetAt = w.resetAt + LockoutMs /\ v.previous = w.count
      BY <2>5
    <3>2. LoginOK(E, w, now) /\ w.resetAt <= now /\ now - w.resetAt < LockoutMs
      BY <2>2, <2>5
    <3>3. LoginOK(E \cup {<<now, 1>>}, v, now)
      BY <1>0, <1>4, <1>14, <2>1, <3>1, <3>2, SlidLogin
    <3>4. F = E \cup {<<now, 1>>}
      BY <2>1, <3>1
    <3> QED
      BY <3>3, <3>4 DEF F
  <2>6. CASE Kept(id) /\ now < w.resetAt /\ v = [w EXCEPT !.count = @ + 1]
    <3>1. v.count = w.count + 1 /\ v.resetAt = w.resetAt /\ v.previous = w.previous
      BY <1>4, <2>6 DEF Windows
    <3>2. LoginOK(E, w, now) /\ now < w.resetAt
      BY <2>2, <2>6
    <3>3. w.count < Most
      BY <1>11, <1>14, <2>6
    <3>4. LoginOK(E \cup {<<now, v.count>>}, v, now)
      BY <1>0, <1>4, <2>1, <3>1, <3>2, <3>3, CountedLogin
    <3> QED
      BY <2>1, <3>4 DEF F
  <2> QED
    BY <1>6, <2>2, <2>3, <2>4, <2>5, <2>6 DEF w
<1>16. ASSUME NEW i \in StoreKeys, i # id
       PROVE  /\ Stored(i)' <=> Stored(i) /\ i \notin Evicted
              /\ Stored(i)' => Stored(i) /\ window'[i] = window[i]
  BY <1>3, <1>16 DEF Kept
<1>17. ASSUME NEW i \in Logins
       PROVE  IF Stored(i)' THEN LoginOK(wrong'[i], window'[i], now') ELSE wrong'[i] = {}
  <2>1. CASE i = id
    BY <1>2, <1>3, <1>15, <2>1
  <2>2. CASE i # id
    <3>1. i \in StoreKeys /\ wrong'[i] = IF i \in Evicted THEN {} ELSE wrong[i]
      BY <1>8, <2>2, KeysAre
    <3> QED
      BY <1>0, <1>2, <1>16, <2>2, <3>1, LoginRemains
  <2> QED
    BY <2>1, <2>2
<1>18. ASSUME NEW i \in Sliders
       PROVE  IF Stored(i)' THEN SliderOK(served'[i], window'[i], now') ELSE served'[i] = {}
  <2>1. i \in StoreKeys /\ i \in Callers /\ i # id
    BY <1>1, KeysAre
  <2> QED
    BY <1>0, <1>2, <1>7, <1>16, <2>1, SliderRemains
<1>19. ASSUME NEW i \in Logins
       PROVE  CountOf(i)' + Cardinality(Trying(i)') <= Most
  <2>1. CASE i = id
    <3>1. CountOf(id)' \in Nat /\ CountOf(id)' <= CountOf(id) + 1
      <4>1. CountOf(id)' \in {v.count, 0} /\ v.count \in Nat
        BY <1>3, <1>4 DEF CountOf, Windows
      <4>2. v.count = 1 \/ v.count = CountOf(id) + 1
        BY <1>4, <1>6, <1>11 DEF Begun, Windows
      <4> DEFINE b == CountOf(id)'
                 c == CountOf(id)
      <4>3. b \in {v.count, 0} /\ v.count \in Nat /\ (v.count = 1 \/ v.count = c + 1) /\ c \in Nat
        BY <1>11, <4>1, <4>2
      <4> HIDE DEF b, c
      <4>4. b \in Nat /\ b <= c + 1
        BY <4>3
      <4> QED
        BY <4>4 DEF b, c
    <3> DEFINE b == CountOf(id)'
               c == CountOf(id)
               m == Cardinality(Trying(id)')
               n == Cardinality(Trying(id))
    <3>2. /\ b \in Nat /\ c \in Nat /\ n \in Nat /\ m = n - 1 /\ n >= 1
          /\ b <= c + 1 /\ c + n <= Most
      BY <1>11, <1>12, <1>13, <3>1
    <3> HIDE DEF b, c, m, n
    <3>3. b + m <= Most
      BY <1>1, <3>2
    <3> QED
      BY <2>1, <3>3 DEF b, m
  <2>2. CASE i # id
    <3>1. Trying(i)' = Trying(i)
      BY <1>0, <1>2, <2>2, LimitsAssumption DEF Trying, LimitsOK
    <3>2. CountOf(i)' <= CountOf(i)
      BY <1>0, <1>2, <1>3, <1>16, <2>2, KeysAre, CountFalls
    <3> QED
      BY <1>0, <1>3, <3>1, <3>2, TryingRemains
  <2> QED
    BY <2>1, <2>2
<1>20. AnswersInv'
  <2>1. SUFFICES ASSUME NEW k \in Callers
                 PROVE  /\ answer'[k].at <= now'
                        /\ Stored(k)' => \/ window'[k].resetAt - WindowMs <= answer'[k].at
                                         \/ window'[k].resetAt - WindowMs <= now' - 2 * WindowMs
    BY DEF AnswersInv
  <2>2. k \in StoreKeys /\ k # id /\ answer'[k] = answer[k]
    BY <1>1, <1>2, KeysAre
  <2> QED
    BY <1>0, <1>2, <1>16, <2>2, AnswerRemains
<1>21. SlidersInv' /\ LoginsInv' /\ TryingInv'
  BY <1>17, <1>18, <1>19 DEF SlidersInv, LoginsInv, TryingInv, Most
<1> QED
  BY <1>10, <1>20, <1>21 DEF LimitsInv

-----------------------------------------------------------------------------
LEMMA LimitsInitial == LimitsInit => LimitsInv
<1> SUFFICES ASSUME LimitsInit PROVE LimitsInv
  OBVIOUS
<1>1. /\ now = 0 /\ order = <<>> /\ window = [k \in StoreKeys |-> NoWindow]
      /\ answer = [k \in Callers |-> [at |-> Never, refused |-> FALSE]]
      /\ attempt = [a \in Attempts |-> "idle"]
      /\ served = [k \in Callers |-> {}] /\ wrong = [k \in Logins |-> {}]
  BY DEF LimitsInit, StoreInit
<1>2. \A k : ~ Stored(k)
  BY <1>1 DEF Stored, Contains
<1>3. Never \in Int /\ Never <= 0
  BY Constants DEF Never
<1>4. NoWindow \in Windows
  BY DEF NoWindow, Windows
<1>5. StoreOK
  BY <1>1, <1>2, <1>4 DEF StoreOK
<1>6. LimitsOK
  BY <1>1, <1>3, <1>5 DEF LimitsOK
<1>7. SlidersInv /\ LoginsInv
  BY <1>1, <1>2, KeysAre DEF SlidersInv, LoginsInv
<1>8. AnswersInv
  BY <1>1, <1>2, <1>3 DEF AnswersInv
<1>9. TryingInv
  <2>1. SUFFICES ASSUME NEW id \in Logins PROVE CountOf(id) + Cardinality(Trying(id)) <= Most
    BY DEF TryingInv
  <2>2. CountOf(id) = 0
    BY <1>2 DEF CountOf
  <2>3. Trying(id) = {}
    BY <1>1, LimitsAssumption DEF Trying
  <2>4. Cardinality(Trying(id)) = 0
    BY <2>3, FS_EmptySet
  <2> QED
    BY <2>2, <2>4, Constants
<1> QED
  BY <1>6, <1>7, <1>8, <1>9 DEF LimitsInv

LEMMA LimitsInductive == LimitsInv /\ [LimitsNext]_limitVars => LimitsInv'
<1> SUFFICES ASSUME LimitsInv, [LimitsNext]_limitVars PROVE LimitsInv'
  OBVIOUS
<1>1. CASE ClockMoves
  BY <1>1, ClockMovesKeeps
<1>2. CASE \E k \in Callers : Ask(k)
  BY <1>2, AskKeeps
<1>3. CASE \E a \in Attempts, id \in Logins : Check(a, id) \/ RecordRight(a, id) \/ RecordWrong(a, id)
  BY <1>3, CheckKeeps, RecordRightKeeps, RecordWrongKeeps
<1>4. CASE Sweeps
  BY <1>4, SweepsKeeps
<1>5. CASE UNCHANGED limitVars
  <2>1. UNCHANGED <<now, order, window, answer, attempt, served, wrong>>
    BY <1>5 DEF limitVars
  <2>2. \A i : (Stored(i)' <=> Stored(i)) /\ CountOf(i)' = CountOf(i) /\ Trying(i)' = Trying(i)
    BY <2>1 DEF Stored, CountOf, Trying
  <2>3. LimitsOK'
    BY <2>1, <2>2 DEF LimitsInv, LimitsOK, StoreOK
  <2>4. SlidersInv' /\ LoginsInv' /\ AnswersInv'
    BY <2>1, <2>2 DEF LimitsInv, SlidersInv, LoginsInv, AnswersInv
  <2>5. TryingInv'
    BY <2>2 DEF LimitsInv, TryingInv, Most
  <2> QED
    BY <2>3, <2>4, <2>5 DEF LimitsInv
<1> QED
  BY <1>1, <1>2, <1>3, <1>4, <1>5 DEF LimitsNext

LEMMA LimitsAlways == LimitsSpec => []LimitsInv
<1> QED
  BY LimitsInitial, LimitsInductive, PTL DEF LimitsSpec

(* No caller of a sliding limiter gets two budgets into one length of a window:
   whatever was admitted before the current window left the current one a budget
   less one (slidingCount, rate-limit-store.ts:158-170).                    *)
THEOREM BurstsAreSingle == LimitsSpec => []NoDoubleBurst
<1>1. LimitsInv => NoDoubleBurst
  <2> SUFFICES ASSUME LimitsInv, NEW k \in Sliders PROVE Cardinality(served[k]) < 2 * Budget
    BY DEF NoDoubleBurst
  <2>0. Budget \in Nat \ {0} /\ k \in StoreKeys /\ k \in Callers
    BY Constants, KeysAre
  <2>1. CASE ~ Stored(k)
    <3>1. served[k] = {}
      BY <2>1 DEF LimitsInv, SlidersInv
    <3>2. Cardinality(served[k]) = 0
      BY <3>1, FS_EmptySet
    <3> QED
      BY <2>0, <3>2
  <2>2. CASE Stored(k)
    <3> DEFINE S == served[k]
               w == window[k]
               n == Newer(S, w, WindowMs)
               o == Older(S, w, WindowMs)
    <3>1. SliderOK(S, w, now) /\ w \in Windows /\ S \in SUBSET Events
      BY <2>0, <2>2 DEF LimitsInv, LimitsOK, StoreOK, SlidersInv
    <3>2. S \subseteq n \cup o
      BY <3>1, Constants DEF Newer, Older, Windows, Events
    <3> HIDE DEF S, w
    <3>3. /\ AtMost(n, Budget) /\ AtMost(o, Budget) /\ (o # {} => w.previous >= 1)
          /\ (w.previous >= 1 => AtMost(n, Budget - 1))
      BY <3>1 DEF SliderOK
    <3> HIDE DEF n, o
    <3>4. AtMost(S, 2 * Budget - 1)
      <4>1. CASE o = {}
        <5>1. S \in SUBSET n
          BY <3>2, <4>1
        <5>2. AtMost(S, Budget)
          BY <2>0, <3>3, <5>1, AtMostSome
        <5>3. 2 * Budget - 1 \in Nat /\ Budget <= 2 * Budget - 1
          BY <2>0
        <5> QED
          BY <2>0, <5>2, <5>3, AtMostUp
      <4>2. CASE o # {}
        <5>1. Budget - 1 \in Nat /\ (Budget - 1) + Budget = 2 * Budget - 1 /\ 2 * Budget - 1 \in Nat
          BY <2>0
        <5>2. AtMost(n \cup o, (Budget - 1) + Budget)
          BY <2>0, <3>3, <4>2, <5>1, AtMostBoth
        <5>3. AtMost(n \cup o, 2 * Budget - 1) /\ S \in SUBSET (n \cup o)
          BY <3>2, <5>1, <5>2
        <5> QED
          BY <5>1, <5>3, AtMostSome
      <4> QED
        BY <4>1, <4>2
    <3>5. Cardinality(S) \in Nat /\ Cardinality(S) <= 2 * Budget - 1
      BY <3>4, FS_CardinalityType DEF AtMost
    <3> QED
      BY <2>0, <3>5 DEF S
  <2> QED
    BY <2>1, <2>2
<1> QED
  BY <1>1, LimitsAlways, PTL

(* Logins whose checks overtake one another's records get in at most one wrong
   password per login request in progress beyond the limit, in each of the two
   windows in view (checkThrottle and recordAttempt, auth-throttle.ts).     *)
THEOREM GuessesAreBounded == LimitsSpec => []GuessBound
<1>1. LimitsInv => GuessBound
  <2> SUFFICES ASSUME LimitsInv, NEW id \in Logins
               PROVE  Cardinality(wrong[id]) <= 2 * (MaxAttempts - 1 + Cardinality(Attempts))
    BY DEF GuessBound
  <2>0. Most \in Nat /\ id \in StoreKeys
    BY Constants, KeysAre
  <2>1. CASE ~ Stored(id)
    <3>1. wrong[id] = {}
      BY <2>1 DEF LimitsInv, LoginsInv
    <3>2. Cardinality(wrong[id]) = 0
      BY <3>1, FS_EmptySet
    <3> QED
      BY <2>0, <3>2 DEF Most
  <2>2. CASE Stored(id)
    <3> DEFINE S == wrong[id]
               w == window[id]
               n == Newer(S, w, LockoutMs)
               o == Older(S, w, LockoutMs)
    <3>1. LoginOK(S, w, now) /\ w \in Windows /\ S \in SUBSET Events
      BY <2>0, <2>2 DEF LimitsInv, LimitsOK, StoreOK, LoginsInv
    <3>2. S \in SUBSET (n \cup o)
      BY <3>1, Constants DEF Newer, Older, Windows, Events
    <3> HIDE DEF S, w
    <3>3. AtMost(n, w.count) /\ AtMost(o, Most) /\ w.count <= Most /\ w.count \in Nat
      BY <3>1 DEF LoginOK, Windows
    <3> HIDE DEF n, o
    <3>4. AtMost(n, Most)
      BY <2>0, <3>3, AtMostUp
    <3>5. AtMost(n \cup o, Most + Most) /\ Most + Most \in Nat
      BY <2>0, <3>3, <3>4, AtMostBoth
    <3>6. AtMost(S, Most + Most)
      BY <3>2, <3>5, AtMostSome
    <3>7. Cardinality(S) \in Nat /\ Cardinality(S) <= Most + Most /\ Most + Most = 2 * Most
      BY <2>0, <3>6, FS_CardinalityType DEF AtMost
    <3>8. Cardinality(S) <= 2 * Most
      BY <3>7
    <3> QED
      BY <3>8 DEF S, Most
  <2> QED
    BY <2>1, <2>2
<1> QED
  BY <1>1, LimitsAlways, PTL

(* A caller that kept quiet for two windows finds a window that begins with its
   request, and is served (incrSync, rate-limit-store.ts).                 *)
THEOREM WaitersAreServed == LimitsSpec => WaiterServed
<1>1. LimitsInv /\ [LimitsNext]_limitVars =>
        [\A k \in Callers :
           answer[k].at <= now - 2 * WindowMs /\ answer'[k].at = now => ~ answer'[k].refused]_limitVars
  <2> SUFFICES ASSUME LimitsInv, LimitsNext, NEW k \in Callers,
                      answer[k].at <= now - 2 * WindowMs, answer'[k].at = now
               PROVE  ~ answer'[k].refused
    OBVIOUS
  <2>0. /\ StoreOK /\ LimitsOK /\ now \in Nat /\ k \in StoreKeys
        /\ WindowMs \in Nat \ {0} /\ Budget \in Nat \ {0} /\ answer[k].at \in Int
    BY KeysAre, Constants DEF LimitsInv, LimitsOK, StoreOK
  <2>1. answer[k].at # now
    BY <2>0
  <2>2. ~ ClockMoves
    <3>1. SUFFICES ASSUME ClockMoves PROVE FALSE
      OBVIOUS
    <3>2. answer'[k].at \in {answer[k].at, 0 - 2 * WindowMs}
      BY <2>0, <3>1 DEF ClockMoves, LimitsOK, Clipped, Never
    <3> QED
      BY <2>0, <2>1, <3>2
  <2>3. answer' # answer
    BY <2>1
  <2>4. PICK j \in Callers : Ask(j)
    BY <2>2, <2>3 DEF LimitsNext, Check, RecordRight, RecordWrong, Sweeps
  <2> DEFINE v == Incremented(k, WindowMs)
             w == window[k]
  <2>5. j = k
    BY <2>0, <2>1, <2>4 DEF Ask, LimitsOK
  <2>6. answer'[k].refused = Refused(k, v)
    BY <2>0, <2>4, <2>5 DEF Ask, LimitsOK
  <2>7. Begun(v, WindowMs)
    <3>1. Kept(k) => now - w.resetAt >= WindowMs
      <4>1. w.resetAt \in Nat
        BY <2>0 DEF StoreOK, Windows
      <4>2. Stored(k) => \/ w.resetAt - WindowMs <= answer[k].at
                         \/ w.resetAt - WindowMs <= now - 2 * WindowMs
        BY DEF LimitsInv, AnswersInv
      <4> QED
        BY <2>0, <4>1, <4>2 DEF Kept
    <3>2. w.resetAt \in Nat
      BY <2>0 DEF StoreOK, Windows
    <3>3. Kept(k) => ~ now - w.resetAt < WindowMs /\ ~ now < w.resetAt
      BY <2>0, <3>1, <3>2
    <3> QED
      BY <2>0, <3>3, IncrementedCases
  <2> HIDE DEF v
  <2>8. v = [count |-> 1, resetAt |-> now + WindowMs, previous |-> 0]
    BY <2>7 DEF Begun
  <2>9. v.count = 1 /\ v.previous = 0 /\ v.resetAt \in Nat
    BY <2>0, <2>8
  <2>10. ~ v.count > Budget
    BY <2>0, <2>9
  <2>11. ~ Sliding(v, WindowMs) > Budget * WindowMs
    <3> DEFINE inView == IF now - (v.resetAt - WindowMs) < 0 THEN WindowMs
                         ELSE IF now - (v.resetAt - WindowMs) > WindowMs THEN 0
                         ELSE WindowMs - (now - (v.resetAt - WindowMs))
    <3>1. inView \in Int
      BY <2>0, <2>9
    <3>2. Sliding(v, WindowMs) = 1 * WindowMs + 0 * inView
      BY <2>9 DEF Sliding
    <3> HIDE DEF inView
    <3>3. Sliding(v, WindowMs) = WindowMs
      BY <2>0, <3>1, <3>2
    <3>4. Budget * WindowMs >= WindowMs /\ Budget * WindowMs \in Nat
      BY <2>0
    <3> QED
      BY <2>0, <3>3, <3>4
  <2> QED
    BY <2>6, <2>10, <2>11 DEF Refused
<1> QED
  BY <1>1, LimitsAlways, PTL DEF LimitsSpec, WaiterServed

=============================================================================
