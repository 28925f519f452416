-------------------------- MODULE RateLimitStore ---------------------------
(***************************************************************************)
(* InMemoryStore (rate-limit-store.ts): the map of counting windows behind *)
(* the rate limiters and the login throttle.  Every method is synchronous, *)
(* so an action is one call; the clock moves between calls.                *)
(***************************************************************************)
EXTENDS Integers, SequencesExt, Orders

CONSTANTS
  StoreKeys,    \* bucket keys and throttle identifiers
  MaxEntries    \* MAX_ENTRIES

ASSUME StoreAssumption == MaxEntries \in Nat \ {0}

VARIABLES
  now,       \* Date.now()
  order,     \* the keys of the map, oldest insertion first
  window     \* per key of the map: count, resetAt and previousCount

storeVars == <<order, window>>

NoWindow == [count |-> 0, resetAt |-> 0, previous |-> 0]

StoreInit ==
  /\ now = 0
  /\ order = <<>>
  /\ window = [k \in StoreKeys |-> NoWindow]

Stored(k) == Contains(order, k)

(* The map is full: its oldest key goes, be it the one that is asked for. *)
Room == IF Len(order) >= MaxEntries THEN Tail(order) ELSE order

FaultyReopened(old, length) ==   \* opened at the request, carried for ever
  [count |-> 1, resetAt |-> now + length, previous |-> old.count]

(* The window after an expired one: anchored to its end while they overlap. *)
Reopened(old, length) ==
  IF now - old.resetAt < length
  THEN [count |-> 1, resetAt |-> old.resetAt + length, previous |-> old.count]
  ELSE [count |-> 1, resetAt |-> now + length, previous |-> 0]

(* What incrSync leaves under k, and returns. *)
Incremented(k, length) ==
  IF ~ Contains(Room, k)
  THEN [count |-> 1, resetAt |-> now + length, previous |-> 0]
  ELSE IF now >= window[k].resetAt
       THEN Reopened(window[k], length)
       ELSE [window[k] EXCEPT !.count = @ + 1]

Evicted == ToSet(order) \ ToSet(Room)

Incr(k, length) ==
  /\ order' = IF Contains(Room, k) THEN Room ELSE Append(Room, k)
  /\ window' = [i \in StoreKeys |-> IF i = k THEN Incremented(k, length)
                                    ELSE IF i \in Evicted THEN NoWindow ELSE window[i]]

(* get(): the count of a window that has not expired, or 0 for null. *)
CountOf(k) == IF Stored(k) /\ now < window[k].resetAt THEN window[k].count ELSE 0

(* reset() *)
Reset(k) ==
  /\ order' \in Filtered(order, StoreKeys \ {k})
  /\ window' = [window EXCEPT ![k] = NoWindow]

(* sweepExpired(), the timer's. *)
Over == {k \in ToSet(order) : window[k].resetAt <= now}

Sweep ==
  /\ order' \in Filtered(order, StoreKeys \ Over)
  /\ window' = [k \in StoreKeys |-> IF k \in Over THEN NoWindow ELSE window[k]]

FaultySliding(w, length) == w.count * length   \* the carry is dropped

(* slidingCount, times the length of a window: the current count and what is
   still in view of the previous one.                                      *)
Sliding(w, length) ==
  LET elapsed == now - (w.resetAt - length)
      inView == IF elapsed < 0 THEN length ELSE IF elapsed > length THEN 0 ELSE length - elapsed
  IN w.count * length + w.previous * inView

=============================================================================
