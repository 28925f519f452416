----------------------------- MODULE RateLimits ----------------------------
(***************************************************************************)
(* Who counts in the store: the rate limiters that answer requests         *)
(* (rate-limit.ts, rate-limit-durable.ts, rate-limit-per-route.ts), and    *)
(* the login throttle (auth-throttle.ts), whose check and record have the  *)
(* verification of a password between them.                                *)
(***************************************************************************)
EXTENDS RateLimitStore

CONSTANTS
  Callers,       \* bucket keys of the limiters
  Sliders,      \* those a limiter with the sliding count answers
  WindowMs,
  Budget,        \* max
  Logins,        \* identifiers of the throttle
  MaxAttempts,
  LockoutMs,
  Attempts,      \* login requests that may be in progress at once
  MaxTime,       \* bound: the clock
  MaxCount       \* bound: requests of one caller counted in one window

ASSUME LimitsAssumption ==
  /\ StoreKeys = Callers \cup Logins
  /\ Sliders \subseteq Callers
  /\ {WindowMs, Budget, MaxAttempts, LockoutMs} \subseteq Nat \ {0}
  /\ Callers \cap Logins = {}        \* addresses and routes; hashes of credentials
  /\ "idle" \notin Logins /\ IsFiniteSet(Attempts)

VARIABLES
  answer,     \* per caller: when it last asked, and whether it was refused
  attempt,    \* per login request: idle, or the identifier it is verifying
  served,     \* history, per caller: its last requests that were let through
  wrong       \* history, per login: its last wrong passwords; of both, when, and
              \* as which of its window, since the store last dropped that window

limitVars == <<now, order, window, answer, attempt, served, wrong>>

Never == 0 - 2 * WindowMs

(* What lies further back than any property looks is not kept. *)
Recent(events, length, t) == {e \in events : e[1] > t - length}
Clipped(at, t) == IF at > t - 2 * WindowMs THEN at ELSE Never

LimitsInit ==
  /\ StoreInit
  /\ answer = [k \in Callers |-> [at |-> Never, refused |-> FALSE]]
  /\ attempt = [a \in Attempts |-> "idle"]
  /\ served = [k \in Callers |-> {}]
  /\ wrong = [k \in Logins |-> {}]

Remembered(events, keys) == [k \in DOMAIN events |-> IF k \in keys THEN {} ELSE events[k]]

ClockMoves ==
  /\ now < MaxTime
  /\ now' = now + 1
  /\ served' = [k \in Callers |-> Recent(served[k], WindowMs, now')]
  /\ wrong' = [k \in Logins |-> Recent(wrong[k], LockoutMs, now')]
  /\ answer' = [k \in Callers |-> [answer[k] EXCEPT !.at = Clipped(@, now')]]
  /\ UNCHANGED <<order, window, attempt>>

(* count > max: the refused request is counted too. *)
Refused(k, w) ==
  IF k \in Sliders THEN Sliding(w, WindowMs) > Budget * WindowMs ELSE w.count > Budget

(* A request is answered. *)
Ask(k) ==
  /\ Stored(k) => window[k].count < MaxCount
  /\ Incr(k, WindowMs)
  /\ LET w == Incremented(k, WindowMs) IN
       /\ answer' = [answer EXCEPT ![k] = [at |-> now, refused |-> Refused(k, w)]]
       /\ served' = LET kept == Remembered(served, Evicted)
                    IN IF Refused(k, w) THEN kept ELSE [kept EXCEPT ![k] = @ \cup {<<now, w.count>>}]
  /\ wrong' = Remembered(wrong, Evicted)
  /\ UNCHANGED <<now, attempt>>

FaultyCheck(a, id) ==            \* one attempt too many
  /\ attempt[a] = "idle"
  /\ CountOf(id) <= MaxAttempts
  /\ attempt' = [attempt EXCEPT ![a] = id]
  /\ UNCHANGED <<now, order, window, answer, served, wrong>>

(* checkThrottle() lets the login request through to the verification. *)
Check(a, id) ==
  /\ attempt[a] = "idle"
  /\ CountOf(id) < MaxAttempts
  /\ attempt' = [attempt EXCEPT ![a] = id]
  /\ UNCHANGED <<now, order, window, answer, served, wrong>>

(* recordAttempt(): a right password forgets the wrong ones. *)
RecordRight(a, id) ==
  /\ attempt[a] = id
  /\ attempt' = [attempt EXCEPT ![a] = "idle"]
  /\ Reset(id)
  /\ wrong' = Remembered(wrong, {id})
  /\ UNCHANGED <<now, answer, served>>

RecordWrong(a, id) ==
  /\ attempt[a] = id
  /\ attempt' = [attempt EXCEPT ![a] = "idle"]
  /\ Incr(id, LockoutMs)
  /\ wrong' = [Remembered(wrong, Evicted) EXCEPT ![id] =
                 @ \cup {<<now, Incremented(id, LockoutMs).count>>}]
  /\ served' = Remembered(served, Evicted)
  /\ UNCHANGED <<now, answer>>

Sweeps ==
  /\ Over # {}
  /\ Sweep
  /\ served' = Remembered(served, Over)
  /\ wrong' = Remembered(wrong, Over)
  /\ UNCHANGED <<now, answer, attempt>>

LimitsNext ==
  \/ ClockMoves
  \/ \E k \in Callers : Ask(k)
  \/ \E a \in Attempts, id \in Logins :
       Check(a, id) \/ RecordRight(a, id) \/ RecordWrong(a, id)
  \/ Sweeps

LimitsSpec == LimitsInit /\ [][LimitsNext]_limitVars

-----------------------------------------------------------------------------
(* B-261: a caller of a sliding limiter never gets two budgets into the
   length of one window, wherever the boundary falls and however its refused
   requests were counted, as long as the store keeps its window: a sweep or
   the eviction at the limit begin anew (rate-limit-store.ts:57-72).       *)
NoDoubleBurst ==
  \A k \in Sliders : Cardinality(served[k]) < 2 * Budget

(* A caller that kept quiet for two windows is not refused: what it did
   before has slid out of view (rate-limit-store.ts:158-170).              *)
WaiterServed ==
  [][\A k \in Callers :
       answer[k].at <= now - 2 * WindowMs /\ answer'[k].at = now => ~ answer'[k].refused]_limitVars

(* Logins that overtake one another between the check and the record get in
   no more wrong passwords than one per request in progress beyond the limit,
   in each of the two lockout windows an interval of their length can touch. *)
GuessBound ==
  \A id \in Logins :
    Cardinality(wrong[id]) <= 2 * (MaxAttempts - 1 + Cardinality(Attempts))

=============================================================================
