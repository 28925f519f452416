--------------------------- MODULE ThreadsProofs ----------------------------
(***************************************************************************)
(* Proofs about Threads, for any number of follow-ups, plain runs, clients *)
(* and frames.                                                             *)
(***************************************************************************)
EXTENDS Threads, FiniteSetTheorems, SequenceTheorems, TLAPS

TypeOK ==
  /\ buffer \in [Runs -> {"none", "live", "ended", "evicted"}]
  /\ frames \in [Runs -> Nat]
  /\ listeners \in [Runs -> SUBSET Clients]
  /\ clientPc \in [Clients -> {"off", "waiting", "attached", "done", "cut"}]
  /\ following \in [Clients -> Runs \cup {NoRun}]
  /\ got \in [Clients -> Seq(Nat)]
  /\ pull \in [Pulled -> {"none", "ready", "pending", "over", "gone"}]
  /\ finished \in [Pulled -> BOOLEAN]
  /\ waiters \in SUBSET Clients
  /\ active \in Pumped \cup {NoRun}
  /\ queue \in Seq(Nat)
  /\ prompt \in [Pumped -> Nat]
  /\ accepted \in 0..MaxPosts

(* The follow-ups that have a run are the oldest ones, each its own, and the
   queue holds the others; nothing waits for nobody. *)
QueueInv ==
  /\ Len(queue) <= accepted
  /\ \A r \in Pumped : prompt[r] = IF r <= accepted - Len(queue) THEN r ELSE NoPost
  /\ \A i \in 1..Len(queue) : queue[i] = accepted - Len(queue) + i
  /\ queue # <<>> => active # NoRun

(* Where a run has frames, and what the end of a plain run leaves. *)
RunsInv ==
  /\ \A r \in Pumped : prompt[r] = NoPost => buffer[r] = "none" /\ frames[r] = 0
  /\ \A r \in Pulled :
       /\ finished[r] => pull[r] \in {"pending", "over", "gone"}
       /\ ~ finished[r] => /\ buffer[r] \in {"none", "live"}
                           /\ buffer[r] = "none" => frames[r] = 0
                           /\ pull[r] \notin {"over", "gone"}
       /\ finished[r] /\ pull[r] = "pending" => buffer[r] # "live"

(* What a client holds of the run it follows. *)
ClientInv ==
  \A c \in Clients :
    /\ \A i \in 1..Len(got[c]) : got[c][i] = i - 1
    /\ clientPc[c] \in {"attached", "done"} => following[c] # NoRun
    /\ clientPc[c] = "attached" => buffer[following[c]] = "live"
    /\ following[c] # NoRun =>
         /\ buffer[following[c]] # "none"
         /\ ~ Cancelled(following[c]) =>
              /\ Len(got[c]) <= frames[following[c]]
              /\ clientPc[c] \in {"attached", "done"} => Len(got[c]) = frames[following[c]]
              /\ clientPc[c] = "done" => buffer[following[c]] \in {"ended", "evicted"}

IInv == TypeOK /\ QueueInv /\ OneRun /\ NoLeak /\ RunsInv /\ ClientInv

-----------------------------------------------------------------------------
(* The sequence numbers of a run, from its first frame on. *)
FromStart(s) == s \in Seq(Nat) /\ \A i \in 1..Len(s) : s[i] = i - 1

LEMMA NextFrame ==
  ASSUME NEW s, FromStart(s)
  PROVE  FromStart(Append(s, Len(s))) /\ Len(Append(s, Len(s))) = Len(s) + 1
BY DEF FromStart

LEMMA NothingMissed ==
  ASSUME NEW t, t \in [1..0 -> Nat]
  PROVE  t \in Seq(Nat) /\ Len(t) = 0
<1>1. t \in Seq(Nat)
  BY SeqDef
<1>2. Len(t) \in Nat /\ DOMAIN t = 1..Len(t) /\ DOMAIN t = 1..0
  BY <1>1, LenProperties
<1> QED
  BY <1>1, <1>2

LEMMA Continued ==
  ASSUME NEW s, FromStart(s), NEW t \in Seq(Nat), \A i \in 1..Len(t) : t[i] = Len(s) + i - 1
  PROVE  FromStart(s \o t) /\ Len(s \o t) = Len(s) + Len(t)
<1>0. s \in Seq(Nat) /\ Len(s) \in Nat /\ Len(t) \in Nat
  BY DEF FromStart
<1>1. /\ s \o t \in Seq(Nat) /\ Len(s \o t) = Len(s) + Len(t)
      /\ \A i \in 1 .. Len(s) + Len(t) : (s \o t)[i] = IF i <= Len(s) THEN s[i] ELSE t[i - Len(s)]
  BY <1>0, ConcatProperties
<1>2. ASSUME NEW i \in 1..(Len(s) + Len(t)) PROVE (s \o t)[i] = i - 1
  <2>1. CASE i <= Len(s)
    BY <1>0, <1>1, <2>1 DEF FromStart
  <2>2. CASE ~ (i <= Len(s))
    <3>1. i - Len(s) \in 1..Len(t)
      BY <1>0, <2>2
    <3>2. (s \o t)[i] = t[i - Len(s)]
      BY <1>1, <2>2
    <3>3. t[i - Len(s)] = Len(s) + (i - Len(s)) - 1
      BY <3>1
    <3> QED
      BY <1>0, <3>2, <3>3
  <2> QED
    BY <2>1, <2>2
<1> QED
  BY <1>1, <1>2 DEF FromStart

(* A replay continues what the client has, up to the last frame. *)
LEMMA Replay ==
  ASSUME NEW s, FromStart(s), NEW n \in Nat,
         NEW t, t = [i \in 1..(n - Len(s)) |-> Len(s) + i - 1]
  PROVE  /\ FromStart(s \o t)
         /\ Len(s) <= n => Len(s \o t) = n
<1>0. s \in Seq(Nat) /\ Len(s) \in Nat
  BY DEF FromStart
<1>1. CASE Len(s) <= n
  <2>1. n - Len(s) \in Nat /\ \A i \in 1..(n - Len(s)) : Len(s) + i - 1 \in Nat
    BY <1>0, <1>1
  <2>2. t \in Seq(Nat) /\ Len(t) = n - Len(s)
    BY <2>1
  <2>3. \A i \in 1..Len(t) : t[i] = Len(s) + i - 1
    BY <2>2
  <2>4. FromStart(s \o t) /\ Len(s \o t) = Len(s) + Len(t)
    BY <2>2, <2>3, Continued
  <2> QED
    BY <1>0, <2>2, <2>4
<1>2. CASE ~ (Len(s) <= n)
  <2>1. 1..(n - Len(s)) = 1..0 /\ 1..0 = {}
    BY <1>0, <1>2
  <2>2. t \in [1..0 -> Nat]
    BY <2>1
  <2>3. t \in Seq(Nat) /\ Len(t) = 0
    BY <2>2, NothingMissed
  <2>4. FromStart(s \o t)
    BY <2>1, <2>3, Continued
  <2> QED
    BY <1>2, <2>4
<1> QED
  BY <1>1, <1>2

-----------------------------------------------------------------------------
(* Who listens to a run is attached to it and has all its frames so far, and the
   run, if it may still go on, has none that a client was not told of. *)
LEMMA ListenersHaveAll ==
  ASSUME IInv, NEW r \in Runs, NEW c \in listeners[r]
  PROVE  /\ c \in Clients /\ clientPc[c] = "attached" /\ following[c] = r
         /\ buffer[r] = "live"
         /\ ~ Cancelled(r) => Len(got[c]) = frames[r]
<1>1. c \in Clients /\ clientPc[c] = "attached" /\ following[c] = r
  BY DEF IInv, NoLeak
<1>2. r # NoRun
  BY ThreadsAssumption
<1> QED
  BY <1>1, <1>2 DEF IInv, ClientInv

(* A run that frames are appended to: one of the thread that streams, or a plain
   one that was asked for its next chunk. *)
Goes(r) == IF r \in Pumped THEN buffer[r] = "live" ELSE pull[r] = "pending"

LEMMA AppendEffect ==
  ASSUME IInv, NEW r \in Runs, Goes(r), Append1(r)
  PROVE  /\ buffer' \in [Runs -> {"none", "live", "ended", "evicted"}]
         /\ frames' \in [Runs -> Nat]
         /\ got' \in [Clients -> Seq(Nat)]
         /\ UNCHANGED <<listeners, clientPc, following>>
         /\ \A q \in Runs \ {r} : buffer'[q] = buffer[q] /\ frames'[q] = frames[q]
         /\ buffer'[r] # "none" /\ (buffer[r] = "live" => buffer'[r] = "live")
         /\ ~ Cancelled(r) => buffer'[r] = "live" /\ frames'[r] = frames[r] + 1
         /\ \A c \in Clients :
              /\ FromStart(got'[c])
              /\ got'[c] = got[c] \/ c \in listeners[r]
              /\ c \in listeners[r] => ~ Cancelled(r) /\ Len(got'[c]) = Len(got[c]) + 1
<1> DEFINE seq == IF Cached(r) THEN frames[r] ELSE 0
<1>0. frames[r] \in Nat /\ seq \in Nat
  BY DEF IInv, TypeOK
<1>1. /\ buffer' = [buffer EXCEPT ![r] = IF Cached(r) THEN @ ELSE "live"]
      /\ frames' = [frames EXCEPT ![r] = seq + 1]
      /\ got' = [c \in Clients |-> IF c \in listeners[r] THEN Append(got[c], seq) ELSE got[c]]
      /\ UNCHANGED <<listeners, clientPc, following>>
  BY DEF Append1
<1> HIDE DEF seq
<1>2. buffer' \in [Runs -> {"none", "live", "ended", "evicted"}] /\ frames' \in [Runs -> Nat]
  BY <1>0, <1>1 DEF IInv, TypeOK
<1>3. /\ \A q \in Runs \ {r} : buffer'[q] = buffer[q] /\ frames'[q] = frames[q]
      /\ buffer'[r] = IF Cached(r) THEN buffer[r] ELSE "live"
      /\ frames'[r] = seq + 1
  BY <1>1 DEF IInv, TypeOK
<1>4. buffer[r] = "live" => ~ Cancelled(r)
  BY ThreadsAssumption DEF Goes, Cancelled, Runs, IInv, RunsInv
<1>5. ~ Cancelled(r) => buffer[r] \in {"none", "live"} /\ (buffer[r] = "none" => frames[r] = 0)
  <2>1. CASE r \in Pumped
    BY <2>1 DEF Goes
  <2>2. CASE r \in Pulled /\ r \notin Pumped
    BY <2>2 DEF Goes, Cancelled, IInv, RunsInv
  <2> QED
    BY <2>1, <2>2 DEF Runs
<1>6. ~ Cancelled(r) => seq = frames[r] /\ buffer'[r] = "live"
  BY <1>3, <1>5 DEF seq, Cached
<1>7. ASSUME NEW c \in Clients
      PROVE  /\ got'[c] \in Seq(Nat) /\ FromStart(got'[c])
             /\ got'[c] = got[c] \/ c \in listeners[r]
             /\ c \in listeners[r] => ~ Cancelled(r) /\ Len(got'[c]) = Len(got[c]) + 1
  <2>1. FromStart(got[c])
    BY DEF IInv, TypeOK, ClientInv, FromStart
  <2>2. CASE c \notin listeners[r]
    BY <1>1, <2>1, <2>2 DEF FromStart
  <2>3. CASE c \in listeners[r]
    <3>1. ~ Cancelled(r) /\ seq = Len(got[c])
      BY <1>4, <1>6, <2>3, ListenersHaveAll
    <3>2. got'[c] = Append(got[c], Len(got[c]))
      BY <1>1, <2>3, <3>1
    <3> QED
      BY <2>1, <2>3, <3>1, <3>2, NextFrame DEF FromStart
  <2> QED
    BY <2>2, <2>3
<1>8. got' \in [Clients -> Seq(Nat)]
  <2>1. got' = [c \in Clients |-> got'[c]]
    BY <1>1
  <2> QED
    BY <1>7, <2>1
<1> QED
  BY <1>0, <1>1, <1>2, <1>3, <1>6, <1>7, <1>8 DEF Cached

LEMMA AppendKeeps ==
  ASSUME IInv, NEW r \in Runs, Goes(r), Append1(r), UNCHANGED threadVars,
         pull' \in [Pulled -> {"none", "ready", "pending", "over", "gone"}],
         UNCHANGED finished,
         \A q \in Pulled \ {r} : pull'[q] = pull[q],
         r \in Pulled => pull'[r] = IF finished[r] THEN "gone" ELSE "ready"
  PROVE  IInv'
<1>1. /\ buffer' \in [Runs -> {"none", "live", "ended", "evicted"}]
      /\ frames' \in [Runs -> Nat]
      /\ got' \in [Clients -> Seq(Nat)]
      /\ UNCHANGED <<listeners, clientPc, following>>
      /\ \A q \in Runs \ {r} : buffer'[q] = buffer[q] /\ frames'[q] = frames[q]
      /\ buffer'[r] # "none" /\ (buffer[r] = "live" => buffer'[r] = "live")
      /\ ~ Cancelled(r) => buffer'[r] = "live" /\ frames'[r] = frames[r] + 1
      /\ \A c \in Clients :
           /\ FromStart(got'[c])
           /\ got'[c] = got[c] \/ c \in listeners[r]
           /\ c \in listeners[r] => ~ Cancelled(r) /\ Len(got'[c]) = Len(got[c]) + 1
  BY AppendEffect
<1>2. UNCHANGED <<active, queue, waiters, idleTimer, prompt, accepted>>
  BY DEF threadVars
<1>3. TypeOK'
  BY <1>1, <1>2 DEF IInv, TypeOK
<1>4. QueueInv'
  BY <1>2 DEF IInv, QueueInv
<1>5. OneRun'
  BY <1>1, <1>2 DEF IInv, OneRun, Goes, Runs
<1>6. NoLeak'
  BY <1>1, <1>2 DEF IInv, NoLeak
<1>7. RunsInv'
  <2>1. ASSUME NEW q \in Pumped, prompt'[q] = NoPost PROVE buffer'[q] = "none" /\ frames'[q] = 0
    <3>1. buffer[q] = "none" /\ frames[q] = 0
      BY <1>2, <2>1 DEF IInv, RunsInv
    <3>2. q # r
      BY <3>1, ThreadsAssumption DEF Goes
    <3> QED
      BY <1>1, <3>1, <3>2 DEF Runs
  <2>2. ASSUME NEW q \in Pulled
        PROVE  /\ finished'[q] => pull'[q] \in {"pending", "over", "gone"}
               /\ ~ finished'[q] => /\ buffer'[q] \in {"none", "live"}
                                    /\ buffer'[q] = "none" => frames'[q] = 0
                                    /\ pull'[q] \notin {"over", "gone"}
               /\ finished'[q] /\ pull'[q] = "pending" => buffer'[q] # "live"
    <3>1. CASE q = r
      BY <1>1, <2>2, <3>1 DEF Cancelled
    <3>2. CASE q # r
      BY <1>1, <2>2, <3>2 DEF IInv, RunsInv, Runs
    <3> QED
      BY <3>1, <3>2
  <2> QED
    BY <2>1, <2>2 DEF RunsInv
<1>8. ClientInv'
  <2> SUFFICES ASSUME NEW c \in Clients
      PROVE
    /\ \A i \in 1..Len(got'[c]) : got'[c][i] = i - 1
    /\ clientPc[c] \in {"attached", "done"} => following[c] # NoRun
    /\ clientPc[c] = "attached" => buffer'[following[c]] = "live"
    /\ following[c] # NoRun =>
         /\ buffer'[following[c]] # "none"
         /\ ~ Cancelled(following[c])' =>
              /\ Len(got'[c]) <= frames'[following[c]]
              /\ clientPc[c] \in {"attached", "done"} => Len(got'[c]) = frames'[following[c]]
              /\ clientPc[c] = "done" => buffer'[following[c]] \in {"ended", "evicted"}
    BY <1>1 DEF ClientInv
  <2>1. \A i \in 1..Len(got'[c]) : got'[c][i] = i - 1
    BY <1>1 DEF FromStart
  <2>2. following[c] # NoRun => following[c] \in Runs
    BY DEF IInv, TypeOK
  <2>3. \A q \in Runs : ~ Cancelled(q)' => ~ Cancelled(q)
    BY DEF Cancelled
  <2>4. CASE following[c] # r
    <3>1. got'[c] = got[c]
      BY <1>1, <2>4, ListenersHaveAll
    <3> QED
      BY <1>1, <2>1, <2>2, <2>3, <2>4, <3>1 DEF IInv, ClientInv
  <2>5. CASE following[c] = r /\ clientPc[c] = "attached"
    <3>1. c \in listeners[r]
      BY <2>5 DEF IInv, NoLeak
    <3>2. ~ Cancelled(r) /\ Len(got'[c]) = Len(got[c]) + 1 /\ Len(got[c]) = frames[r] /\ r # NoRun
      BY <1>1, <3>1, ListenersHaveAll, ThreadsAssumption
    <3> QED
      BY <1>1, <2>1, <2>5, <3>2
  <2>6. CASE following[c] = r /\ clientPc[c] # "attached"
    <3>1. got'[c] = got[c] /\ Len(got[c]) \in Nat /\ frames[r] \in Nat
      BY <1>1, <2>6, ListenersHaveAll DEF IInv, TypeOK
    <3>2. ~ Cancelled(r) => Len(got[c]) <= frames[r] /\ clientPc[c] # "done"
      <4>1. ~ Cancelled(r) => buffer[r] \in {"none", "live"}
        BY ThreadsAssumption DEF Goes, Cancelled, Runs, IInv, RunsInv
      <4>2. r # NoRun
        BY ThreadsAssumption
      <4> QED
        BY <2>6, <4>1, <4>2 DEF IInv, ClientInv
    <3> QED
      BY <1>1, <2>1, <2>3, <2>6, <3>1, <3>2 DEF IInv, ClientInv
  <2> QED
    BY <2>4, <2>5, <2>6
<1> QED
  BY <1>3, <1>4, <1>5, <1>6, <1>7, <1>8 DEF IInv

LEMMA CachedAppends ==
  ASSUME IInv, NEW r \in Pumped, PumpAppends(r)
  PROVE  IInv'
<1>1. Goes(r) /\ Append1(r) /\ UNCHANGED threadVars /\ UNCHANGED <<pull, finished>> /\ r \in Runs
  BY DEF PumpAppends, Pumping, Goes, pullVars, Runs
<1>2. r \notin Pulled /\ pull \in [Pulled -> {"none", "ready", "pending", "over", "gone"}]
  BY ThreadsAssumption DEF IInv, TypeOK
<1> QED
  BY <1>1, <1>2, AppendKeeps

LEMMA YieldAppends ==
  ASSUME IInv, NEW r \in Pulled, Yields(r), UNCHANGED threadVars
  PROVE  IInv'
<1>1. /\ pull[r] = "pending" /\ Append1(r) /\ UNCHANGED finished
      /\ pull' = [pull EXCEPT ![r] = IF finished[r] THEN "gone" ELSE "ready"]
  BY DEF Yields
<1>2. r \in Runs /\ Goes(r)
  BY <1>1, ThreadsAssumption DEF Goes, Runs
<1>3. /\ pull' \in [Pulled -> {"none", "ready", "pending", "over", "gone"}]
      /\ \A q \in Pulled \ {r} : pull'[q] = pull[q]
      /\ pull'[r] = IF finished[r] THEN "gone" ELSE "ready"
  BY <1>1 DEF IInv, TypeOK
<1> QED
  BY <1>1, <1>2, <1>3, AppendKeeps

(* A step of a response that leaves the cache alone. *)
LEMMA PullKeeps ==
  ASSUME IInv, NEW r \in Pulled,
         Opens(r) \/ Asks(r) \/ (Finishes(r) /\ finished[r]), UNCHANGED threadVars
  PROVE  IInv'
<1>1. /\ UNCHANGED <<buffer, frames, listeners, clientPc, following, got>>
      /\ UNCHANGED <<active, queue, waiters, idleTimer, prompt, accepted>>
  BY DEF Opens, Asks, Finishes, clientVars, threadVars
<1>2. \/ pull[r] = "none" /\ pull' = [pull EXCEPT ![r] = "ready"] /\ finished' = finished
      \/ pull[r] = "ready" /\ pull' = [pull EXCEPT ![r] = "pending"] /\ finished' = finished
      \/ /\ pull[r] = "pending" /\ pull' = [pull EXCEPT ![r] = "gone"] /\ finished[r]
         /\ finished' = [finished EXCEPT ![r] = TRUE]
  BY DEF Opens, Asks, Finishes
<1>3. finished' = finished
  <2>1. ASSUME finished[r] PROVE [finished EXCEPT ![r] = TRUE] = finished
    <3>1. finished \in [Pulled -> BOOLEAN]
      BY DEF IInv, TypeOK
    <3>2. finished[r] = TRUE
      BY <2>1, <3>1
    <3> QED
      BY <3>1, <3>2
  <2> QED
    BY <1>2, <2>1
<1>4. /\ pull' \in [Pulled -> {"none", "ready", "pending", "over", "gone"}]
      /\ \A q \in Pulled \ {r} : pull'[q] = pull[q]
      /\ \/ pull[r] \in {"none", "ready"} /\ pull'[r] \in {"ready", "pending"} /\ ~ finished[r]
         \/ pull[r] = "pending" /\ pull'[r] = "gone" /\ finished[r]
  BY <1>2 DEF IInv, TypeOK, RunsInv
<1>5. \A q \in Runs : Cancelled(q)' <=> Cancelled(q)
  BY <1>3, <1>4 DEF Cancelled
<1>6. TypeOK' /\ QueueInv' /\ OneRun' /\ NoLeak'
  BY <1>1, <1>3, <1>4 DEF IInv, TypeOK, QueueInv, OneRun, NoLeak
<1>7. RunsInv'
  BY <1>1, <1>3, <1>4 DEF IInv, RunsInv
<1>8. ClientInv'
  <2>1. \A c \in Clients : following[c] # NoRun => following[c] \in Runs
    BY DEF IInv, TypeOK
  <2> QED
    BY <1>1, <1>5, <2>1 DEF IInv, ClientInv
<1> QED
  BY <1>6, <1>7, <1>8 DEF IInv

-----------------------------------------------------------------------------
(* The end of a plain run, by its source or by its reader: the clients that
   follow it have all its frames and are told that it is over. *)
LEMMA EndKeeps ==
  ASSUME IInv, NEW r \in Pulled, Finishes(r) \/ Cancels(r), ~ finished[r], UNCHANGED threadVars
  PROVE  IInv'
<1>1. /\ buffer' = [buffer EXCEPT ![r] = IF @ = "live" THEN "ended" ELSE @]
      /\ clientPc' = [c \in Clients |-> IF c \in listeners[r] THEN "done" ELSE clientPc[c]]
      /\ listeners' = [listeners EXCEPT ![r] = {}]
      /\ UNCHANGED <<frames, following, got>>
      /\ UNCHANGED <<active, queue, waiters, idleTimer, prompt, accepted>>
      /\ finished' = [finished EXCEPT ![r] = TRUE]
  BY DEF Finishes, Cancels, End, threadVars
<1>2. /\ pull' \in [Pulled -> {"none", "ready", "pending", "over", "gone"}]
      /\ \A q \in Pulled \ {r} : pull'[q] = pull[q]
      /\ pull'[r] \in {"pending", "over", "gone"}
  BY DEF Finishes, Cancels, IInv, TypeOK
<1>3. r \in Runs /\ r \notin Pumped /\ r # NoRun /\ ~ Cancelled(r)
  BY ThreadsAssumption DEF Runs, Cancelled
<1>4. /\ \A q \in Runs \ {r} : buffer'[q] = buffer[q] /\ listeners'[q] = listeners[q]
      /\ buffer[r] \in {"none", "live"}
      /\ buffer'[r] = IF buffer[r] = "live" THEN "ended" ELSE "none"
      /\ listeners'[r] = {}
      /\ \A q \in Pulled \ {r} : finished'[q] = finished[q]
      /\ finished'[r] = TRUE
  BY <1>1, <1>3 DEF IInv, TypeOK, RunsInv
<1>5. TypeOK'
  <2>1. buffer' \in [Runs -> {"none", "live", "ended", "evicted"}]
    BY <1>1 DEF IInv, TypeOK
  <2> QED
    BY <1>1, <1>2, <2>1 DEF IInv, TypeOK
<1>6. QueueInv' /\ OneRun'
  BY <1>1, <1>3, <1>4 DEF IInv, QueueInv, OneRun, Runs
<1>7. NoLeak'
  <2>1. waiters' = {c \in Clients : clientPc'[c] = "waiting"}
    BY <1>1, <1>3, ListenersHaveAll DEF IInv, NoLeak
  <2>2. ASSUME NEW q \in Runs
        PROVE  listeners'[q] = {c \in Clients : clientPc'[c] = "attached" /\ following'[c] = q}
    BY <1>1, <1>3, <1>4, ListenersHaveAll DEF IInv, NoLeak
  <2> QED
    BY <2>1, <2>2 DEF NoLeak
<1>8. RunsInv'
  BY <1>1, <1>2, <1>3, <1>4 DEF IInv, RunsInv, Runs
<1>9. ClientInv'
  <2> SUFFICES ASSUME NEW c \in Clients
      PROVE
    /\ \A i \in 1..Len(got[c]) : got[c][i] = i - 1
    /\ clientPc'[c] \in {"attached", "done"} => following[c] # NoRun
    /\ clientPc'[c] = "attached" => buffer'[following[c]] = "live"
    /\ following[c] # NoRun =>
         /\ buffer'[following[c]] # "none"
         /\ ~ Cancelled(following[c])' =>
              /\ Len(got[c]) <= frames[following[c]]
              /\ clientPc'[c] \in {"attached", "done"} => Len(got[c]) = frames[following[c]]
              /\ clientPc'[c] = "done" => buffer'[following[c]] \in {"ended", "evicted"}
    BY <1>1 DEF ClientInv
  <2>1. following[c] # NoRun => following[c] \in Runs
    BY DEF IInv, TypeOK
  <2>2. \A q \in Runs \ {r} : Cancelled(q)' <=> Cancelled(q)
    BY <1>2, <1>4 DEF Cancelled
  <2>3. CASE following[c] # r
    <3>1. clientPc'[c] = clientPc[c]
      BY <1>1, <1>3, <2>3, ListenersHaveAll
    <3> QED
      BY <1>1, <1>2, <1>4, <2>1, <2>3, <3>1 DEF IInv, ClientInv, Cancelled
  <2>4. CASE following[c] = r /\ c \in listeners[r]
    <3>1. clientPc'[c] = "done" /\ buffer[r] = "live" /\ Len(got[c]) = frames[r]
      BY <1>1, <1>3, <2>4, ListenersHaveAll
    <3>2. frames[r] \in Nat
      BY <1>3 DEF IInv, TypeOK
    <3> QED
      BY <1>3, <1>4, <2>4, <3>1, <3>2 DEF IInv, ClientInv
  <2>5. CASE following[c] = r /\ c \notin listeners[r]
    <3>1. clientPc'[c] = clientPc[c] /\ clientPc[c] # "attached"
      BY <1>1, <1>3, <2>5 DEF IInv, NoLeak
    <3>2. buffer[r] = "live" /\ clientPc[c] # "done"
      BY <1>3, <1>4, <2>5 DEF IInv, ClientInv
    <3> QED
      BY <1>3, <1>4, <2>5, <3>1, <3>2 DEF IInv, ClientInv
  <2> QED
    BY <2>3, <2>4, <2>5
<1> QED
  BY <1>5, <1>6, <1>7, <1>8, <1>9 DEF IInv

LEMMA EvictKeeps ==
  ASSUME IInv, NEW r \in Runs, Evict(r), UNCHANGED threadVars
  PROVE  IInv'
<1>1. /\ UNCHANGED <<frames, listeners, clientPc, following, got, pull, finished>>
      /\ UNCHANGED <<active, queue, waiters, idleTimer, prompt, accepted>>
      /\ buffer[r] = "ended" /\ buffer' = [buffer EXCEPT ![r] = "evicted"]
  BY DEF Evict, clientVars, pullVars, threadVars
<1>2. /\ buffer' \in [Runs -> {"none", "live", "ended", "evicted"}]
      /\ \A q \in Runs \ {r} : buffer'[q] = buffer[q]
      /\ buffer'[r] = "evicted"
  BY <1>1 DEF IInv, TypeOK
<1>3. TypeOK' /\ QueueInv' /\ NoLeak'
  BY <1>1, <1>2 DEF IInv, TypeOK, QueueInv, NoLeak
<1>4. OneRun' /\ RunsInv'
  BY <1>1, <1>2 DEF IInv, OneRun, RunsInv, Runs
<1>5. ClientInv'
  <2>1. \A c \in Clients : following[c] # NoRun => following[c] \in Runs
    BY DEF IInv, TypeOK
  <2>2. \A q \in Runs : Cancelled(q)' <=> Cancelled(q)
    BY <1>1 DEF Cancelled
  <2> QED
    BY <1>1, <1>2, <2>1, <2>2 DEF IInv, ClientInv
<1> QED
  BY <1>3, <1>4, <1>5 DEF IInv

-----------------------------------------------------------------------------
LEMMA LeaveKeeps ==
  ASSUME IInv, NEW c \in Clients, NEW pc \in {"cut", "off"}, Leave(c, pc),
         waiters' = waiters \ {c}, UNCHANGED <<active, queue, prompt, accepted>>
  PROVE  IInv'
<1>1. /\ clientPc' = [clientPc EXCEPT ![c] = pc]
      /\ listeners' = [r \in Runs |-> listeners[r] \ {c}]
      /\ UNCHANGED <<buffer, frames, following, got, pull, finished>>
  BY DEF Leave, pullVars
<1>2. /\ \A d \in Clients \ {c} : clientPc'[d] = clientPc[d]
      /\ clientPc'[c] = pc
  BY <1>1 DEF IInv, TypeOK
<1>3. TypeOK'
  <2>1. listeners' \in [Runs -> SUBSET Clients]
    BY <1>1 DEF IInv, TypeOK
  <2>2. clientPc' \in [Clients -> {"off", "waiting", "attached", "done", "cut"}]
    BY <1>1 DEF IInv, TypeOK
  <2> QED
    BY <1>1, <2>1, <2>2 DEF IInv, TypeOK
<1>4. QueueInv' /\ OneRun' /\ RunsInv'
  BY <1>1 DEF IInv, QueueInv, OneRun, RunsInv
<1>5. NoLeak'
  BY <1>1, <1>2 DEF IInv, NoLeak
<1>6. ClientInv'
  <2>1. \A d \in Clients : following[d] # NoRun => following[d] \in Runs
    BY DEF IInv, TypeOK
  <2>2. \A q \in Runs : Cancelled(q)' <=> Cancelled(q)
    BY <1>1 DEF Cancelled
  <2> QED
    BY <1>1, <1>2, <2>1, <2>2 DEF IInv, ClientInv
<1> QED
  BY <1>3, <1>4, <1>5, <1>6 DEF IInv

(* A client that attaches to a run holds what it had and what is replayed. *)
LEMMA AttachKeeps ==
  ASSUME IInv, NEW c \in Clients, NEW r \in Runs, Silent(c),
         NEW s, NEW t, Attach(c, r, s, t), UNCHANGED threadVars,
         FromStart(s \o t), ~ Cancelled(r) => Len(s \o t) = frames[r]
  PROVE  IInv'
<1> DEFINE held == s \o t
<1>1. /\ Cached(r)
      /\ clientPc' = [clientPc EXCEPT ![c] = IF buffer[r] = "live" THEN "attached" ELSE "done"]
      /\ following' = [following EXCEPT ![c] = r]
      /\ got' = [got EXCEPT ![c] = held]
      /\ listeners' = [listeners EXCEPT ![r] = IF buffer[r] = "live" THEN @ \cup {c} ELSE @]
      /\ UNCHANGED <<buffer, frames, pull, finished>>
      /\ UNCHANGED <<active, queue, waiters, idleTimer, prompt, accepted>>
  BY DEF Attach, pullVars, threadVars
<1>2. FromStart(held) /\ (~ Cancelled(r) => Len(held) = frames[r])
  OBVIOUS
<1> HIDE DEF held
<1>3. /\ \A d \in Clients \ {c} : /\ clientPc'[d] = clientPc[d]
                                  /\ following'[d] = following[d] /\ got'[d] = got[d]
      /\ clientPc'[c] = (IF buffer[r] = "live" THEN "attached" ELSE "done")
      /\ following'[c] = r /\ got'[c] = held
      /\ \A q \in Runs \ {r} : listeners'[q] = listeners[q]
      /\ listeners'[r] = (IF buffer[r] = "live" THEN listeners[r] \cup {c} ELSE listeners[r])
      /\ buffer[r] \in {"live", "ended"} /\ frames[r] \in Nat
  BY <1>1 DEF IInv, TypeOK, Cached
<1>4. TypeOK'
  <2>1. listeners' \in [Runs -> SUBSET Clients]
    BY <1>1 DEF IInv, TypeOK
  <2>2. clientPc' \in [Clients -> {"off", "waiting", "attached", "done", "cut"}]
    BY <1>1 DEF IInv, TypeOK
  <2>3. got' \in [Clients -> Seq(Nat)]
    BY <1>1, <1>2 DEF IInv, TypeOK, FromStart
  <2>4. following' \in [Clients -> Runs \cup {NoRun}]
    BY <1>1 DEF IInv, TypeOK
  <2> QED
    BY <1>1, <2>1, <2>2, <2>3, <2>4 DEF IInv, TypeOK
<1>5. QueueInv' /\ OneRun' /\ RunsInv'
  BY <1>1 DEF IInv, QueueInv, OneRun, RunsInv
<1>6. NoLeak'
  BY <1>1, <1>3 DEF IInv, NoLeak, Silent
<1>7. ClientInv'
  <2> SUFFICES ASSUME NEW d \in Clients
      PROVE
    /\ \A i \in 1..Len(got'[d]) : got'[d][i] = i - 1
    /\ clientPc'[d] \in {"attached", "done"} => following'[d] # NoRun
    /\ clientPc'[d] = "attached" => buffer'[following'[d]] = "live"
    /\ following'[d] # NoRun =>
         /\ buffer'[following'[d]] # "none"
         /\ ~ Cancelled(following[d])' =>
              /\ Len(got'[d]) <= frames'[following'[d]]
              /\ clientPc'[d] \in {"attached", "done"} => Len(got'[d]) = frames'[following'[d]]
              /\ clientPc'[d] = "done" => buffer'[following'[d]] \in {"ended", "evicted"}
    BY DEF ClientInv
  <2>1. CASE d = c
    <3>1. ~ Cancelled(following[d])' => ~ Cancelled(r)
      BY <1>1, <1>3, <2>1 DEF Cancelled
    <3>2. r # NoRun
      BY ThreadsAssumption
    <3> QED
      BY <1>1, <1>2, <1>3, <2>1, <3>1, <3>2 DEF FromStart
  <2>2. CASE d # c
    <3>1. ~ Cancelled(following[d])' => ~ Cancelled(following[d])
      BY <1>1, <1>3, <2>2 DEF Cancelled
    <3> QED
      BY <1>1, <1>3, <2>2, <3>1 DEF IInv, ClientInv
  <2> QED
    BY <2>1, <2>2
<1> QED
  BY <1>4, <1>5, <1>6, <1>7 DEF IInv

LEMMA ReconnectKeeps ==
  ASSUME IInv, NEW c \in Clients, NEW r \in Runs, Reconnect(c, r), UNCHANGED threadVars
  PROVE  IInv'
<1> DEFINE s == Following(c, r)
           t == Missed(c, r)
<1>1. Silent(c) /\ Attach(c, r, s, t)
  BY DEF Reconnect, Silent
<1>2. FromStart(s) /\ (~ Cancelled(r) => Len(s) <= frames[r]) /\ frames[r] \in Nat
  <2>0. frames[r] \in Nat /\ r # NoRun
    BY ThreadsAssumption DEF IInv, TypeOK
  <2>1. CASE following[c] = r
    <3>1. s = got[c]
      BY <2>1 DEF Following
    <3>2. FromStart(got[c]) /\ (~ Cancelled(r) => Len(got[c]) <= frames[r])
      BY <2>0, <2>1 DEF IInv, TypeOK, ClientInv, FromStart
    <3> HIDE DEF s
    <3> QED
      BY <2>0, <3>1, <3>2
  <2>2. CASE following[c] # r
    <3>1. s = <<>>
      BY <2>2 DEF Following
    <3> HIDE DEF s
    <3> QED
      BY <2>0, <3>1 DEF FromStart
  <2> QED
    BY <2>1, <2>2
<1>3. t = [i \in 1..(frames[r] - Len(s)) |-> Len(s) + i - 1]
  BY DEF Missed
<1> HIDE DEF s, t
<1>4. FromStart(s \o t) /\ (Len(s) <= frames[r] => Len(s \o t) = frames[r])
  BY <1>2, <1>3, Replay
<1> QED
  BY <1>1, <1>2, <1>4, AttachKeeps

LEMMA SubscribeActiveKeeps ==
  ASSUME IInv, NEW c \in Clients, SubscribeActive(c)
  PROVE  IInv'
<1> DEFINE s == <<>>
           t == [i \in 1..frames[active] |-> i - 1]
<1>1. Silent(c) /\ active \in Runs /\ Attach(c, active, s, t) /\ UNCHANGED threadVars
  BY DEF SubscribeActive, IInv, TypeOK, Runs
<1>2. FromStart(s) /\ Len(s) = 0 /\ frames[active] \in Nat
  BY <1>1 DEF FromStart, IInv, TypeOK
<1>3. t = [i \in 1..(frames[active] - Len(s)) |-> Len(s) + i - 1]
  BY <1>2
<1> HIDE DEF s, t
<1>4. FromStart(s \o t) /\ (Len(s) <= frames[active] => Len(s \o t) = frames[active])
  BY <1>2, <1>3, Replay
<1>5. Len(s \o t) = frames[active]
  BY <1>2, <1>4
<1> QED
  BY <1>1, <1>4, <1>5, AttachKeeps

LEMMA SubscribeIdleKeeps ==
  ASSUME IInv, NEW c \in Clients, SubscribeIdle(c)
  PROVE  IInv'
<1>1. /\ clientPc' = [clientPc EXCEPT ![c] = "waiting"]
      /\ waiters' = waiters \cup {c}
      /\ UNCHANGED <<buffer, frames, listeners, following, got, pull, finished>>
      /\ UNCHANGED <<active, queue, prompt, accepted>>
      /\ clientPc[c] \notin {"waiting", "attached"}
  BY DEF SubscribeIdle, pullVars, Silent
<1>2. /\ \A d \in Clients \ {c} : clientPc'[d] = clientPc[d]
      /\ clientPc'[c] = "waiting"
  BY <1>1 DEF IInv, TypeOK
<1>3. TypeOK'
  <2>1. clientPc' \in [Clients -> {"off", "waiting", "attached", "done", "cut"}]
    BY <1>1 DEF IInv, TypeOK
  <2> QED
    BY <1>1, <2>1 DEF IInv, TypeOK
<1>4. QueueInv' /\ OneRun' /\ RunsInv'
  BY <1>1 DEF IInv, QueueInv, OneRun, RunsInv
<1>5. NoLeak'
  BY <1>1, <1>2 DEF IInv, NoLeak
<1>6. ClientInv'
  <2>1. \A d \in Clients : following[d] # NoRun => following[d] \in Runs
    BY DEF IInv, TypeOK
  <2>2. \A q \in Runs : Cancelled(q)' <=> Cancelled(q)
    BY <1>1 DEF Cancelled
  <2> QED
    BY <1>1, <1>2, <2>1, <2>2 DEF IInv, ClientInv
<1> QED
  BY <1>3, <1>4, <1>5, <1>6 DEF IInv

-----------------------------------------------------------------------------
(* The runs that were minted are the first ones, one per follow-up that left
   the queue. *)
LEMMA MintedRuns ==
  ASSUME IInv
  PROVE  /\ accepted \in Nat /\ Len(queue) \in Nat /\ accepted - Len(queue) \in Nat
         /\ NextRun = accepted - Len(queue) + 1
         /\ Minted = 1..(accepted - Len(queue))
         /\ \A n \in 1..MaxPosts : n \in Pumped
<1>1. Cardinality(Pumped) \in Nat /\ Pumped = 1..Cardinality(Pumped) /\ MaxPosts \in Nat
      /\ MaxPosts <= Cardinality(Pumped)
  BY ThreadsAssumption, FS_CardinalityType
<1>2. /\ accepted \in Nat /\ accepted <= MaxPosts
      /\ Len(queue) \in Nat /\ accepted - Len(queue) \in Nat
  BY <1>1 DEF IInv, TypeOK, QueueInv
<1>3. Minted = 1..(accepted - Len(queue))
  <2>1. \A r \in Pumped : prompt[r] # NoPost <=> r <= accepted - Len(queue)
    <3>1. \A r \in Pumped : r \in Nat /\ r # 0
      BY <1>1
    <3>2. \A r \in Pumped : prompt[r] = IF r <= accepted - Len(queue) THEN r ELSE 0
      BY DEF IInv, QueueInv, NoPost
    <3> QED
      BY <3>1, <3>2 DEF NoPost
  <2> QED
    BY <1>1, <1>2, <2>1 DEF Minted
<1>4. Cardinality(1..(accepted - Len(queue))) = accepted - Len(queue)
  BY <1>2, FS_Interval
<1> QED
  BY <1>1, <1>2, <1>3, <1>4 DEF NextRun

(* A turn of the dispatcher, as the clients see it. *)
LEMMA TurnKeeps ==
  ASSUME IInv, NEW ended \in SUBSET Pumped, NEW started \in SUBSET Pumped,
         \A r \in ended : buffer[r] = "live",
         \A r \in started : r = NextRun /\ prompt[r] = NoPost,
         Turn(ended, started),
         \A r \in Pumped \ started : prompt'[r] = prompt[r],
         \A r \in started : prompt'[r] # NoPost
  PROVE  /\ buffer' \in [Runs -> {"none", "live", "ended", "evicted"}]
         /\ listeners' \in [Runs -> SUBSET Clients]
         /\ clientPc' \in [Clients -> {"off", "waiting", "attached", "done", "cut"}]
         /\ following' \in [Clients -> Runs \cup {NoRun}]
         /\ got' \in [Clients -> Seq(Nat)]
         /\ waiters' \in SUBSET Clients
         /\ UNCHANGED <<frames, pull, finished>>
         /\ \A r \in Runs : buffer'[r] = IF r \in ended THEN "ended"
                                         ELSE IF r \in started THEN "live" ELSE buffer[r]
         /\ NoLeak' /\ RunsInv' /\ ClientInv'
<1> DEFINE joining == IF started = {} THEN {} ELSE waiters
           told == Told(ended)
<1>1. /\ buffer' = [r \in Runs |->
            IF r \in ended THEN "ended" ELSE IF r \in started THEN "live" ELSE buffer[r]]
      /\ listeners' = [r \in Runs |->
            IF r \in ended THEN {} ELSE IF r \in started THEN joining ELSE listeners[r]]
      /\ clientPc' = [c \in Clients |->
            IF c \in joining THEN "attached"
            ELSE IF c \in told THEN "done" ELSE clientPc[c]]
      /\ following' = [c \in Clients |-> IF c \in joining THEN NextRun ELSE following[c]]
      /\ got' = [c \in Clients |-> IF c \in joining THEN <<>> ELSE got[c]]
      /\ waiters' = waiters \ joining
      /\ UNCHANGED <<frames, pull, finished>>
  BY DEF Turn, pullVars
<1>2. \A c \in Clients : c \in joining =>
        clientPc[c] = "waiting" /\ NextRun \in started /\ started = {NextRun}
  BY DEF IInv, NoLeak
<1>3. \A c : c \in joining => c \in Clients
  BY DEF IInv, TypeOK
<1>4. \A c \in Clients : c \in told <=>
        clientPc[c] = "attached" /\ following[c] \in ended
  BY DEF Told, IInv, NoLeak, Runs
<1>5. \A r \in started : /\ r \in Runs /\ r # NoRun /\ r \notin ended /\ r \notin Pulled
                         /\ buffer[r] = "none" /\ frames[r] = 0
  BY ThreadsAssumption DEF IInv, RunsInv, Runs
<1>6. \A r \in ended : r \in Runs /\ r \notin Pulled
  BY ThreadsAssumption DEF Runs
<1>a. started # {} => waiters \ joining = {}
  OBVIOUS
<1>b. started = {} => joining = {}
  OBVIOUS
<1> HIDE DEF joining, told
<1>7. /\ buffer' \in [Runs -> {"none", "live", "ended", "evicted"}]
      /\ listeners' \in [Runs -> SUBSET Clients]
      /\ clientPc' \in [Clients -> {"off", "waiting", "attached", "done", "cut"}]
      /\ following' \in [Clients -> Runs \cup {NoRun}]
      /\ got' \in [Clients -> Seq(Nat)]
      /\ waiters' \in SUBSET Clients
  <2>1. buffer' \in [Runs -> {"none", "live", "ended", "evicted"}]
    BY <1>1 DEF IInv, TypeOK
  <2>2. listeners' \in [Runs -> SUBSET Clients]
    BY <1>1, <1>3 DEF IInv, TypeOK
  <2>3. clientPc' \in [Clients -> {"off", "waiting", "attached", "done", "cut"}]
    BY <1>1 DEF IInv, TypeOK
  <2>4. following' \in [Clients -> Runs \cup {NoRun}]
    BY <1>1, <1>2, <1>5 DEF IInv, TypeOK
  <2>5. got' \in [Clients -> Seq(Nat)]
    <3>1. <<>> \in Seq(Nat)
      OBVIOUS
    <3> QED
      BY <1>1, <3>1 DEF IInv, TypeOK
  <2> QED
    BY <1>1, <2>1, <2>2, <2>3, <2>4, <2>5 DEF IInv, TypeOK
<1>8. /\ \A r \in Runs : buffer'[r] = IF r \in ended THEN "ended"
                                      ELSE IF r \in started THEN "live" ELSE buffer[r]
      /\ \A r \in Runs : listeners'[r] = IF r \in ended THEN {}
                                      ELSE IF r \in started THEN joining ELSE listeners[r]
      /\ \A c \in Clients :
           /\ c \in joining => clientPc'[c] = "attached" /\ following'[c] = NextRun /\ got'[c] = <<>>
           /\ c \notin joining => /\ following'[c] = following[c] /\ got'[c] = got[c]
                                  /\ clientPc'[c] = IF c \in told THEN "done" ELSE clientPc[c]
  BY <1>1
<1>9. NoLeak'
  <2>1. waiters' = {c \in Clients : clientPc'[c] = "waiting"}
    BY <1>1, <1>2, <1>4, <1>8, <1>a, <1>b DEF IInv, NoLeak
  <2>2. ASSUME NEW r \in Runs
        PROVE  listeners'[r] = {c \in Clients : clientPc'[c] = "attached" /\ following'[c] = r}
    <3>1. CASE r \in ended
      BY <1>2, <1>4, <1>5, <1>8, <2>2, <3>1
    <3>2. CASE r \in started
      <4>1. \A c \in Clients : clientPc[c] = "attached" => following[c] # r
        BY <1>5, <3>2 DEF IInv, ClientInv
      <4>2. r = NextRun /\ r \notin ended
        BY <1>5, <3>2
      <4> QED
        BY <1>3, <1>8, <2>2, <3>2, <4>1, <4>2
    <3>3. CASE r \notin ended /\ r \notin started
      <4>1. listeners'[r] = {c \in Clients : clientPc[c] = "attached" /\ following[c] = r}
        BY <1>8, <2>2, <3>3 DEF IInv, NoLeak
      <4>2. ASSUME NEW c \in Clients
            PROVE  (clientPc'[c] = "attached" /\ following'[c] = r)
                     <=> (clientPc[c] = "attached" /\ following[c] = r)
        BY <1>2, <1>4, <1>8, <3>3
      <4> QED
        BY <4>1, <4>2
    <3> QED
      BY <3>1, <3>2, <3>3
  <2> QED
    BY <2>1, <2>2 DEF NoLeak
<1>10. RunsInv'
  <2>1. ASSUME NEW q \in Pumped, prompt'[q] = NoPost PROVE buffer'[q] = "none" /\ frames'[q] = 0
    <3>1. q \in Runs /\ q \notin started
      BY <2>1 DEF Runs
    <3>2. buffer[q] = "none" /\ frames[q] = 0
      BY <2>1, <3>1 DEF IInv, RunsInv
    <3> QED
      BY <1>1, <1>8, <3>1, <3>2
  <2>2. \A q \in Pulled : buffer'[q] = buffer[q]
    BY <1>5, <1>6, <1>8 DEF Runs
  <2>3. \A q \in Pulled :
          /\ finished[q] => pull[q] \in {"pending", "over", "gone"}
          /\ ~ finished[q] => /\ buffer[q] \in {"none", "live"}
                              /\ buffer[q] = "none" => frames[q] = 0
                              /\ pull[q] \notin {"over", "gone"}
          /\ finished[q] /\ pull[q] = "pending" => buffer[q] # "live"
    BY DEF IInv, RunsInv
  <2> QED
    BY <1>1, <2>1, <2>2, <2>3 DEF RunsInv
<1>11. ClientInv'
  <2> SUFFICES ASSUME NEW d \in Clients
      PROVE
    /\ \A i \in 1..Len(got'[d]) : got'[d][i] = i - 1
    /\ clientPc'[d] \in {"attached", "done"} => following'[d] # NoRun
    /\ clientPc'[d] = "attached" => buffer'[following'[d]] = "live"
    /\ following'[d] # NoRun =>
         /\ buffer'[following'[d]] # "none"
         /\ ~ Cancelled(following[d])' =>
              /\ Len(got'[d]) <= frames'[following'[d]]
              /\ clientPc'[d] \in {"attached", "done"} => Len(got'[d]) = frames'[following'[d]]
              /\ clientPc'[d] = "done" => buffer'[following'[d]] \in {"ended", "evicted"}
    BY DEF ClientInv
  <2>1. following[d] # NoRun => following[d] \in Runs
    BY DEF IInv, TypeOK
  <2>2. CASE d \in joining
    <3>1. NextRun \in Runs /\ NextRun # NoRun /\ frames[NextRun] = 0 /\ buffer'[NextRun] = "live"
      BY <1>2, <1>5, <1>8, <2>2
    <3>2. got'[d] = <<>> /\ following'[d] = NextRun /\ clientPc'[d] = "attached"
      BY <1>8, <2>2
    <3> QED
      BY <1>1, <3>1, <3>2
  <2>3. CASE d \notin joining
    <3>0. /\ following'[d] = following[d] /\ got'[d] = got[d]
          /\ clientPc'[d] = IF d \in told THEN "done" ELSE clientPc[d]
      BY <1>8, <2>3
    <3>1. ~ Cancelled(following[d])' => ~ Cancelled(following[d])
      BY <1>1, <3>0 DEF Cancelled
    <3>2. CASE d \in told
      <4>1. clientPc[d] = "attached" /\ following[d] \in ended /\ buffer[following[d]] = "live"
        BY <1>4, <3>2
      <4>2. following[d] \in Runs /\ buffer'[following[d]] = "ended"
        BY <1>6, <1>8, <4>1
      <4> QED
        BY <1>1, <3>0, <3>1, <3>2, <4>1, <4>2 DEF IInv, ClientInv
    <3>3. CASE d \notin told
      <4>1. clientPc[d] = "attached" => following[d] \notin ended /\ following[d] # NoRun
        BY <1>4, <3>3 DEF IInv, ClientInv
      <4>2. following[d] # NoRun => following[d] \notin started
        BY <1>5 DEF IInv, ClientInv
      <4>3. following[d] # NoRun /\ following[d] \in ended =>
              buffer'[following[d]] = "ended" /\ buffer[following[d]] = "live"
        BY <1>8, <2>1
      <4>4. following[d] # NoRun /\ following[d] \notin ended =>
              buffer'[following[d]] = buffer[following[d]]
        BY <1>8, <2>1, <4>2
      <4> QED
        BY <1>1, <3>0, <3>1, <3>3, <4>1, <4>3, <4>4 DEF IInv, ClientInv
    <3> QED
      BY <3>2, <3>3
  <2> QED
    BY <2>2, <2>3
<1> QED
  BY <1>1, <1>7, <1>8, <1>9, <1>10, <1>11

LEMMA PostKeeps ==
  ASSUME IInv, Post
  PROVE  IInv'
<1>1. /\ accepted < MaxPosts /\ accepted' = accepted + 1
      /\ accepted \in Nat /\ MaxPosts \in Nat
      /\ queue \in Seq(Nat) /\ Len(queue) \in Nat /\ Len(queue) <= accepted
      /\ accepted' \in 0..MaxPosts
  BY ThreadsAssumption, FS_CardinalityType, MintedRuns DEF Post, IInv, TypeOK, QueueInv
<1>2. CASE active # NoRun
  <2>1. /\ queue' = Append(queue, accepted + 1)
        /\ UNCHANGED <<buffer, frames, listeners, clientPc, following, got, pull, finished,
                       active, waiters, idleTimer, prompt>>
    BY <1>2 DEF Post, runVars, clientVars, pullVars
  <2>2. /\ queue' \in Seq(Nat) /\ Len(queue') = Len(queue) + 1
        /\ \A i \in 1..Len(queue) : queue'[i] = queue[i]
        /\ queue'[Len(queue) + 1] = accepted + 1
    BY <1>1, <2>1, AppendProperties
  <2>3. TypeOK'
    BY <1>1, <2>1, <2>2 DEF IInv, TypeOK
  <2>4. QueueInv'
    <3>1. accepted' - Len(queue') = accepted - Len(queue) /\ Len(queue') <= accepted'
      BY <1>1, <2>2
    <3>2. \A r \in Pumped : prompt'[r] = IF r <= accepted' - Len(queue') THEN r ELSE NoPost
      BY <2>1, <3>1 DEF IInv, QueueInv
    <3>3. ASSUME NEW i \in 1..Len(queue') PROVE queue'[i] = accepted' - Len(queue') + i
      <4>1. CASE i \in 1..Len(queue)
        BY <2>2, <3>1, <4>1 DEF IInv, QueueInv
      <4>2. CASE i = Len(queue) + 1
        BY <1>1, <2>2, <4>2
      <4> QED
        BY <1>1, <2>2, <4>1, <4>2
    <3> QED
      BY <1>2, <2>1, <3>1, <3>2, <3>3 DEF QueueInv
  <2>5. OneRun' /\ NoLeak' /\ RunsInv'
    BY <2>1 DEF IInv, OneRun, NoLeak, RunsInv
  <2>6. ClientInv'
    BY <2>1 DEF IInv, ClientInv, Cancelled
  <2> QED
    BY <2>3, <2>4, <2>5, <2>6 DEF IInv
<1>3. CASE active = NoRun
  <2>1. /\ Turn({}, {NextRun}) /\ active' = NextRun /\ queue' = queue
        /\ prompt' = [prompt EXCEPT ![NextRun] = accepted + 1]
    BY <1>3 DEF Post, StartAndPump
  <2>2. queue = <<>> /\ Len(queue) = 0
    BY <1>1, <1>3 DEF IInv, QueueInv
  <2>3. NextRun = accepted + 1 /\ NextRun \in Pumped
    BY <1>1, <2>2, MintedRuns
  <2>4. prompt[NextRun] = NoPost
    <3>1. ~ (NextRun <= accepted - Len(queue))
      BY <1>1, <2>2, <2>3
    <3> QED
      BY <2>3, <3>1 DEF IInv, QueueInv
  <2>5. /\ prompt' \in [Pumped -> Nat]
        /\ \A r \in Pumped \ {NextRun} : prompt'[r] = prompt[r]
        /\ prompt'[NextRun] = accepted + 1 /\ accepted + 1 # NoPost
    BY <1>1, <2>1, <2>3 DEF IInv, TypeOK, NoPost
  <2>6. /\ TypeOK'
        /\ \A r \in Runs : buffer'[r] = IF r = NextRun THEN "live" ELSE buffer[r]
        /\ NoLeak' /\ RunsInv' /\ ClientInv'
    <3>1. {} \in SUBSET Pumped /\ {NextRun} \in SUBSET Pumped
      BY <2>3
    <3>2. /\ buffer' \in [Runs -> {"none", "live", "ended", "evicted"}]
          /\ listeners' \in [Runs -> SUBSET Clients]
          /\ clientPc' \in [Clients -> {"off", "waiting", "attached", "done", "cut"}]
          /\ following' \in [Clients -> Runs \cup {NoRun}]
          /\ got' \in [Clients -> Seq(Nat)]
          /\ waiters' \in SUBSET Clients
          /\ UNCHANGED <<frames, pull, finished>>
          /\ \A r \in Runs : buffer'[r] = IF r \in {} THEN "ended"
                                          ELSE IF r \in {NextRun} THEN "live" ELSE buffer[r]
          /\ NoLeak' /\ RunsInv' /\ ClientInv'
      BY <2>1, <2>4, <2>5, <3>1, TurnKeeps
    <3>3. TypeOK'
      BY <1>1, <2>1, <2>3, <2>5, <3>2 DEF IInv, TypeOK
    <3> QED
      BY <3>2, <3>3
  <2>7. QueueInv'
    <3>1. \A r \in Pumped : r \in Nat
      BY ThreadsAssumption, FS_CardinalityType
    <3>2. ASSUME NEW r \in Pumped
          PROVE prompt'[r] = IF r <= accepted' - Len(queue') THEN r ELSE NoPost
      <4>1. prompt[r] = IF r <= accepted THEN r ELSE NoPost
        BY <1>1, <2>2 DEF IInv, QueueInv
      <4>2. accepted' - Len(queue') = accepted + 1
        BY <1>1, <2>1, <2>2
      <4> QED
        BY <1>1, <2>3, <2>5, <3>1, <4>1, <4>2
    <3> QED
      BY <1>1, <2>1, <2>2, <3>2 DEF QueueInv
  <2>8. OneRun'
    <3>1. \A r \in Pumped : buffer[r] # "live"
      BY <1>3, ThreadsAssumption DEF IInv, OneRun, Runs
    <3> QED
      BY <2>1, <2>6, <3>1 DEF OneRun, Runs
  <2> QED
    BY <2>6, <2>7, <2>8 DEF IInv
<1> QED
  BY <1>2, <1>3

LEMMA PumpEndsKeeps ==
  ASSUME IInv, NEW r \in Pumped, PumpEnds(r)
  PROVE  IInv'
<1>1. /\ r \in Runs /\ buffer[r] = "live" /\ active = r /\ accepted' = accepted
      /\ queue \in Seq(Nat) /\ r # NoRun /\ NoRun \notin Pumped
  BY ThreadsAssumption DEF PumpEnds, Pumping, IInv, OneRun, TypeOK, Runs
<1>2. /\ accepted \in Nat /\ Len(queue) \in Nat /\ Len(queue) <= accepted
      /\ MaxPosts \in Nat /\ accepted \in 0..MaxPosts
  BY ThreadsAssumption, FS_CardinalityType, MintedRuns DEF IInv, QueueInv, TypeOK
<1>3. CASE queue = <<>>
  <2>1. Turn({r}, {}) /\ active' = NoRun /\ UNCHANGED <<queue, prompt>>
    BY <1>1, <1>3 DEF PumpEnds
  <2>2. /\ buffer' \in [Runs -> {"none", "live", "ended", "evicted"}]
        /\ listeners' \in [Runs -> SUBSET Clients]
        /\ clientPc' \in [Clients -> {"off", "waiting", "attached", "done", "cut"}]
        /\ following' \in [Clients -> Runs \cup {NoRun}]
        /\ got' \in [Clients -> Seq(Nat)]
        /\ waiters' \in SUBSET Clients
        /\ UNCHANGED <<frames, pull, finished>>
        /\ \A q \in Runs : buffer'[q] = IF q \in {r} THEN "ended"
                                        ELSE IF q \in {} THEN "live" ELSE buffer[q]
        /\ NoLeak' /\ RunsInv' /\ ClientInv'
    <3>1. {r} \in SUBSET Pumped /\ {} \in SUBSET Pumped
      OBVIOUS
    <3> QED
      BY <1>1, <2>1, <3>1, TurnKeeps
  <2>3. TypeOK'
    BY <1>1, <2>1, <2>2 DEF IInv, TypeOK
  <2>4. QueueInv'
    BY <1>1, <1>3, <2>1 DEF IInv, QueueInv
  <2>5. OneRun'
    BY <1>1, <2>1, <2>2 DEF IInv, OneRun, Runs
  <2> QED
    BY <2>2, <2>3, <2>4, <2>5 DEF IInv
<1>4. CASE queue # <<>>
  <2>1. /\ Turn({r}, {NextRun}) /\ active' = NextRun
        /\ prompt' = [prompt EXCEPT ![NextRun] = Head(queue)]
        /\ queue' = Tail(queue)
    BY <1>1, <1>4 DEF PumpEnds, StartAndPump
  <2>2. /\ Head(queue) = queue[1] /\ Len(queue) >= 1
        /\ queue' \in Seq(Nat) /\ Len(queue') = Len(queue) - 1
        /\ \A i \in 1..(Len(queue) - 1) : queue'[i] = queue[i + 1]
    <3>1. Len(queue) # 0
      BY <1>1, <1>4, EmptySeq
    <3> QED
      BY <1>1, <1>2, <1>4, <2>1, <3>1, HeadTailProperties
  <2>3. /\ NextRun = accepted - Len(queue) + 1 /\ NextRun \in Pumped
        /\ Head(queue) = NextRun /\ NextRun # NoPost
    <3>1. NextRun = accepted - Len(queue) + 1 /\ (NextRun \in 1..MaxPosts => NextRun \in Pumped)
      BY MintedRuns
    <3>2. queue[1] = accepted - Len(queue) + 1
      BY <1>2, <2>2 DEF IInv, QueueInv
    <3> QED
      BY <1>2, <2>2, <3>1, <3>2 DEF NoPost
  <2>4. prompt[NextRun] = NoPost
    <3>1. ~ (NextRun <= accepted - Len(queue))
      BY <1>2, <2>3
    <3> QED
      BY <2>3, <3>1 DEF IInv, QueueInv
  <2>5. /\ prompt' \in [Pumped -> Nat]
        /\ \A q \in Pumped \ {NextRun} : prompt'[q] = prompt[q]
        /\ prompt'[NextRun] = NextRun
    BY <1>2, <2>1, <2>3 DEF IInv, TypeOK
  <2>6. /\ buffer' \in [Runs -> {"none", "live", "ended", "evicted"}]
        /\ listeners' \in [Runs -> SUBSET Clients]
        /\ clientPc' \in [Clients -> {"off", "waiting", "attached", "done", "cut"}]
        /\ following' \in [Clients -> Runs \cup {NoRun}]
        /\ got' \in [Clients -> Seq(Nat)]
        /\ waiters' \in SUBSET Clients
        /\ UNCHANGED <<frames, pull, finished>>
        /\ \A q \in Runs : buffer'[q] = IF q \in {r} THEN "ended"
                                        ELSE IF q \in {NextRun} THEN "live" ELSE buffer[q]
        /\ NoLeak' /\ RunsInv' /\ ClientInv'
    <3>1. {r} \in SUBSET Pumped /\ {NextRun} \in SUBSET Pumped
      BY <2>3
    <3>2. /\ \A q \in {r} : buffer[q] = "live"
          /\ \A q \in {NextRun} : q = NextRun /\ prompt[q] = NoPost
          /\ \A q \in {NextRun} : prompt'[q] # NoPost
      BY <1>1, <2>3, <2>4, <2>5
    <3> HIDE DEF NextRun
    <3> QED
      BY <2>1, <2>5, <3>1, <3>2, TurnKeeps
  <2>7. TypeOK'
    BY <1>1, <1>2, <2>1, <2>2, <2>3, <2>5, <2>6 DEF IInv, TypeOK
  <2>8. QueueInv'
    <3>1. \A q \in Pumped : q \in Nat
      BY ThreadsAssumption, FS_CardinalityType
    <3>2. accepted' - Len(queue') = NextRun /\ Len(queue') <= accepted'
      BY <1>1, <1>2, <2>2, <2>3
    <3>3. ASSUME NEW q \in Pumped
          PROVE prompt'[q] = IF q <= accepted' - Len(queue') THEN q ELSE NoPost
      <4>1. prompt[q] = IF q <= NextRun - 1 THEN q ELSE NoPost
        <5>1. accepted - Len(queue) = NextRun - 1
          BY <1>2, <2>3
        <5> QED
          BY <5>1 DEF IInv, QueueInv
      <4> QED
        BY <1>2, <2>3, <2>5, <3>1, <3>2, <4>1
    <3>4. ASSUME NEW i \in 1..Len(queue') PROVE queue'[i] = accepted' - Len(queue') + i
      <4>1. i \in 1..(Len(queue) - 1) /\ i + 1 \in 1..Len(queue)
        BY <1>2, <2>2
      <4>2. queue'[i] = queue[i + 1] /\ queue[i + 1] = accepted - Len(queue) + (i + 1)
        BY <2>2, <4>1 DEF IInv, QueueInv
      <4> QED
        BY <1>2, <2>3, <3>2, <4>1, <4>2
    <3>5. active' # NoRun
      BY <1>1, <2>1, <2>3
    <3> QED
      BY <3>2, <3>3, <3>4, <3>5 DEF QueueInv
  <2>9. OneRun'
    <3>1. \A q \in Pumped \ {r} : buffer[q] # "live"
      BY <1>1 DEF IInv, OneRun
    <3>2. NextRun # r
      BY <1>1, <2>3, <2>4 DEF IInv, RunsInv
    <3> QED
      BY <2>1, <2>6, <3>1, <3>2 DEF OneRun, Runs
  <2> QED
    BY <2>6, <2>7, <2>8, <2>9 DEF IInv
<1> QED
  BY <1>3, <1>4

-----------------------------------------------------------------------------
LEMMA InitOK ==
  ASSUME Init
  PROVE  IInv
<1>1. MaxPosts \in Nat
  BY ThreadsAssumption, FS_CardinalityType
<1>2. TypeOK
  <2>1. <<>> \in Seq(Nat) /\ 0 \in Nat /\ 0 \in 0..MaxPosts
    BY <1>1
  <2>2. got \in [Clients -> Seq(Nat)]
    BY <2>1 DEF Init, RunInit
  <2>3. prompt \in [Pumped -> Nat]
    BY <2>1 DEF Init, NoPost
  <2>4. following \in [Clients -> Runs \cup {NoRun}]
    BY DEF Init, RunInit
  <2> QED
    BY <2>1, <2>2, <2>3, <2>4 DEF Init, RunInit, TypeOK
<1>3. \A r \in Pumped : r \in Nat /\ r # 0
  BY ThreadsAssumption, FS_CardinalityType
<1>4. QueueInv
  BY <1>3 DEF Init, QueueInv, NoPost
<1>5. OneRun
  BY ThreadsAssumption DEF Init, RunInit, OneRun, Runs
<1>6. NoLeak
  BY DEF Init, RunInit, NoLeak
<1>7. RunsInv
  BY DEF Init, RunInit, RunsInv, Runs
<1>8. ClientInv
  BY DEF Init, RunInit, ClientInv
<1> QED
  BY <1>2, <1>4, <1>5, <1>6, <1>7, <1>8 DEF IInv

LEMMA StepOK ==
  ASSUME IInv, [Next]_vars
  PROVE  IInv'
<1>1. CASE Post
  BY <1>1, PostKeeps
<1>2. ASSUME NEW r \in Pumped, PumpAppends(r) PROVE IInv'
  BY <1>2, CachedAppends
<1>3. ASSUME NEW r \in Pumped, PumpEnds(r) PROVE IInv'
  BY <1>3, PumpEndsKeeps
<1>4. ASSUME NEW c \in Clients, SubscribeActive(c) PROVE IInv'
  BY <1>4, SubscribeActiveKeeps
<1>5. ASSUME NEW c \in Clients, SubscribeIdle(c) PROVE IInv'
  BY <1>5, SubscribeIdleKeeps
<1>6. ASSUME NEW c \in Clients, IdleTimeout(c) PROVE IInv'
  BY <1>6, LeaveKeeps DEF IdleTimeout
<1>7. ASSUME NEW c \in Clients, Aborts(c) PROVE IInv'
  BY <1>7, LeaveKeeps DEF Aborts
<1>8. ASSUME NEW r \in Runs, Evict(r), UNCHANGED threadVars PROVE IInv'
  BY <1>8, EvictKeeps
<1>9. ASSUME NEW r \in Pulled, PulledStep(r), UNCHANGED threadVars PROVE IInv'
  <2>1. CASE Opens(r) \/ Asks(r) \/ (Finishes(r) /\ finished[r])
    BY <1>9, <2>1, PullKeeps
  <2>2. CASE Yields(r)
    BY <1>9, <2>2, YieldAppends
  <2>3. CASE (Finishes(r) \/ Cancels(r)) /\ ~ finished[r]
    BY <1>9, <2>3, EndKeeps
  <2>4. Cancels(r) => ~ finished[r]
    BY DEF Cancels
  <2> QED
    BY <1>9, <2>1, <2>2, <2>3, <2>4 DEF PulledStep
<1>10. ASSUME NEW c \in Clients, NEW r \in Runs, Reconnect(c, r), UNCHANGED threadVars PROVE IInv'
  BY <1>10, ReconnectKeeps
<1>11. CASE UNCHANGED vars
  <2>1. UNCHANGED <<buffer, frames, listeners, clientPc, following, got, pull, finished,
                    active, queue, waiters, idleTimer, prompt, accepted>>
    BY <1>11 DEF vars, runVars, clientVars, pullVars, threadVars
  <2>2. TypeOK' /\ QueueInv' /\ OneRun'
    BY <2>1 DEF IInv, TypeOK, QueueInv, OneRun
  <2>3. NoLeak' /\ RunsInv'
    BY <2>1 DEF IInv, NoLeak, RunsInv
  <2>4. ClientInv'
    BY <2>1 DEF IInv, ClientInv, Cancelled
  <2> QED
    BY <2>2, <2>3, <2>4 DEF IInv
<1> QED
  BY <1>1, <1>2, <1>3, <1>4, <1>5, <1>6, <1>7, <1>8, <1>9, <1>10, <1>11 DEF Next

LEMMA Invariant == Spec => []IInv
<1>1. Init => IInv
  BY InitOK
<1>2. IInv /\ [Next]_vars => IInv'
  BY StepOK
<1> QED
  BY <1>1, <1>2, PTL DEF Spec

-----------------------------------------------------------------------------
(* The follow-ups of a thread run one at a time and in the order of their posts,
   each of them once: at any moment those with a run are the oldest ones, and
   the queue holds the others, in order, behind a run that is under way. *)
THEOREM ThreadsRunInOrder == Spec => []OneAtATime
<1>1. ASSUME IInv PROVE InOrder
  <2> DEFINE n == accepted - Len(queue)
             done == [r \in 1..n |-> prompt[r]]
             all == [i \in 1..accepted |-> i]
  <2>1. /\ accepted \in Nat /\ Len(queue) \in Nat /\ n \in Nat
        /\ Cardinality(Minted) = n /\ queue \in Seq(Nat) /\ \A r \in 1..n : r \in Pumped
    <3>1. Minted \in SUBSET Pumped
      BY DEF Minted
    <3>2. Cardinality(1..n) = n
      BY <1>1, MintedRuns, FS_Interval
    <3> QED
      BY <1>1, <3>1, <3>2, MintedRuns DEF IInv, TypeOK
  <2>2. ASSUME NEW r \in 1..n PROVE prompt[r] = r
    <3>1. r <= n /\ r \in Pumped
      BY <2>1
    <3>2. prompt[r] = IF r <= n THEN r ELSE NoPost
      BY <1>1, <3>1 DEF IInv, QueueInv
    <3> QED
      BY <3>1, <3>2
  <2>3. done \in Seq(Nat) /\ Len(done) = n /\ \A r \in 1..n : done[r] = r
    BY <2>1, <2>2
  <2>4. all \in Seq(Nat) /\ Len(all) = accepted /\ \A i \in 1..accepted : all[i] = i
    BY <2>1
  <2> HIDE DEF done, all
  <2>5. /\ done \o queue \in Seq(Nat) /\ Len(done \o queue) = accepted
        /\ \A i \in 1..accepted : (done \o queue)[i] = i
    <3>1. /\ done \o queue \in Seq(Nat) /\ Len(done \o queue) = n + Len(queue)
          /\ \A i \in 1..(n + Len(queue)) :
               (done \o queue)[i] = IF i <= n THEN done[i] ELSE queue[i - n]
      BY <2>1, <2>3, ConcatProperties
    <3>2. ASSUME NEW i \in 1..accepted PROVE (done \o queue)[i] = i
      <4>1. CASE i <= n
        BY <2>1, <2>3, <3>1, <4>1
      <4>2. CASE ~ (i <= n)
        <5>1. i - n \in 1..Len(queue)
          BY <2>1, <4>2
        <5>2. queue[i - n] = n + (i - n)
          BY <1>1, <5>1 DEF IInv, QueueInv
        <5>3. i \in 1..(n + Len(queue))
          BY <2>1
        <5>4. (done \o queue)[i] = queue[i - n]
          BY <3>1, <4>2, <5>3
        <5>5. n + (i - n) = i
          BY <2>1
        <5> QED
          BY <5>2, <5>4, <5>5
      <4> QED
        BY <4>1, <4>2
    <3>3. n + Len(queue) = accepted
      BY <2>1
    <3> QED
      BY <3>1, <3>2, <3>3
  <2>6. done \o queue = all
    BY <2>4, <2>5, SeqEqual
  <2> QED
    BY <1>1, <2>1, <2>6 DEF InOrder, IInv, QueueInv, done, all
<1>2. IInv => OneAtATime
  BY <1>1 DEF OneAtATime, IInv
<1> QED
  BY <1>2, Invariant, PTL

(* The registry waits for exactly the streams that wait for it, and the cache
   tells exactly those attached to the run. *)
THEOREM ListenersDoNotLeak == Spec => []NoLeak
<1>1. IInv => NoLeak
  BY DEF IInv
<1> QED
  BY <1>1, Invariant, PTL

(* What a client has is the run from its first frame on, whatever it missed of
   it in between, up to the last frame while it is attached; and when it is told
   that the run is over it has every frame of it. *)
THEOREM ReplaysAreFaithful == Spec => []ReplayFaithful
<1>1. ASSUME IInv PROVE Gapless
  <2> SUFFICES ASSUME NEW c \in Clients
      PROVE /\ got[c] = [i \in 1..Len(got[c]) |-> i - 1]
            /\ clientPc[c] = "attached" /\ ~ Cancelled(following[c]) =>
                 Len(got[c]) = frames[following[c]]
    BY DEF Gapless
  <2>1. got[c] \in Seq(Nat) /\ \A i \in 1..Len(got[c]) : got[c][i] = i - 1
    BY <1>1 DEF IInv, TypeOK, ClientInv
  <2>2. got[c] = [i \in 1..Len(got[c]) |-> i - 1]
    <3>1. got[c] = [i \in 1..Len(got[c]) |-> got[c][i]]
      BY <2>1, LenProperties
    <3> QED
      BY <2>1, <3>1
  <2> QED
    BY <1>1, <2>2 DEF IInv, ClientInv
<1>2. ASSUME IInv PROVE DoneMeansAll
  BY <1>2 DEF DoneMeansAll, IInv, ClientInv
<1>3. IInv => ReplayFaithful
  BY <1>1, <1>2 DEF ReplayFaithful
<1> QED
  BY <1>3, Invariant, PTL


=============================================================================
