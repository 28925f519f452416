---------------------------- MODULE ProcessProofs ---------------------------
(***************************************************************************)
(* Proofs about the crons of a process (CronScheduler), for any number of  *)
(* replicas, chains, ticks and faults, and then about the shutdown of the  *)
(* process they run in (Shutdown), whatever they and its worker do.        *)
(***************************************************************************)
EXTENDS Shutdown, FiniteSetTheorems, TLAPS

Stages == {"none", "over", "armed", "insert", "delete", "won", "lost"}
Alive  == {"armed", "insert", "delete", "won", "lost"}
ChainStates == [stage : Stages, tick : Nat, due : Nat]

(* A chain that is not over has a tick of the schedule. *)
TypeOK ==
  /\ now \in 0..Horizon
  /\ cronStarted \in [Replicas -> BOOLEAN]
  /\ chain \in [Replicas -> [Chains -> ChainStates]]
  /\ timer \in [Replicas -> Chains \cup {0}]
  /\ inFlight \in [Replicas -> BOOLEAN]
  /\ runs \subseteq Replicas \X Ticks \X Nat
  /\ rows \subseteq Ticks
  /\ fires \in [Ticks -> Nat]
  /\ cronFaults \in Nat
  /\ \A r \in Replicas, c \in Chains : Stage(r, c) \in Alive => Tick(r, c) \in Ticks

(* A process that runs the handler knows it, and under `forbid` runs it once. *)
RunInv ==
  Concurrency = "forbid" =>
    /\ \A run \in runs : inFlight[run[1]]
    /\ \A x, y \in runs : x[1] = y[1] => x = y

(* state.timer belongs to a chain that waits for it. *)
TimerInv == \A r \in Replicas : timer[r] # 0 => Stage(r, timer[r]) = "armed"

(* How far a chain's tick may be from the present. *)
WindowInv ==
  \A r \in Replicas, c \in Chains :
    /\ Stage(r, c) \in Alive => Tick(r, c) <= now + Period
    /\ Stage(r, c) \in {"armed", "insert"} => now <= Tick(r, c) + MaxLate

Holds(r, c, t) == Stage(r, c) \in {"delete", "won"} /\ Tick(r, c) = t

(* A timer that can wait a whole period is due at its tick, and from then on
   the tick is never far ahead.                                            *)
DueInv ==
  \A r \in Replicas, c \in Chains :
    /\ Stage(r, c) = "armed" => chain[r][c].due = Tick(r, c)
    /\ Stage(r, c) \in {"insert", "delete", "won"} => Tick(r, c) <= now + Jitter

DueSafe == Period <= MaxDelay => DueInv

(* One chain at most holds a tick, before any handler ran for it; and a tick
   that may still be asked for, if it has no row, is held by nobody and did not
   run: no row is deleted too early. *)
LockInv ==
  UseLock /\ RowsOutlive =>
    /\ \A t \in Ticks, r, q \in Replicas, c, d \in Chains :
         Holds(r, c, t) => /\ fires[t] = 0
                           /\ Holds(q, d, t) => q = r /\ d = c
    /\ \A t \in Ticks : now <= t + MaxLate /\ t \notin rows =>
         fires[t] = 0 /\ \A r \in Replicas, c \in Chains : ~ Holds(r, c, t)
    /\ TickRunsOnce

IInv == TypeOK /\ RunInv /\ TimerInv /\ WindowInv /\ LockInv /\ ChainAlive /\ TakenTickRuns

-----------------------------------------------------------------------------
LEMMA MultipleOfPeriod ==
  ASSUME NEW n \in Nat
  PROVE  (n * Period) % Period = 0
<1> USE CronAssumption
<1> DEFINE x == n * Period
<1>1. x \in Nat /\ Period \in Nat /\ Period > 0
  OBVIOUS
<1> QED
  BY <1>1
(* interval.next() is a later tick, one period away at most. *)
LEMMA NextTickIsTick ==
  ASSUME now \in 0..Horizon
  PROVE  NextTick \in Ticks /\ now < NextTick /\ NextTick <= now + Period
<1> USE CronAssumption
<1> DEFINE q == now \div Period
<1>1. now \in Nat /\ Period \in Nat /\ Period > 0 /\ Horizon \in Nat /\ now <= Horizon
  OBVIOUS
<1>2. q \in Nat /\ q * Period <= now /\ now < q * Period + Period
  BY <1>1
<1>3. (q + 1) * Period = q * Period + Period /\ q * Period \in Nat
  BY <1>1, <1>2
<1>4. NextTick = (q + 1) * Period /\ NextTick \in Nat /\ q + 1 \in Nat
  BY <1>1, <1>2, <1>3 DEF NextTick
<1>5. NextTick % Period = 0
  BY <1>4, MultipleOfPeriod
<1> QED
  BY <1>1, <1>2, <1>3, <1>4, <1>5 DEF Ticks

LEMMA ArmedIsFresh ==
  ASSUME TypeOK
  PROVE  /\ Armed \in ChainStates /\ Armed.stage = "armed"
         /\ Armed.tick \in Ticks /\ Armed.tick <= now + Period
         /\ now <= Armed.tick + MaxLate
<1>1. now \in Nat /\ NextTick \in Nat /\ MaxLate \in Nat
  BY NextTickIsTick, CronAssumption DEF TypeOK, Ticks
<1> QED
  BY <1>1, NextTickIsTick, CronAssumption DEF TypeOK, Armed, ChainStates, Stages

-----------------------------------------------------------------------------
(* One chain moves on. *)
LEMMA SetChainEffect ==
  ASSUME TypeOK, NEW r \in Replicas, NEW c \in Chains, NEW record \in ChainStates,
         SetChain(r, c, record)
  PROVE  /\ chain' \in [Replicas -> [Chains -> ChainStates]]
         /\ chain'[r][c] = record
         /\ \A q \in Replicas, d \in Chains : q # r \/ d # c => chain'[q][d] = chain[q][d]
  BY DEF TypeOK, SetChain

(* What a chain that moves on must keep for the chains to stay in order. *)
ChainsInv == TimerInv /\ WindowInv /\ ChainAlive

LEMMA SetChainKeeps ==
  ASSUME IInv, NEW r \in Replicas, NEW c \in Chains, NEW record \in ChainStates,
         SetChain(r, c, record),
         UNCHANGED <<now, cronStarted>>,
         record.stage \in Alive => record.tick \in Ticks /\ record.tick <= now + Period,
         record.stage \in {"armed", "insert"} => now <= record.tick + MaxLate,
         cronStarted[r] => record.stage \in Alive,
         NEW held \in Chains \cup {0}, timer' = [timer EXCEPT ![r] = held],
         \/ held = 0
         \/ held = c /\ record.stage = "armed"
         \/ held = timer[r] /\ Stage(r, c) # "armed"
  PROVE  /\ chain' \in [Replicas -> [Chains -> ChainStates]]
         /\ timer' \in [Replicas -> Chains \cup {0}]
         /\ (\A q \in Replicas, d \in Chains : Stage(q, d) \in Alive => Tick(q, d) \in Ticks)'
         /\ ChainsInv'
<1>1. /\ chain' \in [Replicas -> [Chains -> ChainStates]]
      /\ chain'[r][c] = record
      /\ \A q \in Replicas, d \in Chains : q # r \/ d # c => chain'[q][d] = chain[q][d]
  BY SetChainEffect DEF IInv
<1>2. timer' \in [Replicas -> Chains \cup {0}]
  BY DEF IInv, TypeOK
<1>3. (\A q \in Replicas, d \in Chains : Stage(q, d) \in Alive => Tick(q, d) \in Ticks)'
  BY <1>1 DEF IInv, TypeOK, Stage, Tick
<1>4. TimerInv'
  BY <1>1 DEF IInv, TypeOK, TimerInv, Stage
<1>5. WindowInv'
  BY <1>1 DEF IInv, WindowInv, Stage, Tick
<1>6. ChainAlive'
  BY <1>1 DEF IInv, ChainAlive, Stage, Alive
<1> QED
  BY <1>1, <1>2, <1>3, <1>4, <1>5, <1>6 DEF ChainsInv

LEMMA ScheduleNextEffect ==
  ASSUME IInv, NEW r \in Replicas, NEW c \in Chains, NEW held,
         ScheduleNext(r, c, held), UNCHANGED <<now, cronStarted>>,
         held # 0 => held = timer[r] /\ Stage(r, c) # "armed"
  PROVE  /\ chain' \in [Replicas -> [Chains -> ChainStates]]
         /\ timer' \in [Replicas -> Chains \cup {0}]
         /\ (\A q \in Replicas, d \in Chains : Stage(q, d) \in Alive => Tick(q, d) \in Ticks)'
         /\ ChainsInv'
         /\ chain'[r][c].stage \in {"armed", "over"}
         /\ \A q \in Replicas, d \in Chains : q # r \/ d # c => chain'[q][d] = chain[q][d]
<1>0. TypeOK /\ held \in Chains \cup {0}
  BY DEF IInv, TypeOK
<1>1. CASE cronStarted[r]
  <2>1. SetChain(r, c, Armed) /\ timer' = [timer EXCEPT ![r] = c]
    BY <1>1 DEF ScheduleNext
  <2>2. /\ Armed \in ChainStates /\ Armed.stage = "armed"
        /\ Armed.tick \in Ticks /\ Armed.tick <= now + Period /\ now <= Armed.tick + MaxLate
    BY <1>0, ArmedIsFresh
  <2>3. Armed.stage \in Alive
    BY <2>2 DEF Alive
  <2>4. /\ chain'[r][c] = Armed
        /\ \A q \in Replicas, d \in Chains : q # r \/ d # c => chain'[q][d] = chain[q][d]
    BY <1>0, <2>1, <2>2, SetChainEffect
  <2> QED
    BY <2>1, <2>2, <2>3, <2>4, SetChainKeeps
<1>2. CASE ~ cronStarted[r]
  <2> DEFINE record == Idle("over")
  <2>1. SetChain(r, c, record) /\ timer' = [timer EXCEPT ![r] = held]
    BY <1>2 DEF ScheduleNext
  <2>2. record \in ChainStates /\ record.stage = "over"
    BY DEF Idle, ChainStates, Stages, NoTick
  <2>3. record.stage \notin Alive /\ record.stage \notin {"armed", "insert"}
    BY <2>2 DEF Alive
  <2> HIDE DEF record
  <2>4. /\ chain'[r][c] = record
        /\ \A q \in Replicas, d \in Chains : q # r \/ d # c => chain'[q][d] = chain[q][d]
    BY <1>0, <2>1, <2>2, SetChainEffect
  <2> QED
    BY <1>0, <1>2, <2>1, <2>2, <2>3, <2>4, SetChainKeeps
<1> QED
  BY <1>1, <1>2

-----------------------------------------------------------------------------
(* The handlers.  A chain that fires its tick holds it, if there is a lock. *)
LEMMA FireKeeps ==
  ASSUME IInv, NEW r \in Replicas, NEW c \in Chains,
         FireAndReschedule(r, c), UNCHANGED <<now, cronStarted, lockVars>>,
         Stage(r, c) \in {"armed", "won"}, UseLock => Stage(r, c) = "won"
  PROVE  IInv'
<1> DEFINE t == Tick(r, c)
           run == <<r, t, fires[t] + 1>>
<1>0. t \in Ticks /\ fires[t] \in Nat
  BY DEF IInv, TypeOK, Alive
<1>1. /\ chain' \in [Replicas -> [Chains -> ChainStates]]
      /\ timer' \in [Replicas -> Chains \cup {0}]
      /\ (\A q \in Replicas, d \in Chains : Stage(q, d) \in Alive => Tick(q, d) \in Ticks)'
      /\ ChainsInv'
      /\ chain'[r][c].stage \in {"armed", "over"}
      /\ \A q \in Replicas, d \in Chains : q # r \/ d # c => chain'[q][d] = chain[q][d]
  <2>1. ScheduleNext(r, c, 0) /\ UNCHANGED <<now, cronStarted>>
    BY DEF FireAndReschedule
  <2> QED
    BY <2>1, ScheduleNextEffect DEF IInv
<1> USE DEF IInv
<1>2. \A q \in Replicas, d \in Chains, u \in Ticks :
        Holds(q, d, u)' <=> Holds(q, d, u) /\ ~ (q = r /\ d = c)
  BY <1>1 DEF Holds, Stage, Tick
<1>3. CASE inFlight[r] /\ Concurrency = "forbid"
  <2>1. skipped' = skipped \cup {t} /\ UNCHANGED <<inFlight, runs, fires, now, rows, cronFaults>>
    BY <1>3 DEF FireAndReschedule, runVars, lockVars
  <2>2. TypeOK'
    BY <1>1, <2>1 DEF TypeOK
  <2>3. RunInv'
    BY <2>1 DEF RunInv
  <2>4. LockInv'
    BY <1>2, <2>1 DEF LockInv, TickRunsOnce
  <2>5. TakenTickRuns'
    <3> SUFFICES ASSUME NEW u \in rows', fires'[u] = 0, u \notin skipped'
                 PROVE  \E q \in Replicas, d \in Chains : Holds(q, d, u)'
      BY <1>1, <2>1, <2>2 DEF TypeOK, TakenTickRuns, Taken, Holds
    <3>1. u \in Ticks /\ u # t
      BY <2>1 DEF TypeOK
    <3>2. PICK q \in Replicas, d \in Chains : Holds(q, d, u)
      BY <2>1 DEF TakenTickRuns, Taken, Holds
    <3> QED
      BY <1>2, <3>1, <3>2 DEF Holds
  <2> QED
    BY <1>1, <2>2, <2>3, <2>4, <2>5 DEF ChainsInv
<1>4. CASE ~ (inFlight[r] /\ Concurrency = "forbid")
  <2>1. /\ inFlight' = [inFlight EXCEPT ![r] = TRUE]
        /\ runs' = runs \cup {run}
        /\ fires' = [fires EXCEPT ![t] = @ + 1]
        /\ UNCHANGED <<skipped, now, rows, cronFaults>>
    BY <1>4 DEF FireAndReschedule, lockVars
  <2>2. TypeOK'
    <3>1. run \in Replicas \X Ticks \X Nat
      BY <1>0
    <3> QED
      BY <1>0, <1>1, <2>1, <3>1 DEF TypeOK
  <2>3. RunInv'
    <3> SUFFICES ASSUME Concurrency = "forbid"
                 PROVE  /\ \A x \in runs' : inFlight'[x[1]]
                        /\ \A x, y \in runs' : x[1] = y[1] => x = y
      BY DEF RunInv
    <3>1. ~ inFlight[r] /\ run[1] = r
      BY <1>4
    <3>2. \A x \in runs : x[1] \in Replicas /\ x[1] # r /\ inFlight'[x[1]]
      BY <2>1, <3>1 DEF RunInv, TypeOK
    <3>3. inFlight'[r]
      BY <2>1 DEF TypeOK
    <3> QED
      BY <2>1, <3>1, <3>2, <3>3 DEF RunInv
  <2>4. LockInv'
    <3> SUFFICES ASSUME UseLock, RowsOutlive PROVE LockInv'
      BY DEF LockInv
    <3>1. Holds(r, c, t) /\ fires[t] = 0
      BY <1>0 DEF Holds, LockInv
    <3>2. fires'[t] = 1 /\ \A u \in Ticks : u # t => fires'[u] = fires[u]
      BY <1>0, <2>1, <3>1 DEF TypeOK
    <3>3. \A q \in Replicas, d \in Chains : Holds(q, d, t) => q = r /\ d = c
      BY <1>0, <3>1 DEF LockInv
    <3>4. ~ (now <= t + MaxLate /\ t \notin rows)
      BY <1>0, <3>1 DEF LockInv
    <3>5. \A u \in Ticks, q \in Replicas, d \in Chains : Holds(q, d, u)' => u # t
      BY <1>2, <3>3
    <3>6. TickRunsOnce'
      BY <3>2 DEF LockInv, TickRunsOnce
    <3> QED
      BY <1>2, <2>1, <3>2, <3>4, <3>5, <3>6 DEF LockInv
  <2>5. TakenTickRuns'
    <3> SUFFICES ASSUME NEW u \in rows', fires'[u] = 0, u \notin skipped'
                 PROVE  \E q \in Replicas, d \in Chains : Holds(q, d, u)'
      BY <1>1, <2>1, <2>2 DEF TypeOK, TakenTickRuns, Taken, Holds
    <3>1. u \in Ticks /\ u # t
      BY <1>0, <2>1 DEF TypeOK
    <3>2. PICK q \in Replicas, d \in Chains : Holds(q, d, u)
      BY <2>1, <3>1 DEF TypeOK, TakenTickRuns, Taken, Holds
    <3> QED
      BY <1>2, <3>1, <3>2 DEF Holds
  <2> QED
    BY <1>1, <2>2, <2>3, <2>4, <2>5 DEF ChainsInv
<1> QED
  BY <1>3, <1>4

-----------------------------------------------------------------------------
(* The lock.  A chain between its timer and its handler that starts none. *)
StepOfChain(r, c) ==
  /\ UNCHANGED <<now, cronStarted, runVars>>
  /\ chain' \in [Replicas -> [Chains -> ChainStates]]
  /\ timer' \in [Replicas -> Chains \cup {0}]
  /\ (\A q \in Replicas, d \in Chains : Stage(q, d) \in Alive => Tick(q, d) \in Ticks)'
  /\ ChainsInv'
  /\ \A q \in Replicas, d \in Chains : q # r \/ d # c => chain'[q][d] = chain[q][d]
  /\ cronFaults' \in Nat

LEMMA MovedEffect ==
  ASSUME IInv, NEW r \in Replicas, NEW c \in Chains,
         NEW from \in {"insert", "delete"}, NEW to \in {"delete", "won", "lost"},
         Moved(r, c, from, to), cronFaults' \in Nat
  PROVE  /\ StepOfChain(r, c)
         /\ Tick(r, c) \in Ticks
         /\ Stage(r, c) = from /\ Stage(r, c)' = to /\ Tick(r, c)' = Tick(r, c)
<1> DEFINE record == [chain[r][c] EXCEPT !.stage = to]
<1>1. chain[r][c] \in ChainStates /\ Stage(r, c) = from /\ from \in Alive /\ to \in Alive
  BY DEF IInv, TypeOK, Moved, Alive
<1>2. record \in ChainStates /\ record.stage = to /\ record.tick = Tick(r, c)
  BY <1>1 DEF ChainStates, Stages, Tick
<1>3. SetChain(r, c, record) /\ UNCHANGED <<now, cronStarted, timer, runVars>>
  BY DEF Moved
<1> HIDE DEF record
<1>4. Tick(r, c) \in Ticks /\ Tick(r, c) <= now + Period
  BY <1>1 DEF IInv, TypeOK, WindowInv
<1>5. /\ chain'[r][c] = record
      /\ \A q \in Replicas, d \in Chains : q # r \/ d # c => chain'[q][d] = chain[q][d]
  BY <1>2, <1>3, SetChainEffect DEF IInv
<1>6. /\ timer' = [timer EXCEPT ![r] = timer[r]] /\ timer[r] \in Chains \cup {0}
      /\ to \notin {"armed", "insert"} /\ Stage(r, c) # "armed"
  BY <1>1, <1>3 DEF IInv, TypeOK
<1>7. /\ chain' \in [Replicas -> [Chains -> ChainStates]]
      /\ timer' \in [Replicas -> Chains \cup {0}]
      /\ (\A q \in Replicas, d \in Chains : Stage(q, d) \in Alive => Tick(q, d) \in Ticks)'
      /\ ChainsInv'
  <2> DEFINE held == timer[r]
  <2> HIDE DEF held
  <2>1. held \in Chains \cup {0} /\ timer' = [timer EXCEPT ![r] = held] /\ held = timer[r]
    BY <1>6 DEF held
  <2> QED
    BY <1>1, <1>2, <1>3, <1>4, <1>6, <2>1, SetChainKeeps
<1> QED
  BY <1>1, <1>2, <1>3, <1>4, <1>5, <1>7 DEF StepOfChain, Stage, Tick

(* What such a step must do to the rows. *)
LEMMA LockStep ==
  ASSUME IInv, NEW r \in Replicas, NEW c \in Chains, StepOfChain(r, c),
         rows' \subseteq Ticks,
         LockInv',
         TakenTickRuns'
  PROVE  IInv'
<1>1. TypeOK'
  BY DEF IInv, StepOfChain, TypeOK, runVars
<1>2. RunInv'
  BY DEF IInv, StepOfChain, RunInv, runVars
<1> QED
  BY <1>1, <1>2 DEF IInv, StepOfChain, ChainsInv

LEMMA HoldsEffect ==
  ASSUME NEW r \in Replicas, NEW c \in Chains, StepOfChain(r, c)
  PROVE  \A q \in Replicas, d \in Chains, u \in Ticks :
           q # r \/ d # c => (Holds(q, d, u)' <=> Holds(q, d, u))
BY DEF StepOfChain, Holds, Stage, Tick

(* In terms of Holds, what TakenTickRuns says. *)
LEMMA TakenByHolders ==
  TakenTickRuns <=> \A u \in rows : \/ fires[u] > 0
                                    \/ u \in skipped
                                    \/ \E q \in Replicas, d \in Chains : Holds(q, d, u)
BY DEF TakenTickRuns, Taken, Holds

LEMMA InsertRowKeeps ==
  ASSUME IInv, NEW r \in Replicas, NEW c \in Chains, InsertRow(r, c)
  PROVE  IInv'
<1> DEFINE t == Tick(r, c)
           to == IF t \in rows THEN "lost" ELSE "delete"
<1>1. Moved(r, c, "insert", to) /\ to \in {"delete", "won", "lost"} /\ cronFaults' \in Nat
  BY DEF InsertRow, IInv, TypeOK
<1>2. /\ StepOfChain(r, c) /\ t \in Ticks
      /\ Stage(r, c) = "insert" /\ Stage(r, c)' = to /\ t' = t
  BY <1>1, MovedEffect
<1>3. rows' = rows \cup {t} /\ UNCHANGED <<fires, skipped, now>>
  BY DEF InsertRow, Moved, runVars
<1>4. now <= t + MaxLate
  BY <1>2 DEF IInv, WindowInv
<1>5. \A u \in Ticks : ~ Holds(r, c, u)
  BY <1>2 DEF Holds
<1>6. \A u \in Ticks : Holds(r, c, u)' <=> u = t /\ t \notin rows
  BY <1>2 DEF Holds
<1>7. LockInv'
  <2> SUFFICES ASSUME UseLock, RowsOutlive PROVE LockInv'
    BY DEF LockInv
  <2>1. \A q \in Replicas, d \in Chains, u \in Ticks :
          Holds(q, d, u)' <=> \/ Holds(q, d, u)
                              \/ q = r /\ d = c /\ u = t /\ t \notin rows
    BY <1>2, <1>5, <1>6, HoldsEffect
  <2>2. t \notin rows => fires[t] = 0 /\ \A q \in Replicas, d \in Chains : ~ Holds(q, d, t)
    BY <1>2, <1>4 DEF IInv, LockInv
  <2>3. TickRunsOnce'
    BY <1>3 DEF IInv, LockInv, TickRunsOnce
  <2>4. \A u \in Ticks, p, q \in Replicas, b, d \in Chains :
          Holds(p, b, u)' => /\ fires'[u] = 0
                             /\ Holds(q, d, u)' => q = p /\ d = b
    BY <1>3, <2>1, <2>2 DEF IInv, LockInv
  <2>5. \A u \in Ticks : now' <= u + MaxLate /\ u \notin rows' =>
         fires'[u] = 0 /\ \A p \in Replicas, b \in Chains : ~ Holds(p, b, u)'
    BY <1>3, <2>1 DEF IInv, LockInv
  <2> QED
    BY <2>3, <2>4, <2>5 DEF LockInv
<1>8. TakenTickRuns'
  <2>1. ASSUME NEW u \in rows', fires'[u] = 0, u \notin skipped'
        PROVE  \E q \in Replicas, d \in Chains : Holds(q, d, u)'
    <3>1. CASE u \in rows
      <4>1. PICK q \in Replicas, d \in Chains : Holds(q, d, u) /\ u \in Ticks
        BY <1>3, <2>1, <3>1, TakenByHolders DEF IInv, TypeOK
      <4> QED
        BY <1>2, <1>5, <4>1, HoldsEffect
    <3>2. CASE u \notin rows
      BY <1>2, <1>3, <1>6, <2>1, <3>2
    <3> QED
      BY <3>1, <3>2
  <2>2. \A u \in rows' : u \in Ticks /\ fires'[u] \in Nat
    BY <1>2, <1>3 DEF IInv, TypeOK
  <2> QED
    BY <2>1, <2>2 DEF TakenTickRuns, Taken, Holds
<1> QED
  BY <1>2, <1>3, <1>7, <1>8, LockStep DEF IInv, TypeOK

(* A step that takes no tick and forgets none that may still be asked for. *)
LEMMA LockKept ==
  ASSUME IInv, UNCHANGED <<now, fires>>,
         \A q \in Replicas, d \in Chains, u \in Ticks : Holds(q, d, u)' => Holds(q, d, u),
         RowsOutlive => \A u \in rows : now <= u + MaxLate => u \in rows'
  PROVE  LockInv'
<1> SUFFICES ASSUME UseLock, RowsOutlive PROVE LockInv'
  BY DEF LockInv
<1>1. TickRunsOnce'
  BY DEF IInv, LockInv, TickRunsOnce
<1>2. \A u \in Ticks, p, q \in Replicas, b, d \in Chains :
        Holds(p, b, u)' => /\ fires'[u] = 0
                           /\ Holds(q, d, u)' => q = p /\ d = b
  BY DEF IInv, LockInv
<1>3. \A u \in Ticks : now' <= u + MaxLate /\ u \notin rows' =>
       fires'[u] = 0 /\ \A p \in Replicas, b \in Chains : ~ Holds(p, b, u)'
  BY DEF IInv, LockInv
<1> QED
  BY <1>1, <1>2, <1>3 DEF LockInv

(* A step after which a row is excused, or held by the chains that held it. *)
LEMMA TakenKept ==
  ASSUME IInv, UNCHANGED fires, rows' \subseteq Ticks,
         \A u \in rows' :
           \/ u \in skipped'
           \/ /\ u \in rows /\ (u \in skipped => u \in skipped')
              /\ \A q \in Replicas, d \in Chains : Holds(q, d, u) => Holds(q, d, u)'
  PROVE  TakenTickRuns'
<1>1. ASSUME NEW u \in rows', fires'[u] = 0, u \notin skipped'
      PROVE  \E q \in Replicas, d \in Chains : Holds(q, d, u)'
  <2>1. u \in rows /\ u \notin skipped /\ fires[u] = 0
    BY <1>1
  <2>2. PICK q \in Replicas, d \in Chains : Holds(q, d, u)
    BY <2>1, TakenByHolders DEF IInv
  <2> QED
    BY <1>1, <2>2
<1>2. \A u \in rows' : fires'[u] \in Nat
  BY DEF IInv, TypeOK
<1> QED
  BY <1>1, <1>2 DEF TakenTickRuns, Taken, Holds

LEMMA DeleteOldKeeps ==
  ASSUME IInv, DueSafe, NEW r \in Replicas, NEW c \in Chains, DeleteOld(r, c)
  PROVE  IInv'
<1> DEFINE t == Tick(r, c)
<1>1. Moved(r, c, "delete", "won") /\ cronFaults' \in Nat
  BY DEF DeleteOld, IInv, TypeOK
<1>2. /\ StepOfChain(r, c) /\ t \in Ticks
      /\ Stage(r, c) = "delete" /\ Stage(r, c)' = "won" /\ t' = t
  BY <1>1, MovedEffect
<1>3. rows' = {u \in rows : u >= t - Retention} /\ UNCHANGED <<fires, skipped, now>>
  BY DEF DeleteOld, Moved, runVars
<1>4. \A q \in Replicas, d \in Chains, u \in Ticks : Holds(q, d, u)' <=> Holds(q, d, u)
  <2>1. \A u \in Ticks : Holds(r, c, u)' <=> Holds(r, c, u)
    BY <1>2 DEF Holds
  <2> QED
    BY <1>2, <2>1, HoldsEffect
<1>5. ASSUME RowsOutlive, NEW u \in rows, now <= u + MaxLate PROVE u \in rows'
  <2>1. t <= now + Lead
    BY <1>2 DEF IInv, WindowInv, Alive, DueSafe, DueInv, Lead
  <2>2. {now, u, t, Lead, MaxLate, Retention} \subseteq Nat
    BY <1>2, CronAssumption DEF IInv, TypeOK, Ticks, Lead
  <2>3. u >= t - Retention
    BY <1>5, <2>1, <2>2 DEF RowsOutlive
  <2> QED
    BY <1>3, <2>3
<1>6. rows' \subseteq rows /\ rows \subseteq Ticks
  BY <1>3 DEF IInv, TypeOK
<1>7. LockInv'
  BY <1>3, <1>4, <1>5, LockKept
<1>8. TakenTickRuns'
  BY <1>3, <1>4, <1>6, TakenKept
<1> QED
  BY <1>2, <1>6, <1>7, <1>8, LockStep

LEMMA InsertFailsKeeps ==
  ASSUME IInv, NEW r \in Replicas, NEW c \in Chains, InsertFails(r, c)
  PROVE  IInv'
<1> DEFINE t == Tick(r, c)
<1>1. Moved(r, c, "insert", "lost") /\ cronFaults' \in Nat
  BY DEF InsertFails, IInv, TypeOK
<1>2. /\ StepOfChain(r, c) /\ t \in Ticks
      /\ Stage(r, c) = "insert" /\ Stage(r, c)' = "lost" /\ t' = t
  BY <1>1, MovedEffect
<1>3. /\ rows \subseteq rows' /\ rows' \subseteq rows \cup {t} /\ rows \subseteq Ticks
      /\ skipped \subseteq skipped' /\ (rows' \subseteq rows \/ t \in skipped')
      /\ UNCHANGED <<fires, now>>
  BY DEF InsertFails, Moved, runVars, IInv, TypeOK
<1>4. \A q \in Replicas, d \in Chains, u \in Ticks : Holds(q, d, u)' <=> Holds(q, d, u)
  <2>1. \A u \in Ticks : Holds(r, c, u)' <=> Holds(r, c, u)
    BY <1>2 DEF Holds
  <2> QED
    BY <1>2, <2>1, HoldsEffect
<1>5. LockInv'
  BY <1>3, <1>4, LockKept
<1>6. rows' \subseteq Ticks
  BY <1>2, <1>3
<1>7. TakenTickRuns'
  BY <1>3, <1>4, <1>6, TakenKept
<1> QED
  BY <1>2, <1>5, <1>6, <1>7, LockStep

LEMMA DeleteFailsKeeps ==
  ASSUME IInv, NEW r \in Replicas, NEW c \in Chains, DeleteFails(r, c)
  PROVE  IInv'
<1> DEFINE t == Tick(r, c)
<1>1. Moved(r, c, "delete", "lost") /\ cronFaults' \in Nat
  BY DEF DeleteFails, IInv, TypeOK
<1>2. /\ StepOfChain(r, c) /\ t \in Ticks
      /\ Stage(r, c) = "delete" /\ Stage(r, c)' = "lost" /\ t' = t
  BY <1>1, MovedEffect
<1>3. rows' = rows /\ skipped' = skipped \cup {t} /\ UNCHANGED <<fires, now>> /\ rows \subseteq Ticks
  BY DEF DeleteFails, Moved, runVars, IInv, TypeOK
<1>4. \A u \in Ticks : ~ Holds(r, c, u)' /\ (Holds(r, c, u) <=> u = t)
  BY <1>2 DEF Holds
<1>5. \A q \in Replicas, d \in Chains, u \in Ticks : Holds(q, d, u)' <=> Holds(q, d, u) /\ ~ (q = r /\ d = c)
  BY <1>2, <1>4, HoldsEffect
<1>6. LockInv'
  BY <1>3, <1>5, LockKept
<1>7. TakenTickRuns'
  BY <1>3, <1>4, <1>5, TakenKept
<1> QED
  BY <1>2, <1>3, <1>6, <1>7, LockStep

(* The timer's callback with a lock, and an answer that another replica, or
   nobody, has the tick: the chain holds no tick before or after.          *)
LEMMA IdleStepKeeps ==
  ASSUME IInv, NEW r \in Replicas, NEW c \in Chains, StepOfChain(r, c),
         UNCHANGED <<rows, skipped>>,
         Stage(r, c) \notin {"delete", "won"}, Stage(r, c)' \notin {"delete", "won"}
  PROVE  IInv'
<1>1. UNCHANGED <<fires, now>> /\ rows \subseteq Ticks
  BY DEF StepOfChain, runVars, IInv, TypeOK
<1>2. \A q \in Replicas, d \in Chains, u \in Ticks : Holds(q, d, u)' <=> Holds(q, d, u)
  <2>1. \A u \in Ticks : ~ Holds(r, c, u)' /\ ~ Holds(r, c, u)
    BY DEF Holds
  <2> QED
    BY <2>1, HoldsEffect
<1>3. LockInv'
  BY <1>1, <1>2, LockKept
<1>4. TakenTickRuns'
  BY <1>1, <1>2, TakenKept
<1> QED
  BY <1>1, <1>3, <1>4, LockStep

LEMMA TimerFiresKeeps ==
  ASSUME IInv, NEW r \in Replicas, NEW c \in Chains, TimerFires(r, c)
  PROVE  IInv'
<1>0. Stage(r, c) = "armed" /\ UNCHANGED <<now, cronStarted, lockVars>>
  BY DEF TimerFires
<1>1. CASE UseLock
  <2> DEFINE record == [chain[r][c] EXCEPT !.stage = "insert"]
  <2>1. /\ SetChain(r, c, record) /\ timer' = [timer EXCEPT ![r] = 0]
        /\ UNCHANGED <<runVars, skipped, rows, cronFaults>>
    BY <1>0, <1>1 DEF TimerFires, lockVars
  <2>2. chain[r][c] \in ChainStates
    BY DEF IInv, TypeOK
  <2>3. record \in ChainStates /\ record.stage = "insert" /\ record.tick = Tick(r, c)
    BY <2>2 DEF ChainStates, Stages, Tick
  <2> HIDE DEF record
  <2>4. /\ chain'[r][c] = record
        /\ \A q \in Replicas, d \in Chains : q # r \/ d # c => chain'[q][d] = chain[q][d]
    BY <2>1, <2>3, SetChainEffect DEF IInv
  <2>5. /\ Tick(r, c) \in Ticks /\ Tick(r, c) <= now + Period /\ now <= Tick(r, c) + MaxLate
        /\ "insert" \in Alive
    BY <1>0 DEF IInv, TypeOK, WindowInv, Alive
  <2>6. StepOfChain(r, c)
    BY <1>0, <2>1, <2>3, <2>4, <2>5, SetChainKeeps DEF StepOfChain, IInv, TypeOK
  <2> QED
    BY <1>0, <2>1, <2>3, <2>4, <2>6, IdleStepKeeps DEF Stage
<1>2. CASE ~ UseLock
  BY <1>0, <1>2, FireKeeps DEF TimerFires
<1> QED
  BY <1>1, <1>2

LEMMA AcquireSettlesKeeps ==
  ASSUME IInv, NEW r \in Replicas, NEW c \in Chains, AcquireSettles(r, c)
  PROVE  IInv'
<1>0. Stage(r, c) \in {"won", "lost"} /\ UNCHANGED <<now, cronStarted, lockVars>>
  BY DEF AcquireSettles
<1>1. CASE Stage(r, c) = "won"
  BY <1>0, <1>1, FireKeeps DEF AcquireSettles
<1>2. CASE Stage(r, c) = "lost"
  <2>1. ScheduleNext(r, c, timer[r]) /\ UNCHANGED <<runVars, skipped, rows, cronFaults>>
    BY <1>0, <1>2 DEF AcquireSettles, lockVars
  <2>2. /\ chain' \in [Replicas -> [Chains -> ChainStates]]
        /\ timer' \in [Replicas -> Chains \cup {0}]
        /\ (\A q \in Replicas, d \in Chains : Stage(q, d) \in Alive => Tick(q, d) \in Ticks)'
        /\ ChainsInv'
        /\ chain'[r][c].stage \in {"armed", "over"}
        /\ \A q \in Replicas, d \in Chains : q # r \/ d # c => chain'[q][d] = chain[q][d]
    BY <1>0, <1>2, <2>1, ScheduleNextEffect
  <2>3. StepOfChain(r, c)
    BY <1>0, <2>1, <2>2 DEF StepOfChain, IInv, TypeOK
  <2> QED
    BY <1>2, <2>1, <2>2, <2>3, IdleStepKeeps DEF Stage
<1> QED
  BY <1>0, <1>1, <1>2

-----------------------------------------------------------------------------
(* The scheduler. *)
LEMMA StartKeeps ==
  ASSUME IInv, NEW r \in Replicas, StartCrons(r)
  PROVE  IInv'
<1>1. PICK c \in Chains :
        /\ \A i \in Chains : i < c <=> Stage(r, i) # "none"
        /\ SetChain(r, c, Armed) /\ timer' = [timer EXCEPT ![r] = c]
  BY DEF StartCrons
<1>2. /\ cronStarted' = [cronStarted EXCEPT ![r] = TRUE]
      /\ UNCHANGED <<now, inFlight, runs, fires, rows, cronFaults, skipped>>
  BY DEF StartCrons, runVars, lockVars
<1>3. Stage(r, c) = "none"
  <2>1. c \in Int /\ ~ (c < c)
    BY DEF Chains
  <2> QED
    BY <1>1, <2>1
<1>4. /\ Armed \in ChainStates /\ Armed.stage = "armed"
      /\ Armed.tick \in Ticks /\ Armed.tick <= now + Period /\ now <= Armed.tick + MaxLate
  BY ArmedIsFresh DEF IInv
<1>5. /\ chain' \in [Replicas -> [Chains -> ChainStates]]
      /\ chain'[r][c] = Armed
      /\ \A q \in Replicas, d \in Chains : q # r \/ d # c => chain'[q][d] = chain[q][d]
  BY <1>1, <1>4, SetChainEffect DEF IInv
<1>6. TypeOK'
  <2>1. (\A q \in Replicas, d \in Chains : Stage(q, d) \in Alive => Tick(q, d) \in Ticks)'
    BY <1>4, <1>5 DEF IInv, TypeOK, Stage, Tick
  <2>2. cronStarted' \in [Replicas -> BOOLEAN] /\ timer' \in [Replicas -> Chains \cup {0}]
    BY <1>1, <1>2 DEF IInv, TypeOK
  <2> QED
    BY <1>2, <1>5, <2>1, <2>2 DEF IInv, TypeOK
<1>7. RunInv'
  BY <1>2 DEF IInv, RunInv
<1>8. TimerInv'
  BY <1>1, <1>4, <1>5 DEF IInv, TypeOK, TimerInv, Stage
<1>9. WindowInv'
  BY <1>2, <1>4, <1>5 DEF IInv, WindowInv, Stage, Tick
<1>10. ChainAlive'
  BY <1>2, <1>4, <1>5 DEF IInv, TypeOK, ChainAlive, Stage
<1>11. \A q \in Replicas, d \in Chains, u \in Ticks : Holds(q, d, u)' <=> Holds(q, d, u)
  BY <1>3, <1>4, <1>5 DEF Holds, Stage, Tick
<1>12. rows' \subseteq Ticks
  BY <1>2 DEF IInv, TypeOK
<1>13. LockInv' /\ TakenTickRuns'
  BY <1>2, <1>11, <1>12, LockKept, TakenKept
<1> QED
  BY <1>6, <1>7, <1>8, <1>9, <1>10, <1>13 DEF IInv

(* What stop() and the end of a process leave of a replica's chains. *)
LEMMA ClosingKeeps ==
  ASSUME IInv, NEW r \in Replicas,
         NEW closed \in SUBSET Chains,
         chain' \in [Replicas -> [Chains -> ChainStates]],
         \A d \in closed : chain'[r][d].stage \in {"none", "over"},
         \A q \in Replicas, d \in Chains : q # r \/ d \notin closed => chain'[q][d] = chain[q][d],
         timer[r] # 0 => timer[r] \in closed,
         timer' = [timer EXCEPT ![r] = 0],
         cronStarted' = [cronStarted EXCEPT ![r] = FALSE],
         now' = now
  PROVE  /\ timer' \in [Replicas -> Chains \cup {0}]
         /\ cronStarted' \in [Replicas -> BOOLEAN]
         /\ (\A q \in Replicas, d \in Chains : Stage(q, d) \in Alive => Tick(q, d) \in Ticks)'
         /\ ChainsInv'
         /\ \A q \in Replicas, d \in Chains, u \in Ticks :
              Holds(q, d, u)' <=> Holds(q, d, u) /\ ~ (q = r /\ d \in closed)
<1>4. /\ timer' \in [Replicas -> Chains \cup {0}]
      /\ cronStarted' \in [Replicas -> BOOLEAN]
  BY DEF IInv, TypeOK
<1>5. (\A q \in Replicas, d \in Chains : Stage(q, d) \in Alive => Tick(q, d) \in Ticks)'
  BY DEF IInv, TypeOK, Stage, Tick, Alive
<1>6. TimerInv'
  BY DEF IInv, TypeOK, TimerInv, Stage
<1>7. WindowInv'
  BY DEF IInv, WindowInv, Stage, Tick, Alive
<1>8. ChainAlive'
  BY DEF IInv, TypeOK, ChainAlive, Stage
<1>9. \A q \in Replicas, d \in Chains, u \in Ticks :
              Holds(q, d, u)' <=> Holds(q, d, u) /\ ~ (q = r /\ d \in closed)
  BY DEF Holds, Stage, Tick
<1> QED
  BY <1>4, <1>5, <1>6, <1>7, <1>8, <1>9 DEF ChainsInv

LEMMA StopKeeps ==
  ASSUME IInv, NEW r \in Replicas, StopCrons(r)
  PROVE  IInv'
<1> DEFINE closed == {timer[r]} \ {0}
<1>1. /\ cronStarted' = [cronStarted EXCEPT ![r] = FALSE]
      /\ timer' = [timer EXCEPT ![r] = 0]
      /\ UNCHANGED <<now, inFlight, runs, fires, rows, cronFaults, skipped>>
  BY DEF StopCrons, lockVars
<1>2. closed \in SUBSET Chains /\ timer[r] \in Chains \cup {0} /\ 0 \notin Chains
  BY DEF IInv, TypeOK, Chains
<1> DEFINE left == [c \in Chains |-> IF c = timer[r] THEN Idle("over") ELSE chain[r][c]]
<1>3. /\ chain' = [chain EXCEPT ![r] = left]
      /\ \A c \in closed : left[c].stage \in {"none", "over"}
      /\ \A c \in Chains \ closed : left[c] = chain[r][c]
  BY <1>2 DEF StopCrons, Idle
<1>10. left \in [Chains -> ChainStates]
  BY DEF IInv, TypeOK, Idle, ChainStates, Stages, NoTick
<1>4. timer[r] # 0 => timer[r] \in closed
  OBVIOUS
<1>11. /\ chain' \in [Replicas -> [Chains -> ChainStates]]
       /\ \A d \in closed : chain'[r][d].stage \in {"none", "over"}
       /\ \A q \in Replicas, d \in Chains :
            q # r \/ d \notin closed => chain'[q][d] = chain[q][d]
  <2> HIDE DEF left, closed
  <2> QED
    BY <1>2, <1>3, <1>10 DEF IInv, TypeOK
<1>5. \A d \in closed : Stage(r, d) = "armed"
  BY DEF IInv, TimerInv
<1> HIDE DEF closed, left
<1>6. /\ timer' \in [Replicas -> Chains \cup {0}]
      /\ cronStarted' \in [Replicas -> BOOLEAN]
      /\ (\A q \in Replicas, d \in Chains : Stage(q, d) \in Alive => Tick(q, d) \in Ticks)'
      /\ ChainsInv'
      /\ \A q \in Replicas, d \in Chains, u \in Ticks :
           Holds(q, d, u)' <=> Holds(q, d, u) /\ ~ (q = r /\ d \in closed)
  BY <1>1, <1>2, <1>4, <1>11, ClosingKeeps
<1>7. \A q \in Replicas, d \in Chains, u \in Ticks : Holds(q, d, u)' <=> Holds(q, d, u)
  BY <1>5, <1>6 DEF Holds
<1>8. TypeOK' /\ RunInv' /\ rows' \subseteq Ticks
  BY <1>1, <1>6, <1>11 DEF IInv, TypeOK, RunInv
<1>9. LockInv' /\ TakenTickRuns'
  BY <1>1, <1>7, <1>8, LockKept, TakenKept
<1> QED
  BY <1>6, <1>8, <1>9 DEF IInv, ChainsInv

LEMMA DiesKeeps ==
  ASSUME IInv, NEW r \in Replicas, ReplicaDies(r)
  PROVE  IInv'
<1> DEFINE left == [c \in Chains |-> Idle(IF Stage(r, c) = "none" THEN "none" ELSE "over")]
<1>1. PICK inserted \in SUBSET {Tick(r, c) : c \in Asking(r)} :
        /\ rows' = rows \cup inserted
        /\ skipped' = skipped \cup (inserted \ rows) \cup {Tick(r, c) : c \in Taken(r)}
  BY DEF ReplicaDies
<1>2. /\ cronStarted' = [cronStarted EXCEPT ![r] = FALSE]
      /\ timer' = [timer EXCEPT ![r] = 0]
      /\ inFlight' = [inFlight EXCEPT ![r] = FALSE]
      /\ runs' = {run \in runs : run[1] # r}
      /\ cronFaults' = cronFaults + 1
      /\ chain' = [chain EXCEPT ![r] = left]
      /\ UNCHANGED <<now, fires>>
  BY DEF ReplicaDies
<1>3. left \in [Chains -> ChainStates] /\ \A c \in Chains : left[c].stage \in {"none", "over"}
  BY DEF Idle, ChainStates, Stages, NoTick
<1> HIDE DEF left
<1>4. /\ chain' \in [Replicas -> [Chains -> ChainStates]]
      /\ timer' \in [Replicas -> Chains \cup {0}]
      /\ cronStarted' \in [Replicas -> BOOLEAN]
      /\ (\A q \in Replicas, d \in Chains : Stage(q, d) \in Alive => Tick(q, d) \in Ticks)'
      /\ ChainsInv'
      /\ \A q \in Replicas, d \in Chains, u \in Ticks : Holds(q, d, u)' <=> Holds(q, d, u) /\ q # r
  <2>1. timer[r] # 0 => timer[r] \in Chains
    BY DEF IInv, TypeOK
  <2> DEFINE closed == Chains
  <2>2. closed \in SUBSET Chains /\ \A d \in Chains : d \in closed
    OBVIOUS
  <2>3. /\ chain' \in [Replicas -> [Chains -> ChainStates]]
        /\ \A d \in closed : chain'[r][d].stage \in {"none", "over"}
        /\ \A q \in Replicas, d \in Chains :
             q # r \/ d \notin closed => chain'[q][d] = chain[q][d]
    BY <1>2, <1>3 DEF IInv, TypeOK
  <2>4. timer[r] # 0 => timer[r] \in closed
    BY <2>1
  <2> HIDE DEF closed
  <2> QED
    BY <1>2, <2>2, <2>3, <2>4, ClosingKeeps
<1>5. inserted \subseteq Ticks
  BY DEF Asking, Alive, IInv, TypeOK
<1>6. TypeOK'
  BY <1>1, <1>2, <1>4, <1>5 DEF IInv, TypeOK
<1>7. RunInv'
  <2>1. \A run \in runs' : run \in runs /\ run[1] \in Replicas /\ inFlight'[run[1]] = inFlight[run[1]]
    BY <1>2 DEF IInv, TypeOK
  <2> QED
    BY <2>1 DEF IInv, RunInv
<1>8. LockInv'
  BY <1>1, <1>2, <1>4, LockKept
<1>9. TakenTickRuns'
  <2>1. ASSUME NEW u \in rows', u \notin skipped'
        PROVE  /\ u \in rows /\ u \notin skipped
               /\ \A q \in Replicas, d \in Chains : Holds(q, d, u) => Holds(q, d, u)'
    <3>1. u \in rows /\ u \notin skipped /\ u \in Ticks
      BY <1>1, <2>1 DEF IInv, TypeOK
    <3>2. \A d \in Chains : ~ Holds(r, d, u)
      BY <1>1, <2>1 DEF Taken, Holds
    <3> QED
      BY <1>4, <3>1, <3>2
  <2>2. rows' \subseteq Ticks
    BY <1>6 DEF TypeOK
  <2> QED
    BY <1>2, <2>1, <2>2, TakenKept
<1> QED
  BY <1>4, <1>6, <1>7, <1>8, <1>9 DEF IInv, ChainsInv

-----------------------------------------------------------------------------
LEMMA HandlerEndsKeeps ==
  ASSUME IInv, NEW run \in runs, HandlerEnds(run)
  PROVE  IInv'
<1>1. /\ runs' = runs \ {run}
      /\ inFlight' = [inFlight EXCEPT ![run[1]] = FALSE]
      /\ UNCHANGED <<now, cronStarted, chain, timer, fires, rows, cronFaults, skipped>>
  BY DEF HandlerEnds, lockVars
<1>2. TypeOK'
  BY <1>1 DEF IInv, TypeOK, Stage, Tick
<1>3. RunInv'
  <2>1. \A x \in runs : x[1] \in Replicas
    BY DEF IInv, TypeOK
  <2>2. Concurrency = "forbid" => \A x \in runs' : x[1] # run[1]
    BY <1>1 DEF IInv, RunInv
  <2> QED
    BY <1>1, <2>1, <2>2 DEF IInv, TypeOK, RunInv
<1>4. TimerInv' /\ WindowInv' /\ LockInv' /\ ChainAlive' /\ TakenTickRuns'
  BY <1>1 DEF IInv, TimerInv, WindowInv, LockInv, TickRunsOnce, ChainAlive, TakenTickRuns,
     Taken, Holds, Stage, Tick
<1> QED
  BY <1>2, <1>3, <1>4 DEF IInv

LEMMA ClockKeeps ==
  ASSUME IInv, Clock
  PROVE  IInv'
<1>1. /\ now' = now + 1 /\ now < Horizon
      /\ UNCHANGED <<cronStarted, chain, timer, inFlight, runs, fires, rows, cronFaults, skipped>>
  BY DEF Clock, runVars, lockVars
<1>2. TypeOK'
  BY <1>1, CronAssumption DEF IInv, TypeOK, Stage, Tick
<1>3. RunInv' /\ TimerInv' /\ ChainAlive' /\ TakenTickRuns'
  BY <1>1 DEF IInv, RunInv, TimerInv, ChainAlive, TakenTickRuns, Taken, Stage, Tick
<1>4. WindowInv'
  <2> SUFFICES ASSUME NEW r \in Replicas, NEW c \in Chains, Stage(r, c) \in Alive
               PROVE  /\ Tick(r, c) <= now' + Period
                      /\ Stage(r, c) \in {"armed", "insert"} => now' <= Tick(r, c) + MaxLate
    BY <1>1 DEF WindowInv, Stage, Tick, Alive
  <2>1. {now, Tick(r, c), Period, MaxLate} \subseteq Nat
    BY CronAssumption DEF IInv, TypeOK, Ticks
  <2>2. Tick(r, c) <= now + Period
    BY DEF IInv, WindowInv
  <2>3. Stage(r, c) \in {"armed", "insert"} => now < Tick(r, c) + MaxLate
    BY DEF Clock
  <2> QED
    BY <1>1, <2>1, <2>2, <2>3
<1>5. LockInv'
  <2> SUFFICES ASSUME UseLock, RowsOutlive PROVE LockInv'
    BY DEF LockInv
  <2>1. \A u \in Ticks : now' <= u + MaxLate => now <= u + MaxLate
    BY <1>1, CronAssumption DEF IInv, TypeOK, Ticks
  <2> QED
    BY <1>1, <2>1 DEF IInv, LockInv, TickRunsOnce, Holds, Stage, Tick
<1> QED
  BY <1>2, <1>3, <1>4, <1>5 DEF IInv

LEMMA DueStep ==
  ASSUME Period <= MaxDelay, IInv, DueInv, [CronNext]_cronVars
  PROVE  DueInv'
<1> USE DEF Stage, Tick
<1>1. ASSUME NEW r \in Replicas, NEW c \in Chains, NEW record \in ChainStates,
             SetChain(r, c, record), now' = now,
             record.stage = "armed" => record.due = record.tick,
             record.stage \in {"insert", "delete", "won"} => record.tick <= now + Jitter
      PROVE  DueInv'
  BY <1>1, SetChainEffect DEF IInv, DueInv
<1>2. Armed \in ChainStates /\ Armed.stage = "armed" /\ Armed.due = Armed.tick
  <2>1. NextTick - now <= MaxDelay
    BY NextTickIsTick, CronAssumption DEF IInv, TypeOK, Ticks
  <2> QED
    BY <2>1, ArmedIsFresh DEF Armed, IInv
<1>3. \A s \in {"none", "over"} : Idle(s) \in ChainStates /\ Idle(s).stage = s
  BY DEF Idle, ChainStates, Stages, NoTick
<1>4. ASSUME NEW r \in Replicas, NEW c \in Chains, NEW held, ScheduleNext(r, c, held), now' = now
      PROVE  DueInv'
  <2>1. CASE cronStarted[r]
    BY <1>1, <1>2, <1>4, <2>1 DEF ScheduleNext
  <2>2. CASE ~ cronStarted[r]
    BY <1>1, <1>3, <1>4, <2>2 DEF ScheduleNext
  <2> QED
    BY <2>1, <2>2
<1>5. ASSUME NEW r \in Replicas, NEW c \in Chains,
             NEW from, NEW to \in {"delete", "won", "lost"}, Moved(r, c, from, to),
             from \in {"insert", "delete"}
      PROVE  DueInv'
  <2> DEFINE record == [chain[r][c] EXCEPT !.stage = to]
  <2>1. chain[r][c] \in ChainStates /\ Tick(r, c) <= now + Jitter
    BY <1>5 DEF IInv, TypeOK, DueInv, Moved
  <2>2. record \in ChainStates /\ record.stage = to /\ record.tick = Tick(r, c)
    BY <2>1 DEF ChainStates, Stages
  <2>3. SetChain(r, c, record) /\ now' = now
    BY <1>5 DEF Moved
  <2> HIDE DEF record
  <2> QED
    BY <1>1, <2>1, <2>2, <2>3
<1>6. ASSUME NEW r \in Replicas, NEW c \in Chains, TimerFires(r, c) PROVE DueInv'
  <2>1. CASE UseLock
    <3> DEFINE record == [chain[r][c] EXCEPT !.stage = "insert"]
    <3>1. chain[r][c] \in ChainStates /\ Tick(r, c) <= now + Jitter
      BY <1>6 DEF IInv, TypeOK, DueInv, TimerFires
    <3>2. record \in ChainStates /\ record.stage = "insert" /\ record.tick = Tick(r, c)
      BY <3>1 DEF ChainStates, Stages
    <3>3. SetChain(r, c, record) /\ now' = now
      BY <1>6, <2>1 DEF TimerFires
    <3> HIDE DEF record
    <3> QED
      BY <1>1, <3>1, <3>2, <3>3
  <2>2. CASE ~ UseLock
    BY <1>4, <1>6, <2>2 DEF TimerFires, FireAndReschedule
  <2> QED
    BY <2>1, <2>2
<1>7. ASSUME NEW r \in Replicas, NEW c \in Chains, AcquireSettles(r, c) PROVE DueInv'
  BY <1>4, <1>7 DEF AcquireSettles, FireAndReschedule
<1>8. ASSUME NEW r \in Replicas, NEW c \in Chains,
             InsertRow(r, c) \/ DeleteOld(r, c) \/ InsertFails(r, c) \/ DeleteFails(r, c)
      PROVE  DueInv'
  BY <1>5, <1>8 DEF InsertRow, DeleteOld, InsertFails, DeleteFails
<1>9. ASSUME NEW r \in Replicas, StartCrons(r) PROVE DueInv'
  BY <1>1, <1>2, <1>9 DEF StartCrons
<1>10. ASSUME NEW r \in Replicas, StopCrons(r) \/ ReplicaDies(r) PROVE DueInv'
  <2>1. \A q \in Replicas, d \in Chains :
          \/ chain'[q][d] = chain[q][d]
          \/ \E s \in {"none", "over"} : chain'[q][d] = Idle(s)
    <3>1. CASE StopCrons(r)
      BY <3>1 DEF StopCrons, IInv, TypeOK
    <3>2. CASE ReplicaDies(r)
      <4>1. chain' = [chain EXCEPT ![r] =
              [c \in Chains |-> Idle(IF Stage(r, c) = "none" THEN "none" ELSE "over")]]
        BY <3>2 DEF ReplicaDies
      <4>2. \A d \in Chains : \E s \in {"none", "over"} : chain'[r][d] = Idle(s)
        BY <4>1 DEF IInv, TypeOK
      <4>3. \A q \in Replicas : q # r => chain'[q] = chain[q]
        BY <4>1 DEF IInv, TypeOK
      <4> QED
        BY <4>2, <4>3
    <3> QED
      BY <1>10, <3>1, <3>2
  <2>2. now' = now
    BY <1>10 DEF StopCrons, ReplicaDies
  <2> QED
    BY <1>3, <2>1, <2>2 DEF DueInv
<1>11. CASE Clock
  <2>1. now' = now + 1 /\ chain' = chain
    BY <1>11 DEF Clock
  <2>2. \A r \in Replicas, c \in Chains : Tick(r, c) \in Nat
    BY DEF IInv, TypeOK, ChainStates
  <2> QED
    BY <2>1, <2>2, CronAssumption DEF IInv, TypeOK, DueInv
<1>12. ASSUME NEW run \in runs, HandlerEnds(run) PROVE DueInv'
  BY <1>12 DEF HandlerEnds, DueInv
<1>13. CASE UNCHANGED cronVars
  BY <1>13 DEF cronVars, DueInv
<1> QED
  BY <1>6, <1>7, <1>8, <1>9, <1>10, <1>11, <1>12, <1>13 DEF CronNext, CronTurn

LEMMA InitEstablishes == CronInit => IInv
<1> SUFFICES ASSUME CronInit PROVE IInv
  OBVIOUS
<1> USE CronAssumption DEF CronInit
<1>1. \A r \in Replicas, c \in Chains : Stage(r, c) = "none"
  BY DEF Stage, Idle
<1>2. TypeOK
  <2>1. Idle("none") \in ChainStates
    BY DEF Idle, ChainStates, Stages, NoTick
  <2>2. chain \in [Replicas -> [Chains -> ChainStates]]
    BY <2>1
  <2> QED
    BY <1>1, <2>2 DEF TypeOK, Alive
<1>3. TimerInv /\ WindowInv /\ RunInv /\ ChainAlive /\ TakenTickRuns
  BY <1>1 DEF TimerInv, WindowInv, RunInv, ChainAlive, TakenTickRuns, Alive
<1>4. LockInv
  BY <1>1 DEF LockInv, TickRunsOnce, Holds
<1> QED
  BY <1>2, <1>3, <1>4 DEF IInv

LEMMA IdleKeeps == IInv /\ UNCHANGED cronVars => IInv'
BY DEF cronVars, runVars, lockVars, IInv, TypeOK, RunInv, TimerInv, WindowInv, LockInv,
   TickRunsOnce, ChainAlive, TakenTickRuns, Taken, Holds, Stage, Tick

LEMMA NextKeeps == IInv /\ DueSafe /\ [CronNext]_cronVars => IInv'
<1> SUFFICES ASSUME IInv, DueSafe, [CronNext]_cronVars PROVE IInv'
  OBVIOUS
<1>1. ASSUME NEW r \in Replicas, StartCrons(r) \/ StopCrons(r) \/ ReplicaDies(r) PROVE IInv'
  BY <1>1, StartKeeps, StopKeeps, DiesKeeps
<1>2. ASSUME NEW r \in Replicas, NEW c \in Chains,
             \/ TimerFires(r, c) \/ AcquireSettles(r, c)
             \/ InsertRow(r, c) \/ DeleteOld(r, c)
             \/ InsertFails(r, c) \/ DeleteFails(r, c)
      PROVE  IInv'
  BY <1>2, TimerFiresKeeps, AcquireSettlesKeeps, InsertRowKeeps, DeleteOldKeeps,
     InsertFailsKeeps, DeleteFailsKeeps
<1>3. ASSUME NEW run \in runs, HandlerEnds(run) PROVE IInv'
  BY <1>3, HandlerEndsKeeps
<1>4. CASE Clock
  BY <1>4, ClockKeeps
<1>5. CASE UNCHANGED cronVars
  BY <1>5, IdleKeeps
<1> QED
  BY <1>1, <1>2, <1>3, <1>4, <1>5 DEF CronNext, CronTurn

LEMMA IInvInductive == CronSpec => [](IInv /\ DueSafe)
<1>1. CronInit => DueSafe
  BY DEF CronInit, DueSafe, DueInv, Stage, Idle
<1>2. IInv /\ DueSafe /\ [CronNext]_cronVars => DueSafe'
  BY DueStep DEF DueSafe
<1> QED
  BY <1>1, <1>2, InitEstablishes, NextKeeps, PTL DEF CronSpec

(* With the lock, no tick runs twice: whatever the replicas, their timers, the
   faults and the crashes, if a row outlives the last replica that may still ask
   for its tick (cron-lock.ts:88-97).                                       *)
THEOREM EveryTickRunsOnce ==
  ASSUME RowsOutlive
  PROVE  CronSpec => []TickRunsOnce
<1>1. IInv => TickRunsOnce
  BY DEF IInv, LockInv, TickRunsOnce
<1> QED
  BY <1>1, IInvInductive, PTL

(* Under `forbid` no process ever runs the handler twice at a time, with any
   number of chains of timers (cron-runtime-node.ts).                       *)
THEOREM HandlersDoNotOverlap == CronSpec => []NoOverlap
<1>1. IInv => NoOverlap
  <2> SUFFICES ASSUME IInv, Concurrency = "forbid", NEW r \in Replicas
               PROVE  Cardinality({run \in runs : run[1] = r}) <= 1
    BY DEF NoOverlap
  <2> DEFINE here == {run \in runs : run[1] = r}
  <2>1. \A x, y \in here : x = y
    BY DEF IInv, RunInv
  <2>2. CASE here = {}
    BY <2>2, FS_EmptySet
  <2>3. ASSUME NEW x \in here PROVE Cardinality(here) = 1
    <3>1. here = {x}
      BY <2>1
    <3> QED
      BY <3>1, FS_Singleton
  <2> QED
    BY <2>2, <2>3
<1> QED
  BY <1>1, IInvInductive, PTL

(* No outcome of a tick ends a cron that was not stopped. *)
THEOREM CronsGoOn == CronSpec => []ChainAlive
<1>1. IInv => ChainAlive
  BY DEF IInv
<1> QED
  BY <1>1, IInvInductive, PTL

(* A row is never left without a run, a chain about to run it, or one of the
   reasons `skipped` records.                                               *)
THEOREM TakenTicksRun == CronSpec => []TakenTickRuns
<1>1. IInv => TakenTickRuns
  BY DEF IInv
<1> QED
  BY <1>1, IInvInductive, PTL

-----------------------------------------------------------------------------
(* When a period is no longer than a timer can wait, no handler starts before
   its tick, but for the jitter of a timer; that it is needed is what the
   monthly cron shows (cron-runtime-node.ts:13).                           *)
THEOREM HandlersAreNotEarly ==
  ASSUME Period <= MaxDelay
  PROVE  CronSpec => NotEarly
<1>1. DueSafe => DueInv
  BY DEF DueSafe
<1>2. IInv /\ DueInv /\ [CronNext]_cronVars
        => [\A t \in Ticks : fires'[t] > fires[t] => t <= now + Jitter]_cronVars
  <2> SUFFICES ASSUME IInv, DueInv, CronNext,
                      NEW t \in Ticks, fires'[t] > fires[t]
               PROVE  t <= now + Jitter
    OBVIOUS
  <2>1. fires' # fires
    BY DEF IInv, TypeOK
  <2>2. PICK r \in Replicas, c \in Chains :
          /\ FireAndReschedule(r, c)
          /\ TimerFires(r, c) \/ Stage(r, c) = "won"
    <3>1. ASSUME NEW r \in Replicas, StartCrons(r) \/ StopCrons(r) \/ ReplicaDies(r)
          PROVE  FALSE
      BY <2>1, <3>1 DEF StartCrons, StopCrons, ReplicaDies, runVars
    <3>2. ASSUME NEW r \in Replicas, NEW c \in Chains,
                 InsertRow(r, c) \/ DeleteOld(r, c) \/ InsertFails(r, c) \/ DeleteFails(r, c)
          PROVE  FALSE
      BY <2>1, <3>2 DEF InsertRow, DeleteOld, InsertFails, DeleteFails, Moved, runVars
    <3>3. ASSUME NEW run \in runs, HandlerEnds(run) PROVE FALSE
      BY <2>1, <3>3 DEF HandlerEnds
    <3>4. ~ Clock
      BY <2>1 DEF Clock, runVars
    <3>5. ASSUME NEW r \in Replicas, NEW c \in Chains, TimerFires(r, c)
          PROVE  FireAndReschedule(r, c)
      BY <2>1, <3>5 DEF TimerFires, runVars
    <3>6. ASSUME NEW r \in Replicas, NEW c \in Chains, AcquireSettles(r, c)
          PROVE  FireAndReschedule(r, c) /\ Stage(r, c) = "won"
      BY <2>1, <3>6 DEF AcquireSettles, runVars
    <3> QED
      BY <3>1, <3>2, <3>3, <3>4, <3>5, <3>6 DEF CronNext, CronTurn
  <2>3. Tick(r, c) <= now + Jitter
    BY <2>2 DEF TimerFires, DueInv
  <2>4. Tick(r, c) = t
    BY <2>2 DEF FireAndReschedule, runVars, IInv, TypeOK
  <2> QED
    BY <2>3, <2>4
<1> QED
  BY <1>1, <1>2, IInvInductive, PTL DEF CronSpec, NotEarly

-----------------------------------------------------------------------------
(* The shutdown.  Its process starts its crons once, and only its own.     *)
SoleInv ==
  /\ \A r \in Replicas, c \in Chains : Stage(r, c) # "none" => r = Self
  /\ \A c, d \in Chains : Stage(Self, c) # "none" /\ Stage(Self, d) # "none" => c = d
  /\ \A c \in Chains : Stage(Self, c) = "armed" => cronStarted[Self] /\ timer[Self] = c

(* The one handler it runs is the one its scheduler can abort, and did if the
   scheduler was stopped. *)
AbortInv ==
  /\ controller = [r \in Replicas |-> controller[r]]
  /\ ~ UseLock /\ Concurrency = "forbid" =>
        /\ \A c \in Chains : Stage(Self, c) \in {"none", "over", "armed"}
        /\ \A run \in runs : run[1] = Self
        /\ cronStarted[Self] => runs \subseteq {controller[Self]}
        /\ ~ cronStarted[Self] => runs \subseteq aborted
        /\ (\A c \in Chains : Stage(Self, c) = "none") => runs = {}

Down == {"stopping", "evicting", "disposing", "ending", "flushing", "closing", "exited"}

(* Its worker has one run of its loop, begun by the boot; a stop() that resolved
   saw it return. *)
LoopInv ==
  /\ running \in BOOLEAN
  /\ loopPc \in [Loops -> {"none", "tick", "wait", "woken", "exited"}]
  /\ stopPc \in [Stops -> {"idle", "waiting", "done"}]
  /\ awaited \in [Stops -> Loops \cup {0}]
  /\ wake \in {0, 1} /\ (wake = 1 => 1 \in Loops)
  /\ \A k \in Loops : k # 1 => loopPc[k] = "none"
  /\ phase \in {"boot", "booting"} =>
       ~ running /\ wake = 0 /\ stopPc[Final] = "idle" /\ \A k \in Loops : loopPc[k] = "none"
  /\ phase = "up" => /\ running /\ loop = 1 /\ 1 \in Loops
                     /\ loopPc[1] \in {"tick", "wait", "woken"} /\ stopPc[Final] = "idle"
  /\ phase \in Down => /\ ~ running /\ awaited[Final] = 1 /\ 1 \in Loops
                       /\ stopPc[Final] \in {"waiting", "done"}
                       /\ stopPc[Final] = "done" => loopPc[1] = "exited"

(* How far the process has come. *)
PhaseInv ==
  /\ phase \in {"boot", "booting", "up"} \cup Down
  /\ gaveUp \in BOOLEAN /\ pools \in BOOLEAN
  /\ phase = "boot" => ~ cronStarted[Self] /\ \A c \in Chains : Stage(Self, c) = "none"
  /\ phase \in Down => ~ cronStarted[Self]
  /\ phase \in Down \ {"stopping"} /\ ~ gaveUp => stopPc[Final] = "done"
  /\ ~ pools => phase \in {"ending", "flushing", "closing", "exited"}

ShutdownInv == IInv /\ DueSafe /\ SoleInv /\ AbortInv /\ LoopInv /\ PhaseInv

(* A chain goes on. *)
Proceeds(r, c) ==
  /\ Stage(r, c) # "none" /\ chain'[r][c].stage # "none" /\ UNCHANGED cronStarted
  /\ chain'[r][c].stage = "armed" => cronStarted[r] /\ timer'[r] = c
  /\ \A q \in Replicas, d \in Chains : q # r \/ d # c => chain'[q][d] = chain[q][d]

LEMMA SoleChainStep ==
  ASSUME IInv, SoleInv, NEW r \in Replicas, NEW c \in Chains, Proceeds(r, c)
  PROVE  SoleInv' /\ ~ (\A d \in Chains : Stage(Self, d)' = "none")
<1> USE DEF Proceeds
<1>1. r = Self /\ \A d \in Chains : d # c => Stage(Self, d) = "none"
  BY DEF SoleInv
<1>2. \A q \in Replicas, d \in Chains : q # r \/ d # c => Stage(q, d)' = Stage(q, d)
  BY DEF Stage
<1>3. Stage(r, c)' = chain'[r][c].stage
  BY DEF Stage
<1>4. Self \in Replicas
  BY ShutdownAssumption
<1>5. \A q \in Replicas, d \in Chains : Stage(q, d)' # "none" => q = Self /\ d = c
  BY <1>1, <1>2 DEF SoleInv
<1>6. \A d \in Chains : Stage(Self, d)' = "armed" =>
        /\ cronStarted'[Self] /\ timer'[Self] = d
  BY <1>1, <1>3, <1>4, <1>5
<1> QED
  BY <1>1, <1>3, <1>4, <1>5, <1>6 DEF SoleInv

LEMMA ScheduledChain ==
  ASSUME IInv, NEW r \in Replicas, NEW c \in Chains, NEW held, ScheduleNext(r, c, held)
  PROVE  /\ chain'[r][c].stage \in {"armed", "over"}
         /\ chain'[r][c].stage = "armed" => cronStarted[r] /\ timer'[r] = c
         /\ \A q \in Replicas, d \in Chains : q # r \/ d # c => chain'[q][d] = chain[q][d]
<1>0. TypeOK
  BY DEF IInv
<1>1. CASE cronStarted[r]
  <2>1. SetChain(r, c, Armed) /\ timer' = [timer EXCEPT ![r] = c]
    BY <1>1 DEF ScheduleNext
  <2>2. Armed \in ChainStates /\ Armed.stage = "armed"
    BY <1>0, ArmedIsFresh
  <2>3. timer'[r] = c
    BY <1>0, <2>1 DEF TypeOK
  <2> QED
    BY <1>0, <1>1, <2>1, <2>2, <2>3, SetChainEffect
<1>2. CASE ~ cronStarted[r]
  <2>1. SetChain(r, c, Idle("over"))
    BY <1>2 DEF ScheduleNext
  <2>2. Idle("over") \in ChainStates /\ Idle("over").stage = "over"
    BY DEF Idle, ChainStates, Stages, NoTick
  <2> QED
    BY <1>0, <2>1, <2>2, SetChainEffect
<1> QED
  BY <1>1, <1>2

(* What the handlers of a process that does not lock its ticks may be. *)
LEMMA AbortKept ==
  ASSUME IInv, SoleInv, AbortInv, CronTurn, ~ UseLock, Concurrency = "forbid"
  PROVE  /\ \A run \in runs' : run[1] = Self
         /\ UNCHANGED cronStarted
         /\ cronStarted[Self] => runs' \subseteq {controller'[Self]}
         /\ ~ cronStarted[Self] => runs' \subseteq aborted'
         /\ runs' = runs \/ (\E c \in Chains : Stage(Self, c) # "none") \/ runs' = {}
<1>0. Self \in Replicas
  BY ShutdownAssumption
<1>1. \A r \in Replicas, c \in Chains : Stage(r, c) \in {"none", "over", "armed"}
  BY DEF SoleInv, AbortInv
<1>2. ASSUME NEW r \in Replicas, NEW c \in Chains,
             \/ AcquireSettles(r, c) \/ InsertRow(r, c) \/ DeleteOld(r, c)
             \/ InsertFails(r, c) \/ DeleteFails(r, c)
      PROVE  FALSE
  BY <1>1, <1>2 DEF AcquireSettles, InsertRow, DeleteOld, InsertFails, DeleteFails, Moved
<1>3. CASE Clock
  BY <1>3 DEF Clock, runVars, AbortInv
<1>4. ASSUME NEW run \in runs, HandlerEnds(run)
      PROVE  /\ runs' = runs \ {run} /\ UNCHANGED cronStarted /\ aborted' = aborted \ {run}
             /\ cronStarted[Self] => runs' = {}
  BY <1>4 DEF HandlerEnds, AbortInv
<1>5. ASSUME NEW r \in Replicas, NEW c \in Chains, TimerFires(r, c)
      PROVE  /\ r = Self /\ cronStarted[Self] /\ UNCHANGED cronStarted /\ Stage(Self, c) # "none"
             /\ \/ UNCHANGED <<runs, controller>>
                \/ runs' = {controller'[Self]} /\ controller'[Self][1] = Self
  <2>1. /\ Stage(r, c) = "armed" /\ UNCHANGED cronStarted /\ FireAndReschedule(r, c)
    BY <1>5 DEF TimerFires
  <2>2. r = Self /\ cronStarted[Self]
    BY <2>1 DEF SoleInv
  <2>3. CASE inFlight[r]
    BY <2>1, <2>2, <2>3 DEF FireAndReschedule, runVars
  <2>4. CASE ~ inFlight[r]
    <3> DEFINE run == <<r, Tick(r, c), fires[Tick(r, c)] + 1>>
    <3>1. /\ runs' = runs \cup {run} /\ controller' = [controller EXCEPT ![r] = run]
      BY <2>1, <2>4 DEF FireAndReschedule
    <3>2. runs = {}
      BY <2>2, <2>4 DEF AbortInv, IInv, RunInv
    <3>3. run[1] = r
      OBVIOUS
    <3>4. Self \in Replicas /\ controller'[r] = run
      BY <3>1, ShutdownAssumption DEF AbortInv
    <3> HIDE DEF run
    <3> QED
      BY <2>1, <2>2, <3>1, <3>2, <3>3, <3>4
  <2> QED
    BY <2>1, <2>2, <2>3, <2>4
<1> QED
  BY <1>0, <1>2, <1>3, <1>4, <1>5 DEF CronTurn, AbortInv

LEMMA TurnOfChain ==
  ASSUME IInv, NEW r \in Replicas, NEW c \in Chains,
         \/ TimerFires(r, c) \/ AcquireSettles(r, c)
         \/ InsertRow(r, c) \/ DeleteOld(r, c)
         \/ InsertFails(r, c) \/ DeleteFails(r, c)
  PROVE  Proceeds(r, c)
         /\ (~ UseLock /\ Stage(r, c) \in {"over", "armed"} => chain'[r][c].stage \in {"over", "armed"})
<1>0. TypeOK
  BY DEF IInv
<1>1. ASSUME NEW held, ScheduleNext(r, c, held), Stage(r, c) # "none", UNCHANGED cronStarted
      PROVE  Proceeds(r, c) /\ chain'[r][c].stage \in {"over", "armed"}
  BY <1>1, ScheduledChain DEF Proceeds
<1>2. ASSUME NEW from \in {"armed", "insert", "delete"}, NEW to \in {"insert", "delete", "won", "lost"},
             Stage(r, c) = from, UNCHANGED cronStarted,
             SetChain(r, c, [chain[r][c] EXCEPT !.stage = to])
      PROVE  Proceeds(r, c)
  <2> DEFINE record == [chain[r][c] EXCEPT !.stage = to]
  <2>1. record \in ChainStates /\ record.stage = to
    <3>1. chain[r][c] \in ChainStates
      BY <1>0 DEF TypeOK
    <3> QED
      BY <3>1 DEF ChainStates, Stages
  <2>2. SetChain(r, c, record)
    BY <1>2
  <2> HIDE DEF record
  <2>3. /\ chain'[r][c] = record
        /\ \A q \in Replicas, d \in Chains : q # r \/ d # c => chain'[q][d] = chain[q][d]
    BY <1>0, <2>1, <2>2, SetChainEffect
  <2> QED
    BY <1>2, <2>1, <2>3 DEF Proceeds
<1>3. CASE TimerFires(r, c)
  BY <1>1, <1>2, <1>3 DEF TimerFires, FireAndReschedule
<1>4. CASE AcquireSettles(r, c)
  BY <1>1, <1>4 DEF AcquireSettles, FireAndReschedule
<1>5. CASE InsertRow(r, c) \/ DeleteOld(r, c) \/ InsertFails(r, c) \/ DeleteFails(r, c)
  BY <1>2, <1>5 DEF InsertRow, DeleteOld, InsertFails, DeleteFails, Moved
<1> QED
  BY <1>3, <1>4, <1>5

LEMMA CronTurnKeeps ==
  ASSUME IInv, SoleInv, AbortInv, CronTurn
  PROVE  /\ SoleInv' /\ AbortInv' /\ UNCHANGED cronStarted
         /\ (\A c \in Chains : Stage(Self, c) = "none") =>
              \A c \in Chains : Stage(Self, c)' = "none"
<1>0. Self \in Replicas
  BY ShutdownAssumption
<1>1. ASSUME NEW r \in Replicas, NEW c \in Chains,
             \/ TimerFires(r, c) \/ AcquireSettles(r, c)
             \/ InsertRow(r, c) \/ DeleteOld(r, c)
             \/ InsertFails(r, c) \/ DeleteFails(r, c)
      PROVE  /\ SoleInv' /\ UNCHANGED cronStarted
             /\ ~ (\A d \in Chains : Stage(Self, d) = "none")
             /\ ~ (\A d \in Chains : Stage(Self, d)' = "none")
             /\ ~ UseLock /\ (\A d \in Chains : Stage(Self, d) \in {"none", "over", "armed"}) =>
                  \A d \in Chains : Stage(Self, d)' \in {"none", "over", "armed"}
             /\ controller' = [q \in Replicas |-> controller'[q]]
  <2>1. Proceeds(r, c)
        /\ (~ UseLock /\ Stage(r, c) \in {"over", "armed"} => chain'[r][c].stage \in {"over", "armed"})
    BY <1>1, TurnOfChain
  <2>2. SoleInv' /\ ~ (\A d \in Chains : Stage(Self, d)' = "none")
    BY <2>1, SoleChainStep
  <2>3. r = Self /\ ~ (\A d \in Chains : Stage(Self, d) = "none")
    BY <2>1 DEF Proceeds, SoleInv
  <2>4. controller' = controller
        \/ \E run : controller' = [controller EXCEPT ![r] = run]
    BY <1>1 DEF TimerFires, AcquireSettles, InsertRow, DeleteOld, InsertFails, DeleteFails,
       Moved, FireAndReschedule, runVars
  <2>5. controller' = [q \in Replicas |-> controller'[q]]
    BY <2>4 DEF AbortInv
  <2>6. ~ UseLock /\ (\A d \in Chains : Stage(Self, d) \in {"none", "over", "armed"}) =>
          \A d \in Chains : Stage(Self, d)' \in {"none", "over", "armed"}
    BY <1>0, <2>1, <2>3 DEF Proceeds, Stage
  <2> QED
    BY <2>1, <2>2, <2>3, <2>5, <2>6 DEF Proceeds
<1>2. ASSUME (\E run \in runs : HandlerEnds(run)) \/ Clock
      PROVE  /\ UNCHANGED <<chain, timer, cronStarted>>
             /\ controller' = [q \in Replicas |-> controller'[q]]
  BY <1>2 DEF HandlerEnds, Clock, runVars, AbortInv
<1>3. /\ SoleInv' /\ UNCHANGED cronStarted
      /\ (\A d \in Chains : Stage(Self, d) = "none") <=> (\A d \in Chains : Stage(Self, d)' = "none")
      /\ ~ UseLock /\ (\A d \in Chains : Stage(Self, d) \in {"none", "over", "armed"}) =>
           \A d \in Chains : Stage(Self, d)' \in {"none", "over", "armed"}
      /\ controller' = [q \in Replicas |-> controller'[q]]
  <2>1. CASE (\E run \in runs : HandlerEnds(run)) \/ Clock
    BY <1>2, <2>1 DEF SoleInv, Stage
  <2>2. CASE ~ ((\E run \in runs : HandlerEnds(run)) \/ Clock)
    <3>1. PICK r \in Replicas, c \in Chains :
             \/ TimerFires(r, c) \/ AcquireSettles(r, c)
             \/ InsertRow(r, c) \/ DeleteOld(r, c)
             \/ InsertFails(r, c) \/ DeleteFails(r, c)
      BY <2>2 DEF CronTurn
    <3> QED
      BY <1>1, <3>1
  <2> QED
    BY <2>1, <2>2
<1>4. AbortInv'
  <2>1. ASSUME ~ UseLock, Concurrency = "forbid"
        PROVE  /\ \A c \in Chains : Stage(Self, c)' \in {"none", "over", "armed"}
               /\ \A run \in runs' : run[1] = Self
               /\ cronStarted'[Self] => runs' \subseteq {controller'[Self]}
               /\ ~ cronStarted'[Self] => runs' \subseteq aborted'
               /\ (\A c \in Chains : Stage(Self, c)' = "none") => runs' = {}
    BY <1>3, <2>1, AbortKept DEF AbortInv
  <2> QED
    BY <1>3, <2>1 DEF AbortInv
<1> QED
  BY <1>3, <1>4

(* The scheduler of this process is started ... *)
LEMMA BootStarts ==
  ASSUME IInv, SoleInv, AbortInv, StartCrons(Self), \A c \in Chains : Stage(Self, c) = "none"
  PROVE  SoleInv' /\ AbortInv' /\ cronStarted'[Self]
<1>0. Self \in Replicas /\ TypeOK
  BY ShutdownAssumption DEF IInv
<1>1. PICK c \in Chains : SetChain(Self, c, Armed) /\ timer' = [timer EXCEPT ![Self] = c]
  BY DEF StartCrons
<1>2. Armed \in ChainStates /\ Armed.stage = "armed"
  BY <1>0, ArmedIsFresh
<1>3. /\ chain'[Self][c] = Armed
      /\ \A q \in Replicas, d \in Chains : q # Self \/ d # c => chain'[q][d] = chain[q][d]
  BY <1>0, <1>1, <1>2, SetChainEffect
<1>4. timer'[Self] = c /\ cronStarted'[Self] /\ UNCHANGED <<controller, runs, aborted>>
  BY <1>0, <1>1 DEF StartCrons, TypeOK, runVars
<1>5. \A q \in Replicas, d \in Chains : q # Self \/ d # c => Stage(q, d)' = "none"
  BY <1>0, <1>3 DEF SoleInv, Stage
<1>6. Stage(Self, c)' = "armed"
  BY <1>2, <1>3 DEF Stage
<1>7. SoleInv'
  BY <1>0, <1>4, <1>5, <1>6 DEF SoleInv
<1>8. AbortInv'
  BY <1>0, <1>4, <1>5, <1>6 DEF AbortInv
<1> QED
  BY <1>4, <1>7, <1>8

(* ... and stopped. *)
LEMMA SignalStops ==
  ASSUME IInv, SoleInv, AbortInv, StopCrons(Self)
  PROVE  SoleInv' /\ AbortInv' /\ ~ cronStarted'[Self]
<1>0. Self \in Replicas /\ TypeOK
  BY ShutdownAssumption DEF IInv
<1>1. /\ ~ cronStarted'[Self] /\ runs' = runs
      /\ aborted' = aborted \cup ({controller[Self]} \cap runs)
      /\ controller' = [controller EXCEPT ![Self] = NoRun]
      /\ \A q \in Replicas \ {Self} : chain'[q] = chain[q]
      /\ \A c \in Chains : chain'[Self][c] = IF c = timer[Self] THEN Idle("over") ELSE chain[Self][c]
  BY <1>0 DEF StopCrons, TypeOK
<1>2. Idle("over").stage = "over"
  BY DEF Idle
<1>3. \A c \in Chains : /\ Stage(Self, c)' # "none" => Stage(Self, c) # "none" \/ c = timer[Self]
                        /\ Stage(Self, c)' = Stage(Self, c) \/ Stage(Self, c)' = "over"
                        /\ Stage(Self, c)' # "armed"
                        /\ Stage(Self, c) # "none" => Stage(Self, c)' # "none"
  BY <1>1, <1>2 DEF SoleInv, Stage
<1>4. timer[Self] # 0 => Stage(Self, timer[Self]) = "armed"
  BY <1>0 DEF IInv, TimerInv
<1>5. \A c \in Chains : Stage(Self, c)' # "none" => Stage(Self, c) # "none"
  BY <1>3, <1>4, CronAssumption DEF Chains
<1>6. SoleInv'
  BY <1>0, <1>1, <1>3, <1>5 DEF SoleInv, Stage
<1>7. AbortInv'
  BY <1>0, <1>1, <1>3, <1>5 DEF AbortInv
<1> QED
  BY <1>1, <1>6, <1>7

LEMMA CronsStay ==
  ASSUME IInv, SoleInv, AbortInv, UNCHANGED cronVars
  PROVE  IInv' /\ SoleInv' /\ AbortInv' /\ UNCHANGED <<cronStarted, chain>>
<1>1. IInv'
  BY IdleKeeps
<1>2. UNCHANGED <<chain, cronStarted, timer, controller, runs, aborted>>
  BY DEF cronVars, runVars
<1>3. SoleInv' /\ AbortInv'
  BY <1>2 DEF SoleInv, AbortInv, Stage
<1> QED
  BY <1>1, <1>2, <1>3

(* The loop of the worker goes on, whatever stage the process is in. *)
LEMMA LoopGoesOn ==
  ASSUME LoopInv, PhaseInv, StopResolves(Final) \/ (\E k \in Loops : LoopStep(k)), UNCHANGED phase
  PROVE  LoopInv' /\ (stopPc[Final] = "done" => stopPc'[Final] = "done")
<1>0. Final \in Stops /\ \A k \in Loops : k # 0
  BY ShutdownAssumption DEF Loops
<1>1. CASE StopResolves(Final)
  <2>1. /\ stopPc[Final] = "waiting"
        /\ awaited[Final] # 0 => loopPc[awaited[Final]] = "exited"
        /\ stopPc' = [stopPc EXCEPT ![Final] = "done"]
        /\ UNCHANGED <<running, wake, loopPc, awaited>>
    BY <1>1 DEF StopResolves
  <2>2. phase \in Down
    BY <2>1 DEF LoopInv, PhaseInv
  <2>3. stopPc' \in [Stops -> {"idle", "waiting", "done"}] /\ stopPc'[Final] = "done"
    BY <1>0, <2>1 DEF LoopInv
  <2>4. loopPc[1] = "exited"
    BY <2>1, <2>2 DEF LoopInv
  <2>5. phase' \notin {"boot", "booting", "up"}
    BY <2>2 DEF Down
  <2> QED
    BY <1>0, <2>1, <2>2, <2>3, <2>4, <2>5 DEF LoopInv
<1>2. ASSUME NEW k \in Loops, LoopStep(k)
      PROVE  LoopInv' /\ (stopPc[Final] = "done" => stopPc'[Final] = "done")
  <2>1. /\ loopPc[k] \in {"tick", "wait", "woken"}
        /\ \E to \in {"tick", "wait", "woken", "exited"} :
             /\ loopPc' = [loopPc EXCEPT ![k] = to]
             /\ running => to # "exited"
        /\ wake' \in {wake, k, 0}
        /\ UNCHANGED <<running, loop, stopPc, awaited>>
    BY <1>2 DEF LoopStep, TickLeased, TickIdles, WaitOver, Resume, Around
  <2>2. k = 1 /\ phase \in {"up"} \cup Down
    BY <2>1 DEF LoopInv, PhaseInv
  <2>3. PICK to \in {"tick", "wait", "woken", "exited"} :
             /\ loopPc' = [loopPc EXCEPT ![k] = to]
             /\ running => to # "exited"
    BY <2>1
  <2>4. /\ loopPc' \in [Loops -> {"none", "tick", "wait", "woken", "exited"}]
        /\ loopPc'[1] = to /\ \A j \in Loops : j # 1 => loopPc'[j] = "none"
    BY <2>2, <2>3 DEF LoopInv
  <2>5. wake' \in {0, 1} /\ (wake' = 1 => 1 \in Loops)
    BY <2>1, <2>2 DEF LoopInv
  <2>6. phase \in Down => stopPc[Final] # "done"
    BY <2>1, <2>2 DEF LoopInv
  <2>7. phase' \notin {"boot", "booting"} /\ (phase = "up" => phase \notin Down)
    BY <2>2 DEF Down
  <2> QED
    BY <2>1, <2>2, <2>3, <2>4, <2>5, <2>6, <2>7 DEF LoopInv
<1> QED
  BY <1>1, <1>2

LEMMA ShutdownStepKeeps ==
  ASSUME ShutdownInv, [Next]_vars
  PROVE  ShutdownInv'
<1> USE DEF ShutdownInv
<1>0. Self \in Replicas /\ Final \in Stops /\ TypeOK
  BY ShutdownAssumption DEF IInv
<1>9. DueSafe'
  <2>1. [CronNext]_cronVars
    BY <1>0 DEF Next, BootCrons, BootWorker, Signal, ShutdownStep, BackgroundStopped,
       BackgroundTimeout, EvictAgents, EndPools, PoolsEnded, FlushTelemetry, Exit, Worker,
       Crons, Serve, vars, CronNext
  <2> QED
    BY <2>1, DueStep DEF DueSafe
<1>1. CASE BootCrons
  <2>1. /\ phase = "boot" /\ phase' = "booting" /\ StartCrons(Self)
        /\ UNCHANGED <<running, loop, wake, loopPc, stopPc, awaited, gaveUp, pools>>
    BY <1>1 DEF BootCrons, Move, workerVars
  <2>2. IInv' /\ SoleInv' /\ AbortInv'
    BY <1>0, <2>1, StartKeeps, BootStarts DEF PhaseInv
  <2>3. LoopInv'
    BY <2>1 DEF LoopInv, Down
  <2>4. PhaseInv'
    BY <2>1 DEF PhaseInv, Down
  <2> QED
    BY <1>9, <2>2, <2>3, <2>4
<1>2. CASE BootWorker
  <2>1. /\ phase = "booting" /\ phase' = "up" /\ Start
        /\ UNCHANGED <<cronVars, gaveUp, pools>>
    BY <1>2 DEF BootWorker, Move
  <2>2. IInv' /\ SoleInv' /\ AbortInv' /\ UNCHANGED <<cronStarted, chain>>
    BY <2>1, CronsStay
  <2>3. LoopInv'
    <3>1. \A k \in Loops : loopPc[k] = "none"
      BY <2>1 DEF LoopInv
    <3>2. PICK k \in Loops : /\ \A i \in Loops : i < k => loopPc[i] # "none"
                             /\ loopPc' = [loopPc EXCEPT ![k] = "tick"]
                             /\ loop' = k
      BY <2>1 DEF Start
    <3>3. k = 1
      BY <3>1, <3>2, JobWorkerAssumption DEF Loops
    <3>4. running' = TRUE /\ UNCHANGED <<wake, stopPc, awaited>>
      BY <2>1 DEF Start
    <3> QED
      BY <2>1, <3>1, <3>2, <3>3, <3>4 DEF LoopInv, Down
  <2>4. PhaseInv'
    BY <2>1, <2>2 DEF PhaseInv, Down, Stage
  <2> QED
    BY <1>9, <2>2, <2>3, <2>4
<1>3. CASE Signal
  <2>1. /\ phase = "up" /\ phase' = "stopping" /\ StopCrons(Self) /\ Stop(Final)
        /\ UNCHANGED <<gaveUp, pools>>
    BY <1>3 DEF Signal, Move
  <2>2. IInv' /\ SoleInv' /\ AbortInv' /\ ~ cronStarted'[Self]
    BY <1>0, <2>1, StopKeeps, SignalStops
  <2>3. LoopInv'
    <3>1. /\ running' = FALSE /\ wake' = 0
          /\ loopPc' = IF wake = 0 THEN loopPc ELSE [loopPc EXCEPT ![wake] = "woken"]
          /\ stopPc' = [stopPc EXCEPT ![Final] = "waiting"]
          /\ awaited' = [awaited EXCEPT ![Final] = loop]
      BY <2>1 DEF Stop
    <3>2. /\ loopPc' \in [Loops -> {"none", "tick", "wait", "woken", "exited"}]
          /\ \A k \in Loops : k # 1 => loopPc'[k] = "none"
      BY <3>1 DEF LoopInv
    <3>3. /\ stopPc' \in [Stops -> {"idle", "waiting", "done"}] /\ stopPc'[Final] = "waiting"
          /\ awaited' \in [Stops -> Loops \cup {0}] /\ awaited'[Final] = 1 /\ 1 \in Loops
      BY <1>0, <2>1, <3>1 DEF LoopInv
    <3> QED
      BY <2>1, <3>1, <3>2, <3>3 DEF LoopInv, Down
  <2>4. PhaseInv'
    BY <2>1, <2>2 DEF PhaseInv, Down
  <2> QED
    BY <1>9, <2>2, <2>3, <2>4
<1>4. CASE ShutdownStep
  <2>1. /\ phase \in Down /\ phase' \in Down /\ UNCHANGED workerVars /\ UNCHANGED cronVars
        /\ gaveUp' \in {gaveUp, TRUE} /\ pools' \in {pools, FALSE}
    BY <1>4 DEF ShutdownStep, BackgroundStopped, BackgroundTimeout, EvictAgents, EndPools,
       PoolsEnded, FlushTelemetry, Exit, Move, Down
  <2>2. IInv' /\ SoleInv' /\ AbortInv' /\ UNCHANGED <<cronStarted, chain>>
    BY <2>1, CronsStay
  <2>3. UNCHANGED <<running, loop, wake, loopPc, stopPc, awaited>>
    BY <2>1 DEF workerVars
  <2>4. LoopInv'
    BY <2>1, <2>3 DEF LoopInv, Down
  <2>5. /\ phase' # "stopping" /\ (~ gaveUp' => stopPc[Final] = "done")
        /\ ~ pools' => phase' \in {"ending", "flushing", "closing", "exited"}
    BY <1>4 DEF ShutdownStep, BackgroundStopped, BackgroundTimeout, EvictAgents, EndPools,
       PoolsEnded, FlushTelemetry, Exit, Move, Down, PhaseInv
  <2>6. PhaseInv'
    BY <2>1, <2>2, <2>3, <2>5 DEF PhaseInv, Down
  <2> QED
    BY <1>9, <2>2, <2>4, <2>6
<1>5. CASE Worker
  <2>1. /\ StopResolves(Final) \/ (\E k \in Loops : LoopStep(k))
        /\ UNCHANGED <<phase, gaveUp, pools>> /\ UNCHANGED cronVars
    BY <1>5 DEF Worker
  <2>2. IInv' /\ SoleInv' /\ AbortInv' /\ UNCHANGED <<cronStarted, chain>>
    BY <2>1, CronsStay
  <2>3. LoopInv' /\ (stopPc[Final] = "done" => stopPc'[Final] = "done")
    BY <2>1, LoopGoesOn
  <2>4. PhaseInv'
    BY <2>1, <2>2, <2>3 DEF PhaseInv, Stage
  <2> QED
    BY <1>9, <2>2, <2>3, <2>4
<1>6. CASE Crons
  <2>1. /\ CronTurn /\ UNCHANGED <<running, loop, wake, loopPc, stopPc, awaited, phase, gaveUp, pools>>
    BY <1>6 DEF Crons, workerVars
  <2>2. IInv'
    BY <2>1, NextKeeps DEF CronNext
  <2>3. /\ SoleInv' /\ AbortInv' /\ UNCHANGED cronStarted
        /\ (\A c \in Chains : Stage(Self, c) = "none") => \A c \in Chains : Stage(Self, c)' = "none"
    BY <2>1, CronTurnKeeps
  <2>4. LoopInv'
    BY <2>1 DEF LoopInv
  <2>5. PhaseInv'
    BY <2>1, <2>3 DEF PhaseInv
  <2> QED
    BY <1>9, <2>2, <2>3, <2>4, <2>5
<1>7. CASE Serve \/ UNCHANGED vars
  <2>1. /\ UNCHANGED <<running, loop, wake, loopPc, stopPc, awaited, phase, gaveUp, pools>>
        /\ UNCHANGED cronVars
    BY <1>7 DEF Serve, vars, workerVars
  <2>2. IInv' /\ SoleInv' /\ AbortInv' /\ UNCHANGED <<cronStarted, chain>>
    BY <2>1, CronsStay
  <2>3. LoopInv' /\ PhaseInv'
    BY <2>1, <2>2 DEF LoopInv, PhaseInv, Stage
  <2> QED
    BY <1>9, <2>2, <2>3
<1> QED
  BY <1>1, <1>2, <1>3, <1>4, <1>5, <1>6, <1>7 DEF Next

LEMMA BootEstablishes == Init => ShutdownInv
<1> SUFFICES ASSUME Init PROVE ShutdownInv
  OBVIOUS
<1>1. IInv
  BY InitEstablishes DEF Init
<1>2. /\ \A r \in Replicas, c \in Chains : Stage(r, c) = "none"
      /\ runs = {} /\ Self \in Replicas /\ Final \in Stops /\ ~ cronStarted[Self]
      /\ controller = [r \in Replicas |-> controller[r]]
  BY ShutdownAssumption DEF Init, CronInit, Stage, Idle
<1>3. SoleInv /\ AbortInv
  BY <1>2 DEF SoleInv, AbortInv
<1>4. LoopInv
  <2>1. /\ loopPc \in [Loops -> {"none", "tick", "wait", "woken", "exited"}]
        /\ stopPc \in [Stops -> {"idle", "waiting", "done"}]
        /\ awaited \in [Stops -> Loops \cup {0}]
    BY DEF Init, WorkerInit
  <2>2. /\ \A k \in Loops : loopPc[k] = "none"
        /\ stopPc[Final] = "idle" /\ wake = 0 /\ phase = "boot"
        /\ running \in BOOLEAN /\ ~ running
    BY <1>2 DEF Init, WorkerInit
  <2>3. phase \notin Down
    BY <2>2 DEF Down
  <2> QED
    BY <2>1, <2>2, <2>3 DEF LoopInv
<1>5. PhaseInv
  BY <1>2 DEF Init, PhaseInv, Down
<1>6. DueSafe
  BY <1>2 DEF DueSafe, DueInv
<1> QED
  BY <1>1, <1>3, <1>4, <1>5, <1>6 DEF ShutdownInv

LEMMA ShutdownInvInductive == Spec => []ShutdownInv
BY BootEstablishes, ShutdownStepKeeps, PTL DEF Spec

(* The pools close on no job in progress, unless the worker was given up on:
   whatever the job and the cron handlers do (graceful-shutdown.ts:29-31).  *)
THEOREM PoolsCloseAfterJobs == Spec => []DrainedBeforeClose
<1>1. ShutdownInv => DrainedBeforeClose
  <2> SUFFICES ASSUME ShutdownInv, ~ pools, ~ gaveUp, NEW k \in Loops
               PROVE  loopPc[k] # "tick"
    BY DEF DrainedBeforeClose
  <2>1. stopPc[Final] = "done" /\ phase \in Down
    BY DEF ShutdownInv, PhaseInv, Down
  <2> QED
    BY <2>1 DEF ShutdownInv, LoopInv
<1> QED
  BY <1>1, ShutdownInvInductive, PTL

(* After the signal no timer of a cron is left, and the handler that runs was
   told to stop, if no lock and no overlap is in play (background-work.ts). *)
THEOREM SignalStopsCrons == Spec => []CronsStopFirst
<1>1. ShutdownInv => CronsStopFirst
  <2> SUFFICES ASSUME ShutdownInv, phase \notin {"boot", "booting", "up"}
               PROVE  /\ \A c \in Chains : Stage(Self, c) # "armed"
                      /\ ~ UseLock /\ Concurrency = "forbid" => runs \subseteq aborted
    BY DEF CronsStopFirst
  <2>1. ~ cronStarted[Self]
    BY DEF ShutdownInv, PhaseInv
  <2> QED
    BY <2>1 DEF ShutdownInv, SoleInv, AbortInv
<1> QED
  BY <1>1, ShutdownInvInductive, PTL

=============================================================================
