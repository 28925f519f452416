--------------------------- MODULE CronScheduler ---------------------------
(***************************************************************************)
(* createCronScheduler (cron-runtime-node.ts), one scheduler per replica,  *)
(* and the lock they share, createPostgresCronLock (cron-lock.ts).         *)
(*                                                                         *)
(* One cron: the scheduler keeps one state per definition and the lock one *)
(* key space per name, so crons do not meet.  A tick is the instant it is  *)
(* scheduled for.  A chain is one start()'s endless timer -> lock -> run   *)
(* -> timer; state.timer remembers one chain's timer only.                 *)
(***************************************************************************)
EXTENDS Integers, FiniteSets

CONSTANTS
  Replicas,
  Concurrency,   \* "forbid" or "allow"
  UseLock,       \* is there a lock?
  Period,        \* of the schedule, in units of time
  MaxDelay,      \* the longest delay setTimeout keeps: 2^31 - 1 ms in Node
  Jitter,        \* how early a timer may fire: its clock is not Date.now()
  Retention,     \* retentionDays
  MaxLate,       \* how late a replica may still ask for a tick
  Horizon,       \* bound: the last instant
  MaxStarts,     \* bound: start() calls
  MaxCronFaults  \* bound: statements that fail, and replicas that die

ASSUME CronAssumption ==
  /\ Concurrency \in {"forbid", "allow"}
  /\ UseLock \in BOOLEAN
  /\ Period \in Nat \ {0}
  /\ {MaxDelay, Jitter, Retention, MaxLate, Horizon, MaxStarts, MaxCronFaults} \subseteq Nat
  /\ Jitter <= Period

VARIABLES
  now,
  cronStarted,  \* per replica: `started`
  chain,        \* per replica and chain: [stage, tick, due]
  timer,        \* per replica: the chain state.timer belongs to, 0 for null
  inFlight,     \* per replica
  controller,   \* per replica: the run whose AbortController it holds, or NoRun
  runs,         \* the handlers that are running: <<replica, tick, n>>
  aborted,      \* those whose signal is aborted
  rows,         \* the lock table: the ticks that have a row
  fires,        \* per tick: how often a handler was started for it
  skipped,      \* history: ticks given up by the replica that took them
  cronFaults

lockVars == <<rows, cronFaults>>
runVars  == <<inFlight, controller, runs, aborted, fires>>
cronVars == <<now, cronStarted, chain, timer, runVars, lockVars, skipped>>

Chains == 1..MaxStarts
Ticks  == {t \in 1..(Horizon + Period) : t % Period = 0}
NoRun  == <<>>
NoTick == 0
Idle(stage) == [stage |-> stage, tick |-> NoTick, due |-> 0]

CronInit ==
  /\ now = 0
  /\ cronStarted = [r \in Replicas |-> FALSE]
  /\ chain = [r \in Replicas |-> [c \in Chains |-> Idle("none")]]
  /\ timer = [r \in Replicas |-> 0]
  /\ inFlight = [r \in Replicas |-> FALSE]
  /\ controller = [r \in Replicas |-> NoRun]
  /\ runs = {}
  /\ aborted = {}
  /\ rows = {}
  /\ fires = [t \in Ticks |-> 0]
  /\ skipped = {}
  /\ cronFaults = 0

Stage(r, c) == chain[r][c].stage
Tick(r, c)  == chain[r][c].tick
SetChain(r, c, record) == chain' = [chain EXCEPT ![r][c] = record]

(* interval.next() from the current time. *)
NextTick == (now \div Period + 1) * Period

FaultyArmed ==                     \* the delay is counted from the last tick
  [stage |-> "armed", tick |-> NextTick, due |-> NextTick - Period]

(* setTimeout replaces a delay it cannot keep by 1 ms, which is due at once. *)
Armed ==
  [stage |-> "armed", tick |-> NextTick,
   due   |-> IF NextTick - now <= MaxDelay THEN NextTick ELSE now]

(* `held` is what state.timer is when the handler did not start one. *)
ScheduleNext(r, c, held) ==
  IF cronStarted[r]
  THEN /\ SetChain(r, c, Armed)
       /\ timer' = [timer EXCEPT ![r] = c]
  ELSE /\ SetChain(r, c, Idle("over"))
       /\ timer' = [timer EXCEPT ![r] = held]

Begun == {p \in Replicas \X Chains : Stage(p[1], p[2]) # "none"}

StartCrons(r) ==
  /\ ~ cronStarted[r]
  /\ cronStarted' = [cronStarted EXCEPT ![r] = TRUE]
  /\ \E c \in Chains :
       /\ \A i \in Chains : i < c <=> Stage(r, i) # "none"
       /\ Cardinality(Begun) < MaxStarts
       /\ SetChain(r, c, Armed)
       /\ timer' = [timer EXCEPT ![r] = c]
  /\ UNCHANGED <<now, runVars, lockVars, skipped>>

StopCrons(r) ==
  /\ cronStarted' = [cronStarted EXCEPT ![r] = FALSE]
  /\ chain' = [chain EXCEPT ![r] =
       [c \in Chains |-> IF c = timer[r] THEN Idle("over") ELSE chain[r][c]]]
  /\ timer' = [timer EXCEPT ![r] = 0]
  /\ aborted' = aborted \cup ({controller[r]} \cap runs)
  /\ controller' = [controller EXCEPT ![r] = NoRun]
  /\ UNCHANGED <<now, inFlight, runs, fires, lockVars, skipped>>

FaultyFireAndReschedule(r, c) ==   \* no look at inFlight
  LET t   == Tick(r, c)
      run == <<r, t, fires[t] + 1>>
  IN /\ ScheduleNext(r, c, 0)
     /\ inFlight' = [inFlight EXCEPT ![r] = TRUE]
     /\ controller' = [controller EXCEPT ![r] = run]
     /\ runs' = runs \cup {run}
     /\ fires' = [fires EXCEPT ![t] = @ + 1]
     /\ UNCHANGED <<aborted, skipped>>

FireAndReschedule(r, c) ==
  LET t   == Tick(r, c)
      run == <<r, t, fires[t] + 1>>
  IN /\ ScheduleNext(r, c, 0)
     /\ IF inFlight[r] /\ Concurrency = "forbid"
        THEN /\ skipped' = skipped \cup {t}
             /\ UNCHANGED runVars
        ELSE /\ inFlight' = [inFlight EXCEPT ![r] = TRUE]
             /\ controller' = [controller EXCEPT ![r] = run]
             /\ runs' = runs \cup {run}
             /\ fires' = [fires EXCEPT ![t] = @ + 1]
             /\ UNCHANGED <<aborted, skipped>>

(* The timer's callback: fireIfLockAllows. *)
TimerFires(r, c) ==
  /\ Stage(r, c) = "armed"
  /\ chain[r][c].due <= now + Jitter
  /\ IF UseLock
     THEN /\ SetChain(r, c, [chain[r][c] EXCEPT !.stage = "insert"])
          /\ timer' = [timer EXCEPT ![r] = 0]
          /\ UNCHANGED <<runVars, skipped>>
     ELSE FireAndReschedule(r, c)
  /\ UNCHANGED <<now, cronStarted, lockVars>>

Moved(r, c, from, to) ==
  /\ Stage(r, c) = from
  /\ SetChain(r, c, [chain[r][c] EXCEPT !.stage = to])
  /\ UNCHANGED <<now, cronStarted, timer, runVars>>

FaultyInsertRow(r, c) ==   \* ON CONFLICT DO UPDATE ... RETURNING
  /\ Moved(r, c, "insert", "delete")
  /\ rows' = rows \cup {Tick(r, c)}
  /\ UNCHANGED <<cronFaults, skipped>>

(* INSERT ... ON CONFLICT DO NOTHING RETURNING name *)
InsertRow(r, c) ==
  /\ Moved(r, c, "insert", IF Tick(r, c) \in rows THEN "lost" ELSE "delete")
  /\ rows' = rows \cup {Tick(r, c)}
  /\ UNCHANGED <<cronFaults, skipped>>

(* The DELETE of the rows past their retention, counted from this tick. *)
DeleteOld(r, c) ==
  /\ Moved(r, c, "delete", "won")
  /\ rows' = {t \in rows : t >= Tick(r, c) - Retention}
  /\ UNCHANGED <<cronFaults, skipped>>

(* CREATE TABLE or INSERT fails, the INSERT perhaps after it took effect. *)
InsertFails(r, c) ==
  /\ cronFaults < MaxCronFaults
  /\ Moved(r, c, "insert", "lost")
  /\ \/ UNCHANGED <<rows, skipped>>
     \/ /\ Tick(r, c) \notin rows
        /\ rows' = rows \cup {Tick(r, c)}
        /\ skipped' = skipped \cup {Tick(r, c)}
  /\ cronFaults' = cronFaults + 1

(* acquire() rejects although this replica's row is in: nobody runs it. *)
DeleteFails(r, c) ==
  /\ cronFaults < MaxCronFaults
  /\ Moved(r, c, "delete", "lost")
  /\ skipped' = skipped \cup {Tick(r, c)}
  /\ cronFaults' = cronFaults + 1
  /\ UNCHANGED rows

FaultyAcquireSettles(r, c) ==      \* the rejection handler only logs
  /\ Stage(r, c) \in {"won", "lost"}
  /\ IF Stage(r, c) = "won"
     THEN FireAndReschedule(r, c)
     ELSE /\ SetChain(r, c, Idle("over"))
          /\ UNCHANGED <<timer, runVars, skipped>>
  /\ UNCHANGED <<now, cronStarted, lockVars>>

FaultyAcquireSettlesLate(r, c) ==  \* a tick answered past its second is dropped
  /\ Stage(r, c) \in {"won", "lost"}
  /\ IF Stage(r, c) = "won" /\ now <= Tick(r, c)
     THEN FireAndReschedule(r, c)
     ELSE /\ ScheduleNext(r, c, timer[r])
          /\ UNCHANGED <<runVars, skipped>>
  /\ UNCHANGED <<now, cronStarted, lockVars>>

(* The promise acquire() returned settles. *)
AcquireSettles(r, c) ==
  /\ Stage(r, c) \in {"won", "lost"}
  /\ IF Stage(r, c) = "won"
     THEN FireAndReschedule(r, c)
     ELSE /\ ScheduleNext(r, c, timer[r])
          /\ UNCHANGED <<runVars, skipped>>
  /\ UNCHANGED <<now, cronStarted, lockVars>>

(* The handler returned or threw.  The code keeps its controller, but abort()
   then reaches nobody.                                                      *)
HandlerEnds(run) ==
  /\ run \in runs
  /\ runs' = runs \ {run}
  /\ aborted' = aborted \ {run}
  /\ inFlight' = [inFlight EXCEPT ![run[1]] = FALSE]
  /\ controller' = [r \in Replicas |-> IF controller[r] = run THEN NoRun ELSE controller[r]]
  /\ UNCHANGED <<now, cronStarted, chain, timer, fires, lockVars, skipped>>

Asking(r) == {c \in Chains : Stage(r, c) = "insert"}
Taken(r)  == {c \in Chains : Stage(r, c) \in {"delete", "won"}}

(* The process dies; a statement it had sent may still take effect. *)
ReplicaDies(r) ==
  /\ cronFaults < MaxCronFaults
  /\ cronStarted[r]
  /\ \E inserted \in SUBSET {Tick(r, c) : c \in Asking(r)} :
       /\ rows' = rows \cup inserted
       /\ skipped' = skipped \cup (inserted \ rows) \cup {Tick(r, c) : c \in Taken(r)}
  /\ cronStarted' = [cronStarted EXCEPT ![r] = FALSE]
  /\ chain' = [chain EXCEPT ![r] =
       [c \in Chains |-> Idle(IF Stage(r, c) = "none" THEN "none" ELSE "over")]]
  /\ timer' = [timer EXCEPT ![r] = 0]
  /\ inFlight' = [inFlight EXCEPT ![r] = FALSE]
  /\ controller' = [controller EXCEPT ![r] = NoRun]
  /\ runs' = {run \in runs : run[1] # r}
  /\ aborted' = {run \in aborted : run[1] # r}
  /\ cronFaults' = cronFaults + 1
  /\ UNCHANGED <<now, fires>>

(* Time passes, unless a replica is as late as MaxLate allows. *)
Clock ==
  /\ now < Horizon
  /\ \A r \in Replicas, c \in Chains :
       Stage(r, c) \in {"armed", "insert"} => now < Tick(r, c) + MaxLate
  /\ now' = now + 1
  /\ UNCHANGED <<cronStarted, chain, timer, runVars, lockVars, skipped>>

(* What goes on by itself once a scheduler was started. *)
CronTurn ==
  \/ \E r \in Replicas, c \in Chains :
       \/ TimerFires(r, c) \/ AcquireSettles(r, c)
       \/ InsertRow(r, c) \/ DeleteOld(r, c)
       \/ InsertFails(r, c) \/ DeleteFails(r, c)
  \/ \E run \in runs : HandlerEnds(run)
  \/ Clock

CronNext ==
  \/ \E r \in Replicas : StartCrons(r) \/ StopCrons(r) \/ ReplicaDies(r)
  \/ CronTurn

CronSpec == CronInit /\ [][CronNext]_cronVars
-----------------------------------------------------------------------------
(* How far ahead of its tick a replica may come to ask for it: the jitter of a
   timer, or a whole period where the timer cannot wait so long.            *)
Lead == IF Period <= MaxDelay THEN Jitter ELSE Period

(* What the lock needs and does not enforce: retentionDays (7 by default,
   cron-lock.ts:52) is whatever it is for every schedule.                   *)
RowsOutlive == MaxLate + Lead <= Retention

(* acquire() answers `true` once per tick, and the tick runs once at most, on
   one replica at most (cron-lock.ts:14,88-89): through failing statements,
   crashes, restarts and late timers, if RowsOutlive.  Of a monthly schedule
   with the default retention that is not so, and the run CronMonthly shows
   its tick run twice.                                                      *)
TickRunsOnce == UseLock => \A t \in Ticks : fires[t] <= 1

(* `forbid`: a process never runs the cron's handler twice at a time, a
   restarted scheduler's second chain of timers included
   (cron-runtime-node.ts:20).                                               *)
NoOverlap ==
  Concurrency = "forbid" =>
    \A r \in Replicas : Cardinality({run \in runs : run[1] = r}) <= 1

(* A started scheduler always has a timer armed or an answer to come that
   will arm one: no outcome of a tick ends the cron.                        *)
ChainAlive ==
  \A r \in Replicas : cronStarted[r] =>
    \E c \in Chains : Stage(r, c) \in {"armed", "insert", "delete", "won", "lost"}

(* A tick that has a row was run, or a replica that won it is about to run it,
   or it is one of `skipped`: its replica died with it, still ran the handler of
   an earlier tick, or saw the INSERT's answer or the DELETE fail.  A stop()
   while the lock answers, and an answer past the tick, are no excuse.      *)
TakenTickRuns ==
  \A t \in rows :
    \/ fires[t] > 0
    \/ t \in skipped
    \/ \E r \in Replicas : \E c \in Taken(r) : Tick(r, c) = t

(* A handler starts at its tick, or the jitter of a timer before it, never
   earlier (cron-runtime-node.ts:13), if the period is no longer than a timer
   can wait, which the theorem HandlersAreNotEarly assumes; in the run
   CronMonthly the timer of a longer one fires a period early.              *)
NotEarly == [][\A t \in Ticks : fires'[t] > fires[t] => t <= now + Jitter]_cronVars

=============================================================================
