----------------------------- MODULE LocalJobs -----------------------------
(***************************************************************************)
(* The jobs of `theokit dev` and of a single-instance deployment: the      *)
(* worker's loop (JobWorker) and whoever else calls tick() on the same     *)
(* in-memory backend (MemoryBackend).  A run of the worker's loop is a     *)
(* runner; what it leased decides how its tick ends.                       *)
(***************************************************************************)
EXTENDS JobWorker, MemoryBackend

CONSTANT Others   \* runners that are not runs of this worker's loop

ASSUME LocalAssumption == Runners = Loops \cup Others /\ Others \cap Loops = {}

localVars == <<workerVars, memoryVars>>

LocalInit == WorkerInit /\ MemoryInit

(* A run of the loop ticks: it leases a batch, or leases nothing and waits;
   when the batch is through, the loop goes around.                        *)
LoopPolls(k) == loopPc[k] = "tick" /\ Dequeue(k) /\ UNCHANGED workerVars

LoopIdles(k) ==
  /\ ~ run[k].ticking /\ Picked = {}
  /\ TickIdles(k)
  /\ UNCHANGED memoryVars

FaultyLoopReturns(k) ==          \* tick() does not await the last runOne
  /\ run[k].ticking /\ Len(run[k].leases) <= 1
  /\ TickLeased(k)
  /\ UNCHANGED memoryVars

LoopReturns(k) == TickReturns(k) /\ TickLeased(k)

LoopWakes(k) == (WaitOver(k) \/ Resume(k)) /\ UNCHANGED memoryVars

LoopRuns(k) == LoopPolls(k) \/ LoopIdles(k) \/ LoopReturns(k) \/ LoopWakes(k)

OtherTicks(r) == (Dequeue(r) \/ TickReturns(r)) /\ UNCHANGED workerVars

WorkerCalled ==
  /\ Start \/ \E s \in Stops : Stop(s) \/ StopResolves(s)
  /\ UNCHANGED memoryVars

JobsMove == (BackendStep \/ \E r \in Runners : RunnerStep(r)) /\ UNCHANGED workerVars

LocalNext ==
  \/ WorkerCalled
  \/ \E k \in Loops : LoopRuns(k)
  \/ \E r \in Others : OtherTicks(r)
  \/ JobsMove

LocalFairness ==
  /\ MemoryFairness
  /\ \A k \in Loops : WF_localVars(LoopRuns(k))
  /\ \A r \in Others : WF_localVars(TickReturns(r) /\ UNCHANGED workerVars)
  /\ \A s \in Stops : WF_localVars(StopResolves(s) /\ UNCHANGED memoryVars)

LocalSpec == LocalInit /\ [][LocalNext]_localVars /\ LocalFairness

-----------------------------------------------------------------------------
Contract(j) == INSTANCE JobContract WITH
  Jobs <- {j},
  phase <- [i \in {j} |-> IF phase[i] = "dropped" THEN "dead" ELSE phase[i]],
  owner <- [i \in {j} |-> IF phase[i] \in {"open", "done"} THEN job[i].token ELSE 0],
  tries <- [i \in {j} |-> job[i].attempts],
  granted <- job[j].attempts,
  reports <- {report \in reports : report[1] = j}

(* What the contract does not have: a full map gives up its oldest job. *)
Displaced(j) ==
  /\ Evicted(j)
  /\ phase'[j] = "dropped"
  /\ UNCHANGED <<job, reports>>

(* Of every job the memory backend keeps the contract that JobQueue's store
   keeps, except when it displaces it: under any interleaving of runners, expired locks and
   evictions, a job is settled once, by the last lease on it, as that lease's
   handler ended, within its attempts (job-backend-memory.ts:188-253).     *)
KeepsContract ==
  [][\A j \in Jobs :
       \/ Contract(j)!Next
       \/ Displaced(j)
       \/ UNCHANGED Contract(j)!contractVars]_localVars

(* Once stop() has resolved, no handler of this worker is running and no lease
   of it is left to settle: the batch is through (job-worker.ts:34-35).     *)
HandlersQuiet ==
  ~ running /\ (\A s \in Stops : stopPc[s] # "waiting") =>
    \A k \in Loops : loopPc[k] \in {"none", "exited"} /\ run[k].leases = <<>>

(* start() and stop() in any order leave at most one loop polling, and none,
   with nothing in hand, once the stop() they awaited has resolved.        *)
WorkerInHand == OneLoop /\ HandlersQuiet

(* While the worker runs, no job is left behind: not one that was released for
   another attempt, nor one whose lock expired under its holder, nor one that
   waits while the loop is stopped and started again.                       *)
JobsSettle == <>[] running => \A j \in Jobs : phase[j] = "open" ~> phase[j] # "open"

=============================================================================
