----------------------------- MODULE JobWorker -----------------------------
(***************************************************************************)
(* createJobWorker (job-worker.ts): the loop around JobRunner.tick(), its  *)
(* start() and its stop().                                                 *)
(*                                                                         *)
(* running, loop and wake are one worker's closure variables, shared by    *)
(* every run of the loop and every stop() in progress; one action is what  *)
(* runs between two awaits.  What a tick does to the queue is JobQueue's   *)
(* subject: here it leases something, leases nothing, or throws.           *)
(***************************************************************************)
EXTENDS Naturals

CONSTANTS
  MaxLoops,     \* bound: start() calls that begin a loop
  Stops,        \* stop() calls
  AwaitStops    \* does the caller await a pending stop() before start()?

ASSUME JobWorkerAssumption == MaxLoops \in Nat /\ AwaitStops \in BOOLEAN

VARIABLES
  running,
  loop,      \* the run of the loop the closure holds, 0 for undefined
  wake,      \* the run whose wait `wake` would cut short, 0 for undefined
  loopPc,    \* per run: not begun, in a tick, waiting, wait resolved, returned
  stopPc,    \* per stop(): not called, awaiting, resolved
  awaited    \* per stop(): the run it awaits

workerVars == <<running, loop, wake, loopPc, stopPc, awaited>>

Loops == 1..MaxLoops

WorkerInit ==
  /\ running = FALSE
  /\ loop = 0
  /\ wake = 0
  /\ loopPc = [k \in Loops |-> "none"]
  /\ stopPc = [s \in Stops |-> "idle"]
  /\ awaited = [s \in Stops |-> 0]

(* run() is entered and reaches its first tick before start() returns. *)
Start ==
  /\ ~ running
  /\ AwaitStops => \A s \in Stops : stopPc[s] # "waiting"
  /\ \E k \in Loops :
       /\ loopPc[k] = "none"
       /\ \A i \in Loops : i < k => loopPc[i] # "none"
       /\ loopPc' = [loopPc EXCEPT ![k] = "tick"]
       /\ loop' = k
  /\ running' = TRUE
  /\ UNCHANGED <<wake, stopPc, awaited>>

(* running = false; wake?.(); then `await loop` of this very moment. *)
Stop(s) ==
  /\ stopPc[s] = "idle"
  /\ running' = FALSE
  /\ loopPc' = IF wake = 0 THEN loopPc ELSE [loopPc EXCEPT ![wake] = "woken"]
  /\ wake' = 0
  /\ stopPc' = [stopPc EXCEPT ![s] = "waiting"]
  /\ awaited' = [awaited EXCEPT ![s] = loop]
  /\ loop' = loop

(* The awaited run returned: stop() clears `loop`, whatever it is by now. *)
StopResolves(s) ==
  /\ stopPc[s] = "waiting"
  /\ awaited[s] # 0 => loopPc[awaited[s]] = "exited"
  /\ stopPc' = [stopPc EXCEPT ![s] = "done"]
  /\ loop' = 0
  /\ UNCHANGED <<running, wake, loopPc, awaited>>

(* while (running) *)
Around(k) == [loopPc EXCEPT ![k] = IF running THEN "tick" ELSE "exited"]

(* The tick leased jobs: around again at once. *)
TickLeased(k) ==
  /\ loopPc[k] = "tick"
  /\ loopPc' = Around(k)
  /\ UNCHANGED <<running, loop, wake, stopPc, awaited>>

(* It leased nothing, or threw: wait for the poll interval or the backoff. *)
TickIdles(k) ==
  /\ loopPc[k] = "tick"
  /\ loopPc' = [loopPc EXCEPT ![k] = "wait"]
  /\ wake' = k
  /\ UNCHANGED <<running, loop, stopPc, awaited>>

(* done() of this run's own timer; it clears `wake`, whoever set it. *)
WaitOver(k) ==
  /\ loopPc[k] = "wait"
  /\ loopPc' = [loopPc EXCEPT ![k] = "woken"]
  /\ wake' = 0
  /\ UNCHANGED <<running, loop, stopPc, awaited>>

FaultyResumeEnds(k) ==           \* the loop ends with its first wait
  /\ loopPc[k] = "woken"
  /\ loopPc' = [loopPc EXCEPT ![k] = "exited"]
  /\ UNCHANGED <<running, loop, wake, stopPc, awaited>>

FaultyResume(k) ==               \* do ... while instead of while
  /\ loopPc[k] = "woken"
  /\ loopPc' = [loopPc EXCEPT ![k] = "tick"]
  /\ UNCHANGED <<running, loop, wake, stopPc, awaited>>

Resume(k) ==
  /\ loopPc[k] = "woken"
  /\ loopPc' = Around(k)
  /\ UNCHANGED <<running, loop, wake, stopPc, awaited>>

LoopStep(k) == TickLeased(k) \/ TickIdles(k) \/ WaitOver(k) \/ Resume(k)

WorkerNext ==
  \/ Start
  \/ \E s \in Stops : Stop(s) \/ StopResolves(s)
  \/ \E k \in Loops : LoopStep(k)

(* Timers fire, a settled promise runs what awaits it, and ticks end: that
   last part is an assumption on the handlers, which the runner aborts at
   their timeout but never abandons.                                       *)
WorkerFairness ==
  /\ \A k \in Loops : WF_workerVars(LoopStep(k))
  /\ \A s \in Stops : WF_workerVars(StopResolves(s))

WorkerSpec == WorkerInit /\ [][WorkerNext]_workerVars /\ WorkerFairness

(* Two runs of the loop never poll at the same time. *)
OneLoop ==
  \A j, k \in Loops :
    loopPc[j] \in {"tick", "wait", "woken"} /\ loopPc[k] \in {"tick", "wait", "woken"} => j = k

(* stop() always resolves. *)
StopsReturn == \A s \in Stops : stopPc[s] = "waiting" ~> stopPc[s] = "done"

=============================================================================
