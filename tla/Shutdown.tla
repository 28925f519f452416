------------------------------ MODULE Shutdown ------------------------------
(***************************************************************************)
(* One process under `theokit start`: startBackgroundWork                  *)
(* (background-work.ts) boots the cron scheduler and the job worker, and   *)
(* installGracefulShutdown (graceful-shutdown.ts) takes them down: stop    *)
(* both for at most backgroundStopTimeoutMs, evict agents, close the       *)
(* storage pools, flush telemetry, close the server, exit.                 *)
(*                                                                         *)
(* JobWorker and CronScheduler run on underneath, at every stage.          *)
(***************************************************************************)
EXTENDS JobWorker, CronScheduler

CONSTANTS
  Self,         \* this process, as a replica of CronScheduler
  Final         \* the stop() call of the shutdown

ASSUME ShutdownAssumption == Self \in Replicas /\ Final \in Stops

VARIABLES
  phase,     \* where the process is
  gaveUp,    \* backgroundStopTimeoutMs passed first
  pools,     \* do the StorageManager's pools give out clients?
  holding,   \* which handlers of this application work with a client in hand
  serving    \* does an HTTP request have a client in hand?

clients == <<holding, serving>>
vars    == <<workerVars, cronVars, phase, gaveUp, pools, clients>>

Init ==
  /\ WorkerInit
  /\ CronInit
  /\ phase = "boot"
  /\ gaveUp = FALSE
  /\ pools = TRUE
  /\ holding \in SUBSET {"jobs", "crons"}
  /\ serving = FALSE

Move(from, to) == phase = from /\ phase' = to /\ UNCHANGED clients

(* The crons are scheduled first; loadJobDefinitions is awaited in between. *)
BootCrons ==
  /\ Move("boot", "booting")
  /\ StartCrons(Self)
  /\ UNCHANGED <<workerVars, gaveUp, pools>>

BootWorker ==
  /\ Move("booting", "up")
  /\ Start
  /\ UNCHANGED <<cronVars, gaveUp, pools>>

FaultySignal ==                  \* leaves the scheduler running
  /\ Move("up", "stopping")
  /\ Stop(Final)
  /\ UNCHANGED <<cronVars, gaveUp, pools>>

(* The first SIGTERM or SIGINT: BackgroundWork.stop() up to its await.  A
   later signal finds shuttingDown set.                                    *)
Signal ==
  /\ Move("up", "stopping")
  /\ StopCrons(Self)
  /\ Stop(Final)
  /\ UNCHANGED <<gaveUp, pools>>

FaultyBackgroundStopped ==       \* stopBackgroundWork() is not awaited
  /\ Move("stopping", "evicting")
  /\ UNCHANGED <<workerVars, cronVars, gaveUp, pools>>

(* Promise.race: the worker stopped ... *)
BackgroundStopped ==
  /\ Move("stopping", "evicting")
  /\ stopPc[Final] = "done"
  /\ UNCHANGED <<workerVars, cronVars, gaveUp, pools>>

FaultyBackgroundTimeout ==       \* nothing bounds the wait
  /\ Move("stopping", "evicting")
  /\ stopPc[Final] = "done"
  /\ gaveUp' = TRUE
  /\ UNCHANGED <<workerVars, cronVars, pools>>

(* ... or the bound passed. *)
BackgroundTimeout ==
  /\ Move("stopping", "evicting")
  /\ gaveUp' = TRUE
  /\ UNCHANGED <<workerVars, cronVars, pools>>

(* Every stage catches its errors, so it is left whether it failed or not. *)
EvictAgents ==
  /\ Move("evicting", "disposing")
  /\ UNCHANGED <<workerVars, cronVars, gaveUp, pools>>

(* dispose(), its adapters drained: pool.end() gives out no client any more ... *)
EndPools ==
  /\ Move("disposing", "ending")
  /\ pools' = FALSE
  /\ UNCHANGED <<workerVars, cronVars, gaveUp>>

(* ... and waits for those in hand: of job handlers, of cron handlers, which the
   shutdown tells to stop and does not await, and of requests.              *)
ClientOut ==
  \/ "jobs" \in holding /\ \E k \in Loops : loopPc[k] = "tick"
  \/ "crons" \in holding /\ \E run \in runs : run[1] = Self
  \/ serving

PoolsEnded ==
  /\ Move("ending", "flushing")
  /\ ~ ClientOut
  /\ UNCHANGED <<workerVars, cronVars, gaveUp, pools>>

FlushTelemetry ==
  /\ Move("flushing", "closing")
  /\ UNCHANGED <<workerVars, cronVars, gaveUp, pools>>

(* The last connection closed, or the 25 s that start here passed. *)
Exit ==
  /\ Move("closing", "exited")
  /\ UNCHANGED <<workerVars, cronVars, gaveUp, pools>>

(* A request handler takes a client of a pool, or gives it back: the server
   takes requests until it is closed, last.                                 *)
Serve ==
  /\ phase # "exited"
  /\ serving' = ~ serving
  /\ serving' => pools
  /\ UNCHANGED <<workerVars, cronVars, phase, gaveUp, pools, holding>>

Worker ==
  /\ phase # "exited"
  /\ StopResolves(Final) \/ \E k \in Loops : LoopStep(k)
  /\ UNCHANGED <<cronVars, phase, gaveUp, pools, clients>>

Crons ==
  /\ phase # "exited"
  /\ CronTurn
  /\ UNCHANGED <<workerVars, phase, gaveUp, pools, clients>>

ShutdownStep ==
  \/ BackgroundStopped \/ BackgroundTimeout
  \/ EvictAgents \/ EndPools \/ PoolsEnded \/ FlushTelemetry \/ Exit

Next ==
  \/ BootCrons \/ BootWorker \/ Signal \/ ShutdownStep
  \/ Worker \/ Crons \/ Serve

(* The steps of the shutdown are awaited calls and timers; that the calls into
   the SDK, the adapters and the telemetry return is assumed.  Nothing makes a
   handler of a job, a cron or a request return.                            *)
Spec == Init /\ [][Next]_vars /\ WF_vars(ShutdownStep)
-----------------------------------------------------------------------------
(* The job in progress finishes, and is acked, before the pools it uses are
   closed, unless its bound passed (graceful-shutdown.ts:29-31).            *)
DrainedBeforeClose == pools \/ gaveUp \/ \A k \in Loops : loopPc[k] # "tick"

(* From the signal on no cron has a timer left, and the handler that runs
   has been told to stop (background-work.ts:58-64).  Not so of a handler
   that starts when the lock answers after the signal, nor of any but the
   latest where handlers may overlap: the code aborts neither.             *)
CronsStopFirst ==
  phase \notin {"boot", "booting", "up"} =>
    /\ \A c \in Chains : Stage(Self, c) # "armed"
    /\ ~ UseLock /\ Concurrency = "forbid" => runs \subseteq aborted

(* A signal ends the process, whatever its job and cron handlers do
   (graceful-shutdown.ts:45-47), unless some handler, of a job, a cron or a
   request, keeps a client of a pool for ever: nothing bounds the wait for the
   pools (graceful-shutdown.ts:80), and the forced exit is armed after it
   (:108).                                                                  *)
ExitsAfterSignal ==
  \/ <>[](phase = "ending" /\ ClientOut)
  \/ phase = "stopping" ~> phase = "exited"

=============================================================================
