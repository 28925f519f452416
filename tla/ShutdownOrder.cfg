\* Handlers of jobs, crons and requests that may run for ever, with or without a
\* pool client in hand.  No cron lock.
CONSTANTS
  self = self
  final = final
  Self = self
  Final = final
  MaxLoops = 1
  Stops = {final}
  AwaitStops = TRUE
  Replicas = {self}
  Concurrency = "forbid"
  UseLock = FALSE
  Period = 1
  MaxDelay = 1
  Jitter = 0
  Retention = 2
  MaxLate = 1
  Horizon = 3
  MaxStarts = 1
  MaxCronFaults = 0
SPECIFICATION Spec
INVARIANTS DrainedBeforeClose CronsStopFirst
PROPERTIES ExitsAfterSignal
\* The process ends.
CHECK_DEADLOCK FALSE
