\* Two replicas, ticks at 2 and 4, one fault; one scheduler may be stopped and
\* started again once.
CONSTANTS
  r1 = r1
  r2 = r2
  Replicas = {r1, r2}
  Concurrency = "forbid"
  UseLock = TRUE
  Period = 2
  MaxDelay = 2
  Jitter = 1
  Retention = 2
  MaxLate = 1
  Horizon = 5
  MaxStarts = 3
  MaxCronFaults = 1
SPECIFICATION CronSpec
SYMMETRY Symmetric
INVARIANTS TickRunsOnce NoOverlap ChainAlive TakenTickRuns
PROPERTIES NotEarly
\* Every scheduler may be stopped for good.
CHECK_DEADLOCK FALSE
