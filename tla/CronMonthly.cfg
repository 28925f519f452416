\* A monthly cron on two replicas: its period is longer than a timer can wait,
\* and than the rows of the lock are kept.
CONSTANTS
  r1 = r1
  r2 = r2
  Replicas = {r1, r2}
  Concurrency = "forbid"
  UseLock = TRUE
  Period = 3
  MaxDelay = 2
  Jitter = 0
  Retention = 2
  MaxLate = 1
  Horizon = 4
  MaxStarts = 2
  MaxCronFaults = 0
SPECIFICATION CronSpec
INVARIANTS TickRunsOnce
CHECK_DEADLOCK FALSE
