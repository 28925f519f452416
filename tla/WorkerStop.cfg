\* An application that awaits stop() before it starts the worker again, two
\* enqueues under one key, room for one job (the second evicts the first), and
\* a second runner.
CONSTANTS
  s1 = s1
  MaxLoops = 2
  Stops = {s1}
  AwaitStops = TRUE
  j1 = j1
  j2 = j2
  k1 = k1
  NoKey = NoKey
  Jobs = {j1, j2}
  Key <- SharedKey
  Delayed = {j2}
  Limit <- TwoOnce
  MaxPending = 1
  Batch = 1
  Others = {0}
  Runners <- LoopsAndOthers
  MaxExpiries = 1
SPECIFICATION LocalSpec
INVARIANTS WorkerInHand
PROPERTIES StopsReturn KeepsContract JobsSettle
\* A stopped worker stays stopped.
CHECK_DEADLOCK FALSE
