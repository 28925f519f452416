\* A request buffers two jobs on one key and a transaction writes a third, while one
\* worker acks and buries the rows they fight over; one statement may fail or lose
\* its answer, or the process of the request dies.
CONSTANTS
  j1 = j1
  j2 = j2
  j3 = j3
  w1 = w1
  r1 = r1
  NoJob = NoJob
  NoKey = NoKey
  Jobs = {j1, j2, j3}
  Workers = {w1}
  Key <- OneKey
  TxCalls = {j2}
  Limit <- OneAttempt
  Runnable <- AllRun
  BatchSize = 1
  MaxRounds = 2
  MaxFaults = 1
  MaxSlow = 0
  Requests = {r1}
  Pushes <- TwoPushes
  WithId = {j3}
SPECIFICATION RequestSpec
INVARIANTS SameKeySameJob OutboxHonest
PROPERTIES CallsReturn FlushCompletes
\* A drained queue, and a request that is never answered, come to rest.
CHECK_DEADLOCK FALSE
