\* Two independent jobs, two replicas of which one cannot run j3; one fault and
\* one lease that expires under its holder.
CONSTANTS
  j1 = j1
  j3 = j3
  w1 = w1
  w2 = w2
  NoJob = NoJob
  NoKey = NoKey
  Jobs = {j1, j3}
  Workers = {w1, w2}
  Key <- NoKeys
  TxCalls = {}
  Limit <- TwoAttempts
  Runnable <- RollingDeploy
  BatchSize = 2
  MaxRounds = 2
  MaxFaults = 1
  MaxSlow = 1
SPECIFICATION FairSpec
INVARIANTS RetriesRemain
PROPERTIES NoSteal FencedWrites ImplementsContract JobsSettle
\* The queue drains: when every job is settled nothing is left to do.
CHECK_DEADLOCK FALSE
