CONSTANTS
  w1 = w1
  w2 = w2
  w3 = w3
  caller = caller
  Workers <- ThreeWorkers
  Caller <- caller
  QueuedJobs = 2
  MaxRounds = 2
  MaxParts = 3
SPECIFICATION FairSpec
INVARIANTS TypeOK JoinSafe ExactlyOnce Accounting NoLostWakeup
PROPERTIES RoundEnds DeleteEnds PoolSpec
CHECK_DEADLOCK FALSE
