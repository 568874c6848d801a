CONSTANTS
  Repos = {r1, r2}
  NoRepo = NoRepo
  Concurrency = {1, 2}
  MaxUpdates = 1
  MaxJobs = 4
  Priority <- Priorities
  EnqueueAt <- Times
  GlobalMax = 2
  Limit = 2
  BaseDelay = 10
  MaxDelay = 20
  MaxLimits = 2
  TimeStep = 10
  MaxTime = 30
SPECIFICATION FairSpec
INVARIANTS TypeOK NextJobIsBest
PROPERTIES BackoffExtends DueJobsEnd
CHECK_DEADLOCK FALSE
