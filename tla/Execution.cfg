CONSTANTS
  None = None
  Jobs = {j1, j2}
  Repos = {r1}
  Sessions = {s1, s2}
  RepoOf <- OneRepo
  SessionRepo <- SessionsOfOneRepo
  MaxConcurrency <- TwoAtATime
  GlobalMax = 1
  MaxRetries = 2
  MaxAttempts = 2
  MaxOvertaken = 1
  MaxTimeouts = 1
  MaxKills = 1
  MaxStops = 1
SYMMETRY Symmetry
CONSTRAINT RareEvents
SPECIFICATION Spec
INVARIANTS TypeOK ConcurrencyBound BackoffRecorded WorkersWithinLimit EndedJobHasNoWorker
