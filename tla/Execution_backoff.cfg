CONSTANTS
  None = None
  Jobs = {j1}
  Repos = {r1}
  Sessions = {s1, s2}
  RepoOf <- OneRepo
  SessionRepo <- SessionsOfOneRepo
  MaxConcurrency <- OneAtATime
  GlobalMax = 1
  MaxRetries = 2
  MaxOvertaken = 0
  MaxAttempts = 2
  MaxTimeouts = 0
  MaxKills = 0
  MaxStops = 0
SPECIFICATION Spec
PROPERTIES ResetOnSuccess
