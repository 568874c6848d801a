CONSTANTS
  None = None
  Jobs = {j1}
  Repos = {r1}
  Sessions = {s1, s2}
  RepoOf <- OneRepo
  SessionRepo <- SessionsOfOneRepo
  MaxConcurrency <- OneAtATime
  GlobalMax = 1
  MaxRetries = 2
  MaxOvertaken = 1
  MaxAttempts = 2
  MaxTimeouts = 1
  MaxKills = 1
  MaxStops = 1
  HasChat = {j1}
  MaxAsks = 1
  MaxCrashes = 3
  MaxLost = 0
  MaxEvents = 2
SPECIFICATION FairSpec
INVARIANTS TypeOK RerunStartsClean OnlyOrphansOutlive
PROPERTIES OutcomeDelivered
