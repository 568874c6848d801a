CONSTANTS
  MaxLength = 3
  MaxDepth = 1
  Broken = {}
  MaxJobs = 5
  MaxResumes = 1
  MaxRewrites = 1
  MaxLate = 1
  MaxEnds = 1
  MaxErrors = 1
SPECIFICATION FairSpec
INVARIANTS TypeOK SuccessAccounted CopiesExplained DepthGuards
PROPERTIES KeepsPromise ChainSettles
CHECK_DEADLOCK FALSE
