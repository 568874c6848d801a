CONSTANTS
  None = None
  Jobs = {j1}
  HasChat = {j1}
  MaxWakeAttempts = 1
  MaxAsks = 0
  MaxCrashes = 0
  MaxLost = 0
SPECIFICATION Spec
INVARIANTS AtMostOnceTold
