CONSTANTS
  None = None
  Jobs = {j1}
  HasChat = {j1}
  MaxWakeAttempts = 2
  MaxAsks = 1
  MaxCrashes = 2
  MaxLost = 1
SPECIFICATION FairSpec
INVARIANTS TypeOK ReportedWasTold FallbackPostsBounded WakesBounded
PROPERTIES GraceRespected KeepsPromise DeliverySettles
