CONSTANTS
  None = None
  Pids = {p1, p2, p3}
  Callers = {c1, c2}
  MaxStops = 1
  MaxCrossings = 1
  MaxDeaths = 2
  MaxStrangers = 1
SPECIFICATION FairSpec
INVARIANTS TypeOK DaemonsExplained HiddenExplained
PROPERTIES ServiceComesBack
