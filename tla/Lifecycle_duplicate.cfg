CONSTANTS
  None = None
  Pids = {p1, p2, p3}
  Callers = {c1}
  MaxStops = 0
  MaxCrossings = 1
  MaxDeaths = 0
  MaxStrangers = 0
SPECIFICATION Spec
INVARIANTS OneDaemon
