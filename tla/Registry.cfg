CONSTANTS
  Procs = {p1, p2}
  Names = {"app", "web", "svc"}
  NoAlias = "none"
  Entries <- Registrations
  Concurrency = {2}
  MaxCommands = 4
SPECIFICATION Spec
INVARIANTS TypeOK NameReachesRepo ExportTrusted
PROPERTIES ResolutionStable UpdateHitsResolved
CHECK_DEADLOCK FALSE
