SPECIFICATION Spec
CONSTANTS
  Procs = {p1, p2, p3}
  Owner = p1
  NoProc = NoProc
  Client <- AreaAndPtr
  MayCrash = {p1, p2, p3}
INVARIANTS MutualExclusion HolderHonest AbortOnlyAfterDeath
CHECK_DEADLOCK FALSE
