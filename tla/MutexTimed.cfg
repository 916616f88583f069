SPECIFICATION FairSpec
CONSTANTS
  Procs = {p1, p2, p3}
  Owner = p1
  NoProc = NoProc
  Client <- AnyForm
  MayCrash = {p1}
PROPERTIES FailStop EventuallyReleased
CHECK_DEADLOCK FALSE
