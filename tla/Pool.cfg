SPECIFICATION FairEventSpec
CONSTANTS
  Callers = {c1, c2}
  Users = {c1}
  Reserve = 1
  Capacity = 3
  MaxTasks = 3
  Calls <- CallsOfBoth
  Events = {1}
  MaxFired = 2
INVARIANT ReadyIsHandedOnce
PROPERTIES AcceptedIsRun DestroyReturns Implements
CHECK_DEADLOCK FALSE
