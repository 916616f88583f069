SPECIFICATION FairServiceSpec
CONSTANTS
  N = 4
  Clients = {c1, c2}
  Null = Null
  MaxCalls = 5
  MaxServices = 2
  Polite = TRUE
INVARIANTS WaitingIsQueued ServedOnce
PROPERTIES ImplementsCall CallsReturn
CHECK_DEADLOCK FALSE
