SPECIFICATION FairSpec
CONSTANTS
  Visitors = {v1, v2}
  Acquainted = {v2}
  MaxInodes = 5
  MaxSegments = 5
INVARIANT EstablishedStays
 
CHECK_DEADLOCK FALSE
