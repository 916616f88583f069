SPECIFICATION FairSpec
CONSTANTS
  Readers = {r1, r2}
  Writer = w
  Temp = temp
  Slot = slot
  Objects = {o1, o2}
  MaxWrites = 2
INVARIANTS CountIsExact SafeUse PairedRead
PROPERTIES OperationsReturn Implements
CHECK_DEADLOCK FALSE
