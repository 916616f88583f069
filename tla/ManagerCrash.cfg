SPECIFICATION Spec
CONSTANTS
  Threads = {t1, t2}
  Destroyers = {t1}
  Subs = {s1, s2}
  Objects = {o1, o2}
  NoObj = NoObj
  MaxPid = 2
  PubCrash = TRUE
  SubCrash = {s1, s2}
  GiveUp = FALSE
  OtherClosers = TRUE
SYMMETRY Sym
INVARIANTS RefCountExact RetainedIsLive MapsConsistent
CHECK_DEADLOCK FALSE
