SPECIFICATION FairSpec
CONSTANTS
  Threads = {t1}
  Destroyers = {t1}
  Subs = {s1}
  Objects = {o1, o2}
  NoObj = NoObj
  MaxPid = 2
  PubCrash = TRUE
  SubCrash = {}
  GiveUp = TRUE
  OtherClosers = TRUE
INVARIANT ListedIsMapped
PROPERTIES DeadNodeIsNoticed DestroyedIsGivenUp WatchedIsServed
CHECK_DEADLOCK FALSE
