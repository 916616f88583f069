SPECIFICATION FairSpec
CONSTANTS
  MaxRuns = 2
  MaxFd = 3
  MaxStrangers = 1
INVARIANTS UsesOwn CleanAfterShutdown
PROPERTIES ShutdownReturns TimeoutKills
CHECK_DEADLOCK FALSE
