SPECIFICATION MCFairSpec
CONSTANTS
  NumThreads = 2
  Size = 5
  Value = {0, 1, 2, 3, 4}
  SizeMax = 15
INVARIANTS NoDataRace OrderOutsideMutex
PROPERTIES ImplementsThreadQSort WorkFinishes
\* the process may stop for good: it returns, fails, or sleeps for ever
CHECK_DEADLOCK FALSE
