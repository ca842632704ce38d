SPECIFICATION FairSpec
CONSTANTS
  NumThreads = 3
  Size = 8
INVARIANTS TypeOK SegmentsDisjoint ExitOnlyWhenDone SomeoneIsAwake StackBounded
PROPERTIES WorkFinishes BlocksOnlyOnSleeper
\* the process may stop for good: it returns, fails, or sleeps for ever
CHECK_DEADLOCK FALSE
