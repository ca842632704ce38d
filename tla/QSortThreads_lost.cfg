SPECIFICATION FairSpec
CONSTANTS
  NumThreads = 2
  Size = 4
PROPERTIES Returns
\* the process may stop for good: that is what the run shows
CHECK_DEADLOCK FALSE
