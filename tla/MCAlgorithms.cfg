SPECIFICATION MCSpec
CONSTANTS
  Kinds = {"partition", "lone", "workers", "path", "sort"}
  SizeMax = 15
  Size = 6
  Value = {1, 2, 3}
  BL_SORT_MERGE_THRESHOLD = 2
  BL_SORT_QUICK_THRESHOLD = 2
  SortSize = 7
  Magnitudes = {0, 9, 10, 1215752191, 1410065408, 2147483647}
  LoneSize = 12
  Workers = 2
  WorkersSize = 5
  WorkersInputs <- FiveElements
  FieldX = 3
  FieldY = 3
  MinOpen = 1
  MaxOpen = 9
  FIND_OPTIMAL = TRUE
  None = None
INVARIANTS StaysInBounds PartitionEnds StacksLogarithmic SortsSort QuickPartitions UtilsAgree
  PathLeadsBack PathFoundIfReachable SortedApart KeepsElements SortedAtExit
PROPERTIES SettledStays AlgorithmsEnd
\* each algorithm ends
CHECK_DEADLOCK FALSE
