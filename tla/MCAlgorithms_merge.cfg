SPECIFICATION MCSpec
CONSTANTS
  Kinds = {"sort"}
  SizeMax = 15
  Size = 6
  Value = {1}
  BL_SORT_MERGE_THRESHOLD = 24
  BL_SORT_QUICK_THRESHOLD = 16
  SortSize = 25
  Magnitudes = {}
  LoneSize = 12
  Workers = 2
  WorkersSize = 5
  WorkersInputs = {}
  FieldX = 3
  FieldY = 3
  MinOpen = 1
  MaxOpen = 9
  FIND_OPTIMAL = TRUE
  None = None
\* the sorts are applied to the initial states, which have no steps
CHECK_DEADLOCK FALSE
INVARIANTS BufferFits
