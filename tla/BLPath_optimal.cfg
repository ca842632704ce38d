SPECIFICATION PathSpec
CONSTANTS
  FieldX = 4
  FieldY = 3
  MinOpen = 5
  MaxOpen = 5
  FIND_OPTIMAL = TRUE
  None = None
INVARIANTS FindsOptimal
\* the search ends
CHECK_DEADLOCK FALSE
