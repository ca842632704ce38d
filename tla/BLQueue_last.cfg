SPECIFICATION Spec
CONSTANTS
  Cell = {c1, c2, c3}
  Data = {d1, d2}
  Null = Null
  RemoveLast = TRUE
PROPERTIES EnqueueKeepsList
\* the program ends where it reads through NULL
CHECK_DEADLOCK FALSE
