SPECIFICATION StepSpec
CONSTANTS
  Kinds = {"queue", "hash", "slist", "stack"}
  Cell = {c1, c2, c3, c4}
  Data = {d1, d2}
  Null = Null
  RemoveLast = FALSE
  Key = {k1, k2}
  Sizes = {1, 2, 3}
  Hashes = {0, 1, 3}
  Ranked = {10, 11, 20}
  Rank <- Tens
INVARIANTS ListIntact ElementsLinked
PROPERTIES ImplementsFifo HashImplementsStore SlistImplementsOrdered
SYMMETRY Symmetry
