SPECIFICATION MCSpec
CONSTANTS
  Elem = {e1, e2, e3, e4}
  Null = Null
  Prio = {1, 2, 3}
  SizeMax = 15
  Sizes = {0, 2}
  Rates = {2, 3}
  ConstRates = {0, 2}
  DNums = {3}
  Kinds = {"heap", "dheap"}
SYMMETRY Symmetry
INVARIANTS CountFits HeapOrder DHeapReadsElements
PROPERTIES ImplementsQueue
\* after a read astray the program's behaviour is undefined
CHECK_DEADLOCK FALSE
