SPECIFICATION MCSpec
CONSTANTS
  Elem = {e1, e2}
  Null = Null
  Prio = {1, 2}
  SizeMax = 7
  Sizes = {0, 2}
  Rates = {3}
  ConstRates = {2}
  DNums = {2}
  Kinds = {"heap"}
INVARIANTS ReadsElements
