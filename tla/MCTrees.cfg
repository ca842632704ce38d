SPECIFICATION MCSpec
CONSTANTS
  Node = {1, 2, 3, 4, 5, 6, 7, 8, 9, 10, 11}
  Leaf = Leaf
  Null = Null
  Key = {1, 2, 3}
  High = {1, 2, 3}
  MaxIntervals = 5
  Kinds = {"rbtree", "intervaltree", "bstree", "prefixtree", "quadtree"}
  Elm = {1, 2, 3, 4, 5, 6, 7}
  MaxWords = 4
  MaxRegions = 3
VIEW Shape
INVARIANTS RedBlack LinksMatch TreesLoseNothing RangeQueriesFindAll
PROPERTIES TreesImplementBags PrefixImplementsSet QuadImplementsBag
