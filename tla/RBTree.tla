-------------------------------- MODULE RBTree --------------------------------
(***************************************************************************)
(* RBTree (RBTREE/rbtree.h), a red-black tree with parent pointers and one  *)
(* sentinel, leaf_, for every missing child.                                *)
(*                                                                         *)
(* insert and remove change the tree as a search tree does and then repair  *)
(* it by cases that call one another; each case is an action, at says       *)
(* which one is to run and cur is its argument n.  What the code writes     *)
(* twice, for left and for right, is here written once for a side.          *)
(***************************************************************************)
EXTENDS Integers, FiniteSets

CONSTANTS Node,   \* the nodes there is memory for
          Leaf,   \* &leaf_
          Null,   \* nullptr
          Key

ASSUME NodeAssumption == Leaf \notin Node /\ Null \notin Node \cup {Leaf} /\ Key \subseteq Int

VARIABLES tree,     \* the pointers: left, right, parent and root
          key, color,
          size,     \* size_
          alloc,    \* the nodes that exist
          at,       \* the case to run next, "idle" between two calls
          cur,      \* its argument
          doomed,   \* the node remove_case0 deletes when the cases are done
          call      \* the last call and its key (auxiliary)

vars == <<tree, key, color, size, alloc, at, cur, doomed, call>>

Side == {"left", "right"}
Other(side) == IF side = "left" THEN "right" ELSE "left"

Parent(n) == tree.parent[n]
Red(n) == color[n] = "red"
SideOf(t, n) == IF n = t.left[t.parent[n]] THEN "left" ELSE "right"
Sibling(n) == tree[Other(SideOf(tree, n))][Parent(n)]
Grandparent(n) == Parent(Parent(n))

(* *parentLink = m, where parentLink is the pointer to n. *)
Relinked(t, n, m) ==
    IF t.parent[n] = Null THEN [t EXCEPT !.root = m]
                          ELSE [t EXCEPT ![SideOf(t, n)][t.parent[n]] = m]

(* Mutant: the child that changes sides keeps its old parent. *)
RotatedForgets(t, n, side) ==
    LET m == t[Other(side)][n]
        inner == t[side][m]
    IN [Relinked(t, n, m) EXCEPT ![Other(side)][n] = inner,
                                 ![side][m] = n,
                                 !.parent = [t.parent EXCEPT ![n] = m, ![m] = t.parent[n]]]

(* rotate_left and rotate_right of n. *)
Rotated(t, n, side) ==
    LET m == t[Other(side)][n]
        inner == t[side][m]
    IN [Relinked(t, n, m) EXCEPT ![Other(side)][n] = inner,
                                 ![side][m] = n,
                                 !.parent = [t.parent EXCEPT
                                   ![n] = m, ![m] = t.parent[n],
                                   ![inner] = IF inner = Leaf THEN t.parent[Leaf] ELSE n]]

(* replace_node *)
Replaced(t, n, m) == [Relinked(t, n, m) EXCEPT !.parent[m] = t.parent[n]]

(* The first node on the way down from n whose key is k, or Leaf. *)
peek(n, k) ==
    LET Down[m \in alloc \cup {Leaf}] ==
          IF m = Leaf \/ (m # Leaf /\ key[m] = k) THEN m
          ELSE Down[IF k < key[m] THEN tree.left[m] ELSE tree.right[m]]
    IN Down[n]

(* The node at the end of the way from n to side. *)
Last(n, side) ==
    LET Down[m \in alloc] == IF tree[side][m] = Leaf THEN m ELSE Down[tree[side][m]]
    IN Down[n]

(* The node a new element with key k is hung under, and the side there. *)
InsertSide(n, k) == IF k >= key[n] THEN "right" ELSE "left"
InsertParent(k) ==
    LET Down[m \in alloc] == LET next == tree[InsertSide(m, k)][m]
                            IN IF next = Leaf THEN m ELSE Down[next]
    IN IF tree.root = Leaf THEN Null ELSE Down[tree.root]

Init ==
    /\ tree = [left   |-> [n \in Node \cup {Leaf} |-> Null],
               right  |-> [n \in Node \cup {Leaf} |-> Null],
               parent |-> [n \in Node \cup {Leaf} |-> Null],
               root   |-> Leaf]
    /\ key \in [Node -> Key]
    /\ \A m, n \in Node : key[m] = key[n]
    /\ color = [n \in Node \cup {Leaf} |-> "black"]
    /\ size = 0
    /\ alloc = {}
    /\ at = "idle"
    /\ cur = Null
    /\ doomed = Null
    /\ call = <<>>

Insert(k) ==
    /\ at = "idle"
    /\ LET n == CHOOSE m \in Node : m \notin alloc
           p == InsertParent(k)
           t == [tree EXCEPT !.left[n] = Leaf, !.right[n] = Leaf, !.parent[n] = p]
       IN /\ Node \ alloc # {}
          /\ tree' = IF p = Null THEN [t EXCEPT !.root = n]
                                 ELSE [t EXCEPT ![InsertSide(p, k)][p] = n]
          /\ key' = [key EXCEPT ![n] = k]
          /\ color' = [color EXCEPT ![n] = "red"]
          /\ alloc' = alloc \cup {n}
          /\ cur' = n
    /\ at' = "insert"
    /\ UNCHANGED <<size, doomed>>

Inserted ==
    /\ at' = "idle"
    /\ cur' = Null
    /\ size' = size + 1
    /\ UNCHANGED <<key, alloc, doomed>>

(* insert_case1 *)
InsertRoot ==
    /\ at = "insert"
    /\ Parent(cur) = Null
    /\ color' = [color EXCEPT ![cur] = "black"]
    /\ Inserted
    /\ UNCHANGED tree

(* insert_case2 *)
InsertUnderBlack ==
    /\ at = "insert"
    /\ Parent(cur) # Null
    /\ ~Red(Parent(cur))
    /\ Inserted
    /\ UNCHANGED <<tree, color>>

RedUncle(n) == Grandparent(n) # Null /\ Red(Sibling(Parent(n)))

(* Mutant: the grandparent stays black. *)
InsertRepaintBelow ==
    /\ at = "insert"
    /\ Parent(cur) # Null
    /\ Red(Parent(cur))
    /\ RedUncle(cur)
    /\ color' = [color EXCEPT ![Parent(cur)] = "black", ![Sibling(Parent(cur))] = "black"]
    /\ cur' = Grandparent(cur)
    /\ UNCHANGED <<tree, key, size, alloc, at, doomed>>

(* insert_case3, when it repaints. *)
InsertRepaint ==
    /\ at = "insert"
    /\ Parent(cur) # Null
    /\ Red(Parent(cur))
    /\ RedUncle(cur)
    /\ color' = [color EXCEPT ![Parent(cur)] = "black",
                              ![Sibling(Parent(cur))] = "black",
                              ![Grandparent(cur)] = "red"]
    /\ cur' = Grandparent(cur)
    /\ UNCHANGED <<tree, key, size, alloc, at, doomed>>

(* insert_case4 *)
InsertInner ==
    /\ at = "insert"
    /\ Parent(cur) # Null
    /\ Red(Parent(cur))
    /\ ~RedUncle(cur)
    /\ LET p == Parent(cur)
       IN IF SideOf(tree, cur) = SideOf(tree, p)
            THEN UNCHANGED <<tree, cur>>
            ELSE /\ tree' = Rotated(tree, p, SideOf(tree, p))
                 /\ cur' = p
    /\ at' = "insert_case5"
    /\ UNCHANGED <<key, color, size, alloc, doomed>>

(* insert_case5 *)
InsertOuter ==
    /\ at = "insert_case5"
    /\ color' = [color EXCEPT ![Parent(cur)] = "black", ![Grandparent(cur)] = "red"]
    /\ tree' = Rotated(tree, Grandparent(cur), Other(SideOf(tree, cur)))
    /\ Inserted

(* The node remove takes out for n, after copying its key to n. *)
Replacement(n) ==
    CASE tree.left[n] # Leaf -> Last(tree.left[n], "right")
      [] tree.left[n] = Leaf /\ tree.right[n] # Leaf -> Last(tree.right[n], "left")
      [] tree.left[n] = Leaf /\ tree.right[n] = Leaf -> n

(* Mutant: the node is not deleted. *)
RemovedLeaks(n) ==
    /\ at' = "idle"
    /\ cur' = Null
    /\ doomed' = Null
    /\ alloc' = alloc
    /\ size' = size - 1

(* remove_case0 returns and the node is deleted. *)
Removed(n) ==
    /\ at' = "idle"
    /\ cur' = Null
    /\ doomed' = Null
    /\ alloc' = alloc \ {n}
    /\ size' = size - 1

(* Mutant: the key of the node taken out is not kept. *)
RemoveNodeDropsKey(n) ==
    LET r == Replacement(n)
        child == IF tree.right[r] = Leaf THEN tree.left[r] ELSE tree.right[r]
    IN /\ tree' = Replaced(tree, r, child)
       /\ IF Red(r) \/ Red(child)
            THEN /\ color' = [color EXCEPT ![child] = "black"]
                 /\ Removed(r)
            ELSE /\ at' = "remove"
                 /\ cur' = child
                 /\ doomed' = r
                 /\ UNCHANGED <<color, alloc, size>>
       /\ UNCHANGED key

(* remove of the element found in n, and remove_case0. *)
RemoveNode(n) ==
    LET r == Replacement(n)
        child == IF tree.right[r] = Leaf THEN tree.left[r] ELSE tree.right[r]
    IN /\ key' = [key EXCEPT ![n] = key[r]]
       /\ tree' = Replaced(tree, r, child)
       /\ IF Red(r) \/ Red(child)
            THEN /\ color' = IF Red(r) THEN color ELSE [color EXCEPT ![child] = "black"]
                 /\ Removed(r)
            ELSE /\ at' = "remove"
                 /\ cur' = child
                 /\ doomed' = r
                 /\ UNCHANGED <<color, alloc, size>>

Remove(k) ==
    /\ at = "idle"
    /\ peek(tree.root, k) # Leaf
    /\ RemoveNode(peek(tree.root, k))

RemoveNothing(k) ==
    /\ at = "idle"
    /\ peek(tree.root, k) = Leaf
    /\ UNCHANGED <<tree, key, color, size, alloc, at, cur, doomed>>

(* remove_case1 *)
RemoveRoot ==
    /\ at = "remove"
    /\ Parent(cur) = Null
    /\ Removed(doomed)
    /\ UNCHANGED <<tree, key, color>>

(* remove_case2 *)
RemoveRedSibling ==
    /\ at = "remove"
    /\ Parent(cur) # Null
    /\ at' = "remove_case3"
    /\ IF Red(Sibling(cur))
         THEN /\ color' = [color EXCEPT ![Parent(cur)] = "red", ![Sibling(cur)] = "black"]
              /\ tree' = Rotated(tree, Parent(cur), SideOf(tree, cur))
         ELSE UNCHANGED <<tree, color>>
    /\ UNCHANGED <<key, size, alloc, cur, doomed>>

BlackNephews(n) == \A side \in Side : ~Red(tree[side][Sibling(n)])

(* remove_case3, when it repaints. *)
RemoveAllBlack ==
    /\ at = "remove_case3"
    /\ ~Red(Parent(cur)) /\ ~Red(Sibling(cur)) /\ BlackNephews(cur)
    /\ color' = [color EXCEPT ![Sibling(cur)] = "red"]
    /\ at' = "remove"
    /\ cur' = Parent(cur)
    /\ UNCHANGED <<tree, key, size, alloc, doomed>>

(* remove_case4, when it repaints. *)
RemoveRedParent ==
    /\ at = "remove_case3"
    /\ Red(Parent(cur)) /\ ~Red(Sibling(cur)) /\ BlackNephews(cur)
    /\ color' = [color EXCEPT ![Sibling(cur)] = "red", ![Parent(cur)] = "black"]
    /\ Removed(doomed)
    /\ UNCHANGED <<tree, key>>

(* remove_case5 *)
RemoveInner ==
    /\ at = "remove_case3"
    /\ Red(Sibling(cur)) \/ ~BlackNephews(cur)
    /\ LET s == Sibling(cur)
           near == tree[SideOf(tree, cur)][s]
           far == tree[Other(SideOf(tree, cur))][s]
       IN IF ~Red(s) /\ Red(near) /\ ~Red(far)
            THEN /\ color' = [color EXCEPT ![s] = "red", ![near] = "black"]
                 /\ tree' = Rotated(tree, s, Other(SideOf(tree, cur)))
            ELSE UNCHANGED <<tree, color>>
    /\ at' = "remove_case6"
    /\ UNCHANGED <<key, size, alloc, cur, doomed>>

(* remove_case6 *)
RemoveOuter ==
    /\ at = "remove_case6"
    /\ LET side == SideOf(tree, cur)
           s == Sibling(cur)
       IN /\ color' = [color EXCEPT ![s] = color[Parent(cur)],
                                    ![Parent(cur)] = "black",
                                    ![tree[Other(side)][s]] = "black"]
          /\ tree' = Rotated(tree, Parent(cur), side)
    /\ Removed(doomed)
    /\ UNCHANGED key

(* The nodes of the tree under n. *)
Under(n) ==
    LET Nodes[m \in alloc \cup {Leaf}] ==
          IF m = Leaf THEN {} ELSE {m} \cup Nodes[tree.left[m]] \cup Nodes[tree.right[m]]
    IN Nodes[n]
InTree == Under(tree.root)

clear ==
    /\ at = "idle"
    /\ alloc' = alloc \ InTree
    /\ tree' = [tree EXCEPT !.root = Leaf]
    /\ size' = 0
    /\ UNCHANGED <<key, color, at, cur, doomed>>

Repair == \/ InsertRoot \/ InsertUnderBlack \/ InsertRepaint \/ InsertInner \/ InsertOuter
          \/ RemoveRoot \/ RemoveRedSibling \/ RemoveAllBlack \/ RemoveRedParent
          \/ RemoveInner \/ RemoveOuter

Next == \/ \E k \in Key : Insert(k) /\ call' = <<"insert", k>>
        \/ \E k \in Key : Remove(k) /\ call' = <<"remove", k>>
        \/ \E k \in Key : RemoveNothing(k) /\ call' = <<"absent", k>>
        \/ clear /\ call' = <<"clear">>
        \/ Repair /\ UNCHANGED call

Spec == Init /\ [][Next]_vars
-----------------------------------------------------------------------------
(* Mutant: as insert hangs equal keys to the right, only those are counted. *)
count_Right(k) ==
    LET Count[m \in alloc \cup {Leaf}] ==
          LET n == peek(m, k) IN IF n = Leaf THEN 0 ELSE 1 + Count[tree.right[n]]
    IN Count[tree.root]

(* count_ *)
count(k) ==
    LET Count[m \in alloc \cup {Leaf}] ==
          LET n == peek(m, k)
          IN IF n = Leaf THEN 0 ELSE 1 + Count[tree.left[n]] + Count[tree.right[n]]
    IN Count[tree.root]

(* Between two calls the tree is red-black: no red node has a red child,    *)
(* and every way down from a node to a missing child meets as many black    *)
(* nodes; so no way down is twice as long as another.                       *)
BlackHeight ==
    LET Height[m \in alloc \cup {Leaf}] ==
          IF m = Leaf THEN 0
          ELSE LET l == Height[tree.left[m]]
                   r == Height[tree.right[m]]
               IN IF l = r /\ l >= 0 THEN l + (IF Red(m) THEN 0 ELSE 1) ELSE -1
    IN Height[tree.root]
RedBlack ==
    at = "idle" =>
      /\ ~Red(Leaf) /\ ~Red(tree.root)
      /\ \A n \in InTree : Red(n) => \A side \in Side : ~Red(tree[side][n])
      /\ BlackHeight >= 0

(* The pointers up are those down turned round, also while cases rotate,    *)
(* and leaf_.parent is the parent of the missing child a removal repairs.   *)
LinksMatch ==
    /\ tree.root # Leaf => Parent(tree.root) = Null
    /\ \A n \in InTree, side \in Side :
          tree[side][n] # Leaf => tree[side][n] \in Node /\ Parent(tree[side][n]) = n
    /\ at \in {"remove", "remove_case3", "remove_case6"} /\ cur = Leaf /\ Parent(Leaf) # Null
         => Leaf \in {tree[side][Parent(Leaf)] : side \in Side}

(* Between two calls size_ is the number of nodes, and no node that was     *)
(* taken out of the tree still exists.                                      *)
NothingLost == at = "idle" => alloc = InTree /\ size = Cardinality(InTree)

(* count finds every element with a key, wherever rotations have taken it,  *)
(* and peek finds one if there is one.                                      *)
Held == [k \in Key |-> Cardinality({n \in InTree : key[n] = k})]
CountFindsAll == at = "idle" => \A k \in Key : count(k) = Held[k]

(* The tree is a bag of keys: a call changes how many there are of its own   *)
(* key and of no other, remove finds one where there is one, and the cases  *)
(* that repair the tree change nothing.                                      *)
Bag == INSTANCE KeyBag WITH held <- Held
ImplementsBag == Bag!Spec
=============================================================================
