-------------------------------- MODULE MCTrees --------------------------------
(* The five trees for TLC: StepTrees with the trees of prefixes and of       *)
(* quadrants.                                                               *)
EXTENDS StepTrees

CONSTANTS MaxWords, MaxRegions

VARIABLES root, found,                    \* of the tree of prefixes
          nodes, stored, given            \* of the tree of quadrants

\* Words that begin alike, end in one another, or have nothing in common.
Word == LET digits == 1 .. 3
        IN { <<>>, <<2, 1, 1>> } \cup {<<c>> : c \in digits} \cup {<<1, c>> : c \in digits}
           \cup {<<1, b, c>> : b \in 1 .. 2, c \in digits}

Words == INSTANCE PrefixTree WITH ret <- found

\* A region deep in the second quadrant, one on the edge of the tree, one that
\* leaves it; the queries have their edges on and beside those and the middle,
\* and some lie beyond the tree.
Edges == {<<5, 5, 1, 1>>, <<3, 0, 1, 3>>, <<7, 10, 10, 7>>}
QueryEdges == LET edge == {0, 1, 3, 4, 5, 8, 9}
              IN {e \in edge \X edge \X edge \X edge :
                    e[1] <= e[2] /\ e[4] <= e[3] /\ (e[1] + e[2] + e[3] + e[4]) % 3 = 0}

Quads == INSTANCE Quadtree WITH Bounds <- <<0, 8, 0, 8>>, Data <- {1, 2}, ret <- given

words == <<root, found>>
quads == <<nodes, stored, given>>

MCInit == StepInit /\ Words!Init /\ Quads!Init

MCNext == \/ StepNext /\ UNCHANGED <<words, quads>>
          \/ kind = "prefixtree" /\ Words!Next /\ UNCHANGED <<itree, bst, kind, quads>>
          \/ kind = "quadtree" /\ Quads!Next /\ UNCHANGED <<itree, bst, kind, words>>

MCSpec == MCInit /\ [][MCNext]_<<itree, bst, kind, words, quads>>

(* The tree of prefixes is a set of words. *)
PrefixImplementsSet == Words!ImplementsSet

(* The tree of quadrants is a bag of regions with their data, of which a    *)
(* removal takes all that are asked for and a query that meets the bounds   *)
(* of the tree finds all within or across another region.  (What remove of  *)
(* a region returns is QuadRemoveCounts.)                                   *)
QuadImplementsBag == Quads!ImplementsBag /\ [](kind = "quadtree" => Quads!QueriesFindAll)

(* "removes all equivalent regions from the tree" and "returns the number   *)
(* of regions removed" (Quadtree.h:304-305).                                *)
QuadRemoveCounts == Quads!RemoveCounts

(* A state is told from another by the shape of its tree only: which node   *)
(* is where makes no difference to the program, and no step depends on the  *)
(* last call, which is written and never read.  Of the trees of prefixes    *)
(* and quadrants, which are values, the whole state counts.                 *)
Shape ==
    LET S[m \in Node \cup {Leaf}] ==
          IF m = Leaf THEN <<>>
          ELSE <<key[m], color[m],
                 IF kind = "rbtree" THEN <<>> ELSE <<high[m], max[m]>>,
                 at # "idle" /\ m = node,
                 doomed # Null /\ node = doomed /\ m = Parent(node),
                 m = cur, cur = Leaf /\ m = Parent(Leaf),
                 S[tree.left[m]], S[tree.right[m]]>>
        B[l \in BST!Live] ==
          IF links[l] = Null THEN <<>>
          ELSE <<data[links[l]], B[<<"left", links[l]>>], B[<<"right", links[l]>>]>>
    IN <<S[tree.root], kind, at, size, Cardinality(alloc), LinksMatch,
         B[BST!HeadLink], held, Cardinality(elms), words, quads>>
=============================================================================
