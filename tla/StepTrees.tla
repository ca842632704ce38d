------------------------------- MODULE StepTrees -------------------------------
(***************************************************************************)
(* The trees of keys.  A behaviour is about one of them, its kind; the      *)
(* variables of the others keep their initial values.                       *)
(***************************************************************************)
EXTENDS IntervalTree

CONSTANTS Kinds, Elm

ASSUME ElmAssumption == Null \notin Elm

VARIABLES kind,                           \* which tree it is
          links, data, elms, held, last   \* of the tree without balancing

BST == INSTANCE BSTree WITH size <- held, alloc <- elms, call <- last

bst == <<links, data, held, elms, last>>

StepInit == kind \in Kinds /\ IInit /\ BST!Init

StepNext == /\ \/ kind = "rbtree" /\ Next /\ UNCHANGED <<high, max, node, bst>>
               \/ kind = "intervaltree" /\ INext /\ UNCHANGED bst
               \/ kind = "bstree" /\ BST!Next /\ UNCHANGED itree
            /\ UNCHANGED kind

StepSpec == StepInit /\ [][StepNext]_<<itree, bst, kind>>
-----------------------------------------------------------------------------
(* No tree loses, leaks or miscounts an element. *)
TreesLoseNothing == NothingLost /\ BST!NothingLost

(* Every query finds what there is, wherever rotations have taken it: count  *)
(* the elements of its key, on both sides of one another if it must, within *)
(* and intersect the intervals within and across another.                   *)
RangeQueriesFindAll == CountFindsAll /\ (kind = "intervaltree" => QueriesFindAll)

(* Both trees of keys, the balanced and the plain, are bags of keys. *)
TreesImplementBags == ImplementsBag /\ BST!ImplementsBag
=============================================================================
