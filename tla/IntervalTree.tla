----------------------------- MODULE IntervalTree -----------------------------
(***************************************************************************)
(* IntervalTree (INTERVALTREE/intervaltree.h): the red-black tree of RBTree *)
(* with intervals for keys, ordered by their low end (key is that end, high *)
(* the other), and in every node the greatest high end under it, max, by    *)
(* which intersect and within prune their search.  Every rotation and, once *)
(* the cases are done, insert and remove call updateMax.                    *)
(***************************************************************************)
EXTENDS RBTree

CONSTANTS High, MaxIntervals   \* the high ends; the bound on the intervals

ASSUME HighAssumption == High \subseteq Int /\ MaxIntervals \in Nat

VARIABLES high,   \* key.high
          max,
          node    \* the n of insert, the cur of remove: updateMax's argument

itree == <<vars, high, max, node>>

(* Mutant: only the left child is looked at. *)
GreatestLeft(t, hi, mx, n) ==
    IF t.left[n] = Leaf \/ mx[t.left[n]] <= hi[n] THEN hi[n] ELSE mx[t.left[n]]

(* What updateMax sets n->max to. *)
Greatest(t, hi, mx, n) ==
    LET below == {mx[m] : m \in {t.left[n], t.right[n]} \ {Leaf}} \cup {hi[n]}
    IN CHOOSE h \in below : \A g \in below : g <= h

(* updateMax(n): it climbs as long as a child's max was taken or the parent *)
(* has less.  A call is about a node n and the max there is so far, x.      *)
updateMax(t, hi, mx, n) ==
    LET Climb[c \in InTree' \X [Node -> High]] ==
          LET m == c[1]
              x == c[2]
              g == Greatest(t, hi, x, m)
              y == [x EXCEPT ![m] = g]
              p == t.parent[m]
          IN IF p # Null /\ (g > hi[m] \/ g > y[p]) THEN Climb[<<p, y>>] ELSE y
    IN IF n = Leaf THEN mx ELSE Climb[<<n, mx>>]

(* max after a rotation of n, if there was one. *)
AfterRotation(n) ==
    IF tree' = tree THEN max
    ELSE updateMax(tree', high, updateMax(tree', high, max, n), tree'.parent[n])

(* The call of updateMax that ends insert and remove.  remove may call it   *)
(* for the node it has just deleted; from what freed memory holds it goes   *)
(* on at the parent or ends.                                                *)
Finish(mx) ==
    IF at' # "idle" THEN max' = mx
    ELSE IF node' \in alloc' THEN max' = updateMax(tree', high', mx, node')
    ELSE \/ max' = mx
         \/ /\ tree'.parent[node'] # Null
            /\ max' = updateMax(tree', high', mx, tree'.parent[node'])

IInit == /\ Init
         /\ \E h \in High : high = [n \in Node |-> h] /\ max = high
         /\ node = Null

IInsert(k, h) ==
    /\ k <= h
    /\ Cardinality(alloc) < MaxIntervals
    /\ Insert(k)
    /\ node' = cur'
    /\ high' = [high EXCEPT ![node'] = h]
    /\ max' = [max EXCEPT ![node'] = h]

(* remove: peek gives the first node with the low end k or, with dataCmp,   *)
(* whichever of them has that data.                                         *)
IRemove(k) ==
    /\ at = "idle"
    /\ \E n \in InTree :
         /\ key[n] = k
         /\ RemoveNode(n)
         /\ node' = n
         /\ high' = [high EXCEPT ![n] = high[Replacement(n)]]
         /\ Finish(max)

(* No interval has the low end k.  That none of them has the data asked for *)
(* makes no step.                                                           *)
IRemoveNothing(k) == RemoveNothing(k) /\ UNCHANGED <<high, max, node>>

IClear == clear /\ UNCHANGED <<high, max, node>>

IInsertRepair ==
    /\ UNCHANGED <<high, node>>
    /\ \/ (InsertRoot \/ InsertUnderBlack \/ InsertRepaint) /\ Finish(max)
       \/ InsertInner /\ Finish(AfterRotation(Parent(cur)))
       \/ InsertOuter /\ Finish(AfterRotation(Grandparent(cur)))

IRemoveRepair ==
    /\ UNCHANGED <<high, node>>
    /\ \/ (RemoveRoot \/ RemoveAllBlack \/ RemoveRedParent) /\ Finish(max)
       \/ (RemoveRedSibling \/ RemoveOuter) /\ Finish(AfterRotation(Parent(cur)))
       \/ RemoveInner /\ Finish(AfterRotation(Sibling(cur)))

INext == \/ \E k \in Key, h \in High : IInsert(k, h) /\ call' = <<"insert", k>>
         \/ \E k \in Key : IRemove(k) /\ call' = <<"remove", k>>
         \/ \E k \in Key : IRemoveNothing(k) /\ call' = <<"absent", k>>
         \/ IClear /\ call' = <<"clear">>
         \/ (IInsertRepair \/ IRemoveRepair) /\ UNCHANGED call

ISpec == IInit /\ [][INext]_itree
-----------------------------------------------------------------------------
(* intersect_: the nodes it finds for the interval from l to h. *)
intersect(l, h) ==
    LET Find[m \in alloc \cup {Leaf}] ==
          IF m = Leaf THEN {}
          ELSE (IF l <= max[m] THEN Find[tree.left[m]] ELSE {})
               \cup (IF l <= high[m] /\ h >= key[m] THEN {m} ELSE {})
               \cup (IF h >= key[m] THEN Find[tree.right[m]] ELSE {})
    IN Find[tree.root]

(* within_ *)
within(l, h) ==
    LET Find[m \in alloc \cup {Leaf}] ==
          IF m = Leaf THEN {}
          ELSE (IF l <= max[m] /\ l <= key[m] THEN Find[tree.left[m]] ELSE {})
               \cup (IF l <= key[m] /\ h >= high[m] THEN {m} ELSE {})
               \cup (IF h >= key[m] THEN Find[tree.right[m]] ELSE {})
    IN Find[tree.root]

(* Between two calls intersect and within find every interval that meets,   *)
(* or lies in, the one asked for, though they prune by max and by the low   *)
(* ends, though rotations spread equal low ends over both sides, and        *)
(* whatever updateMax found in a deleted node.                              *)
QueriesFindAll ==
    at = "idle" =>
      \A l \in Key, h \in High : l <= h =>
        /\ intersect(l, h) = {n \in InTree : l <= high[n] /\ key[n] <= h}
        /\ within(l, h) = {n \in InTree : l <= key[n] /\ high[n] <= h}
=============================================================================
