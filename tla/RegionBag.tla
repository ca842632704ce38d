------------------------------- MODULE RegionBag -------------------------------
(***************************************************************************)
(* What Quadtree promises (the comments of QUADTREE/Quadtree.h): regions    *)
(* with data, each as often as it was inserted; remove "removes all         *)
(* equivalent regions", with equivalent data or with any.                   *)
(***************************************************************************)
EXTENDS Integers, Functions

CONSTANTS Regions, Data

VARIABLES items,   \* how often each pair of a region and its data is there
          ret      \* what the last call returned

bag == <<items, ret>>

Init == items = [e \in Regions \X Data |-> 0] /\ ret = 0

Insert(r, d) == items' = [items EXCEPT ![<<r, d>>] = @ + 1] /\ ret' = 0

(* "returns the number of regions removed", of both removals. *)
RemoveData(r, d) == items' = [items EXCEPT ![<<r, d>>] = 0] /\ ret' = items[<<r, d>>]

Count(r) == SumFunctionOnSet(items, {r} \X Data)
Cleared(r) == items' = [e \in Regions \X Data |-> IF e[1] = r THEN 0 ELSE items[e]]

Remove(r) == Cleared(r) /\ ret' = Count(r)

DataNext == \E r \in Regions, d \in Data : Insert(r, d) \/ RemoveData(r, d)

Next == DataNext \/ \E r \in Regions : Remove(r)

Spec == Init /\ [][Next]_bag
-----------------------------------------------------------------------------
(* A weaker promise: remove of a region gives 1 when it has removed         *)
(* anything, however much, and may give it when there was nothing.          *)
RemoveFound(r) == Cleared(r) /\ ret' \in 0 .. 1 /\ (Count(r) > 0 => ret' = 1)

FoundNext == DataNext \/ \E r \in Regions : RemoveFound(r)

FoundSpec == Init /\ [][FoundNext]_bag
=============================================================================
