-------------------------------- MODULE BLHeap --------------------------------
(***************************************************************************)
(* bl_heap (BL_HEAP/bl_heap.c:66-318), the binary heap.                     *)
(***************************************************************************)
EXTENDS HeapOps

Init == New(2)

(* The last index with a child; with fewer than two elements it wraps.      *)
MaxSiftIndex == Wrap(heapSize - 2) \div 2
LChild == Wrap(2 * index + 1)
RChild == Wrap(2 * index + 2)

(* What one round of sift_down gives to cmp_func, and the child it picks.   *)
Reads == {index, LChild} \cup (IF RChild < heapSize THEN {RChild} ELSE {})

(* Mutant: the left child is always picked. *)
ChildLeft == LChild

Child == IF RChild < heapSize /\ Before(RChild, LChild) THEN RChild ELSE LChild

SiftDown ==
    /\ at \in {"pop", "heapify"}
    /\ index <= MaxSiftIndex
    /\ \A c \in Reads : Readable(c)
    /\ Before(Child, index)
    /\ arr' = Swapped(index, Child)
    /\ index' = Child
    /\ UNCHANGED <<heapSize, setup, at, todo, prio, ret, dirty>>

SiftDownEnds ==
    /\ at \in {"pop", "heapify"}
    /\ \/ index > MaxSiftIndex
       \/ /\ index <= MaxSiftIndex
          /\ \A c \in Reads : Readable(c)
          /\ ~Before(Child, index)
    /\ SiftedDown
    /\ UNCHANGED <<arr, heapSize, setup, prio, ret>>

SiftDownAstray ==
    /\ at \in {"pop", "heapify"}
    /\ index <= MaxSiftIndex
    /\ ReadsAstray(Reads)

Next == Operation \/ SiftDown \/ SiftDownEnds \/ SiftDownAstray

Spec == Init /\ [][Next]_vars
=============================================================================
