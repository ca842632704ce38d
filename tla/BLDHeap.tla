-------------------------------- MODULE BLDHeap --------------------------------
(***************************************************************************)
(* bl_dheap (BL_HEAP/bl_heap.c:322-583), the heap with dNum children to a   *)
(* node.                                                                    *)
(***************************************************************************)
EXTENDS HeapOps

CONSTANT DNums   \* the numbers of children tried

(* Index arithmetic on the elements of a heap, index * dNum + dNum + 1 at    *)
(* the most, stays within size_t: for up to eight children that is so of    *)
(* any array of pointers that fits in memory, for more it is up to the       *)
(* caller.                                                                  *)
ASSUME DNumsAssumption == /\ DNums \subseteq Nat \ {0}
                          /\ \A d \in DNums : Cardinality(Elem) * d < SizeMax

(* bl_dheap_new makes no heap for dNum = 0. *)
DInit == \E d \in DNums : New(d)

FirstChild == Wrap(Wrap(index * dNum) + 1)
LastChild == Wrap(Wrap(index * dNum) + dNum)

(* Mutant: the last child of a node is left out. *)
ChildrenButLast == {c \in FirstChild .. LastChild - 1 : c < heapSize}

(* Mutant: the heap's end is not minded. *)
ChildrenPastEnd == FirstChild .. LastChild

Children == {c \in FirstChild .. LastChild : c < heapSize}

(* The first of the children no other one stands before. *)
MaxChild == CHOOSE c \in Children :
               \A d \in Children : IF d < c THEN Before(c, d) ELSE ~Before(d, c)

HasChild == index < heapSize /\ FirstChild <= heapSize - 1
DReads == {index} \cup Children

DSiftDown ==
    /\ at \in {"pop", "heapify"}
    /\ HasChild
    /\ \A c \in DReads : Readable(c)
    /\ Before(MaxChild, index)
    /\ arr' = Swapped(index, MaxChild)
    /\ index' = MaxChild
    /\ UNCHANGED <<heapSize, setup, at, todo, prio, ret, dirty>>

DSiftDownEnds ==
    /\ at \in {"pop", "heapify"}
    /\ \/ ~HasChild
       \/ HasChild /\ (\A c \in DReads : Readable(c)) /\ ~Before(MaxChild, index)
    /\ SiftedDown
    /\ UNCHANGED <<arr, heapSize, setup, prio, ret>>

DSiftDownAstray ==
    /\ at \in {"pop", "heapify"}
    /\ HasChild
    /\ ReadsAstray(DReads)

DNext == Operation \/ DSiftDown \/ DSiftDownEnds \/ DSiftDownAstray

DSpec == DInit /\ [][DNext]_vars
=============================================================================
