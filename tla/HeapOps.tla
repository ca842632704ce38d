-------------------------------- MODULE HeapOps --------------------------------
(***************************************************************************)
(* What bl_heap and bl_dheap (BL_HEAP/bl_heap.c) have in common: their      *)
(* array of pointers, its growth, and every operation but the sifting down, *)
(* which BLHeap and BLDHeap add.  bl_heap.c writes each operation twice;    *)
(* with two children to a node, dNum = 2, they are the same.                *)
(*                                                                         *)
(* The heap holds pointers to elements of its caller, compared by cmp_func: *)
(* an element is a member of Elem, its place in the order a number, prio.   *)
(* One round of a sifting loop is a step, and no other operation begins     *)
(* before the loop has ended (the operations are not meant for concurrent   *)
(* use).                                                                    *)
(***************************************************************************)
EXTENDS Integers, FiniteSets

CONSTANTS Elem,       \* the caller's elements
          Null,       \* NULL, or a cell of the array never written
          Prio,       \* their places in the order of cmp_func
          SizeMax,    \* the largest size_t
          Sizes,      \* sizes given to bl_heap_new and bl_heap_trimToSize
          Rates,      \* growth rates tried, in halves: 3 is the initial 1.5
          ConstRates  \* constant growth rates tried

(* Every element has an address of its own. *)
ASSUME HeapAssumption ==
    /\ Null \notin Elem
    /\ IsFiniteSet(Elem) /\ Cardinality(Elem) <= SizeMax
    /\ Prio \subseteq Int
    /\ SizeMax \in Nat /\ SizeMax % 2 = 1
    /\ Sizes \subseteq Nat /\ ConstRates \subseteq Nat /\ Rates \subseteq Nat

VARIABLES arr,         \* the array
          heapSize,    \* how many of its cells hold the heap
          arraySize,   \* how many cells it has
          rate,        \* growthRate, in halves
          constRate,   \* constGrowthRate
          dNum,        \* children of a node
          at,          \* the operation going on
          index,       \* the index its sifting has come to
          todo,        \* heapify: the index this sifting began at
          prio,        \* where each element stands in the order
          ret,         \* what the last pop returned
          dirty        \* foreach has changed elements since (auxiliary)

setup == <<arraySize, rate, constRate, dNum>>
vars == <<arr, heapSize, arraySize, rate, constRate, dNum, at, index, todo, prio, ret, dirty>>

Wrap(x) == x % (SizeMax + 1)
Parent(c) == (c - 1) \div dNum
Cells == 0 .. heapSize - 1
Contents == {arr[c] : c \in Cells}
Swapped(i, j) == [arr EXCEPT ![i] = arr[j], ![j] = arr[i]]
Before(i, j) == prio[arr[i]] > prio[arr[j]]

(* realloc to n cells: those that fit keep what they hold. *)
Resized(a, n) == [c \in 0 .. n - 1 |-> IF c \in DOMAIN a THEN a[c] ELSE Null]

(* bl_heap_new, bl_dheap_new *)
New(d) ==
    /\ dNum = d
    /\ arraySize \in Sizes
    /\ arr = [c \in 0 .. arraySize - 1 |-> Null]
    /\ heapSize = 0
    /\ rate = 3
    /\ constRate = 0
    /\ at = "idle"
    /\ index = 0
    /\ todo = 0
    /\ prio \in [Elem -> Prio]
    /\ ret = Null
    /\ dirty = FALSE

SetGrowthRate(r) ==
    /\ at = "idle"
    /\ r > 2
    /\ rate' = r
    /\ constRate' = 0
    /\ UNCHANGED <<arr, heapSize, arraySize, dNum, at, index, todo, prio, ret, dirty>>

SetConstGrowthRate(r) ==
    /\ at = "idle"
    /\ r # 0
    /\ constRate' = r
    /\ UNCHANGED <<arr, heapSize, arraySize, rate, dNum, at, index, todo, prio, ret, dirty>>

(* Mutant: the array is cut below the heap. *)
TrimToSizeCuts(size) ==
    /\ at = "idle"
    /\ arraySize' = size
    /\ arr' = Resized(arr, arraySize')
    /\ UNCHANGED <<heapSize, rate, constRate, dNum, at, index, todo, prio, ret, dirty>>

TrimToSize(size) ==
    /\ at = "idle"
    /\ arraySize' = IF heapSize > size THEN heapSize ELSE size
    /\ arr' = Resized(arr, arraySize')
    /\ UNCHANGED <<heapSize, rate, constRate, dNum, at, index, todo, prio, ret, dirty>>

(* The size of the array when a push needs a cell. *)
Grown == CASE heapSize + 1 <= arraySize -> arraySize
           [] heapSize + 1 > arraySize /\ constRate # 0 -> arraySize + constRate
           [] heapSize + 1 > arraySize /\ constRate = 0 -> (arraySize * rate) \div 2 + 1

(* e points to an element that is not in the heap and stands at p. *)
Push(e, p) ==
    /\ at = "idle"
    /\ e \notin Contents
    /\ arraySize' = Grown
    /\ arr' = [Resized(arr, arraySize') EXCEPT ![heapSize] = e]
    /\ heapSize' = heapSize + 1
    /\ prio' = [prio EXCEPT ![e] = p]
    /\ at' = "push"
    /\ index' = heapSize
    /\ UNCHANGED <<rate, constRate, dNum, todo, ret, dirty>>

(* Mutant: an element moves up past one it is equal to or after. *)
SiftUpPast ==
    /\ at = "push"
    /\ IF index # 0
         THEN /\ arr' = Swapped(index, Parent(index))
              /\ index' = Parent(index)
              /\ at' = at
         ELSE at' = "idle" /\ index' = 0 /\ arr' = arr
    /\ UNCHANGED <<heapSize, setup, todo, prio, ret, dirty>>

(* One round of sift_up. *)
SiftUp ==
    /\ at = "push"
    /\ IF index # 0 /\ Before(index, Parent(index))
         THEN /\ arr' = Swapped(index, Parent(index))
              /\ index' = Parent(index)
              /\ at' = at
         ELSE at' = "idle" /\ index' = 0 /\ arr' = arr
    /\ UNCHANGED <<heapSize, setup, todo, prio, ret, dirty>>

Pop ==
    /\ at = "idle"
    /\ heapSize > 0
    /\ ret' = arr[0]
    /\ arr' = [arr EXCEPT ![0] = arr[heapSize - 1]]
    /\ heapSize' = heapSize - 1
    /\ at' = "pop"
    /\ UNCHANGED <<setup, index, todo, prio, dirty>>

PopNothing ==
    /\ at = "idle"
    /\ heapSize = 0
    /\ ret' = Null
    /\ UNCHANGED <<arr, heapSize, setup, at, index, todo, prio, dirty>>

(* foreach, with a function that changes where elements stand. *)
Foreach ==
    /\ at = "idle"
    /\ prio' \in [Elem -> Prio]
    /\ \A e \in Elem \ Contents : prio'[e] = prio[e]
    /\ dirty' = TRUE
    /\ UNCHANGED <<arr, heapSize, setup, at, index, todo, ret>>

(* foreach_remove; its function may free the elements. *)
ForeachRemove ==
    /\ at = "idle"
    /\ heapSize' = 0
    /\ dirty' = FALSE
    /\ UNCHANGED <<arr, setup, at, index, todo, prio, ret>>

(* heapify begins its first sifting; its counter i ends with the sifting    *)
(* from 0 that follows the loop.                                            *)
Heapify ==
    /\ at = "idle"
    /\ at' = "heapify"
    /\ todo' = Wrap(heapSize - 2) \div dNum
    /\ index' = todo'
    /\ UNCHANGED <<arr, heapSize, setup, prio, ret, dirty>>

(* The sifting down has ended: that of pop, the last one of heapify, or one *)
(* after which heapify begins the next.                                     *)
SiftedDown ==
    \/ /\ at = "pop" \/ (at = "heapify" /\ todo = 0)
       /\ at' = "idle"
       /\ index' = 0
       /\ dirty' = (dirty /\ at = "pop")
       /\ UNCHANGED todo
    \/ /\ at = "heapify" /\ todo > 0
       /\ todo' = todo - 1
       /\ index' = todo'
       /\ UNCHANGED <<at, dirty>>

(* The elements that exist for certain: a pointer to any other may be to an *)
(* element the caller has freed.                                            *)
Alive == Contents \cup (IF at = "pop" THEN {ret} ELSE {})
Readable(c) == c \in DOMAIN arr /\ arr[c] \in Alive

(* cmp_func is called with what is no element: whatever follows is not the  *)
(* program's doing any more.                                                *)
ReadsAstray(reads) ==
    /\ \E c \in reads : ~Readable(c)
    /\ at' = "astray"
    /\ UNCHANGED <<arr, heapSize, setup, index, todo, prio, ret, dirty>>

Operation ==
    \/ \E r \in Rates : SetGrowthRate(r)
    \/ \E r \in ConstRates : SetConstGrowthRate(r)
    \/ \E n \in Sizes : TrimToSize(n)
    \/ \E e \in Elem, p \in Prio : Push(e, p)
    \/ SiftUp \/ Pop \/ PopNothing \/ Foreach \/ ForeachRemove \/ Heapify
-----------------------------------------------------------------------------
(* The heap is inside its array, whatever was pushed, trimmed and grown.    *)
CountFits == heapSize <= arraySize /\ \A c \in Cells : arr[c] \in Elem

(* Between two operations no element stands before its parent, unless       *)
(* foreach has changed elements and heapify has not been called since.      *)
Ordered == \A c \in Cells \ {0} : ~Before(c, Parent(c))
HeapOrder == at = "idle" /\ ~dirty => Ordered

(* cmp_func is only ever given elements of the heap.                        *)
ReadsElements == at # "astray"

(* The promise of a heap: see PriorityQueue.                                *)
Queue == INSTANCE PriorityQueue WITH elems <- Contents, sound <- ~dirty
ImplementsQueue == Queue!Spec
=============================================================================
