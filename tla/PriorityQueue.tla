----------------------------- MODULE PriorityQueue -----------------------------
(***************************************************************************)
(* What a heap promises (the comments of BL_HEAP/bl_heap.c): pop removes    *)
(* and returns an element no other one stands before, "the min/max element  *)
(* of the heap".  After foreach has changed the elements "the heap property *)
(* is not guaranteed to be maintained", and pop may return any of them,     *)
(* until heapify "ensures the given heap maintains the heap property".      *)
(***************************************************************************)
EXTENDS Integers

CONSTANTS Elem, Null, Prio

VARIABLES elems,   \* the elements in the queue
          prio,    \* where each element stands
          ret,     \* what the last pop returned
          sound    \* FALSE from a foreach to the next heapify

queue == <<elems, prio, ret, sound>>

Init == /\ elems = {}
        /\ prio \in [Elem -> Prio]
        /\ ret = Null
        /\ sound = TRUE

Insert(e, p) == /\ e \notin elems
                /\ elems' = elems \cup {e}
                /\ prio' = [prio EXCEPT ![e] = p]
                /\ UNCHANGED <<ret, sound>>

Take(e) == /\ e \in elems
           /\ sound => \A d \in elems : prio[d] <= prio[e]
           /\ ret' = e
           /\ elems' = elems \ {e}
           /\ UNCHANGED <<prio, sound>>

TakeNothing == elems = {} /\ ret' = Null /\ UNCHANGED <<elems, prio, sound>>

Change == /\ prio' \in [Elem -> Prio]
          /\ \A e \in Elem \ elems : prio'[e] = prio[e]
          /\ sound' = FALSE
          /\ UNCHANGED <<elems, ret>>

Restore == sound' = TRUE /\ UNCHANGED <<elems, prio, ret>>

Clear == elems' = {} /\ sound' = TRUE /\ UNCHANGED <<prio, ret>>

Next == \/ \E e \in Elem, p \in Prio : Insert(e, p)
        \/ \E e \in Elem : Take(e)
        \/ TakeNothing \/ Change \/ Restore \/ Clear

Spec == Init /\ [][Next]_queue
=============================================================================
