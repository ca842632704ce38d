--------------------------------- MODULE Fifo ---------------------------------
(***************************************************************************)
(* What bl_queue promises (the comments of BL_QUEUE/bl_queue.c): a sequence *)
(* of data, "FIFO", in which elements can also be removed and changed.      *)
(***************************************************************************)
EXTENDS Naturals, Sequences

CONSTANTS Data, Null

VARIABLES items,
          ret     \* what the last call returned

queue == <<items, ret>>

Init == items = <<>> /\ ret = Null

(* The first item that is d is the i-th. *)
FirstIs(i, d) == /\ i \in 1 .. Len(items)
                 /\ items[i] = d
                 /\ \A j \in 1 .. i - 1 : items[j] # d
Absent(d) == \A i \in 1 .. Len(items) : items[i] # d

Enqueue(d) == items' = Append(items, d) /\ UNCHANGED ret

Dequeue == \/ items = <<>> /\ ret' = Null /\ UNCHANGED items
           \/ items # <<>> /\ ret' = Head(items) /\ items' = Tail(items)

Remove(d) ==
    \/ Absent(d) /\ ret' = Null /\ UNCHANGED items
    \/ \E i \in 1 .. Len(items) :
         /\ FirstIs(i, d)
         /\ ret' = d
         /\ items' = [j \in 1 .. Len(items) - 1 |-> IF j < i THEN items[j] ELSE items[j + 1]]

Modify(d, e) ==
    \/ Absent(d) /\ ret' = e /\ items' = Append(items, e)
    \/ \E i \in 1 .. Len(items) :
         FirstIs(i, d) /\ ret' = d /\ items' = [items EXCEPT ![i] = e]

Clear == items' = <<>> /\ UNCHANGED ret

Next == \/ \E d \in Data : Enqueue(d) \/ Remove(d)
        \/ \E d, e \in Data : Modify(d, e)
        \/ Dequeue \/ Clear

Spec == Init /\ [][Next]_queue
=============================================================================
