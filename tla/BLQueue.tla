-------------------------------- MODULE BLQueue --------------------------------
(***************************************************************************)
(* bl_queue (BL_QUEUE/bl_queue.c), a linked list with a pointer to its      *)
(* first and its last element.                                              *)
(*                                                                         *)
(* The elements are cells of memory.  malloc gives any cell that is not     *)
(* used, one freed before among them, and a write through a pointer to a    *)
(* freed cell changes the cell.  chain is auxiliary: the cells from head    *)
(* on, which every walk of the code visits in this order (ListIntact).      *)
(***************************************************************************)
EXTENDS Naturals, Sequences

CONSTANTS Cell,        \* the memory
          Data,
          Null,
          RemoveLast   \* whether the last of several elements is ever removed

ASSUME QueueAssumption == Null \notin Cell \cup Data /\ RemoveLast \in BOOLEAN

VARIABLES next, data,   \* of each cell
          head, tail, size,
          used,         \* the cells malloc has given and free has not taken back
          ret,          \* what the last call returned
          chain

vars == <<next, data, head, tail, size, used, ret, chain>>

Init ==
    /\ next = [c \in Cell |-> Null]
    /\ data \in [Cell -> Data]
    /\ head = Null
    /\ tail = Null
    /\ size = 0
    /\ used = {}
    /\ ret = Null
    /\ chain = <<>>

(* bl_queue_enqueue, its element in the cell c.  If tail is a freed cell    *)
(* the walk from head does not come to the new element.                     *)
Enqueued(c, d) ==
    /\ data' = [data EXCEPT ![c] = d]
    /\ next' = IF size = 0 THEN [next EXCEPT ![c] = Null]
                           ELSE [next EXCEPT ![c] = Null, ![tail] = c]
    /\ head' = IF size = 0 THEN c ELSE head
    /\ tail' = c
    /\ size' = size + 1
    /\ used' = used \cup {c}
    /\ chain' = IF size = 0 THEN <<c>>
                ELSE IF chain # <<>> /\ tail = chain[Len(chain)] THEN Append(chain, c)
                ELSE chain

Enqueue(d) ==
    /\ \E c \in Cell \ used : Enqueued(c, d)
    /\ UNCHANGED ret

DequeueNothing ==
    /\ size = 0
    /\ ret' = Null
    /\ UNCHANGED <<next, data, head, tail, size, used, chain>>

(* With a head that is NULL the program would end here. *)
Dequeue ==
    /\ size > 0
    /\ head # Null
    /\ ret' = data[head]
    /\ head' = next[head]
    /\ size' = size - 1
    /\ used' = used \ {head}
    /\ chain' = Tail(chain)
    /\ UNCHANGED <<next, data, tail>>

(* Mutant: the search goes on past a match. *)
FirstIsAny(i, d) == data[chain[i]] = d

(* The first element whose data is d is the i-th. *)
FirstIs(i, d) == /\ data[chain[i]] = d
                 /\ \A j \in 1 .. i - 1 : data[chain[j]] # d
Absent(d) == \A i \in 1 .. Len(chain) : data[chain[i]] # d

RemoveNothing(d) ==
    /\ Absent(d)
    /\ ret' = Null
    /\ UNCHANGED <<next, data, head, tail, size, used, chain>>

(* Mutant: the element before it keeps pointing to it. *)
UnlinkedNot(i) ==
    /\ head' = IF i = 1 THEN next[chain[1]] ELSE head
    /\ next' = next
    /\ size' = size - 1
    /\ used' = used \ {chain[i]}
    /\ chain' = [j \in 1 .. Len(chain) - 1 |-> IF j < i THEN chain[j] ELSE chain[j + 1]]

(* Element i is taken out of the list and freed; tail is left alone. *)
Unlink(i) ==
    /\ head' = IF i = 1 THEN next[chain[1]] ELSE head
    /\ next' = IF i = 1 THEN next
                        ELSE [next EXCEPT ![chain[i - 1]] = next[chain[i]]]
    /\ size' = size - 1
    /\ used' = used \ {chain[i]}
    /\ chain' = [j \in 1 .. Len(chain) - 1 |-> IF j < i THEN chain[j] ELSE chain[j + 1]]

RemoveFound(d) ==
    /\ \E i \in 1 .. Len(chain) :
         /\ FirstIs(i, d)
         /\ RemoveLast \/ i < Len(chain) \/ i = 1
         /\ Unlink(i)
    /\ ret' = d
    /\ UNCHANGED <<data, tail>>

Modify(d, e) ==
    \/ /\ Absent(d)
       /\ ret' = e
       /\ \E c \in Cell \ used : Enqueued(c, e)
    \/ /\ ret' = d
       /\ \E i \in 1 .. Len(chain) :
            FirstIs(i, d) /\ data' = [data EXCEPT ![chain[i]] = e]
       /\ UNCHANGED <<next, head, tail, size, used, chain>>

(* bl_queue_foreach_remove *)
ForeachRemove ==
    /\ used' = used \ {chain[i] : i \in 1 .. Len(chain)}
    /\ head' = Null
    /\ tail' = Null
    /\ size' = 0
    /\ chain' = <<>>
    /\ UNCHANGED <<next, data, ret>>

Next == \/ \E d \in Data : Enqueue(d) \/ RemoveNothing(d) \/ RemoveFound(d)
        \/ \E d, e \in Data : Modify(d, e)
        \/ DequeueNothing \/ Dequeue \/ ForeachRemove

Spec == Init /\ [][Next]_vars
-----------------------------------------------------------------------------
TypeOK ==
    /\ next \in [Cell -> Cell \cup {Null}]
    /\ data \in [Cell -> Data]
    /\ head \in Cell \cup {Null}
    /\ tail \in Cell \cup {Null}
    /\ size \in Nat
    /\ used \subseteq Cell
    /\ ret \in Data \cup {Null}
    /\ chain \in Seq(Cell)

(* The list is whole: the pointers lead from head through chain to NULL,    *)
(* size counts it, tail is its last element when there is one, and the      *)
(* cells in use are those of the list, each in it once: nothing is leaked   *)
(* and no freed cell is in it.                                              *)
Linked == /\ head = IF chain = <<>> THEN Null ELSE chain[1]
          /\ \A i \in 1 .. Len(chain) :
               next[chain[i]] = IF i < Len(chain) THEN chain[i + 1] ELSE Null
Once == \A i, j \in 1 .. Len(chain) : chain[i] = chain[j] => i = j
ListIntact == /\ Linked
              /\ size = Len(chain)
              /\ size > 0 => tail = chain[Len(chain)]
              /\ used = {chain[i] : i \in 1 .. Len(chain)}
              /\ Once

(* bl_queue_enqueue "adds the given data to the queue": where size grows    *)
(* the list grows.                                                          *)
EnqueueKeepsList == [][size' = size + 1 => Len(chain') = Len(chain) + 1]_vars

(* The queue is first in, first out. *)
Contents == [i \in 1 .. Len(chain) |-> data[chain[i]]]
Queue == INSTANCE Fifo WITH items <- Contents
ImplementsFifo == Queue!Spec
=============================================================================
