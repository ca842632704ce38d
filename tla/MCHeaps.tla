-------------------------------- MODULE MCHeaps --------------------------------
(* The two heaps of bl_heap.c for TLC.  Four elements give a binary heap of *)
(* three levels, and a ternary one with a full node.                        *)
EXTENDS BLHeap, BLDHeap, TLC

CONSTANT Kinds

VARIABLE kind   \* which heap it is

MCInit == /\ kind \in Kinds
          /\ kind = "heap" => Init
          /\ kind = "dheap" => DInit
          /\ \A d, e \in Elem : prio[d] = prio[e]

MCNext == /\ \/ kind = "heap" /\ Next
             \/ kind = "dheap" /\ DNext
          /\ UNCHANGED kind

MCSpec == MCInit /\ [][MCNext]_<<vars, kind>>

(* The d-ary heap compares elements of the heap only, which the binary heap *)
(* does not (ReadsElements): dsift_down tests the count before it looks for  *)
(* a child.                                                                 *)
DHeapReadsElements == kind = "dheap" => ReadsElements

(* The elements are alike until they are pushed. *)
Symmetry == Permutations(Elem)
=============================================================================
