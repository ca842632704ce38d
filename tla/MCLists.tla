--------------------------------- MODULE MCLists ---------------------------------
(***************************************************************************)
(* StepLists for TLC.  Nothing tells one cell, key or datum from another    *)
(* but what is stored with it: the hash of each key is part of the state.   *)
(***************************************************************************)
EXTENDS StepLists, TLC

(* The data of the lists compare by their tens. *)
Tens(d) == d \div 10

Symmetry == Permutations(Cell) \cup Permutations(Key) \cup Permutations(Data)
=============================================================================
