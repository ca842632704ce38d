-------------------------------- MODULE KeyBag --------------------------------
(***************************************************************************)
(* What the trees promise: a bag of keys, to which insert adds one, from    *)
(* which remove takes one if, and only if, there is one, and which clear    *)
(* empties.                                                                 *)
(***************************************************************************)
EXTENDS Naturals

CONSTANT Key

VARIABLES held,   \* how many elements with each key there are
          call    \* the last call and its key

bag == <<held, call>>

Init == held = [k \in Key |-> 0] /\ call = <<>>

Insert(k) == held' = [held EXCEPT ![k] = @ + 1] /\ call' = <<"insert", k>>

Remove(k) == /\ held[k] > 0
             /\ held' = [held EXCEPT ![k] = @ - 1]
             /\ call' = <<"remove", k>>

RemoveNothing(k) == held[k] = 0 /\ call' = <<"absent", k>> /\ UNCHANGED held

Clear == held' = [k \in Key |-> 0] /\ call' = <<"clear">>

Next == (\E k \in Key : Insert(k) \/ Remove(k) \/ RemoveNothing(k)) \/ Clear

Spec == Init /\ [][Next]_bag
=============================================================================
