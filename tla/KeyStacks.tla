------------------------------- MODULE KeyStacks -------------------------------
(***************************************************************************)
(* What bl_hashtable promises (the comments of BL_HASH/bl_hash.c): for each *)
(* key the data inserted with it, of which get, remove and modify take "the *)
(* first found".  That is the one inserted last, until a rehash, which      *)
(* turns their order round.                                                 *)
(***************************************************************************)
EXTENDS Sequences, SequencesExt

CONSTANTS Key, Data, Null

VARIABLES items,   \* the data of each key
          ret      \* what the last call returned

store == <<items, ret>>

Init == items = [k \in Key |-> <<>>] /\ ret = Null

Insert(k, d) == items' = [items EXCEPT ![k] = <<d>> \o @] /\ UNCHANGED ret

Get(k) == /\ ret' = IF items[k] = <<>> THEN Null ELSE Head(items[k])
          /\ UNCHANGED items

Take(k) == \/ items[k] = <<>> /\ ret' = Null /\ UNCHANGED items
           \/ /\ items[k] # <<>>
              /\ ret' = Head(items[k])
              /\ items' = [items EXCEPT ![k] = Tail(@)]

Modify(k, d) ==
    \/ items[k] = <<>> /\ items' = [items EXCEPT ![k] = <<d>>] /\ ret' = d
    \/ /\ items[k] # <<>>
       /\ ret' = Head(items[k])
       /\ items' = [items EXCEPT ![k] = <<d>> \o Tail(@)]

TurnRound == items' = [k \in Key |-> Reverse(items[k])] /\ UNCHANGED ret

Clear == items' = [k \in Key |-> <<>>] /\ UNCHANGED ret

Next == \/ \E k \in Key : Get(k) \/ Take(k)
        \/ \E k \in Key, d \in Data : Insert(k, d) \/ Modify(k, d)
        \/ TurnRound \/ Clear

Spec == Init /\ [][Next]_store
=============================================================================
