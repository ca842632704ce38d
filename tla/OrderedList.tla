------------------------------ MODULE OrderedList ------------------------------
(***************************************************************************)
(* What bl_slist promises by the names of its functions: a sequence whose   *)
(* first item is pushed and popped, into which an item is added where it    *)
(* keeps the order, and which can be put in order.  Items that compare      *)
(* equal may be different: an added item comes after its equals, and        *)
(* sorting keeps the order of equals.                                       *)
(***************************************************************************)
EXTENDS Integers, Sequences, SequencesExt, ListOps

CONSTANTS Data, Rank(_)

VARIABLES items,
          ret     \* the data the last call returned

list == <<items, ret>>

Init == items = <<>> /\ ret = <<>>

Equal(d) == {i \in 1 .. Len(items) : Rank(items[i]) = Rank(d)}
Greater(d) == {i \in 1 .. Len(items) : Rank(items[i]) > Rank(d)}

Push(d) == items' = <<d>> \o items /\ ret' = <<>>

AddSorted(d) ==
    /\ items' = InsertAt(items, Min(Greater(d) \cup {Len(items) + 1}), d)
    /\ ret' = <<>>

Pop == items # <<>> /\ items' = Tail(items) /\ ret' = <<Head(items)>>

Look(d) == /\ UNCHANGED items
           /\ ret' = IF Equal(d) = {} THEN <<>> ELSE <<items[Min(Equal(d))]>>

Del(d) == Equal(d) # {} /\ items' = RemoveAt(items, Min(Equal(d)))
                        /\ ret' = <<items[Min(Equal(d))]>>

DelMult(d) == /\ items' = Among(items, {x \in Data : Rank(x) # Rank(d)})
              /\ ret' = Among(items, {x \in Data : Rank(x) = Rank(d)})

Sort == /\ \E p \in {p \in [1 .. Len(items) -> 1 .. Len(items)] : IsInjective(p)} :
             /\ items' = [i \in 1 .. Len(items) |-> items[p[i]]]
             /\ \A i, j \in 1 .. Len(items) : i < j =>
                  \/ Rank(items'[i]) < Rank(items'[j])
                  \/ Rank(items'[i]) = Rank(items'[j]) /\ p[i] < p[j]
        /\ ret' = <<>>

Clear == items' = <<>> /\ ret' = <<>>

Next == \/ \E d \in Data : Push(d) \/ AddSorted(d) \/ Look(d) \/ Del(d) \/ DelMult(d)
        \/ Pop \/ Sort \/ Clear

Spec == Init /\ [][Next]_list
=============================================================================
