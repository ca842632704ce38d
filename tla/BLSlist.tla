--------------------------------- MODULE BLSlist ---------------------------------
(***************************************************************************)
(* bl_slist (BL_SLIST/bl_slist.c), a singly linked list with a pointer to   *)
(* its first element.  cmp_func looks at the Rank of the data only.         *)
(*                                                                         *)
(* elms has a record for each cell malloc has given and free has not taken  *)
(* back, so that a step that would use a freed element has no meaning.  pop *)
(* and the deletions end the program on an empty list.                      *)
(***************************************************************************)
EXTENDS Integers, FiniteSets, Sequences, SequencesExt, ListOps

CONSTANTS Cell,    \* the memory
          Data, Rank(_),
          Null

VARIABLES elms,    \* data and next of the elements
          head, size,
          ret      \* the data the last call returned, none for NULL

vars == <<elms, head, size, ret>>

Init ==
    /\ elms = [c \in {} |-> Null]
    /\ head = Null
    /\ size = 0
    /\ ret = <<>>

Chain == Walk(elms, head, Null)
Matches(d) == {i \in 1 .. Len(Chain) : Rank(elms[Chain[i]].data) = Rank(d)}

With(es, c, d, n) == [e \in DOMAIN es \cup {c} |-> IF e = c THEN [data |-> d, next |-> n] ELSE es[e]]
Without(es, c) == Restrict(es, DOMAIN es \ {c})

(* Mutant: an element is added before those it is equal to. *)
InsertedEarly(es, first, c) ==
    LET chain == Walk(es, first, Null)
        Before(i) == i = Len(chain) \/ Rank(es[c].data) <= Rank(es[chain[i + 1]].data)
        prev == chain[Min({i \in 1 .. Len(chain) : Before(i)})]
    IN IF first = Null \/ Rank(es[c].data) < Rank(es[first].data)
         THEN <<[es EXCEPT ![c].next = first], c>>
         ELSE <<[es EXCEPT ![c].next = es[prev].next, ![prev].next = c], first>>

(* The element c into the list that begins with first, before the first     *)
(* element that is greater: the elements, and the first one.                *)
Inserted(es, first, c) ==
    LET chain == Walk(es, first, Null)
        Before(i) == i = Len(chain) \/ Rank(es[c].data) < Rank(es[chain[i + 1]].data)
        prev == chain[Min({i \in 1 .. Len(chain) : Before(i)})]
    IN IF first = Null \/ Rank(es[c].data) < Rank(es[first].data)
         THEN <<[es EXCEPT ![c].next = first], c>>
         ELSE <<[es EXCEPT ![c].next = es[prev].next, ![prev].next = c], first>>

Push(d) ==
    \E c \in Cell \ DOMAIN elms :
       /\ elms' = With(elms, c, d, head)
       /\ head' = c
       /\ size' = size + 1
       /\ ret' = <<>>

AddSorted(d) ==
    \E c \in Cell \ DOMAIN elms :
       /\ LET l == Inserted(With(elms, c, d, Null), head, c)
          IN elms' = l[1] /\ head' = l[2]
       /\ size' = size + 1
       /\ ret' = <<>>

Pop ==
    /\ head # Null
    /\ ret' = <<elms[head].data>>
    /\ head' = elms[head].next
    /\ elms' = Without(elms, head)
    /\ size' = size - 1

Peek ==
    /\ head # Null
    /\ ret' = <<elms[head].data>>
    /\ UNCHANGED <<elms, head, size>>

Find(d) ==
    /\ ret' = IF Matches(d) = {} THEN <<>> ELSE <<elms[Chain[Min(Matches(d))]].data>>
    /\ UNCHANGED <<elms, head, size>>

DelNothing(d) ==
    /\ head # Null
    /\ Matches(d) = {}
    /\ ret' = <<>>
    /\ UNCHANGED <<elms, head, size>>

(* Mutant: the element before is left pointing to the deleted one. *)
UnlinkedNot(c) == elms

(* The elements, with what precedes c pointing past it. *)
Unlinked(c) == [e \in DOMAIN elms |->
                  IF elms[e].next = c THEN [elms[e] EXCEPT !.next = elms[c].next] ELSE elms[e]]

Del(d) ==
    /\ Matches(d) # {}
    /\ LET del == Chain[Min(Matches(d))]
       IN /\ ret' = <<elms[del].data>>
          /\ head' = IF del = head THEN elms[head].next ELSE head
          /\ elms' = Without(Unlinked(del), del)
    /\ size' = size - 1

(* The first element from c on that is not in dels. *)
Past(c, dels) ==
    LET left == {i \in 1 .. Len(Chain) : Chain[i] \notin dels /\ \E j \in 1 .. i : Chain[j] = c}
    IN IF left = {} THEN Null ELSE Chain[Min(left)]

(* The head is looked at first and deleted last.  The result holds the data *)
(* in the order of the list, and a NULL.                                    *)
DelMult(d) ==
    /\ head # Null
    /\ LET dels == {Chain[i] : i \in Matches(d)}
           found == Among(Chain, dels)
       IN /\ elms' = [c \in DOMAIN elms \ dels |-> [elms[c] EXCEPT !.next = Past(@, dels)]]
          /\ head' = Past(head, dels)
          /\ size' = size - Len(found)
          /\ ret' = [i \in 1 .. Len(found) |-> elms[found[i]].data]

(* bl_slist_sort takes the elements off the list and inserts them in a new  *)
(* one that begins with the first of them.                                  *)
Sort ==
    /\ LET After[n \in 1 .. Len(Chain)] ==
             IF n = 1 THEN <<[elms EXCEPT ![head].next = Null], head>>
             ELSE LET l == After[n - 1] IN Inserted(l[1], l[2], Chain[n])
           sorted == IF head = Null THEN <<elms, Null>> ELSE After[Len(Chain)]
       IN elms' = sorted[1] /\ head' = sorted[2]
    /\ ret' = <<>>
    /\ UNCHANGED size

FreeNodes ==
    /\ elms' = Restrict(elms, DOMAIN elms \ ToSet(Chain))
    /\ head' = Null
    /\ size' = 0
    /\ ret' = <<>>

Next == \/ \E d \in Data : Push(d) \/ AddSorted(d) \/ Find(d) \/ DelNothing(d) \/ Del(d) \/ DelMult(d)
        \/ Pop \/ Peek \/ Sort \/ FreeNodes

Spec == Init /\ [][Next]_vars
-----------------------------------------------------------------------------
(* bl_stack has the push, pop, peek and free_nodes of bl_slist. *)
StackPush(d) == Push(d)
StackPop == Pop
StackPeek == Peek
StackFreeNodes == FreeNodes

StackNext == (\E d \in Data : StackPush(d)) \/ StackPop \/ StackPeek \/ StackFreeNodes
-----------------------------------------------------------------------------
(* Every element malloc has given is on the list: none is leaked when one   *)
(* is deleted or the list sorted; size counts them.                         *)
ListWhole == /\ DOMAIN elms = ToSet(Chain)
             /\ size = Len(Chain)

Contents == [i \in 1 .. Len(Chain) |-> elms[Chain[i]].data]
Ordered == INSTANCE OrderedList WITH items <- Contents
ImplementsOrderedList == Ordered!Spec
=============================================================================
