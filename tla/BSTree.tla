--------------------------------- MODULE BSTree ---------------------------------
(***************************************************************************)
(* bl_bstree (BL_BSTREE/bl_bstree.c), a binary search tree without          *)
(* balancing.                                                               *)
(*                                                                         *)
(* The code goes about with the address of the pointer it may change, prev: *)
(* bstree->head or the left or right of an element.  links maps each such   *)
(* address to what is stored there.                                         *)
(***************************************************************************)
EXTENDS Integers, FiniteSets

CONSTANTS Elm,    \* the elements there is memory for
          Null,
          Key     \* the data, by their place in the order of cmp_func

VARIABLES links,
          data,
          size,
          alloc,   \* the elements malloc has given and free has not taken back
          call     \* the last call and its argument (auxiliary)

vars == <<links, data, size, alloc, call>>

HeadLink == <<"head", Null>>
Link == {HeadLink} \cup {"left", "right"} \X Elm
(* The pointers of the elements that exist. *)
Live == {HeadLink} \cup {"left", "right"} \X alloc
Left(n) == links[<<"left", n>>]
Right(n) == links[<<"right", n>>]

Init ==
    /\ links = [l \in Link |-> Null]
    /\ data \in [Elm -> Key]
    /\ \A m, n \in Elm : data[m] = data[n]
    /\ size = 0
    /\ alloc = {}
    /\ call = <<>>

(* Where the way down for a new element with key k ends.                    *)
InsertLink(k) ==
    LET Down[l \in Live] ==
          IF links[l] = Null THEN l
          ELSE Down[<<IF k <= data[links[l]] THEN "left" ELSE "right", links[l]>>]
    IN Down[HeadLink]

Insert(k) ==
    /\ LET c == CHOOSE n \in Elm : n \notin alloc
       IN /\ Elm \ alloc # {}
          /\ links' = [links EXCEPT ![InsertLink(k)] = c,
                                    ![<<"left", c>>] = Null, ![<<"right", c>>] = Null]
          /\ data' = [data EXCEPT ![c] = k]
          /\ alloc' = alloc \cup {c}
    /\ size' = size + 1
    /\ call' = <<"insert", k>>

(* The pointer to the first element on the way down that has key k, or the  *)
(* NULL pointer where that way ends.                                        *)
FindLink(k) ==
    LET Down[l \in Live] ==
          IF links[l] = Null \/ (links[l] # Null /\ data[links[l]] = k) THEN l
          ELSE Down[<<IF k < data[links[l]] THEN "left" ELSE "right", links[l]>>]
    IN Down[HeadLink]

(* The last pointer to an element from l on to the side.                    *)
EndLink(l, side) ==
    LET Down[m \in {x \in Live : links[x] # Null}] ==
          LET next == <<side, links[m]>> IN IF links[next] = Null THEN m ELSE Down[next]
    IN Down[l]

(* Mutant: what hangs under the popped element is dropped. *)
PoppedAlone(side, l) == [links EXCEPT ![l] = Null]

(* pop_predecessor and pop_successor, from the left and from the right: the *)
(* element at l makes room for its child on this side.                      *)
Popped(side, l) == [links EXCEPT ![l] = links[<<side, links[l]>>]]

RemoveNothing(k) ==
    /\ links[FindLink(k)] = Null
    /\ call' = <<"absent", k>>
    /\ UNCHANGED <<links, data, size, alloc>>

Remove(k) ==
    /\ links[FindLink(k)] # Null
    /\ LET prev == FindLink(k)
           cur == links[prev]
           side == IF Left(cur) # Null THEN "left" ELSE "right"
           last == EndLink(<<side, cur>>, IF side = "left" THEN "right" ELSE "left")
           replace == links[last]
           rest == Popped(side, last)
       IN /\ links' = IF links[<<side, cur>>] = Null THEN [links EXCEPT ![prev] = Null]
                      ELSE [rest EXCEPT ![<<"left", replace>>] = rest[<<"left", cur>>],
                                        ![<<"right", replace>>] = rest[<<"right", cur>>],
                                        ![prev] = replace]
          /\ alloc' = alloc \ {cur}
    /\ size' = size - 1
    /\ call' = <<"remove", k>>
    /\ UNCHANGED data

InTree ==
    LET Under[l \in Live] ==
          IF links[l] = Null THEN {}
          ELSE {links[l]} \cup Under[<<"left", links[l]>>] \cup Under[<<"right", links[l]>>]
    IN Under[HeadLink]

(* bl_bstree_foreach_remove *)
ForeachRemove ==
    /\ alloc' = alloc \ InTree
    /\ links' = [links EXCEPT ![HeadLink] = Null]
    /\ size' = 0
    /\ call' = <<"clear">>
    /\ UNCHANGED data

Next == (\E k \in Key : Insert(k) \/ Remove(k) \/ RemoveNothing(k)) \/ ForeachRemove

Spec == Init /\ [][Next]_vars
-----------------------------------------------------------------------------
(* No element is left behind by a removal, and size counts them.            *)
NothingLost == alloc = InTree /\ size = Cardinality(InTree)

(* The tree is a bag of keys in which a search finds what there is, also    *)
(* when equal elements have come to stand on both sides of one another.     *)
Bag == INSTANCE KeyBag WITH
         held <- [k \in Key |-> Cardinality({n \in InTree : data[n] = k})]
ImplementsBag == Bag!Spec
=============================================================================
