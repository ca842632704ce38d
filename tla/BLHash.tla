--------------------------------- MODULE BLHash ---------------------------------
(***************************************************************************)
(* bl_hashtable (BL_HASH/bl_hash.c), a table of linked chains.              *)
(*                                                                         *)
(* The elements are cells of memory: elms has a record for each cell malloc *)
(* has given and free has not taken back, so that a step that would use a   *)
(* freed element has no meaning.  rehash takes one element at a time.       *)
(***************************************************************************)
EXTENDS Integers, FiniteSets, Sequences, SequencesExt, ListOps

CONSTANTS Cell,     \* the memory
          Key, Data,
          Null,
          Sizes,    \* the table sizes given to bl_hashtable_new and to rehash
          Hashes    \* what bl_hash64 may give

VARIABLES hash,       \* bl_hash64 of each key
          elms,       \* key, data and next of the elements
          table, tableSize, count,
          ret,        \* what the last call returned
          newTable,   \* of a rehash going on, as are the next three
          newSize,
          i,          \* the chain it has come to
          elm         \* the element of this chain it will move next

resize == <<newTable, newSize, i, elm>>
vars == <<hash, elms, table, tableSize, count, ret, newTable, newSize, i, elm>>

Idle == newSize = 0
Index(k, size) == hash[k] % size

EmptyTable(size) == [j \in 0 .. size - 1 |-> Null]

Init ==
    /\ hash \in [Key -> Hashes]
    /\ elms = [c \in {} |-> Null]
    /\ tableSize \in Sizes
    /\ table = EmptyTable(tableSize)
    /\ count = 0
    /\ ret = Null
    /\ newTable = <<>>
    /\ newSize = 0
    /\ i = 0
    /\ elm = Null

(* The elements from c on. *)
Chain(c) == Walk(elms, c, Null)

(* The element the search for k ends with, and the one before it, or NULL.  *)
Matches(k) == LET ch == Chain(table[Index(k, tableSize)])
              IN {n \in 1 .. Len(ch) : elms[ch[n]].key = k}
Found(k) == IF Matches(k) = {} THEN Null
            ELSE Chain(table[Index(k, tableSize)])[Min(Matches(k))]
Before(k) == IF Min(Matches(k)) = 1 THEN Null
             ELSE Chain(table[Index(k, tableSize)])[Min(Matches(k)) - 1]

(* Mutant: a new element ends its chain. *)
AddedCutsChain(k, d) ==
    \E c \in Cell \ DOMAIN elms :
       /\ elms' = [e \in DOMAIN elms \cup {c} |->
                     IF e = c THEN [key |-> k, data |-> d, next |-> Null] ELSE elms[e]]
       /\ table' = [table EXCEPT ![Index(k, tableSize)] = c]
       /\ count' = count + 1

(* A new element at the head of its chain. *)
Added(k, d) ==
    \E c \in Cell \ DOMAIN elms :
       /\ elms' = [e \in DOMAIN elms \cup {c} |->
                     IF e = c THEN [key |-> k, data |-> d,
                                    next |-> table[Index(k, tableSize)]]
                              ELSE elms[e]]
       /\ table' = [table EXCEPT ![Index(k, tableSize)] = c]
       /\ count' = count + 1

Insert(k, d) ==
    /\ Idle
    /\ Added(k, d)
    /\ UNCHANGED <<hash, tableSize, ret, resize>>

Get(k) ==
    /\ Idle
    /\ ret' = IF Found(k) = Null THEN Null ELSE elms[Found(k)].data
    /\ UNCHANGED <<hash, elms, table, tableSize, count, resize>>

RemoveNothing(k) ==
    /\ Idle
    /\ Found(k) = Null
    /\ ret' = Null
    /\ UNCHANGED <<hash, elms, table, tableSize, count, resize>>

(* Mutant: the element before it keeps pointing to it. *)
UnlinkedNot(k) == elms

(* The elements once prev->next is changed, if there is a prev. *)
Unlinked(k) == IF Before(k) = Null THEN elms
               ELSE [elms EXCEPT ![Before(k)].next = elms[Found(k)].next]

RemoveFound(k) ==
    /\ Idle
    /\ Found(k) # Null
    /\ ret' = elms[Found(k)].data
    /\ elms' = Restrict(Unlinked(k), DOMAIN elms \ {Found(k)})
    /\ table' = IF Before(k) # Null THEN table
                ELSE [table EXCEPT ![Index(k, tableSize)] = elms[Found(k)].next]
    /\ count' = count - 1
    /\ UNCHANGED <<hash, tableSize, resize>>

Modify(k, d) ==
    /\ Idle
    /\ \/ /\ Found(k) = Null
          /\ ret' = d
          /\ Added(k, d)
       \/ /\ Found(k) # Null
          /\ ret' = elms[Found(k)].data
          /\ elms' = [elms EXCEPT ![Found(k)].data = d]
          /\ UNCHANGED <<table, count>>
    /\ UNCHANGED <<hash, tableSize, resize>>

(* bl_hashtable_foreach_remove *)
ForeachRemove ==
    /\ Idle
    /\ elms' = Restrict(elms, DOMAIN elms \ UNION {ToSet(Chain(h)) : h \in Range(table)})
    /\ table' = EmptyTable(tableSize)
    /\ count' = 0
    /\ UNCHANGED <<hash, tableSize, ret, resize>>

(* bl_hashtable_rehash: a step for each element, and one for each chain.    *)
Rehash(size) ==
    /\ Idle
    /\ newSize' = size
    /\ newTable' = EmptyTable(size)
    /\ i' = 0
    /\ elm' = table[0]
    /\ UNCHANGED <<hash, elms, table, tableSize, count, ret>>

(* Mutant: the next element is taken after the element has been moved. *)
RehashMoveLate ==
    /\ elm # Null
    /\ LET j == Index(elms[elm].key, newSize)
       IN /\ elms' = [elms EXCEPT ![elm].next = newTable[j]]
          /\ newTable' = [newTable EXCEPT ![j] = elm]
    /\ elm' = elms'[elm].next
    /\ UNCHANGED <<hash, table, tableSize, count, ret, newSize, i>>

RehashMove ==
    /\ elm # Null
    /\ LET j == Index(elms[elm].key, newSize)
       IN /\ elms' = [elms EXCEPT ![elm].next = newTable[j]]
          /\ newTable' = [newTable EXCEPT ![j] = elm]
    /\ elm' = elms[elm].next
    /\ UNCHANGED <<hash, table, tableSize, count, ret, newSize, i>>

RehashChain ==
    /\ ~Idle
    /\ elm = Null
    /\ i + 1 < tableSize
    /\ i' = i + 1
    /\ elm' = table[i + 1]
    /\ UNCHANGED <<hash, elms, table, tableSize, count, ret, newTable, newSize>>

RehashEnd ==
    /\ ~Idle
    /\ elm = Null
    /\ i + 1 = tableSize
    /\ table' = newTable
    /\ tableSize' = newSize
    /\ newTable' = <<>>
    /\ newSize' = 0
    /\ i' = 0
    /\ UNCHANGED <<hash, elms, count, ret, elm>>

Next == \/ \E k \in Key, d \in Data : Insert(k, d) \/ Modify(k, d)
        \/ \E k \in Key : Get(k) \/ RemoveFound(k) \/ RemoveNothing(k)
        \/ ForeachRemove
        \/ (\E n \in Sizes : Rehash(n)) \/ RehashMove \/ RehashChain \/ RehashEnd

Spec == Init /\ [][Next]_vars
-----------------------------------------------------------------------------
(* The elements of the chain j that a rehash has not moved yet. *)
Rest(j) == IF Idle \/ j > i THEN Chain(table[j])
           ELSE IF j = i THEN Chain(elm) ELSE <<>>
Moved(j) == Chain(newTable[j])
Chains == {Rest(j) : j \in DOMAIN table} \cup {Moved(j) : j \in DOMAIN newTable}

(* No element is lost or left over, at any moment of a rehash either: every *)
(* element that exists is in one chain, once, and this chain is its hash's; *)
(* count counts them.                                                       *)
TableIntact ==
    /\ \A j \in DOMAIN table : \A e \in ToSet(Rest(j)) : Index(elms[e].key, tableSize) = j
    /\ \A j \in DOMAIN newTable : \A e \in ToSet(Moved(j)) : Index(elms[e].key, newSize) = j
    /\ DOMAIN elms = UNION {ToSet(ch) : ch \in Chains}
    /\ \A ch, other \in Chains : ch # other => ToSet(ch) \cap ToSet(other) = {}
    /\ count = Cardinality(DOMAIN elms)

(* The data of k in the order of before a rehash: what it has moved stands  *)
(* the other way round.                                                     *)
DataOf(k, ch) == LET ofKey == Among(ch, {e \in DOMAIN elms : elms[e].key = k})
                 IN [n \in 1 .. Len(ofKey) |-> elms[ofKey[n]].data]
Items == [k \in Key |->
            (IF Idle THEN <<>> ELSE Reverse(DataOf(k, Moved(Index(k, newSize)))))
              \o DataOf(k, Rest(Index(k, tableSize)))]

(* The table is a stack of data for each key, which a rehash turns round.   *)
Store == INSTANCE KeyStacks WITH items <- Items
ImplementsStore == Store!Spec
=============================================================================
