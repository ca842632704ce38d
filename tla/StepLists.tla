-------------------------------- MODULE StepLists --------------------------------
(***************************************************************************)
(* The structures of linked elements.  A behaviour is about one of them,    *)
(* its kind; the variables of the others keep their initial values.         *)
(***************************************************************************)
EXTENDS BLQueue, Integers

CONSTANTS Kinds, Key, Sizes, Hashes,
          Ranked, Rank(_)   \* data for the lists, and what cmp_func looks at

ASSUME ListAssumption == /\ Null \notin Key \cup Ranked
                         /\ Sizes \subseteq Nat \ {0}
                         /\ Hashes \subseteq Nat
                         /\ \A d \in Ranked : Rank(d) \in Int

VARIABLES kind,
          hash, hElms, table, tableSize, count, hRet, newTable, newSize, row, moving,
          elms, first, length, sRet

Hash == INSTANCE BLHash WITH elms <- hElms, ret <- hRet, i <- row, elm <- moving
Slist == INSTANCE BLSlist WITH Data <- Ranked, head <- first, size <- length, ret <- sRet

hashtable == <<hash, hElms, table, tableSize, count, hRet, newTable, newSize, row, moving>>
slist == <<elms, first, length, sRet>>

NoQueue == /\ next = [c \in Cell |-> Null] /\ data = [c \in Cell |-> Null]
           /\ head = Null /\ tail = Null /\ size = 0 /\ used = {} /\ ret = Null /\ chain = <<>>

StepInit ==
    /\ kind \in Kinds
    /\ Hash!Init /\ Slist!Init
    /\ (kind = "queue" /\ Init) \/ (kind # "queue" /\ NoQueue)
    /\ kind # "hash" => /\ hash = [k \in Key |-> 0]
                        /\ \A n \in Sizes : tableSize <= n

StepNext ==
    /\ \/ kind = "queue" /\ Next /\ UNCHANGED <<hashtable, slist>>
       \/ kind = "hash" /\ Hash!Next /\ UNCHANGED <<vars, slist>>
       \/ kind = "slist" /\ Slist!Next /\ UNCHANGED <<vars, hashtable>>
       \/ kind = "stack" /\ Slist!StackNext /\ UNCHANGED <<vars, hashtable>>
    /\ UNCHANGED kind

StepSpec == StepInit /\ [][StepNext]_<<kind, vars, hashtable, slist>>
-----------------------------------------------------------------------------
(* The table is a stack of data for each key, which a rehash turns round.   *)
HashImplementsStore == Hash!ImplementsStore

(* No element of a list or of a chain is lost, left over or miscounted, by  *)
(* a deletion, by a sort, or half way through a rehash.                     *)
ElementsLinked == Hash!TableIntact /\ Slist!ListWhole

(* bl_slist is a sequence that add_sorted and sort keep stable; bl_stack is *)
(* one that is only pushed and popped.                                      *)
SlistImplementsOrdered == Slist!ImplementsOrderedList
=============================================================================
