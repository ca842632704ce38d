-------------------------------- MODULE WordSet --------------------------------
(***************************************************************************)
(* What PrefixTree promises by its functions: insert and contains of a set. *)
(***************************************************************************)
CONSTANT Word

VARIABLES words, ret

set == <<words, ret>>

Init == words = {} /\ ret = FALSE

Insert(w) == words' = words \cup {w} /\ UNCHANGED ret
Contains(w) == ret' = (w \in words) /\ UNCHANGED words

Next == \E w \in Word : Insert(w) \/ Contains(w)

Spec == Init /\ [][Next]_set
=============================================================================
