--------------------------------- MODULE ListOps ---------------------------------
(***************************************************************************)
(* Operators that several modules use for sequences and for cells of memory *)
(* linked by a field next.                                                  *)
(***************************************************************************)
EXTENDS Integers, Sequences

(* The terms of s that are in S, in their order. *)
Among(s, S) ==
    LET Of[i \in 0 .. Len(s)] ==
          IF i = 0 THEN <<>>
          ELSE IF s[i] \in S THEN Append(Of[i - 1], s[i]) ELSE Of[i - 1]
    IN Of[Len(s)]

(* The cells from c on, along next, until nil. *)
Walk(es, c, nil) ==
    LET From[e \in DOMAIN es \cup {nil}] ==
          IF e = nil THEN <<>> ELSE <<e>> \o From[es[e].next]
    IN From[c]
=============================================================================
