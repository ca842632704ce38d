------------------------------- MODULE QSortArray -------------------------------
(***************************************************************************)
(* What the sorting of an array is about: rearrangements of a part of it,  *)
(* and a part divided around a pivot.  No module of the library is a source *)
(* for these, they say what its sorts promise.                              *)
(***************************************************************************)
EXTENDS Integers, FiniteSets

CONSTANT Value   \* the elements

ASSUME ValueAssumption == Value \subseteq Int

InSegment(i, s) == s[1] <= i /\ i <= s[2]

(* The permutations of a finite set of indexes. *)
Shuffles(S) == {p \in [S -> S] : \A i, j \in S : p[i] = p[j] => i = j}

(* a with the elements of the segment s in the order p gives. *)
Rearranged(a, s, p) == [i \in DOMAIN a |-> IF InSegment(i, s) THEN a[p[i]] ELSE a[i]]

Rearrangements(a, s) == {Rearranged(a, s, p) : p \in Shuffles(s[1] .. s[2])}

(* |< P| = P |> P|, the parts being s[1] .. c[1] and c[2] .. s[2]. *)
Partitioned(a, s, c) ==
    \E pivot \in {a[i] : i \in s[1] .. s[2]} :
       /\ \A i \in s[1] .. c[1] : a[i] < pivot
       /\ \A i \in c[1] + 1 .. c[2] - 1 : a[i] = pivot
       /\ \A i \in c[2] .. s[2] : a[i] > pivot

Sorted(a) == \A i, j \in DOMAIN a : i <= j => a[i] <= a[j]
=============================================================================
