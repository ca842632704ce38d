----------------------------- MODULE QSortPartition -----------------------------
(***************************************************************************)
(* The partition of thread_qsort on its own, from any segment of any array. *)
(***************************************************************************)
EXTENDS PartitionSteps, QSortArray

CONSTANT Size   \* number of elements of the array

ASSUME ArrayAssumption == /\ Size \in Nat \ {0, 1}
                          /\ Size <= SizeMax

VARIABLES frame,   \* the locals of the worker
          arr,     \* the array
          before   \* the array as it was when the partition began

vars == <<frame, arr, before>>

Index == 0 .. Size - 1

(* Every segment QSORT_POP can return has two elements at least. *)
Init == /\ arr \in [Index -> Value]
        /\ before = arr
        /\ frame \in {Frame(s[1], s[2]) : s \in {s \in Index \X Index : s[1] < s[2]}}

Step == /\ frame.at # "done"
        /\ LET next == PartitionStep(frame, arr)
           IN  frame' = next[1] /\ arr' = next[2]
        /\ UNCHANGED before

Spec == Init /\ [][Step]_vars
-----------------------------------------------------------------------------
Own == frame.start .. frame.end

(* No step touches an element outside the worker's segment, however close   *)
(* lo and hi come to its ends and below index 0.                            *)
StaysInside == Touches(frame) \subseteq Own

Segment == <<frame.start, frame.end>>
CutOf(f) == <<IF f.lo = SizeMax THEN -1 ELSE f.lo, f.hi>>

Count(a, v) == Cardinality({i \in Own : a[i] = v})

(* At the end the segment is divided in elements below, equal to and above  *)
(* a pivot, as "reorient partition, |<P|=P|>P|" says; it holds the elements *)
(* it held, the rest of the array is untouched, and both parts are shorter. *)
(* The sizes that decide which part is pushed, and in which order, are the  *)
(* numbers of elements of the parts also where lo or hi has left them.      *)
EndsPartitioned ==
    frame.at = "done" =>
       LET c == CutOf(frame)
       IN  /\ \A i \in Index \ Own : arr[i] = before[i]
           /\ \A v \in Value : Count(arr, v) = Count(before, v)
           /\ Partitioned(arr, Segment, c)
           /\ frame.start - 1 <= c[1] /\ c[1] + 2 <= c[2] /\ c[2] <= frame.end + 1
           /\ LowSize(frame) = Cardinality(frame.start .. c[1])
           /\ HighSize(frame) = Cardinality(c[2] .. frame.end)

=============================================================================
