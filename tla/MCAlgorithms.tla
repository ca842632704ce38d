------------------------------ MODULE MCAlgorithms ------------------------------
(***************************************************************************)
(* The algorithms on arrays and fields for TLC: those of StepAlgorithms,    *)
(* and "sort", which has no steps: its initial states are the arrays that   *)
(* the sorts and the array functions are applied to.                        *)
(***************************************************************************)
EXTENDS StepAlgorithms, BLSort, TLC

CONSTANTS SortSize,     \* longest array for the sorts
          Magnitudes    \* of the numbers for radix, up to INT_MAX

Util == INSTANCE BLUtil

\* Five elements are the least with which two workers can be at work at once
\* (two parts of two elements and a pivot).  The arrays differ in which
\* elements are equal, since the first partition may leave them in any order.
FiveElements == { [i \in 0 .. 4 |-> a[i + 1]] :
                    a \in { <<3, 4, 2, 0, 1>>, <<0, 1, 2, 3, 4>>, <<2, 2, 1, 0, 0>>,
                            <<1, 0, 2, 1, 1>>, <<1, 1, 1, 1, 1>> } }

Ints == Magnitudes \cup {-n : n \in Magnitudes}

Arrays(n, values) == UNION {[1 .. k -> values] : k \in 1 .. n}

MCInit ==
    \/ StepInit
    \/ /\ kind \in Kinds /\ kind = "sort" /\ NoPartition /\ NoWorker /\ NoPath
       /\ input \in Arrays(SortSize, Value) \cup Arrays(3, Ints)

(* The program goes on while it can.  This is all the fairness a sequential *)
(* program needs, and enough for workers and their creator, each of which   *)
(* takes a bounded number of steps.                                         *)
MCSpec == MCInit /\ [][StepNext]_stepVars /\ WF_stepVars(StepNext)
-----------------------------------------------------------------------------
SortedOf(a) == SortSeq(a, <)

(* Whatever the array and its equal elements, insertion, heap, nrmerge with *)
(* a last block that is not whole, quick below its threshold and above it   *)
(* and qsort leave its elements in order and touch nothing outside it.      *)
(* merge does when no half it copies is longer than its buffer, which it    *)
(* overruns otherwise (BufferFits); radix when no number is negative, for   *)
(* numbers up to INT_MAX, where the divisor of the last rounds wraps and    *)
(* what is sorted by then stays so.  (bl_sort_radix takes any int, but a    *)
(* negative one is counted before the first bucket, or left where it is     *)
(* when there is no positive one.)                                          *)
SortsSort ==
    kind = "sort" =>
       LET n == Len(input)
           sorted == SortedOf(input)
       IN /\ \A a \in {Insertion(input, 1, n), HeapSort(input), NrMerge(input),
                        QuickSort(input), QSort(input)[1]} : a = sorted
          /\ MergeSort(input) = IF BufferNeed(n) <= BufferSize(n) THEN sorted ELSE Outside
          /\ (\A i \in 1 .. n : input[i] >= 0) => RadixSort(input) = sorted

(* "partition arr into 3 sections, less-high-pivot", and "put pivot section *)
(* in the middle": both sections beside the pivots are shorter, which ends  *)
(* the recursion.                                                           *)
QuickPartitions ==
    kind = "sort" /\ Len(input) > 1 =>
       LET n == Len(input)
           p == QuickPartition(input, 1, n)
           pivot == input[Pivot(1, n)]
       IN /\ SortedOf(p[1]) = SortedOf(input)
          /\ p[2] < p[3]
          /\ \A i \in 1 .. n : /\ i < p[2] <=> p[1][i] < pivot
                               /\ i >= p[3] <=> p[1][i] > pivot

(* "2 * log_2(2^64) * 8 bytes" (bl_sort.c:449): the stack of segments of     *)
(* qsort holds one for each bit of a size; that of a lone worker as many.    *)
StacksLogarithmic == /\ kind = "sort" => 2 ^ QSort(input)[2] <= 2 * Len(input)
                     /\ kind = "lone" => Lone!LoneStackLogarithmic

(* "(size + 1) / 2?? there aren't any problems so far" (bl_sort.c:218): the *)
(* half that is copied to the buffer of size / 2 elements fits.             *)
BufferFits == kind = "sort" => BufferNeed(Len(input)) <= BufferSize(Len(input))

(* bl_util_qselect gives the term a sorted array has at this place, and     *)
(* keeps the elements, or NULL when there is no such term (an array of one  *)
(* element at least: with none it reads what is not there, since size - 1   *)
(* wraps, bl_util.c:91); bl_util_partition divides the array by a value     *)
(* that it may not hold; bl_util_bsearch finds a key if and only if it is   *)
(* there.                                                                   *)
UtilsAgree ==
    kind = "sort" /\ ToSet(input) \subseteq Value =>
       LET sorted == SortedOf(input)
           n == Len(input)
           keys == Value \cup {v + 1 : v \in Value} \cup {v - 1 : v \in Value}
       IN /\ \A k \in 0 .. n - 1 : LET r == Util!QSelect(input, k)
                                   IN r[2][r[1]] = sorted[k + 1] /\ SortedOf(r[2]) = sorted
          /\ \A k \in n .. n + 1 : Util!QSelect(input, k) = <<0, input>>
          /\ \A p \in keys : LET parts == Util!PartitionBy(input, p)
                             IN /\ SortedOf(parts) = sorted
                                /\ \A i \in 1 .. n - 1 :
                                     /\ parts[i] > p => parts[i + 1] > p
                                     /\ parts[i] = p => parts[i + 1] >= p
          /\ \A k \in keys : LET r == Util!BSearch(k, sorted)
                             IN IF k \in ToSet(input) THEN sorted[r] = k ELSE r = 0

(* The loops come to their end. *)
AlgorithmsEnd ==
    <>(\/ kind = "sort"
       \/ kind = "workers" /\ (main = "failed" \/ (stack = <<>> /\ \A t \in DOMAIN busy : ~busy[t]))
       \/ kind = "partition" /\ frame.at = "done"
       \/ kind = "lone" /\ main \in {"returned", "failed"}
       \/ kind = "path" /\ SearchEnded)
=============================================================================
