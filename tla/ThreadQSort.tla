------------------------------ MODULE ThreadQSort ------------------------------
(***************************************************************************)
(* bl_thread_qsort with its array (BL_THREAD/bl_thread.c): the control of   *)
(* QSortThreads, where a partition also divides its segment of the array    *)
(* around a pivot.  Which one, and in which order it leaves the elements of *)
(* either part, does not matter here: QSortPartition shows that the code's  *)
(* loops end like this, and ThreadQSortFine that they may be interleaved.   *)
(***************************************************************************)
EXTENDS QSortThreads, QSortArray

VARIABLES arr,    \* base
          input   \* the array bl_thread_qsort was called with

sortVars == <<main, next, pc, stack, sem, busy, seg, cut, arr, input>>

SortInit == /\ Init
            /\ arr \in [Index -> Value]
            /\ input = arr

(* The orders in which the elements of a segment may be left. *)
Orders == [s \in Segment |-> Shuffles(s[1] .. s[2])]
Whole == <<0, Size - 1>>

(* Mutant: elements equal to the pivot are left in the high part, which      *)
(* begins one element too late.                                             *)
SortPartitionLateHigh(t) ==
    \E c \in Cut(seg[t]) :
       /\ c[2] <= seg[t][2]
       /\ PartitionInto(t, <<c[1], c[2] + 1>>)
       /\ \E p \in Orders[seg[t]] : arr' = Rearranged(arr, seg[t], p)
       /\ Partitioned(arr', seg[t], c)
       /\ UNCHANGED input

(* Mutant: a swap copies one element over the other. *)
SortPartitionCopies(t) ==
    \E c \in Cut(seg[t]) :
       /\ PartitionInto(t, c)
       /\ arr' = [arr EXCEPT ![seg[t][1]] = arr[seg[t][2]]]
       /\ UNCHANGED input

(* Mutant: the partition runs one element past its segment. *)
SortPartitionWide(t) ==
    LET past == <<seg[t][1], IF seg[t][2] + 1 \in Index THEN seg[t][2] + 1 ELSE seg[t][2]>>
    IN  \E c \in Cut(seg[t]) :
           /\ PartitionInto(t, c)
           /\ \E p \in Orders[past] : arr' = Rearranged(arr, past, p)
           /\ UNCHANGED input

SortPartition(t) ==
    \E c \in Cut(seg[t]) :
       /\ PartitionInto(t, c)
       /\ \E p \in Orders[seg[t]] : arr' = Rearranged(arr, seg[t], p)
       /\ Partitioned(arr', seg[t], c)
       /\ UNCHANGED input

(* The steps that do not touch the array. *)
ControlStep(t) == Pop(t) \/ GoToSleep(t) \/ ExitThread(t) \/ WakeUp(t) \/ Push(t)

SortNext ==
    \/ MainStep /\ UNCHANGED <<arr, input>>
    \/ CreateFails /\ UNCHANGED <<arr, input>>
    \/ \E t \in Threads : ControlStep(t) /\ UNCHANGED <<arr, input>>
    \/ \E t \in Threads : SortPartition(t)

SortSpec == SortInit /\ [][SortNext]_sortVars
-----------------------------------------------------------------------------
(* The segments still to be sorted: those on the stack, those being         *)
(* partitioned and the parts about to be pushed.                            *)
Open == { stack[i] : i \in 1 .. Len(stack) }
        \cup { seg[t] : t \in {u \in Threads : pc[u] = "part"} }
        \cup { LowPart(t) : t \in {u \in Threads : pc[u] = "push"} }
        \cup { HighPart(t) : t \in {u \in Threads : pc[u] = "push"} }

(* An element no open segment of two elements or more holds. *)
Settled(i) == \A s \in Open : InSegment(i, s) => SegLen(s) <= QSORT_THRESHOLD

ArrayOK == arr \in [Index -> Value] /\ input \in [Index -> Value]

(* Two elements out of order are in one open segment: nothing is ever out   *)
(* of order across the parts that several workers sort independently.       *)
SortedApart ==
    \A i, j \in Index :
       i < j => \/ arr[i] <= arr[j]
                \/ \E s \in Open : InSegment(i, s) /\ InSegment(j, s)

(* Whatever the workers have done so far, the array holds the elements the  *)
(* caller gave.                                                             *)
KeepsElements == \E p \in Orders[Whole] : arr = Rearranged(input, Whole, p)

(* No step moves an element that is in no open segment, or puts it back in  *)
(* one: it is where it belongs long before the other workers are done.      *)
SettledStays ==
    [][\A i \in Index : Settled(i) => Settled(i)' /\ arr'[i] = arr[i]]_sortVars

(* As soon as one worker has left the array is sorted: bl_thread_qsort,     *)
(* which returns after the last has, returns with a sorted array, what      *)
(* bl_thread_test.c:44-53 looks at.                                         *)
SortedAtExit ==
    (\E t \in Threads : pc[t] = "exited") \/ main = "returned" => Sorted(arr)
=============================================================================
