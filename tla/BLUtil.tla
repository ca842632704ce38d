--------------------------------- MODULE BLUtil ---------------------------------
(***************************************************************************)
(* The array functions of BL_UTIL/bl_util.c.  Arrays are sequences, as in   *)
(* BLSort; qselect and partition have the partition of bl_thread.c and of   *)
(* bl_sort_qsort_, by pointers.  A pointer is the position it points to, 0  *)
(* just before the array.                                                   *)
(***************************************************************************)
EXTENDS PartitionSteps, Sequences

(* What is left of a partition.  *)
RECURSIVE Partition(_, _)
Partition(f, a) == IF f.at = "done" THEN <<f, a>>
                   ELSE LET next == PartitionStep(f, a) IN Partition(next[1], next[2])

(* (p - base) / var_size, an unsigned number: that of a pointer before the  *)
(* array is greater than any index.                                         *)
IndexOf(p) == Wrap(p - 1)

(* Mutant: the last term of the low section is not looked for in it. *)
InLowShort(nterm, f) == nterm < IndexOf(f.lo) /\ f.lo >= f.start

InLow(nterm, f) == nterm <= IndexOf(f.lo) /\ f.lo >= f.start
InHigh(nterm, f) == nterm >= IndexOf(f.hi) /\ f.hi <= f.end

(* bl_util_qselect: the position of the result, 0 for NULL, and the array.  *)
RECURSIVE SelectIn(_, _, _, _)
SelectIn(a, nterm, lo, hi) ==
    LET p == Partition(Frame(lo, hi), a)
        f == p[1]
    IN CASE InLow(nterm, f) -> SelectIn(p[2], nterm, f.start, f.lo)
         [] ~InLow(nterm, f) /\ InHigh(nterm, f) -> SelectIn(p[2], nterm, f.hi, f.end)
         [] OTHER -> <<nterm + 1, p[2]>>

(* The terms are counted from 0.  With no elements size - 1 wraps, and      *)
(* qselect goes on to an element that is not there.                         *)
QSelect(a, nterm) == IF nterm > Wrap(Len(a) - 1) THEN <<0, a>>
                     ELSE SelectIn(a, nterm, 1, Len(a))

(* bl_util_partition, around a value that need not be in the array: the     *)
(* loops of Partition without its choice of a pivot.                        *)
PartitionBy(a, pivot) ==
    IF Len(a) <= 1 THEN a
    ELSE Partition([Frame(1, Len(a)) EXCEPT !.at = "scan", !.pivot = pivot], a)[2]

GoUp(mid) == mid + 1

(* bl_util_bsearch: the position found in low + 1 .. high, or 0. *)
RECURSIVE Search(_, _, _, _)
Search(key, a, low, high) ==
    LET mid == low + (high - low) \div 2
    IN IF low >= high THEN 0
       ELSE IF key < a[mid + 1] THEN Search(key, a, low, mid)
       ELSE IF key > a[mid + 1] THEN Search(key, a, GoUp(mid), high)
       ELSE mid + 1

BSearch(key, a) == Search(key, a, 0, Len(a))
=============================================================================
