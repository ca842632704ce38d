----------------------------- MODULE PartitionSteps -----------------------------
(***************************************************************************)
(* The partition of thread_qsort (BL_THREAD/bl_thread.c:350-411), one round *)
(* of one of its loops at a time.  A worker's locals are a record f with    *)
(* the fields lo, hi, start, end, pivot_lsect, pivot_hsect and pivot of the *)
(* code, and with the loop the worker is in, f.at.  A step takes f and the  *)
(* array a to the pair <<f', a'>>.                                          *)
(*                                                                         *)
(* Indexes are size_t: arithmetic wraps at SizeMax, the code's (size_t)0-1. *)
(***************************************************************************)
EXTENDS Integers

CONSTANT SizeMax   \* the largest size_t

ASSUME SizeMaxAssumption == SizeMax \in Nat \ {0}

Wrap(x) == x % (SizeMax + 1)

Swap(a, i, j) == [a EXCEPT ![i] = a[j], ![j] = a[i]]

Frame(lo, hi) == [at |-> "pivot", lo |-> lo, hi |-> hi, start |-> lo, end |-> hi,
                  pivot_lsect |-> lo, pivot_hsect |-> hi, pivot |-> 0]

(* Mutant: the middle of the segment counted from index 0. *)
MidFromZero(f) == Wrap(f.hi - f.lo) \div 2

(* (lo + hi) / 2 as the code writes it, lo + ((hi - lo) >> 1) *)
Mid(f) == Wrap(f.lo + Wrap(f.hi - f.lo) \div 2)

(* Median of three: the middle one of arr[lo], arr[mid] and arr[hi] is      *)
(* brought to arr[hi].                                                      *)
MedianToEnd(a, lo, mid, hi) ==
    LET b == IF a[lo] > a[mid] THEN Swap(a, lo, mid) ELSE a
    IN  CASE b[hi] > b[mid] -> Swap(b, mid, hi)
          [] b[hi] <= b[mid] /\ b[lo] > b[hi] -> Swap(b, lo, hi)
          [] OTHER -> b

ChoosePivot(f, a) ==
    LET b == MedianToEnd(a, f.lo, Mid(f), f.hi)
        h == Wrap(f.hi - 1)
    IN  << [f EXCEPT !.at = "scan", !.pivot = b[f.hi], !.hi = h,
                     !.pivot_lsect = f.lo, !.pivot_hsect = h], b >>

(* hi + 1 is where the pivots go: lo and hi as the reorienting loops want   *)
(* them.                                                                    *)
EndScan(f) == [f EXCEPT !.at = "lows", !.lo = f.hi, !.hi = Wrap(f.hi + 1)]

(* Mutant: an element below the pivot does not advance lo. *)
ScanLowStuck(f, a) ==
    CASE f.lo > f.hi -> << EndScan(f), a >>
      [] f.lo <= f.hi /\ a[f.lo] > f.pivot -> << [f EXCEPT !.at = "down"], a >>
      [] f.lo <= f.hi /\ a[f.lo] = f.pivot ->
           << [f EXCEPT !.pivot_lsect = Wrap(@ + 1), !.lo = Wrap(@ + 1)],
              Swap(a, f.lo, f.pivot_lsect) >>
      [] f.lo <= f.hi /\ a[f.lo] < f.pivot -> << f, a >>

(* One round of while(lo <= hi). *)
ScanLow(f, a) ==
    CASE f.lo > f.hi -> << EndScan(f), a >>
      [] f.lo <= f.hi /\ a[f.lo] > f.pivot -> << [f EXCEPT !.at = "down"], a >>
      [] f.lo <= f.hi /\ a[f.lo] = f.pivot ->
           << [f EXCEPT !.pivot_lsect = Wrap(@ + 1), !.lo = Wrap(@ + 1)],
              Swap(a, f.lo, f.pivot_lsect) >>
      [] f.lo <= f.hi /\ a[f.lo] < f.pivot -> << [f EXCEPT !.lo = Wrap(@ + 1)], a >>

(* What follows the inner loop. *)
EndDown(f) == IF f.hi = SizeMax THEN EndScan(f)
              ELSE [f EXCEPT !.at = "scan", !.lo = Wrap(@ + 1)]

(* One round of the inner loop, arr[lo] being greater than the pivot. *)
ScanDown(f, a) ==
    LET more == f.lo <= f.hi /\ f.hi # SizeMax
        down == [f EXCEPT !.hi = Wrap(@ - 1)]
    IN  CASE ~more -> << EndDown(f), a >>
          [] more /\ a[f.hi] < f.pivot -> << EndDown(down), Swap(a, f.lo, f.hi) >>
          [] more /\ a[f.hi] = f.pivot ->
               << [down EXCEPT !.pivot_hsect = Wrap(@ - 1)], Swap(a, f.hi, f.pivot_hsect) >>
          [] more /\ a[f.hi] > f.pivot -> << down, a >>

(* Mutant: the low section of pivots is left with one too many. *)
BringLowsShort(f, a) ==
    IF f.pivot_lsect > f.start + 1
      THEN << [f EXCEPT !.pivot_lsect = Wrap(@ - 1), !.lo = Wrap(@ - 1)],
              Swap(a, f.lo, Wrap(f.pivot_lsect - 1)) >>
      ELSE << [f EXCEPT !.at = "highs"], a >>

(* One round of the loops that bring the pivots between the two parts. *)
BringLows(f, a) ==
    IF f.pivot_lsect > f.start
      THEN << [f EXCEPT !.pivot_lsect = Wrap(@ - 1), !.lo = Wrap(@ - 1)],
              Swap(a, f.lo, Wrap(f.pivot_lsect - 1)) >>
      ELSE << [f EXCEPT !.at = "highs"], a >>

BringHighs(f, a) ==
    IF f.pivot_hsect < f.end
      THEN << [f EXCEPT !.pivot_hsect = Wrap(@ + 1), !.hi = Wrap(@ + 1)],
              Swap(a, f.hi, Wrap(f.pivot_hsect + 1)) >>
      ELSE << [f EXCEPT !.at = "done"], a >>

PartitionStep(f, a) ==
    CASE f.at = "pivot" -> ChoosePivot(f, a)
      [] f.at = "scan" -> ScanLow(f, a)
      [] f.at = "down" -> ScanDown(f, a)
      [] f.at = "lows" -> BringLows(f, a)
      [] f.at = "highs" -> BringHighs(f, a)

(* The array elements the next step reads or writes. *)
Touches(f) ==
    CASE f.at = "pivot" -> {f.lo, Mid(f), f.hi}
      [] f.at = "scan" /\ f.lo <= f.hi -> {f.lo, f.pivot_lsect}
      [] f.at = "down" /\ f.lo <= f.hi /\ f.hi # SizeMax -> {f.lo, f.hi, f.pivot_hsect}
      [] f.at = "lows" /\ f.pivot_lsect > f.start -> {f.lo, Wrap(f.pivot_lsect - 1)}
      [] f.at = "highs" /\ f.pivot_hsect < f.end -> {f.hi, Wrap(f.pivot_hsect + 1)}
      [] OTHER -> {}

(* Mutant: lo is taken to be one beyond the part. *)
LowSizeShort(f) == Wrap(f.lo - f.start)

(* The sizes compared before the parts are pushed (lines 406-411). *)
LowSize(f) == IF f.lo = SizeMax THEN 0 ELSE Wrap(Wrap(f.lo - f.start) + 1)

HighSize(f) == Wrap(Wrap(f.end - f.hi) + 1)
=============================================================================
