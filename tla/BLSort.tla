--------------------------------- MODULE BLSort ---------------------------------
(***************************************************************************)
(* The sorting algorithms of BL_SORT/bl_sort.c, each as an operator that    *)
(* takes an array to what the algorithm leaves.  An array is a sequence, so *)
(* its positions are one more than the indexes of the code, and a position  *)
(* just before the array, as a pointer of the code may reach, is 0: what    *)
(* reads or writes there has no value.  What is beyond the memory a sort    *)
(* allocates for itself leads to Outside.                                   *)
(***************************************************************************)
EXTENDS PartitionSteps, Sequences, SequencesExt

CONSTANTS BL_SORT_MERGE_THRESHOLD,  \* 24 in the code
          BL_SORT_QUICK_THRESHOLD   \* 16 in the code

ASSUME ThresholdAssumption == /\ BL_SORT_MERGE_THRESHOLD \in Nat \ {0}
                              /\ BL_SORT_QUICK_THRESHOLD \in Nat \ {0}

(* Where a sort has written outside its own memory nothing can be said of   *)
(* the array.                                                               *)
Outside == <<>>

(* Mutant: the search stops at the first element it looks at. *)
PlacedNear(a, first, i) ==
    IF a[i - 1] <= a[i] THEN a ELSE InsertAt(RemoveAt(a, i), i - 1, a[i])

(* Insertion, from the position first on: element i goes after the last of  *)
(* those before it that is not greater.                                     *)
Placed(a, first, i) ==
    LET stops == {k \in first .. i - 1 : a[k] <= a[i]}
        j == IF stops = {} THEN first ELSE Max(stops) + 1
    IN InsertAt(RemoveAt(a, i), j, a[i])

Insertion(a, first, last) ==
    FoldLeft(LAMBDA b, i : Placed(b, first, i), a, [k \in 1 .. last - first |-> first + k])
-----------------------------------------------------------------------------
(* Heap sort. *)
RECURSIVE SiftUp(_, _)
SiftUp(a, j) == IF j > 1 /\ a[j \div 2] < a[j] THEN SiftUp(Swap(a, j, j \div 2), j \div 2)
                ELSE a

(* Mutant: the right child is taken whenever there is one. *)
GreaterChildRight(a, i, end) == IF 2 * i + 1 <= end THEN 2 * i + 1 ELSE 2 * i

(* The child i may have to change places with, among the first end elements. *)
GreaterChild(a, i, end) ==
    IF 2 * i + 1 <= end /\ a[2 * i + 1] >= a[2 * i] THEN 2 * i + 1 ELSE 2 * i

RECURSIVE SiftDown(_, _, _)
SiftDown(a, i, end) ==
    LET c == GreaterChild(a, i, end)
    IN IF c <= end /\ a[i] < a[c] THEN SiftDown(Swap(a, i, c), c, end) ELSE a

HeapSort(a) ==
    LET n == Len(a)
        heap == FoldLeft(SiftUp, a, [k \in 1 .. n - 1 |-> k + 1])
    IN FoldLeft(LAMBDA b, end : SiftDown(Swap(b, 1, end), 1, end - 1),
                heap, [k \in 1 .. n - 1 |-> n + 1 - k])
-----------------------------------------------------------------------------
(* Mutant: once one half is used up the other is dropped. *)
MergedShort(buf, rest, first) ==
    LET RECURSIVE M(_, _)
        M(b, r) == IF b = <<>> \/ r = <<>> THEN r
                   ELSE IF b[1] < r[1] \/ (first /\ b[1] = r[1]) THEN <<b[1]>> \o M(Tail(b), r)
                   ELSE <<r[1]>> \o M(b, Tail(r))
    IN M(buf, rest)

(* The elements of the buffer and those that stay in the array.  On equal   *)
(* elements merge takes that of the buffer first, nrmerge the other.        *)
Merged(buf, rest, first) ==
    LET RECURSIVE M(_, _)
        M(b, r) == IF b = <<>> THEN r ELSE IF r = <<>> THEN b
                   ELSE IF b[1] < r[1] \/ (first /\ b[1] = r[1]) THEN <<b[1]>> \o M(Tail(b), r)
                   ELSE <<r[1]>> \o M(b, Tail(r))
    IN M(buf, rest)

(* left .. middle, the half that is copied to the buffer, of size elements. *)
FirstHalf(size) == (size - 1) \div 2 + 1

(* The buffer has room for so many elements. *)
RECURSIVE MergeWith(_, _)
MergeWith(room, a) ==
    LET n == Len(a)
        h == FirstHalf(n)
        low == MergeWith(room, SubSeq(a, 1, h))
        high == MergeWith(room, SubSeq(a, h + 1, n))
    IN IF n <= BL_SORT_MERGE_THRESHOLD THEN Insertion(a, 1, n)
       ELSE IF h > room \/ Outside \in {low, high} THEN Outside
       ELSE Merged(low, high, TRUE)

BufferSize(size) == size \div 2
MergeSort(a) == MergeWith(BufferSize(Len(a)), a)

(* The most elements that are ever copied into the buffer. *)
RECURSIVE BufferNeed(_)
BufferNeed(size) ==
    LET h == FirstHalf(size)
    IN IF size <= BL_SORT_MERGE_THRESHOLD THEN 0
       ELSE Max({h, BufferNeed(h), BufferNeed(size - h)})

(* nrmerge: the block after index into the buffer, and back with the next.  *)
MergeBlocks(a, index, block) ==
    LET n == Len(a)
        end == Min({n, index + 2 * block})
    IN IF n - index <= block THEN a
       ELSE SubSeq(a, 1, index)
              \o Merged(SubSeq(a, index + 1, index + block),
                        SubSeq(a, index + block + 1, end), FALSE)
              \o SubSeq(a, end + 1, n)

RECURSIVE MergePasses(_, _, _)
MergePasses(a, block, merge_block) ==
    LET Pass == FoldLeft(LAMBDA b, k : MergeBlocks(b, 2 * block * (k - 1), block), a,
                         [k \in 1 .. (Len(a) - 1) \div (2 * block) + 1 |-> k])
    IN IF merge_block >= Len(a) THEN a ELSE MergePasses(Pass, 2 * block, 2 * block)

NrMerge(a) == IF Len(a) <= 2 THEN Insertion(a, 1, Len(a)) ELSE MergePasses(a, 1, 2)
-----------------------------------------------------------------------------
(* Quick sort.  part is the first of the elements equal to the pivot that   *)
(* are kept at the end, right the pivot itself.                             *)
Pivot(left, right) == left + 2 * ((right - left + 1) \div 4)

(* lo has come to an element equal to the pivot, which changes places with  *)
(* the one before the pivots.                                               *)
ScanUp(a, f) == [f EXCEPT !.part = @ - 1, !.hi = IF @ = f.part - 1 THEN @ - 1 ELSE @]

RECURSIVE QuickScan(_, _), QuickDown(_, _)
QuickScan(a, f) ==
    CASE f.lo > f.hi -> <<a, f>>
      [] f.lo <= f.hi /\ a[f.lo] > a[f.right] -> QuickDown(a, f)
      [] f.lo <= f.hi /\ a[f.lo] = a[f.right] ->
           QuickScan(Swap(a, f.lo, f.part - 1), ScanUp(a, f))
      [] f.lo <= f.hi /\ a[f.lo] < a[f.right] -> QuickScan(a, [f EXCEPT !.lo = @ + 1])

(* The loop that goes down from hi, and lo++ after it. *)
QuickDown(a, f) ==
    CASE f.lo >= f.hi -> QuickScan(a, [f EXCEPT !.lo = @ + 1])
      [] f.lo < f.hi /\ a[f.hi] < a[f.right] ->
           QuickScan(Swap(a, f.lo, f.hi), [f EXCEPT !.lo = @ + 1, !.hi = @ - 1])
      [] f.lo < f.hi /\ a[f.hi] = a[f.right] ->
           IF f.hi # f.part - 1
             THEN QuickDown(Swap(a, f.hi, f.part - 1), [f EXCEPT !.part = @ - 1])
             ELSE QuickDown(a, [f EXCEPT !.part = @ - 1, !.hi = @ - 1])
      [] f.lo < f.hi /\ a[f.hi] > a[f.right] -> QuickDown(a, [f EXCEPT !.hi = @ - 1])

(* Mutant: the last pivot is left at the end. *)
RECURSIVE PivotsToMiddleButOne(_, _, _, _)
PivotsToMiddleButOne(a, hi, pivot, part) ==
    IF hi # part /\ pivot > part
      THEN PivotsToMiddleButOne(Swap(a, hi, pivot), hi + 1, pivot - 1, part)
      ELSE <<a, IF hi <= pivot /\ hi >= part THEN pivot + 1 ELSE hi>>

RECURSIVE PivotsToMiddle(_, _, _, _)
PivotsToMiddle(a, hi, pivot, part) ==
    IF hi # part /\ pivot >= part
      THEN PivotsToMiddle(Swap(a, hi, pivot), hi + 1, pivot - 1, part)
      ELSE <<a, IF hi <= pivot /\ hi >= part THEN pivot + 1 ELSE hi>>

(* The array, where the pivots begin and what follows them. *)
QuickPartition(a, left, right) ==
    LET scan == QuickScan(Swap(a, Pivot(left, right), right),
                          [lo |-> left, hi |-> right - 1, part |-> right, right |-> right])
        b == scan[1]
        f == scan[2]
        lo == IF f.hi < left \/ b[f.hi] < b[right] THEN f.hi + 1 ELSE f.hi
        end == PivotsToMiddle(b, lo, right, f.part)
    IN <<end[1], lo, end[2]>>

(* An empty part goes from a position to the one before it: its size, that  *)
(* wraps where this is index -1, comes out as 0.                            *)
RECURSIVE QuickParts(_, _, _)
QuickParts(a, left, right) ==
    LET p == QuickPartition(a, left, right)
    IN IF right - left + 1 <= BL_SORT_QUICK_THRESHOLD THEN a
       ELSE IF p[2] - left > right + 1 - p[3]
              THEN QuickParts(QuickParts(p[1], p[3], right), left, p[2] - 1)
              ELSE QuickParts(QuickParts(p[1], left, p[2] - 1), p[3], right)

QuickSort(a) == Insertion(QuickParts(a, 1, Len(a)), 1, Len(a))
-----------------------------------------------------------------------------
(* bl_sort_qsort_: its partition is that of bl_thread.c, by pointers.       *)
RECURSIVE PartitionFrom(_, _)
PartitionFrom(f, a) == IF f.at = "done" THEN <<f, a>>
                       ELSE LET next == PartitionStep(f, a)
                            IN PartitionFrom(next[1], next[2])

(* Parts of one element at most are not pushed (BL_SORT_QSORT_THRESHOLD).   *)
PushParts(stack, f) ==
    LET Part(s, size) == IF size > 1 THEN <<s>> ELSE <<>>
        low == Part(<<f.start, f.lo>>, LowSize(f))
        high == Part(<<f.hi, f.end>>, HighSize(f))
    IN stack \o IF LowSize(f) > HighSize(f) THEN low \o high ELSE high \o low

(* The array, and the most segments that were on the stack. *)
RECURSIVE QSortRounds(_, _, _)
QSortRounds(a, stack, most) ==
    IF stack = <<>> THEN <<a, most>>
    ELSE LET s == Last(stack)
             p == PartitionFrom(Frame(s[1], s[2]), a)
         IN QSortRounds(p[2], PushParts(Front(stack), p[1]), Max({most, Len(stack)}))

QSort(a) == IF Len(a) <= 1 THEN <<a, 0>> ELSE QSortRounds(a, << <<1, Len(a)>> >>, 1)
-----------------------------------------------------------------------------
(* An int of 32 bits times ten, by its halves. *)
Half == 2 ^ 16
TimesTen(n) ==
    LET low == (n % Half) * 10
        high == ((n \div Half) * 10 + low \div Half) % Half
    IN (IF high < Half \div 2 THEN high ELSE high - Half) * Half + (low % Half)

(* / and % of C, towards zero: what is left of a negative number is         *)
(* negative too.                                                            *)
Quotient(n, d) == LET q == (IF n < 0 THEN -n ELSE n) \div (IF d < 0 THEN -d ELSE d)
                  IN IF (n < 0) = (d < 0) THEN q ELSE -q
Digit(n, sig_dig) == LET q == Quotient(n, sig_dig) IN q - 10 * Quotient(q, 10)

(* Mutant: elements with the same digit come out in the other order.        *)
ByDigitTurned(a, sig_dig) ==
    IF \E n \in Range(a) : Digit(n, sig_dig) \notin 0 .. 9 THEN Outside
    ELSE FlattenSeq([d \in 1 .. 10 |->
                       Reverse(SelectSeq(a, LAMBDA n : Digit(n, sig_dig) = d - 1))])

(* The buckets, each filled in the order of the array.  There are ten; a    *)
(* negative digit counts in one before them.                                *)
ByDigit(a, sig_dig) ==
    IF \E n \in Range(a) : Digit(n, sig_dig) \notin 0 .. 9 THEN Outside
    ELSE FlattenSeq([d \in 1 .. 10 |-> SelectSeq(a, LAMBDA n : Digit(n, sig_dig) = d - 1)])

(* sig_dig is multiplied by 10 each round; at last it may have wrapped.     *)
RECURSIVE RadixRounds(_, _)
RadixRounds(a, sig_dig) ==
    IF a # Outside /\ Quotient(Max(Range(a)), sig_dig) > 0
      THEN RadixRounds(ByDigit(a, sig_dig), TimesTen(sig_dig))
      ELSE a

RadixSort(a) == RadixRounds(a, 1)
=============================================================================
