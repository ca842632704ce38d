----------------------------- MODULE PartitionProofs -----------------------------
(***************************************************************************)
(* Proofs about PartitionSteps: what is true of a worker's locals and of    *)
(* its segment of the array before and after every round of every loop, for *)
(* any array of any size, and that a round only exchanges elements of the   *)
(* segment.                                                                *)
(***************************************************************************)
EXTENDS PartitionSteps, QSortArray, TLAPS

(* What an index stands for: lo or hi counted below 0 is (size_t)0 - 1.     *)
Signed(x) == IF x = SizeMax THEN -1 ELSE x

Phase == {"pivot", "scan", "down", "lows", "highs", "done"}
FrameType == [at : Phase, lo : 0 .. SizeMax, hi : 0 .. SizeMax, start : Nat, end : Nat,
              pivot_lsect : Nat, pivot_hsect : Nat, pivot : Int]

(* Where the indexes of a worker are, by the loop it is in.  Elements beyond *)
(* pivot_hsect are pivots, and there is one at least: this leaves a gap of  *)
(* one element at least between the two parts at the end.                   *)
Scanning(f) ==
    /\ f.start <= f.pivot_lsect /\ f.pivot_lsect <= f.lo
    /\ f.pivot_lsect <= f.hi + 1 /\ f.lo <= f.hi + 2
    /\ f.hi <= f.pivot_hsect /\ f.pivot_hsect < f.end
GoingDown(f) ==
    /\ f.start <= f.pivot_lsect /\ f.pivot_lsect <= f.lo
    /\ f.lo <= Signed(f.hi) + 1 /\ Signed(f.hi) <= f.pivot_hsect
    /\ f.lo <= f.pivot_hsect /\ f.pivot_hsect < f.end
Gathering(f) ==
    /\ f.start <= f.pivot_lsect /\ f.pivot_lsect <= Signed(f.lo) + 1
    /\ Signed(f.lo) < f.hi /\ f.hi <= f.pivot_hsect + 1 /\ f.pivot_hsect <= f.end
    /\ Signed(f.lo) + 2 <= f.hi + (f.end - f.pivot_hsect)

Places(f) ==
    /\ f \in FrameType
    /\ f.start < f.end /\ f.end < SizeMax
    /\ f.at = "pivot" => /\ f.lo = f.start /\ f.hi = f.end
                         /\ f.pivot_lsect = f.start /\ f.pivot_hsect = f.end
    /\ f.at = "scan" => Scanning(f)
    /\ f.at = "down" => GoingDown(f)
    /\ f.at \in {"lows", "highs", "done"} => Gathering(f)
    /\ f.at = "lows" => f.pivot_hsect < f.end
    /\ f.at \in {"highs", "done"} => f.pivot_lsect = f.start
    /\ f.at = "done" => f.pivot_hsect = f.end

(* |=P|<P|  |>P|=P| while lo and hi close in: the low part ends before l,   *)
(* the high one begins after h.                                             *)
ClosingIn(f, a, l, h) ==
    \A k \in f.start .. f.end :
       /\ k < f.pivot_lsect => a[k] = f.pivot
       /\ f.pivot_lsect <= k /\ k < l /\ k <= h => a[k] < f.pivot
       /\ h < k /\ k <= f.pivot_hsect => a[k] > f.pivot
       /\ f.pivot_hsect < k => a[k] = f.pivot

(* |=P|<P|=P|>P|=P| while the pivots are brought between the parts.         *)
Gathered(f, a, l) ==
    \A k \in f.start .. f.end :
       /\ k < f.pivot_lsect => a[k] = f.pivot
       /\ f.pivot_lsect <= k /\ k <= l => a[k] < f.pivot
       /\ l < k /\ k < f.hi => a[k] = f.pivot
       /\ f.hi <= k /\ k <= f.pivot_hsect => a[k] > f.pivot
       /\ f.pivot_hsect < k => a[k] = f.pivot

Divided(f, a) ==
    /\ f.at = "scan" => ClosingIn(f, a, f.lo, f.hi)
    /\ f.at = "down" => ClosingIn(f, a, f.lo, Signed(f.hi)) /\ a[f.lo] > f.pivot
    /\ f.at \in {"lows", "highs", "done"} => Gathered(f, a, Signed(f.lo))

(* b has the elements of a that are in S in some order. *)
Shuffled(a, b, S) == \E q \in Shuffles(S) : \A i \in S : b[i] = a[q[i]]

Segm(f) == f.start .. f.end

(* b is a, of type V, but for the order of the elements that are in S. *)
Moved(a, b, S, V) ==
    /\ b \in [DOMAIN a -> V]
    /\ Shuffled(a, b, S)
    /\ \A k \in DOMAIN a \ S : b[k] = a[k]

(* What a round that takes f and a to g and b shall have done. *)
RoundKeeps(f, a, g, b) ==
    /\ Places(g) /\ Divided(g, b)
    /\ g.start = f.start /\ g.end = f.end
    /\ Moved(a, b, Segm(f), Int)
-----------------------------------------------------------------------------
LEMMA SizeMaxIs == SizeMax \in Nat /\ SizeMax > 0
BY SizeMaxAssumption

LEMMA WrapIs ==
    ASSUME NEW x \in Int
    PROVE  /\ Wrap(x) \in 0 .. SizeMax
           /\ 0 <= x /\ x <= SizeMax => Wrap(x) = x
           /\ x = -1 => Wrap(x) = SizeMax
BY SizeMaxIs DEF Wrap

LEMMA SwapIs ==
    ASSUME NEW D, NEW a \in [D -> Int], NEW i \in D, NEW j \in D
    PROVE  /\ Swap(a, i, j) \in [D -> Int]
           /\ \A k \in D : Swap(a, i, j)[k] = IF k = i THEN a[j]
                                              ELSE IF k = j THEN a[i] ELSE a[k]
BY DEF Swap

(* To leave the elements as they are, to exchange two and to do one after   *)
(* another are all to shuffle them.                                         *)
LEMMA ShuffledSame ==
    ASSUME NEW a, NEW S
    PROVE  Shuffled(a, a, S)
<1>1. [i \in S |-> i] \in Shuffles(S) BY DEF Shuffles
<1> QED BY <1>1 DEF Shuffled

LEMMA ShuffledTwice ==
    ASSUME NEW a, NEW b, NEW c, NEW S, Shuffled(a, b, S), Shuffled(b, c, S)
    PROVE  Shuffled(a, c, S)
<1>1. PICK p \in Shuffles(S) : \A i \in S : b[i] = a[p[i]] BY DEF Shuffled
<1>2. PICK q \in Shuffles(S) : \A i \in S : c[i] = b[q[i]] BY DEF Shuffled
<1> DEFINE r == [i \in S |-> p[q[i]]]
<1>3. /\ p \in [S -> S] /\ \A i, j \in S : p[i] = p[j] => i = j
      /\ q \in [S -> S] /\ \A i, j \in S : q[i] = q[j] => i = j
  BY DEF Shuffles
<1>4. r \in Shuffles(S) BY <1>3 DEF Shuffles
<1>5. \A i \in S : c[i] = a[r[i]] BY <1>1, <1>2, <1>3
<1> QED BY <1>4, <1>5 DEF Shuffled

LEMMA ShuffledSwap ==
    ASSUME NEW D, NEW a \in [D -> Int], NEW S \in SUBSET D, NEW i \in S, NEW j \in S
    PROVE  Shuffled(a, Swap(a, i, j), S)
<1> DEFINE q == [k \in S |-> IF k = i THEN j ELSE IF k = j THEN i ELSE k]
<1>1. q \in Shuffles(S) BY DEF Shuffles
<1>2. \A k \in S : Swap(a, i, j)[k] = a[q[k]] BY SwapIs
<1> QED BY <1>1, <1>2 DEF Shuffled

LEMMA MovedNot ==
    ASSUME NEW V, NEW D, NEW a \in [D -> V], NEW S
    PROVE  Moved(a, a, S, V)
BY ShuffledSame DEF Moved

LEMMA MovedTwice ==
    ASSUME NEW V, NEW a, NEW b, NEW c, NEW S, Moved(a, b, S, V), Moved(b, c, S, V)
    PROVE  Moved(a, c, S, V)
<1>1. DOMAIN b = DOMAIN a BY DEF Moved
<1>2. Shuffled(a, c, S) BY ShuffledTwice DEF Moved
<1> QED BY <1>1, <1>2 DEF Moved

LEMMA MovedSwap ==
    ASSUME NEW D, NEW a \in [D -> Int], NEW S \in SUBSET D, NEW i \in S, NEW j \in S
    PROVE  Moved(a, Swap(a, i, j), S, Int)
<1>1. DOMAIN a = D OBVIOUS
<1>2. Swap(a, i, j) \in [D -> Int] BY SwapIs
<1>3. ASSUME NEW k \in D, k \notin S PROVE Swap(a, i, j)[k] = a[k]
  <2>1. i \in D /\ j \in D /\ k # i /\ k # j BY <1>3
  <2> QED BY <2>1, SwapIs
<1> QED BY <1>1, <1>2, <1>3, ShuffledSwap DEF Moved
-----------------------------------------------------------------------------

(* What a round keeps, from the pair it takes f and a to. *)
LEMMA RoundIs ==
    ASSUME NEW f, NEW a, NEW g, NEW b, NEW p, p = <<g, b>>, RoundKeeps(f, a, g, b)
    PROVE  RoundKeeps(f, a, p[1], p[2])
<1>1. p[1] = g /\ p[2] = b OBVIOUS
<1> QED BY <1>1

LEMMA FrameFields ==
    ASSUME NEW f \in FrameType
    PROVE  /\ f.start \in Nat /\ f.end \in Nat /\ f.pivot \in Int
           /\ f.lo \in Nat /\ f.lo <= SizeMax /\ f.hi \in Nat /\ f.hi <= SizeMax
           /\ f.pivot_lsect \in Nat /\ f.pivot_hsect \in Nat
BY SizeMaxIs DEF FrameType
-----------------------------------------------------------------------------
(* The places of a worker that has met the end of the scan, at h: the same  *)
(* for either loop.                                                         *)
LEMMA EndScanIs ==
    ASSUME NEW f \in FrameType, NEW h \in Int, h = Signed(f.hi), h < SizeMax
    PROVE  /\ EndScan(f) \in FrameType
           /\ EndScan(f).at = "lows" /\ EndScan(f).lo = f.hi /\ EndScan(f).hi = h + 1
           /\ EndScan(f).start = f.start /\ EndScan(f).end = f.end
           /\ EndScan(f).pivot = f.pivot
           /\ EndScan(f).pivot_lsect = f.pivot_lsect
           /\ EndScan(f).pivot_hsect = f.pivot_hsect
<1>1. Wrap(f.hi + 1) = h + 1
  <2>1. f.hi \in Nat /\ f.hi <= SizeMax BY FrameFields
  <2>2. CASE f.hi = SizeMax
    <3>1. (SizeMax + 1) % (SizeMax + 1) = 0 BY SizeMaxIs
    <3> QED BY <2>2, <3>1, SizeMaxIs DEF Signed, Wrap
  <2>3. CASE f.hi # SizeMax
    BY <2>1, <2>3, WrapIs, SizeMaxIs DEF Signed
  <2> QED BY <2>2, <2>3
<1>2. h + 1 \in 0 .. SizeMax BY FrameFields, SizeMaxIs DEF Signed
<1>3. f.hi \in 0 .. SizeMax BY DEF FrameType
<1> QED BY <1>1, <1>2, <1>3 DEF EndScan, FrameType, Phase

(* A round of while(lo <= hi). *)
LEMMA ScanLowKeeps ==
    ASSUME NEW D, NEW a \in [D -> Int], NEW f, Segm(f) \subseteq D,
           Places(f), Divided(f, a), f.at = "scan"
    PROVE  RoundKeeps(f, a, ScanLow(f, a)[1], ScanLow(f, a)[2])
<1> DEFINE S == Segm(f)
<1>1. /\ f \in FrameType /\ f.start < f.end /\ f.end < SizeMax
      /\ Scanning(f) /\ ClosingIn(f, a, f.lo, f.hi)
  BY DEF Places, Divided
<1>2. /\ f.start \in Nat /\ f.end \in Nat /\ f.lo \in Nat /\ f.hi \in Nat
      /\ f.pivot_lsect \in Nat /\ f.pivot_hsect \in Nat /\ f.pivot \in Int
  BY <1>1, FrameFields
<1>3. \A k \in S : k \in D /\ a[k] \in Int OBVIOUS
<1>4. CASE f.lo > f.hi
  <2> DEFINE g == EndScan(f)
  <2>1. ScanLow(f, a) = <<g, a>> BY <1>2, <1>4 DEF ScanLow
  <2>2. f.hi = Signed(f.hi) /\ f.hi < SizeMax BY <1>1, <1>2, SizeMaxIs DEF Signed, Scanning
  <2>3. /\ g \in FrameType /\ g.at = "lows" /\ g.lo = f.hi /\ g.hi = f.hi + 1
        /\ g.start = f.start /\ g.end = f.end /\ g.pivot = f.pivot
        /\ g.pivot_lsect = f.pivot_lsect /\ g.pivot_hsect = f.pivot_hsect
    BY <1>1, <1>2, <2>2, EndScanIs
  <2> HIDE DEF g
  <2>4. Signed(g.lo) = f.hi BY <2>2, <2>3
  <2>5. Places(g)
    BY <1>1, <1>2, <1>4, <2>3, <2>4 DEF Places, Gathering, Scanning
  <2>6. Gathered(g, a, f.hi)
    BY <1>1, <1>2, <1>4, <2>3 DEF Gathered, ClosingIn, Scanning
  <2>7. Divided(g, a) BY <2>3, <2>4, <2>6 DEF Divided
  <2>8. RoundKeeps(f, a, g, a) BY <2>3, <2>5, <2>7, MovedNot DEF RoundKeeps
  <2> QED BY <2>1, <2>8, RoundIs
<1>5. CASE f.lo <= f.hi
  <2>1. f.lo \in S /\ f.pivot_lsect \in S BY <1>1, <1>2, <1>5 DEF Scanning, Segm
  <2>2. Wrap(f.lo + 1) = f.lo + 1 /\ Wrap(f.pivot_lsect + 1) = f.pivot_lsect + 1
    BY <1>1, <1>2, <1>5, WrapIs, SizeMaxIs DEF Scanning
  <2>3. CASE a[f.lo] > f.pivot
    <3> DEFINE g == [f EXCEPT !.at = "down"]
    <3>1. ScanLow(f, a) = <<g, a>>
      BY <1>2, <1>3, <1>5, <2>1, <2>3 DEF ScanLow
    <3>2. /\ g \in FrameType /\ g.at = "down" /\ g.lo = f.lo /\ g.hi = f.hi
          /\ g.start = f.start /\ g.end = f.end /\ g.pivot = f.pivot
          /\ g.pivot_lsect = f.pivot_lsect /\ g.pivot_hsect = f.pivot_hsect
      BY <1>1 DEF FrameType, Phase
    <3> HIDE DEF g
    <3>3. Signed(g.hi) = f.hi BY <1>1, <1>2, <3>2, SizeMaxIs DEF Signed, Scanning
    <3>4. Places(g) BY <1>1, <1>2, <1>5, <3>2, <3>3 DEF Places, GoingDown, Scanning
    <3>5. ClosingIn(g, a, g.lo, f.hi) BY <1>1, <3>2 DEF ClosingIn
    <3>6. Divided(g, a) BY <2>3, <3>2, <3>3, <3>5 DEF Divided
    <3>7. RoundKeeps(f, a, g, a) BY <3>2, <3>4, <3>6, MovedNot DEF RoundKeeps
    <3> QED BY <3>1, <3>7, RoundIs
  <2>4. CASE a[f.lo] = f.pivot
    <3> DEFINE g == [f EXCEPT !.pivot_lsect = Wrap(f.pivot_lsect + 1), !.lo = Wrap(f.lo + 1)]
               b == Swap(a, f.lo, f.pivot_lsect)
    <3>1. ScanLow(f, a) = <<g, b>>
      <4>1. ~(f.lo > f.hi) /\ ~(a[f.lo] > f.pivot) BY <1>2, <1>5, <2>4
      <4> QED BY <1>5, <2>4, <4>1 DEF ScanLow
    <3>2. /\ g \in FrameType /\ g.at = "scan" /\ g.lo = f.lo + 1 /\ g.hi = f.hi
          /\ g.start = f.start /\ g.end = f.end /\ g.pivot = f.pivot
          /\ g.pivot_lsect = f.pivot_lsect + 1 /\ g.pivot_hsect = f.pivot_hsect
      <4>1. f.lo + 1 \in 0 .. SizeMax /\ f.pivot_lsect + 1 \in Nat
        BY <1>1, <1>2, <1>5, SizeMaxIs DEF Scanning
      <4> QED BY <1>1, <2>2, <4>1 DEF FrameType
    <3>3. \A k \in S : b[k] = IF k = f.lo THEN a[f.pivot_lsect]
                              ELSE IF k = f.pivot_lsect THEN a[f.lo] ELSE a[k]
      BY <1>3, <2>1, SwapIs
    <3>4. Moved(a, b, S, Int) BY <2>1, MovedSwap
    <3> HIDE DEF g, b
    <3>5. Places(g) BY <1>1, <1>2, <1>5, <3>2 DEF Places, Scanning
    <3>6. ClosingIn(g, b, g.lo, g.hi)
      BY <1>1, <1>2, <1>3, <1>5, <2>1, <2>4, <3>2, <3>3 DEF ClosingIn, Scanning, Segm
    <3>7. Divided(g, b) BY <3>2, <3>6 DEF Divided
    <3>8. RoundKeeps(f, a, g, b) BY <3>2, <3>4, <3>5, <3>7 DEF RoundKeeps
    <3> QED BY <3>1, <3>8, RoundIs
  <2>5. CASE a[f.lo] < f.pivot
    <3> DEFINE g == [f EXCEPT !.lo = Wrap(f.lo + 1)]
    <3>1. ScanLow(f, a) = <<g, a>>
      <4>1. ~(f.lo > f.hi) /\ ~(a[f.lo] > f.pivot) /\ a[f.lo] # f.pivot
        BY <1>2, <1>3, <1>5, <2>1, <2>5
      <4> QED BY <1>5, <2>5, <4>1 DEF ScanLow
    <3>2. /\ g \in FrameType /\ g.at = "scan" /\ g.lo = f.lo + 1 /\ g.hi = f.hi
          /\ g.start = f.start /\ g.end = f.end /\ g.pivot = f.pivot
          /\ g.pivot_lsect = f.pivot_lsect /\ g.pivot_hsect = f.pivot_hsect
      <4>1. f.lo + 1 \in 0 .. SizeMax BY <1>1, <1>2, <1>5, SizeMaxIs DEF Scanning
      <4> QED BY <1>1, <2>2, <4>1 DEF FrameType
    <3> HIDE DEF g
    <3>3. Places(g) BY <1>1, <1>2, <1>5, <3>2 DEF Places, Scanning
    <3>4. ClosingIn(g, a, g.lo, g.hi)
      BY <1>1, <1>2, <1>3, <1>5, <2>1, <2>5, <3>2 DEF ClosingIn, Scanning, Segm
    <3>5. Divided(g, a) BY <3>2, <3>4 DEF Divided
    <3>6. RoundKeeps(f, a, g, a) BY <3>2, <3>3, <3>5, MovedNot DEF RoundKeeps
    <3> QED BY <3>1, <3>6, RoundIs
  <2> QED BY <1>2, <1>3, <2>1, <2>3, <2>4, <2>5
<1> QED BY <1>2, <1>4, <1>5

(* A round of the inner loop. *)
LEMMA ScanDownKeeps ==
    ASSUME NEW D, NEW a \in [D -> Int], NEW f, Segm(f) \subseteq D,
           Places(f), Divided(f, a), f.at = "down"
    PROVE  RoundKeeps(f, a, ScanDown(f, a)[1], ScanDown(f, a)[2])
<1> DEFINE S == Segm(f)
           h == Signed(f.hi)
           down == [f EXCEPT !.hi = Wrap(f.hi - 1)]
<1>1. /\ f \in FrameType /\ f.start < f.end /\ f.end < SizeMax
      /\ GoingDown(f) /\ ClosingIn(f, a, f.lo, h) /\ a[f.lo] > f.pivot
  BY DEF Places, Divided
<1>2. /\ f.start \in Nat /\ f.end \in Nat /\ f.lo \in Nat /\ f.hi \in Nat
      /\ f.pivot_lsect \in Nat /\ f.pivot_hsect \in Nat /\ f.pivot \in Int
      /\ f.hi <= SizeMax /\ SizeMax \in Nat
  BY <1>1, FrameFields, SizeMaxIs
<1>3. \A k \in S : k \in D /\ a[k] \in Int OBVIOUS
<1>4. f.lo \in S /\ f.pivot_hsect \in S BY <1>1, <1>2 DEF GoingDown, Segm
<1>5. CASE f.hi = SizeMax
  <2> DEFINE g == EndScan(f)
  <2>1. ScanDown(f, a) = <<g, a>> BY <1>5 DEF ScanDown, EndDown
  <2>2. h = -1 BY <1>5 DEF Signed
  <2>3. /\ g \in FrameType /\ g.at = "lows" /\ g.lo = f.hi /\ g.hi = 0
        /\ g.start = f.start /\ g.end = f.end /\ g.pivot = f.pivot
        /\ g.pivot_lsect = f.pivot_lsect /\ g.pivot_hsect = f.pivot_hsect
    BY <1>1, <1>2, <2>2, EndScanIs
  <2> HIDE DEF g
  <2>4. Signed(g.lo) = -1 BY <2>2, <2>3
  <2>5. Places(g) BY <1>1, <1>2, <2>2, <2>3, <2>4 DEF Places, Gathering, GoingDown
  <2>6. Gathered(g, a, -1)
    BY <1>1, <1>2, <2>2, <2>3 DEF Gathered, ClosingIn, GoingDown
  <2>7. Divided(g, a) BY <2>3, <2>4, <2>6 DEF Divided
  <2>8. RoundKeeps(f, a, g, a) BY <2>3, <2>5, <2>7, MovedNot DEF RoundKeeps
  <2> QED BY <2>1, <2>8, RoundIs
<1>6. CASE f.hi # SizeMax /\ f.lo > f.hi
  <2> DEFINE g == [f EXCEPT !.at = "scan", !.lo = Wrap(f.lo + 1)]
  <2>1. ScanDown(f, a) = <<g, a>>
    <3>1. ~(f.lo <= f.hi) BY <1>2, <1>6
    <3> QED BY <1>6, <3>1 DEF ScanDown, EndDown
  <2>2. h = f.hi BY <1>6 DEF Signed
  <2>3. /\ g \in FrameType /\ g.at = "scan" /\ g.lo = f.lo + 1 /\ g.hi = f.hi
        /\ g.start = f.start /\ g.end = f.end /\ g.pivot = f.pivot
        /\ g.pivot_lsect = f.pivot_lsect /\ g.pivot_hsect = f.pivot_hsect
    <3>1. Wrap(f.lo + 1) = f.lo + 1 /\ f.lo + 1 \in 0 .. SizeMax
      BY <1>1, <1>2, WrapIs DEF GoingDown
    <3> QED BY <1>1, <3>1 DEF FrameType, Phase
  <2> HIDE DEF g
  <2>4. Places(g) BY <1>1, <1>2, <1>6, <2>2, <2>3 DEF Places, Scanning, GoingDown
  <2>5. ClosingIn(g, a, g.lo, g.hi)
    BY <1>1, <1>2, <1>6, <2>2, <2>3 DEF ClosingIn, GoingDown
  <2>6. Divided(g, a) BY <2>3, <2>5 DEF Divided
  <2>7. RoundKeeps(f, a, g, a) BY <2>3, <2>4, <2>6, MovedNot DEF RoundKeeps
  <2> QED BY <2>1, <2>7, RoundIs
<1>7. CASE f.hi # SizeMax /\ f.lo <= f.hi
  <2>1. h = f.hi BY <1>7 DEF Signed
  <2>2. f.hi \in S BY <1>1, <1>2, <1>7, <2>1 DEF GoingDown, Segm
  <2>3. CASE a[f.hi] < f.pivot
    <3> DEFINE g == [down EXCEPT !.at = "scan", !.lo = Wrap(f.lo + 1)]
               b == Swap(a, f.lo, f.hi)
    <3>1. f.lo < f.hi
      <4>1. f.lo # f.hi BY <1>1, <1>2, <1>3, <1>4, <2>3
      <4> QED BY <1>2, <1>7, <4>1
    <3>2. /\ Wrap(f.lo + 1) = f.lo + 1 /\ f.lo + 1 \in 0 .. SizeMax
          /\ Wrap(f.hi - 1) = f.hi - 1 /\ f.hi - 1 \in 0 .. SizeMax
      BY <1>1, <1>2, <3>1, WrapIs DEF GoingDown
    <3>3. down \in FrameType /\ down.hi = f.hi - 1 /\ down.lo = f.lo
      BY <1>1, <3>2 DEF FrameType
    <3>4. ScanDown(f, a) = <<g, b>>
      <4>1. down.hi # SizeMax BY <1>2, <3>3
      <4>2. EndDown(down) = g BY <3>3, <4>1 DEF EndDown
      <4> DEFINE atEnd == <<EndDown(f), a>>
                 below == <<EndDown(down), b>>
                 equal == <<[down EXCEPT !.pivot_hsect = Wrap(@ - 1)],
                            Swap(a, f.hi, f.pivot_hsect)>>
                 above == <<down, a>>
      <4>3. ScanDown(f, a) =
              CASE ~(f.lo <= f.hi /\ f.hi # SizeMax) -> atEnd
                [] (f.lo <= f.hi /\ f.hi # SizeMax) /\ a[f.hi] < f.pivot -> below
                [] (f.lo <= f.hi /\ f.hi # SizeMax) /\ a[f.hi] = f.pivot -> equal
                [] (f.lo <= f.hi /\ f.hi # SizeMax) /\ a[f.hi] > f.pivot -> above
        BY DEF ScanDown
      <4>4. ~(a[f.hi] = f.pivot) /\ ~(a[f.hi] > f.pivot) BY <1>2, <1>3, <2>2, <2>3
      <4>5. below = <<g, b>> BY <4>2, Zenon
      <4> HIDE DEF atEnd, below, equal, above
      <4>6. ScanDown(f, a) = below BY <1>7, <2>3, <4>3, <4>4
      <4> QED BY <4>5, <4>6, Zenon
    <3>5. /\ g \in FrameType /\ g.at = "scan" /\ g.lo = f.lo + 1 /\ g.hi = f.hi - 1
          /\ g.start = f.start /\ g.end = f.end /\ g.pivot = f.pivot
          /\ g.pivot_lsect = f.pivot_lsect /\ g.pivot_hsect = f.pivot_hsect
      BY <1>1, <3>2 DEF FrameType, Phase
    <3>6. \A k \in S : b[k] = IF k = f.lo THEN a[f.hi]
                              ELSE IF k = f.hi THEN a[f.lo] ELSE a[k]
      BY <1>3, <1>4, <2>2, SwapIs
    <3>7. Moved(a, b, S, Int) BY <1>4, <2>2, MovedSwap
    <3> HIDE DEF g, b
    <3>8. Places(g) BY <1>1, <1>2, <2>1, <3>1, <3>5 DEF Places, Scanning, GoingDown
    <3>9. ClosingIn(g, b, g.lo, g.hi)
      BY <1>1, <1>2, <1>3, <1>4, <2>1, <2>2, <2>3, <3>1, <3>5, <3>6
      DEF ClosingIn, GoingDown, Segm
    <3>10. Divided(g, b) BY <3>5, <3>9 DEF Divided
    <3>11. RoundKeeps(f, a, g, b) BY <3>5, <3>7, <3>8, <3>10 DEF RoundKeeps
    <3> QED BY <3>4, <3>11, RoundIs
  <2>4. CASE a[f.hi] = f.pivot
    <3> DEFINE g == [down EXCEPT !.pivot_hsect = Wrap(f.pivot_hsect - 1)]
               b == Swap(a, f.hi, f.pivot_hsect)
    <3>1. f.lo < f.hi
      <4>1. f.lo # f.hi BY <1>1, <1>2, <1>3, <1>4, <2>4
      <4> QED BY <1>2, <1>7, <4>1
    <3>2. /\ Wrap(f.pivot_hsect - 1) = f.pivot_hsect - 1 /\ f.pivot_hsect - 1 \in Nat
          /\ Wrap(f.hi - 1) = f.hi - 1 /\ f.hi - 1 \in 0 .. SizeMax
      BY <1>1, <1>2, <2>1, <3>1, WrapIs DEF GoingDown
    <3>3. down \in FrameType /\ down.pivot_hsect = f.pivot_hsect
      BY <1>1, <3>2 DEF FrameType
    <3>4. ScanDown(f, a) = <<g, b>>
      <4>1. ~(a[f.hi] < f.pivot) BY <1>2, <2>4
      <4> QED BY <1>7, <2>4, <3>3, <4>1 DEF ScanDown
    <3>5. /\ g \in FrameType /\ g.at = "down" /\ g.lo = f.lo /\ g.hi = f.hi - 1
          /\ g.start = f.start /\ g.end = f.end /\ g.pivot = f.pivot
          /\ g.pivot_lsect = f.pivot_lsect /\ g.pivot_hsect = f.pivot_hsect - 1
      BY <1>1, <3>2 DEF FrameType, Phase
    <3>6. \A k \in S : b[k] = IF k = f.hi THEN a[f.pivot_hsect]
                              ELSE IF k = f.pivot_hsect THEN a[f.hi] ELSE a[k]
      BY <1>3, <1>4, <2>2, SwapIs
    <3>7. Moved(a, b, S, Int) BY <1>4, <2>2, MovedSwap
    <3> HIDE DEF g, b
    <3>8. Signed(g.hi) = f.hi - 1 BY <1>2, <3>5 DEF Signed
    <3>9. Places(g) BY <1>1, <1>2, <2>1, <3>1, <3>5, <3>8 DEF Places, GoingDown
    <3>10. ClosingIn(g, b, g.lo, f.hi - 1)
      BY <1>1, <1>2, <1>3, <1>4, <2>1, <2>2, <2>4, <3>1, <3>5, <3>6
      DEF ClosingIn, GoingDown, Segm
    <3>11. b[g.lo] > g.pivot
      BY <1>1, <1>2, <1>4, <2>1, <3>1, <3>5, <3>6 DEF GoingDown
    <3>12. Divided(g, b) BY <3>5, <3>8, <3>10, <3>11 DEF Divided
    <3>13. RoundKeeps(f, a, g, b) BY <3>5, <3>7, <3>9, <3>12 DEF RoundKeeps
    <3> QED BY <3>4, <3>13, RoundIs
  <2>5. CASE a[f.hi] > f.pivot
    <3>1. ScanDown(f, a) = <<down, a>>
      <4>1. ~(a[f.hi] < f.pivot) /\ ~(a[f.hi] = f.pivot) BY <1>2, <1>3, <2>2, <2>5
      <4> QED BY <1>7, <2>5, <4>1 DEF ScanDown
    <3>2. Wrap(f.hi - 1) \in 0 .. SizeMax /\ Signed(Wrap(f.hi - 1)) = f.hi - 1
      BY <1>2, <1>7, WrapIs DEF Signed
    <3>3. /\ down \in FrameType /\ down.at = "down" /\ down.lo = f.lo
          /\ Signed(down.hi) = f.hi - 1
          /\ down.start = f.start /\ down.end = f.end /\ down.pivot = f.pivot
          /\ down.pivot_lsect = f.pivot_lsect /\ down.pivot_hsect = f.pivot_hsect
      BY <1>1, <3>2 DEF FrameType
    <3> HIDE DEF down
    <3>4. Places(down) BY <1>1, <1>2, <1>7, <2>1, <3>3 DEF Places, GoingDown
    <3>5. ClosingIn(down, a, f.lo, f.hi - 1)
      BY <1>1, <1>2, <1>3, <2>1, <2>2, <2>5, <3>3 DEF ClosingIn, GoingDown, Segm
    <3>6. Divided(down, a) BY <1>1, <3>3, <3>5 DEF Divided
    <3>7. RoundKeeps(f, a, down, a) BY <3>3, <3>4, <3>6, MovedNot DEF RoundKeeps
    <3> QED BY <3>1, <3>7, RoundIs
  <2> QED BY <1>2, <1>3, <2>2, <2>3, <2>4, <2>5
<1> QED BY <1>2, <1>5, <1>6, <1>7

(* A round of either loop that brings the pivots between the two parts. *)
LEMMA BringLowsKeeps ==
    ASSUME NEW D, NEW a \in [D -> Int], NEW f, Segm(f) \subseteq D,
           Places(f), Divided(f, a), f.at = "lows"
    PROVE  RoundKeeps(f, a, BringLows(f, a)[1], BringLows(f, a)[2])
<1> DEFINE S == Segm(f)
           l == Signed(f.lo)
<1>1. /\ f \in FrameType /\ f.start < f.end /\ f.end < SizeMax
      /\ Gathering(f) /\ Gathered(f, a, l) /\ f.pivot_hsect < f.end
  BY DEF Places, Divided
<1>2. /\ f.start \in Nat /\ f.end \in Nat /\ f.lo \in Nat /\ f.hi \in Nat
      /\ f.pivot_lsect \in Nat /\ f.pivot_hsect \in Nat /\ f.pivot \in Int
      /\ f.lo <= SizeMax /\ SizeMax \in Nat /\ l \in Int
  BY <1>1, FrameFields, SizeMaxIs DEF Signed
<1>3. \A k \in S : k \in D /\ a[k] \in Int OBVIOUS
<1>4. CASE ~(f.pivot_lsect > f.start)
  <2> DEFINE g == [f EXCEPT !.at = "highs"]
  <2>1. BringLows(f, a) = <<g, a>> BY <1>4 DEF BringLows
  <2>2. /\ g \in FrameType /\ g.at = "highs" /\ g.lo = f.lo /\ g.hi = f.hi
        /\ g.start = f.start /\ g.end = f.end /\ g.pivot = f.pivot
        /\ g.pivot_lsect = f.pivot_lsect /\ g.pivot_hsect = f.pivot_hsect
    BY <1>1 DEF FrameType, Phase
  <2> HIDE DEF g
  <2>3. Signed(g.lo) = l BY <2>2
  <2>4. Places(g) BY <1>1, <1>2, <1>4, <2>2, <2>3 DEF Places, Gathering
  <2>5. Gathered(g, a, l) BY <1>1, <2>2 DEF Gathered
  <2>6. Divided(g, a) BY <2>2, <2>3, <2>5 DEF Divided
  <2>7. RoundKeeps(f, a, g, a) BY <2>2, <2>4, <2>6, MovedNot DEF RoundKeeps
  <2> QED BY <2>1, <2>7, RoundIs
<1>5. CASE f.pivot_lsect > f.start
  <2> DEFINE n == f.pivot_lsect - 1
             g == [f EXCEPT !.pivot_lsect = Wrap(f.pivot_lsect - 1), !.lo = Wrap(f.lo - 1)]
             b == Swap(a, f.lo, Wrap(f.pivot_lsect - 1))
  <2>1. BringLows(f, a) = <<g, b>> BY <1>5 DEF BringLows
  <2>2. f.lo # SizeMax /\ l = f.lo BY <1>1, <1>2, <1>5 DEF Gathering, Signed
  <2>3. Wrap(f.pivot_lsect - 1) = n /\ n \in S /\ n \in Nat
    BY <1>1, <1>2, <1>5, <2>2, WrapIs DEF Gathering, Segm
  <2>4. f.lo \in S BY <1>1, <1>2, <1>5, <2>2 DEF Gathering, Segm
  <2>5. Wrap(f.lo - 1) \in 0 .. SizeMax /\ Signed(Wrap(f.lo - 1)) = l - 1
    BY <1>2, <2>2, WrapIs DEF Signed
  <2>6. /\ g \in FrameType /\ g.at = "lows" /\ Signed(g.lo) = l - 1 /\ g.hi = f.hi
        /\ g.start = f.start /\ g.end = f.end /\ g.pivot = f.pivot
        /\ g.pivot_lsect = n /\ g.pivot_hsect = f.pivot_hsect
    BY <1>1, <2>3, <2>5 DEF FrameType, Phase
  <2>7. \A k \in S : b[k] = IF k = f.lo THEN a[n] ELSE IF k = n THEN a[f.lo] ELSE a[k]
    BY <1>3, <2>3, <2>4, SwapIs
  <2>8. Moved(a, b, S, Int) BY <2>3, <2>4, MovedSwap
  <2> HIDE DEF g, b
  <2>9. Places(g) BY <1>1, <1>2, <1>5, <2>2, <2>6 DEF Places, Gathering
  <2>10. Gathered(g, b, l - 1)
    BY <1>1, <1>2, <1>3, <1>5, <2>2, <2>3, <2>4, <2>6, <2>7 DEF Gathered, Gathering, Segm
  <2>11. Divided(g, b) BY <2>6, <2>10 DEF Divided
  <2>12. RoundKeeps(f, a, g, b) BY <2>6, <2>8, <2>9, <2>11 DEF RoundKeeps
  <2> QED BY <2>1, <2>12, RoundIs
<1> QED BY <1>4, <1>5

LEMMA BringHighsKeeps ==
    ASSUME NEW D, NEW a \in [D -> Int], NEW f, Segm(f) \subseteq D,
           Places(f), Divided(f, a), f.at = "highs"
    PROVE  RoundKeeps(f, a, BringHighs(f, a)[1], BringHighs(f, a)[2])
<1> DEFINE S == Segm(f)
           l == Signed(f.lo)
<1>1. /\ f \in FrameType /\ f.start < f.end /\ f.end < SizeMax
      /\ Gathering(f) /\ Gathered(f, a, l) /\ f.pivot_lsect = f.start
  BY DEF Places, Divided
<1>2. /\ f.start \in Nat /\ f.end \in Nat /\ f.lo \in Nat /\ f.hi \in Nat
      /\ f.pivot_lsect \in Nat /\ f.pivot_hsect \in Nat /\ f.pivot \in Int
      /\ f.lo <= SizeMax /\ SizeMax \in Nat /\ l \in Int
  BY <1>1, FrameFields, SizeMaxIs DEF Signed
<1>3. \A k \in S : k \in D /\ a[k] \in Int OBVIOUS
<1>4. CASE ~(f.pivot_hsect < f.end)
  <2> DEFINE g == [f EXCEPT !.at = "done"]
  <2>1. BringHighs(f, a) = <<g, a>> BY <1>4 DEF BringHighs
  <2>2. /\ g \in FrameType /\ g.at = "done" /\ g.lo = f.lo /\ g.hi = f.hi
        /\ g.start = f.start /\ g.end = f.end /\ g.pivot = f.pivot
        /\ g.pivot_lsect = f.pivot_lsect /\ g.pivot_hsect = f.pivot_hsect
    BY <1>1 DEF FrameType, Phase
  <2> HIDE DEF g
  <2>3. Signed(g.lo) = l BY <2>2
  <2>4. Places(g) BY <1>1, <1>2, <1>4, <2>2, <2>3 DEF Places, Gathering
  <2>5. Gathered(g, a, l) BY <1>1, <2>2 DEF Gathered
  <2>6. Divided(g, a) BY <2>2, <2>3, <2>5 DEF Divided
  <2>7. RoundKeeps(f, a, g, a) BY <2>2, <2>4, <2>6, MovedNot DEF RoundKeeps
  <2> QED BY <2>1, <2>7, RoundIs
<1>5. CASE f.pivot_hsect < f.end
  <2> DEFINE n == f.pivot_hsect + 1
             g == [f EXCEPT !.pivot_hsect = Wrap(f.pivot_hsect + 1), !.hi = Wrap(f.hi + 1)]
             b == Swap(a, f.hi, Wrap(f.pivot_hsect + 1))
  <2>1. BringHighs(f, a) = <<g, b>> BY <1>5 DEF BringHighs
  <2>2. Wrap(f.pivot_hsect + 1) = n /\ n \in S /\ n \in Nat
    BY <1>1, <1>2, <1>5, WrapIs DEF Gathering, Segm, Signed
  <2>3. f.hi \in S BY <1>1, <1>2, <1>5 DEF Gathering, Segm
  <2>4. Wrap(f.hi + 1) = f.hi + 1 /\ f.hi + 1 \in 0 .. SizeMax
    BY <1>1, <1>2, <1>5, WrapIs DEF Gathering
  <2>5. /\ g \in FrameType /\ g.at = "highs" /\ g.lo = f.lo /\ g.hi = f.hi + 1
        /\ g.start = f.start /\ g.end = f.end /\ g.pivot = f.pivot
        /\ g.pivot_lsect = f.pivot_lsect /\ g.pivot_hsect = n
    BY <1>1, <2>2, <2>4 DEF FrameType, Phase
  <2>6. \A k \in S : b[k] = IF k = f.hi THEN a[n] ELSE IF k = n THEN a[f.hi] ELSE a[k]
    BY <1>3, <2>2, <2>3, SwapIs
  <2>7. Moved(a, b, S, Int) BY <2>2, <2>3, MovedSwap
  <2> HIDE DEF g, b
  <2>8. Signed(g.lo) = l BY <2>5
  <2>9. Places(g) BY <1>1, <1>2, <1>5, <2>5, <2>8 DEF Places, Gathering
  <2>10. Gathered(g, b, l)
    BY <1>1, <1>2, <1>3, <1>5, <2>2, <2>3, <2>5, <2>6 DEF Gathered, Gathering, Segm
  <2>11. Divided(g, b) BY <2>5, <2>8, <2>10 DEF Divided
  <2>12. RoundKeeps(f, a, g, b) BY <2>5, <2>7, <2>9, <2>11 DEF RoundKeeps
  <2> QED BY <2>1, <2>12, RoundIs
<1> QED BY <1>4, <1>5
-----------------------------------------------------------------------------
LEMMA MidIs ==
    ASSUME NEW f, Places(f), f.at = "pivot"
    PROVE  Mid(f) \in Segm(f) /\ f.lo \in Segm(f) /\ f.hi \in Segm(f)
<1>1. /\ f \in FrameType /\ f.start < f.end /\ f.end < SizeMax
      /\ f.lo = f.start /\ f.hi = f.end
  BY DEF Places
<1>2. f.start \in Nat /\ f.end \in Nat /\ SizeMax \in Nat
  BY <1>1, FrameFields, SizeMaxIs
<1>3. Wrap(f.hi - f.lo) = f.end - f.start BY <1>1, <1>2, WrapIs
<1>4. (f.end - f.start) \div 2 \in Nat /\ (f.end - f.start) \div 2 <= f.end - f.start
  BY <1>1, <1>2
<1>5. Wrap(f.start + (f.end - f.start) \div 2) = f.start + (f.end - f.start) \div 2
  BY <1>1, <1>2, <1>4, WrapIs
<1> QED BY <1>1, <1>2, <1>3, <1>4, <1>5 DEF Mid, Segm

LEMMA MedianMoves ==
    ASSUME NEW D, NEW a \in [D -> Int], NEW S \in SUBSET D,
           NEW lo \in S, NEW mid \in S, NEW hi \in S
    PROVE  Moved(a, MedianToEnd(a, lo, mid, hi), S, Int)
<1> DEFINE b == IF a[lo] > a[mid] THEN Swap(a, lo, mid) ELSE a
           c == MedianToEnd(a, lo, mid, hi)
<1>1. Moved(a, b, S, Int) BY MovedSwap, MovedNot
<1>2. b \in [D -> Int] BY <1>1 DEF Moved
<1>3. c \in {Swap(b, mid, hi), Swap(b, lo, hi), b}
  <2> HIDE DEF b
  <2>1. MedianToEnd(a, lo, mid, hi) = CASE b[hi] > b[mid] -> Swap(b, mid, hi)
          [] b[hi] <= b[mid] /\ b[lo] > b[hi] -> Swap(b, lo, hi)
          [] OTHER -> b
    BY DEF MedianToEnd, b
  <2> QED BY <2>1
<1>4. Moved(b, c, S, Int)
  <2> HIDE DEF b, c
  <2> QED BY <1>2, <1>3, MovedSwap, MovedNot
<1> QED BY <1>1, <1>4, MovedTwice

(* The first round, which brings a pivot to the end. *)
LEMMA ChoosePivotKeeps ==
    ASSUME NEW D, NEW a \in [D -> Int], NEW f, Segm(f) \subseteq D,
           Places(f), f.at = "pivot"
    PROVE  RoundKeeps(f, a, ChoosePivot(f, a)[1], ChoosePivot(f, a)[2])
<1> DEFINE S == Segm(f)
           b == MedianToEnd(a, f.lo, Mid(f), f.hi)
           g == [f EXCEPT !.at = "scan", !.pivot = b[f.hi], !.hi = Wrap(f.hi - 1),
                          !.pivot_lsect = f.lo, !.pivot_hsect = Wrap(f.hi - 1)]
<1>1. /\ f \in FrameType /\ f.start < f.end /\ f.end < SizeMax
      /\ f.lo = f.start /\ f.hi = f.end
  BY DEF Places
<1>2. f.start \in Nat /\ f.end \in Nat /\ SizeMax \in Nat
  BY <1>1, FrameFields, SizeMaxIs
<1>3. Moved(a, b, S, Int) BY MidIs, MedianMoves
<1>4. f.hi \in S BY MidIs
<1>5. b[f.hi] \in Int BY <1>3, <1>4 DEF Moved
<1> HIDE DEF b
<1>6. Wrap(f.hi - 1) = f.end - 1 /\ f.end - 1 \in 0 .. SizeMax BY <1>1, <1>2, WrapIs
<1>7. ChoosePivot(f, a) = <<g, b>> BY DEF ChoosePivot, b
<1>8. /\ g \in FrameType /\ g.at = "scan" /\ g.lo = f.start /\ g.hi = f.end - 1
      /\ g.start = f.start /\ g.end = f.end /\ g.pivot = b[f.end]
      /\ g.pivot_lsect = f.start /\ g.pivot_hsect = f.end - 1
  <2> DEFINE v == b[f.hi]
             h == Wrap(f.hi - 1)
             g1 == [f EXCEPT !.at = "scan", !.pivot = v, !.hi = h]
  <2>1. v \in Int /\ v = b[f.end] BY <1>1, <1>5
  <2>2. h = f.end - 1 /\ h \in 0 .. SizeMax /\ h \in Nat BY <1>6, <1>2
  <2>3. g = [g1 EXCEPT !.pivot_lsect = f.lo, !.pivot_hsect = h] OBVIOUS
  <2> HIDE DEF v, h
  <2>4. /\ g1 \in FrameType /\ g1.at = "scan" /\ g1.lo = f.lo /\ g1.hi = h
        /\ g1.start = f.start /\ g1.end = f.end /\ g1.pivot = v
    BY <1>1, <2>1, <2>2 DEF FrameType, Phase
  <2> HIDE DEF g1, g
  <2>5. f.lo \in Nat BY <1>1, <1>2
  <2> QED BY <1>1, <2>1, <2>2, <2>3, <2>4, <2>5 DEF FrameType
<1> HIDE DEF g
<1>9. Places(g) BY <1>1, <1>2, <1>8 DEF Places, Scanning
<1>10. ClosingIn(g, b, g.lo, g.hi) BY <1>1, <1>2, <1>8 DEF ClosingIn
<1>11. Divided(g, b) BY <1>8, <1>10 DEF Divided
<1>12. RoundKeeps(f, a, g, b) BY <1>3, <1>8, <1>9, <1>11 DEF RoundKeeps
<1> QED BY <1>7, <1>12, RoundIs
-----------------------------------------------------------------------------
(* Every round of every loop leaves the worker where it may be, its segment *)
(* divided as far as it has come, and the rest of the array alone.          *)
THEOREM PartitionStepKeeps ==
    ASSUME NEW D, NEW a \in [D -> Int], NEW f, Segm(f) \subseteq D,
           Places(f), Divided(f, a), f.at # "done"
    PROVE  RoundKeeps(f, a, PartitionStep(f, a)[1], PartitionStep(f, a)[2])
<1>1. f.at \in Phase BY DEF Places, FrameType
<1>2. CASE f.at = "pivot"
  <2>1. PartitionStep(f, a) = ChoosePivot(f, a) BY <1>2 DEF PartitionStep
  <2> QED BY <1>2, <2>1, ChoosePivotKeeps
<1>3. CASE f.at = "scan"
  <2>1. PartitionStep(f, a) = ScanLow(f, a) BY <1>3 DEF PartitionStep
  <2> QED BY <1>3, <2>1, ScanLowKeeps
<1>4. CASE f.at = "down"
  <2>1. PartitionStep(f, a) = ScanDown(f, a) BY <1>4 DEF PartitionStep
  <2> QED BY <1>4, <2>1, ScanDownKeeps
<1>5. CASE f.at = "lows"
  <2>1. PartitionStep(f, a) = BringLows(f, a) BY <1>5 DEF PartitionStep
  <2> QED BY <1>5, <2>1, BringLowsKeeps
<1>6. CASE f.at = "highs"
  <2>1. PartitionStep(f, a) = BringHighs(f, a) BY <1>6 DEF PartitionStep
  <2> QED BY <1>6, <2>1, BringHighsKeeps
<1> QED BY <1>1, <1>2, <1>3, <1>4, <1>5, <1>6 DEF Phase
-----------------------------------------------------------------------------
(* A segment of two elements at least is where a partition may begin.       *)
LEMMA FramePlaces ==
    ASSUME NEW s \in Nat, NEW e \in Nat, s < e, e < SizeMax
    PROVE  /\ Places(Frame(s, e)) /\ Frame(s, e).at = "pivot"
           /\ Frame(s, e).start = s /\ Frame(s, e).end = e
           /\ \A a : Divided(Frame(s, e), a)
<1> DEFINE f == Frame(s, e)
<1>1. /\ f.at = "pivot" /\ f.lo = s /\ f.hi = e /\ f.start = s /\ f.end = e
      /\ f.pivot_lsect = s /\ f.pivot_hsect = e
  BY DEF Frame
<1>2. f \in FrameType BY SizeMaxIs DEF Frame, FrameType, Phase
<1> HIDE DEF f
<1>3. Places(f) /\ \A a : Divided(f, a) BY <1>1, <1>2 DEF Places, Divided
<1> QED BY <1>1, <1>3 DEF f

(* What a step reads and writes is in the segment, near either end of it    *)
(* and of the index type.                                                   *)
LEMMA TouchesInside ==
    ASSUME NEW f, Places(f)
    PROVE  Touches(f) \subseteq Segm(f)
<1>1. f \in FrameType /\ f.start < f.end /\ f.end < SizeMax /\ f.at \in Phase
  BY DEF Places, FrameType
<1>2. /\ f.start \in Nat /\ f.end \in Nat /\ f.lo \in Nat /\ f.hi \in Nat
      /\ f.pivot_lsect \in Nat /\ f.pivot_hsect \in Nat
      /\ f.lo <= SizeMax /\ SizeMax \in Nat
  BY <1>1, FrameFields, SizeMaxIs
<1>3. CASE f.at = "pivot"
  <2>1. Touches(f) = {f.lo, Mid(f), f.hi} BY <1>3 DEF Touches
  <2> QED BY <1>3, <2>1, MidIs
<1>4. CASE f.at = "scan"
  <2>1. Scanning(f) BY <1>4 DEF Places
  <2>2. CASE f.lo <= f.hi
    <3>1. Touches(f) = {f.lo, f.pivot_lsect} BY <1>4, <2>2 DEF Touches
    <3> QED BY <1>1, <1>2, <2>1, <2>2, <3>1 DEF Scanning, Segm
  <2>3. CASE ~(f.lo <= f.hi)
    <3>1. Touches(f) = {} BY <1>4, <2>3 DEF Touches
    <3> QED BY <3>1
  <2> QED BY <2>2, <2>3
<1>5. CASE f.at = "down"
  <2>1. GoingDown(f) BY <1>5 DEF Places
  <2>2. CASE f.lo <= f.hi /\ f.hi # SizeMax
    <3>1. Touches(f) = {f.lo, f.hi, f.pivot_hsect} BY <1>5, <2>2 DEF Touches
    <3>2. Signed(f.hi) = f.hi BY <2>2 DEF Signed
    <3> QED BY <1>1, <1>2, <2>1, <2>2, <3>1, <3>2 DEF GoingDown, Segm
  <2>3. CASE ~(f.lo <= f.hi /\ f.hi # SizeMax)
    <3>1. Touches(f) = {} BY <1>5, <2>3 DEF Touches
    <3> QED BY <3>1
  <2> QED BY <2>2, <2>3
<1>6. CASE f.at = "lows"
  <2>1. Gathering(f) BY <1>6 DEF Places
  <2>2. CASE f.pivot_lsect > f.start
    <3>1. Touches(f) = {f.lo, Wrap(f.pivot_lsect - 1)} BY <1>6, <2>2 DEF Touches
    <3>2. Signed(f.lo) = f.lo BY <1>2, <2>1, <2>2 DEF Gathering, Signed
    <3>3. f.lo \in Segm(f) BY <1>1, <1>2, <2>1, <2>2, <3>2 DEF Gathering, Segm
    <3>4. Wrap(f.pivot_lsect - 1) = f.pivot_lsect - 1
      BY <1>1, <1>2, <2>1, <2>2, <3>2, WrapIs DEF Gathering
    <3>5. f.pivot_lsect - 1 \in Segm(f)
      BY <1>1, <1>2, <2>1, <2>2, <3>2 DEF Gathering, Segm
    <3> QED BY <3>1, <3>3, <3>4, <3>5
  <2>3. CASE ~(f.pivot_lsect > f.start)
    <3>1. Touches(f) = {} BY <1>6, <2>3 DEF Touches
    <3> QED BY <3>1
  <2> QED BY <2>2, <2>3
<1>7. CASE f.at = "highs"
  <2>1. Gathering(f) BY <1>7 DEF Places
  <2>2. CASE f.pivot_hsect < f.end
    <3>1. Touches(f) = {f.hi, Wrap(f.pivot_hsect + 1)} BY <1>7, <2>2 DEF Touches
    <3>2. Signed(f.lo) >= -1 /\ Signed(f.lo) \in Int BY <1>2 DEF Signed
    <3>3. f.hi \in Segm(f) BY <1>1, <1>2, <2>1, <2>2, <3>2 DEF Gathering, Segm
    <3>4. Wrap(f.pivot_hsect + 1) = f.pivot_hsect + 1
      BY <1>1, <1>2, <2>2, WrapIs
    <3>5. f.pivot_hsect + 1 \in Segm(f)
      BY <1>1, <1>2, <2>1, <2>2, <3>2 DEF Gathering, Segm
    <3> QED BY <3>1, <3>3, <3>4, <3>5
  <2>3. CASE ~(f.pivot_hsect < f.end)
    <3>1. Touches(f) = {} BY <1>7, <2>3 DEF Touches
    <3> QED BY <3>1
  <2> QED BY <2>2, <2>3
<1>8. CASE f.at = "done"
  <2>1. Touches(f) = {} BY <1>8 DEF Touches
  <2> QED BY <2>1
<1> QED BY <1>1, <1>3, <1>4, <1>5, <1>6, <1>7, <1>8 DEF Phase

(* How far a segment is divided depends on the segment alone.               *)
LEMMA DividedLocal ==
    ASSUME NEW f, NEW a, NEW b, Places(f), Divided(f, a),
           \A k \in Segm(f) : b[k] = a[k]
    PROVE  Divided(f, b)
<1>1. f.at = "scan" => ClosingIn(f, b, f.lo, f.hi) BY DEF Divided, ClosingIn, Segm
<1>2. ASSUME f.at = "down"
      PROVE  ClosingIn(f, b, f.lo, Signed(f.hi)) /\ b[f.lo] > f.pivot
  <2>1. f.lo \in Segm(f)
    <3>1. f \in FrameType /\ GoingDown(f) BY <1>2 DEF Places
    <3> QED BY <3>1, FrameFields DEF GoingDown, Segm
  <2>2. ClosingIn(f, a, f.lo, Signed(f.hi)) /\ a[f.lo] > f.pivot BY <1>2 DEF Divided
  <2>3. ClosingIn(f, b, f.lo, Signed(f.hi))
    <3> DEFINE h == Signed(f.hi)
    <3> HIDE DEF h
    <3> QED BY <2>2 DEF ClosingIn, Segm, h
  <2> QED BY <2>1, <2>2, <2>3
<1>3. ASSUME f.at \in {"lows", "highs", "done"}
      PROVE  Gathered(f, b, Signed(f.lo))
  <2>1. Gathered(f, a, Signed(f.lo)) BY <1>3 DEF Divided
  <2> QED BY <2>1 DEF Gathered, Segm
<1> QED BY <1>1, <1>2, <1>3 DEF Divided

(* The end: the two parts are apart, each is shorter than the segment, and  *)
(* their sizes are what the code compares.                                  *)
LEMMA DoneCut ==
    ASSUME NEW f, Places(f), f.at = "done"
    PROVE  LET l == Signed(f.lo)
           IN  /\ l \in Int /\ f.start - 1 <= l /\ l + 2 <= f.hi /\ f.hi <= f.end + 1
               /\ LowSize(f) = l - f.start + 1
               /\ HighSize(f) = f.end - f.hi + 1
<1> DEFINE l == Signed(f.lo)
<1>1. /\ f \in FrameType /\ f.start < f.end /\ f.end < SizeMax /\ Gathering(f)
      /\ f.pivot_lsect = f.start /\ f.pivot_hsect = f.end
  BY DEF Places
<1>2. /\ f.start \in Nat /\ f.end \in Nat /\ f.lo \in Nat /\ f.hi \in Nat
      /\ f.lo <= SizeMax /\ SizeMax \in Nat /\ l \in Int
  BY <1>1, FrameFields, SizeMaxIs DEF Signed
<1>3. f.start - 1 <= l /\ l + 2 <= f.hi /\ f.hi <= f.end + 1
  BY <1>1, <1>2 DEF Gathering
<1>4. LowSize(f) = l - f.start + 1
  <2>1. CASE f.lo = SizeMax
    BY <1>2, <1>3, <2>1 DEF LowSize, Signed
  <2>2. CASE f.lo # SizeMax /\ f.lo < f.start
    <3>1. l = f.lo /\ f.lo - f.start = -1 BY <1>2, <1>3, <2>2 DEF Signed
    <3>2. Wrap(f.lo - f.start) = SizeMax BY <1>2, <3>1, WrapIs
    <3>3. Wrap(SizeMax + 1) = 0 BY <1>2 DEF Wrap
    <3> QED BY <1>2, <2>2, <3>1, <3>2, <3>3 DEF LowSize
  <2>3. CASE f.lo # SizeMax /\ ~(f.lo < f.start)
    <3>1. l = f.lo BY <2>3 DEF Signed
    <3>2. Wrap(f.lo - f.start) = f.lo - f.start BY <1>2, <2>3, WrapIs
    <3>3. Wrap(f.lo - f.start + 1) = f.lo - f.start + 1
      BY <1>1, <1>2, <1>3, <2>3, <3>1, WrapIs
    <3> QED BY <2>3, <3>1, <3>2, <3>3 DEF LowSize
  <2> QED BY <2>1, <2>2, <2>3
<1>5. HighSize(f) = f.end - f.hi + 1
  <2>1. CASE f.hi = f.end + 1
    <3>1. Wrap(f.end - f.hi) = SizeMax BY <1>2, <2>1, WrapIs
    <3>2. Wrap(SizeMax + 1) = 0 BY <1>2 DEF Wrap
    <3> QED BY <1>2, <2>1, <3>1, <3>2 DEF HighSize
  <2>2. CASE f.hi <= f.end
    <3>1. Wrap(f.end - f.hi) = f.end - f.hi BY <1>1, <1>2, <2>2, WrapIs
    <3>2. Wrap(f.end - f.hi + 1) = f.end - f.hi + 1 BY <1>1, <1>2, <2>2, WrapIs
    <3> QED BY <3>1, <3>2 DEF HighSize
  <2> QED BY <1>2, <1>3, <2>1, <2>2
<1> QED BY <1>2, <1>3, <1>4, <1>5

(* The end: elements below the pivot, the pivot, elements above it.         *)
LEMMA DonePartitioned ==
    ASSUME NEW f, NEW D, NEW a \in [D -> Int], Segm(f) \subseteq D,
           Places(f), Divided(f, a), f.at = "done"
    PROVE  Partitioned(a, <<f.start, f.end>>, <<Signed(f.lo), f.hi>>)
<1> DEFINE l == Signed(f.lo)
<1>1. /\ f \in FrameType /\ f.start < f.end /\ Gathered(f, a, l)
      /\ f.pivot_lsect = f.start /\ f.pivot_hsect = f.end
  BY DEF Places, Divided
<1>2. f.start \in Nat /\ f.end \in Nat /\ f.hi \in Nat /\ f.pivot \in Int
  BY <1>1, FrameFields
<1>3. l \in Int /\ f.start - 1 <= l /\ l + 2 <= f.hi /\ f.hi <= f.end + 1 BY DoneCut
<1> HIDE DEF l
<1>4. \A k \in f.start .. l : a[k] < f.pivot
  BY <1>1, <1>2, <1>3 DEF Gathered
<1>5. \A k \in l + 1 .. f.hi - 1 : a[k] = f.pivot
  BY <1>1, <1>2, <1>3 DEF Gathered
<1>6. \A k \in f.hi .. f.end : a[k] > f.pivot
  BY <1>1, <1>2, <1>3 DEF Gathered
<1>7. f.pivot \in {a[i] : i \in f.start .. f.end}
  <2>1. l + 1 \in f.start .. f.end /\ l + 1 \in l + 1 .. f.hi - 1 BY <1>2, <1>3
  <2> QED BY <1>5, <2>1
<1> QED BY <1>4, <1>5, <1>6, <1>7 DEF Partitioned, l
=============================================================================
