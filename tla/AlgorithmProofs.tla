----------------------------- MODULE AlgorithmProofs ----------------------------
(***************************************************************************)
(* Proofs about StepAlgorithms: the partition of thread_qsort, run on its   *)
(* own, is right for every segment of every array of every size; what is    *)
(* proved of ThreadQSort holds of the workers among the algorithms;         *)
(* bl_path_arr_basic stays in the field, what it returns can be walked, and *)
(* it finds a way if there is one, on every field of every size.            *)
(***************************************************************************)
EXTENDS StepAlgorithms, PartitionProofs, ListOpsProofs, FiniteSetTheorems

(* What every round keeps, put together.                                    *)
PartInv == /\ frame.start \in Index /\ frame.end \in Index
        /\ Places(frame) /\ Divided(frame, arr)
        /\ before \in [Index -> Value]
        /\ Moved(before, arr, Own, Int)

LEMMA ValueIsInt == Size \in Nat /\ Size > 1 /\ Size <= SizeMax /\ Value \subseteq Int
BY ArrayAssumption, ValueAssumption

LEMMA OwnIs == Own = Segm(frame)
BY DEF Own, Segm

LEMMA OwnInside ==
    ASSUME PartInv
    PROVE  /\ Own \subseteq Index
           /\ arr \in [Index -> Int] /\ before \in [Index -> Int]
<1>1. before \in [Index -> Int] BY ValueIsInt DEF PartInv
<1>2. arr \in [Index -> Int] BY <1>1 DEF PartInv, Moved
<1>3. Own \subseteq Index BY ValueIsInt DEF PartInv, Own, Index
<1> QED BY <1>1, <1>2, <1>3

LEMMA PartStarts == Init => PartInv
<1> SUFFICES ASSUME Init PROVE PartInv OBVIOUS
<1>1. PICK s \in Index \X Index : s[1] < s[2] /\ frame = Frame(s[1], s[2])
  BY DEF Init
<1>2. s[1] \in Nat /\ s[2] \in Nat /\ s[2] < SizeMax
  <2>1. s[1] \in 0 .. Size - 1 /\ s[2] \in 0 .. Size - 1 BY DEF Index
  <2> QED BY <2>1, ValueIsInt, SizeMaxIs
<1>3. /\ Places(frame) /\ frame.start = s[1] /\ frame.end = s[2]
      /\ Divided(frame, arr)
  BY <1>1, <1>2, FramePlaces
<1>4. arr \in [Index -> Value] /\ arr \in [Index -> Int] /\ before = arr
  BY ValueIsInt DEF Init
<1>5. Moved(before, arr, Own, Int) BY <1>4, MovedNot
<1> QED BY <1>1, <1>3, <1>4, <1>5 DEF PartInv

LEMMA PartInvKept == PartInv /\ [Step]_vars => PartInv'
<1> SUFFICES ASSUME PartInv, [Step]_vars PROVE PartInv' OBVIOUS
<1>1. CASE Step
  <2> DEFINE g == PartitionStep(frame, arr)[1]
             b == PartitionStep(frame, arr)[2]
  <2>1. frame' = g /\ arr' = b /\ before' = before /\ frame.at # "done"
    BY <1>1 DEF Step
  <2>2. RoundKeeps(frame, arr, g, b)
    BY <2>1, OwnInside, OwnIs, PartitionStepKeeps DEF PartInv
  <2>3. /\ Places(frame') /\ Divided(frame', arr')
        /\ frame'.start = frame.start /\ frame'.end = frame.end
        /\ Moved(arr, arr', Own, Int)
    BY <2>1, <2>2, OwnIs DEF RoundKeeps
  <2>4. Own' = Own BY <2>3 DEF Own
  <2>5. Moved(before, arr', Own, Int) BY <2>3, MovedTwice DEF PartInv
  <2>6. Index' = Index BY DEF Index
  <2> QED BY <2>1, <2>3, <2>4, <2>5, <2>6 DEF PartInv
<1>2. CASE UNCHANGED vars
  BY <1>2 DEF vars, PartInv, Own, Index
<1> QED BY <1>1, <1>2

LEMMA PartInvCorrect == Spec => []PartInv
BY PartStarts, PartInvKept, PTL DEF Spec

(* No round of any of the loops touches an element outside the segment,     *)
(* for any size: the indexes may leave it, but are not used then.           *)
THEOREM PartitionStaysInside == Spec => []StaysInside
<1>1. PartInv => StaysInside BY TouchesInside, OwnIs DEF PartInv, StaysInside
<1> QED BY <1>1, PartInvCorrect, PTL

(* To shuffle changes the number of no value.                               *)
LEMMA ShuffledCount ==
    ASSUME PartInv, NEW v
    PROVE  Count(arr, v) = Count(before, v)
<1>1. PICK q \in Shuffles(Own) : \A i \in Own : arr[i] = before[q[i]]
  BY DEF PartInv, Moved, Shuffled
<1>2. IsFiniteSet(Own)
  <2>1. frame.start \in Int /\ frame.end \in Int BY DEF PartInv, Index
  <2> QED BY <2>1, FS_Interval DEF Own
<1>3. q \in Injection(Own, Own)
  BY DEF Shuffles, Injection, IsInjective
<1>4. q \in Surjection(Own, Own)
  BY <1>2, <1>3, FS_Injection
<1> DEFINE A == {i \in Own : arr[i] = v}
           B == {i \in Own : before[i] = v}
           m == [i \in A |-> q[i]]
<1>5. q \in [Own -> Own] /\ \A i, j \in Own : q[i] = q[j] => i = j BY DEF Shuffles
<1>6. m \in [A -> B] BY <1>1, <1>5
<1>7. \A i, j \in A : m[i] = m[j] => i = j BY <1>5
<1>8. \A j \in B : \E i \in A : m[i] = j
  <2> SUFFICES ASSUME NEW j \in B PROVE \E i \in A : m[i] = j OBVIOUS
  <2>1. PICK i \in Own : q[i] = j BY <1>4 DEF Surjection
  <2>2. i \in A BY <1>1, <2>1
  <2> QED BY <2>1, <2>2
<1>9. m \in Bijection(A, B)
  <2> HIDE DEF m, A, B
  <2> QED BY <1>6, <1>7, <1>8 DEF Bijection, Injection, Surjection, IsInjective
<1>10. ExistsBijection(A, B) BY <1>9 DEF ExistsBijection
<1>11. IsFiniteSet(A) BY <1>2, FS_Subset
<1>12. Cardinality(B) = Cardinality(A) BY <1>10, <1>11, FS_Bijection
<1> QED BY <1>12 DEF Count

LEMMA IntervalSize ==
    ASSUME NEW m \in Int, NEW n \in Int, m <= n + 1
    PROVE  Cardinality(m .. n) = n - m + 1
<1>1. Cardinality(m .. n) = IF m > n THEN 0 ELSE n - m + 1 BY FS_Interval
<1>2. CASE m > n BY <1>1, <1>2
<1>3. CASE ~(m > n) BY <1>1, <1>3
<1> QED BY <1>2, <1>3

(* EndsPartitioned is what Places and Divided say when the loops are done.  *)
LEMMA DividesRight == PartInv => EndsPartitioned
<1>1. ASSUME PartInv, frame.at = "done" PROVE EndsPartitioned
  <2> DEFINE l == Signed(frame.lo)
             c == CutOf(frame)
  <2>1. c = <<l, frame.hi>> BY DEF CutOf, Signed
  <2>2. /\ l \in Int /\ frame.start - 1 <= l /\ l + 2 <= frame.hi
        /\ frame.hi <= frame.end + 1
        /\ LowSize(frame) = l - frame.start + 1
        /\ HighSize(frame) = frame.end - frame.hi + 1
    BY <1>1, DoneCut DEF PartInv
  <2>3. /\ frame.start \in Int /\ frame.end \in Int /\ frame.hi \in Int
    BY <1>1, FrameFields DEF PartInv, Index, Places
  <2> HIDE DEF l
  <2>4. Partitioned(arr, Segment, c)
    BY <1>1, <2>1, OwnInside, OwnIs, DonePartitioned DEF PartInv, Segment, l
  <2>5. \A i \in Index \ Own : arr[i] = before[i]
    BY <1>1, OwnInside DEF PartInv, Moved
  <2>6. \A v \in Value : Count(arr, v) = Count(before, v)
    BY <1>1, ShuffledCount
  <2>7. LowSize(frame) = Cardinality(frame.start .. l)
    <3>1. frame.start <= l + 1 BY <2>2, <2>3
    <3>2. Cardinality(frame.start .. l) = l - frame.start + 1
      BY <2>2, <2>3, <3>1, IntervalSize
    <3> QED BY <2>2, <3>2
  <2>8. HighSize(frame) = Cardinality(frame.hi .. frame.end)
    BY <2>2, <2>3, IntervalSize
  <2>9. c[1] = l /\ c[2] = frame.hi BY <2>1
  <2> QED BY <2>2, <2>3, <2>4, <2>5, <2>6, <2>7, <2>8, <2>9 DEF EndsPartitioned
<1> QED BY <1>1 DEF EndsPartitioned

(* The partition ends with the segment divided around a pivot, holding the  *)
(* elements it held, and with both parts shorter than it, whatever its      *)
(* elements; the sizes the code compares are right in all the corner cases  *)
(* in which lo or hi has left the segment.                                  *)
THEOREM PartitionIsRight == Spec => []EndsPartitioned
BY DividesRight, PartInvCorrect, PTL
-----------------------------------------------------------------------------
(* Directions and cells.  Way is the straight way from c to e.               *)
Way(c, e) == DirectFrom[<<c, e>>]

LEMMA Compass ==
    /\ dirx[1] = 0 /\ dirx[2] = 1 /\ dirx[3] = 1 /\ dirx[4] = 1
    /\ dirx[5] = 0 /\ dirx[6] = -1 /\ dirx[7] = -1 /\ dirx[8] = -1
    /\ diry[1] = 1 /\ diry[2] = 1 /\ diry[3] = 0 /\ diry[4] = -1
    /\ diry[5] = -1 /\ diry[6] = -1 /\ diry[7] = 0 /\ diry[8] = 1
BY DEF dirx, diry

(* A direction is a step in one axis at least; the opposite one takes it back. *)
LEMMA Turns ==
    ASSUME NEW d \in Dir
    PROVE  /\ dirx[d + 1] \in {-1, 0, 1} /\ diry[d + 1] \in {-1, 0, 1}
           /\ dirx[d + 1] # 0 \/ diry[d + 1] # 0
           /\ Opposite(d) \in Dir
           /\ dirx[Opposite(d) + 1] = -dirx[d + 1]
           /\ diry[Opposite(d) + 1] = -diry[d + 1]
           /\ Opposite(Opposite(d)) = d
<1>1. d = 0 \/ d = 1 \/ d = 2 \/ d = 3 \/ d = 4 \/ d = 5 \/ d = 6 \/ d = 7 BY DEF Dir
<1>2. Opposite(d) = IF d < 4 THEN d + 4 ELSE d - 4 BY <1>1 DEF Opposite
<1>3. d \in Int /\ Opposite(d) \in Dir /\ Opposite(Opposite(d)) = d
  <2>1. d \in Int /\ Opposite(d) \in Dir BY <1>2 DEF Dir
  <2>2. \A e \in Dir : Opposite(e) = IF e < 4 THEN e + 4 ELSE e - 4 BY DEF Dir, Opposite
  <2>3. Opposite(Opposite(d)) = IF Opposite(d) < 4 THEN Opposite(d) + 4 ELSE Opposite(d) - 4
    BY <2>1, <2>2
  <2>4. d \in 0 .. 7 BY DEF Dir
  <2>5. CASE d < 4
    <3>1. Opposite(d) = d + 4 /\ ~(d + 4 < 4) BY <1>2, <2>4, <2>5
    <3> QED BY <2>1, <2>3, <3>1
  <2>6. CASE ~(d < 4)
    <3>1. Opposite(d) = d - 4 /\ d - 4 < 4 BY <1>2, <2>4, <2>6
    <3> QED BY <2>1, <2>3, <3>1
  <2> QED BY <2>1, <2>5, <2>6
<1> DEFINE o == Opposite(d)
<1> HIDE DEF o
<1>4. o = IF d < 4 THEN d + 4 ELSE d - 4 BY <1>2 DEF o
<1>5. /\ dirx[d + 1] \in {-1, 0, 1} /\ diry[d + 1] \in {-1, 0, 1}
      /\ dirx[d + 1] # 0 \/ diry[d + 1] # 0
      /\ dirx[o + 1] = -dirx[d + 1]
      /\ diry[o + 1] = -diry[d + 1]
  <2>1. CASE d = 0
    <3>1. d + 1 = 1 /\ o + 1 = 5 BY <1>4, <2>1
    <3> QED BY <3>1, Compass
  <2>2. CASE d = 1
    <3>1. d + 1 = 2 /\ o + 1 = 6 BY <1>4, <2>2
    <3> QED BY <3>1, Compass
  <2>3. CASE d = 2
    <3>1. d + 1 = 3 /\ o + 1 = 7 BY <1>4, <2>3
    <3> QED BY <3>1, Compass
  <2>4. CASE d = 3
    <3>1. d + 1 = 4 /\ o + 1 = 8 BY <1>4, <2>4
    <3> QED BY <3>1, Compass
  <2>5. CASE d = 4
    <3>1. d + 1 = 5 /\ o + 1 = 1 BY <1>4, <2>5
    <3> QED BY <3>1, Compass
  <2>6. CASE d = 5
    <3>1. d + 1 = 6 /\ o + 1 = 2 BY <1>4, <2>6
    <3> QED BY <3>1, Compass
  <2>7. CASE d = 6
    <3>1. d + 1 = 7 /\ o + 1 = 3 BY <1>4, <2>7
    <3> QED BY <3>1, Compass
  <2>8. CASE d = 7
    <3>1. d + 1 = 8 /\ o + 1 = 4 BY <1>4, <2>8
    <3> QED BY <3>1, Compass
  <2> QED BY <1>1, <2>1, <2>2, <2>3, <2>4, <2>5, <2>6, <2>7, <2>8
<1> QED BY <1>3, <1>5 DEF o

(* Every step of one cell in each of two axes has its direction. *)
LEMMA TurnTo ==
    ASSUME NEW a \in {-1, 0, 1}, NEW b \in {-1, 0, 1}, a # 0 \/ b # 0
    PROVE  \E d \in Dir : dirx[d + 1] = a /\ diry[d + 1] = b
<1>1. /\ dirx[0 + 1] = 0 /\ diry[0 + 1] = 1
      /\ dirx[1 + 1] = 1 /\ diry[1 + 1] = 1
      /\ dirx[2 + 1] = 1 /\ diry[2 + 1] = 0
      /\ dirx[3 + 1] = 1 /\ diry[3 + 1] = -1
  BY DEF dirx, diry
<1>2. /\ dirx[4 + 1] = 0 /\ diry[4 + 1] = -1
      /\ dirx[5 + 1] = -1 /\ diry[5 + 1] = -1
      /\ dirx[6 + 1] = -1 /\ diry[6 + 1] = 0
      /\ dirx[7 + 1] = -1 /\ diry[7 + 1] = 1
  BY DEF dirx, diry
<1>3. 0 \in Dir /\ 1 \in Dir /\ 2 \in Dir /\ 3 \in Dir /\ 4 \in Dir /\ 5 \in Dir
      /\ 6 \in Dir /\ 7 \in Dir
  BY DEF Dir
<1> QED BY <1>1, <1>2, <1>3

LEMMA InCoord ==
    ASSUME NEW c \in Coord
    PROVE  /\ c = <<c[1], c[2]>>
           /\ c[1] \in Int /\ c[2] \in Int
           /\ 0 <= c[1] /\ c[1] < FieldX /\ 0 <= c[2] /\ c[2] < FieldY
BY FieldAssumption DEF Coord

LEMMA InField ==
    ASSUME NEW a \in Int, NEW b \in Int,
           0 <= a, a < FieldX, 0 <= b, b < FieldY
    PROVE  <<a, b>> \in Coord
BY FieldAssumption DEF Coord

(* A step leads to a neighbour, and the opposite one back.                  *)
LEMMA TowardIs ==
    ASSUME NEW c \in Coord, NEW d \in Dir
    PROVE  /\ Toward(c, d)[1] = c[1] + dirx[d + 1] /\ Toward(c, d)[2] = c[2] + diry[d + 1]
           /\ Toward(Toward(c, d), Opposite(d)) = c
           /\ Toward(c, d) # c
           /\ Toward(c, d) \in Coord => Adjacent(c, Toward(c, d)) /\ Adjacent(Toward(c, d), c)
<1> DEFINE a == c[1]
           b == c[2]
           x == dirx[d + 1]
           y == diry[d + 1]
           w == Toward(c, d)
<1>1. /\ x \in {-1, 0, 1} /\ y \in {-1, 0, 1} /\ (x # 0 \/ y # 0)
      /\ dirx[Opposite(d) + 1] = -x /\ diry[Opposite(d) + 1] = -y
  BY Turns
<1>2. c = <<a, b>> /\ a \in Int /\ b \in Int BY InCoord
<1>3. w = <<a + x, b + y>> /\ Toward(w, Opposite(d)) = <<w[1] + (-x), w[2] + (-y)>>
  BY <1>1 DEF Toward
<1> HIDE DEF a, b, x, y, w
<1>4. w[1] = a + x /\ w[2] = b + y BY <1>3
<1>5. <<w[1] + (-x), w[2] + (-y)>> = c BY <1>1, <1>2, <1>4
<1>6. w # c BY <1>1, <1>2, <1>3
<1>7. Adjacent(c, w) /\ Adjacent(w, c)
  <2>1. c[1] = a /\ c[2] = b BY <1>2
  <2> QED BY <1>1, <1>2, <1>4, <1>6, <2>1 DEF Adjacent, Abs
<1> QED BY <1>3, <1>4, <1>5, <1>6, <1>7 DEF a, b, x, y, w

(* A neighbour is a step away.                                              *)
LEMMA AdjacentIs ==
    ASSUME NEW c \in Coord, NEW e \in Coord, Adjacent(c, e)
    PROVE  \E d \in Dir : Toward(c, d) = e
<1> DEFINE a == c[1]
           b == c[2]
           x == e[1] - c[1]
           y == e[2] - c[2]
<1>1. c = <<c[1], c[2]>> /\ e = <<e[1], e[2]>>
      /\ c[1] \in Int /\ c[2] \in Int /\ e[1] \in Int /\ e[2] \in Int
  BY InCoord
<1>2. x \in {-1, 0, 1} /\ y \in {-1, 0, 1}
  BY <1>1 DEF Adjacent, Abs
<1>3. x # 0 \/ y # 0
  <2>1. c # e BY DEF Adjacent
  <2>2. c[1] # e[1] \/ c[2] # e[2] BY <1>1, <2>1
  <2> QED BY <1>1, <2>2
<1>4. PICK d \in Dir : dirx[d + 1] = x /\ diry[d + 1] = y
  <2> HIDE DEF x, y
  <2> QED BY <1>2, <1>3, TurnTo
<1>5. c[1] + x = e[1] /\ c[2] + y = e[2] BY <1>1
<1>6. Toward(c, d) = <<c[1] + x, c[2] + y>> BY <1>4 DEF Toward
<1> QED BY <1>1, <1>5, <1>6

(* The way to go straight on nears the end in both axes. *)
LEMMA DirectIs ==
    ASSUME NEW c \in Coord, NEW e \in Coord, c # e
    PROVE  /\ Way(c, e) \in Dir
           /\ dirx[Way(c, e) + 1] = IF OnlyY(e[2] - c[2], e[1] - c[1]) THEN 0
                                    ELSE IF e[1] - c[1] < 0 THEN -1 ELSE 1
           /\ diry[Way(c, e) + 1] = IF OnlyX(e[2] - c[2], e[1] - c[1]) THEN 0
                                    ELSE IF e[2] - c[2] < 0 THEN -1 ELSE 1
<1> DEFINE rise == e[2] - c[2]
           run == e[1] - c[1]
           x == IF OnlyY(rise, run) THEN 0 ELSE IF run < 0 THEN -1 ELSE 1
           y == IF OnlyX(rise, run) THEN 0 ELSE IF rise < 0 THEN -1 ELSE 1
<1>1. rise \in Int /\ run \in Int BY InCoord
<1>2. Way(c, e) = CHOOSE d \in Dir : dirx[d + 1] = x /\ diry[d + 1] = y
  BY DEF Way, DirectFrom
<1>3. x # 0 \/ y # 0
  <2> HIDE DEF rise, run
  <2> QED BY <1>1 DEF OnlyX, OnlyY, Abs
<1>4. x \in {-1, 0, 1} /\ y \in {-1, 0, 1} OBVIOUS
<1>5. \E d \in Dir : dirx[d + 1] = x /\ diry[d + 1] = y
  <2> HIDE DEF x, y
  <2> QED BY <1>3, <1>4, TurnTo
<1> HIDE DEF x, y
<1>6. Way(c, e) \in Dir /\ dirx[Way(c, e) + 1] = x /\ diry[Way(c, e) + 1] = y
  BY <1>2, <1>5
<1> QED BY <1>6 DEF x, y

LEMMA Nearing ==
    ASSUME NEW c \in Coord, NEW e \in Coord, c # e
    PROVE  LET x == dirx[Way(c, e) + 1]
               y == diry[Way(c, e) + 1]
           IN /\ x = 1 => e[1] > c[1]
              /\ x = -1 => e[1] < c[1]
              /\ y = 1 => e[2] > c[2]
              /\ y = -1 => e[2] < c[2]
              /\ e[1] = c[1] => x = 0
              /\ e[2] = c[2] => y = 0
<1> DEFINE rise == e[2] - c[2]
           run == e[1] - c[1]
           x == dirx[Way(c, e) + 1]
           y == diry[Way(c, e) + 1]
<1>1. /\ c = <<c[1], c[2]>> /\ e = <<e[1], e[2]>>
      /\ c[1] \in Int /\ c[2] \in Int /\ e[1] \in Int /\ e[2] \in Int
  BY InCoord
<1>2. rise \in Int /\ run \in Int /\ (rise # 0 \/ run # 0) BY <1>1
<1>3. /\ x = IF OnlyY(rise, run) THEN 0 ELSE IF run < 0 THEN -1 ELSE 1
      /\ y = IF OnlyX(rise, run) THEN 0 ELSE IF rise < 0 THEN -1 ELSE 1
  BY DirectIs
<1>4. /\ x = 1 => run > 0
      /\ x = -1 => run < 0
      /\ y = 1 => rise > 0
      /\ y = -1 => rise < 0
      /\ run = 0 => x = 0
      /\ rise = 0 => y = 0
  <2> HIDE DEF rise, run, x, y
  <2> QED BY <1>2, <1>3 DEF OnlyX, OnlyY, Abs
<1> HIDE DEF x, y
<1> QED BY <1>1, <1>4 DEF x, y

(* It stays in the field. *)
LEMMA DirectStays ==
    ASSUME NEW c \in Coord, NEW e \in Coord, c # e
    PROVE  Toward(c, Way(c, e)) \in Coord
<1> DEFINE x == dirx[Way(c, e) + 1]
           y == diry[Way(c, e) + 1]
<1>1. /\ c[1] \in Int /\ c[2] \in Int /\ e[1] \in Int /\ e[2] \in Int
      /\ 0 <= c[1] /\ c[1] < FieldX /\ 0 <= c[2] /\ c[2] < FieldY
      /\ 0 <= e[1] /\ e[1] < FieldX /\ 0 <= e[2] /\ e[2] < FieldY
  BY InCoord
<1>2. FieldX \in Int /\ FieldY \in Int BY FieldAssumption
<1>4. x \in {-1, 0, 1} /\ y \in {-1, 0, 1} BY DirectIs, Turns
<1>5. /\ x = 1 => e[1] > c[1]
      /\ x = -1 => e[1] < c[1]
      /\ y = 1 => e[2] > c[2]
      /\ y = -1 => e[2] < c[2]
  BY Nearing
<1>6. Toward(c, Way(c, e)) = <<c[1] + x, c[2] + y>> BY DEF Toward
<1> HIDE DEF x, y
<1>7. /\ c[1] + x \in Int /\ 0 <= c[1] + x /\ c[1] + x < FieldX
      /\ c[2] + y \in Int /\ 0 <= c[2] + y /\ c[2] + y < FieldY
  BY <1>1, <1>2, <1>4, <1>5
<1> QED BY <1>6, <1>7, InField

(* It never turns back: the cell it came from is one of the other directions. *)
LEMMA NeverBack ==
    ASSUME NEW c \in Coord, NEW e \in Coord, c # e,
           Toward(c, Way(c, e)) # e
    PROVE  Way(Toward(c, Way(c, e)), e) # Opposite(Way(c, e))
<1> DEFINE w == Toward(c, Way(c, e))
           x == dirx[Way(c, e) + 1]
           y == diry[Way(c, e) + 1]
           wx == dirx[Way(w, e) + 1]
           wy == diry[Way(w, e) + 1]
<1>1. SUFFICES ASSUME Way(w, e) = Opposite(Way(c, e)) PROVE FALSE OBVIOUS
<1>2. Way(c, e) \in Dir /\ w \in Coord BY DirectIs, DirectStays
<1>3. wx = -x /\ wy = -y /\ x \in {-1, 0, 1} /\ y \in {-1, 0, 1} /\ (x # 0 \/ y # 0)
  BY <1>1, <1>2, Turns
<1>4. w[1] = c[1] + x /\ w[2] = c[2] + y BY <1>2, TowardIs
<1>5. /\ x = 1 => e[1] > c[1]
      /\ x = -1 => e[1] < c[1]
      /\ y = 1 => e[2] > c[2]
      /\ y = -1 => e[2] < c[2]
  BY Nearing
<1>6. /\ wx = 1 => e[1] > w[1]
      /\ wx = -1 => e[1] < w[1]
      /\ wy = 1 => e[2] > w[2]
      /\ wy = -1 => e[2] < w[2]
  BY <1>2, Nearing
<1>7. /\ c[1] \in Int /\ c[2] \in Int /\ e[1] \in Int /\ e[2] \in Int
  BY InCoord
<1> HIDE DEF w, x, y, wx, wy
<1> QED BY <1>3, <1>4, <1>5, <1>6, <1>7

-----------------------------------------------------------------------------
(* What the sequences of the list hold after it is changed.                 *)
IsPut(t, S, s, p, e) ==
    /\ t \in Seq(S) /\ Len(t) = Len(s)
    /\ ToSet(t) \subseteq ToSet(s) \cup {e} /\ e \in ToSet(t)
    /\ ToSet(s) \subseteq ToSet(t) \cup {s[p]}
IsMapped(t, S, c, ds) ==
    /\ t \in Seq(S) /\ Len(t) = Len(ds)
    /\ ToSet(t) = {Toward(c, d) : d \in ToSet(ds)}

LEMMA Put ==
    ASSUME NEW S, NEW s \in Seq(S), NEW p \in 1 .. Len(s), NEW e \in S
    PROVE  IsPut([s EXCEPT ![p] = e], S, s, p, e)
<1> DEFINE n == Len(s)
           t == [s EXCEPT ![p] = e]
<1>1. n \in Nat /\ DOMAIN s = 1 .. n /\ p \in 1 .. n OBVIOUS
<1>2. t \in Seq(S) /\ Len(t) = n /\ DOMAIN t = 1 .. n
      /\ \A i \in 1 .. n : t[i] = IF i = p THEN e ELSE s[i]
  OBVIOUS
<1> HIDE DEF n, t
<1>3. ToSet(t) \subseteq ToSet(s) \cup {e} BY <1>1, <1>2 DEF ToSet
<1>4. e \in ToSet(t) BY <1>1, <1>2 DEF ToSet
<1>5. ToSet(s) \subseteq ToSet(t) \cup {s[p]} BY <1>1, <1>2 DEF ToSet
<1> QED BY <1>2, <1>3, <1>4, <1>5 DEF n, t, IsPut

LEMMA FieldMapped ==
    ASSUME NEW S, NEW c, NEW ds \in Seq(Dir), \A d \in ToSet(ds) : Toward(c, d) \in S
    PROVE  IsMapped([i \in DOMAIN ds |-> Toward(c, ds[i])], S, c, ds)
<1> DEFINE n == Len(ds)
           t == [i \in DOMAIN ds |-> Toward(c, ds[i])]
<1>1. n \in Nat /\ DOMAIN ds = 1 .. n OBVIOUS
<1>2. \A i \in 1 .. n : t[i] = Toward(c, ds[i]) /\ t[i] \in S BY <1>1 DEF ToSet
<1>3. t = [i \in 1 .. n |-> Toward(c, ds[i])] BY <1>1
<1>4. t \in Seq(S) /\ Len(t) = n /\ DOMAIN t = 1 .. n
  <2>1. t \in [1 .. n -> S]  BY <1>2, <1>3
  <2> HIDE DEF t
  <2> QED BY <1>1, <2>1, Listed
<1> HIDE DEF t
<1>5. ToSet(t) = {Toward(c, d) : d \in ToSet(ds)} BY <1>1, <1>2, <1>4 DEF ToSet
<1> QED BY <1>4, <1>5 DEF t, IsMapped

-----------------------------------------------------------------------------
PathTypes ==
    /\ open \subseteq Coord /\ start \in open /\ end \in open
    /\ at \in {"search", "rebuild", "done", "spinning"}
    /\ visited \in [Coord -> Dir \cup {None}]
    /\ split \in [Coord -> SUBSET Dir]
    /\ list \in Seq(open)
    /\ cur \in Nat
    /\ moves \in [Coord -> Nat]
    /\ visited[start] = 0

(* The cells to go on from have been entered. *)
ListEntered ==
    at = "search" => /\ cur <= Len(list)
                     /\ \A c \in ToSet(list) : visited[c] # None

(* While it is rebuilt the list is a way to end, nearer to the start by a   *)
(* move from each cell to the one before it.                                *)
WayRebuilt ==
    at # "search" =>
       /\ Len(list) > 0 /\ list[Len(list)] = end
       /\ Len(list) > 1 => visited[list[1]] # None
       /\ \A i \in 1 .. Len(list) - 1 : Adjacent(list[i], list[i + 1])
       /\ \A i, j \in 1 .. Len(list) : i < j => moves[list[i]] < moves[list[j]]
       /\ at = "done" => list[1] = start

PathInv == PathTypes /\ VisitedLeadBack /\ ListEntered /\ WayRebuilt

(* What a round of the search does, be it straight on or to other            *)
(* directions: it enters open cells next to Here, in the directions tried,  *)
(* and puts them in the list in place of Here.                              *)
Entered(c, tried) ==
    visited[c] = None /\ c \in open /\ \E d \in tried : Toward(Here, d) = c
Goes(tried) ==
    /\ UNCHANGED <<open, start, end, at>>
    /\ split' = [split EXCEPT ![Here] = @ \cup tried \cup {Direct}]
    /\ visited' \in [Coord -> Dir \cup {None}]
    /\ moves' \in [Coord -> Nat]
    /\ \A c \in Coord : IF Entered(c, tried)
                          THEN /\ visited'[c] \in Dir /\ Toward(c, visited'[c]) = Here
                               /\ moves'[c] = moves[Here] + 1
                          ELSE visited'[c] = visited[c] /\ moves'[c] = moves[c]
    /\ list' \in Seq(open)
    /\ \A c \in ToSet(list') : c \in ToSet(list) \/ \E d \in tried : Toward(Here, d) = c
    /\ \A c \in ToSet(list) : c \in ToSet(list') \/ c = Here
    /\ \A d \in tried : Toward(Here, d) \in open => Toward(Here, d) \in ToSet(list')
    /\ cur' \in Nat /\ cur' <= Len(list')

LEMMA DirFacts == 0 \in Dir /\ None \notin Dir /\ 0 # None
BY FieldAssumption DEF Dir

(* Here is an open cell of the list, and a step straight on stays in the field. *)
LEMMA Rounds ==
    ASSUME PathInv, Searching
    PROVE  /\ at = "search" /\ Place \in 1 .. Len(list) /\ Here = list[Place]
           /\ Here \in open /\ Here \in Coord /\ Here # end /\ visited[Here] # None
           /\ Here \in ToSet(list)
           /\ end \in Coord /\ Direct = Way(Here, end) /\ Direct \in Dir
           /\ Ahead \in Coord
<1>1. /\ at = "search" /\ list # <<>> /\ Here # end /\ list \in Seq(open) /\ cur \in Nat
      /\ open \subseteq Coord /\ end \in Coord /\ cur <= Len(list)
  BY DEF PathInv, PathTypes, ListEntered, Searching
<1>2. Place \in 1 .. Len(list)
  <2>1. Len(list) \in Nat /\ Len(list) > 0 BY <1>1
  <2> QED BY <1>1, <2>1 DEF Place
<1>3. Here = list[Place] /\ Here \in open BY <1>1, <1>2 DEF Here
<1>4. Here \in ToSet(list)
  <2>1. DOMAIN list = 1 .. Len(list) BY <1>1
  <2> QED BY <1>2, <1>3, <2>1 DEF ToSet
<1>5. visited[Here] # None BY <1>1, <1>4 DEF PathInv, ListEntered
<1>6. Direct = Way(Here, end) BY DEF Direct, Way
<1>7. Direct \in Dir /\ Ahead \in Coord
  BY <1>1, <1>3, <1>6, DirectIs, DirectStays DEF Ahead
<1> QED BY <1>1, <1>2, <1>3, <1>4, <1>5, <1>6, <1>7

LEMMA PlaceAfterIs ==
    ASSUME NEW n \in Nat, NEW l \in Nat
    PROVE  PlaceAfter(n, l) \in Nat /\ PlaceAfter(n, l) <= l
BY DEF PlaceAfter

LEMMA ProceedGoes ==
    ASSUME PathInv, Proceed
    PROVE  /\ Goes({Direct}) /\ CanProceed /\ Searching
           /\ visited'[Ahead] = Opposite(Direct) /\ Ahead \in ToSet(list')
<1>1. Searching /\ CanProceed BY DEF Proceed
<1>2. /\ at = "search" /\ Place \in 1 .. Len(list) /\ Here = list[Place]
      /\ Here \in open /\ Here \in Coord /\ Here # end /\ visited[Here] # None
      /\ Here \in ToSet(list)
      /\ end \in Coord /\ Direct = Way(Here, end) /\ Direct \in Dir
      /\ Ahead \in Coord
  BY <1>1, Rounds
<1>3. /\ visited' = [visited EXCEPT ![Ahead] = Opposite(Direct)]
      /\ moves' = [moves EXCEPT ![Ahead] = moves[Here] + 1]
      /\ list' = [list EXCEPT ![Place] = Ahead]
      /\ cur' = PlaceAfter(Place, Len(list))
      /\ split' = [split EXCEPT ![Here] = @ \cup {Direct}]
      /\ UNCHANGED <<open, start, end, at>>
  BY DEF Proceed, given
<1>4. Ahead \in open /\ visited[Ahead] = None /\ Ahead = Toward(Here, Direct)
  BY <1>1 DEF CanProceed, Ahead
<1>5. /\ visited \in [Coord -> Dir \cup {None}] /\ moves \in [Coord -> Nat]
      /\ list \in Seq(open) /\ split \in [Coord -> SUBSET Dir]
  BY DEF PathInv, PathTypes
<1>6. Opposite(Direct) \in Dir /\ Toward(Ahead, Opposite(Direct)) = Here
  BY <1>2, <1>4, Turns, TowardIs
<1>7. /\ list' \in Seq(open) /\ Len(list') = Len(list)
      /\ ToSet(list') \subseteq ToSet(list) \cup {Ahead} /\ Ahead \in ToSet(list')
      /\ ToSet(list) \subseteq ToSet(list') \cup {Here}
  <2> DEFINE l == list'
  <2>1. list \in Seq(open) /\ Place \in 1 .. Len(list) /\ Ahead \in open
    BY <1>2, <1>4, <1>5
  <2>2. IsPut([list EXCEPT ![Place] = Ahead], open, list, Place, Ahead)
    BY <2>1, Put, Zenon
  <2>3. l = [list EXCEPT ![Place] = Ahead] BY <1>3
  <2> HIDE DEF l
  <2>4. IsPut(l, open, list, Place, Ahead) BY <2>2, <2>3, Zenon
  <2>5. /\ l \in Seq(open) /\ Len(l) = Len(list)
        /\ ToSet(l) \subseteq ToSet(list) \cup {Ahead} /\ Ahead \in ToSet(l)
        /\ ToSet(list) \subseteq ToSet(l) \cup {list[Place]}
    BY <2>4 DEF IsPut
  <2> QED BY <1>2, <2>5 DEF l
<1>8. cur' \in Nat /\ cur' <= Len(list')
  <2>1. Place \in Nat /\ Len(list) \in Nat BY <1>2, <1>5
  <2> QED BY <1>3, <1>7, <2>1, PlaceAfterIs
<1>9. /\ visited' \in [Coord -> Dir \cup {None}] /\ moves' \in [Coord -> Nat]
      /\ visited'[Ahead] = Opposite(Direct) /\ moves'[Ahead] = moves[Here] + 1
      /\ \A c \in Coord : c # Ahead => visited'[c] = visited[c] /\ moves'[c] = moves[c]
  BY <1>2, <1>3, <1>5, <1>6
<1>10. ASSUME NEW c \in Coord
       PROVE  IF Entered(c, {Direct})
                THEN /\ visited'[c] \in Dir /\ Toward(c, visited'[c]) = Here
                     /\ moves'[c] = moves[Here] + 1
                ELSE visited'[c] = visited[c] /\ moves'[c] = moves[c]
  <2>1. CASE c = Ahead
    <3>1. Entered(c, {Direct}) BY <1>4, <2>1 DEF Entered
    <3> QED BY <1>6, <1>9, <2>1, <3>1
  <2>2. CASE c # Ahead
    <3>1. ~Entered(c, {Direct}) BY <1>4, <2>2 DEF Entered
    <3> QED BY <1>9, <2>2, <3>1
  <2> QED BY <2>1, <2>2
<1>11. split' = [split EXCEPT ![Here] = @ \cup {Direct} \cup {Direct}]
  BY <1>2, <1>3, <1>5
<1> QED BY <1>1, <1>3, <1>4, <1>7, <1>8, <1>9, <1>10, <1>11 DEF Goes

(* The offsets give each of the other directions.                           *)
LEMMA OthersAre ==
    ASSUME Direct \in Dir
    PROVE  Others \in Seq(Dir) /\ ToSet(Others) = Dir \ {Direct}
<1> DEFINE D == Direct
           At(k) == IF D + k < 8 THEN D + k ELSE D + k - 8
<1>1. D \in 0 .. 7 /\ Dir = 0 .. 7 BY DEF Dir
<1>2. /\ split_offset[1] = 4 /\ split_offset[2] = 5 /\ split_offset[3] = 3
      /\ split_offset[4] = 6 /\ split_offset[5] = 2 /\ split_offset[6] = 7
      /\ split_offset[7] = 1
  BY DEF split_offset
<1>3. Others = [i \in 1 .. 7 |-> (D + split_offset[i]) % 8] BY DEF Others
<1> HIDE DEF D
<1>4. /\ Others[1] = At(4) /\ Others[2] = At(5) /\ Others[3] = At(3) /\ Others[4] = At(6)
      /\ Others[5] = At(2) /\ Others[6] = At(7) /\ Others[7] = At(1)
  <2>1. \A k \in 1 .. 7 : (D + k) % 8 = At(k) BY <1>1
  <2> QED BY <1>2, <1>3, <2>1
<1>5. \A i \in 1 .. 7 : i = 1 \/ i = 2 \/ i = 3 \/ i = 4 \/ i = 5 \/ i = 6 \/ i = 7 OBVIOUS
<1>6. \A k \in 1 .. 7 : At(k) \in Dir \ {D} BY <1>1
<1>7. \A i \in 1 .. 7 : Others[i] \in Dir \ {D}
  <2> HIDE DEF At
  <2> QED BY <1>4, <1>5, <1>6
<1>8. Others \in Seq(Dir) /\ DOMAIN Others = 1 .. 7
  <2> DEFINE o == Others
  <2>1. o \in [1 .. 7 -> Dir] BY <1>3, <1>7
  <2> HIDE DEF o
  <2>2. o \in Seq(Dir) /\ DOMAIN o = 1 .. 7
    <3>1. 7 \in Nat OBVIOUS
    <3> QED BY <2>1, <3>1, Listed
  <2> QED BY <2>2 DEF o
<1>9. ASSUME NEW d \in Dir \ {D} PROVE \E i \in 1 .. 7 : Others[i] = d
  <2>1. \E k \in 1 .. 7 : At(k) = d
    <3>1. CASE d > D
      <4>1. d - D \in 1 .. 7 /\ D + (d - D) = d /\ d < 8 BY <1>1, <3>1
      <4> QED BY <4>1
    <3>2. CASE ~(d > D)
      <4>1. d - D + 8 \in 1 .. 7 /\ D + (d - D + 8) - 8 = d /\ ~(D + (d - D + 8) < 8)
        BY <1>1, <3>2
      <4> QED BY <4>1
    <3> QED BY <3>1, <3>2
  <2> HIDE DEF At
  <2> QED BY <1>4, <1>5, <2>1
<1> QED BY <1>7, <1>8, <1>9 DEF ToSet, D

(* With FIND_OPTIMAL all are tried that were not before.                    *)
LEMMA TriedAre ==
    ASSUME Direct \in Dir
    PROVE  /\ Tried \in Seq(Dir)
           /\ ToSet(Tried) \subseteq (Dir \ {Direct}) \ split[Here]
           /\ FIND_OPTIMAL => ToSet(Tried) = (Dir \ {Direct}) \ split[Here]
<1>1. Untried \in Seq(Dir) /\ ToSet(Untried) = (Dir \ {Direct}) \ split[Here]
  <2>1. ToSet(Untried) = (Dir \ {Direct}) \cap (Dir \ split[Here])
    BY OthersAre, AmongIs DEF Untried
  <2>2. Untried \in Seq(Dir) BY OthersAre, AmongIs DEF Untried
  <2> QED BY <2>1, <2>2
<1> DEFINE I == {i \in DOMAIN Untried : Untried[i] \in Useful}
<1>2. Tried = IF FIND_OPTIMAL \/ I = {} THEN Untried ELSE SubSeq(Untried, 1, Min(I))
  BY DEF Tried
<1>3. CASE FIND_OPTIMAL \/ I = {}
  <2> HIDE DEF I
  <2> QED BY <1>1, <1>2, <1>3
<1>4. CASE ~(FIND_OPTIMAL \/ I = {})
  <2>1. I \subseteq 1 .. Len(Untried) /\ I # {} BY <1>1, <1>4
  <2>2. Min(I) \in 0 .. Len(Untried) BY <2>1, MinIn, <1>1
  <2> HIDE DEF I
  <2> QED BY <1>1, <1>2, <1>4, <2>2, Shortened
<1> QED BY <1>3, <1>4

LEMMA SpreadGoes ==
    ASSUME PathInv, Spread
    PROVE  Goes(ToSet(Tried)) /\ ~CanProceed /\ Searching
<1>1. Searching /\ ~CanProceed BY DEF Spread
<1>2. /\ at = "search" /\ Place \in 1 .. Len(list) /\ Here = list[Place]
      /\ Here \in open /\ Here \in Coord /\ Here # end /\ visited[Here] # None
      /\ Here \in ToSet(list)
      /\ end \in Coord /\ Direct = Way(Here, end) /\ Direct \in Dir
      /\ Ahead \in Coord
  BY <1>1, Rounds
<1> DEFINE tried == ToSet(Tried)
           ds == Among(Tried, Useful)
           reached == {d \in ToSet(ds) : visited[Toward(Here, d)] = None}
           new == {Toward(Here, d) : d \in reached}
           Pick(c) == CHOOSE d \in reached : Toward(Here, d) = c
           onto == [i \in DOMAIN ds |-> Toward(Here, ds[i])]
<1>3. /\ visited' = [c \in Coord |-> IF c \in new THEN Opposite(Pick(c)) ELSE visited[c]]
      /\ moves' = [c \in Coord |-> IF c \in new THEN moves[Here] + 1 ELSE moves[c]]
      /\ split' = [split EXCEPT ![Here] = @ \cup tried \cup {Direct}]
      /\ list' = Reverse(onto) \o RemoveAt(list, Place)
      /\ cur' = PlaceAfter(Len(ds) + Place - 1, Len(ds) + Len(list) - 1)
      /\ UNCHANGED <<open, start, end, at>>
  BY DEF Spread, given
<1>4. Tried \in Seq(Dir) /\ tried \subseteq Dir BY <1>2, TriedAre
<1>5. ds \in Seq(Dir) /\ ToSet(ds) = tried \cap Useful BY <1>4, AmongIs
<1>6. \A d \in Dir : d \in Useful <=> Toward(Here, d) \in open BY DEF Useful
<1>7. /\ visited \in [Coord -> Dir \cup {None}] /\ moves \in [Coord -> Nat]
      /\ list \in Seq(open) /\ open \subseteq Coord
  BY DEF PathInv, PathTypes
<1>8. /\ onto \in Seq(open) /\ Len(onto) = Len(ds)
      /\ ToSet(onto) = {Toward(Here, d) : d \in ToSet(ds)}
  <2>1. \A d \in ToSet(ds) : Toward(Here, d) \in open BY <1>4, <1>5, <1>6
  <2>2. ds \in Seq(Dir) BY <1>5
  <2> HIDE DEF ds
  <2>3. IsMapped(onto, open, Here, ds) BY <2>1, <2>2, FieldMapped, Zenon
  <2> HIDE DEF onto
  <2> QED BY <2>3 DEF IsMapped
<1> HIDE DEF ds, tried, onto
<1>9. /\ Reverse(onto) \in Seq(open) /\ Len(Reverse(onto)) = Len(ds)
      /\ ToSet(Reverse(onto)) = {Toward(Here, d) : d \in ToSet(ds)}
  BY <1>8, Reversed
<1>10. /\ RemoveAt(list, Place) \in Seq(open) /\ Len(RemoveAt(list, Place)) = Len(list) - 1
       /\ ToSet(RemoveAt(list, Place)) \subseteq ToSet(list)
       /\ ToSet(list) \subseteq ToSet(RemoveAt(list, Place)) \cup {Here}
  BY <1>2, <1>7, Removed
<1>11. /\ list' \in Seq(open) /\ Len(list') = Len(ds) + (Len(list) - 1)
       /\ ToSet(list') = {Toward(Here, d) : d \in ToSet(ds)} \cup ToSet(RemoveAt(list, Place))
  <2> DEFINE l == list'
             s == Reverse(onto)
             t == RemoveAt(list, Place)
  <2>1. l = s \o t BY <1>3
  <2>2. /\ s \in Seq(open) /\ Len(s) = Len(ds) /\ ToSet(s) = {Toward(Here, d) : d \in ToSet(ds)}
        /\ t \in Seq(open) /\ Len(t) = Len(list) - 1
    BY <1>9, <1>10
  <2> HIDE DEF l, s, t
  <2>3. s \o t \in Seq(open) /\ Len(s \o t) = Len(s) + Len(t)
        /\ ToSet(s \o t) = ToSet(s) \cup ToSet(t)
    BY <2>2, Joined
  <2>4. /\ l \in Seq(open) /\ Len(l) = Len(ds) + (Len(list) - 1)
        /\ ToSet(l) = {Toward(Here, d) : d \in ToSet(ds)} \cup ToSet(t)
    BY <2>1, <2>2, <2>3
  <2> QED BY <2>4 DEF l, t
<1>12. cur' \in Nat /\ cur' <= Len(list')
  <2>1. Len(ds) \in Nat /\ Len(list) \in Nat BY <1>5, <1>7
  <2>2. Len(ds) + Place - 1 \in Nat /\ Len(ds) + Len(list) - 1 \in Nat
        /\ Len(list') = Len(ds) + Len(list) - 1
    BY <1>2, <1>11, <2>1
  <2> QED BY <1>3, <2>2, PlaceAfterIs
<1>13. ASSUME NEW c \in Coord
       PROVE  /\ IF Entered(c, tried)
                   THEN /\ visited'[c] \in Dir /\ Toward(c, visited'[c]) = Here
                        /\ moves'[c] = moves[Here] + 1
                   ELSE visited'[c] = visited[c] /\ moves'[c] = moves[c]
              /\ visited'[c] \in Dir \cup {None} /\ moves'[c] \in Nat
  <2>1. Entered(c, tried) <=> c \in new
    <3>1. ASSUME Entered(c, tried) PROVE c \in new
      <4>1. PICK d \in tried : Toward(Here, d) = c BY <3>1 DEF Entered
      <4>2. d \in ToSet(ds) /\ visited[Toward(Here, d)] = None
        BY <1>4, <1>5, <1>6, <3>1, <4>1 DEF Entered
      <4> QED BY <4>1, <4>2
    <3>2. ASSUME c \in new PROVE Entered(c, tried)
      <4>1. PICK d \in ToSet(ds) : c = Toward(Here, d) /\ visited[c] = None BY <3>2
      <4>2. d \in tried /\ c \in open BY <1>4, <1>5, <1>6, <4>1
      <4> QED BY <4>1, <4>2 DEF Entered
    <3> QED BY <3>1, <3>2
  <2>2. CASE c \in new
    <3>1. \E d \in reached : Toward(Here, d) = c BY <2>2
    <3>2. Pick(c) \in reached /\ Toward(Here, Pick(c)) = c
      <4> HIDE DEF reached
      <4> QED BY <3>1
    <3>3. Pick(c) \in Dir BY <1>4, <1>5, <3>2
    <3>4. visited'[c] = Opposite(Pick(c)) /\ moves'[c] = moves[Here] + 1
      BY <1>3, <2>2
    <3> HIDE DEF Pick, new, reached
    <3>5. visited'[c] \in Dir /\ Toward(c, visited'[c]) = Here
      BY <1>2, <3>2, <3>3, <3>4, Turns, TowardIs
    <3>6. moves[Here] + 1 \in Nat BY <1>2, <1>7
    <3> QED BY <2>1, <2>2, <3>4, <3>5, <3>6
  <2>3. CASE c \notin new
    <3>1. visited'[c] = visited[c] /\ moves'[c] = moves[c] BY <1>3, <2>3
    <3> HIDE DEF new
    <3> QED BY <1>7, <2>1, <2>3, <3>1
  <2> QED BY <2>2, <2>3
<1>14. visited' \in [Coord -> Dir \cup {None}] /\ moves' \in [Coord -> Nat]
  <2>1. visited' = [c \in Coord |-> visited'[c]] /\ moves' = [c \in Coord |-> moves'[c]]
    <3> HIDE DEF new, Pick
    <3> QED BY <1>3
  <2> QED BY <1>13, <2>1
<1> HIDE DEF new, Pick, reached
<1>15. \A c \in ToSet(list') : c \in ToSet(list) \/ \E d \in tried : Toward(Here, d) = c
  BY <1>5, <1>10, <1>11
<1>16. \A c \in ToSet(list) : c \in ToSet(list') \/ c = Here BY <1>10, <1>11
<1>17. ASSUME NEW d \in tried, Toward(Here, d) \in open PROVE Toward(Here, d) \in ToSet(list')
  <2>1. d \in ToSet(ds) BY <1>4, <1>5, <1>6, <1>17
  <2> QED BY <1>11, <2>1
<1>18. Goes(tried)
  BY <1>3, <1>11, <1>12, <1>13, <1>14, <1>15, <1>16, <1>17 DEF Goes
<1> QED BY <1>1, <1>18 DEF tried

LEMMA GoesKeeps ==
    ASSUME PathInv, Searching, NEW tried \in SUBSET Dir, Goes(tried)
    PROVE  PathInv'
<1>1. /\ at = "search" /\ Here \in open /\ Here \in Coord /\ visited[Here] # None
      /\ Direct \in Dir
  BY Rounds
<1>2. /\ open' = open /\ start' = start /\ end' = end /\ at' = at
      /\ split' = [split EXCEPT ![Here] = @ \cup tried \cup {Direct}]
      /\ visited' \in [Coord -> Dir \cup {None}]
      /\ moves' \in [Coord -> Nat] /\ list' \in Seq(open)
      /\ cur' \in Nat /\ cur' <= Len(list')
  BY DEF Goes
<1>3. \A c \in Coord : IF Entered(c, tried)
                          THEN /\ visited'[c] \in Dir /\ Toward(c, visited'[c]) = Here
                               /\ moves'[c] = moves[Here] + 1
                          ELSE visited'[c] = visited[c] /\ moves'[c] = moves[c]
  BY DEF Goes
<1>4. /\ open \subseteq Coord /\ start \in open /\ end \in open
      /\ split \in [Coord -> SUBSET Dir] /\ visited[start] = 0
      /\ visited \in [Coord -> Dir \cup {None}]
      /\ 0 # None /\ None \notin Dir
  BY DirFacts DEF PathInv, PathTypes
<1>5. \A c \in Coord : visited[c] # None =>
         ~Entered(c, tried) /\ visited'[c] = visited[c] /\ moves'[c] = moves[c]
  BY <1>3 DEF Entered
<1>6. PathTypes'
  <2>1. visited'[start] = 0 BY <1>4, <1>5
  <2>2. split' \in [Coord -> SUBSET Dir] BY <1>1, <1>2, <1>4
  <2>3. at \in {"search", "rebuild", "done", "spinning"} BY DEF PathInv, PathTypes
  <2> QED BY <1>2, <1>4, <2>1, <2>2, <2>3 DEF PathTypes
<1>7. VisitedLeadBack'
  <2> SUFFICES ASSUME NEW c \in Coord \ {start}, visited'[c] # None
               PROVE  /\ c \in open /\ Toward(c, visited'[c]) \in open
                      /\ visited'[Toward(c, visited'[c])] # None
                      /\ moves'[c] = moves'[Toward(c, visited'[c])] + 1
    BY <1>2 DEF VisitedLeadBack
  <2>1. CASE Entered(c, tried)
    <3>1. c \in open /\ Toward(c, visited'[c]) = Here /\ moves'[c] = moves[Here] + 1
      BY <1>3, <2>1 DEF Entered
    <3>2. visited'[Here] = visited[Here] /\ moves'[Here] = moves[Here] BY <1>1, <1>5
    <3> QED BY <1>1, <3>1, <3>2
  <2>2. CASE ~Entered(c, tried)
    <3>1. visited'[c] = visited[c] /\ moves'[c] = moves[c] BY <1>3, <2>2
    <3> DEFINE from == Toward(c, visited[c])
    <3>2. /\ c \in open /\ from \in open /\ visited[from] # None
          /\ moves[c] = moves[from] + 1
      BY <3>1 DEF PathInv, VisitedLeadBack
    <3>3. from \in Coord BY <1>4, <3>2
    <3>4. visited'[from] = visited[from] /\ moves'[from] = moves[from]
      BY <1>5, <3>2, <3>3
    <3> QED BY <3>1, <3>2, <3>4
  <2> QED BY <2>1, <2>2
<1>8. ListEntered'
  <2> SUFFICES ASSUME NEW c \in ToSet(list') PROVE visited'[c] # None
    BY <1>2 DEF ListEntered
  <2>1. c \in open
    <3>1. DOMAIN list' = 1 .. Len(list') BY <1>2
    <3> QED BY <1>2, <3>1 DEF ToSet
  <2>2. c \in ToSet(list) \/ \E d \in tried : Toward(Here, d) = c BY DEF Goes
  <2>3. CASE visited[c] # None BY <1>4, <1>5, <2>1, <2>3
  <2>4. CASE visited[c] = None
    <3>1. c \notin ToSet(list) BY <1>1, <2>4 DEF PathInv, ListEntered
    <3>2. Entered(c, tried) BY <2>1, <2>2, <2>4, <3>1 DEF Entered
    <3> QED BY <1>3, <1>4, <2>1, <3>2
  <2> QED BY <2>3, <2>4
<1>9. WayRebuilt' BY <1>1, <1>2 DEF WayRebuilt
<1> QED BY <1>6, <1>7, <1>8, <1>9 DEF PathInv

LEMMA EndSearchKeeps ==
    ASSUME PathInv, EndSearch
    PROVE  PathInv'
<1>1. /\ at' = "rebuild" /\ list' = <<end>> /\ cur' = 0
      /\ UNCHANGED <<open, start, end, visited, split, moves>>
  BY DEF EndSearch, given
<1>2. end \in open BY DEF PathInv, PathTypes
<1>3. list' \in Seq(open) /\ Len(list') = 1 /\ list'[1] = end BY <1>1, <1>2
<1>4. PathTypes' BY <1>1, <1>3 DEF PathInv, PathTypes
<1>5. VisitedLeadBack' BY <1>1 DEF PathInv, VisitedLeadBack
<1>6. ListEntered' BY <1>1 DEF ListEntered
<1>7. WayRebuilt'
  <2>1. \A i : i \in 1 .. 1 => i = 1 OBVIOUS
  <2>2. \A i \in 1 .. 1 - 1 : FALSE OBVIOUS
  <2>3. \A i, j \in 1 .. 1 : ~(i < j) OBVIOUS
  <2> QED BY <1>1, <1>3, <2>2, <2>3 DEF WayRebuilt
<1> QED BY <1>4, <1>5, <1>6, <1>7 DEF PathInv

(* The cell put before the way is a move nearer to the start than all of it. *)
LEMMA BackUpKeeps ==
    ASSUME PathInv, BackUp
    PROVE  PathInv'
<1> DEFINE head == list[1]
           n == Len(list)
           from == Toward(head, visited[head])
           l == list'
<1>1. /\ at = "rebuild" /\ at' = at /\ head # start /\ visited[head] # None
      /\ l = <<from>> \o list
      /\ UNCHANGED <<open, start, end, visited, split, cur, moves>>
  BY DEF BackUp, given
<1>2. /\ list \in Seq(open) /\ open \subseteq Coord /\ start \in open
      /\ visited \in [Coord -> Dir \cup {None}] /\ moves \in [Coord -> Nat]
      /\ cur \in Nat
  BY DEF PathInv, PathTypes
<1>3. /\ n > 0 /\ list[n] = end
      /\ \A i \in 1 .. n - 1 : Adjacent(list[i], list[i + 1])
      /\ \A i, j \in 1 .. n : i < j => moves[list[i]] < moves[list[j]]
  BY <1>1 DEF PathInv, WayRebuilt
<1>4. n \in Nat /\ 1 \in 1 .. n BY <1>2, <1>3
<1>5. head \in open /\ head \in Coord BY <1>2, <1>4
<1>6. visited[head] \in Dir BY <1>1, <1>2, <1>5
<1>7. /\ from \in open /\ visited[from] # None /\ moves[head] = moves[from] + 1
  BY <1>1, <1>5 DEF PathInv, VisitedLeadBack
<1>8. Adjacent(from, head) BY <1>2, <1>5, <1>6, <1>7, TowardIs
<1>9. /\ l \in Seq(open) /\ Len(l) = n + 1 /\ l[1] = from
      /\ \A i \in 2 .. n + 1 : l[i] = list[i - 1]
  BY <1>1, <1>2, <1>7
<1>10. moves[from] \in Nat /\ \A i \in 1 .. n : moves[list[i]] \in Nat
  <2>1. \A i \in 1 .. n : list[i] \in Coord BY <1>2
  <2> QED BY <1>2, <1>7, <2>1
<1>11. PathTypes'
  <2>1. l \in Seq(open) BY <1>9
  <2> HIDE DEF head, n, from
  <2> QED BY <1>1, <2>1 DEF PathInv, PathTypes
<1> HIDE DEF head, n, from
<1>12. VisitedLeadBack' BY <1>1 DEF PathInv, VisitedLeadBack
<1>13. ListEntered' BY <1>1 DEF ListEntered
<1>14. WayRebuilt'
  <2> DEFINE mv == moves
             bef == visited
  <2>0. \A i \in 2 .. n + 1 : i - 1 \in 1 .. n BY <1>4
  <2>1. Len(l) > 0 /\ l[Len(l)] = end
    <3>1. n + 1 \in 2 .. n + 1 /\ (n + 1) - 1 = n BY <1>3, <1>4
    <3> HIDE DEF l
    <3> QED BY <1>3, <1>4, <1>9, <3>1
  <2>2. bef[l[1]] # None BY <1>7, <1>9
  <2>3. ASSUME NEW i \in 1 .. Len(l) - 1 PROVE Adjacent(l[i], l[i + 1])
    <3> HIDE DEF l
    <3>1. i \in 1 .. n BY <1>4, <1>9
    <3>2. i + 1 \in 2 .. n + 1 /\ (i + 1) - 1 = i BY <1>4, <3>1
    <3>3. l[i + 1] = list[i] BY <1>9, <3>2
    <3>4. CASE i = 1 BY <1>8, <1>9, <3>3, <3>4 DEF head
    <3>5. CASE i # 1
      <4>1. i \in 2 .. n + 1 /\ i - 1 \in 1 .. n - 1 /\ (i - 1) + 1 = i BY <1>4, <3>1, <3>5
      <4>2. l[i] = list[i - 1] BY <1>9, <4>1
      <4>3. Adjacent(list[i - 1], list[(i - 1) + 1]) BY <1>3, <4>1
      <4> QED BY <3>3, <4>1, <4>2, <4>3
    <3> QED BY <3>4, <3>5
  <2>4. ASSUME NEW i \in 1 .. Len(l), NEW j \in 1 .. Len(l), i < j PROVE mv[l[i]] < mv[l[j]]
    <3> HIDE DEF l, mv
    <3>1. j \in 2 .. n + 1 /\ j - 1 \in 1 .. n BY <1>4, <1>9, <2>4
    <3>2. l[j] = list[j - 1] BY <1>9, <3>1
    <3>3. CASE i = 1
      <4>1. mv[from] < mv[list[1]] BY <1>4, <1>7, <1>10 DEF head, mv
      <4>2. j - 1 = 1 \/ 1 < j - 1 BY <3>1
      <4>3. mv[from] < mv[list[j - 1]]
        BY <1>3, <1>4, <1>10, <3>1, <4>1, <4>2 DEF mv
      <4> QED BY <1>9, <3>2, <3>3, <4>3
    <3>4. CASE i # 1
      <4>1. i \in 2 .. n + 1 /\ i - 1 \in 1 .. n /\ i - 1 < j - 1
        BY <1>4, <1>9, <2>4, <3>1, <3>4
      <4>2. l[i] = list[i - 1] BY <1>9, <4>1
      <4> QED BY <1>3, <3>1, <3>2, <4>1, <4>2 DEF mv
    <3> QED BY <3>3, <3>4
  <2>5. /\ at' # "done" /\ at' # "search" BY <1>1
  <2> QED BY <1>1, <2>1, <2>2, <2>3, <2>4, <2>5 DEF WayRebuilt
<1> QED BY <1>11, <1>12, <1>13, <1>14 DEF PathInv

LEMMA EndsKeep ==
    ASSUME PathInv, Spin \/ Finish
    PROVE  PathInv'
<1>1. /\ at = "rebuild" /\ at' \in {"spinning", "done"} /\ (at' = "done" => list[1] = start)
      /\ UNCHANGED <<open, start, end, visited, split, list, cur, moves>>
  BY DEF Spin, Finish, given
<1>2. PathTypes' BY <1>1 DEF PathInv, PathTypes
<1>3. VisitedLeadBack' BY <1>1 DEF PathInv, VisitedLeadBack
<1>4. ListEntered' BY <1>1 DEF ListEntered
<1>5. WayRebuilt' BY <1>1 DEF PathInv, WayRebuilt
<1> QED BY <1>2, <1>3, <1>4, <1>5 DEF PathInv

LEMMA PathStarts == PathInit => PathInv
<1> SUFFICES ASSUME PathInit PROVE PathInv OBVIOUS
<1>1. /\ open \subseteq Coord /\ start \in open /\ end \in open /\ at = "search"
      /\ visited = [c \in Coord |-> IF c = start THEN 0 ELSE None]
      /\ split = [c \in Coord |-> {}] /\ list = <<start>> /\ cur = 1
      /\ moves = [c \in Coord |-> 0]
  BY DEF PathInit
<1>2. 0 \in Dir /\ 0 # None BY DirFacts
<1>3. list \in Seq(open) /\ Len(list) = 1 /\ ToSet(list) = {start} BY <1>1 DEF ToSet
<1>4. start \in Coord BY <1>1
<1>5. PathTypes BY <1>1, <1>2, <1>3, <1>4 DEF PathTypes
<1>6. VisitedLeadBack BY <1>1 DEF VisitedLeadBack
<1>7. ListEntered BY <1>1, <1>2, <1>3, <1>4 DEF ListEntered
<1>8. WayRebuilt BY <1>1 DEF WayRebuilt
<1> QED BY <1>5, <1>6, <1>7, <1>8 DEF PathInv

LEMMA PathInvKept == PathInv /\ [PathNext]_path => PathInv'
<1> SUFFICES ASSUME PathInv, [PathNext]_path PROVE PathInv' OBVIOUS
<1>1. CASE Proceed
  <2>1. Goes({Direct}) /\ Searching /\ Direct \in Dir BY <1>1, ProceedGoes, Rounds
  <2> QED BY <2>1, GoesKeeps
<1>2. CASE Spread
  <2>1. Goes(ToSet(Tried)) /\ Searching BY <1>2, SpreadGoes
  <2>2. ToSet(Tried) \subseteq Dir BY <2>1, Rounds, TriedAre
  <2> QED BY <2>1, <2>2, GoesKeeps
<1>3. CASE EndSearch BY <1>3, EndSearchKeeps
<1>4. CASE BackUp BY <1>4, BackUpKeeps
<1>5. CASE Spin \/ Finish BY <1>5, EndsKeep
<1>6. CASE UNCHANGED path
  <2>1. UNCHANGED <<open, start, end, at, visited, split, list, cur, moves>>
    BY <1>6 DEF path, given
  <2>2. PathTypes' BY <2>1 DEF PathInv, PathTypes
  <2>3. VisitedLeadBack' BY <2>1 DEF PathInv, VisitedLeadBack
  <2>4. ListEntered' BY <2>1 DEF PathInv, ListEntered
  <2>5. WayRebuilt' BY <2>1 DEF PathInv, WayRebuilt
  <2> QED BY <2>2, <2>3, <2>4, <2>5 DEF PathInv
<1> QED BY <1>1, <1>2, <1>3, <1>4, <1>5, <1>6 DEF PathNext

LEMMA StaysInField == PathInv => DirectInField
<1> SUFFICES ASSUME PathInv PROVE DirectInField OBVIOUS
<1>1. list \in Seq(open) /\ open \subseteq Coord BY DEF PathInv, PathTypes
<1>2. \A i \in 1 .. Len(list) : list[i] \in Coord BY <1>1
<1>3. Searching => Ahead \in Coord BY Rounds
<1> QED BY <1>2, <1>3 DEF DirectInField

LEMMA IsWalkable == PathInv => WayIsWalkable
<1> SUFFICES ASSUME PathInv, at = "done" PROVE
       /\ list[1] = start /\ list[Len(list)] = end
       /\ \A i \in 1 .. Len(list) : list[i] \in open
       /\ \A i \in 1 .. Len(list) - 1 : Adjacent(list[i], list[i + 1])
       /\ \A i, j \in 1 .. Len(list) : list[i] = list[j] => i = j
  BY DEF WayIsWalkable
<1>1. /\ list \in Seq(open) /\ open \subseteq Coord /\ moves \in [Coord -> Nat]
  BY DEF PathInv, PathTypes
<1>2. /\ list[Len(list)] = end /\ list[1] = start
      /\ \A i \in 1 .. Len(list) - 1 : Adjacent(list[i], list[i + 1])
      /\ \A i, j \in 1 .. Len(list) : i < j => moves[list[i]] < moves[list[j]]
  BY DEF PathInv, WayRebuilt
<1>3. \A i \in 1 .. Len(list) : list[i] \in open BY <1>1
<1>4. ASSUME NEW i \in 1 .. Len(list), NEW j \in 1 .. Len(list), list[i] = list[j]
      PROVE  i = j
  <2>1. moves[list[i]] \in Nat BY <1>1, <1>3
  <2>2. ~(moves[list[i]] < moves[list[j]]) /\ ~(moves[list[j]] < moves[list[i]])
    BY <1>4, <2>1
  <2>3. ~(i < j) /\ ~(j < i) BY <1>2, <2>2
  <2> QED BY <2>3
<1> QED BY <1>2, <1>3, <1>4

-----------------------------------------------------------------------------
(* The direction a cell has spread to leads to a cell that was entered.     *)
SplitEntered ==
    \A c \in open, d \in Dir :
       /\ visited[c] = None => d \notin split[c]
       /\ d \in split[c] /\ Toward(c, d) \in open => visited[Toward(c, d)] # None

(* A cell that went straight on waits for the next, which was entered and   *)
(* has done no more than to go on itself.                                   *)
Waits(c) ==
    LET w == Toward(c, Way(c, end))
    IN w \in open /\ visited[w] # None /\ split[w] \subseteq {Way(w, end)}

(* Whatever was entered is in the list, or is done with, or waits.          *)
Kept ==
    at = "search" =>
       \A c \in open :
          \/ visited[c] = None
          \/ c \in ToSet(list)
          \/ c # end /\ (split[c] = Dir \/ Waits(c))

(* The search has come to the end, or to all there is around what it came to. *)
Ended ==
    at # "search" =>
       \/ visited[end] # None
       \/ \A c, d \in open : visited[c] # None /\ Adjacent(c, d) => visited[d] # None

ComesBack == SplitEntered /\ Kept /\ Ended

LEMMA SplitEnteredKept ==
    ASSUME PathInv, SplitEntered, Searching,
           NEW tried \in SUBSET Dir, Goes(tried),
           Ahead \in open => visited'[Ahead] # None
    PROVE  SplitEntered'
<1>1. /\ Here \in open /\ Here \in Coord /\ visited[Here] # None
      /\ Direct \in Dir /\ Ahead = Toward(Here, Direct)
  BY Rounds DEF Ahead
<1>2. /\ open' = open
      /\ split' = [split EXCEPT ![Here] = @ \cup tried \cup {Direct}]
      /\ \A c \in Coord : IF Entered(c, tried)
                          THEN visited'[c] \in Dir
                          ELSE visited'[c] = visited[c]
  BY DEF Goes
<1>3. split \in [Coord -> SUBSET Dir] /\ open \subseteq Coord /\ None \notin Dir
  BY DirFacts DEF PathInv, PathTypes
<1>4. \A c \in open : visited[c] # None => visited'[c] # None
  BY <1>2, <1>3 DEF Entered
<1>5. \A c \in open : Entered(c, tried) => visited'[c] # None
  BY <1>2, <1>3
<1> SUFFICES ASSUME NEW c \in open, NEW d \in Dir
             PROVE  /\ visited'[c] = None => d \notin split'[c]
                    /\ d \in split'[c] /\ Toward(c, d) \in open => visited'[Toward(c, d)] # None
  BY <1>2 DEF SplitEntered
<1>6. CASE c = Here
  <2>1. visited'[c] # None BY <1>1, <1>4, <1>6
  <2>2. split'[c] = split[c] \cup tried \cup {Direct} BY <1>1, <1>2, <1>3, <1>6
  <2>3. ASSUME d \in split'[c], Toward(c, d) \in open PROVE visited'[Toward(c, d)] # None
    <3>1. CASE d \in split[c] BY <1>4, <2>3, <3>1 DEF SplitEntered
    <3>2. CASE d = Direct BY <1>1, <1>6, <2>3, <3>2
    <3>3. CASE d \in tried
      <4>1. CASE visited[Toward(c, d)] # None BY <1>4, <2>3, <4>1
      <4>2. CASE visited[Toward(c, d)] = None
        <5>1. Entered(Toward(c, d), tried) BY <1>6, <2>3, <3>3, <4>2 DEF Entered
        <5> QED BY <1>5, <2>3, <5>1
      <4> QED BY <4>1, <4>2
    <3> QED BY <2>2, <2>3, <3>1, <3>2, <3>3
  <2> QED BY <2>1, <2>3
<1>7. CASE c # Here
  <2>1. split'[c] = split[c] BY <1>2, <1>3, <1>7
  <2>2. visited'[c] = None => visited[c] = None BY <1>4
  <2> QED BY <1>4, <2>1, <2>2 DEF SplitEntered
<1> QED BY <1>6, <1>7

LEMMA WaitsThen ==
    ASSUME NEW c, open' = open, end' = end
    PROVE  LET w == Toward(c, Way(c, end))
           IN Waits(c)' <=> /\ w \in open /\ visited'[w] # None
                            /\ split'[w] \subseteq {Way(w, end)}
BY DEF Waits, Way, DirectFrom

(* What waited still does, but for a wait for Here.                         *)
LEMMA WaitsOn ==
    ASSUME PathInv, Searching, NEW tried \in SUBSET Dir, Goes(tried),
           NEW c \in open, visited[c] # None, Waits(c), Toward(c, Way(c, end)) # Here
    PROVE  Waits(c)'
<1> DEFINE w == Toward(c, Way(c, end))
<1>1. Here \in Coord /\ Direct \in Dir BY Rounds
<1>2. /\ open' = open /\ end' = end
      /\ split' = [split EXCEPT ![Here] = @ \cup tried \cup {Direct}]
      /\ \A b \in Coord : visited[b] # None => visited'[b] = visited[b]
  BY DEF Goes, Entered
<1>3. split \in [Coord -> SUBSET Dir] /\ open \subseteq Coord BY DEF PathInv, PathTypes
<1>4. w \in open /\ visited[w] # None /\ split[w] \subseteq {Way(w, end)}
  BY DEF Waits
<1>5. w # Here OBVIOUS
<1>6. Waits(c)' <=> /\ w \in open /\ visited'[w] # None
                    /\ split'[w] \subseteq {Way(w, end)}
  BY <1>2, WaitsThen
<1> HIDE DEF w
<1>7. visited'[w] = visited[w]
  BY <1>2, <1>3, <1>4
<1>8. split'[w] = split[w] BY <1>1, <1>2, <1>3, <1>4, <1>5
<1> QED BY <1>4, <1>6, <1>7, <1>8

LEMMA ProceedKeeps ==
    ASSUME PathInv, ComesBack, Proceed
    PROVE  ComesBack'
<1>1. /\ Goes({Direct}) /\ Searching /\ CanProceed
      /\ visited'[Ahead] = Opposite(Direct) /\ Ahead \in ToSet(list')
  BY ProceedGoes
<1>2. /\ at = "search" /\ Here \in open /\ Here \in Coord /\ Here # end /\ visited[Here] # None
      /\ end \in Coord /\ Direct = Way(Here, end) /\ Direct \in Dir
      /\ Ahead = Toward(Here, Direct)
  BY <1>1, Rounds DEF Ahead
<1>3. Ahead \in open /\ visited[Ahead] = None BY <1>1 DEF CanProceed
<1>4. None \notin Dir /\ Opposite(Direct) \in Dir BY <1>2, DirFacts, Turns
<1>5. SplitEntered'
  <2>1. visited'[Ahead] # None BY <1>1, <1>4
  <2> QED BY <1>1, <1>2, <2>1, SplitEnteredKept DEF ComesBack
<1>6. /\ open' = open /\ end' = end /\ at' = at
      /\ split' = [split EXCEPT ![Here] = @ \cup {Direct} \cup {Direct}]
      /\ \A c \in Coord : IF Entered(c, {Direct})
                          THEN visited'[c] \in Dir
                          ELSE visited'[c] = visited[c]
      /\ \A c \in ToSet(list) : c \in ToSet(list') \/ c = Here
  BY <1>1 DEF Goes
<1>7. split \in [Coord -> SUBSET Dir] /\ open \subseteq Coord BY DEF PathInv, PathTypes
<1>8. Kept'
  <2> SUFFICES ASSUME NEW c \in open, visited'[c] # None, c \notin ToSet(list')
               PROVE  c # end /\ (split'[c] = Dir \/ Waits(c)')
    BY <1>6 DEF Kept
  <2>1. visited[c] # None
    <3>1. c # Ahead BY <1>1
    <3>2. ~Entered(c, {Direct}) BY <1>2, <3>1 DEF Entered
    <3> QED BY <1>6, <1>7, <3>2
  <2>2. CASE c = Here
    <3> DEFINE w == Toward(c, Way(c, end))
    <3>1. w = Ahead BY <1>2, <2>2
    <3>2. Waits(c)' <=> /\ w \in open /\ visited'[w] # None
                        /\ split'[w] \subseteq {Way(w, end)}
      BY <1>6, WaitsThen
    <3> HIDE DEF w
    <3>3. Ahead # Here BY <1>2, <1>3
    <3>4. split'[Ahead] = split[Ahead] BY <1>2, <1>3, <1>6, <1>7, <3>3
    <3>5. split[Ahead] = {}
      <4>1. \A d \in Dir : d \notin split[Ahead] BY <1>3 DEF ComesBack, SplitEntered
      <4>2. split[Ahead] \subseteq Dir BY <1>3, <1>7
      <4> QED BY <4>1, <4>2
    <3> QED BY <1>1, <1>2, <1>3, <1>4, <2>2, <3>1, <3>2, <3>4, <3>5
  <2>3. CASE c # Here
    <3>1. c \notin ToSet(list) BY <1>6, <2>3
    <3>2. c # end /\ (split[c] = Dir \/ Waits(c)) BY <1>2, <2>1, <3>1 DEF ComesBack, Kept
    <3>3. split'[c] = split[c] BY <1>2, <1>6, <1>7, <2>3
    <3>4. CASE Waits(c) /\ Toward(c, Way(c, end)) # Here
      BY <1>1, <1>2, <2>1, <3>2, <3>4, WaitsOn
    <3>5. CASE Waits(c) /\ Toward(c, Way(c, end)) = Here
      <4>1. Waits(c)' <=> /\ Here \in open /\ visited'[Here] # None
                          /\ split'[Here] \subseteq {Way(Here, end)}
        <5> DEFINE w == Toward(c, Way(c, end))
        <5>1. w = Here BY <3>5
        <5>2. open' = open /\ end' = end BY <1>6
        <5>3. Waits(c)' <=> /\ w \in open /\ visited'[w] # None
                            /\ split'[w] \subseteq {Way(w, end)}
          BY <5>2, WaitsThen
        <5> HIDE DEF w
        <5> QED BY <5>1, <5>3
      <4>2. split[Here] \subseteq {Way(Here, end)}
        BY <3>5 DEF Waits
      <4>3. ~Entered(Here, {Direct}) BY <1>2 DEF Entered
      <4>4. visited'[Here] = visited[Here] BY <1>2, <1>6, <4>3
      <4>5. split'[Here] = split[Here] \cup {Direct} BY <1>2, <1>6, <1>7
      <4> QED BY <1>2, <3>2, <4>1, <4>2, <4>4, <4>5
    <3> QED BY <3>2, <3>3, <3>4, <3>5
  <2> QED BY <2>2, <2>3
<1>9. Ended' BY <1>2, <1>6 DEF Ended
<1> QED BY <1>5, <1>8, <1>9 DEF ComesBack

(* A cell that waits for Here is put in the list again when Here spreads.   *)
LEMMA SpreadKeeps ==
    ASSUME FIND_OPTIMAL, PathInv, ComesBack, Spread
    PROVE  ComesBack'
<1> DEFINE tried == ToSet(Tried)
<1>1. Goes(tried) /\ Searching /\ ~CanProceed BY SpreadGoes
<1>2. /\ at = "search" /\ Here \in open /\ Here \in Coord /\ Here # end /\ visited[Here] # None
      /\ end \in Coord /\ Direct = Way(Here, end) /\ Direct \in Dir
      /\ Ahead = Toward(Here, Direct)
  BY <1>1, Rounds DEF Ahead
<1>3. tried \in SUBSET Dir /\ tried = (Dir \ {Direct}) \ split[Here] BY <1>2, TriedAre
<1> HIDE DEF tried
<1>4. /\ open' = open /\ end' = end /\ at' = at
      /\ split' = [split EXCEPT ![Here] = @ \cup tried \cup {Direct}]
      /\ \A c \in Coord : IF Entered(c, tried)
                          THEN visited'[c] \in Dir
                          ELSE visited'[c] = visited[c]
      /\ \A c \in ToSet(list) : c \in ToSet(list') \/ c = Here
      /\ \A d \in tried : Toward(Here, d) \in open => Toward(Here, d) \in ToSet(list')
  BY <1>1 DEF Goes
<1>5. split \in [Coord -> SUBSET Dir] /\ open \subseteq Coord BY DEF PathInv, PathTypes
<1>6. SplitEntered'
  <2>1. ASSUME Ahead \in open PROVE visited'[Ahead] # None
    <3>1. visited[Ahead] # None BY <1>1, <2>1 DEF CanProceed
    <3>2. ~Entered(Ahead, tried) /\ Ahead \in Coord BY <1>5, <2>1, <3>1 DEF Entered
    <3> QED BY <1>4, <3>1, <3>2
  <2> QED BY <1>1, <1>3, <2>1, SplitEnteredKept DEF ComesBack
<1>7. split'[Here] = Dir
  <2>1. split'[Here] = split[Here] \cup tried \cup {Direct} BY <1>2, <1>4, <1>5
  <2>2. split[Here] \subseteq Dir BY <1>2, <1>5
  <2> QED BY <1>2, <1>3, <2>1, <2>2
<1>8. Kept'
  <2> SUFFICES ASSUME NEW c \in open, visited'[c] # None, c \notin ToSet(list')
               PROVE  c # end /\ (split'[c] = Dir \/ Waits(c)')
    BY <1>4 DEF Kept
  <2>1. CASE c = Here BY <1>2, <1>7, <2>1
  <2>2. CASE c # Here
    <3>1. visited[c] # None
      <4>1. SUFFICES ASSUME visited[c] = None PROVE FALSE OBVIOUS
      <4>2. Entered(c, tried) BY <1>4, <1>5, <4>1
      <4>3. PICK d \in tried : Toward(Here, d) = c BY <4>2 DEF Entered
      <4> QED BY <1>4, <4>3
    <3>2. c \notin ToSet(list) BY <1>4, <2>2
    <3>3. c # end /\ (split[c] = Dir \/ Waits(c)) BY <1>2, <3>1, <3>2 DEF ComesBack, Kept
    <3>4. split'[c] = split[c] BY <1>2, <1>4, <1>5, <2>2
    <3>5. CASE Waits(c) /\ Toward(c, Way(c, end)) # Here
      BY <1>1, <1>3, <3>1, <3>3, <3>5, WaitsOn
    <3>6. CASE Waits(c) /\ Toward(c, Way(c, end)) = Here
      <4> DEFINE d == Way(c, end)
                 back == Opposite(d)
      <4>1. c \in Coord /\ d \in Dir BY <1>2, <1>5, <3>3, DirectIs
      <4>2. back \in Dir /\ Toward(Here, back) = c BY <3>6, <4>1, Turns, TowardIs
      <4>3. back # Direct BY <1>2, <3>3, <3>6, <4>1, NeverBack
      <4>4. split[Here] \subseteq {Direct} BY <1>2, <3>6 DEF Waits
      <4> HIDE DEF d, back
      <4>5. back \in tried BY <1>3, <4>2, <4>3, <4>4
      <4>6. c \in ToSet(list') BY <1>4, <4>2, <4>5
      <4> QED BY <4>6
    <3> QED BY <3>3, <3>4, <3>5, <3>6
  <2> QED BY <2>1, <2>2
<1>9. Ended' BY <1>2, <1>4 DEF Ended
<1> QED BY <1>6, <1>8, <1>9 DEF ComesBack

(* Every step straight on is nearer to the end.                             *)
Far(c) == Abs(end[1] - c[1]) + Abs(end[2] - c[2])

LEMMA Nearer ==
    ASSUME end \in Coord, NEW c \in Coord, c # end
    PROVE  Far(c) \in Nat /\ Far(Toward(c, Way(c, end))) < Far(c)
<1> DEFINE x == dirx[Way(c, end) + 1]
           y == diry[Way(c, end) + 1]
           w == Toward(c, Way(c, end))
           e1 == end[1]
           e2 == end[2]
           c1 == c[1]
           c2 == c[2]
<1>1. c1 \in Int /\ c2 \in Int /\ e1 \in Int /\ e2 \in Int BY InCoord
<1>2. Way(c, end) \in Dir BY DirectIs
<1>3. w[1] = c1 + x /\ w[2] = c2 + y BY <1>2, TowardIs
<1>4. x \in {-1, 0, 1} /\ y \in {-1, 0, 1} /\ (x # 0 \/ y # 0) BY <1>2, Turns
<1>5. /\ x = 1 => e1 > c1
      /\ x = -1 => e1 < c1
      /\ y = 1 => e2 > c2
      /\ y = -1 => e2 < c2
  BY Nearing
<1>6. Far(c) = Abs(e1 - c1) + Abs(e2 - c2) /\ Far(w) = Abs(e1 - w[1]) + Abs(e2 - w[2])
  BY DEF Far
<1> HIDE DEF x, y, w, e1, e2, c1, c2
<1>7. Abs(e1 - c1) + Abs(e2 - c2) \in Nat BY <1>1 DEF Abs
<1>8. /\ x # 0 => Abs(e1 - (c1 + x)) = Abs(e1 - c1) - 1
      /\ x = 0 => Abs(e1 - (c1 + x)) = Abs(e1 - c1)
  BY <1>1, <1>4, <1>5 DEF Abs
<1>9. /\ y # 0 => Abs(e2 - (c2 + y)) = Abs(e2 - c2) - 1
      /\ y = 0 => Abs(e2 - (c2 + y)) = Abs(e2 - c2)
  BY <1>1, <1>4, <1>5 DEF Abs
<1>10. Abs(e1 - c1) \in Int /\ Abs(e2 - c2) \in Int BY <1>1 DEF Abs
<1>11. Abs(e1 - (c1 + x)) + Abs(e2 - (c2 + y)) < Abs(e1 - c1) + Abs(e2 - c2)
  BY <1>4, <1>8, <1>9, <1>10
<1> QED BY <1>3, <1>6, <1>7, <1>11 DEF w

(* When the list is empty no cell waits: the one nearest to the end would   *)
(* wait for a nearer one.                                                   *)
LEMMA NoneWaits ==
    ASSUME PathInv, ComesBack, at = "search", list = <<>>
    PROVE  \A c \in open : visited[c] # None => c # end /\ split[c] = Dir
<1>1. open \subseteq Coord /\ end \in Coord BY DEF PathInv, PathTypes
<1>2. ToSet(list) = {} BY DEF ToSet
<1>3. \A c \in open : visited[c] # None => c # end /\ (split[c] = Dir \/ Waits(c))
  BY <1>2 DEF ComesBack, Kept
<1> DEFINE W == {c \in open : visited[c] # None /\ Waits(c)}
           R == {Far(c) : c \in W}
<1>4. W = {}
  <2>1. SUFFICES ASSUME W # {} PROVE FALSE OBVIOUS
  <2>2. \A c \in W : c \in Coord /\ c # end /\ Far(c) \in Nat BY <1>1, <1>3, Nearer
  <2>3. R \in SUBSET Nat /\ R # {}
    <3> HIDE DEF W
    <3> QED BY <2>1, <2>2
  <2>4. PICK x \in R : \A k \in R : x <= k
    <3> HIDE DEF R
    <3> QED BY <2>3, Least
  <2>5. PICK c \in W : x = Far(c) OBVIOUS
  <2> DEFINE w == Toward(c, Way(c, end))
  <2>6. w \in open /\ visited[w] # None /\ split[w] \subseteq {Way(w, end)} BY DEF Waits
  <2>7. Far(w) < Far(c) /\ Far(c) \in Nat BY <1>1, <2>2, Nearer
  <2> HIDE DEF w
  <2>8. split[w] # Dir
    <3>1. 0 \in Dir /\ 1 \in Dir /\ 0 # 1 BY DEF Dir
    <3> QED BY <2>6, <3>1
  <2>9. w \in W BY <1>3, <2>6, <2>8
  <2>10. Far(w) \in R /\ Far(w) \in Nat BY <2>2, <2>9
  <2>11. Far(c) <= Far(w)
    <3> HIDE DEF R
    <3> QED BY <2>4, <2>5, <2>10
  <2> QED BY <2>7, <2>10, <2>11
<1> HIDE DEF W
<1>5. \A c \in open : visited[c] # None => ~Waits(c) BY <1>4 DEF W
<1> QED BY <1>3, <1>5

LEMMA EndSearchEnds ==
    ASSUME PathInv, ComesBack, EndSearch
    PROVE  ComesBack'
<1>1. list = <<>> \/ (list # <<>> /\ Here = end) BY DEF EndSearch
<1>2. /\ at = "search" /\ at' = "rebuild"
      /\ UNCHANGED <<open, start, end, visited, split, moves>>
  BY DEF EndSearch, given
<1>3. /\ open \subseteq Coord /\ list \in Seq(open) /\ cur \in Nat /\ cur <= Len(list)
      /\ \A c \in ToSet(list) : visited[c] # None
  BY <1>2 DEF PathInv, PathTypes, ListEntered
<1>4. visited[end] # None \/ \A c, d \in open : visited[c] # None /\ Adjacent(c, d) => visited[d] # None
  <2>1. CASE list # <<>> /\ Here = end
    <3>1. Len(list) \in Nat /\ Len(list) > 0 /\ DOMAIN list = 1 .. Len(list) BY <1>3, <2>1
    <3>2. Place \in 1 .. Len(list) BY <1>3, <3>1 DEF Place
    <3>3. Here \in ToSet(list) BY <3>1, <3>2 DEF Here, ToSet
    <3> QED BY <1>3, <2>1, <3>3
  <2>2. CASE list = <<>>
    <3> SUFFICES ASSUME NEW c \in open, NEW d \in open, visited[c] # None, Adjacent(c, d)
                 PROVE  visited[d] # None
      OBVIOUS
    <3>1. split[c] = Dir BY <1>2, <2>2, NoneWaits
    <3>2. c \in Coord /\ d \in Coord BY <1>3
    <3>3. PICK t \in Dir : Toward(c, t) = d BY <3>2, AdjacentIs
    <3> QED BY <3>1, <3>3 DEF ComesBack, SplitEntered
  <2> QED BY <1>1, <2>1, <2>2
<1>5. SplitEntered' BY <1>2 DEF ComesBack, SplitEntered
<1>6. Kept' BY <1>2 DEF Kept
<1>7. Ended' BY <1>2, <1>4 DEF Ended
<1> QED BY <1>5, <1>6, <1>7 DEF ComesBack

LEMMA RestKeeps ==
    ASSUME ComesBack, BackUp \/ Spin \/ Finish \/ UNCHANGED path
    PROVE  ComesBack'
<1>1. CASE BackUp \/ Spin \/ Finish
  <2>1. at # "search" /\ at' # "search" /\ UNCHANGED <<open, end, visited, split>>
    BY <1>1 DEF BackUp, Spin, Finish, given
  <2>2. SplitEntered' BY <2>1 DEF ComesBack, SplitEntered
  <2>3. Kept' BY <2>1 DEF Kept
  <2>4. Ended' BY <2>1 DEF ComesBack, Ended
  <2> QED BY <2>2, <2>3, <2>4 DEF ComesBack
<1>2. CASE UNCHANGED path
  <2>1. UNCHANGED <<open, start, end, at, visited, split, list, cur, moves>>
    BY <1>2 DEF path, given
  <2>2. SplitEntered' BY <2>1 DEF ComesBack, SplitEntered
  <2>3. \A c : Waits(c)' = Waits(c) BY <2>1 DEF Waits, Way, DirectFrom
  <2>4. Kept' BY <2>1, <2>3 DEF ComesBack, Kept
  <2>5. Ended' BY <2>1 DEF ComesBack, Ended
  <2> QED BY <2>2, <2>4, <2>5 DEF ComesBack
<1> QED BY <1>1, <1>2

LEMMA ComesBackStarts == PathInit => ComesBack
<1> SUFFICES ASSUME PathInit PROVE ComesBack OBVIOUS
<1>1. /\ open \subseteq Coord /\ start \in open /\ at = "search"
      /\ visited = [c \in Coord |-> IF c = start THEN 0 ELSE None]
      /\ split = [c \in Coord |-> {}] /\ list = <<start>>
  BY DEF PathInit
<1>2. ToSet(list) = {start} BY <1>1 DEF ToSet
<1>3. SplitEntered BY <1>1 DEF SplitEntered
<1>4. Kept BY <1>1, <1>2 DEF Kept
<1>5. Ended BY <1>1 DEF Ended
<1> QED BY <1>3, <1>4, <1>5 DEF ComesBack

LEMMA ComesBackKept == FIND_OPTIMAL /\ PathInv /\ ComesBack /\ [PathNext]_path => ComesBack'
<1> SUFFICES ASSUME FIND_OPTIMAL, PathInv, ComesBack, [PathNext]_path PROVE ComesBack' OBVIOUS
<1>1. CASE Proceed BY <1>1, ProceedKeeps
<1>2. CASE Spread BY <1>2, SpreadKeeps
<1>3. CASE EndSearch BY <1>3, EndSearchEnds
<1>4. CASE BackUp \/ Spin \/ Finish \/ UNCHANGED path BY <1>4, RestKeeps
<1> QED BY <1>1, <1>2, <1>3, <1>4 DEF PathNext

-----------------------------------------------------------------------------
(* The open neighbours of S.                                                *)
Beside(S) == {d \in open : \E c \in S : Adjacent(c, d)}

(* Within is defined by recursion, which has to be shown to define it.      *)
LEMMA WithinIs ==
    ASSUME start \in open
    PROVE  /\ Within \in [Nat -> SUBSET open] /\ Within[0] = {start}
           /\ \A n \in Nat : Within[n + 1] = Within[n] \cup Beside(Within[n])
<1> DEFINE A == SUBSET open
           a == {start}
           step == [p \in Nat \X A |-> p[2] \cup Beside(p[2])]
           Body(f) == [n \in Nat |->
                         IF n = 0 THEN {start} ELSE f[n - 1] \cup Beside(f[n - 1])]
<1>1. PICK g : Grows(g, A, a, step)
  <2>1. a \in A OBVIOUS
  <2>2. \A S : Beside(S) \in A BY DEF Beside
  <2>3. step \in [Nat \X A -> A] BY <2>2
  <2> HIDE DEF A, a, step
  <2> QED BY <2>1, <2>3, Recursion
<1>2. g \in [Nat -> A] /\ g[0] = a /\ \A n \in Nat : g[n + 1] = g[n] \cup Beside(g[n])
  <2>1. g \in [Nat -> A] /\ g[0] = a /\ \A n \in Nat : g[n + 1] = step[<<n, g[n]>>]
    <3> HIDE DEF A, a, step
    <3> QED BY <1>1 DEF Grows
  <2>2. \A n \in Nat : g[n] \in A /\ <<n, g[n]>> \in Nat \X A
    <3> HIDE DEF A
    <3> QED BY <2>1
  <2>3. \A n \in Nat, S \in A : step[<<n, S>>] = S \cup Beside(S) OBVIOUS
  <2> HIDE DEF A, step
  <2> QED BY <2>1, <2>2, <2>3
<1>3. g = Body(g)
  <2> SUFFICES ASSUME NEW n \in Nat PROVE g[n] = Body(g)[n]
    <3>1. Body(g) = [n \in Nat |-> Body(g)[n]] OBVIOUS
    <3>2. g = [n \in Nat |-> g[n]] BY <1>2
    <3> HIDE DEF Body
    <3> QED BY <3>1, <3>2
  <2>1. CASE n = 0 BY <1>2, <2>1
  <2>2. CASE n # 0
    <3>1. n - 1 \in Nat /\ (n - 1) + 1 = n BY <2>2
    <3>2. g[n] = g[n - 1] \cup Beside(g[n - 1]) BY <1>2, <3>1
    <3> QED BY <2>2, <3>2
  <2> QED BY <2>1, <2>2
<1>4. Within = CHOOSE f : f = Body(f) BY DEF Within, Beside
<1>5. Within = Body(Within)
  <2> HIDE DEF Body
  <2> QED BY <1>3, <1>4
<1>6. Within[0] = {start} BY <1>5
<1>7. \A n \in Nat : Within[n + 1] = Within[n] \cup Beside(Within[n])
  <2> SUFFICES ASSUME NEW n \in Nat PROVE Within[n + 1] = Within[n] \cup Beside(Within[n])
    OBVIOUS
  <2>1. n + 1 \in Nat /\ n + 1 # 0 /\ (n + 1) - 1 = n OBVIOUS
  <2> QED BY <1>5, <2>1
<1>8. \A n \in Nat : Within[n] \in SUBSET open
  <2> DEFINE T == {n \in Nat : Within[n] \in SUBSET open}
  <2>1. 0 \in T BY <1>6
  <2>2. ASSUME NEW n \in T PROVE n + 1 \in T
    <3>1. n \in Nat /\ n + 1 \in Nat OBVIOUS
    <3>2. Within[n + 1] = Within[n] \cup Beside(Within[n]) BY <1>7, <3>1
    <3> QED BY <3>1, <3>2 DEF Beside
  <2> HIDE DEF T
  <2>3. T \in SUBSET Nat BY DEF T
  <2>4. T = Nat BY <2>1, <2>2, <2>3, Induct
  <2> QED BY <2>4 DEF T
<1>9. Within = [n \in Nat |-> Within[n]] BY <1>5
<1> QED BY <1>6, <1>7, <1>8, <1>9

LEMMA FieldFinite == ASSUME open \subseteq Coord PROVE IsFiniteSet(open)
<1>1. IsFiniteSet(0 .. FieldX - 1) /\ IsFiniteSet(0 .. FieldY - 1)
  BY FieldAssumption, FS_Interval
<1>2. IsFiniteSet(Coord) BY <1>1, FS_Product DEF Coord
<1> QED BY <1>2, FS_Subset

(* In as many moves as there are open cells all is reached.                 *)
LEMMA ReachableClosed ==
    ASSUME open \subseteq Coord, start \in open
    PROVE  /\ start \in Reachable /\ Reachable \subseteq open
           /\ \A c \in Reachable, d \in open : Adjacent(c, d) => d \in Reachable
<1> DEFINE N == Cardinality(open)
           Closed(S) == Beside(S) \subseteq S
           T == {n \in Nat : Closed(Within[n]) \/ Cardinality(Within[n]) > n}
<1>1. N \in Nat /\ IsFiniteSet(open) BY FieldFinite, FS_CardinalityType
<1>2. /\ \A n \in Nat : Within[n] \in SUBSET open
      /\ Within[0] = {start}
      /\ \A n \in Nat : Within[n + 1] = Within[n] \cup Beside(Within[n])
  BY WithinIs
<1>3. \A n \in Nat : IsFiniteSet(Within[n]) /\ Cardinality(Within[n]) \in Nat
                     /\ Cardinality(Within[n]) <= N
  BY <1>1, <1>2, FS_Subset, FS_CardinalityType
<1>4. T = Nat
  <2>1. 0 \in T
    <3>1. Within[0] = {start} BY <1>2
    <3>2. Cardinality(Within[0]) = 1 BY <3>1, FS_Singleton
    <3> QED BY <3>2
  <2>2. ASSUME NEW n \in T PROVE n + 1 \in T
    <3>1. n \in Nat /\ n + 1 \in Nat OBVIOUS
    <3>2. Within[n + 1] = Within[n] \cup Beside(Within[n]) BY <1>2, <3>1
    <3>3. CASE Closed(Within[n])
      <4>1. Within[n + 1] = Within[n] BY <3>2, <3>3
      <4> QED BY <3>1, <3>3, <4>1
    <3>4. CASE ~Closed(Within[n])
      <4> DEFINE S == Within[n]
                 U == Within[n + 1]
      <4>1. Cardinality(S) > n BY <3>4
      <4>2. S \subseteq U /\ S # U BY <3>2, <3>4
      <4>3. IsFiniteSet(U) /\ Cardinality(U) \in Nat /\ Cardinality(S) \in Nat BY <1>3, <3>1
      <4> HIDE DEF S, U
      <4>4. Cardinality(S) < Cardinality(U) BY <4>2, <4>3, FS_Subset
      <4>5. Cardinality(U) > n + 1 BY <3>1, <4>1, <4>3, <4>4
      <4> QED BY <3>1, <4>5 DEF U
    <3> QED BY <3>3, <3>4
  <2> HIDE DEF T
  <2>3. T \in SUBSET Nat BY DEF T
  <2> QED BY <2>1, <2>2, <2>3, Induct
<1>5. Closed(Within[N])
  <2>1. N \in T BY <1>1, <1>4
  <2>2. ~(Cardinality(Within[N]) > N) BY <1>1, <1>3
  <2> QED BY <2>1, <2>2
<1>6. start \in Within[N]
  <2> DEFINE U == {n \in Nat : start \in Within[n]}
  <2>1. 0 \in U BY <1>2
  <2>2. ASSUME NEW n \in U PROVE n + 1 \in U
    <3>1. n \in Nat /\ n + 1 \in Nat /\ start \in Within[n] OBVIOUS
    <3>2. Within[n + 1] = Within[n] \cup Beside(Within[n]) BY <1>2, <3>1
    <3> QED BY <3>1, <3>2
  <2> HIDE DEF U
  <2>3. U \in SUBSET Nat BY DEF U
  <2>4. U = Nat BY <2>1, <2>2, <2>3, Induct
  <2> QED BY <1>1, <2>4 DEF U
<1>7. Reachable = Within[N] BY DEF Reachable
<1> HIDE DEF N
<1> QED BY <1>1, <1>2, <1>5, <1>6, <1>7 DEF Beside

(* Nothing else is reached.                                                 *)
LEMMA ReachableLeast ==
    ASSUME open \subseteq Coord, start \in open, NEW R, start \in R,
           \A c \in R \cap open, d \in open : Adjacent(c, d) => d \in R
    PROVE  Reachable \subseteq R
<1> DEFINE N == Cardinality(open)
           T == {n \in Nat : Within[n] \subseteq R}
<1>1. N \in Nat BY FieldFinite, FS_CardinalityType
<1>2. /\ \A n \in Nat : Within[n] \in SUBSET open
      /\ Within[0] = {start}
      /\ \A n \in Nat : Within[n + 1] = Within[n] \cup Beside(Within[n])
  BY WithinIs
<1>3. T = Nat
  <2>1. 0 \in T BY <1>2
  <2>2. ASSUME NEW n \in T PROVE n + 1 \in T
    <3>1. n \in Nat /\ n + 1 \in Nat /\ Within[n] \subseteq R \cap open BY <1>2
    <3>2. Within[n + 1] = Within[n] \cup Beside(Within[n]) BY <1>2, <3>1
    <3>3. Beside(Within[n]) \subseteq R BY <3>1 DEF Beside
    <3> QED BY <3>1, <3>2, <3>3
  <2> HIDE DEF T
  <2>3. T \in SUBSET Nat BY DEF T
  <2> QED BY <2>1, <2>2, <2>3, Induct
<1>4. N \in T BY <1>1, <1>3
<1>5. Reachable = Within[N] BY DEF Reachable
<1> HIDE DEF N
<1> QED BY <1>4, <1>5

(* What was entered is reachable, for it leads back to the start.           *)
LEMMA EnteredReachable ==
    ASSUME PathInv
    PROVE  \A c \in Coord : visited[c] # None => c \in Reachable
<1>1. /\ open \subseteq Coord /\ start \in open /\ moves \in [Coord -> Nat]
      /\ visited \in [Coord -> Dir \cup {None}]
  BY DEF PathInv, PathTypes
<1>2. /\ start \in Reachable
      /\ \A c \in Reachable, d \in open : Adjacent(c, d) => d \in Reachable
  BY <1>1, ReachableClosed
<1> DEFINE T == {n \in Nat : \A c \in Coord : visited[c] # None /\ moves[c] = n => c \in Reachable}
<1>3. ASSUME NEW c \in Coord, c # start, visited[c] # None
      PROVE  \E from \in Coord : /\ visited[from] # None /\ moves[c] = moves[from] + 1
                                 /\ Adjacent(from, c) /\ c \in open
  <2> DEFINE from == Toward(c, visited[c])
  <2>1. c \in open /\ from \in open /\ visited[from] # None /\ moves[c] = moves[from] + 1
    BY <1>3 DEF PathInv, VisitedLeadBack
  <2>2. from \in Coord /\ visited[c] \in Dir BY <1>1, <1>3, <2>1
  <2>3. Adjacent(from, c) BY <2>2, TowardIs
  <2> HIDE DEF from
  <2> QED BY <2>1, <2>2, <2>3
<1>4. T = Nat
  <2>1. 0 \in T
    <3> SUFFICES ASSUME NEW c \in Coord, visited[c] # None, moves[c] = 0 PROVE c \in Reachable
      OBVIOUS
    <3>1. CASE c = start BY <1>2, <3>1
    <3>2. CASE c # start
      <4>1. PICK from \in Coord : moves[c] = moves[from] + 1 BY <1>3, <3>2
      <4>2. moves[from] \in Nat BY <1>1
      <4> QED BY <4>1, <4>2
    <3> QED BY <3>1, <3>2
  <2>2. ASSUME NEW n \in T PROVE n + 1 \in T
    <3> SUFFICES ASSUME NEW c \in Coord, visited[c] # None, moves[c] = n + 1 PROVE c \in Reachable
      OBVIOUS
    <3>1. CASE c = start BY <1>2, <3>1
    <3>2. CASE c # start
      <4>1. PICK from \in Coord : /\ visited[from] # None /\ moves[c] = moves[from] + 1
                                  /\ Adjacent(from, c) /\ c \in open
        BY <1>3, <3>2
      <4>2. moves[from] \in Nat /\ n \in Nat BY <1>1
      <4>3. moves[from] = n BY <4>1, <4>2
      <4>4. from \in Reachable BY <4>1, <4>3
      <4> QED BY <1>2, <4>1, <4>4
    <3> QED BY <3>1, <3>2
  <2> HIDE DEF T
  <2>3. T \in SUBSET Nat BY DEF T
  <2> QED BY <2>1, <2>2, <2>3, Induct
<1> SUFFICES ASSUME NEW c \in Coord, visited[c] # None PROVE c \in Reachable OBVIOUS
<1>5. moves[c] \in Nat BY <1>1
<1>6. moves[c] \in T BY <1>4, <1>5
<1> QED BY <1>6

LEMMA IsFound == PathInv /\ ComesBack => FoundIfReachable
<1> SUFFICES ASSUME PathInv, ComesBack, at = "rebuild"
             PROVE  visited[end] # None <=> end \in Reachable
  BY DEF FoundIfReachable
<1>1. open \subseteq Coord /\ start \in open /\ end \in open /\ visited[start] = 0 /\ 0 # None
  BY DirFacts DEF PathInv, PathTypes
<1>2. visited[end] # None => end \in Reachable BY <1>1, EnteredReachable
<1>3. ASSUME visited[end] = None PROVE end \notin Reachable
  <2> DEFINE R == {c \in open : visited[c] # None}
  <2>1. start \in R BY <1>1
  <2>2. \A c, d \in open : visited[c] # None /\ Adjacent(c, d) => visited[d] # None
    BY <1>3 DEF ComesBack, Ended
  <2>3. \A c \in R \cap open, d \in open : Adjacent(c, d) => d \in R BY <2>2
  <2>4. end \notin R BY <1>3
  <2> HIDE DEF R
  <2>5. Reachable \subseteq R BY <1>1, <2>1, <2>3, ReachableLeast
  <2> QED BY <2>4, <2>5
<1> QED BY <1>2, <1>3

-----------------------------------------------------------------------------
LEMMA PathInvCorrect == PathSpec => []PathInv
BY PathStarts, PathInvKept, PTL DEF PathSpec

(* No cell the search comes to, nor any it looks at on the straight way to  *)
(* the end, is outside the field, however large: nodeField[chx][chy] is in  *)
(* bounds though only x and y are tested.                                   *)
THEOREM SearchStaysInField == PathSpec => []DirectInField
BY PathInvCorrect, StaysInField, PTL

(* The directions kept in the cells lead back to the start from every cell  *)
(* entered, with or without FIND_OPTIMAL: no loop when rebuilding.          *)
THEOREM EnteredLeadBack == PathSpec => []VisitedLeadBack
<1>1. PathInv => VisitedLeadBack BY DEF PathInv
<1> QED BY <1>1, PathInvCorrect, PTL

(* A way that is returned can be walked, and comes to no cell twice.        *)
THEOREM WayCanBeWalked == PathSpec => []WayIsWalkable
BY PathInvCorrect, IsWalkable, PTL

LEMMA ComesBackCorrect == FIND_OPTIMAL /\ PathSpec => []ComesBack
<1>1. ASSUME FIND_OPTIMAL PROVE PathSpec => []ComesBack
  BY <1>1, PathInvCorrect, ComesBackStarts, ComesBackKept, PTL DEF PathSpec
<1> QED BY <1>1

(* With FIND_OPTIMAL, as bl_path.h sets it, the search misses no way there  *)
(* is: what it left when it went straight on, it comes back to.             *)
THEOREM WayIsFound == FIND_OPTIMAL /\ PathSpec => []FoundIfReachable
<1>1. ASSUME FIND_OPTIMAL PROVE PathSpec => []FoundIfReachable
  BY <1>1, PathInvCorrect, ComesBackCorrect, IsFound, PTL
<1> QED BY <1>1
-----------------------------------------------------------------------------
(* What each kind of behaviour keeps.                                       *)
StepInv == /\ kind = "partition" => PartInv
           /\ kind = "path" => PathInv

LEMMA StepInvStarts == StepInit => StepInv
BY PartStarts, PathStarts DEF StepInit, StepInv

LEMMA StepInvKept == StepInv /\ [StepNext]_stepVars => StepInv'
<1> SUFFICES ASSUME StepInv, [StepNext]_stepVars PROVE StepInv' OBVIOUS
<1>1. CASE kind = "partition" /\ Step /\ UNCHANGED <<kind, worker, path, input>>
  <2>1. PartInv' BY <1>1, PartInvKept DEF StepInv
  <2> QED BY <1>1, <2>1 DEF StepInv
<1>2. CASE kind = "lone" /\ Lone!Next /\ UNCHANGED <<kind, vars, path, input>>
  BY <1>2 DEF StepInv
<1>3. CASE kind = "path" /\ PathNext /\ UNCHANGED <<kind, vars, worker, input>>
  <2>1. PathInv' BY <1>3, PathInvKept DEF StepInv
  <2> QED BY <1>3, <2>1 DEF StepInv
<1>4. CASE UNCHANGED stepVars
  <2>1. UNCHANGED kind /\ UNCHANGED vars /\ UNCHANGED path BY <1>4 DEF stepVars
  <2>2. kind = "partition" => PartInv' BY <2>1, PartInvKept DEF StepInv
  <2>3. kind = "path" => PathInv' BY <2>1, PathInvKept DEF StepInv
  <2> QED BY <2>1, <2>2, <2>3 DEF StepInv
<1>5. CASE kind = "workers" /\ Sort!SortNext /\ UNCHANGED <<kind, frame, before, path>>
  BY <1>5 DEF StepInv
<1> QED BY <1>1, <1>2, <1>3, <1>4, <1>5 DEF StepNext

LEMMA StepInvCorrect == StepSpec => []StepInv
BY StepInvStarts, StepInvKept, PTL DEF StepSpec

(* Whatever the size of the array or the field, neither the partition nor   *)
(* the search leaves it.                                                    *)
THEOREM AllStayInBounds == StepSpec => []StaysInBounds
<1>1. PartInv => StaysInside BY TouchesInside, OwnIs DEF PartInv, StaysInside
<1>2. StepInv => StaysInBounds BY <1>1, StaysInField DEF StepInv, StaysInBounds
<1> QED BY <1>2, StepInvCorrect, PTL

(* What a partition has done when it ends is right for every segment.       *)
THEOREM EveryPartitionEnds == StepSpec => []PartitionEnds
<1>1. StepInv => PartitionEnds BY DividesRight DEF StepInv, PartitionEnds
<1> QED BY <1>1, StepInvCorrect, PTL

-----------------------------------------------------------------------------
(* The workers of StepAlgorithms are those ThreadQSortProofs is about.      *)
W == INSTANCE ThreadQSortProofs WITH
    NumThreads <- Workers, Size <- WorkersSize, Value <- Int

LEMMA SameInit == Sort!SortInit => W!SortInit
BY DEF Sort!SortInit, W!SortInit, Sort!Init, W!Init, Sort!Index, W!Index, Sort!Threads,
       W!Threads, Sort!NoPair, W!NoPair

LEMMA SameNext == [Sort!SortNext]_Sort!sortVars => [W!SortNext]_W!sortVars
<1>1. Sort!MainStep => W!MainStep
  BY DEF Sort!MainStep, W!MainStep, Sort!CreateThread, W!CreateThread, Sort!JoinThread,
         W!JoinThread
<1>2. Sort!CreateFails => W!CreateFails
  BY DEF Sort!CreateFails, W!CreateFails
<1>3. Sort!Threads = W!Threads
  BY DEF Sort!Threads, W!Threads
<1>4. ASSUME NEW t PROVE Sort!ControlStep(t) => W!ControlStep(t)
  <2>1. Sort!Pop(t) => W!Pop(t)
    BY DEF Sort!Pop, W!Pop, Sort!Running, W!Running
  <2>2. Sort!GoToSleep(t) => W!GoToSleep(t)
    BY <1>3 DEF Sort!GoToSleep, W!GoToSleep, Sort!Running, W!Running, Sort!Working, W!Working
  <2>3. Sort!ExitThread(t) => W!ExitThread(t)
    BY <1>3 DEF Sort!ExitThread, W!ExitThread, Sort!Running, W!Running, Sort!Working, W!Working
  <2>4. Sort!WakeUp(t) => W!WakeUp(t)
    BY DEF Sort!WakeUp, W!WakeUp, Sort!Running, W!Running
  <2>5. Sort!Push(t) => W!Push(t)
    BY DEF Sort!Push, W!Push, Sort!Running, W!Running, Sort!LowPart, W!LowPart,
           Sort!HighPart, W!HighPart, Sort!PushParts, W!PushParts, Sort!PushIfLong,
           W!PushIfLong, Sort!SegLen, W!SegLen, Sort!QSORT_THRESHOLD, W!QSORT_THRESHOLD,
           Sort!NoPair, W!NoPair
  <2> QED BY <2>1, <2>2, <2>3, <2>4, <2>5 DEF Sort!ControlStep, W!ControlStep
<1>5. ASSUME NEW t PROVE Sort!SortPartition(t) => W!SortPartition(t)
  BY DEF Sort!SortPartition, W!SortPartition, Sort!Cut, W!Cut, Sort!PartitionInto,
         W!PartitionInto, Sort!Running, W!Running, Sort!Orders, W!Orders, Sort!Segment,
         W!Segment, Sort!Index, W!Index, Sort!Rearranged, W!Rearranged, Sort!Shuffles,
         W!Shuffles, Sort!InSegment, W!InSegment, Sort!Partitioned, W!Partitioned
<1>6. UNCHANGED Sort!sortVars => UNCHANGED W!sortVars
  BY DEF Sort!sortVars, W!sortVars
<1> QED BY <1>1, <1>2, <1>3, <1>4, <1>5, <1>6 DEF Sort!SortNext, W!SortNext

LEMMA SameProperties ==
    /\ W!SortedApart => Sort!SortedApart
    /\ W!KeepsElements => Sort!KeepsElements
    /\ W!SortedAtExit => Sort!SortedAtExit
<1>1. Sort!Open = W!Open
  BY DEF Sort!Open, W!Open, Sort!Threads, W!Threads, Sort!LowPart, W!LowPart,
         Sort!HighPart, W!HighPart
<1>2. W!SortedApart => Sort!SortedApart
  BY <1>1 DEF Sort!SortedApart, W!SortedApart, Sort!Index, W!Index, Sort!InSegment,
              W!InSegment
<1>3. W!KeepsElements => Sort!KeepsElements
  BY DEF Sort!KeepsElements, W!KeepsElements, Sort!Orders, W!Orders, Sort!Whole, W!Whole,
         Sort!Segment, W!Segment, Sort!Index, W!Index, Sort!Rearranged, W!Rearranged,
         Sort!Shuffles, W!Shuffles, Sort!InSegment, W!InSegment
<1>4. W!SortedAtExit => Sort!SortedAtExit
  BY DEF Sort!SortedAtExit, W!SortedAtExit, Sort!Threads, W!Threads, Sort!Sorted, W!Sorted
<1> QED BY <1>2, <1>3, <1>4

(* A behaviour of kind "workers" is one of ThreadQSort, and any other never *)
(* becomes one.                                                             *)
AreWorkers == kind = "workers"

LEMMA WorkersAreWorkers ==
    /\ StepSpec /\ AreWorkers => W!SortSpec /\ []AreWorkers
    /\ StepSpec /\ ~AreWorkers => []~AreWorkers
<1>1. StepInit /\ AreWorkers => W!SortInit
  BY SameInit DEF StepInit, AreWorkers
<1>2. AreWorkers /\ [StepNext]_stepVars => AreWorkers' /\ [W!SortNext]_W!sortVars
  <2> SUFFICES ASSUME AreWorkers, [StepNext]_stepVars
               PROVE  AreWorkers' /\ [Sort!SortNext]_Sort!sortVars
    BY SameNext
  <2> QED BY DEF StepNext, stepVars, worker, vars, Sort!sortVars, AreWorkers
<1>3. ~AreWorkers /\ [StepNext]_stepVars => ~AreWorkers'
  BY DEF StepNext, stepVars, AreWorkers
<1>4. StepSpec /\ AreWorkers => W!SortSpec /\ []AreWorkers
  BY <1>1, <1>2, PTL DEF StepSpec, W!SortSpec
<1>5. StepSpec /\ ~AreWorkers => []~AreWorkers
  BY <1>3, PTL DEF StepSpec
<1> QED BY <1>4, <1>5

(* Nothing is ever out of order but within one segment still to be sorted,  *)
(* for any number of workers and elements and any arrays.                   *)
THEOREM WorkersKeepApart == StepSpec => []SortedApart
<1>1. W!SortedApart => SortedApart BY SameProperties DEF SortedApart
<1>2. ~AreWorkers => SortedApart BY DEF SortedApart, AreWorkers
<1>3. W!SortSpec => []W!SortedApart BY WorkersAssumption, W!ApartIsSorted
<1> QED BY <1>1, <1>2, <1>3, WorkersAreWorkers, PTL

(* Whatever the workers have done, the array has the elements of the input. *)
THEOREM WorkersKeepElements == StepSpec => []KeepsElements
<1>1. W!KeepsElements => KeepsElements BY SameProperties DEF KeepsElements
<1>2. ~AreWorkers => KeepsElements BY DEF KeepsElements, AreWorkers
<1>3. W!SortSpec => []W!KeepsElements BY WorkersAssumption, W!ElementsAreKept
<1> QED BY <1>1, <1>2, <1>3, WorkersAreWorkers, PTL

(* The array is sorted as soon as one worker has left.                      *)
THEOREM WorkersSort == StepSpec => []SortedAtExit
<1>1. W!SortedAtExit => SortedAtExit BY SameProperties DEF SortedAtExit
<1>2. ~AreWorkers => SortedAtExit BY DEF SortedAtExit, AreWorkers
<1>3. W!SortSpec => []W!SortedAtExit BY WorkersAssumption, W!ArrayIsSorted
<1> QED BY <1>1, <1>2, <1>3, WorkersAreWorkers, PTL

(* No step of any worker moves an element that is where it belongs.         *)
THEOREM WorkersLeaveSettled == StepSpec => SettledStays
<1> DEFINE A == \A i \in Sort!Index :
                   Sort!Settled(i) => Sort!Settled(i)' /\ arr'[i] = arr[i]
<1>1. Sort!Open = W!Open /\ Sort!Open' = W!Open'
  BY DEF Sort!Open, W!Open, Sort!Threads, W!Threads, Sort!LowPart, W!LowPart,
         Sort!HighPart, W!HighPart
<1>2. [W!Stays]_W!sortVars /\ AreWorkers /\ [StepNext]_stepVars
        => [kind = "workers" => A]_stepVars
  <2> SUFFICES ASSUME [W!Stays]_W!sortVars, AreWorkers, [StepNext]_stepVars
               PROVE  A \/ UNCHANGED stepVars
    OBVIOUS
  <2>1. CASE W!Stays
    <3>1. \A i : /\ Sort!Settled(i) <=> W!Settled(i)
                 /\ Sort!Settled(i)' <=> W!Settled(i)'
      BY <1>1 DEF Sort!Settled, W!Settled, Sort!InSegment, W!InSegment, Sort!SegLen,
                  W!SegLen, Sort!QSORT_THRESHOLD, W!QSORT_THRESHOLD
    <3> QED BY <2>1, <3>1 DEF W!Stays, Sort!Index, W!Index
  <2>2. CASE UNCHANGED W!sortVars
    BY <2>2 DEF W!sortVars, StepNext, stepVars, vars, worker, AreWorkers
  <2> QED BY <2>1, <2>2
<1>3. ~AreWorkers => [kind = "workers" => A]_stepVars
  BY DEF AreWorkers
<1> HIDE DEF A
<1>4. W!SortSpec => [][W!Stays]_W!sortVars
  BY WorkersAssumption, W!SettledElementsStay DEF W!SettledStays, W!Stays
<1>5. StepSpec => [][kind = "workers" => A]_stepVars
  BY <1>2, <1>3, <1>4, WorkersAreWorkers, PTL DEF StepSpec
<1> QED BY <1>5 DEF SettledStays, A

(* Every way found leads back to its start and can be walked.               *)
THEOREM EveryPathLeadsBack == StepSpec => []PathLeadsBack
<1>1. PathInv => VisitedLeadBack BY DEF PathInv
<1>2. StepInv => PathLeadsBack BY <1>1, IsWalkable DEF StepInv, PathLeadsBack
<1> QED BY <1>2, StepInvCorrect, PTL

LEMMA ComesBackThroughout ==
    FIND_OPTIMAL /\ StepSpec => [](kind = "path" => ComesBack)
<1> DEFINE Back == kind = "path" => ComesBack
<1>1. StepInit => Back BY ComesBackStarts DEF StepInit
<1>2. FIND_OPTIMAL /\ StepInv /\ Back /\ [StepNext]_stepVars => Back'
  <2> SUFFICES ASSUME FIND_OPTIMAL, StepInv, Back, [StepNext]_stepVars, kind' = "path"
               PROVE  ComesBack'
    OBVIOUS
  <2>1. CASE StepNext
    <3>1. kind = "path" /\ PathNext BY <2>1 DEF StepNext
    <3> QED BY <3>1, ComesBackKept DEF StepInv
  <2>2. CASE UNCHANGED stepVars
    <3>1. kind = "path" /\ UNCHANGED path BY <2>2 DEF stepVars
    <3> QED BY <3>1, ComesBackKept DEF StepInv
  <2> QED BY <2>1, <2>2
<1> HIDE DEF Back
<1>3. ASSUME FIND_OPTIMAL PROVE StepSpec => []Back
  BY <1>1, <1>2, <1>3, StepInvCorrect, PTL DEF StepSpec
<1> QED BY <1>3 DEF Back

(* With FIND_OPTIMAL, as bl_path.h sets it, a way is found on every field    *)
(* that has one.                                                            *)
THEOREM EveryPathFound == FIND_OPTIMAL /\ StepSpec => []PathFoundIfReachable
<1>1. StepInv /\ (kind = "path" => ComesBack) => PathFoundIfReachable
  BY IsFound DEF StepInv, PathFoundIfReachable
<1>2. ASSUME FIND_OPTIMAL PROVE StepSpec => []PathFoundIfReachable
  BY <1>1, <1>2, StepInvCorrect, ComesBackThroughout, PTL
<1> QED BY <1>2
=============================================================================
