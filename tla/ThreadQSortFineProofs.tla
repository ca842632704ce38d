------------------------- MODULE ThreadQSortFineProofs -------------------------
(***************************************************************************)
(* Proofs about ThreadQSortFine: bl_thread_qsort with its mutex, its flat   *)
(* stack and its interleaved partitions implements ThreadQSort, for every   *)
(* number of workers and every array.                                       *)
(***************************************************************************)
EXTENDS ThreadQSortFine, PartitionProofs, SequenceTheorems

(* The state of ThreadQSort, named.                                         *)
CPC == [t \in Threads |-> CoarsePC(t)]
CStack == PairsOf(stack \o Unpushed)
CSem == sem + Len(Unpushed) \div 2
CBusy == [t \in Threads |-> Holding(t)]
SegOf(t) == IF Holding(t) THEN <<frame[t].start, frame[t].end>> ELSE <<-1, -1>>
CSeg == [t \in Threads |-> SegOf(t)]
CutOf(t) == IF CoarsePC(t) = "push"
              THEN <<IF frame[t].lo = SizeMax THEN -1 ELSE frame[t].lo, frame[t].hi>>
              ELSE <<-1, -1>>
CCut == [t \in Threads |-> CutOf(t)]

P == INSTANCE ThreadQSortProofs WITH
    pc <- CPC, stack <- CStack, sem <- CSem, busy <- CBusy, seg <- CSeg, cut <- CCut,
    arr <- whole

(* Where a worker is between a lock and an unlock, and where it is marked   *)
(* as busy.                                                                 *)
Critical == {"look", "pop", "to part", "to loop", "to wait", "to exit",
             "first", "second", "idle"}
Marked == {"to part", "part", "first", "second", "idle"}
FinePC == {"new", "loop", "wait", "part", "exited"} \cup Critical

(* A worker that has a segment, and one that has yet to divide it.          *)
HasSegment(t) == Holding(t) \/ Pushing(t)
Dividing(t) == Holding(t) /\ frame[t].at # "done"

MutexInv == /\ pc \in [Threads -> FinePC]
            /\ mutex \in Threads \cup {Nobody}
            /\ \A t \in Threads : pc[t] \in Critical <=> mutex = t

BusyInv == /\ busy \in [Threads -> BOOLEAN]
           /\ \A t \in Threads : busy[t] <=> pc[t] \in Marked

StackInv == /\ stack \in Seq(Index)
            /\ \E n \in Nat : Len(stack) = 2 * n
            /\ sem \in Nat

FrameInv == /\ frame \in [Threads -> FrameType]
            /\ \A t \in Threads :
                 /\ HasSegment(t) => /\ frame[t].start \in Index /\ frame[t].end \in Index
                                     /\ Places(frame[t])
                 /\ Holding(t) => Divided(frame[t], arr)
                 /\ pc[t] \in {"pop", "to part"} => frame[t].at = "pivot"
                 /\ Pushing(t) => frame[t].at = "done"

(* What the partitions still going on have done to the array is no more     *)
(* than to exchange elements of their own segments.                         *)
ArrayInv == /\ arr \in [Index -> Value] /\ whole \in [Index -> Value]
            /\ \A t \in Threads : Dividing(t) => Shuffled(whole, arr, Own(t))
            /\ \A i \in Index :
                 (\A t \in Threads : Dividing(t) => i \notin Own(t)) => arr[i] = whole[i]

FInv == MutexInv /\ BusyInv /\ StackInv /\ FrameInv /\ ArrayInv
-----------------------------------------------------------------------------
(***************************************************************************)
(* The flat stack as a stack of pairs.                                      *)
(***************************************************************************)
Even(s) == s \in Seq(Int) /\ \E n \in Nat : Len(s) = 2 * n

LEMMA PairsIs ==
    ASSUME NEW s \in Seq(Int), NEW n \in Nat, Len(s) = 2 * n
    PROVE  /\ PairsOf(s) \in Seq(Int \X Int)
           /\ Len(PairsOf(s)) = n
           /\ \A i \in 1 .. n : PairsOf(s)[i] = <<s[2 * i - 1], s[2 * i]>>
<1>1. Len(s) \div 2 = n OBVIOUS
<1>2. PairsOf(s) = [i \in 1 .. n |-> <<s[2 * i - 1], s[2 * i]>>] BY <1>1 DEF PairsOf
<1>3. \A i \in 1 .. n : s[2 * i - 1] \in Int /\ s[2 * i] \in Int
  <2>1. \A i \in 1 .. n : 2 * i - 1 \in 1 .. Len(s) /\ 2 * i \in 1 .. Len(s) OBVIOUS
  <2> QED BY <2>1
<1>4. PairsOf(s) \in [1 .. n -> Int \X Int] BY <1>2, <1>3
<1>5. PairsOf(s) \in Seq(Int \X Int) BY <1>4, SeqDef
<1>6. Len(PairsOf(s)) = n
  <2>1. DOMAIN PairsOf(s) = 1 .. n BY <1>4
  <2>2. /\ Len(PairsOf(s)) \in Nat /\ DOMAIN PairsOf(s) = 1 .. Len(PairsOf(s))
    BY <1>5, LenProperties
  <2> DEFINE m == Len(PairsOf(s))
  <2> HIDE DEF m
  <2>3. m \in Nat /\ 1 .. m = 1 .. n BY <2>1, <2>2 DEF m
  <2>4. m = n
    <3>1. m <= n
      <4>1. CASE m = 0 BY <4>1
      <4>2. CASE m > 0
        <5>1. m \in 1 .. m BY <2>3, <4>2
        <5>2. m \in 1 .. n BY <2>3, <5>1
        <5> QED BY <5>2
      <4> QED BY <2>3, <4>1, <4>2
    <3>2. n <= m
      <4>1. CASE n = 0 BY <2>3, <4>1
      <4>2. CASE n > 0
        <5>1. n \in 1 .. n BY <4>2
        <5>2. n \in 1 .. m BY <2>3, <5>1
        <5> QED BY <2>3, <5>2
      <4> QED BY <4>1, <4>2
    <3> QED BY <2>3, <3>1, <3>2
  <2> QED BY <2>4 DEF m
<1>7. \A i \in 1 .. n : PairsOf(s)[i] = <<s[2 * i - 1], s[2 * i]>> BY <1>2
<1> QED BY <1>5, <1>6, <1>7

LEMMA PairsNone == PairsOf(<<>>) = <<>>
<1>1. <<>> \in Seq(Int) /\ Len(<<>>) = 2 * 0 BY EmptySeq
<1>2. PairsOf(<<>>) \in Seq(Int \X Int) /\ Len(PairsOf(<<>>)) = 0 BY <1>1, PairsIs
<1> QED BY <1>2, EmptySeq

LEMMA PairsPush ==
    ASSUME NEW s, Even(s), NEW x \in Int, NEW y \in Int
    PROVE  /\ Even(s \o <<x, y>>)
           /\ PairsOf(s \o <<x, y>>) = Append(PairsOf(s), <<x, y>>)
<1>1. PICK n \in Nat : s \in Seq(Int) /\ Len(s) = 2 * n BY DEF Even
<1> DEFINE p == <<x, y>>
           r == s \o p
<1>2. p \in Seq(Int) /\ Len(p) = 2 /\ p[1] = x /\ p[2] = y OBVIOUS
<1>3. /\ r \in Seq(Int) /\ Len(r) = 2 * (n + 1)
      /\ \A i \in 1 .. 2 * n : r[i] = s[i]
      /\ r[2 * n + 1] = x /\ r[2 * n + 2] = y
  <2> HIDE DEF p
  <2>1. /\ r \in Seq(Int) /\ Len(r) = Len(s) + Len(p)
        /\ \A i \in 1 .. Len(s) + Len(p) : r[i] = IF i <= Len(s) THEN s[i] ELSE p[i - Len(s)]
    BY <1>1, <1>2, ConcatProperties
  <2> HIDE DEF r
  <2>2. 2 * n + 1 - 2 * n = 1 /\ 2 * n + 2 - 2 * n = 2 OBVIOUS
  <2> QED BY <1>1, <1>2, <2>1, <2>2
<1> HIDE DEF p, r
<1>4. Even(r)
  <2>1. n + 1 \in Nat BY <1>1
  <2> QED BY <1>3, <2>1 DEF Even
<1>5. /\ PairsOf(r) \in Seq(Int \X Int) /\ Len(PairsOf(r)) = n + 1
      /\ \A i \in 1 .. n + 1 : PairsOf(r)[i] = <<r[2 * i - 1], r[2 * i]>>
  <2>1. n + 1 \in Nat OBVIOUS
  <2> QED BY <1>3, <2>1, PairsIs
<1>6. /\ PairsOf(s) \in Seq(Int \X Int) /\ Len(PairsOf(s)) = n
      /\ \A i \in 1 .. n : PairsOf(s)[i] = <<s[2 * i - 1], s[2 * i]>>
  BY <1>1, PairsIs
<1> DEFINE q == Append(PairsOf(s), <<x, y>>)
<1>7. /\ q \in Seq(Int \X Int) /\ Len(q) = n + 1
      /\ \A i \in 1 .. n : q[i] = PairsOf(s)[i]
      /\ q[n + 1] = <<x, y>>
  BY <1>6, AppendProperties
<1> HIDE DEF q
<1>8. ASSUME NEW i \in 1 .. n + 1 PROVE PairsOf(r)[i] = q[i]
  <2>1. CASE i \in 1 .. n
    <3>1. 2 * i - 1 \in 1 .. 2 * n /\ 2 * i \in 1 .. 2 * n BY <2>1
    <3>2. r[2 * i - 1] = s[2 * i - 1] /\ r[2 * i] = s[2 * i] BY <1>3, <3>1
    <3> QED BY <1>5, <1>6, <1>7, <2>1, <3>2
  <2>2. CASE i = n + 1
    <3>1. 2 * i - 1 = 2 * n + 1 /\ 2 * i = 2 * n + 2 BY <2>2
    <3> QED BY <1>3, <1>5, <1>7, <2>2, <3>1
  <2> QED BY <2>1, <2>2
<1>9. PairsOf(r) = q BY <1>5, <1>7, <1>8, SeqEqual
<1> QED BY <1>4, <1>9 DEF r, q, p

LEMMA PairsPop ==
    ASSUME NEW s, Even(s), s # <<>>
    PROVE  LET n == Len(s)
               top == SubSeq(s, 1, n - 2)
           IN  /\ n \in Nat /\ n >= 2 /\ Even(top)
               /\ Len(PairsOf(s)) \in Nat \ {0} /\ PairsOf(s) # <<>>
               /\ PairsOf(top) = SubSeq(PairsOf(s), 1, Len(PairsOf(s)) - 1)
               /\ PairsOf(s)[Len(PairsOf(s))] = <<s[n - 1], s[n]>>
<1>1. PICK n \in Nat : s \in Seq(Int) /\ Len(s) = 2 * n BY DEF Even
<1>2. n > 0 BY <1>1, EmptySeq
<1> DEFINE top == SubSeq(s, 1, Len(s) - 2)
<1>3. /\ top \in Seq(Int) /\ Len(top) = 2 * (n - 1)
      /\ \A i \in 1 .. 2 * (n - 1) : top[i] = s[i]
  <2>1. \A i \in 1 .. 2 * n - 2 : s[i] \in Int
    <3>1. \A i \in 1 .. 2 * n - 2 : i \in 1 .. Len(s) BY <1>1
    <3> QED BY <1>1, <3>1, ElementOfSeq
  <2>2. /\ top \in Seq(Int)
        /\ Len(top) = IF 1 <= 2 * n - 2 THEN 2 * n - 2 - 1 + 1 ELSE 0
        /\ \A i \in 1 .. 2 * n - 2 - 1 + 1 : top[i] = s[1 + i - 1]
    BY <1>1, <1>2, <2>1, SubSeqProperties
  <2> HIDE DEF top
  <2>3. \A i \in 1 .. 2 * (n - 1) : i \in 1 .. 2 * n - 2 - 1 + 1 /\ 1 + i - 1 = i OBVIOUS
  <2> QED BY <1>2, <2>2, <2>3
<1> HIDE DEF top
<1>4. n - 1 \in Nat BY <1>2
<1>5. Even(top) BY <1>3, <1>4 DEF Even
<1>6. /\ PairsOf(top) \in Seq(Int \X Int) /\ Len(PairsOf(top)) = n - 1
      /\ \A i \in 1 .. n - 1 : PairsOf(top)[i] = <<top[2 * i - 1], top[2 * i]>>
  BY <1>3, <1>4, PairsIs
<1>7. /\ PairsOf(s) \in Seq(Int \X Int) /\ Len(PairsOf(s)) = n
      /\ \A i \in 1 .. n : PairsOf(s)[i] = <<s[2 * i - 1], s[2 * i]>>
  BY <1>1, PairsIs
<1> DEFINE q == SubSeq(PairsOf(s), 1, n - 1)
<1>8. /\ q \in Seq(Int \X Int) /\ Len(q) = n - 1
      /\ \A i \in 1 .. n - 1 : q[i] = PairsOf(s)[i]
  <2>1. \A i \in 1 .. n - 1 : PairsOf(s)[i] \in Int \X Int
    <3>1. \A i \in 1 .. n - 1 : i \in 1 .. Len(PairsOf(s)) BY <1>7
    <3> QED BY <1>7, <3>1, ElementOfSeq
  <2>2. /\ q \in Seq(Int \X Int)
        /\ Len(q) = IF 1 <= n - 1 THEN n - 1 - 1 + 1 ELSE 0
        /\ \A i \in 1 .. n - 1 - 1 + 1 : q[i] = PairsOf(s)[1 + i - 1]
    BY <1>4, <2>1, SubSeqProperties
  <2> HIDE DEF q
  <2>3. \A i \in 1 .. n - 1 : i \in 1 .. n - 1 - 1 + 1 /\ 1 + i - 1 = i OBVIOUS
  <2> QED BY <1>2, <2>2, <2>3
<1> HIDE DEF q
<1>9. ASSUME NEW i \in 1 .. n - 1 PROVE PairsOf(top)[i] = q[i]
  <2>1. 2 * i - 1 \in 1 .. 2 * (n - 1) /\ 2 * i \in 1 .. 2 * (n - 1) /\ i \in 1 .. n
    OBVIOUS
  <2> QED BY <1>3, <1>6, <1>7, <1>8, <2>1
<1>10. PairsOf(top) = q BY <1>6, <1>8, <1>9, SeqEqual
<1>11. PairsOf(s)[n] = <<s[2 * n - 1], s[2 * n]>> BY <1>2, <1>7
<1>12. PairsOf(s) # <<>> BY <1>2, <1>7, EmptySeq
<1> QED BY <1>1, <1>2, <1>5, <1>7, <1>10, <1>11, <1>12 DEF top, q

(* What a push appends: nothing, or two indexes.                            *)
IsPart(p) == p = <<>> \/ \E x, y \in Int : p = <<x, y>>

LEMMA PartIs ==
    ASSUME NEW s, Even(s), NEW p, IsPart(p)
    PROVE  /\ p \in Seq(Int) /\ Len(p) = IF p = <<>> THEN 0 ELSE 2
           /\ Even(s \o p)
           /\ PairsOf(s \o p) = IF p = <<>> THEN PairsOf(s) ELSE Append(PairsOf(s), p)
<1>1. CASE p = <<>>
  <2>1. s \o <<>> = s BY ConcatEmptySeq DEF Even
  <2> QED BY <1>1, <2>1, EmptySeq
<1>2. CASE p # <<>>
  <2>1. PICK x \in Int, y \in Int : p = <<x, y>> BY <1>2 DEF IsPart
  <2>2. <<x, y>> \in Seq(Int) /\ Len(<<x, y>>) = 2 OBVIOUS
  <2>3. /\ Even(s \o <<x, y>>)
        /\ PairsOf(s \o <<x, y>>) = Append(PairsOf(s), <<x, y>>)
    BY PairsPush
  <2> QED BY <1>2, <2>1, <2>2, <2>3
<1> QED BY <1>1, <1>2

(* The parts of a segment that is divided.                                  *)
LEMMA PushesAre ==
    ASSUME NEW f, Places(f), f.at = "done", f.start \in Index, f.end \in Index
    PROVE  LET l == Signed(f.lo)
               low == <<f.start, l>>
               high == <<f.hi, f.end>>
           IN  /\ l \in Int /\ f.hi \in Int /\ f.start \in Int /\ f.end \in Int
               /\ P!SegLen(low) = LowSize(f) /\ P!SegLen(high) = HighSize(f)
               /\ LowPush(f) = IF P!SegLen(low) > 1 THEN low ELSE <<>>
               /\ HighPush(f) = IF P!SegLen(high) > 1 THEN high ELSE <<>>
               /\ LowPush(f) \in Seq(Index) /\ HighPush(f) \in Seq(Index)
               /\ IsPart(LowPush(f)) /\ IsPart(HighPush(f))
<1> DEFINE l == Signed(f.lo)
<1>1. /\ l \in Int /\ f.start - 1 <= l /\ l + 2 <= f.hi /\ f.hi <= f.end + 1
      /\ LowSize(f) = l - f.start + 1 /\ HighSize(f) = f.end - f.hi + 1
  BY DoneCut
<1>2. /\ f.start \in Nat /\ f.end \in Nat /\ f.hi \in Nat /\ f.lo \in Nat
      /\ f.start < Size /\ f.end < Size /\ Size \in Nat
  <2>1. f \in FrameType BY DEF Places
  <2> QED BY <2>1, FrameFields, FineAssumption DEF Index
<1>3. LowSize(f) > 1 => f.lo = l
  <2>1. f.lo = SizeMax => l = -1 BY DEF Signed
  <2>2. LowSize(f) > 1 => l # -1
    <3> HIDE DEF l
    <3> QED BY <1>1, <1>2
  <2> QED BY <2>1, <2>2 DEF Signed
<1>4. LowPush(f) = IF l - f.start + 1 > 1 THEN <<f.start, l>> ELSE <<>>
  BY <1>1, <1>3 DEF LowPush, LowPart, QSORT_THRESHOLD
<1>5. HighPush(f) = IF f.end - f.hi + 1 > 1 THEN <<f.hi, f.end>> ELSE <<>>
  BY <1>1 DEF HighPush, HighPart, QSORT_THRESHOLD
<1> HIDE DEF l
<1>6. P!SegLen(<<f.start, l>>) = l - f.start + 1 BY DEF P!SegLen
<1>7. P!SegLen(<<f.hi, f.end>>) = f.end - f.hi + 1 BY DEF P!SegLen
<1>8. LowPush(f) \in Seq(Index) /\ IsPart(LowPush(f))
  <2>1. CASE l - f.start + 1 > 1
    <3>1. f.start \in Index /\ l \in Index BY <1>1, <1>2, <2>1 DEF Index
    <3>2. <<f.start, l>> \in Seq(Index) BY <3>1
    <3> QED BY <1>1, <1>2, <1>4, <2>1, <3>2 DEF IsPart
  <2>2. CASE ~(l - f.start + 1 > 1)
    BY <1>4, <2>2, EmptySeq DEF IsPart
  <2> QED BY <2>1, <2>2
<1>9. HighPush(f) \in Seq(Index) /\ IsPart(HighPush(f))
  <2>1. CASE f.end - f.hi + 1 > 1
    <3>1. f.hi \in Index /\ f.end \in Index BY <1>1, <1>2, <2>1 DEF Index
    <3>2. <<f.hi, f.end>> \in Seq(Index) BY <3>1
    <3> QED BY <1>1, <1>2, <1>5, <2>1, <3>2 DEF IsPart
  <2>2. CASE ~(f.end - f.hi + 1 > 1)
    BY <1>5, <2>2, EmptySeq DEF IsPart
  <2> QED BY <2>1, <2>2
<1> QED BY <1>1, <1>2, <1>4, <1>5, <1>6, <1>7, <1>8, <1>9 DEF l

LEMMA IntAssociative ==
    ASSUME NEW s \in Seq(Int), NEW t \in Seq(Int), NEW u \in Seq(Int)
    PROVE  (s \o t) \o u = s \o (t \o u)
BY ConcatAssociative, SMTT(30)

(* Both pushes, as ThreadQSort has them in one.                             *)
LEMMA PushedPairs ==
    ASSUME NEW s, Even(s),
           NEW f, Places(f), f.at = "done", f.start \in Index, f.end \in Index
    PROVE  LET both == FirstPush(f) \o SecondPush(f)
           IN  /\ PairsOf(s \o both)
                     = P!PushParts(PairsOf(s), <<f.start, Signed(f.lo)>>, <<f.hi, f.end>>)
               /\ Len(both) \div 2 = Len(PairsOf(s \o both)) - Len(PairsOf(s))
               /\ both \in Seq(Int)
<1> DEFINE low == <<f.start, Signed(f.lo)>>
           high == <<f.hi, f.end>>
           one == FirstPush(f)
           two == SecondPush(f)
<1>1. /\ P!SegLen(low) = LowSize(f) /\ P!SegLen(high) = HighSize(f)
      /\ LowPush(f) = IF P!SegLen(low) > 1 THEN low ELSE <<>>
      /\ HighPush(f) = IF P!SegLen(high) > 1 THEN high ELSE <<>>
      /\ IsPart(LowPush(f)) /\ IsPart(HighPush(f))
  BY PushesAre
<1>2. low # <<>> /\ high # <<>> OBVIOUS
<1> HIDE DEF low, high
<1>3. ASSUME NEW r, Even(r)
      PROVE  /\ PairsOf(r \o LowPush(f)) = P!PushIfLong(PairsOf(r), low)
             /\ PairsOf(r \o HighPush(f)) = P!PushIfLong(PairsOf(r), high)
  BY <1>1, <1>2, <1>3, PartIs DEF P!PushIfLong, P!QSORT_THRESHOLD
<1>4. IsPart(one) /\ IsPart(two) BY <1>1 DEF FirstPush, SecondPush
<1>5. Even(s \o one) BY <1>4, PartIs
<1>6. PairsOf((s \o one) \o two) = P!PushParts(PairsOf(s), low, high)
  <2>1. CASE LowSize(f) > HighSize(f)
    <3>1. one = LowPush(f) /\ two = HighPush(f)
      BY <2>1 DEF FirstPush, SecondPush, LowFirst
    <3>2. P!PushParts(PairsOf(s), low, high) = P!PushIfLong(P!PushIfLong(PairsOf(s), low), high)
      BY <1>1, <2>1 DEF P!PushParts
    <3> QED BY <1>3, <1>5, <3>1, <3>2
  <2>2. CASE ~(LowSize(f) > HighSize(f))
    <3>1. one = HighPush(f) /\ two = LowPush(f)
      BY <2>2 DEF FirstPush, SecondPush, LowFirst
    <3>2. P!PushParts(PairsOf(s), low, high) = P!PushIfLong(P!PushIfLong(PairsOf(s), high), low)
      BY <1>1, <2>2 DEF P!PushParts
    <3> QED BY <1>3, <1>5, <3>1, <3>2
  <2> QED BY <2>1, <2>2
<1>7. one \in Seq(Int) /\ two \in Seq(Int) /\ s \in Seq(Int)
  BY <1>4, PartIs DEF Even
<1> HIDE DEF one, two
<1>8. (s \o one) \o two = s \o (one \o two) BY <1>7, IntAssociative
<1>9. one \o two \in Seq(Int) /\ Len(one \o two) = Len(one) + Len(two)
  BY <1>7, ConcatProperties
<1>10. Len(one \o two) \div 2 = Len(PairsOf(s \o (one \o two))) - Len(PairsOf(s))
  <2>1. PICK n \in Nat : s \in Seq(Int) /\ Len(s) = 2 * n BY DEF Even
  <2>2. Len(PairsOf(s)) = n BY <2>1, PairsIs
  <2>3. PICK k \in Nat : Len(one \o two) = 2 * k
    <3>1. /\ Len(one) = IF one = <<>> THEN 0 ELSE 2
          /\ Len(two) = IF two = <<>> THEN 0 ELSE 2
      BY <1>4, PartIs
    <3>2. Len(one \o two) \in {2 * 0, 2 * 1, 2 * 2} BY <1>9, <3>1
    <3> QED BY <3>2
  <2> DEFINE both == one \o two
  <2>4. both \in Seq(Int) /\ Len(both) = 2 * k BY <1>9, <2>3
  <2> HIDE DEF both
  <2>5. s \o both \in Seq(Int) /\ Len(s \o both) = 2 * (n + k) /\ n + k \in Nat
    <3>1. s \o both \in Seq(Int) /\ Len(s \o both) = Len(s) + Len(both)
      BY <2>1, <2>4, ConcatProperties
    <3>2. 2 * n + 2 * k = 2 * (n + k) /\ n + k \in Nat OBVIOUS
    <3> QED BY <2>1, <2>4, <3>1, <3>2
  <2>6. Len(PairsOf(s \o both)) = n + k BY <2>5, PairsIs
  <2>7. (2 * k) \div 2 = k /\ n + k - n = k OBVIOUS
  <2> QED BY <2>2, <2>4, <2>6, <2>7 DEF both
<1> QED BY <1>6, <1>8, <1>9, <1>10 DEF low, high, one, two
-----------------------------------------------------------------------------
(* What a worker has yet to push is in the second critical section, which   *)
(* one worker at most is in.                                                *)
LEMMA UnpushedIs ==
    MutexInv => /\ \A t \in Threads : Pushing(t) => Unpushed = Pending(t)
                /\ (\A t \in Threads : ~Pushing(t)) => Unpushed = <<>>
<1> SUFFICES ASSUME MutexInv
             PROVE  /\ \A t \in Threads : Pushing(t) => Unpushed = Pending(t)
                    /\ (\A t \in Threads : ~Pushing(t)) => Unpushed = <<>>
  OBVIOUS
<1>1. ASSUME NEW t \in Threads, Pushing(t) PROVE Unpushed = Pending(t)
  <2>1. \A u \in Threads : Pushing(u) => u = mutex
    BY DEF MutexInv, Pushing, Critical
  <2>2. Pushers = {t} BY <1>1, <2>1 DEF Pushers
  <2>3. (CHOOSE u \in Pushers : TRUE) = t BY <2>2
  <2> QED BY <2>2, <2>3 DEF Unpushed
<1>2. ASSUME \A t \in Threads : ~Pushing(t) PROVE Unpushed = <<>>
  BY <1>2 DEF Pushers, Unpushed
<1> QED BY <1>1, <1>2

(* What of the state of ThreadQSort is a worker's stays while the worker    *)
(* stays where it is.                                                       *)
LEMMA OthersKeep ==
    ASSUME NEW t \in Threads, pc'[t] = pc[t], frame'[t] = frame[t]
    PROVE  /\ CoarsePC(t)' = CoarsePC(t)
           /\ Holding(t)' = Holding(t)
           /\ Pushing(t)' <=> Pushing(t)
           /\ SegOf(t)' = SegOf(t) /\ CutOf(t)' = CutOf(t)
           /\ Own(t)' = Own(t) /\ Pending(t)' = Pending(t)
BY DEF CoarsePC, Holding, Pushing, SegOf, CutOf, Own, Pending

LEMMA Stutter ==
    ASSUME \A t \in Threads : /\ CoarsePC(t)' = CoarsePC(t)
                              /\ Holding(t)' = Holding(t)
                              /\ SegOf(t)' = SegOf(t) /\ CutOf(t)' = CutOf(t),
           CStack' = CStack, CSem' = CSem, UNCHANGED <<main, next, whole, input>>
    PROVE  UNCHANGED P!sortVars
<1>1. CPC' = CPC BY DEF CPC
<1>2. CBusy' = CBusy
  <2>1. \A t \in Threads : Holding(t)' = Holding(t) OBVIOUS
  <2>2. Threads' = Threads BY DEF Threads
  <2> QED BY <2>1, <2>2 DEF CBusy
<1>3. CSeg' = CSeg BY DEF CSeg
<1>4. CCut' = CCut BY DEF CCut
<1> QED BY <1>1, <1>2, <1>3, <1>4 DEF P!sortVars
-----------------------------------------------------------------------------
LEMMA NextIsThread == P!IInv => next \in Threads
BY DEF P!IInv, P!TypeOK, P!Threads, Threads

(* A worker that bl_thread_qsort is about to create has not begun.          *)
LEMMA NextIsNew ==
    ASSUME MutexInv, P!IInv, main = "create"
    PROVE  next \in Threads /\ pc[next] = "new"
<1>1. next \in Threads BY NextIsThread
<1>2. next >= next BY <1>1, FineAssumption DEF Threads
<1>3. CPC[next] = "new"
  BY <1>1, <1>2 DEF P!IInv, P!NotYetCreated, P!Threads, Threads
<1>4. CoarsePC(next) = "new" BY <1>1, <1>3 DEF CPC
<1>5. pc[next] \in FinePC BY <1>1 DEF MutexInv
<1> QED BY <1>1, <1>4, <1>5 DEF CoarsePC, FinePC, Critical

(* Whatever a worker does, the mutex is the worker's that is between a lock *)
(* and an unlock, and it is marked as busy while it has a segment.          *)
LEMMA ControlMoves ==
    ASSUME MutexInv, BusyInv, NEW t \in Threads, NEW x \in FinePC,
           pc' = [pc EXCEPT ![t] = x],
           \/ mutex' = mutex /\ (x \in Critical <=> pc[t] \in Critical)
           \/ mutex = Nobody /\ mutex' = t /\ x \in Critical
           \/ pc[t] \in Critical /\ mutex' = Nobody /\ x \notin Critical,
           \/ busy' = busy /\ (x \in Marked <=> pc[t] \in Marked)
           \/ busy' = [busy EXCEPT ![t] = TRUE] /\ x \in Marked
           \/ busy' = [busy EXCEPT ![t] = FALSE] /\ x \notin Marked
    PROVE  MutexInv' /\ BusyInv'
<1>1. /\ pc' \in [Threads -> FinePC] /\ pc'[t] = x
      /\ \A u \in Threads : u # t => pc'[u] = pc[u]
  BY DEF MutexInv
<1>2. Nobody \notin Threads BY FineAssumption DEF Nobody, Threads
<1>3. MutexInv'
  <2>1. mutex' \in Threads \cup {Nobody} BY DEF MutexInv
  <2>2. \A u \in Threads : pc'[u] \in Critical <=> mutex' = u
    BY <1>1, <1>2 DEF MutexInv
  <2> QED BY <1>1, <2>1, <2>2 DEF MutexInv, Threads
<1>4. BusyInv'
  <2>1. busy' \in [Threads -> BOOLEAN] BY DEF BusyInv
  <2>2. \A u \in Threads : u # t => (busy'[u] <=> busy[u]) BY DEF BusyInv
  <2>3. busy'[t] <=> x \in Marked BY DEF BusyInv
  <2>4. ASSUME NEW u \in Threads PROVE busy'[u] <=> pc'[u] \in Marked
    <3>1. CASE u = t BY <1>1, <2>3, <3>1, Zenon
    <3>2. CASE u # t
      <4>1. busy'[u] <=> busy[u] BY <2>2, <3>2
      <4>2. busy[u] <=> pc[u] \in Marked BY Zenon DEF BusyInv
      <4>3. pc'[u] = pc[u] BY <1>1, <3>2
      <4> QED BY <4>1, <4>2, <4>3, Zenon
    <3> QED BY <3>1, <3>2
  <2> QED BY <2>1, <2>4, Zenon DEF BusyInv, Threads
<1> QED BY <1>3, <1>4

LEMMA ControlNext ==
    ASSUME MutexInv, BusyInv, P!IInv, [Next]_vars
    PROVE  MutexInv' /\ BusyInv'
<1>1. CASE CreateThread
  <2>1. next \in Threads /\ pc[next] = "new" BY <1>1, NextIsNew DEF CreateThread
  <2>2. pc' = [pc EXCEPT ![next] = "loop"] /\ UNCHANGED <<mutex, busy>>
    BY <1>1 DEF CreateThread, Goto, shared
  <2> QED BY <2>1, <2>2, ControlMoves DEF FinePC, Critical, Marked
<1>2. CASE UNCHANGED <<pc, mutex, busy>>
  BY <1>2, Zenon DEF MutexInv, BusyInv
<1>3. ASSUME NEW t \in Threads, WorkerStep(t) PROVE MutexInv' /\ BusyInv'
  <2>1. CASE Lock(t)
    <3>1. CASE pc[t] = "loop"
      <4>1. pc' = [pc EXCEPT ![t] = "look"] BY <2>1, <3>1 DEF Lock, Goto
      <4> QED BY <2>1, <3>1, <4>1, ControlMoves DEF Lock, FinePC, Critical, Marked
    <3>2. CASE pc[t] = "part"
      <4>1. pc' = [pc EXCEPT ![t] = "first"] BY <2>1, <3>2 DEF Lock, Goto
      <4> QED BY <2>1, <3>2, <4>1, ControlMoves DEF Lock, FinePC, Critical, Marked
    <3> QED BY <2>1, <3>1, <3>2 DEF Lock
  <2>2. CASE Unlock(t)
    <3>1. CASE pc[t] = "to loop"
      <4>1. pc' = [pc EXCEPT ![t] = "loop"] BY <2>2, <3>1 DEF Unlock, Goto
      <4> QED BY <2>2, <3>1, <4>1, ControlMoves DEF Unlock, FinePC, Critical, Marked
    <3>2. CASE pc[t] = "to wait"
      <4>1. pc' = [pc EXCEPT ![t] = "wait"] BY <2>2, <3>2 DEF Unlock, Goto
      <4> QED BY <2>2, <3>2, <4>1, ControlMoves DEF Unlock, FinePC, Critical, Marked
    <3>3. CASE pc[t] = "to exit"
      <4>1. pc' = [pc EXCEPT ![t] = "exited"] BY <2>2, <3>3 DEF Unlock, Goto
      <4> QED BY <2>2, <3>3, <4>1, ControlMoves DEF Unlock, FinePC, Critical, Marked
    <3>4. CASE pc[t] = "to part"
      <4>1. pc' = [pc EXCEPT ![t] = "part"] BY <2>2, <3>4 DEF Unlock, Goto
      <4> QED BY <2>2, <3>4, <4>1, ControlMoves DEF Unlock, FinePC, Critical, Marked
    <3> QED BY <2>2, <3>1, <3>2, <3>3, <3>4 DEF Unlock
  <2>3. CASE LookEmpty(t)
    <3>1. \E x \in {"to wait", "to exit"} : pc' = [pc EXCEPT ![t] = x]
      BY <2>3 DEF LookEmpty, Goto
    <3> QED BY <2>3, <3>1, ControlMoves DEF LookEmpty, shared, FinePC, Critical, Marked
  <2>4. CASE PopSegment(t)
    BY <2>4, ControlMoves DEF PopSegment, Goto, FinePC, Critical, Marked
  <2>5. CASE SetBusy(t)
    BY <2>5, ControlMoves DEF SetBusy, Goto, FinePC, Critical, Marked
  <2>6. CASE SemWait(t)
    BY <2>6, ControlMoves DEF SemWait, Goto, FinePC, Critical, Marked
  <2>7. CASE PartitionRound(t)
    BY <1>2, <2>7 DEF PartitionRound, shared
  <2>8. CASE PushFirst(t)
    BY <2>8, ControlMoves DEF PushFirst, PushOne, Goto, FinePC, Critical, Marked
  <2>9. CASE PushSecond(t)
    BY <2>9, ControlMoves DEF PushSecond, PushOne, Goto, FinePC, Critical, Marked
  <2>10. CASE ClearBusy(t)
    BY <2>10, ControlMoves DEF ClearBusy, Goto, FinePC, Critical, Marked
  <2> QED
    BY <1>3, <2>1, <2>2, <2>3, <2>4, <2>5, <2>6, <2>7, <2>8, <2>9, <2>10 DEF WorkerStep
<1>4. CASE JoinThread BY <1>2, <1>4 DEF JoinThread, shared
<1>5. CASE CreateFails BY <1>2, <1>5 DEF CreateFails, shared
<1>6. CASE UNCHANGED vars BY <1>2, <1>6 DEF vars
<1> QED BY <1>1, <1>3, <1>4, <1>5, <1>6 DEF Next, MainStep
-----------------------------------------------------------------------------
LEMMA ExceptIs ==
    ASSUME NEW S, NEW f, NEW g, NEW t \in S, NEW v,
           f = [u \in S |-> f[u]], g = [u \in S |-> g[u]],
           \A u \in S : u # t => g[u] = f[u], g[t] = v
    PROVE  g = [f EXCEPT ![t] = v]
OBVIOUS

(* A step of one worker, in the terms of ThreadQSort.                       *)
LEMMA OneMaps ==
    ASSUME NEW t \in Threads, NEW x, pc \in [Threads -> FinePC], pc' = [pc EXCEPT ![t] = x],
           \A u \in Threads : u # t => frame'[u] = frame[u]
    PROVE  /\ CPC' = [CPC EXCEPT ![t] = CoarsePC(t)']
           /\ CBusy' = [CBusy EXCEPT ![t] = Holding(t)']
           /\ CSeg' = [CSeg EXCEPT ![t] = SegOf(t)']
           /\ CCut' = [CCut EXCEPT ![t] = CutOf(t)']
           /\ \A u \in Threads : u # t => /\ Holding(u)' = Holding(u)
                                          /\ (Pushing(u)' <=> Pushing(u))
                                          /\ Pending(u)' = Pending(u)
<1>1. \A u \in Threads : u # t => pc'[u] = pc[u] OBVIOUS
<1>2. \A u \in Threads : u # t => /\ CoarsePC(u)' = CoarsePC(u)
                                  /\ Holding(u)' = Holding(u)
                                  /\ SegOf(u)' = SegOf(u) /\ CutOf(u)' = CutOf(u)
                                  /\ (Pushing(u)' <=> Pushing(u))
                                  /\ Pending(u)' = Pending(u)
  BY <1>1, OthersKeep
<1>3. Threads' = Threads BY DEF Threads
<1>4. CPC' = [CPC EXCEPT ![t] = CoarsePC(t)'] BY <1>2, <1>3 DEF CPC
<1>5. CBusy' = [CBusy EXCEPT ![t] = Holding(t)']
  <2>1. CBusy = [u \in Threads |-> Holding(u)] BY DEF CBusy
  <2>2. CBusy' = [u \in Threads |-> Holding(u)'] BY <1>3 DEF CBusy
  <2>3. ASSUME NEW u \in Threads, u # t PROVE CBusy'[u] = CBusy[u]
    <3>1. CBusy'[u] = Holding(u)' BY <2>2, Zenon
    <3>2. CBusy[u] = Holding(u) BY <2>1, Zenon
    <3>3. Holding(u)' = Holding(u) BY <1>2, <2>3
    <3> QED BY <3>1, <3>2, <3>3, Zenon
  <2>4. CBusy'[t] = Holding(t)' BY <2>2, Zenon
  <2>5. CBusy = [u \in Threads |-> CBusy[u]] BY <2>1, Zenon
  <2>6. CBusy' = [u \in Threads |-> CBusy'[u]] BY <2>2, Zenon
  <2> QED BY <2>3, <2>4, <2>5, <2>6, ExceptIs, Zenon
<1>6. CSeg' = [CSeg EXCEPT ![t] = SegOf(t)'] BY <1>2, <1>3 DEF CSeg
<1>7. CCut' = [CCut EXCEPT ![t] = CutOf(t)'] BY <1>2, <1>3 DEF CCut
<1> QED BY <1>2, <1>4, <1>5, <1>6, <1>7

(* A step that leaves the locked worker's pushes alone.                     *)
LEMMA UnpushedKept ==
    ASSUME MutexInv, MutexInv',
           \A u \in Threads : /\ (Pushing(u)' <=> Pushing(u))
                              /\ Pushing(u) => Pending(u)' = Pending(u)
    PROVE  Unpushed' = Unpushed
<1>1. /\ \A t \in Threads : Pushing(t)' => Unpushed' = Pending(t)'
      /\ (\A t \in Threads : ~Pushing(t)') => Unpushed' = <<>>
  <2>1. (MutexInv => /\ \A t \in Threads : Pushing(t) => Unpushed = Pending(t)
                     /\ (\A t \in Threads : ~Pushing(t)) => Unpushed = <<>>)'
    BY UnpushedIs, PTL
  <2>2. Threads' = Threads BY DEF Threads
  <2> QED BY <2>1, <2>2, Zenon
<1>2. CASE \E t \in Threads : Pushing(t)
  <2>1. PICK t \in Threads : Pushing(t) BY <1>2
  <2>2. Unpushed = Pending(t) BY <2>1, UnpushedIs
  <2>3. Unpushed' = Pending(t)' BY <1>1, <2>1
  <2> QED BY <2>1, <2>2, <2>3
<1>3. CASE \A t \in Threads : ~Pushing(t)
  <2>1. Unpushed = <<>> BY <1>3, UnpushedIs
  <2>2. Unpushed' = <<>> BY <1>1, <1>3
  <2> QED BY <2>1, <2>2
<1> QED BY <1>2, <1>3

(* While nobody is in the second critical section.                          *)
LEMMA NoPusher ==
    ASSUME MutexInv, \A t \in Threads : ~Pushing(t), StackInv
    PROVE  Unpushed = <<>> /\ CStack = PairsOf(stack) /\ CSem = sem /\ Even(stack)
<1>1. Unpushed = <<>> BY UnpushedIs
<1>2. stack \in Seq(Int)
  <2>1. Index \subseteq Int BY FineAssumption DEF Index
  <2> QED BY <2>1, SeqMonotonic DEF StackInv
<1>3. stack \o <<>> = stack BY <1>2, ConcatEmptySeq
<1>4. Even(stack) BY <1>2 DEF Even, StackInv
<1>5. Len(<<>>) = 0 /\ 0 \div 2 = 0 /\ sem + 0 = sem BY EmptySeq DEF StackInv
<1> QED BY <1>1, <1>3, <1>4, <1>5 DEF CStack, CSem
-----------------------------------------------------------------------------
(* Steps of the code that are none of ThreadQSort: the worker stays in the  *)
(* same critical section.                                                   *)
LEMMA Hidden ==
    ASSUME MutexInv, MutexInv', NEW t \in Threads, NEW x, pc' = [pc EXCEPT ![t] = x],
           \A u \in Threads : u # t => frame'[u] = frame[u],
           ~Pushing(t), ~Pushing(t)',
           CoarsePC(t)' = CoarsePC(t), Holding(t)' = Holding(t),
           SegOf(t)' = SegOf(t), CutOf(t)' = CutOf(t),
           UNCHANGED <<main, next, stack, sem, whole, input>>
    PROVE  UNCHANGED P!sortVars
<1>1. pc \in [Threads -> FinePC] BY DEF MutexInv
<1>2. \A u \in Threads : u # t => pc'[u] = pc[u] /\ frame'[u] = frame[u] BY <1>1
<1>3. ASSUME NEW u \in Threads
      PROVE  /\ CoarsePC(u)' = CoarsePC(u)
             /\ Holding(u)' = Holding(u)
             /\ SegOf(u)' = SegOf(u) /\ CutOf(u)' = CutOf(u)
             /\ (Pushing(u)' <=> Pushing(u))
             /\ Pushing(u) => Pending(u)' = Pending(u)
  <2>1. CASE u = t BY <2>1
  <2>2. CASE u # t BY <1>2, <2>2, OthersKeep
  <2> QED BY <2>1, <2>2
<1>4. Unpushed' = Unpushed BY <1>3, UnpushedKept
<1>5. CStack' = CStack /\ CSem' = CSem BY <1>4 DEF CStack, CSem
<1> QED BY <1>3, <1>5, Stutter

LEMMA NoMember ==
    ASSUME NEW x, NEW S, x \notin S PROVE (x \in S) = FALSE
OBVIOUS

(* The steps of the worker that has the second critical section.            *)
LEMMA HiddenPush ==
    ASSUME MutexInv, MutexInv', NEW t \in Threads, NEW x, pc' = [pc EXCEPT ![t] = x],
           \A u \in Threads : u # t => frame'[u] = frame[u],
           Pushing(t), x \in {"second", "idle", "to loop"},
           CStack' = CStack, CSem' = CSem,
           UNCHANGED <<main, next, whole, input>>
    PROVE  UNCHANGED P!sortVars
<1>1. pc \in [Threads -> FinePC] BY DEF MutexInv
<1>2. pc'[t] = x BY <1>1
<1>3. \A u \in Threads : u # t => pc'[u] = pc[u] /\ frame'[u] = frame[u] BY <1>1
<1>4. ASSUME NEW u \in Threads
      PROVE  /\ CoarsePC(u)' = CoarsePC(u)
             /\ Holding(u)' = Holding(u)
             /\ SegOf(u)' = SegOf(u) /\ CutOf(u)' = CutOf(u)
  <2>1. CASE u = t
    <3>1. CoarsePC(t) = "loop" BY DEF Pushing, CoarsePC
    <3>2. CoarsePC(t)' = "loop" BY <1>2 DEF CoarsePC
    <3>3. Holding(t) = FALSE
      <4>1. pc[t] \notin {"pop", "to part", "part"} BY DEF Pushing
      <4> QED BY <4>1, NoMember DEF Holding
    <3>4. Holding(t)' = FALSE
      <4>1. pc'[t] \notin {"pop", "to part", "part"} BY <1>2
      <4> QED BY <4>1, NoMember DEF Holding
    <3>5. Holding(t)' = Holding(t) BY <3>3, <3>4, Zenon
    <3> QED BY <2>1, <3>1, <3>2, <3>3, <3>4, <3>5 DEF SegOf, CutOf
  <2>2. CASE u # t BY <1>3, <2>2, OthersKeep
  <2> QED BY <2>1, <2>2
<1> QED BY <1>4, Stutter

LEMMA StackInts == StackInv => Even(stack) /\ sem \in Nat
<1> SUFFICES ASSUME StackInv PROVE Even(stack) /\ sem \in Nat OBVIOUS
<1>1. stack \in Seq(Int)
  <2>1. Index \subseteq Int BY FineAssumption DEF Index
  <2> QED BY <2>1, SeqMonotonic DEF StackInv
<1> QED BY <1>1 DEF Even, StackInv

(* The two pushes of a worker that holds the mutex for them.                *)
LEMMA PartsIn ==
    ASSUME FrameInv, NEW t \in Threads, Pushing(t)
    PROVE  LET f == frame[t]
           IN  /\ IsPart(FirstPush(f)) /\ IsPart(SecondPush(f))
               /\ FirstPush(f) \in Seq(Index) /\ SecondPush(f) \in Seq(Index)
<1>1. /\ frame[t].start \in Index /\ frame[t].end \in Index
      /\ Places(frame[t]) /\ frame[t].at = "done"
  BY DEF FrameInv, HasSegment
<1>2. /\ LowPush(frame[t]) \in Seq(Index) /\ HighPush(frame[t]) \in Seq(Index)
      /\ IsPart(LowPush(frame[t])) /\ IsPart(HighPush(frame[t]))
  BY <1>1, PushesAre
<1> QED BY <1>2 DEF FirstPush, SecondPush

LEMMA UnpushedThen ==
    MutexInv' => \A t \in Threads : Pushing(t)' => Unpushed' = Pending(t)'
<1>1. (MutexInv => /\ \A t \in Threads : Pushing(t) => Unpushed = Pending(t)
                   /\ (\A t \in Threads : ~Pushing(t)) => Unpushed = <<>>)'
  BY UnpushedIs, PTL
<1>2. Threads' = Threads BY DEF Threads
<1> QED BY <1>1, <1>2, Zenon

LEMMA PushFirstHidden ==
    ASSUME MutexInv, MutexInv', StackInv, FrameInv, NEW t \in Threads, PushFirst(t)
    PROVE  UNCHANGED P!sortVars
<1> DEFINE one == FirstPush(frame[t])
           two == SecondPush(frame[t])
<1>1. /\ pc[t] = "first" /\ pc' = [pc EXCEPT ![t] = "second"]
      /\ stack' = stack \o one /\ frame' = frame
      /\ sem' = IF one = <<>> THEN sem ELSE sem + 1
      /\ UNCHANGED <<main, next, whole, input>>
  BY DEF PushFirst, PushOne, Goto, array
<1>2. pc'[t] = "second" BY <1>1 DEF MutexInv
<1>3. Pushing(t) /\ Pushing(t)' BY <1>1, <1>2 DEF Pushing
<1>4. Unpushed = one \o two BY <1>1, <1>3, UnpushedIs DEF Pending
<1>5. Unpushed' = two BY <1>1, <1>2, <1>3, UnpushedThen DEF Pending
<1>6. IsPart(one) /\ IsPart(two) /\ Even(stack) /\ sem \in Nat
  BY <1>3, PartsIn, StackInts
<1> HIDE DEF one, two
<1>7. /\ one \in Seq(Int) /\ Len(one) = IF one = <<>> THEN 0 ELSE 2
      /\ two \in Seq(Int) /\ Len(two) = IF two = <<>> THEN 0 ELSE 2
      /\ stack \in Seq(Int)
  BY <1>6, PartIs DEF Even
<1>8. (stack \o one) \o two = stack \o (one \o two) BY <1>7, IntAssociative
<1>9. CStack' = CStack
  <2>1. (stack \o Unpushed)' = stack \o Unpushed BY <1>1, <1>4, <1>5, <1>8
  <2> QED BY <2>1 DEF CStack, PairsOf
<1>10. CSem' = CSem
  <2>1. Len(one \o two) = Len(one) + Len(two) BY <1>7, ConcatProperties
  <2> DEFINE l1 == Len(one)
             l2 == Len(two)
             s == sem'
  <2>2. s = sem + (l1 \div 2) BY <1>1, <1>6, <1>7
  <2>3. l1 \in {0, 2} /\ l2 \in {0, 2} BY <1>7
  <2> HIDE DEF l1, l2, s
  <2>4. s + (l2 \div 2) = sem + ((l1 + l2) \div 2) BY <1>6, <2>2, <2>3
  <2>5. s + (Len(Unpushed') \div 2) = sem + (Len(Unpushed) \div 2)
    BY <1>4, <1>5, <2>1, <2>4 DEF l1, l2
  <2> QED BY <2>5 DEF CSem, s
<1> QED BY <1>1, <1>3, <1>9, <1>10, HiddenPush

LEMMA PushSecondHidden ==
    ASSUME MutexInv, MutexInv', StackInv, FrameInv, NEW t \in Threads, PushSecond(t)
    PROVE  UNCHANGED P!sortVars
<1> DEFINE two == SecondPush(frame[t])
<1>1. /\ pc[t] = "second" /\ pc' = [pc EXCEPT ![t] = "idle"]
      /\ stack' = stack \o two /\ frame' = frame
      /\ sem' = IF two = <<>> THEN sem ELSE sem + 1
      /\ UNCHANGED <<main, next, whole, input>>
  BY DEF PushSecond, PushOne, Goto, array
<1>2. pc'[t] = "idle" BY <1>1 DEF MutexInv
<1>3. Pushing(t) /\ Pushing(t)' BY <1>1, <1>2 DEF Pushing
<1>4. Unpushed = two BY <1>1, <1>3, UnpushedIs DEF Pending
<1>5. Unpushed' = <<>> BY <1>2, <1>3, UnpushedThen DEF Pending
<1>6. IsPart(two) /\ Even(stack) /\ sem \in Nat BY <1>3, PartsIn, StackInts
<1> HIDE DEF two
<1>7. /\ two \in Seq(Int) /\ Len(two) = IF two = <<>> THEN 0 ELSE 2
      /\ stack \in Seq(Int)
  BY <1>6, PartIs DEF Even
<1>8. (stack \o two) \o <<>> = stack \o two
  <2>1. stack \o two \in Seq(Int) BY <1>7, ConcatProperties
  <2> QED BY <2>1, ConcatEmptySeq
<1>9. CStack' = CStack
  <2>1. (stack \o Unpushed)' = stack \o Unpushed BY <1>1, <1>4, <1>5, <1>8
  <2> QED BY <2>1 DEF CStack, PairsOf
<1>10. CSem' = CSem
  <2>1. Len(<<>>) = 0 BY EmptySeq
  <2> DEFINE l2 == Len(two)
             s == sem'
  <2>2. s = sem + (l2 \div 2) /\ l2 \in {0, 2} BY <1>1, <1>6, <1>7
  <2> HIDE DEF l2, s
  <2>3. s + (0 \div 2) = sem + (l2 \div 2) BY <1>6, <2>2
  <2>4. s + (Len(Unpushed') \div 2) = sem + (Len(Unpushed) \div 2)
    BY <1>4, <1>5, <2>1, <2>3 DEF l2
  <2> QED BY <2>4 DEF CSem, s
<1> QED BY <1>1, <1>3, <1>9, <1>10, HiddenPush

LEMMA ClearBusyHidden ==
    ASSUME MutexInv, MutexInv', FrameInv, NEW t \in Threads, ClearBusy(t)
    PROVE  UNCHANGED P!sortVars
<1>1. /\ pc[t] = "idle" /\ pc' = [pc EXCEPT ![t] = "to loop"]
      /\ frame' = [frame EXCEPT ![t] = NoFrame]
      /\ UNCHANGED <<main, next, stack, sem, whole, input>>
  BY DEF ClearBusy, Goto, array
<1>2. /\ pc'[t] = "to loop" /\ \A u \in Threads : u # t => pc'[u] = pc[u]
      /\ \A u \in Threads : u # t => frame'[u] = frame[u]
  BY <1>1 DEF MutexInv, FrameInv
<1>3. Pushing(t) /\ ~Pushing(t)' BY <1>1, <1>2 DEF Pushing
<1>4. Unpushed = <<>> BY <1>1, <1>3, UnpushedIs DEF Pending
<1>5. Unpushed' = <<>>
  <2>1. \A u \in Threads : Pushing(u) => mutex = u BY DEF MutexInv, Pushing, Critical
  <2>2. \A u \in Threads : u # t => ~Pushing(u)
    <3>1. mutex = t BY <1>3, <2>1
    <3> QED BY <2>1, <3>1
  <2>3. \A u \in Threads : ~Pushing(u)' BY <1>2, <1>3, <2>2 DEF Pushing
  <2>4. Pushers' = {} BY <2>3 DEF Pushers, Threads
  <2> QED BY <2>4 DEF Unpushed
<1>6. CStack' = CStack /\ CSem' = CSem BY <1>1, <1>4, <1>5 DEF CStack, CSem
<1> QED BY <1>1, <1>2, <1>3, <1>6, HiddenPush
-----------------------------------------------------------------------------
LEMMA SameMember ==
    ASSUME NEW x, NEW y, NEW S, x \in S <=> y \in S PROVE (x \in S) = (y \in S)
OBVIOUS

LEMMA LockToLook ==
    ASSUME MutexInv, MutexInv', NEW t \in Threads, Lock(t), pc[t] = "loop"
    PROVE  UNCHANGED P!sortVars
<1>1. /\ pc' = [pc EXCEPT ![t] = "look"]
      /\ UNCHANGED <<main, next, stack, sem, frame, whole, input>>
  BY DEF Lock, Goto, array
<1>2. pc'[t] = "look" BY <1>1 DEF MutexInv
<1>3. ~Pushing(t) /\ ~Pushing(t)' BY <1>2 DEF Pushing
<1>4. CoarsePC(t) = "loop" /\ CoarsePC(t)' = "loop" BY <1>2 DEF CoarsePC
<1>5. Holding(t) = FALSE /\ Holding(t)' = FALSE
  <2>1. /\ pc[t] \notin {"pop", "to part", "part"}
        /\ pc'[t] \notin {"pop", "to part", "part"}
    BY <1>2
  <2> QED BY <2>1, NoMember DEF Holding
<1>6. Holding(t)' = Holding(t) BY <1>5, Zenon
<1> QED BY <1>1, <1>3, <1>4, <1>5, <1>6, Hidden DEF SegOf, CutOf

LEMMA UnlockHidden ==
    ASSUME MutexInv, MutexInv', FrameInv, NEW t \in Threads, Unlock(t)
    PROVE  UNCHANGED P!sortVars
<1>1. /\ pc[t] \in {"to loop", "to wait", "to exit", "to part"}
      /\ UNCHANGED <<main, next, stack, sem, frame, whole, input>>
  BY DEF Unlock, array
<1> DEFINE x == CASE pc[t] = "to loop" -> "loop"
                  [] pc[t] = "to wait" -> "wait"
                  [] pc[t] = "to exit" -> "exited"
                  [] pc[t] = "to part" -> "part"
<1>2. pc' = [pc EXCEPT ![t] = x] BY DEF Unlock, Goto
<1>3. pc'[t] = x BY <1>2 DEF MutexInv
<1>4. /\ pc[t] = "to loop" => x = "loop"
      /\ pc[t] = "to wait" => x = "wait"
      /\ pc[t] = "to exit" => x = "exited"
      /\ pc[t] = "to part" => x = "part"
  OBVIOUS
<1> HIDE DEF x
<1>5. ~Pushing(t) /\ ~Pushing(t)' BY <1>1, <1>3, <1>4 DEF Pushing
<1>6. pc[t] = "to part" => frame[t].at # "done" BY DEF FrameInv
<1>7. CoarsePC(t)' = CoarsePC(t)
  <2>1. CASE pc[t] = "to loop" BY <1>3, <1>4, <2>1 DEF CoarsePC
  <2>2. CASE pc[t] = "to wait" BY <1>3, <1>4, <2>2 DEF CoarsePC
  <2>3. CASE pc[t] = "to exit" BY <1>3, <1>4, <2>3 DEF CoarsePC
  <2>4. CASE pc[t] = "to part" BY <1>1, <1>3, <1>4, <1>6, <2>4 DEF CoarsePC
  <2> QED BY <1>1, <2>1, <2>2, <2>3, <2>4
<1>8. Holding(t)' = Holding(t)
  <2>1. CASE pc[t] = "to part"
    <3> DEFINE S == {"pop", "to part", "part"}
    <3>1. pc'[t] \in S <=> pc[t] \in S BY <1>3, <1>4, <2>1
    <3>2. (pc'[t] \in S) = (pc[t] \in S)
      <4> HIDE DEF S
      <4> QED BY <3>1, SameMember
    <3> QED BY <3>2, Zenon DEF Holding
  <2>2. CASE pc[t] # "to part"
    <3>1. /\ pc[t] \notin {"pop", "to part", "part"}
          /\ pc'[t] \notin {"pop", "to part", "part"}
      BY <1>1, <1>3, <1>4, <2>2
    <3>2. Holding(t) = FALSE /\ Holding(t)' = FALSE BY <3>1, NoMember DEF Holding
    <3> QED BY <3>2, Zenon
  <2> QED BY <2>1, <2>2
<1> QED BY <1>1, <1>2, <1>5, <1>7, <1>8, Hidden DEF SegOf, CutOf

LEMMA SetBusyHidden ==
    ASSUME MutexInv, MutexInv', NEW t \in Threads, SetBusy(t)
    PROVE  UNCHANGED P!sortVars
<1>1. /\ pc[t] = "pop" /\ pc' = [pc EXCEPT ![t] = "to part"]
      /\ UNCHANGED <<main, next, stack, sem, frame, whole, input>>
  BY DEF SetBusy, Goto, array
<1>2. pc'[t] = "to part" BY <1>1 DEF MutexInv
<1>3. ~Pushing(t) /\ ~Pushing(t)' BY <1>1, <1>2 DEF Pushing
<1>4. CoarsePC(t)' = CoarsePC(t) BY <1>1, <1>2 DEF CoarsePC
<1>5. Holding(t)' = Holding(t)
  <2> DEFINE S == {"pop", "to part", "part"}
  <2>1. pc'[t] \in S <=> pc[t] \in S BY <1>1, <1>2
  <2>2. (pc'[t] \in S) = (pc[t] \in S)
    <3> HIDE DEF S
    <3> QED BY <2>1, SameMember
  <2> QED BY <2>2, Zenon DEF Holding
<1> QED BY <1>1, <1>3, <1>4, <1>5, Hidden DEF SegOf, CutOf

(* A round with which the partition does not end.                           *)
LEMMA RoundHidden ==
    ASSUME MutexInv, MutexInv', FrameInv, NEW t \in Threads, PartitionRound(t),
           frame'[t].at # "done",
           frame'[t].start = frame[t].start, frame'[t].end = frame[t].end
    PROVE  UNCHANGED P!sortVars
<1>1. /\ pc[t] = "part" /\ frame[t].at # "done"
      /\ UNCHANGED <<main, next, pc, stack, sem, input>>
      /\ frame' = [frame EXCEPT ![t] = PartitionStep(frame[t], arr)[1]]
  BY DEF PartitionRound, shared
<1>2. whole' = whole
  <2> DEFINE after == PartitionStep(frame[t], arr)
  <2>1. frame' = [frame EXCEPT ![t] = after[1]]
        /\ whole' = IF after[1].at = "done"
                         THEN [i \in Index |-> IF i \in Own(t) THEN arr'[i] ELSE whole[i]]
                         ELSE whole
    BY DEF PartitionRound
  <2> HIDE DEF after
  <2>2. frame'[t] = after[1] BY <2>1 DEF FrameInv
  <2> QED BY <2>1, <2>2
<1>3. \A u \in Threads : u # t => frame'[u] = frame[u] BY <1>1 DEF FrameInv
<1>4. pc' = [pc EXCEPT ![t] = "part"] BY <1>1 DEF MutexInv
<1>5. ~Pushing(t) /\ ~Pushing(t)' BY <1>1 DEF Pushing
<1>6. CoarsePC(t) = "part" /\ CoarsePC(t)' = "part" BY <1>1 DEF CoarsePC
<1>7. Holding(t)' = Holding(t) BY <1>1 DEF Holding
<1>8. SegOf(t)' = SegOf(t) BY <1>7 DEF SegOf
<1>9. CutOf(t)' = CutOf(t) BY <1>6 DEF CutOf
<1> QED BY <1>1, <1>2, <1>3, <1>4, <1>5, <1>6, <1>7, <1>8, <1>9, Hidden
-----------------------------------------------------------------------------
(* Steps that are steps of ThreadQSort.                                     *)
LEMMA AllMember ==
    ASSUME NEW x, NEW S PROVE /\ x \in S => (x \in S) = TRUE
                              /\ x \notin S => (x \in S) = FALSE
OBVIOUS

LEMMA HoldingIs ==
    ASSUME NEW t
    PROVE  /\ Holding(t) => Holding(t) = TRUE
           /\ ~Holding(t) => Holding(t) = FALSE
           /\ Holding(t)' => Holding(t)' = TRUE
           /\ ~Holding(t)' => Holding(t)' = FALSE
<1> DEFINE S == {"pop", "to part", "part"}
<1> HIDE DEF S
<1>1. /\ pc[t] \in S => (pc[t] \in S) = TRUE
      /\ pc[t] \notin S => (pc[t] \in S) = FALSE
  BY AllMember
<1>2. /\ pc'[t] \in S => (pc'[t] \in S) = TRUE
      /\ pc'[t] \notin S => (pc'[t] \in S) = FALSE
  BY AllMember
<1> QED BY <1>1, <1>2, Zenon DEF Holding, S

LEMMA CoarseAt ==
    ASSUME NEW t \in Threads
    PROVE  /\ CPC[t] = CoarsePC(t) /\ CBusy[t] = Holding(t)
           /\ CSeg[t] = SegOf(t) /\ CCut[t] = CutOf(t)
<1>1. CPC[t] = CoarsePC(t) /\ CSeg[t] = SegOf(t) /\ CCut[t] = CutOf(t)
  BY DEF CPC, CSeg, CCut
<1>2. CBusy[t] = Holding(t) BY Zenon DEF CBusy
<1> QED BY <1>1, <1>2

(* A step of one worker that leaves it with the segment it has or has not.  *)
LEMMA SegmentKept ==
    ASSUME NEW t \in Threads, NEW x, pc \in [Threads -> FinePC], pc' = [pc EXCEPT ![t] = x],
           frame' = frame,
           Holding(t)' <=> Holding(t), CoarsePC(t) # "push", CoarsePC(t)' # "push"
    PROVE  UNCHANGED <<CBusy, CSeg, CCut>>
<1>1. \A u \in Threads : u # t => pc'[u] = pc[u] BY Zenon
<1>2. Holding(t)' = Holding(t) BY HoldingIs, Zenon
<1>3. SegOf(t)' = SegOf(t) BY <1>2 DEF SegOf
<1>4. CutOf(t)' = CutOf(t) BY DEF CutOf
<1>5. ASSUME NEW u \in Threads
      PROVE  Holding(u)' = Holding(u) /\ SegOf(u)' = SegOf(u) /\ CutOf(u)' = CutOf(u)
  <2>1. CASE u = t BY <1>2, <1>3, <1>4, <2>1
  <2>2. CASE u # t BY <1>1, <2>2, OthersKeep
  <2> QED BY <2>1, <2>2
<1>6. Threads' = Threads BY DEF Threads
<1>7. CBusy' = CBusy
  <2>1. \A u \in Threads : Holding(u)' = Holding(u) BY <1>5
  <2> QED BY <1>6, <2>1 DEF CBusy
<1>8. CSeg' = CSeg BY <1>5, <1>6 DEF CSeg
<1>9. CCut' = CCut BY <1>5, <1>6 DEF CCut
<1> QED BY <1>7, <1>8, <1>9

LEMMA FineStill ==
    ASSUME UNCHANGED <<pc, stack, sem, frame>>
    PROVE  UNCHANGED <<CPC, CStack, CSem, CBusy, CSeg, CCut>>
<1>1. ASSUME NEW u \in Threads
      PROVE  /\ CoarsePC(u)' = CoarsePC(u) /\ Holding(u)' = Holding(u)
             /\ SegOf(u)' = SegOf(u) /\ CutOf(u)' = CutOf(u)
  BY OthersKeep
<1>2. Threads' = Threads BY DEF Threads
<1>3. CPC' = CPC BY <1>1, <1>2 DEF CPC
<1>4. CBusy' = CBusy
  <2>1. \A u \in Threads : Holding(u)' = Holding(u) BY <1>1
  <2> QED BY <1>2, <2>1 DEF CBusy
<1>5. CSeg' = CSeg BY <1>1, <1>2 DEF CSeg
<1>6. CCut' = CCut BY <1>1, <1>2 DEF CCut
<1>7. Unpushed' = Unpushed BY DEF Unpushed, Pushers, Pushing, Pending, Threads
<1>8. CStack' = CStack /\ CSem' = CSem BY <1>7 DEF CStack, CSem
<1> QED BY <1>3, <1>4, <1>5, <1>6, <1>8

LEMMA CreateMaps ==
    ASSUME MutexInv, MutexInv', P!IInv, CreateThread
    PROVE  P!CreateThread /\ UNCHANGED <<whole, input>>
<1>1. PICK t \in Threads : next = t BY NextIsNew DEF CreateThread
<1>2. /\ main = "create" /\ pc' = [pc EXCEPT ![t] = "loop"]
      /\ UNCHANGED <<stack, sem, frame, whole, input>>
      /\ IF next + 1 = NumThreads
           THEN main' = "join" /\ next' = 0
           ELSE main' = main /\ next' = next + 1
  BY <1>1 DEF CreateThread, Goto, shared, array
<1>3. pc[t] = "new" BY <1>1, <1>2, NextIsNew
<1>4. pc \in [Threads -> FinePC] BY DEF MutexInv
<1>5. pc'[t] = "loop" /\ \A u \in Threads : u # t => pc'[u] = pc[u] BY <1>2, <1>4
<1>6. CoarsePC(t) = "new" BY <1>3 DEF CoarsePC
<1>7. CoarsePC(t)' = "loop" BY <1>5 DEF CoarsePC
<1>8. ~Holding(t) /\ ~Holding(t)' BY <1>3, <1>5 DEF Holding
<1>9. UNCHANGED <<CBusy, CSeg, CCut>>
  BY <1>2, <1>4, <1>6, <1>7, <1>8, SegmentKept
<1>10. CPC' = [CPC EXCEPT ![t] = "loop"]
  <2>1. CPC' = [CPC EXCEPT ![t] = CoarsePC(t)'] BY <1>2, <1>4, OneMaps
  <2> QED BY <1>7, <2>1
<1>11. CStack' = CStack /\ CSem' = CSem
  <2>1. ASSUME NEW u \in Threads
        PROVE  (Pushing(u)' <=> Pushing(u)) /\ (Pushing(u) => Pending(u)' = Pending(u))
    <3>1. CASE u = t BY <1>3, <1>5, <3>1 DEF Pushing
    <3>2. CASE u # t BY <1>2, <1>5, <3>2, OthersKeep
    <3> QED BY <3>1, <3>2
  <2>2. Unpushed' = Unpushed BY <2>1, UnpushedKept
  <2> QED BY <1>2, <2>2 DEF CStack, CSem
<1> QED BY <1>1, <1>2, <1>9, <1>10, <1>11 DEF P!CreateThread

LEMMA JoinMaps ==
    ASSUME P!IInv, JoinThread
    PROVE  P!JoinThread /\ UNCHANGED <<whole, input>>
<1>1. /\ main = "join" /\ pc[next] = "exited"
      /\ UNCHANGED <<pc, stack, sem, frame, whole, input>>
      /\ IF next + 1 = NumThreads
           THEN main' = "returned" /\ next' = next
           ELSE main' = main /\ next' = next + 1
  BY DEF JoinThread, shared, array
<1>2. next \in Threads BY NextIsThread
<1>3. CPC[next] = "exited"
  <2>1. CoarsePC(next) = "exited" BY <1>1 DEF CoarsePC
  <2> QED BY <1>2, <2>1, CoarseAt
<1>4. UNCHANGED <<CPC, CStack, CSem, CBusy, CSeg, CCut>> BY <1>1, FineStill
<1> QED BY <1>1, <1>3, <1>4 DEF P!JoinThread

LEMMA FailMaps ==
    ASSUME CreateFails
    PROVE  P!CreateFails /\ UNCHANGED <<whole, input>>
<1>1. /\ main = "create" /\ main' = "failed"
      /\ UNCHANGED <<next, pc, stack, sem, frame, whole, input>>
  BY DEF CreateFails, shared, array
<1>2. UNCHANGED <<CPC, CStack, CSem, CBusy, CSeg, CCut>> BY <1>1, FineStill
<1> QED BY <1>1, <1>2 DEF P!CreateFails

(* The first critical section, the stack being empty.                       *)
LEMMA LookMaps ==
    ASSUME MutexInv, MutexInv', BusyInv, StackInv, NEW t \in Threads, Running, LookEmpty(t)
    PROVE  (P!GoToSleep(t) \/ P!ExitThread(t)) /\ UNCHANGED <<whole, input>>
<1> DEFINE x == IF Working THEN "to wait" ELSE "to exit"
<1>1. /\ pc[t] = "look" /\ stack = <<>> /\ pc' = [pc EXCEPT ![t] = x]
      /\ UNCHANGED <<main, next, stack, sem, busy, mutex, frame, whole, input>>
  BY DEF LookEmpty, Goto, shared, array
<1>2. pc \in [Threads -> FinePC] BY DEF MutexInv
<1>3. pc'[t] = x /\ \A u \in Threads : u # t => pc'[u] = pc[u] BY <1>1, <1>2
<1>4. /\ Working => x = "to wait"
      /\ ~Working => x = "to exit"
  OBVIOUS
<1> HIDE DEF x
<1>5. mutex = t BY <1>1 DEF MutexInv, Critical
<1>6. ASSUME NEW u \in Threads PROVE ~Pushing(u) /\ ~Pushing(u)'
  <2>1. u # t => pc[u] \notin Critical BY <1>5 DEF MutexInv
  <2>2. ~Pushing(u) BY <1>1, <2>1 DEF Critical, Pushing
  <2>3. ~Pushing(u)' BY <1>3, <1>4, <2>2 DEF Pushing
  <2> QED BY <2>2, <2>3
<1>7. Unpushed = <<>> /\ CStack = PairsOf(stack) BY <1>6, NoPusher
<1>8. CStack = <<>> BY <1>1, <1>7, PairsNone
<1>9. Unpushed' = Unpushed BY <1>6, UnpushedKept
<1>10. CStack' = CStack /\ CSem' = CSem BY <1>1, <1>9 DEF CStack, CSem
<1>11. CoarsePC(t) = "loop" BY <1>1 DEF CoarsePC
<1>12. CoarsePC(t)' = IF Working THEN "wait" ELSE "exited" BY <1>3, <1>4 DEF CoarsePC
<1>13. ~Holding(t) /\ ~Holding(t)' BY <1>1, <1>3, <1>4 DEF Holding
<1>14. UNCHANGED <<CBusy, CSeg, CCut>>
  BY <1>1, <1>2, <1>11, <1>12, <1>13, SegmentKept
<1>15. CPC' = [CPC EXCEPT ![t] = IF Working THEN "wait" ELSE "exited"]
  <2>1. CPC' = [CPC EXCEPT ![t] = CoarsePC(t)'] BY <1>1, <1>2, OneMaps
  <2> QED BY <1>12, <2>1
<1>16. CPC[t] = "loop" BY <1>11, CoarseAt
<1>17. P!Working <=> Working
  <2>1. ASSUME NEW u \in Threads PROVE busy[u] <=> Holding(u)
    <3>1. CASE u = t BY <1>1, <1>13, <3>1, Zenon DEF BusyInv, Marked
    <3>2. CASE u # t
      <4>1. pc[u] \notin Critical BY <1>5, <3>2 DEF MutexInv
      <4>2. pc[u] \in Marked <=> Holding(u)
        BY <4>1 DEF Critical, Marked, Holding
      <4>3. busy[u] <=> pc[u] \in Marked BY Zenon DEF BusyInv
      <4> QED BY <4>2, <4>3, Zenon
    <3> QED BY <3>1, <3>2
  <2>2. \A u \in Threads : CBusy[u] <=> Holding(u) BY CoarseAt, Zenon
  <2> QED BY <2>1, <2>2, Zenon DEF P!Working, Working, P!Threads, Threads
<1>18. UNCHANGED <<main, next, CStack, CSem, CBusy, CSeg, CCut>>
  BY <1>1, <1>10, <1>14
<1>19. CASE Working
  <2>1. CPC' = [CPC EXCEPT ![t] = "wait"] BY <1>15, <1>19
  <2> QED BY <1>1, <1>8, <1>16, <1>17, <1>18, <1>19, <2>1
          DEF P!GoToSleep, P!Running, Running
<1>20. CASE ~Working
  <2>1. CPC' = [CPC EXCEPT ![t] = "exited"] BY <1>15, <1>20
  <2> QED BY <1>1, <1>8, <1>16, <1>17, <1>18, <1>20, <2>1
          DEF P!ExitThread, P!Running, Running
<1> QED BY <1>19, <1>20

(* What is yet to be pushed is a whole number of pairs of indexes.          *)
LEMMA UnpushedCount ==
    ASSUME MutexInv, FrameInv
    PROVE  Unpushed \in Seq(Int) /\ Len(Unpushed) \div 2 \in Nat
<1>1. CASE \A t \in Threads : ~Pushing(t)
  <2>1. Unpushed = <<>> BY <1>1, UnpushedIs
  <2>2. <<>> \in Seq(Int) /\ Len(<<>>) = 0 /\ 0 \div 2 \in Nat BY EmptySeq
  <2> QED BY <2>1, <2>2
<1>2. ASSUME NEW t \in Threads, Pushing(t)
      PROVE  Unpushed \in Seq(Int)
  <2>1. Unpushed = Pending(t) BY <1>2, UnpushedIs
  <2>2. IsPart(FirstPush(frame[t])) /\ IsPart(SecondPush(frame[t])) BY <1>2, PartsIn
  <2>3. Even(<<>>)
    <3>1. Len(<<>>) = 2 * 0 /\ <<>> \in Seq(Int) BY EmptySeq
    <3> QED BY <3>1 DEF Even
  <2>4. FirstPush(frame[t]) \in Seq(Int) /\ SecondPush(frame[t]) \in Seq(Int)
    BY <2>2, <2>3, PartIs
  <2>5. FirstPush(frame[t]) \o SecondPush(frame[t]) \in Seq(Int)
    BY <2>4, ConcatProperties
  <2>6. <<>> \in Seq(Int) BY EmptySeq
  <2> QED BY <2>1, <2>4, <2>5, <2>6 DEF Pending
<1>3. Unpushed \in Seq(Int) => Len(Unpushed) \div 2 \in Nat
  <2>1. Unpushed \in Seq(Int) => Len(Unpushed) \in Nat BY LenProperties
  <2> DEFINE n == Len(Unpushed)
  <2>2. n \in Nat => n \div 2 \in Nat
    <3> HIDE DEF n
    <3> QED OBVIOUS
  <2> QED BY <2>1, <2>2
<1> QED BY <1>1, <1>2, <1>3

LEMMA WaitMaps ==
    ASSUME MutexInv, MutexInv', StackInv, FrameInv, NEW t \in Threads, Running, SemWait(t)
    PROVE  P!WakeUp(t) /\ UNCHANGED <<whole, input>>
<1>1. /\ pc[t] = "wait" /\ sem > 0 /\ sem' = sem - 1 /\ pc' = [pc EXCEPT ![t] = "loop"]
      /\ UNCHANGED <<main, next, stack, busy, mutex, frame, whole, input>>
  BY DEF SemWait, Goto, array
<1>2. pc \in [Threads -> FinePC] BY DEF MutexInv
<1>3. pc'[t] = "loop" /\ \A u \in Threads : u # t => pc'[u] = pc[u] BY <1>1, <1>2
<1>4. CoarsePC(t) = "wait" BY <1>1 DEF CoarsePC
<1>5. CoarsePC(t)' = "loop" BY <1>3 DEF CoarsePC
<1>6. ~Holding(t) /\ ~Holding(t)' BY <1>1, <1>3 DEF Holding
<1>7. UNCHANGED <<CBusy, CSeg, CCut>>
  BY <1>1, <1>2, <1>4, <1>5, <1>6, SegmentKept
<1>8. CPC' = [CPC EXCEPT ![t] = "loop"]
  <2>1. CPC' = [CPC EXCEPT ![t] = CoarsePC(t)'] BY <1>1, <1>2, OneMaps
  <2> QED BY <1>5, <2>1
<1>9. ASSUME NEW u \in Threads
      PROVE  (Pushing(u)' <=> Pushing(u)) /\ (Pushing(u) => Pending(u)' = Pending(u))
  <2>1. CASE u = t BY <1>1, <1>3, <2>1 DEF Pushing
  <2>2. CASE u # t BY <1>1, <1>3, <2>2, OthersKeep
  <2> QED BY <2>1, <2>2
<1>10. Unpushed' = Unpushed BY <1>9, UnpushedKept
<1>11. CStack' = CStack BY <1>1, <1>10 DEF CStack
<1>12. CSem > 0 /\ CSem' = CSem - 1
  <2> DEFINE k == Len(Unpushed) \div 2
             s == sem'
  <2>1. k \in Nat /\ sem \in Nat BY UnpushedCount DEF StackInv
  <2>2. CSem = sem + k /\ CSem' = s + k BY <1>10 DEF CSem
  <2>3. s = sem - 1 BY <1>1
  <2> DEFINE c == CSem
             d == CSem'
  <2>4. c = sem + k /\ d = s + k BY <2>2
  <2> HIDE DEF k, s, c, d
  <2>5. c > 0 /\ d = c - 1 BY <1>1, <2>1, <2>3, <2>4
  <2> QED BY <2>5 DEF c, d
<1>13. CPC[t] = "wait" BY <1>4, CoarseAt
<1> QED BY <1>1, <1>7, <1>8, <1>11, <1>12, <1>13 DEF P!WakeUp, P!Running, Running
-----------------------------------------------------------------------------
LEMMA PopMaps ==
    ASSUME MutexInv, MutexInv', StackInv, FrameInv,
           NEW t \in Threads, Running, PopSegment(t)
    PROVE  P!Pop(t) /\ UNCHANGED <<whole, input>>
<1> DEFINE n == Len(stack)
           s == <<stack[n - 1], stack[n]>>
<1>1. /\ pc[t] = "look" /\ stack # <<>> /\ pc' = [pc EXCEPT ![t] = "pop"]
      /\ frame' = [frame EXCEPT ![t] = Frame(stack[n - 1], stack[n])]
      /\ stack' = SubSeq(stack, 1, n - 2)
      /\ UNCHANGED <<main, next, sem, busy, mutex, whole, input>>
  BY DEF PopSegment, Goto, array
<1>2. pc \in [Threads -> FinePC] /\ DOMAIN frame = Threads BY DEF MutexInv, FrameInv
<1>3. pc'[t] = "pop" /\ \A u \in Threads : u # t => pc'[u] = pc[u] BY <1>1, <1>2
<1>4. /\ frame'[t] = Frame(stack[n - 1], stack[n])
      /\ \A u \in Threads : u # t => frame'[u] = frame[u]
  BY <1>1, <1>2
<1>5. mutex = t BY <1>1 DEF MutexInv, Critical
<1>6. ASSUME NEW u \in Threads PROVE ~Pushing(u) /\ ~Pushing(u)'
  <2>1. u # t => pc[u] \notin Critical BY <1>5 DEF MutexInv
  <2>2. ~Pushing(u) BY <1>1, <2>1 DEF Critical, Pushing
  <2>3. ~Pushing(u)' BY <1>3, <2>2 DEF Pushing
  <2> QED BY <2>2, <2>3
<1>7. Unpushed = <<>> /\ CStack = PairsOf(stack) /\ Even(stack) BY <1>6, NoPusher
<1>8. Unpushed' = Unpushed BY <1>6, UnpushedKept
<1>9. /\ Even(stack') /\ CStack # <<>>
      /\ PairsOf(stack') = SubSeq(CStack, 1, Len(CStack) - 1)
      /\ CStack[Len(CStack)] = s
  BY <1>1, <1>7, PairsPop
<1>10. CStack' = SubSeq(CStack, 1, Len(CStack) - 1)
  <2>1. stack' \o <<>> = stack' BY <1>9, ConcatEmptySeq DEF Even
  <2>2. (stack \o Unpushed)' = stack' BY <1>7, <1>8, <2>1
  <2>3. CStack' = PairsOf(stack') BY <2>2 DEF CStack, PairsOf
  <2> QED BY <1>9, <2>3
<1>11. CSem' = CSem BY <1>1, <1>8 DEF CSem
<1>12. CoarsePC(t) = "loop" BY <1>1 DEF CoarsePC
<1>13. CoarsePC(t)' = "part" BY <1>3 DEF CoarsePC
<1>14. Holding(t)' = TRUE
  <2>1. Holding(t)' BY <1>3 DEF Holding
  <2> QED BY <2>1, HoldingIs
<1>15. SegOf(t)' = s
  <2>1. SegOf(t)' = <<frame'[t].start, frame'[t].end>> BY <1>14 DEF SegOf
  <2> QED BY <1>4, <2>1 DEF Frame
<1>16. CutOf(t)' = <<-1, -1>> /\ CutOf(t) = <<-1, -1>> BY <1>12, <1>13 DEF CutOf
<1>17. /\ CPC' = [CPC EXCEPT ![t] = "part"]
       /\ CBusy' = [CBusy EXCEPT ![t] = TRUE]
       /\ CSeg' = [CSeg EXCEPT ![t] = s]
       /\ CCut' = [CCut EXCEPT ![t] = <<-1, -1>>]
  <2>1. /\ CPC' = [CPC EXCEPT ![t] = CoarsePC(t)']
        /\ CBusy' = [CBusy EXCEPT ![t] = Holding(t)']
        /\ CSeg' = [CSeg EXCEPT ![t] = SegOf(t)']
        /\ CCut' = [CCut EXCEPT ![t] = CutOf(t)']
    BY <1>1, <1>2, <1>4, OneMaps
  <2> HIDE DEF s
  <2> QED BY <1>13, <1>14, <1>15, <1>16, <2>1, Zenon
<1>18. CCut' = CCut
  <2>1. CCut[t] = <<-1, -1>> BY <1>16, CoarseAt
  <2>2. CCut = [u \in Threads |-> CutOf(u)] BY DEF CCut
  <2>3. [CCut EXCEPT ![t] = CCut[t]] = CCut BY <2>2
  <2> QED BY <1>17, <2>1, <2>3
<1>19. CPC[t] = "loop" BY <1>12, CoarseAt
<1> HIDE DEF s
<1> QED BY <1>1, <1>9, <1>10, <1>11, <1>17, <1>18, <1>19 DEF P!Pop, P!Running, Running

(* A worker takes the mutex to push the parts of its segment.               *)
LEMMA PushMaps ==
    ASSUME MutexInv, MutexInv', StackInv, FrameInv,
           NEW t \in Threads, Running, Lock(t), pc[t] = "part"
    PROVE  P!Push(t) /\ UNCHANGED <<whole, input>>
<1> DEFINE f == frame[t]
           both == FirstPush(f) \o SecondPush(f)
<1>1. /\ f.at = "done" /\ mutex = Nobody /\ pc' = [pc EXCEPT ![t] = "first"]
      /\ UNCHANGED <<main, next, stack, sem, frame, whole, input>>
  BY DEF Lock, Goto, array
<1>2. pc \in [Threads -> FinePC] BY DEF MutexInv
<1>3. pc'[t] = "first" /\ \A u \in Threads : u # t => pc'[u] = pc[u] BY <1>1, <1>2
<1>4. \A u \in Threads : ~Pushing(u)
  <2>1. \A u \in Threads : u # Nobody BY FineAssumption DEF Nobody, Threads
  <2> QED BY <1>1, <2>1 DEF MutexInv, Pushing, Critical
<1>5. CStack = PairsOf(stack) /\ CSem = sem /\ Even(stack) BY <1>4, NoPusher
<1>6. Unpushed' = both
  <2>1. Pushing(t)' BY <1>3 DEF Pushing
  <2>2. Unpushed' = Pending(t)' BY <2>1, UnpushedThen
  <2> QED BY <1>1, <1>3, <2>2 DEF Pending
<1>7. CStack' = PairsOf(stack \o both)
  <2>1. (stack \o Unpushed)' = stack \o both BY <1>1, <1>6
  <2> QED BY <2>1 DEF CStack, PairsOf
<1>8. Holding(t) BY DEF Holding
<1>9. f.start \in Index /\ f.end \in Index /\ Places(f)
  BY <1>8 DEF FrameInv, HasSegment
<1>10. CSeg[t] = <<f.start, f.end>> BY <1>8, CoarseAt DEF SegOf
<1>11. CoarsePC(t) = "push" BY <1>1 DEF CoarsePC
<1>12. CCut[t] = <<Signed(f.lo), f.hi>> BY <1>11, CoarseAt DEF CutOf, Signed
<1>13. /\ P!LowPart(t) = <<f.start, Signed(f.lo)>> /\ P!HighPart(t) = <<f.hi, f.end>>
  BY <1>10, <1>12 DEF P!LowPart, P!HighPart
<1>14. /\ CStack' = P!PushParts(CStack, P!LowPart(t), P!HighPart(t))
       /\ Len(both) \div 2 = Len(CStack') - Len(CStack)
  <2> HIDE DEF f
  <2> QED BY <1>1, <1>5, <1>7, <1>9, <1>13, PushedPairs DEF f
<1> HIDE DEF f, both
<1>15. CSem' = CSem + (Len(CStack') - Len(CStack))
  <2>1. CSem' = sem' + (Len(Unpushed') \div 2) BY DEF CSem
  <2> QED BY <1>1, <1>5, <1>6, <1>14, <2>1
<1>16. CoarsePC(t)' = "loop" BY <1>3 DEF CoarsePC
<1>17. Holding(t)' = FALSE
  <2>1. ~Holding(t)' BY <1>3 DEF Holding
  <2> QED BY <2>1, HoldingIs
<1>18. SegOf(t)' = <<-1, -1>> /\ CutOf(t)' = <<-1, -1>> BY <1>16, <1>17 DEF SegOf, CutOf
<1>19. /\ CPC' = [CPC EXCEPT ![t] = "loop"]
       /\ CBusy' = [CBusy EXCEPT ![t] = FALSE]
       /\ CSeg' = [CSeg EXCEPT ![t] = <<-1, -1>>]
       /\ CCut' = [CCut EXCEPT ![t] = <<-1, -1>>]
  <2>1. /\ CPC' = [CPC EXCEPT ![t] = CoarsePC(t)']
        /\ CBusy' = [CBusy EXCEPT ![t] = Holding(t)']
        /\ CSeg' = [CSeg EXCEPT ![t] = SegOf(t)']
        /\ CCut' = [CCut EXCEPT ![t] = CutOf(t)']
    BY <1>1, <1>2, OneMaps
  <2> QED BY <1>16, <1>17, <1>18, <2>1, Zenon
<1>20. CPC[t] = "push" BY <1>11, CoarseAt
<1> QED BY <1>1, <1>14, <1>15, <1>19, <1>20 DEF P!Push, P!NoPair, P!Running, Running
-----------------------------------------------------------------------------
LEMMA OwnInside ==
    ASSUME FrameInv, NEW t \in Threads, HasSegment(t)
    PROVE  /\ Own(t) \subseteq Index /\ Segm(frame[t]) = Own(t)
           /\ frame[t].start \in Nat /\ frame[t].end \in Nat
           /\ frame[t].start < frame[t].end /\ frame[t].end < Size
<1>1. /\ frame[t].start \in Index /\ frame[t].end \in Index
      /\ frame[t].start < frame[t].end
  BY DEF FrameInv, Places
<1>2. Size \in Nat BY FineAssumption
<1> QED BY <1>1, <1>2 DEF Own, Segm, Index

LEMMA Ints == ArrayInv => arr \in [Index -> Int] /\ whole \in [Index -> Int]
<1> SUFFICES ASSUME ArrayInv PROVE arr \in [Index -> Int] /\ whole \in [Index -> Int]
  OBVIOUS
<1> QED BY FineAssumption, ValueAssumption DEF ArrayInv

(* What a round does to the worker and to the array.                        *)
LEMMA RoundDoes ==
    ASSUME FrameInv, ArrayInv, NEW t \in Threads, PartitionRound(t)
    PROVE  /\ pc[t] = "part" /\ frame[t].at # "done" /\ Dividing(t) /\ HasSegment(t)
           /\ \A u \in Threads : u # t => frame'[u] = frame[u]
           /\ frame' = [frame EXCEPT ![t] = frame'[t]]
           /\ RoundKeeps(frame[t], arr, frame'[t], arr')
           /\ whole' = IF frame'[t].at = "done"
                         THEN [i \in Index |-> IF i \in Own(t) THEN arr'[i] ELSE whole[i]]
                         ELSE whole
<1> DEFINE after == PartitionStep(frame[t], arr)
<1>1. /\ pc[t] = "part" /\ frame[t].at # "done"
      /\ frame' = [frame EXCEPT ![t] = after[1]] /\ arr' = after[2]
      /\ whole' = IF after[1].at = "done"
                    THEN [i \in Index |-> IF i \in Own(t) THEN arr'[i] ELSE whole[i]]
                    ELSE whole
  BY DEF PartitionRound
<1>2. Holding(t) /\ Dividing(t) /\ HasSegment(t) BY <1>1 DEF Holding, Dividing, HasSegment
<1>3. /\ Segm(frame[t]) \subseteq Index /\ Places(frame[t]) /\ Divided(frame[t], arr)
  BY <1>2, OwnInside DEF FrameInv
<1>4. arr \in [Index -> Int] BY Ints
<1>5. RoundKeeps(frame[t], arr, after[1], after[2])
  BY <1>1, <1>3, <1>4, PartitionStepKeeps
<1> HIDE DEF after
<1>6. frame'[t] = after[1] /\ \A u \in Threads : u # t => frame'[u] = frame[u]
  BY <1>1 DEF FrameInv
<1> QED BY <1>1, <1>2, <1>5, <1>6

(* The last round: with what the earlier ones did it is the partition that  *)
(* ThreadQSort makes in one step.                                           *)
LEMMA LastRoundMaps ==
    ASSUME MutexInv, MutexInv', FrameInv, ArrayInv,
           NEW t \in Threads, Running, PartitionRound(t), frame'[t].at = "done"
    PROVE  P!SortPartition(t)
<1> DEFINE f == frame[t]
           g == frame'[t]
           s == <<f.start, f.end>>
           c == <<Signed(g.lo), g.hi>>
<1>1. /\ pc[t] = "part" /\ f.at # "done" /\ Dividing(t) /\ HasSegment(t)
      /\ \A u \in Threads : u # t => frame'[u] = frame[u]
      /\ RoundKeeps(f, arr, g, arr')
      /\ whole' = [i \in Index |-> IF i \in Own(t) THEN arr'[i] ELSE whole[i]]
  BY RoundDoes
<1>2. UNCHANGED <<main, next, pc, stack, sem, input>> BY DEF PartitionRound, shared
<1>3. /\ Own(t) \subseteq Index /\ Segm(f) = Own(t)
      /\ f.start \in Nat /\ f.end \in Nat /\ f.start < f.end /\ f.end < Size
  BY <1>1, OwnInside
<1>4. /\ Places(g) /\ Divided(g, arr') /\ g.at = "done"
      /\ g.start = f.start /\ g.end = f.end
      /\ Moved(arr, arr', Own(t), Int)
  BY <1>1, <1>3 DEF RoundKeeps
<1>5. Segm(g) = Own(t) BY <1>3, <1>4 DEF Segm
<1>6. arr \in [Index -> Int] /\ whole \in [Index -> Int] BY Ints
<1>7. arr' \in [Index -> Int] BY <1>4, <1>6 DEF Moved
<1>8. whole' \in [Index -> Int] BY <1>1, <1>6, <1>7
<1>9. \A k \in Segm(g) : whole'[k] = arr'[k] BY <1>1, <1>3, <1>5
<1> HIDE DEF g
<1>10. Divided(g, whole') BY <1>4, <1>9, DividedLocal
<1>11. Partitioned(whole', <<g.start, g.end>>, c)
  BY <1>3, <1>4, <1>5, <1>8, <1>10, DonePartitioned
<1>12. Partitioned(whole', s, c) BY <1>4, <1>11
<1>13. P!Partitioned(whole', s, c)
  <2> HIDE DEF s, c
  <2> QED BY <1>12, Zenon DEF P!Partitioned, Partitioned
<1>14. s \in P!Segment BY <1>3, FineAssumption, ValueAssumption DEF P!Segment, P!Index
<1>15. c \in P!Cut(s)
  <2> DEFINE l == Signed(g.lo)
  <2>1. l \in Int /\ g.start - 1 <= l /\ l + 2 <= g.hi /\ g.hi <= g.end + 1
    BY <1>4, DoneCut
  <2>2. g.hi \in Int /\ Size \in Nat
    <3>1. g \in FrameType BY <1>4 DEF Places
    <3> QED BY <3>1, FrameFields, FineAssumption
  <2> HIDE DEF l
  <2>3. l \in -1 .. Size /\ g.hi \in -1 .. Size /\ f.start - 1 <= l /\ g.hi <= f.end + 1
    BY <1>3, <1>4, <2>1, <2>2
  <2>4. <<l, g.hi>> \in P!Cut(s) BY <2>1, <2>3 DEF P!Cut
  <2> QED BY <2>4 DEF l
<1>16. PICK q \in Shuffles(Own(t)) : \A i \in Own(t) : arr'[i] = whole[q[i]]
  <2>1. Shuffled(whole, arr, Own(t)) BY <1>1 DEF ArrayInv
  <2>2. Shuffled(arr, arr', Own(t)) BY <1>4 DEF Moved
  <2>3. Shuffled(whole, arr', Own(t)) BY <2>1, <2>2, ShuffledTwice
  <2> QED BY <2>3 DEF Shuffled
<1>17. q \in P!Orders[s]
  <2>1. s[1] .. s[2] = Own(t) BY DEF Own
  <2>2. q \in P!Shuffles(s[1] .. s[2]) BY <1>16, <2>1 DEF P!Shuffles, Shuffles
  <2> HIDE DEF s
  <2> QED BY <1>14, <2>2 DEF P!Orders
<1>18. whole' = P!Rearranged(whole, s, q)
  <2>1. \A i \in Index : P!InSegment(i, s) <=> i \in Own(t)
    BY <1>3, FineAssumption DEF P!InSegment, Own, Index
  <2>2. P!Rearranged(whole, s, q)
          = [i \in Index |-> IF P!InSegment(i, s) THEN whole[q[i]] ELSE whole[i]]
    BY <1>6 DEF P!Rearranged
  <2> HIDE DEF s
  <2> QED BY <1>1, <1>16, <2>1, <2>2
<1>19. CoarsePC(t) = "part" BY <1>1 DEF CoarsePC
<1>20. CoarsePC(t)' = "push" BY <1>1, <1>2, <1>4 DEF CoarsePC, g
<1>21. Holding(t)' = TRUE /\ Holding(t) = TRUE
  <2>1. Holding(t) /\ Holding(t)' BY <1>1, <1>2 DEF Holding
  <2> QED BY <2>1, HoldingIs
<1>22. SegOf(t)' = s /\ SegOf(t) = s BY <1>4, <1>21 DEF SegOf, g
<1>23. CutOf(t)' = c BY <1>20 DEF CutOf, Signed, g
<1>24. pc \in [Threads -> FinePC] /\ pc' = [pc EXCEPT ![t] = "part"]
  BY <1>1, <1>2 DEF MutexInv
<1>25. /\ CPC' = [CPC EXCEPT ![t] = CoarsePC(t)']
       /\ CBusy' = [CBusy EXCEPT ![t] = Holding(t)']
       /\ CSeg' = [CSeg EXCEPT ![t] = SegOf(t)']
       /\ CCut' = [CCut EXCEPT ![t] = CutOf(t)']
  BY <1>1, <1>24, OneMaps
<1>26. CPC[t] = "part" /\ CSeg[t] = s /\ CBusy[t] = TRUE
  BY <1>19, <1>21, <1>22, CoarseAt, Zenon
<1>27. CPC' = [CPC EXCEPT ![t] = "push"] BY <1>20, <1>25
<1>28. CBusy' = CBusy
  <2>1. CBusy = [u \in Threads |-> Holding(u)] BY DEF CBusy
  <2>2. CBusy = [u \in Threads |-> CBusy[u]] BY <2>1, Zenon
  <2>3. [CBusy EXCEPT ![t] = CBusy[t]] = CBusy BY <2>2
  <2> QED BY <1>21, <1>25, <1>26, <2>3, Zenon
<1>29. CSeg' = CSeg
  <2>1. CSeg = [u \in Threads |-> SegOf(u)] BY DEF CSeg
  <2>2. [CSeg EXCEPT ![t] = CSeg[t]] = CSeg BY <2>1
  <2> HIDE DEF s
  <2> QED BY <1>22, <1>25, <1>26, <2>2
<1>30. CCut' = [CCut EXCEPT ![t] = c]
  <2> HIDE DEF c
  <2> QED BY <1>23, <1>25
<1>31. CStack' = CStack /\ CSem' = CSem
  <2>1. ~Pushing(t) /\ ~Pushing(t)' BY <1>1, <1>2 DEF Pushing
  <2>2. ASSUME NEW u \in Threads
        PROVE  (Pushing(u)' <=> Pushing(u)) /\ (Pushing(u) => Pending(u)' = Pending(u))
    <3>1. CASE u = t BY <2>1, <3>1
    <3>2. CASE u # t BY <1>1, <1>2, <3>2, OthersKeep
    <3> QED BY <3>1, <3>2
  <2>3. Unpushed' = Unpushed BY <2>2, UnpushedKept
  <2> QED BY <1>2, <2>3 DEF CStack, CSem
<1> HIDE DEF f, s, c
<1>32. P!PartitionInto(t, c)
  BY <1>2, <1>26, <1>27, <1>28, <1>29, <1>30, <1>31 DEF P!PartitionInto, P!Running, Running
<1> QED BY <1>2, <1>13, <1>15, <1>17, <1>18, <1>26, <1>32 DEF P!SortPartition
-----------------------------------------------------------------------------
(* Every step of the code is a step of ThreadQSort or none at all.          *)
LEMMA WorkerMaps ==
    ASSUME FInv, MutexInv', NEW t \in Threads, WorkerStep(t)
    PROVE  \/ P!ControlStep(t) /\ UNCHANGED <<whole, input>>
           \/ P!SortPartition(t)
           \/ UNCHANGED P!sortVars
<1>1. MutexInv /\ BusyInv /\ StackInv /\ FrameInv /\ ArrayInv /\ Running
  BY DEF FInv, WorkerStep
<1>2. CASE Lock(t)
  <2>1. CASE pc[t] = "loop" BY <1>1, <1>2, <2>1, LockToLook
  <2>2. CASE pc[t] = "part"
    <3>1. P!Push(t) /\ UNCHANGED <<whole, input>> BY <1>1, <1>2, <2>2, PushMaps
    <3> QED BY <3>1 DEF P!ControlStep
  <2> QED BY <1>2, <2>1, <2>2 DEF Lock
<1>3. CASE Unlock(t) BY <1>1, <1>3, UnlockHidden
<1>4. CASE LookEmpty(t)
  <2>1. (P!GoToSleep(t) \/ P!ExitThread(t)) /\ UNCHANGED <<whole, input>>
    BY <1>1, <1>4, LookMaps
  <2> QED BY <2>1 DEF P!ControlStep
<1>5. CASE PopSegment(t)
  <2>1. P!Pop(t) /\ UNCHANGED <<whole, input>> BY <1>1, <1>5, PopMaps
  <2> QED BY <2>1 DEF P!ControlStep
<1>6. CASE SetBusy(t) BY <1>1, <1>6, SetBusyHidden
<1>7. CASE SemWait(t)
  <2>1. P!WakeUp(t) /\ UNCHANGED <<whole, input>> BY <1>1, <1>7, WaitMaps
  <2> QED BY <2>1 DEF P!ControlStep
<1>8. CASE PartitionRound(t)
  <2>1. RoundKeeps(frame[t], arr, frame'[t], arr') BY <1>1, <1>8, RoundDoes
  <2>2. frame'[t].start = frame[t].start /\ frame'[t].end = frame[t].end
    BY <2>1 DEF RoundKeeps
  <2>3. CASE frame'[t].at = "done" BY <1>1, <1>8, <2>3, LastRoundMaps
  <2>4. CASE frame'[t].at # "done" BY <1>1, <1>8, <2>2, <2>4, RoundHidden
  <2> QED BY <2>3, <2>4
<1>9. CASE PushFirst(t) BY <1>1, <1>9, PushFirstHidden
<1>10. CASE PushSecond(t) BY <1>1, <1>10, PushSecondHidden
<1>11. CASE ClearBusy(t) BY <1>1, <1>11, ClearBusyHidden
<1> QED
  BY <1>2, <1>3, <1>4, <1>5, <1>6, <1>7, <1>8, <1>9, <1>10, <1>11 DEF WorkerStep

LEMMA NextMaps ==
    ASSUME FInv, P!IInv, [Next]_vars
    PROVE  [P!SortNext]_P!sortVars
<1>1. MutexInv /\ BusyInv BY DEF FInv
<1>2. MutexInv' BY <1>1, ControlNext
<1>3. CASE CreateThread
  <2>1. P!CreateThread /\ UNCHANGED <<whole, input>> BY <1>1, <1>2, <1>3, CreateMaps
  <2> QED BY <2>1 DEF P!SortNext, P!MainStep
<1>4. CASE JoinThread
  <2>1. P!JoinThread /\ UNCHANGED <<whole, input>> BY <1>4, JoinMaps
  <2> QED BY <2>1 DEF P!SortNext, P!MainStep
<1>5. CASE CreateFails
  <2>1. P!CreateFails /\ UNCHANGED <<whole, input>> BY <1>5, FailMaps
  <2> QED BY <2>1 DEF P!SortNext
<1>6. ASSUME NEW t \in Threads, WorkerStep(t) PROVE [P!SortNext]_P!sortVars
  <2>1. t \in P!Threads BY DEF P!Threads, Threads
  <2> QED BY <1>2, <1>6, <2>1, WorkerMaps DEF P!SortNext
<1>7. CASE UNCHANGED vars
  <2>1. UNCHANGED <<main, next, pc, stack, sem, frame, input, whole>> BY <1>7 DEF vars
  <2>2. UNCHANGED <<CPC, CStack, CSem, CBusy, CSeg, CCut>> BY <2>1, FineStill
  <2> QED BY <2>1, <2>2 DEF P!sortVars
<1> QED BY <1>3, <1>4, <1>5, <1>6, <1>7 DEF Next, MainStep

(* So what ThreadQSort keeps invariant, the code does.                      *)
LEMMA CoarseInvNext ==
    ASSUME FInv, P!IInv, [Next]_vars
    PROVE  P!IInv'
<1>1. [P!SortNext]_P!sortVars BY NextMaps
<1>2. [P!Next]_P!ctl BY <1>1, P!SortStep, FineAssumption, ValueAssumption
<1> QED BY <1>2, P!StepKeepsInv, FineAssumption, ValueAssumption

(* No two workers have an element in common.                                *)
LEMMA OwnDisjoint ==
    ASSUME P!IInv, FrameInv, NEW t \in Threads, NEW u \in Threads, t # u,
           Holding(t), Holding(u)
    PROVE  Own(t) \cap Own(u) = {}
<1>1. t \in P!Threads /\ u \in P!Threads BY DEF P!Threads, Threads
<1>2. CoarsePC(t) \in {"part", "push"} /\ CoarsePC(u) \in {"part", "push"}
  <2>1. ASSUME NEW w \in Threads, Holding(w) PROVE CoarsePC(w) \in {"part", "push"}
    BY <2>1 DEF Holding, CoarsePC
  <2> QED BY <2>1
<1>3. P!Holds(t) /\ P!Holds(u) BY <1>2, CoarseAt DEF P!Holds
<1>4. P!Disjoint(CSeg[t], CSeg[u])
  BY <1>1, <1>3, P!ApartDisjoint, FineAssumption, ValueAssumption DEF P!SegmentsDisjoint
<1>5. /\ CSeg[t] = <<frame[t].start, frame[t].end>>
      /\ CSeg[u] = <<frame[u].start, frame[u].end>>
  BY CoarseAt DEF SegOf
<1>6. frame[t].end < frame[u].start \/ frame[u].end < frame[t].start
  BY <1>4, <1>5 DEF P!Disjoint
<1>7. /\ frame[t].start \in Nat /\ frame[t].end \in Nat
      /\ frame[u].start \in Nat /\ frame[u].end \in Nat
  BY OwnInside DEF HasSegment
<1> QED BY <1>6, <1>7 DEF Own
-----------------------------------------------------------------------------
(***************************************************************************)
(* The inductive invariant.                                                 *)
(***************************************************************************)
LEMMA StackGrows ==
    ASSUME StackInv, FrameInv, NEW t \in Threads, NEW p,
           p \in Seq(Index), IsPart(p), stack' = stack \o p,
           sem' = IF p = <<>> THEN sem ELSE sem + 1
    PROVE  StackInv'
<1>1. Even(stack) /\ sem \in Nat BY StackInts
<1>2. Even(stack') BY <1>1, PartIs
<1>3. stack' \in Seq(Index) BY ConcatProperties DEF StackInv
<1>4. sem' \in Nat BY <1>1
<1> QED BY <1>2, <1>3, <1>4 DEF StackInv, Even, Index

LEMMA StackNext ==
    ASSUME FInv, [Next]_vars
    PROVE  StackInv'
<1>1. MutexInv /\ BusyInv /\ StackInv /\ FrameInv /\ ArrayInv BY DEF FInv
<1>2. CASE UNCHANGED <<stack, sem>> BY <1>1, <1>2 DEF StackInv, Index
<1>3. ASSUME NEW t \in Threads, WorkerStep(t) PROVE StackInv'
  <2>1. CASE PopSegment(t)
    <3>1. stack # <<>> /\ stack' = SubSeq(stack, 1, Len(stack) - 2) /\ sem' = sem
      BY <2>1 DEF PopSegment
    <3>2. Even(stack) /\ sem \in Nat BY <1>1, StackInts
    <3>3. Even(stack') /\ Len(stack) \in Nat /\ Len(stack) >= 2 BY <3>1, <3>2, PairsPop
    <3>4. stack' \in Seq(Index)
      <4>1. \A i \in 1 .. Len(stack) - 2 : stack[i] \in Index
        <5>1. \A i \in 1 .. Len(stack) - 2 : i \in 1 .. Len(stack) BY <3>3
        <5> QED BY <1>1, <5>1, ElementOfSeq DEF StackInv
      <4> QED BY <1>1, <3>1, <3>3, <4>1, SubSeqProperties DEF StackInv
    <3> QED BY <3>1, <3>2, <3>3, <3>4 DEF StackInv, Even, Index
  <2>2. CASE SemWait(t)
    <3>1. stack' = stack /\ sem > 0 /\ sem' = sem - 1 BY <2>2 DEF SemWait
    <3>2. sem' \in Nat BY <1>1, <3>1 DEF StackInv
    <3> QED BY <1>1, <3>1, <3>2 DEF StackInv, Index
  <2>3. CASE PushFirst(t)
    <3> DEFINE p == FirstPush(frame[t])
    <3>1. /\ pc[t] = "first" /\ stack' = stack \o p
          /\ sem' = IF p = <<>> THEN sem ELSE sem + 1
      BY <2>3 DEF PushFirst, PushOne
    <3>2. p \in Seq(Index) /\ IsPart(p)
      <4>1. Pushing(t) BY <3>1 DEF Pushing
      <4> QED BY <1>1, <4>1, PartsIn
    <3> HIDE DEF p
    <3> QED BY <1>1, <3>1, <3>2, StackGrows
  <2>4. CASE PushSecond(t)
    <3> DEFINE p == SecondPush(frame[t])
    <3>1. /\ pc[t] = "second" /\ stack' = stack \o p
          /\ sem' = IF p = <<>> THEN sem ELSE sem + 1
      BY <2>4 DEF PushSecond, PushOne
    <3>2. p \in Seq(Index) /\ IsPart(p)
      <4>1. Pushing(t) BY <3>1 DEF Pushing
      <4> QED BY <1>1, <4>1, PartsIn
    <3> HIDE DEF p
    <3> QED BY <1>1, <3>1, <3>2, StackGrows
  <2>5. CASE Lock(t) \/ Unlock(t) \/ SetBusy(t) \/ ClearBusy(t)
    BY <1>2, <2>5 DEF Lock, Unlock, SetBusy, ClearBusy
  <2>6. CASE LookEmpty(t) \/ PartitionRound(t)
    BY <1>2, <2>6 DEF LookEmpty, PartitionRound, shared
  <2> QED BY <1>3, <2>1, <2>2, <2>3, <2>4, <2>5, <2>6 DEF WorkerStep
<1>4. CASE CreateThread \/ JoinThread \/ CreateFails
  BY <1>2, <1>4 DEF CreateThread, JoinThread, CreateFails, shared
<1>5. CASE UNCHANGED vars BY <1>2, <1>5 DEF vars
<1> QED BY <1>3, <1>4, <1>5 DEF Next, MainStep

LEMMA ShuffledLocal ==
    ASSUME NEW a, NEW b, NEW c, NEW d, NEW S, Shuffled(a, b, S),
           \A i \in S : c[i] = a[i] /\ d[i] = b[i]
    PROVE  Shuffled(c, d, S)
<1>1. PICK q \in Shuffles(S) : \A i \in S : b[i] = a[q[i]] BY DEF Shuffled
<1>2. \A i \in S : q[i] \in S BY DEF Shuffles
<1>3. \A i \in S : d[i] = c[q[i]] BY <1>1, <1>2
<1> QED BY <1>3 DEF Shuffled

LEMMA OwnApart ==
    P!IInv /\ FrameInv =>
       \A t, u \in Threads : t # u /\ Holding(t) /\ Holding(u) => Own(t) \cap Own(u) = {}
BY OwnDisjoint

(* A step that moves one worker and leaves its frame and the array.         *)
LEMMA FrameStays ==
    ASSUME MutexInv, FrameInv, ArrayInv,
           NEW t \in Threads, NEW x, pc' = [pc EXCEPT ![t] = x],
           UNCHANGED <<frame, arr, whole>>,
           x \in {"pop", "to part", "part"} => Holding(t),
           x \in {"pop", "to part"} => frame[t].at = "pivot",
           x \in {"first", "second", "idle"} => /\ HasSegment(t)
                                                /\ frame[t].at = "done",
           Dividing(t)' <=> Dividing(t)
    PROVE  FrameInv' /\ ArrayInv'
<1>1. pc \in [Threads -> FinePC] BY DEF MutexInv
<1>2. pc'[t] = x /\ \A u \in Threads : u # t => pc'[u] = pc[u] BY <1>1
<1>3. ASSUME NEW u \in Threads
      PROVE  /\ HasSegment(u)' => /\ frame[u].start \in Index /\ frame[u].end \in Index
                                  /\ Places(frame[u])
             /\ Holding(u)' => Divided(frame[u], arr)
             /\ pc'[u] \in {"pop", "to part"} => frame[u].at = "pivot"
             /\ Pushing(u)' => frame[u].at = "done"
             /\ Dividing(u)' <=> Dividing(u)
  <2>1. CASE u = t
    <3>1. /\ Holding(t)' => Holding(t)
          /\ HasSegment(t)' => HasSegment(t)
      BY <1>2 DEF HasSegment, Holding, Pushing
    <3> QED BY <1>2, <2>1, <3>1 DEF FrameInv, Pushing
  <2>2. CASE u # t
    <3>1. pc'[u] = pc[u] /\ frame'[u] = frame[u] BY <1>2, <2>2
    <3> QED BY <3>1 DEF FrameInv, HasSegment, Holding, Pushing, Dividing
  <2> QED BY <2>1, <2>2
<1>4. FrameInv'
  <2>1. frame' = frame /\ arr' = arr /\ Threads' = Threads /\ Index' = Index
    BY DEF Threads, Index
  <2> QED BY <1>3, <2>1 DEF FrameInv
<1>5. ArrayInv'
  <2>1. /\ arr' = arr /\ whole' = whole /\ Threads' = Threads /\ Index' = Index
        /\ \A u \in Threads : Own(u)' = Own(u) /\ (Dividing(u)' <=> Dividing(u))
    BY <1>3 DEF Threads, Index, Own
  <2>2. \A u \in Threads : Dividing(u)' => Shuffled(whole', arr', Own(u)')
    BY <2>1 DEF ArrayInv
  <2>3. \A i \in Index :
          (\A u \in Threads : Dividing(u)' => i \notin Own(u)') => arr'[i] = whole'[i]
    <3>1. ASSUME NEW i \in Index, \A u \in Threads : Dividing(u)' => i \notin Own(u)'
          PROVE  arr'[i] = whole'[i]
      <4>1. \A u \in Threads : Dividing(u) => i \notin Own(u) BY <2>1, <3>1
      <4>2. arr[i] = whole[i] BY <4>1, Zenon DEF ArrayInv
      <4> QED BY <2>1, <4>2
    <3> QED BY <3>1
  <2> QED BY <2>1, <2>2, <2>3, Zenon DEF ArrayInv, Shuffled
<1> QED BY <1>4, <1>5
-----------------------------------------------------------------------------
LEMMA OwnApartThen ==
    P!IInv' /\ FrameInv' =>
       \A t, u \in Threads :
          t # u /\ Holding(t)' /\ Holding(u)' => Own(t)' \cap Own(u)' = {}
<1>1. (P!IInv /\ FrameInv =>
        \A t, u \in Threads : t # u /\ Holding(t) /\ Holding(u) => Own(t) \cap Own(u) = {})'
  BY OwnApart, PTL
<1>2. Threads' = Threads BY DEF Threads
<1> QED BY <1>1, <1>2, Zenon

(* A worker takes a segment: no partition has one of its elements.          *)
LEMMA PopKeeps ==
    ASSUME FInv, P!IInv, P!IInv', NEW t \in Threads, PopSegment(t)
    PROVE  FrameInv' /\ ArrayInv'
<1> DEFINE lo == stack[Len(stack) - 1]
           hi == stack[Len(stack)]
           g == Frame(lo, hi)
<1>1. MutexInv /\ BusyInv /\ StackInv /\ FrameInv /\ ArrayInv BY DEF FInv
<1>2. /\ pc[t] = "look" /\ stack # <<>> /\ pc' = [pc EXCEPT ![t] = "pop"]
      /\ frame' = [frame EXCEPT ![t] = g]
      /\ UNCHANGED <<mutex, arr, whole>>
  BY DEF PopSegment, Goto, array
<1>3. pc \in [Threads -> FinePC] /\ frame \in [Threads -> FrameType]
  BY <1>1 DEF MutexInv, FrameInv
<1>4. pc'[t] = "pop" /\ \A u \in Threads : u # t => pc'[u] = pc[u] BY <1>2, <1>3
<1>5. frame'[t] = g /\ \A u \in Threads : u # t => frame'[u] = frame[u] BY <1>2, <1>3
<1>6. lo \in Index /\ hi \in Index /\ lo < hi
  <2>1. mutex = t BY <1>1, <1>2 DEF MutexInv, Critical
  <2>2. \A u \in Threads : ~Pushing(u)
    BY <1>1, <1>2, <2>1 DEF MutexInv, Critical, Pushing
  <2>3. CStack = PairsOf(stack) /\ Even(stack) BY <1>1, <2>2, NoPusher
  <2>4. CStack # <<>> /\ CStack[Len(CStack)] = <<lo, hi>> BY <1>2, <2>3, PairsPop
  <2>5. CStack \in Seq(P!Segment) BY DEF P!IInv, P!TypeOK
  <2>6. CStack[Len(CStack)] \in P!Segment
    <3>1. Len(CStack) \in 1 .. Len(CStack) BY <2>4, <2>5, EmptySeq, LenProperties
    <3> QED BY <2>5, <3>1, ElementOfSeq
  <2>7. <<lo, hi>> \in P!Segment BY <2>4, <2>6
  <2> HIDE DEF lo, hi
  <2> QED BY <2>7 DEF P!Segment, P!Index, Index
<1> HIDE DEF lo, hi
<1>7. Places(g) /\ g.at = "pivot" /\ g.start = lo /\ g.end = hi /\ Divided(g, arr)
  <2>1. lo \in Nat /\ hi \in Nat /\ lo < hi /\ hi < SizeMax
    BY <1>6, FineAssumption, SizeMaxIs DEF Index
  <2> QED BY <2>1, FramePlaces
<1> HIDE DEF g
<1>8. FrameInv'
  <2>1. frame' \in [Threads -> FrameType] BY <1>2, <1>3, <1>7 DEF Places
  <2>2. ASSUME NEW u \in Threads
        PROVE  /\ HasSegment(u)' => /\ frame'[u].start \in Index /\ frame'[u].end \in Index
                                    /\ Places(frame'[u])
               /\ Holding(u)' => Divided(frame'[u], arr')
               /\ pc'[u] \in {"pop", "to part"} => frame'[u].at = "pivot"
               /\ Pushing(u)' => frame'[u].at = "done"
    <3>1. CASE u = t BY <1>2, <1>4, <1>5, <1>6, <1>7, <3>1 DEF Pushing
    <3>2. CASE u # t
      <4>1. pc'[u] = pc[u] /\ frame'[u] = frame[u] /\ arr' = arr BY <1>2, <1>4, <1>5, <3>2
      <4> QED BY <1>1, <4>1 DEF FrameInv, HasSegment, Holding, Pushing
    <3> QED BY <3>1, <3>2
  <2>3. Threads' = Threads /\ Index' = Index BY DEF Threads, Index
  <2> QED BY <2>1, <2>2, <2>3 DEF FrameInv
<1>9. ~Dividing(t) BY <1>2 DEF Dividing, Holding
<1>10. \A u \in Threads : u # t => (Dividing(u)' <=> Dividing(u)) /\ Own(u)' = Own(u)
  BY <1>4, <1>5 DEF Dividing, Holding, Own
<1>11. ASSUME NEW i \in Own(t)' PROVE arr[i] = whole[i]
  <2>1. \A u \in Threads : u # t /\ Holding(t)' /\ Holding(u)' => Own(t)' \cap Own(u)' = {}
    BY <1>8, OwnApartThen, Zenon
  <2>3. Holding(t)' BY <1>4 DEF Holding
  <2>4. ASSUME NEW u \in Threads, Dividing(u) PROVE i \notin Own(u)
    <3>1. u # t BY <1>9, <2>4
    <3>2. Holding(u)' BY <1>4, <2>4, <3>1 DEF Dividing, Holding
    <3> QED BY <1>10, <1>11, <2>1, <2>3, <3>1, <3>2
  <2>5. i \in Index
    <3>1. i \in lo .. hi BY <1>5, <1>7, <1>11 DEF Own
    <3> QED BY <1>6, <3>1, FineAssumption DEF Index
  <2> QED BY <1>1, <2>4, <2>5, Zenon DEF ArrayInv
<1>12. ArrayInv'
  <2>1. arr' = arr /\ whole' = whole /\ Threads' = Threads /\ Index' = Index
    BY <1>2 DEF Threads, Index
  <2>2. ASSUME NEW u \in Threads, Dividing(u)' PROVE Shuffled(whole', arr', Own(u)')
    <3>1. CASE u = t
      <4>1. Shuffled(whole, whole, Own(t)') BY ShuffledSame
      <4>2. Shuffled(whole, arr, Own(t)') BY <1>11, <4>1, ShuffledLocal
      <4> QED BY <2>1, <3>1, <4>2
    <3>2. CASE u # t
      <4>1. Shuffled(whole, arr, Own(u)) BY <1>1, <1>10, <2>2, <3>2 DEF ArrayInv
      <4> QED BY <1>10, <2>1, <3>2, <4>1
    <3> QED BY <3>1, <3>2
  <2>3. ASSUME NEW i \in Index, \A u \in Threads : Dividing(u)' => i \notin Own(u)'
        PROVE  arr'[i] = whole'[i]
    <3>1. \A u \in Threads : Dividing(u) => i \notin Own(u) BY <1>9, <1>10, <2>3
    <3>2. arr[i] = whole[i] BY <1>1, <3>1, Zenon DEF ArrayInv
    <3> QED BY <2>1, <3>2
  <2>4. arr' \in [Index -> Value] /\ whole' \in [Index -> Value]
    BY <1>1, <2>1 DEF ArrayInv
  <2> QED BY <2>1, <2>2, <2>3, <2>4, Zenon DEF ArrayInv
<1> QED BY <1>8, <1>12

LEMMA ClearKeeps ==
    ASSUME FInv, NEW t \in Threads, ClearBusy(t)
    PROVE  FrameInv' /\ ArrayInv'
<1>1. MutexInv /\ FrameInv /\ ArrayInv BY DEF FInv
<1>2. /\ pc[t] = "idle" /\ pc' = [pc EXCEPT ![t] = "to loop"]
      /\ frame' = [frame EXCEPT ![t] = NoFrame]
      /\ UNCHANGED <<arr, whole>>
  BY DEF ClearBusy, Goto, array
<1>3. pc \in [Threads -> FinePC] /\ frame \in [Threads -> FrameType]
  BY <1>1 DEF MutexInv, FrameInv
<1>4. pc'[t] = "to loop" /\ \A u \in Threads : u # t => pc'[u] = pc[u] BY <1>2, <1>3
<1>5. \A u \in Threads : u # t => frame'[u] = frame[u] BY <1>2, <1>3
<1>6. NoFrame \in FrameType BY SizeMaxIs DEF NoFrame, Frame, FrameType, Phase
<1>7. ~HasSegment(t)' /\ ~Holding(t)' /\ ~Holding(t) /\ ~Pushing(t)'
  BY <1>2, <1>4 DEF HasSegment, Holding, Pushing
<1>8. ASSUME NEW u \in Threads
      PROVE  /\ HasSegment(u)' => /\ frame'[u].start \in Index /\ frame'[u].end \in Index
                                  /\ Places(frame'[u])
             /\ Holding(u)' => Divided(frame'[u], arr')
             /\ pc'[u] \in {"pop", "to part"} => frame'[u].at = "pivot"
             /\ Pushing(u)' => frame'[u].at = "done"
             /\ Dividing(u)' <=> Dividing(u)
             /\ Dividing(u) => Own(u)' = Own(u)
  <2>1. CASE u = t BY <1>4, <1>7, <2>1 DEF Dividing
  <2>2. CASE u # t
    <3>1. pc'[u] = pc[u] /\ frame'[u] = frame[u] /\ arr' = arr BY <1>2, <1>4, <1>5, <2>2
    <3> QED BY <1>1, <3>1 DEF FrameInv, HasSegment, Holding, Pushing, Dividing, Own
  <2> QED BY <2>1, <2>2
<1>9. arr' = arr /\ whole' = whole /\ Threads' = Threads /\ Index' = Index
  BY <1>2 DEF Threads, Index
<1>10. FrameInv'
  <2>1. frame' \in [Threads -> FrameType] BY <1>2, <1>3, <1>6
  <2> QED BY <1>8, <1>9, <2>1 DEF FrameInv
<1>11. ArrayInv'
  <2>1. ASSUME NEW u \in Threads, Dividing(u)' PROVE Shuffled(whole', arr', Own(u)')
    <3>1. Shuffled(whole, arr, Own(u)) BY <1>1, <1>8, <2>1 DEF ArrayInv
    <3> QED BY <1>8, <1>9, <2>1, <3>1
  <2>2. ASSUME NEW i \in Index, \A u \in Threads : Dividing(u)' => i \notin Own(u)'
        PROVE  arr'[i] = whole'[i]
    <3>1. \A u \in Threads : Dividing(u) => i \notin Own(u) BY <1>8, <2>2
    <3>2. arr[i] = whole[i] BY <1>1, <3>1, Zenon DEF ArrayInv
    <3> QED BY <1>9, <3>2
  <2>3. arr' \in [Index -> Value] /\ whole' \in [Index -> Value]
    BY <1>1, <1>9 DEF ArrayInv
  <2> QED BY <1>9, <2>1, <2>2, <2>3, Zenon DEF ArrayInv
<1> QED BY <1>10, <1>11

(* A round of a partition: the other workers' segments are left alone.      *)
LEMMA RoundKeepsInv ==
    ASSUME FInv, P!IInv, NEW t \in Threads, PartitionRound(t)
    PROVE  FrameInv' /\ ArrayInv'
<1> DEFINE f == frame[t]
           g == frame'[t]
<1>1. MutexInv /\ FrameInv /\ ArrayInv BY DEF FInv
<1>2. /\ pc[t] = "part" /\ f.at # "done" /\ Dividing(t) /\ HasSegment(t)
      /\ \A u \in Threads : u # t => frame'[u] = frame[u]
      /\ frame' = [frame EXCEPT ![t] = g]
      /\ RoundKeeps(f, arr, g, arr')
      /\ whole' = IF g.at = "done"
                    THEN [i \in Index |-> IF i \in Own(t) THEN arr'[i] ELSE whole[i]]
                    ELSE whole
  BY <1>1, RoundDoes
<1>3. pc' = pc BY DEF PartitionRound
<1>4. /\ Own(t) \subseteq Index /\ Segm(f) = Own(t)
      /\ f.start \in Index /\ f.end \in Index
  BY <1>1, <1>2, OwnInside DEF FrameInv
<1>5. /\ Places(g) /\ Divided(g, arr') /\ g.start = f.start /\ g.end = f.end
      /\ Moved(arr, arr', Own(t), Int)
  BY <1>2, <1>4 DEF RoundKeeps
<1>6. /\ Own(t)' = Own(t)
      /\ Holding(t)' /\ Holding(t)
      /\ \A u \in Threads : u # t => /\ Own(u)' = Own(u)
                                     /\ Holding(u)' <=> Holding(u)
                                     /\ Dividing(u)' <=> Dividing(u)
  BY <1>2, <1>3, <1>5 DEF Own, Holding, Dividing
<1> HIDE DEF f, g
<1>7. arr \in [Index -> Value] /\ whole \in [Index -> Value] BY <1>1 DEF ArrayInv
<1>8. /\ Shuffled(arr, arr', Own(t))
      /\ \A i \in Index : i \notin Own(t) => arr'[i] = arr[i]
  BY <1>5, <1>7 DEF Moved
<1>9. arr' \in [Index -> Value]
  <2>1. PICK q \in Shuffles(Own(t)) : \A i \in Own(t) : arr'[i] = arr[q[i]]
    BY <1>8 DEF Shuffled
  <2>2. \A i \in Own(t) : q[i] \in Own(t) BY DEF Shuffles
  <2>3. \A i \in Index : arr'[i] \in Value BY <1>4, <1>7, <1>8, <2>1, <2>2
  <2>4. arr' \in [Index -> Int] BY <1>5, <1>7 DEF Moved
  <2> QED BY <2>3, <2>4
<1>10. whole' \in [Index -> Value] BY <1>2, <1>4, <1>7, <1>9
<1>11. ASSUME NEW u \in Threads, u # t, Holding(u)
       PROVE  /\ Own(u) \cap Own(t) = {}
              /\ \A i \in Own(u) : i \in Index /\ arr'[i] = arr[i] /\ whole'[i] = whole[i]
  <2>1. Own(u) \cap Own(t) = {} BY <1>1, <1>6, <1>11, OwnDisjoint
  <2>2. Own(u) \subseteq Index BY <1>1, <1>11, OwnInside DEF HasSegment
  <2>3. ASSUME NEW i \in Own(u) PROVE i \in Index /\ arr'[i] = arr[i] /\ whole'[i] = whole[i]
    <3>1. i \in Index /\ i \notin Own(t) BY <2>1, <2>2
    <3> QED BY <1>2, <1>8, <3>1
  <2> QED BY <2>1, <2>3
<1>12. FrameInv'
  <2>1. ASSUME NEW u \in Threads
        PROVE  /\ HasSegment(u)' => /\ frame'[u].start \in Index /\ frame'[u].end \in Index
                                    /\ Places(frame'[u])
               /\ Holding(u)' => Divided(frame'[u], arr')
               /\ pc'[u] \in {"pop", "to part"} => frame'[u].at = "pivot"
               /\ Pushing(u)' => frame'[u].at = "done"
    <3>1. CASE u = t BY <1>2, <1>3, <1>4, <1>5, <3>1 DEF Pushing, g
    <3>2. CASE u # t
      <4>1. frame'[u] = frame[u] BY <1>2, <3>2
      <4>2. Holding(u) => Divided(frame[u], arr')
        <5>1. SUFFICES ASSUME Holding(u) PROVE Divided(frame[u], arr') OBVIOUS
        <5>2. Divided(frame[u], arr) /\ Places(frame[u]) BY <1>1, <5>1 DEF FrameInv,
               HasSegment
        <5>3. Segm(frame[u]) = Own(u) BY DEF Segm, Own
        <5> QED BY <1>11, <3>2, <5>1, <5>2, <5>3, DividedLocal
      <4>3. /\ HasSegment(u)' <=> HasSegment(u)
            /\ Holding(u)' <=> Holding(u)
            /\ Pushing(u)' <=> Pushing(u)
        BY <1>3 DEF HasSegment, Holding, Pushing
      <4> QED BY <1>1, <1>3, <4>1, <4>2, <4>3 DEF FrameInv
    <3> QED BY <3>1, <3>2
  <2>2. frame' \in [Threads -> FrameType] BY <1>1, <1>2, <1>5 DEF FrameInv, Places
  <2>3. Threads' = Threads /\ Index' = Index BY DEF Threads, Index
  <2> QED BY <2>1, <2>2, <2>3 DEF FrameInv
<1>13. ASSUME NEW u \in Threads, Dividing(u)' PROVE Shuffled(whole', arr', Own(u)')
  <2>1. CASE u = t
    <3>1. whole' = whole BY <1>2, <1>13, <2>1 DEF Dividing, g
    <3>2. Shuffled(whole, arr, Own(t)) BY <1>1, <1>2 DEF ArrayInv
    <3>3. Shuffled(whole, arr', Own(t)) BY <1>8, <3>2, ShuffledTwice
    <3> QED BY <1>6, <2>1, <3>1, <3>3
  <2>2. CASE u # t
    <3>1. Dividing(u) /\ Holding(u) BY <1>6, <1>13, <2>2 DEF Dividing
    <3>2. Shuffled(whole, arr, Own(u)) BY <1>1, <3>1 DEF ArrayInv
    <3>3. Shuffled(whole', arr', Own(u)) BY <1>11, <2>2, <3>1, <3>2, ShuffledLocal
    <3> QED BY <1>6, <2>2, <3>3
  <2> QED BY <2>1, <2>2
<1>14. ASSUME NEW i \in Index, \A u \in Threads : Dividing(u)' => i \notin Own(u)'
       PROVE  arr'[i] = whole'[i]
  <2>1. CASE i \in Own(t)
    <3>1. ~Dividing(t)' BY <1>6, <1>14, <2>1
    <3>2. g.at = "done" BY <1>6, <3>1 DEF Dividing, g
    <3> QED BY <1>2, <2>1, <3>2
  <2>2. CASE i \notin Own(t)
    <3>1. \A u \in Threads : Dividing(u) => i \notin Own(u) BY <1>6, <1>14, <2>2
    <3>2. arr[i] = whole[i] BY <1>1, <3>1, Zenon DEF ArrayInv
    <3>3. whole'[i] = whole[i] BY <1>2, <2>2
    <3> QED BY <1>8, <2>2, <3>2, <3>3
  <2> QED BY <2>1, <2>2
<1>15. ArrayInv'
  <2>1. Threads' = Threads /\ Index' = Index BY DEF Threads, Index
  <2> QED BY <1>9, <1>10, <1>13, <1>14, <2>1, Zenon DEF ArrayInv
<1> QED BY <1>12, <1>15
-----------------------------------------------------------------------------
LEMMA FrameNext ==
    ASSUME FInv, P!IInv, P!IInv', [Next]_vars
    PROVE  FrameInv' /\ ArrayInv'
<1>1. MutexInv /\ BusyInv /\ StackInv /\ FrameInv /\ ArrayInv BY DEF FInv
<1>2. CASE UNCHANGED <<pc, frame, arr, whole>>
  <2>1. FrameInv'
    BY <1>1, <1>2 DEF FrameInv, HasSegment, Holding, Pushing, Threads, Index
  <2>2. \A u : (Dividing(u)' <=> Dividing(u)) /\ Own(u)' = Own(u)
    BY <1>2 DEF Dividing, Holding, Own
  <2>3. Threads' = Threads /\ Index' = Index BY DEF Threads, Index
  <2>4. \A u : Shuffled(whole, arr, Own(u)) => Shuffled(whole', arr', Own(u))
    BY <1>2
  <2>5. ArrayInv'
    BY <1>1, <1>2, <2>2, <2>3, <2>4, Zenon DEF ArrayInv
  <2> QED BY <2>1, <2>5
<1>3. CASE CreateThread
  <2>1. PICK t \in Threads : t = next /\ pc[t] = "new"
    BY <1>1, <1>3, NextIsNew DEF CreateThread
  <2>2. pc' = [pc EXCEPT ![t] = "loop"] /\ UNCHANGED <<frame, arr, whole>>
    BY <1>3, <2>1 DEF CreateThread, Goto, array
  <2>3. pc'[t] = "loop" BY <1>1, <2>2 DEF MutexInv
  <2>4. Dividing(t)' <=> Dividing(t) BY <2>1, <2>3 DEF Dividing, Holding
  <2> QED BY <1>1, <2>2, <2>4, FrameStays
<1>4. ASSUME NEW t \in Threads, WorkerStep(t) PROVE FrameInv' /\ ArrayInv'
  <2>1. CASE Lock(t)
    <3>1. UNCHANGED <<frame, arr, whole>> BY <2>1 DEF Lock, array
    <3>2. CASE pc[t] = "loop"
      <4>1. pc' = [pc EXCEPT ![t] = "look"] BY <2>1, <3>2 DEF Lock, Goto
      <4>2. pc'[t] = "look" BY <1>1, <4>1 DEF MutexInv
      <4>3. Dividing(t)' <=> Dividing(t) BY <3>2, <4>2 DEF Dividing, Holding
      <4> QED BY <1>1, <3>1, <4>1, <4>3, FrameStays
    <3>3. CASE pc[t] = "part"
      <4>1. frame[t].at = "done" /\ pc' = [pc EXCEPT ![t] = "first"]
        BY <2>1, <3>3 DEF Lock, Goto
      <4>2. pc'[t] = "first" BY <1>1, <4>1 DEF MutexInv
      <4>3. Dividing(t)' <=> Dividing(t) BY <4>1, <4>2, <3>1 DEF Dividing, Holding
      <4>4. HasSegment(t) BY <3>3 DEF HasSegment, Holding
      <4> QED BY <1>1, <3>1, <4>1, <4>3, <4>4, FrameStays
    <3> QED BY <2>1, <3>2, <3>3 DEF Lock
  <2>2. CASE Unlock(t)
    <3>1. UNCHANGED <<frame, arr, whole>> BY <2>2 DEF Unlock, array
    <3>2. \E x \in {"loop", "wait", "exited", "part"} :
             /\ pc' = [pc EXCEPT ![t] = x]
             /\ x = "part" <=> pc[t] = "to part"
      <4>1. CASE pc[t] = "to loop" BY <2>2, <4>1 DEF Unlock, Goto
      <4>2. CASE pc[t] = "to wait" BY <2>2, <4>2 DEF Unlock, Goto
      <4>3. CASE pc[t] = "to exit" BY <2>2, <4>3 DEF Unlock, Goto
      <4>4. CASE pc[t] = "to part" BY <2>2, <4>4 DEF Unlock, Goto
      <4> QED BY <2>2, <4>1, <4>2, <4>3, <4>4 DEF Unlock
    <3>3. PICK x \in {"loop", "wait", "exited", "part"} :
             /\ pc' = [pc EXCEPT ![t] = x]
             /\ x = "part" <=> pc[t] = "to part"
      BY <3>2
    <3>4. pc'[t] = x BY <1>1, <3>3 DEF MutexInv
    <3>5. pc[t] \in {"to loop", "to wait", "to exit", "to part"} BY <2>2 DEF Unlock
    <3>6. x = "part" => Holding(t) BY <3>3 DEF Holding
    <3>7. Dividing(t)' <=> Dividing(t)
      BY <3>1, <3>3, <3>4, <3>5 DEF Dividing, Holding
    <3> QED BY <1>1, <3>1, <3>3, <3>6, <3>7, FrameStays
  <2>3. CASE LookEmpty(t)
    <3>1. /\ pc[t] = "look" /\ UNCHANGED <<frame, arr, whole>>
          /\ \E x \in {"to wait", "to exit"} : pc' = [pc EXCEPT ![t] = x]
      BY <2>3 DEF LookEmpty, Goto, array
    <3>2. PICK x \in {"to wait", "to exit"} : pc' = [pc EXCEPT ![t] = x] BY <3>1
    <3>3. pc'[t] = x BY <1>1, <3>2 DEF MutexInv
    <3>4. Dividing(t)' <=> Dividing(t) BY <3>1, <3>3 DEF Dividing, Holding
    <3> QED BY <1>1, <3>1, <3>2, <3>4, FrameStays
  <2>4. CASE PopSegment(t) BY <2>4, PopKeeps
  <2>5. CASE SetBusy(t)
    <3>1. /\ pc[t] = "pop" /\ UNCHANGED <<frame, arr, whole>>
          /\ pc' = [pc EXCEPT ![t] = "to part"]
      BY <2>5 DEF SetBusy, Goto, array
    <3>2. pc'[t] = "to part" BY <1>1, <3>1 DEF MutexInv
    <3>3. (Dividing(t)' <=> Dividing(t)) /\ Holding(t)
      BY <3>1, <3>2 DEF Dividing, Holding
    <3>4. frame[t].at = "pivot" BY <1>1, <3>1 DEF FrameInv
    <3> QED BY <1>1, <3>1, <3>3, <3>4, FrameStays
  <2>6. CASE SemWait(t)
    <3>1. /\ pc[t] = "wait" /\ UNCHANGED <<frame, arr, whole>>
          /\ pc' = [pc EXCEPT ![t] = "loop"]
      BY <2>6 DEF SemWait, Goto, array
    <3>2. pc'[t] = "loop" BY <1>1, <3>1 DEF MutexInv
    <3>3. Dividing(t)' <=> Dividing(t) BY <3>1, <3>2 DEF Dividing, Holding
    <3> QED BY <1>1, <3>1, <3>3, FrameStays
  <2>7. CASE PartitionRound(t) BY <2>7, RoundKeepsInv
  <2>8. CASE PushFirst(t) \/ PushSecond(t)
    <3>1. /\ pc[t] \in {"first", "second"} /\ UNCHANGED <<frame, arr, whole>>
          /\ \E x \in {"second", "idle"} : pc' = [pc EXCEPT ![t] = x]
      BY <2>8 DEF PushFirst, PushSecond, PushOne, Goto, array
    <3>2. PICK x \in {"second", "idle"} : pc' = [pc EXCEPT ![t] = x] BY <3>1
    <3>3. pc'[t] = x BY <1>1, <3>2 DEF MutexInv
    <3>4. Dividing(t)' <=> Dividing(t) BY <3>1, <3>3 DEF Dividing, Holding
    <3>5. HasSegment(t) /\ frame[t].at = "done"
      BY <1>1, <3>1 DEF HasSegment, Pushing, FrameInv
    <3> QED BY <1>1, <3>1, <3>2, <3>4, <3>5, FrameStays
  <2>9. CASE ClearBusy(t) BY <2>9, ClearKeeps
  <2> QED
    BY <1>4, <2>1, <2>2, <2>3, <2>4, <2>5, <2>6, <2>7, <2>8, <2>9 DEF WorkerStep
<1>5. CASE JoinThread \/ CreateFails
  BY <1>2, <1>5 DEF JoinThread, CreateFails, array
<1>6. CASE UNCHANGED vars BY <1>2, <1>6 DEF vars
<1> QED BY <1>3, <1>4, <1>5, <1>6 DEF Next, MainStep

LEMMA FineNext == FInv /\ P!IInv /\ [Next]_vars => FInv' /\ P!IInv'
<1> SUFFICES ASSUME FInv, P!IInv, [Next]_vars PROVE FInv' /\ P!IInv' OBVIOUS
<1>1. MutexInv' /\ BusyInv' BY ControlNext DEF FInv
<1>2. P!IInv' BY CoarseInvNext
<1>3. StackInv' BY StackNext
<1>4. FrameInv' /\ ArrayInv' BY <1>2, FrameNext
<1> QED BY <1>1, <1>2, <1>3, <1>4 DEF FInv

LEMMA FineInit == Init => FInv /\ P!SortInit /\ P!IInv
<1> SUFFICES ASSUME Init PROVE FInv /\ P!SortInit /\ P!IInv OBVIOUS
<1>1. /\ main = "create" /\ next = 0 /\ sem = 1 /\ mutex = Nobody
      /\ pc = [t \in Threads |-> "new"] /\ busy = [t \in Threads |-> FALSE]
      /\ frame = [t \in Threads |-> NoFrame] /\ stack = <<0, Size - 1>>
      /\ arr \in [Index -> Value] /\ input = arr /\ whole = arr
  BY DEF Init
<1>2. Size \in Nat /\ Size > 1 BY FineAssumption
<1>3. \A t \in Threads : pc[t] = "new" /\ frame[t] = NoFrame BY <1>1
<1>4. \A t \in Threads : ~Pushing(t) /\ ~Holding(t) /\ ~Dividing(t) /\ ~HasSegment(t)
  BY <1>3 DEF Pushing, Holding, Dividing, HasSegment
<1>5. MutexInv
  <2>1. \A t \in Threads : t # Nobody BY FineAssumption DEF Nobody, Threads
  <2> QED BY <1>1, <1>3, <2>1 DEF MutexInv, FinePC, Critical
<1>6. BusyInv
  <2>1. \A t \in Threads : pc[t] \notin Marked BY <1>3 DEF Marked
  <2>2. \A t \in Threads : busy[t] = FALSE BY <1>1, Zenon
  <2>3. busy \in [Threads -> BOOLEAN] BY <1>1
  <2> QED BY <2>1, <2>2, <2>3, Zenon DEF BusyInv
<1>7. StackInv
  <2>1. stack \in Seq(Index) /\ Len(stack) = 2 * 1 BY <1>1, <1>2 DEF Index
  <2> QED BY <1>1, <2>1 DEF StackInv
<1>8. FrameInv
  <2>1. NoFrame \in FrameType BY SizeMaxIs DEF NoFrame, Frame, FrameType, Phase
  <2> QED BY <1>1, <1>3, <1>4, <2>1 DEF FrameInv
<1>9. ArrayInv BY <1>1, <1>4 DEF ArrayInv
<1>10. CStack = << <<0, Size - 1>> >> /\ CSem = 1
  <2>1. CStack = PairsOf(stack) /\ CSem = sem BY <1>4, <1>5, <1>7, NoPusher
  <2>2. Even(<<>>)
    <3>1. Len(<<>>) = 2 * 0 /\ <<>> \in Seq(Int) BY EmptySeq
    <3> QED BY <3>1 DEF Even
  <2>3. PairsOf(<<>> \o <<0, Size - 1>>) = Append(PairsOf(<<>>), <<0, Size - 1>>)
    <3> DEFINE x == 0
               y == Size - 1
    <3>1. x \in Int /\ y \in Int BY <1>2
    <3> HIDE DEF x, y
    <3>2. PairsOf(<<>> \o <<x, y>>) = Append(PairsOf(<<>>), <<x, y>>)
      BY <2>2, <3>1, PairsPush
    <3> QED BY <3>2 DEF x, y
  <2>4. <<>> \o <<0, Size - 1>> = <<0, Size - 1>>
    <3>1. <<0, Size - 1>> \in Seq(Int) BY <1>2
    <3> QED BY <3>1, ConcatEmptySeq
  <2>5. Append(<<>>, <<0, Size - 1>>) = << <<0, Size - 1>> >> OBVIOUS
  <2> QED BY <1>1, <2>1, <2>3, <2>4, <2>5, PairsNone
<1>11. CPC = [t \in Threads |-> "new"]
  <2>1. \A t \in Threads : CoarsePC(t) = "new" BY <1>3 DEF CoarsePC
  <2> QED BY <2>1 DEF CPC
<1>12. CBusy = [t \in Threads |-> FALSE]
  <2>1. \A t \in Threads : Holding(t) = FALSE BY <1>4, HoldingIs
  <2> QED BY <2>1 DEF CBusy
<1>13. CSeg = [t \in Threads |-> <<-1, -1>>] BY <1>4 DEF CSeg, SegOf
<1>14. CCut = [t \in Threads |-> <<-1, -1>>]
  <2>1. \A t \in Threads : CoarsePC(t) # "push" BY <1>3 DEF CoarsePC
  <2> QED BY <2>1 DEF CCut, CutOf
<1>15. P!SortInit
  BY <1>1, <1>10, <1>11, <1>12, <1>13, <1>14
     DEF P!SortInit, P!Init, P!NoPair, P!Threads, Threads, P!Index, Index
<1>16. P!IInv
  <2>1. P!Init BY <1>15 DEF P!SortInit
  <2> QED BY <2>1, P!InvInit, FineAssumption, ValueAssumption
<1> QED BY <1>5, <1>6, <1>7, <1>8, <1>9, <1>15, <1>16 DEF FInv

LEMMA FineInvariant == Spec => [](FInv /\ P!IInv)
BY FineInit, FineNext, PTL DEF Spec

LEMMA FineIsSort == Spec => P!SortSpec
<1>1. FInv /\ P!IInv /\ [Next]_vars => [P!SortNext]_P!sortVars BY NextMaps
<1> QED BY <1>1, FineInit, FineInvariant, PTL DEF Spec, P!SortSpec

(* No two workers read or write the same element in steps that may come in  *)
(* either order: for any number of workers, the partitions that run outside *)
(* the mutex are free of data races.                                        *)
THEOREM NoRace == Spec => []NoDataRace
<1>1. FInv /\ P!IInv => NoDataRace
  <2> SUFFICES ASSUME FInv, P!IInv, NEW t \in Threads, NEW u \in Threads,
                      t # u, pc[t] = "part", pc[u] = "part"
               PROVE  Touches(frame[t]) \cap Touches(frame[u]) = {}
    BY DEF NoDataRace
  <2>1. FrameInv /\ Holding(t) /\ Holding(u) BY DEF FInv, Holding
  <2>2. Own(t) \cap Own(u) = {} BY <2>1, OwnDisjoint
  <2>3. Places(frame[t]) /\ Places(frame[u]) BY <2>1 DEF FrameInv, HasSegment
  <2>4. Touches(frame[t]) \subseteq Own(t) /\ Touches(frame[u]) \subseteq Own(u)
    BY <2>3, TouchesInside DEF Segm, Own
  <2> QED BY <2>2, <2>4
<1> QED BY <1>1, FineInvariant, PTL

(* Whenever the mutex is free the stack holds whole segments of two         *)
(* elements or more and the busy flags tell who has one.                    *)
THEOREM InOrderOutsideMutex == Spec => []OrderOutsideMutex
<1>1. FInv /\ P!IInv => OrderOutsideMutex
  <2> SUFFICES ASSUME FInv, P!IInv, mutex = Nobody
               PROVE  /\ Len(stack) % 2 = 0
                      /\ \A i \in 1 .. Len(stack) \div 2 : stack[2 * i - 1] < stack[2 * i]
                      /\ \A t \in Threads : busy[t] <=> pc[t] = "part"
    BY DEF OrderOutsideMutex
  <2>1. MutexInv /\ BusyInv /\ StackInv BY DEF FInv
  <2>2. \A t \in Threads : pc[t] \notin Critical
    <3>1. \A t \in Threads : t # Nobody BY FineAssumption DEF Nobody, Threads
    <3> QED BY <2>1, <3>1 DEF MutexInv
  <2>3. CStack = PairsOf(stack) /\ Even(stack)
    <3>1. \A t \in Threads : ~Pushing(t) BY <2>2 DEF Critical, Pushing
    <3> QED BY <2>1, <3>1, NoPusher
  <2>4. PICK n \in Nat : stack \in Seq(Int) /\ Len(stack) = 2 * n BY <2>3 DEF Even
  <2>5. Len(stack) % 2 = 0 /\ Len(stack) \div 2 = n BY <2>4
  <2>6. /\ Len(CStack) = n
        /\ \A i \in 1 .. n : CStack[i] = <<stack[2 * i - 1], stack[2 * i]>>
    BY <2>3, <2>4, PairsIs
  <2>7. ASSUME NEW i \in 1 .. n PROVE stack[2 * i - 1] < stack[2 * i]
    <3>1. CStack \in Seq(P!Segment) BY DEF P!IInv, P!TypeOK
    <3>2. CStack[i] \in P!Segment BY <2>6, <3>1, ElementOfSeq
    <3>3. <<stack[2 * i - 1], stack[2 * i]>> \in P!Segment BY <2>6, <3>2
    <3> QED BY <3>3 DEF P!Segment
  <2>8. ASSUME NEW t \in Threads PROVE busy[t] <=> pc[t] = "part"
    <3>1. pc[t] \in Marked <=> pc[t] = "part" BY <2>2 DEF Critical, Marked
    <3>2. busy[t] <=> pc[t] \in Marked BY <2>1, Zenon DEF BusyInv
    <3> QED BY <3>1, <3>2, Zenon
  <2> QED BY <2>5, <2>7, <2>8
<1> QED BY <1>1, FineInvariant, PTL

(* What the code does with its mutex, its flat stack and its interleaved    *)
(* loops is what ThreadQSort says with critical sections and partitions     *)
(* that are single steps.                                                   *)
THEOREM FineImplements == Spec => ImplementsThreadQSort
<1>1. P!SortInit <=> Coarse!SortInit
  BY DEF P!SortInit, Coarse!SortInit, P!Init, Coarse!Init, P!Index, Coarse!Index,
         P!Threads, Coarse!Threads, P!NoPair, Coarse!NoPair,
         CPC, CStack, CSem, CBusy, CSeg, CCut, SegOf, CutOf
<1>2. [P!SortNext]_P!sortVars => [Coarse!SortNext]_Coarse!sortVars
  <2>1. P!MainStep /\ UNCHANGED <<whole, input>> =>
         Coarse!MainStep /\ UNCHANGED <<whole, input>>
    BY DEF P!MainStep, Coarse!MainStep, P!CreateThread, Coarse!CreateThread, P!JoinThread,
           Coarse!JoinThread,
           CPC, CStack, CSem, CBusy, CSeg, CCut, SegOf, CutOf
  <2>2. P!CreateFails => Coarse!CreateFails
    BY DEF P!CreateFails, Coarse!CreateFails,
           CPC, CStack, CSem, CBusy, CSeg, CCut, SegOf, CutOf
  <2>3. P!Threads = Coarse!Threads /\ P!Index = Coarse!Index
    BY DEF P!Threads, Coarse!Threads, P!Index, Coarse!Index
  <2>4. ASSUME NEW t PROVE P!ControlStep(t) => Coarse!ControlStep(t)
    <3>1. P!Pop(t) => Coarse!Pop(t)
      BY <2>3 DEF P!Pop, Coarse!Pop, P!Running, Coarse!Running,
             CPC, CStack, CSem, CBusy, CSeg, CCut, SegOf, CutOf
    <3>2. P!GoToSleep(t) => Coarse!GoToSleep(t)
      BY <2>3 DEF P!GoToSleep, Coarse!GoToSleep, P!Running, Coarse!Running, P!Working,
             Coarse!Working,
             CPC, CStack, CSem, CBusy, CSeg, CCut, SegOf, CutOf
    <3>3. P!ExitThread(t) => Coarse!ExitThread(t)
      BY <2>3 DEF P!ExitThread, Coarse!ExitThread, P!Running, Coarse!Running, P!Working,
             Coarse!Working,
             CPC, CStack, CSem, CBusy, CSeg, CCut, SegOf, CutOf
    <3>4. P!WakeUp(t) => Coarse!WakeUp(t)
      BY <2>3 DEF P!WakeUp, Coarse!WakeUp, P!Running, Coarse!Running,
             CPC, CStack, CSem, CBusy, CSeg, CCut, SegOf, CutOf
    <3>5. P!Push(t) => Coarse!Push(t)
      BY <2>3 DEF P!Push, Coarse!Push, P!Running, Coarse!Running, P!LowPart,
             Coarse!LowPart, P!HighPart, Coarse!HighPart, P!PushParts, Coarse!PushParts,
             P!PushIfLong, Coarse!PushIfLong, P!SegLen, Coarse!SegLen, P!QSORT_THRESHOLD,
             Coarse!QSORT_THRESHOLD, P!NoPair, Coarse!NoPair,
             CPC, CStack, CSem, CBusy, CSeg, CCut, SegOf, CutOf
    <3> QED BY <3>1, <3>2, <3>3, <3>4, <3>5 DEF P!ControlStep, Coarse!ControlStep
  <2>5. ASSUME NEW t PROVE P!SortPartition(t) => Coarse!SortPartition(t)
    BY DEF P!SortPartition, Coarse!SortPartition, P!Cut, Coarse!Cut, P!PartitionInto,
           Coarse!PartitionInto, P!Running, Coarse!Running, P!Orders, Coarse!Orders,
           P!Segment, Coarse!Segment, P!Index, Coarse!Index, P!Rearranged,
           Coarse!Rearranged, P!Shuffles, Coarse!Shuffles, P!InSegment, Coarse!InSegment,
           P!Partitioned, Coarse!Partitioned,
           CPC, CStack, CSem, CBusy, CSeg, CCut, SegOf, CutOf
  <2>6. UNCHANGED P!sortVars => UNCHANGED Coarse!sortVars
    BY DEF P!sortVars, Coarse!sortVars,
           CPC, CStack, CSem, CBusy, CSeg, CCut, SegOf, CutOf
  <2> QED BY <2>1, <2>2, <2>3, <2>4, <2>5, <2>6 DEF P!SortNext, Coarse!SortNext
<1>3. P!SortSpec => Coarse!SortSpec
  BY <1>1, <1>2, PTL DEF P!SortSpec, Coarse!SortSpec
<1> QED BY <1>3, FineIsSort, PTL DEF ImplementsThreadQSort

(* When a worker has left, and so when bl_thread_qsort returns, the array   *)
(* the workers shared is sorted and has the elements the caller gave: no    *)
(* interleaving of their rounds loses or misplaces one.                     *)
LeavesSorted ==
    (\E t \in Threads : pc[t] = "exited") \/ main = "returned"
       => Sorted(arr) /\ Shuffled(input, arr, Index)

THEOREM ArrayIsSortedInPlace == Spec => []LeavesSorted
<1>1. ASSUME FInv, P!IInv, P!ArrayOK, P!KeepsElements, P!SortedApart, P!ReturnsAfterExit
      PROVE  LeavesSorted
  <2> SUFFICES ASSUME (\E t \in Threads : pc[t] = "exited") \/ main = "returned"
               PROVE  Sorted(arr) /\ Shuffled(input, arr, Index)
    BY DEF LeavesSorted
  <2>1. \E t \in P!Threads : CPC[t] = "exited"
    <3>1. CASE main = "returned"
      <4>1. next \in Threads BY <1>1, NextIsThread
      <4> QED BY <1>1, <3>1, <4>1 DEF P!ReturnsAfterExit, P!Threads, Threads
    <3>2. ASSUME NEW t \in Threads, pc[t] = "exited" PROVE CPC[t] = "exited"
      <4>1. CoarsePC(t) = "exited" BY <3>2 DEF CoarsePC
      <4> QED BY <4>1, CoarseAt
    <3> QED BY <3>1, <3>2 DEF P!Threads, Threads
  <2>2. P!WorkDone BY <1>1, <2>1 DEF P!IInv, P!ExitOnlyWhenDone
  <2>3. P!Sorted(whole) BY <1>1, <2>2, P!NothingOpen, FineAssumption, ValueAssumption
  <2>4. \A t \in Threads : ~Dividing(t)
    <3>1. ASSUME NEW t \in Threads, Holding(t) PROVE FALSE
      <4>1. CoarsePC(t) \in {"part", "push"} BY <3>1 DEF Holding, CoarsePC
      <4>2. CPC[t] \in {"part", "push"} BY <4>1, CoarseAt
      <4> QED BY <2>2, <4>2 DEF P!WorkDone, P!Holds, P!Threads, Threads
    <3> QED BY <3>1 DEF Dividing
  <2>5. /\ arr \in [Index -> Value] /\ whole \in [Index -> Value]
        /\ \A i \in Index : arr[i] = whole[i]
    BY <1>1, <2>4, Zenon DEF FInv, ArrayInv
  <2>6. arr = whole BY <2>5
  <2>7. PICK p \in P!Orders[P!Whole] : whole = P!Rearranged(input, P!Whole, p)
    BY <1>1 DEF P!KeepsElements
  <2>8. p \in Shuffles(Index)
    <3>1. P!Whole \in P!Segment /\ P!Whole[1] .. P!Whole[2] = Index
      BY P!WholeSegment, FineAssumption, ValueAssumption DEF P!Index, Index
    <3>2. p \in P!Shuffles(P!Whole[1] .. P!Whole[2]) BY <2>7, <3>1 DEF P!Orders
    <3> QED BY <3>1, <3>2 DEF P!Shuffles, Shuffles
  <2>9. \A i \in Index : whole[i] = input[p[i]]
    <3>1. \A i \in Index : P!InSegment(i, P!Whole)
      BY P!WholeSegment, FineAssumption, ValueAssumption DEF P!Index, Index
    <3>2. input \in [Index -> Value] BY <1>1 DEF P!ArrayOK, P!Index, Index
    <3> QED BY <2>7, <3>1, <3>2 DEF P!Rearranged
  <2>10. Shuffled(input, arr, Index) BY <2>6, <2>8, <2>9 DEF Shuffled
  <2> QED BY <2>3, <2>6, <2>10 DEF P!Sorted, Sorted
<1>2. P!SortSpec => [](P!ArrayOK /\ P!KeepsElements) BY P!ArrayCorrect, FineAssumption, ValueAssumption
<1>3. P!SortSpec => []P!SortedApart BY P!ApartIsSorted, FineAssumption, ValueAssumption
<1>4. P!SortSpec => []P!ReturnsAfterExit
  BY P!SortImplementsThreads, P!ReturnCorrect, FineAssumption, ValueAssumption, PTL
<1> QED BY <1>1, <1>2, <1>3, <1>4, FineInvariant, FineIsSort, PTL
=============================================================================
