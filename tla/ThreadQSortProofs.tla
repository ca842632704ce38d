---------------------------- MODULE ThreadQSortProofs ----------------------------
(***************************************************************************)
(* Proofs about QSortThreads and ThreadQSort, for every number of workers,  *)
(* every size of the array and every input: the segments are apart and the  *)
(* end is noticed, and the array is sorted when a worker has left.          *)
(***************************************************************************)
EXTENDS ThreadQSort, FiniteSets, FiniteSetTheorems, SequenceTheorems, TLAPS

(* What a push may put on the stack: a part that is long enough to need     *)
(* sorting, and then it is a segment inside the worker's own.               *)
LEMMA PartIsSegment ==
  ASSUME NEW s \in Segment, NEW c \in Cut(s)
  PROVE  /\ SegLen(<<s[1], c[1]>>) \in Int
         /\ SegLen(<<c[2], s[2]>>) \in Int
         /\ SegLen(<<s[1], c[1]>>) > QSORT_THRESHOLD => <<s[1], c[1]>> \in Segment
         /\ SegLen(<<c[2], s[2]>>) > QSORT_THRESHOLD => <<c[2], s[2]>> \in Segment
  BY SizeAssumption DEF Segment, Cut, SegLen, QSORT_THRESHOLD, Index

(* Two parts pushed one after the other, those that are too short left out. *)
LEMMA PushTwice ==
  ASSUME NEW stk \in Seq(Segment), NEW a, NEW b, a # b,
         SegLen(a) > QSORT_THRESHOLD => a \in Segment,
         SegLen(b) > QSORT_THRESHOLD => b \in Segment,
         NEW new, new = PushIfLong(PushIfLong(stk, a), b)
  PROVE  /\ new \in Seq(Segment)
         /\ Len(new) \in Nat
         /\ Len(stk) <= Len(new)
         /\ \A i \in 1 .. Len(stk) : new[i] = stk[i]
         /\ \A i \in Len(stk) + 1 .. Len(new) : new[i] \in {a, b}
         /\ \A i, j \in Len(stk) + 1 .. Len(new) : i # j => new[i] # new[j]
         /\ SegLen(a) > QSORT_THRESHOLD => \E i \in 1 .. Len(new) : new[i] = a
         /\ SegLen(b) > QSORT_THRESHOLD => \E i \in 1 .. Len(new) : new[i] = b
<1>1. CASE SegLen(a) > QSORT_THRESHOLD /\ SegLen(b) > QSORT_THRESHOLD
  <2>1. new = Append(Append(stk, a), b)
    BY <1>1 DEF PushIfLong
  <2>2. Len(stk) \in Nat /\ Len(new) = Len(stk) + 2
    BY <1>1, <2>1
  <2>3. new[Len(stk) + 1] = a /\ new[Len(stk) + 2] = b
    BY <1>1, <2>1
  <2>4. new \in Seq(Segment) /\ \A i \in 1 .. Len(stk) : new[i] = stk[i]
    BY <1>1, <2>1
  <2>5. \A i \in Len(stk) + 1 .. Len(new) : i \in {Len(stk) + 1, Len(stk) + 2}
    BY <2>2
  <2>6. /\ Len(stk) + 1 \in 1 .. Len(new) /\ Len(stk) + 2 \in 1 .. Len(new)
        /\ Len(new) \in Nat /\ Len(stk) <= Len(new)
    BY <2>2
  <2>7. \A i \in Len(stk) + 1 .. Len(new) : new[i] \in {a, b}
    BY <2>3, <2>5
  <2>8. \A i, j \in Len(stk) + 1 .. Len(new) : i # j => new[i] # new[j]
    BY <2>3, <2>5
  <2>9. (\E i \in 1 .. Len(new) : new[i] = a) /\ \E i \in 1 .. Len(new) : new[i] = b
    BY <2>3, <2>6
  <2>. QED  BY <2>4, <2>6, <2>7, <2>8, <2>9
<1>2. CASE SegLen(a) > QSORT_THRESHOLD /\ ~(SegLen(b) > QSORT_THRESHOLD)
  <2>1. new = Append(stk, a)
    BY <1>2 DEF PushIfLong
  <2>. QED  BY <1>2, <2>1
<1>3. CASE ~(SegLen(a) > QSORT_THRESHOLD) /\ SegLen(b) > QSORT_THRESHOLD
  <2>1. new = Append(stk, b)
    BY <1>3 DEF PushIfLong
  <2>. QED  BY <1>3, <2>1
<1>4. CASE ~(SegLen(a) > QSORT_THRESHOLD) /\ ~(SegLen(b) > QSORT_THRESHOLD)
  <2>1. new = stk
    BY <1>4 DEF PushIfLong
  <2>. QED  BY <1>4, <2>1
<1>. QED  BY <1>1, <1>2, <1>3, <1>4

(* The stack after a push: the old one with, in some order, those of the    *)
(* two parts that are long enough.                                          *)
LEMMA PushPartsStack ==
  ASSUME NEW stk \in Seq(Segment), NEW l, NEW h, l # h,
         SegLen(l) > QSORT_THRESHOLD => l \in Segment,
         SegLen(h) > QSORT_THRESHOLD => h \in Segment,
         NEW new, new = PushParts(stk, l, h)
  PROVE  /\ new \in Seq(Segment)
         /\ Len(new) \in Nat
         /\ Len(stk) <= Len(new)
         /\ \A i \in 1 .. Len(stk) : new[i] = stk[i]
         /\ \A i \in Len(stk) + 1 .. Len(new) : new[i] \in {l, h}
         /\ \A i, j \in Len(stk) + 1 .. Len(new) : i # j => new[i] # new[j]
         /\ SegLen(l) > QSORT_THRESHOLD => \E i \in 1 .. Len(new) : new[i] = l
         /\ SegLen(h) > QSORT_THRESHOLD => \E i \in 1 .. Len(new) : new[i] = h
<1>3. CASE SegLen(l) > SegLen(h)
  <2>1. new = PushIfLong(PushIfLong(stk, l), h)
    BY <1>3 DEF PushParts
  <2>. QED  BY <2>1, PushTwice
<1>4. CASE ~(SegLen(l) > SegLen(h))
  <2>1. new = PushIfLong(PushIfLong(stk, h), l)
    BY <1>4 DEF PushParts
  <2>2. {l, h} = {h, l}
    OBVIOUS
  <2>. QED  BY <2>1, <2>2, PushTwice
<1>. QED  BY <1>3, <1>4

(* The two parts pushed by a worker, in the terms of Push.                  *)
LEMMA PushedParts ==
  ASSUME TypeOK, NEW t \in Threads, Push(t)
  PROVE  /\ seg[t] \in Segment
         /\ cut[t] \in Cut(seg[t])
         /\ stack' \in Seq(Segment)
         /\ Len(stack) \in Nat
         /\ Len(stack') \in Nat
         /\ Len(stack) <= Len(stack')
         /\ \A i \in 1 .. Len(stack) : stack'[i] = stack[i]
         /\ \A i \in Len(stack) + 1 .. Len(stack') :
               stack'[i] \in {LowPart(t), HighPart(t)}
         /\ \A i, j \in Len(stack) + 1 .. Len(stack') :
               i # j => stack'[i] # stack'[j]
         /\ \A s \in {LowPart(t), HighPart(t)} :
               SegLen(s) > QSORT_THRESHOLD => \E i \in 1 .. Len(stack') : stack'[i] = s
<1>1. seg[t] \in Segment /\ cut[t] \in Cut(seg[t])
  BY DEF TypeOK, Push, Holds
<1>2. /\ SegLen(LowPart(t)) > QSORT_THRESHOLD => LowPart(t) \in Segment
      /\ SegLen(HighPart(t)) > QSORT_THRESHOLD => HighPart(t) \in Segment
  BY <1>1, PartIsSegment DEF LowPart, HighPart
<1>3. LowPart(t) # HighPart(t)
  BY <1>1, SizeAssumption DEF LowPart, HighPart, Segment, Cut, Index
<1>4. stack \in Seq(Segment) /\ stack' = PushParts(stack, LowPart(t), HighPart(t))
  BY DEF TypeOK, Push
<1>5. Len(stack) \in Nat
  BY <1>4
<1>. HIDE DEF LowPart, HighPart
<1>. QED  BY <1>1, <1>2, <1>3, <1>4, <1>5, PushPartsStack

LEMMA TypeInit == Init => TypeOK
  BY SizeAssumption DEF Init, TypeOK, Threads, WorkerPC, Segment, Index, Holds, NoPair

LEMMA TypeNext == TypeOK /\ [Next]_ctl => TypeOK'
<1> SUFFICES ASSUME TypeOK, [Next]_ctl PROVE TypeOK'
  OBVIOUS
<1> USE SizeAssumption
<1>1. CASE CreateThread
  <2>1. next' \in Threads
    <3>1. next \in 0 .. NumThreads - 1
      BY DEF TypeOK, Threads
    <3>2. next' \in {0, next} \/ (next' = next + 1 /\ next + 1 # NumThreads)
      BY <1>1 DEF CreateThread
    <3>. QED  BY <3>1, <3>2 DEF Threads
  <2>. QED  BY <1>1, <2>1 DEF TypeOK, CreateThread, WorkerPC, Holds
<1>2. CASE CreateFails
  BY <1>2 DEF TypeOK, CreateFails, Holds
<1>3. CASE JoinThread
  <2>1. next' \in Threads
    <3>1. next \in 0 .. NumThreads - 1
      BY DEF TypeOK, Threads
    <3>2. next' \in {0, next} \/ (next' = next + 1 /\ next + 1 # NumThreads)
      BY <1>3 DEF JoinThread
    <3>. QED  BY <3>1, <3>2 DEF Threads
  <2>. QED  BY <1>3, <2>1 DEF TypeOK, JoinThread, Holds
<1>4. ASSUME NEW t \in Threads, Pop(t) PROVE TypeOK'
  <2>1. /\ stack[Len(stack)] \in Segment
        /\ SubSeq(stack, 1, Len(stack) - 1) \in Seq(Segment)
    BY <1>4 DEF TypeOK, Pop
  <2>. QED  BY <1>4, <2>1 DEF TypeOK, Pop, WorkerPC, Holds
<1>5. ASSUME NEW t \in Threads, GoToSleep(t) PROVE TypeOK'
  BY <1>5 DEF TypeOK, GoToSleep, WorkerPC, Holds
<1>6. ASSUME NEW t \in Threads, ExitThread(t) PROVE TypeOK'
  BY <1>6 DEF TypeOK, ExitThread, WorkerPC, Holds
<1>7. ASSUME NEW t \in Threads, WakeUp(t) PROVE TypeOK'
  BY <1>7 DEF TypeOK, WakeUp, WorkerPC, Holds
<1>8. ASSUME NEW t \in Threads, Partition(t) PROVE TypeOK'
  <2>1. PICK c \in Cut(seg[t]) : PartitionInto(t, c)
    BY <1>8 DEF Partition
  <2>2. c \in (-1 .. Size) \X (-1 .. Size)
    BY DEF Cut
  <2>. QED  BY <2>1, <2>2 DEF TypeOK, PartitionInto, WorkerPC, Holds
<1>9. ASSUME NEW t \in Threads, Push(t) PROVE TypeOK'
  <2>1. /\ stack' \in Seq(Segment)
        /\ Len(stack) \in Nat /\ Len(stack') \in Nat
        /\ Len(stack) <= Len(stack')
    BY <1>9, PushedParts
  <2>3. sem' \in Nat
    BY <1>9, <2>1 DEF TypeOK, Push
  <2>2. <<-1, -1>> \in (-1 .. Size) \X (-1 .. Size)
    OBVIOUS
  <2>. QED  BY <1>9, <2>1, <2>2, <2>3 DEF TypeOK, Push, WorkerPC, Holds, NoPair
<1>10. CASE UNCHANGED ctl
  BY <1>10 DEF TypeOK, ctl, Holds
<1>. QED
  BY <1>1, <1>2, <1>3, <1>4, <1>5, <1>6, <1>7, <1>8, <1>9, <1>10
     DEF Next, MainStep, WorkerStep

(* The variables of the control keep their types.                           *)
THEOREM TypeCorrect == Spec => []TypeOK
  BY TypeInit, TypeNext, PTL DEF Spec
-----------------------------------------------------------------------------
(* A busy flag is set exactly while its worker holds a segment: with that,   *)
(* an empty stack and clear flags mean that nothing is left to sort.         *)
BusyExact == \A t \in Threads : busy[t] <=> Holds(t)

(* The workers bl_thread_qsort has yet to create.                            *)
NotYetCreated ==
    main = "create" => \A t \in Threads : t >= next => pc[t] = "new"

(* Two segments have an element between them that belongs to neither: the   *)
(* pivot of some partition, which separated them.                            *)
Apart(r, s) == r[2] + 1 < s[1] \/ s[2] + 1 < r[1]

SegmentsApart ==
    /\ \A i, j \in 1 .. Len(stack) : i # j => Apart(stack[i], stack[j])
    /\ \A t \in Threads, i \in 1 .. Len(stack) :
          Holds(t) => Apart(seg[t], stack[i])
    /\ \A t, u \in Threads :
          t # u /\ Holds(t) /\ Holds(u) => Apart(seg[t], seg[u])

(* The strengthening that makes the four safety invariants inductive.        *)
IInv == /\ TypeOK
        /\ NotYetCreated
        /\ BusyExact
        /\ SegmentsApart
        /\ ExitOnlyWhenDone
        /\ SomeoneIsAwake

LEMMA ZeroIsThread == 0 \in Threads
  BY SizeAssumption DEF Threads

(* To be apart is symmetric, and what is apart from a segment is also apart  *)
(* from either part a partition leaves of it.                                *)
LEMMA PartsApart ==
  ASSUME NEW s \in Segment, NEW c \in Cut(s), NEW r \in Segment
  PROVE  /\ Apart(s, r) <=> Apart(r, s)
         /\ Apart(s, r) => /\ Apart(<<s[1], c[1]>>, r)
                              /\ Apart(<<c[2], s[2]>>, r)
                              /\ Apart(r, <<s[1], c[1]>>)
                              /\ Apart(r, <<c[2], s[2]>>)
         /\ Apart(<<s[1], c[1]>>, <<c[2], s[2]>>)
         /\ Apart(<<c[2], s[2]>>, <<s[1], c[1]>>)
  BY SizeAssumption DEF Segment, Cut, Apart, Index

LEMMA InvInit == Init => IInv
<1> SUFFICES ASSUME Init PROVE IInv
  OBVIOUS
<1>1. TypeOK
  BY TypeInit
<1>2. \A t \in Threads : ~Holds(t)
  BY DEF Init, Holds
<1>3. BusyExact
  BY <1>2 DEF BusyExact, Init
<1>4. SegmentsApart
  <2>1. Len(stack) = 1
    BY DEF Init
  <2>. QED  BY <1>2, <2>1 DEF SegmentsApart
<1>5. ExitOnlyWhenDone
  BY DEF Init, ExitOnlyWhenDone
<1>6. SomeoneIsAwake
  BY ZeroIsThread DEF Init, SomeoneIsAwake
<1>7. NotYetCreated
  BY DEF Init, NotYetCreated
<1>. QED  BY <1>1, <1>3, <1>4, <1>5, <1>6, <1>7 DEF IInv

(* What the steps that touch no segment leave alone: neither the stack nor   *)
(* a worker's segment changes, and nobody takes or gives back one.           *)
LEMMA NothingMoves ==
  ASSUME IInv, UNCHANGED <<stack, busy, seg>>,
         \A t \in Threads : Holds(t)' <=> Holds(t)
  PROVE  BusyExact' /\ SegmentsApart' /\ (WorkDone' <=> WorkDone)
<1>1. BusyExact'
  BY DEF IInv, BusyExact
<1>2. SegmentsApart'
  BY DEF IInv, SegmentsApart
<1>3. WorkDone' <=> WorkDone
  BY DEF WorkDone
<1>. QED  BY <1>1, <1>2, <1>3

(* The stack without its top segment.                                        *)
LEMMA PoppedStack ==
  ASSUME NEW stk \in Seq(Segment), stk # <<>>
  PROVE  LET rest == SubSeq(stk, 1, Len(stk) - 1)
         IN  /\ Len(stk) \in Nat \ {0}
             /\ Len(rest) = Len(stk) - 1
             /\ \A i \in 1 .. Len(stk) - 1 : rest[i] = stk[i]
<1>1. Len(stk) \in Nat \ {0}
  BY EmptySeq
<1>2. \A i \in 1 .. Len(stk) - 1 : stk[i] \in Segment
  BY <1>1
<1> DEFINE n == Len(stk) - 1
           rest == SubSeq(stk, 1, n)
<1>3. n \in Nat
  BY <1>1
<1>4. /\ Len(rest) = IF 1 <= n THEN n - 1 + 1 ELSE 0
      /\ \A i \in 1 .. n - 1 + 1 : rest[i] = stk[1 + i - 1]
  <2>. HIDE DEF n
  <2>. QED  BY <1>2, <1>3, SubSeqProperties DEF n
<1>5. Len(rest) = n
  <2>. HIDE DEF n, rest
  <2>. QED  BY <1>3, <1>4
<1>6. \A i \in 1 .. n : rest[i] = stk[i]
  <2>. HIDE DEF n, rest
  <2>1. \A i \in 1 .. n : i \in 1 .. n - 1 + 1 /\ 1 + i - 1 = i
    BY <1>3
  <2>. QED  BY <2>1, <1>4
<1>. QED  BY <1>1, <1>5, <1>6

LEMMA PopKeepsInv == ASSUME IInv, NEW t \in Threads, Pop(t) PROVE IInv'
<1>1. TypeOK'
  BY TypeNext DEF IInv, Next, WorkerStep
<1>2. /\ stack \in Seq(Segment) /\ stack # <<>> /\ Len(stack) \in Nat
      /\ stack' = SubSeq(stack, 1, Len(stack) - 1)
      /\ seg' = [seg EXCEPT ![t] = stack[Len(stack)]]
      /\ seg \in [Threads -> Segment \cup {NoPair}]
      /\ pc \in [Threads -> WorkerPC]
      /\ busy \in [Threads -> BOOLEAN]
  BY DEF IInv, TypeOK, Pop
<1>3. /\ Len(stack) >= 1
      /\ Len(stack') = Len(stack) - 1
      /\ \A i \in 1 .. Len(stack') : i \in 1 .. Len(stack) /\ stack'[i] = stack[i]
      /\ \A i \in 1 .. Len(stack') : i # Len(stack)
  <2>1. stack \in Seq(Segment) /\ stack # <<>>
    BY <1>2
  <2>2. stack' = SubSeq(stack, 1, Len(stack) - 1)
    BY <1>2
  <2>3. /\ Len(stack) \in Nat \ {0}
        /\ Len(stack') = Len(stack) - 1
        /\ \A i \in 1 .. Len(stack) - 1 : stack'[i] = stack[i]
    BY <2>1, <2>2, PoppedStack
  <2>. QED  BY <2>3
<1>4. /\ pc[t] = "loop"
      /\ pc' = [pc EXCEPT ![t] = "part"]
      /\ busy' = [busy EXCEPT ![t] = TRUE]
  BY DEF Pop
<1>5. /\ ~Holds(t) /\ Holds(t)'
      /\ \A u \in Threads \ {t} : Holds(u)' <=> Holds(u)
      /\ \A u \in Threads \ {t} : seg'[u] = seg[u]
      /\ seg'[t] = stack[Len(stack)]
  BY <1>2, <1>4 DEF Holds
<1>6. BusyExact'
  BY <1>2, <1>4, <1>5 DEF BusyExact, IInv
<1>7. SegmentsApart'
  <2>1. \A i, j \in 1 .. Len(stack') : i # j => Apart(stack'[i], stack'[j])
    BY <1>3 DEF IInv, SegmentsApart
  <2>2. \A u \in Threads, i \in 1 .. Len(stack') :
           Holds(u)' => Apart(seg'[u], stack'[i])
    BY <1>3, <1>5 DEF IInv, SegmentsApart
  <2>3. ASSUME NEW u \in Threads, NEW v \in Threads, u # v, Holds(u)', Holds(v)'
        PROVE  Apart(seg'[u], seg'[v])
    <3>1. CASE u # t /\ v # t
      BY <2>3, <3>1, <1>5 DEF IInv, SegmentsApart
    <3>2. CASE v = t
      BY <2>3, <3>2, <1>3, <1>5 DEF IInv, SegmentsApart
    <3>3. CASE u = t
      <4>1. Apart(seg[v], stack[Len(stack)])
        BY <2>3, <3>3, <1>3, <1>5 DEF IInv, SegmentsApart
      <4>. QED  BY <2>3, <3>3, <4>1, <1>5 DEF Apart
    <3>. QED  BY <3>1, <3>2, <3>3
  <2>. QED  BY <2>1, <2>2, <2>3 DEF SegmentsApart, Holds
<1>8. ExitOnlyWhenDone'
  <2>1. \A u \in Threads : pc[u] # "exited"
    BY <1>2 DEF IInv, ExitOnlyWhenDone, WorkDone
  <2>. QED  BY <1>2, <1>4, <2>1 DEF ExitOnlyWhenDone
<1>9. SomeoneIsAwake'
  BY <1>2, <1>4 DEF SomeoneIsAwake
<1>10. NotYetCreated'
  BY <1>2, <1>4, TypeOK DEF IInv, NotYetCreated, Pop
<1>. QED  BY <1>10, <1>1, <1>6, <1>7, <1>8, <1>9 DEF IInv

LEMMA PushKeepsInv == ASSUME IInv, NEW t \in Threads, Push(t) PROVE IInv'
<1>1. TypeOK'
  BY TypeNext DEF IInv, Next, WorkerStep
<1>2. /\ pc[t] = "push"
      /\ pc' = [pc EXCEPT ![t] = "loop"]
      /\ busy' = [busy EXCEPT ![t] = FALSE]
      /\ seg' = [seg EXCEPT ![t] = NoPair]
      /\ seg \in [Threads -> Segment \cup {NoPair}]
      /\ pc \in [Threads -> WorkerPC]
      /\ busy \in [Threads -> BOOLEAN]
      /\ stack \in Seq(Segment)
      /\ TypeOK
  BY DEF IInv, TypeOK, Push
<1>3. /\ Holds(t) /\ ~Holds(t)'
      /\ \A u \in Threads \ {t} : Holds(u)' <=> Holds(u)
      /\ \A u \in Threads \ {t} : seg'[u] = seg[u]
  BY <1>2 DEF Holds
<1>4. BusyExact'
  BY <1>2, <1>3 DEF BusyExact, IInv
<1>5. /\ seg[t] \in Segment
      /\ cut[t] \in Cut(seg[t])
      /\ stack' \in Seq(Segment)
      /\ Len(stack) \in Nat
      /\ Len(stack') \in Nat
      /\ Len(stack) <= Len(stack')
      /\ \A i \in 1 .. Len(stack) : stack'[i] = stack[i]
      /\ \A i \in Len(stack) + 1 .. Len(stack') :
            stack'[i] \in {LowPart(t), HighPart(t)}
      /\ \A i, j \in Len(stack) + 1 .. Len(stack') :
            i # j => stack'[i] # stack'[j]
  BY <1>2, PushedParts
<1>6. ASSUME NEW r \in Segment
      PROVE  /\ Apart(seg[t], r) <=> Apart(r, seg[t])
             /\ Apart(seg[t], r) => /\ Apart(LowPart(t), r)
                                       /\ Apart(HighPart(t), r)
                                       /\ Apart(r, LowPart(t))
                                       /\ Apart(r, HighPart(t))
             /\ Apart(LowPart(t), HighPart(t))
             /\ Apart(HighPart(t), LowPart(t))
  BY <1>5, PartsApart DEF LowPart, HighPart
<1>7. SegmentsApart'
  <2>1. ASSUME NEW i \in 1 .. Len(stack'), NEW j \in 1 .. Len(stack'), i # j
        PROVE  Apart(stack'[i], stack'[j])
    <3>1. CASE i <= Len(stack) /\ j <= Len(stack)
      BY <2>1, <3>1, <1>5 DEF IInv, SegmentsApart
    <3>2. CASE i <= Len(stack) /\ j > Len(stack)
      <4>1. i \in 1 .. Len(stack) /\ stack'[i] = stack[i] /\ stack[i] \in Segment
        BY <3>2, <1>2, <1>5
      <4>2. stack'[j] \in {LowPart(t), HighPart(t)}
        BY <3>2, <1>5
      <4>3. Apart(seg[t], stack[i])
        BY <4>1, <1>3 DEF IInv, SegmentsApart
      <4>. QED  BY <4>1, <4>2, <4>3, <1>6
    <3>3. CASE i > Len(stack) /\ j <= Len(stack)
      <4>1. j \in 1 .. Len(stack) /\ stack'[j] = stack[j] /\ stack[j] \in Segment
        BY <3>3, <1>2, <1>5
      <4>2. stack'[i] \in {LowPart(t), HighPart(t)}
        BY <3>3, <1>5
      <4>3. Apart(seg[t], stack[j])
        BY <4>1, <1>3 DEF IInv, SegmentsApart
      <4>. QED  BY <4>1, <4>2, <4>3, <1>6
    <3>4. CASE i > Len(stack) /\ j > Len(stack)
      <4>1. /\ stack'[i] \in {LowPart(t), HighPart(t)}
            /\ stack'[j] \in {LowPart(t), HighPart(t)}
            /\ stack'[i] # stack'[j]
        BY <2>1, <3>4, <1>5
      <4>. QED  BY <4>1, <1>5, <1>6
    <3>. QED  BY <3>1, <3>2, <3>3, <3>4, <1>5
  <2>2. ASSUME NEW u \in Threads, NEW i \in 1 .. Len(stack'), Holds(u)'
        PROVE  Apart(seg'[u], stack'[i])
    <3>1. u # t /\ Holds(u) /\ seg'[u] = seg[u] /\ seg[u] \in Segment
      BY <2>2, <1>2, <1>3 DEF TypeOK
    <3>2. CASE i <= Len(stack)
      BY <3>1, <3>2, <1>5 DEF IInv, SegmentsApart
    <3>3. CASE i > Len(stack)
      <4>1. stack'[i] \in {LowPart(t), HighPart(t)}
        BY <3>3, <1>5
      <4>2. Apart(seg[t], seg[u])
        BY <3>1, <1>3 DEF IInv, SegmentsApart
      <4>. QED  BY <3>1, <4>1, <4>2, <1>6
    <3>. QED  BY <3>2, <3>3, <1>5
  <2>3. ASSUME NEW u \in Threads, NEW v \in Threads, u # v, Holds(u)', Holds(v)'
        PROVE  Apart(seg'[u], seg'[v])
    BY <2>3, <1>3 DEF IInv, SegmentsApart
  <2>. QED  BY <2>1, <2>2, <2>3 DEF SegmentsApart, Holds
<1>8. ExitOnlyWhenDone'
  <2>1. \A u \in Threads : pc[u] # "exited"
    BY <1>3 DEF IInv, ExitOnlyWhenDone, WorkDone
  <2>. QED  BY <1>2, <2>1 DEF ExitOnlyWhenDone
<1>9. SomeoneIsAwake'
  BY <1>2 DEF SomeoneIsAwake
<1>10. NotYetCreated'
  BY <1>2, TypeOK DEF IInv, NotYetCreated, Push
<1>. QED  BY <1>10, <1>1, <1>4, <1>7, <1>8, <1>9 DEF IInv

LEMMA StepKeepsInv == IInv /\ [Next]_ctl => IInv'
<1> SUFFICES ASSUME IInv, [Next]_ctl PROVE IInv'
  OBVIOUS
<1>1. TypeOK /\ TypeOK'
  BY TypeNext DEF IInv
<1>2. /\ next \in Threads
      /\ pc \in [Threads -> WorkerPC]
      /\ busy \in [Threads -> BOOLEAN]
  BY <1>1 DEF TypeOK
<1>3. CASE CreateThread
  <2>1. pc' = [pc EXCEPT ![next] = "loop"] /\ UNCHANGED <<stack, busy, seg>>
    BY <1>3 DEF CreateThread
  <2>2. NotYetCreated' /\ ~Holds(next)
    <3>1. next \in Nat /\ \A t \in Threads : t \in Nat
      BY <1>2 DEF Threads
    <3>2. \A t \in Threads : t >= next + 1 => t >= next /\ t # next
      BY <3>1
    <3>3. next >= next /\ main = "create" /\ pc[next] = "new"
      BY <1>2, <1>3, <3>1 DEF IInv, NotYetCreated, CreateThread
    <3>. QED
      BY <1>2, <1>3, <2>1, <3>2, <3>3 DEF IInv, NotYetCreated, CreateThread, Holds
  <2>3. IInv'
    <3>1. \A t \in Threads : Holds(t)' <=> Holds(t)
      BY <1>2, <2>1, <2>2 DEF Holds
    <3>2. BusyExact' /\ SegmentsApart' /\ (WorkDone' <=> WorkDone)
      BY <2>1, <3>1, NothingMoves
    <3>3. ExitOnlyWhenDone'
      BY <1>2, <2>1, <3>2 DEF IInv, ExitOnlyWhenDone
    <3>4. SomeoneIsAwake'
      BY <1>2, <2>1 DEF SomeoneIsAwake
    <3>. QED  BY <1>1, <2>2, <3>2, <3>3, <3>4 DEF IInv
  <2>. QED  BY <2>3
<1>4. CASE CreateFails \/ JoinThread
  <2>1. UNCHANGED <<pc, stack, busy, seg>>
    BY <1>4 DEF CreateFails, JoinThread
  <2>2. BusyExact' /\ SegmentsApart' /\ (WorkDone' <=> WorkDone)
    BY <2>1, NothingMoves DEF Holds
  <2>3. NotYetCreated'
    BY <1>4 DEF IInv, NotYetCreated, CreateFails, JoinThread
  <2>. QED  BY <1>1, <2>1, <2>2, <2>3 DEF IInv, ExitOnlyWhenDone, SomeoneIsAwake
<1>5. ASSUME NEW t \in Threads, GoToSleep(t) PROVE IInv'
  <2>1. /\ pc' = [pc EXCEPT ![t] = "wait"] /\ pc[t] = "loop" /\ Working
        /\ UNCHANGED <<stack, busy, seg>>
    BY <1>5 DEF GoToSleep
  <2>2. \A u \in Threads : Holds(u)' <=> Holds(u)
    BY <1>2, <2>1 DEF Holds
  <2>7. NotYetCreated'
    BY <1>2, <1>5, <2>1 DEF IInv, NotYetCreated, GoToSleep
  <2>3. BusyExact' /\ SegmentsApart' /\ (WorkDone' <=> WorkDone)
    BY <2>1, <2>2, NothingMoves
  <2>4. ExitOnlyWhenDone'
    BY <1>2, <2>1, <2>3 DEF IInv, ExitOnlyWhenDone
  <2>5. PICK u \in Threads : Holds(u)
    BY <2>1 DEF Working, IInv, BusyExact
  <2>6. SomeoneIsAwake'
    BY <1>2, <2>1, <2>5 DEF SomeoneIsAwake, Holds
  <2>. QED  BY <1>1, <2>7, <2>3, <2>4, <2>6 DEF IInv
<1>6. ASSUME NEW t \in Threads, ExitThread(t) PROVE IInv'
  <2>1. /\ pc' = [pc EXCEPT ![t] = "exited"] /\ pc[t] = "loop" /\ ~Working
        /\ stack = <<>>
        /\ UNCHANGED <<stack, busy, seg>>
    BY <1>6 DEF ExitThread
  <2>2. \A u \in Threads : Holds(u)' <=> Holds(u)
    BY <1>2, <2>1 DEF Holds
  <2>7. NotYetCreated'
    BY <1>2, <1>6, <2>1 DEF IInv, NotYetCreated, ExitThread
  <2>3. BusyExact' /\ SegmentsApart' /\ (WorkDone' <=> WorkDone)
    BY <2>1, <2>2, NothingMoves
  <2>4. WorkDone
    BY <2>1 DEF Working, WorkDone, IInv, BusyExact
  <2>. QED  BY <1>1, <2>7, <2>3, <2>4 DEF IInv, ExitOnlyWhenDone, SomeoneIsAwake
<1>7. ASSUME NEW t \in Threads, WakeUp(t) PROVE IInv'
  <2>1. /\ pc' = [pc EXCEPT ![t] = "loop"] /\ pc[t] = "wait"
        /\ UNCHANGED <<stack, busy, seg>>
    BY <1>7 DEF WakeUp
  <2>2. \A u \in Threads : Holds(u)' <=> Holds(u)
    BY <1>2, <2>1 DEF Holds
  <2>7. NotYetCreated'
    BY <1>2, <1>7, <2>1 DEF IInv, NotYetCreated, WakeUp
  <2>3. BusyExact' /\ SegmentsApart' /\ (WorkDone' <=> WorkDone)
    BY <2>1, <2>2, NothingMoves
  <2>4. ExitOnlyWhenDone'
    BY <1>2, <2>1, <2>3 DEF IInv, ExitOnlyWhenDone
  <2>5. SomeoneIsAwake'
    BY <1>2, <2>1 DEF SomeoneIsAwake
  <2>. QED  BY <1>1, <2>7, <2>3, <2>4, <2>5 DEF IInv
<1>8. ASSUME NEW t \in Threads, Partition(t) PROVE IInv'
  <2>1. /\ pc' = [pc EXCEPT ![t] = "push"] /\ pc[t] = "part"
        /\ UNCHANGED <<stack, busy, seg>>
    BY <1>8 DEF Partition, PartitionInto
  <2>2. \A u \in Threads : Holds(u)' <=> Holds(u)
    BY <1>2, <2>1 DEF Holds
  <2>7. NotYetCreated'
    BY <1>2, <1>8, <2>1 DEF IInv, NotYetCreated, Partition, PartitionInto
  <2>3. BusyExact' /\ SegmentsApart' /\ (WorkDone' <=> WorkDone)
    BY <2>1, <2>2, NothingMoves
  <2>4. ExitOnlyWhenDone'
    BY <1>2, <2>1, <2>3 DEF IInv, ExitOnlyWhenDone
  <2>5. SomeoneIsAwake'
    BY <1>2, <2>1 DEF SomeoneIsAwake
  <2>. QED  BY <1>1, <2>7, <2>3, <2>4, <2>5 DEF IInv
<1>9. ASSUME NEW t \in Threads, Pop(t) PROVE IInv'
  BY <1>9, PopKeepsInv
<1>10. ASSUME NEW t \in Threads, Push(t) PROVE IInv'
  BY <1>10, PushKeepsInv
<1>11. CASE UNCHANGED ctl
  <2>1. UNCHANGED <<pc, stack, busy, seg>>
    BY <1>11 DEF ctl
  <2>2. BusyExact' /\ SegmentsApart' /\ (WorkDone' <=> WorkDone)
    BY <2>1, NothingMoves DEF Holds
  <2>3. NotYetCreated'
    BY <1>11 DEF IInv, NotYetCreated, ctl
  <2>. QED  BY <1>1, <2>1, <2>2, <2>3 DEF IInv, ExitOnlyWhenDone, SomeoneIsAwake
<1>. QED
  BY <1>3, <1>4, <1>5, <1>6, <1>7, <1>8, <1>9, <1>10, <1>11
     DEF Next, MainStep, WorkerStep

LEMMA InvCorrect == Spec => []IInv
  BY InvInit, StepKeepsInv, PTL DEF Spec

(* Segments that are apart share no element.                                 *)
LEMMA ApartDisjoint == IInv => SegmentsDisjoint
<1> SUFFICES ASSUME IInv PROVE SegmentsDisjoint
  OBVIOUS
<1>1. \A r, s \in Segment : Apart(r, s) => Disjoint(r, s)
  BY SizeAssumption DEF Segment, Index, Apart, Disjoint
<1>2. /\ \A i \in 1 .. Len(stack) : stack[i] \in Segment
      /\ \A t \in Threads : Holds(t) => seg[t] \in Segment
  BY DEF IInv, TypeOK
<1>. QED  BY <1>1, <1>2 DEF IInv, SegmentsApart, SegmentsDisjoint

(* No two of the segments on the stack and in the workers' hands share an    *)
(* element, so the workers' accesses to the array outside the mutex never    *)
(* conflict.                                                                 *)
THEOREM SegmentsAreDisjoint == Spec => []SegmentsDisjoint
  BY InvCorrect, ApartDisjoint, PTL

(* When a worker has left, no segment is on the stack or in work.            *)
THEOREM ExitDetectsTheEnd == Spec => []ExitOnlyWhenDone
  BY InvCorrect, PTL DEF IInv

(* The workers never all sleep while there is something to sort.             *)
THEOREM WorkIsNoticed == Spec => []SomeoneIsAwake
  BY InvCorrect, PTL DEF IInv
-----------------------------------------------------------------------------
(* The elements of a segment on the stack that no other one has: its first   *)
(* two and the one behind its last, the pivot or the end of the array.       *)
Claim(i, k) == CASE k = 0 -> stack[i][1]
                 [] k = 1 -> stack[i][1] + 1
                 [] k = 2 -> stack[i][2] + 1

LEMMA ClaimIsNear ==
  ASSUME NEW i, NEW k \in 0 .. 2,
         stack[i][1] \in Int, stack[i][2] \in Int, stack[i][1] < stack[i][2]
  PROVE  /\ stack[i][1] <= Claim(i, k) /\ Claim(i, k) <= stack[i][2] + 1
         /\ Claim(i, k) \in Int
<1>1. k = 0 \/ k = 1 \/ k = 2
  OBVIOUS
<1>2. CASE k = 0
  BY <1>2 DEF Claim
<1>3. CASE k = 1
  BY <1>3 DEF Claim
<1>4. CASE k = 2
  BY <1>4 DEF Claim
<1>. QED  BY <1>1, <1>2, <1>3, <1>4

LEMMA ClaimsDiffer ==
  ASSUME IInv, NEW i \in 1 .. Len(stack), NEW j \in 1 .. Len(stack),
         NEW k \in 0 .. 2, NEW m \in 0 .. 2, i # j \/ k # m
  PROVE  Claim(i, k) # Claim(j, m)
<1>1. stack[i] \in Segment /\ stack[j] \in Segment
  BY DEF IInv, TypeOK
<1>2. i # j => Apart(stack[i], stack[j])
  BY DEF IInv, SegmentsApart
<1>3. /\ stack[i][1] \in Int /\ stack[i][2] \in Int /\ stack[i][1] < stack[i][2]
      /\ stack[j][1] \in Int /\ stack[j][2] \in Int /\ stack[j][1] < stack[j][2]
  BY <1>1 DEF Segment, Index
<1>4. k \in {0, 1, 2} /\ m \in {0, 1, 2}
  OBVIOUS
<1>5. CASE i = j
  BY <1>3, <1>4, <1>5 DEF Claim
<1>6. CASE i # j
  <2>1. \/ stack[i][2] + 1 < stack[j][1]
        \/ stack[j][2] + 1 < stack[i][1]
    BY <1>2, <1>6 DEF Apart
  <2>2. /\ stack[i][1] <= Claim(i, k) /\ Claim(i, k) <= stack[i][2] + 1
        /\ Claim(i, k) \in Int
    BY <1>3, ClaimIsNear
  <2>3. /\ stack[j][1] <= Claim(j, m) /\ Claim(j, m) <= stack[j][2] + 1
        /\ Claim(j, m) \in Int
    BY <1>3, ClaimIsNear
  <2>4. /\ stack[i][1] \in Int /\ stack[i][2] \in Int
        /\ stack[j][1] \in Int /\ stack[j][2] \in Int
    BY <1>3
  <2>. HIDE DEF Claim
  <2>5. CASE stack[i][2] + 1 < stack[j][1]
    BY <2>2, <2>3, <2>4, <2>5
  <2>6. CASE stack[j][2] + 1 < stack[i][1]
    BY <2>2, <2>3, <2>4, <2>6
  <2>. QED  BY <2>1, <2>5, <2>6
<1>. QED  BY <1>5, <1>6

LEMMA ClaimInArray ==
  ASSUME IInv, NEW i \in 1 .. Len(stack), NEW k \in 0 .. 2
  PROVE  Claim(i, k) \in 0 .. Size
<1>1. stack[i] \in Segment
  BY DEF IInv, TypeOK
<1>2. k \in {0, 1, 2}
  OBVIOUS
<1>. QED  BY <1>1, <1>2, SizeAssumption DEF Segment, Index, Claim

LEMMA IntervalCount ==
  ASSUME NEW m \in Int, NEW n \in Int, m <= n + 1
  PROVE  IsFiniteSet(m .. n) /\ Cardinality(m .. n) = n - m + 1
<1>1. /\ IsFiniteSet(m .. n)
      /\ Cardinality(m .. n) = IF m > n THEN 0 ELSE n - m + 1
  BY FS_Interval
<1>. QED  BY <1>1

(* Three claims for each segment, and Size + 1 places for all of them.       *)
LEMMA StackFits == IInv => StackBounded
<1> SUFFICES ASSUME IInv PROVE StackBounded
  OBVIOUS
<1> DEFINE L == Len(stack)
           S == (1 .. L) \X (0 .. 2)
           T == 0 .. Size
           f == [p \in S |-> Claim(p[1], p[2])]
<1>1. L \in Nat
  BY DEF IInv, TypeOK
<1>2. f \in [S -> T]
  BY ClaimInArray
<1>3. \A p, q \in S : p # q => f[p] # f[q]
  <2> SUFFICES ASSUME NEW p \in S, NEW q \in S, p # q PROVE f[p] # f[q]
    OBVIOUS
  <2>1. PICK i \in 1 .. L, k \in 0 .. 2 : p = <<i, k>>
    OBVIOUS
  <2>2. PICK j \in 1 .. L, m \in 0 .. 2 : q = <<j, m>>
    OBVIOUS
  <2>3. Claim(i, k) # Claim(j, m)
    BY <2>1, <2>2, ClaimsDiffer
  <2>. QED  BY <2>1, <2>2, <2>3
<1>4. /\ IsFiniteSet(1 .. L) /\ Cardinality(1 .. L) = L
      /\ IsFiniteSet(0 .. 2) /\ Cardinality(0 .. 2) = 3
      /\ IsFiniteSet(T) /\ Cardinality(T) = Size + 1
  <2>1. 1 <= L + 1 /\ L - 1 + 1 = L /\ 0 <= 2 + 1 /\ 2 - 0 + 1 = 3
    BY <1>1
  <2>2. Size \in Int /\ 0 <= Size + 1 /\ Size - 0 + 1 = Size + 1
    BY SizeAssumption
  <2>3. IsFiniteSet(1 .. L) /\ Cardinality(1 .. L) = L
    BY <1>1, <2>1, IntervalCount
  <2>4. IsFiniteSet(0 .. 2) /\ Cardinality(0 .. 2) = 3
    <3>1. 0 \in Int /\ 2 \in Int
      OBVIOUS
    <3>2. IsFiniteSet(0 .. 2) /\ Cardinality(0 .. 2) = 2 - 0 + 1
      BY <2>1, <3>1, IntervalCount, Zenon
    <3>. QED  BY <3>2
  <2>5. IsFiniteSet(T) /\ Cardinality(T) = Size + 1
    BY <2>2, IntervalCount
  <2>. QED  BY <2>3, <2>4, <2>5
<1>5. IsFiniteSet(S) /\ Cardinality(S) = L * 3
  <2>1. /\ IsFiniteSet((1 .. L) \X (0 .. 2))
        /\ Cardinality((1 .. L) \X (0 .. 2)) = Cardinality(1 .. L) * Cardinality(0 .. 2)
    BY <1>4, FS_Product, Zenon
  <2>. QED  BY <1>4, <2>1
<1>6. Cardinality(S) <= Cardinality(T)
  <2> HIDE DEF S, T, f
  <2>1. \A p, q \in S : f[p] = f[q] => p = q
    BY <1>3
  <2>2. IsFiniteSet(S) /\ IsFiniteSet(T) /\ f \in [S -> T]
    BY <1>2, <1>4, <1>5
  <2>3. ~(Cardinality(T) < Cardinality(S))
    <3> SUFFICES ASSUME Cardinality(T) < Cardinality(S) PROVE FALSE
      OBVIOUS
    <3>1. \E p, q \in S : p # q /\ f[p] = f[q]
      BY <2>2, FS_PigeonHole
    <3>. QED  BY <2>1, <3>1
  <2>. QED  BY <1>1, <1>4, <1>5, <2>3, SizeAssumption
<1>. QED  BY <1>1, <1>4, <1>5, <1>6, SizeAssumption DEF StackBounded

(* However many workers there are, the stack never holds more than a third  *)
(* as many segments as the array has elements: this is what size            *)
(* qsort_stack[4096] is enough for.                                          *)
THEOREM StackStaysSmall == Spec => []StackBounded
  BY InvCorrect, StackFits, PTL
-----------------------------------------------------------------------------
(* Every step of ThreadQSort is one of QSortThreads.                        *)
LEMMA SortStep == [SortNext]_sortVars => [Next]_ctl
  BY DEF SortNext, Next, MainStep, ControlStep, WorkerStep, SortPartition,
         Partition, sortVars, ctl

(* bl_thread_qsort with its array is bl_thread_qsort: what QSortThreads      *)
(* promises of the control holds of the sort.                                *)
THEOREM SortImplementsThreads == SortSpec => Spec
<1>1. SortInit => Init
  BY DEF SortInit
<1>. QED  BY <1>1, SortStep, PTL DEF SortSpec, Spec

-----------------------------------------------------------------------------
(* The array as an array, and as a rearrangement of the input.               *)
LEMMA RearrangedType ==
  ASSUME NEW a \in [Index -> Value], NEW s \in Segment,
         NEW p \in Shuffles(s[1] .. s[2])
  PROVE  /\ Rearranged(a, s, p) \in [Index -> Value]
         /\ \A i \in Index :
               IF InSegment(i, s)
                 THEN /\ p[i] \in Index /\ InSegment(p[i], s)
                      /\ Rearranged(a, s, p)[i] = a[p[i]]
                 ELSE Rearranged(a, s, p)[i] = a[i]
<1>1. ASSUME NEW i \in Index, InSegment(i, s)
      PROVE  p[i] \in Index /\ InSegment(p[i], s)
  <2>1. i \in s[1] .. s[2]
    BY <1>1 DEF InSegment, Index, Segment
  <2>2. p[i] \in s[1] .. s[2]
    BY <2>1 DEF Shuffles
  <2>. QED  BY <2>2, SizeAssumption DEF InSegment, Index, Segment
<1>. QED  BY <1>1 DEF Rearranged

LEMMA WholeSegment ==
  /\ Whole \in Segment
  /\ \A i \in Index : InSegment(i, Whole)
  /\ Whole[1] .. Whole[2] = Index
  BY SizeAssumption DEF Whole, Segment, Index, InSegment

(* Rearranging a part of a rearrangement gives a rearrangement.              *)
LEMMA ShufflesCompose ==
  ASSUME NEW s \in Segment, NEW p \in Shuffles(s[1] .. s[2]),
         NEW q \in Shuffles(Index)
  PROVE  [i \in Index |-> IF InSegment(i, s) THEN q[p[i]] ELSE q[i]]
            \in Shuffles(Index)
<1> DEFINE r == [i \in Index |-> IF InSegment(i, s) THEN q[p[i]] ELSE q[i]]
<1>1. ASSUME NEW i \in Index, InSegment(i, s)
      PROVE  i \in s[1] .. s[2] /\ p[i] \in Index /\ InSegment(p[i], s)
  <2>1. i \in s[1] .. s[2]
    BY <1>1 DEF InSegment, Index, Segment
  <2>2. p[i] \in s[1] .. s[2]
    BY <2>1 DEF Shuffles
  <2>. QED  BY <2>1, <2>2, SizeAssumption DEF InSegment, Index, Segment
<1>2. \A i, j \in Index : q[i] \in Index /\ (q[i] = q[j] => i = j)
  BY DEF Shuffles
<1>3. \A i, j \in s[1] .. s[2] : p[i] = p[j] => i = j
  BY DEF Shuffles
<1>4. r \in [Index -> Index]
  BY <1>1, <1>2
<1>5. ASSUME NEW i \in Index, NEW j \in Index, r[i] = r[j] PROVE i = j
  <2>1. CASE InSegment(i, s) /\ InSegment(j, s)
    BY <2>1, <1>1, <1>2, <1>3, <1>5
  <2>2. CASE InSegment(i, s) /\ ~InSegment(j, s)
    BY <2>2, <1>1, <1>2, <1>5
  <2>3. CASE ~InSegment(i, s) /\ InSegment(j, s)
    BY <2>3, <1>1, <1>2, <1>5
  <2>4. CASE ~InSegment(i, s) /\ ~InSegment(j, s)
    BY <2>4, <1>2, <1>5
  <2>. QED  BY <2>1, <2>2, <2>3, <2>4
<1>. HIDE DEF r
<1>6. r \in Shuffles(Index)
  BY <1>4, <1>5 DEF Shuffles
<1>. QED  BY <1>6 DEF r

(* What a partition does to the array, element by element.                   *)
LEMMA PartitionedArray ==
  ASSUME TypeOK, ArrayOK, NEW t \in Threads, NEW c \in Cut(seg[t]),
         PartitionInto(t, c), NEW p \in Orders[seg[t]],
         arr' = Rearranged(arr, seg[t], p)
  PROVE  /\ seg[t] \in Segment
         /\ p \in Shuffles(seg[t][1] .. seg[t][2])
         /\ arr' \in [Index -> Value]
         /\ \A i \in Index :
               IF InSegment(i, seg[t])
                 THEN \E k \in Index : /\ InSegment(k, seg[t])
                                       /\ arr'[i] = arr[k]
                 ELSE arr'[i] = arr[i]
<1>1. seg[t] \in Segment
  BY DEF TypeOK, PartitionInto, Holds
<1>2. p \in Shuffles(seg[t][1] .. seg[t][2])
  BY <1>1 DEF Orders
<1>3. arr \in [Index -> Value]
  BY DEF ArrayOK
<1>. QED  BY <1>1, <1>2, <1>3, RearrangedType

LEMMA ArrayInit == SortInit => ArrayOK /\ KeepsElements
<1> SUFFICES ASSUME SortInit PROVE ArrayOK /\ KeepsElements
  OBVIOUS
<1>1. arr \in [Index -> Value] /\ input = arr
  BY DEF SortInit
<1> DEFINE id == [i \in Index |-> i]
<1>2. id \in Shuffles(Index)
  BY DEF Shuffles
<1>3. id \in Orders[Whole]
  BY <1>2, WholeSegment DEF Orders
<1>4. Rearranged(input, Whole, id) = arr
  BY <1>1, WholeSegment DEF Rearranged
<1>. QED  BY <1>1, <1>3, <1>4 DEF ArrayOK, KeepsElements

LEMMA ArrayNext ==
  TypeOK /\ ArrayOK /\ KeepsElements /\ [SortNext]_sortVars
    => ArrayOK' /\ KeepsElements'
<1> SUFFICES ASSUME TypeOK, ArrayOK, KeepsElements, [SortNext]_sortVars
             PROVE  ArrayOK' /\ KeepsElements'
  OBVIOUS
<1>1. CASE UNCHANGED <<arr, input>>
  BY <1>1 DEF ArrayOK, KeepsElements
<1>2. ASSUME NEW t \in Threads, SortPartition(t)
      PROVE  ArrayOK' /\ KeepsElements'
  <2>1. PICK c \in Cut(seg[t]) :
           /\ PartitionInto(t, c)
           /\ \E p \in Orders[seg[t]] : arr' = Rearranged(arr, seg[t], p)
           /\ UNCHANGED input
    BY <1>2 DEF SortPartition
  <2>2. PICK p \in Orders[seg[t]] : arr' = Rearranged(arr, seg[t], p)
    BY <2>1
  <2>3. /\ seg[t] \in Segment
        /\ p \in Shuffles(seg[t][1] .. seg[t][2])
        /\ arr' \in [Index -> Value]
    BY <2>1, <2>2, PartitionedArray
  <2>4. ArrayOK'
    BY <2>1, <2>3 DEF ArrayOK
  <2>5. PICK q \in Shuffles(Index) : arr = Rearranged(input, Whole, q)
    BY WholeSegment DEF KeepsElements, Orders
  <2> DEFINE r == [i \in Index |-> IF InSegment(i, seg[t]) THEN q[p[i]] ELSE q[i]]
  <2>6. r \in Shuffles(Index)
    BY <2>3, ShufflesCompose
  <2>7. arr \in [Index -> Value] /\ input \in [Index -> Value]
    BY DEF ArrayOK
  <2>8. \A i \in Index : arr[i] = input[q[i]]
    BY <2>5, <2>7, WholeSegment DEF Rearranged
  <2>9. arr' = [i \in Index |-> input[r[i]]]
    <3>1. \A i \in Index : InSegment(i, seg[t]) => p[i] \in Index
      BY <2>3, <2>7, RearrangedType
    <3>2. \A i \in Index : arr'[i] = input[r[i]]
      BY <2>2, <2>7, <2>8, <3>1 DEF Rearranged
    <3>. QED  BY <2>3, <3>2
  <2>10. arr' = Rearranged(input, Whole, r)
    BY <2>7, <2>9, WholeSegment DEF Rearranged
  <2>11. r \in Orders[Whole]
    BY <2>6, WholeSegment DEF Orders
  <2>12. KeepsElements'
    <3>. HIDE DEF r
    <3>1. \E x \in Orders[Whole] : arr' = Rearranged(input, Whole, x)
      BY <2>10, <2>11
    <3>. QED  BY <2>1, <3>1 DEF KeepsElements, Orders
  <2>. QED  BY <2>4, <2>12
<1>. QED  BY <1>1, <1>2 DEF SortNext, sortVars

LEMMA ArrayCorrect == SortSpec => [](ArrayOK /\ KeepsElements)
<1>1. SortSpec => []TypeOK
  BY SortImplementsThreads, TypeCorrect, PTL
<1>. QED  BY <1>1, ArrayInit, ArrayNext, PTL DEF SortSpec

(* No element is ever lost or duplicated.                                    *)
THEOREM ElementsAreKept == SortSpec => []KeepsElements
  BY ArrayCorrect, PTL
-----------------------------------------------------------------------------
(* Two elements that one open segment holds. *)
Together(i, j) == \E s \in Open : InSegment(i, s) /\ InSegment(j, s)

LEMMA OpenMembers ==
  ASSUME NEW s
  PROVE  s \in Open <=> \/ \E i \in 1 .. Len(stack) : s = stack[i]
                        \/ \E u \in Threads : pc[u] = "part" /\ s = seg[u]
                        \/ \E u \in Threads : pc[u] = "push" /\ s = LowPart(u)
                        \/ \E u \in Threads : pc[u] = "push" /\ s = HighPart(u)
  BY DEF Open

LEMMA OpenBounds ==
  ASSUME TypeOK, NEW s \in Open
  PROVE  s[1] \in Int /\ s[2] \in Int
<1>1. \A r \in Segment : r[1] \in Int /\ r[2] \in Int
  BY DEF Segment, Index
<1>2. ASSUME NEW i \in 1 .. Len(stack) PROVE stack[i] \in Segment
  BY DEF TypeOK
<1>3. ASSUME NEW u \in Threads, pc[u] = "part" PROVE seg[u] \in Segment
  BY <1>3 DEF TypeOK, Holds
<1>4. ASSUME NEW u \in Threads, pc[u] = "push"
      PROVE  /\ LowPart(u)[1] \in Int /\ LowPart(u)[2] \in Int
             /\ HighPart(u)[1] \in Int /\ HighPart(u)[2] \in Int
  <2>1. seg[u] \in Segment /\ cut[u] \in Cut(seg[u])
    BY <1>4 DEF TypeOK, Holds
  <2>2. cut[u][1] \in Int /\ cut[u][2] \in Int
    BY <2>1, SizeAssumption DEF Cut
  <2>. QED  BY <1>1, <2>1, <2>2 DEF LowPart, HighPart
<1>. QED  BY <1>1, <1>2, <1>3, <1>4, OpenMembers

(* When the array stays as it is, it is enough that no open segment of two   *)
(* elements or more disappears.                                              *)
LEMMA ApartKept ==
  ASSUME TypeOK, SortedApart, arr' = arr,
         \A s \in Open : SegLen(s) > QSORT_THRESHOLD => s \in Open'
  PROVE  SortedApart'
<1>1. ASSUME NEW i \in Index, NEW j \in Index, i < j, Together(i, j)
      PROVE  Together(i, j)'
  <2>1. PICK s \in Open : InSegment(i, s) /\ InSegment(j, s)
    BY <1>1 DEF Together
  <2>2. s[1] \in Int /\ s[2] \in Int
    BY OpenBounds
  <2>3. SegLen(s) > QSORT_THRESHOLD
    BY <1>1, <2>1, <2>2 DEF InSegment, SegLen, QSORT_THRESHOLD, Index
  <2>. QED  BY <2>1, <2>3 DEF Together
<1>. QED  BY <1>1 DEF SortedApart, Together

(* An open segment that shares an element with one in a worker's hands is    *)
(* that one.                                                                 *)
LEMMA OpenDisjoint ==
  ASSUME TypeOK, SegmentsDisjoint, NEW t \in Threads, pc[t] = "part",
         NEW s \in Open, NEW i \in Index, InSegment(i, s), InSegment(i, seg[t])
  PROVE  s = seg[t]
<1>1. ASSUME NEW r, r[1] \in Int, r[2] \in Int, InSegment(i, r),
             NEW q, q[1] \in Int, q[2] \in Int, InSegment(i, q)
      PROVE  ~Disjoint(q, r)
  BY <1>1 DEF InSegment, Disjoint, Index
<1>2. \A r \in Segment : r[1] \in Int /\ r[2] \in Int
  BY DEF Segment, Index
<1>3. seg[t] \in Segment /\ Holds(t)
  BY DEF TypeOK, Holds
<1>4. CASE \E k \in 1 .. Len(stack) : s = stack[k]
  <2>1. PICK k \in 1 .. Len(stack) : s = stack[k]
    BY <1>4
  <2>2. Disjoint(seg[t], s) /\ s \in Segment
    BY <1>3, <2>1 DEF SegmentsDisjoint, TypeOK
  <2>. QED  BY <1>1, <1>2, <1>3, <2>2
<1>5. ASSUME NEW u \in Threads, pc[u] = "part", s = seg[u]
      PROVE  s = seg[t]
  <2>1. Holds(u) /\ seg[u] \in Segment
    BY <1>5 DEF TypeOK, Holds
  <2>2. u # t => Disjoint(seg[t], seg[u])
    BY <1>3, <2>1 DEF SegmentsDisjoint
  <2>. QED  BY <1>1, <1>2, <1>3, <1>5, <2>1, <2>2
<1>6. ASSUME NEW u \in Threads, pc[u] = "push", s \in {LowPart(u), HighPart(u)}
      PROVE  s = seg[t]
  <2>1. Holds(u) /\ seg[u] \in Segment /\ cut[u] \in Cut(seg[u]) /\ u # t
    BY <1>6 DEF TypeOK, Holds
  <2>2. Disjoint(seg[u], seg[t])
    BY <1>3, <2>1 DEF SegmentsDisjoint
  <2>3. Disjoint(s, seg[t])
    <3>1. /\ Disjoint(<<seg[u][1], cut[u][1]>>, seg[t])
          /\ Disjoint(<<cut[u][2], seg[u][2]>>, seg[t])
      BY <1>3, <2>1, <2>2, SizeAssumption DEF Disjoint, Segment, Cut, Index
    <3>. QED  BY <1>6, <3>1 DEF LowPart, HighPart
  <2>4. s[1] \in Int /\ s[2] \in Int
    BY OpenBounds
  <2>. QED  BY <1>1, <1>2, <1>3, <2>3, <2>4
<1>. QED  BY <1>4, <1>5, <1>6, OpenMembers

(* A partition divides its segment; no two elements it puts on two sides of  *)
(* the cut are out of order.                                                 *)
LEMMA CutOrdered ==
  ASSUME NEW a \in [Index -> Value], NEW s \in Segment, NEW c \in Cut(s),
         Partitioned(a, s, c),
         NEW i \in Index, NEW j \in Index, i < j,
         InSegment(i, s), InSegment(j, s)
  PROVE  \/ a[i] <= a[j]
         \/ InSegment(i, <<s[1], c[1]>>) /\ InSegment(j, <<s[1], c[1]>>)
         \/ InSegment(i, <<c[2], s[2]>>) /\ InSegment(j, <<c[2], s[2]>>)
<1>1. PICK pivot \in {a[k] : k \in s[1] .. s[2]} :
         /\ \A k \in s[1] .. c[1] : a[k] < pivot
         /\ \A k \in c[1] + 1 .. c[2] - 1 : a[k] = pivot
         /\ \A k \in c[2] .. s[2] : a[k] > pivot
  BY DEF Partitioned
<1>2. s[1] \in Int /\ s[2] \in Int /\ c[1] \in Int /\ c[2] \in Int /\ i \in Int /\ j \in Int
  BY SizeAssumption DEF Segment, Cut, Index
<1>3. pivot \in Int /\ a[i] \in Int /\ a[j] \in Int
  <2>1. \A k \in s[1] .. s[2] : k \in Index
    BY SizeAssumption DEF Segment, Index
  <2>. QED  BY <2>1, ValueAssumption
<1>4. CASE i <= c[1] /\ c[1] < j
  BY <1>1, <1>2, <1>3, <1>4 DEF InSegment
<1>5. CASE c[1] < i /\ i < c[2]
  BY <1>1, <1>2, <1>3, <1>5 DEF InSegment
<1>6. CASE i <= c[1] /\ j <= c[1]
  BY <1>2, <1>6 DEF InSegment
<1>7. CASE c[2] <= i
  BY <1>2, <1>7 DEF InSegment
<1>. QED  BY <1>2, <1>4, <1>5, <1>6, <1>7

LEMMA ApartPop ==
  ASSUME IInv, SortedApart, NEW t \in Threads, Pop(t), arr' = arr
  PROVE  SortedApart'
<1>1. /\ TypeOK
      /\ stack \in Seq(Segment) /\ stack # <<>>
      /\ stack' = SubSeq(stack, 1, Len(stack) - 1)
      /\ seg' = [seg EXCEPT ![t] = stack[Len(stack)]]
      /\ pc' = [pc EXCEPT ![t] = "part"]
      /\ pc[t] = "loop"
      /\ cut' = cut
      /\ seg \in [Threads -> Segment \cup {NoPair}]
      /\ pc \in [Threads -> WorkerPC]
  BY DEF IInv, TypeOK, Pop
<1>2. /\ Len(stack) \in Nat \ {0}
      /\ Len(stack') = Len(stack) - 1
      /\ \A i \in 1 .. Len(stack) - 1 : stack'[i] = stack[i]
  BY <1>1, PoppedStack
<1>3. pc'[t] = "part" /\ seg'[t] = stack[Len(stack)]
  BY <1>1
<1>4. \A u \in Threads \ {t} : /\ pc'[u] = pc[u]
                               /\ seg'[u] = seg[u]
                               /\ LowPart(u)' = LowPart(u)
                               /\ HighPart(u)' = HighPart(u)
  BY <1>1 DEF LowPart, HighPart
<1>5. ASSUME NEW s \in Open PROVE s \in Open'
  <2>1. CASE \E i \in 1 .. Len(stack) : s = stack[i]
    <3>1. PICK i \in 1 .. Len(stack) : s = stack[i]
      BY <2>1
    <3>2. CASE i = Len(stack)
      BY <3>1, <3>2, <1>3 DEF Open
    <3>3. CASE i # Len(stack)
      <4>1. i \in 1 .. Len(stack') /\ s = stack'[i]
        BY <3>1, <3>3, <1>2
      <4>. QED  BY <4>1 DEF Open
    <3>. QED  BY <3>2, <3>3
  <2>2. ASSUME NEW u \in Threads, pc[u] \in {"part", "push"} PROVE u # t
    BY <2>2, <1>1
  <2>3. CASE \E u \in Threads : pc[u] = "part" /\ s = seg[u]
    BY <2>2, <2>3, <1>4 DEF Open
  <2>4. CASE \E u \in Threads : pc[u] = "push" /\ s = LowPart(u)
    BY <2>2, <2>4, <1>4 DEF Open
  <2>5. CASE \E u \in Threads : pc[u] = "push" /\ s = HighPart(u)
    BY <2>2, <2>5, <1>4 DEF Open
  <2>. QED  BY <2>1, <2>3, <2>4, <2>5, OpenMembers
<1>. QED  BY <1>1, <1>5, ApartKept

LEMMA ApartPush ==
  ASSUME IInv, SortedApart, NEW t \in Threads, Push(t), arr' = arr
  PROVE  SortedApart'
<1>1. /\ TypeOK
      /\ pc' = [pc EXCEPT ![t] = "loop"]
      /\ seg' = [seg EXCEPT ![t] = NoPair]
      /\ cut' = [cut EXCEPT ![t] = NoPair]
      /\ pc[t] = "push"
      /\ seg \in [Threads -> Segment \cup {NoPair}]
      /\ cut \in [Threads -> (-1 .. Size) \X (-1 .. Size)]
      /\ pc \in [Threads -> WorkerPC]
  BY DEF IInv, TypeOK, Push
<1>2. /\ Len(stack) \in Nat /\ Len(stack') \in Nat /\ Len(stack) <= Len(stack')
      /\ \A i \in 1 .. Len(stack) : stack'[i] = stack[i]
      /\ \A s \in {LowPart(t), HighPart(t)} :
            SegLen(s) > QSORT_THRESHOLD => \E i \in 1 .. Len(stack') : stack'[i] = s
  BY <1>1, PushedParts
<1>3. \A u \in Threads \ {t} : /\ pc'[u] = pc[u]
                               /\ seg'[u] = seg[u]
                               /\ LowPart(u)' = LowPart(u)
                               /\ HighPart(u)' = HighPart(u)
  BY <1>1 DEF LowPart, HighPart
<1>4. ASSUME NEW s \in Open, SegLen(s) > QSORT_THRESHOLD PROVE s \in Open'
  <2>1. CASE \E i \in 1 .. Len(stack) : s = stack[i]
    <3>1. PICK i \in 1 .. Len(stack) : s = stack[i]
      BY <2>1
    <3>2. i \in 1 .. Len(stack') /\ s = stack'[i]
      BY <3>1, <1>2
    <3>. QED  BY <3>2 DEF Open
  <2>2. CASE s \in {LowPart(t), HighPart(t)}
    <3>1. PICK i \in 1 .. Len(stack') : stack'[i] = s
      BY <2>2, <1>2, <1>4
    <3>. QED  BY <3>1 DEF Open
  <2>3. CASE \E u \in Threads : pc[u] = "part" /\ s = seg[u]
    BY <2>3, <1>1, <1>3 DEF Open
  <2>4. CASE \E u \in Threads \ {t} : pc[u] = "push" /\ s = LowPart(u)
    BY <2>4, <1>3 DEF Open
  <2>5. CASE \E u \in Threads \ {t} : pc[u] = "push" /\ s = HighPart(u)
    BY <2>5, <1>3 DEF Open
  <2>. QED  BY <2>1, <2>2, <2>3, <2>4, <2>5, OpenMembers
<1>. QED  BY <1>1, <1>4, ApartKept

LEMMA ApartPartition ==
  ASSUME IInv, ArrayOK, SortedApart, NEW t \in Threads, SortPartition(t)
  PROVE  SortedApart'
<1>1. PICK c \in Cut(seg[t]) :
         /\ PartitionInto(t, c)
         /\ \E p \in Orders[seg[t]] : arr' = Rearranged(arr, seg[t], p)
         /\ Partitioned(arr', seg[t], c)
  BY DEF SortPartition
<1>2. PICK p \in Orders[seg[t]] : arr' = Rearranged(arr, seg[t], p)
  BY <1>1
<1> DEFINE S == seg[t]
<1>3. /\ TypeOK
      /\ pc[t] = "part"
      /\ pc' = [pc EXCEPT ![t] = "push"]
      /\ cut' = [cut EXCEPT ![t] = c]
      /\ UNCHANGED <<stack, seg>>
      /\ pc \in [Threads -> WorkerPC]
      /\ cut \in [Threads -> (-1 .. Size) \X (-1 .. Size)]
  BY <1>1 DEF IInv, TypeOK, PartitionInto
<1>4. /\ S \in Segment
      /\ arr' \in [Index -> Value]
      /\ \A i \in Index :
            IF InSegment(i, S)
              THEN \E k \in Index : InSegment(k, S) /\ arr'[i] = arr[k]
              ELSE arr'[i] = arr[i]
  BY <1>1, <1>2, <1>3, PartitionedArray
<1>5. ASSUME NEW s \in Open, s # S PROVE s \in Open'
  <2>1. \A u \in Threads \ {t} : /\ pc'[u] = pc[u]
                                 /\ seg'[u] = seg[u]
                                 /\ LowPart(u)' = LowPart(u)
                                 /\ HighPart(u)' = HighPart(u)
    BY <1>3 DEF LowPart, HighPart
  <2>2. CASE \E i \in 1 .. Len(stack) : s = stack[i]
    BY <2>2, <1>3 DEF Open
  <2>3. CASE \E u \in Threads : pc[u] = "part" /\ s = seg[u]
    BY <2>1, <2>3, <1>5 DEF Open
  <2>4. CASE \E u \in Threads : pc[u] = "push" /\ s = LowPart(u)
    BY <2>1, <2>4, <1>3 DEF Open
  <2>5. CASE \E u \in Threads : pc[u] = "push" /\ s = HighPart(u)
    BY <2>1, <2>5, <1>3 DEF Open
  <2>. QED  BY <2>2, <2>3, <2>4, <2>5, OpenMembers
<1>6. <<S[1], c[1]>> \in Open' /\ <<c[2], S[2]>> \in Open'
  <2>1. /\ pc'[t] = "push"
        /\ LowPart(t)' = <<S[1], c[1]>>
        /\ HighPart(t)' = <<c[2], S[2]>>
    BY <1>3 DEF LowPart, HighPart
  <2>. QED  BY <2>1 DEF Open
<1>7. \A i, k \in Index : i < k /\ ~Together(i, k) => arr[i] <= arr[k]
  BY DEF SortedApart, Together
<1>8. ASSUME NEW i \in Index, NEW k \in Index, ~InSegment(i, S), InSegment(k, S)
      PROVE  ~Together(i, k) /\ ~Together(k, i)
  <2>1. \A s \in Open : InSegment(k, s) => s = S
    BY <1>3, <1>8, OpenDisjoint, ApartDisjoint DEF IInv
  <2>. QED  BY <1>8, <2>1 DEF Together
<1>9. S[1] \in Int /\ S[2] \in Int /\ \A i \in Index : i \in Int
  BY <1>4, SizeAssumption DEF Segment, Index
<1>10. \A i \in Index : arr[i] \in Int /\ arr'[i] \in Int
  BY <1>4, ValueAssumption DEF ArrayOK
<1>. HIDE DEF S
<1>11. ASSUME NEW i \in Index, NEW j \in Index, i < j
       PROVE  arr'[i] <= arr'[j] \/ Together(i, j)'
  <2>1. CASE InSegment(i, S) /\ InSegment(j, S)
    <3>1. \/ arr'[i] <= arr'[j]
          \/ InSegment(i, <<S[1], c[1]>>) /\ InSegment(j, <<S[1], c[1]>>)
          \/ InSegment(i, <<c[2], S[2]>>) /\ InSegment(j, <<c[2], S[2]>>)
      BY <1>1, <1>4, <1>11, <2>1, CutOrdered DEF S
    <3>. QED  BY <3>1, <1>6 DEF Together
  <2>2. CASE ~InSegment(i, S) /\ InSegment(j, S)
    <3>1. PICK k \in Index : InSegment(k, S) /\ arr'[j] = arr[k]
      BY <2>2, <1>4
    <3>2. i < k
      BY <1>9, <1>11, <2>2, <3>1 DEF InSegment
    <3>3. arr[i] <= arr[k]
      BY <1>7, <1>8, <2>2, <3>1, <3>2
    <3>. QED  BY <1>4, <2>2, <3>1, <3>3
  <2>3. CASE InSegment(i, S) /\ ~InSegment(j, S)
    <3>1. PICK k \in Index : InSegment(k, S) /\ arr'[i] = arr[k]
      BY <2>3, <1>4
    <3>2. k < j
      BY <1>9, <1>11, <2>3, <3>1 DEF InSegment
    <3>3. arr[k] <= arr[j]
      BY <1>7, <1>8, <2>3, <3>1, <3>2
    <3>. QED  BY <1>4, <2>3, <3>1, <3>3
  <2>4. CASE ~InSegment(i, S) /\ ~InSegment(j, S)
    <3>1. arr'[i] = arr[i] /\ arr'[j] = arr[j]
      BY <1>4, <2>4
    <3>2. CASE Together(i, j)
      BY <1>5, <2>4, <3>2 DEF Together
    <3>3. CASE ~Together(i, j)
      BY <1>7, <1>11, <3>1, <3>3
    <3>. QED  BY <3>2, <3>3
  <2>. QED  BY <2>1, <2>2, <2>3, <2>4
<1>. QED  BY <1>11 DEF SortedApart, Together

LEMMA ApartInit == SortInit => SortedApart
<1> SUFFICES ASSUME SortInit PROVE SortedApart
  OBVIOUS
<1>1. Len(stack) = 1 /\ stack[1] = Whole
  BY DEF SortInit, Init, Whole
<1>2. Whole \in Open
  BY <1>1 DEF Open
<1>. QED  BY <1>2, WholeSegment DEF SortedApart

(* A step that touches neither the stack nor a worker with a segment.        *)
LEMMA ApartElse ==
  ASSUME TypeOK, SortedApart, UNCHANGED <<stack, seg, cut, arr>>,
         \A u \in Threads : Holds(u) => pc'[u] = pc[u]
  PROVE  SortedApart'
<1>1. ASSUME NEW s \in Open PROVE s \in Open'
  <2>1. \A u \in Threads : LowPart(u)' = LowPart(u) /\ HighPart(u)' = HighPart(u)
    BY DEF LowPart, HighPart
  <2>2. CASE \E i \in 1 .. Len(stack) : s = stack[i]
    BY <2>2 DEF Open
  <2>3. CASE \E u \in Threads : pc[u] = "part" /\ s = seg[u]
    BY <2>3 DEF Open, Holds
  <2>4. CASE \E u \in Threads : pc[u] = "push" /\ s = LowPart(u)
    BY <2>1, <2>4 DEF Open, Holds
  <2>5. CASE \E u \in Threads : pc[u] = "push" /\ s = HighPart(u)
    BY <2>1, <2>5 DEF Open, Holds
  <2>. QED  BY <2>2, <2>3, <2>4, <2>5, OpenMembers
<1>. QED  BY <1>1, ApartKept

LEMMA ApartNext ==
  IInv /\ ArrayOK /\ SortedApart /\ [SortNext]_sortVars => SortedApart'
<1> SUFFICES ASSUME IInv, ArrayOK, SortedApart, [SortNext]_sortVars
             PROVE  SortedApart'
  OBVIOUS
<1>1. /\ TypeOK
      /\ pc \in [Threads -> WorkerPC]
      /\ next \in Threads
  BY DEF IInv, TypeOK
<1>2. CASE CreateThread /\ UNCHANGED <<arr, input>>
  <2>1. ~Holds(next)
    <3>1. next >= next
      BY <1>1 DEF Threads
    <3>. QED  BY <1>1, <1>2, <3>1 DEF IInv, NotYetCreated, CreateThread, Holds
  <2>2. pc' = [pc EXCEPT ![next] = "loop"] /\ UNCHANGED <<stack, seg, cut, arr>>
    BY <1>2 DEF CreateThread
  <2>3. \A u \in Threads : Holds(u) => pc'[u] = pc[u]
    BY <1>1, <2>1, <2>2
  <2>. QED  BY <1>1, <2>2, <2>3, ApartElse
<1>3. CASE (JoinThread \/ CreateFails) /\ UNCHANGED <<arr, input>>
  <2>1. UNCHANGED <<pc, stack, seg, cut, arr>>
    BY <1>3 DEF JoinThread, CreateFails
  <2>. QED  BY <1>1, <2>1, ApartElse
<1>4. ASSUME NEW t \in Threads, GoToSleep(t) \/ ExitThread(t) \/ WakeUp(t),
             UNCHANGED <<arr, input>>
      PROVE  SortedApart'
  <2>1. /\ pc[t] \in {"loop", "wait"}
        /\ pc' \in {[pc EXCEPT ![t] = l] : l \in {"wait", "exited", "loop"}}
        /\ UNCHANGED <<stack, seg, cut, arr>>
    BY <1>4 DEF GoToSleep, ExitThread, WakeUp
  <2>2. \A u \in Threads : Holds(u) => pc'[u] = pc[u]
    BY <1>1, <2>1 DEF Holds
  <2>. QED  BY <1>1, <2>1, <2>2, ApartElse
<1>5. ASSUME NEW t \in Threads, Pop(t), UNCHANGED <<arr, input>>
      PROVE  SortedApart'
  BY <1>5, ApartPop
<1>6. ASSUME NEW t \in Threads, Push(t), UNCHANGED <<arr, input>>
      PROVE  SortedApart'
  BY <1>6, ApartPush
<1>7. ASSUME NEW t \in Threads, SortPartition(t)
      PROVE  SortedApart'
  BY <1>7, ApartPartition
<1>8. CASE UNCHANGED sortVars
  <2>1. UNCHANGED <<pc, stack, seg, cut, arr>>
    BY <1>8 DEF sortVars
  <2>. QED  BY <1>1, <2>1, ApartElse
<1>. QED
  BY <1>2, <1>3, <1>4, <1>5, <1>6, <1>7, <1>8 DEF SortNext, MainStep, ControlStep

(* Elements out of order are always in one segment that is still to be       *)
(* sorted: the workers may sort the segments in any order.                   *)
THEOREM ApartIsSorted == SortSpec => []SortedApart
<1>1. SortSpec => [](IInv /\ ArrayOK)
  BY SortImplementsThreads, InvCorrect, ArrayCorrect, PTL
<1>. QED  BY <1>1, ApartInit, ApartNext, PTL DEF SortSpec

(* bl_thread_qsort returns when it has joined the last worker.               *)
ReturnsAfterExit == main = "returned" => pc[next] = "exited"

LEMMA ReturnNext == TypeOK /\ ReturnsAfterExit /\ [Next]_ctl => ReturnsAfterExit'
<1> SUFFICES ASSUME TypeOK, ReturnsAfterExit, [Next]_ctl PROVE ReturnsAfterExit'
  OBVIOUS
<1>1. pc \in [Threads -> WorkerPC] /\ next \in Threads
  BY DEF TypeOK
<1>2. CASE CreateThread \/ CreateFails
  BY <1>2 DEF CreateThread, CreateFails, ReturnsAfterExit
<1>3. CASE JoinThread
  BY <1>3 DEF JoinThread, ReturnsAfterExit
<1>4. ASSUME NEW t \in Threads, WorkerStep(t) PROVE ReturnsAfterExit'
  <2>1. /\ main' = main /\ next' = next
        /\ \A u \in Threads : pc[u] = "exited" => pc'[u] = "exited"
    BY <1>1, <1>4 DEF WorkerStep, Pop, GoToSleep, ExitThread, WakeUp, Partition,
                      PartitionInto, Push
  <2>. QED  BY <1>1, <2>1 DEF ReturnsAfterExit
<1>5. CASE UNCHANGED ctl
  BY <1>5 DEF ctl, ReturnsAfterExit
<1>. QED  BY <1>2, <1>3, <1>4, <1>5 DEF Next, MainStep

(* With nothing left to sort no elements are out of order.                   *)
LEMMA NothingOpen ==
  ASSUME ArrayOK, SortedApart, WorkDone
  PROVE  Sorted(arr)
<1>1. Open = {}
  <2>1. Len(stack) = 0
    BY DEF WorkDone
  <2>. QED  BY <2>1 DEF Open, WorkDone, Holds
<1>2. \A i, j \in Index : i < j => arr[i] <= arr[j]
  BY <1>1 DEF SortedApart
<1>3. DOMAIN arr = Index /\ \A i \in Index : arr[i] \in Int
  BY ValueAssumption DEF ArrayOK
<1>4. \A i, j \in Index : i <= j => i < j \/ i = j
  BY SizeAssumption DEF Index
<1>. QED  BY <1>2, <1>3, <1>4 DEF Sorted

LEMMA ReturnCorrect == Spec => []ReturnsAfterExit
<1>1. Init => ReturnsAfterExit
  BY DEF Init, ReturnsAfterExit
<1>. QED  BY <1>1, ReturnNext, TypeCorrect, PTL DEF Spec

(* When a worker has left, and so when bl_thread_qsort returns, the array is *)
(* sorted; with KeepsElements, it is the sorted input.                       *)
THEOREM ArrayIsSorted == SortSpec => []SortedAtExit
<1>1. IInv /\ ArrayOK /\ SortedApart /\ ReturnsAfterExit => SortedAtExit
  BY NothingOpen DEF IInv, TypeOK, ExitOnlyWhenDone, ReturnsAfterExit, SortedAtExit
<1>2. SortSpec => []TypeOK /\ []IInv /\ []ArrayOK /\ []SortedApart
  BY SortImplementsThreads, TypeCorrect, InvCorrect, ArrayCorrect, ApartIsSorted, PTL
<1>. QED  BY <1>1, <1>2, ReturnCorrect, SortImplementsThreads, PTL
-----------------------------------------------------------------------------
(* What SettledStays says of one step. *)
Stays == \A i \in Index : Settled(i) => Settled(i)' /\ arr'[i] = arr[i]

LEMMA OpenMembersNext ==
  ASSUME NEW s
  PROVE  s \in Open' => \/ \E i \in 1 .. Len(stack') : s = stack'[i]
                        \/ \E u \in Threads : pc'[u] = "part" /\ s = seg'[u]
                        \/ \E u \in Threads : pc'[u] = "push" /\ s = LowPart(u)'
                        \/ \E u \in Threads : pc'[u] = "push" /\ s = HighPart(u)'
  BY DEF Open

(* When the array stays as it is, it is enough that no segment is opened.    *)
LEMMA StaysKept ==
  ASSUME arr' = arr, \A s \in Open' : s \in Open
  PROVE  Stays
  BY DEF Stays, Settled, SegLen, InSegment, QSORT_THRESHOLD

(* Popping, a worker takes a segment that was open on the stack.             *)
LEMMA StaysPop ==
  ASSUME IInv, NEW t \in Threads, Pop(t), arr' = arr
  PROVE  Stays
<1>1. /\ stack \in Seq(Segment) /\ stack # <<>>
      /\ stack' = SubSeq(stack, 1, Len(stack) - 1)
      /\ seg' = [seg EXCEPT ![t] = stack[Len(stack)]]
      /\ pc' = [pc EXCEPT ![t] = "part"]
      /\ cut' = cut
      /\ seg \in [Threads -> Segment \cup {NoPair}]
      /\ pc \in [Threads -> WorkerPC]
  BY DEF IInv, TypeOK, Pop
<1>2. /\ Len(stack) \in Nat \ {0}
      /\ Len(stack') = Len(stack) - 1
      /\ \A i \in 1 .. Len(stack) - 1 : stack'[i] = stack[i]
  BY <1>1, PoppedStack
<1>3. pc'[t] = "part" /\ seg'[t] = stack[Len(stack)]
  BY <1>1
<1>4. \A u \in Threads \ {t} : /\ pc'[u] = pc[u]
                               /\ seg'[u] = seg[u]
                               /\ LowPart(u)' = LowPart(u)
                               /\ HighPart(u)' = HighPart(u)
  BY <1>1 DEF LowPart, HighPart
<1>5. \A i \in 1 .. Len(stack) : stack[i] \in Open
  BY OpenMembers
<1>6. ASSUME NEW s \in Open' PROVE s \in Open
  <2>1. CASE \E i \in 1 .. Len(stack') : s = stack'[i]
    BY <2>1, <1>2, <1>5
  <2>2. CASE \E u \in Threads : pc'[u] = "part" /\ s = seg'[u]
    <3>1. PICK u \in Threads : pc'[u] = "part" /\ s = seg'[u]
      BY <2>2
    <3>2. CASE u = t
      BY <3>1, <3>2, <1>2, <1>3, <1>5
    <3>3. CASE u # t
      BY <3>1, <3>3, <1>4, OpenMembers
    <3>. QED  BY <3>2, <3>3
  <2>3. CASE \E u \in Threads : pc'[u] = "push" /\ s = LowPart(u)'
    BY <2>3, <1>3, <1>4, OpenMembers
  <2>4. CASE \E u \in Threads : pc'[u] = "push" /\ s = HighPart(u)'
    BY <2>4, <1>3, <1>4, OpenMembers
  <2>. QED  BY <2>1, <2>2, <2>3, <2>4, OpenMembersNext
<1>. QED  BY <1>6, StaysKept

(* What a worker pushes were the parts it held.                              *)
LEMMA StaysPush ==
  ASSUME IInv, NEW t \in Threads, Push(t), arr' = arr
  PROVE  Stays
<1>1. /\ TypeOK
      /\ pc[t] = "push"
      /\ pc' = [pc EXCEPT ![t] = "loop"]
      /\ seg' = [seg EXCEPT ![t] = NoPair]
      /\ cut' = [cut EXCEPT ![t] = NoPair]
      /\ seg \in [Threads -> Segment \cup {NoPair}]
      /\ cut \in [Threads -> (-1 .. Size) \X (-1 .. Size)]
      /\ pc \in [Threads -> WorkerPC]
  BY DEF IInv, TypeOK, Push
<1>2. /\ Len(stack) \in Nat /\ Len(stack') \in Nat
      /\ \A i \in 1 .. Len(stack) : stack'[i] = stack[i]
      /\ \A i \in Len(stack) + 1 .. Len(stack') : stack'[i] \in {LowPart(t), HighPart(t)}
  BY <1>1, PushedParts
<1>3. pc'[t] = "loop"
  BY <1>1
<1>4. \A u \in Threads \ {t} : /\ pc'[u] = pc[u]
                               /\ seg'[u] = seg[u]
                               /\ LowPart(u)' = LowPart(u)
                               /\ HighPart(u)' = HighPart(u)
  BY <1>1 DEF LowPart, HighPart
<1>5. /\ \A i \in 1 .. Len(stack) : stack[i] \in Open
      /\ LowPart(t) \in Open /\ HighPart(t) \in Open
  BY <1>1, OpenMembers
<1>6. ASSUME NEW s \in Open' PROVE s \in Open
  <2>1. CASE \E i \in 1 .. Len(stack') : s = stack'[i]
    <3>1. PICK i \in 1 .. Len(stack') : s = stack'[i]
      BY <2>1
    <3>2. CASE i \in 1 .. Len(stack)
      BY <3>1, <3>2, <1>2, <1>5
    <3>3. CASE i \in Len(stack) + 1 .. Len(stack')
      BY <3>1, <3>3, <1>2, <1>5
    <3>. QED  BY <1>2, <3>2, <3>3
  <2>2. CASE \E u \in Threads : pc'[u] = "part" /\ s = seg'[u]
    BY <2>2, <1>3, <1>4, OpenMembers
  <2>3. CASE \E u \in Threads : pc'[u] = "push" /\ s = LowPart(u)'
    BY <2>3, <1>3, <1>4, OpenMembers
  <2>4. CASE \E u \in Threads : pc'[u] = "push" /\ s = HighPart(u)'
    BY <2>4, <1>3, <1>4, OpenMembers
  <2>. QED  BY <2>1, <2>2, <2>3, <2>4, OpenMembersNext
<1>. QED  BY <1>6, StaysKept

(* A partition moves only elements of its segment, which is open and has two *)
(* elements or more, and opens only parts of it.                             *)
LEMMA StaysPartition ==
  ASSUME IInv, ArrayOK, NEW t \in Threads, SortPartition(t)
  PROVE  Stays
<1>1. PICK c \in Cut(seg[t]) :
         /\ PartitionInto(t, c)
         /\ \E p \in Orders[seg[t]] : arr' = Rearranged(arr, seg[t], p)
  BY DEF SortPartition
<1>2. PICK p \in Orders[seg[t]] : arr' = Rearranged(arr, seg[t], p)
  BY <1>1
<1> DEFINE S == seg[t]
<1>3. /\ TypeOK
      /\ pc[t] = "part"
      /\ pc' = [pc EXCEPT ![t] = "push"]
      /\ cut' = [cut EXCEPT ![t] = c]
      /\ UNCHANGED <<stack, seg>>
      /\ pc \in [Threads -> WorkerPC]
      /\ cut \in [Threads -> (-1 .. Size) \X (-1 .. Size)]
  BY <1>1 DEF IInv, TypeOK, PartitionInto
<1>4. /\ S \in Segment
      /\ \A i \in Index : ~InSegment(i, S) => arr'[i] = arr[i]
  BY <1>1, <1>2, <1>3, PartitionedArray
<1>5. S \in Open
  BY <1>3, OpenMembers
<1>6. /\ pc'[t] = "push"
      /\ LowPart(t)' = <<S[1], c[1]>>
      /\ HighPart(t)' = <<c[2], S[2]>>
  BY <1>3 DEF LowPart, HighPart
<1>7. \A u \in Threads \ {t} : /\ pc'[u] = pc[u]
                               /\ seg'[u] = seg[u]
                               /\ LowPart(u)' = LowPart(u)
                               /\ HighPart(u)' = HighPart(u)
  BY <1>3 DEF LowPart, HighPart
<1>8. ASSUME NEW s \in Open'
      PROVE  s \in Open \/ s \in {<<S[1], c[1]>>, <<c[2], S[2]>>}
  <2>1. CASE \E i \in 1 .. Len(stack') : s = stack'[i]
    BY <2>1, <1>3, OpenMembers
  <2>2. CASE \E u \in Threads : pc'[u] = "part" /\ s = seg'[u]
    BY <2>2, <1>6, <1>7, OpenMembers
  <2>3. CASE \E u \in Threads : pc'[u] = "push" /\ s = LowPart(u)'
    BY <2>3, <1>6, <1>7, OpenMembers
  <2>4. CASE \E u \in Threads : pc'[u] = "push" /\ s = HighPart(u)'
    BY <2>4, <1>6, <1>7, OpenMembers
  <2>. QED  BY <2>1, <2>2, <2>3, <2>4, OpenMembersNext
<1>9. ASSUME NEW i \in Index, Settled(i)
      PROVE  /\ ~InSegment(i, S)
             /\ ~InSegment(i, <<S[1], c[1]>>)
             /\ ~InSegment(i, <<c[2], S[2]>>)
  <2>1. /\ S[1] \in Int /\ S[2] \in Int /\ S[1] < S[2]
        /\ c[1] \in Int /\ c[2] \in Int /\ i \in Int
        /\ c[1] <= S[2] /\ S[1] <= c[2]
    BY <1>4, SizeAssumption DEF Segment, Cut, Index
  <2>2. InSegment(i, S) => SegLen(S) <= QSORT_THRESHOLD
    BY <1>5, <1>9 DEF Settled
  <2>3. ~InSegment(i, S)
    BY <2>1, <2>2 DEF SegLen, QSORT_THRESHOLD
  <2>. QED  BY <2>1, <2>3 DEF InSegment
<1>. HIDE DEF S
<1>10. ASSUME NEW i \in Index, Settled(i) PROVE Settled(i)' /\ arr'[i] = arr[i]
  <2>1. ASSUME NEW s \in Open', InSegment(i, s) PROVE SegLen(s) <= QSORT_THRESHOLD
    <3>1. s \in Open
      BY <2>1, <1>8, <1>9, <1>10
    <3>. QED  BY <2>1, <3>1, <1>10 DEF Settled
  <2>. QED  BY <2>1, <1>4, <1>9, <1>10 DEF Settled, SegLen, InSegment, QSORT_THRESHOLD
<1>. QED  BY <1>10 DEF Stays

(* A step that touches neither the stack nor a worker with a segment.        *)
LEMMA StaysElse ==
  ASSUME UNCHANGED <<stack, seg, cut, arr>>,
         \A u \in Threads : pc'[u] \in {"part", "push"} => pc'[u] = pc[u]
  PROVE  Stays
<1>1. \A u \in Threads : LowPart(u)' = LowPart(u) /\ HighPart(u)' = HighPart(u)
  BY DEF LowPart, HighPart
<1>2. ASSUME NEW s \in Open' PROVE s \in Open
  BY <1>1, OpenMembers, OpenMembersNext
<1>. QED  BY <1>2, StaysKept

LEMMA StaysNext == IInv /\ ArrayOK /\ [SortNext]_sortVars => [Stays]_sortVars
<1> SUFFICES ASSUME IInv, ArrayOK, SortNext PROVE Stays
  OBVIOUS
<1>1. pc \in [Threads -> WorkerPC]
  BY DEF IInv, TypeOK
<1>2. CASE (MainStep \/ CreateFails) /\ UNCHANGED <<arr, input>>
  <2>1. /\ pc' = pc \/ pc' = [pc EXCEPT ![next] = "loop"]
        /\ UNCHANGED <<stack, seg, cut, arr>>
    BY <1>2 DEF MainStep, CreateThread, JoinThread, CreateFails
  <2>2. \A u \in Threads : pc'[u] \in {"part", "push"} => pc'[u] = pc[u]
    BY <1>1, <2>1
  <2>. QED  BY <2>1, <2>2, StaysElse
<1>3. ASSUME NEW t \in Threads, GoToSleep(t) \/ ExitThread(t) \/ WakeUp(t),
             UNCHANGED <<arr, input>>
      PROVE  Stays
  <2>1. /\ pc' \in {[pc EXCEPT ![t] = l] : l \in {"wait", "exited", "loop"}}
        /\ UNCHANGED <<stack, seg, cut, arr>>
    BY <1>3 DEF GoToSleep, ExitThread, WakeUp
  <2>2. \A u \in Threads : pc'[u] \in {"part", "push"} => pc'[u] = pc[u]
    BY <1>1, <2>1
  <2>. QED  BY <2>1, <2>2, StaysElse
<1>4. ASSUME NEW t \in Threads, Pop(t), UNCHANGED <<arr, input>> PROVE Stays
  BY <1>4, StaysPop
<1>5. ASSUME NEW t \in Threads, Push(t), UNCHANGED <<arr, input>> PROVE Stays
  BY <1>5, StaysPush
<1>6. ASSUME NEW t \in Threads, SortPartition(t) PROVE Stays
  BY <1>6, StaysPartition
<1>. QED  BY <1>2, <1>3, <1>4, <1>5, <1>6 DEF SortNext, ControlStep

(* An element that is in no open segment of two or more is where it belongs: *)
(* no worker moves it any more.                                              *)
THEOREM SettledElementsStay == SortSpec => SettledStays
<1>1. SortSpec => [](IInv /\ ArrayOK)
  BY SortImplementsThreads, InvCorrect, ArrayCorrect, PTL
<1>2. SortSpec => [][Stays]_sortVars
  BY <1>1, StaysNext, PTL DEF SortSpec
<1>. QED  BY <1>2 DEF Stays, SettledStays
=============================================================================
