------------------------------ MODULE QSortThreads ------------------------------
(***************************************************************************)
(* The control of bl_thread_qsort (BL_THREAD/bl_thread.c): the main thread *)
(* that creates and joins NumThreads workers, the workers' loop, the stack *)
(* of segments still to be sorted, the busy flags and the semaphore on     *)
(* which a worker with nothing to do sleeps.                               *)
(*                                                                         *)
(* The array itself is left to ThreadQSort: here a partition only decides  *)
(* where the two remaining parts of its segment begin and end.  A critical *)
(* section of qsort_stack_mutex is one action: everything it reads or      *)
(* writes (stack, busy flags) is accessed under that mutex only, and the   *)
(* semaphore it posts to is read by sem_wait alone.  ThreadQSortFine has   *)
(* the mutex and shows that it implements this module.                     *)
(***************************************************************************)
EXTENDS Integers, Sequences

CONSTANTS NumThreads,   \* num_threads
          Size          \* size, the number of elements

(* bl_thread_qsort reads outside the array when size is 0 or 1 (its first   *)
(* segment is then 0 .. size-1 all the same), so both are excluded.         *)
ASSUME SizeAssumption == /\ NumThreads \in Nat \ {0}
                         /\ Size \in Nat \ {0, 1}

VARIABLES main,    \* where bl_thread_qsort is
          next,    \* its loop counter i
          pc,      \* where each worker is in thread_qsort
          stack,   \* qsort_stack below qsort_stack_index, one pair per segment
          sem,     \* the value of qsort_sem
          busy,    \* qsort_busy_threads
          seg,     \* start and end of the segment each worker took
          cut      \* lo and hi of each worker after its partition

ctl == <<main, next, pc, stack, sem, busy, seg, cut>>

Threads == 0 .. NumThreads - 1
Index == 0 .. Size - 1

QSORT_THRESHOLD == 1

(* A segment <<s, e>> holds the indexes s .. e; on the stack s < e always. *)
SegLen(s) == s[2] - s[1] + 1
Segment == {s \in Index \X Index : s[1] < s[2]}
Disjoint(r, s) == r[2] < s[1] \/ s[2] < r[1]

(* What a partition may leave of <<s, e>>: a part s .. lo to the left and a *)
(* part hi .. e to the right, either of them possibly empty, with at least  *)
(* the pivot between them.  lo = -1 is the (size_t)0 - 1 of line 407.       *)
Cut(s) == {c \in (-1 .. Size) \X (-1 .. Size) :
             s[1] - 1 <= c[1] /\ c[1] + 2 <= c[2] /\ c[2] <= s[2] + 1}

(* The locals of a worker outside their live range. *)
NoPair == <<-1, -1>>

WorkerPC == {"new", "loop", "wait", "part", "push", "exited"}
-----------------------------------------------------------------------------
Init == /\ main = "create"
        /\ next = 0
        /\ pc = [t \in Threads |-> "new"]
        /\ stack = <<  <<0, Size - 1>> >>
        /\ sem = 1
        /\ busy = [t \in Threads |-> FALSE]
        /\ seg = [t \in Threads |-> NoPair]
        /\ cut = [t \in Threads |-> NoPair]

Running == main # "failed"

(* Mutant: the creation loop ends one thread early. *)
CreateThreadShort ==
    /\ main = "create"
    /\ pc' = [pc EXCEPT ![next] = "loop"]
    /\ IF next + 2 >= NumThreads
         THEN main' = "join" /\ next' = 0
         ELSE main' = main /\ next' = next + 1
    /\ UNCHANGED <<stack, sem, busy, seg, cut>>

(* One round of the creation loop. *)
CreateThread ==
    /\ main = "create"
    /\ pc' = [pc EXCEPT ![next] = "loop"]
    /\ IF next + 1 = NumThreads
         THEN main' = "join" /\ next' = 0
         ELSE main' = main /\ next' = next + 1
    /\ UNCHANGED <<stack, sem, busy, seg, cut>>

(* pthread_create fails: exit(-1) ends the process with all its threads. *)
CreateFails ==
    /\ main = "create"
    /\ main' = "failed"
    /\ UNCHANGED <<next, pc, stack, sem, busy, seg, cut>>

(* One round of the join loop; after the last one bl_thread_qsort returns. *)
(* The join itself cannot fail: each thread exists and is joined once.     *)
JoinThread ==
    /\ main = "join"
    /\ pc[next] = "exited"
    /\ IF next + 1 = NumThreads
         THEN main' = "returned" /\ next' = next
         ELSE main' = main /\ next' = next + 1
    /\ UNCHANGED <<pc, stack, sem, busy, seg, cut>>

(* Mutant: the flag of worker 0 is skipped. *)
WorkingSkipsFirst == \E u \in Threads \ {0} : busy[u]

(* qsort_working_threads() == 1 *)
Working == \E u \in Threads : busy[u]

(* The first critical section, a segment being there to take. *)
Pop(t) ==
    /\ Running
    /\ pc[t] = "loop"
    /\ stack # <<>>
    /\ seg' = [seg EXCEPT ![t] = stack[Len(stack)]]
    /\ stack' = SubSeq(stack, 1, Len(stack) - 1)
    /\ busy' = [busy EXCEPT ![t] = TRUE]
    /\ pc' = [pc EXCEPT ![t] = "part"]
    /\ UNCHANGED <<main, next, sem, cut>>

(* The same with an empty stack while another worker is busy. *)
GoToSleep(t) ==
    /\ Running
    /\ pc[t] = "loop"
    /\ stack = <<>>
    /\ Working
    /\ pc' = [pc EXCEPT ![t] = "wait"]
    /\ UNCHANGED <<main, next, stack, sem, busy, seg, cut>>

(* Mutant: the busy flags are looked at before the stack. *)
ExitThreadWhenIdle(t) ==
    /\ Running
    /\ pc[t] = "loop"
    /\ ~Working
    /\ pc' = [pc EXCEPT ![t] = "exited"]
    /\ UNCHANGED <<main, next, stack, sem, busy, seg, cut>>

(* The same with an empty stack and nobody busy. *)
ExitThread(t) ==
    /\ Running
    /\ pc[t] = "loop"
    /\ stack = <<>>
    /\ ~Working
    /\ pc' = [pc EXCEPT ![t] = "exited"]
    /\ UNCHANGED <<main, next, stack, sem, busy, seg, cut>>

(* sem_wait returns, and the worker goes back to qsort_loop. *)
WakeUp(t) ==
    /\ Running
    /\ pc[t] = "wait"
    /\ sem > 0
    /\ sem' = sem - 1
    /\ pc' = [pc EXCEPT ![t] = "loop"]
    /\ UNCHANGED <<main, next, stack, busy, seg, cut>>

(* The partition of the worker's segment, which ends with lo and hi at c. *)
PartitionInto(t, c) ==
    /\ Running
    /\ pc[t] = "part"
    /\ cut' = [cut EXCEPT ![t] = c]
    /\ pc' = [pc EXCEPT ![t] = "push"]
    /\ UNCHANGED <<main, next, stack, sem, busy, seg>>

Partition(t) == \E c \in Cut(seg[t]) : PartitionInto(t, c)

(* Mutant: the low part is taken to end at hi instead of lo. *)
LowPartToHi(t) == <<seg[t][1], cut[t][2]>>

LowPart(t) == <<seg[t][1], cut[t][1]>>

(* Mutant: the high part begins with the pivot left of hi. *)
HighPartWithPivot(t) == <<cut[t][2] - 1, seg[t][2]>>

HighPart(t) == <<cut[t][2], seg[t][2]>>

(* Mutant: single elements are pushed too. *)
PushIfAny(stk, s) == IF SegLen(s) >= QSORT_THRESHOLD THEN Append(stk, s) ELSE stk

PushIfLong(stk, s) == IF SegLen(s) > QSORT_THRESHOLD THEN Append(stk, s) ELSE stk

(* Mutant: the shorter part goes below the longer one. *)
PushPartsShortFirst(stk, l, h) == IF SegLen(l) < SegLen(h)
                                    THEN PushIfLong(PushIfLong(stk, l), h)
                                    ELSE PushIfLong(PushIfLong(stk, h), l)

(* The longer part goes below the shorter one. *)
PushParts(stk, l, h) == IF SegLen(l) > SegLen(h)
                          THEN PushIfLong(PushIfLong(stk, l), h)
                          ELSE PushIfLong(PushIfLong(stk, h), l)

(* Mutant: the worker's busy flag stays set. *)
PushStaysBusy(t) ==
    /\ Running
    /\ pc[t] = "push"
    /\ stack' = PushParts(stack, LowPart(t), HighPart(t))
    /\ sem' = sem + (Len(stack') - Len(stack))
    /\ pc' = [pc EXCEPT ![t] = "loop"]
    /\ seg' = [seg EXCEPT ![t] = NoPair]
    /\ cut' = [cut EXCEPT ![t] = NoPair]
    /\ UNCHANGED <<main, next, busy>>

(* The second critical section; every QSORT_PUSH comes with a sem_post. *)
Push(t) ==
    /\ Running
    /\ pc[t] = "push"
    /\ stack' = PushParts(stack, LowPart(t), HighPart(t))
    /\ sem' = sem + (Len(stack') - Len(stack))
    /\ busy' = [busy EXCEPT ![t] = FALSE]
    /\ pc' = [pc EXCEPT ![t] = "loop"]
    /\ seg' = [seg EXCEPT ![t] = NoPair]
    /\ cut' = [cut EXCEPT ![t] = NoPair]
    /\ UNCHANGED <<main, next>>

MainStep == CreateThread \/ JoinThread
WorkerStep(t) == \/ Pop(t) \/ GoToSleep(t) \/ ExitThread(t) \/ WakeUp(t)
                 \/ Partition(t) \/ Push(t)

Next == MainStep \/ CreateFails \/ \E t \in Threads : WorkerStep(t)

Spec == Init /\ [][Next]_ctl

(* Every thread that can go on eventually does: the scheduler's promise.    *)
(* Weak fairness is enough, a worker never has to win a race for ever.      *)
Fairness == WF_ctl(MainStep) /\ \A t \in Threads : WF_ctl(WorkerStep(t))
FairSpec == Spec /\ Fairness
-----------------------------------------------------------------------------
Holds(t) == pc[t] \in {"part", "push"}

TypeOK ==
    /\ main \in {"create", "join", "returned", "failed"}
    /\ next \in Threads
    /\ pc \in [Threads -> WorkerPC]
    /\ stack \in Seq(Segment)
    /\ sem \in Nat
    /\ busy \in [Threads -> BOOLEAN]
    /\ seg \in [Threads -> Segment \cup {NoPair}]
    /\ \A t \in Threads : Holds(t) => seg[t] \in Segment
    /\ cut \in [Threads -> (-1 .. Size) \X (-1 .. Size)]
    /\ \A t \in Threads : pc[t] = "push" => cut[t] \in Cut(seg[t])

(* The segments waiting on the stack and those the workers are partitioning *)
(* never share an element: this is what makes it safe to touch the array    *)
(* outside the mutex.                                                       *)
SegmentsDisjoint ==
    /\ \A i, j \in 1 .. Len(stack) : i # j => Disjoint(stack[i], stack[j])
    /\ \A t \in Threads, i \in 1 .. Len(stack) :
          Holds(t) => Disjoint(seg[t], stack[i])
    /\ \A t, u \in Threads :
          t # u /\ Holds(t) /\ Holds(u) => Disjoint(seg[t], seg[u])

(* No segment is waiting and none is being partitioned. *)
WorkDone == stack = <<>> /\ \A t \in Threads : ~Holds(t)

(* A worker leaves only when there is nothing left to sort and no worker    *)
(* that could still push something: the test of the stack and of the busy   *)
(* flags in one critical section detects the end of the whole sort.         *)
ExitOnlyWhenDone == (\E t \in Threads : pc[t] = "exited") => WorkDone

(* While there is something to sort, some worker is neither asleep on the   *)
(* semaphore nor gone, although pops take no token from the semaphore: the  *)
(* number of tokens says nothing about the number of segments on the stack. *)
SomeoneIsAwake == ~WorkDone => \E t \in Threads : pc[t] \notin {"wait", "exited"}

(* qsort_stack[4096] holds 2048 segments.  However many workers there are,  *)
(* a segment on the stack has two elements at least and a pivot separates   *)
(* it from the next, which bounds the stack by a third of the array.        *)
StackBounded == 3 * Len(stack) <= Size + 1

(* "2 * log_2(2^64)" next to qsort_stack: with a single worker, since the   *)
(* longer part goes below the shorter one, the stack never holds more than  *)
(* log_2(size) segments (two array entries each).                           *)
LoneStackLogarithmic == NumThreads = 1 => 2 ^ Len(stack) <= Size

(* The sort ends: at some time nothing is left on the stack or in work, and *)
(* it stays so.                                                             *)
WorkFinishes == <>[](WorkDone \/ main = "failed")

(* bl_thread_qsort returns to its caller, as bl_thread_test.c:34-53 needs   *)
(* to look at the array afterwards.                                         *)
Returns == <>(main \in {"returned", "failed"})

(* The one way in which it may not: pthread_join waits for a worker asleep  *)
(* in sem_wait for a token nobody is left to post.                          *)
BlocksOnlyOnSleeper ==
    <>[](\/ main \in {"returned", "failed"}
         \/ main = "join" /\ pc[next] = "wait" /\ sem = 0)
=============================================================================
