---------------------------- MODULE ThreadQSortFine ----------------------------
(***************************************************************************)
(* bl_thread_qsort step by step (BL_THREAD/bl_thread.c:273-452): the mutex  *)
(* is locked and unlocked, the stack is the code's array of size_t, each    *)
(* push and each sem_post is a step, and the workers' partitions take one   *)
(* round of a loop at a time on the one array, in any interleaving.         *)
(*                                                                         *)
(* It implements ThreadQSort, whose critical sections and partitions are    *)
(* single steps.                                                            *)
(***************************************************************************)
EXTENDS PartitionSteps, QSortArray, Sequences

CONSTANTS NumThreads,   \* num_threads
          Size          \* size

ASSUME FineAssumption == /\ NumThreads \in Nat \ {0}
                         /\ Size \in Nat \ {0, 1}
                         /\ Size <= SizeMax

VARIABLES main,    \* where bl_thread_qsort is
          next,    \* its loop counter i
          pc,      \* where each worker is in thread_qsort
          stack,   \* qsort_stack below qsort_stack_index
          sem,     \* the value of qsort_sem
          busy,    \* qsort_busy_threads
          mutex,   \* the worker that holds qsort_stack_mutex, or nobody
          frame,   \* the locals of each worker
          arr,     \* base
          input,   \* base at the call
          whole    \* arr without the partitions still going on (auxiliary)

shared == <<stack, sem, busy, mutex>>
array == <<arr, input, whole>>
vars == <<main, next, pc, stack, sem, busy, mutex, frame, arr, input, whole>>

Threads == 0 .. NumThreads - 1
Index == 0 .. Size - 1
Nobody == -1
NoFrame == Frame(0, 0)
QSORT_THRESHOLD == 1

Init == /\ main = "create"
        /\ next = 0
        /\ pc = [t \in Threads |-> "new"]
        /\ stack = <<0, Size - 1>>
        /\ sem = 1
        /\ busy = [t \in Threads |-> FALSE]
        /\ mutex = Nobody
        /\ frame = [t \in Threads |-> NoFrame]
        /\ arr \in [Index -> Value]
        /\ input = arr
        /\ whole = arr

Running == main # "failed"
Goto(t, label) == pc' = [pc EXCEPT ![t] = label]

CreateThread ==
    /\ main = "create"
    /\ Goto(next, "loop")
    /\ IF next + 1 = NumThreads
         THEN main' = "join" /\ next' = 0
         ELSE main' = main /\ next' = next + 1
    /\ UNCHANGED <<shared, frame, array>>

CreateFails ==
    /\ main = "create"
    /\ main' = "failed"
    /\ UNCHANGED <<next, pc, shared, frame, array>>

JoinThread ==
    /\ main = "join"
    /\ pc[next] = "exited"
    /\ IF next + 1 = NumThreads
         THEN main' = "returned" /\ next' = next
         ELSE main' = main /\ next' = next + 1
    /\ UNCHANGED <<pc, shared, frame, array>>

(* pthread_mutex_lock, at the start of either critical section. *)
Lock(t) ==
    /\ pc[t] \in {"loop", "part"}
    /\ pc[t] = "part" => frame[t].at = "done"
    /\ mutex = Nobody
    /\ mutex' = t
    /\ Goto(t, IF pc[t] = "loop" THEN "look" ELSE "first")
    /\ UNCHANGED <<main, next, stack, sem, busy, frame, array>>

(* Mutant: the mutex is kept while the worker sleeps. *)
UnlockNotToWait(t) ==
    /\ pc[t] \in {"to loop", "to wait", "to exit", "to part"}
    /\ mutex' = IF pc[t] = "to wait" THEN mutex ELSE Nobody
    /\ Goto(t, CASE pc[t] = "to loop" -> "loop"
                 [] pc[t] = "to wait" -> "wait"
                 [] pc[t] = "to exit" -> "exited"
                 [] pc[t] = "to part" -> "part")
    /\ UNCHANGED <<main, next, stack, sem, busy, frame, array>>

(* pthread_mutex_unlock, and where the worker goes from there. *)
Unlock(t) ==
    /\ pc[t] \in {"to loop", "to wait", "to exit", "to part"}
    /\ mutex' = Nobody
    /\ Goto(t, CASE pc[t] = "to loop" -> "loop"
                 [] pc[t] = "to wait" -> "wait"
                 [] pc[t] = "to exit" -> "exited"
                 [] pc[t] = "to part" -> "part")
    /\ UNCHANGED <<main, next, stack, sem, busy, frame, array>>

Working == \E u \in Threads : busy[u]

LookEmpty(t) ==
    /\ pc[t] = "look"
    /\ stack = <<>>
    /\ Goto(t, IF Working THEN "to wait" ELSE "to exit")
    /\ UNCHANGED <<main, next, shared, frame, array>>

(* Mutant: the segment stays on the stack. *)
PopSegmentKept(t) ==
    /\ pc[t] = "look"
    /\ stack # <<>>
    /\ LET n == Len(stack)
       IN  frame' = [frame EXCEPT ![t] = Frame(stack[n - 1], stack[n])]
    /\ Goto(t, "pop")
    /\ UNCHANGED <<main, next, stack, sem, busy, mutex, array>>

(* hi = QSORT_POP; lo = QSORT_POP *)
PopSegment(t) ==
    /\ pc[t] = "look"
    /\ stack # <<>>
    /\ LET n == Len(stack)
       IN  /\ frame' = [frame EXCEPT ![t] = Frame(stack[n - 1], stack[n])]
           /\ stack' = SubSeq(stack, 1, n - 2)
    /\ Goto(t, "pop")
    /\ UNCHANGED <<main, next, sem, busy, mutex, array>>

SetBusy(t) ==
    /\ pc[t] = "pop"
    /\ busy' = [busy EXCEPT ![t] = TRUE]
    /\ Goto(t, "to part")
    /\ UNCHANGED <<main, next, stack, sem, mutex, frame, array>>

SemWait(t) ==
    /\ pc[t] = "wait"
    /\ sem > 0
    /\ sem' = sem - 1
    /\ Goto(t, "loop")
    /\ UNCHANGED <<main, next, stack, busy, mutex, frame, array>>

Own(t) == frame[t].start .. frame[t].end

(* One step of the partition; with the last one its result counts. *)
PartitionRound(t) ==
    /\ pc[t] = "part"
    /\ frame[t].at # "done"
    /\ LET after == PartitionStep(frame[t], arr)
       IN  /\ frame' = [frame EXCEPT ![t] = after[1]]
           /\ arr' = after[2]
           /\ whole' = IF after[1].at = "done"
                         THEN [i \in Index |-> IF i \in Own(t) THEN arr'[i] ELSE whole[i]]
                         ELSE whole
    /\ UNCHANGED <<main, next, pc, shared, input>>

(* The part pushed first, and the other one. *)
LowFirst(f) == LowSize(f) > HighSize(f)

LowPart(f) == <<f.start, f.lo>>
HighPart(f) == <<f.hi, f.end>>
LowPush(f) == IF LowSize(f) > QSORT_THRESHOLD THEN LowPart(f) ELSE <<>>
HighPush(f) == IF HighSize(f) > QSORT_THRESHOLD THEN HighPart(f) ELSE <<>>
FirstPush(f) == IF LowFirst(f) THEN LowPush(f) ELSE HighPush(f)
SecondPush(f) == IF LowFirst(f) THEN HighPush(f) ELSE LowPush(f)

(* Mutant: a push posts nothing. *)
PushOneSilent(t, label, part, then) ==
    /\ pc[t] = label
    /\ stack' = stack \o part
    /\ Goto(t, then)
    /\ UNCHANGED <<main, next, sem, busy, mutex, frame, array>>

(* QSORT_PUSH of a part that is long enough, and its sem_post. *)
PushOne(t, label, part, then) ==
    /\ pc[t] = label
    /\ stack' = stack \o part
    /\ sem' = IF part = <<>> THEN sem ELSE sem + 1
    /\ Goto(t, then)
    /\ UNCHANGED <<main, next, busy, mutex, frame, array>>

PushFirst(t) == PushOne(t, "first", FirstPush(frame[t]), "second")
PushSecond(t) == PushOne(t, "second", SecondPush(frame[t]), "idle")

(* Mutant: the busy flag is left set. *)
ClearBusyNot(t) ==
    /\ pc[t] = "idle"
    /\ frame' = [frame EXCEPT ![t] = NoFrame]
    /\ Goto(t, "to loop")
    /\ UNCHANGED <<main, next, stack, sem, busy, mutex, array>>

ClearBusy(t) ==
    /\ pc[t] = "idle"
    /\ busy' = [busy EXCEPT ![t] = FALSE]
    /\ frame' = [frame EXCEPT ![t] = NoFrame]
    /\ Goto(t, "to loop")
    /\ UNCHANGED <<main, next, stack, sem, mutex, array>>

MainStep == CreateThread \/ JoinThread
WorkerStep(t) ==
    /\ Running
    /\ \/ Lock(t) \/ Unlock(t) \/ LookEmpty(t) \/ PopSegment(t) \/ SetBusy(t)
       \/ SemWait(t) \/ PartitionRound(t)
       \/ PushFirst(t) \/ PushSecond(t) \/ ClearBusy(t)

Next == MainStep \/ CreateFails \/ \E t \in Threads : WorkerStep(t)

Spec == Init /\ [][Next]_vars

(* The scheduler lets every thread that can take a step take one; a mutex   *)
(* needs no more, since no worker locks it for ever again and again.        *)
Fairness == WF_vars(MainStep) /\ \A t \in Threads : WF_vars(WorkerStep(t))
FairSpec == Spec /\ Fairness
-----------------------------------------------------------------------------
(* The state of ThreadQSort.  A worker's first critical section counts when *)
(* it has looked at the stack, its second one when it has the mutex.        *)
Pushing(t) == pc[t] \in {"first", "second", "idle"}
Pushers == {t \in Threads : Pushing(t)}

PairsOf(s) == [i \in 1 .. Len(s) \div 2 |-> <<s[2 * i - 1], s[2 * i]>>]

(* What the worker in its second critical section has yet to push. *)
Pending(t) == CASE pc[t] = "first" -> FirstPush(frame[t]) \o SecondPush(frame[t])
                [] pc[t] = "second" -> SecondPush(frame[t])
                [] OTHER -> <<>>
Unpushed == IF Pushers = {} THEN <<>> ELSE Pending(CHOOSE t \in Pushers : TRUE)

CoarsePC(t) ==
    CASE pc[t] \in {"loop", "look", "first", "second", "idle", "to loop"} -> "loop"
      [] pc[t] \in {"wait", "to wait"} -> "wait"
      [] pc[t] \in {"exited", "to exit"} -> "exited"
      [] pc[t] \in {"pop", "to part"} -> "part"
      [] pc[t] = "part" -> IF frame[t].at = "done" THEN "push" ELSE "part"
      [] pc[t] = "new" -> "new"

Holding(t) == pc[t] \in {"pop", "to part", "part"}
Coarse == INSTANCE ThreadQSort WITH
    pc <- [t \in Threads |-> CoarsePC(t)],
    stack <- PairsOf(stack \o Unpushed),
    sem <- sem + Len(Unpushed) \div 2,
    busy <- [t \in Threads |-> Holding(t)],
    seg <- [t \in Threads |->
              IF Holding(t) THEN <<frame[t].start, frame[t].end>> ELSE <<-1, -1>>],
    cut <- [t \in Threads |->
              IF CoarsePC(t) = "push"
                THEN <<IF frame[t].lo = SizeMax THEN -1 ELSE frame[t].lo, frame[t].hi>>
                ELSE <<-1, -1>>],
    arr <- whole

(* With its mutex, its flat stack and its interleaved partitions the code   *)
(* does what ThreadQSort says with single steps.                            *)
ImplementsThreadQSort == Coarse!SortSpec

(* No element that a worker's next step reads or writes is one that another *)
(* worker's next step reads or writes: the unlocked accesses to the array   *)
(* are free of data races.                                                  *)
NoDataRace ==
    \A t, u \in Threads :
       t # u /\ pc[t] = "part" /\ pc[u] = "part"
         => Touches(frame[t]) \cap Touches(frame[u]) = {}

(* What the mutex protects is in order whenever nobody holds it: whole      *)
(* segments on the stack, and busy flags that are right.                    *)
OrderOutsideMutex ==
    mutex = Nobody =>
       /\ Len(stack) % 2 = 0
       /\ \A i \in 1 .. Len(stack) \div 2 : stack[2 * i - 1] < stack[2 * i]
       /\ \A t \in Threads : busy[t] <=> pc[t] = "part"

(* Fair scheduling is enough for the sort to come to its end: no worker is  *)
(* kept from the mutex for ever.                                            *)
WorkFinishes ==
    <>[](main = "failed" \/ (stack = <<>> /\ \A t \in Threads : ~busy[t]))
=============================================================================
