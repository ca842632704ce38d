----------------------------- MODULE StepAlgorithms -----------------------------
(***************************************************************************)
(* The algorithms that are modelled step by step.  A behaviour is about one *)
(* of them, its kind; the variables of the others say nothing then.         *)
(*                                                                         *)
(* "partition" is thread_qsort's, "lone" bl_thread_qsort with one worker,   *)
(* "workers" bl_thread_qsort with several of them and its array, "path"     *)
(* bl_path_arr_basic.                                                       *)
(***************************************************************************)
EXTENDS QSortPartition, BLPath

CONSTANTS Kinds,
          LoneSize,      \* elements for the lone worker
          Workers,       \* how many workers there are of kind "workers",
          WorkersSize,   \* their elements
          WorkersInputs  \* and the arrays they sort

ASSUME WorkersAssumption == Workers \in Nat \ {0} /\ WorkersSize \in Nat \ {0, 1}

VARIABLES kind, main, next, pc, stack, sem, busy, seg, cut,
          input   \* the array a sort is called with

Lone == INSTANCE QSortThreads WITH NumThreads <- 1, Size <- LoneSize
Sort == INSTANCE ThreadQSort WITH NumThreads <- Workers, Size <- WorkersSize, Value <- Int

worker == <<main, next, pc, stack, sem, busy, seg, cut>>
stepVars == <<kind, vars, worker, path, input>>

NoPartition == frame = None /\ arr = <<>> /\ before = <<>>
NoWorker == /\ main = None /\ next = 0 /\ pc = <<>> /\ stack = <<>>
            /\ sem = 0 /\ busy = <<>> /\ seg = <<>> /\ cut = <<>>
NoPath == /\ open = {} /\ start = None /\ end = None /\ at = None
          /\ visited = <<>> /\ split = <<>> /\ list = <<>> /\ cur = 0 /\ moves = <<>>

StepInit ==
    /\ kind \in Kinds
    /\ \/ kind = "partition" /\ Init /\ NoWorker /\ NoPath
       \/ kind = "lone" /\ Lone!Init /\ NoPartition /\ NoPath
       \/ /\ kind = "workers" /\ arr \in WorkersInputs /\ Sort!SortInit
          /\ frame = None /\ before = <<>> /\ NoPath
       \/ kind = "path" /\ PathInit /\ NoPartition /\ NoWorker
    /\ kind # "workers" => input = <<>>

StepNext ==
    \/ kind = "partition" /\ Step /\ UNCHANGED <<kind, worker, path, input>>
    \/ kind = "lone" /\ Lone!Next /\ UNCHANGED <<kind, vars, path, input>>
    \/ kind = "workers" /\ Sort!SortNext /\ UNCHANGED <<kind, frame, before, path>>
    \/ kind = "path" /\ PathNext /\ UNCHANGED <<kind, vars, worker, input>>

StepSpec == StepInit /\ [][StepNext]_stepVars
-----------------------------------------------------------------------------
(* Neither the threads' partition nor the search of a way leaves what it    *)
(* walks in: the segment of the array, the field.                           *)
StaysInBounds == /\ kind = "partition" => StaysInside
                 /\ kind = "path" => DirectInField

(* The partition ends with every element on its side. *)
PartitionEnds == kind = "partition" => EndsPartitioned

(* Several workers on an array: nothing is out of order but within a        *)
(* segment still to be sorted, whatever they have done the elements are     *)
(* those of the caller, and the array is sorted as soon as one worker has   *)
(* left (bl_thread.c:317-441).                                              *)
SortedApart == kind = "workers" => Sort!SortedApart
KeepsElements == kind = "workers" => Sort!KeepsElements
SortedAtExit == kind = "workers" => Sort!SortedAtExit

(* No step of any worker moves an element that no such segment holds, or    *)
(* puts it back in one.                                                     *)
SettledStays ==
    [][kind = "workers" =>
         \A i \in Sort!Index : Sort!Settled(i) => Sort!Settled(i)' /\ arr'[i] = arr[i]]_stepVars

(* The way back from every place that was visited leads to the start, and a  *)
(* way that is found can be walked.                                         *)
PathLeadsBack == kind = "path" => VisitedLeadBack /\ WayIsWalkable

(* A way is found if there is one. *)
PathFoundIfReachable == kind = "path" => FoundIfReachable
=============================================================================
