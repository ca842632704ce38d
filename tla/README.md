# bl_library: a verification development

bl_library is a collection of data structures and algorithms in C and C++: heaps,
queues, trees, hash tables, sorts, path finding, and one concurrent algorithm, a
quicksort shared by several POSIX threads. There is no program around them: the
components are used by whoever links them, and almost none calls another. This
directory holds TLA+ modules that model the components one by one, configurations
under which TLC checks them on small instances, and proofs that TLAPS checks for
every value of the constants.

1. Inventory: the components, their state, their hazards
2. The modules and how they correspond to the code
3. The runs, their bounds, and what they show
4. Fairness
5. What is proved, and how
6. Findings
7. What is not modelled; the plan

## 1. Inventory

| component | state | operations that change it | modelled |
|---|---|---|---|
| BL_THREAD `bl_thread_qsort` | array, stack of segments, mutex, semaphore, busy flags, locals of each worker | create, join, and a worker's loop: pop, sleep, leave, partition, push | yes |
| BL_HEAP (`bl_heap`, `bl_dheap`) | array of pointers, two sizes, growth rates, children per node | new, push, pop, foreach, foreach_remove, trimToSize, the two growth rates, heapify | yes |
| BL_QUEUE | linked list, head, tail, size | enqueue, dequeue, remove, modify, foreach_remove | yes |
| RBTREE | nodes with colour and parent, one leaf sentinel, size | insert (5 cases), remove (7 cases), clear | yes |
| INTERVALTREE | the same, and `max` in every node | the same, with updateMax; the queries intersect and within | yes |
| BL_HASH | table of chains, count, tableSize | insert, remove, modify, foreach_remove, rehash | yes |
| BL_BSTREE | elements, size | insert, remove (two pops), foreach_remove | yes |
| BL_SLIST, BL_STACK | linked list, size | push, pop, add_sorted, del, del_mult, sort, free_nodes | yes |
| BL_SORT | none (sorts its argument) | insertion, heap, merge, nrmerge, quick, qsort, radix | yes |
| BL_UTIL | none | qselect, partition, bsearch (yes); retrying malloc, arr_set, char_replace (no) | partly |
| BL_PATH | field, direction back and directions tried of each cell, list of cells | search, rebuilding of the path | yes |
| PREFIXTREE | nodes with a piece of a word, an end mark and children | insert, contains | yes |
| QUADTREE | quadrants, each with a map of regions | insert, two removals, queries within and across | yes |
| BL_STRING, BL_COMPARE | none | strip, conversions; comparison functions | no: no state, no control |
| WINDOW | Windows console | – | no: pure I/O |

**How they interact.** Within a component through shared state: the workers of
`bl_thread_qsort` share the array without a lock, and a stack and flags under one
mutex; the semaphore is apart from both. INTERVALTREE is RBTREE with an augmentation
maintained after each rotation. Every container calls back: `cmp_func` to compare,
`func` in foreach. A callback that calls the container it is called from is not
provided for anywhere in the library and not modelled; callbacks that change the
*elements* are (foreach of the heap).

**What is hard**, component by component; PROJECT.json lists each hazard at its line.

* `bl_thread_qsort`: any interleaving of workers; the end of the sort has to be
  detected from an empty stack and clear busy flags; the semaphore's value drifts away
  from the number of segments (pops take no token); the partitions touch one array
  without a lock; `size_t` wraps below 0. Correct means: no two workers touch one
  element, nobody leaves early, the array ends up sorted, and the call returns.
* Heaps: the order of the array after every operation; `(heapSize - 2) / 2` on
  `size_t`; cells beyond heapSize hold stale pointers. Correct means: a priority queue,
  inside its array, and `cmp_func` is given elements only.
* Queue: tail may point to a freed element. Correct means: first in, first out.
* Lists: each deletion treats the head apart; sort takes a list apart while it inserts.
  Correct means: nothing leaked, a stable order.
* Hash table: rehash relinks the elements of the table it walks; the order of elements
  with one key decides which one get finds. Correct means: a stack of data for each key, and no
  element lost at any moment.
* Trees: the cases are reached by particular sequences of calls, share one sentinel,
  and equal keys end up on both sides of one another. Correct means: a bag of keys
  with balanced height, and interval queries that miss nothing. In the tree of prefixes
  later words split the nodes of earlier ones; in the tree of quadrants a region is searched
  for where it would be inserted now, and may lie on an edge, a middle line or outside.
* Sorts and array functions: pointers that leave the array by one, sizes that wrap,
  elements equal to a pivot, blocks that are not whole, a buffer for half of an odd size.
* Path: cells leave the list with directions untried, others come back to it; the rebuilding
  trusts that every direction back leads to the start.

## 2. The modules

### The concurrent sort

Three levels of detail, each shown to implement the one above, and two modules for
the partition by itself:

| module | what it models |
|---|---|
| `QSortThreads` | the control: threads, stack, busy flags, semaphore; a critical section is one action, a partition is a choice of two parts (`Cut`) |
| `ThreadQSort` | the same with the array: `SortPartition` divides the segment around some pivot, in any order (`QSortArray` says what that means); StepAlgorithms runs it with several workers |
| `ThreadQSortFine` | lock, unlock, the flat stack of `size_t`, each push and post a step, partitions by rounds of their loops, in any interleaving |
| `PartitionSteps`, `QSortPartition` | the partition loops with wrapping indexes; on their own from every segment of every array (part of the run algorithms) |
| `MCThreadQSortFine` | chooses TLC's input arrays |
| `ThreadQSortProofs`, `ThreadQSortFineProofs` | the proofs about the three levels, the first about the upper two |
| `PartitionProofs`, `AlgorithmProofs` | the proofs about the loops, and about a partition as a whole |

`pc` is where a worker is in `thread_qsort`: `loop` before the first lock, `wait` in
`sem_wait`, `part` from the pop to the end of the partition, `push` before the second
critical section, `exited` after `pthread_exit`. Both critical sections of the code are
single actions in `QSortThreads` because everything they touch is accessed under the
mutex only, but the semaphore, which only `sem_wait` reads. This is not taken on trust:
`ThreadQSortFine` has every step apart; that it refines `ThreadQSort` is checked by TLC and proved. In the
mapping (`Coarse`) a first critical section takes effect when the worker looks at the
stack, a second one when it gets the mutex (what it has yet to push counts as pushed),
and a partition with its last round: `whole` is an auxiliary variable, the array
without the partitions that are still going on.

`pthread_create` may fail (`CreateFails`: `exit(-1)` ends the process). `pthread_join`
cannot: it joins threads that exist, once each. Assumed: `num_threads > 0`;
`size > 1`, since for 0 and 1 the code sorts a segment that is not there; a plain
`char` is signed, as on x86 (the flags end with -1, bl_thread.c:287, :445). The overflow of
`qsort_stack` is not part of the model; `StackBounded` bounds the stack instead: at
most (Size + 1) / 3 segments. The code's 2048 segments are thus enough for any
schedule up to 6143 elements. For larger arrays several workers may exceed it: the
comment "not constant for multithreaded" (bl_thread.c:44) says so.

### The heaps

`HeapOps` has what `bl_heap` and `bl_dheap` share (the file writes everything twice);
`BLHeap` and `BLDHeap` add their sifting down; `PriorityQueue` is the promise of both,
taken from their comments. One round of a sifting loop is a step: `at` is the operation
going on, `index` where its sifting is, `todo` the counter of heapify. An element is a
pointer to something of the caller's: `prio` is its place in the order, which
`Foreach` may change (`dirty` from then to the next heapify). `Contents` maps the array to
the abstract queue. A read of a cell that holds no element leads to `at = "astray"`,
where the model ends: what the program does from there is undefined. `HeapProofs` holds the
proofs about both heaps.

Restrictions: one element is not pushed twice (a pointer twice in the array would
make the contents a bag; no comparison changes). realloc does not fail, and the size that `Grown` gives the
array fits in a `size_t`: bl_heap.c:173 computes it in floating point, and memory ends long before `size_t` does. `index * dNum + dNum + 1`
does not wrap for an element of the heap (`DNumsAssumption`): with up to eight children the array of
pointers would not fit in memory before it does, with more it is up to the caller.
`bl_dheap_heapify` with fewer than two elements counts down from about `SIZE_MAX / dNum`
and changes nothing meanwhile; the model has these rounds as steps, up to its own SizeMax.

### The linked structures

`StepLists` composes four of them, one at a time (`kind` says which), and `MCLists` adds what TLC needs. `ListOps` has the
two operators on sequences and cells they share with `BLPath`. The proofs are in `ListOpsProofs` (lemmas about sequences,
chains and sums of lengths) and `ListProofs`.

`BLQueue` has the cells of memory: `next` and `data` survive a free, malloc returns any
cell not in use, and a write through a stale tail lands wherever that cell is now.
`chain` is auxiliary: the cells a walk from head visits. `Fifo` is the promise. The constant
RemoveLast says whether callers ever remove the last of several elements with
`bl_queue_remove`; with TRUE the queue breaks (section 6), with FALSE it is correct, which
is proved. When a search would walk a broken list the module says nothing about it:
the run with TRUE looks only for the first thing that goes wrong.

`BLSlist` is `bl_slist`, and with `StackNext` `bl_stack`, whose functions are the same. `elms` has a
record for each element that malloc gave and free did not take back, so a step that used a freed
one would have no value and stop TLC; `ListWhole` says that none is leaked. A deletion, del_mult or sort is one
step: nothing else can look at the list meanwhile. `Inserted` is the insertion that add_sorted and sort
share. `OrderedList` is the promise, taken from the names (there are no comments): data that
compare equal may differ (`Rank`), so the order of equals, the first match of find and
del, and the order of del_mult's result are part of it.

`BLHash` has for each allocated element a record of key, data and next (`elms`), so a step that
used a freed element would have no value and stop TLC. `hash`, what `bl_hash64` gives for each
key, is any function, chosen in the initial state. rehash is a step for each element and
each chain (`newTable`, `newSize`, `i`, `elm`); no other call begins meanwhile. `KeyStacks` is the promise: for each key the
sequence of its data, of which get, remove and modify see the first. During a rehash the mapping puts
the moved elements, turned round again, before those not moved yet; the last step turns all sequences
round at once. That equal keys come out in reverse order is what the code does, not
what a comment says; the comments promise "the first found" only.

### The trees

`StepTrees` composes the three trees of keys, one at a time (`kind` says which), `MCTrees` adds the trees of prefixes
and quadrants and what TLC needs. The proofs about the three are in `TreeProofs`.

`RBTree` models the pointers: `tree` is the record of left, right, parent and root. Each
`insert_case` and `remove_case` is an action (two where a case either changes the tree or
passes on), `at` the case to come, `cur` its argument, `doomed` the node that
`remove_case0` deletes when it returns. `remove_case0`, which relinks and repaints before
calling `remove_case1`, is part of `RemoveNode`. `KeyBag` is the promise: a call with a
key changes how many elements there are with that key, and with no other (`call`, auxiliary,
is the last call; no step reads it, so `Shape` leaves it out). A node the tree
deletes may be handed out again by the next insert.

`IntervalTree` EXTENDS it: the low end is the key, and each action gets the calls
of `updateMax` the code makes at that place. `updateMax(cur)` at the end of a removal may be
given the node just deleted. It then reads freed memory: `Finish` lets it do any of
what its two ways out allow, so that `QueriesFindAll` does not depend on the allocator.
`remove` searches with `dataCmp` among equal low ends: `IRemove` takes any of them.
`intersect` and `within` are the functions that the queries compute, pruning as in the code; `RangeQueriesFindAll` of
StepTrees says what they and `count` must find; `count` is RBTREE's, by the low end alone. INTERVALTREE's own
`count_` (intervaltree.h:128-139), which compares the data too, is not modelled.

`BSTree` is `bl_bstree`. Its code works on `prev`, the address of the pointer to change, so the
model's `links` maps each such address (head, or the left or right of an element) to what is
stored there: `[links EXCEPT ![prev] = replace]` is `*prev = replace`. Insertion puts equal elements
to the left; a removal that promotes the successor may bring one to the right, and the search
has to find it still. Its promise is KeyBag too. Ways down are functions on the pointers of existing elements
(`Live`), in RBTree on the existing nodes: a step that followed a pointer out of the tree would have no value.

`PrefixTree` has its tree as a value, the record of the root with its children in it: the code
never shares a node. `insertInNode` splits a node, `insertAfterNode` adds a child where the binary
search `childSearch` says, `find` is contains. `WordSet` is the promise.

`Quadtree` names a node by the quadrants that lead to it, so that `quadrantBounds` can be computed;
`stored` is the map of regions of each node, with empty vectors where `removeData` leaves them. `Home` is the way
of insert, which makes the nodes that are missing, `getContainingNode` that of removals and
of the query within, which stops at a missing one. The walks of the queries are sets: the
nodes that are reached while their bounds meet the query. `Region` is the constructor (Quadtree.h:35-53), which puts
the two edges of each axis in order, so the regions of the tree and of the queries are not inverted however
their edges are given; that nobody turns the public fields round afterwards is a precondition. `QueriesFindAll` is about
every query: one that meets the bounds of the tree finds all it asks for, regions that leave the bounds included; one
beyond them finds nothing, although `insert` keeps regions there at the root (:276), for both walks begin with a
test against the bounds (:357, :384).

`RegionBag` is the promise: both removals return the number of regions removed. The tree does not keep it.
`remove(region)` returns what the map's `erase` does (:310), 1 for an entry whatever is in it. So `RemoveCounts`, the
refinement of the whole promise, is the violation of the run quad_remove, and `ImplementsBag` is that of a weaker
one, `FoundSpec`: everything as promised but that number, which is 1 if anything was removed.

`operator[]` of RBTREE names a member that does not exist (`leaf`) and does not
compile when used; it is peek and insert otherwise.

### The algorithms

`StepAlgorithms` composes the algorithms that are modelled step by step (the partition on its own, a lone
worker, several workers of ThreadQSort with their array, the path), again by `kind`; `MCAlgorithms` adds the sorts and
array functions (kind "sort"), which are recursive operators, and chooses TLC's inputs. They are apart so that StepAlgorithms can be proved about.

`BLSort` has each sort as an operator from an array to an array, in the steps of the code: where
equal elements go, which child a sift takes, where blocks and segments are divided, which part is
sorted first. Positions are one more than indexes; a position 0 or beyond the end of the array being sorted has no value, so TLC
stops at any access there. An access outside the other two arrays has the result `Outside`, of which nothing else
is said: merge's buffer, of size / 2 elements for the whole call (`MergeWith` passes its room on, `MergeSort` gives it), and
the ten buckets of radix. Insertion shifts elements one by one in the code; `Placed` is
what the shifts come to. The recursion of merge and quick is `MergeSort`, `QuickParts`; the thresholds are
constants, as they are in the code. `SortsSort` says that merge sorts what its buffer is large enough for, and that
its result is `Outside` for the rest, which section 6 is about. Of radix it speaks for arrays without negative
numbers only, though bl_sort_radix takes an `int*`. `Quotient` and `Digit` truncate as C does, so the last digit of a negative
number is negative and `ByDigit` is `Outside`: the code writes before bucket[0] (bl_sort.c:600, :606). If no number is positive it
makes no pass at all, as `maxi` stays 0, and leaves the array as it is (bl_sort.c:595). No comment promises radix more, so
that it is for non-negative numbers is taken for a precondition; bl_sort_test.c:21 adds up several `rand()` for the numbers it sorts,
which may overflow to negative ones. `TimesTen` is the multiplication of a 32-bit int, wrapping: TLC's own
integers do not wrap. `BufferSize` and `BufferNeed` are about sizes alone. `BLUtil`'s qselect and partition, and
bl_sort_qsort, use `PartitionSteps`: the code has the same loops five times. In bsearch the difference of two pointers
becomes an unsigned index, so for a pointer before the array it is huge: `IndexOf` wraps it. qselect is asked for terms
beyond the array too, which it answers with NULL (bl_util.c:91); an empty array is a precondition, for `length - 1` wraps there
and no term is refused.

`BLPath` is `bl_path_arr_basic`, a step for each round of the search and of the rebuilding. The slope is
compared with its limits, 0.414 and 2.414, by cross multiplication. `moves`, auxiliary, counts the moves to
each cell, which gives `VisitedLeadBack` its measure. When the end was never reached the code looks
for a direction that is not there, for ever: `Spin`. What is allocated for the search is not modelled, nor that the
rows of `nodeField` are not freed where the array of them is (bl_path.c:156). `Tried` are the directions a round tries, in their order;
`Among` filters a sequence (the library's filter is not one the prover can expand).

## 3. The runs

| run | instance | what it asks |
|---|---|---|
| threads | 3 workers, 8 elements, fair | `SegmentsDisjoint`, `ExitOnlyWhenDone`, `SomeoneIsAwake`, `StackBounded`, `WorkFinishes`; `BlocksOnlyOnSleeper`: the only way not to return is a sleeper |
| threads_lost | 2 workers, 4 elements, fair | violates `Returns`: the lost wake-up |
| fine | 2 workers, every order of two sets of 5 elements | refinement of ThreadQSort, `NoDataRace`, `OrderOutsideMutex`, `WorkFinishes` |
| heaps | binary and ternary, 4 elements, 3 places in the order | refinement of PriorityQueue, `HeapOrder`, `CountFits`, `DHeapReadsElements` |
| heap_small | binary, 2 elements | violates `ReadsElements` |
| lists | 4 cells, 2 keys, 2 data, every hash, 1 to 3 chains; 3 data in 2 ranks for the lists | refinement of Fifo by the queue, of KeyStacks by the hash table, of OrderedList by list and stack; `ListIntact`, `ElementsLinked` |
| queue_tail | 3 cells, 2 data | violates `EnqueueKeepsList` |
| trees | 11 nodes of red-black tree, 5 intervals, 7 elements of `bl_bstree`, 3 keys; 4 of 14 words; 3 data of 3 regions | refinement of KeyBag, WordSet, RegionBag; `RedBlack`, `LinksMatch`, `TreesLoseNothing`, `RangeQueriesFindAll` (of the red-black and the interval tree); what queries of the quadtree find is part of `QuadImplementsBag` |
| quad_remove | 3 data of 3 regions | violates `QuadRemoveCounts` |
| algorithms | partitions of every segment of every array of 6 over 3 values, SIZE_MAX = 15; one worker on 12 elements; two workers on 5 elements, 5 inputs; every 3 x 3 field with every start and end; every array of at most 7 over 3 values and of at most 3 large numbers of either sign | `StaysInBounds`, `PartitionEnds`, `StacksLogarithmic` (the comments at bl_thread.c:44 and bl_sort.c:449), `SortsSort`, `QuickPartitions`, `UtilsAgree`, `PathLeadsBack`, `PathFoundIfReachable`; of the two workers `SortedApart`, `KeepsElements`, `SettledStays`, `SortedAtExit`; and that they all end: `AlgorithmsEnd` |
| merge_buffer | arrays of at most 25 equal elements, the thresholds of the code | violates `BufferFits` |
| path_optimal | 4 x 3 fields with five open cells | violates `FindsOptimal` |

Why these bounds are enough:

* Eight elements are the least with which three segments are open at once, each of two
  elements and a pivot between each two: three workers that all partition, or one that
  partitions while two segments wait. Three workers are needed for one to sleep while two
  hand over.
* Five elements are the least with which two workers partition at the same time. In
  algorithms a partition of theirs takes any pivot and any order, so the first one reaches every
  order of either part; the five inputs differ in which elements are equal. `fine`
  runs the code's pivot choice, so it takes every order of the input.
* Six elements with three values give the partition loops every pattern of below, equal
  and above, equal pivots at both ends, and segments that begin at 0, where `hi` wraps.
  SIZE_MAX = 15 is odd, as 2^64 - 1 is, and larger than every index, so that a wrapped
  index is never mistaken for a proper one.
* Four elements make a binary heap of three levels and a ternary one of two, with a full
  node; the array starts with 0 or 2 cells, so pushes grow it, trims cut it.
* Eleven nodes are more than the least tree (of black height 3) in which every case of a removal
  occurs, `remove_case3` passing its work upward included; every action fires. Three
  keys make every tree of more than three nodes have equal keys.
* Four cells with data of three ranks and equals give a deletion at every place of a list, several
  at once at its head, and a sort with equals apart.
* Four elements with two keys in one chain give every place an element can be removed from, with
  equal keys before and behind it; hashes 0, 1 and 3 put two keys together in one table size and
  apart in another.
* Seven elements of three keys make an unbalanced tree in which a successor deep in the
  right part, with an equal element above it, replaces a root.

* The fourteen words begin alike, are prefixes of one another, or have nothing in common; four of
  them split a node twice. The three regions are one in a quadrant of a quadrant, one that touches
  the edge of the tree and one that leaves it, some with their edges given in the wrong order; the queries have
  their edges on and beside these, on the middle lines and beyond the tree.
* Seven elements with both thresholds at 2 make merge divide twice into uneven halves,
  nrmerge end with a block that is not whole in every pass, and quick divide both parts again. Arrays of 3, 5 and 7 overrun merge's buffer, those of 4 and 6 do not. The numbers for
  radix are those where the divisor wraps: 1410065408 is 10^10 mod 2^32, the divisor after it has wrapped,
  1215752191 is 10^11 mod 2^32 less one, 2147483647 is INT_MAX; each is
  there with its negative, -INT_MAX the least.
* A field of three by three has walls to go around in every direction and cells that a straight way passes by and
  has to come back to. merge_buffer and path_optimal are as large as the least counterexample needs.

Symmetry: in `heaps` elements are interchangeable, nothing in the model compares
them but through `prio`, and the initial `prio` is the same for all; in `lists` cells, keys and data are
interchangeable (the ranked data of the lists are not), the hash of a key being state; neither run has a liveness
property. In `trees` nodes are interchangeable too, and VIEW `Shape` identifies
states that differ only in which node is where: it gives the tree read from the root
with all fields of its nodes, `cur`, `doomed` and `node` by their place, the number of existing
nodes, the trees of words and of quadrants, and whether the upward pointers match, so that no state that breaks
`LinksMatch` or leaks a node hides behind one that does not. Nothing else of the state is ever
read again: a new node's fields are all set.

CHECK_DEADLOCK FALSE is there where the program may really stop: a sort that has
returned, failed or hangs, a partition that is done, a program that has read astray.

## 4. Fairness

`FairSpec` (QSortThreads, ThreadQSortFine) assumes weak fairness of each worker and of the
main thread: a thread that can go on is scheduled at some time, as every POSIX scheduler
does with threads of equal priority. Nothing fair is assumed of the semaphore or of
the mutex: which sleeper gets a token and which worker gets the lock stays open, and
`CreateFails` is never forced. Weak fairness is enough since no worker takes the mutex again and again
for ever: once its work is done it sleeps or leaves. `MCSpec` of MCAlgorithms assumes
that its one program goes on while it can, nothing else; what it is about is sequential, or workers
and their creator, each of which takes a bounded number of steps.

## 5. Proofs

All theorems hold for any number of workers, elements, cells and data; the
assumptions are the modules' ASSUMEs (`SizeAssumption`, `ValueAssumption`, `FineAssumption`, `SizeMaxAssumption`,
`ArrayAssumption`, `WorkersAssumption`, `QueueAssumption`, `ListAssumption`, `HeapAssumption`, `DNumsAssumption`, `FieldAssumption`, `NodeAssumption`, `HighAssumption`, `ElmAssumption`), and RemoveLast = FALSE or
FIND_OPTIMAL = TRUE where stated. What they ask is that there are a worker and two elements, that elements compare like
integers, that indexes are below SIZE_MAX, that a field has a cell, and that NULL and the leaf are no nodes.

**`ThreadQSortProofs`** proves of QSortThreads `TypeCorrect`, `SegmentsAreDisjoint`, `ExitDetectsTheEnd`,
`WorkIsNoticed` and `StackStaysSmall`, the last four from one inductive invariant, `IInv`. None of them is
inductive alone. Disjointness needs to know that what a partition leaves lies within
its segment with the pivot between, which is `Cut` in the type invariant. `IInv` keeps more than disjointness:
between two segments there is always an element of neither, a pivot (`SegmentsApart`). That is what bounds the stack: each segment on it can claim
three positions, its first two elements and the one before them, which no other segment claims, and
there are only `Size + 1` to claim. The claims are counted as a set, so no sum over the stack is needed. The exit test
needs that the busy flags are set exactly while their workers hold segments
(`BusyExact`), for it reads the flags and not the workers; a worker that has not been
created holds nothing (`NotYetCreated`). After a worker has left, no later step brings work back,
since only a worker that holds a segment pushes. A worker falls asleep only while another is busy, and the
worker that pushes goes back to `loop`: so there is always one awake while there is
work. This is why the lost wake-up of section 6 keeps the call from returning but never
leaves the array unsorted.

Of ThreadQSort it proves `SortImplementsThreads`: every step of ThreadQSort is a
step of QSortThreads or leaves its variables, so the invariants above carry over.
`ElementsAreKept` composes permutations: the array is the input rearranged by p, a
partition rearranges it by q. `ApartIsSorted` is inductive together with
disjointness: two elements out of order lie in one open segment; when that segment is
partitioned they end up in one part, or in order. `ArrayIsSorted` then follows: when a worker has
left there is no open segment. `SettledElementsStay` is about steps: of each action it shows that it opens no
segment but parts of an open one, so that an element in no open segment of two or more is where it belongs.

**`PartitionProofs`** is about the loops of `PartitionSteps`, on which `bl_thread_qsort`, `bl_sort_qsort` and
`bl_util_partition` and `qselect` rest. `PartitionStepKeeps` says of any round of any of them: it changes the array by
exchanging two elements of the segment (`Moved`), and keeps `Places`, where the indexes may stand in
the loop they are in, and `Divided`, how far that loop has divided the segment. The first
loops keep what is before `lo` no greater than the pivot and what is behind `hi` no smaller; the last two
work outward from `pivot_lsect` and `pivot_hsect`, with the elements equal to the pivot collected at
both ends, and bring these to the middle. `hi` and `lo` may pass 0 and wrap: `Places` says when, and that the loop
then ends before the wrapped index is used. `TouchesInside` follows: what a worker may read or write is in its
segment. `AlgorithmProofs` turns this into theorems about a partition of any segment of any
array, from its first round to its last: `PartitionStaysInside` and `PartitionIsRight`.

**`ThreadQSortFineProofs`** brings both together. `FInv` is the invariant of the code's own steps:

* `MutexInv`: the mutex belongs to the worker whose `pc` is in a critical section, and to nobody else;
* `BusyInv`: a busy flag is set from the pop of a segment to the clearing of the flag after the pushes;
* `StackInv`: the flat stack is even but between the two pushes of a pair, and what is below is a sequence of
  pairs of indexes of two elements at least;
* `FrameInv`: the locals of a worker that partitions satisfy `Places` and `Divided` for its segment;
* `ArrayInv`: the array is `whole`, the array without the partitions still going on, rearranged within the
  segments of the workers that partition.

`FInv` is inductive only together with the invariant `IInv` of QSortThreads, read through the refinement
mapping: that the segments two workers hold are disjoint is not seen from the steps of one of them. So each
step is shown to keep `FInv` given disjoint segments, and to be a step of ThreadQSort or to change nothing it sees,
which keeps the segments disjoint. `FineImplements` is that refinement; in the mapping the stack of pairs is what is on
the flat stack followed by what the owner of the mutex has yet to push. A round of a partition is hidden, its last
round is the whole partition: there `Moved` within the segment, over all its rounds, is what makes the abstract partition a
rearrangement, and `Divided` what makes it a partition. `NoRace` says that two workers never
touch one element, though neither holds the mutex: `TouchesInside` and disjointness. `InOrderOutsideMutex` says that
a critical section leaves everything the mutex protects in order. `ArrayIsSortedInPlace` is the guarantee of the
whole: once any worker has left, or the call has returned, `arr`, the array the loops worked on, is sorted and a
rearrangement of the input. It takes `ArrayIsSorted` from ThreadQSort through the refinement, and that nobody is partitioning
any more, so that `arr` is `whole`.

**`ListProofs`** is about the linked structures, in the composition that TLC runs.
Of the queue: the list stays intact (`ListStaysIntact`), an invariant inductive with the types,
and every step of BLQueue is a step of Fifo (`QueueIsFifo`). The step that needs the assumption is
Unlink: with the last of several elements removed, tail is no longer the last of `chain`. `QueueAmongLists` carries both to
StepLists.

The modules of the list and the table have no auxiliary variable with the chain, so the proofs bring it along as a witness. Of the
list the invariant (`SlistHolds`) says: there is a sequence q of the allocated elements, each once, of which head is the
first, next leads from each to the following one and from the last to NULL, and size is its length (`IsList`). `Walk` from
head is then q (`WalkIs` of `ListOpsProofs`, by induction over the length): the pointers say what the sequence says, and each
operation is an operation on q. For del_mult the q of afterwards is what `Among` leaves of it, and next skips to the first
element that is left. sort is an induction over its loop (`Inserting`): after n elements the cells taken off the old list
are on a new one, those still to come hang together as before, and what the new list holds is what OrderedList's sort has
made of as many data, for an insertion before the first greater one keeps equal ones in order. `ListsAreOrdered` is the
refinement of OrderedList by lists and stacks for any ranking of the data.

Of the hash table the invariant (`HashHolds`) says the same with a chain q[b] for each slot b of the table, and of both tables while a
rehash goes on (`Stands`): no element on two chains, every allocated element on one, each on a chain that is the hash of
its key modulo that table's size (`AtHome`), the element in hand the first of those left of its old chain, the chains before
that one emptied, and count as many as there are elements. `TableIntact`
is about the walks alone and not inductive; with the witness every walk is a q[b]. `TableIsStacks` is the refinement of
KeyStacks: an insertion puts its element first among those with its key, since all of them are on one
chain; `get`, `remove` and `modify` see the first of them; a step of rehash takes the first of the old chain to the front of a
new one, so that the moved ones, turned round, followed by those left, are the same sequence as before, and the end of the rehash
turns all sequences round at once. `NoElementLost` draws `ElementsLinked` from both invariants.

**`TreeProofs`** is about the red-black tree, the interval tree and the tree without balancing, in StepTrees. What holds
of a tree of any kind is proved once, about functions C (the children on each side) and D (the set of nodes under each
node): `Shaped` says that D[n] is n and what is under its two children, all disjoint, `Sorted` that what is under the left
child of n is not greater than n and what is under the right one not less. The trees of the models are given by pointers; D
is a witness, and what the models' recursive functions compute (`InTree`, the ways down, `BlackHeight`) is shown to
agree with it by induction over D. A new node (`Hung`), a node cut out (`Spliced`), a rotation (`Turned`) and a node in
the place of another (`Renamed`) are changes of C, and for each the D of afterwards is written down and shown
to be `Shaped` and `Sorted` again. For `Sorted` the order may be that of equal keys on both sides, which is why it is `<=` on both.

The invariant of the red-black tree (`Good`) adds the parents, which have to be those of the children in every
state (`Structure`), the colours, and B, the number of black nodes on the ways down from each node. Between calls
B counts the same on both sides of every node and no red node is under a red one. RedBlack and LinksMatch are not inductive
since a call breaks the colours and repairs them case by case, so `Phase` says what holds at each case: while an
insertion is repaired one red node, `cur`, may have a red parent, and nothing else is wrong (at `insert_case5` the
parent is red, the uncle black, and the node on the outer side: `CaseFive`); while a removal is, all ways under `cur`, and they only,
have one black node too few (`Short`), so its sibling is no leaf; at `remove_case3` and `remove_case6` the sibling is black, and at
`remove_case6` the outer nephew is red. Each case is shown to lead from its phase to the next one or to the end. The sentinel leaf, whose parent a
removal uses to find its way up, has that parent in these phases. `TreesStayRedBlack`, `TreesStayLinked` and, with size and
the allocated nodes, the first half of `NoTreeLoses` follow. The actions of the interval tree are those of the red-black
tree with updates of `max`, which nothing of this reads.

`RangeQueriesComplete` is about what queries find. For `intersect` and `within` of the interval tree it needs that no `max`
falls short: the `max` of a node is at least its own high end and the `max` of its children (`Raised`), never that it is equal,
for where `updateMax` stops early, or after a removal, it is too large and the queries only walk further than they must.
It need not hold in the middle of a call, and `updateMax` is called in the middle of the cases. So the invariant (`Maxed`) says which
nodes may be out of order (`Loose`): between the cases of an insertion the parent of the new element may not have its
`max` yet, and nothing else is wrong. Within one call of `updateMax`, the node it has come to may be out of order
and no other (`UpdateRaised`, by induction on the way up: what it passes is mended, and where it
stops the parent was no smaller already). A rotation puts the two nodes that change places out of order, and the calls of
`updateMax` behind it mend them, the lower one first (`TurnRaised`, `AfterRaised`). The last call of a removal may be given the
freed node and do any of what `Finish` allows; all of that keeps `max` large enough (`FinishRaised`). With `Raised`, what hangs under
a node has no high end above its `max` (`MaxUnder`), so a side that a query leaves out has nothing to find (`Reaches`),
and a search that leaves out such sides only finds everything (`SearchUnique`). `count` takes the first element of
its key on the way down and adds up both sides of it: by `PeekFound` all others are under that one.

`TreesAreBags` compares what an operation does to the set of nodes and their keys with KeyBag. An insertion adds one node
with its key. A removal takes out the node found, or gives it the key of its replacement and takes out that one:
either way there is one element less of the key asked for and of no other (`CountRemove`). That a search finds an element
whenever there is one needs `Sorted` alone: off its way there is none.

In `bl_bstree` the addresses of pointers take the place of parents: each element hangs on one pointer (`OneLink`), so that
`*prev = replace` changes one place of the tree. `Plain` is its invariant, with the same D. A removal that promotes an
element is a `Spliced` followed by a `Renamed`; in between, the promoted element is outside of the tree and its key is taken to be at the
element that will be freed (`Virtual`), which keeps `Sorted`: the promoted one was the last on its side (`AtBottom`).

**`HeapProofs`** proves of the binary heap that it stays inside its array (`HeapFits`), that it is in
order between two operations (`HeapIsOrdered`) and that it is a priority queue (`HeapIsPriorityQueue`), and
the same of the d-ary heap with any number of children (`DHeapFits`, `DHeapIsOrdered`, `DHeapIsPriorityQueue`). The
heap order is broken while a sifting goes on, so the invariant, `IInv`, says how: all
cells are in order with their parents but index itself (`Up`, for push) or its children
(`Down`, for pop), and the children of index do not stand before its parent, which is
why an exchange puts nothing else out of order. For heapify the order begins at the index it has
come to, and ends with all of the heap. That the root is then the greatest is by
well-founded induction: the least cell of the greatest elements has no parent. What the two heaps
share is proved once, with `(c - 1) \div k` for the parent; they differ in what a round of
sifting down compares. The wrap of section 6 is part of what is proved for the binary heap (`BInv`): with fewer than two
elements, what is compared beyond the heap is either no element (`SiftDownAstray`, after which nothing is promised)
or the element of the heap itself, which is not before itself, so that nothing is exchanged. The d-ary heap (`DInv`)
never gets there: `DHeapReads` proves that what `dsift_down` gives its comparison are elements of
the heap, and `DHeapsReadElements` that this holds of it beside `bl_heap`. Its loop over the children is the
choice of the first greatest one, which has to be shown to exist (`FirstGreatest`: the one than which the
fewest are greater, and of these the least). The assumptions beyond types are that the elements are no
more than the largest size_t, each having an address of its own, and that the indices of children do not wrap
(`DNumsAssumption`).

**`AlgorithmProofs`** is also about `bl_path_arr_basic` on every field. `ProceedGoes` and `SpreadGoes` bring both kinds of round
to one form, `Goes`: open neighbours of the cell of the round are entered and take its place in the list.
The invariant of the types, the list and the way (`PathInv`) is inductive with `VisitedLeadBack`: a cell put before
the way that is rebuilt is one move nearer to the start than all of it, so the way comes to no cell twice
(`WayCanBeWalked`). `SearchStaysInField` rests on `DirectStays`: the straight way, cut at the slopes of
0.414 and 2.414, never steps beyond the end in either axis, so that valid_xy, which looks at the wrong cell
there, does not matter.

`WayIsFound` needs a second invariant, `ComesBack`. A cell that goes straight on leaves the list with
directions untried. `Kept` says that every cell entered is in the list, or has spread in all directions, or waits: its
straight way leads to a cell entered that has done no more than to go straight on itself. When that one
spreads, the direction back is among those it tries, since the straight way never turns back
(`NeverBack`), and it puts even a visited cell in the list: the one that waits returns. When the list is empty
none waits, because the one nearest to the end would wait for a nearer one (`NoneWaits`, with `Far`
as the measure), so all neighbours of what was entered were entered (`SplitEntered`), and `Reachable` is the least set like
this (`ReachableLeast`). The cells at n moves at most are defined by recursion; that the recursion defines them,
and ends after as many rounds as there are open cells, is proved too (`Recursion`, `WithinIs`,
`ReachableClosed`). Without FIND_OPTIMAL a round stops after one direction, and `WayIsFound` is not claimed.

All this, and what `ThreadQSortProofs` proves of ThreadQSort, is carried over to the composition that TLC runs:
`AllStayInBounds`, `EveryPartitionEnds`, `EveryPathLeadsBack`, `EveryPathFound`; `WorkersKeepApart`,
`WorkersKeepElements`, `WorkersSort`, `WorkersLeaveSettled`. A behaviour of kind "workers" is one of ThreadQSort, with
any number of workers and elements.

Only model-checked: everything about liveness (`WorkFinishes`, `Returns`,
`BlocksOnlyOnSleeper`, `AlgorithmsEnd`), which is out of the prover's reach;
`StacksLogarithmic`; the sorts and array functions (`SortsSort`, `QuickPartitions`, `UtilsAgree`); the trees of prefixes and quadrants with
their queries (`PrefixImplementsSet`, `QuadImplementsBag`). What RECURSIVE operators compute (`BLSort`, `BLUtil`, `PrefixTree`, `Quadtree`) is beyond this prover.

## 6. Findings

* **bl_thread.c:337, lost wake-up** (threads_lost). A worker that finds the stack empty
  and another worker busy sleeps in sem_wait. Tokens are posted with pushes only, and
  sleepers use them up while pops do not give one back; the worker that ends the sort leaves
  without posting. The sleeper then never wakes and `pthread_join` never returns.
  threads shows that this is the only way not to return, and that the array is sorted all the same.
* **bl_heap.c:291, heaps of fewer than two elements** (heap_small). The last index to sift
  down from is computed as (heapSize - 2) / 2 on size_t and wraps; pop of one of the last two elements and
  heapify of a small heap compare cells beyond the heap. `bl_dheap` tests for this and
  does not (`DHeapReadsElements`).
* **bl_queue.c:112, tail after remove** (queue_tail). Removing the last of several
  elements leaves tail at the freed element; the next enqueue is lost, and size counts it.
* **Quadtree.h:310, what remove returns** (quad_remove). remove(region) "returns the number of regions removed"
  (Quadtree.h:305) and returns 1 for an entry of the map: also for one with several data, and for one that the other
  remove has left without any.
* **bl_sort.c:218, the buffer of merge** (merge_buffer). The buffer holds size / 2 elements, the half copied to
  it (size + 1) / 2: for every odd size above 24 one element is written beyond it. "(size + 1) / 2?? there
  aren't any problems so far", says the line.
* **bl_path.c:82, the optimal path** (path_optimal). bl_path.h:10 promises the optimal path with
  FIND_OPTIMAL. The search goes straight on as long as it can, not in the order of distance, and the
  way it finds may be longer than the shortest. It is a way, and found if there is one (algorithms).
  Where there is none, the rebuilding does not end (bl_path.c:133); the code promises nothing of such
  a field, so this is a hazard and not a finding.

## 7. What is not modelled, and the plan

Not modelled: free and destructors (the component ends), functions that only read (peek,
size, count; the queries that matter are), malloc failure (nowhere checked in the
library but in BL_UTIL), output, and the thread experiments in bl_thread.c, which keep no state of
the library. Of BL_UTIL the retrying malloc, calloc and realloc, which are loops around the allocation and
whose one hazard (realloc to size 0) is up to the C library, and arr_set and char_replace, which assign
element by element. BL_STRING and BL_COMPARE have neither state nor control; their boundaries are listed as hazards. WINDOW is
Windows console output. In QUADTREE `size_` is left out, which nothing reads; in PREFIXTREE the
character 0, which find takes for the end of a word.

What would be worth adding: BL_STRING's conversions, if properties about characters are wanted.

The trees, linked structures and algorithms share a run each, with a variable that
says which one a behaviour is about.
