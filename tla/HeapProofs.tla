------------------------------ MODULE HeapProofs -----------------------------
(***************************************************************************)
(* bl_heap and bl_dheap stay inside their array, in order, and are priority *)
(* queues, for any elements, order, sizes, growth rates and numbers of      *)
(* children; and bl_dheap compares elements of the heap only.               *)
(*                                                                         *)
(* While a sifting goes on the heap is in order but at index: Up and Down   *)
(* say how, for the two directions, and that the children of index do not   *)
(* stand before its parent, so that they may be exchanged with either.      *)
(***************************************************************************)
EXTENDS MCHeaps, FiniteSetTheorems, WellFoundedInduction, TLAPS

Types ==
    /\ heapSize \in Nat /\ arraySize \in Nat
    /\ arr \in [0 .. arraySize - 1 -> Elem \cup {Null}]
    /\ rate \in Nat /\ rate > 2
    /\ constRate \in Nat
    /\ dNum \in Nat \ {0}
    /\ at \in {"idle", "push", "pop", "heapify", "astray"}
    /\ index \in Nat /\ todo \in Nat
    /\ prio \in [Elem -> Prio]
    /\ dirty \in BOOLEAN

(* No element is in two cells. *)
Once == \A c, d \in Cells : arr[c] = arr[d] => c = d

(* Where index is, and what the cells beyond the last two elements hold,    *)
(* which pop compares.                                                      *)
Places ==
    /\ at = "idle" => index = 0
    /\ at = "push" => index \in Cells
    /\ at = "pop" => ret \in Elem
    /\ at = "pop" /\ heapSize = 1 => index = 0 /\ arraySize > 1 /\ arr[1] = arr[0]
    /\ at = "heapify" => todo <= index

(* Where the element of each cell stands, and the parent of a cell.         *)
Stands == [c \in Cells |-> prio[arr[c]]]
ParentOf(c, k) == (c - 1) \div k

(* v has every cell of n in order with its parent; all cells but i; those    *)
(* whose parent is t or beyond, but for the children of i.                  *)
InOrder(v, n, k) == \A c \in 1 .. n - 1 : v[c] <= v[ParentOf(c, k)]
Up(v, n, i, k) ==
    \A c \in 1 .. n - 1 : /\ c # i => v[c] <= v[ParentOf(c, k)]
                          /\ ParentOf(c, k) = i /\ i # 0 => v[c] <= v[ParentOf(i, k)]
Down(v, n, i, t, k) ==
    \A c \in 1 .. n - 1 :
        /\ t <= ParentOf(c, k) /\ ParentOf(c, k) # i => v[c] <= v[ParentOf(c, k)]
        /\ ParentOf(c, k) = i /\ i # 0 /\ t <= ParentOf(i, k) => v[c] <= v[ParentOf(i, k)]

Sifting ==
    /\ at = "idle" /\ ~dirty => InOrder(Stands, heapSize, dNum)
    /\ at = "push" /\ ~dirty => Up(Stands, heapSize, index, dNum)
    /\ at = "pop" /\ ~dirty => Down(Stands, heapSize, index, 0, dNum)
    /\ at = "heapify" => Down(Stands, heapSize, index, todo, dNum)

Shape == Types /\ CountFits /\ Once /\ Places
IInv == Shape /\ Sifting
-----------------------------------------------------------------------------
LEMMA ConstantsAre ==
    /\ SizeMax \in Nat /\ Prio \subseteq Int
    /\ Sizes \subseteq Nat /\ Rates \subseteq Nat /\ ConstRates \subseteq Nat
BY HeapAssumption

LEMMA DivIs ==
    ASSUME NEW n \in Nat, NEW k \in Nat \ {0}
    PROVE  /\ n \div k \in Nat /\ n \div k <= n
           /\ (n \div k) * k <= n /\ n < (n \div k) * k + k
BY SMT

LEMMA DivOrder ==
    ASSUME NEW m \in Nat, NEW n \in Nat, m <= n, NEW k \in Nat \ {0}
    PROVE  m \div k <= n \div k
BY SMT

(* A cell is one of the k children of its parent, which is before it.       *)
LEMMA Parents ==
    ASSUME NEW k \in Nat \ {0}, NEW c \in Nat, c # 0
    PROVE  ParentOf(c, k) \in Nat /\ ParentOf(c, k) < c
<1>1. c - 1 \in Nat OBVIOUS
<1> QED BY <1>1, DivIs DEF ParentOf

LEMMA ChildOf ==
    ASSUME NEW k \in Nat \ {0}, NEW c \in Nat, c # 0
    PROVE  ParentOf(c, k) * k + 1 <= c /\ c <= ParentOf(c, k) * k + k
<1>1. c - 1 \in Nat OBVIOUS
<1> QED BY <1>1, DivIs DEF ParentOf

LEMMA ChildrenOf ==
    ASSUME NEW i \in Nat, NEW k \in Nat \ {0}, NEW c \in i * k + 1 .. i * k + k
    PROVE  ParentOf(c, k) = i
BY SMT DEF ParentOf

(* An element that stands before its parent changes places with it.         *)
LEMMA UpStep ==
    ASSUME NEW k \in Nat \ {0}, NEW n \in Nat, NEW v \in [0 .. n - 1 -> Int], NEW i \in 1 .. n - 1,
           Up(v, n, i, k), v[i] > v[ParentOf(i, k)],
           NEW w, w = [v EXCEPT ![i] = v[ParentOf(i, k)], ![ParentOf(i, k)] = v[i]]
    PROVE  Up(w, n, ParentOf(i, k), k)
<1> DEFINE p == ParentOf(i, k)
<1>1. p \in 0 .. n - 1 /\ p < i BY Parents
<1>2. w[i] = v[p] /\ w[p] = v[i] /\ \A c \in 0 .. n - 1 : c # i /\ c # p => w[c] = v[c]
  BY <1>1
<1>3. SUFFICES ASSUME NEW c \in 1 .. n - 1
               PROVE  /\ c # p => w[c] <= w[ParentOf(c, k)]
                      /\ ParentOf(c, k) = p /\ p # 0 => w[c] <= w[ParentOf(p, k)]
  BY DEF Up
<1>4. ParentOf(c, k) \in 0 .. n - 1 /\ ParentOf(c, k) < c
  <2>1. c \in Nat /\ c # 0 OBVIOUS
  <2>2. ParentOf(c, k) \in Nat /\ ParentOf(c, k) < c BY <2>1, Parents
  <2> QED BY <2>2
<1>5. /\ c # i => v[c] <= v[ParentOf(c, k)]
      /\ ParentOf(c, k) = i => v[c] <= v[p]
  BY DEF Up
<1>6. \A d \in 0 .. n - 1 : v[d] \in Int OBVIOUS
<1>7. ASSUME p # 0
      PROVE  /\ ParentOf(p, k) \in 0 .. n - 1 /\ ParentOf(p, k) < p
             /\ v[p] <= v[ParentOf(p, k)]
  <2> HIDE DEF p
  <2>1. p \in Nat /\ p # 0 BY <1>1, <1>7
  <2>2. ParentOf(p, k) \in Nat /\ ParentOf(p, k) < p BY <2>1, Parents
  <2>3. p \in 1 .. n - 1 /\ p # i BY <1>1, <2>1
  <2> QED BY <1>1, <2>2, <2>3 DEF Up
<1> HIDE DEF p
<1>8. ASSUME c # p PROVE w[c] <= w[ParentOf(c, k)]
  <2>1. CASE c = i BY <2>1, <1>1, <1>2, <1>6 DEF p
  <2>2. CASE c # i /\ ParentOf(c, k) = i BY <2>2, <1>8, <1>1, <1>2, <1>5, <1>6
  <2>3. CASE c # i /\ ParentOf(c, k) = p BY <2>3, <1>8, <1>1, <1>2, <1>5, <1>6 DEF p
  <2>4. CASE c # i /\ ParentOf(c, k) # i /\ ParentOf(c, k) # p BY <2>4, <1>8, <1>2, <1>4, <1>5, <1>6
  <2> QED BY <2>1, <2>2, <2>3, <2>4
<1>9. ASSUME ParentOf(c, k) = p, p # 0 PROVE w[c] <= w[ParentOf(p, k)]
  <2>1. w[ParentOf(p, k)] = v[ParentOf(p, k)] BY <1>9, <1>7, <1>1, <1>2
  <2>2. CASE c = i BY <2>1, <2>2, <1>9, <1>7, <1>2
  <2>3. CASE c # i
    <3>1. c # p /\ w[c] = v[c] BY <2>3, <1>9, <1>4, <1>2
    <3> QED BY <3>1, <2>1, <2>3, <1>9, <1>5, <1>6, <1>7, <1>1
  <2> QED BY <2>2, <2>3
<1> QED BY <1>8, <1>9

(* An element changes places with the child that stands before it and not   *)
(* behind its other child.                                                  *)
LEMMA DownStep ==
    ASSUME NEW k \in Nat \ {0}, NEW n \in Nat, NEW v \in [0 .. n - 1 -> Int], NEW i \in 0 .. n - 1,
           NEW t \in Nat, t <= i, Down(v, n, i, t, k),
           NEW m \in 1 .. n - 1, ParentOf(m, k) = i, v[m] > v[i],
           \A c \in 1 .. n - 1 : ParentOf(c, k) = i => v[c] <= v[m],
           NEW w, w = [v EXCEPT ![i] = v[m], ![m] = v[i]]
    PROVE  Down(w, n, m, t, k)
<1>1. i < m
  <2>1. m \in Nat /\ m # 0 OBVIOUS
  <2> QED BY <2>1, Parents
<1>2. w[i] = v[m] /\ w[m] = v[i] /\ \A c \in 0 .. n - 1 : c # i /\ c # m => w[c] = v[c]
  BY <1>1
<1>3. SUFFICES ASSUME NEW c \in 1 .. n - 1
               PROVE  /\ t <= ParentOf(c, k) /\ ParentOf(c, k) # m => w[c] <= w[ParentOf(c, k)]
                      /\ ParentOf(c, k) = m => w[c] <= w[i]
  BY DEF Down
<1>4. ParentOf(c, k) \in 0 .. n - 1 /\ ParentOf(c, k) < c
  <2>1. c \in Nat /\ c # 0 OBVIOUS
  <2>2. ParentOf(c, k) \in Nat /\ ParentOf(c, k) < c BY <2>1, Parents
  <2> QED BY <2>2
<1>5. t <= ParentOf(c, k) /\ ParentOf(c, k) # i => v[c] <= v[ParentOf(c, k)] BY DEF Down
<1>6. \A d \in 0 .. n - 1 : v[d] \in Int OBVIOUS
<1>7. ASSUME t <= ParentOf(c, k), ParentOf(c, k) # m PROVE w[c] <= w[ParentOf(c, k)]
  <2>1. CASE c = m BY <2>1, <1>1, <1>2, <1>6
  <2>2. CASE c # m /\ ParentOf(c, k) = i BY <2>2, <1>2, <1>4, <1>6
  <2>3. CASE c = i
    <3>1. v[m] <= v[ParentOf(i, k)] BY <2>3, <1>7 DEF Down
    <3> QED BY <3>1, <2>3, <1>7, <1>1, <1>2, <1>4
  <2>4. CASE c # m /\ c # i /\ ParentOf(c, k) # i BY <2>4, <1>7, <1>2, <1>4, <1>5
  <2> QED BY <2>1, <2>2, <2>3, <2>4
<1>8. ASSUME ParentOf(c, k) = m PROVE w[c] <= w[i]
  <2>1. c # m /\ c # i BY <1>8, <1>1, <1>4
  <2>2. v[c] <= v[m] BY <1>8, <1>1, <1>5
  <2> QED BY <2>1, <2>2, <1>2
<1> QED BY <1>7, <1>8

(* A sifting ends where no exchange is needed: the heap is in order, or in  *)
(* order from t on, and then in order from t - 1 on but for t - 1.          *)
LEMMA UpEnds ==
    ASSUME NEW k \in Nat \ {0}, NEW n \in Nat, NEW v, NEW i \in 0 .. n - 1, Up(v, n, i, k),
           i # 0 => v[i] <= v[ParentOf(i, k)]
    PROVE  InOrder(v, n, k)
BY DEF Up, InOrder

LEMMA DownEnds ==
    ASSUME NEW k \in Nat \ {0}, NEW n \in Nat, NEW v, NEW i \in Nat, NEW t \in Nat,
           Down(v, n, i, t, k),
           \A c \in 1 .. n - 1 : ParentOf(c, k) = i => v[c] <= v[i]
    PROVE  /\ t = 0 => InOrder(v, n, k)
           /\ t # 0 => Down(v, n, t - 1, t - 1, k)
<1>1. ASSUME NEW c \in 1 .. n - 1, t <= ParentOf(c, k) PROVE v[c] <= v[ParentOf(c, k)]
  BY <1>1 DEF Down
<1>2. \A c \in 1 .. n - 1 : ParentOf(c, k) \in Nat BY Parents
<1>3. t = 0 => InOrder(v, n, k) BY <1>1, <1>2 DEF InOrder
<1>4. ASSUME t # 0 PROVE Down(v, n, t - 1, t - 1, k)
  <2>1. t - 1 # 0 => ParentOf(t - 1, k) < t - 1 BY <1>4, Parents
  <2>2. \A c \in 1 .. n - 1 :
          t - 1 <= ParentOf(c, k) /\ ParentOf(c, k) # t - 1 => t <= ParentOf(c, k)
    BY <1>2, <1>4
  <2>3. t - 1 # 0 => ParentOf(t - 1, k) \in Nat BY <1>4, Parents
  <2> QED BY <1>1, <2>1, <2>2, <2>3 DEF Down
<1> QED BY <1>3, <1>4

(* The first cell not in order with the root would be in order with its     *)
(* parent, which is.                                                        *)
LEMMA RootGreatest ==
    ASSUME NEW k \in Nat \ {0}, NEW n \in Nat, NEW v \in [0 .. n - 1 -> Int], InOrder(v, n, k)
    PROVE  \A c \in 0 .. n - 1 : v[c] <= v[0]
<1> DEFINE T == {c \in 0 .. n - 1 : ~(v[c] <= v[0])}
<1>1. SUFFICES ASSUME T # {} PROVE FALSE OBVIOUS
<1>2. T \subseteq Nat OBVIOUS
<1>3. PICK x \in T : \A y \in T : ~(<<y, x>> \in OpToRel(<, Nat))
  <2> HIDE DEF T
  <2> QED BY <1>1, <1>2, NatLessThanWellFounded, WFMin, Zenon
<1>4. \A y \in T : ~(y < x)
  <2>1. SUFFICES ASSUME NEW y \in T, y < x PROVE <<y, x>> \in OpToRel(<, Nat)
    BY <1>3, Zenon
  <2> QED BY <2>1, <1>2, Zenon DEF OpToRel
<1>5. x # 0 /\ x \in 1 .. n - 1 /\ v[x] \in Int OBVIOUS
<1>6. ParentOf(x, k) \in 0 .. n - 1 /\ ParentOf(x, k) < x BY <1>5, Parents
<1>7. v[x] <= v[ParentOf(x, k)] BY <1>5 DEF InOrder
<1>8. ParentOf(x, k) \notin T BY <1>4, <1>6
<1> QED BY <1>5, <1>6, <1>7, <1>8
-----------------------------------------------------------------------------
(* What a cell holds stands somewhere in an order of numbers. *)
LEMMA Standing ==
    ASSUME Shape, NEW c \in Cells
    PROVE  c \in Nat /\ c < heapSize /\ c < arraySize /\ arr[c] \in Elem /\ prio[arr[c]] \in Int
<1>1. c \in Nat /\ c < heapSize /\ c < arraySize BY DEF Shape, Types, CountFits, Cells
<1>2. arr[c] \in Elem BY DEF Shape, CountFits
<1>3. prio[arr[c]] \in Prio BY <1>2 DEF Shape, Types
<1> QED BY <1>1, <1>2, <1>3, ConstantsAre

(* There are no more elements than size_t can count. *)
LEMMA SizeFits ==
    ASSUME Shape
    PROVE  heapSize <= Cardinality(Elem) /\ Cardinality(Elem) \in Nat /\ heapSize <= SizeMax
<1> DEFINE f == [c \in Cells |-> arr[c]]
<1>1. f \in Injection(Cells, Elem)
  <2>1. f \in [Cells -> Elem] BY Standing
  <2>2. \A c, d \in Cells : f[c] = f[d] => c = d BY DEF Shape, Once
  <2> QED BY <2>1, <2>2 DEF Injection, IsInjective
<1>2. Cardinality(Cells) <= Cardinality(Elem)
  BY <1>1, FS_Injection, HeapAssumption
<1>3. Cardinality(Cells) = heapSize
  <2>1. 0 \in Int /\ heapSize - 1 \in Int BY DEF Shape, Types
  <2>2. Cardinality(0 .. heapSize - 1) = IF 0 > heapSize - 1 THEN 0 ELSE heapSize - 1 - 0 + 1
    BY <2>1, FS_Interval
  <2> QED BY <2>2 DEF Cells, Shape, Types
<1>4. Cardinality(Elem) \in Nat BY FS_CardinalityType, HeapAssumption
<1> QED BY <1>2, <1>3, <1>4, HeapAssumption DEF Shape, Types

LEMMA StandsAreNumbers ==
    ASSUME Shape
    PROVE  /\ Stands \in [0 .. heapSize - 1 -> Int]
           /\ \A c \in Cells : Stands[c] = prio[arr[c]]
BY Standing DEF Stands, Cells

LEMMA OrderedIs == ASSUME Shape PROVE Ordered <=> InOrder(Stands, heapSize, dNum)
<1>1. Cells \ {0} = 1 .. heapSize - 1 BY DEF Cells, Shape, Types
<1>2. ASSUME NEW c \in 1 .. heapSize - 1
      PROVE  ~Before(c, Parent(c)) <=> Stands[c] <= Stands[ParentOf(c, dNum)]
  <2>1. Parent(c) = ParentOf(c, dNum) BY DEF Parent, ParentOf
  <2>2. c \in Cells /\ ParentOf(c, dNum) \in Cells
    <3>1. heapSize \in Nat /\ dNum \in Nat \ {0} /\ c \in Nat /\ c # 0
      BY DEF Shape, Types
    <3>2. ParentOf(c, dNum) \in Nat /\ ParentOf(c, dNum) < c BY <3>1, Parents
    <3> QED BY <3>1, <3>2 DEF Cells
  <2>3. /\ Stands[c] = prio[arr[c]] /\ Stands[c] \in Int
        /\ Stands[ParentOf(c, dNum)] = prio[arr[ParentOf(c, dNum)]]
        /\ Stands[ParentOf(c, dNum)] \in Int
    BY <2>2, StandsAreNumbers DEF Cells
  <2> QED BY <2>1, <2>3 DEF Before
<1> QED BY <1>1, <1>2 DEF Ordered, InOrder

(* Two cells of the heap change places. *)
LEMMA Swap ==
    ASSUME Shape, NEW i \in Cells, NEW j \in Cells, i # j, arr' = Swapped(i, j),
           UNCHANGED <<heapSize, arraySize, prio>>
    PROVE  /\ arr' \in [0 .. arraySize' - 1 -> Elem \cup {Null}]
           /\ CountFits' /\ Once' /\ Contents' = Contents
           /\ Stands' = [Stands EXCEPT ![i] = Stands[j], ![j] = Stands[i]]
<1>1. Cells' = Cells BY DEF Cells
<1>2. /\ arr'[i] = arr[j] /\ arr'[j] = arr[i]
      /\ \A c \in Cells : c # i /\ c # j => arr'[c] = arr[c]
  BY Standing DEF Swapped, Shape, Types
<1>3. arr' \in [0 .. arraySize' - 1 -> Elem \cup {Null}]
  BY Standing DEF Swapped, Shape, Types
<1>4. CountFits' BY <1>1, <1>2, Standing DEF CountFits, Shape
<1>5. Once' BY <1>1, <1>2 DEF Once, Shape
<1>6. Contents' = Contents BY <1>1, <1>2 DEF Contents
<1>7. Stands' = [Stands EXCEPT ![i] = Stands[j], ![j] = Stands[i]]
  BY <1>1, <1>2 DEF Stands
<1> QED BY <1>3, <1>4, <1>5, <1>6, <1>7
-----------------------------------------------------------------------------
(* What a step keeps that changes neither the heap's cells nor the order.   *)
LEMMA Kept ==
    ASSUME Shape, heapSize' = heapSize, prio' = prio, \A c \in Cells : arr'[c] = arr[c]
    PROVE  /\ Cells' = Cells /\ Contents' = Contents /\ Stands' = Stands
           /\ Once' /\ \A c \in Cells' : arr'[c] \in Elem
<1>1. Cells' = Cells BY DEF Cells
<1> QED BY <1>1 DEF Contents, Stands, Once, Shape, CountFits

LEMMA ResizedKeeps ==
    ASSUME Types, NEW n \in Nat
    PROVE  /\ Resized(arr, n) \in [0 .. n - 1 -> Elem \cup {Null}]
           /\ \A c \in 0 .. n - 1 : c < arraySize => Resized(arr, n)[c] = arr[c]
BY DEF Resized, Types

LEMMA GrownFits == ASSUME Shape PROVE Grown \in Nat /\ heapSize < Grown
<1>1. heapSize \in Nat /\ arraySize \in Nat /\ heapSize <= arraySize
      /\ rate \in Nat /\ rate > 2 /\ constRate \in Nat
  BY DEF Shape, Types, CountFits
<1>2. CASE heapSize + 1 <= arraySize BY <1>1, <1>2 DEF Grown
<1>3. CASE heapSize + 1 > arraySize /\ constRate # 0 BY <1>1, <1>3 DEF Grown
<1>4. CASE heapSize + 1 > arraySize /\ constRate = 0
  <2>1. arraySize * rate \in Nat /\ 2 * arraySize <= arraySize * rate BY <1>1
  <2>2. \A m \in Nat : 2 * arraySize <= m => m \div 2 \in Nat /\ arraySize <= m \div 2
    BY <1>1
  <2>3. Grown = (arraySize * rate) \div 2 + 1 BY <1>1, <1>4 DEF Grown
  <2> QED BY <1>1, <1>4, <2>1, <2>2, <2>3
<1> QED BY <1>1, <1>2, <1>3, <1>4

LEMMA NewHolds ==
    ASSUME NEW d \in Nat \ {0}, New(d)
    PROVE  IInv /\ at = "idle" /\ dNum = d /\ Contents = {}
<1>1. heapSize = 0 /\ Cells = {} BY DEF New, Cells
<1>2. Types
  <2>1. /\ heapSize = 0 /\ rate = 3 /\ constRate = 0 /\ dNum = d /\ at = "idle"
        /\ index = 0 /\ todo = 0 /\ dirty = FALSE /\ prio \in [Elem -> Prio]
    BY DEF New
  <2>2. arraySize \in Sizes BY DEF New
  <2>3. arraySize \in Nat BY <2>2, ConstantsAre
  <2>4. arr \in [0 .. arraySize - 1 -> Elem \cup {Null}] BY DEF New
  <2>5. /\ heapSize \in Nat /\ rate \in Nat /\ rate > 2 /\ constRate \in Nat
        /\ index \in Nat /\ todo \in Nat
    BY <2>1
  <2>6. dirty \in BOOLEAN BY <2>1, Zenon
  <2> QED BY <2>1, <2>3, <2>4, <2>5, <2>6, Zenon DEF Types
<1>3. CountFits /\ Once /\ Places BY <1>1, <1>2 DEF CountFits, Once, Places, Types, New
<1>4. Sifting BY <1>1 DEF Sifting, InOrder, New
<1> QED BY <1>1, <1>2, <1>3, <1>4 DEF IInv, Shape, New, Contents

(* The steps between two operations that leave the heap alone. *)
LEMMA SettingsKeep ==
    ASSUME IInv,
           \/ \E r \in Rates : SetGrowthRate(r)
           \/ \E r \in ConstRates : SetConstGrowthRate(r)
           \/ PopNothing
    PROVE  IInv' /\ Contents' = Contents
<1>2. /\ UNCHANGED <<arr, heapSize, arraySize, dNum, at, index, todo, prio, dirty>>
      /\ at = "idle" /\ rate' \in Nat /\ rate' > 2 /\ constRate' \in Nat
  BY ConstantsAre DEF SetGrowthRate, SetConstGrowthRate, PopNothing, setup, IInv, Shape, Types
<1>3. Cells' = Cells /\ Contents' = Contents /\ Stands' = Stands /\ Once'
  BY <1>2, Kept DEF IInv
<1>4. Types' /\ CountFits' BY <1>2, <1>3 DEF IInv, Shape, Types, CountFits
<1>5. Places' BY <1>2 DEF IInv, Shape, Places
<1>6. Sifting' BY <1>2, <1>3 DEF IInv, Sifting
<1> QED BY <1>3, <1>4, <1>5, <1>6 DEF IInv, Shape

LEMMA TrimKeeps ==
    ASSUME IInv, NEW n \in Sizes, TrimToSize(n)
    PROVE  IInv' /\ Contents' = Contents
<1>1. /\ n \in Nat /\ heapSize \in Nat /\ arraySize \in Nat /\ heapSize <= arraySize
  BY ConstantsAre DEF IInv, Shape, Types, CountFits
<1> DEFINE m == IF heapSize > n THEN heapSize ELSE n
<1>2. /\ UNCHANGED <<heapSize, rate, constRate, dNum, at, index, todo, prio, dirty>>
      /\ at = "idle" /\ arraySize' = m /\ arr' = Resized(arr, m)
  BY DEF TrimToSize
<1>3. m \in Nat /\ heapSize <= m /\ \A c \in Cells : c \in 0 .. m - 1 /\ c < arraySize
  BY <1>1 DEF Cells
<1> HIDE DEF m
<1>4. /\ arr' \in [0 .. m - 1 -> Elem \cup {Null}]
      /\ \A c \in Cells : arr'[c] = arr[c]
  BY <1>2, <1>3, ResizedKeeps DEF IInv, Shape
<1>5. /\ Cells' = Cells /\ Contents' = Contents /\ Stands' = Stands
      /\ Once' /\ \A c \in Cells' : arr'[c] \in Elem
  BY <1>2, <1>4, Kept DEF IInv
<1>6. Types' /\ CountFits' BY <1>2, <1>3, <1>4, <1>5 DEF IInv, Shape, Types, CountFits
<1>7. Places' BY <1>2 DEF IInv, Shape, Places
<1>8. Sifting' BY <1>2, <1>5 DEF IInv, Sifting
<1> QED BY <1>5, <1>6, <1>7, <1>8 DEF IInv, Shape

(* A pushed element is out of order in the last cell at most. *)
LEMMA PushKeeps ==
    ASSUME IInv, NEW e \in Elem, NEW p \in Prio, Push(e, p)
    PROVE  IInv' /\ Contents' = Contents \cup {e}
<1> DEFINE g == Grown
           h == heapSize
<1>0. dNum \in Nat \ {0} BY DEF IInv, Shape, Types
<1>1. h \in Nat /\ g \in Nat /\ h < g /\ h <= arraySize /\ arraySize \in Nat
  BY GrownFits DEF IInv, Shape, Types, CountFits
<1>2. /\ UNCHANGED <<rate, constRate, dNum, todo, dirty>>
      /\ at = "idle" /\ at' = "push" /\ index' = h /\ heapSize' = h + 1 /\ arraySize' = g
      /\ e \notin Contents /\ prio' = [prio EXCEPT ![e] = p]
      /\ arr' = [Resized(arr, g) EXCEPT ![h] = e]
  BY DEF Push
<1> HIDE DEF g
<1>3. Cells' = 0 .. h /\ Cells = 0 .. h - 1 BY <1>1, <1>2 DEF Cells
<1>4. /\ arr' \in [0 .. g - 1 -> Elem \cup {Null}]
      /\ arr'[h] = e /\ \A c \in Cells : arr'[c] = arr[c]
  <2>1. /\ Resized(arr, g) \in [0 .. g - 1 -> Elem \cup {Null}]
        /\ \A c \in 0 .. g - 1 : c < arraySize => Resized(arr, g)[c] = arr[c]
    BY <1>1, ResizedKeeps DEF IInv, Shape
  <2>2. h \in 0 .. g - 1 /\ \A c \in Cells : c \in 0 .. g - 1 /\ c < arraySize /\ c # h
    BY <1>1, <1>3
  <2> HIDE DEF h
  <2> QED BY <1>2, <2>1, <2>2
<1>5. /\ \A c \in Cells : arr[c] \in Elem /\ arr[c] # e
      /\ Cells' = Cells \cup {h}
  BY <1>1, <1>2, <1>3, Standing DEF IInv, Contents
<1>6. Contents' = Contents \cup {e}
  <2> HIDE DEF h
  <2> QED BY <1>4, <1>5 DEF Contents
<1>7. Types' /\ CountFits'
  <2>1. prio' \in [Elem -> Prio] BY <1>2 DEF IInv, Shape, Types
  <2>2. heapSize' \in Nat /\ heapSize' <= g BY <1>1, <1>2
  <2>3. \A c \in Cells' : arr'[c] \in Elem BY <1>4, <1>5
  <2> HIDE DEF h
  <2> QED BY <1>1, <1>2, <1>4, <2>1, <2>2, <2>3 DEF IInv, Shape, Types, CountFits
<1>8. Once'
  <2> HIDE DEF h
  <2> QED BY <1>4, <1>5 DEF IInv, Shape, Once
<1>9. Places' BY <1>1, <1>2, <1>3 DEF Places
<1>10. Sifting'
  <2>1. SUFFICES ASSUME ~dirty PROVE Up(Stands', h + 1, h, dNum) BY <1>2 DEF Sifting
  <2>2. InOrder(Stands, h, dNum) BY <1>2, <2>1 DEF IInv, Sifting
  <2>3. \A c \in Cells : Stands'[c] = Stands[c]
    <3>1. \A c \in Cells : prio'[arr'[c]] = prio[arr[c]] BY <1>2, <1>4, <1>5 DEF IInv, Shape, Types
    <3>2. \A c \in Cells : c \in Cells' BY <1>5
    <3> QED BY <3>1, <3>2 DEF Stands
  <2>4. ASSUME NEW c \in 1 .. h
        PROVE  /\ c # h => Stands'[c] <= Stands'[ParentOf(c, dNum)]
               /\ ~(ParentOf(c, dNum) = h)
    <3>1. ParentOf(c, dNum) \in 0 .. h - 1 /\ ParentOf(c, dNum) < c
      BY <1>0, <1>1, Parents
    <3>2. c # h => c \in 1 .. h - 1 /\ c \in Cells BY <1>1, <1>3
    <3> QED BY <1>1, <1>3, <2>2, <2>3, <3>1, <3>2 DEF InOrder
  <2>5. 1 .. (h + 1) - 1 = 1 .. h BY <1>1
  <2> QED BY <2>4, <2>5 DEF Up
<1> QED BY <1>6, <1>7, <1>8, <1>9, <1>10 DEF IInv, Shape

LEMMA SiftUpKeeps ==
    ASSUME IInv, SiftUp
    PROVE  IInv' /\ Contents' = Contents
<1> DEFINE i == index
           p == Parent(index)
<1>1. /\ at = "push" /\ i \in Cells /\ i \in Nat /\ heapSize \in Nat /\ dNum \in Nat \ {0}
      /\ UNCHANGED <<heapSize, arraySize, rate, constRate, dNum, todo, prio, dirty>>
  BY DEF SiftUp, setup, IInv, Shape, Types, Places, Cells
<1>2. CASE i # 0 /\ Before(i, p)
  <2>1. arr' = Swapped(i, p) /\ index' = p /\ at' = "push" BY <1>1, <1>2 DEF SiftUp
  <2>2. p = ParentOf(i, dNum) /\ i \in 1 .. heapSize - 1 /\ p \in Cells /\ p < i /\ p \in Nat
    <3>1. p = ParentOf(i, dNum) BY DEF Parent, ParentOf
    <3>2. p \in Nat /\ p < i BY <1>1, <1>2, <3>1, Parents
    <3> HIDE DEF p
    <3> QED BY <1>1, <1>2, <3>1, <3>2 DEF Cells
  <2>3. /\ arr' \in [0 .. arraySize' - 1 -> Elem \cup {Null}]
        /\ CountFits' /\ Once' /\ Contents' = Contents
        /\ Stands' = [Stands EXCEPT ![i] = Stands[p], ![p] = Stands[i]]
    <3> HIDE DEF p
    <3> QED BY <1>1, <2>1, <2>2, Swap DEF IInv
  <2> HIDE DEF p
  <2>4. Types' BY <1>1, <2>1, <2>2, <2>3 DEF IInv, Shape, Types
  <2>5. Places' BY <1>1, <2>1, <2>2 DEF Places, Cells
  <2>6. ASSUME ~dirty PROVE Up(Stands', heapSize, p, dNum)
    <3>1. Up(Stands, heapSize, i, dNum) BY <1>1, <2>6 DEF IInv, Sifting
    <3>2. Stands \in [0 .. heapSize - 1 -> Int] BY StandsAreNumbers DEF IInv
    <3>3. Stands[i] > Stands[p]
      BY <1>1, <1>2, <2>2, StandsAreNumbers DEF IInv, Before
    <3> QED BY <1>1, <2>2, <2>3, <3>1, <3>2, <3>3, UpStep
  <2>7. Sifting' BY <1>1, <2>1, <2>6 DEF Sifting
  <2> QED BY <2>3, <2>4, <2>5, <2>7 DEF IInv, Shape
<1>3. CASE ~(i # 0 /\ Before(i, p))
  <2>1. arr' = arr /\ index' = 0 /\ at' = "idle" BY <1>1, <1>3 DEF SiftUp
  <2>2. /\ Contents' = Contents /\ Stands' = Stands
        /\ Once' /\ Cells' = Cells
    BY <1>1, <2>1, Kept DEF IInv
  <2>3. Types' /\ CountFits' BY <1>1, <2>1, <2>2 DEF IInv, Shape, Types, CountFits
  <2>4. Places' BY <2>1 DEF Places
  <2>5. ASSUME ~dirty PROVE InOrder(Stands, heapSize, dNum)
    <3>1. Up(Stands, heapSize, i, dNum) BY <1>1, <2>5 DEF IInv, Sifting
    <3>2. ASSUME i # 0 PROVE Stands[i] <= Stands[ParentOf(i, dNum)]
      <4>1. p = ParentOf(i, dNum) /\ p \in Cells
        <5>1. p = ParentOf(i, dNum) BY DEF Parent, ParentOf
        <5>2. p \in Nat /\ p < i BY <1>1, <3>2, <5>1, Parents
        <5> HIDE DEF p
        <5> QED BY <1>1, <5>1, <5>2 DEF Cells
      <4>2. /\ Stands[i] = prio[arr[i]] /\ Stands[i] \in Int
            /\ Stands[p] = prio[arr[p]] /\ Stands[p] \in Int
        BY <1>1, <4>1, StandsAreNumbers DEF IInv, Cells
      <4> HIDE DEF p
      <4> QED BY <1>3, <3>2, <4>1, <4>2 DEF Before
    <3>3. i \in 0 .. heapSize - 1 BY <1>1 DEF Cells
    <3> HIDE DEF i
    <3> QED BY <1>1, <3>1, <3>2, <3>3, UpEnds
  <2>6. Sifting' BY <1>1, <2>1, <2>2, <2>5 DEF Sifting
  <2> QED BY <2>2, <2>3, <2>4, <2>6 DEF IInv, Shape
<1> QED BY <1>2, <1>3

(* Pop puts the last element where the first one was, and only the children *)
(* of the root may be out of order then.                                    *)
LEMMA PopKeeps ==
    ASSUME IInv, Pop
    PROVE  /\ IInv' /\ Contents' = Contents \ {arr[0]} /\ arr[0] \in Contents
           /\ ret' = arr[0] /\ UNCHANGED <<prio, dirty>>
           /\ ~dirty => \A d \in Contents : prio[d] <= prio[arr[0]]
<1> DEFINE h == heapSize
           l == heapSize - 1
<1>0. dNum \in Nat \ {0} BY DEF IInv, Shape, Types
<1>1. /\ h \in Nat /\ l \in Nat /\ l < h /\ h <= arraySize /\ arraySize \in Nat
      /\ Cells = 0 .. l /\ 0 \in Cells /\ l \in Cells
  BY DEF Pop, IInv, Shape, Types, CountFits, Cells
<1>2. /\ UNCHANGED <<arraySize, rate, constRate, dNum, index, todo, prio, dirty>>
      /\ at = "idle" /\ at' = "pop" /\ ret' = arr[0] /\ heapSize' = l
      /\ arr' = [arr EXCEPT ![0] = arr[l]] /\ index = 0
  BY DEF Pop, setup, IInv, Shape, Places
<1>3. Cells' = 0 .. l - 1 BY <1>2 DEF Cells
<1>4. /\ Cells' \subseteq Cells /\ l \notin Cells' /\ Cells = Cells' \cup {l}
  BY <1>1, <1>3
<1>5. /\ \A c \in Cells : arr[c] \in Elem
      /\ \A c, d \in Cells : arr[c] = arr[d] => c = d
  BY DEF IInv, Shape, CountFits, Once
<1>6. /\ arr' \in [0 .. arraySize - 1 -> Elem \cup {Null}]
      /\ 0 \in 0 .. arraySize - 1 /\ arr'[0] = arr[l]
      /\ \A c \in Cells : c # 0 => arr'[c] = arr[c]
  <2>1. arr \in [0 .. arraySize - 1 -> Elem \cup {Null}] BY DEF IInv, Shape, Types
  <2>2. 0 \in 0 .. arraySize - 1 /\ \A c \in Cells : c \in 0 .. arraySize - 1 BY <1>1
  <2> HIDE DEF l
  <2> QED BY <1>1, <1>2, <1>5, <2>1, <2>2
<1>7. Stands \in [0 .. h - 1 -> Int] /\ \A c \in Cells : Stands[c] = prio[arr[c]]
  BY StandsAreNumbers DEF IInv
<1> HIDE DEF l, h
<1>8. Contents' = Contents \ {arr[0]}
  <2>1. ASSUME NEW x \in Contents' PROVE x \in Contents \ {arr[0]}
    <3>1. PICK c \in Cells' : x = arr'[c] BY DEF Contents
    <3>2. CASE c = 0 BY <3>1, <3>2, <1>1, <1>4, <1>5, <1>6 DEF Contents
    <3>3. CASE c # 0 BY <3>1, <3>3, <1>1, <1>4, <1>5, <1>6 DEF Contents
    <3> QED BY <3>2, <3>3
  <2>2. ASSUME NEW x \in Contents, x # arr[0] PROVE x \in Contents'
    <3>1. PICK c \in Cells : x = arr[c] BY DEF Contents
    <3>2. c # 0 BY <2>2, <3>1
    <3>3. CASE c = l
      <4>1. l # 0 /\ 0 \in Cells' BY <3>2, <3>3, <1>1, <1>4
      <4> QED BY <3>1, <3>3, <4>1, <1>6 DEF Contents
    <3>4. CASE c # l BY <3>1, <3>2, <3>4, <1>4, <1>6 DEF Contents
    <3> QED BY <3>3, <3>4
  <2> QED BY <2>1, <2>2
<1>9. Types' BY <1>1, <1>2, <1>6 DEF IInv, Shape, Types
<1>10. CountFits'
  <2>1. l <= arraySize BY <1>1 DEF l, h
  <2>2. \A c \in Cells' : arr'[c] \in Elem BY <1>1, <1>4, <1>5, <1>6
  <2> QED BY <1>2, <2>1, <2>2 DEF CountFits
<1>11. Once' BY <1>1, <1>4, <1>5, <1>6 DEF Once
<1>12. Places'
  <2>1. ret' \in Elem BY <1>1, <1>2, <1>5
  <2>2. ASSUME l = 1 PROVE arraySize > 1 /\ arr'[1] = arr'[0]
    BY <2>2, <1>1, <1>6 DEF l, h
  <2> QED BY <1>2, <2>1, <2>2 DEF Places
<1>13. ASSUME ~dirty PROVE InOrder(Stands, h, dNum) BY <1>2, <1>13 DEF IInv, Sifting, h
<1>14. Sifting'
  <2>1. SUFFICES ASSUME ~dirty PROVE Down(Stands', l, 0, 0, dNum) BY <1>2 DEF Sifting
  <2>2. \A c \in Cells' : c # 0 => Stands'[c] = Stands[c]
    BY <1>2, <1>4, <1>6 DEF Stands
  <2>3. ASSUME NEW c \in 1 .. l - 1, ParentOf(c, dNum) # 0
      PROVE Stands'[c] <= Stands'[ParentOf(c, dNum)]
    <3>1. ParentOf(c, dNum) \in 1 .. l - 1 /\ c \in 1 .. h - 1
      <4>1. c \in Nat /\ c # 0 BY <1>1
      <4>2. ParentOf(c, dNum) \in Nat /\ ParentOf(c, dNum) < c BY <1>0, <4>1, Parents
      <4> QED BY <1>1, <2>3, <4>2 DEF l, h
    <3>2. c \in Cells' /\ ParentOf(c, dNum) \in Cells' /\ c # 0 BY <1>1, <1>3, <3>1
    <3> QED BY <1>13, <2>1, <2>2, <2>3, <3>1, <3>2 DEF InOrder
  <2> QED BY <2>3 DEF Down
<1>15. ASSUME ~dirty PROVE \A d \in Contents : prio[d] <= prio[arr[0]]
  <2>1. \A c \in 0 .. h - 1 : Stands[c] <= Stands[0] BY <1>0, <1>1, <1>7, <1>13, <1>15, RootGreatest
  <2>2. Cells = 0 .. h - 1 BY DEF Cells, h
  <2> QED BY <1>1, <1>7, <2>1, <2>2 DEF Contents
<1> QED BY <1>1, <1>2, <1>8, <1>9, <1>10, <1>11, <1>12, <1>14, <1>15 DEF IInv, Shape, Contents

LEMMA ForeachKeeps ==
    ASSUME IInv, Foreach
    PROVE  IInv' /\ Contents' = Contents
<1>1. /\ UNCHANGED <<arr, heapSize, arraySize, rate, constRate, dNum, at, index, todo>>
      /\ at = "idle" /\ dirty' = TRUE /\ prio' \in [Elem -> Prio]
  BY DEF Foreach, setup
<1>2. Cells' = Cells BY <1>1 DEF Cells
<1>3. Contents' = Contents /\ Once' /\ CountFits'
  BY <1>1, <1>2 DEF Contents, Once, CountFits, IInv, Shape
<1>4. Types'
  <2>1. dirty' \in BOOLEAN BY <1>1
  <2> QED BY <1>1, <2>1 DEF IInv, Shape, Types
<1>5. Places' BY <1>1 DEF IInv, Shape, Places
<1>6. Sifting' BY <1>1 DEF Sifting
<1> QED BY <1>3, <1>4, <1>5, <1>6 DEF IInv, Shape

LEMMA ForeachRemoveKeeps ==
    ASSUME IInv, ForeachRemove
    PROVE  IInv' /\ Contents' = {}
<1>1. /\ UNCHANGED <<arr, arraySize, rate, constRate, dNum, at, index, todo, prio>>
      /\ at = "idle" /\ heapSize' = 0 /\ dirty' = FALSE
  BY DEF ForeachRemove, setup
<1>2. Cells' = {} BY <1>1 DEF Cells
<1>3. Contents' = {} /\ Once' BY <1>2 DEF Contents, Once
<1>4. CountFits' BY <1>1, <1>2 DEF CountFits, IInv, Shape, Types
<1>5. Types'
  <2>1. dirty' \in BOOLEAN BY <1>1
  <2> QED BY <1>1, <2>1 DEF IInv, Shape, Types
<1>6. Places' BY <1>1 DEF IInv, Shape, Places
<1>7. Sifting'
  <2>1. InOrder(Stands', 0, dNum) BY DEF InOrder
  <2> QED BY <1>1, <2>1 DEF Sifting
<1> QED BY <1>3, <1>4, <1>5, <1>6, <1>7 DEF IInv, Shape

(* The first sifting begins at the parent of the last cell: no cell has one  *)
(* further on.                                                              *)
LEMMA HeapifyKeeps ==
    ASSUME IInv, Heapify
    PROVE  IInv' /\ Contents' = Contents
<1> DEFINE t == Wrap(heapSize - 2) \div dNum
<1>1. /\ UNCHANGED <<arr, heapSize, arraySize, rate, constRate, dNum, prio, dirty>>
      /\ at' = "heapify" /\ todo' = t /\ index' = t
  BY DEF Heapify, setup
<1>2. heapSize \in Nat /\ dNum \in Nat \ {0} /\ SizeMax \in Nat /\ heapSize <= SizeMax
  BY SizeFits, ConstantsAre DEF IInv, Shape, Types
<1>3. t \in Nat
  <2>1. Wrap(heapSize - 2) \in Nat BY <1>2 DEF Wrap
  <2> QED BY <1>2, <2>1, DivIs
<1>4. ASSUME NEW c \in 1 .. heapSize - 1 PROVE ParentOf(c, dNum) <= t
  <2>1. heapSize - 2 \in Nat /\ heapSize - 2 < SizeMax + 1 BY <1>2
  <2>2. Wrap(heapSize - 2) = heapSize - 2 BY <1>2, <2>1 DEF Wrap
  <2> QED BY <1>2, <2>1, <2>2, DivOrder DEF ParentOf
<1> HIDE DEF t
<1>5. /\ Contents' = Contents /\ Stands' = Stands /\ Cells' = Cells /\ Once'
  BY <1>1, Kept DEF IInv
<1>6. Types' /\ CountFits' BY <1>1, <1>3, <1>5 DEF IInv, Shape, Types, CountFits
<1>7. Places' BY <1>1, <1>3 DEF Places
<1>8. Down(Stands, heapSize, t, t, dNum)
  <2>1. \A c \in 1 .. heapSize - 1 : ParentOf(c, dNum) \in Nat BY <1>2, Parents
  <2>2. t # 0 => ParentOf(t, dNum) \in Nat /\ ParentOf(t, dNum) < t BY <1>2, <1>3, Parents
  <2> QED BY <1>3, <1>4, <2>1, <2>2 DEF Down
<1>9. Sifting' BY <1>1, <1>5, <1>8 DEF Sifting
<1> QED BY <1>5, <1>6, <1>7, <1>9 DEF IInv, Shape

LEMMA StutterKeeps ==
    ASSUME IInv, UNCHANGED vars
    PROVE  IInv' /\ UNCHANGED <<Contents, dNum, at>>
<1>1. /\ UNCHANGED <<arr, heapSize, arraySize, rate, constRate, dNum>>
      /\ UNCHANGED <<at, index, todo, prio, ret, dirty>>
  BY DEF vars
<1>2. /\ Contents' = Contents /\ Stands' = Stands /\ Cells' = Cells /\ Once'
  BY <1>1, Kept DEF IInv
<1>3. Types' /\ CountFits' BY <1>1, <1>2 DEF IInv, Shape, Types, CountFits
<1>4. Places'
  <2>1. Places BY DEF IInv, Shape
  <2>2. todo <= index => todo' <= index' BY <1>1, Zenon
  <2>3. heapSize' = 1 /\ arraySize' > 1 <=> heapSize = 1 /\ arraySize > 1 BY <1>1, Zenon
  <2>4. heapSize' = 1 <=> heapSize = 1 BY <1>1
  <2> QED BY <1>1, <1>2, <2>1, <2>2, <2>3, <2>4, Zenon DEF Places
<1>5. Sifting' BY <1>1, <1>2 DEF IInv, Sifting
<1> QED BY <1>1, <1>2, <1>3, <1>4, <1>5 DEF IInv, Shape

LEMMA OperationKeeps == ASSUME IInv, Operation PROVE IInv'
BY SettingsKeep, TrimKeeps, PushKeeps, SiftUpKeeps, PopKeeps, ForeachKeeps,
   ForeachRemoveKeeps, HeapifyKeeps DEF Operation

LEMMA OperationIs ==
    ASSUME Operation
    PROVE  dNum' = dNum /\ (at # "astray" => at' # "astray")
<1>1. ASSUME NEW r, SetGrowthRate(r) \/ SetConstGrowthRate(r) \/ TrimToSize(r)
      PROVE  UNCHANGED <<dNum, at>>
  BY <1>1 DEF SetGrowthRate, SetConstGrowthRate, TrimToSize
<1>2. ASSUME NEW e, NEW p, Push(e, p) PROVE dNum' = dNum /\ at' = "push"
  BY <1>2 DEF Push
<1>3. ASSUME SiftUp PROVE dNum' = dNum /\ (at' = at \/ at' = "idle")
  BY <1>3 DEF SiftUp, setup
<1>4. ASSUME Pop \/ Heapify PROVE dNum' = dNum /\ at' \in {"pop", "heapify"}
  BY <1>4 DEF Pop, Heapify, setup
<1>5. ASSUME PopNothing \/ Foreach \/ ForeachRemove PROVE UNCHANGED <<dNum, at>>
  BY <1>5 DEF PopNothing, Foreach, ForeachRemove, setup
<1> QED BY <1>1, <1>2, <1>3, <1>4, <1>5 DEF Operation

(* One round of a sifting down, in either heap: the element at index changes *)
(* places with the one of its children no other one stands before.          *)
LEMMA ExchangeKeeps ==
    ASSUME IInv, at \in {"pop", "heapify"}, 1 < heapSize, index \in Cells,
           NEW m \in Cells \ {0}, ParentOf(m, dNum) = index, Before(m, index),
           \A c \in Cells \ {0} : ParentOf(c, dNum) = index => Stands[c] <= Stands[m],
           arr' = Swapped(index, m), index' = m,
           UNCHANGED <<heapSize, setup, at, todo, prio, ret, dirty>>
    PROVE  IInv' /\ Contents' = Contents
<1> DEFINE i == index
           t == IF at = "heapify" THEN todo ELSE 0
<1>1. UNCHANGED <<heapSize, arraySize, rate, constRate, dNum, at, todo, prio, ret, dirty>>
  BY DEF setup
<1>2. /\ heapSize \in Nat /\ i \in Nat /\ t \in Nat /\ t <= i /\ dNum \in Nat \ {0}
  BY DEF IInv, Shape, Types, Places
<1>3. Before(m, i) /\ arr' = Swapped(i, m) /\ i \in Cells OBVIOUS
<1>4. /\ ParentOf(m, dNum) = i
      /\ \A c \in Cells \ {0} : ParentOf(c, dNum) = i => Stands[c] <= Stands[m]
  OBVIOUS
<1> HIDE DEF i
<1>5. /\ i \in 0 .. heapSize - 1 /\ m \in 1 .. heapSize - 1 /\ i < m /\ m \in Nat
      /\ Cells \ {0} = 1 .. heapSize - 1
  <2>1. m \in Nat /\ m # 0 BY <1>2 DEF Cells
  <2>2. i < m BY <1>2, <1>4, <2>1, Parents
  <2> QED BY <1>2, <1>3, <2>1, <2>2 DEF Cells
<1>6. /\ arr' \in [0 .. arraySize' - 1 -> Elem \cup {Null}]
      /\ CountFits' /\ Once' /\ Contents' = Contents
      /\ Stands' = [Stands EXCEPT ![i] = Stands[m], ![m] = Stands[i]]
  BY <1>1, <1>3, <1>5, Swap DEF IInv
<1>7. Types' BY <1>1, <1>5, <1>6 DEF IInv, Shape, Types
<1>8. Places'
  <2>1. at = "heapify" => todo <= m BY <1>2, <1>5 DEF IInv, Shape, Types
  <2> QED BY <1>1, <2>1 DEF IInv, Shape, Places
<1>9. ASSUME Down(Stands, heapSize, i, t, dNum) PROVE Down(Stands', heapSize, m, t, dNum)
  <2>1. Stands \in [0 .. heapSize - 1 -> Int] /\ Stands[m] > Stands[i]
    BY <1>3, StandsAreNumbers DEF IInv, Before, Cells
  <2> HIDE DEF t
  <2>2. \A c \in 1 .. heapSize - 1 : ParentOf(c, dNum) = i => Stands[c] <= Stands[m]
    BY <1>4, <1>5
  <2> QED BY <1>2, <1>4, <1>5, <1>6, <1>9, <2>1, <2>2, DownStep
<1>10. Sifting' BY <1>1, <1>9 DEF IInv, Sifting, i
<1> QED BY <1>6, <1>7, <1>8, <1>10 DEF IInv, Shape

(* The last round, after which no child of index stands before it.          *)
LEMMA EndsKeeps ==
    ASSUME IInv, at \in {"pop", "heapify"}, SiftedDown,
           UNCHANGED <<arr, heapSize, setup, prio, ret>>,
           \A c \in 1 .. heapSize - 1 : ParentOf(c, dNum) = index => Stands[c] <= Stands[index]
    PROVE  /\ IInv' /\ Contents' = Contents /\ at' # "astray"
           /\ dirty' = dirty \/ dirty' = FALSE
<1> DEFINE i == index
           t == IF at = "heapify" THEN todo ELSE 0
<1>1. UNCHANGED <<arr, heapSize, arraySize, rate, constRate, dNum, prio, ret>>
  BY DEF setup
<1>2. /\ heapSize \in Nat /\ i \in Nat /\ todo \in Nat /\ t \in Nat /\ dirty \in BOOLEAN
      /\ dNum \in Nat \ {0}
  BY DEF IInv, Shape, Types
<1>3. /\ Contents' = Contents /\ Stands' = Stands /\ Cells' = Cells /\ Once'
  BY <1>1, Kept DEF IInv
<1>4. \A c \in 1 .. heapSize - 1 : ParentOf(c, dNum) = i => Stands[c] <= Stands[i]
  OBVIOUS
<1>5. ASSUME Down(Stands, heapSize, i, t, dNum)
      PROVE  /\ t = 0 => InOrder(Stands, heapSize, dNum)
             /\ t # 0 => Down(Stands, heapSize, t - 1, t - 1, dNum)
  <2> HIDE DEF t, i
  <2> QED BY <1>2, <1>4, <1>5, DownEnds
<1>6. CASE /\ at = "pop" \/ (at = "heapify" /\ todo = 0)
           /\ at' = "idle" /\ index' = 0 /\ dirty' = (dirty /\ at = "pop") /\ todo' = todo
  <2>1. t = 0 BY <1>6
  <2>2. /\ dirty' \in BOOLEAN /\ (at = "pop" => dirty' = dirty)
        /\ dirty' = dirty \/ dirty' = FALSE
    BY <1>2, <1>6, Zenon
  <2>3. Types' /\ CountFits' BY <1>1, <1>2, <1>3, <1>6, <2>2 DEF IInv, Shape, Types, CountFits
  <2>4. Places' BY <1>6 DEF Places
  <2>5. ASSUME ~dirty' PROVE Down(Stands, heapSize, i, t, dNum)
    <3>1. CASE at = "pop" BY <1>6, <2>2, <2>5, <3>1 DEF IInv, Sifting
    <3>2. CASE at = "heapify" BY <1>6, <3>2 DEF IInv, Sifting
    <3> QED BY <1>6, <3>1, <3>2
  <2>6. Sifting' BY <1>1, <1>3, <1>5, <1>6, <2>1, <2>5 DEF Sifting
  <2> QED BY <1>3, <1>6, <2>2, <2>3, <2>4, <2>6 DEF IInv, Shape
<1>7. CASE /\ at = "heapify" /\ todo > 0
           /\ todo' = todo - 1 /\ index' = todo' /\ at' = at /\ dirty' = dirty
  <2>1. t = todo /\ todo # 0 /\ todo - 1 \in Nat BY <1>2, <1>7
  <2>2. Types' /\ CountFits' BY <1>1, <1>2, <1>3, <1>7, <2>1 DEF IInv, Shape, Types, CountFits
  <2>3. Places'
    <3>1. todo - 1 <= todo - 1 BY <2>1
    <3>2. todo' <= index' BY <1>7, <3>1, Zenon
    <3> QED BY <1>7, <3>2, Zenon DEF Places
  <2>4. Down(Stands, heapSize, i, todo, dNum) BY <1>7 DEF IInv, Sifting
  <2>5. Sifting' BY <1>1, <1>3, <1>5, <1>7, <2>1, <2>4 DEF Sifting
  <2> QED BY <1>3, <1>7, <2>2, <2>3, <2>5 DEF IInv, Shape
<1> QED BY <1>6, <1>7 DEF SiftedDown
-----------------------------------------------------------------------------
(***************************************************************************)
(* Either heap is a priority queue.                                         *)
(***************************************************************************)
LEMMA OperationMaps ==
    ASSUME IInv, Operation
    PROVE  [Queue!Next]_Queue!queue
<1> USE DEF Queue!queue
<1>1. ASSUME NEW e \in Elem, NEW p \in Prio, Push(e, p) PROVE Queue!Next
  <2>1. Queue!Insert(e, p) BY <1>1, PushKeeps DEF Push, Queue!Insert
  <2> QED BY <2>1 DEF Queue!Next
<1>2. CASE Pop
  <2>1. arr[0] \in Elem BY <1>2, PopKeeps DEF Contents, IInv, Shape, CountFits
  <2>2. Queue!Take(arr[0]) BY <1>2, PopKeeps DEF Queue!Take
  <2> QED BY <2>1, <2>2 DEF Queue!Next
<1>3. CASE PopNothing
  <2>1. Contents = {} BY <1>3 DEF PopNothing, Contents, Cells
  <2>2. Queue!TakeNothing BY <1>3, <2>1, SettingsKeep DEF PopNothing, Queue!TakeNothing
  <2> QED BY <2>2 DEF Queue!Next
<1>4. CASE Foreach
  <2>1. Queue!Change BY <1>4, ForeachKeeps DEF Foreach, Queue!Change
  <2> QED BY <2>1 DEF Queue!Next
<1>5. CASE ForeachRemove
  <2>1. Queue!Clear BY <1>5, ForeachRemoveKeeps DEF ForeachRemove, Queue!Clear
  <2> QED BY <2>1 DEF Queue!Next
<1>6. CASE \/ \E r \in Rates : SetGrowthRate(r)
           \/ \E r \in ConstRates : SetConstGrowthRate(r)
  BY <1>6, SettingsKeep DEF SetGrowthRate, SetConstGrowthRate
<1>7. CASE \E n \in Sizes : TrimToSize(n) BY <1>7, TrimKeeps DEF TrimToSize
<1>8. CASE SiftUp BY <1>8, SiftUpKeeps DEF SiftUp
<1>9. CASE Heapify BY <1>9, HeapifyKeeps DEF Heapify
<1> QED BY <1>1, <1>2, <1>3, <1>4, <1>5, <1>6, <1>7, <1>8, <1>9 DEF Operation

LEMMA EndsMaps ==
    ASSUME Contents' = Contents, UNCHANGED <<prio, ret>>, dirty' = dirty \/ dirty' = FALSE
    PROVE  [Queue!Next]_Queue!queue
<1> USE DEF Queue!queue
<1>1. CASE dirty' = dirty BY <1>1
<1>2. CASE dirty' = FALSE
  <2>1. Queue!Restore BY <1>2 DEF Queue!Restore
  <2> QED BY <2>1 DEF Queue!Next
<1> QED BY <1>1, <1>2

LEMMA StutterMaps == UNCHANGED vars => [Queue!Next]_Queue!queue
BY DEF vars, Contents, Cells, Queue!queue

LEMMA NewMaps == ASSUME NEW d, New(d), Contents = {} PROVE Queue!Init
BY Zenon DEF New, Queue!Init
-----------------------------------------------------------------------------
(***************************************************************************)
(* bl_heap.                                                                 *)
(***************************************************************************)
BInv == IInv /\ dNum = 2

LEMMA InitHolds == Init => BInv
<1> SUFFICES ASSUME Init PROVE BInv OBVIOUS
<1> QED BY NewHolds DEF Init, BInv

(* What sift_down compares while there are two elements or more.            *)
LEMMA Reading ==
    ASSUME BInv, index <= MaxSiftIndex, 1 < heapSize
    PROVE  /\ index \in Cells /\ Child \in Cells \ {0} /\ ParentOf(Child, dNum) = index
           /\ \A c \in Cells \ {0} : ParentOf(c, dNum) = index => Stands[c] <= Stands[Child]
<1>1. /\ heapSize \in Nat /\ index \in Nat /\ SizeMax \in Nat /\ heapSize <= SizeMax
      /\ dNum = 2
  BY SizeFits, ConstantsAre DEF BInv, IInv, Shape, Types
<1>2. 2 * index + 2 <= heapSize
  <2>1. Wrap(heapSize - 2) = heapSize - 2 BY <1>1 DEF Wrap
  <2> QED BY <1>1, <2>1 DEF MaxSiftIndex
<1>3. LChild = 2 * index + 1 /\ RChild = 2 * index + 2
  BY <1>1, <1>2 DEF LChild, RChild, Wrap
<1>4. index \in Cells /\ LChild \in Cells /\ (RChild < heapSize => RChild \in Cells)
  BY <1>1, <1>2, <1>3 DEF Cells
<1>5. ParentOf(LChild, dNum) = index /\ ParentOf(RChild, dNum) = index
  BY <1>1, <1>3 DEF ParentOf
<1>6. Child \in Cells /\ ParentOf(Child, dNum) = index /\ Child # 0
  BY <1>1, <1>3, <1>4, <1>5 DEF Child
<1>7. \A c \in Cells : Stands[c] = prio[arr[c]] /\ Stands[c] \in Int
  BY StandsAreNumbers DEF BInv, IInv, Cells
<1>8. ASSUME NEW c \in Cells \ {0}, ParentOf(c, dNum) = index PROVE Stands[c] <= Stands[Child]
  <2>1. c = LChild \/ (c = RChild /\ RChild < heapSize)
    <3>1. c \in Nat /\ c # 0 /\ c < heapSize BY <1>1 DEF Cells
    <3>2. c - 1 \in Nat /\ (c - 1) \div 2 = index BY <1>1, <1>8, <3>1 DEF ParentOf
    <3> QED BY <1>1, <1>3, <3>1, <3>2
  <2> QED BY <1>4, <1>7, <2>1 DEF Child, Before
<1> QED BY <1>1, <1>4, <1>6, <1>8

(* With fewer elements whatever can be compared is one element, or stands   *)
(* for one: nothing changes places.                                         *)
LEMMA SmallHeapsRest ==
    ASSUME BInv, at \in {"pop", "heapify"}, heapSize <= 1,
           index <= MaxSiftIndex, \A c \in Reads : Readable(c)
    PROVE  ~Before(Child, index)
<1>0. IInv BY DEF BInv
<1>1. heapSize \in Nat /\ index \in Nat /\ SizeMax \in Nat
  BY <1>0, ConstantsAre DEF IInv, Shape, Types
<1>2. index \in Reads /\ Child \in Reads
  <2>1. index \in Reads /\ LChild \in Reads BY DEF Reads
  <2>2. RChild < heapSize => RChild \in Reads BY DEF Reads
  <2> QED BY <2>1, <2>2 DEF Child
<1>3. \A e \in Alive : e \in Elem
  <2>1. \A e \in Contents : e \in Elem BY <1>0 DEF IInv, Shape, CountFits, Contents
  <2> QED BY <1>0, <2>1 DEF Alive, IInv, Shape, Places
<1>4. arr[index] \in Alive /\ arr[Child] \in Alive BY <1>2 DEF Readable
<1>5. SUFFICES arr[index] = arr[Child]
  <2>1. prio[arr[index]] \in Int BY <1>0, <1>3, <1>4, ConstantsAre DEF IInv, Shape, Types
  <2> QED BY <1>5, <2>1 DEF Before
<1>6. CASE heapSize = 0
  <2>1. Contents = {} BY <1>6 DEF Contents, Cells
  <2> QED BY <1>4, <2>1 DEF Alive
<1>7. CASE heapSize = 1
  <2>1. Contents = {arr[0]} BY <1>7 DEF Contents, Cells
  <2>2. CASE at = "heapify"
    <3>1. Alive = {arr[0]} BY <2>1, <2>2 DEF Alive
    <3> QED BY <1>4, <3>1
  <2>3. CASE at = "pop"
    <3>1. index = 0 /\ arr[1] = arr[0] BY <1>0, <1>7, <2>3 DEF IInv, Shape, Places
    <3>2. Child = LChild \/ (Child = RChild /\ RChild < 1) BY <1>7 DEF Child
    <3>3. LChild \in {0, 1} /\ RChild \in Nat
      <4>1. LChild = 1 % (SizeMax + 1) /\ RChild = 2 % (SizeMax + 1)
        BY <3>1 DEF LChild, RChild, Wrap
      <4> QED BY <1>1, <4>1
    <3> QED BY <3>1, <3>2, <3>3
  <2> QED BY <2>2, <2>3
<1> QED BY <1>1, <1>6, <1>7

LEMMA SiftDownKeeps == ASSUME BInv, SiftDown PROVE BInv' /\ Contents' = Contents
<1>1. /\ at \in {"pop", "heapify"} /\ index <= MaxSiftIndex /\ Before(Child, index)
      /\ \A c \in Reads : Readable(c)
      /\ arr' = Swapped(index, Child) /\ index' = Child
      /\ UNCHANGED <<heapSize, setup, at, todo, prio, ret, dirty>>
  BY DEF SiftDown
<1>2. 1 < heapSize
  <2>1. heapSize \in Nat BY DEF BInv, IInv, Shape, Types
  <2> QED BY <1>1, <2>1, SmallHeapsRest
<1>3. /\ index \in Cells /\ Child \in Cells \ {0} /\ ParentOf(Child, dNum) = index
      /\ \A c \in Cells \ {0} : ParentOf(c, dNum) = index => Stands[c] <= Stands[Child]
  BY <1>1, <1>2, Reading
<1>4. IInv' /\ Contents' = Contents BY <1>1, <1>2, <1>3, ExchangeKeeps DEF BInv
<1> QED BY <1>1, <1>4 DEF BInv, setup

LEMMA SiftDownEndsKeeps ==
    ASSUME BInv, SiftDownEnds
    PROVE  /\ BInv' /\ Contents' = Contents /\ UNCHANGED <<prio, ret>>
           /\ dirty' = dirty \/ dirty' = FALSE
<1>1. /\ at \in {"pop", "heapify"} /\ SiftedDown
      /\ UNCHANGED <<arr, heapSize, setup, prio, ret>>
  BY DEF SiftDownEnds
<1>2. /\ heapSize \in Nat /\ index \in Nat /\ dNum = 2
      /\ heapSize <= SizeMax /\ SizeMax \in Nat
  BY SizeFits, ConstantsAre DEF BInv, IInv, Shape, Types
<1>3. ASSUME NEW c \in 1 .. heapSize - 1, ParentOf(c, dNum) = index
      PROVE  Stands[c] <= Stands[index]
  <2>1. 1 < heapSize /\ c \in Cells \ {0} BY <1>2 DEF Cells
  <2>2. index <= MaxSiftIndex
    <3>1. Wrap(heapSize - 2) = heapSize - 2 BY <1>2, <2>1 DEF Wrap
    <3>2. 2 * index + 1 <= c BY <1>2, <1>3 DEF ParentOf
    <3> QED BY <1>2, <2>1, <3>1, <3>2 DEF MaxSiftIndex
  <2>3. /\ index \in Cells /\ Child \in Cells /\ Stands[c] <= Stands[Child]
    BY <1>3, <2>1, <2>2, Reading
  <2>4. ~Before(Child, index)
    <3>1. MaxSiftIndex \in Int BY <1>2, ConstantsAre DEF MaxSiftIndex, Wrap
    <3>2. ~(index > MaxSiftIndex) BY <1>2, <2>2, <3>1
    <3> QED BY <3>2, Zenon DEF SiftDownEnds
  <2>5. \A d \in Cells : Stands[d] = prio[arr[d]] /\ Stands[d] \in Int
    BY StandsAreNumbers DEF BInv, IInv, Cells
  <2> QED BY <2>1, <2>3, <2>4, <2>5 DEF Before
<1>4. IInv' /\ Contents' = Contents /\ (dirty' = dirty \/ dirty' = FALSE)
  BY <1>1, <1>3, EndsKeeps DEF BInv
<1> QED BY <1>1, <1>4 DEF BInv, setup

LEMMA SiftDownAstrayKeeps ==
    ASSUME BInv, SiftDownAstray
    PROVE  BInv' /\ Contents' = Contents /\ UNCHANGED <<prio, ret, dirty>>
<1>1. /\ UNCHANGED <<arr, heapSize, arraySize, rate, constRate, dNum,
                    index, todo, prio, ret, dirty>>
      /\ at' = "astray"
  BY DEF SiftDownAstray, ReadsAstray, setup
<1>2. /\ Contents' = Contents /\ Stands' = Stands /\ Cells' = Cells /\ Once'
  BY <1>1, Kept DEF BInv, IInv
<1>3. Types' /\ CountFits' BY <1>1, <1>2 DEF BInv, IInv, Shape, Types, CountFits
<1>4. Places' /\ Sifting' BY <1>1 DEF Places, Sifting
<1> QED BY <1>1, <1>2, <1>3, <1>4 DEF BInv, IInv, Shape

LEMMA NextKeeps == BInv /\ [Next]_vars => BInv'
<1> SUFFICES ASSUME BInv, [Next]_vars PROVE BInv' OBVIOUS
<1>1. CASE UNCHANGED vars BY <1>1, StutterKeeps DEF BInv
<1>2. CASE Operation BY <1>2, OperationKeeps, OperationIs DEF BInv
<1>3. CASE SiftDown \/ SiftDownEnds \/ SiftDownAstray
  BY <1>3, SiftDownKeeps, SiftDownEndsKeeps, SiftDownAstrayKeeps
<1> QED BY <1>1, <1>2, <1>3 DEF Next

THEOREM HeapInvariant == Spec => []BInv
BY InitHolds, NextKeeps, PTL DEF Spec

(* The array has a cell for every element of the heap, through pushes,      *)
(* trims and growths of any size (bl_heap.c:171-186, bl_heap_trimToSize).   *)
THEOREM HeapFits == Spec => []CountFits
<1>1. BInv => CountFits BY DEF BInv, IInv, Shape
<1> QED BY <1>1, HeapInvariant, PTL

(* Between two operations no element stands before its parent, unless       *)
(* foreach has changed elements since the last heapify.                     *)
THEOREM HeapIsOrdered == Spec => []HeapOrder
<1>1. BInv => HeapOrder BY OrderedIs DEF BInv, IInv, Sifting, HeapOrder
<1> QED BY <1>1, HeapInvariant, PTL

(* bl_heap is a priority queue: what pop returns no other element stands    *)
(* before, and sifting neither loses nor doubles an element.                *)
THEOREM HeapIsPriorityQueue == Spec => ImplementsQueue
<1>1. Init => Queue!Init
  <2>1. ASSUME Init PROVE Contents = {} BY <2>1, NewHolds DEF Init
  <2> QED BY <2>1, NewMaps DEF Init
<1>2. BInv /\ [Next]_vars => [Queue!Next]_Queue!queue
  <2> SUFFICES ASSUME BInv, [Next]_vars PROVE [Queue!Next]_Queue!queue OBVIOUS
  <2>1. CASE UNCHANGED vars BY <2>1, StutterMaps
  <2>2. CASE Operation BY <2>2, OperationMaps DEF BInv
  <2>3. CASE SiftDown
    BY <2>3, SiftDownKeeps DEF SiftDown, Queue!queue
  <2>4. CASE SiftDownEnds BY <2>4, SiftDownEndsKeeps, EndsMaps
  <2>5. CASE SiftDownAstray BY <2>5, SiftDownAstrayKeeps DEF Queue!queue
  <2> QED BY <2>1, <2>2, <2>3, <2>4, <2>5 DEF Next
<1> QED BY <1>1, <1>2, HeapInvariant, PTL DEF Spec, ImplementsQueue, Queue!Spec
-----------------------------------------------------------------------------
(***************************************************************************)
(* bl_dheap, whose dsift_down looks for a child before it compares.         *)
(***************************************************************************)
DInv == IInv /\ dNum \in DNums /\ at # "astray"

LEMMA DInitHolds == DInit => DInv
<1> SUFFICES ASSUME DInit PROVE DInv OBVIOUS
<1>1. PICK d \in DNums : New(d) BY DEF DInit
<1>2. d \in Nat \ {0} BY DNumsAssumption
<1> QED BY <1>1, <1>2, NewHolds DEF DInv

(* Of finitely many numbers one is the greatest, and one of these the first: *)
(* the one than which the fewest are greater.                               *)
LEMMA FirstGreatest ==
    ASSUME NEW S \in SUBSET Nat, IsFiniteSet(S), S # {}, NEW v, \A c \in S : v[c] \in Int
    PROVE  \E c \in S : \A e \in S : IF e < c THEN v[c] > v[e] ELSE ~(v[e] > v[c])
<1> DEFINE More(c) == {e \in S : v[e] > v[c]}
           T == {n \in Nat : \E c \in S : n = Cardinality(More(c))}
<1>1. \A c \in S : IsFiniteSet(More(c)) /\ Cardinality(More(c)) \in Nat
  <2> SUFFICES ASSUME NEW c \in S PROVE IsFiniteSet(More(c)) /\ Cardinality(More(c)) \in Nat
    OBVIOUS
  <2>1. IsFiniteSet(More(c)) BY FS_Subset
  <2> HIDE DEF More
  <2> QED BY <2>1, FS_CardinalityType
<1>2. T \subseteq Nat /\ T # {} BY <1>1
<1> HIDE DEF T
<1>3. PICK n \in T : \A k \in T : ~(<<k, n>> \in OpToRel(<, Nat))
  BY <1>2, NatLessThanWellFounded, WFMin, Zenon
<1>4. \A k \in T : ~(k < n)
  <2>1. SUFFICES ASSUME NEW k \in T, k < n PROVE <<k, n>> \in OpToRel(<, Nat)
    BY <1>3, Zenon
  <2> QED BY <2>1, <1>2, Zenon DEF OpToRel
<1>5. PICK g \in S : n = Cardinality(More(g)) BY DEF T
<1>6. More(g) = {}
  <2> SUFFICES ASSUME NEW e \in More(g) PROVE FALSE OBVIOUS
  <2>1. e \in S /\ v[e] > v[g] /\ v[e] \in Int /\ v[g] \in Int OBVIOUS
  <2>2. More(e) \subseteq More(g) /\ e \notin More(e)
    <3>1. ASSUME NEW x \in More(e) PROVE x \in More(g) /\ x # e
      <4>1. x \in S /\ v[x] > v[e] /\ v[x] \in Int OBVIOUS
      <4>2. v[x] > v[g] BY <2>1, <4>1
      <4>3. x # e BY <2>1, <4>1
      <4> QED BY <4>1, <4>2, <4>3
    <3> QED BY <3>1
  <2>3. More(e) # More(g) BY <2>2
  <2>4. /\ IsFiniteSet(More(g)) /\ Cardinality(More(e)) \in Nat
        /\ Cardinality(More(g)) \in Nat
    BY <1>1, <2>1
  <2>5. Cardinality(More(e)) < Cardinality(More(g))
    <3>1. \A A, B : IsFiniteSet(B) /\ A \subseteq B /\ A # B
               => Cardinality(A) <= Cardinality(B) /\ Cardinality(A) # Cardinality(B)
      <4> SUFFICES ASSUME NEW A, NEW B, IsFiniteSet(B), A \in SUBSET B, A # B
                   PROVE Cardinality(A) <= Cardinality(B) /\ Cardinality(A) # Cardinality(B)
        OBVIOUS
      <4>1. Cardinality(A) <= Cardinality(B) BY FS_Subset
      <4>2. Cardinality(B) = Cardinality(A) => B = A BY FS_Subset
      <4> QED BY <4>1, <4>2
    <3> HIDE DEF More
    <3> QED BY <2>2, <2>3, <2>4, <3>1
  <2>6. Cardinality(More(e)) \in T BY <2>1, <2>4 DEF T
  <2> HIDE DEF More
  <2> QED BY <1>4, <1>5, <2>5, <2>6
<1> DEFINE U == {c \in S : v[c] = v[g]}
<1>7. U \subseteq Nat /\ g \in U OBVIOUS
<1>8. PICK c \in U : \A k \in U : ~(<<k, c>> \in OpToRel(<, Nat))
  <2> HIDE DEF U
  <2> QED BY <1>7, NatLessThanWellFounded, WFMin, Zenon
<1>9. \A k \in U : ~(k < c)
  <2>1. SUFFICES ASSUME NEW k \in U, k < c PROVE <<k, c>> \in OpToRel(<, Nat)
    BY <1>8, Zenon
  <2> QED BY <2>1, <1>7, Zenon DEF OpToRel
<1>10. ASSUME NEW e \in S PROVE IF e < c THEN v[c] > v[e] ELSE ~(v[e] > v[c])
  <2>1. c \in S /\ v[c] = v[g] /\ v[c] \in Int /\ v[e] \in Int OBVIOUS
  <2>2. ~(v[e] > v[c]) BY <1>6, <2>1
  <2>3. e < c => v[e] # v[g] BY <1>9
  <2> QED BY <2>1, <2>2, <2>3
<1> QED BY <1>10

(* The children of index, as the heap has them and as the loop finds them. *)
LEMMA ChildrenAre ==
    ASSUME DInv, index < heapSize
    PROVE  /\ Children = {c \in Cells \ {0} : ParentOf(c, dNum) = index}
           /\ index \in Cells
           /\ HasChild <=> Children # {}
<1> DEFINE n == heapSize
           i == index
           k == dNum
           N == Cardinality(Elem)
<1>1. /\ n \in Nat /\ i \in Nat /\ k \in Nat \ {0} /\ N \in Nat /\ SizeMax \in Nat
      /\ i < n /\ n <= N /\ N * k < SizeMax
  <2>1. n <= N /\ N \in Nat BY SizeFits DEF DInv, IInv
  <2>2. N * k < SizeMax /\ k \in Nat \ {0} BY DNumsAssumption DEF DInv
  <2> QED BY <2>1, <2>2, ConstantsAre DEF DInv, IInv, Shape, Types
<1>2. /\ FirstChild = Wrap(Wrap(i * k) + 1) /\ LastChild = Wrap(Wrap(i * k) + k)
  BY DEF FirstChild, LastChild
<1>3. Cells = 0 .. n - 1 BY DEF Cells
<1>4. Children = {c \in FirstChild .. LastChild : c < n} BY DEF Children
<1>5. HasChild <=> FirstChild <= n - 1 BY DEF HasChild
<1> HIDE DEF n, i, k, N
<1>6. i * k \in Nat /\ i * k + k \in Nat /\ i * k + k <= SizeMax
  <2>1. (i + 1) * k <= N * k BY <1>1, SMT
  <2>2. (i + 1) * k = i * k + k /\ i * k \in Nat /\ N * k \in Nat BY <1>1, SMT
  <2> QED BY <1>1, <2>1, <2>2
<1>7. FirstChild = i * k + 1 /\ LastChild = i * k + k
  <2> DEFINE p == i * k
  <2>1. p \in Nat /\ p + k <= SizeMax /\ p + 1 <= SizeMax BY <1>1, <1>6
  <2> HIDE DEF p
  <2>2. Wrap(p) = p /\ Wrap(p + 1) = p + 1 /\ Wrap(p + k) = p + k
    BY <1>1, <2>1 DEF Wrap
  <2> QED BY <1>2, <2>2 DEF p
<1>8. ASSUME NEW c \in Children PROVE c \in Cells \ {0} /\ ParentOf(c, k) = i
  <2>1. c \in i * k + 1 .. i * k + k /\ c < n BY <1>4, <1>7
  <2>2. ParentOf(c, k) = i BY <1>1, <2>1, ChildrenOf
  <2> QED BY <1>1, <1>3, <1>6, <2>1, <2>2
<1>9. ASSUME NEW c \in Cells \ {0}, ParentOf(c, k) = i PROVE c \in Children
  <2>1. c \in Nat /\ c # 0 /\ c < n BY <1>1, <1>3
  <2>2. i * k + 1 <= c /\ c <= i * k + k BY <1>1, <1>9, <2>1, ChildOf
  <2> QED BY <1>4, <1>6, <1>7, <2>1, <2>2
<1>10. Children = {c \in Cells \ {0} : ParentOf(c, k) = i}
  BY <1>8, <1>9
<1>11. i \in Cells BY <1>1, <1>3
<1>12. FirstChild <= n - 1 <=> Children # {}
  <2> DEFINE p == i * k
  <2>1. p \in Nat /\ Children = {c \in p + 1 .. p + k : c < n} /\ FirstChild = p + 1
    BY <1>4, <1>6, <1>7
  <2> HIDE DEF p
  <2>2. p + 1 < n => p + 1 \in Children BY <1>1, <2>1
  <2>3. \A c \in Children : p + 1 < n BY <1>1, <2>1
  <2>4. (FirstChild <= n - 1) = (p + 1 < n) BY <1>1, <2>1
  <2>5. CASE p + 1 < n BY <2>2, <2>4, <2>5
  <2>6. CASE ~(p + 1 < n) BY <2>3, <2>4, <2>6
  <2> QED BY <2>5, <2>6
<1> QED BY <1>5, <1>10, <1>11, <1>12 DEF i, k

(* What dsift_down compares: elements of the heap, of which it finds the     *)
(* greatest child.                                                          *)
LEMMA DReading ==
    ASSUME DInv, HasChild
    PROVE  /\ index \in Cells /\ MaxChild \in Cells \ {0} /\ ParentOf(MaxChild, dNum) = index
           /\ \A c \in Cells \ {0} : ParentOf(c, dNum) = index => Stands[c] <= Stands[MaxChild]
           /\ \A c \in DReads : Readable(c)
           /\ 1 < heapSize
<1>1. heapSize \in Nat /\ index < heapSize BY DEF DInv, IInv, Shape, Types, HasChild
<1>2. /\ Children = {c \in Cells \ {0} : ParentOf(c, dNum) = index}
      /\ index \in Cells /\ Children # {}
  BY <1>1, ChildrenAre
<1>3. \A c \in Cells : Stands[c] = prio[arr[c]] /\ Stands[c] \in Int
  BY StandsAreNumbers DEF DInv, IInv, Cells
<1>4. /\ MaxChild \in Children
      /\ \A e \in Children : IF e < MaxChild THEN Before(MaxChild, e) ELSE ~Before(e, MaxChild)
  <2>1. \E c \in Children : \A e \in Children :
           IF e < c THEN Stands[c] > Stands[e] ELSE ~(Stands[e] > Stands[c])
    <3>1. Children \subseteq Cells /\ Cells \subseteq Nat /\ IsFiniteSet(Cells)
      <4>1. 0 \in Int /\ heapSize - 1 \in Int BY <1>1
      <4>2. IsFiniteSet(0 .. heapSize - 1) BY <4>1, FS_Interval
      <4> QED BY <1>2, <4>2 DEF Cells
    <3>2. Children \in SUBSET Nat /\ IsFiniteSet(Children) BY <3>1, FS_Subset
    <3>3. \A c \in Children : Stands[c] \in Int BY <1>3, <3>1
    <3> HIDE DEF Children
    <3> QED BY <1>2, <3>2, <3>3, FirstGreatest
  <2>2. \E c \in Children : \A e \in Children :
           IF e < c THEN Before(c, e) ELSE ~Before(e, c)
    <3>1. Children \subseteq Cells BY <1>2
    <3> QED BY <1>3, <2>1, <3>1 DEF Before
  <2> QED BY <2>2, Zenon DEF MaxChild
<1>5. ASSUME NEW c \in Children PROVE Stands[c] <= Stands[MaxChild]
  <2>1. c \in Cells /\ MaxChild \in Cells BY <1>2, <1>4
  <2>2. Before(MaxChild, c) \/ ~Before(c, MaxChild) BY <1>4
  <2>3. prio[arr[MaxChild]] > prio[arr[c]] \/ ~(prio[arr[c]] > prio[arr[MaxChild]])
    BY <2>2 DEF Before
  <2> HIDE DEF MaxChild
  <2> QED BY <1>3, <2>1, <2>3
<1>6. \A c \in DReads : Readable(c)
  <2>1. DReads \subseteq Cells BY <1>2 DEF DReads
  <2>2. \A c \in Cells : c \in DOMAIN arr /\ arr[c] \in Contents
    BY Standing DEF DInv, IInv, Shape, Types, Contents
  <2> QED BY <2>1, <2>2 DEF Readable, Alive
<1>7. 1 < heapSize BY <1>1, <1>2 DEF Cells
<1> HIDE DEF MaxChild
<1> QED BY <1>2, <1>4, <1>5, <1>6, <1>7

LEMMA DSiftDownKeeps == ASSUME DInv, DSiftDown PROVE DInv' /\ Contents' = Contents
<1>1. /\ at \in {"pop", "heapify"} /\ Before(MaxChild, index) /\ HasChild
      /\ arr' = Swapped(index, MaxChild) /\ index' = MaxChild
      /\ UNCHANGED <<heapSize, setup, at, todo, prio, ret, dirty>>
  BY DEF DSiftDown
<1>2. /\ index \in Cells /\ MaxChild \in Cells \ {0} /\ ParentOf(MaxChild, dNum) = index
      /\ \A c \in Cells \ {0} : ParentOf(c, dNum) = index => Stands[c] <= Stands[MaxChild]
      /\ 1 < heapSize
  BY <1>1, DReading
<1>3. IInv' /\ Contents' = Contents BY <1>1, <1>2, ExchangeKeeps DEF DInv
<1> QED BY <1>1, <1>3 DEF DInv, setup

LEMMA DSiftDownEndsKeeps ==
    ASSUME DInv, DSiftDownEnds
    PROVE  /\ DInv' /\ Contents' = Contents /\ UNCHANGED <<prio, ret>>
           /\ dirty' = dirty \/ dirty' = FALSE
<1>1. /\ at \in {"pop", "heapify"} /\ SiftedDown
      /\ UNCHANGED <<arr, heapSize, setup, prio, ret>>
      /\ HasChild => ~Before(MaxChild, index)
  BY DEF DSiftDownEnds
<1>2. heapSize \in Nat /\ index \in Nat /\ dNum \in Nat \ {0}
  BY DEF DInv, IInv, Shape, Types
<1>3. ASSUME NEW c \in 1 .. heapSize - 1, ParentOf(c, dNum) = index
      PROVE  Stands[c] <= Stands[index]
  <2>1. c \in Nat /\ c # 0 /\ c \in Cells \ {0} BY <1>2 DEF Cells
  <2>2. index < heapSize
    <3>1. ParentOf(c, dNum) < c BY <1>2, <2>1, Parents
    <3> QED BY <1>2, <1>3, <3>1
  <2>3. HasChild BY <1>3, <2>1, <2>2, ChildrenAre
  <2>4. /\ index \in Cells /\ MaxChild \in Cells /\ Stands[c] <= Stands[MaxChild]
    BY <1>3, <2>1, <2>3, DReading
  <2>5. ~(prio[arr[MaxChild]] > prio[arr[index]]) BY <1>1, <2>3 DEF Before
  <2>6. \A d \in Cells : Stands[d] = prio[arr[d]] /\ Stands[d] \in Int
    BY StandsAreNumbers DEF DInv, IInv, Cells
  <2> HIDE DEF MaxChild
  <2> QED BY <2>1, <2>4, <2>5, <2>6
<1>4. /\ IInv' /\ Contents' = Contents /\ (dirty' = dirty \/ dirty' = FALSE)
      /\ at' # "astray"
  BY <1>1, <1>3, EndsKeeps DEF DInv
<1> QED BY <1>1, <1>4 DEF DInv, setup

LEMMA DNextKeeps == DInv /\ [DNext]_vars => DInv'
<1> SUFFICES ASSUME DInv, [DNext]_vars PROVE DInv' OBVIOUS
<1>1. CASE UNCHANGED vars BY <1>1, StutterKeeps DEF DInv
<1>2. CASE Operation BY <1>2, OperationKeeps, OperationIs DEF DInv
<1>3. CASE DSiftDown \/ DSiftDownEnds
  BY <1>3, DSiftDownKeeps, DSiftDownEndsKeeps
<1>4. CASE DSiftDownAstray
  BY <1>4, DReading DEF DSiftDownAstray, ReadsAstray
<1> QED BY <1>1, <1>2, <1>3, <1>4 DEF DNext

THEOREM DHeapInvariant == DSpec => []DInv
BY DInitHolds, DNextKeeps, PTL DEF DSpec

(* dsift_down gives cmp_func elements of the heap only, however few there    *)
(* are: it tests for a child first, where sift_down does not.               *)
THEOREM DHeapReads == DSpec => []ReadsElements
<1>1. DInv => ReadsElements BY DEF DInv, ReadsElements
<1> QED BY <1>1, DHeapInvariant, PTL

(* bl_dheap stays inside its array, as bl_heap does.                         *)
THEOREM DHeapFits == DSpec => []CountFits
<1>1. DInv => CountFits BY DEF DInv, IInv, Shape
<1> QED BY <1>1, DHeapInvariant, PTL

(* Between two operations no element of bl_dheap stands before its parent.  *)
THEOREM DHeapIsOrdered == DSpec => []HeapOrder
<1>1. DInv => HeapOrder BY OrderedIs DEF DInv, IInv, Sifting, HeapOrder
<1> QED BY <1>1, DHeapInvariant, PTL

(* bl_dheap is a priority queue, with any number of children to a node.      *)
THEOREM DHeapIsPriorityQueue == DSpec => ImplementsQueue
<1>1. DInit => Queue!Init
  <2> SUFFICES ASSUME DInit PROVE Queue!Init OBVIOUS
  <2>1. PICK d \in DNums : New(d) BY DEF DInit
  <2>2. Contents = {} BY <2>1, NewHolds, DNumsAssumption
  <2> QED BY <2>1, <2>2, NewMaps
<1>2. DInv /\ [DNext]_vars => [Queue!Next]_Queue!queue
  <2> SUFFICES ASSUME DInv, [DNext]_vars PROVE [Queue!Next]_Queue!queue OBVIOUS
  <2>1. CASE UNCHANGED vars BY <2>1, StutterMaps
  <2>2. CASE Operation BY <2>2, OperationMaps DEF DInv
  <2>3. CASE DSiftDown
    BY <2>3, DSiftDownKeeps DEF DSiftDown, Queue!queue
  <2>4. CASE DSiftDownEnds BY <2>4, DSiftDownEndsKeeps, EndsMaps
  <2>5. CASE DSiftDownAstray
    BY <2>5, DReading DEF DSiftDownAstray, ReadsAstray
  <2> QED BY <2>1, <2>2, <2>3, <2>4, <2>5 DEF DNext
<1> QED BY <1>1, <1>2, DHeapInvariant, PTL DEF DSpec, ImplementsQueue, Queue!Spec

(* The two heaps side by side: whatever the code of bl_heap does, bl_dheap   *)
(* compares elements of the heap only.                                      *)
THEOREM DHeapsReadElements == MCSpec => []DHeapReadsElements
<1> DEFINE Inv == kind \in {"heap", "dheap"} => IF kind = "heap" THEN BInv ELSE DInv
<1>1. MCInit => Inv
  BY InitHolds, DInitHolds DEF MCInit
<1>2. Inv /\ [MCNext]_<<vars, kind>> => Inv'
  <2> SUFFICES ASSUME Inv, [MCNext]_<<vars, kind>>, kind' \in {"heap", "dheap"}
               PROVE IF kind' = "heap" THEN BInv' ELSE DInv'
    OBVIOUS
  <2>1. kind' = kind BY DEF MCNext
  <2>2. CASE kind = "heap"
    <3>1. BInv /\ [Next]_vars BY <2>2 DEF MCNext
    <3> QED BY <2>1, <2>2, <3>1, NextKeeps
  <2>3. CASE kind = "dheap"
    <3>1. DInv /\ [DNext]_vars BY <2>3 DEF MCNext
    <3> QED BY <2>1, <2>3, <3>1, DNextKeeps
  <2> QED BY <2>1, <2>2, <2>3
<1>3. Inv => DHeapReadsElements
  BY DEF DHeapReadsElements, DInv, ReadsElements
<1> QED BY <1>1, <1>2, <1>3, PTL DEF MCSpec
=============================================================================
