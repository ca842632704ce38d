------------------------------ MODULE TreeProofs ------------------------------
(***************************************************************************)
(* Proofs about the red-black tree, the interval tree and the tree without  *)
(* balancing, for any nodes and keys.                                       *)
(*                                                                         *)
(* Of all three the proofs carry the set D[n] of the nodes under each node: *)
(* that they are disjoint, without the node itself, and right of smaller    *)
(* and left of greater keys, or equal ones, is the tree.  The first part    *)
(* says what a change of links - a new node, one cut out, a rotation, a     *)
(* node in the place of another - does to D, whatever the tree; the second  *)
(* adds the colours and the black nodes B[n] on the paths from n, where one *)
(* node at a time may be out of order while a call is repairing it; the     *)
(* third is about the greatest high ends of the interval tree, where the    *)
(* node updateMax has come to may be out of order, and about the queries;   *)
(* the last about the tree without balancing, whose links are addresses.    *)
(***************************************************************************)
EXTENDS StepTrees, FiniteSetTheorems, WellFoundedInduction, TLAPS

(* Induction, for a set of numbers.                                         *)
LEMMA Induct ==
    ASSUME NEW T \in SUBSET Nat, 0 \in T, \A n \in T : n + 1 \in T
    PROVE  T = Nat
<1> SUFFICES ASSUME Nat \ T # {} PROVE FALSE OBVIOUS
<1>1. PICK n \in Nat \ T : \A k \in Nat \ T : ~(<<k, n>> \in OpToRel(<, Nat))
  BY NatLessThanWellFounded, WFMin, Zenon
<1>2. n # 0 /\ n - 1 \in Nat /\ n - 1 < n OBVIOUS
<1>3. <<n - 1, n>> \in OpToRel(<, Nat)
  BY <1>2, Zenon DEF OpToRel
<1>4. n - 1 \in T BY <1>1, <1>2, <1>3, Zenon
<1>5. (n - 1) + 1 = n OBVIOUS
<1> QED BY <1>4, <1>5

-----------------------------------------------------------------------------
(***************************************************************************)
(* Trees of any kind.  C is the children, C[s][n] that of n on the side s,  *)
(* or nil; S the nodes of the tree, and D[n] those of them under n.         *)
(***************************************************************************)
LEMMA Sides ==
    /\ Other("left") = "right" /\ Other("right") = "left"
    /\ \A s \in Side : /\ Other(s) \in Side /\ Other(s) # s /\ Other(Other(s)) = s
                       /\ Side = {s, Other(s)}
BY DEF Side, Other

Fork(C, S, D, nil, n, s) ==
    /\ C[s][n] \in S \cup {nil}
    /\ D[n] = {n} \cup D[C[s][n]] \cup D[C[Other(s)][n]]
    /\ n \notin D[C[s][n]]
    /\ D[C[s][n]] \cap D[C[Other(s)][n]] = {}

Shaped(C, S, D, nil) ==
    /\ IsFiniteSet(S) /\ nil \notin S
    /\ D \in [S \cup {nil} -> SUBSET S] /\ D[nil] = {}
    /\ \A n \in S, s \in Side : Fork(C, S, D, nil, n, s)

(* The left comes before the right.                                         *)
Precedes(s, x, y) == IF s = "left" THEN x <= y ELSE y <= x

Sorted(C, S, D, k) == \A n \in S, s \in Side : \A m \in D[C[s][n]] : Precedes(s, k[m], k[n])

LEMMA Order ==
    /\ \A s \in Side, x, y, z \in Int : Precedes(s, x, y) /\ Precedes(s, y, z) => Precedes(s, x, z)
    /\ \A s \in Side, x, y \in Int : Precedes(Other(s), x, y) <=> Precedes(s, y, x)
    /\ \A s \in Side, x \in Int : Precedes(s, x, x)
BY DEF Precedes, Other, Side

(* What is under a node.                                                    *)
LEMMA Under1 ==
    ASSUME NEW C, NEW S, NEW D, NEW nil, Shaped(C, S, D, nil), NEW n \in S, NEW s \in Side
    PROVE  /\ C[s][n] \in S \cup {nil} /\ C[s][n] # n
           /\ n \in D[n] /\ D[n] \in SUBSET S
           /\ D[C[s][n]] \in SUBSET S /\ D[C[s][n]] \subseteq D[n]
           /\ n \notin D[C[s][n]]
           /\ C[s][n] # nil => C[s][n] \in S /\ C[s][n] \in D[n] /\ C[s][n] \in D[C[s][n]]
           /\ nil \notin S /\ D[nil] = {}
           /\ C[s][n] = C[Other(s)][n] => C[s][n] = nil
<1>1. Fork(C, S, D, nil, n, s) /\ Fork(C, S, D, nil, n, Other(s)) /\ Other(s) \in Side
  BY Sides DEF Shaped
<1>2. /\ nil \notin S /\ D[nil] = {} /\ \A a \in S : D[a] \in SUBSET S
      /\ \A a \in S \cup {nil} : D[a] \in SUBSET S
  BY DEF Shaped
<1>3. \A a \in S : a \in D[a]
  <2> TAKE a \in S
  <2>1. Fork(C, S, D, nil, a, s) BY DEF Shaped
  <2> QED BY <2>1 DEF Fork
<1>4. C[s][n] \in S \cup {nil} /\ n \notin D[C[s][n]] /\ D[C[s][n]] \subseteq D[n]
  BY <1>1 DEF Fork
<1>5. C[s][n] # n BY <1>3, <1>4
<1>6. C[s][n] # nil => C[s][n] \in S /\ C[s][n] \in D[C[s][n]] /\ C[s][n] \in D[n] BY <1>3, <1>4
<1>7. C[s][n] = C[Other(s)][n] => C[s][n] = nil
  <2> SUFFICES ASSUME C[s][n] = C[Other(s)][n], C[s][n] # nil PROVE FALSE OBVIOUS
  <2>1. D[C[s][n]] = {} BY <1>1 DEF Fork
  <2> QED BY <1>6, <2>1
<1> QED BY <1>2, <1>3, <1>4, <1>5, <1>6, <1>7

(* A property of nil that a node has if its children have it.               *)
LEMMA TreeInduct ==
    ASSUME NEW C, NEW S, NEW D, NEW nil, Shaped(C, S, D, nil), NEW T, nil \in T,
           \A n \in S : (\A s \in Side : C[s][n] \in T) => n \in T
    PROVE  S \subseteq T
<1>1. IsFiniteSet(S) /\ D \in [S \cup {nil} -> SUBSET S] BY DEF Shaped
<1> DEFINE Small(i) == \A n \in S : Cardinality(D[n]) <= i => n \in T
           Ts == {i \in Nat : Small(i)}
<1>2. \A n \in S : IsFiniteSet(D[n]) /\ Cardinality(D[n]) \in Nat
  <2> TAKE n \in S
  <2>1. D[n] \in SUBSET S BY <1>1
  <2>2. IsFiniteSet(D[n]) BY <1>1, <2>1, FS_Subset
  <2> QED BY <2>2, FS_CardinalityType
<1>3. 0 \in Ts
  <2> SUFFICES ASSUME NEW n \in S, Cardinality(D[n]) <= 0 PROVE n \in T OBVIOUS
  <2>1. Cardinality(D[n]) = 0 BY <1>2
  <2>2. D[n] = {} BY <1>2, <2>1, FS_EmptySet
  <2>3. n \in D[n] /\ "left" \in Side BY Under1 DEF Side
  <2> QED BY <2>2, <2>3
<1>4. ASSUME NEW i \in Ts PROVE i + 1 \in Ts
  <2>0. i \in Nat /\ Small(i) OBVIOUS
  <2> SUFFICES ASSUME NEW n \in S, Cardinality(D[n]) <= i + 1 PROVE n \in T BY <2>0
  <2> SUFFICES ASSUME NEW s \in Side, C[s][n] # nil PROVE C[s][n] \in T OBVIOUS
  <2> DEFINE m == C[s][n]
  <2>1. m \in S /\ D[m] \subseteq D[n] /\ n \in D[n] /\ n \notin D[m] BY Under1
  <2> HIDE DEF m
  <2>2. D[m] # D[n] BY <2>1
  <2>3. Cardinality(D[m]) < Cardinality(D[n])
    <3>1. IsFiniteSet(D[n]) /\ D[m] \in SUBSET D[n] BY <1>2, <2>1
    <3>2. Cardinality(D[m]) <= Cardinality(D[n]) /\ Cardinality(D[m]) # Cardinality(D[n])
      BY <2>2, <3>1, FS_Subset
    <3>3. Cardinality(D[m]) \in Nat /\ Cardinality(D[n]) \in Nat BY <1>2, <2>1
    <3> QED BY <3>2, <3>3
  <2>4. Cardinality(D[m]) \in Nat /\ Cardinality(D[n]) \in Nat BY <1>2, <2>1
  <2>5. Cardinality(D[m]) <= i BY <2>0, <2>3, <2>4
  <2>6. m \in T BY <2>0, <2>1, <2>5
  <2> QED BY <2>6 DEF m
<1> HIDE DEF Ts
<1>5. Ts \in SUBSET Nat BY DEF Ts
<1>6. Ts = Nat BY <1>3, <1>4, <1>5, Induct
<1> SUFFICES ASSUME NEW n \in S PROVE n \in T OBVIOUS
<1>7. Cardinality(D[n]) \in Nat /\ Cardinality(D[n]) \in Ts BY <1>2, <1>6
<1>8. Cardinality(D[n]) <= Cardinality(D[n]) BY <1>7
<1> QED BY <1>7, <1>8 DEF Ts

(* What is under a node of those under n is under n.                        *)
LEMMA Nested ==
    ASSUME NEW C, NEW S, NEW D, NEW nil, Shaped(C, S, D, nil)
    PROVE  \A n \in S : \A m \in D[n] : D[m] \subseteq D[n]
<1> DEFINE T == {n \in S \cup {nil} : \A m \in D[n] : D[m] \subseteq D[n]}
<1>1. nil \in T BY DEF Shaped
<1>2. ASSUME NEW n \in S, \A s \in Side : C[s][n] \in T PROVE n \in T
  <2> SUFFICES ASSUME NEW m \in D[n] PROVE D[m] \subseteq D[n] OBVIOUS
  <2>1. Fork(C, S, D, nil, n, "left") /\ "left" \in Side /\ "right" \in Side /\ Other("left") = "right"
    BY DEF Shaped, Side, Other
  <2>2. m = n \/ m \in D[C["left"][n]] \/ m \in D[C["right"][n]] BY <2>1 DEF Fork
  <2>3. \A s \in Side : D[C[s][n]] \subseteq D[n] BY Under1
  <2>4. \A s \in Side : m \in D[C[s][n]] => D[m] \subseteq D[C[s][n]] BY <1>2
  <2> QED BY <2>1, <2>2, <2>3, <2>4
<1> HIDE DEF T
<1>3. S \subseteq T BY <1>1, <1>2, TreeInduct
<1> QED BY <1>3 DEF T

(* A tree with its root z.                                                  *)
Tree(C, S, D, nil, z) == Shaped(C, S, D, nil) /\ z \in S \cup {nil} /\ D[z] = S

(* Of two nodes one is under the other, or nothing is under both.           *)
LEMMA Apart ==
    ASSUME NEW C, NEW S, NEW D, NEW nil, NEW z, Tree(C, S, D, nil, z), NEW a \in S, NEW b \in S
    PROVE  a \in D[b] \/ b \in D[a] \/ D[a] \cap D[b] = {}
<1> DEFINE T == {n \in S \cup {nil} : \A x, y \in D[n] : x \in D[y] \/ y \in D[x] \/ D[x] \cap D[y] = {}}
<1>0. Shaped(C, S, D, nil) /\ z \in S \cup {nil} /\ D[z] = S BY DEF Tree
<1>1. nil \in T /\ D[nil] = {} BY <1>0 DEF Shaped
<1>2. ASSUME NEW n \in S, \A s \in Side : C[s][n] \in T PROVE n \in T
  <2> SUFFICES ASSUME NEW x \in D[n], NEW y \in D[n]
               PROVE  x \in D[y] \/ y \in D[x] \/ D[x] \cap D[y] = {}
    OBVIOUS
  <2> DEFINE l == D[C["left"][n]]
             r == D[C["right"][n]]
  <2>1. /\ D[n] = {n} \cup l \cup r /\ l \cap r = {} /\ C["left"][n] \in T /\ C["right"][n] \in T
        /\ l \subseteq S /\ r \subseteq S
    <3>1. Fork(C, S, D, nil, n, "left") /\ "left" \in Side /\ "right" \in Side /\ Other("left") = "right"
      BY <1>0 DEF Shaped, Side, Other
    <3>2. l \subseteq S /\ r \subseteq S BY <1>0, <3>1, Under1
    <3> HIDE DEF T
    <3> QED BY <1>2, <3>1, <3>2 DEF Fork
  <2>2. CASE x \in l /\ y \in l BY <2>1, <2>2
  <2>3. CASE x \in r /\ y \in r BY <2>1, <2>3
  <2> HIDE DEF T
  <2>4. \A u \in l : D[u] \subseteq l
    <3>1. C["left"][n] \in S \/ l = {} BY <1>0, <1>1, Under1 DEF Side
    <3> QED BY <1>0, <3>1, Nested
  <2>5. \A u \in r : D[u] \subseteq r
    <3>1. C["right"][n] \in S \/ r = {} BY <1>0, <1>1, Under1 DEF Side
    <3> QED BY <1>0, <3>1, Nested
  <2> HIDE DEF l, r
  <2>6. CASE x \in l /\ y \in r BY <2>1, <2>4, <2>5, <2>6
  <2>7. CASE x \in r /\ y \in l BY <2>1, <2>4, <2>5, <2>7
  <2>8. CASE x = n \/ y = n BY <2>8
  <2> QED BY <2>1, <2>2, <2>3, <2>6, <2>7, <2>8
<1> HIDE DEF T
<1>3. S \subseteq T BY <1>0, <1>1, <1>2, TreeInduct
<1>4. z \in T BY <1>0, <1>1, <1>3
<1> QED BY <1>0, <1>4 DEF T

(* A node is the child of one node, on one side.                            *)
LEMMA OneParent ==
    ASSUME NEW C, NEW S, NEW D, NEW nil, NEW z, Tree(C, S, D, nil, z),
           NEW a \in S, NEW b \in S, NEW s \in Side, NEW x \in Side,
           C[s][a] = C[x][b], C[s][a] # nil
    PROVE  a = b /\ s = x
<1>0. Shaped(C, S, D, nil) BY DEF Tree
<1> DEFINE m == C[s][a]
<1>1. m \in S /\ m \in D[a] /\ m \in D[b] /\ a \notin D[m] /\ b \notin D[m] /\ m \in D[m]
  BY <1>0, Under1
<1>2. Other(s) \in Side /\ Other(x) \in Side BY Sides
<1>3. Fork(C, S, D, nil, a, s) /\ Fork(C, S, D, nil, b, x) BY <1>0 DEF Shaped
<1>4. /\ D[a] = {a} \cup D[m] \cup D[C[Other(s)][a]] /\ D[m] \cap D[C[Other(s)][a]] = {}
      /\ D[b] = {b} \cup D[m] \cup D[C[Other(x)][b]] /\ D[m] \cap D[C[Other(x)][b]] = {}
  BY <1>3 DEF Fork
<1> HIDE DEF m
<1>5. \A u \in D[C[Other(s)][a]] : D[u] \subseteq D[C[Other(s)][a]]
  <2>1. C[Other(s)][a] \in S \/ D[C[Other(s)][a]] = {} BY <1>0, <1>2, Under1
  <2> QED BY <1>0, <2>1, Nested
<1>6. \A u \in D[C[Other(x)][b]] : D[u] \subseteq D[C[Other(x)][b]]
  <2>1. C[Other(x)][b] \in S \/ D[C[Other(x)][b]] = {} BY <1>0, <1>2, Under1
  <2> QED BY <1>0, <2>1, Nested
<1>7. a = b
  <2>1. a \in D[b] \/ b \in D[a] \/ D[a] \cap D[b] = {} BY Apart
  <2> QED BY <1>1, <1>4, <1>5, <1>6, <2>1
<1>8. s = x
  <2> SUFFICES ASSUME s # x PROVE FALSE OBVIOUS
  <2>1. x = Other(s) BY Sides
  <2>2. C[s][a] = C[Other(s)][a] BY <1>7, <2>1
  <2> QED BY <1>0, <2>2, Under1
<1> QED BY <1>7, <1>8

(* All nodes but the root have a parent.                                    *)
LEMMA HasParent ==
    ASSUME NEW C, NEW S, NEW D, NEW nil, NEW z, Tree(C, S, D, nil, z), NEW n \in S, n # z
    PROVE  \E p \in S, s \in Side : C[s][p] = n
<1> DEFINE Child(m) == \E p \in S, s \in Side : C[s][p] = m
           T == {x \in S \cup {nil} : \A m \in D[x] : m = x \/ Child(m)}
<1>0. Shaped(C, S, D, nil) /\ z \in S \cup {nil} /\ D[z] = S BY DEF Tree
<1>1. nil \in T /\ D[nil] = {} BY <1>0 DEF Shaped
<1>2. ASSUME NEW x \in S, \A s \in Side : C[s][x] \in T PROVE x \in T
  <2> SUFFICES ASSUME NEW m \in D[x], m # x PROVE Child(m)
    <3> HIDE DEF Child
    <3> QED OBVIOUS
  <2>1. PICK s \in Side : m \in D[C[s][x]]
    <3>1. Fork(C, S, D, nil, x, "left") /\ "left" \in Side /\ "right" \in Side /\ Other("left") = "right"
      BY <1>0 DEF Shaped, Side, Other
    <3> QED BY <3>1 DEF Fork
  <2>2. m = C[s][x] \/ Child(m)
    <3> HIDE DEF Child
    <3> QED BY <1>2, <2>1
  <2> QED BY <2>2
<1> HIDE DEF T
<1>3. S \subseteq T BY <1>0, <1>1, <1>2, TreeInduct
<1>4. z \in T BY <1>0, <1>1, <1>3
<1> HIDE DEF Child
<1>5. Child(n) BY <1>0, <1>4 DEF T
<1> QED BY <1>5 DEF Child

(* A way down that ends at stop.                                            *)
Ranked(X, stop, nx, rank, N) ==
    /\ rank \in [X -> Nat] /\ N \in Nat /\ \A m \in X : rank[m] <= N
    /\ \A m \in X : m \notin stop => nx[m] \in X /\ rank[nx[m]] < rank[m]
WayOf(X, stop, nx, f) == f = [m \in X |-> IF m \in stop THEN m ELSE f[nx[m]]]

LEMMA WayDown ==
    ASSUME NEW X, NEW stop, NEW nx, NEW rank, NEW N, Ranked(X, stop, nx, rank, N)
    PROVE  \E f : WayOf(X, stop, nx, f)
<1>a. /\ rank \in [X -> Nat] /\ N \in Nat /\ \A m \in X : rank[m] <= N
      /\ \A m \in X : m \notin stop => nx[m] \in X /\ rank[nx[m]] < rank[m]
  BY DEF Ranked
<1> USE <1>a
<1> DEFINE Y(i) == {m \in X : rank[m] <= i}
           Body(f, Z) == [m \in Z |-> IF m \in stop THEN m ELSE f[nx[m]]]
           Ts == {i \in Nat : \E f : f = Body(f, Y(i))}
<1>1. 0 \in Ts
  <2> DEFINE f == [m \in Y(0) |-> m]
  <2>1. ASSUME NEW m \in Y(0) PROVE m \in stop
    <3> SUFFICES ASSUME m \notin stop PROVE FALSE OBVIOUS
    <3>1. nx[m] \in X /\ rank[nx[m]] < rank[m] /\ rank[m] <= 0 /\ m \in X OBVIOUS
    <3>2. rank[nx[m]] \in Nat /\ rank[m] \in Nat BY <3>1
    <3> QED BY <3>1, <3>2
  <2>2. f = Body(f, Y(0)) BY <2>1
  <2> HIDE DEF f, Body
  <2> QED BY <2>2
<1>2. ASSUME NEW i \in Ts PROVE i + 1 \in Ts
  <2>1. i \in Nat /\ i + 1 \in Nat OBVIOUS
  <2>2. PICK f : f = Body(f, Y(i)) OBVIOUS
  <2> DEFINE g == [m \in Y(i + 1) |-> IF m \in Y(i) THEN f[m]
                                        ELSE IF m \in stop THEN m ELSE f[nx[m]]]
  <2>3. ASSUME NEW m \in Y(i + 1), m \notin stop PROVE nx[m] \in Y(i) /\ nx[m] \in Y(i + 1)
    <3>1. m \in X /\ rank[m] <= i + 1 OBVIOUS
    <3>2. nx[m] \in X /\ rank[nx[m]] < rank[m] BY <2>3, <3>1
    <3>3. rank[nx[m]] \in Nat /\ rank[m] \in Nat BY <3>1, <3>2
    <3>4. rank[nx[m]] <= i /\ rank[nx[m]] <= i + 1 BY <2>1, <3>1, <3>2, <3>3
    <3> QED BY <3>2, <3>4
  <2>4. \A m \in Y(i) : f[m] = IF m \in stop THEN m ELSE f[nx[m]]
    <3> HIDE DEF Y
    <3> QED BY <2>2
  <2>5. ASSUME NEW m \in Y(i + 1) PROVE g[m] = IF m \in stop THEN m ELSE g[nx[m]]
    <3> HIDE DEF Y
    <3>1. g[m] = IF m \in stop THEN m ELSE f[nx[m]] BY <2>4
    <3>2. m \notin stop => g[nx[m]] = f[nx[m]] BY <2>3
    <3> QED BY <3>1, <3>2
  <2> HIDE DEF Y
  <2>6. g = [m \in Y(i + 1) |-> g[m]] OBVIOUS
  <2> HIDE DEF g
  <2>7. g = Body(g, Y(i + 1)) BY <2>5, <2>6
  <2> HIDE DEF Body
  <2> QED BY <2>1, <2>7
<1> HIDE DEF Ts
<1>3. Ts \in SUBSET Nat BY DEF Ts
<1>4. Ts = Nat BY <1>1, <1>2, <1>3, Induct
<1>5. Y(N) = X OBVIOUS
<1> HIDE DEF Y
<1>6. N \in Ts BY <1>4
<1>7. PICK f : f = Body(f, Y(N)) BY <1>6 DEF Ts
<1>8. WayOf(X, stop, nx, f) BY <1>5, <1>7 DEF WayOf
<1> QED BY <1>8

-----------------------------------------------------------------------------
(* A new node c hung under p on the side s0.                                *)
Hung(C, C2, S, nil, c, p, s0) ==
    /\ c \notin S \cup {nil}
    /\ C[s0][p] = nil /\ C2[s0][p] = c
    /\ \A s \in Side : C2[s][c] = nil
    /\ \A n \in S, s \in Side : n # p \/ s # s0 => C2[s][n] = C[s][n]
HungD(S, D, nil, c, p) ==
    [a \in S \cup {c} \cup {nil} |->
       IF a = c THEN {c} ELSE IF p \in D[a] THEN D[a] \cup {c} ELSE D[a]]
Before(C, D, p, s0, a, s) == (a = p /\ s = s0) \/ p \in D[C[s][a]]

HungChild(C, C2, S, D, nil, c, p, s0, n, s) ==
    /\ C2[s][n] \in S \cup {c} \cup {nil}
    /\ Before(C, D, p, s0, n, s) => HungD(S, D, nil, c, p)[C2[s][n]] = D[C[s][n]] \cup {c}
    /\ ~Before(C, D, p, s0, n, s) => HungD(S, D, nil, c, p)[C2[s][n]] = D[C[s][n]]

LEMMA HungUnder ==
    ASSUME NEW C, NEW C2, NEW S, NEW D, NEW nil, Shaped(C, S, D, nil),
           NEW c, NEW p \in S, NEW s0 \in Side, Hung(C, C2, S, nil, c, p, s0),
           NEW n \in S, NEW s \in Side
    PROVE  HungChild(C, C2, S, D, nil, c, p, s0, n, s)
<1>1. C[s][n] \in S \cup {nil} /\ nil \notin S /\ D[nil] = {} /\ c \notin S \cup {nil}
  BY Under1 DEF Hung
<1>2. CASE n = p /\ s = s0
  <2>1. C2[s][n] = c /\ C[s][n] = nil BY <1>2 DEF Hung
  <2> QED BY <1>1, <1>2, <2>1 DEF HungD, Before, HungChild
<1>3. CASE ~(n = p /\ s = s0)
  <2>1. C2[s][n] = C[s][n] BY <1>3 DEF Hung
  <2> QED BY <1>1, <1>3, <2>1 DEF HungD, Before, HungChild
<1> QED BY <1>2, <1>3

LEMMA HungShaped ==
    ASSUME NEW C, NEW C2, NEW S, NEW D, NEW nil, Shaped(C, S, D, nil),
           NEW c, NEW p \in S, NEW s0 \in Side, Hung(C, C2, S, nil, c, p, s0)
    PROVE  Shaped(C2, S \cup {c}, HungD(S, D, nil, c, p), nil)
<1> DEFINE D2 == HungD(S, D, nil, c, p)
           S2 == S \cup {c}
<1>1. IsFiniteSet(S) /\ nil \notin S /\ D[nil] = {} /\ c \notin S /\ c # nil
      /\ \A a \in S \cup {nil} : D[a] \in SUBSET S
  BY DEF Shaped, Hung
<1>2. D2 \in [S2 \cup {nil} -> SUBSET S2] BY <1>1 DEF HungD
<1>3. D2[nil] = {} /\ D2[c] = {c} BY <1>1 DEF HungD
<1>4. IsFiniteSet(S2) /\ nil \notin S2 BY <1>1, FS_AddElement
<1>5. ASSUME NEW s \in Side PROVE Fork(C2, S2, D2, nil, c, s)
  <2>1. C2[s][c] = nil /\ C2[Other(s)][c] = nil BY Sides DEF Hung
  <2> HIDE DEF D2
  <2> QED BY <1>3, <2>1 DEF Fork
<1>6. ASSUME NEW n \in S, NEW s \in Side PROVE Fork(C2, S2, D2, nil, n, s)
  <2> DEFINE l == C[s][n]
             r == C[Other(s)][n]
  <2>1. Other(s) \in Side /\ Other(s) # s /\ s0 \in {s, Other(s)} BY Sides
  <2>2. /\ D[n] = {n} \cup D[l] \cup D[r] /\ n \notin D[l] /\ n \notin D[r] /\ D[l] \cap D[r] = {}
    <3>1. Fork(C, S, D, nil, n, s) /\ Fork(C, S, D, nil, n, Other(s)) BY <2>1 DEF Shaped
    <3> QED BY <3>1 DEF Fork
  <2>3. D[l] \in SUBSET S /\ D[r] \in SUBSET S BY <2>1, Under1
  <2>4. /\ Before(C, D, p, s0, n, s) => D2[C2[s][n]] = D[l] \cup {c}
        /\ ~Before(C, D, p, s0, n, s) => D2[C2[s][n]] = D[l]
        /\ C2[s][n] \in S2 \cup {nil}
    <3>1. HungChild(C, C2, S, D, nil, c, p, s0, n, s) BY HungUnder
    <3> QED BY <3>1 DEF HungChild
  <2>5. /\ Before(C, D, p, s0, n, Other(s)) => D2[C2[Other(s)][n]] = D[r] \cup {c}
        /\ ~Before(C, D, p, s0, n, Other(s)) => D2[C2[Other(s)][n]] = D[r]
    <3>1. HungChild(C, C2, S, D, nil, c, p, s0, n, Other(s)) BY <2>1, HungUnder
    <3> QED BY <3>1 DEF HungChild
  <2>6. D2[n] = IF p \in D[n] THEN D[n] \cup {c} ELSE D[n] BY <1>1 DEF HungD
  <2>7. Before(C, D, p, s0, n, s) <=> (n = p /\ s = s0) \/ p \in D[l] BY DEF Before
  <2>8. Before(C, D, p, s0, n, Other(s)) <=> (n = p /\ Other(s) = s0) \/ p \in D[r] BY DEF Before
  <2> HIDE DEF D2, l, r
  <2>9. CASE n = p
    <3>1. p \notin D[l] /\ p \notin D[r] /\ p \in D[n] BY <2>2, <2>9
    <3>2. c \notin D[l] /\ c \notin D[r] BY <1>1, <2>3
    <3>3. D2[n] = {n} \cup D[l] \cup D[r] \cup {c} /\ n # c BY <1>1, <2>2, <2>6, <3>1
    <3>4. CASE s = s0
      <4>1. D2[C2[s][n]] = D[l] \cup {c} /\ D2[C2[Other(s)][n]] = D[r]
        BY <2>1, <2>4, <2>5, <2>7, <2>8, <2>9, <3>1, <3>4
      <4> QED BY <2>2, <2>4, <3>2, <3>3, <4>1 DEF Fork
    <3>5. CASE s # s0
      <4>1. D2[C2[s][n]] = D[l] /\ D2[C2[Other(s)][n]] = D[r] \cup {c}
        BY <2>1, <2>4, <2>5, <2>7, <2>8, <2>9, <3>1, <3>5
      <4> QED BY <2>2, <2>4, <3>2, <3>3, <4>1 DEF Fork
    <3> QED BY <3>4, <3>5
  <2>10. CASE n # p
    <3>1. CASE p \in D[l] BY <1>1, <2>1, <2>2, <2>3, <2>4, <2>5, <2>6, <2>7, <2>8, <2>10, <3>1 DEF Fork
    <3>2. CASE p \in D[r] BY <1>1, <2>1, <2>2, <2>3, <2>4, <2>5, <2>6, <2>7, <2>8, <2>10, <3>2 DEF Fork
    <3>3. CASE p \notin D[l] /\ p \notin D[r]
      BY <1>1, <2>1, <2>2, <2>3, <2>4, <2>5, <2>6, <2>7, <2>8, <2>10, <3>3 DEF Fork
    <3> QED BY <3>1, <3>2, <3>3
  <2> QED BY <2>9, <2>10
<1> HIDE DEF D2
<1>7. \A n \in S2, s \in Side : Fork(C2, S2, D2, nil, n, s) BY <1>5, <1>6
<1> QED BY <1>2, <1>3, <1>4, <1>7 DEF Shaped, D2

LEMMA HungSorted ==
    ASSUME NEW C, NEW C2, NEW S, NEW D, NEW nil, Shaped(C, S, D, nil),
           NEW c, NEW p \in S, NEW s0 \in Side, Hung(C, C2, S, nil, c, p, s0),
           NEW k, NEW k2, Sorted(C, S, D, k), \A n \in S : k2[n] = k[n],
           \A a \in S, s \in Side : Before(C, D, p, s0, a, s) => Precedes(s, k2[c], k[a])
    PROVE  Sorted(C2, S \cup {c}, HungD(S, D, nil, c, p), k2)
<1> DEFINE D2 == HungD(S, D, nil, c, p)
<1> SUFFICES ASSUME NEW n \in S \cup {c}, NEW s \in Side, NEW m \in D2[C2[s][n]]
             PROVE  Precedes(s, k2[m], k2[n])
  BY DEF Sorted
<1>1. CASE n = c
  <2>1. C2[s][n] = nil /\ D2[nil] = {} BY <1>1 DEF Hung, HungD, Shaped
  <2> QED BY <2>1
<1>2. CASE n \in S
  <2>1. /\ Before(C, D, p, s0, n, s) => D2[C2[s][n]] = D[C[s][n]] \cup {c}
        /\ ~Before(C, D, p, s0, n, s) => D2[C2[s][n]] = D[C[s][n]]
    <3>1. HungChild(C, C2, S, D, nil, c, p, s0, n, s) BY <1>2, HungUnder
    <3> QED BY <3>1 DEF HungChild
  <2>2. D[C[s][n]] \in SUBSET S BY <1>2, Under1
  <2> HIDE DEF D2
  <2>3. CASE m \in D[C[s][n]]
    <3>1. m \in S /\ k2[m] = k[m] /\ k2[n] = k[n] BY <1>2, <2>2, <2>3
    <3>2. Precedes(s, k[m], k[n]) BY <1>2, <2>3 DEF Sorted
    <3> QED BY <3>1, <3>2
  <2>4. CASE m \notin D[C[s][n]]
    <3>1. m = c /\ Before(C, D, p, s0, n, s) BY <2>1, <2>4
    <3> QED BY <1>2, <3>1
  <2> QED BY <2>3, <2>4
<1> QED BY <1>1, <1>2

-----------------------------------------------------------------------------
(* A node r with one child ch at most is taken out, and ch put in its place. *)
Spliced(C, C2, S, nil, r, ch, s0) ==
    /\ C[s0][r] = nil /\ ch = C[Other(s0)][r]
    /\ \A n \in S \ {r}, s \in Side : C2[s][n] = IF C[s][n] = r THEN ch ELSE C[s][n]
SplicedD(S, D, nil, r) == [a \in (S \ {r}) \cup {nil} |-> D[a] \ {r}]

SplicedChild(S, D, nil, r, ch) ==
    D[r] \ {r} = D[ch] /\ r \notin D[ch] /\ ch \in (S \ {r}) \cup {nil}

LEMMA SplicedBelow ==
    ASSUME NEW C, NEW C2, NEW S, NEW D, NEW nil, Shaped(C, S, D, nil),
           NEW r \in S, NEW ch, NEW s0 \in Side, Spliced(C, C2, S, nil, r, ch, s0)
    PROVE  SplicedChild(S, D, nil, r, ch)
<1>1. /\ nil \notin S /\ D[nil] = {} /\ r \in D[r] /\ Other(s0) \in Side /\ C[s0][r] = nil
      /\ ch = C[Other(s0)][r] /\ ch \in S \cup {nil} /\ ch # r
  BY Under1, Sides DEF Spliced
<1>2. Fork(C, S, D, nil, r, Other(s0)) /\ Other(Other(s0)) = s0 BY <1>1, Sides DEF Shaped
<1> QED BY <1>1, <1>2 DEF Fork, SplicedChild

LEMMA SplicedUnder ==
    ASSUME NEW C, NEW C2, NEW S, NEW D, NEW nil, Shaped(C, S, D, nil),
           NEW r \in S, NEW ch, NEW s0 \in Side, Spliced(C, C2, S, nil, r, ch, s0)
    PROVE  \A n \in S \ {r}, s \in Side :
              /\ C2[s][n] \in (S \ {r}) \cup {nil}
              /\ SplicedD(S, D, nil, r)[C2[s][n]] = D[C[s][n]] \ {r}
<1>1. nil \notin S /\ D[nil] = {} BY DEF Shaped
<1>2. D[r] \ {r} = D[ch] /\ r \notin D[ch] /\ ch \in (S \ {r}) \cup {nil}
  <2>1. SplicedChild(S, D, nil, r, ch) BY SplicedBelow
  <2> QED BY <2>1 DEF SplicedChild
<1>3. ASSUME NEW n \in S \ {r}, NEW s \in Side
      PROVE  /\ C2[s][n] \in (S \ {r}) \cup {nil}
             /\ SplicedD(S, D, nil, r)[C2[s][n]] = D[C[s][n]] \ {r}
  <2>1. C[s][n] \in S \cup {nil} BY Under1
  <2>2. C2[s][n] = IF C[s][n] = r THEN ch ELSE C[s][n] BY DEF Spliced
  <2>3. C2[s][n] \in (S \ {r}) \cup {nil} BY <1>2, <2>1, <2>2
  <2>4. SplicedD(S, D, nil, r)[C2[s][n]] = D[C2[s][n]] \ {r} BY <2>3 DEF SplicedD
  <2> QED BY <1>2, <2>2, <2>3, <2>4
<1> QED BY <1>3

LEMMA SplicedShaped ==
    ASSUME NEW C, NEW C2, NEW S, NEW D, NEW nil, Shaped(C, S, D, nil),
           NEW r \in S, NEW ch, NEW s0 \in Side, Spliced(C, C2, S, nil, r, ch, s0)
    PROVE  Shaped(C2, S \ {r}, SplicedD(S, D, nil, r), nil)
<1> DEFINE D2 == SplicedD(S, D, nil, r)
           S2 == S \ {r}
<1>1. IsFiniteSet(S) /\ nil \notin S /\ D[nil] = {} /\ \A a \in S \cup {nil} : D[a] \in SUBSET S
  BY DEF Shaped
<1>2. D2 \in [S2 \cup {nil} -> SUBSET S2] BY <1>1 DEF SplicedD
<1>3. D2[nil] = {} /\ \A n \in S2 : D2[n] = D[n] \ {r} BY <1>1 DEF SplicedD
<1>4. IsFiniteSet(S2) /\ nil \notin S2 BY <1>1, FS_RemoveElement
<1>5. ASSUME NEW n \in S2, NEW s \in Side PROVE Fork(C2, S2, D2, nil, n, s)
  <2>1. Other(s) \in Side BY Sides
  <2>2. C2[s][n] \in S2 \cup {nil} /\ D2[C2[s][n]] = D[C[s][n]] \ {r} BY SplicedUnder
  <2>3. D2[C2[Other(s)][n]] = D[C[Other(s)][n]] \ {r} BY <2>1, SplicedUnder
  <2>4. Fork(C, S, D, nil, n, s) BY DEF Shaped
  <2> HIDE DEF D2
  <2> QED BY <1>3, <2>2, <2>3, <2>4 DEF Fork
<1> HIDE DEF D2
<1>6. \A n \in S2, s \in Side : Fork(C2, S2, D2, nil, n, s) BY <1>5
<1> QED BY <1>2, <1>3, <1>4, <1>6 DEF Shaped, D2

LEMMA SplicedSorted ==
    ASSUME NEW C, NEW C2, NEW S, NEW D, NEW nil, Shaped(C, S, D, nil),
           NEW r \in S, NEW ch, NEW s0 \in Side, Spliced(C, C2, S, nil, r, ch, s0),
           NEW k, Sorted(C, S, D, k)
    PROVE  Sorted(C2, S \ {r}, SplicedD(S, D, nil, r), k)
<1> DEFINE D2 == SplicedD(S, D, nil, r)
<1> SUFFICES ASSUME NEW n \in S \ {r}, NEW s \in Side, NEW m \in D2[C2[s][n]]
             PROVE  Precedes(s, k[m], k[n])
  BY DEF Sorted
<1>1. D2[C2[s][n]] = D[C[s][n]] \ {r} BY SplicedUnder
<1> HIDE DEF D2
<1> QED BY <1>1 DEF Sorted

-----------------------------------------------------------------------------
(* n turned to the side s: its child m on the other side takes its place.    *)
Turned(C, C2, S, n, s, m) ==
    /\ m = C[Other(s)][n]
    /\ C2[s][n] = C[s][n] /\ C2[Other(s)][n] = C[s][m]
    /\ C2[s][m] = n /\ C2[Other(s)][m] = C[Other(s)][m]
    /\ \A a \in S \ {n, m}, x \in Side : C2[x][a] = IF C[x][a] = n THEN m ELSE C[x][a]
TurnedD(S, D, C, nil, n, s, m) ==
    [a \in S \cup {nil} |-> IF a = n THEN {n} \cup D[C[s][n]] \cup D[C[s][m]]
                            ELSE IF a = m THEN D[n] ELSE D[a]]

(* The three trees below n and its child m.                                  *)
Parts(C, S, D, nil, n, s, m) ==
    /\ n # m /\ nil \notin S /\ D[nil] = {} /\ Other(s) \in Side
    /\ D[n] = {n, m} \cup D[C[s][n]] \cup D[C[s][m]] \cup D[C[Other(s)][m]]
    /\ D[m] = {m} \cup D[C[s][m]] \cup D[C[Other(s)][m]]
    /\ n \notin D[C[s][n]] \cup D[C[s][m]] \cup D[C[Other(s)][m]]
    /\ m \notin D[C[s][n]] \cup D[C[s][m]] \cup D[C[Other(s)][m]]
    /\ D[C[s][n]] \cap D[C[s][m]] = {} /\ D[C[s][n]] \cap D[C[Other(s)][m]] = {}
    /\ D[C[s][m]] \cap D[C[Other(s)][m]] = {}
    /\ C[s][n] \in (S \ {n, m}) \cup {nil} /\ C[s][m] \in (S \ {n, m}) \cup {nil}
    /\ C[Other(s)][m] \in (S \ {n, m}) \cup {nil}
    /\ n \in D[n] /\ m \in D[m]

LEMMA TurnedParts ==
    ASSUME NEW C, NEW S, NEW D, NEW nil, Shaped(C, S, D, nil),
           NEW n \in S, NEW s \in Side, NEW m \in S, m = C[Other(s)][n]
    PROVE  Parts(C, S, D, nil, n, s, m)
<1>1. Other(s) \in Side /\ Other(Other(s)) = s BY Sides
<1>2. Fork(C, S, D, nil, n, s) /\ Fork(C, S, D, nil, n, Other(s))
      /\ Fork(C, S, D, nil, m, s) /\ Fork(C, S, D, nil, m, Other(s))
  BY <1>1 DEF Shaped
<1>3. /\ \A a \in S : a \in D[a] /\ D[a] \in SUBSET S
      /\ nil \notin S /\ D[nil] = {}
  BY Under1
<1> DEFINE u == C[s][n]
           v == C[s][m]
           w == C[Other(s)][m]
<1>4. /\ u \in S \cup {nil} /\ D[n] = {n} \cup D[u] \cup D[m]
      /\ n \notin D[u] /\ D[u] \cap D[m] = {} /\ n \notin D[m]
  BY <1>1, <1>2, Zenon DEF Fork
<1>5. /\ v \in S \cup {nil} /\ w \in S \cup {nil} /\ D[m] = {m} \cup D[v] \cup D[w]
      /\ m \notin D[v] /\ m \notin D[w] /\ D[v] \cap D[w] = {}
  BY <1>1, <1>2, Zenon DEF Fork
<1> HIDE DEF u, v, w
<1>6. n # m BY <1>3, <1>4
<1>7. /\ n \notin D[v] /\ n \notin D[w] /\ m \notin D[u] BY <1>3, <1>4, <1>5
<1>8. u # m /\ u # n /\ v # m /\ v # n /\ w # m /\ w # n
  BY <1>3, <1>4, <1>5, <1>7
<1>9. /\ D[n] = {n, m} \cup D[u] \cup D[v] \cup D[w]
      /\ D[u] \cap D[v] = {} /\ D[u] \cap D[w] = {}
  BY <1>4, <1>5
<1> QED BY <1>1, <1>3, <1>4, <1>5, <1>6, <1>7, <1>8, <1>9, Zenon DEF Parts, u, v, w

LEMMA TurnedUnder ==
    ASSUME NEW C, NEW C2, NEW S, NEW D, NEW nil, NEW z, Tree(C, S, D, nil, z),
           NEW n \in S, NEW s \in Side, NEW m \in S, Turned(C, C2, S, n, s, m),
           NEW a \in S \ {n, m}, NEW x \in Side
    PROVE  /\ C2[x][a] \in S \cup {nil}
           /\ TurnedD(S, D, C, nil, n, s, m)[C2[x][a]] = D[C[x][a]]
<1>0. Shaped(C, S, D, nil) BY DEF Tree
<1>1. m = C[Other(s)][n] BY DEF Turned
<1>2. Other(s) \in Side BY Sides
<1>3. C[x][a] \in S \cup {nil} /\ nil \notin S BY <1>0, Under1
<1>4. C2[x][a] = IF C[x][a] = n THEN m ELSE C[x][a] BY DEF Turned
<1>5. C[x][a] # m
  <2> SUFFICES ASSUME C[x][a] = m PROVE FALSE OBVIOUS
  <2>1. C[x][a] = C[Other(s)][n] /\ C[x][a] # nil BY <1>1, <1>3
  <2>2. a = n BY <1>2, <2>1, OneParent
  <2> QED BY <2>2
<1>6. n # m
  <2>1. Parts(C, S, D, nil, n, s, m) BY <1>0, <1>1, TurnedParts
  <2> QED BY <2>1 DEF Parts
<1> QED BY <1>3, <1>4, <1>5, <1>6 DEF TurnedD

LEMMA TurnedShaped ==
    ASSUME NEW C, NEW C2, NEW S, NEW D, NEW nil, NEW z, Tree(C, S, D, nil, z),
           NEW n \in S, NEW s \in Side, NEW m \in S, Turned(C, C2, S, n, s, m)
    PROVE  Shaped(C2, S, TurnedD(S, D, C, nil, n, s, m), nil)
<1> DEFINE D2 == TurnedD(S, D, C, nil, n, s, m)
<1>0. Shaped(C, S, D, nil) BY DEF Tree
<1>1. m = C[Other(s)][n] BY DEF Turned
<1> DEFINE u == C[s][n]
           v == C[s][m]
           w == C[Other(s)][m]
<1>p. Parts(C, S, D, nil, n, s, m) BY <1>0, <1>1, TurnedParts
<1>2. /\ n # m /\ nil \notin S /\ D[nil] = {} /\ Other(s) \in Side
      /\ D[n] = {n, m} \cup D[u] \cup D[v] \cup D[w]
      /\ D[m] = {m} \cup D[v] \cup D[w]
      /\ n \notin D[u] \cup D[v] \cup D[w] /\ m \notin D[u] \cup D[v] \cup D[w]
      /\ D[u] \cap D[v] = {} /\ D[u] \cap D[w] = {} /\ D[v] \cap D[w] = {}
      /\ u \in (S \ {n, m}) \cup {nil} /\ v \in (S \ {n, m}) \cup {nil}
      /\ w \in (S \ {n, m}) \cup {nil}
  BY <1>p DEF Parts
<1>3. IsFiniteSet(S) /\ \A a \in S \cup {nil} : D[a] \in SUBSET S BY <1>0 DEF Shaped
<1> DEFINE Dn == {n} \cup D[u] \cup D[v]
<1>4. D2 = [a \in S \cup {nil} |-> IF a = n THEN Dn ELSE IF a = m THEN D[n] ELSE D[a]]
  BY DEF TurnedD
<1>5. /\ C2[s][n] = u /\ C2[Other(s)][n] = v /\ C2[s][m] = n /\ C2[Other(s)][m] = w
  BY DEF Turned
<1> HIDE DEF D2, u, v, w
<1>6. Dn \in SUBSET S BY <1>2, <1>3
<1>7. /\ D2 \in [S \cup {nil} -> SUBSET S] /\ D2[nil] = {} /\ D2[n] = Dn /\ D2[m] = D[n]
      /\ D2[u] = D[u] /\ D2[v] = D[v] /\ D2[w] = D[w]
      /\ \A a \in S \ {n, m} : D2[a] = D[a]
  <2> HIDE DEF Dn
  <2> QED BY <1>2, <1>3, <1>4, <1>6
<1>8. ASSUME NEW x \in Side PROVE Fork(C2, S, D2, nil, n, x)
  <2>1. x = s \/ x = Other(s) BY Sides
  <2>2. Other(Other(s)) = s BY Sides
  <2>3. CASE x = s BY <1>2, <1>5, <1>7, <2>3 DEF Fork
  <2>4. CASE x = Other(s)
    <3>1. C2[x][n] = v /\ C2[Other(x)][n] = u BY <1>5, <2>2, <2>4
    <3> HIDE DEF Dn
    <3>2. Dn = {n} \cup D2[C2[x][n]] \cup D2[C2[Other(x)][n]] BY <1>7, <3>1 DEF Dn
    <3> QED BY <1>2, <1>7, <3>1, <3>2 DEF Fork
  <2> QED BY <2>1, <2>3, <2>4
<1>9. ASSUME NEW x \in Side PROVE Fork(C2, S, D2, nil, m, x)
  <2>1. x = s \/ x = Other(s) BY Sides
  <2>2. Other(Other(s)) = s BY Sides
  <2>3. D[n] = {m} \cup Dn \cup D[w] /\ m \notin Dn /\ Dn \cap D[w] = {} BY <1>2
  <2> HIDE DEF Dn
  <2>4. CASE x = s BY <1>2, <1>5, <1>7, <2>3, <2>4 DEF Fork
  <2>5. CASE x = Other(s)
    <3>1. C2[x][m] = w /\ C2[Other(x)][m] = n BY <1>5, <2>2, <2>5
    <3> QED BY <1>2, <1>7, <2>3, <3>1 DEF Fork
  <2> QED BY <2>1, <2>4, <2>5
<1>10. ASSUME NEW a \in S \ {n, m}, NEW x \in Side PROVE Fork(C2, S, D2, nil, a, x)
  <2>1. Other(x) \in Side BY Sides
  <2>2. C2[x][a] \in S \cup {nil} /\ D2[C2[x][a]] = D[C[x][a]] BY TurnedUnder DEF D2
  <2>3. D2[C2[Other(x)][a]] = D[C[Other(x)][a]] BY <2>1, TurnedUnder DEF D2
  <2>4. Fork(C, S, D, nil, a, x) BY <1>0 DEF Shaped
  <2> QED BY <1>7, <2>2, <2>3, <2>4 DEF Fork
<1>11. \A a \in S, x \in Side : Fork(C2, S, D2, nil, a, x) BY <1>8, <1>9, <1>10
<1> QED BY <1>2, <1>3, <1>7, <1>11 DEF Shaped, D2

LEMMA TurnedSorted ==
    ASSUME NEW C, NEW C2, NEW S, NEW D, NEW nil, NEW z, Tree(C, S, D, nil, z),
           NEW n \in S, NEW s \in Side, NEW m \in S, Turned(C, C2, S, n, s, m),
           NEW k, Sorted(C, S, D, k), \A a \in S : k[a] \in Int
    PROVE  Sorted(C2, S, TurnedD(S, D, C, nil, n, s, m), k)
<1> DEFINE D2 == TurnedD(S, D, C, nil, n, s, m)
<1>0. Shaped(C, S, D, nil) BY DEF Tree
<1>1. m = C[Other(s)][n] BY DEF Turned
<1> SUFFICES ASSUME NEW a \in S, NEW x \in Side, NEW b \in D2[C2[x][a]]
             PROVE  Precedes(x, k[b], k[a])
  BY DEF Sorted
<1> DEFINE u == C[s][n]
           v == C[s][m]
           w == C[Other(s)][m]
<1>p. Parts(C, S, D, nil, n, s, m) BY <1>0, <1>1, TurnedParts
<1>2. /\ n # m /\ nil \notin S /\ Other(s) \in Side
      /\ D[m] = {m} \cup D[v] \cup D[w]
      /\ u \in (S \ {n, m}) \cup {nil} /\ v \in (S \ {n, m}) \cup {nil}
      /\ w \in (S \ {n, m}) \cup {nil} /\ m \in D[m]
  BY <1>p DEF Parts
<1>3. \A c \in S \cup {nil} : D[c] \in SUBSET S BY <1>0 DEF Shaped
<1>4. /\ C2[s][n] = u /\ C2[Other(s)][n] = v /\ C2[s][m] = n /\ C2[Other(s)][m] = w
  BY DEF Turned
<1>5. D2 = [c \in S \cup {nil} |-> IF c = n THEN {n} \cup D[u] \cup D[v] ELSE IF c = m THEN D[n] ELSE D[c]]
  BY DEF TurnedD
<1>6. x = s \/ x = Other(s) BY Sides
<1>7. /\ \A c \in D[u] : Precedes(s, k[c], k[n])
      /\ \A c \in D[m] : Precedes(Other(s), k[c], k[n])
      /\ \A c \in D[v] : Precedes(s, k[c], k[m])
      /\ \A c \in D[w] : Precedes(Other(s), k[c], k[m])
  BY <1>1, <1>2 DEF Sorted
<1> HIDE DEF u, v, w, D2
<1>8. CASE a = n
  <2>1. CASE x = s
    <3>1. b \in D[u] BY <1>2, <1>4, <1>5, <1>8, <2>1
    <3> QED BY <1>7, <1>8, <2>1, <3>1
  <2>2. CASE x = Other(s)
    <3>1. b \in D[v] BY <1>2, <1>4, <1>5, <1>8, <2>2
    <3> QED BY <1>2, <1>7, <1>8, <2>2, <3>1
  <2> QED BY <1>6, <2>1, <2>2
<1>9. CASE a = m
  <2>1. CASE x = s
    <3>1. b = n \/ b \in D[u] \/ b \in D[v] BY <1>2, <1>4, <1>5, <1>9, <2>1
    <3>2. Precedes(s, k[n], k[m]) BY <1>2, <1>7, Order
    <3>3. CASE b \in D[u]
      <4>1. Precedes(s, k[b], k[n]) /\ b \in S BY <1>2, <1>3, <1>7, <3>3
      <4>2. k[b] \in Int /\ k[n] \in Int /\ k[m] \in Int BY <4>1
      <4> QED BY <1>9, <2>1, <3>2, <4>1, <4>2, Order
    <3> QED BY <1>7, <1>9, <2>1, <3>1, <3>2, <3>3
  <2>2. CASE x = Other(s)
    <3>1. b \in D[w] BY <1>2, <1>4, <1>5, <1>9, <2>2
    <3> QED BY <1>7, <1>9, <2>2, <3>1
  <2> QED BY <1>6, <2>1, <2>2
<1>10. CASE a \notin {n, m}
  <2>1. D2[C2[x][a]] = D[C[x][a]] BY <1>10, TurnedUnder DEF D2
  <2> QED BY <2>1 DEF Sorted
<1> QED BY <1>8, <1>9, <1>10

Place == Node \cup {Leaf}
Pointer == Node \cup {Leaf, Null}
Links == [left : [Place -> Pointer], right : [Place -> Pointer], parent : [Place -> Pointer], root : Pointer]

LEMMA LinksOfSide ==
    ASSUME NEW t \in Links, NEW s \in Side
    PROVE  t[s] \in [Place -> Pointer]
<1>1. t["left"] = t.left /\ t["right"] = t.right OBVIOUS
<1> QED BY <1>1 DEF Links, Side

(* *parentLink = m                                                          *)
SetLink(t, t2, d, p, m) ==
    /\ t2 \in Links /\ t2.parent = t.parent /\ t2.root = t.root
    /\ \A s \in Side, a \in Place : t2[s][a] = IF s = d /\ a = p THEN m ELSE t[s][a]

LEMMA SetLinkOf ==
    ASSUME NEW t \in Links, NEW d \in Side, NEW p \in Place, NEW m \in Pointer
    PROVE  SetLink(t, [t EXCEPT ![d][p] = m], d, p, m)
<1>1. CASE d = "left"
  <2>1. [t EXCEPT ![d][p] = m] = [t EXCEPT !.left = [@ EXCEPT ![p] = m]] BY <1>1 DEF Links
  <2> QED BY <1>1, <2>1 DEF SetLink, Links, Side
<1>2. CASE d = "right"
  <2>1. [t EXCEPT ![d][p] = m] = [t EXCEPT !.right = [@ EXCEPT ![p] = m]] BY <1>2 DEF Links
  <2> QED BY <1>2, <2>1 DEF SetLink, Links, Side
<1> QED BY <1>1, <1>2 DEF Side

RotatedTo(t, t2, n, s) ==
    LET m == t[Other(s)][n]
        inner == t[s][m]
        q == t.parent[n]
    IN /\ t2 \in Links
       /\ \A x \in Side, a \in Place :
             t2[x][a] = IF a = m /\ x = s THEN n
                        ELSE IF a = n /\ x = Other(s) THEN inner
                        ELSE IF q # Null /\ a = q /\ x = SideOf(t, n) THEN m ELSE t[x][a]
       /\ t2.root = IF q = Null THEN m ELSE t.root
       /\ \A a \in Place : t2.parent[a] = IF a = inner /\ inner # Leaf THEN n
                                          ELSE IF a = m THEN q ELSE IF a = n THEN m ELSE t.parent[a]

LEMMA SideOfSide == \A t, n : SideOf(t, n) \in Side
BY DEF SideOf, Side

LEMMA RelinkedOf ==
    ASSUME NEW t \in Links, NEW n \in Place, t.parent[n] \in Node \cup {Null}, NEW m \in Place
    PROVE  /\ Relinked(t, n, m) \in Links
           /\ Relinked(t, n, m).parent = t.parent
           /\ Relinked(t, n, m).root = IF t.parent[n] = Null THEN m ELSE t.root
           /\ \A x \in Side, a \in Place :
                Relinked(t, n, m)[x][a] = IF t.parent[n] # Null /\ a = t.parent[n] /\ x = SideOf(t, n)
                                            THEN m ELSE t[x][a]
<1> DEFINE q == t.parent[n]
           d == SideOf(t, n)
<1>1. d \in Side BY SideOfSide
<1>2. m \in Pointer BY DEF Place, Pointer
<1>3. CASE q = Null
  <2>1. Relinked(t, n, m) = [t EXCEPT !.root = m] BY <1>3 DEF Relinked
  <2> QED BY <1>2, <1>3, <2>1 DEF Links, Side
<1>4. CASE q # Null
  <2>1. Relinked(t, n, m) = [t EXCEPT ![d][q] = m] BY <1>4 DEF Relinked
  <2>2. q \in Place BY <1>4 DEF Place
  <2> HIDE DEF d, q
  <2>3. SetLink(t, [t EXCEPT ![d][q] = m], d, q, m) BY <1>1, <1>2, <2>2, SetLinkOf
  <2>4. SetLink(t, Relinked(t, n, m), d, q, m) BY <2>1, <2>3
  <2> QED BY <1>4, <2>4 DEF SetLink, d, q
<1> QED BY <1>3, <1>4

LEMMA RotatedOf ==
    ASSUME NEW t \in Links, NEW n \in Node, NEW s \in Side, t.parent[n] \in Node \cup {Null},
           t[Other(s)][n] \in Node, t[Other(s)][n] # n,
           t[s][t[Other(s)][n]] \in Place, t[s][t[Other(s)][n]] \notin {n, t[Other(s)][n]}
    PROVE  RotatedTo(t, Rotated(t, n, s), n, s)
<1> DEFINE m == t[Other(s)][n]
           inner == t[s][m]
           q == t.parent[n]
           t0 == Relinked(t, n, m)
           t1 == [t0 EXCEPT ![Other(s)][n] = inner]
           t2 == [t1 EXCEPT ![s][m] = n]
           up == [t.parent EXCEPT ![n] = m, ![m] = q, ![inner] = IF inner = Leaf THEN t.parent[Leaf] ELSE n]
           t3 == [t2 EXCEPT !.parent = up]
<1>1. Other(s) \in Side /\ Other(s) # s BY Sides
<1>2. /\ n \in Place /\ m \in Place /\ inner \in Place /\ n # Leaf /\ m # Leaf
      /\ n \in Pointer /\ m \in Pointer /\ inner \in Pointer /\ q \in Pointer
  BY NodeAssumption DEF Place, Pointer
<1>3. Rotated(t, n, s) = t3
  <2>1. Rotated(t, n, s) = [t0 EXCEPT ![Other(s)][n] = inner, ![s][m] = n, !.parent = up]
    BY DEF Rotated
  <2> HIDE DEF t0, m, inner, q, up
  <2>2. [t0 EXCEPT ![Other(s)][n] = inner, ![s][m] = n, !.parent = up]
        = [t2 EXCEPT !.parent = up]
    OBVIOUS
  <2> QED BY <2>1, <2>2, Zenon
<1>4. /\ t0 \in Links /\ t0.parent = t.parent /\ t0.root = IF q = Null THEN m ELSE t.root
      /\ \A x \in Side, a \in Place :
            t0[x][a] = IF q # Null /\ a = q /\ x = SideOf(t, n) THEN m ELSE t[x][a]
  BY <1>2, RelinkedOf
<1> HIDE DEF t0
<1>5. SetLink(t0, t1, Other(s), n, inner) BY <1>1, <1>2, <1>4, SetLinkOf
<1>6. t1 \in Links /\ t1.parent = t.parent /\ t1.root = t0.root BY <1>4, <1>5 DEF SetLink
<1> HIDE DEF t1
<1>7. SetLink(t1, t2, s, m, n) BY <1>2, <1>6, SetLinkOf
<1>8. t2 \in Links /\ t2.parent = t.parent /\ t2.root = t0.root BY <1>6, <1>7 DEF SetLink
<1> HIDE DEF t2
<1>9. t.parent \in [Place -> Pointer] BY DEF Links
<1>10. /\ up \in [Place -> Pointer]
       /\ \A a \in Place : up[a] = IF a = inner /\ inner # Leaf THEN n
                                   ELSE IF a = m THEN q ELSE IF a = n THEN m ELSE t.parent[a]
  BY <1>2, <1>8, <1>9
<1> HIDE DEF up
<1>11. /\ t3 \in Links /\ t3.parent = up /\ t3.root = t2.root
       /\ \A x \in Side : t3[x] = t2[x]
  BY <1>8, <1>10 DEF Links, Side
<1> HIDE DEF t3
<1>12. \A x \in Side, a \in Place :
             t3[x][a] = IF a = m /\ x = s THEN n
                        ELSE IF a = n /\ x = Other(s) THEN inner
                        ELSE IF q # Null /\ a = q /\ x = SideOf(t, n) THEN m ELSE t[x][a]
  BY <1>1, <1>4, <1>5, <1>7, <1>11 DEF SetLink
<1> QED BY <1>3, <1>4, <1>8, <1>10, <1>11, <1>12 DEF RotatedTo

-----------------------------------------------------------------------------
(* A tree with its pointers up.                                             *)
Structure(t, S, D) ==
    /\ t \in Links /\ S \subseteq Node
    /\ Tree(t, S, D, Leaf, t.root)
    /\ \A n \in S, s \in Side : t[s][n] # Leaf => t.parent[t[s][n]] = n
    /\ t.root # Leaf => t.parent[t.root] = Null

LEMMA TurnedTree ==
    ASSUME NEW C, NEW C2, NEW S, NEW D, NEW nil, NEW z, Tree(C, S, D, nil, z),
           NEW n \in S, NEW s \in Side, NEW m \in S, Turned(C, C2, S, n, s, m)
    PROVE  Tree(C2, S, TurnedD(S, D, C, nil, n, s, m), nil, IF z = n THEN m ELSE z)
<1> DEFINE D2 == TurnedD(S, D, C, nil, n, s, m)
<1>1. Shaped(C2, S, D2, nil) BY TurnedShaped
<1>2. Shaped(C, S, D, nil) /\ z \in S \cup {nil} /\ D[z] = S BY DEF Tree
<1>3. m = C[Other(s)][n] BY DEF Turned
<1>4. Parts(C, S, D, nil, n, s, m) BY <1>2, <1>3, TurnedParts
<1>5. n # m /\ D[m] \subseteq D[n] /\ n \notin D[m] /\ nil \notin S
  <2>1. n \notin D[m] BY <1>2, <1>3, Sides, Under1
  <2> QED BY <1>4, <2>1 DEF Parts
<1>6. z # m BY <1>2, <1>5
<1> DEFINE z2 == IF z = n THEN m ELSE z
<1>7. z2 \in S \cup {nil} BY <1>2
<1>8. D2[z2] = S
  <2>1. CASE z = n BY <1>2, <1>5, <2>1 DEF TurnedD
  <2>2. CASE z # n BY <1>2, <1>5, <1>6, <2>2 DEF TurnedD
  <2> QED BY <2>1, <2>2
<1> HIDE DEF D2, z2
<1>9. Tree(C2, S, D2, nil, z2) BY <1>1, <1>7, <1>8 DEF Tree
<1> QED BY <1>9 DEF D2, z2

(* The pointers up and down agree.                                          *)
LEMMA ParentOf ==
    ASSUME NEW t, NEW S, NEW D, Structure(t, S, D), NEW n \in S
    PROVE  /\ t.parent[n] = Null <=> n = t.root
           /\ n # t.root => /\ t.parent[n] \in S
                            /\ t[SideOf(t, n)][t.parent[n]] = n
                            /\ t[Other(SideOf(t, n))][t.parent[n]] # n
<1>1. /\ Tree(t, S, D, Leaf, t.root) /\ Shaped(t, S, D, Leaf)
      /\ \A a \in S, s \in Side : t[s][a] # Leaf => t.parent[t[s][a]] = a
      /\ t.root # Leaf => t.parent[t.root] = Null
      /\ Null \notin S /\ Leaf \notin S
  BY NodeAssumption DEF Structure, Tree
<1>2. CASE n = t.root BY <1>1, <1>2
<1>3. CASE n # t.root
  <2>1. PICK p \in S, s \in Side : t[s][p] = n BY <1>1, <1>3, HasParent
  <2>2. t.parent[n] = p BY <1>1, <2>1
  <2>3. t[Other(s)][p] # n
    <3>1. t[s][p] = t[Other(s)][p] => t[s][p] = Leaf BY <1>1, Under1
    <3> QED BY <1>1, <2>1, <3>1
  <2>4. SideOf(t, n) = s
    <3>1. t["left"] = t.left OBVIOUS
    <3> QED BY <2>1, <2>2, <2>3, <3>1 DEF SideOf, Side, Other
  <2> QED BY <1>1, <1>3, <2>1, <2>2, <2>3, <2>4
<1> QED BY <1>2, <1>3

(* What else a rotation does and leaves.                                    *)
RotatedRest(t, t2, S, n, s, m) ==
    /\ n = t.root => t2.root = m
    /\ n # t.root => t2.root = t.root
    /\ t2.parent[Leaf] = t.parent[Leaf]
    /\ t2.parent[n] = m /\ t2.parent[m] = t.parent[n]
    /\ \A a \in S \ {n, m} : t2.parent[a] = IF a = t[s][m] THEN n ELSE t.parent[a]
    /\ \A a \in Place \ S : t2.parent[a] = t.parent[a]
    /\ \A x \in Side, a \in Place \ S : t2[x][a] = t[x][a]

LEMMA RotatedStructure ==
    ASSUME NEW t, NEW S, NEW D, Structure(t, S, D), NEW n \in S, NEW s \in Side,
           NEW m \in S, m = t[Other(s)][n]
    PROVE  /\ Turned(t, Rotated(t, n, s), S, n, s, m)
           /\ Structure(Rotated(t, n, s), S, TurnedD(S, D, t, Leaf, n, s, m))
           /\ RotatedRest(t, Rotated(t, n, s), S, n, s, m)
<1> DEFINE t2 == Rotated(t, n, s)
           inner == t[s][m]
           q == t.parent[n]
           d == SideOf(t, n)
<1>1. /\ t \in Links /\ S \subseteq Node
      /\ Tree(t, S, D, Leaf, t.root) /\ Shaped(t, S, D, Leaf)
      /\ \A a \in S, x \in Side : t[x][a] # Leaf => t.parent[t[x][a]] = a
      /\ t.root # Leaf => t.parent[t.root] = Null
      /\ Null \notin S /\ Leaf \notin S
  BY NodeAssumption DEF Structure, Tree
<1>2. Parts(t, S, D, Leaf, n, s, m) BY <1>1, TurnedParts
<1>3. /\ n # m /\ inner \in (S \ {n, m}) \cup {Leaf} /\ t[s][n] \in (S \ {n, m}) \cup {Leaf}
      /\ t[Other(s)][m] \in (S \ {n, m}) \cup {Leaf}
      /\ Other(s) \in Side /\ Other(s) # s
  BY <1>2, Sides DEF Parts
<1>4. /\ q = Null <=> n = t.root
      /\ n # t.root => q \in S /\ t[d][q] = n /\ t[Other(d)][q] # n
  BY ParentOf
<1>5. d \in Side BY SideOfSide
<1>6. q \in Node \cup {Null} BY <1>1, <1>4
<1>7. RotatedTo(t, t2, n, s)
  <2> HIDE DEF t2
  <2>1. t[s][t[Other(s)][n]] \in Place /\ t[s][t[Other(s)][n]] \notin {n, t[Other(s)][n]} BY <1>1, <1>3 DEF Place
  <2> QED BY <1>1, <1>3, <1>6, <2>1, RotatedOf DEF t2
<1> HIDE DEF t2
<1>8. /\ t2 \in Links
      /\ \A x \in Side, a \in Place :
             t2[x][a] = IF a = m /\ x = s THEN n
                        ELSE IF a = n /\ x = Other(s) THEN inner
                        ELSE IF q # Null /\ a = q /\ x = d THEN m ELSE t[x][a]
      /\ t2.root = IF q = Null THEN m ELSE t.root
      /\ \A a \in Place : t2.parent[a] = IF a = inner /\ inner # Leaf THEN n
                                          ELSE IF a = m THEN q ELSE IF a = n THEN m ELSE t.parent[a]
  BY <1>7 DEF RotatedTo
<1>9. S \subseteq Place /\ Leaf \in Place BY <1>1 DEF Place
<1> HIDE DEF q, d
<1>10. q # n /\ q # m /\ \A a \in S, x \in Side : t[x][a] = n => a = q /\ x = d
  <2>1. t[s][n] # n /\ t[Other(s)][n] # n BY <1>1, <1>3
  <2>2. ASSUME NEW a \in S, NEW x \in Side, t[x][a] = n PROVE a = q /\ x = d
    <3>1. t.parent[n] = a BY <1>1, <2>2
    <3>2. q # Null BY <1>1, <3>1 DEF q
    <3>3. a = q BY <3>1 DEF q
    <3>4. t[Other(d)][q] # n BY <1>4, <3>2
    <3>5. x = d \/ x = Other(d) BY <1>5, Sides
    <3> QED BY <2>2, <3>3, <3>4, <3>5
  <2>3. q # n
    <3> SUFFICES ASSUME q = n PROVE FALSE OBVIOUS
    <3>1. t[d][n] = n BY <1>1, <1>4
    <3>2. d = s \/ d = Other(s) BY <1>5, Sides
    <3> QED BY <2>1, <3>1, <3>2
  <2>4. q # m
    <3> SUFFICES ASSUME q = m PROVE FALSE OBVIOUS
    <3>1. t[d][m] = n BY <1>1, <1>4
    <3>2. d = s \/ d = Other(s) BY <1>5, Sides
    <3> QED BY <1>1, <1>3, <3>1, <3>2
  <2> QED BY <2>2, <2>3, <2>4
<1>11. Turned(t, t2, S, n, s, m)
  <2>1. /\ t2[s][n] = t[s][n] /\ t2[Other(s)][n] = t[s][m]
        /\ t2[s][m] = n /\ t2[Other(s)][m] = t[Other(s)][m]
    BY <1>3, <1>8, <1>9, <1>10
  <2>2. ASSUME NEW a \in S \ {n, m}, NEW x \in Side PROVE t2[x][a] = IF t[x][a] = n THEN m ELSE t[x][a]
    <3>1. t2[x][a] = IF q # Null /\ a = q /\ x = d THEN m ELSE t[x][a] BY <1>8, <1>9
    <3>2. (q # Null /\ a = q /\ x = d) <=> t[x][a] = n BY <1>1, <1>4, <1>10
    <3> QED BY <3>1, <3>2
  <2> QED BY <2>1, <2>2 DEF Turned
<1>12. RotatedRest(t, t2, S, n, s, m)
  <2>1. (n = t.root => t2.root = m) /\ (n # t.root => t2.root = t.root)
    <3>1. t2.root = IF q = Null THEN m ELSE t.root BY <1>8
    <3> QED BY <1>4, <3>1
  <2>2. t2.parent[Leaf] = t.parent[Leaf] BY <1>1, <1>8, <1>9
  <2>3. t2.parent[n] = m /\ t2.parent[m] = t.parent[n] BY <1>1, <1>3, <1>8, <1>9 DEF q
  <2>4. \A a \in S \ {n, m} : t2.parent[a] = IF a = inner THEN n ELSE t.parent[a] BY <1>1, <1>8, <1>9
  <2>5. ASSUME NEW x \in Side, NEW a \in Place \ S PROVE t2[x][a] = t[x][a]
    <3>1. a # n /\ a # m /\ (q # Null => a # q) BY <1>4
    <3> QED BY <1>8, <3>1
  <2>6. \A a \in Place \ S : t2.parent[a] = t.parent[a]
    <3>1. \A a \in Place \ S : a # n /\ a # m /\ (a = inner => inner = Leaf) BY <1>3
    <3> QED BY <1>8, <3>1
  <2> QED BY <2>1, <2>2, <2>3, <2>4, <2>5, <2>6 DEF RotatedRest
<1>13. Tree(t2, S, TurnedD(S, D, t, Leaf, n, s, m), Leaf, t2.root)
  <2>1. t2.root = IF t.root = n THEN m ELSE t.root
    <3>1. (n = t.root => t2.root = m) /\ (n # t.root => t2.root = t.root) BY <1>12 DEF RotatedRest
    <3> QED BY <3>1
  <2>2. Tree(t2, S, TurnedD(S, D, t, Leaf, n, s, m), Leaf, IF t.root = n THEN m ELSE t.root)
    BY <1>1, <1>11, TurnedTree
  <2> QED BY <2>1, <2>2
<1>14. ASSUME NEW a \in S, NEW x \in Side, t2[x][a] # Leaf PROVE t2.parent[t2[x][a]] = a
  <2>0. x = s \/ x = Other(s) BY Sides
  <2>1. /\ t2.parent[n] = m /\ t2.parent[m] = t.parent[n]
        /\ \A b \in S \ {n, m} : t2.parent[b] = IF b = inner THEN n ELSE t.parent[b]
    BY <1>12 DEF RotatedRest
  <2>2. /\ t2[s][n] = t[s][n] /\ t2[Other(s)][n] = inner
        /\ t2[s][m] = n /\ t2[Other(s)][m] = t[Other(s)][m]
        /\ \A b \in S \ {n, m}, y \in Side : t2[y][b] = IF t[y][b] = n THEN m ELSE t[y][b]
    BY <1>11 DEF Turned
  <2>3. inner # Leaf => t.parent[inner] = m BY <1>1
  <2>4. CASE a = n
    <3>1. CASE x = s
      <4>1. t[s][n] # Leaf /\ t.parent[t[s][n]] = n /\ t[s][n] \in S \ {n, m} BY <1>1, <1>3, <2>2, <2>4, <3>1, <1>14
      <4> QED BY <2>1, <2>2, <2>3, <2>4, <3>1, <4>1
    <3>2. CASE x = Other(s)
      <4>1. inner \in S \ {n, m} BY <1>3, <1>14, <2>2, <2>4, <3>2
      <4> QED BY <2>1, <2>2, <2>4, <3>2, <4>1
    <3> QED BY <2>0, <3>1, <3>2
  <2>5. CASE a = m
    <3>1. CASE x = s BY <2>1, <2>2, <2>5, <3>1
    <3>2. CASE x = Other(s)
      <4> DEFINE w == t[Other(s)][m]
      <4>1. w \in S \ {n, m} /\ t.parent[w] = m BY <1>1, <1>3, <1>14, <2>2, <2>5, <3>2
      <4>2. w # inner
        <5>1. t[s][m] = t[Other(s)][m] => t[s][m] = Leaf BY <1>1, Under1
        <5> QED BY <4>1, <5>1, <1>1
      <4> HIDE DEF w
      <4>3. t2.parent[w] = m BY <2>1, <4>1, <4>2
      <4> QED BY <2>2, <2>5, <3>2, <4>3 DEF w
    <3> QED BY <2>0, <3>1, <3>2
  <2>6. CASE a \in S \ {n, m}
    <3>1. CASE t[x][a] = n
      <4>1. t2[x][a] = m /\ t.parent[n] = a BY <1>1, <2>2, <2>6, <3>1
      <4> QED BY <2>1, <4>1
    <3>2. CASE t[x][a] # n
      <4> DEFINE c == t[x][a]
      <4>1. t2[x][a] = c /\ c # Leaf BY <1>14, <2>2, <2>6, <3>2
      <4>2. c \in S BY <1>1, <4>1, Under1
      <4>3. t.parent[c] = a BY <1>1, <4>1
      <4>4. c # m
        <5>1. t.parent[m] = n BY <1>1, <1>3
        <5> QED BY <2>6, <4>3, <5>1
      <4>5. c # inner BY <1>1, <2>3, <2>6, <4>1, <4>3
      <4> HIDE DEF c
      <4>6. t2.parent[c] = a BY <2>1, <3>2, <4>2, <4>3, <4>4, <4>5 DEF c
      <4> QED BY <4>1, <4>6
    <3> QED BY <3>1, <3>2
  <2> QED BY <2>4, <2>5, <2>6
<1>15. t2.root # Leaf => t2.parent[t2.root] = Null
  <2>1. /\ n = t.root => t2.root = m
        /\ n # t.root => t2.root = t.root
        /\ t2.parent[m] = t.parent[n]
    BY <1>12 DEF RotatedRest
  <2>2. CASE n = t.root BY <1>4, <2>1, <2>2 DEF q
  <2>3. CASE n # t.root
    <3>0. /\ \A b \in S \ {n, m} : t2.parent[b] = IF b = inner THEN n ELSE t.parent[b]
      BY <1>12 DEF RotatedRest
    <3> SUFFICES ASSUME t.root # Leaf PROVE t2.parent[t.root] = Null BY <2>1, <2>3
    <3>1. t.root \in S /\ t.parent[t.root] = Null BY <1>1 DEF Tree
    <3>2. t.root # m /\ t.root # inner
      <4>1. t.parent[m] = n BY <1>1, <1>3
      <4>2. inner # Leaf => t.parent[inner] = m BY <1>1
      <4> QED BY <1>1, <3>1, <4>1, <4>2
    <3> QED BY <2>3, <3>0, <3>1, <3>2
  <2> QED BY <2>2, <2>3
<1>16. Structure(t2, S, TurnedD(S, D, t, Leaf, n, s, m)) BY <1>1, <1>8, <1>13, <1>14, <1>15 DEF Structure
<1> QED BY <1>11, <1>12, <1>16 DEF t2

LEMMA SplicedTree ==
    ASSUME NEW C, NEW C2, NEW S, NEW D, NEW nil, NEW z, Tree(C, S, D, nil, z),
           NEW r \in S, NEW ch, NEW s0 \in Side, Spliced(C, C2, S, nil, r, ch, s0),
           NEW z2, z = r => z2 = ch, z # r => z2 = z
    PROVE  Tree(C2, S \ {r}, SplicedD(S, D, nil, r), nil, z2)
<1> DEFINE D2 == SplicedD(S, D, nil, r)
<1>0. Shaped(C, S, D, nil) /\ z \in S \cup {nil} /\ D[z] = S BY DEF Tree
<1>1. Shaped(C2, S \ {r}, D2, nil) BY <1>0, SplicedShaped
<1>2. D[r] \ {r} = D[ch] /\ r \notin D[ch] /\ ch \in (S \ {r}) \cup {nil}
  <2>1. SplicedChild(S, D, nil, r, ch) BY <1>0, SplicedBelow
  <2> QED BY <2>1 DEF SplicedChild
<1>3. z2 \in (S \ {r}) \cup {nil} BY <1>0, <1>2
<1>4. D2[z2] = S \ {r}
  <2>1. CASE z = r BY <1>0, <1>2, <2>1 DEF SplicedD
  <2>2. CASE z # r BY <1>0, <2>2 DEF SplicedD
  <2> QED BY <2>1, <2>2
<1> HIDE DEF D2
<1>5. Tree(C2, S \ {r}, D2, nil, z2) BY <1>1, <1>3, <1>4 DEF Tree
<1> QED BY <1>5 DEF D2

ReplacedRest(t, t2, S, r, ch) ==
    /\ r = t.root => t2.root = ch
    /\ r # t.root => t2.root = t.root
    /\ t2.parent[ch] = t.parent[r]
    /\ \A a \in (S \cup {Leaf}) \ {ch} : t2.parent[a] = t.parent[a]
    /\ \A x \in Side : t2[x][r] = t[x][r]

LEMMA ReplacedStructure ==
    ASSUME NEW t, NEW S, NEW D, Structure(t, S, D), NEW r \in S, NEW s0 \in Side,
           NEW ch, t[s0][r] = Leaf, ch = t[Other(s0)][r]
    PROVE  /\ Spliced(t, Replaced(t, r, ch), S, Leaf, r, ch, s0)
           /\ Structure(Replaced(t, r, ch), S \ {r}, SplicedD(S, D, Leaf, r))
           /\ ReplacedRest(t, Replaced(t, r, ch), S, r, ch)
<1> DEFINE t1 == Relinked(t, r, ch)
           t2 == Replaced(t, r, ch)
           q == t.parent[r]
           d == SideOf(t, r)
<1>1. /\ t \in Links /\ S \subseteq Node
      /\ Tree(t, S, D, Leaf, t.root) /\ Shaped(t, S, D, Leaf)
      /\ \A a \in S, x \in Side : t[x][a] # Leaf => t.parent[t[x][a]] = a
      /\ t.root # Leaf => t.parent[t.root] = Null
      /\ Null \notin S /\ Leaf \notin S /\ Leaf # Null
  BY NodeAssumption DEF Structure, Tree
<1>2. ch \in (S \ {r}) \cup {Leaf} /\ \A x \in Side : t[x][r] # r
  BY <1>1, Sides, Under1
<1>3. /\ q = Null <=> r = t.root
      /\ r # t.root => q \in S /\ t[d][q] = r /\ t[Other(d)][q] # r
  BY ParentOf
<1>4. d \in Side BY SideOfSide
<1>5. S \subseteq Place /\ Leaf \in Place /\ ch \in Place /\ q \in Node \cup {Null} BY <1>1, <1>2, <1>3 DEF Place
<1>6. /\ t1 \in Links /\ t1.parent = t.parent
      /\ t1.root = IF q = Null THEN ch ELSE t.root
      /\ \A x \in Side, a \in Place :
            t1[x][a] = IF q # Null /\ a = q /\ x = d THEN ch ELSE t[x][a]
  BY <1>1, <1>5, RelinkedOf
<1>7. t2 = [t1 EXCEPT !.parent = [t.parent EXCEPT ![ch] = q]]
  <2>1. t2 = [t1 EXCEPT !.parent[ch] = q] BY DEF Replaced
  <2> HIDE DEF t1, q, t2
  <2>2. [t1 EXCEPT !.parent[ch] = q] = [t1 EXCEPT !.parent = [t1.parent EXCEPT ![ch] = q]] OBVIOUS
  <2> QED BY <1>6, <2>1, <2>2
<1> HIDE DEF t1, t2
<1>8. /\ t2 \in Links /\ t2.root = t1.root /\ \A x \in Side : t2[x] = t1[x]
      /\ \A a \in Place : t2.parent[a] = IF a = ch THEN q ELSE t.parent[a]
  <2> DEFINE up == [t.parent EXCEPT ![ch] = q]
  <2>1. t.parent \in [Place -> Pointer] /\ q \in Pointer BY <1>1, <1>5 DEF Links, Pointer
  <2>2. up \in [Place -> Pointer] BY <2>1
  <2>3. \A a \in Place : up[a] = IF a = ch THEN q ELSE t.parent[a] BY <2>1
  <2> HIDE DEF up, q
  <2>4. t2 = [t1 EXCEPT !.parent = up] BY <1>7 DEF up
  <2>5. t2 \in Links /\ t2.root = t1.root /\ t2.parent = up /\ \A x \in Side : t2[x] = t1[x]
    BY <1>6, <2>2, <2>4 DEF Links, Side
  <2> QED BY <2>3, <2>5
<1> HIDE DEF q, d
<1>9. \A x \in Side, a \in Place : t2[x][a] = IF q # Null /\ a = q /\ x = d THEN ch ELSE t[x][a]
  BY <1>6, <1>8
<1>10. q # r /\ \A a \in S, x \in Side : t[x][a] = r => q # Null /\ a = q /\ x = d
  <2>1. q # r BY <1>1, <1>2, <1>3, <1>4
  <2>2. ASSUME NEW a \in S, NEW x \in Side, t[x][a] = r PROVE q # Null /\ a = q /\ x = d
    <3>1. a = q BY <1>1, <2>2 DEF q
    <3>2. q # Null BY <1>1, <3>1
    <3>3. t[Other(d)][q] # r BY <1>3, <3>2
    <3>4. x = d \/ x = Other(d) BY <1>4, Sides
    <3> QED BY <2>2, <3>1, <3>2, <3>3, <3>4
  <2> QED BY <2>1, <2>2
<1>11. Spliced(t, t2, S, Leaf, r, ch, s0)
  <2>1. ASSUME NEW a \in S \ {r}, NEW x \in Side PROVE t2[x][a] = IF t[x][a] = r THEN ch ELSE t[x][a]
    <3>1. t2[x][a] = IF q # Null /\ a = q /\ x = d THEN ch ELSE t[x][a] BY <1>5, <1>9
    <3>2. (q # Null /\ a = q /\ x = d) <=> t[x][a] = r BY <1>3, <1>10
    <3> QED BY <3>1, <3>2
  <2> QED BY <2>1 DEF Spliced
<1>12. ReplacedRest(t, t2, S, r, ch)
  <2>1. (r = t.root => t2.root = ch) /\ (r # t.root => t2.root = t.root)
    <3>1. t2.root = IF q = Null THEN ch ELSE t.root BY <1>6, <1>8
    <3> QED BY <1>3, <3>1
  <2>2. t2.parent[ch] = t.parent[r] BY <1>5, <1>8 DEF q
  <2>3. \A a \in (S \cup {Leaf}) \ {ch} : t2.parent[a] = t.parent[a] BY <1>5, <1>8
  <2>4. \A x \in Side : t2[x][r] = t[x][r] BY <1>5, <1>9, <1>10
  <2> QED BY <2>1, <2>2, <2>3, <2>4 DEF ReplacedRest
<1>13. Tree(t2, S \ {r}, SplicedD(S, D, Leaf, r), Leaf, t2.root)
  <2>1. (t.root = r => t2.root = ch) /\ (t.root # r => t2.root = t.root) BY <1>12 DEF ReplacedRest
  <2> QED BY <1>1, <1>11, <2>1, SplicedTree
<1>14. ASSUME NEW a \in S \ {r}, NEW x \in Side, t2[x][a] # Leaf PROVE t2.parent[t2[x][a]] = a
  <2>1. t2[x][a] = IF t[x][a] = r THEN ch ELSE t[x][a] BY <1>11 DEF Spliced
  <2>2. CASE t[x][a] = r
    <3>1. t2[x][a] = ch /\ q = a BY <1>10, <2>1, <2>2
    <3> QED BY <1>5, <1>8, <3>1
  <2>3. CASE t[x][a] # r
    <3>1. t2[x][a] = t[x][a] /\ t[x][a] # Leaf BY <1>14, <2>1, <2>3
    <3> DEFINE c == t[x][a]
    <3>2. c \in S /\ t.parent[c] = a BY <1>1, <3>1, Under1
    <3>3. ch # Leaf => t.parent[ch] = r
      <4>1. Other(s0) \in Side BY Sides
      <4> QED BY <1>1, <4>1
    <3>4. c # ch BY <1>14, <3>1, <3>2, <3>3
    <3> HIDE DEF c
    <3>5. t2.parent[c] = a BY <1>5, <1>8, <3>2, <3>4
    <3> QED BY <3>1, <3>5 DEF c
  <2> QED BY <2>2, <2>3
<1>15. t2.root # Leaf => t2.parent[t2.root] = Null
  <2>1. /\ (r = t.root => t2.root = ch) /\ (r # t.root => t2.root = t.root)
        /\ t2.parent[ch] = t.parent[r]
        /\ \A a \in (S \cup {Leaf}) \ {ch} : t2.parent[a] = t.parent[a]
    BY <1>12 DEF ReplacedRest
  <2>2. CASE r = t.root BY <1>1, <2>1, <2>2
  <2>3. CASE r # t.root
    <3> SUFFICES ASSUME t.root # Leaf PROVE t2.parent[t.root] = Null BY <2>1, <2>3
    <3>1. t.root \in S /\ t.parent[t.root] = Null BY <1>1 DEF Tree
    <3>2. ch # Leaf => t.parent[ch] = r
      <4>1. Other(s0) \in Side BY Sides
      <4> QED BY <1>1, <4>1
    <3>3. t.root # ch BY <1>1, <3>1, <3>2
    <3> QED BY <2>1, <3>1, <3>3
  <2> QED BY <2>2, <2>3
<1>16. Structure(t2, S \ {r}, SplicedD(S, D, Leaf, r)) BY <1>1, <1>8, <1>13, <1>14, <1>15 DEF Structure
<1> QED BY <1>11, <1>12, <1>16 DEF t2

-----------------------------------------------------------------------------
LEMMA HungTree ==
    ASSUME NEW C, NEW C2, NEW S, NEW D, NEW nil, NEW z, Tree(C, S, D, nil, z),
           NEW c, NEW p \in S, NEW s0 \in Side, Hung(C, C2, S, nil, c, p, s0)
    PROVE  Tree(C2, S \cup {c}, HungD(S, D, nil, c, p), nil, z)
<1>0. Shaped(C, S, D, nil) /\ z \in S \cup {nil} /\ D[z] = S BY DEF Tree
<1>1. Shaped(C2, S \cup {c}, HungD(S, D, nil, c, p), nil) BY <1>0, HungShaped
<1>2. c \notin S \cup {nil} BY DEF Hung
<1>3. HungD(S, D, nil, c, p)[z] = S \cup {c} BY <1>0, <1>2 DEF HungD
<1> QED BY <1>0, <1>1, <1>3 DEF Tree

(* The tree of one node.                                                    *)
LEMMA OneTree ==
    ASSUME NEW C, NEW c, NEW nil, c # nil, \A s \in Side : C[s][c] = nil
    PROVE  Tree(C, {c}, [a \in {c, nil} |-> IF a = c THEN {c} ELSE {}], nil, c)
<1> DEFINE D2 == [a \in {c, nil} |-> IF a = c THEN {c} ELSE {}]
<1>1. IsFiniteSet({c}) BY FS_Singleton
<1>2. D2 \in [{c} \cup {nil} -> SUBSET {c}] /\ D2[nil] = {} /\ D2[c] = {c} OBVIOUS
<1>3. ASSUME NEW s \in Side PROVE Fork(C, {c}, D2, nil, c, s)
  <2>1. C[s][c] = nil /\ C[Other(s)][c] = nil BY Sides
  <2> HIDE DEF D2
  <2> QED BY <1>2, <2>1 DEF Fork
<1> HIDE DEF D2
<1>4. \A n \in {c}, s \in Side : Fork(C, {c}, D2, nil, n, s) BY <1>3
<1>5. Shaped(C, {c}, D2, nil) BY <1>1, <1>2, <1>4 DEF Shaped
<1> QED BY <1>2, <1>5 DEF Tree, D2

(* The pointers of the new node n.                                          *)
New(t, n, p) == [t EXCEPT !.left[n] = Leaf, !.right[n] = Leaf, !.parent[n] = p]

LEMMA NewOf ==
    ASSUME NEW t \in Links, NEW n \in Node, NEW p \in Node \cup {Null}
    PROVE  /\ New(t, n, p) \in Links
           /\ New(t, n, p).root = t.root
           /\ New(t, n, p).parent[n] = p
           /\ \A a \in Place \ {n} : New(t, n, p).parent[a] = t.parent[a]
           /\ \A x \in Side, a \in Place : New(t, n, p)[x][a] = IF a = n THEN Leaf ELSE t[x][a]
<1> DEFINE l == [t.left EXCEPT ![n] = Leaf]
           r == [t.right EXCEPT ![n] = Leaf]
           up == [t.parent EXCEPT ![n] = p]
           t2 == New(t, n, p)
<1>1. n \in Place /\ Leaf \in Pointer /\ p \in Pointer BY DEF Place, Pointer
<1>2. t.left \in [Place -> Pointer] /\ t.right \in [Place -> Pointer] /\ t.parent \in [Place -> Pointer]
  BY DEF Links
<1>3. /\ l \in [Place -> Pointer] /\ \A a \in Place : l[a] = IF a = n THEN Leaf ELSE t.left[a]
      /\ r \in [Place -> Pointer] /\ \A a \in Place : r[a] = IF a = n THEN Leaf ELSE t.right[a]
      /\ up \in [Place -> Pointer] /\ \A a \in Place : up[a] = IF a = n THEN p ELSE t.parent[a]
  BY <1>1, <1>2
<1>4. t2 = [t EXCEPT !.left = l, !.right = r, !.parent = up] BY DEF New, Links
<1> HIDE DEF l, r, up, t2
<1>5. t2 \in Links /\ t2.root = t.root /\ t2.parent = up /\ t2.left = l /\ t2.right = r
  BY <1>3, <1>4 DEF Links
<1>6. \A x \in Side, a \in Place : t2[x][a] = IF a = n THEN Leaf ELSE t[x][a]
  BY <1>3, <1>5 DEF Side
<1> QED BY <1>1, <1>3, <1>5, <1>6 DEF t2

(* A new node, under p or as the root.                                      *)
NewUnder(t, t2, n, p, d) == t2 = [New(t, n, p) EXCEPT ![d][p] = n]
NewRoot(t, t2, n) == t2 = [New(t, n, Null) EXCEPT !.root = n]

LEMMA HungStructure ==
    ASSUME NEW t, NEW S, NEW D, Structure(t, S, D), NEW n \in Node \ S, NEW p \in S, NEW d \in Side,
           t[d][p] = Leaf, NEW t2, NewUnder(t, t2, n, p, d)
    PROVE  /\ Hung(t, t2, S, Leaf, n, p, d)
           /\ Structure(t2, S \cup {n}, HungD(S, D, Leaf, n, p))
           /\ t2.root = t.root /\ t.root \in S
           /\ t2.parent[n] = p
<1>1. /\ t \in Links /\ S \subseteq Node
      /\ Tree(t, S, D, Leaf, t.root) /\ Shaped(t, S, D, Leaf)
      /\ \A a \in S, x \in Side : t[x][a] # Leaf => t.parent[t[x][a]] = a
      /\ t.root # Leaf => t.parent[t.root] = Null
      /\ Null \notin S /\ Leaf \notin S /\ Leaf # Null /\ n # Leaf
  BY NodeAssumption DEF Structure, Tree
<1> DEFINE t1 == New(t, n, p)
<1>2. S \subseteq Place /\ n \in Place /\ n \in Pointer BY <1>1 DEF Place, Pointer
<1>3. /\ t1 \in Links /\ t1.root = t.root /\ t1.parent[n] = p
      /\ \A a \in Place \ {n} : t1.parent[a] = t.parent[a]
      /\ \A x \in Side, a \in Place : t1[x][a] = IF a = n THEN Leaf ELSE t[x][a]
  BY <1>1, NewOf
<1> HIDE DEF t1
<1>4. SetLink(t1, t2, d, p, n) BY <1>1, <1>2, <1>3, SetLinkOf DEF t1, NewUnder
<1>5. /\ t2 \in Links /\ t2.parent = t1.parent /\ t2.root = t.root
      /\ \A x \in Side, a \in Place : t2[x][a] = IF x = d /\ a = p THEN n ELSE t1[x][a]
  BY <1>3, <1>4 DEF SetLink
<1>6. Hung(t, t2, S, Leaf, n, p, d)
  <2>1. t2[d][p] = n BY <1>2, <1>5
  <2>2. \A x \in Side : t2[x][n] = Leaf BY <1>2, <1>3, <1>5
  <2>3. \A a \in S, x \in Side : a # p \/ x # d => t2[x][a] = t[x][a] BY <1>2, <1>3, <1>5
  <2> QED BY <1>1, <2>1, <2>2, <2>3 DEF Hung
<1>7. t.root \in S BY <1>1 DEF Tree, Shaped
<1>8. Tree(t2, S \cup {n}, HungD(S, D, Leaf, n, p), Leaf, t2.root) BY <1>1, <1>5, <1>6, HungTree
<1>9. ASSUME NEW a \in S \cup {n}, NEW x \in Side, t2[x][a] # Leaf PROVE t2.parent[t2[x][a]] = a
  <2>1. CASE a = n BY <1>6, <1>9, <2>1 DEF Hung
  <2>2. CASE a = p /\ x = d BY <1>3, <1>5, <1>6, <2>2 DEF Hung
  <2>3. CASE a \in S /\ ~(a = p /\ x = d)
    <3> DEFINE c == t[x][a]
    <3>1. t2[x][a] = c /\ c # Leaf BY <1>6, <1>9, <2>3 DEF Hung
    <3>2. c \in S /\ t.parent[c] = a BY <1>1, <2>3, <3>1, Under1
    <3> HIDE DEF c
    <3>3. t2.parent[c] = a BY <1>2, <1>3, <1>5, <3>2
    <3> QED BY <3>1, <3>3
  <2> QED BY <2>1, <2>2, <2>3
<1>10. t2.parent[t2.root] = Null BY <1>1, <1>2, <1>3, <1>5, <1>7
<1>11. Structure(t2, S \cup {n}, HungD(S, D, Leaf, n, p)) BY <1>1, <1>5, <1>8, <1>9, <1>10 DEF Structure
<1> QED BY <1>3, <1>5, <1>6, <1>7, <1>11

OneD(c, nil) == [a \in {c, nil} |-> IF a = c THEN {c} ELSE {}]

FirstTree(t2, S, n) ==
    /\ S = {} /\ Structure(t2, {n}, OneD(n, Leaf))
    /\ t2.root = n /\ t2.parent[n] = Null
    /\ \A x \in Side : t2[x][n] = Leaf

LEMMA FirstStructure ==
    ASSUME NEW t, NEW S, NEW D, Structure(t, S, D), NEW n \in Node, t.root = Leaf,
           NEW t2, NewRoot(t, t2, n)
    PROVE  FirstTree(t2, S, n)
<1>1. t \in Links /\ Tree(t, S, D, Leaf, t.root) /\ Leaf # n /\ Shaped(t, S, D, Leaf)
  BY NodeAssumption DEF Structure, Tree
<1>2. S = {} BY <1>1 DEF Tree, Shaped
<1> DEFINE t1 == New(t, n, Null)
<1>3. t1 \in Links /\ t1.parent[n] = Null /\ \A x \in Side, a \in Place : t1[x][a] = IF a = n THEN Leaf ELSE t[x][a]
  BY <1>1, NewOf
<1> HIDE DEF t1
<1>4. t2 = [t1 EXCEPT !.root = n] BY DEF t1, NewRoot
<1>5. n \in Place /\ n \in Pointer BY DEF Place, Pointer
<1>6. t2 \in Links /\ t2.root = n /\ t2.parent[n] = Null /\ \A x \in Side : t2[x] = t1[x]
  BY <1>3, <1>4, <1>5 DEF Links, Side
<1>7. \A x \in Side : t2[x][n] = Leaf BY <1>3, <1>5, <1>6
<1>8. Tree(t2, {n}, OneD(n, Leaf), Leaf, n) BY <1>1, <1>7, OneTree DEF OneD
<1>9. Structure(t2, {n}, OneD(n, Leaf)) BY <1>6, <1>7, <1>8 DEF Structure
<1> QED BY <1>2, <1>6, <1>7, <1>9 DEF FirstTree

-----------------------------------------------------------------------------
(***************************************************************************)
(* Colours.  B[n] is the number of black nodes on a way down from n.        *)
(***************************************************************************)
Weight(col, n) == IF col[n] = "red" THEN 0 ELSE 1
EvenAt(t, col, B, n) == \A s \in Side : B[n] = B[t[s][n]] + Weight(col, n)
Fine(t, col, n) == \A s \in Side : ~(col[n] = "red" /\ col[t[s][n]] = "red")
Paint == [Place -> {"red", "black"}]

(* off are the nodes whose ways down may be uneven, under which there may   *)
(* be too few black nodes; exc the red nodes that may have a red parent.    *)
Painted(t, col, S, B, off, exc) ==
    /\ B \in [S \cup {Leaf} -> Nat] /\ B[Leaf] = 0 /\ col[Leaf] # "red"
    /\ \A n \in S \ off : EvenAt(t, col, B, n)
    /\ \A n \in S, s \in Side : col[n] = "red" /\ col[t[s][n]] = "red" => t[s][n] \in exc

LEMMA WeightType == \A col, n : Weight(col, n) \in {0, 1} /\ (col[n] = "red" <=> Weight(col, n) = 0)
BY DEF Weight

(* A node and its children.                                                 *)
Family(t, S) ==
    /\ Leaf \notin S
    /\ \A a \in S, x \in Side :
          /\ t[x][a] \in S \cup {Leaf} /\ t[x][a] # a
          /\ t[x][a] # Leaf => t.parent[t[x][a]] = a /\ t[Other(x)][a] # t[x][a]
          /\ \A y \in Side : t[x][a] # Leaf => t[y][t[x][a]] # a

LEMMA FamilyOf ==
    ASSUME NEW t, NEW S, NEW D, Structure(t, S, D)
    PROVE  Family(t, S)
<1>1. Shaped(t, S, D, Leaf) /\ \A n \in S, s \in Side : t[s][n] # Leaf => t.parent[t[s][n]] = n
  BY DEF Structure, Tree
<1>2. Leaf \notin S BY <1>1 DEF Shaped
<1>3. ASSUME NEW a \in S, NEW x \in Side
      PROVE  /\ t[x][a] \in S \cup {Leaf} /\ t[x][a] # a
             /\ t[x][a] = t[Other(x)][a] => t[x][a] = Leaf
  BY <1>1, Under1
<1>4. ASSUME NEW a \in S, NEW x \in Side, NEW y \in Side, t[x][a] # Leaf PROVE t[y][t[x][a]] # a
  <2>1. t[x][a] \in S /\ a \notin D[t[x][a]] BY <1>1, <1>4, Under1
  <2> SUFFICES ASSUME t[y][t[x][a]] = a PROVE FALSE OBVIOUS
  <2>2. a # Leaf BY <1>2
  <2>3. a \in D[t[x][a]] BY <1>1, <2>1, <2>2, Under1
  <2> QED BY <2>1, <2>3
<1> QED BY <1>1, <1>2, <1>3, <1>4 DEF Family

(* The nodes but those of X keep their colours and their black nodes.       *)
Same(S, col, col2, B, B2, X) == \A a \in (S \cup {Leaf}) \ X : B2[a] = B[a] /\ col2[a] = col[a]
Kept(t, t2, S, col, col2, B, B2, X) ==
    \A a \in S \ X : /\ EvenAt(t, col, B, a) => EvenAt(t2, col2, B2, a)
                     /\ Fine(t, col, a) => Fine(t2, col2, a)

(* Rotation, where the other nodes of X are children of m.                  *)
LEMMA TurnedKept ==
    ASSUME NEW t, NEW t2, NEW S, Family(t, S), NEW n \in S, NEW s \in Side, NEW m \in S,
           Turned(t, t2, S, n, s, m), NEW X \in SUBSET S, n \in X, m \in X,
           \A e \in X : e = n \/ e = m \/ t.parent[e] = m,
           NEW col, NEW col2, NEW B, NEW B2, B2[m] = B[n], col2[m] = "red" => col[n] = "red",
           Same(S, col, col2, B, B2, X)
    PROVE  Kept(t, t2, S, col, col2, B, B2, X)
<1> SUFFICES ASSUME NEW a \in S \ X
             PROVE  /\ EvenAt(t, col, B, a) => EvenAt(t2, col2, B2, a)
                    /\ Fine(t, col, a) => Fine(t2, col2, a)
  BY DEF Kept
<1>1. ASSUME NEW x \in Side
      PROVE  B2[t2[x][a]] = B[t[x][a]] /\ (col2[t2[x][a]] = "red" => col[t[x][a]] = "red")
  <2>1. t2[x][a] = IF t[x][a] = n THEN m ELSE t[x][a] BY DEF Turned
  <2>2. CASE t[x][a] = n BY <2>1, <2>2
  <2>3. CASE t[x][a] # n
    <3>1. t.parent[m] = n BY Sides DEF Turned, Family
    <3>2. t[x][a] \in (S \cup {Leaf}) \ X BY <2>3, <3>1 DEF Family
    <3> QED BY <2>1, <2>3, <3>2 DEF Same
  <2> QED BY <2>2, <2>3
<1>2. B2[a] = B[a] /\ col2[a] = col[a] /\ Weight(col2, a) = Weight(col, a) BY DEF Weight, Same
<1>3. EvenAt(t, col, B, a) => EvenAt(t2, col2, B2, a) BY <1>1, <1>2 DEF EvenAt
<1>4. Fine(t, col, a) => Fine(t2, col2, a) BY <1>1, <1>2 DEF Fine
<1> QED BY <1>3, <1>4

(* insert_case3                                                             *)
Repainted(S, col, col2, g, p, u) ==
    /\ col2[g] = "red" /\ col2[p] = "black" /\ col2[u] = "black"
    /\ \A a \in (S \cup {Leaf}) \ {g, p, u} : col2[a] = col[a]
RedFamily(t, S, col, low, g, p, u, e) ==
    /\ g \in S /\ e \in Side /\ p \in S /\ u \in S /\ t[e][g] = p /\ t[Other(e)][g] = u
    /\ low \in S /\ low # p /\ t.parent[low] = p /\ col[p] = "red" /\ col[u] = "red" /\ col[low] = "red"

LEMMA RepaintPainted ==
    ASSUME NEW t, NEW S, Family(t, S), NEW col, NEW B, NEW low, Painted(t, col, S, B, {}, {low}),
           NEW g, NEW e, NEW p, NEW u, RedFamily(t, S, col, low, g, p, u, e),
           NEW col2, Repainted(S, col, col2, g, p, u)
    PROVE  /\ col[g] # "red"
           /\ \E B2 : Painted(t, col2, S, B2, {}, {g})
<1>a. /\ g \in S /\ e \in Side /\ p \in S /\ u \in S /\ t[e][g] = p /\ t[Other(e)][g] = u
      /\ low \in S /\ low # p /\ t.parent[low] = p /\ col[p] = "red" /\ col[u] = "red" /\ col[low] = "red"
  BY DEF RedFamily
<1>b. /\ col2[g] = "red" /\ col2[p] = "black" /\ col2[u] = "black"
      /\ \A a \in (S \cup {Leaf}) \ {g, p, u} : col2[a] = col[a]
  BY DEF Repainted
<1> USE <1>a, <1>b
<1> DEFINE B2 == [B EXCEPT ![p] = @ + 1, ![u] = @ + 1]
<1>1. /\ B \in [S \cup {Leaf} -> Nat] /\ B[Leaf] = 0 /\ col[Leaf] # "red"
      /\ \A n \in S : EvenAt(t, col, B, n)
      /\ \A n \in S, s \in Side : col[n] = "red" /\ col[t[s][n]] = "red" => t[s][n] = low
  BY DEF Painted
<1>2. /\ p # u /\ p # g /\ u # g /\ t.parent[p] = g /\ t.parent[u] = g /\ Other(e) \in Side
      /\ Leaf \notin S
  BY Sides DEF Family
<1>3. col[g] # "red" BY <1>1
<1>4. /\ B2 \in [S \cup {Leaf} -> Nat] /\ B2[Leaf] = 0
      /\ B2[p] = B[p] + 1 /\ B2[u] = B[u] + 1 /\ \A a \in (S \cup {Leaf}) \ {p, u} : B2[a] = B[a]
  BY <1>1, <1>2
<1> HIDE DEF B2
<1>5. ASSUME NEW n \in S PROVE EvenAt(t, col2, B2, n)
  <2>1. EvenAt(t, col, B, n) BY <1>1
  <2>2. CASE n = g
    <3>1. \A x \in Side : t[x][g] = p \/ t[x][g] = u BY Sides
    <3>2. Weight(col, g) = 1 /\ Weight(col2, g) = 0 BY <1>3 DEF Weight
    <3>3. \A x \in Side : B[t[x][g]] \in Nat /\ B2[t[x][g]] = B[t[x][g]] + 1 BY <1>1, <1>4, <3>1
    <3>4. B2[g] = B[g] BY <1>2, <1>4
    <3> QED BY <2>1, <2>2, <3>2, <3>3, <3>4 DEF EvenAt
  <2>3. CASE n # g
    <3>1. \A x \in Side : t[x][n] \in (S \cup {Leaf}) \ {p, u} BY <1>2, <2>3 DEF Family
    <3>2. \A x \in Side : B2[t[x][n]] = B[t[x][n]] /\ B[t[x][n]] \in Nat BY <1>1, <1>4, <3>1
    <3>3. CASE n \in {p, u}
      <4>1. Weight(col, n) = 0 /\ Weight(col2, n) = 1 /\ B2[n] = B[n] + 1 /\ B[n] \in Nat
        BY <1>1, <1>4, <3>3 DEF Weight
      <4> QED BY <2>1, <3>2, <4>1 DEF EvenAt
    <3>4. CASE n \notin {p, u}
      <4>1. Weight(col, n) = Weight(col2, n) /\ B2[n] = B[n] BY <1>4, <2>3, <3>4 DEF Weight
      <4> QED BY <2>1, <3>2, <4>1 DEF EvenAt
    <3> QED BY <3>3, <3>4
  <2> QED BY <2>2, <2>3
<1>6. ASSUME NEW n \in S, NEW s \in Side, col2[n] = "red", col2[t[s][n]] = "red" PROVE t[s][n] = g
  <2>1. n # p /\ n # u /\ t[s][n] # p /\ t[s][n] # u BY <1>6
  <2>2. n # g BY <2>1, Sides
  <2>3. col[n] = "red" BY <1>6, <2>1, <2>2
  <2>4. SUFFICES ASSUME t[s][n] # g PROVE FALSE OBVIOUS
  <2>5. t[s][n] \in (S \cup {Leaf}) \ {g, p, u} BY <2>1, <2>4 DEF Family
  <2>6. col[t[s][n]] = "red" BY <1>6, <2>5
  <2>7. t[s][n] = low BY <1>1, <2>3, <2>6
  <2>8. t.parent[low] = n BY <1>2, <2>7 DEF Family
  <2> QED BY <2>1, <2>8
<1>7. col2[Leaf] # "red" BY <1>1, <1>2
<1>8. Painted(t, col2, S, B2, {}, {g}) BY <1>4, <1>5, <1>6, <1>7 DEF Painted
<1> QED BY <1>3, <1>8

(* insert_case4                                                             *)
LEMMA InnerPainted ==
    ASSUME NEW t, NEW t2, NEW S, Family(t, S), NEW col, NEW B, NEW low \in S, Painted(t, col, S, B, {}, {low}),
           NEW e \in Side, NEW p \in S, t[Other(e)][p] = low, Turned(t, t2, S, p, e, low),
           col[p] = "red", col[low] = "red"
    PROVE  Painted(t2, col, S, B, {}, {p})
<1>1. /\ B \in [S \cup {Leaf} -> Nat] /\ B[Leaf] = 0 /\ col[Leaf] # "red"
      /\ \A n \in S : EvenAt(t, col, B, n)
      /\ \A n \in S, s \in Side : col[n] = "red" /\ col[t[s][n]] = "red" => t[s][n] = low
  BY DEF Painted
<1>2. /\ low # p /\ t.parent[low] = p /\ Other(e) \in Side /\ Leaf \notin S BY Sides DEF Family
<1>3. /\ t2[e][p] = t[e][p] /\ t2[Other(e)][p] = t[e][low]
      /\ t2[e][low] = p /\ t2[Other(e)][low] = t[Other(e)][low]
  BY DEF Turned
<1>4. Weight(col, p) = 0 /\ Weight(col, low) = 0 BY DEF Weight
<1>5. /\ B[p] \in Nat /\ B[low] \in Nat /\ \A n \in S, x \in Side : B[t[x][n]] \in Nat
  BY <1>1 DEF Family
<1>6. B[low] = B[p]
  <2>1. B[p] = B[t[Other(e)][p]] + Weight(col, p) BY <1>1, <1>2 DEF EvenAt
  <2> QED BY <1>4, <1>5, <2>1
<1> DEFINE X == {p, low}
<1>k. Kept(t, t2, S, col, col, B, B, X)
  <2>1. X \in SUBSET S /\ p \in X /\ low \in X /\ \A a \in X : a = p \/ a = low \/ t.parent[a] = low OBVIOUS
  <2>2. Same(S, col, col, B, B, X) BY DEF Same
  <2> HIDE DEF X
  <2> QED BY <1>4, <1>6, <2>1, <2>2, TurnedKept
<1>7. ASSUME NEW n \in S PROVE EvenAt(t2, col, B, n)
  <2>1. EvenAt(t, col, B, n) BY <1>1
  <2>2. CASE n = p
    <3>1. B[p] = B[t[e][p]] + Weight(col, p) /\ B[low] = B[t[e][low]] + Weight(col, low) BY <1>1 DEF EvenAt
    <3>2. B[p] = B[t2[e][p]] + Weight(col, p) /\ B[p] = B[t2[Other(e)][p]] + Weight(col, p)
      BY <1>3, <1>4, <1>6, <3>1
    <3> QED BY <2>2, <3>2, Sides DEF EvenAt
  <2>3. CASE n = low
    <3>1. B[low] = B[t[Other(e)][low]] + Weight(col, low) BY <1>1, <1>2 DEF EvenAt
    <3>2. B[low] = B[t2[e][low]] + Weight(col, low) /\ B[low] = B[t2[Other(e)][low]] + Weight(col, low)
      BY <1>3, <1>4, <1>5, <1>6, <3>1
    <3> QED BY <2>3, <3>2, Sides DEF EvenAt
  <2>4. CASE n \notin {p, low}
    <3>1. n \in S \ {p, low} BY <2>4
    <3> QED BY <1>k, <2>1, <3>1 DEF Kept
  <2> QED BY <2>2, <2>3, <2>4
<1>8. ASSUME NEW n \in S, NEW s \in Side, col[n] = "red", col[t2[s][n]] = "red" PROVE t2[s][n] = p
  <2>0. s = e \/ s = Other(e) BY Sides
  <2>1. CASE n = p
    <3>1. col[t[e][p]] # "red"
      <4>1. t[e][p] # low BY <1>2 DEF Family
      <4> QED BY <1>1, <4>1
    <3>2. col[t[e][low]] # "red"
      <4>1. t[e][low] # low BY DEF Family
      <4> QED BY <1>1, <4>1
    <3> QED BY <1>3, <1>8, <2>0, <2>1, <3>1, <3>2
  <2>2. CASE n = low
    <3>1. col[t[Other(e)][low]] # "red"
      <4>1. t[Other(e)][low] # low BY <1>2 DEF Family
      <4> QED BY <1>1, <1>2, <4>1
    <3> QED BY <1>3, <1>8, <2>0, <2>2, <3>1
  <2>3. CASE n \notin {p, low}
    <3>1. n \in S \ {p, low} BY <2>3
    <3>2. Fine(t, col, n)
      <4>1. \A x \in Side : t[x][n] # low BY <1>2, <2>3 DEF Family
      <4> QED BY <1>1, <4>1 DEF Fine
    <3>3. Fine(t2, col, n) BY <1>k, <3>1, <3>2 DEF Kept
    <3> QED BY <1>8, <3>3 DEF Fine
  <2> QED BY <2>1, <2>2, <2>3
<1> QED BY <1>1, <1>7, <1>8 DEF Painted

(* Both children of a node.                                                 *)
LEMMA BothSides ==
    ASSUME NEW t, NEW col, NEW B, NEW n, NEW e \in Side
    PROVE  /\ EvenAt(t, col, B, n) <=> /\ B[n] = B[t[e][n]] + Weight(col, n)
                                       /\ B[n] = B[t[Other(e)][n]] + Weight(col, n)
           /\ Fine(t, col, n) <=> (col[n] = "red" => col[t[e][n]] # "red" /\ col[t[Other(e)][n]] # "red")
BY Sides DEF EvenAt, Fine

LEMMA PaintedFine ==
    ASSUME NEW t, NEW S, NEW col, NEW B, NEW off, B \in [S \cup {Leaf} -> Nat], B[Leaf] = 0,
           col[Leaf] # "red", \A n \in S \ off : EvenAt(t, col, B, n), \A n \in S : Fine(t, col, n)
    PROVE  Painted(t, col, S, B, off, {})
BY DEF Painted, Fine

LEMMA FinePainted ==
    ASSUME NEW t, NEW S, NEW col, NEW B, NEW off, NEW exc, Painted(t, col, S, B, off, exc)
    PROVE  /\ B \in [S \cup {Leaf} -> Nat] /\ B[Leaf] = 0
           /\ col[Leaf] # "red" /\ \A n \in S \ off : EvenAt(t, col, B, n)
           /\ \A n \in S : (\A s \in Side : t[s][n] \notin exc) => Fine(t, col, n)
BY DEF Painted, Fine

(* insert_case5                                                             *)
LEMMA OuterPainted ==
    ASSUME NEW t, NEW t2, NEW S, Family(t, S), NEW col, NEW B, NEW low \in S, Painted(t, col, S, B, {}, {low}),
           NEW e \in Side, NEW p \in S, t[e][p] = low, NEW g \in S, t[e][g] = p,
           Turned(t, t2, S, g, Other(e), p), col[p] = "red", col[t[Other(e)][g]] # "red",
           NEW col2, col2[g] = "red", col2[p] = "black", \A a \in (S \cup {Leaf}) \ {g, p} : col2[a] = col[a]
    PROVE  /\ col[g] # "red"
           /\ \E B2 : Painted(t2, col2, S, B2, {}, {})
<1> DEFINE B2 == [B EXCEPT ![g] = @ - 1, ![p] = @ + 1]
           X == {g, p}
           inner == t[Other(e)][p]
           u == t[Other(e)][g]
<1>1. /\ B \in [S \cup {Leaf} -> Nat] /\ B[Leaf] = 0 /\ col[Leaf] # "red"
      /\ \A n \in S : EvenAt(t, col, B, n)
      /\ \A n \in S, s \in Side : col[n] = "red" /\ col[t[s][n]] = "red" => t[s][n] = low
      /\ \A n \in S : (\A s \in Side : t[s][n] # low) => Fine(t, col, n)
  <2>1. /\ B \in [S \cup {Leaf} -> Nat] /\ B[Leaf] = 0 /\ col[Leaf] # "red"
        /\ \A n \in S : EvenAt(t, col, B, n)
        /\ \A n \in S, s \in Side : col[n] = "red" /\ col[t[s][n]] = "red" => t[s][n] = low
    BY DEF Painted
  <2> QED BY <2>1 DEF Fine
<1>2. /\ p # g /\ t.parent[p] = g /\ t.parent[low] = p /\ Other(e) \in Side /\ Other(Other(e)) = e
      /\ Leaf \notin S /\ low # p /\ low # g
      /\ u \in (S \cup {Leaf}) \ {g, p} /\ inner \in (S \cup {Leaf}) \ {g, p} /\ inner # low
  BY Sides DEF Family
<1>3. col[g] # "red" BY <1>1, <1>2
<1>4. /\ t2[Other(e)][g] = u /\ t2[e][g] = inner
      /\ t2[Other(e)][p] = g /\ t2[e][p] = low
  BY <1>2 DEF Turned
<1>5. /\ Weight(col, p) = 0 /\ Weight(col, g) = 1 /\ Weight(col2, p) = 1 /\ Weight(col2, g) = 0
  BY <1>3 DEF Weight
<1>6. /\ B[g] \in Nat /\ B[p] \in Nat /\ B[u] \in Nat /\ B[inner] \in Nat /\ B[low] \in Nat
  BY <1>1, <1>2
<1>7. /\ B[g] = B[p] + 1 /\ B[g] = B[u] + 1 /\ B[p] = B[low] /\ B[p] = B[inner]
  <2>1. EvenAt(t, col, B, g) /\ EvenAt(t, col, B, p) BY <1>1
  <2> HIDE DEF inner, u
  <2>2. B[g] = B[p] + Weight(col, g) /\ B[g] = B[u] + Weight(col, g) BY <1>2, <2>1 DEF EvenAt, u
  <2>3. B[p] = B[low] + Weight(col, p) /\ B[p] = B[inner] + Weight(col, p) BY <1>2, <2>1 DEF EvenAt, inner
  <2> QED BY <1>5, <1>6, <2>2, <2>3
<1>8. /\ B2 \in [S \cup {Leaf} -> Nat] /\ B2[Leaf] = 0
      /\ B2[g] = B[g] - 1 /\ B2[p] = B[p] + 1 /\ \A a \in (S \cup {Leaf}) \ {g, p} : B2[a] = B[a]
  BY <1>1, <1>2, <1>6, <1>7
<1> HIDE DEF B2, inner, u
<1>9. Kept(t, t2, S, col, col2, B, B2, X)
  <2>1. X \in SUBSET S /\ g \in X /\ p \in X /\ \A a \in X : a = g \/ a = p \/ t.parent[a] = p OBVIOUS
  <2>2. Same(S, col, col2, B, B2, X) BY <1>8 DEF Same
  <2>3. B2[p] = B[g] /\ (col2[p] = "red" => col[g] = "red") BY <1>7, <1>8
  <2> HIDE DEF X
  <2> QED BY <1>2, <2>1, <2>2, <2>3, TurnedKept
<1>10. B2[u] = B[u] /\ B2[inner] = B[inner] /\ B2[low] = B[low] BY <1>2, <1>8
<1>11. EvenAt(t2, col2, B2, g)
  <2>1. B2[g] = B2[t2[e][g]] + Weight(col2, g) BY <1>4, <1>5, <1>6, <1>7, <1>8, <1>10
  <2>2. B2[g] = B2[t2[Other(e)][g]] + Weight(col2, g) BY <1>4, <1>5, <1>6, <1>7, <1>8, <1>10
  <2> QED BY <2>1, <2>2, BothSides
<1>12. EvenAt(t2, col2, B2, p)
  <2>1. B2[p] = B2[t2[e][p]] + Weight(col2, p) BY <1>4, <1>5, <1>6, <1>7, <1>8, <1>10
  <2>2. B2[p] = B2[t2[Other(e)][p]] + Weight(col2, p) BY <1>4, <1>5, <1>6, <1>7, <1>8, <1>10
  <2> QED BY <2>1, <2>2, BothSides
<1>13. Fine(t2, col2, g)
  <2>1. col[inner] # "red" BY <1>1, <1>2 DEF inner
  <2>2. col2[inner] # "red" /\ col2[u] # "red" BY <1>2, <2>1 DEF u
  <2> QED BY <1>4, <2>2, BothSides
<1>14. Fine(t2, col2, p) BY DEF Fine
<1>15. ASSUME NEW n \in S PROVE EvenAt(t2, col2, B2, n) /\ Fine(t2, col2, n)
  <2>1. CASE n \in {g, p} BY <1>11, <1>12, <1>13, <1>14, <2>1
  <2>2. CASE n \notin {g, p}
    <3>1. n \in S \ X BY <2>2
    <3>2. \A s \in Side : t[s][n] # low BY <1>2, <2>2 DEF Family
    <3> QED BY <1>1, <1>9, <3>1, <3>2 DEF Kept
  <2> QED BY <2>1, <2>2
<1>16. col2[Leaf] # "red" BY <1>1, <1>2
<1>17. Painted(t2, col2, S, B2, {}, {}) BY <1>8, <1>15, <1>16, PaintedFine
<1> QED BY <1>3, <1>17

(* insert_case1: the root turns black.                                      *)
LEMMA RootPainted ==
    ASSUME NEW t, NEW S, Family(t, S), NEW col, NEW B, NEW low \in S, Painted(t, col, S, B, {}, {low}),
           \A n \in S, x \in Side : t[x][n] # low, col[low] = "red",
           NEW col2, col2[low] = "black", \A a \in (S \cup {Leaf}) \ {low} : col2[a] = col[a]
    PROVE  \E B2 : Painted(t, col2, S, B2, {}, {})
<1> DEFINE B2 == [B EXCEPT ![low] = @ + 1]
<1>1. /\ B \in [S \cup {Leaf} -> Nat] /\ B[Leaf] = 0 /\ col[Leaf] # "red"
      /\ \A n \in S : EvenAt(t, col, B, n)
      /\ \A n \in S, s \in Side : col[n] = "red" /\ col[t[s][n]] = "red" => t[s][n] = low
  BY DEF Painted
<1>2. Leaf \notin S /\ \A n \in S, x \in Side : t[x][n] \in (S \cup {Leaf}) \ {low} BY DEF Family
<1>3. /\ B2 \in [S \cup {Leaf} -> Nat] /\ B2[Leaf] = 0 /\ B2[low] = B[low] + 1
      /\ \A a \in (S \cup {Leaf}) \ {low} : B2[a] = B[a]
  BY <1>1, <1>2
<1> HIDE DEF B2
<1>4. ASSUME NEW n \in S PROVE EvenAt(t, col2, B2, n) /\ Fine(t, col2, n)
  <2>1. EvenAt(t, col, B, n) BY <1>1
  <2>2. \A x \in Side : B2[t[x][n]] = B[t[x][n]] /\ col2[t[x][n]] = col[t[x][n]] /\ B[t[x][n]] \in Nat
    BY <1>1, <1>2, <1>3
  <2>3. CASE n = low
    <3>1. Weight(col, n) = 0 /\ Weight(col2, n) = 1 BY <2>3 DEF Weight
    <3>2. EvenAt(t, col2, B2, n) BY <1>3, <2>1, <2>2, <2>3, <3>1 DEF EvenAt
    <3> QED BY <2>3, <3>2 DEF Fine
  <2>4. CASE n # low
    <3>1. Weight(col2, n) = Weight(col, n) /\ B2[n] = B[n] /\ col2[n] = col[n] BY <1>3, <2>4 DEF Weight
    <3>2. EvenAt(t, col2, B2, n) BY <2>1, <2>2, <3>1 DEF EvenAt
    <3>3. Fine(t, col2, n) BY <1>1, <1>2, <2>2, <3>1 DEF Fine
    <3> QED BY <3>2, <3>3
  <2> QED BY <2>3, <2>4
<1>5. col2[Leaf] # "red" BY <1>1, <1>2
<1>6. Painted(t, col2, S, B2, {}, {}) BY <1>3, <1>4, <1>5, PaintedFine
<1> QED BY <1>6

(* A new red node.                                                          *)
HungB(S, B, n) == [a \in S \cup {n} \cup {Leaf} |-> IF a = n THEN 0 ELSE B[a]]

LEMMA HungPainted ==
    ASSUME NEW t, NEW t2, NEW S, Family(t, S), NEW col, NEW B, Painted(t, col, S, B, {}, {}),
           NEW n, NEW p, NEW d \in Side, Hung(t, t2, S, Leaf, n, p, d),
           NEW col2, col2[n] = "red", \A a \in S \cup {Leaf} : col2[a] = col[a]
    PROVE  Painted(t2, col2, S \cup {n}, HungB(S, B, n), {}, {n})
<1> DEFINE B2 == HungB(S, B, n)
<1>1. /\ B \in [S \cup {Leaf} -> Nat] /\ B[Leaf] = 0 /\ col[Leaf] # "red"
      /\ \A a \in S : EvenAt(t, col, B, a) /\ Fine(t, col, a)
  BY DEF Painted, Fine
<1>2. n \notin S /\ n # Leaf BY DEF Hung
<1>3. /\ B2 \in [S \cup {n} \cup {Leaf} -> Nat] /\ B2[Leaf] = 0 /\ B2[n] = 0
      /\ \A a \in S \cup {Leaf} : B2[a] = B[a]
  BY <1>1, <1>2 DEF HungB
<1>4. col2[Leaf] # "red" BY <1>1
<1> HIDE DEF B2
<1>5. EvenAt(t2, col2, B2, n)
  <2>1. Weight(col2, n) = 0 BY DEF Weight
  <2> QED BY <1>3, <2>1 DEF EvenAt, Hung
<1>6. Fine(t2, col2, n) BY <1>4 DEF Fine, Hung
<1>7. ASSUME NEW a \in S, NEW x \in Side
      PROVE  /\ B2[a] = B2[t2[x][a]] + Weight(col2, a)
             /\ col2[a] = "red" /\ col2[t2[x][a]] = "red" => t2[x][a] = n
  <2>1. t[x][a] \in S \cup {Leaf} BY DEF Family
  <2>2. B[a] = B[t[x][a]] + Weight(col, a) BY <1>1 DEF EvenAt
  <2>3. Weight(col2, a) = Weight(col, a) /\ col2[a] = col[a] BY DEF Weight
  <2>4. CASE a = p /\ x = d
    <3>1. t[x][a] = Leaf /\ t2[x][a] = n BY <2>4 DEF Hung
    <3> QED BY <1>1, <1>3, <2>2, <2>3, <3>1
  <2>5. CASE ~(a = p /\ x = d)
    <3>1. t2[x][a] = t[x][a] BY <2>5 DEF Hung
    <3>2. col[a] = "red" => col[t[x][a]] # "red" BY <1>1 DEF Fine
    <3> QED BY <1>3, <2>1, <2>2, <2>3, <3>1, <3>2
  <2> QED BY <2>4, <2>5
<1>8. \A a \in S \cup {n} : EvenAt(t2, col2, B2, a) BY <1>5, <1>7 DEF EvenAt
<1>9. \A a \in S \cup {n}, x \in Side : col2[a] = "red" /\ col2[t2[x][a]] = "red" => t2[x][a] = n
  BY <1>6, <1>7 DEF Fine
<1>10. (S \cup {n}) \ {} = S \cup {n} OBVIOUS
<1> QED BY <1>3, <1>4, <1>8, <1>9, <1>10 DEF Painted, B2

-----------------------------------------------------------------------------
SplicedB(S, B, r) == [a \in (S \ {r}) \cup {Leaf} |-> B[a]]

(* r is taken out: its child has as many black nodes under it, or r was     *)
(* black and so is the child, and there are too few where r was.            *)
LEMMA SplicedPainted ==
    ASSUME NEW t, NEW t2, NEW S, Family(t, S), NEW col, NEW B, Painted(t, col, S, B, {}, {}),
           NEW r \in S, NEW s0 \in Side, NEW ch, Spliced(t, t2, S, Leaf, r, ch, s0),
           NEW off, col[r] = "red" \/ (col[ch] # "red" /\ \A a \in (S \ {r}) \ off, x \in Side : t[x][a] # r)
    PROVE  Painted(t2, col, S \ {r}, SplicedB(S, B, r), off, {})
<1> DEFINE B2 == SplicedB(S, B, r)
<1>1. /\ B \in [S \cup {Leaf} -> Nat] /\ B[Leaf] = 0 /\ col[Leaf] # "red"
      /\ \A a \in S : EvenAt(t, col, B, a) /\ Fine(t, col, a)
  BY DEF Painted, Fine
<1>2. /\ ch = t[Other(s0)][r] /\ Other(s0) \in Side /\ Leaf \notin S
      /\ ch \in (S \ {r}) \cup {Leaf}
  BY Sides DEF Spliced, Family
<1>3. /\ B2 \in [(S \ {r}) \cup {Leaf} -> Nat] /\ B2[Leaf] = 0
      /\ \A a \in (S \ {r}) \cup {Leaf} : B2[a] = B[a]
  BY <1>1, <1>2 DEF SplicedB
<1> HIDE DEF B2
<1>4. B[r] = B[ch] + Weight(col, r) BY <1>1, <1>2 DEF EvenAt
<1>5. B[ch] \in Nat BY <1>1, <1>2
<1>6. ASSUME NEW a \in S \ {r}, NEW x \in Side
      PROVE  /\ t[x][a] # r => B2[t2[x][a]] = B[t[x][a]] /\ col[t2[x][a]] = col[t[x][a]]
             /\ t[x][a] = r => t2[x][a] = ch /\ B2[t2[x][a]] = B[ch]
  <2>1. t2[x][a] = IF t[x][a] = r THEN ch ELSE t[x][a] BY DEF Spliced
  <2>2. t[x][a] \in S \cup {Leaf} BY DEF Family
  <2> QED BY <1>2, <1>3, <2>1, <2>2
<1>7. ASSUME NEW a \in (S \ {r}) \ off PROVE EvenAt(t2, col, B2, a)
  <2>1. B2[a] = B[a] BY <1>3
  <2>2. \A x \in Side : B2[t2[x][a]] = B[t[x][a]]
    <3>1. CASE col[r] = "red"
      <4>1. B[r] = B[ch] BY <1>4, <1>5, <3>1 DEF Weight
      <4> QED BY <1>6, <4>1
    <3>2. CASE col[r] # "red" BY <1>6, <3>2
    <3> QED BY <3>1, <3>2
  <2> QED BY <1>1, <2>1, <2>2 DEF EvenAt
<1>8. ASSUME NEW a \in S \ {r} PROVE Fine(t2, col, a)
  <2> SUFFICES ASSUME NEW x \in Side, col[a] = "red", col[t2[x][a]] = "red" PROVE FALSE BY DEF Fine
  <2>1. col[t[x][a]] # "red" BY <1>1 DEF Fine
  <2>2. t[x][a] = r /\ col[ch] = "red" BY <1>6, <2>1
  <2> QED BY <2>1, <2>2
<1> QED BY <1>1, <1>3, <1>7, <1>8, PaintedFine DEF B2

(* r was black, its child red: the child turns black.                       *)
Blackened(S, col, col2, ch) ==
    col2[ch] = "black" /\ \A a \in (S \cup {Leaf}) \ {ch} : col2[a] = col[a]

LEMMA BlackenedPainted ==
    ASSUME NEW t, NEW t2, NEW S, Family(t, S), NEW col, NEW B, Painted(t, col, S, B, {}, {}),
           NEW r \in S, NEW s0 \in Side, NEW ch, Spliced(t, t2, S, Leaf, r, ch, s0),
           col[r] # "red", col[ch] = "red",
           NEW col2, Blackened(S, col, col2, ch)
    PROVE  \E B2 : Painted(t2, col2, S \ {r}, B2, {}, {})
<1>0. col2[ch] = "black" /\ \A a \in (S \cup {Leaf}) \ {ch} : col2[a] = col[a] BY DEF Blackened
<1> USE <1>0
<1> DEFINE B2 == [SplicedB(S, B, r) EXCEPT ![ch] = @ + 1]
<1>1. /\ B \in [S \cup {Leaf} -> Nat] /\ B[Leaf] = 0 /\ col[Leaf] # "red"
      /\ \A a \in S : EvenAt(t, col, B, a) /\ Fine(t, col, a)
  BY DEF Painted, Fine
<1>2. /\ ch = t[Other(s0)][r] /\ Other(s0) \in Side /\ Leaf \notin S
      /\ ch \in S \ {r} /\ t.parent[ch] = r /\ \A x \in Side : t[x][ch] # r
  BY <1>1, Sides DEF Spliced, Family
<1>3. /\ B2 \in [(S \ {r}) \cup {Leaf} -> Nat] /\ B2[Leaf] = 0 /\ B2[ch] = B[ch] + 1
      /\ \A a \in ((S \ {r}) \cup {Leaf}) \ {ch} : B2[a] = B[a]
  BY <1>1, <1>2 DEF SplicedB
<1> HIDE DEF B2
<1>4. B[r] = B[ch] + 1
  <2>1. Weight(col, r) = 1 BY DEF Weight
  <2> QED BY <1>1, <1>2, <2>1 DEF EvenAt
<1>5. ASSUME NEW a \in S \ {r}, NEW x \in Side
      PROVE  B2[t2[x][a]] = B[t[x][a]] /\ (col2[t2[x][a]] = "red" => col[t[x][a]] = "red")
  <2>1. t2[x][a] = IF t[x][a] = r THEN ch ELSE t[x][a] BY DEF Spliced
  <2>2. t[x][a] \in S \cup {Leaf} BY DEF Family
  <2>3. t[x][a] # ch BY <1>2 DEF Family
  <2> QED BY <1>2, <1>3, <1>4, <2>1, <2>2, <2>3
<1>6. ASSUME NEW a \in S \ {r} PROVE EvenAt(t2, col2, B2, a) /\ Fine(t2, col2, a)
  <2>1. EvenAt(t, col, B, a) /\ Fine(t, col, a) BY <1>1
  <2>2. CASE a = ch
    <3>1. Weight(col, a) = 0 /\ Weight(col2, a) = 1 BY <2>2 DEF Weight
    <3>2. \A x \in Side : B[t[x][a]] \in Nat BY <1>1 DEF Family
    <3>3. EvenAt(t2, col2, B2, a) BY <1>3, <1>5, <2>1, <2>2, <3>1, <3>2 DEF EvenAt
    <3> QED BY <2>2, <3>3 DEF Fine
  <2>3. CASE a # ch
    <3>1. Weight(col2, a) = Weight(col, a) /\ B2[a] = B[a] /\ col2[a] = col[a] BY <1>3, <2>3 DEF Weight
    <3>2. EvenAt(t2, col2, B2, a) BY <1>5, <2>1, <3>1 DEF EvenAt
    <3>3. Fine(t2, col2, a) BY <1>5, <2>1, <3>1 DEF Fine
    <3> QED BY <3>2, <3>3
  <2> QED BY <2>2, <2>3
<1>7. col2[Leaf] # "red" BY <1>1, <1>2
<1> HIDE DEF B2
<1>8. Painted(t2, col2, S \ {r}, B2, {}, {}) BY <1>3, <1>6, <1>7, PaintedFine
<1> QED BY <1>8

(* low, on the side d of p, has one black node too few under it.            *)
Short(t, col, S, B, p, d, low) ==
    /\ Painted(t, col, S, B, {p}, {}) /\ p \in S /\ d \in Side
    /\ t[d][p] = low /\ low \in S \cup {Leaf} /\ col[low] # "red"
    /\ B[t[Other(d)][p]] = B[low] + 1 /\ B[p] = B[low] + 1 + Weight(col, p)

LEMMA ShortSibling ==
    ASSUME NEW t, NEW S, Family(t, S), NEW col, NEW B, NEW p, NEW d, NEW low,
           Short(t, col, S, B, p, d, low)
    PROVE  /\ t[Other(d)][p] \in S /\ t[Other(d)][p] \notin {p, low} /\ t.parent[t[Other(d)][p]] = p
           /\ Other(d) \in Side /\ low # p /\ Leaf \notin S
           /\ B[low] \in Nat /\ low \in S \cup {Leaf} /\ p \in S /\ d \in Side
<1> DEFINE s == t[Other(d)][p]
<1>1. /\ B \in [S \cup {Leaf} -> Nat] /\ B[Leaf] = 0 /\ p \in S /\ d \in Side /\ Other(d) \in Side
      /\ t[d][p] = low /\ low \in S \cup {Leaf} /\ B[s] = B[low] + 1
      /\ Other(Other(d)) = d
  BY Sides DEF Short, Painted
<1>2. s \in S \cup {Leaf} /\ low # p BY <1>1 DEF Family
<1>3. B[low] \in Nat BY <1>1
<1>4. s # Leaf BY <1>1, <1>3
<1>5. s # p /\ t.parent[s] = p /\ t[d][p] # s BY <1>1, <1>4 DEF Family
<1> QED BY <1>1, <1>2, <1>3, <1>4, <1>5 DEF Family

(* remove_case2                                                             *)
RedSibling(S, col, col2, p, s) ==
    col2[p] = "red" /\ col2[s] = "black" /\ \A a \in (S \cup {Leaf}) \ {p, s} : col2[a] = col[a]

LEMMA RedSiblingPainted ==
    ASSUME NEW t, NEW t2, NEW S, Family(t, S), NEW col, NEW B, NEW p, NEW d, NEW low, NEW s,
           Short(t, col, S, B, p, d, low), s = t[Other(d)][p], Turned(t, t2, S, p, d, s),
           col[s] = "red",
           NEW col2, RedSibling(S, col, col2, p, s)
    PROVE  /\ \E B2 : Short(t2, col2, S, B2, p, d, low)
           /\ col2[t2[Other(d)][p]] # "red"
           /\ col[p] # "red"
<1>a. col2[p] = "red" /\ col2[s] = "black" /\ \A a \in (S \cup {Leaf}) \ {p, s} : col2[a] = col[a]
  BY DEF RedSibling
<1> USE <1>a
<1> DEFINE B2 == [B EXCEPT ![p] = @ - 1, ![s] = @ + 1]
           X == {p, s}
           near == t[d][s]
           far == t[Other(d)][s]
<1>0. /\ s \in S /\ s \notin {p, low} /\ t.parent[s] = p /\ Other(d) \in Side /\ low # p /\ Leaf \notin S
      /\ B[low] \in Nat /\ low \in S \cup {Leaf} /\ p \in S /\ d \in Side
  BY ShortSibling
<1>1. /\ B \in [S \cup {Leaf} -> Nat] /\ B[Leaf] = 0 /\ col[Leaf] # "red"
      /\ \A n \in S \ {p} : EvenAt(t, col, B, n)
      /\ \A n \in S : Fine(t, col, n)
      /\ B[s] = B[low] + 1 /\ B[p] = B[low] + 1 + Weight(col, p) /\ t[d][p] = low /\ col[low] # "red"
  BY DEF Short, Painted, Fine
<1>2. col[p] # "red" BY <1>0, <1>1 DEF Fine
<1>3. /\ near \in (S \cup {Leaf}) \ {p, s} /\ far \in (S \cup {Leaf}) \ {p, s} BY <1>0 DEF Family
<1>4. /\ t2[d][p] = low /\ t2[Other(d)][p] = near /\ t2[d][s] = p /\ t2[Other(d)][s] = far
  BY <1>1 DEF Turned
<1>5. /\ Weight(col, p) = 1 /\ Weight(col, s) = 0 /\ Weight(col2, p) = 0 /\ Weight(col2, s) = 1
  BY <1>2 DEF Weight
<1>6. /\ B[p] = B[low] + 2 /\ B[s] = B[low] + 1 /\ B[near] = B[low] + 1 /\ B[far] = B[low] + 1
      /\ col[near] # "red" /\ col[far] # "red"
  <2>1. EvenAt(t, col, B, s) /\ Fine(t, col, s) BY <1>0, <1>1
  <2>2. B[s] = B[near] + Weight(col, s) /\ B[s] = B[far] + Weight(col, s) BY <1>0, <2>1 DEF EvenAt
  <2>3. B[near] \in Nat /\ B[far] \in Nat BY <1>1, <1>3
  <2>4. col[near] # "red" /\ col[far] # "red" BY <1>0, <2>1 DEF Fine
  <2> HIDE DEF near, far
  <2> QED BY <1>0, <1>1, <1>5, <2>2, <2>3, <2>4
<1> HIDE DEF near, far
<1>7. /\ B2 \in [S \cup {Leaf} -> Nat] /\ B2[Leaf] = 0
      /\ B2[p] = B[low] + 1 /\ B2[s] = B[low] + 2 /\ \A a \in (S \cup {Leaf}) \ {p, s} : B2[a] = B[a]
  BY <1>0, <1>1, <1>6
<1> HIDE DEF B2
<1>8. Kept(t, t2, S, col, col2, B, B2, X)
  <2>1. X \in SUBSET S /\ p \in X /\ s \in X /\ \A a \in X : a = p \/ a = s \/ t.parent[a] = s BY <1>0
  <2>2. Same(S, col, col2, B, B2, X) BY <1>7 DEF Same
  <2>3. B2[s] = B[p] /\ (col2[s] = "red" => col[p] = "red") BY <1>6, <1>7
  <2> HIDE DEF X
  <2> QED BY <1>0, <2>1, <2>2, <2>3, TurnedKept
<1>9. /\ B2[low] = B[low] /\ B2[near] = B[near] /\ B2[far] = B[far]
      /\ col2[low] = col[low] /\ col2[near] = col[near] /\ col2[far] = col[far]
  BY <1>0, <1>3, <1>7
<1>10. EvenAt(t2, col2, B2, s)
  <2>1. B2[s] = B2[t2[d][s]] + Weight(col2, s) BY <1>0, <1>4, <1>5, <1>7
  <2>2. B2[s] = B2[t2[Other(d)][s]] + Weight(col2, s) BY <1>0, <1>4, <1>5, <1>6, <1>7, <1>9
  <2> QED BY <1>0, <2>1, <2>2, BothSides
<1>11. Fine(t2, col2, s) /\ Fine(t2, col2, p)
  <2>1. Fine(t2, col2, s) BY DEF Fine
  <2>2. col2[t2[d][p]] # "red" /\ col2[t2[Other(d)][p]] # "red" BY <1>1, <1>4, <1>6, <1>9
  <2> QED BY <1>0, <2>1, <2>2, BothSides
<1>12. ASSUME NEW n \in S PROVE Fine(t2, col2, n) /\ (n # p => EvenAt(t2, col2, B2, n))
  <2>1. CASE n \in {p, s} BY <1>10, <1>11, <2>1
  <2>2. CASE n \notin {p, s}
    <3>1. n \in S \ X /\ n \in S \ {p} BY <2>2
    <3> QED BY <1>1, <1>8, <3>1 DEF Kept
  <2> QED BY <2>1, <2>2
<1>13. col2[Leaf] # "red" BY <1>0, <1>1
<1>14. \A n \in S \ {p} : EvenAt(t2, col2, B2, n) BY <1>12
<1>15. \A n \in S : Fine(t2, col2, n) BY <1>12
<1>16. Painted(t2, col2, S, B2, {p}, {}) BY <1>7, <1>13, <1>14, <1>15, PaintedFine
<1>17. /\ B2[t2[Other(d)][p]] = B2[low] + 1 /\ B2[p] = B2[low] + 1 + Weight(col2, p)
  BY <1>0, <1>4, <1>5, <1>6, <1>7, <1>9
<1>18. col2[low] # "red" /\ col2[t2[Other(d)][p]] # "red" BY <1>1, <1>4, <1>6, <1>9
<1>19. Short(t2, col2, S, B2, p, d, low) BY <1>0, <1>4, <1>16, <1>17, <1>18 DEF Short
<1> QED BY <1>2, <1>18, <1>19

(* remove_case3 and remove_case4: the sibling turns red and what is missing *)
(* is missing under p, or p was red and makes up for it.                    *)
Redder(S, col, col2, p, s) ==
    col2[p] # "red" /\ col2[s] = "red" /\ \A a \in (S \cup {Leaf}) \ {p, s} : col2[a] = col[a]
RedderB(S, col, B, B2, p, s, low) ==
    /\ B2[p] = B[low] + 1 /\ B[p] = B2[p] + Weight(col, p)
    /\ \A a \in (S \cup {Leaf}) \ {p, s} : B2[a] = B[a]
Alone(t, S, col, p, off) == col[p] # "red" => \A n \in S \ off, x \in Side : t[x][n] # p

LEMMA RedderPainted ==
    ASSUME NEW t, NEW S, Family(t, S), NEW col, NEW B, NEW p, NEW d, NEW low, NEW s,
           Short(t, col, S, B, p, d, low), s = t[Other(d)][p],
           col[s] # "red", \A x \in Side : col[t[x][s]] # "red",
           NEW col2, Redder(S, col, col2, p, s), NEW off, Alone(t, S, col, p, off)
    PROVE  \E B2 : Painted(t, col2, S, B2, off, {}) /\ RedderB(S, col, B, B2, p, s, low)
<1>a. col2[p] # "red" /\ col2[s] = "red" /\ \A a \in (S \cup {Leaf}) \ {p, s} : col2[a] = col[a]
  BY DEF Redder
<1>b. col[p] # "red" => \A n \in S \ off, x \in Side : t[x][n] # p BY DEF Alone
<1> USE <1>a, <1>b
<1> DEFINE B2 == [B EXCEPT ![s] = B[low], ![p] = B[low] + 1]
<1>0. /\ s \in S /\ s \notin {p, low} /\ t.parent[s] = p /\ Other(d) \in Side /\ low # p /\ Leaf \notin S
      /\ B[low] \in Nat /\ low \in S \cup {Leaf} /\ p \in S /\ d \in Side
  BY ShortSibling
<1>1. /\ B \in [S \cup {Leaf} -> Nat] /\ B[Leaf] = 0 /\ col[Leaf] # "red"
      /\ \A n \in S \ {p} : EvenAt(t, col, B, n)
      /\ \A n \in S : Fine(t, col, n)
      /\ B[s] = B[low] + 1 /\ B[p] = B[low] + 1 + Weight(col, p) /\ t[d][p] = low /\ col[low] # "red"
  BY DEF Short, Painted, Fine
<1>2. /\ B2 \in [S \cup {Leaf} -> Nat] /\ B2[Leaf] = 0 /\ B2[s] = B[low] /\ B2[p] = B[low] + 1
      /\ \A a \in (S \cup {Leaf}) \ {p, s} : B2[a] = B[a]
  BY <1>0, <1>1
<1> HIDE DEF B2
<1>3. B[p] = B2[p] + Weight(col, p) BY <1>1, <1>2
<1>4. Weight(col, s) = 1 /\ Weight(col2, s) = 0 /\ Weight(col2, p) = 1 BY DEF Weight
<1>5. EvenAt(t, col2, B2, p)
  <2>1. B2[p] = B2[t[d][p]] + Weight(col2, p) BY <1>0, <1>1, <1>2, <1>4
  <2>2. B2[p] = B2[t[Other(d)][p]] + Weight(col2, p) BY <1>0, <1>1, <1>2, <1>4
  <2>3. \A x \in Side : x = d \/ x = Other(d) BY <1>0, Sides
  <2> QED BY <2>1, <2>2, <2>3 DEF EvenAt
<1>6. EvenAt(t, col2, B2, s) /\ Fine(t, col2, s)
  <2>1. EvenAt(t, col, B, s) BY <1>0, <1>1
  <2>2. ASSUME NEW x \in Side PROVE B2[s] = B2[t[x][s]] + Weight(col2, s) /\ col2[t[x][s]] # "red"
    <3>1. t[x][s] \in (S \cup {Leaf}) \ {p, s} BY <1>0 DEF Family
    <3>2. B[s] = B[t[x][s]] + Weight(col, s) BY <2>1 DEF EvenAt
    <3>3. B[t[x][s]] \in Nat /\ B2[t[x][s]] = B[t[x][s]] /\ col2[t[x][s]] = col[t[x][s]] BY <1>1, <1>2, <3>1
    <3>4. B[t[x][s]] = B[low] BY <1>0, <1>1, <1>4, <3>2, <3>3
    <3> DEFINE v == B2[t[x][s]]
               w == B2[s]
    <3>6. v = B[low] /\ w = B[low] BY <1>2, <3>3, <3>4
    <3> HIDE DEF v, w
    <3>7. w = v + Weight(col2, s) BY <1>0, <1>4, <3>6
    <3>5. B2[s] = B2[t[x][s]] + Weight(col2, s) BY <3>7 DEF v, w
    <3> QED BY <3>3, <3>5
  <2> QED BY <2>2 DEF EvenAt, Fine
<1>7. ASSUME NEW n \in S \ {p, s}
      PROVE  (n \notin off => EvenAt(t, col2, B2, n)) /\ Fine(t, col2, n)
  <2>1. EvenAt(t, col, B, n) /\ Fine(t, col, n) BY <1>1
  <2>2. Weight(col2, n) = Weight(col, n) /\ B2[n] = B[n] /\ col2[n] = col[n] BY <1>2 DEF Weight
  <2>3. ASSUME NEW x \in Side
        PROVE /\ col2[t[x][n]] = "red" => col[t[x][n]] = "red"
              /\ n \notin off => B2[t[x][n]] = B[t[x][n]]
    <3>1. t[x][n] \in (S \cup {Leaf}) \ {s} BY <1>0 DEF Family
    <3>2. CASE t[x][n] = p
      <4>1. n \notin off => col[p] = "red" BY <3>2
      <4>2. n \notin off => B[p] = B[low] + 1 BY <1>0, <1>1, <4>1 DEF Weight
      <4> QED BY <1>2, <3>2, <4>2
    <3>3. CASE t[x][n] # p BY <1>2, <3>1, <3>3
    <3> QED BY <3>2, <3>3
  <2>4. n \notin off => EvenAt(t, col2, B2, n) BY <2>1, <2>2, <2>3 DEF EvenAt
  <2>5. Fine(t, col2, n) BY <2>1, <2>2, <2>3 DEF Fine
  <2> QED BY <2>4, <2>5
<1>8. \A n \in S \ off : EvenAt(t, col2, B2, n) BY <1>5, <1>6, <1>7
<1>9. Fine(t, col2, p) BY DEF Fine
<1>10. \A n \in S : Fine(t, col2, n) BY <1>6, <1>7, <1>9
<1>11. col2[Leaf] # "red" BY <1>0, <1>1
<1>12. Painted(t, col2, S, B2, off, {}) BY <1>2, <1>8, <1>10, <1>11, PaintedFine
<1>13. RedderB(S, col, B, B2, p, s, low) BY <1>2, <1>3 DEF RedderB
<1> QED BY <1>12, <1>13

(* remove_case5                                                             *)
NearRed(S, col, col2, s, near) ==
    /\ col2[s] = "red" /\ col2[near] = "black"
    /\ \A a \in (S \cup {Leaf}) \ {s, near} : col2[a] = col[a]

NearOf(t, S, col, p, d, s, near) ==
    /\ s = t[Other(d)][p] /\ near = t[d][s] /\ near \in S
    /\ col[s] # "red" /\ col[near] = "red" /\ col[t[Other(d)][s]] # "red"

LEMMA NearPainted ==
    ASSUME NEW t, NEW t2, NEW S, Family(t, S), NEW col, NEW B, NEW p, NEW d, NEW low, NEW s, NEW near,
           Short(t, col, S, B, p, d, low), Turned(t, t2, S, s, Other(d), near),
           NearOf(t, S, col, p, d, s, near),
           NEW col2, NearRed(S, col, col2, s, near)
    PROVE  /\ \E B2 : Short(t2, col2, S, B2, p, d, low)
           /\ t2[Other(d)][p] = near /\ t2[Other(d)][near] = s
<1>a. /\ col2[s] = "red" /\ col2[near] = "black"
      /\ \A a \in (S \cup {Leaf}) \ {s, near} : col2[a] = col[a]
  BY DEF NearRed
<1>b. /\ s = t[Other(d)][p] /\ near = t[d][s] /\ near \in S
      /\ col[s] # "red" /\ col[near] = "red" /\ col[t[Other(d)][s]] # "red"
  BY DEF NearOf
<1> USE <1>a, <1>b
<1> DEFINE B2 == [B EXCEPT ![s] = @ - 1, ![near] = @ + 1]
           X == {s, near}
           far == t[Other(d)][s]
           nn == t[d][near]
           nf == t[Other(d)][near]
<1>0. /\ s \in S /\ s \notin {p, low} /\ t.parent[s] = p /\ Other(d) \in Side /\ low # p /\ Leaf \notin S
      /\ B[low] \in Nat /\ low \in S \cup {Leaf} /\ p \in S /\ d \in Side
  BY ShortSibling
<1>1. /\ B \in [S \cup {Leaf} -> Nat] /\ B[Leaf] = 0 /\ col[Leaf] # "red"
      /\ \A n \in S \ {p} : EvenAt(t, col, B, n)
      /\ \A n \in S : Fine(t, col, n)
      /\ B[s] = B[low] + 1 /\ B[p] = B[low] + 1 + Weight(col, p) /\ t[d][p] = low /\ col[low] # "red"
  BY DEF Short, Painted, Fine
<1>2. /\ near # s /\ near # p /\ t.parent[near] = s /\ Other(Other(d)) = d
      /\ far \in (S \cup {Leaf}) \ {s, near, p}
      /\ nn \in (S \cup {Leaf}) \ {s, near} /\ nf \in (S \cup {Leaf}) \ {s, near}
      /\ near # low
  BY <1>0, <1>1, Sides DEF Family
<1>3. /\ t2[Other(d)][s] = far /\ t2[d][s] = nf /\ t2[Other(d)][near] = s /\ t2[d][near] = nn
  BY <1>2 DEF Turned
<1>4. /\ t2[Other(d)][p] = near /\ t2[d][p] = low
  BY <1>0, <1>1, <1>2, Zenon DEF Turned
<1>5. /\ Weight(col, s) = 1 /\ Weight(col, near) = 0 /\ Weight(col2, s) = 0 /\ Weight(col2, near) = 1
  BY DEF Weight
<1>6. /\ B[near] = B[low] /\ B[far] = B[low] /\ B[nn] = B[low] /\ B[nf] = B[low]
      /\ col[nf] # "red"
  <2>1. EvenAt(t, col, B, s) /\ EvenAt(t, col, B, near) /\ Fine(t, col, near) BY <1>0, <1>1, <1>2
  <2>2. B[s] = B[near] + Weight(col, s) /\ B[s] = B[far] + Weight(col, s) BY <1>0, <2>1, Zenon DEF EvenAt
  <2>3. B[near] = B[nn] + Weight(col, near) /\ B[near] = B[nf] + Weight(col, near) BY <1>0, <2>1, Zenon DEF EvenAt
  <2>4. B[near] \in Nat /\ B[far] \in Nat /\ B[nn] \in Nat /\ B[nf] \in Nat BY <1>1, <1>2, Zenon
  <2>5. col[nf] # "red" BY <1>0, <2>1 DEF Fine
  <2> HIDE DEF far, nn, nf
  <2> QED BY <1>0, <1>1, <1>5, <2>2, <2>3, <2>4, <2>5
<1> HIDE DEF far, nn, nf
<1>7. /\ B2 \in [S \cup {Leaf} -> Nat] /\ B2[Leaf] = 0
      /\ B2[s] = B[low] /\ B2[near] = B[low] + 1 /\ \A a \in (S \cup {Leaf}) \ {s, near} : B2[a] = B[a]
  <2>1. near \in S /\ s \in S /\ s # near /\ Leaf \notin {s, near} BY <1>0, <1>2
  <2>2. B[s] - 1 = B[low] /\ B[near] + 1 = B[low] + 1 /\ B[low] + 1 \in Nat BY <1>0, <1>1, <1>6
  <2>3. /\ B2 \in [S \cup {Leaf} -> Nat]
        /\ B2[s] = B[s] - 1 /\ B2[near] = B[near] + 1 /\ \A a \in (S \cup {Leaf}) \ {s, near} : B2[a] = B[a]
    BY <1>0, <1>1, <2>1, <2>2, Zenon
  <2> QED BY <1>1, <2>1, <2>2, <2>3, Zenon
<1> HIDE DEF B2
<1>8. Kept(t, t2, S, col, col2, B, B2, X)
  <2>1. X \in SUBSET S /\ s \in X /\ near \in X /\ \A a \in X : a = s \/ a = near \/ t.parent[a] = near BY <1>0
  <2>2. Same(S, col, col2, B, B2, X) BY <1>7 DEF Same
  <2>3. B2[near] = B[s] /\ (col2[near] = "red" => col[s] = "red") BY <1>1, <1>7
  <2> HIDE DEF X
  <2> QED BY <1>0, <2>1, <2>2, <2>3, TurnedKept
<1>9. /\ B2[far] = B[far] /\ B2[nn] = B[nn] /\ B2[nf] = B[nf] /\ B2[low] = B[low] /\ B2[p] = B[p]
      /\ col2[far] = col[far] /\ col2[nf] = col[nf] /\ col2[low] = col[low] /\ col2[p] = col[p]
  BY <1>0, <1>2, <1>7
<1>10. EvenAt(t2, col2, B2, s) /\ EvenAt(t2, col2, B2, near)
  <2>0. \A x \in Side : x = d \/ x = Other(d) BY <1>0, Sides
  <2>1. B2[s] = B2[far] + Weight(col2, s) /\ B2[s] = B2[nf] + Weight(col2, s) BY <1>0, <1>5, <1>6, <1>7, <1>9
  <2>2. B2[near] = B2[s] + Weight(col2, near) /\ B2[near] = B2[nn] + Weight(col2, near) BY <1>0, <1>5, <1>6, <1>7, <1>9
  <2> QED BY <1>3, <2>0, <2>1, <2>2, Zenon DEF EvenAt
<1>11. Fine(t2, col2, s) /\ Fine(t2, col2, near)
  <2>0. \A x \in Side : x = d \/ x = Other(d) BY <1>0, Sides
  <2>1. col2[far] # "red" /\ col2[nf] # "red" BY <1>6, <1>9 DEF far
  <2> QED BY <1>3, <2>0, <2>1 DEF Fine
<1>12. ASSUME NEW n \in S PROVE Fine(t2, col2, n) /\ (n # p => EvenAt(t2, col2, B2, n))
  <2>1. CASE n \in {s, near} BY <1>10, <1>11, <2>1
  <2>2. CASE n \notin {s, near}
    <3>1. n \in S \ X BY <2>2
    <3> QED BY <1>1, <1>8, <3>1 DEF Kept
  <2> QED BY <2>1, <2>2
<1>13. col2[Leaf] # "red" BY <1>0, <1>1
<1>14. \A n \in S \ {p} : EvenAt(t2, col2, B2, n) BY <1>12
<1>15. \A n \in S : Fine(t2, col2, n) BY <1>12
<1>16. Painted(t2, col2, S, B2, {p}, {}) BY <1>7, <1>13, <1>14, <1>15, PaintedFine
<1>17. B2[near] = B2[low] + 1 /\ B2[p] = B2[low] + 1 + Weight(col2, p)
  <2>1. Weight(col2, p) = Weight(col, p) BY <1>9 DEF Weight
  <2> QED BY <1>1, <1>7, <1>9, <2>1
<1>18. col2[low] # "red" BY <1>1, <1>9
<1>19. Short(t2, col2, S, B2, p, d, low) BY <1>0, <1>4, <1>16, <1>17, <1>18 DEF Short
<1> QED BY <1>3, <1>4, <1>19

(* remove_case6                                                             *)
FarRed(S, col, col2, p, s, far) ==
    /\ col2[s] = col[p] /\ col2[p] = "black" /\ col2[far] = "black"
    /\ \A a \in (S \cup {Leaf}) \ {p, s, far} : col2[a] = col[a]

LEMMA FarPainted ==
    ASSUME NEW t, NEW t2, NEW S, Family(t, S), NEW col, NEW B, NEW p, NEW d, NEW low, NEW s, NEW far,
           Short(t, col, S, B, p, d, low), s = t[Other(d)][p], far = t[Other(d)][s],
           Turned(t, t2, S, p, d, s), far \in S, \A x \in Side : t[x][far] # p,
           col[s] # "red", col[far] = "red",
           NEW col2, FarRed(S, col, col2, p, s, far)
    PROVE  \E B2 : Painted(t2, col2, S, B2, {}, {})
<1>a. /\ col2[s] = col[p] /\ col2[p] = "black" /\ col2[far] = "black"
      /\ \A a \in (S \cup {Leaf}) \ {p, s, far} : col2[a] = col[a]
  BY DEF FarRed
<1> USE <1>a
<1> DEFINE X == {p, s, far}
           near == t[d][s]
<1>0. /\ s \in S /\ s \notin {p, low} /\ t.parent[s] = p /\ Other(d) \in Side /\ low # p /\ Leaf \notin S
      /\ B[low] \in Nat /\ low \in S \cup {Leaf} /\ p \in S /\ d \in Side
  BY ShortSibling
<1>1. /\ B \in [S \cup {Leaf} -> Nat] /\ B[Leaf] = 0 /\ col[Leaf] # "red"
      /\ \A n \in S \ {p} : EvenAt(t, col, B, n)
      /\ \A n \in S : Fine(t, col, n)
      /\ B[s] = B[low] + 1 /\ B[p] = B[low] + 1 + Weight(col, p) /\ t[d][p] = low /\ col[low] # "red"
  BY DEF Short, Painted, Fine
<1>2. /\ far # s /\ far # p /\ t.parent[far] = s /\ far # low
      /\ near \in (S \cup {Leaf}) \ {s, p, far}
  BY <1>0, <1>1, Sides DEF Family
<1> DEFINE B2 == [B EXCEPT ![p] = B[low] + 1, ![far] = B[low] + 1, ![s] = B[p]]
<1>b. /\ B2 \in [S \cup {Leaf} -> Nat] /\ B2[p] = B[low] + 1 /\ B2[far] = B[low] + 1 /\ B2[s] = B[p]
      /\ \A a \in (S \cup {Leaf}) \ {p, s, far} : B2[a] = B[a]
  <2> DEFINE v == B[low] + 1
             w == B[p]
  <2>1. v \in Nat /\ w \in Nat BY <1>0, <1>1
  <2> HIDE DEF v, w
  <2>2. B2 = [B EXCEPT ![p] = v, ![far] = v, ![s] = w] BY DEF v, w
  <2>3. /\ B2 \in [S \cup {Leaf} -> Nat] /\ B2[p] = v /\ B2[far] = v /\ B2[s] = w
        /\ \A a \in (S \cup {Leaf}) \ {p, s, far} : B2[a] = B[a]
    <3> HIDE DEF B2
    <3> QED BY <1>0, <1>1, <1>2, <2>1, <2>2
  <2> HIDE DEF B2
  <2> QED BY <2>3 DEF v, w
<1> HIDE DEF B2
<1> USE <1>b
<1>3. /\ t2[d][p] = low /\ t2[Other(d)][p] = near /\ t2[d][s] = p /\ t2[Other(d)][s] = far
  BY <1>1 DEF Turned
<1>4. \A x \in Side : t2[x][far] = t[x][far] /\ t[x][far] \in (S \cup {Leaf}) \ {p, s, far}
  <2> TAKE x \in Side
  <2>1. t2[x][far] = t[x][far] BY <1>2 DEF Turned
  <2>2. t[x][far] \in (S \cup {Leaf}) \ {p, s, far} BY <1>0, <1>2 DEF Family
  <2> QED BY <2>1, <2>2
<1>5. /\ Weight(col, s) = 1 /\ Weight(col, far) = 0 /\ Weight(col2, p) = 1 /\ Weight(col2, far) = 1
      /\ Weight(col2, s) = Weight(col, p) /\ Weight(col, p) \in Nat
  BY DEF Weight
<1>6. /\ B[near] = B[low] /\ B[far] = B[low] /\ \A x \in Side : B[t[x][far]] = B[low]
  <2>1. EvenAt(t, col, B, s) /\ EvenAt(t, col, B, far) BY <1>0, <1>1, <1>2
  <2>2. B[s] = B[near] + Weight(col, s) /\ B[s] = B[far] + Weight(col, s) BY <1>0, <2>1 DEF EvenAt
  <2>3. B[near] \in Nat /\ B[far] \in Nat BY <1>1, <1>2
  <2> HIDE DEF near
  <2>4. B[near] = B[low] /\ B[far] = B[low] BY <1>0, <1>1, <1>5, <2>2, <2>3
  <2>5. ASSUME NEW x \in Side PROVE B[t[x][far]] = B[low]
    <3>1. B[far] = B[t[x][far]] + Weight(col, far) BY <2>1 DEF EvenAt
    <3>2. B[t[x][far]] \in Nat BY <1>1, <1>4
    <3> DEFINE v == B[t[x][far]]
               w == B[far]
    <3>3. w = v + Weight(col, far) /\ v \in Nat /\ w = B[low] BY <2>4, <3>1, <3>2, Zenon
    <3> HIDE DEF v, w
    <3>4. v = B[low] BY <1>5, <3>3
    <3> QED BY <3>4 DEF v
  <2> QED BY <2>4, <2>5
<1> HIDE DEF near
<1>7. /\ B2 \in [S \cup {Leaf} -> Nat] /\ B2[Leaf] = 0
      /\ B2[p] = B[low] + 1 /\ B2[s] = B[low] + 1 + Weight(col, p) /\ B2[far] = B[low] + 1
      /\ \A a \in (S \cup {Leaf}) \ {p, s, far} : B2[a] = B[a]
  BY <1>0, <1>1, <1>2
<1>8. Kept(t, t2, S, col, col2, B, B2, X)
  <2>1. X \in SUBSET S /\ p \in X /\ s \in X /\ \A a \in X : a = p \/ a = s \/ t.parent[a] = s BY <1>0, <1>2
  <2>2. Same(S, col, col2, B, B2, X) BY <1>7 DEF Same
  <2>3. B2[s] = B[p] /\ (col2[s] = "red" => col[p] = "red") BY <1>1, <1>7
  <2> HIDE DEF X
  <2> QED BY <1>0, <2>1, <2>2, <2>3, TurnedKept
<1>9. B2[near] = B[low] /\ B2[low] = B[low] BY <1>0, <1>2, <1>6, <1>7
<1>10. EvenAt(t2, col2, B2, p) /\ EvenAt(t2, col2, B2, s)
  <2>0. \A x \in Side : x = d \/ x = Other(d) BY <1>0, Sides
  <2>1. B2[p] = B2[low] + Weight(col2, p) /\ B2[p] = B2[near] + Weight(col2, p) BY <1>0, <1>5, <1>7, <1>9
  <2>2. B2[s] = B2[p] + Weight(col2, s) /\ B2[s] = B2[far] + Weight(col2, s) BY <1>0, <1>5, <1>7
  <2> QED BY <1>3, <2>0, <2>1, <2>2 DEF EvenAt
<1>11. EvenAt(t2, col2, B2, far)
  <2> SUFFICES ASSUME NEW x \in Side PROVE B2[far] = B2[t2[x][far]] + Weight(col2, far) BY DEF EvenAt
  <2> DEFINE v == B2[t2[x][far]]
             w == B2[far]
  <2>1. v = B[low]
    <3>1. t2[x][far] = t[x][far] /\ t[x][far] \in (S \cup {Leaf}) \ {p, s, far} BY <1>4
    <3> QED BY <1>6, <1>7, <3>1, Zenon
  <2>3. w = B[low] + 1 BY <1>7
  <2> HIDE DEF v, w
  <2>2. w = v + Weight(col2, far) BY <1>0, <1>5, <2>1, <2>3
  <2> QED BY <2>2 DEF v, w
<1>12. Fine(t2, col2, p) /\ Fine(t2, col2, s) /\ Fine(t2, col2, far)
  <2>0. \A x \in Side : x = d \/ x = Other(d) BY <1>0, Sides
  <2>1. Fine(t2, col2, p) /\ Fine(t2, col2, far) BY DEF Fine
  <2>2. Fine(t2, col2, s) BY <1>3, <2>0 DEF Fine
  <2> QED BY <2>1, <2>2
<1>13. ASSUME NEW n \in S PROVE Fine(t2, col2, n) /\ EvenAt(t2, col2, B2, n)
  <2>1. CASE n \in {p, s, far} BY <1>10, <1>11, <1>12, <2>1
  <2>2. CASE n \notin {p, s, far}
    <3>1. n \in S \ X /\ n \in S \ {p} BY <2>2
    <3> QED BY <1>1, <1>8, <3>1 DEF Kept
  <2> QED BY <2>1, <2>2
<1>14. col2[Leaf] # "red" BY <1>0, <1>1
<1>15. Painted(t2, col2, S, B2, {}, {}) BY <1>7, <1>13, <1>14, PaintedFine
<1> QED BY <1>15

(***************************************************************************)
(* What holds in each phase, with the nodes S, and B[n] black nodes on      *)
(* every way down from n.                                                   *)
(***************************************************************************)
IdlePhase(t, col, S, B, al, sz) ==
    /\ al = S /\ sz = Cardinality(S)
    /\ col[t.root] # "red" /\ Painted(t, col, S, B, {}, {})

(* The red node c, its red parent and its grandparent are on one side.      *)
CaseFive(t, col, S, c, p, g, e) ==
    /\ p \in S /\ g \in S /\ e \in Side /\ t[e][p] = c /\ t[e][g] = p
    /\ col[p] = "red" /\ col[t[Other(e)][g]] # "red"

InsertPhase(t, col, S, B, al, sz, a, c) ==
    /\ al = S /\ sz = Cardinality(S) - 1
    /\ c \in S /\ col[c] = "red" /\ Painted(t, col, S, B, {}, {c})
    /\ c # t.root => col[t.root] # "red"
    /\ a = "insert_case5" => \E p, g, e : CaseFive(t, col, S, c, p, g, e)

(* The black node c has one black node too few under it.                    *)
RemoveAt(t, col, S, B, a, c) ==
    \/ t.parent[c] = Null /\ c = t.root /\ a = "remove" /\ Painted(t, col, S, B, {}, {})
    \/ \E p, d : /\ t.parent[c] = p /\ p # Null /\ Short(t, col, S, B, p, d, c)
                 /\ a # "remove" => col[t[Other(d)][p]] # "red"
                 /\ a = "remove_case6" => col[t[Other(d)][t[Other(d)][p]]] = "red"

RemovePhase(t, col, S, B, al, sz, a, c, dm) ==
    /\ dm \in Node \ S /\ al = S \cup {dm} /\ sz = Cardinality(S) + 1
    /\ \A s \in Side : t[s][dm] \in S \cup {Leaf}
    /\ col[t.root] # "red" /\ RemoveAt(t, col, S, B, a, c)

LEMMA SideOfChild ==
    ASSUME NEW t, NEW c, NEW p, NEW d \in Side, t.parent[c] = p, t[d][p] = c, t[Other(d)][p] # c
    PROVE  SideOf(t, c) = d
<1>1. t["left"] = t.left OBVIOUS
<1> QED BY <1>1 DEF SideOf, Side, Other

(* The parent and the grandparent of a red node with a red parent.          *)
GrandOf(t, S, col, c, p, g, e, d) ==
    /\ p \in S /\ g \in S /\ e \in Side /\ d \in Side /\ c # p /\ c \in S
    /\ t.parent[c] = p /\ t[d][p] = c /\ SideOf(t, c) = d /\ t[Other(d)][p] # c
    /\ t.parent[p] = g /\ t[e][g] = p /\ SideOf(t, p) = e /\ c # t.root /\ p # t.root

LEMMA GrandExists ==
    ASSUME NEW t, NEW S, NEW D, Structure(t, S, D), NEW col, NEW B, NEW al, NEW sz, NEW a, NEW c,
           InsertPhase(t, col, S, B, al, sz, a, c), t.parent[c] # Null, col[t.parent[c]] = "red"
    PROVE  GrandOf(t, S, col, c, t.parent[c], t.parent[t.parent[c]], SideOf(t, t.parent[c]), SideOf(t, c))
<1> DEFINE p == t.parent[c]
           g == t.parent[p]
<1>1. c \in S /\ (c # t.root => col[t.root] # "red") BY DEF InsertPhase
<1>2. c # t.root /\ p \in S /\ t[SideOf(t, c)][p] = c /\ t[Other(SideOf(t, c))][p] # c BY <1>1, ParentOf
<1>3. p # t.root BY <1>1, <1>2
<1> HIDE DEF p
<1>4. g \in S /\ t[SideOf(t, p)][g] = p BY <1>2, <1>3, ParentOf
<1>5. SideOf(t, c) \in Side /\ SideOf(t, p) \in Side BY SideOfSide
<1>6. c # p
  <2>1. Family(t, S) BY FamilyOf
  <2> QED BY <1>2, <1>5, <2>1 DEF Family
<1> QED BY <1>1, <1>2, <1>3, <1>4, <1>5, <1>6 DEF GrandOf, p

LEMMA RootOutside ==
    ASSUME NEW t, NEW S, NEW D, Structure(t, S, D)
    PROVE  t.root \in S \cup {Leaf} /\ Leaf \notin S /\ S \subseteq Node /\ S \subseteq Place /\ Leaf \in Place
           /\ Leaf # Null /\ Null \notin S
BY NodeAssumption DEF Structure, Tree, Shaped, Place

(* insert_case3                                                             *)
LEMMA StepRepaint ==
    ASSUME NEW t, NEW S, NEW D, Structure(t, S, D), NEW col \in Paint, NEW B, NEW al, NEW sz, NEW c,
           InsertPhase(t, col, S, B, al, sz, "insert", c),
           NEW p, NEW g, NEW e, NEW d, GrandOf(t, S, col, c, p, g, e, d), col[p] = "red",
           NEW u, u = t[Other(e)][g], col[u] = "red",
           NEW col2, col2[g] = "red", col2[p] = "black", col2[u] = "black",
           \A a \in (S \cup {Leaf}) \ {g, p, u} : col2[a] = col[a]
    PROVE  \E B2 : InsertPhase(t, col2, S, B2, al, sz, "insert", g)
<1>1. Family(t, S) /\ t.root \in S \cup {Leaf} /\ S \subseteq Place /\ Leaf \in Place /\ Leaf \notin S
  BY FamilyOf, RootOutside
<1>2. /\ p \in S /\ g \in S /\ e \in Side /\ c # p /\ c \in S /\ t.parent[c] = p /\ t[e][g] = p
      /\ p # t.root /\ t.parent[p] = g /\ c # t.root
  BY DEF GrandOf
<1>3. /\ al = S /\ sz = Cardinality(S) - 1 /\ col[c] = "red" /\ Painted(t, col, S, B, {}, {c})
      /\ col[t.root] # "red"
  BY <1>2 DEF InsertPhase
<1>4. col[Leaf] # "red" BY <1>3 DEF Painted
<1>5. u \in S /\ u # p /\ u # g /\ t.parent[u] = g /\ p # g BY <1>1, <1>2, <1>4, Sides DEF Family
<1>7. PICK B2 : Painted(t, col2, S, B2, {}, {g})
  <2>1. t[Other(e)][g] = u OBVIOUS
  <2>2. RedFamily(t, S, col, c, g, p, u, e) BY <1>2, <1>3, <1>5, <2>1 DEF RedFamily
  <2>3. Repainted(S, col, col2, g, p, u) BY DEF Repainted
  <2> QED BY <1>1, <1>3, <2>1, <2>2, <2>3, RepaintPainted
<1>8. g # t.root => col2[t.root] # "red" BY <1>1, <1>3
<1>9. InsertPhase(t, col2, S, B2, al, sz, "insert", g) BY <1>2, <1>3, <1>7, <1>8 DEF InsertPhase
<1> QED BY <1>9

(* insert_case4, when the red node is on the inner side.                    *)
LEMMA StepInner ==
    ASSUME NEW t, NEW S, NEW D, Structure(t, S, D), NEW col \in Paint, NEW B, NEW al, NEW sz, NEW c,
           InsertPhase(t, col, S, B, al, sz, "insert", c),
           NEW p, NEW g, NEW e, NEW d, GrandOf(t, S, col, c, p, g, e, d), col[p] = "red",
           col[t[Other(e)][g]] # "red", d # e
    PROVE  /\ Structure(Rotated(t, p, e), S, TurnedD(S, D, t, Leaf, p, e, c))
           /\ InsertPhase(Rotated(t, p, e), col, S, B, al, sz, "insert_case5", p)
           /\ t[Other(e)][p] = c
<1> DEFINE t2 == Rotated(t, p, e)
<1>1. Family(t, S) /\ t.root \in S \cup {Leaf} /\ Leaf \notin S BY FamilyOf, RootOutside
<1>2. /\ p \in S /\ g \in S /\ e \in Side /\ d \in Side /\ c # p /\ c \in S /\ t.parent[c] = p /\ t[e][g] = p
      /\ t[d][p] = c /\ p # t.root /\ t.parent[p] = g /\ c # t.root
  BY DEF GrandOf
<1>3. d = Other(e) /\ t[Other(e)][p] = c /\ Other(e) \in Side BY <1>2, Sides
<1>4. /\ al = S /\ sz = Cardinality(S) - 1 /\ col[c] = "red" /\ Painted(t, col, S, B, {}, {c})
      /\ col[t.root] # "red"
  BY <1>2 DEF InsertPhase
<1> HIDE DEF t2
<1>5. Turned(t, t2, S, p, e, c) BY <1>2, <1>3, RotatedStructure DEF t2
<1>6. Structure(t2, S, TurnedD(S, D, t, Leaf, p, e, c)) BY <1>2, <1>3, RotatedStructure DEF t2
<1>7. RotatedRest(t, t2, S, p, e, c) BY <1>2, <1>3, RotatedStructure DEF t2
<1>8. Painted(t2, col, S, B, {}, {p}) BY <1>1, <1>2, <1>3, <1>4, <1>5, InnerPainted
<1>9. t2.root = t.root BY <1>2, <1>7 DEF RotatedRest
<1>10. g # p /\ g # c BY <1>1, <1>2, <1>3 DEF Family
<1>11. t2[e][c] = p /\ t2[e][g] = c /\ t2[Other(e)][g] = t[Other(e)][g]
  <2>1. t[Other(e)][g] # p BY <1>1, <1>2 DEF Family
  <2> QED BY <1>2, <1>3, <1>5, <1>10, <2>1 DEF Turned
<1>12. CaseFive(t2, col, S, p, c, g, e) BY <1>2, <1>4, <1>11 DEF CaseFive
<1>13. InsertPhase(t2, col, S, B, al, sz, "insert_case5", p) BY <1>2, <1>4, <1>8, <1>9, <1>12 DEF InsertPhase
<1> QED BY <1>3, <1>6, <1>13 DEF t2

LEMMA CardOf ==
    ASSUME NEW t, NEW S, NEW D, Structure(t, S, D)
    PROVE  IsFiniteSet(S) /\ Cardinality(S) \in Nat
<1>1. IsFiniteSet(S) BY DEF Structure, Tree, Shaped
<1> QED BY <1>1, FS_CardinalityType

(* insert_case4, when the red node is on the outer side.                    *)
LEMMA StepSame ==
    ASSUME NEW t, NEW S, NEW D, Structure(t, S, D), NEW col, NEW B, NEW al, NEW sz, NEW c,
           InsertPhase(t, col, S, B, al, sz, "insert", c),
           NEW p, NEW g, NEW e, GrandOf(t, S, col, c, p, g, e, e), col[p] = "red",
           col[t[Other(e)][g]] # "red"
    PROVE  InsertPhase(t, col, S, B, al, sz, "insert_case5", c)
<1>1. CaseFive(t, col, S, c, p, g, e) BY DEF GrandOf, CaseFive
<1> QED BY <1>1 DEF InsertPhase

(* insert_case5                                                             *)
LEMMA StepOuter ==
    ASSUME NEW t, NEW S, NEW D, Structure(t, S, D), NEW col, NEW B, NEW al, NEW sz, NEW c,
           InsertPhase(t, col, S, B, al, sz, "insert_case5", c),
           NEW p, NEW g, NEW e, CaseFive(t, col, S, c, p, g, e),
           NEW col2, col2[g] = "red", col2[p] = "black", \A a \in (S \cup {Leaf}) \ {g, p} : col2[a] = col[a]
    PROVE  /\ Structure(Rotated(t, g, Other(e)), S, TurnedD(S, D, t, Leaf, g, Other(e), p))
           /\ Turned(t, Rotated(t, g, Other(e)), S, g, Other(e), p)
           /\ \E B2 : IdlePhase(Rotated(t, g, Other(e)), col2, S, B2, al, sz + 1)
<1> DEFINE t2 == Rotated(t, g, Other(e))
<1>1. Family(t, S) /\ t.root \in S \cup {Leaf} /\ Leaf \notin S BY FamilyOf, RootOutside
<1>2. /\ p \in S /\ g \in S /\ e \in Side /\ t[e][p] = c /\ t[e][g] = p
      /\ col[p] = "red" /\ col[t[Other(e)][g]] # "red"
  BY DEF CaseFive
<1>3. Other(e) \in Side /\ Other(Other(e)) = e BY <1>2, Sides
<1>4. /\ c \in S /\ al = S /\ sz = Cardinality(S) - 1 /\ Painted(t, col, S, B, {}, {c})
      /\ c # t.root => col[t.root] # "red"
  BY DEF InsertPhase
<1>5. p = t[Other(Other(e))][g] BY <1>2, <1>3
<1>6. t.parent[p] = g /\ t.parent[c] = p /\ p # g BY <1>1, <1>2, <1>4 DEF Family
<1>7. c # t.root /\ p # t.root
  <2>1. Null \notin S BY RootOutside
  <2> QED BY <1>2, <1>4, <1>6, <2>1, ParentOf
<1> HIDE DEF t2
<1>8. Turned(t, t2, S, g, Other(e), p) BY <1>2, <1>3, <1>5, RotatedStructure DEF t2
<1>9. Structure(t2, S, TurnedD(S, D, t, Leaf, g, Other(e), p)) BY <1>2, <1>3, <1>5, RotatedStructure DEF t2
<1>10. RotatedRest(t, t2, S, g, Other(e), p) BY <1>2, <1>3, <1>5, RotatedStructure DEF t2
<1>11. PICK B2 : Painted(t2, col2, S, B2, {}, {}) BY <1>1, <1>2, <1>4, <1>8, OuterPainted
<1>12. col2[t2.root] # "red"
  <2>1. CASE g = t.root BY <1>10, <2>1 DEF RotatedRest
  <2>2. CASE g # t.root BY <1>1, <1>4, <1>7, <1>10, <2>2 DEF RotatedRest
  <2> QED BY <2>1, <2>2
<1>13. sz + 1 = Cardinality(S) BY <1>4, CardOf
<1>14. IdlePhase(t2, col2, S, B2, al, sz + 1) BY <1>4, <1>11, <1>12, <1>13 DEF IdlePhase
<1> QED BY <1>8, <1>9, <1>14 DEF t2

(* insert_case1                                                             *)
LEMMA StepRoot ==
    ASSUME NEW t, NEW S, NEW D, Structure(t, S, D), NEW col, NEW B, NEW al, NEW sz, NEW c,
           InsertPhase(t, col, S, B, al, sz, "insert", c), t.parent[c] = Null,
           NEW col2, col2[c] = "black", \A a \in (S \cup {Leaf}) \ {c} : col2[a] = col[a]
    PROVE  \E B2 : IdlePhase(t, col2, S, B2, al, sz + 1)
<1>1. Family(t, S) /\ Leaf \notin S /\ Null \notin S BY FamilyOf, RootOutside
<1>2. /\ c \in S /\ al = S /\ sz = Cardinality(S) - 1 /\ Painted(t, col, S, B, {}, {c}) /\ col[c] = "red"
  BY DEF InsertPhase
<1>3. c = t.root BY <1>2, ParentOf
<1>4. \A n \in S, x \in Side : t[x][n] # c BY <1>1, <1>2 DEF Family
<1>5. PICK B2 : Painted(t, col2, S, B2, {}, {}) BY <1>1, <1>2, <1>4, RootPainted
<1>6. sz + 1 = Cardinality(S) BY <1>2, CardOf
<1>7. IdlePhase(t, col2, S, B2, al, sz + 1) BY <1>2, <1>3, <1>5, <1>6 DEF IdlePhase
<1> QED BY <1>7

(* insert_case2                                                             *)
LEMMA StepUnderBlack ==
    ASSUME NEW t, NEW S, NEW D, Structure(t, S, D), NEW col, NEW B, NEW al, NEW sz, NEW c,
           InsertPhase(t, col, S, B, al, sz, "insert", c), t.parent[c] # Null, col[t.parent[c]] # "red"
    PROVE  IdlePhase(t, col, S, B, al, sz + 1)
<1>1. Family(t, S) /\ Leaf \notin S BY FamilyOf, RootOutside
<1>2. /\ c \in S /\ al = S /\ sz = Cardinality(S) - 1 /\ Painted(t, col, S, B, {}, {c}) /\ col[c] = "red"
      /\ c # t.root => col[t.root] # "red"
  BY DEF InsertPhase
<1>3. c # t.root BY <1>2, ParentOf
<1>4. Painted(t, col, S, B, {}, {})
  <2>1. /\ B \in [S \cup {Leaf} -> Nat] /\ B[Leaf] = 0 /\ col[Leaf] # "red"
        /\ \A n \in S : EvenAt(t, col, B, n)
        /\ \A n \in S, s \in Side : col[n] = "red" /\ col[t[s][n]] = "red" => t[s][n] = c
    BY <1>2 DEF Painted
  <2>2. ASSUME NEW n \in S, NEW s \in Side, col[n] = "red", col[t[s][n]] = "red" PROVE FALSE
    <3>1. t[s][n] = c BY <2>1, <2>2
    <3>2. t.parent[c] = n BY <1>1, <1>2, <3>1 DEF Family
    <3> QED BY <2>2, <3>2
  <2> QED BY <2>1, <2>2 DEF Painted
<1>5. sz + 1 = Cardinality(S) BY <1>2, CardOf
<1> QED BY <1>2, <1>3, <1>4, <1>5 DEF IdlePhase

(* What an idle tree is, taken apart.                                       *)
LEMMA IdleParts ==
    ASSUME NEW t, NEW S, NEW D, Structure(t, S, D), NEW col, NEW B, NEW al, NEW sz,
           IdlePhase(t, col, S, B, al, sz)
    PROVE  /\ al = S /\ sz = Cardinality(S) /\ col[t.root] # "red"
           /\ Painted(t, col, S, B, {}, {})
           /\ B \in [S \cup {Leaf} -> Nat] /\ col[Leaf] # "red"
           /\ \A n \in S : EvenAt(t, col, B, n)
BY DEF IdlePhase, Painted

LEMMA CardWithout ==
    ASSUME NEW t, NEW S, NEW D, Structure(t, S, D), NEW r \in S
    PROVE  Cardinality(S \ {r}) = Cardinality(S) - 1 /\ Cardinality(S) \in Nat
BY CardOf, FS_RemoveElement

(* remove_case0, when it takes out a red node.                              *)
LEMMA StepTakeRed ==
    ASSUME NEW t, NEW S, NEW D, Structure(t, S, D), NEW col, NEW B, NEW al, NEW sz,
           IdlePhase(t, col, S, B, al, sz),
           NEW r \in S, NEW s0 \in Side, NEW ch, t[s0][r] = Leaf, ch = t[Other(s0)][r], col[r] = "red"
    PROVE  \E B2 : IdlePhase(Replaced(t, r, ch), col, S \ {r}, B2, al \ {r}, sz - 1)
<1> DEFINE t2 == Replaced(t, r, ch)
<1>1. Family(t, S) BY FamilyOf
<1>2. /\ al = S /\ sz = Cardinality(S) /\ col[t.root] # "red" /\ Painted(t, col, S, B, {}, {})
  BY DEF IdlePhase
<1>3. r # t.root BY <1>2
<1> HIDE DEF t2
<1>4. Spliced(t, t2, S, Leaf, r, ch, s0) BY ReplacedStructure DEF t2
<1>5. ReplacedRest(t, t2, S, r, ch) BY ReplacedStructure DEF t2
<1> DEFINE B2 == SplicedB(S, B, r)
           off == {}
<1>6. Painted(t2, col, S \ {r}, B2, off, {})
  <2>1. col[r] = "red" \/ (col[ch] # "red" /\ \A a \in (S \ {r}) \ off, x \in Side : t[x][a] # r) OBVIOUS
  <2> HIDE DEF off
  <2> QED BY <1>1, <1>2, <1>4, <2>1, SplicedPainted
<1> HIDE DEF B2
<1>7. t2.root = t.root BY <1>3, <1>5 DEF ReplacedRest
<1>8. sz - 1 = Cardinality(S \ {r}) BY <1>2, CardWithout
<1>9. IdlePhase(t2, col, S \ {r}, B2, al \ {r}, sz - 1) BY <1>2, <1>6, <1>7, <1>8 DEF IdlePhase
<1> QED BY <1>9 DEF t2

(* remove_case0, when the child of the node is red.                         *)
LEMMA StepTakeAbove ==
    ASSUME NEW t, NEW S, NEW D, Structure(t, S, D), NEW col, NEW B, NEW al, NEW sz,
           IdlePhase(t, col, S, B, al, sz),
           NEW r \in S, NEW s0 \in Side, NEW ch, t[s0][r] = Leaf, ch = t[Other(s0)][r],
           col[r] # "red", col[ch] = "red",
           NEW col2, Blackened(S, col, col2, ch)
    PROVE  \E B2 : IdlePhase(Replaced(t, r, ch), col2, S \ {r}, B2, al \ {r}, sz - 1)
<1> DEFINE t2 == Replaced(t, r, ch)
<1>1. Family(t, S) /\ t.root \in S \cup {Leaf} BY FamilyOf, RootOutside
<1>2. /\ al = S /\ sz = Cardinality(S) /\ col[t.root] # "red" /\ Painted(t, col, S, B, {}, {})
  BY DEF IdlePhase
<1> HIDE DEF t2
<1>4. Spliced(t, t2, S, Leaf, r, ch, s0) BY ReplacedStructure DEF t2
<1>5. ReplacedRest(t, t2, S, r, ch) BY ReplacedStructure DEF t2
<1>6. PICK B2 : Painted(t2, col2, S \ {r}, B2, {}, {}) BY <1>1, <1>2, <1>4, BlackenedPainted
<1>7. col2[t2.root] # "red"
  <2>1. CASE r = t.root BY <1>5, <2>1 DEF ReplacedRest, Blackened
  <2>2. CASE r # t.root BY <1>1, <1>2, <1>5, <2>2 DEF ReplacedRest, Blackened
  <2> QED BY <2>1, <2>2
<1>8. sz - 1 = Cardinality(S \ {r}) BY <1>2, CardWithout
<1>9. IdlePhase(t2, col2, S \ {r}, B2, al \ {r}, sz - 1) BY <1>2, <1>6, <1>7, <1>8 DEF IdlePhase
<1> QED BY <1>9 DEF t2

(* remove_case0, when one black node is missing now.                        *)
LEMMA StepTakeBlack ==
    ASSUME NEW t, NEW S, NEW D, Structure(t, S, D), NEW col, NEW B, NEW al, NEW sz,
           IdlePhase(t, col, S, B, al, sz),
           NEW r \in S, NEW s0 \in Side, NEW ch, t[s0][r] = Leaf, ch = t[Other(s0)][r],
           col[r] # "red", col[ch] # "red"
    PROVE  \E B2 : RemovePhase(Replaced(t, r, ch), col, S \ {r}, B2, al, sz, "remove", ch, r)
<1> DEFINE t2 == Replaced(t, r, ch)
           S2 == S \ {r}
           B2 == SplicedB(S, B, r)
<1>1. Family(t, S) /\ t.root \in S \cup {Leaf} /\ Leaf \notin S /\ Null \notin S /\ S \subseteq Node
  BY FamilyOf, RootOutside
<1>2. /\ al = S /\ sz = Cardinality(S) /\ col[t.root] # "red" /\ Painted(t, col, S, B, {}, {})
      /\ \A n \in S : EvenAt(t, col, B, n)
  BY IdleParts
<1> HIDE DEF t2
<1>4. Spliced(t, t2, S, Leaf, r, ch, s0) BY ReplacedStructure DEF t2
<1>5. ReplacedRest(t, t2, S, r, ch) BY ReplacedStructure DEF t2
<1>6. ch \in S2 \cup {Leaf} BY <1>1, Sides DEF Family
<1>7. Cardinality(S) = Cardinality(S2) + 1
  <2>1. Cardinality(S2) = Cardinality(S) - 1 /\ Cardinality(S) \in Nat BY CardWithout
  <2> HIDE DEF S2
  <2> QED BY <2>1
<1>8. ASSUME NEW s \in Side PROVE t2[s][r] \in S2 \cup {Leaf} BY <1>1, <1>5 DEF Family, ReplacedRest
<1>9. col[t2.root] # "red"
  <2>1. CASE r = t.root BY <1>5, <2>1 DEF ReplacedRest
  <2>2. CASE r # t.root BY <1>2, <1>5, <2>2 DEF ReplacedRest
  <2> QED BY <2>1, <2>2
<1> HIDE DEF B2
<1>10. RemoveAt(t2, col, S2, B2, "remove", ch)
  <2>1. CASE r = t.root
    <3>1. t2.parent[ch] = Null /\ t2.root = ch BY <1>5, <2>1, ParentOf DEF ReplacedRest
    <3>2. \A a \in S, x \in Side : t[x][a] # r
      <4>1. t.parent[r] = Null BY <2>1, ParentOf
      <4> QED BY <1>1, <4>1 DEF Family
    <3> DEFINE off == {}
    <3>3. Painted(t2, col, S2, B2, off, {})
      <4> HIDE DEF off
      <4> QED BY <1>1, <1>2, <1>4, <3>2, SplicedPainted DEF B2
    <3> QED BY <3>1, <3>3 DEF RemoveAt
  <2>2. CASE r # t.root
    <3> DEFINE p == t.parent[r]
               d == SideOf(t, r)
               off == {p}
    <3>1. p \in S /\ t[d][p] = r /\ t[Other(d)][p] # r /\ d \in Side /\ Other(d) \in Side
      BY <2>2, ParentOf, SideOfSide, Sides
    <3>2. t2.parent[ch] = p /\ p # Null BY <1>1, <1>5, <3>1 DEF ReplacedRest
    <3> HIDE DEF p, d
    <3>3. p \in S2 BY <1>1, <3>1 DEF Family
    <3>4. \A a \in S \ {p}, x \in Side : t[x][a] # r
      <4>1. t.parent[r] = p BY DEF p
      <4> QED BY <1>1, <4>1 DEF Family
    <3>5. Painted(t2, col, S2, B2, off, {})
      <4>1. \A a \in S2 \ off, x \in Side : t[x][a] # r BY <3>4
      <4> HIDE DEF off
      <4> QED BY <1>1, <1>2, <1>4, <4>1, SplicedPainted DEF B2
    <3>6. t2[d][p] = ch /\ t2[Other(d)][p] = t[Other(d)][p] BY <1>4, <3>1, <3>3 DEF Spliced
    <3>7. /\ B[r] = B[ch] + 1 /\ B[p] = B[r] + Weight(col, p) /\ B[p] = B[t[Other(d)][p]] + Weight(col, p)
      <4>1. EvenAt(t, col, B, r) /\ EvenAt(t, col, B, p) BY <1>2, <3>1
      <4>2. Weight(col, r) = 1 BY DEF Weight
      <4>3. B[r] = B[ch] + Weight(col, r) BY <4>1, Sides DEF EvenAt
      <4>4. B[p] = B[r] + Weight(col, p) /\ B[p] = B[t[Other(d)][p]] + Weight(col, p)
        BY <3>1, <4>1 DEF EvenAt
      <4> QED BY <4>2, <4>3, <4>4
    <3>8. t[Other(d)][p] \in S2 \cup {Leaf} BY <1>1, <3>1 DEF Family
    <3>9. B2[ch] = B[ch] /\ B2[p] = B[p] /\ B2[t[Other(d)][p]] = B[t[Other(d)][p]]
      BY <1>6, <3>3, <3>8 DEF B2, SplicedB
    <3>10. B[ch] \in Nat /\ B[p] \in Nat /\ B[r] \in Nat /\ B[t[Other(d)][p]] \in Nat
      <4>1. B \in [S \cup {Leaf} -> Nat] BY IdleParts
      <4> QED BY <1>6, <3>1, <3>8, <4>1
    <3>11. B2[t2[Other(d)][p]] = B2[ch] + 1 /\ B2[p] = B2[ch] + 1 + Weight(col, p)
      <4> DEFINE v == B2[ch]
                 u == B2[t[Other(d)][p]]
                 w == B2[p]
                 x == B[r]
      <4>1. x = v + 1 /\ w = x + Weight(col, p) /\ w = u + Weight(col, p) /\ x \in Nat /\ v \in Nat /\ u \in Nat
        BY <3>7, <3>9, <3>10
      <4> HIDE DEF u, v, w, x
      <4>2. u = v + 1 /\ w = v + 1 + Weight(col, p) BY <4>1, WeightType
      <4> QED BY <3>6, <4>2 DEF u, v, w
    <3>12. Short(t2, col, S2, B2, p, d, ch) BY <1>6, <3>1, <3>3, <3>5, <3>6, <3>11 DEF Short
    <3> QED BY <3>2, <3>12 DEF RemoveAt
  <2> QED BY <2>1, <2>2
<1>11. r \in Node \ S2 /\ al = S2 \cup {r} BY <1>1, <1>2
<1> HIDE DEF S2
<1>12. RemovePhase(t2, col, S2, B2, al, sz, "remove", ch, r)
  BY <1>2, <1>7, <1>8, <1>9, <1>10, <1>11 DEF RemovePhase
<1> QED BY <1>12 DEF t2, S2

LEMMA RemoveParts ==
    ASSUME NEW t, NEW S, NEW D, Structure(t, S, D), NEW col, NEW B, NEW al, NEW sz, NEW a, NEW c, NEW dm,
           RemovePhase(t, col, S, B, al, sz, a, c, dm)
    PROVE  /\ dm \in Node \ S /\ al = S \cup {dm} /\ sz = Cardinality(S) + 1 /\ Cardinality(S) \in Nat
           /\ \A s \in Side : t[s][dm] \in S \cup {Leaf}
           /\ col[t.root] # "red" /\ RemoveAt(t, col, S, B, a, c)
           /\ al \ {dm} = S /\ sz - 1 = Cardinality(S)
BY CardOf DEF RemovePhase

(* remove_case1                                                             *)
LEMMA StepRemoveRoot ==
    ASSUME NEW t, NEW S, NEW D, Structure(t, S, D), NEW col, NEW B, NEW al, NEW sz, NEW c, NEW dm,
           RemovePhase(t, col, S, B, al, sz, "remove", c, dm), t.parent[c] = Null
    PROVE  IdlePhase(t, col, S, B, al \ {dm}, sz - 1)
<1>1. /\ col[t.root] # "red" /\ RemoveAt(t, col, S, B, "remove", c) /\ al \ {dm} = S /\ sz - 1 = Cardinality(S)
  BY RemoveParts
<1>2. Painted(t, col, S, B, {}, {}) BY <1>1 DEF RemoveAt
<1> QED BY <1>1, <1>2 DEF IdlePhase

(* The node with too few black ones under it, and its sibling.              *)
Gap(t, S, col, B, c, p, d, s) ==
    /\ Short(t, col, S, B, p, d, c) /\ t.parent[c] = p /\ s = t[Other(d)][p]
    /\ SideOf(t, c) = d /\ d \in Side /\ Other(d) \in Side /\ Other(Other(d)) = d
    /\ p \in S /\ s \in S /\ s # p /\ s # c /\ c # p /\ t.parent[s] = p /\ t[d][p] = c
    /\ s # t.root

LEMMA GapOf ==
    ASSUME NEW t, NEW S, NEW D, Structure(t, S, D), NEW col, NEW B, NEW p, NEW d, NEW c,
           Short(t, col, S, B, p, d, c), t.parent[c] = p
    PROVE  Gap(t, S, col, B, c, p, d, t[Other(d)][p])
<1> DEFINE s == t[Other(d)][p]
<1>1. Family(t, S) BY FamilyOf
<1>2. /\ s \in S /\ s \notin {p, c} /\ t.parent[s] = p /\ Other(d) \in Side /\ c # p /\ p \in S /\ d \in Side
  BY <1>1, ShortSibling
<1>3. t[d][p] = c BY DEF Short
<1>4. SideOf(t, c) = d BY <1>2, <1>3, SideOfChild
<1>5. s # t.root
  <2>1. Null \notin S BY RootOutside
  <2> QED BY <1>2, <2>1, ParentOf
<1>6. Other(Other(d)) = d BY <1>2, Sides
<1> QED BY <1>2, <1>3, <1>4, <1>5, <1>6 DEF Gap

LEMMA GapExists ==
    ASSUME NEW t, NEW S, NEW D, Structure(t, S, D), NEW col, NEW B, NEW a, NEW c,
           RemoveAt(t, col, S, B, a, c), t.parent[c] # Null \/ a # "remove"
    PROVE  \E d : LET p == t.parent[c]
                      s == t[Other(d)][p]
                  IN /\ Gap(t, S, col, B, c, p, d, s) /\ p # Null
                     /\ a # "remove" => col[s] # "red"
                     /\ a = "remove_case6" => col[t[Other(d)][s]] = "red"
<1>1. PICK d : /\ t.parent[c] # Null /\ Short(t, col, S, B, t.parent[c], d, c)
               /\ a # "remove" => col[t[Other(d)][t.parent[c]]] # "red"
               /\ a = "remove_case6" => col[t[Other(d)][t[Other(d)][t.parent[c]]]] = "red"
  BY DEF RemoveAt
<1> DEFINE p == t.parent[c]
           s == t[Other(d)][p]
<1>2. Gap(t, S, col, B, c, p, d, s) BY <1>1, GapOf
<1> QED BY <1>1, <1>2

(* A rotation above or beside c.                                            *)
Beside(t, S, n, s, m, c) ==
    /\ n \in S /\ s \in Side /\ m \in S /\ t[Other(s)][n] = m
    /\ c \in S \cup {Leaf} /\ c # n /\ c # m /\ (c \in S => t.parent[c] # m)

LEMMA TurnedBeside ==
    ASSUME NEW t, NEW t2, NEW S, Family(t, S), NEW n, NEW s, NEW m,
           RotatedRest(t, t2, S, n, s, m), NEW c, Beside(t, S, n, s, m, c)
    PROVE  t2.parent[c] = t.parent[c]
<1> USE DEF Beside
<1>1. CASE c = Leaf BY <1>1 DEF RotatedRest
<1>2. CASE c \in S
  <2>1. c # t[s][m] BY <1>2 DEF Family
  <2> QED BY <1>2, <2>1 DEF RotatedRest
<1> QED BY <1>1, <1>2

(* The doomed node keeps its pointers.                                      *)
LEMMA TurnedDoomed ==
    ASSUME NEW t, NEW t2, NEW S, NEW n, NEW s, NEW m, RotatedRest(t, t2, S, n, s, m), NEW dm \in Node \ S,
           \A x \in Side : t[x][dm] \in S \cup {Leaf}
    PROVE  \A x \in Side : t2[x][dm] \in S \cup {Leaf}
BY DEF RotatedRest, Place

(* remove_case2, when the sibling is red.                                   *)
LEMMA StepRedSibling ==
    ASSUME NEW t, NEW S, NEW D, Structure(t, S, D), NEW col, NEW B, NEW al, NEW sz, NEW a, NEW c, NEW dm,
           RemovePhase(t, col, S, B, al, sz, a, c, dm),
           NEW p, NEW d, NEW s, Gap(t, S, col, B, c, p, d, s), p # Null, col[s] = "red",
           NEW col2, RedSibling(S, col, col2, p, s)
    PROVE  /\ Structure(Rotated(t, p, d), S, TurnedD(S, D, t, Leaf, p, d, s))
           /\ Turned(t, Rotated(t, p, d), S, p, d, s)
           /\ \E B2 : RemovePhase(Rotated(t, p, d), col2, S, B2, al, sz, "remove_case3", c, dm)
<1> DEFINE t2 == Rotated(t, p, d)
<1>1. Family(t, S) /\ t.root \in S \cup {Leaf} BY FamilyOf, RootOutside
<1>2. /\ Short(t, col, S, B, p, d, c) /\ t.parent[c] = p /\ s = t[Other(d)][p]
      /\ d \in Side /\ p \in S /\ s \in S /\ s # p /\ s # c /\ c # p /\ c \in S \cup {Leaf} /\ s # t.root
  BY DEF Gap, Short
<1>3. /\ dm \in Node \ S /\ al = S \cup {dm} /\ sz = Cardinality(S) + 1
      /\ \A x \in Side : t[x][dm] \in S \cup {Leaf}
      /\ col[t.root] # "red"
  BY RemoveParts
<1>4. col2[p] = "red" /\ col2[s] = "black" /\ \A n \in (S \cup {Leaf}) \ {p, s} : col2[n] = col[n]
  BY DEF RedSibling
<1> HIDE DEF t2
<1>5. Turned(t, t2, S, p, d, s) BY <1>2, RotatedStructure DEF t2
<1>6. Structure(t2, S, TurnedD(S, D, t, Leaf, p, d, s)) BY <1>2, RotatedStructure DEF t2
<1>7. RotatedRest(t, t2, S, p, d, s) BY <1>2, RotatedStructure DEF t2
<1>a. Family(t, S) /\ Short(t, col, S, B, p, d, c) /\ s = t[Other(d)][p] BY <1>1, <1>2
<1>8. (\E B2 : Short(t2, col2, S, B2, p, d, c)) /\ col2[t2[Other(d)][p]] # "red"
  BY <1>a, <1>5, RedSiblingPainted
<1>b. PICK B2 : Short(t2, col2, S, B2, p, d, c) BY <1>8
<1>9. col2[t2[Other(d)][p]] # "red" BY <1>8
<1>10. t2.parent[c] = p
  <2>1. Beside(t, S, p, d, s, c) BY <1>2 DEF Beside
  <2>2. Family(t, S) BY <1>1
  <2>3. t2.parent[c] = t.parent[c] BY <1>7, <2>1, <2>2, TurnedBeside
  <2> QED BY <1>2, <2>3
<1>11. RemoveAt(t2, col2, S, B2, "remove_case3", c) BY <1>b, <1>9, <1>10 DEF RemoveAt
<1>12. \A x \in Side : t2[x][dm] \in S \cup {Leaf} BY <1>3, <1>7, TurnedDoomed
<1>13. col2[t2.root] # "red"
  <2>1. CASE p = t.root BY <1>4, <1>7, <2>1 DEF RotatedRest
  <2>2. CASE p # t.root BY <1>1, <1>2, <1>3, <1>4, <1>7, <2>2 DEF RotatedRest
  <2> QED BY <2>1, <2>2
<1>14. RemovePhase(t2, col2, S, B2, al, sz, "remove_case3", c, dm)
  BY <1>3, <1>11, <1>12, <1>13 DEF RemovePhase
<1> QED BY <1>5, <1>6, <1>14 DEF t2

(* remove_case2, when it is not.                                            *)
LEMMA StepBlackSibling ==
    ASSUME NEW t, NEW S, NEW D, Structure(t, S, D), NEW col, NEW B, NEW al, NEW sz, NEW a, NEW c, NEW dm,
           RemovePhase(t, col, S, B, al, sz, a, c, dm),
           NEW p, NEW d, NEW s, Gap(t, S, col, B, c, p, d, s), p # Null, col[s] # "red"
    PROVE  RemovePhase(t, col, S, B, al, sz, "remove_case3", c, dm)
<1>1. /\ dm \in Node \ S /\ al = S \cup {dm} /\ sz = Cardinality(S) + 1
      /\ \A x \in Side : t[x][dm] \in S \cup {Leaf}
      /\ col[t.root] # "red"
  BY RemoveParts
<1>2. Short(t, col, S, B, p, d, c) /\ t.parent[c] = p /\ s = t[Other(d)][p] BY DEF Gap
<1>3. RemoveAt(t, col, S, B, "remove_case3", c) BY <1>2 DEF RemoveAt
<1> QED BY <1>1, <1>3 DEF RemovePhase

LEMMA BlackNephewsOf ==
    ASSUME NEW t, NEW col, NEW s, NEW d \in Side,
           col[t[d][s]] # "red", col[t[Other(d)][s]] # "red"
    PROVE  \A x \in Side : col[t[x][s]] # "red"
BY Sides

(* remove_case4                                                             *)
LEMMA StepRedParent ==
    ASSUME NEW t, NEW S, NEW D, Structure(t, S, D), NEW col, NEW B, NEW al, NEW sz, NEW a, NEW c, NEW dm,
           RemovePhase(t, col, S, B, al, sz, a, c, dm),
           NEW p, NEW d, NEW s, Gap(t, S, col, B, c, p, d, s),
           col[s] # "red", \A x \in Side : col[t[x][s]] # "red", col[p] = "red",
           NEW col2, Redder(S, col, col2, p, s)
    PROVE  \E B2 : IdlePhase(t, col2, S, B2, al \ {dm}, sz - 1)
<1>1. Family(t, S) /\ t.root \in S \cup {Leaf} BY FamilyOf, RootOutside
<1>2. Short(t, col, S, B, p, d, c) /\ s = t[Other(d)][p] /\ s # t.root BY DEF Gap
<1>3. col[t.root] # "red" /\ al \ {dm} = S /\ sz - 1 = Cardinality(S) BY RemoveParts
<1> DEFINE off == {}
<1>4. Alone(t, S, col, p, off) BY DEF Alone
<1> HIDE DEF off
<1>5. \E B2 : Painted(t, col2, S, B2, off, {}) /\ RedderB(S, col, B, B2, p, s, c)
  BY <1>1, <1>2, <1>4, RedderPainted
<1>6. PICK B2 : Painted(t, col2, S, B2, {}, {}) BY <1>5 DEF off
<1>7. col2[t.root] # "red" BY <1>1, <1>2, <1>3 DEF Redder
<1>8. IdlePhase(t, col2, S, B2, al \ {dm}, sz - 1) BY <1>3, <1>6, <1>7 DEF IdlePhase
<1> QED BY <1>8

(* remove_case3                                                             *)
LEMMA StepAllBlack ==
    ASSUME NEW t, NEW S, NEW D, Structure(t, S, D), NEW col, NEW B, NEW al, NEW sz, NEW a, NEW c, NEW dm,
           RemovePhase(t, col, S, B, al, sz, a, c, dm),
           NEW p, NEW d, NEW s, Gap(t, S, col, B, c, p, d, s),
           col[s] # "red", \A x \in Side : col[t[x][s]] # "red", col[p] # "red",
           NEW col2, Redder(S, col, col2, p, s)
    PROVE  \E B2 : RemovePhase(t, col2, S, B2, al, sz, "remove", p, dm)
<1>1. Family(t, S) /\ t.root \in S \cup {Leaf} /\ Null \notin S BY FamilyOf, RootOutside
<1>2. /\ Short(t, col, S, B, p, d, c) /\ s = t[Other(d)][p] /\ s # t.root /\ p \in S /\ s \in S /\ t.parent[s] = p
      /\ p # s
  BY DEF Gap
<1>3. /\ col[t.root] # "red" /\ dm \in Node \ S /\ al = S \cup {dm} /\ sz = Cardinality(S) + 1
      /\ \A x \in Side : t[x][dm] \in S \cup {Leaf}
  BY RemoveParts
<1>4. col2[t.root] # "red" /\ col2[p] # "red" BY <1>1, <1>2, <1>3 DEF Redder
<1>5. CASE p = t.root
  <2> DEFINE off == {}
  <2>1. t.parent[p] = Null BY <1>2, <1>5, ParentOf
  <2>2. Alone(t, S, col, p, off) BY <1>1, <1>2, <2>1 DEF Alone, Family
  <2> HIDE DEF off
  <2>3. \E B2 : Painted(t, col2, S, B2, off, {}) /\ RedderB(S, col, B, B2, p, s, c)
    BY <1>1, <1>2, <2>2, RedderPainted
  <2>4. PICK B2 : Painted(t, col2, S, B2, {}, {}) BY <2>3 DEF off
  <2>5. RemoveAt(t, col2, S, B2, "remove", p) BY <1>5, <2>1, <2>4 DEF RemoveAt
  <2>6. RemovePhase(t, col2, S, B2, al, sz, "remove", p, dm) BY <1>3, <1>4, <2>5 DEF RemovePhase
  <2> QED BY <2>6
<1>6. CASE p # t.root
  <2> DEFINE q == t.parent[p]
             e == SideOf(t, p)
             off == {q}
             u == t[Other(e)][q]
  <2>1. q \in S /\ t[e][q] = p /\ u # p /\ e \in Side /\ Other(e) \in Side
    BY <1>2, <1>6, ParentOf, SideOfSide, Sides
  <2>2. t.parent[p] = q OBVIOUS
  <2> HIDE DEF q, e
  <2>3. Alone(t, S, col, p, off) BY <1>1, <1>2, <2>2 DEF Alone, Family
  <2>4. q # p /\ q # s /\ u \in (S \cup {Leaf}) \ {p}
    <3>1. t[Other(d)][p] = s /\ Other(d) \in Side BY <1>2 DEF Gap
    <3> QED BY <1>1, <1>2, <2>1, <3>1 DEF Family
  <2>5. u # s BY <1>1, <1>2, <2>1, <2>4 DEF Family
  <2>c. t.parent[p] = q /\ q # Null BY <1>1, <2>1, <2>2
  <2> HIDE DEF off
  <2>6. PICK B2 : Painted(t, col2, S, B2, off, {}) /\ RedderB(S, col, B, B2, p, s, c)
    BY <1>1, <1>2, <2>3, RedderPainted
  <2>7. /\ B2[p] = B[c] + 1 /\ B[p] = B2[p] + Weight(col, p)
        /\ \A n \in (S \cup {Leaf}) \ {p, s} : B2[n] = B[n]
    BY <2>6 DEF RedderB
  <2>8. B2[q] = B[q] /\ B2[u] = B[u]
    <3> HIDE DEF u
    <3> QED BY <2>1, <2>4, <2>5, <2>7
  <2>9. B[q] = B[p] + Weight(col, q) /\ B[q] = B[u] + Weight(col, q)
    <3>1. EvenAt(t, col, B, q)
      <4>1. Painted(t, col, S, B, {p}, {}) BY <1>2 DEF Short
      <4> QED BY <2>1, <2>4, <4>1 DEF Painted
    <3> QED BY <2>1, <3>1 DEF EvenAt
  <2>10. Weight(col, p) = 1 /\ Weight(col2, q) = Weight(col, q)
    <3>1. col2[q] = col[q] BY <2>1, <2>4 DEF Redder
    <3> QED BY <3>1 DEF Weight
  <2>11. B[p] \in Nat /\ B2[p] \in Nat /\ B[u] \in Nat /\ B[q] \in Nat
    <3>1. B \in [S \cup {Leaf} -> Nat] BY <1>2 DEF Short, Painted
    <3>2. B2 \in [S \cup {Leaf} -> Nat] BY <2>6 DEF Painted
    <3> HIDE DEF u
    <3> QED BY <1>2, <2>1, <2>4, <3>1, <3>2
  <2>12. B2[u] = B2[p] + 1 /\ B2[q] = B2[p] + 1 + Weight(col2, q)
    <3> DEFINE v == B2[p]
               w == B[p]
               x == B[q]
               y == B[u]
    <3>1. w = v + 1 /\ x = w + Weight(col, q) /\ x = y + Weight(col, q) /\ v \in Nat /\ w \in Nat /\ x \in Nat /\ y \in Nat
      BY <2>7, <2>9, <2>10, <2>11
    <3> HIDE DEF v, w, x, y
    <3>2. y = v + 1 /\ x = v + 1 + Weight(col, q) BY <3>1, WeightType
    <3>3. B2[u] = y /\ B2[q] = x /\ B2[p] = v BY <2>8 DEF v, x, y
    <3> HIDE DEF u
    <3> QED BY <2>10, <3>2, <3>3
  <2>13. Short(t, col2, S, B2, q, e, p)
    BY <1>2, <1>4, <2>1, <2>6, <2>12 DEF Short, off
  <2>14. RemoveAt(t, col2, S, B2, "remove", p) BY <2>c, <2>13 DEF RemoveAt
  <2>15. RemovePhase(t, col2, S, B2, al, sz, "remove", p, dm) BY <1>3, <1>4, <2>14 DEF RemovePhase
  <2> QED BY <2>15
<1> QED BY <1>5, <1>6

(* remove_case5, when the red nephew is the near one.                       *)
LEMMA StepNear ==
    ASSUME NEW t, NEW S, NEW D, Structure(t, S, D), NEW col, NEW B, NEW al, NEW sz, NEW a, NEW c, NEW dm,
           RemovePhase(t, col, S, B, al, sz, a, c, dm),
           NEW p, NEW d, NEW s, Gap(t, S, col, B, c, p, d, s), p # Null,
           NEW near, near = t[d][s], col[s] # "red", col[near] = "red", col[t[Other(d)][s]] # "red",
           NEW col2, NearRed(S, col, col2, s, near)
    PROVE  /\ Structure(Rotated(t, s, Other(d)), S, TurnedD(S, D, t, Leaf, s, Other(d), near))
           /\ Turned(t, Rotated(t, s, Other(d)), S, s, Other(d), near)
           /\ \E B2 : RemovePhase(Rotated(t, s, Other(d)), col2, S, B2, al, sz, "remove_case6", c, dm)
<1> DEFINE t2 == Rotated(t, s, Other(d))
<1>1. Family(t, S) /\ t.root \in S \cup {Leaf} /\ Leaf \notin S BY FamilyOf, RootOutside
<1>2. /\ Short(t, col, S, B, p, d, c) /\ t.parent[c] = p /\ s = t[Other(d)][p]
      /\ d \in Side /\ Other(d) \in Side /\ Other(Other(d)) = d
      /\ p \in S /\ s \in S /\ s # p /\ s # c /\ c # p /\ c \in S \cup {Leaf} /\ s # t.root /\ t.parent[s] = p
  BY DEF Gap, Short
<1>3. /\ dm \in Node \ S /\ al = S \cup {dm} /\ sz = Cardinality(S) + 1
      /\ \A x \in Side : t[x][dm] \in S \cup {Leaf}
      /\ col[t.root] # "red"
  BY RemoveParts
<1>4. col2[s] = "red" /\ col2[near] = "black" /\ \A n \in (S \cup {Leaf}) \ {s, near} : col2[n] = col[n]
  BY DEF NearRed
<1>e. near \in S /\ near # s /\ near # p /\ t.parent[near] = s /\ near = t[Other(Other(d))][s]
  <2>1. col[Leaf] # "red" BY <1>2 DEF Short, Painted
  <2>2. near \in S BY <1>1, <1>2, <2>1 DEF Family
  <2>3. near # s /\ t.parent[near] = s BY <1>1, <1>2, <2>2 DEF Family
  <2>4. near # p
    <3>1. t[Other(d)][p] # Leaf => t[d][t[Other(d)][p]] # p BY <1>1, <1>2 DEF Family
    <3> QED BY <1>1, <1>2, <3>1
  <2>5. near = t[Other(Other(d))][s] BY <1>2
  <2> QED BY <2>2, <2>3, <2>4, <2>5
<1> HIDE DEF t2
<1>5. Turned(t, t2, S, s, Other(d), near) BY <1>2, <1>e, RotatedStructure DEF t2
<1>6. Structure(t2, S, TurnedD(S, D, t, Leaf, s, Other(d), near)) BY <1>2, <1>e, RotatedStructure DEF t2
<1>7. RotatedRest(t, t2, S, s, Other(d), near) BY <1>2, <1>e, RotatedStructure DEF t2
<1>8. (\E B2 : Short(t2, col2, S, B2, p, d, c)) /\ t2[Other(d)][p] = near /\ t2[Other(d)][near] = s
  <2>1. NearOf(t, S, col, p, d, s, near) BY <1>2, <1>e DEF NearOf
  <2>2. Short(t, col, S, B, p, d, c) /\ Family(t, S) BY <1>1, <1>2
  <2> QED BY <1>5, <2>1, <2>2, NearPainted
<1>b. PICK B2 : Short(t2, col2, S, B2, p, d, c) BY <1>8
<1>10. t2.parent[c] = p
  <2>1. Beside(t, S, s, Other(d), near, c)
    <3>1. c # near BY <1>2, <1>e
    <3>2. t[Other(Other(d))][s] = near BY <1>e
    <3>3. c \in S => t.parent[c] # near BY <1>2, <1>e
    <3> QED BY <1>2, <1>e, <3>1, <3>2, <3>3 DEF Beside
  <2>2. Family(t, S) BY <1>1
  <2>3. t2.parent[c] = t.parent[c] BY <1>7, <2>1, <2>2, TurnedBeside
  <2> QED BY <1>2, <2>3
<1>9. col2[t2[Other(d)][p]] # "red" /\ col2[t2[Other(d)][t2[Other(d)][p]]] = "red" BY <1>4, <1>8
<1>11. RemoveAt(t2, col2, S, B2, "remove_case6", c) BY <1>b, <1>9, <1>10 DEF RemoveAt
<1>12. \A x \in Side : t2[x][dm] \in S \cup {Leaf} BY <1>3, <1>7, TurnedDoomed
<1>13. col2[t2.root] # "red"
  <2>1. t2.root = t.root BY <1>2, <1>7 DEF RotatedRest
  <2> QED BY <1>1, <1>2, <1>3, <1>4, <2>1
<1>14. RemovePhase(t2, col2, S, B2, al, sz, "remove_case6", c, dm)
  BY <1>3, <1>11, <1>12, <1>13 DEF RemovePhase
<1> QED BY <1>5, <1>6, <1>14 DEF t2

(* remove_case5, when it is the far one.                                    *)
LEMMA StepFarRed ==
    ASSUME NEW t, NEW S, NEW D, Structure(t, S, D), NEW col, NEW B, NEW al, NEW sz, NEW a, NEW c, NEW dm,
           RemovePhase(t, col, S, B, al, sz, a, c, dm),
           NEW p, NEW d, NEW s, Gap(t, S, col, B, c, p, d, s), p # Null, col[s] # "red",
           col[t[Other(d)][s]] = "red"
    PROVE  RemovePhase(t, col, S, B, al, sz, "remove_case6", c, dm)
<1>1. /\ dm \in Node \ S /\ al = S \cup {dm} /\ sz = Cardinality(S) + 1
      /\ \A x \in Side : t[x][dm] \in S \cup {Leaf}
      /\ col[t.root] # "red"
  BY RemoveParts
<1>2. Short(t, col, S, B, p, d, c) /\ t.parent[c] = p /\ s = t[Other(d)][p] BY DEF Gap
<1>3. RemoveAt(t, col, S, B, "remove_case6", c) BY <1>2 DEF RemoveAt
<1> QED BY <1>1, <1>3 DEF RemovePhase

(* remove_case6                                                             *)
LEMMA StepFar ==
    ASSUME NEW t, NEW S, NEW D, Structure(t, S, D), NEW col, NEW B, NEW al, NEW sz, NEW a, NEW c, NEW dm,
           RemovePhase(t, col, S, B, al, sz, a, c, dm),
           NEW p, NEW d, NEW s, Gap(t, S, col, B, c, p, d, s), p # Null,
           NEW far, far = t[Other(d)][s], col[s] # "red", col[far] = "red",
           NEW col2, FarRed(S, col, col2, p, s, far)
    PROVE  /\ Structure(Rotated(t, p, d), S, TurnedD(S, D, t, Leaf, p, d, s))
           /\ Turned(t, Rotated(t, p, d), S, p, d, s)
           /\ \E B2 : IdlePhase(Rotated(t, p, d), col2, S, B2, al \ {dm}, sz - 1)
<1> DEFINE t2 == Rotated(t, p, d)
<1>1. Family(t, S) /\ t.root \in S \cup {Leaf} /\ Leaf \notin S BY FamilyOf, RootOutside
<1>2. /\ Short(t, col, S, B, p, d, c) /\ s = t[Other(d)][p]
      /\ d \in Side /\ Other(d) \in Side
      /\ p \in S /\ s \in S /\ s # p /\ s # t.root
  BY DEF Gap
<1>3. col[t.root] # "red" /\ al \ {dm} = S /\ sz - 1 = Cardinality(S) BY RemoveParts
<1>4. col2[s] = col[p] /\ col2[p] = "black" /\ col2[far] = "black"
      /\ \A n \in (S \cup {Leaf}) \ {p, s, far} : col2[n] = col[n]
  BY DEF FarRed
<1>5. Turned(t, Rotated(t, p, d), S, p, d, s) BY <1>2, RotatedStructure
<1>6. Structure(Rotated(t, p, d), S, TurnedD(S, D, t, Leaf, p, d, s)) BY <1>2, RotatedStructure
<1>7. RotatedRest(t, Rotated(t, p, d), S, p, d, s) BY <1>2, RotatedStructure
<1> HIDE DEF t2
<1>8. far \in S
  <2>1. col[Leaf] # "red" BY <1>2 DEF Short, Painted
  <2> QED BY <1>1, <1>2, <2>1 DEF Family
<1>9. \A x \in Side : t[x][far] # p
  <2> SUFFICES ASSUME NEW x \in Side, t[x][far] = p PROVE FALSE OBVIOUS
  <2>1. Shaped(t, S, D, Leaf) BY DEF Structure, Tree
  <2>2. p \notin D[s] BY <1>2, <2>1, Under1
  <2>3. far \in D[s] BY <1>1, <1>2, <1>8, <2>1, Under1
  <2>4. D[far] \subseteq D[s] BY <1>2, <2>1, <2>3, Nested
  <2>5. p \in D[far]
    <3>1. p # Leaf BY <1>1, <1>2
    <3> QED BY <1>8, <2>1, <3>1, Under1
  <2> QED BY <2>2, <2>4, <2>5
<1>10. PICK B2 : Painted(t2, col2, S, B2, {}, {})
  <2>1. Turned(t, t2, S, p, d, s) BY <1>5 DEF t2
  <2>2. far = t[Other(d)][s] /\ far \in S /\ col[s] # "red" /\ col[far] = "red" BY <1>8
  <2>3. Short(t, col, S, B, p, d, c) /\ s = t[Other(d)][p] /\ Family(t, S) BY <1>1, <1>2
  <2> QED BY <1>9, <2>1, <2>2, <2>3, FarPainted
<1>11. col2[t2.root] # "red"
  <2>1. CASE p = t.root BY <1>3, <1>4, <1>7, <2>1 DEF RotatedRest, t2
  <2>2. CASE p # t.root
    <3>1. t2.root = t.root BY <1>7, <2>2 DEF RotatedRest, t2
    <3> QED BY <1>1, <1>2, <1>3, <1>4, <2>2, <3>1
  <2> QED BY <2>1, <2>2
<1>12. IdlePhase(t2, col2, S, B2, al \ {dm}, sz - 1) BY <1>3, <1>10, <1>11 DEF IdlePhase
<1> QED BY <1>5, <1>6, <1>12 DEF t2

(***************************************************************************)
(* Ways down: from m in X to the child on the side g[m], until stop.        *)
(***************************************************************************)
Way(C, X, stop, g, f) == f = [m \in X |-> IF m \in stop THEN m ELSE f[C[g[m]][m]]]

LEMMA WayExists ==
    ASSUME NEW C, NEW S, NEW D, NEW nil, Shaped(C, S, D, nil), NEW X \in SUBSET (S \cup {nil}), NEW stop,
           NEW g, \A m \in X \ stop : m \in S /\ g[m] \in Side /\ C[g[m]][m] \in X
    PROVE  \E f : Way(C, X, stop, g, f)
<1> DEFINE nx == [m \in X |-> C[g[m]][m]]
           rank == [m \in X |-> Cardinality(D[m])]
           N == Cardinality(S)
<1>1. IsFiniteSet(S) /\ D \in [S \cup {nil} -> SUBSET S] BY DEF Shaped
<1>2. \A m \in S \cup {nil} : IsFiniteSet(D[m]) /\ Cardinality(D[m]) \in Nat /\ Cardinality(D[m]) <= N
  <2> TAKE m \in S \cup {nil}
  <2>1. D[m] \in SUBSET S BY <1>1
  <2>2. IsFiniteSet(D[m]) /\ Cardinality(D[m]) <= N BY <1>1, <2>1, FS_Subset
  <2> QED BY <2>2, FS_CardinalityType
<1>3. N \in Nat /\ rank \in [X -> Nat] /\ \A m \in X : rank[m] <= N BY <1>1, <1>2, FS_CardinalityType
<1>4. ASSUME NEW m \in X, m \notin stop PROVE nx[m] \in X /\ rank[nx[m]] < rank[m]
  <2> DEFINE y == C[g[m]][m]
  <2>1. m \in S /\ g[m] \in Side /\ y \in X BY <1>4
  <2>2. D[y] \subseteq D[m] /\ m \in D[m] /\ m \notin D[y] BY <2>1, Under1
  <2> HIDE DEF y
  <2>3. Cardinality(D[y]) <= Cardinality(D[m]) /\ Cardinality(D[y]) # Cardinality(D[m])
    <3>1. IsFiniteSet(D[m]) /\ D[y] \in SUBSET D[m] BY <1>2, <2>1, <2>2
    <3>2. D[y] # D[m] BY <2>2
    <3> QED BY <3>1, <3>2, FS_Subset
  <2>4. Cardinality(D[y]) \in Nat /\ Cardinality(D[m]) \in Nat BY <1>2, <2>1
  <2>5. Cardinality(D[y]) < Cardinality(D[m]) BY <2>3, <2>4
  <2>6. rank[y] = Cardinality(D[y]) /\ rank[m] = Cardinality(D[m]) BY <2>1
  <2>7. nx[m] = y BY DEF y
  <2> QED BY <2>1, <2>5, <2>6, <2>7
<1> HIDE DEF N, rank
<1>5. \A m \in X : m \notin stop => nx[m] \in X /\ rank[nx[m]] < rank[m] BY <1>4
<1> HIDE DEF nx
<1>6. Ranked(X, stop, nx, rank, N) BY <1>3, <1>5 DEF Ranked
<1>7. PICK f : WayOf(X, stop, nx, f) BY <1>6, WayDown
<1>8. f = [m \in X |-> IF m \in stop THEN m ELSE f[nx[m]]] BY <1>7 DEF WayOf
<1>9. Way(C, X, stop, g, f) BY <1>8, Zenon DEF Way, nx
<1> QED BY <1>9

(* The end of the way to one side.                                          *)
AtBottom(C, D, nil, k, s, x, y) ==
    y \in D[x] /\ C[s][y] = nil /\ \A m \in D[x] : Precedes(Other(s), k[m], k[y])

LEMMA Bottom ==
    ASSUME NEW C, NEW S, NEW D, NEW nil, Shaped(C, S, D, nil), NEW s \in Side,
           NEW k, Sorted(C, S, D, k), \A a \in S : k[a] \in Int,
           NEW f, \A x \in S : f[x] = IF C[s][x] = nil THEN x ELSE f[C[s][x]]
    PROVE  \A x \in S : AtBottom(C, D, nil, k, s, x, f[x])
<1> DEFINE T == {x \in S \cup {nil} : x # nil => AtBottom(C, D, nil, k, s, x, f[x])}
<1>1. nil \in T OBVIOUS
<1>2. ASSUME NEW x \in S, \A y \in Side : C[y][x] \in T PROVE x \in T
  <2> SUFFICES AtBottom(C, D, nil, k, s, x, f[x]) OBVIOUS
  <2> DEFINE y == C[s][x]
             o == C[Other(s)][x]
  <2>1. /\ D[x] = {x} \cup D[y] \cup D[o] /\ D[nil] = {} /\ x \in D[x] /\ Other(s) \in Side /\ nil \notin S
        /\ D[x] \subseteq S /\ D[y] \subseteq D[x]
    <3>1. Fork(C, S, D, nil, x, s) BY DEF Shaped
    <3> QED BY <3>1, Under1, Sides DEF Fork
  <2>2. \A m \in D[o] : Precedes(Other(s), k[m], k[x]) BY <2>1 DEF Sorted
  <2>3. Precedes(Other(s), k[x], k[x]) BY <2>1, Order
  <2>4. CASE y = nil
    <3>1. f[x] = x BY <2>4
    <3> QED BY <2>1, <2>2, <2>3, <2>4, <3>1 DEF AtBottom
  <2>5. CASE y # nil
    <3>1. f[x] = f[y] BY <2>5
    <3>2. AtBottom(C, D, nil, k, s, y, f[y]) BY <1>2, <2>5
    <3> DEFINE z == f[y]
    <3>3. z \in D[y] /\ C[s][z] = nil /\ \A m \in D[y] : Precedes(Other(s), k[m], k[z]) BY <3>2 DEF AtBottom
    <3>4. Precedes(s, k[z], k[x]) BY <3>3 DEF Sorted
    <3> HIDE DEF z
    <3>5. z \in S BY <2>1, <3>3
    <3>6. Precedes(Other(s), k[x], k[z])
      <4>1. Precedes(Other(Other(s)), k[z], k[x]) BY <3>4, Sides
      <4> QED BY <2>1, <3>5, <4>1, Order
    <3>7. \A m \in D[x] : Precedes(Other(s), k[m], k[z])
      <4> SUFFICES ASSUME NEW m \in D[x] PROVE Precedes(Other(s), k[m], k[z]) OBVIOUS
      <4> HIDE DEF y, o
      <4>1. CASE m \in D[y] BY <3>3, <4>1
      <4>2. CASE m = x BY <3>6, <4>2
      <4>3. CASE m \in D[o]
        <5>1. Precedes(Other(s), k[m], k[x]) BY <2>2, <4>3
        <5>2. k[m] \in Int /\ k[x] \in Int /\ k[z] \in Int /\ Other(s) \in Side BY <2>1, <3>5
        <5> QED BY <3>6, <5>1, <5>2, Order
      <4> QED BY <2>1, <4>1, <4>2, <4>3
    <3>8. z \in D[x] BY <2>1, <3>3
    <3> QED BY <3>1, <3>3, <3>7, <3>8 DEF AtBottom, z
  <2> QED BY <2>4, <2>5
<1> HIDE DEF T
<1>3. S \subseteq T BY <1>1, <1>2, TreeInduct
<1>4. nil \notin S BY DEF Shaped
<1> QED BY <1>3, <1>4 DEF T

(* The place under x where the way by the sides g ends.                     *)
HangAt(C, D, nil, g, x, p) ==
    /\ p \in D[x] /\ C[g[p]][p] = nil
    /\ \A a \in D[x], s \in Side : Before(C, D, p, g[p], a, s) => s = g[a]

LEMMA HangPlace ==
    ASSUME NEW C, NEW S, NEW D, NEW nil, Shaped(C, S, D, nil), NEW g \in [S -> Side],
           NEW f, \A x \in S : f[x] = IF C[g[x]][x] = nil THEN x ELSE f[C[g[x]][x]]
    PROVE  \A x \in S : HangAt(C, D, nil, g, x, f[x])
<1> DEFINE T == {x \in S \cup {nil} : x # nil => HangAt(C, D, nil, g, x, f[x])}
<1>1. nil \in T OBVIOUS
<1>2. ASSUME NEW x \in S, \A y \in Side : C[y][x] \in T PROVE x \in T
  <2> SUFFICES HangAt(C, D, nil, g, x, f[x]) OBVIOUS
  <2> DEFINE d == g[x]
             y == C[d][x]
             o == C[Other(d)][x]
  <2>0. d \in Side /\ Other(d) \in Side BY Sides
  <2>1. /\ D[x] = {x} \cup D[y] \cup D[o] /\ D[nil] = {} /\ x \in D[x] /\ nil \notin S
        /\ D[x] \subseteq S /\ D[y] \subseteq D[x] /\ D[y] \cap D[o] = {} /\ x \notin D[y] /\ x \notin D[o]
    <3>1. Fork(C, S, D, nil, x, d) BY <2>0 DEF Shaped
    <3>2. x \notin D[o] BY <2>0, Under1
    <3> HIDE DEF d
    <3> QED BY <2>0, <3>1, <3>2, Under1 DEF Fork
  <2>2. ASSUME NEW b \in Side, NEW a \in D[C[b][x]], NEW s \in Side PROVE D[C[s][a]] \subseteq D[C[b][x]]
    <3>1. a \in S /\ C[b][x] \in S \cup {nil} BY <2>1, Under1
    <3>2. C[b][x] \in S BY <2>1, <3>1
    <3>3. D[a] \subseteq D[C[b][x]] BY <3>2, Nested
    <3>4. D[C[s][a]] \subseteq D[a] BY <3>1, Under1
    <3> QED BY <3>3, <3>4
  <2>3. \A s \in Side : C[s][x] = IF s = d THEN y ELSE o
    <3>1. \A s \in Side : s = d \/ s = Other(d) BY <2>0, Sides
    <3> QED BY <2>0, <3>1, Sides
  <2>4. CASE y = nil
    <3>1. f[x] = x BY <2>4
    <3>2. ASSUME NEW a \in D[x], NEW s \in Side, x \in D[C[s][a]] PROVE FALSE
      <4>1. CASE a = x BY <2>1, <2>3, <3>2, <4>1
      <4>2. CASE a # x
        <5>1. PICK b \in Side : a \in D[C[b][x]] /\ x \notin D[C[b][x]] BY <2>0, <2>1, <4>2
        <5>2. D[C[s][a]] \subseteq D[C[b][x]] BY <2>2, <5>1
        <5> QED BY <3>2, <5>1, <5>2
      <4> QED BY <4>1, <4>2
    <3>3. \A a \in D[x], s \in Side : Before(C, D, x, g[x], a, s) => s = g[a] BY <3>2 DEF Before
    <3> QED BY <2>1, <2>4, <3>1, <3>3 DEF HangAt
  <2>5. CASE y # nil
    <3>1. f[x] = f[y] BY <2>5
    <3> DEFINE p == f[y]
    <3>2. HangAt(C, D, nil, g, y, p) BY <1>2, <2>0, <2>5
    <3> HIDE DEF p
    <3>3. p \in D[y] /\ C[g[p]][p] = nil /\ \A a \in D[y], s \in Side : Before(C, D, p, g[p], a, s) => s = g[a]
      BY <3>2 DEF HangAt
    <3>4. ASSUME NEW a \in D[x], NEW s \in Side, Before(C, D, p, g[p], a, s) PROVE s = g[a]
      <4>1. CASE a \in D[y] BY <3>3, <3>4, <4>1
      <4>2. CASE a = x
        <5>1. p \in D[C[s][x]] BY <2>1, <3>3, <3>4, <4>2 DEF Before
        <5>2. s = d BY <2>1, <2>3, <3>3, <5>1
        <5> QED BY <4>2, <5>2
      <4>3. CASE a \in D[o]
        <5>1. p # a BY <2>1, <3>3, <4>3
        <5>2. p \in D[C[s][a]] BY <3>4, <5>1 DEF Before
        <5>3. D[C[s][a]] \subseteq D[o] BY <2>0, <2>2, <4>3
        <5> HIDE DEF y, o
        <5> QED BY <2>1, <3>3, <5>2, <5>3
      <4> HIDE DEF y, o
      <4> QED BY <2>1, <4>1, <4>2, <4>3
    <3>5. p \in D[x] BY <2>1, <3>3
    <3>6. f[x] = p BY <3>1 DEF p
    <3> QED BY <3>3, <3>4, <3>5, <3>6 DEF HangAt
  <2> QED BY <2>4, <2>5
<1> HIDE DEF T
<1>3. S \subseteq T BY <1>1, <1>2, TreeInduct
<1>4. nil \notin S BY DEF Shaped
<1> QED BY <1>3, <1>4 DEF T

(* What a search for kk in what is under x ends at.                         *)
Found(D, nil, k, kk, x, y) ==
    /\ y = nil => \A m \in D[x] : k[m] # kk
    /\ y # nil => y \in D[x] /\ k[y] = kk
    /\ \A m \in D[x] : k[m] = kk => m \in D[y]

LEMMA FindPlace ==
    ASSUME NEW C, NEW S, NEW D, NEW nil, Shaped(C, S, D, nil), NEW k, Sorted(C, S, D, k),
           NEW kk \in Int, \A a \in S : k[a] \in Int,
           NEW f, f[nil] = nil,
           \A x \in S : f[x] = IF k[x] = kk THEN x ELSE f[C[IF kk < k[x] THEN "left" ELSE "right"][x]]
    PROVE  \A x \in S \cup {nil} : Found(D, nil, k, kk, x, f[x])
<1> DEFINE T == {x \in S \cup {nil} : Found(D, nil, k, kk, x, f[x])}
<1>0. nil \notin S /\ D[nil] = {} BY DEF Shaped
<1>1. nil \in T BY <1>0 DEF Found
<1>2. ASSUME NEW x \in S, \A y \in Side : C[y][x] \in T PROVE x \in T
  <2> SUFFICES Found(D, nil, k, kk, x, f[x]) OBVIOUS
  <2>1. CASE k[x] = kk
    <3>1. f[x] = x /\ x \in D[x] BY <2>1, Under1 DEF Side
    <3> QED BY <1>0, <2>1, <3>1 DEF Found
  <2>2. CASE k[x] # kk
    <3> DEFINE d == IF kk < k[x] THEN "left" ELSE "right"
               y == C[d][x]
               o == C[Other(d)][x]
    <3>1. d \in Side /\ Other(d) \in Side BY DEF Side, Other
    <3>2. D[x] = {x} \cup D[y] \cup D[o] /\ D[x] \subseteq S
      <4>1. Fork(C, S, D, nil, x, d) BY <3>1 DEF Shaped
      <4>2. D[x] \subseteq S BY <3>1, Under1
      <4> HIDE DEF d
      <4> QED BY <4>1, <4>2 DEF Fork
    <3>3. f[x] = f[y] BY <2>2
    <3>4. Found(D, nil, k, kk, y, f[y]) BY <1>2, <3>1
    <3>5. \A m \in D[o] : k[m] # kk
      <4> SUFFICES ASSUME NEW m \in D[o] PROVE k[m] # kk OBVIOUS
      <4>1. Precedes(Other(d), k[m], k[x]) BY <3>1 DEF Sorted
      <4>2. m \in S BY <3>2
      <4>3. k[m] \in Int /\ k[x] \in Int BY <4>2
      <4>4. CASE kk < k[x]
        <5>1. Other(d) = "right" BY <4>4 DEF Other
        <5>2. k[x] <= k[m] BY <4>1, <5>1 DEF Precedes
        <5> QED BY <4>3, <4>4, <5>2
      <4>5. CASE ~(kk < k[x])
        <5>1. Other(d) = "left" BY <4>5 DEF Other
        <5>2. k[m] <= k[x] BY <4>1, <5>1 DEF Precedes
        <5> QED BY <2>2, <4>3, <4>5, <5>2
      <4> QED BY <4>4, <4>5
    <3> HIDE DEF y, o
    <3> QED BY <2>2, <3>2, <3>3, <3>4, <3>5 DEF Found
  <2> QED BY <2>1, <2>2
<1> HIDE DEF T
<1>3. S \subseteq T BY <1>1, <1>2, TreeInduct
<1> QED BY <1>1, <1>3 DEF T

(* The key of the last node r on the side d of n, copied to n.              *)
LEMMA MovedSorted ==
    ASSUME NEW C, NEW S, NEW D, NEW nil, Shaped(C, S, D, nil), NEW k, Sorted(C, S, D, k),
           \A a \in S : k[a] \in Int,
           NEW n \in S, NEW d \in Side, NEW r \in D[C[d][n]],
           \A m \in D[C[d][n]] : Precedes(d, k[m], k[r]),
           NEW k2, k2[n] = k[r], \A a \in S \ {n} : k2[a] = k[a]
    PROVE  Sorted(C, S, D, k2)
<1> SUFFICES ASSUME NEW a \in S, NEW s \in Side, NEW m \in D[C[s][a]]
             PROVE  Precedes(s, k2[m], k2[a])
  BY DEF Sorted
<1>1. /\ m \in S /\ a \notin D[C[s][a]] /\ n \notin D[C[d][n]] /\ r \in S /\ r \in D[n] /\ D[nil] = {}
      /\ C[s][a] \in S \cup {nil} /\ Other(d) \in Side
  BY Under1, Sides
<1>2. Precedes(s, k[m], k[a]) BY DEF Sorted
<1>3. CASE a = n
  <2>1. m # n /\ k2[m] = k[m] BY <1>1, <1>3
  <2>2. CASE s = d BY <1>3, <2>1, <2>2
  <2>3. CASE s # d
    <3>1. s = Other(d) /\ Other(s) = d BY <2>3, Sides
    <3>2. Precedes(d, k[r], k[n]) BY DEF Sorted
    <3>3. Precedes(s, k[n], k[r]) BY <1>1, <3>1, <3>2, Order
    <3>4. Precedes(s, k[m], k[r]) BY <1>1, <1>2, <1>3, <3>3, Order
    <3> QED BY <1>3, <2>1, <3>4
  <2> QED BY <2>2, <2>3
<1>4. CASE a # n /\ m = n
  <2>1. C[s][a] \in S BY <1>1
  <2>2. D[n] \subseteq D[C[s][a]] BY <1>4, <2>1, Nested
  <2>3. r \in D[C[s][a]] BY <1>1, <2>2
  <2>4. Precedes(s, k[r], k[a]) BY <2>3 DEF Sorted
  <2> QED BY <1>1, <1>4, <2>4
<1>5. CASE a # n /\ m # n
  <2>1. k2[m] = k[m] /\ k2[a] = k[a] BY <1>1, <1>5
  <2> QED BY <1>2, <2>1
<1> QED BY <1>3, <1>4, <1>5

(* What a count of the nodes from the top down finds.                       *)
LEMMA UnderUnique ==
    ASSUME NEW C, NEW S, NEW D, NEW nil, Shaped(C, S, D, nil),
           NEW f, f[nil] = {}, \A x \in S : f[x] = {x} \cup f[C["left"][x]] \cup f[C["right"][x]]
    PROVE  \A x \in S \cup {nil} : f[x] = D[x]
<1> DEFINE T == {x \in S \cup {nil} : f[x] = D[x]}
<1>1. nil \in T BY DEF Shaped
<1>2. ASSUME NEW x \in S, \A y \in Side : C[y][x] \in T PROVE x \in T
  <2>1. Fork(C, S, D, nil, x, "left") /\ "left" \in Side /\ "right" \in Side /\ Other("left") = "right"
    BY DEF Shaped, Side, Other
  <2>2. D[x] = {x} \cup D[C["left"][x]] \cup D[C["right"][x]] BY <2>1 DEF Fork
  <2> QED BY <1>2, <2>1, <2>2
<1> HIDE DEF T
<1>3. S \subseteq T BY <1>1, <1>2, TreeInduct
<1> QED BY <1>1, <1>3 DEF T

(* What a way down measures, where all are as black.                        *)
Height(col, l, r, m) ==
    IF l = r /\ l >= 0 THEN l + (IF col[m] = "red" THEN 0 ELSE 1) ELSE -1

LEMMA HeightOf ==
    ASSUME NEW t, NEW S, NEW D, Structure(t, S, D), NEW col, NEW B, Painted(t, col, S, B, {}, {}), NEW m \in S
    PROVE  /\ Height(col, B[t.left[m]], B[t.right[m]], m) = B[m] /\ B[m] \in Nat
           /\ t.left[m] \in S \cup {Leaf} /\ t.right[m] \in S \cup {Leaf}
<1>1. Family(t, S) BY FamilyOf
<1>2. /\ B \in [S \cup {Leaf} -> Nat] /\ EvenAt(t, col, B, m) BY DEF Painted
<1>3. /\ t.left[m] \in S \cup {Leaf} /\ t.right[m] \in S \cup {Leaf}
      /\ B[m] = B[t.left[m]] + Weight(col, m) /\ B[m] = B[t.right[m]] + Weight(col, m)
  <2>1. "left" \in Side /\ "right" \in Side /\ t["left"] = t.left /\ t["right"] = t.right BY DEF Side
  <2> QED BY <1>1, <1>2, <2>1 DEF Family, EvenAt
<1> DEFINE l == B[t.left[m]]
           r == B[t.right[m]]
           w == B[m]
<1>4. l \in Nat /\ r \in Nat /\ w \in Nat /\ w = l + Weight(col, m) /\ w = r + Weight(col, m)
  BY <1>2, <1>3
<1> HIDE DEF l, r, w
<1>5. Height(col, l, r, m) = w
  <2>1. Weight(col, m) = IF col[m] = "red" THEN 0 ELSE 1 BY DEF Weight
  <2>2. Weight(col, m) \in Nat BY <2>1
  <2>3. l = r /\ l >= 0 BY <1>4, <2>2
  <2> QED BY <1>4, <2>1, <2>3 DEF Height
<1> QED BY <1>3, <1>4, <1>5 DEF l, r, w

LEMMA HeightUnique ==
    ASSUME NEW t, NEW S, NEW D, Structure(t, S, D), NEW col, NEW B, Painted(t, col, S, B, {}, {}),
           NEW f, f[Leaf] = 0, \A m \in S : f[m] = Height(col, f[t.left[m]], f[t.right[m]], m)
    PROVE  \A m \in S \cup {Leaf} : f[m] = B[m] /\ B[m] \in Nat
<1> DEFINE T == {m \in S \cup {Leaf} : f[m] = B[m]}
<1>0. B \in [S \cup {Leaf} -> Nat] /\ B[Leaf] = 0 BY DEF Painted
<1>1. Leaf \in T BY <1>0
<1>2. ASSUME NEW m \in S, \A y \in Side : t[y][m] \in T PROVE m \in T
  <2>1. "left" \in Side /\ "right" \in Side /\ t["left"] = t.left /\ t["right"] = t.right BY DEF Side
  <2>2. f[t.left[m]] = B[t.left[m]] /\ f[t.right[m]] = B[t.right[m]]
    <3>1. t["left"][m] \in T /\ t["right"][m] \in T BY <1>2, <2>1
    <3> QED BY <2>1, <3>1
  <2>3. f[m] = Height(col, B[t.left[m]], B[t.right[m]], m) BY <2>2
  <2> QED BY <2>3, HeightOf
<1> HIDE DEF T
<1>3. Shaped(t, S, D, Leaf) BY DEF Structure, Tree
<1>4. S \subseteq T BY <1>1, <1>2, <1>3, TreeInduct
<1> QED BY <1>0, <1>1, <1>4 DEF T

(***************************************************************************)
(* The tree with the nodes S, D[n] of them under n, and its colours.        *)
(***************************************************************************)
Core(t, col, k, S, D) ==
    /\ Structure(t, S, D) /\ col \in Paint
    /\ k \in [Node -> Key] /\ Sorted(t, S, D, k)

Phase(t, col, S, B, al, sz, a, c, dm) ==
    \/ a = "idle" /\ IdlePhase(t, col, S, B, al, sz)
    \/ a \in {"insert", "insert_case5"} /\ InsertPhase(t, col, S, B, al, sz, a, c)
    \/ a \in {"remove", "remove_case3", "remove_case6"} /\ RemovePhase(t, col, S, B, al, sz, a, c, dm)

GoodAt(t, col, k, al, sz, a, c, dm, S) ==
    \E D, B : Core(t, col, k, S, D) /\ Phase(t, col, S, B, al, sz, a, c, dm)

LEMMA GoodBy ==
    ASSUME NEW t, NEW col, NEW k, NEW al, NEW sz, NEW a, NEW c, NEW dm, NEW S, NEW D, NEW B,
           Core(t, col, k, S, D), Phase(t, col, S, B, al, sz, a, c, dm)
    PROVE  GoodAt(t, col, k, al, sz, a, c, dm, S)
BY DEF GoodAt

LEMMA GoodIdle ==
    ASSUME NEW t, NEW col, NEW k, NEW al, NEW sz, NEW c, NEW dm, NEW S,
           GoodAt(t, col, k, al, sz, "idle", c, dm, S)
    PROVE  \E D, B : Core(t, col, k, S, D) /\ IdlePhase(t, col, S, B, al, sz)
BY DEF GoodAt, Phase

LEMMA GoodInsert ==
    ASSUME NEW t, NEW col, NEW k, NEW al, NEW sz, NEW a \in {"insert", "insert_case5"}, NEW c, NEW dm, NEW S,
           GoodAt(t, col, k, al, sz, a, c, dm, S)
    PROVE  \E D, B : Core(t, col, k, S, D) /\ InsertPhase(t, col, S, B, al, sz, a, c)
BY DEF GoodAt, Phase

LEMMA GoodRemove ==
    ASSUME NEW t, NEW col, NEW k, NEW al, NEW sz, NEW a \in {"remove", "remove_case3", "remove_case6"},
           NEW c, NEW dm, NEW S,
           GoodAt(t, col, k, al, sz, a, c, dm, S)
    PROVE  \E D, B : Core(t, col, k, S, D) /\ RemovePhase(t, col, S, B, al, sz, a, c, dm)
BY DEF GoodAt, Phase

LEMMA TurnedCore ==
    ASSUME NEW t, NEW col, NEW k, NEW S, NEW D, Core(t, col, k, S, D),
           NEW t2, NEW n \in S, NEW s \in Side, NEW m \in S, Turned(t, t2, S, n, s, m),
           Structure(t2, S, TurnedD(S, D, t, Leaf, n, s, m)), NEW col2 \in Paint
    PROVE  Core(t2, col2, k, S, TurnedD(S, D, t, Leaf, n, s, m))
<1>1. Structure(t, S, D) /\ k \in [Node -> Key] /\ Sorted(t, S, D, k) BY DEF Core
<1>2. Tree(t, S, D, Leaf, t.root) /\ S \subseteq Node BY <1>1 DEF Structure
<1>3. \A a \in S : k[a] \in Int BY <1>1, <1>2, NodeAssumption
<1>4. Sorted(t2, S, TurnedD(S, D, t, Leaf, n, s, m), k) BY <1>1, <1>2, <1>3, TurnedSorted
<1> QED BY <1>1, <1>4 DEF Core

LEMMA SameCore ==
    ASSUME NEW t, NEW col, NEW k, NEW S, NEW D, Core(t, col, k, S, D), NEW col2 \in Paint
    PROVE  Core(t, col2, k, S, D)
BY DEF Core

(* The state of the balanced tree.                                          *)
Good(S) == GoodAt(tree, color, key, alloc, size, at, cur, doomed, S)
GoodNext(S) == GoodAt(tree', color', key', alloc', size', at', cur', doomed', S)

(* One rotation at most, of n.                                              *)
Turns(S, n) ==
    \/ tree' = tree
    \/ n \in S /\ \E s \in Side : tree[Other(s)][n] \in S /\ tree' = Rotated(tree, n, s)

LEMMA InsertRootGood ==
    ASSUME NEW S, Good(S), InsertRoot
    PROVE  GoodNext(S)
<1>1. /\ at = "insert" /\ tree.parent[cur] = Null /\ color' = [color EXCEPT ![cur] = "black"]
      /\ at' = "idle" /\ size' = size + 1 /\ key' = key /\ alloc' = alloc /\ tree' = tree
  BY DEF InsertRoot, Inserted, Parent
<1>2. PICK D, B : Core(tree, color, key, S, D) /\ InsertPhase(tree, color, S, B, alloc, size, "insert", cur)
  <2>1. at \in {"insert", "insert_case5"} BY <1>1
  <2>2. \E D, B : Core(tree, color, key, S, D) /\ InsertPhase(tree, color, S, B, alloc, size, at, cur)
    BY <2>1, GoodInsert DEF Good
  <2> QED BY <1>1, <2>2
<1>3. Structure(tree, S, D) /\ color \in Paint BY <1>2 DEF Core
<1>4. cur \in S /\ S \subseteq Node /\ cur \in Place BY <1>2, <1>3, RootOutside DEF InsertPhase
<1> DEFINE col2 == [color EXCEPT ![cur] = "black"]
           sz2 == size + 1
<1>5. col2 \in Paint BY <1>3 DEF Paint
<1>6. col2[cur] = "black" /\ \A a \in (S \cup {Leaf}) \ {cur} : col2[a] = color[a]
  <2>1. S \cup {Leaf} \subseteq Place BY <1>4 DEF Place
  <2> QED BY <1>3, <1>4, <2>1 DEF Paint
<1> HIDE DEF col2
<1>7. PICK B2 : IdlePhase(tree, col2, S, B2, alloc, sz2) BY <1>1, <1>2, <1>3, <1>6, StepRoot
<1> HIDE DEF sz2
<1>8. Core(tree, col2, key, S, D) BY <1>2, <1>5, SameCore
<1>9. Phase(tree, col2, S, B2, alloc, sz2, "idle", cur', doomed') BY <1>7 DEF Phase
<1>10. GoodAt(tree, col2, key, alloc, sz2, "idle", cur', doomed', S) BY <1>8, <1>9, GoodBy
<1>11. col2 = color' /\ sz2 = size' BY <1>1 DEF col2, sz2
<1> QED BY <1>1, <1>10, <1>11 DEF GoodNext

LEMMA IdleGood ==
    ASSUME NEW t, NEW col, NEW k, NEW al, NEW sz, NEW S, NEW D, NEW B, NEW c, NEW dm,
           Core(t, col, k, S, D), IdlePhase(t, col, S, B, al, sz)
    PROVE  GoodAt(t, col, k, al, sz, "idle", c, dm, S)
BY DEF GoodAt, Phase

LEMMA InsertGood ==
    ASSUME NEW t, NEW col, NEW k, NEW al, NEW sz, NEW S, NEW D, NEW B, NEW a \in {"insert", "insert_case5"},
           NEW c, NEW dm, Core(t, col, k, S, D), InsertPhase(t, col, S, B, al, sz, a, c)
    PROVE  GoodAt(t, col, k, al, sz, a, c, dm, S)
BY DEF GoodAt, Phase

LEMMA RemoveGood ==
    ASSUME NEW t, NEW col, NEW k, NEW al, NEW sz, NEW S, NEW D, NEW B,
           NEW a \in {"remove", "remove_case3", "remove_case6"},
           NEW c, NEW dm, Core(t, col, k, S, D), RemovePhase(t, col, S, B, al, sz, a, c, dm)
    PROVE  GoodAt(t, col, k, al, sz, a, c, dm, S)
BY DEF GoodAt, Phase

LEMMA InsertUnderBlackGood ==
    ASSUME NEW S, Good(S), InsertUnderBlack
    PROVE  GoodNext(S)
<1>1. /\ at = "insert" /\ tree.parent[cur] # Null /\ color[tree.parent[cur]] # "red"
      /\ at' = "idle" /\ size' = size + 1 /\ key' = key /\ alloc' = alloc /\ tree' = tree /\ color' = color
  BY DEF InsertUnderBlack, Inserted, Parent, Red
<1>2. PICK D, B : Core(tree, color, key, S, D) /\ InsertPhase(tree, color, S, B, alloc, size, "insert", cur)
  <2>1. at \in {"insert", "insert_case5"} BY <1>1
  <2>2. \E D, B : Core(tree, color, key, S, D) /\ InsertPhase(tree, color, S, B, alloc, size, at, cur)
    BY <2>1, GoodInsert DEF Good
  <2> QED BY <1>1, <2>2
<1>3. Structure(tree, S, D) BY <1>2 DEF Core
<1> DEFINE sz2 == size + 1
<1>4. IdlePhase(tree, color, S, B, alloc, sz2) BY <1>1, <1>2, <1>3, StepUnderBlack
<1> HIDE DEF sz2
<1>5. GoodAt(tree, color, key, alloc, sz2, "idle", cur', doomed', S) BY <1>2, <1>4, IdleGood
<1>6. sz2 = size' BY <1>1 DEF sz2
<1> QED BY <1>1, <1>5, <1>6 DEF GoodNext

(* The families the cases of insert look at.                                *)
LEMMA UncleOf ==
    ASSUME NEW S, NEW D, NEW B, NEW p, NEW g, NEW d, NEW e,
           Structure(tree, S, D), InsertPhase(tree, color, S, B, alloc, size, "insert", cur),
           GrandOf(tree, S, color, cur, p, g, e, d)
    PROVE  /\ Parent(cur) = p /\ Grandparent(cur) = g /\ Sibling(p) = tree[Other(e)][g]
           /\ RedUncle(cur) <=> color[tree[Other(e)][g]] = "red"
<1>1. /\ tree.parent[cur] = p /\ tree.parent[p] = g /\ SideOf(tree, p) = e /\ g \in S
  BY DEF GrandOf
<1>2. Parent(cur) = p /\ Grandparent(cur) = g /\ Sibling(p) = tree[Other(e)][g]
  BY <1>1 DEF Parent, Grandparent, Sibling
<1>3. g # Null BY <1>1, RootOutside
<1> QED BY <1>2, <1>3 DEF RedUncle, Red

LEMMA InsertFamily ==
    ASSUME NEW S, Good(S), at = "insert", Parent(cur) # Null, Red(Parent(cur))
    PROVE  \E D, B, p, g, e, d :
             /\ Core(tree, color, key, S, D) /\ InsertPhase(tree, color, S, B, alloc, size, "insert", cur)
             /\ GrandOf(tree, S, color, cur, p, g, e, d) /\ color[p] = "red"
             /\ Parent(cur) = p /\ Grandparent(cur) = g /\ Sibling(p) = tree[Other(e)][g]
             /\ RedUncle(cur) <=> color[tree[Other(e)][g]] = "red"
<1>1. PICK D, B : Core(tree, color, key, S, D) /\ InsertPhase(tree, color, S, B, alloc, size, "insert", cur)
  <2>1. at \in {"insert", "insert_case5"} OBVIOUS
  <2>2. \E D, B : Core(tree, color, key, S, D) /\ InsertPhase(tree, color, S, B, alloc, size, at, cur)
    BY <2>1, GoodInsert DEF Good
  <2> QED BY <2>2
<1>2. Structure(tree, S, D) BY <1>1 DEF Core
<1>3. tree.parent[cur] # Null /\ color[tree.parent[cur]] = "red" BY DEF Parent, Red
<1> DEFINE p == tree.parent[cur]
           g == tree.parent[p]
           e == SideOf(tree, p)
           d == SideOf(tree, cur)
<1>4. GrandOf(tree, S, color, cur, p, g, e, d) BY <1>1, <1>2, <1>3, GrandExists
<1>5. color[p] = "red" BY <1>3
<1> HIDE DEF p, g, e, d
<1>6. /\ Parent(cur) = p /\ Grandparent(cur) = g /\ Sibling(p) = tree[Other(e)][g]
      /\ RedUncle(cur) <=> color[tree[Other(e)][g]] = "red"
  BY <1>1, <1>2, <1>4, UncleOf
<1> QED BY <1>1, <1>4, <1>5, <1>6

LEMMA InsertRepaintGood ==
    ASSUME NEW S, Good(S), InsertRepaint
    PROVE  GoodNext(S)
<1>1. /\ at = "insert" /\ Parent(cur) # Null /\ Red(Parent(cur)) /\ RedUncle(cur)
      /\ color' = [color EXCEPT ![Parent(cur)] = "black",
                                ![Sibling(Parent(cur))] = "black",
                                ![Grandparent(cur)] = "red"]
      /\ cur' = Grandparent(cur)
      /\ tree' = tree /\ key' = key /\ size' = size /\ alloc' = alloc /\ at' = at /\ doomed' = doomed
  BY DEF InsertRepaint
<1>2. PICK D, B, p, g, e, d :
        /\ Core(tree, color, key, S, D) /\ InsertPhase(tree, color, S, B, alloc, size, "insert", cur)
        /\ GrandOf(tree, S, color, cur, p, g, e, d) /\ color[p] = "red"
        /\ Parent(cur) = p /\ Grandparent(cur) = g /\ Sibling(p) = tree[Other(e)][g]
        /\ RedUncle(cur) <=> color[tree[Other(e)][g]] = "red"
  BY <1>1, InsertFamily
<1> DEFINE u == tree[Other(e)][g]
           col2 == [color EXCEPT ![p] = "black", ![u] = "black", ![g] = "red"]
<1>3. Structure(tree, S, D) /\ color \in Paint BY <1>2 DEF Core
<1>4. Family(tree, S) /\ S \cup {Leaf} \subseteq Place BY <1>3, FamilyOf, RootOutside
<1>5. /\ p \in S /\ g \in S /\ e \in Side /\ Other(e) \in Side /\ tree[e][g] = p BY <1>2, Sides DEF GrandOf
<1>6. u \in S /\ u # p /\ p # g /\ u # g
  <2>1. color[Leaf] # "red" BY <1>2 DEF InsertPhase, Painted
  <2>2. u \in S BY <1>1, <1>2, <1>4, <1>5, <2>1 DEF Family
  <2>3. tree[e][g] # Leaf => tree[Other(e)][g] # tree[e][g] BY <1>4, <1>5 DEF Family
  <2>4. tree[e][g] # g /\ tree[Other(e)][g] # g /\ p # Leaf BY <1>4, <1>5 DEF Family
  <2> QED BY <1>5, <2>2, <2>3, <2>4
<1>7. color' = col2 BY <1>1, <1>2
<1>8. color[u] = "red" /\ u = tree[Other(e)][g] BY <1>1, <1>2
<1> HIDE DEF u
<1>9. col2 \in Paint BY <1>3 DEF Paint
<1>10. /\ col2[g] = "red" /\ col2[p] = "black" /\ col2[u] = "black"
       /\ \A a \in (S \cup {Leaf}) \ {g, p, u} : col2[a] = color[a]
  BY <1>3, <1>4, <1>5, <1>6 DEF Paint
<1> HIDE DEF col2
<1>11. PICK B2 : InsertPhase(tree, col2, S, B2, alloc, size, "insert", g)
  BY <1>2, <1>3, <1>8, <1>10, StepRepaint
<1>12. Core(tree, col2, key, S, D) BY <1>2, <1>9, SameCore
<1>13. "insert" \in {"insert", "insert_case5"} OBVIOUS
<1>14. GoodAt(tree, col2, key, alloc, size, "insert", g, doomed, S) BY <1>11, <1>12, <1>13, InsertGood
<1> QED BY <1>1, <1>2, <1>7, <1>14 DEF GoodNext

LEMMA InsertInnerGood ==
    ASSUME NEW S, Good(S), InsertInner
    PROVE  GoodNext(S) /\ Turns(S, Parent(cur))
<1>1. /\ at = "insert" /\ Parent(cur) # Null /\ Red(Parent(cur)) /\ ~RedUncle(cur)
      /\ IF SideOf(tree, cur) = SideOf(tree, Parent(cur))
           THEN tree' = tree /\ cur' = cur
           ELSE tree' = Rotated(tree, Parent(cur), SideOf(tree, Parent(cur))) /\ cur' = Parent(cur)
      /\ key' = key /\ color' = color /\ size' = size /\ alloc' = alloc /\ at' = "insert_case5" /\ doomed' = doomed
  BY DEF InsertInner
<1>2. PICK D, B, p, g, e, d :
        /\ Core(tree, color, key, S, D) /\ InsertPhase(tree, color, S, B, alloc, size, "insert", cur)
        /\ GrandOf(tree, S, color, cur, p, g, e, d) /\ color[p] = "red"
        /\ Parent(cur) = p /\ Grandparent(cur) = g /\ Sibling(p) = tree[Other(e)][g]
        /\ RedUncle(cur) <=> color[tree[Other(e)][g]] = "red"
  BY <1>1, InsertFamily
<1>3. Structure(tree, S, D) /\ color \in Paint BY <1>2 DEF Core
<1>4. color[tree[Other(e)][g]] # "red" /\ SideOf(tree, cur) = d /\ SideOf(tree, p) = e
      /\ p \in S /\ cur \in S /\ e \in Side
  BY <1>1, <1>2 DEF GrandOf
<1>5. "insert_case5" \in {"insert", "insert_case5"} OBVIOUS
<1>6. CASE d = e
  <2>1. tree' = tree /\ cur' = cur BY <1>1, <1>2, <1>4, <1>6
  <2>2. InsertPhase(tree, color, S, B, alloc, size, "insert_case5", cur)
    <3>1. GrandOf(tree, S, color, cur, p, g, e, e) BY <1>2, <1>6
    <3> QED BY <1>2, <1>3, <1>4, <3>1, StepSame
  <2>3. GoodAt(tree, color, key, alloc, size, "insert_case5", cur, doomed, S) BY <1>2, <1>5, <2>2, InsertGood
  <2> QED BY <1>1, <2>1, <2>3 DEF GoodNext, Turns
<1>7. CASE d # e
  <2> DEFINE t2 == Rotated(tree, p, e)
             D2 == TurnedD(S, D, tree, Leaf, p, e, cur)
  <2>1. tree' = t2 /\ cur' = p BY <1>1, <1>2, <1>4, <1>7
  <2>2. /\ Structure(t2, S, D2) /\ InsertPhase(t2, color, S, B, alloc, size, "insert_case5", p)
        /\ tree[Other(e)][p] = cur
    BY <1>2, <1>3, <1>4, <1>7, StepInner
  <2>3. Turned(tree, t2, S, p, e, cur) BY <1>3, <1>4, <2>2, RotatedStructure
  <2> HIDE DEF t2
  <2>4. Core(t2, color, key, S, D2) BY <1>2, <1>3, <1>4, <2>2, <2>3, TurnedCore
  <2> HIDE DEF D2
  <2>5. GoodAt(t2, color, key, alloc, size, "insert_case5", p, doomed, S) BY <1>5, <2>2, <2>4, InsertGood
  <2>6. Turns(S, p) BY <1>4, <2>1, <2>2 DEF Turns, t2
  <2> QED BY <1>1, <1>2, <2>1, <2>5, <2>6 DEF GoodNext
<1> QED BY <1>6, <1>7

LEMMA InsertOuterGood ==
    ASSUME NEW S, Good(S), InsertOuter
    PROVE  GoodNext(S) /\ Turns(S, Grandparent(cur))
<1>1. /\ at = "insert_case5"
      /\ color' = [color EXCEPT ![Parent(cur)] = "black", ![Grandparent(cur)] = "red"]
      /\ tree' = Rotated(tree, Grandparent(cur), Other(SideOf(tree, cur)))
      /\ at' = "idle" /\ size' = size + 1 /\ key' = key /\ alloc' = alloc
  BY DEF InsertOuter, Inserted
<1>2. PICK D, B : Core(tree, color, key, S, D) /\ InsertPhase(tree, color, S, B, alloc, size, "insert_case5", cur)
  <2>1. at \in {"insert", "insert_case5"} BY <1>1
  <2>2. \E D, B : Core(tree, color, key, S, D) /\ InsertPhase(tree, color, S, B, alloc, size, at, cur)
    BY <2>1, GoodInsert DEF Good
  <2> QED BY <1>1, <2>2
<1>3. Structure(tree, S, D) /\ color \in Paint BY <1>2 DEF Core
<1>4. Family(tree, S) /\ S \cup {Leaf} \subseteq Place BY <1>3, FamilyOf, RootOutside
<1>5. PICK p, g, e : CaseFive(tree, color, S, cur, p, g, e) BY <1>2 DEF InsertPhase
<1>6. p \in S /\ g \in S /\ e \in Side /\ tree[e][p] = cur /\ tree[e][g] = p /\ cur \in S /\ cur # Leaf
  BY <1>2, <1>4, <1>5 DEF CaseFive, InsertPhase, Family
<1>7. tree.parent[cur] = p /\ tree.parent[p] = g /\ p # g /\ tree[Other(e)][p] # cur /\ p # Leaf
  BY <1>4, <1>6 DEF Family
<1>8. SideOf(tree, cur) = e BY <1>6, <1>7, SideOfChild
<1>9. Parent(cur) = p /\ Grandparent(cur) = g BY <1>7 DEF Parent, Grandparent
<1> DEFINE t2 == Rotated(tree, g, Other(e))
           D2 == TurnedD(S, D, tree, Leaf, g, Other(e), p)
           col2 == [color EXCEPT ![p] = "black", ![g] = "red"]
           sz2 == size + 1
<1>10. tree' = t2 /\ color' = col2 /\ size' = sz2 BY <1>1, <1>8, <1>9
<1>11. col2 \in Paint BY <1>3 DEF Paint
<1>12. col2[g] = "red" /\ col2[p] = "black" /\ \A a \in (S \cup {Leaf}) \ {g, p} : col2[a] = color[a]
  BY <1>3, <1>4, <1>6, <1>7 DEF Paint
<1> HIDE DEF col2
<1>13. /\ Structure(t2, S, D2) /\ Turned(tree, t2, S, g, Other(e), p)
       /\ \E B2 : IdlePhase(t2, col2, S, B2, alloc, sz2)
  BY <1>2, <1>3, <1>5, <1>12, StepOuter
<1> HIDE DEF t2, sz2
<1>14. PICK B2 : IdlePhase(t2, col2, S, B2, alloc, sz2) BY <1>13
<1>15. Other(e) \in Side BY <1>6, Sides
<1>16. Core(t2, col2, key, S, D2) BY <1>2, <1>6, <1>11, <1>13, <1>15, TurnedCore
<1> HIDE DEF D2
<1>17. GoodAt(t2, col2, key, alloc, sz2, "idle", cur', doomed', S) BY <1>14, <1>16, IdleGood
<1>18. Turns(S, g)
  <2>1. tree[Other(Other(e))][g] = p BY <1>6, Sides
  <2> QED BY <1>6, <1>10, <1>15, <2>1 DEF Turns, t2
<1> QED BY <1>1, <1>9, <1>10, <1>17, <1>18 DEF GoodNext

(* What the cases of remove look at.                                        *)
Looks(S, D, B, p, d, s) ==
    /\ Core(tree, color, key, S, D) /\ RemovePhase(tree, color, S, B, alloc, size, at, cur, doomed)
    /\ Gap(tree, S, color, B, cur, p, d, s) /\ p # Null
    /\ Parent(cur) = p /\ Sibling(cur) = s /\ SideOf(tree, cur) = d
    /\ at # "remove" => color[s] # "red"
    /\ at = "remove_case6" => color[tree[Other(d)][s]] = "red"

LEMMA RemoveFamily ==
    ASSUME NEW S, Good(S), at \in {"remove", "remove_case3", "remove_case6"},
           Parent(cur) # Null \/ at # "remove"
    PROVE  \E D, B, p, d, s : Looks(S, D, B, p, d, s)
<1>1. PICK D, B : /\ Core(tree, color, key, S, D)
                  /\ RemovePhase(tree, color, S, B, alloc, size, at, cur, doomed)
  BY GoodRemove DEF Good
<1>2. Structure(tree, S, D) BY <1>1 DEF Core
<1>3. RemoveAt(tree, color, S, B, at, cur) BY <1>1 DEF RemovePhase
<1>4. tree.parent[cur] # Null \/ at # "remove" BY DEF Parent
<1> DEFINE p == tree.parent[cur]
           Is(d) == LET s == tree[Other(d)][p]
                    IN /\ Gap(tree, S, color, B, cur, p, d, s) /\ p # Null
                       /\ at # "remove" => color[s] # "red"
                       /\ at = "remove_case6" => color[tree[Other(d)][s]] = "red"
<1>5. \E d : Is(d) BY <1>2, <1>3, <1>4, GapExists
<1> HIDE DEF Is
<1>6. PICK d : Is(d) BY <1>5
<1> DEFINE s == tree[Other(d)][p]
<1>7. /\ Gap(tree, S, color, B, cur, p, d, s) /\ p # Null
      /\ at # "remove" => color[s] # "red"
      /\ at = "remove_case6" => color[tree[Other(d)][s]] = "red"
  BY <1>6 DEF Is
<1>8. Parent(cur) = p BY DEF Parent
<1>9. SideOf(tree, cur) = d BY <1>7 DEF Gap
<1>10. Sibling(cur) = s BY <1>8, <1>9 DEF Sibling
<1> HIDE DEF p, s
<1> QED BY <1>1, <1>7, <1>8, <1>9, <1>10 DEF Looks

LEMMA LooksAt ==
    ASSUME NEW S, NEW D, NEW B, NEW p, NEW d, NEW s, Looks(S, D, B, p, d, s)
    PROVE  /\ Structure(tree, S, D) /\ color \in Paint /\ Core(tree, color, key, S, D)
           /\ RemovePhase(tree, color, S, B, alloc, size, at, cur, doomed)
           /\ Gap(tree, S, color, B, cur, p, d, s) /\ p # Null
           /\ Parent(cur) = p /\ Sibling(cur) = s /\ SideOf(tree, cur) = d
           /\ p \in S /\ s \in S /\ s # p /\ s = tree[Other(d)][p] /\ d \in Side /\ Other(d) \in Side
           /\ S \cup {Leaf} \subseteq Place /\ Family(tree, S) /\ color[Leaf] # "red"
           /\ Other(Other(d)) = d /\ Leaf \notin S
<1>1. Structure(tree, S, D) /\ color \in Paint BY DEF Looks, Core
<1>2. color[Leaf] # "red" BY DEF Looks, Gap, Short, Painted
<1> QED BY <1>1, <1>2, FamilyOf, RootOutside DEF Looks, Gap

LEMMA RemoveRootGood ==
    ASSUME NEW S, Good(S), RemoveRoot
    PROVE  GoodNext(S)
<1>1. /\ at = "remove" /\ tree.parent[cur] = Null /\ at' = "idle" /\ alloc' = alloc \ {doomed} /\ size' = size - 1
      /\ tree' = tree /\ key' = key /\ color' = color
  BY DEF RemoveRoot, Removed, Parent
<1>2. PICK D, B : Core(tree, color, key, S, D) /\ RemovePhase(tree, color, S, B, alloc, size, "remove", cur, doomed)
  <2>1. at \in {"remove", "remove_case3", "remove_case6"} BY <1>1
  <2>2. \E D, B : Core(tree, color, key, S, D) /\ RemovePhase(tree, color, S, B, alloc, size, at, cur, doomed)
    BY <2>1, GoodRemove DEF Good
  <2> QED BY <1>1, <2>2
<1>3. Structure(tree, S, D) BY <1>2 DEF Core
<1> DEFINE sz2 == size - 1
           al2 == alloc \ {doomed}
<1>4. IdlePhase(tree, color, S, B, al2, sz2) BY <1>1, <1>2, <1>3, StepRemoveRoot
<1>5. sz2 = size' /\ al2 = alloc' BY <1>1
<1> HIDE DEF sz2, al2
<1>6. GoodAt(tree, color, key, al2, sz2, "idle", cur', doomed', S) BY <1>2, <1>4, IdleGood
<1> QED BY <1>1, <1>5, <1>6 DEF GoodNext

LEMMA RemoveRedSiblingGood ==
    ASSUME NEW S, Good(S), RemoveRedSibling
    PROVE  GoodNext(S) /\ Turns(S, Parent(cur))
<1>1. /\ at = "remove" /\ Parent(cur) # Null /\ at' = "remove_case3"
      /\ IF Red(Sibling(cur))
           THEN /\ color' = [color EXCEPT ![Parent(cur)] = "red", ![Sibling(cur)] = "black"]
                /\ tree' = Rotated(tree, Parent(cur), SideOf(tree, cur))
           ELSE tree' = tree /\ color' = color
      /\ key' = key /\ size' = size /\ alloc' = alloc /\ cur' = cur /\ doomed' = doomed
  BY DEF RemoveRedSibling
<1>2. at \in {"remove", "remove_case3", "remove_case6"} BY <1>1
<1>3. PICK D, B, p, d, s : Looks(S, D, B, p, d, s) BY <1>1, <1>2, RemoveFamily
<1>4. /\ Structure(tree, S, D) /\ color \in Paint /\ Core(tree, color, key, S, D)
      /\ RemovePhase(tree, color, S, B, alloc, size, at, cur, doomed)
      /\ Gap(tree, S, color, B, cur, p, d, s) /\ p # Null
      /\ Parent(cur) = p /\ Sibling(cur) = s /\ SideOf(tree, cur) = d
      /\ p \in S /\ s \in S /\ s # p /\ s = tree[Other(d)][p] /\ d \in Side
      /\ S \cup {Leaf} \subseteq Place
  BY <1>3, LooksAt
<1>5. "remove_case3" \in {"remove", "remove_case3", "remove_case6"} OBVIOUS
<1>6. CASE color[s] = "red"
  <2> DEFINE t2 == Rotated(tree, p, d)
             D2 == TurnedD(S, D, tree, Leaf, p, d, s)
             col2 == [color EXCEPT ![p] = "red", ![s] = "black"]
  <2>1. tree' = t2 /\ color' = col2 BY <1>1, <1>4, <1>6 DEF Red
  <2>2. col2 \in Paint BY <1>4 DEF Paint
  <2>3. RedSibling(S, color, col2, p, s) BY <1>4 DEF Paint, RedSibling
  <2> HIDE DEF col2
  <2>4. /\ Structure(t2, S, D2) /\ Turned(tree, t2, S, p, d, s)
        /\ \E B2 : RemovePhase(t2, col2, S, B2, alloc, size, "remove_case3", cur, doomed)
    BY <1>4, <1>6, <2>3, StepRedSibling
  <2> HIDE DEF t2
  <2>5. PICK B2 : RemovePhase(t2, col2, S, B2, alloc, size, "remove_case3", cur, doomed) BY <2>4
  <2>6. Core(t2, col2, key, S, D2) BY <1>4, <2>2, <2>4, TurnedCore
  <2> HIDE DEF D2
  <2>7. GoodAt(t2, col2, key, alloc, size, "remove_case3", cur, doomed, S) BY <1>5, <2>5, <2>6, RemoveGood
  <2>8. Turns(S, p) BY <1>4, <2>1 DEF Turns, t2
  <2> QED BY <1>1, <1>4, <2>1, <2>7, <2>8 DEF GoodNext
<1>7. CASE color[s] # "red"
  <2>1. tree' = tree /\ color' = color BY <1>1, <1>4, <1>7 DEF Red
  <2>2. RemovePhase(tree, color, S, B, alloc, size, "remove_case3", cur, doomed) BY <1>4, <1>7, StepBlackSibling
  <2>3. GoodAt(tree, color, key, alloc, size, "remove_case3", cur, doomed, S) BY <1>4, <1>5, <2>2, RemoveGood
  <2> QED BY <1>1, <2>1, <2>3 DEF GoodNext, Turns
<1> QED BY <1>6, <1>7

LEMMA RemoveAllBlackGood ==
    ASSUME NEW S, Good(S), RemoveAllBlack
    PROVE  GoodNext(S)
<1>1. /\ at = "remove_case3" /\ ~Red(Parent(cur)) /\ ~Red(Sibling(cur)) /\ BlackNephews(cur)
      /\ color' = [color EXCEPT ![Sibling(cur)] = "red"] /\ at' = "remove" /\ cur' = Parent(cur)
      /\ tree' = tree /\ key' = key /\ size' = size /\ alloc' = alloc /\ doomed' = doomed
  BY DEF RemoveAllBlack
<1>2. at \in {"remove", "remove_case3", "remove_case6"} /\ at # "remove" BY <1>1
<1>3. PICK D, B, p, d, s : Looks(S, D, B, p, d, s) BY <1>2, RemoveFamily
<1>4. /\ Structure(tree, S, D) /\ color \in Paint /\ Core(tree, color, key, S, D)
      /\ RemovePhase(tree, color, S, B, alloc, size, at, cur, doomed)
      /\ Gap(tree, S, color, B, cur, p, d, s)
      /\ Parent(cur) = p /\ Sibling(cur) = s
      /\ p \in S /\ s \in S /\ s # p /\ S \cup {Leaf} \subseteq Place
  BY <1>3, LooksAt
<1>5. color[p] # "red" /\ color[s] # "red" /\ \A x \in Side : color[tree[x][s]] # "red"
  BY <1>1, <1>4 DEF Red, BlackNephews
<1> DEFINE col2 == [color EXCEPT ![s] = "red"]
<1>6. color' = col2 BY <1>1, <1>4
<1>7. col2 \in Paint BY <1>4 DEF Paint
<1>8. Redder(S, color, col2, p, s) BY <1>4, <1>5 DEF Paint, Redder
<1> HIDE DEF col2
<1>9. PICK B2 : RemovePhase(tree, col2, S, B2, alloc, size, "remove", p, doomed)
  BY <1>4, <1>5, <1>8, StepAllBlack
<1>10. Core(tree, col2, key, S, D) BY <1>4, <1>7, SameCore
<1>11. "remove" \in {"remove", "remove_case3", "remove_case6"} OBVIOUS
<1>12. GoodAt(tree, col2, key, alloc, size, "remove", p, doomed, S) BY <1>9, <1>10, <1>11, RemoveGood
<1> QED BY <1>1, <1>4, <1>6, <1>12 DEF GoodNext

LEMMA RemoveRedParentGood ==
    ASSUME NEW S, Good(S), RemoveRedParent
    PROVE  GoodNext(S)
<1>1. /\ at = "remove_case3" /\ Red(Parent(cur)) /\ ~Red(Sibling(cur)) /\ BlackNephews(cur)
      /\ color' = [color EXCEPT ![Sibling(cur)] = "red", ![Parent(cur)] = "black"]
      /\ at' = "idle" /\ alloc' = alloc \ {doomed} /\ size' = size - 1
      /\ tree' = tree /\ key' = key
  BY DEF RemoveRedParent, Removed
<1>2. at \in {"remove", "remove_case3", "remove_case6"} /\ at # "remove" BY <1>1
<1>3. PICK D, B, p, d, s : Looks(S, D, B, p, d, s) BY <1>2, RemoveFamily
<1>4. /\ Structure(tree, S, D) /\ color \in Paint /\ Core(tree, color, key, S, D)
      /\ RemovePhase(tree, color, S, B, alloc, size, at, cur, doomed)
      /\ Gap(tree, S, color, B, cur, p, d, s)
      /\ Parent(cur) = p /\ Sibling(cur) = s
      /\ p \in S /\ s \in S /\ s # p /\ S \cup {Leaf} \subseteq Place
  BY <1>3, LooksAt
<1>5. color[p] = "red" /\ color[s] # "red" /\ \A x \in Side : color[tree[x][s]] # "red"
  BY <1>1, <1>4 DEF Red, BlackNephews
<1> DEFINE col2 == [color EXCEPT ![s] = "red", ![p] = "black"]
           sz2 == size - 1
           al2 == alloc \ {doomed}
<1>6. color' = col2 /\ sz2 = size' /\ al2 = alloc' BY <1>1, <1>4
<1>7. col2 \in Paint BY <1>4 DEF Paint
<1>8. Redder(S, color, col2, p, s) BY <1>4, <1>5 DEF Paint, Redder
<1> HIDE DEF col2
<1>9. PICK B2 : IdlePhase(tree, col2, S, B2, al2, sz2)
  BY <1>4, <1>5, <1>8, StepRedParent
<1> HIDE DEF sz2, al2
<1>10. Core(tree, col2, key, S, D) BY <1>4, <1>7, SameCore
<1>12. GoodAt(tree, col2, key, al2, sz2, "idle", cur', doomed', S) BY <1>9, <1>10, IdleGood
<1> QED BY <1>1, <1>4, <1>6, <1>12 DEF GoodNext

LEMMA RemoveInnerGood ==
    ASSUME NEW S, Good(S), RemoveInner
    PROVE  GoodNext(S) /\ Turns(S, Sibling(cur))
<1>1. /\ at = "remove_case3" /\ (Red(Sibling(cur)) \/ ~BlackNephews(cur))
      /\ at' = "remove_case6" /\ key' = key /\ size' = size /\ alloc' = alloc /\ cur' = cur /\ doomed' = doomed
  BY DEF RemoveInner
<1>2. at \in {"remove", "remove_case3", "remove_case6"} /\ at # "remove" BY <1>1
<1>3. PICK D, B, p, d, s : Looks(S, D, B, p, d, s) BY <1>2, RemoveFamily
<1>4. /\ Structure(tree, S, D) /\ color \in Paint /\ Core(tree, color, key, S, D)
      /\ RemovePhase(tree, color, S, B, alloc, size, at, cur, doomed)
      /\ Gap(tree, S, color, B, cur, p, d, s) /\ p # Null
      /\ Parent(cur) = p /\ Sibling(cur) = s /\ SideOf(tree, cur) = d
      /\ p \in S /\ s \in S /\ s # p /\ s = tree[Other(d)][p] /\ d \in Side /\ Other(d) \in Side
      /\ S \cup {Leaf} \subseteq Place /\ Family(tree, S) /\ color[Leaf] # "red"
      /\ Other(Other(d)) = d /\ Leaf \notin S
  BY <1>3, LooksAt
<1>a. color[s] # "red" BY <1>2, <1>3 DEF Looks
<1> DEFINE near == tree[d][s]
           far == tree[Other(d)][s]
<1>5. IF color[s] # "red" /\ color[near] = "red" /\ color[far] # "red"
        THEN /\ color' = [color EXCEPT ![s] = "red", ![near] = "black"]
             /\ tree' = Rotated(tree, s, Other(d))
        ELSE tree' = tree /\ color' = color
  BY <1>4 DEF RemoveInner, Red
<1>6. color[near] = "red" \/ color[far] = "red"
  <2>1. \E x \in Side : color[tree[x][s]] = "red" BY <1>1, <1>4, <1>a DEF BlackNephews, Red
  <2> QED BY <1>4, <2>1, Sides
<1>7. "remove_case6" \in {"remove", "remove_case3", "remove_case6"} OBVIOUS
<1>8. CASE color[near] = "red" /\ color[far] # "red"
  <2> DEFINE t2 == Rotated(tree, s, Other(d))
             D2 == TurnedD(S, D, tree, Leaf, s, Other(d), near)
             col2 == [color EXCEPT ![s] = "red", ![near] = "black"]
  <2>1. tree' = t2 /\ color' = col2 BY <1>5, <1>8, <1>a
  <2>2. near \in S /\ near # s BY <1>4, <1>8 DEF Family
  <2>3. near = tree[d][s] /\ color[near] = "red" /\ color[tree[Other(d)][s]] # "red" BY <1>8
  <2> HIDE DEF near
  <2>4. col2 \in Paint BY <1>4 DEF Paint
  <2>5. NearRed(S, color, col2, s, near) BY <1>4, <2>2 DEF Paint, NearRed
  <2> HIDE DEF col2
  <2>6. /\ Structure(t2, S, D2) /\ Turned(tree, t2, S, s, Other(d), near)
        /\ \E B2 : RemovePhase(t2, col2, S, B2, alloc, size, "remove_case6", cur, doomed)
    BY <1>4, <1>a, <2>3, <2>5, StepNear
  <2> HIDE DEF t2
  <2>7. PICK B2 : RemovePhase(t2, col2, S, B2, alloc, size, "remove_case6", cur, doomed) BY <2>6
  <2>8. Core(t2, col2, key, S, D2) BY <1>4, <2>2, <2>4, <2>6, TurnedCore
  <2> HIDE DEF D2
  <2>9. GoodAt(t2, col2, key, alloc, size, "remove_case6", cur, doomed, S) BY <1>7, <2>7, <2>8, RemoveGood
  <2>10. Turns(S, s)
    <3>1. tree[Other(Other(d))][s] = near BY <1>4, <2>3
    <3> QED BY <1>4, <2>1, <2>2, <3>1 DEF Turns, t2
  <2> QED BY <1>1, <1>4, <2>1, <2>9, <2>10 DEF GoodNext
<1>9. CASE color[far] = "red"
  <2>1. tree' = tree /\ color' = color BY <1>5, <1>9
  <2>2. RemovePhase(tree, color, S, B, alloc, size, "remove_case6", cur, doomed)
    BY <1>4, <1>9, <1>a, StepFarRed
  <2>3. GoodAt(tree, color, key, alloc, size, "remove_case6", cur, doomed, S) BY <1>4, <1>7, <2>2, RemoveGood
  <2> QED BY <1>1, <2>1, <2>3 DEF GoodNext, Turns
<1> QED BY <1>6, <1>8, <1>9

LEMMA RemoveOuterGood ==
    ASSUME NEW S, Good(S), RemoveOuter
    PROVE  GoodNext(S) /\ Turns(S, Parent(cur))
<1>1. at = "remove_case6" /\ at' = "idle" /\ alloc' = alloc \ {doomed} /\ size' = size - 1 /\ key' = key
  BY DEF RemoveOuter, Removed
<1>2. at \in {"remove", "remove_case3", "remove_case6"} /\ at # "remove" BY <1>1
<1>3. PICK D, B, p, d, s : Looks(S, D, B, p, d, s) BY <1>2, RemoveFamily
<1>4. /\ Structure(tree, S, D) /\ color \in Paint /\ Core(tree, color, key, S, D)
      /\ RemovePhase(tree, color, S, B, alloc, size, at, cur, doomed)
      /\ Gap(tree, S, color, B, cur, p, d, s) /\ p # Null
      /\ Parent(cur) = p /\ Sibling(cur) = s /\ SideOf(tree, cur) = d
      /\ p \in S /\ s \in S /\ s # p /\ s = tree[Other(d)][p] /\ d \in Side /\ Other(d) \in Side
      /\ S \cup {Leaf} \subseteq Place /\ Family(tree, S) /\ color[Leaf] # "red" /\ Leaf \notin S
  BY <1>3, LooksAt
<1> DEFINE far == tree[Other(d)][s]
           t2 == Rotated(tree, p, d)
           D2 == TurnedD(S, D, tree, Leaf, p, d, s)
           sz2 == size - 1
           al2 == alloc \ {doomed}
           col2 == [color EXCEPT ![s] = color[p], ![p] = "black", ![far] = "black"]
<1>a. color[s] # "red" /\ color[far] = "red" BY <1>1, <1>2, <1>3 DEF Looks
<1>5. /\ tree' = t2 /\ sz2 = size' /\ al2 = alloc' /\ color' = col2 BY <1>1, <1>4 DEF RemoveOuter
<1>6. far \in S /\ far # s /\ far # p
  <2>1. far \in S /\ far # s BY <1>4, <1>a DEF Family
  <2>2. s # Leaf BY <1>4
  <2>3. tree[Other(d)][p] # Leaf => tree[Other(d)][tree[Other(d)][p]] # p BY <1>4 DEF Family
  <2> QED BY <1>4, <2>1, <2>2, <2>3
<1>b. far = tree[Other(d)][s] OBVIOUS
<1> HIDE DEF far
<1>7. col2 \in Paint BY <1>4 DEF Paint
<1>8. FarRed(S, color, col2, p, s, far) BY <1>4, <1>6 DEF Paint, FarRed
<1> HIDE DEF col2
<1>9. /\ Structure(t2, S, D2) /\ Turned(tree, t2, S, p, d, s)
      /\ \E B2 : IdlePhase(t2, col2, S, B2, al2, sz2)
  BY <1>4, <1>a, <1>b, <1>8, StepFar
<1> HIDE DEF t2, sz2, al2
<1>10. PICK B2 : IdlePhase(t2, col2, S, B2, al2, sz2) BY <1>9
<1>11. Core(t2, col2, key, S, D2) BY <1>4, <1>7, <1>9, TurnedCore
<1> HIDE DEF D2
<1>12. GoodAt(t2, col2, key, al2, sz2, "idle", cur', doomed', S) BY <1>10, <1>11, IdleGood
<1>13. Turns(S, p) BY <1>4, <1>5 DEF Turns, t2
<1> QED BY <1>1, <1>4, <1>5, <1>12, <1>13 DEF GoodNext

LEMMA RepairGood ==
    ASSUME NEW S, Good(S), Repair
    PROVE  GoodNext(S) /\ key' = key
<1>1. GoodNext(S)
  BY InsertRootGood, InsertUnderBlackGood, InsertRepaintGood, InsertInnerGood, InsertOuterGood,
     RemoveRootGood, RemoveRedSiblingGood, RemoveAllBlackGood, RemoveRedParentGood, RemoveInnerGood,
     RemoveOuterGood DEF Repair
<1>2. key' = key
  BY DEF Repair, InsertRoot, InsertUnderBlack, InsertRepaint, InsertInner, InsertOuter, Inserted,
     RemoveRoot, RemoveRedSibling, RemoveAllBlack, RemoveRedParent, RemoveInner, RemoveOuter
<1> QED BY <1>1, <1>2

(***************************************************************************)
(* insert                                                                   *)
(***************************************************************************)
Sides2(k) == [m \in alloc |-> InsertSide(m, k)]

LEMMA InsertWay ==
    ASSUME NEW D, Structure(tree, alloc, D), NEW k \in Key, tree.root # Leaf
    PROVE  \E f : /\ InsertParent(k) = f[tree.root]
                  /\ \A x \in alloc : f[x] = IF tree[Sides2(k)[x]][x] = Leaf THEN x
                                             ELSE f[tree[Sides2(k)[x]][x]]
<1> DEFINE g == Sides2(k)
           stop == {m \in alloc : tree[g[m]][m] = Leaf}
<1>1. Shaped(tree, alloc, D, Leaf) /\ Family(tree, alloc) /\ alloc \in SUBSET (alloc \cup {Leaf})
  BY FamilyOf DEF Structure, Tree
<1>2. \A m \in alloc : g[m] = InsertSide(m, k) /\ g[m] \in Side BY DEF Sides2, InsertSide, Side
<1>3. \A m \in alloc \ stop : m \in alloc /\ g[m] \in Side /\ tree[g[m]][m] \in alloc
  BY <1>1, <1>2 DEF Family
<1>4. \A m \in alloc : m \in stop <=> tree[g[m]][m] = Leaf OBVIOUS
<1> HIDE DEF g, stop
<1>5. PICK f : Way(tree, alloc, stop, g, f) BY <1>1, <1>3, WayExists
<1> DEFINE Is(h) == h = [m \in alloc |-> LET next == tree[InsertSide(m, k)][m]
                                         IN IF next = Leaf THEN m ELSE h[next]]
<1>6. Is(f) BY <1>2, <1>4, <1>5, Zenon DEF Way
<1> DEFINE F == CHOOSE h : Is(h)
<1>7. Is(F) BY <1>6
<1>8. InsertParent(k) = F[tree.root] BY DEF InsertParent
<1>9. \A x \in alloc : F[x] = IF tree[g[x]][x] = Leaf THEN x ELSE F[tree[g[x]][x]]
  BY <1>2, <1>7, Zenon
<1> HIDE DEF F
<1> QED BY <1>8, <1>9 DEF g

(* Where a new element goes.                                                *)
Hanging(D, k, p) ==
    /\ p \in alloc /\ InsertSide(p, k) \in Side /\ tree[InsertSide(p, k)][p] = Leaf
    /\ \A a \in alloc, s \in Side : Before(tree, D, p, InsertSide(p, k), a, s) => s = InsertSide(a, k)

LEMMA InsertPlace ==
    ASSUME NEW D, Structure(tree, alloc, D), NEW k \in Key, tree.root # Leaf
    PROVE  Hanging(D, k, InsertParent(k))
<1> DEFINE g == Sides2(k)
<1>1. PICK f : /\ InsertParent(k) = f[tree.root]
               /\ \A x \in alloc : f[x] = IF tree[g[x]][x] = Leaf THEN x ELSE f[tree[g[x]][x]]
  BY InsertWay
<1>2. \A m \in alloc : g[m] = InsertSide(m, k) /\ InsertSide(m, k) \in Side BY DEF Sides2, InsertSide, Side
<1>3. g \in [alloc -> Side] BY <1>2 DEF Sides2
<1>4. Shaped(tree, alloc, D, Leaf) /\ tree.root \in alloc /\ D[tree.root] = alloc BY DEF Structure, Tree
<1> HIDE DEF g
<1>5. \A x \in alloc : HangAt(tree, D, Leaf, g, x, f[x]) BY <1>1, <1>3, <1>4, HangPlace
<1> DEFINE p == InsertParent(k)
<1>6. HangAt(tree, D, Leaf, g, tree.root, p) BY <1>1, <1>4, <1>5
<1> HIDE DEF p
<1>7. /\ p \in alloc /\ tree[g[p]][p] = Leaf
      /\ \A a \in alloc, s \in Side : Before(tree, D, p, g[p], a, s) => s = g[a]
  BY <1>4, <1>6 DEF HangAt
<1>8. Hanging(D, k, p) BY <1>2, <1>7 DEF Hanging
<1> QED BY <1>8 DEF p

LEMMA InsertOrder ==
    ASSUME NEW k \in Int, NEW m, key[m] \in Int
    PROVE  Precedes(InsertSide(m, k), k, key[m])
BY DEF Precedes, InsertSide

LEMMA CardWith ==
    ASSUME NEW t, NEW S, NEW D, Structure(t, S, D), NEW n, n \notin S
    PROVE  Cardinality(S) = Cardinality(S \cup {n}) - 1
<1>1. IsFiniteSet(S) /\ Cardinality(S) \in Nat BY CardOf
<1>2. Cardinality(S \cup {n}) = Cardinality(S) + 1 BY <1>1, FS_AddElement
<1> QED BY <1>1, <1>2

(* insert colours the new node red.                                         *)
Reddened(S, col, col2, n) ==
    col2 \in Paint /\ col2[n] = "red" /\ \A a \in S \cup {Leaf} : col2[a] = col[a]

(* The state of the tree before and after the new node n is hung in.        *)
Ready(S, D, B, n) ==
    /\ Core(tree, color, key, S, D) /\ IdlePhase(tree, color, S, B, alloc, size)
    /\ n \in Node \ S
NewKey(S, k, k2, n) ==
    k2 \in [Node -> Key] /\ k2[n] = k /\ \A a \in S : k2[a] = key[a]

LEMMA InsertFirst ==
    ASSUME NEW S, NEW D, NEW B, NEW n, Ready(S, D, B, n), tree.root = Leaf,
           NEW k, NEW k2, NewKey(S, k, k2, n), NEW col2, Reddened(S, color, col2, n),
           NEW t2, NewRoot(tree, t2, n), NEW dm
    PROVE  GoodAt(t2, col2, k2, S \cup {n}, size, "insert", n, dm, S \cup {n})
<1>1. Structure(tree, S, D) /\ n \in Node /\ n \notin S BY DEF Ready, Core
<1>2. S = {} /\ Structure(t2, {n}, OneD(n, Leaf)) /\ t2.root = n /\ \A x \in Side : t2[x][n] = Leaf
  <2>1. FirstTree(t2, S, n) BY <1>1, FirstStructure
  <2> QED BY <2>1 DEF FirstTree
<1>3. S \cup {n} = {n} BY <1>2
<1>4. Leaf # n /\ col2[Leaf] # "red" /\ col2[n] = "red" /\ col2 \in Paint
  <2>1. color[Leaf] # "red" BY DEF Ready, IdlePhase, Painted
  <2> QED BY <1>1, <2>1, NodeAssumption DEF Reddened
<1>5. Core(t2, col2, k2, {n}, OneD(n, Leaf))
  <2>1. \A x \in Side : OneD(n, Leaf)[t2[x][n]] = {} BY <1>2, <1>4 DEF OneD
  <2>2. Sorted(t2, {n}, OneD(n, Leaf), k2) BY <2>1 DEF Sorted
  <2> QED BY <1>2, <1>4, <2>2 DEF Core, NewKey
<1> DEFINE B2 == [a \in {n} \cup {Leaf} |-> 0]
<1>6. Painted(t2, col2, {n}, B2, {}, {n})
  <2>1. B2 \in [{n} \cup {Leaf} -> Nat] /\ B2[Leaf] = 0 /\ B2[n] = 0 OBVIOUS
  <2>2. \A s \in Side : B2[t2[s][n]] = 0 BY <1>2
  <2>3. Weight(col2, n) = 0 BY <1>4 DEF Weight
  <2> HIDE DEF B2
  <2>4. EvenAt(t2, col2, B2, n) BY <2>1, <2>2, <2>3 DEF EvenAt
  <2>5. \A s \in Side : col2[t2[s][n]] # "red" BY <1>2, <1>4
  <2> QED BY <1>4, <2>1, <2>4, <2>5 DEF Painted
<1> HIDE DEF B2
<1>7. size = Cardinality({n}) - 1
  <2>1. size = Cardinality(S) BY DEF Ready, IdlePhase
  <2> QED BY <1>1, <1>3, <2>1, CardWith
<1>8. InsertPhase(t2, col2, {n}, B2, {n}, size, "insert", n)
  BY <1>2, <1>4, <1>6, <1>7 DEF InsertPhase
<1>9. Phase(t2, col2, {n}, B2, {n}, size, "insert", n, dm) BY <1>8 DEF Phase
<1>10. GoodAt(t2, col2, k2, {n}, size, "insert", n, dm, {n}) BY <1>5, <1>9, GoodBy
<1> QED BY <1>3, <1>10

LEMMA InsertUnder ==
    ASSUME NEW S, NEW D, NEW B, NEW n, Ready(S, D, B, n), tree.root # Leaf,
           NEW k \in Key, NEW k2, NewKey(S, k, k2, n), NEW col2, Reddened(S, color, col2, n),
           NEW p, Hanging(D, k, p),
           NEW t2, NewUnder(tree, t2, n, p, InsertSide(p, k)), NEW dm
    PROVE  GoodAt(t2, col2, k2, S \cup {n}, size, "insert", n, dm, S \cup {n})
<1>1. /\ Structure(tree, S, D) /\ n \in Node \ S /\ key \in [Node -> Key] /\ Sorted(tree, S, D, key)
      /\ Painted(tree, color, S, B, {}, {}) /\ alloc = S /\ size = Cardinality(S) /\ color[tree.root] # "red"
  BY DEF Ready, Core, IdlePhase
<1> DEFINE d == InsertSide(p, k)
<1>2. /\ p \in S /\ d \in Side /\ tree[d][p] = Leaf
      /\ \A a \in S, s \in Side : Before(tree, D, p, d, a, s) => s = InsertSide(a, k)
  BY <1>1 DEF Hanging
<1>3. NewUnder(tree, t2, n, p, d) OBVIOUS
<1> HIDE DEF d
<1>4. /\ Hung(tree, t2, S, Leaf, n, p, d) /\ Structure(t2, S \cup {n}, HungD(S, D, Leaf, n, p))
      /\ t2.root = tree.root /\ tree.root \in S
  BY <1>1, <1>2, <1>3, HungStructure
<1>5. /\ Shaped(tree, S, D, Leaf) /\ Family(tree, S) /\ S \subseteq Node
  BY <1>1, FamilyOf DEF Structure, Tree
<1>6. k2 \in [Node -> Key] /\ k2[n] = k /\ \A a \in S : k2[a] = key[a] BY DEF NewKey
<1>7. \A a \in S, s \in Side : Before(tree, D, p, d, a, s) => Precedes(s, k2[n], key[a])
  <2> SUFFICES ASSUME NEW a \in S, NEW s \in Side, Before(tree, D, p, d, a, s)
               PROVE  Precedes(s, k2[n], key[a])
    OBVIOUS
  <2>1. k \in Int /\ key[a] \in Int BY <1>1, <1>5, NodeAssumption
  <2>2. s = InsertSide(a, k) BY <1>2
  <2> QED BY <1>6, <2>1, <2>2, InsertOrder
<1>8. Sorted(t2, S \cup {n}, HungD(S, D, Leaf, n, p), k2)
  BY <1>1, <1>2, <1>4, <1>5, <1>6, <1>7, HungSorted
<1>9. col2 \in Paint /\ col2[n] = "red" /\ \A a \in S \cup {Leaf} : col2[a] = color[a] BY DEF Reddened
<1>10. Core(t2, col2, k2, S \cup {n}, HungD(S, D, Leaf, n, p)) BY <1>4, <1>6, <1>8, <1>9 DEF Core
<1>11. Painted(t2, col2, S \cup {n}, HungB(S, B, n), {}, {n})
  BY <1>1, <1>2, <1>4, <1>5, <1>9, HungPainted
<1>12. size = Cardinality(S \cup {n}) - 1 BY <1>1, CardWith
<1>13. col2[t2.root] # "red" BY <1>1, <1>4, <1>9
<1> DEFINE B2 == HungB(S, B, n)
<1> HIDE DEF B2
<1>14. Painted(t2, col2, S \cup {n}, B2, {}, {n}) BY <1>11 DEF B2
<1>15. InsertPhase(t2, col2, S \cup {n}, B2, S \cup {n}, size, "insert", n)
  BY <1>9, <1>12, <1>13, <1>14 DEF InsertPhase
<1>16. Phase(t2, col2, S \cup {n}, B2, S \cup {n}, size, "insert", n, dm) BY <1>15 DEF Phase
<1> QED BY <1>10, <1>16, GoodBy

Grafted(t, t2, S, n) == \A s \in Side : t2[s][n] = Leaf /\ \A a \in S : t2[s][a] \in {t[s][a], n}

InsertDone(S, k) ==
    \E n \in Node \ S : /\ GoodNext(S \cup {n}) /\ key' = [key EXCEPT ![n] = k]
                       /\ at' = "insert" /\ cur' = n /\ Grafted(tree, tree', S, n)

LEMMA InsertMade ==
    ASSUME NEW S, Good(S), NEW k \in Key, Insert(k)
    PROVE  InsertDone(S, k)
<1> DEFINE c == CHOOSE m \in Node : m \notin alloc
           p == InsertParent(k)
<1>1. /\ at = "idle" /\ c \in Node \ alloc
      /\ tree' = IF p = Null THEN [New(tree, c, p) EXCEPT !.root = c]
                             ELSE [New(tree, c, p) EXCEPT ![InsertSide(p, k)][p] = c]
      /\ key' = [key EXCEPT ![c] = k] /\ color' = [color EXCEPT ![c] = "red"]
      /\ alloc' = alloc \cup {c} /\ cur' = c /\ at' = "insert" /\ size' = size /\ doomed' = doomed
  BY DEF Insert, New
<1> HIDE DEF c
<1>2. PICK D, B : Core(tree, color, key, S, D) /\ IdlePhase(tree, color, S, B, alloc, size)
  BY <1>1, GoodIdle DEF Good
<1>3. alloc = S /\ Ready(S, D, B, c) BY <1>1, <1>2 DEF Ready, IdlePhase
<1>4. Structure(tree, S, D) /\ color \in Paint /\ key \in [Node -> Key] /\ c \in Node \ S BY <1>1, <1>2, <1>3 DEF Core
<1> DEFINE col2 == [color EXCEPT ![c] = "red"]
           k2 == [key EXCEPT ![c] = k]
<1>5. Reddened(S, color, col2, c)
  <2>1. S \cup {Leaf} \subseteq Place /\ c \in Place /\ c \notin S \cup {Leaf}
    BY <1>4, NodeAssumption DEF Place, Structure
  <2> QED BY <1>4, <2>1 DEF Reddened, Paint
<1>6. NewKey(S, k, k2, c)
  <2>1. S \subseteq Node BY <1>4 DEF Structure
  <2> QED BY <1>4, <2>1 DEF NewKey
<1> HIDE DEF col2, k2
<1>a. tree.root = Leaf => p = Null BY DEF InsertParent
<1>b. tree.root # Leaf => Hanging(D, k, p) BY <1>3, <1>4, InsertPlace
<1> HIDE DEF p
<1>7. CASE tree.root = Leaf
  <2>1. p = Null BY <1>7, <1>a
  <2> DEFINE t2 == [New(tree, c, Null) EXCEPT !.root = c]
  <2>2. tree' = t2 BY <1>1, <2>1
  <2> HIDE DEF t2
  <2>3. NewRoot(tree, t2, c) BY DEF t2, NewRoot
  <2>4. GoodAt(t2, col2, k2, S \cup {c}, size, "insert", c, doomed, S \cup {c})
    BY <1>3, <1>5, <1>6, <1>7, <2>3, InsertFirst
  <2>5. col2 = color' /\ k2 = key' BY <1>1 DEF col2, k2
  <2>6. GoodNext(S \cup {c}) BY <1>1, <1>3, <2>2, <2>4, <2>5 DEF GoodNext
  <2>7. Grafted(tree, t2, S, c)
    <3>1. FirstTree(t2, S, c) BY <1>4, <1>7, <2>3, FirstStructure
    <3> QED BY <3>1 DEF FirstTree, Grafted
  <2> QED BY <1>1, <1>4, <2>2, <2>6, <2>7 DEF InsertDone
<1>8. CASE tree.root # Leaf
  <2>1. Hanging(D, k, p) BY <1>8, <1>b
  <2>2. p # Null
    <3>1. p \in S /\ S \subseteq Node BY <1>3, <1>4, <2>1 DEF Hanging, Structure
    <3> QED BY <3>1, NodeAssumption
  <2> DEFINE t2 == [New(tree, c, p) EXCEPT ![InsertSide(p, k)][p] = c]
  <2>3. tree' = t2 BY <1>1, <2>2
  <2> HIDE DEF t2
  <2>4. NewUnder(tree, t2, c, p, InsertSide(p, k)) BY DEF t2, NewUnder
  <2>5. GoodAt(t2, col2, k2, S \cup {c}, size, "insert", c, doomed, S \cup {c})
    BY <1>3, <1>5, <1>6, <1>8, <2>1, <2>4, InsertUnder
  <2>6. col2 = color' /\ k2 = key' BY <1>1 DEF col2, k2
  <2>7. GoodNext(S \cup {c}) BY <1>1, <1>3, <2>3, <2>5, <2>6 DEF GoodNext
  <2>8. Grafted(tree, t2, S, c)
    <3>1. p \in S /\ InsertSide(p, k) \in Side /\ tree[InsertSide(p, k)][p] = Leaf
      BY <1>3, <2>1 DEF Hanging
    <3>2. Hung(tree, t2, S, Leaf, c, p, InsertSide(p, k)) BY <1>4, <2>4, <3>1, HungStructure
    <3> QED BY <3>2 DEF Hung, Grafted
  <2> QED BY <1>1, <1>4, <2>3, <2>7, <2>8 DEF InsertDone
<1> QED BY <1>7, <1>8

(***************************************************************************)
(* remove                                                                   *)
(***************************************************************************)
LEMMA LastWay ==
    ASSUME NEW D, Structure(tree, alloc, D), NEW s \in Side
    PROVE  \E f : \A x \in alloc : /\ f[x] = IF tree[s][x] = Leaf THEN x ELSE f[tree[s][x]]
                                   /\ Last(x, s) = f[x]
<1> DEFINE g == [m \in alloc |-> s]
           stop == {m \in alloc : tree[s][m] = Leaf}
<1>1. Shaped(tree, alloc, D, Leaf) /\ Family(tree, alloc) /\ alloc \in SUBSET (alloc \cup {Leaf})
  BY FamilyOf DEF Structure, Tree
<1>2. \A m \in alloc : g[m] = s OBVIOUS
<1>3. \A m \in alloc \ stop : m \in alloc /\ g[m] \in Side /\ tree[g[m]][m] \in alloc
  BY <1>1, <1>2 DEF Family
<1>4. \A m \in alloc : m \in stop <=> tree[s][m] = Leaf OBVIOUS
<1> HIDE DEF g, stop
<1>5. PICK f : Way(tree, alloc, stop, g, f) BY <1>1, <1>3, WayExists
<1> DEFINE Is(h) == h = [m \in alloc |-> IF tree[s][m] = Leaf THEN m ELSE h[tree[s][m]]]
<1>6. Is(f) BY <1>2, <1>4, <1>5, Zenon DEF Way
<1> DEFINE F == CHOOSE h : Is(h)
<1>7. Is(F) BY <1>6
<1>8. \A x : Last(x, s) = F[x] BY DEF Last
<1>9. \A x \in alloc : F[x] = IF tree[s][x] = Leaf THEN x ELSE F[tree[s][x]]
  BY <1>7
<1> HIDE DEF F
<1> QED BY <1>8, <1>9

LEMMA LastPlace ==
    ASSUME NEW D, Structure(tree, alloc, D), NEW s \in Side,
           key \in [Node -> Key], Sorted(tree, alloc, D, key), NEW x \in alloc
    PROVE  AtBottom(tree, D, Leaf, key, s, x, Last(x, s))
<1>1. PICK f : \A y \in alloc : /\ f[y] = IF tree[s][y] = Leaf THEN y ELSE f[tree[s][y]]
                                /\ Last(y, s) = f[y]
  BY LastWay
<1>2. Shaped(tree, alloc, D, Leaf) /\ alloc \subseteq Node BY DEF Structure, Tree
<1>3. \A a \in alloc : key[a] \in Int BY <1>2, NodeAssumption
<1>4. \A y \in alloc : AtBottom(tree, D, Leaf, key, s, y, f[y]) BY <1>1, <1>2, <1>3, Bottom
<1> QED BY <1>1, <1>4

(* The node r that remove takes out for n has its child ch, if it has one,  *)
(* on the side other than s0, and its key may be copied to n.               *)
Taken(S, D, n, r, s0, ch) ==
    /\ r \in S /\ s0 \in Side /\ tree[s0][r] = Leaf /\ ch = tree[Other(s0)][r]
    /\ r # n => \E d \in Side : r \in D[tree[d][n]] /\ \A m \in D[tree[d][n]] : Precedes(d, key[m], key[r])

ChildOf(r) == IF tree.right[r] = Leaf THEN tree.left[r] ELSE tree.right[r]

LEMMA TakenExists ==
    ASSUME NEW D, Structure(tree, alloc, D), key \in [Node -> Key], Sorted(tree, alloc, D, key),
           NEW n \in alloc
    PROVE  \E s0 : Taken(alloc, D, n, Replacement(n), s0, ChildOf(Replacement(n)))
<1> DEFINE r == Replacement(n)
<1>0. /\ "left" \in Side /\ "right" \in Side /\ Other("left") = "right" /\ Other("right") = "left"
      /\ tree["left"] = tree.left /\ tree["right"] = tree.right /\ "left" # "right"
  BY DEF Side, Other
<1>1. Family(tree, alloc) /\ Shaped(tree, alloc, D, Leaf) BY FamilyOf DEF Structure, Tree
<1>2. ASSUME NEW s \in Side, r \in alloc, tree[s][r] = Leaf
      PROVE  \E s0 \in Side : tree[s0][r] = Leaf /\ ChildOf(r) = tree[Other(s0)][r]
  <2> HIDE DEF r
  <2>1. CASE tree.right[r] = Leaf BY <1>0, <2>1 DEF ChildOf
  <2>2. CASE tree.right[r] # Leaf
    <3>1. s = "left" BY <1>0, <1>2, <2>2 DEF Side
    <3> QED BY <1>0, <1>2, <2>2, <3>1 DEF ChildOf
  <2> QED BY <2>1, <2>2
<1>3. ASSUME NEW d \in Side, tree[d][n] # Leaf, r = Last(tree[d][n], Other(d))
      PROVE  \E s0 : Taken(alloc, D, n, r, s0, ChildOf(r))
  <2> DEFINE x == tree[d][n]
             o == Other(d)
  <2>1. x \in alloc /\ o \in Side /\ Other(o) = d BY <1>1, <1>3, Sides DEF Family
  <2> HIDE DEF x, o
  <2>2. AtBottom(tree, D, Leaf, key, o, x, Last(x, o)) BY <2>1, LastPlace
  <2>3. AtBottom(tree, D, Leaf, key, o, x, r) BY <1>3, <2>2 DEF x, o
  <2> HIDE DEF r
  <2>4. r \in D[x] /\ tree[o][r] = Leaf /\ \A m \in D[x] : Precedes(d, key[m], key[r])
    BY <2>1, <2>3 DEF AtBottom
  <2>5. D[x] \subseteq alloc BY <1>1, <2>1 DEF Shaped
  <2>6. PICK s0 \in Side : tree[s0][r] = Leaf /\ ChildOf(r) = tree[Other(s0)][r]
    BY <1>2, <2>1, <2>4, <2>5
  <2>7. Taken(alloc, D, n, r, s0, ChildOf(r)) BY <2>4, <2>5, <2>6 DEF Taken, x
  <2> QED BY <2>7
<1>4. CASE tree.left[n] # Leaf
  <2>1. r = Last(tree["left"][n], Other("left")) BY <1>0, <1>4 DEF Replacement
  <2> QED BY <1>0, <1>3, <1>4, <2>1
<1>5. CASE tree.left[n] = Leaf /\ tree.right[n] # Leaf
  <2>1. r = Last(tree["right"][n], Other("right")) BY <1>0, <1>5 DEF Replacement
  <2> QED BY <1>0, <1>3, <1>5, <2>1
<1>6. CASE tree.left[n] = Leaf /\ tree.right[n] = Leaf
  <2>1. r = n BY <1>6 DEF Replacement
  <2> HIDE DEF r
  <2>2. PICK s0 \in Side : tree[s0][r] = Leaf /\ ChildOf(r) = tree[Other(s0)][r]
    BY <1>0, <1>2, <1>6, <2>1
  <2>3. Taken(alloc, D, n, r, s0, ChildOf(r)) BY <2>1, <2>2 DEF Taken
  <2> QED BY <2>3 DEF r
<1> QED BY <1>4, <1>5, <1>6

(* The tree without the node taken out for n.                               *)
LEMMA TakenCore ==
    ASSUME NEW S, NEW D, Core(tree, color, key, S, D), NEW n \in S, NEW r, NEW s0, NEW ch,
           Taken(S, D, n, r, s0, ch), NEW k2, k2 = [key EXCEPT ![n] = key[r]],
           NEW t2, t2 = Replaced(tree, r, ch), NEW col2 \in Paint
    PROVE  Core(t2, col2, k2, S \ {r}, SplicedD(S, D, Leaf, r))
<1>1. /\ Structure(tree, S, D) /\ key \in [Node -> Key] /\ Sorted(tree, S, D, key) /\ S \subseteq Node
      /\ Shaped(tree, S, D, Leaf)
  BY DEF Core, Structure, Tree
<1>2. r \in S /\ s0 \in Side /\ tree[s0][r] = Leaf /\ ch = tree[Other(s0)][r] BY DEF Taken
<1>3. k2 \in [Node -> Key] /\ k2[n] = key[r] /\ \A a \in S \ {n} : k2[a] = key[a] BY <1>1, <1>2
<1>4. \A a \in S : key[a] \in Int BY <1>1, NodeAssumption
<1>5. Sorted(tree, S, D, k2)
  <2>1. CASE r = n
    <3>1. k2 = key BY <1>1, <1>2, <2>1
    <3> QED BY <1>1, <3>1
  <2>2. CASE r # n
    <3>1. PICK d \in Side : r \in D[tree[d][n]] /\ \A m \in D[tree[d][n]] : Precedes(d, key[m], key[r])
      BY <2>2 DEF Taken
    <3> QED BY <1>1, <1>3, <1>4, <3>1, MovedSorted
  <2> QED BY <2>1, <2>2
<1>6. /\ Spliced(tree, t2, S, Leaf, r, ch, s0)
      /\ Structure(t2, S \ {r}, SplicedD(S, D, Leaf, r))
  BY <1>1, <1>2, ReplacedStructure
<1>7. Sorted(t2, S \ {r}, SplicedD(S, D, Leaf, r), k2) BY <1>1, <1>2, <1>5, <1>6, SplicedSorted
<1> QED BY <1>3, <1>6, <1>7 DEF Core

(* r is taken out, which is n or under it.                                  *)
TakenOut(S, n, r) ==
    /\ r = Replacement(n)
    /\ at' \in {"idle", "remove"} /\ (at' = "remove" => doomed' = r)
    /\ tree'.parent[r] \in (S \ {r}) \cup {Null}
    /\ \E D, s0, ch : /\ Structure(tree, S, D) /\ s0 \in Side /\ Spliced(tree, tree', S, Leaf, r, ch, s0)
                      /\ r # n => \E d \in Side : r \in D[tree[d][n]]

RemoveDone(S, n, r) ==
    /\ n \in S /\ r \in S /\ GoodNext(S \ {r}) /\ key' = [key EXCEPT ![n] = key[r]]
    /\ TakenOut(S, n, r)

LEMMA RemoveMade ==
    ASSUME NEW S, Good(S), at = "idle", NEW n \in S, RemoveNode(n)
    PROVE  \E r : RemoveDone(S, n, r)
<1> DEFINE r == Replacement(n)
           ch == ChildOf(r)
           k2 == [key EXCEPT ![n] = key[r]]
           t2 == Replaced(tree, r, ch)
<1>1. /\ key' = k2 /\ tree' = t2
      /\ color[r] = "red" \/ color[ch] = "red" =>
           /\ color' = (IF color[r] = "red" THEN color ELSE [color EXCEPT ![ch] = "black"])
           /\ at' = "idle" /\ alloc' = alloc \ {r} /\ size' = size - 1
      /\ ~(color[r] = "red" \/ color[ch] = "red") =>
           /\ at' = "remove" /\ cur' = ch /\ doomed' = r /\ color' = color /\ alloc' = alloc /\ size' = size
  BY DEF RemoveNode, Removed, ChildOf, Red
<1>2. PICK D, B : Core(tree, color, key, S, D) /\ IdlePhase(tree, color, S, B, alloc, size)
  BY GoodIdle DEF Good
<1>3. /\ alloc = S /\ Structure(tree, S, D) /\ color \in Paint /\ key \in [Node -> Key]
      /\ Sorted(tree, S, D, key) /\ Family(tree, S)
  BY <1>2, FamilyOf DEF Core, IdlePhase
<1>4. PICK s0 : Taken(S, D, n, r, s0, ch) BY <1>3, TakenExists
<1> HIDE DEF r, ch
<1>5. r \in S /\ s0 \in Side /\ tree[s0][r] = Leaf /\ ch = tree[Other(s0)][r] BY <1>4 DEF Taken
<1>6. k2 = [key EXCEPT ![n] = key[r]] /\ t2 = Replaced(tree, r, ch) OBVIOUS
<1> HIDE DEF k2, t2
<1> DEFINE D2 == SplicedD(S, D, Leaf, r)
<1>7. \A col2 \in Paint : Core(t2, col2, k2, S \ {r}, D2)
  <2> TAKE col2 \in Paint
  <2> QED BY <1>2, <1>4, <1>6, TakenCore
<1> HIDE DEF D2
<1>12. TakenOut(S, n, r)
  <2>1. /\ Spliced(tree, t2, S, Leaf, r, ch, s0) /\ ReplacedRest(tree, t2, S, r, ch)
    BY <1>3, <1>5, <1>6, ReplacedStructure
  <2>2. tree'.parent[r] = tree.parent[r]
    <3>1. r # ch BY <1>3, <1>5, Sides DEF Family
    <3> QED BY <1>1, <1>5, <2>1, <3>1 DEF ReplacedRest
  <2>3. tree.parent[r] \in (S \ {r}) \cup {Null}
    <3>1. \A x \in Side : tree[x][r] # r BY <1>3, <1>5 DEF Family
    <3> QED BY <1>3, <1>5, <3>1, ParentOf, SideOfSide
  <2>4. r = Replacement(n) BY DEF r
  <2>5. at' \in {"idle", "remove"} /\ (at' = "remove" => doomed' = r) BY <1>1
  <2>6. r # n => \E d \in Side : r \in D[tree[d][n]] BY <1>4 DEF Taken
  <2> QED BY <1>1, <1>3, <1>5, <2>1, <2>2, <2>3, <2>4, <2>5, <2>6 DEF TakenOut
<1> SUFFICES GoodNext(S \ {r}) BY <1>1, <1>5, <1>6, <1>12 DEF RemoveDone
<1> DEFINE al2 == alloc \ {r}
           sz2 == size - 1
<1>8. al2 = alloc \ {r} /\ sz2 = size - 1 OBVIOUS
<1>9. CASE color[r] = "red"
  <2>1. \E B2 : IdlePhase(Replaced(tree, r, ch), color, S \ {r}, B2, alloc \ {r}, size - 1)
    BY <1>2, <1>3, <1>5, <1>9, StepTakeRed
  <2>2. PICK B2 : IdlePhase(t2, color, S \ {r}, B2, al2, sz2) BY <1>6, <2>1
  <2> HIDE DEF al2, sz2
  <2>3. Core(t2, color, k2, S \ {r}, D2) BY <1>3, <1>7
  <2>4. GoodAt(t2, color, k2, al2, sz2, "idle", cur', doomed', S \ {r}) BY <2>2, <2>3, IdleGood
  <2>5. color' = color /\ al2 = alloc' /\ sz2 = size' /\ at' = "idle" BY <1>1, <1>8, <1>9
  <2> QED BY <1>1, <2>4, <2>5 DEF GoodNext
<1>10. CASE color[r] # "red" /\ color[ch] = "red"
  <2> DEFINE col2 == [color EXCEPT ![ch] = "black"]
  <2>1. ch \in Place /\ S \cup {Leaf} \subseteq Place
    <3>1. S \subseteq Node /\ ch \in S \cup {Leaf} BY <1>3, <1>5, Sides DEF Structure, Family
    <3> QED BY <3>1 DEF Place
  <2>2. col2 \in Paint BY <1>3 DEF Paint
  <2>3. Blackened(S, color, col2, ch) BY <1>3, <2>1 DEF Paint, Blackened
  <2>4. color' = col2 BY <1>1, <1>10
  <2> HIDE DEF col2
  <2>5. \E B2 : IdlePhase(Replaced(tree, r, ch), col2, S \ {r}, B2, alloc \ {r}, size - 1)
    BY <1>2, <1>3, <1>5, <1>10, <2>3, StepTakeAbove
  <2>6. PICK B2 : IdlePhase(t2, col2, S \ {r}, B2, al2, sz2) BY <1>6, <2>5
  <2> HIDE DEF al2, sz2
  <2>7. Core(t2, col2, k2, S \ {r}, D2) BY <1>7, <2>2
  <2>8. GoodAt(t2, col2, k2, al2, sz2, "idle", cur', doomed', S \ {r}) BY <2>6, <2>7, IdleGood
  <2>9. al2 = alloc' /\ sz2 = size' /\ at' = "idle" BY <1>1, <1>8, <1>10
  <2> QED BY <1>1, <2>4, <2>8, <2>9 DEF GoodNext
<1>11. CASE color[r] # "red" /\ color[ch] # "red"
  <2>1. \E B2 : RemovePhase(Replaced(tree, r, ch), color, S \ {r}, B2, alloc, size, "remove", ch, r)
    BY <1>2, <1>3, <1>5, <1>11, StepTakeBlack
  <2>2. PICK B2 : RemovePhase(t2, color, S \ {r}, B2, alloc, size, "remove", ch, r) BY <1>6, <2>1
  <2>3. Core(t2, color, k2, S \ {r}, D2) BY <1>3, <1>7
  <2>4. Phase(t2, color, S \ {r}, B2, alloc, size, "remove", ch, r) BY <2>2 DEF Phase
  <2>5. GoodAt(t2, color, k2, alloc, size, "remove", ch, r, S \ {r}) BY <2>3, <2>4, GoodBy
  <2> QED BY <1>1, <1>11, <2>5 DEF GoodNext
<1> QED BY <1>9, <1>10, <1>11

(***************************************************************************)
(* What InTree, peek and BlackHeight find.                                  *)
(***************************************************************************)
LEMMA InTreeOf ==
    ASSUME NEW S, NEW D, Structure(tree, S, D), S \subseteq alloc, Leaf \notin alloc,
           \A m \in alloc \ S, s \in Side : tree[s][m] \in S \cup {Leaf}
    PROVE  InTree = S
<1>0. /\ "left" \in Side /\ "right" \in Side /\ Other("left") = "right"
      /\ tree["left"] = tree.left /\ tree["right"] = tree.right
  BY DEF Side, Other
<1>1. Shaped(tree, S, D, Leaf) /\ tree.root \in S \cup {Leaf} /\ D[tree.root] = S BY DEF Structure, Tree
<1>2. /\ D[Leaf] = {}
      /\ \A m \in S : /\ D[m] = {m} \cup D[tree.left[m]] \cup D[tree.right[m]]
                      /\ tree.left[m] \in S \cup {Leaf} /\ tree.right[m] \in S \cup {Leaf}
  <2>1. D[Leaf] = {} BY <1>1 DEF Shaped
  <2>2. ASSUME NEW m \in S
        PROVE  /\ D[m] = {m} \cup D[tree.left[m]] \cup D[tree.right[m]]
               /\ tree.left[m] \in S \cup {Leaf} /\ tree.right[m] \in S \cup {Leaf}
    <3>1. Fork(tree, S, D, Leaf, m, "left") /\ Fork(tree, S, D, Leaf, m, "right") BY <1>0, <1>1 DEF Shaped
    <3> QED BY <1>0, <3>1 DEF Fork
  <2> QED BY <2>1, <2>2
<1> DEFINE Is(h) == h = [m \in alloc \cup {Leaf} |-> IF m = Leaf THEN {}
                                                     ELSE {m} \cup h[tree.left[m]] \cup h[tree.right[m]]]
           t == [m \in alloc \cup {Leaf} |-> IF m \in S \cup {Leaf} THEN D[m]
                                             ELSE {m} \cup D[tree.left[m]] \cup D[tree.right[m]]]
<1>3. \A m \in S \cup {Leaf} : t[m] = D[m] OBVIOUS
<1>4. \A m \in alloc : tree.left[m] \in S \cup {Leaf} /\ tree.right[m] \in S \cup {Leaf} BY <1>0, <1>2
<1>5. \A m \in alloc : t[m] = {m} \cup D[tree.left[m]] \cup D[tree.right[m]] BY <1>2
<1>6. t \in [alloc \cup {Leaf} -> {t[m] : m \in alloc \cup {Leaf}}] OBVIOUS
<1>7. t[Leaf] = {} BY <1>2
<1>8. \A m \in alloc : t[m] = {m} \cup t[tree.left[m]] \cup t[tree.right[m]] BY <1>3, <1>4, <1>5
<1>9. t = [m \in alloc \cup {Leaf} |-> t[m]] OBVIOUS
<1> HIDE DEF t
<1>10. Is(t) BY <1>7, <1>8, <1>9, Zenon
<1> DEFINE F == CHOOSE h : Is(h)
<1>11. Is(F) BY <1>10, Zenon
<1>12. InTree = F[tree.root] BY DEF InTree, Under
<1>13. F[Leaf] = {} /\ \A m \in S : F[m] = {m} \cup F[tree["left"][m]] \cup F[tree["right"][m]]
  BY <1>0, <1>11, Zenon
<1> HIDE DEF F
<1>14. \A x \in S \cup {Leaf} : F[x] = D[x] BY <1>1, <1>13, UnderUnique
<1> QED BY <1>1, <1>12, <1>14

LEMMA BlackHeightOf ==
    ASSUME NEW D, Structure(tree, alloc, D), NEW B, Painted(tree, color, alloc, B, {}, {})
    PROVE  BlackHeight \in Nat
<1>1. Shaped(tree, alloc, D, Leaf) /\ tree.root \in alloc \cup {Leaf} BY DEF Structure, Tree
<1>2. B \in [alloc \cup {Leaf} -> Nat] /\ B[Leaf] = 0 BY DEF Painted
<1>3. \A m \in alloc : Height(color, B[tree.left[m]], B[tree.right[m]], m) = B[m] BY HeightOf
<1> DEFINE Is(h) == h = [m \in alloc \cup {Leaf} |->
                           IF m = Leaf THEN 0
                           ELSE LET l == h[tree.left[m]]
                                    r == h[tree.right[m]]
                                IN IF l = r /\ l >= 0 THEN l + (IF Red(m) THEN 0 ELSE 1) ELSE -1]
<1>4. Is(B)
  <2>1. \A m \in alloc : B[m] = LET l == B[tree.left[m]]
                                    r == B[tree.right[m]]
                                IN IF l = r /\ l >= 0 THEN l + (IF Red(m) THEN 0 ELSE 1) ELSE -1
    BY <1>3 DEF Height, Red
  <2>2. Leaf \notin alloc BY <1>1 DEF Shaped
  <2>3. B = [m \in alloc \cup {Leaf} |-> B[m]] BY <1>2
  <2> QED BY <1>2, <2>1, <2>2, <2>3
<1> DEFINE F == CHOOSE h : Is(h)
<1>5. Is(F) BY <1>4, Zenon
<1>6. BlackHeight = F[tree.root] BY DEF BlackHeight
<1>7. F[Leaf] = 0 BY <1>5, Zenon
<1>8. \A m \in alloc : F[m] = Height(color, F[tree.left[m]], F[tree.right[m]], m)
  <2>1. Leaf \notin alloc BY <1>1 DEF Shaped
  <2> QED BY <1>5, <2>1, Zenon DEF Height, Red
<1> HIDE DEF F
<1>9. \A m \in alloc \cup {Leaf} : F[m] = B[m] /\ B[m] \in Nat BY <1>7, <1>8, HeightUnique
<1> QED BY <1>1, <1>6, <1>9

LEMMA PeekWay ==
    ASSUME NEW D, Structure(tree, alloc, D), NEW k
    PROVE  \E f : /\ f[Leaf] = Leaf /\ \A x : peek(x, k) = f[x]
                  /\ \A x \in alloc : f[x] = IF key[x] = k THEN x
                                             ELSE f[tree[IF k < key[x] THEN "left" ELSE "right"][x]]
<1> DEFINE X == alloc \cup {Leaf}
           g == [m \in X |-> IF k < key[m] THEN "left" ELSE "right"]
           stop == {m \in X : m = Leaf \/ key[m] = k}
<1>1. Shaped(tree, alloc, D, Leaf) /\ Family(tree, alloc) /\ X \in SUBSET (alloc \cup {Leaf}) /\ Leaf \notin alloc
  BY FamilyOf DEF Structure, Tree, Shaped
<1>2. /\ \A m \in X : g[m] \in Side /\ g[m] = (IF k < key[m] THEN "left" ELSE "right")
      /\ tree["left"] = tree.left /\ tree["right"] = tree.right
  BY DEF Side
<1>3. \A m \in X \ stop : m \in alloc /\ g[m] \in Side /\ tree[g[m]][m] \in X
  BY <1>1, <1>2 DEF Family
<1>4. \A m \in X : m \in stop <=> (m = Leaf \/ (m # Leaf /\ key[m] = k)) OBVIOUS
<1> HIDE DEF g, stop
<1>5. PICK f : Way(tree, X, stop, g, f) BY <1>1, <1>3, WayExists
<1> DEFINE Is(h) == h = [m \in alloc \cup {Leaf} |->
                           IF m = Leaf \/ (m # Leaf /\ key[m] = k) THEN m
                           ELSE h[IF k < key[m] THEN tree.left[m] ELSE tree.right[m]]]
<1>6. \A m \in X : tree[g[m]][m] = (IF k < key[m] THEN tree.left[m] ELSE tree.right[m]) BY <1>2
<1>7. Is(f) BY <1>4, <1>5, <1>6, Zenon DEF Way
<1> DEFINE F == CHOOSE h : Is(h)
<1>8. Is(F) BY <1>7, Zenon
<1>9. \A x : peek(x, k) = F[x] BY DEF peek
<1>10. F[Leaf] = Leaf BY <1>8, Zenon
<1>11. \A x \in alloc : F[x] = IF key[x] = k THEN x
                               ELSE F[tree[IF k < key[x] THEN "left" ELSE "right"][x]]
  <2>1. \A x \in alloc : tree[IF k < key[x] THEN "left" ELSE "right"][x]
                         = (IF k < key[x] THEN tree.left[x] ELSE tree.right[x])
    BY <1>2
  <2>2. \A x \in alloc : F[x] = IF key[x] = k THEN x
                               ELSE F[IF k < key[x] THEN tree.left[x] ELSE tree.right[x]]
    BY <1>1, <1>8, Zenon
  <2> HIDE DEF F
  <2> QED BY <2>1, <2>2
<1> HIDE DEF F
<1> QED BY <1>9, <1>10, <1>11

LEMMA PeekFound ==
    ASSUME NEW D, Core(tree, color, key, alloc, D), NEW k \in Key
    PROVE  \A x \in alloc \cup {Leaf} : Found(D, Leaf, key, k, x, peek(x, k))
<1>1. Structure(tree, alloc, D) /\ key \in [Node -> Key] /\ Sorted(tree, alloc, D, key) BY DEF Core
<1>2. Shaped(tree, alloc, D, Leaf) /\ alloc \subseteq Node BY <1>1 DEF Structure, Tree
<1>3. k \in Int /\ \A a \in alloc : key[a] \in Int BY <1>1, <1>2, NodeAssumption
<1>4. PICK f : /\ f[Leaf] = Leaf /\ \A x : peek(x, k) = f[x]
               /\ \A x \in alloc : f[x] = IF key[x] = k THEN x
                                          ELSE f[tree[IF k < key[x] THEN "left" ELSE "right"][x]]
  BY <1>1, PeekWay
<1>5. \A x \in alloc \cup {Leaf} : Found(D, Leaf, key, k, x, f[x]) BY <1>1, <1>2, <1>3, <1>4, FindPlace
<1> QED BY <1>4, <1>5

LEMMA PeekFinds ==
    ASSUME NEW D, Core(tree, color, key, alloc, D), NEW k \in Key
    PROVE  /\ peek(tree.root, k) = Leaf => \A m \in alloc : key[m] # k
           /\ peek(tree.root, k) # Leaf => peek(tree.root, k) \in alloc /\ key[peek(tree.root, k)] = k
<1>1. tree.root \in alloc \cup {Leaf} /\ D[tree.root] = alloc BY DEF Core, Structure, Tree
<1>2. Found(D, Leaf, key, k, tree.root, peek(tree.root, k)) BY <1>1, PeekFound
<1> QED BY <1>1, <1>2 DEF Found

-----------------------------------------------------------------------------
(* What the invariant says of the tree.                                     *)
LEMMA GoodInTree ==
    ASSUME NEW S, Good(S)
    PROVE  InTree = S /\ (at = "idle" => alloc = S)
<1>1. PICK D, B : Core(tree, color, key, S, D) /\ Phase(tree, color, S, B, alloc, size, at, cur, doomed)
  BY DEF Good, GoodAt
<1>2. Structure(tree, S, D) /\ S \subseteq Node BY <1>1 DEF Core, Structure
<1>3. CASE alloc = S
  <2>1. Leaf \notin alloc BY <1>2, <1>3, NodeAssumption
  <2> QED BY <1>2, <1>3, <2>1, InTreeOf
<1>4. CASE alloc # S
  <2>1. RemovePhase(tree, color, S, B, alloc, size, at, cur, doomed) /\ at # "idle"
    BY <1>1, <1>4 DEF Phase, IdlePhase, InsertPhase
  <2>2. doomed \in Node \ S /\ alloc = S \cup {doomed} /\ \A s \in Side : tree[s][doomed] \in S \cup {Leaf}
    BY <2>1 DEF RemovePhase
  <2>3. S \subseteq alloc /\ Leaf \notin alloc BY <1>2, <2>2, NodeAssumption
  <2>4. \A m \in alloc \ S, s \in Side : tree[s][m] \in S \cup {Leaf} BY <2>2
  <2> QED BY <1>2, <2>1, <2>3, <2>4, InTreeOf
<1> QED BY <1>3, <1>4

LEMMA GoodRedBlack ==
    ASSUME NEW S, Good(S)
    PROVE  RedBlack
<1> SUFFICES ASSUME at = "idle"
             PROVE  /\ ~Red(Leaf) /\ ~Red(tree.root)
                    /\ \A n \in InTree : Red(n) => \A side \in Side : ~Red(tree[side][n])
                    /\ BlackHeight >= 0
  BY DEF RedBlack
<1>1. PICK D, B : Core(tree, color, key, S, D) /\ IdlePhase(tree, color, S, B, alloc, size)
  BY GoodIdle DEF Good
<1>2. InTree = S /\ alloc = S BY GoodInTree
<1>3. Structure(tree, S, D) /\ color[tree.root] # "red" /\ Painted(tree, color, S, B, {}, {})
  BY <1>1 DEF Core, IdlePhase
<1>4. BlackHeight \in Nat BY <1>2, <1>3, BlackHeightOf
<1>5. color[Leaf] # "red" /\ \A n \in S, s \in Side : ~(color[n] = "red" /\ color[tree[s][n]] = "red")
  BY <1>3 DEF Painted
<1>6. BlackHeight >= 0 BY <1>4
<1> QED BY <1>2, <1>3, <1>5, <1>6 DEF Red

LEMMA GoodLinks ==
    ASSUME NEW S, Good(S)
    PROVE  LinksMatch
<1>1. PICK D, B : Core(tree, color, key, S, D) /\ Phase(tree, color, S, B, alloc, size, at, cur, doomed)
  BY DEF Good, GoodAt
<1>2. InTree = S BY GoodInTree
<1>3. Structure(tree, S, D) /\ Family(tree, S) /\ S \subseteq Node BY <1>1, FamilyOf DEF Core, Structure
<1>4. tree.root # Leaf => Parent(tree.root) = Null BY <1>3 DEF Structure, Parent
<1>5. \A n \in InTree, side \in Side :
         tree[side][n] # Leaf => tree[side][n] \in Node /\ Parent(tree[side][n]) = n
  BY <1>2, <1>3 DEF Family, Parent
<1>6. ASSUME at \in {"remove", "remove_case3", "remove_case6"}, cur = Leaf, Parent(Leaf) # Null
      PROVE  Leaf \in {tree[side][Parent(Leaf)] : side \in Side}
  <2>1. RemoveAt(tree, color, S, B, at, cur)
    BY <1>1, <1>6 DEF Phase, RemovePhase
  <2>2. PICK d : Short(tree, color, S, B, tree.parent[cur], d, cur) BY <1>6, <2>1 DEF RemoveAt, Parent
  <2> QED BY <1>6, <2>2 DEF Short, Parent
<1> QED BY <1>4, <1>5, <1>6 DEF LinksMatch

LEMMA GoodNothingLost ==
    ASSUME NEW S, Good(S)
    PROVE  NothingLost
<1>1. InTree = S /\ (at = "idle" => alloc = S) BY GoodInTree
<1>2. at = "idle" => size = Cardinality(S)
  <2> SUFFICES ASSUME at = "idle" PROVE size = Cardinality(S) OBVIOUS
  <2>1. PICK D, B : Core(tree, color, key, S, D) /\ IdlePhase(tree, color, S, B, alloc, size)
    BY GoodIdle DEF Good
  <2> QED BY <2>1 DEF IdlePhase
<1> QED BY <1>1, <1>2 DEF NothingLost

-----------------------------------------------------------------------------
(* The empty tree.                                                          *)
Bare(t, col, k) ==
    t \in Links /\ t.root = Leaf /\ col \in Paint /\ col[Leaf] # "red" /\ k \in [Node -> Key]

LEMMA EmptyGood ==
    ASSUME NEW t, NEW col, NEW k, Bare(t, col, k), NEW c, NEW dm
    PROVE  GoodAt(t, col, k, {}, 0, "idle", c, dm, {})
<1> DEFINE none == {}
           D == [a \in none \cup {Leaf} |-> none]
           B == [a \in none \cup {Leaf} |-> 0]
<1>1. D \in [none \cup {Leaf} -> SUBSET none] /\ D[Leaf] = none OBVIOUS
<1>2. B \in [none \cup {Leaf} -> Nat] /\ B[Leaf] = 0 OBVIOUS
<1>3. IsFiniteSet(none) /\ Cardinality(none) = 0 BY FS_EmptySet
<1>4. (\A x : x \notin none) /\ none \subseteq Node OBVIOUS
<1>5. t \in Links /\ t.root = Leaf /\ col \in Paint /\ col[Leaf] # "red" /\ k \in [Node -> Key] BY DEF Bare
<1> HIDE DEF none, D, B
<1>6. Structure(t, none, D) BY <1>1, <1>3, <1>4, <1>5 DEF Structure, Tree, Shaped
<1>7. Sorted(t, none, D, k) BY <1>4 DEF Sorted
<1>8. Painted(t, col, none, B, none, none) BY <1>2, <1>4, <1>5 DEF Painted
<1>9. Painted(t, col, none, B, {}, {}) BY <1>8 DEF none
<1>10. IdlePhase(t, col, none, B, none, 0) BY <1>3, <1>5, <1>9 DEF IdlePhase
<1>11. Core(t, col, k, none, D) BY <1>5, <1>6, <1>7 DEF Core
<1>12. GoodAt(t, col, k, none, 0, "idle", c, dm, none) BY <1>10, <1>11, IdleGood
<1> QED BY <1>12 DEF none

LEMMA ClearMade ==
    ASSUME NEW S, Good(S), clear
    PROVE  GoodNext({}) /\ key' = key
<1>1. /\ at = "idle" /\ alloc' = alloc \ InTree /\ tree' = [tree EXCEPT !.root = Leaf] /\ size' = 0
      /\ key' = key /\ color' = color /\ at' = "idle" /\ cur' = cur /\ doomed' = doomed
  BY DEF clear
<1>2. PICK D, B : Core(tree, color, key, S, D) /\ IdlePhase(tree, color, S, B, alloc, size)
  BY <1>1, GoodIdle DEF Good
<1>3. alloc' = {} BY <1>1, GoodInTree
<1> DEFINE t2 == [tree EXCEPT !.root = Leaf]
<1>4. t2 \in Links /\ t2.root = Leaf
  <2>1. tree \in Links /\ Leaf \in Pointer BY <1>2 DEF Core, Structure, Pointer
  <2> QED BY <2>1 DEF Links
<1>5. color \in Paint /\ color[Leaf] # "red" /\ key \in [Node -> Key] BY <1>2 DEF Core, IdlePhase, Painted
<1>6. tree' = t2 BY <1>1
<1> HIDE DEF t2
<1>7. Bare(t2, color, key) BY <1>4, <1>5 DEF Bare
<1>8. GoodAt(t2, color, key, {}, 0, "idle", cur, doomed, {}) BY <1>7, EmptyGood
<1> QED BY <1>1, <1>3, <1>6, <1>8 DEF GoodNext

LEMMA InitGood ==
    ASSUME Init
    PROVE  Good({})
<1>1. /\ tree = [left   |-> [n \in Node \cup {Leaf} |-> Null],
                 right  |-> [n \in Node \cup {Leaf} |-> Null],
                 parent |-> [n \in Node \cup {Leaf} |-> Null],
                 root   |-> Leaf]
      /\ key \in [Node -> Key] /\ color = [n \in Node \cup {Leaf} |-> "black"]
      /\ size = 0 /\ alloc = {} /\ at = "idle"
  BY DEF Init
<1>2. tree \in Links /\ tree.root = Leaf BY <1>1 DEF Links, Place, Pointer
<1>3. color \in Paint /\ color[Leaf] # "red" BY <1>1 DEF Paint, Place
<1>4. Bare(tree, color, key) BY <1>1, <1>2, <1>3 DEF Bare
<1>5. GoodAt(tree, color, key, {}, 0, "idle", cur, doomed, {}) BY <1>4, EmptyGood
<1> QED BY <1>1, <1>5 DEF Good

-----------------------------------------------------------------------------
(***************************************************************************)
(* The bag of keys.                                                         *)
(***************************************************************************)
CountOf(S, k, x) == Cardinality({n \in S : k[n] = x})

Counts(S, k, x) == IsFiniteSet({n \in S : k[n] = x}) /\ CountOf(S, k, x) \in Nat

LEMMA CountType ==
    ASSUME NEW S, IsFiniteSet(S), NEW k, NEW x
    PROVE  Counts(S, k, x)
<1> DEFINE A == {n \in S : k[n] = x}
<1>1. A \in SUBSET S OBVIOUS
<1>2. IsFiniteSet(A) BY <1>1, FS_Subset
<1>3. Cardinality(A) \in Nat BY <1>2, FS_CardinalityType
<1> QED BY <1>2, <1>3 DEF CountOf, Counts

(* An element more.                                                         *)
LEMMA CountInsert ==
    ASSUME NEW S, IsFiniteSet(S), NEW n, n \notin S, NEW k, NEW k2, NEW y, k2[n] = y,
           \A a \in S : k2[a] = k[a], NEW x
    PROVE  CountOf(S \cup {n}, k2, x) = IF x = y THEN CountOf(S, k, x) + 1 ELSE CountOf(S, k, x)
<1> DEFINE A == {a \in S : k[a] = x}
           A2 == {a \in S \cup {n} : k2[a] = x}
<1>0. Counts(S, k, x) BY CountType
<1>1. IsFiniteSet(A) BY <1>0 DEF Counts
<1>2. CASE x = y
  <2>1. A2 = A \cup {n} /\ n \notin A BY <1>2
  <2> HIDE DEF A, A2
  <2>2. Cardinality(A2) = Cardinality(A) + 1 BY <1>1, <2>1, FS_AddElement
  <2> QED BY <1>2, <2>2 DEF CountOf, A, A2
<1>3. CASE x # y
  <2>1. A2 = A BY <1>3
  <2> QED BY <1>3, <2>1 DEF CountOf
<1> QED BY <1>2, <1>3

(* n is given the key of r, which is taken out.                             *)
LEMMA CountRemove ==
    ASSUME NEW S, IsFiniteSet(S), NEW n \in S, NEW r \in S, NEW k, NEW k2, k2[n] = k[r],
           \A a \in S \ {n} : k2[a] = k[a], NEW x
    PROVE  /\ CountOf(S \ {r}, k2, x) = IF x = k[n] THEN CountOf(S, k, x) - 1 ELSE CountOf(S, k, x)
           /\ x = k[n] => CountOf(S, k, x) > 0
<1> DEFINE A == {a \in S : k[a] = x}
           A2 == {a \in S \ {r} : k2[a] = x}
<1>0. Counts(S, k, x) BY CountType
<1>1. IsFiniteSet(A) /\ Cardinality(A) \in Nat BY <1>0 DEF Counts, CountOf
<1>2. CASE x = k[n] /\ x = k[r]
  <2>1. A2 = A \ {r} /\ r \in A BY <1>2
  <2> HIDE DEF A, A2
  <2>2. Cardinality(A2) = Cardinality(A) - 1 /\ Cardinality(A2) \in Nat
    BY <1>1, <2>1, FS_RemoveElement, FS_CardinalityType
  <2>3. Cardinality(A) > 0 BY <1>1, <2>2
  <2> QED BY <1>2, <2>2, <2>3 DEF CountOf, A, A2
<1>3. CASE x = k[n] /\ x # k[r]
  <2>1. A2 = A \ {n} /\ n \in A BY <1>3
  <2> HIDE DEF A, A2
  <2>2. Cardinality(A2) = Cardinality(A) - 1 /\ Cardinality(A2) \in Nat
    BY <1>1, <2>1, FS_RemoveElement, FS_CardinalityType
  <2>3. Cardinality(A) > 0 BY <1>1, <2>2
  <2> QED BY <1>3, <2>2, <2>3 DEF CountOf, A, A2
<1>4. CASE x # k[n] /\ x = k[r]
  <2> DEFINE A1 == A \ {r}
  <2>1. A2 = A1 \cup {n} /\ r \in A /\ n \notin A1 BY <1>4
  <2>2. IsFiniteSet(A1) /\ Cardinality(A1) = Cardinality(A) - 1 BY <1>1, <2>1, FS_RemoveElement
  <2> HIDE DEF A, A2, A1
  <2>3. Cardinality(A2) = Cardinality(A1) + 1 BY <2>1, <2>2, FS_AddElement
  <2>4. Cardinality(A2) = Cardinality(A) BY <1>1, <2>2, <2>3
  <2> QED BY <1>4, <2>4 DEF CountOf, A, A2
<1>5. CASE x # k[n] /\ x # k[r]
  <2>1. A2 = A BY <1>5
  <2> QED BY <1>5, <2>1 DEF CountOf
<1> QED BY <1>2, <1>3, <1>4, <1>5

CountNone(k) == \A x : CountOf({}, k, x) = 0

LEMMA CountEmpty == \A k : CountNone(k)
<1> SUFFICES ASSUME NEW k, NEW x PROVE CountOf({}, k, x) = 0 BY DEF CountNone
<1>1. {n \in {} : k[n] = x} = {} OBVIOUS
<1> QED BY <1>1, FS_EmptySet DEF CountOf

(* There is one where there is one.                                         *)
LEMMA CountZero ==
    ASSUME NEW S, NEW k, NEW x, \A a \in S : k[a] # x
    PROVE  CountOf(S, k, x) = 0
<1>1. {n \in S : k[n] = x} = {} OBVIOUS
<1> QED BY <1>1, FS_EmptySet DEF CountOf

HeldIn(S, k) == [x \in Key |-> CountOf(S, k, x)]
-----------------------------------------------------------------------------
LEMMA GoodHeld ==
    ASSUME NEW S, Good(S)
    PROVE  Held = HeldIn(S, key) /\ IsFiniteSet(S) /\ S \subseteq Node /\ key \in [Node -> Key]
<1>1. PICK D, B : Core(tree, color, key, S, D)
  BY DEF Good, GoodAt
<1>2. Structure(tree, S, D) /\ key \in [Node -> Key] /\ S \subseteq Node /\ IsFiniteSet(S)
  BY <1>1 DEF Core, Structure, Tree, Shaped
<1>3. InTree = S BY GoodInTree
<1> QED BY <1>2, <1>3 DEF Held, HeldIn, CountOf

LEMMA NextHeld ==
    ASSUME NEW S
    PROVE  GoodNext(S) => Held' = HeldIn(S, key')
<1>1. Good(S) => Held = HeldIn(S, key) BY GoodHeld
<1>2. Good(S)' => (Held = HeldIn(S, key))' BY <1>1, PTL
<1> QED BY <1>2 DEF Good, GoodNext, HeldIn

Standing == \E S : Good(S)

LEMMA StandsNext == \A S : GoodNext(S) => Standing'
BY DEF Standing, Good, GoodNext

(* Each operation is that of the bag.                                       *)
BagKept == Standing' /\ [Bag!Next]_Bag!bag

LEMMA InsertBag ==
    ASSUME Standing, NEW k \in Key, Insert(k), call' = <<"insert", k>>
    PROVE  BagKept
<1>1. PICK S : Good(S) BY DEF Standing
<1>2. PICK n \in Node \ S : GoodNext(S \cup {n}) /\ key' = [key EXCEPT ![n] = k]
  BY <1>1, InsertMade DEF InsertDone
<1>3. Held = HeldIn(S, key) /\ IsFiniteSet(S) /\ S \subseteq Node /\ key \in [Node -> Key] BY <1>1, GoodHeld
<1> DEFINE k2 == [key EXCEPT ![n] = k]
<1>4. k2[n] = k /\ \A a \in S : k2[a] = key[a] BY <1>2, <1>3
<1>5. Held' = HeldIn(S \cup {n}, k2) BY <1>2, NextHeld
<1> HIDE DEF k2
<1>6. \A x \in Key : CountOf(S \cup {n}, k2, x) = IF x = k THEN CountOf(S, key, x) + 1 ELSE CountOf(S, key, x)
  BY <1>2, <1>3, <1>4, CountInsert
<1>7. Held' = [Held EXCEPT ![k] = @ + 1]
  BY <1>3, <1>5, <1>6 DEF HeldIn
<1>8. Bag!Insert(k) BY <1>7 DEF Bag!Insert
<1>9. Bag!Next BY <1>8 DEF Bag!Next
<1> QED BY <1>2, <1>9, StandsNext DEF BagKept

LEMMA RemoveBag ==
    ASSUME Standing, NEW k \in Key, at = "idle", NEW n \in InTree, key[n] = k, RemoveNode(n), call' = <<"remove", k>>
    PROVE  BagKept
<1>1. PICK S : Good(S) BY DEF Standing
<1>2. n \in S BY <1>1, GoodInTree
<1>3. PICK r : RemoveDone(S, n, r) BY <1>1, <1>2, RemoveMade
<1>4. r \in S /\ GoodNext(S \ {r}) /\ key' = [key EXCEPT ![n] = key[r]] BY <1>3 DEF RemoveDone
<1>5. Held = HeldIn(S, key) /\ IsFiniteSet(S) /\ S \subseteq Node /\ key \in [Node -> Key] BY <1>1, GoodHeld
<1> DEFINE k2 == [key EXCEPT ![n] = key[r]]
<1>6. k2[n] = key[r] /\ \A a \in S \ {n} : k2[a] = key[a] BY <1>2, <1>4, <1>5
<1>7. Held' = HeldIn(S \ {r}, k2) BY <1>4, NextHeld
<1> HIDE DEF k2
<1>8. \A x \in Key : /\ CountOf(S \ {r}, k2, x) = IF x = key[n] THEN CountOf(S, key, x) - 1 ELSE CountOf(S, key, x)
                     /\ x = key[n] => CountOf(S, key, x) > 0
  BY <1>2, <1>4, <1>5, <1>6, CountRemove
<1>9. Held[k] > 0 BY <1>5, <1>8 DEF HeldIn
<1>10. Held' = [Held EXCEPT ![k] = @ - 1] BY <1>5, <1>7, <1>8 DEF HeldIn
<1>11. Bag!Remove(k) BY <1>9, <1>10 DEF Bag!Remove
<1>12. Bag!Next BY <1>11 DEF Bag!Next
<1> QED BY <1>4, <1>12, StandsNext DEF BagKept

LEMMA RemovePeekBag ==
    ASSUME Standing, NEW k \in Key, Remove(k), call' = <<"remove", k>>
    PROVE  BagKept
<1>1. PICK S : Good(S) BY DEF Standing
<1>2. at = "idle" /\ peek(tree.root, k) # Leaf /\ RemoveNode(peek(tree.root, k)) BY DEF Remove
<1>3. alloc = S /\ InTree = S BY <1>1, <1>2, GoodInTree
<1>4. PICK D, B : Core(tree, color, key, S, D) /\ IdlePhase(tree, color, S, B, alloc, size)
  BY <1>1, <1>2, GoodIdle DEF Good
<1>5. peek(tree.root, k) \in alloc /\ key[peek(tree.root, k)] = k BY <1>2, <1>3, <1>4, PeekFinds
<1> DEFINE n == peek(tree.root, k)
<1>6. n \in InTree /\ key[n] = k /\ RemoveNode(n) BY <1>2, <1>3, <1>5
<1> HIDE DEF n
<1> QED BY <1>2, <1>6, RemoveBag

LEMMA RemoveNothingBag ==
    ASSUME Standing, NEW k \in Key, RemoveNothing(k), call' = <<"absent", k>>
    PROVE  BagKept
<1>1. PICK S : Good(S) BY DEF Standing
<1>2. /\ at = "idle" /\ peek(tree.root, k) = Leaf
      /\ tree' = tree /\ key' = key /\ color' = color /\ size' = size /\ alloc' = alloc
      /\ at' = at /\ cur' = cur /\ doomed' = doomed
  BY DEF RemoveNothing
<1>3. alloc = S BY <1>1, <1>2, GoodInTree
<1>4. PICK D, B : Core(tree, color, key, S, D) /\ IdlePhase(tree, color, S, B, alloc, size)
  BY <1>1, <1>2, GoodIdle DEF Good
<1>5. \A m \in S : key[m] # k BY <1>2, <1>3, <1>4, PeekFinds
<1>6. CountOf(S, key, k) = 0 BY <1>5, CountZero
<1>7. GoodNext(S) BY <1>1, <1>2 DEF Good, GoodNext
<1>8. Held = HeldIn(S, key) /\ Held' = HeldIn(S, key) BY <1>1, <1>2, <1>7, GoodHeld, NextHeld
<1>9. Bag!RemoveNothing(k) BY <1>6, <1>8 DEF Bag!RemoveNothing, HeldIn
<1>10. Bag!Next BY <1>9 DEF Bag!Next
<1> QED BY <1>7, <1>10, StandsNext DEF BagKept

LEMMA ClearBag ==
    ASSUME Standing, clear, call' = <<"clear">>
    PROVE  BagKept
<1>1. PICK S : Good(S) BY DEF Standing
<1>2. GoodNext({}) /\ key' = key BY <1>1, ClearMade
<1>3. Held' = HeldIn({}, key) BY <1>2, NextHeld
<1>4. \A x : CountOf({}, key, x) = 0 BY CountEmpty DEF CountNone
<1>5. Held' = [k \in Key |-> 0] BY <1>3, <1>4 DEF HeldIn
<1>6. Bag!Clear BY <1>5 DEF Bag!Clear
<1>7. Bag!Next BY <1>6 DEF Bag!Next
<1> QED BY <1>2, <1>7, StandsNext DEF BagKept

LEMMA RepairBag ==
    ASSUME Standing, Repair, UNCHANGED call
    PROVE  BagKept
<1>1. PICK S : Good(S) BY DEF Standing
<1>2. GoodNext(S) /\ key' = key BY <1>1, RepairGood
<1>3. Held = HeldIn(S, key) /\ Held' = HeldIn(S, key) BY <1>1, <1>2, GoodHeld, NextHeld
<1>4. UNCHANGED Bag!bag BY <1>3 DEF Bag!bag
<1> QED BY <1>2, <1>4, StandsNext DEF BagKept

LEMMA SameBag ==
    ASSUME Standing, UNCHANGED vars
    PROVE  BagKept
<1>1. PICK S : Good(S) BY DEF Standing
<1>2. GoodNext(S) /\ key' = key /\ call' = call BY <1>1 DEF Good, GoodNext, vars
<1>3. Held = HeldIn(S, key) /\ Held' = HeldIn(S, key) BY <1>1, <1>2, GoodHeld, NextHeld
<1>4. UNCHANGED Bag!bag BY <1>2, <1>3 DEF Bag!bag
<1> QED BY <1>2, <1>4, StandsNext DEF BagKept

LEMMA TreeCalls ==
    ASSUME Standing, Next
    PROVE  BagKept
<1>1. ASSUME NEW k \in Key, Insert(k) /\ call' = <<"insert", k>> PROVE BagKept BY <1>1, InsertBag
<1>2. ASSUME NEW k \in Key, Remove(k) /\ call' = <<"remove", k>> PROVE BagKept BY <1>2, RemovePeekBag
<1>3. ASSUME NEW k \in Key, RemoveNothing(k) /\ call' = <<"absent", k>> PROVE BagKept
  BY <1>3, RemoveNothingBag
<1>4. ASSUME clear /\ call' = <<"clear">> PROVE BagKept BY <1>4, ClearBag
<1>5. ASSUME Repair /\ UNCHANGED call PROVE BagKept BY <1>5, RepairBag
<1> QED BY <1>1, <1>2, <1>3, <1>4, <1>5 DEF Next

LEMMA IntervalCalls ==
    ASSUME Standing, INext
    PROVE  BagKept
<1>1. ASSUME NEW k \in Key, NEW h \in High, IInsert(k, h) /\ call' = <<"insert", k>> PROVE BagKept
  BY <1>1, InsertBag DEF IInsert
<1>2. ASSUME NEW k \in Key, IRemove(k) /\ call' = <<"remove", k>> PROVE BagKept
  BY <1>2, RemoveBag DEF IRemove
<1>3. ASSUME NEW k \in Key, IRemoveNothing(k) /\ call' = <<"absent", k>> PROVE BagKept
  BY <1>3, RemoveNothingBag DEF IRemoveNothing
<1>4. ASSUME IClear /\ call' = <<"clear">> PROVE BagKept BY <1>4, ClearBag DEF IClear
<1>5. ASSUME (IInsertRepair \/ IRemoveRepair) /\ UNCHANGED call PROVE BagKept
  <2>1. Repair BY <1>5 DEF Repair, IInsertRepair, IRemoveRepair
  <2> QED BY <1>5, <2>1, RepairBag
<1> QED BY <1>1, <1>2, <1>3, <1>4, <1>5 DEF INext

LEMMA TreeInit ==
    ASSUME Init
    PROVE  Standing /\ Bag!Init
<1>1. Good({}) BY InitGood
<1>2. Held = HeldIn({}, key) BY <1>1, GoodHeld
<1>3. \A x : CountOf({}, key, x) = 0 BY CountEmpty DEF CountNone
<1>4. Held = [k \in Key |-> 0] BY <1>2, <1>3 DEF HeldIn
<1>5. call = <<>> BY DEF Init
<1> QED BY <1>1, <1>4, <1>5 DEF Standing, Bag!Init

LEMMA StandingHolds == Standing => RedBlack /\ LinksMatch /\ NothingLost
BY GoodRedBlack, GoodLinks, GoodNothingLost DEF Standing

LEMMA TreeStep ==
    ASSUME Standing, [StepNext]_<<itree, bst, kind>>
    PROVE  BagKept
<1>1. CASE UNCHANGED itree
  <2>1. UNCHANGED vars BY <1>1 DEF itree
  <2> QED BY <2>1, SameBag
<1>2. CASE Next BY <1>2, TreeCalls
<1>3. CASE INext BY <1>3, IntervalCalls
<1> QED BY <1>1, <1>2, <1>3 DEF StepNext

(* The red-black tree and the interval tree are red-black trees whenever no *)
(* call is under way, for any nodes, keys and calls: whatever case of       *)
(* insert_case1 to 5 and remove_case1 to 6 repairs a change, the colours of *)
(* the tree are right and its paths have the same number of black nodes.    *)
THEOREM TreesStayRedBlack == StepSpec => []RedBlack
<1>1. StepInit => Standing BY TreeInit DEF StepInit, IInit
<1>2. Standing /\ [StepNext]_<<itree, bst, kind>> => Standing' BY TreeStep DEF BagKept
<1>3. Standing => RedBlack BY StandingHolds
<1> QED BY <1>1, <1>2, <1>3, PTL DEF StepSpec

(* Whatever rotation, replacement or repair, also between the steps of one  *)
(* call: the parent of a node's child is the node, that of the root is      *)
(* NULL, and the leaf a removal looks at hangs under its parent.            *)
THEOREM TreesStayLinked == StepSpec => []LinksMatch
<1>1. StepInit => Standing BY TreeInit DEF StepInit, IInit
<1>2. Standing /\ [StepNext]_<<itree, bst, kind>> => Standing' BY TreeStep DEF BagKept
<1>3. Standing => LinksMatch BY StandingHolds
<1> QED BY <1>1, <1>2, <1>3, PTL DEF StepSpec

LEMMA BalancedIsBag == StepSpec => ImplementsBag
<1>1. StepInit => Standing /\ Bag!Init BY TreeInit DEF StepInit, IInit
<1>2. Standing /\ [StepNext]_<<itree, bst, kind>> => Standing' /\ [Bag!Next]_Bag!bag BY TreeStep DEF BagKept
<1> QED BY <1>1, <1>2, PTL DEF StepSpec, ImplementsBag, Bag!Spec

-----------------------------------------------------------------------------
(***************************************************************************)
(* The greatest high ends of the interval tree, and what count, intersect   *)
(* and within find.                                                         *)
(***************************************************************************)
(* The nodes of A may have a max too small, and those of V a parent with    *)
(* one.                                                                     *)
Raised(t, hi, mx, S, A, V) ==
    \A a \in S \ A : /\ hi[a] <= mx[a]
                     /\ \A s \in Side : t[s][a] \in {Leaf} \cup A \cup V \/ mx[t[s][a]] <= mx[a]

(* What every node has that has it if its parent has it.                    *)
LEMMA UpInduct ==
    ASSUME NEW t, NEW S, NEW D, Structure(t, S, D), NEW G,
           \A m \in S : (t.parent[m] # Null => t.parent[m] \in G) => m \in G
    PROVE  S \subseteq G
<1>1. /\ Shaped(t, S, D, Leaf) /\ t.root \in S \cup {Leaf} /\ D[t.root] = S
      /\ \A n \in S, s \in Side : t[s][n] # Leaf => t.parent[t[s][n]] = n
      /\ t.root # Leaf => t.parent[t.root] = Null
  BY DEF Structure, Tree
<1> DEFINE T == {n \in S \cup {Leaf} : n \in G => D[n] \subseteq G}
<1>2. D[Leaf] = {} /\ Leaf \in T BY <1>1 DEF Shaped
<1>3. ASSUME NEW n \in S, \A s \in Side : t[s][n] \in T PROVE n \in T
  <2> SUFFICES ASSUME n \in G PROVE D[n] \subseteq G OBVIOUS
  <2>1. \A s \in Side : D[t[s][n]] \subseteq G
    <3> SUFFICES ASSUME NEW s \in Side, t[s][n] # Leaf PROVE D[t[s][n]] \subseteq G BY <1>2
    <3>1. t[s][n] \in S /\ t.parent[t[s][n]] = n BY <1>1, Under1
    <3>2. t[s][n] \in G BY <3>1
    <3> QED BY <1>3, <3>2
  <2>2. Fork(t, S, D, Leaf, n, "left") /\ "left" \in Side /\ "right" \in Side /\ Other("left") = "right"
    BY <1>1 DEF Shaped, Side, Other
  <2>3. D[n] = {n} \cup D[t["left"][n]] \cup D[t["right"][n]] BY <2>2 DEF Fork
  <2> QED BY <2>1, <2>2, <2>3
<1> HIDE DEF T
<1>4. S \subseteq T BY <1>1, <1>2, <1>3, TreeInduct
<1>5. t.root # Leaf => t.root \in G BY <1>1
<1> QED BY <1>1, <1>2, <1>4, <1>5 DEF T

(* What updateMax takes of a node and its children.                         *)
Greater(t, hi, mx, n, g) ==
    g \in High /\ hi[n] <= g /\ \A s \in Side : t[s][n] # Leaf => mx[t[s][n]] <= g

LEMMA GreatestOf ==
    ASSUME NEW t, NEW S, S \subseteq Node, NEW n \in S, \A s \in Side : t[s][n] \in S \cup {Leaf},
           NEW hi \in [Node -> High], NEW mx \in [Node -> High]
    PROVE  Greater(t, hi, mx, n, Greatest(t, hi, mx, n))
<1>1. "left" \in Side /\ "right" \in Side /\ Side = {"left", "right"} /\ t["left"] = t.left /\ t["right"] = t.right
  BY DEF Side
<1> DEFINE l == t.left[n]
           r == t.right[n]
           below == {mx[m] : m \in {t.left[n], t.right[n]} \ {Leaf}} \cup {hi[n]}
           Tops(h) == \A g \in below : g <= h
<1>2. l \in S \cup {Leaf} /\ r \in S \cup {Leaf} BY <1>1
<1>3. High \subseteq Int /\ hi[n] \in High /\ \A m \in S : mx[m] \in High BY HighAssumption
<1>4. below \subseteq High BY <1>2, <1>3
<1>5. /\ hi[n] \in below /\ (l # Leaf => mx[l] \in below) /\ (r # Leaf => mx[r] \in below)
      /\ \A g \in below : g = hi[n] \/ (l # Leaf /\ g = mx[l]) \/ (r # Leaf /\ g = mx[r])
  OBVIOUS
<1>6. Greatest(t, hi, mx, n) = CHOOSE h \in below : Tops(h) BY DEF Greatest
<1> HIDE DEF below
<1>7. \E h \in below : Tops(h)
  <2>1. CASE l = Leaf /\ r = Leaf
    <3> DEFINE c == hi[n]
    <3>1. c \in Int /\ \A g \in below : g = c BY <1>3, <1>5, <2>1
    <3> HIDE DEF c
    <3>2. \A g \in below : g <= c BY <3>1
    <3> QED BY <1>5, <3>2 DEF c
  <2>2. CASE l # Leaf /\ r = Leaf
    <3>1. mx[l] \in Int /\ hi[n] \in Int BY <1>2, <1>3, <2>2
    <3>2. mx[l] <= hi[n] \/ hi[n] <= mx[l] BY <3>1
    <3> QED BY <1>5, <2>2, <3>1, <3>2
  <2>3. CASE l = Leaf /\ r # Leaf
    <3>1. mx[r] \in Int /\ hi[n] \in Int BY <1>2, <1>3, <2>3
    <3>2. mx[r] <= hi[n] \/ hi[n] <= mx[r] BY <3>1
    <3> QED BY <1>5, <2>3, <3>1, <3>2
  <2>4. CASE l # Leaf /\ r # Leaf
    <3> DEFINE a == mx[l]
               b == mx[r]
               c == hi[n]
    <3>1. a \in Int /\ b \in Int /\ c \in Int BY <1>2, <1>3, <2>4
    <3>2. a \in below /\ b \in below /\ c \in below /\ \A g \in below : g = a \/ g = b \/ g = c BY <1>5, <2>4
    <3> HIDE DEF a, b, c
    <3>3. \/ b <= a /\ c <= a /\ a <= a
          \/ a <= b /\ c <= b /\ b <= b
          \/ a <= c /\ b <= c /\ c <= c
      BY <3>1
    <3> QED BY <3>2, <3>3
  <2> QED BY <2>1, <2>2, <2>3, <2>4
<1> DEFINE g == Greatest(t, hi, mx, n)
<1>8. g \in below /\ Tops(g)
  <2> HIDE DEF Tops
  <2> QED BY <1>6, <1>7
<1> HIDE DEF g
<1>9. \A s \in Side : t[s][n] # Leaf => mx[t[s][n]] <= g
  BY <1>1, <1>5, <1>8
<1>10. Greater(t, hi, mx, n, g) BY <1>4, <1>5, <1>8, <1>9 DEF Greater
<1> QED BY <1>10 DEF g

(* A call of updateMax for m; Mended is max after it.                       *)
Mended(t, hi, m, x) == [x EXCEPT ![m] = Greatest(t, hi, x, m)]
Climbs(t, hi, m, x) ==
    /\ t.parent[m] # Null
    /\ Greatest(t, hi, x, m) > hi[m] \/ Greatest(t, hi, x, m) > Mended(t, hi, m, x)[t.parent[m]]

LEMMA MendRaised ==
    ASSUME NEW t, NEW S, NEW D, Structure(t, S, D), NEW hi \in [Node -> High], NEW x \in [Node -> High],
           NEW V, NEW m \in S, Raised(t, hi, x, S, {m}, V)
    PROVE  /\ Mended(t, hi, m, x) \in [Node -> High]
           /\ Climbs(t, hi, m, x) => Raised(t, hi, Mended(t, hi, m, x), S, {t.parent[m]}, V)
           /\ ~Climbs(t, hi, m, x) => Raised(t, hi, Mended(t, hi, m, x), S, {}, V)
<1> DEFINE g == Greatest(t, hi, x, m)
           y == Mended(t, hi, m, x)
           p == t.parent[m]
<1>1. Family(t, S) /\ S \subseteq Node BY FamilyOf DEF Structure
<1>2. Greater(t, hi, x, m, g) BY <1>1, GreatestOf DEF Family
<1>3. y = [x EXCEPT ![m] = g] BY DEF Mended
<1>4. Climbs(t, hi, m, x) <=> p # Null /\ (g > hi[m] \/ g > y[p]) BY DEF Climbs
<1> HIDE DEF g, y
<1>5. y \in [Node -> High] /\ y[m] = g /\ \A a \in S \ {m} : y[a] = x[a] BY <1>1, <1>2, <1>3 DEF Greater
<1>6. \A a \in S : y[a] \in Int /\ x[a] \in Int /\ hi[a] \in Int BY <1>1, <1>5, HighAssumption
<1>7. hi[m] <= y[m] /\ \A s \in Side : t[s][m] # Leaf => y[t[s][m]] <= y[m]
  <2>1. \A s \in Side : t[s][m] \in (S \ {m}) \cup {Leaf} BY <1>1 DEF Family
  <2> QED BY <1>2, <1>5, <2>1 DEF Greater
<1>8. \A a \in S \ {m} : /\ hi[a] <= y[a]
                         /\ \A s \in Side : t[s][a] \in {Leaf, m} \cup V \/ y[t[s][a]] <= y[a]
  <2> TAKE a \in S \ {m}
  <2>1. hi[a] <= x[a] /\ \A s \in Side : t[s][a] \in {Leaf, m} \cup V \/ x[t[s][a]] <= x[a]
    BY DEF Raised
  <2>2. \A s \in Side : t[s][a] \in S \cup {Leaf} BY <1>1 DEF Family
  <2> QED BY <1>5, <2>1, <2>2
<1>9. \A a \in S, s \in Side : t[s][a] = m => a = p
  <2>1. m # Leaf BY <1>1 DEF Family
  <2> QED BY <1>1, <2>1 DEF Family
<1>10. Raised(t, hi, y, S, {p}, V)
  <2> SUFFICES ASSUME NEW a \in S \ {p}
               PROVE  hi[a] <= y[a] /\ \A s \in Side : t[s][a] \in {Leaf} \cup {p} \cup V \/ y[t[s][a]] <= y[a]
    BY DEF Raised
  <2>1. CASE a = m BY <1>7, <2>1
  <2>2. CASE a # m
    <3>1. \A s \in Side : t[s][a] # m BY <1>9
    <3> QED BY <1>8, <2>2, <3>1
  <2> QED BY <2>1, <2>2
<1>11. ASSUME ~(p # Null /\ (g > hi[m] \/ g > y[p])) PROVE Raised(t, hi, y, S, {}, V)
  <2> SUFFICES ASSUME NEW a \in S
               PROVE  hi[a] <= y[a] /\ \A s \in Side : t[s][a] \in {Leaf} \cup {} \cup V \/ y[t[s][a]] <= y[a]
    BY DEF Raised
  <2>1. CASE a = m BY <1>7, <2>1
  <2>2. CASE a # m
    <3>1. ASSUME NEW s \in Side, t[s][a] = m PROVE y[m] <= y[a]
      <4>1. a = p /\ p # Null
        <5>1. Null \notin S BY <1>1, NodeAssumption
        <5> QED BY <1>9, <3>1, <5>1
      <4>2. ~(g > y[p]) BY <1>11, <4>1
      <4>3. y[p] \in Int /\ g \in Int BY <1>5, <1>6, <4>1
      <4> QED BY <1>5, <4>1, <4>2, <4>3
    <3> QED BY <1>8, <2>2, <3>1
  <2> QED BY <2>1, <2>2
<1> QED BY <1>4, <1>5, <1>10, <1>11 DEF y

(* The calls of updateMax end, each at the root at the latest.              *)
ClimbOf(t, hi, S, f) ==
    \A m \in S, x \in [Node -> High] :
      f[<<m, x>>] = IF Climbs(t, hi, m, x) THEN f[<<t.parent[m], Mended(t, hi, m, x)>>] ELSE Mended(t, hi, m, x)

IsClimb(t, hi, S, h) ==
    h = [c \in S \X [Node -> High] |->
           IF Climbs(t, hi, c[1], c[2]) THEN h[<<t.parent[c[1]], Mended(t, hi, c[1], c[2])>>]
                                        ELSE Mended(t, hi, c[1], c[2])]

LEMMA ClimbWay ==
    ASSUME NEW t, NEW S, NEW D, Structure(t, S, D), NEW hi \in [Node -> High]
    PROVE  \E h : IsClimb(t, hi, S, h)
<1> DEFINE X == S \X [Node -> High]
           stop == {c \in X : ~Climbs(t, hi, c[1], c[2])}
           nx == [c \in X |-> <<t.parent[c[1]], Mended(t, hi, c[1], c[2])>>]
           N == Cardinality(S)
           rank == [c \in X |-> N - Cardinality(D[c[1]])]
<1>1. /\ Shaped(t, S, D, Leaf) /\ IsFiniteSet(S) /\ D \in [S \cup {Leaf} -> SUBSET S] /\ S \subseteq Node
      /\ Family(t, S)
  BY FamilyOf DEF Structure, Tree, Shaped
<1>2. \A m \in S : IsFiniteSet(D[m]) /\ Cardinality(D[m]) \in Nat /\ Cardinality(D[m]) <= N
  <2> TAKE m \in S
  <2>1. D[m] \in SUBSET S BY <1>1
  <2>2. IsFiniteSet(D[m]) /\ Cardinality(D[m]) <= N BY <1>1, <2>1, FS_Subset
  <2> QED BY <2>2, FS_CardinalityType
<1>3. N \in Nat BY <1>1, FS_CardinalityType
<1> HIDE DEF N
<1>4. \A c \in X : c[1] \in S /\ c[2] \in [Node -> High] OBVIOUS
<1>5. rank \in [X -> Nat] /\ \A c \in X : rank[c] <= N BY <1>2, <1>3, <1>4
<1>6. ASSUME NEW c \in X, c \notin stop PROVE nx[c] \in X /\ rank[nx[c]] < rank[c]
  <2> DEFINE m == c[1]
             x == c[2]
             p == t.parent[m]
             y == Mended(t, hi, m, x)
  <2>1. m \in S /\ x \in [Node -> High] /\ Climbs(t, hi, m, x) BY <1>4, <1>6
  <2>2. y \in [Node -> High]
    <3>1. Greater(t, hi, x, m, Greatest(t, hi, x, m)) BY <1>1, <2>1, GreatestOf DEF Family
    <3> QED BY <1>1, <2>1, <3>1 DEF Mended, Greater
  <2>3. p \in S /\ \E s \in Side : t[s][p] = m
    <3>1. p # Null BY <2>1 DEF Climbs
    <3> QED BY <2>1, <3>1, ParentOf, SideOfSide
  <2> HIDE DEF m, x, p, y
  <2>4. nx[c] = <<p, y>> BY DEF m, x, p, y
  <2>5. <<p, y>> \in X /\ <<p, y>>[1] = p BY <2>2, <2>3
  <2>6. D[m] \subseteq D[p] /\ p \in D[p] /\ p \notin D[m] BY <1>1, <2>3, Under1
  <2>7. Cardinality(D[m]) <= Cardinality(D[p]) /\ Cardinality(D[m]) # Cardinality(D[p])
    <3>1. IsFiniteSet(D[p]) /\ D[m] \in SUBSET D[p] BY <1>2, <2>3, <2>6
    <3>2. D[p] # D[m] BY <2>6
    <3> QED BY <3>1, <3>2, FS_Subset
  <2>8. Cardinality(D[m]) \in Nat /\ Cardinality(D[p]) \in Nat BY <1>2, <2>1, <2>3
  <2>9. rank[c] = N - Cardinality(D[m]) /\ rank[nx[c]] = N - Cardinality(D[p]) BY <2>4, <2>5 DEF m
  <2>10. N - Cardinality(D[p]) < N - Cardinality(D[m])
    <3> DEFINE i == Cardinality(D[m])
               j == Cardinality(D[p])
    <3>1. i \in Nat /\ j \in Nat /\ i <= j /\ i # j BY <2>7, <2>8
    <3> HIDE DEF i, j
    <3>2. N - j < N - i BY <1>3, <3>1
    <3> QED BY <3>2 DEF i, j
  <2> QED BY <2>4, <2>5, <2>9, <2>10
<1>7. \A c \in X : c \in stop <=> ~Climbs(t, hi, c[1], c[2]) OBVIOUS
<1>8. \A c \in X : nx[c] = <<t.parent[c[1]], Mended(t, hi, c[1], c[2])>> OBVIOUS
<1> HIDE DEF X, stop, nx, rank
<1>9. \A c \in X : c \notin stop => nx[c] \in X /\ rank[nx[c]] < rank[c] BY <1>6
<1>10. Ranked(X, stop, nx, rank, N) BY <1>3, <1>5, <1>9 DEF Ranked
<1>11. PICK f : WayOf(X, stop, nx, f) BY <1>10, WayDown
<1>12. f = [c \in X |-> IF c \in stop THEN c ELSE f[nx[c]]] BY <1>11 DEF WayOf
<1> DEFINE out(c) == Mended(t, hi, c[1], c[2])
           h == [c \in X |-> out(f[c])]
<1>13. ASSUME NEW c \in X PROVE h[c] = IF Climbs(t, hi, c[1], c[2]) THEN h[<<t.parent[c[1]], out(c)>>] ELSE out(c)
  <2>1. CASE c \in stop
    <3>1. f[c] = c BY <1>12, <2>1
    <3> QED BY <1>7, <2>1, <3>1
  <2>2. CASE c \notin stop
    <3>1. f[c] = f[nx[c]] /\ nx[c] \in X BY <1>9, <1>12, <2>2
    <3>2. h[c] = out(f[c]) /\ h[nx[c]] = out(f[nx[c]]) BY <3>1
    <3>3. nx[c] = <<t.parent[c[1]], out(c)>> BY <1>8
    <3>4. Climbs(t, hi, c[1], c[2]) BY <1>7, <2>2
    <3> HIDE DEF h, out
    <3> QED BY <3>1, <3>2, <3>3, <3>4
  <2> QED BY <2>1, <2>2
<1>14. h = [c \in X |-> h[c]] OBVIOUS
<1> HIDE DEF h
<1>15. h = [c \in X |-> IF Climbs(t, hi, c[1], c[2]) THEN h[<<t.parent[c[1]], out(c)>>] ELSE out(c)]
  BY <1>13, <1>14, Zenon
<1>16. IsClimb(t, hi, S, h) BY <1>15, Zenon DEF X, IsClimb
<1> QED BY <1>16

LEMMA UpdateIs ==
    ASSUME NEW t, NEW S, NEW D, Structure(t, S, D), NEW hi \in [Node -> High], InTree' = S
    PROVE  \E f : ClimbOf(t, hi, S, f) /\ \A n \in S : \A mx : updateMax(t, hi, mx, n) = f[<<n, mx>>]
<1> DEFINE Is(h) == h = [c \in InTree' \X [Node -> High] |->
                           LET m == c[1]
                               x == c[2]
                               g == Greatest(t, hi, x, m)
                               y == [x EXCEPT ![m] = g]
                               p == t.parent[m]
                           IN IF p # Null /\ (g > hi[m] \/ g > y[p]) THEN h[<<p, y>>] ELSE y]
           F == CHOOSE h : Is(h)
<1>1. PICK h : IsClimb(t, hi, S, h) BY ClimbWay
<1>2. Is(h) BY <1>1, Zenon DEF IsClimb, Climbs, Mended
<1>3. Is(F) BY <1>2, Zenon
<1>4. Leaf \notin S BY FamilyOf DEF Family
<1>5. \A n \in S : \A mx : updateMax(t, hi, mx, n) = F[<<n, mx>>] BY <1>4, Zenon DEF updateMax
<1>6. \A m \in S, x \in [Node -> High] :
        F[<<m, x>>] = IF Climbs(t, hi, m, x) THEN F[<<t.parent[m], Mended(t, hi, m, x)>>] ELSE Mended(t, hi, m, x)
  <2> TAKE m \in S, x \in [Node -> High]
  <2> DEFINE c == <<m, x>>
  <2>1. c \in S \X [Node -> High] /\ c[1] = m /\ c[2] = x OBVIOUS
  <2> HIDE DEF c
  <2>2. F = [e \in S \X [Node -> High] |->
               IF Climbs(t, hi, e[1], e[2]) THEN F[<<t.parent[e[1]], Mended(t, hi, e[1], e[2])>>]
                                            ELSE Mended(t, hi, e[1], e[2])]
    BY <1>3, Zenon DEF Climbs, Mended
  <2> HIDE DEF F
  <2>3. F[c] = IF Climbs(t, hi, c[1], c[2]) THEN F[<<t.parent[c[1]], Mended(t, hi, c[1], c[2])>>]
                                            ELSE Mended(t, hi, c[1], c[2])
    BY <2>1, <2>2, Zenon
  <2> QED BY <2>1, <2>3 DEF c
<1> HIDE DEF F
<1> QED BY <1>5, <1>6 DEF ClimbOf

(* updateMax of the node out of order puts all in order.                    *)
LEMMA UpdateRaised ==
    ASSUME NEW t, NEW S, NEW D, Structure(t, S, D), NEW hi \in [Node -> High], NEW mx \in [Node -> High],
           InTree' = S, NEW V, NEW n \in S, Raised(t, hi, mx, S, {n}, V)
    PROVE  updateMax(t, hi, mx, n) \in [Node -> High] /\ Raised(t, hi, updateMax(t, hi, mx, n), S, {}, V)
<1>1. PICK f : ClimbOf(t, hi, S, f) /\ \A a \in S : \A y : updateMax(t, hi, y, a) = f[<<a, y>>]
  BY UpdateIs
<1> DEFINE Mends(m) == \A x \in [Node -> High] :
                        Raised(t, hi, x, S, {m}, V) =>
                          f[<<m, x>>] \in [Node -> High] /\ Raised(t, hi, f[<<m, x>>], S, {}, V)
           G == {m \in S : Mends(m)}
<1>2. ASSUME NEW m \in S, t.parent[m] # Null => t.parent[m] \in G PROVE m \in G
  <2> SUFFICES ASSUME NEW x \in [Node -> High], Raised(t, hi, x, S, {m}, V)
               PROVE  f[<<m, x>>] \in [Node -> High] /\ Raised(t, hi, f[<<m, x>>], S, {}, V)
    OBVIOUS
  <2> DEFINE y == Mended(t, hi, m, x)
  <2>1. /\ y \in [Node -> High]
        /\ Climbs(t, hi, m, x) => Raised(t, hi, y, S, {t.parent[m]}, V)
        /\ ~Climbs(t, hi, m, x) => Raised(t, hi, y, S, {}, V)
    BY MendRaised
  <2>2. f[<<m, x>>] = IF Climbs(t, hi, m, x) THEN f[<<t.parent[m], y>>] ELSE y BY <1>1 DEF ClimbOf
  <2> HIDE DEF y
  <2>3. CASE Climbs(t, hi, m, x)
    <3>1. t.parent[m] # Null BY <2>3 DEF Climbs
    <3>2. Mends(t.parent[m]) BY <1>2, <3>1
    <3> QED BY <2>1, <2>2, <2>3, <3>2
  <2>4. CASE ~Climbs(t, hi, m, x) BY <2>1, <2>2, <2>4
  <2> QED BY <2>3, <2>4
<1> HIDE DEF G
<1>3. S \subseteq G BY <1>2, UpInduct
<1>4. Mends(n) BY <1>3 DEF G
<1> QED BY <1>1, <1>4

(* A rotation puts only the two nodes that change places out of order.      *)
LEMMA TurnRaised ==
    ASSUME NEW t, NEW t2, NEW S, NEW n \in S, NEW s \in Side, NEW m \in S, n # m,
           Turned(t, t2, S, n, s, m), NEW hi, NEW mx, NEW V, Raised(t, hi, mx, S, {}, V)
    PROVE  Raised(t2, hi, mx, S, {n}, V \cup {m})
<1> SUFFICES ASSUME NEW a \in S \ {n}
             PROVE  /\ hi[a] <= mx[a]
                    /\ \A x \in Side : t2[x][a] \in {Leaf} \cup {n} \cup (V \cup {m}) \/ mx[t2[x][a]] <= mx[a]
  BY DEF Raised
<1>1. hi[a] <= mx[a] /\ \A x \in Side : t[x][a] \in {Leaf} \cup V \/ mx[t[x][a]] <= mx[a] BY DEF Raised
<1>2. CASE a = m
  <2>1. t2[s][m] = n /\ t2[Other(s)][m] = t[Other(s)][m] /\ \A x \in Side : x = s \/ x = Other(s)
    BY Sides DEF Turned
  <2> QED BY <1>1, <1>2, <2>1
<1>3. CASE a # m
  <2>1. \A x \in Side : t2[x][a] = IF t[x][a] = n THEN m ELSE t[x][a] BY <1>3 DEF Turned
  <2> QED BY <1>1, <2>1
<1> QED BY <1>2, <1>3

LEMMA AfterRaised ==
    ASSUME NEW S, NEW D, Structure(tree, S, D), NEW E, Structure(tree', S, E), InTree' = S,
           high \in [Node -> High], max \in [Node -> High],
           NEW V, Raised(tree, high, max, S, {}, V), NEW n, Turns(S, n)
    PROVE  AfterRotation(n) \in [Node -> High] /\ Raised(tree', high, AfterRotation(n), S, {}, V)
<1>1. CASE tree' = tree BY <1>1 DEF AfterRotation
<1>2. CASE tree' # tree
  <2>1. PICK s \in Side : n \in S /\ tree[Other(s)][n] \in S /\ tree' = Rotated(tree, n, s)
    BY <1>2 DEF Turns
  <2> DEFINE m == tree[Other(s)][n]
             t2 == tree'
             y == updateMax(t2, high, max, n)
  <2>2. Turned(tree, t2, S, n, s, m) /\ RotatedRest(tree, t2, S, n, s, m) BY <2>1, RotatedStructure
  <2>3. n # m /\ t2.parent[n] = m
    <3>1. Family(tree, S) BY FamilyOf
    <3> QED BY <2>1, <2>2, <3>1, Sides DEF Family, RotatedRest
  <2>4. AfterRotation(n) = updateMax(t2, high, y, m) BY <1>2, <2>3 DEF AfterRotation
  <2>a. Structure(t2, S, E) OBVIOUS
  <2> HIDE DEF m, y, t2
  <2>5. Raised(t2, high, max, S, {n}, V \cup {m}) BY <2>1, <2>2, <2>3, TurnRaised DEF m
  <2>6. y \in [Node -> High] /\ Raised(t2, high, y, S, {}, V \cup {m})
    BY <2>1, <2>5, <2>a, UpdateRaised DEF y
  <2>7. Raised(t2, high, y, S, {m}, V) BY <2>6 DEF Raised
  <2>8. m \in S BY <2>1 DEF m
  <2>9. updateMax(t2, high, y, m) \in [Node -> High] /\ Raised(t2, high, updateMax(t2, high, y, m), S, {}, V)
    BY <2>6, <2>7, <2>8, <2>a, UpdateRaised
  <2> QED BY <2>4, <2>9 DEF t2
<1> QED BY <1>1, <1>2

(* A call ends with all in order; while it runs, only a new node's parent   *)
(* may have a max too small.                                                *)
Loose(a, nd) == IF a \in {"insert", "insert_case5"} THEN {nd} ELSE {}

LEMMA FinishRaised ==
    ASSUME NEW S, NEW E, Structure(tree', S, E), InTree' = S, at' = "idle" => alloc' = S,
           high' \in [Node -> High], NEW mx \in [Node -> High], NEW V, Raised(tree', high', mx, S, {}, V),
           V \subseteq {node'}, V # {} => node' \in S,
           at' = "idle" /\ node' \notin S => tree'.parent[node'] \in S \cup {Null},
           Finish(mx)
    PROVE  max' \in [Node -> High] /\ Raised(tree', high', max', S, {}, IF at' = "idle" THEN {} ELSE V)
<1>1. CASE at' # "idle" BY <1>1 DEF Finish
<1>2. CASE at' = "idle" /\ node' \in S
  <2>1. max' = updateMax(tree', high', mx, node') BY <1>2 DEF Finish
  <2>2. Raised(tree', high', mx, S, {node'}, {}) BY DEF Raised
  <2> QED BY <1>2, <2>1, <2>2, UpdateRaised
<1>3. CASE at' = "idle" /\ node' \notin S
  <2>1. V = {} BY <1>3
  <2>2. CASE max' = mx BY <1>3, <2>1, <2>2
  <2>3. CASE max' # mx
    <3> DEFINE p == tree'.parent[node']
    <3>1. p # Null /\ max' = updateMax(tree', high', mx, p) BY <1>3, <2>3 DEF Finish
    <3>2. p \in S BY <1>3, <3>1
    <3>3. Raised(tree', high', mx, S, {p}, {}) BY <2>1 DEF Raised
    <3> HIDE DEF p
    <3>4. /\ updateMax(tree', high', mx, p) \in [Node -> High]
          /\ Raised(tree', high', updateMax(tree', high', mx, p), S, {}, {})
      BY <3>2, <3>3, UpdateRaised
    <3> QED BY <1>3, <3>1, <3>4
  <2> QED BY <2>2, <2>3
<1> QED BY <1>1, <1>2, <1>3

(* What is under a node has no greater max, so no greater high end.         *)
LEMMA MaxUnder ==
    ASSUME NEW t, NEW S, NEW D, Structure(t, S, D), NEW hi \in [Node -> High], NEW mx \in [Node -> High],
           Raised(t, hi, mx, S, {}, {})
    PROVE  \A n \in S : \A a \in D[n] : mx[a] <= mx[n] /\ hi[a] <= mx[n]
<1> DEFINE Below(n) == \A a \in D[n] : mx[a] <= mx[n] /\ hi[a] <= mx[n]
           T == {n \in S \cup {Leaf} : Below(n)}
<1>1. Shaped(t, S, D, Leaf) /\ D[Leaf] = {} /\ S \subseteq Node BY DEF Structure, Tree, Shaped
<1>2. Leaf \in T BY <1>1
<1>3. ASSUME NEW n \in S, \A s \in Side : t[s][n] \in T PROVE n \in T
  <2>1. Fork(t, S, D, Leaf, n, "left") /\ "left" \in Side /\ "right" \in Side /\ Other("left") = "right"
    BY <1>1 DEF Shaped, Side, Other
  <2>2. D[n] = {n} \cup D[t["left"][n]] \cup D[t["right"][n]] BY <2>1 DEF Fork
  <2>3. hi[n] <= mx[n] /\ \A s \in Side : t[s][n] = Leaf \/ mx[t[s][n]] <= mx[n] BY DEF Raised
  <2>4. \A a \in S : mx[a] \in Int /\ hi[a] \in Int BY <1>1, HighAssumption
  <2>5. ASSUME NEW s \in Side, NEW a \in D[t[s][n]] PROVE mx[a] <= mx[n] /\ hi[a] <= mx[n]
    <3> DEFINE c == t[s][n]
    <3>1. c \in S /\ a \in S
      <4>1. c \in S \cup {Leaf} /\ D[c] \subseteq S BY <1>1, Under1
      <4> QED BY <1>1, <2>5, <4>1
    <3>2. mx[c] <= mx[n] BY <1>1, <2>3, <2>5
    <3>3. mx[a] <= mx[c] /\ hi[a] <= mx[c] BY <1>3, <2>5
    <3> HIDE DEF c
    <3> DEFINE u == mx[a]
               v == hi[a]
               w == mx[c]
               z == mx[n]
    <3>4. u \in Int /\ v \in Int /\ w \in Int /\ z \in Int BY <2>4, <3>1
    <3>5. u <= w /\ v <= w /\ w <= z BY <3>2, <3>3
    <3> HIDE DEF u, v, w, z
    <3>6. u <= z /\ v <= z BY <3>4, <3>5
    <3> QED BY <3>6 DEF u, v, z
  <2>6. mx[n] <= mx[n]
    <3> DEFINE z == mx[n]
    <3>1. z \in Int BY <2>4
    <3> HIDE DEF z
    <3>2. z <= z BY <3>1
    <3> QED BY <3>2 DEF z
  <2> QED BY <2>1, <2>2, <2>3, <2>5, <2>6
<1> HIDE DEF T
<1>4. S \subseteq T BY <1>1, <1>2, <1>3, TreeInduct
<1> QED BY <1>4 DEF T

Inserting == {"insert", "insert_case5"}
Removing == {"remove", "remove_case3", "remove_case6"}

(* The state of the interval tree besides that of the balanced tree.        *)
MaxedIn(t, k, hi, mx, a, nd, dm, S) ==
    /\ hi \in [Node -> High] /\ mx \in [Node -> High]
    /\ \A n \in S : k[n] <= hi[n]
    /\ Raised(t, hi, mx, S, {}, Loose(a, nd))
    /\ a \in Inserting => nd \in S
    /\ a \in Removing => nd \in S \cup {dm} /\ t.parent[dm] \in S \cup {Null}

Maxed(S) == MaxedIn(tree, key, high, max, at, node, doomed, S)
MaxedNext(S) == MaxedIn(tree', key', high', max', at', node', doomed', S)

LEMMA GoodNodes ==
    ASSUME NEW S, Good(S)
    PROVE  /\ \E D : Core(tree, color, key, S, D)
           /\ at \in Inserting \cup Removing \cup {"idle"}
           /\ at \in Removing => doomed \in Node \ S
<1>1. PICK D, B : Core(tree, color, key, S, D) /\ Phase(tree, color, S, B, alloc, size, at, cur, doomed)
  BY DEF Good, GoodAt
<1> QED BY <1>1 DEF Phase, RemovePhase, Inserting, Removing

GoodTree(S) == (\E D : Structure(tree, S, D)) /\ InTree = S /\ (at = "idle" => alloc = S)

LEMMA GoodTreeNext ==
    ASSUME NEW S
    PROVE  GoodNext(S) => (\E E : Structure(tree', S, E)) /\ InTree' = S /\ (at' = "idle" => alloc' = S)
<1>1. Good(S) => GoodTree(S)
  <2> SUFFICES ASSUME Good(S) PROVE GoodTree(S) OBVIOUS
  <2>1. PICK D : Core(tree, color, key, S, D) BY GoodNodes
  <2>2. Structure(tree, S, D) BY <2>1 DEF Core
  <2> QED BY <2>2, GoodInTree DEF GoodTree
<1>2. Good(S)' => GoodTree(S)' BY <1>1, PTL
<1> QED BY <1>2 DEF Good, GoodNext, GoodTree

LEMMA TurnsParents ==
    ASSUME NEW S, NEW D, Structure(tree, S, D), NEW n, Turns(S, n)
    PROVE  \A a \in Place \ S : tree'.parent[a] = tree.parent[a]
<1>1. CASE tree' # tree
  <2>1. PICK s \in Side : n \in S /\ tree[Other(s)][n] \in S /\ tree' = Rotated(tree, n, s)
    BY <1>1 DEF Turns
  <2>2. RotatedRest(tree, tree', S, n, s, tree[Other(s)][n]) BY <2>1, RotatedStructure
  <2> QED BY <2>2 DEF RotatedRest
<1> QED BY <1>1

(* A case that repairs the tree.                                            *)
Continues ==
    \/ at \in Inserting /\ at' \in Inserting \cup {"idle"}
    \/ at \in Removing /\ at' \in Removing \cup {"idle"} /\ (at' # "idle" => doomed' = doomed)

LEMMA RepairMaxed ==
    ASSUME NEW S, Good(S), GoodNext(S), Maxed(S), high' = high, node' = node, key' = key, Continues,
           NEW mx \in [Node -> High], Raised(tree', high, mx, S, {}, Loose(at, node)), Finish(mx),
           \A a \in Place \ S : tree'.parent[a] = tree.parent[a]
    PROVE  MaxedNext(S)
<1>1. PICK E : Structure(tree', S, E) BY GoodTreeNext
<1>2. InTree' = S /\ (at' = "idle" => alloc' = S) BY GoodTreeNext
<1>3. /\ high \in [Node -> High] /\ \A n \in S : key[n] <= high[n]
      /\ at \in Inserting => node \in S
      /\ at \in Removing => node \in S \cup {doomed} /\ tree.parent[doomed] \in S \cup {Null}
  BY DEF Maxed, MaxedIn
<1>4. at \in Removing => doomed \in Place \ S BY GoodNodes DEF Place
<1>5. Inserting \cap Removing = {} /\ "idle" \notin Inserting \cup Removing BY DEF Inserting, Removing
<1>6. at \in Removing => tree'.parent[doomed] \in S \cup {Null} BY <1>3, <1>4
<1>7. at' = "idle" /\ node' \notin S => tree'.parent[node'] \in S \cup {Null}
  BY <1>3, <1>5, <1>6 DEF Continues
<1> DEFINE V == Loose(at, node)
<1>8. /\ V \subseteq {node} /\ (V # {} => at \in Inserting)
      /\ at \in Inserting => V = {node}
  BY DEF Loose, Inserting
<1>9. Loose(at', node') = IF at' = "idle" THEN {} ELSE V
  <2>1. at' \in Inserting => at \in Inserting BY <1>5 DEF Continues
  <2>2. at' \in Inserting \cup {"idle"} \/ at \notin Inserting BY <1>5 DEF Continues
  <2>3. Loose(at', node') = IF at' \in Inserting THEN {node} ELSE {} BY DEF Loose, Inserting
  <2> QED BY <1>5, <1>8, <2>1, <2>2, <2>3
<1>10. V # {} => node \in S BY <1>3, <1>8
<1>11. Raised(tree', high, mx, S, {}, V) OBVIOUS
<1> HIDE DEF V
<1>12. max' \in [Node -> High] /\ Raised(tree', high', max', S, {}, IF at' = "idle" THEN {} ELSE V)
  BY <1>1, <1>2, <1>3, <1>7, <1>8, <1>10, <1>11, FinishRaised
<1>13. at' \in Inserting => node' \in S BY <1>3, <1>5 DEF Continues
<1>14. at' \in Removing => node' \in S \cup {doomed'} /\ tree'.parent[doomed'] \in S \cup {Null}
  BY <1>3, <1>5, <1>6 DEF Continues
<1> QED BY <1>3, <1>9, <1>12, <1>13, <1>14 DEF MaxedNext, MaxedIn

LEMMA RotateMaxed ==
    ASSUME NEW S, Good(S), GoodNext(S), Maxed(S), high' = high, node' = node, key' = key, Continues,
           NEW n, Turns(S, n), Finish(AfterRotation(n))
    PROVE  MaxedNext(S)
<1>1. PICK D : Core(tree, color, key, S, D) BY GoodNodes
<1>2. Structure(tree, S, D) BY <1>1 DEF Core
<1>3. PICK E : Structure(tree', S, E) BY GoodTreeNext
<1>4. InTree' = S BY GoodTreeNext
<1>5. high \in [Node -> High] /\ max \in [Node -> High] /\ Raised(tree, high, max, S, {}, Loose(at, node))
  BY DEF Maxed, MaxedIn
<1> DEFINE mx == AfterRotation(n)
<1>6. mx \in [Node -> High] /\ Raised(tree', high, mx, S, {}, Loose(at, node))
  BY <1>2, <1>3, <1>4, <1>5, AfterRaised
<1>7. \A a \in Place \ S : tree'.parent[a] = tree.parent[a] BY <1>2, TurnsParents
<1>8. Finish(mx) OBVIOUS
<1> HIDE DEF mx
<1> QED BY <1>6, <1>7, <1>8, RepairMaxed

LEMMA PaintMaxed ==
    ASSUME NEW S, Good(S), GoodNext(S), Maxed(S), high' = high, node' = node, key' = key, Continues,
           tree' = tree, Finish(max)
    PROVE  MaxedNext(S)
<1>1. max \in [Node -> High] /\ Raised(tree', high, max, S, {}, Loose(at, node))
  BY DEF Maxed, MaxedIn
<1> QED BY <1>1, RepairMaxed

LEMMA IntervalRepairMaxed ==
    ASSUME NEW S, Good(S), Maxed(S), IInsertRepair \/ IRemoveRepair
    PROVE  MaxedNext(S)
<1>1. high' = high /\ node' = node BY DEF IInsertRepair, IRemoveRepair
<1>2. Repair BY DEF Repair, IInsertRepair, IRemoveRepair
<1>3. GoodNext(S) /\ key' = key BY <1>2, RepairGood
<1>4. CASE (InsertRoot \/ InsertUnderBlack \/ InsertRepaint) /\ Finish(max)
  <2>1. tree' = tree /\ Continues
    BY <1>4 DEF InsertRoot, InsertUnderBlack, InsertRepaint, Inserted, Continues, Inserting
  <2> QED BY <1>1, <1>3, <1>4, <2>1, PaintMaxed
<1>5. CASE InsertInner /\ Finish(AfterRotation(Parent(cur)))
  <2>1. Turns(S, Parent(cur)) BY <1>5, InsertInnerGood
  <2>2. Continues BY <1>5 DEF InsertInner, Continues, Inserting
  <2> QED BY <1>1, <1>3, <1>5, <2>1, <2>2, RotateMaxed
<1>6. CASE InsertOuter /\ Finish(AfterRotation(Grandparent(cur)))
  <2>1. Turns(S, Grandparent(cur)) BY <1>6, InsertOuterGood
  <2>2. Continues BY <1>6 DEF InsertOuter, Inserted, Continues, Inserting
  <2> QED BY <1>1, <1>3, <1>6, <2>1, <2>2, RotateMaxed
<1>7. CASE (RemoveRoot \/ RemoveAllBlack \/ RemoveRedParent) /\ Finish(max)
  <2>1. tree' = tree /\ Continues
    BY <1>7 DEF RemoveRoot, RemoveAllBlack, RemoveRedParent, Removed, Continues, Removing
  <2> QED BY <1>1, <1>3, <1>7, <2>1, PaintMaxed
<1>8. CASE RemoveRedSibling /\ Finish(AfterRotation(Parent(cur)))
  <2>1. Turns(S, Parent(cur)) BY <1>8, RemoveRedSiblingGood
  <2>2. Continues BY <1>8 DEF RemoveRedSibling, Continues, Removing
  <2> QED BY <1>1, <1>3, <1>8, <2>1, <2>2, RotateMaxed
<1>9. CASE RemoveOuter /\ Finish(AfterRotation(Parent(cur)))
  <2>1. Turns(S, Parent(cur)) BY <1>9, RemoveOuterGood
  <2>2. Continues BY <1>9 DEF RemoveOuter, Removed, Continues, Removing
  <2> QED BY <1>1, <1>3, <1>9, <2>1, <2>2, RotateMaxed
<1>10. CASE RemoveInner /\ Finish(AfterRotation(Sibling(cur)))
  <2>1. Turns(S, Sibling(cur)) BY <1>10, RemoveInnerGood
  <2>2. Continues BY <1>10 DEF RemoveInner, Continues, Removing
  <2> QED BY <1>1, <1>3, <1>10, <2>1, <2>2, RotateMaxed
<1> QED BY <1>4, <1>5, <1>6, <1>7, <1>8, <1>9, <1>10 DEF IInsertRepair, IRemoveRepair

LEMMA InsertMaxed ==
    ASSUME NEW S, Good(S), Maxed(S), NEW k \in Key, NEW h \in High, IInsert(k, h)
    PROVE  \E T : GoodNext(T) /\ MaxedNext(T)
<1>1. k <= h /\ Insert(k) /\ node' = cur' /\ high' = [high EXCEPT ![node'] = h] /\ max' = [max EXCEPT ![node'] = h]
  BY DEF IInsert
<1>a. at = "idle" BY <1>1 DEF Insert
<1>2. InsertDone(S, k) BY <1>1, InsertMade
<1>3. PICK n \in Node \ S : /\ GoodNext(S \cup {n}) /\ key' = [key EXCEPT ![n] = k]
                            /\ at' = "insert" /\ cur' = n /\ Grafted(tree, tree', S, n)
  BY <1>2 DEF InsertDone
<1>4. PICK D : Core(tree, color, key, S, D) BY GoodNodes
<1>5. Structure(tree, S, D) /\ key \in [Node -> Key] BY <1>4 DEF Core
<1>6. Family(tree, S) /\ S \subseteq Node BY <1>5, FamilyOf DEF Structure
<1>7. /\ high \in [Node -> High] /\ max \in [Node -> High] /\ \A a \in S : key[a] <= high[a]
      /\ Raised(tree, high, max, S, {}, {})
  BY <1>a DEF Maxed, MaxedIn, Loose
<1>8. high' = [high EXCEPT ![n] = h] /\ max' = [max EXCEPT ![n] = h] /\ node' = n BY <1>1, <1>3
<1>9. high' \in [Node -> High] /\ max' \in [Node -> High] BY <1>7, <1>8
<1>10. /\ high'[n] = h /\ max'[n] = h /\ key'[n] = k
       /\ \A a \in S : high'[a] = high[a] /\ max'[a] = max[a] /\ key'[a] = key[a]
  BY <1>3, <1>5, <1>6, <1>7, <1>8
<1>11. \A a \in S \cup {n} : key'[a] <= high'[a] BY <1>1, <1>7, <1>10
<1>12. Raised(tree', high', max', S \cup {n}, {}, {n})
  <2> SUFFICES ASSUME NEW a \in S \cup {n}
               PROVE  /\ high'[a] <= max'[a]
                      /\ \A s \in Side : tree'[s][a] \in {Leaf} \cup {} \cup {n} \/ max'[tree'[s][a]] <= max'[a]
    BY DEF Raised
  <2>1. CASE a = n
    <3>1. h <= h
      <4>1. h \in Int BY HighAssumption
      <4> QED BY <4>1
    <3> QED BY <1>3, <1>10, <2>1, <3>1 DEF Grafted
  <2>2. CASE a # n
    <3>1. a \in S BY <2>2
    <3>2. high[a] <= max[a] /\ \A s \in Side : tree[s][a] = Leaf \/ max[tree[s][a]] <= max[a]
      BY <1>7, <3>1 DEF Raised
    <3>3. \A s \in Side : tree[s][a] \in S \cup {Leaf} /\ tree'[s][a] \in {tree[s][a], n}
      BY <1>3, <1>6, <3>1 DEF Family, Grafted
    <3> QED BY <1>10, <3>1, <3>2, <3>3
  <2> QED BY <2>1, <2>2
<1>13. Loose(at', node') = {n} /\ node' \in S \cup {n} /\ at' \notin Removing
  BY <1>3, <1>8 DEF Loose, Removing
<1>14. MaxedNext(S \cup {n}) BY <1>9, <1>11, <1>12, <1>13 DEF MaxedNext, MaxedIn
<1> QED BY <1>3, <1>14

LEMMA RemoveMaxed ==
    ASSUME NEW S, Good(S), Maxed(S), NEW k \in Key, IRemove(k)
    PROVE  \E T : GoodNext(T) /\ MaxedNext(T)
<1>1. at = "idle" /\ InTree = S BY GoodInTree DEF IRemove
<1>2. PICK n \in S : /\ RemoveNode(n) /\ node' = n
                     /\ high' = [high EXCEPT ![n] = high[Replacement(n)]] /\ Finish(max)
  BY <1>1 DEF IRemove
<1>3. PICK r : RemoveDone(S, n, r) BY <1>1, <1>2, RemoveMade
<1>4. r \in S /\ GoodNext(S \ {r}) /\ key' = [key EXCEPT ![n] = key[r]] /\ TakenOut(S, n, r)
  BY <1>3 DEF RemoveDone
<1>5. /\ r = Replacement(n) /\ at' \in {"idle", "remove"} /\ (at' = "remove" => doomed' = r)
      /\ tree'.parent[r] \in (S \ {r}) \cup {Null}
  BY <1>4 DEF TakenOut
<1>6. PICK D, s0, ch : /\ Structure(tree, S, D) /\ s0 \in Side /\ Spliced(tree, tree', S, Leaf, r, ch, s0)
                       /\ r # n => \E d \in Side : r \in D[tree[d][n]]
  BY <1>4 DEF TakenOut
<1>7. Family(tree, S) /\ S \subseteq Node /\ Shaped(tree, S, D, Leaf) BY <1>6, FamilyOf DEF Structure, Tree
<1>8. key \in [Node -> Key]
  <2>1. PICK D0 : Core(tree, color, key, S, D0) BY GoodNodes
  <2> QED BY <2>1 DEF Core
<1>9. /\ high \in [Node -> High] /\ max \in [Node -> High] /\ \A a \in S : key[a] <= high[a]
      /\ Raised(tree, high, max, S, {}, {})
  BY <1>1 DEF Maxed, MaxedIn, Loose
<1>10. high' = [high EXCEPT ![n] = high[r]] BY <1>2, <1>5
<1>11. /\ high' \in [Node -> High] /\ high'[n] = high[r] /\ key'[n] = key[r]
       /\ \A a \in S \ {n} : high'[a] = high[a] /\ key'[a] = key[a]
  BY <1>4, <1>7, <1>8, <1>9, <1>10
<1>12. \A a \in S \ {r} : key'[a] <= high'[a] BY <1>4, <1>9, <1>11
<1>13. \A a \in S : max[a] \in Int /\ high[a] \in Int BY <1>7, <1>9, HighAssumption
<1>14. high[r] <= max[n]
  <2>1. r \in D[n]
    <3>1. CASE r = n BY <1>7, <3>1, Under1 DEF Side
    <3>2. CASE r # n
      <4>1. PICK d \in Side : r \in D[tree[d][n]] BY <1>6, <3>2
      <4> QED BY <1>7, <4>1, Under1
    <3> QED BY <3>1, <3>2
  <2> QED BY <1>6, <1>9, <2>1, MaxUnder
<1>15. Raised(tree', high', max, S \ {r}, {}, {})
  <2> SUFFICES ASSUME NEW a \in S \ {r}
               PROVE  /\ high'[a] <= max[a]
                      /\ \A s \in Side : tree'[s][a] \in {Leaf} \cup {} \cup {} \/ max[tree'[s][a]] <= max[a]
    BY DEF Raised
  <2>1. \A b \in S : high[b] <= max[b] /\ \A s \in Side : tree[s][b] = Leaf \/ max[tree[s][b]] <= max[b]
    BY <1>9 DEF Raised
  <2>2. high'[a] <= max[a] BY <1>11, <1>14, <2>1
  <2>3. ASSUME NEW s \in Side, tree'[s][a] # Leaf PROVE max[tree'[s][a]] <= max[a]
    <3>1. tree'[s][a] = IF tree[s][a] = r THEN ch ELSE tree[s][a] BY <1>6 DEF Spliced
    <3>2. CASE tree[s][a] = r
      <4> DEFINE u == max[ch]
                 v == max[r]
                 w == max[a]
      <4>1. ch = tree[Other(s0)][r] /\ Other(s0) \in Side /\ tree'[s][a] = ch
        BY <1>6, <3>1, <3>2, Sides DEF Spliced
      <4>2. ch \in S BY <1>4, <1>7, <2>3, <4>1 DEF Family
      <4>3. u \in Int /\ v \in Int /\ w \in Int BY <1>4, <1>13, <4>2
      <4>4. u <= v BY <1>4, <2>1, <2>3, <4>1
      <4>5. v <= w
        <5>1. r # Leaf BY <1>4, <1>7 DEF Family
        <5> QED BY <2>1, <3>2, <5>1
      <4> HIDE DEF u, v, w
      <4>6. u <= w BY <4>3, <4>4, <4>5
      <4> QED BY <4>1, <4>6 DEF u, w
    <3>3. CASE tree[s][a] # r BY <2>1, <2>3, <3>1, <3>3
    <3> QED BY <3>2, <3>3
  <2> QED BY <2>2, <2>3
<1> DEFINE T == S \ {r}
<1>16. GoodNext(T) BY <1>4
<1>17. PICK E : Structure(tree', T, E) BY <1>16, GoodTreeNext
<1>18. InTree' = T /\ (at' = "idle" => alloc' = T) BY <1>16, GoodTreeNext
<1>19. node' \notin T => tree'.parent[node'] \in T \cup {Null} BY <1>2, <1>5
<1>20. Raised(tree', high', max, T, {}, {}) BY <1>15
<1>21. node' \in T \cup {r} BY <1>2, <1>4
<1>22. tree'.parent[r] \in T \cup {Null} BY <1>5
<1> HIDE DEF T
<1> DEFINE V == {}
<1>23. max' \in [Node -> High] /\ Raised(tree', high', max', T, {}, IF at' = "idle" THEN {} ELSE V)
  <2>1. V \subseteq {node'} /\ (V # {} => node' \in T) /\ Raised(tree', high', max, T, {}, V) BY <1>20
  <2> HIDE DEF V
  <2> QED BY <1>2, <1>9, <1>11, <1>17, <1>18, <1>19, <2>1, FinishRaised
<1>24. Loose(at', node') = {} /\ at' \notin Inserting /\ (at' \in Removing => doomed' = r)
  BY <1>5 DEF Loose, Inserting, Removing
<1>25. \A a \in T : key'[a] <= high'[a] BY <1>12 DEF T
<1>26. Raised(tree', high', max', T, {}, Loose(at', node')) BY <1>23, <1>24
<1>27. MaxedNext(T) BY <1>11, <1>21, <1>22, <1>23, <1>24, <1>25, <1>26 DEF MaxedNext, MaxedIn
<1> QED BY <1>16, <1>27

LEMMA ClearMaxed ==
    ASSUME NEW S, Good(S), Maxed(S), IClear
    PROVE  \E T : GoodNext(T) /\ MaxedNext(T)
<1>1. clear /\ high' = high /\ max' = max /\ at' = "idle" BY DEF IClear, clear
<1>2. GoodNext({}) BY <1>1, ClearMade
<1>3. high \in [Node -> High] /\ max \in [Node -> High] BY DEF Maxed, MaxedIn
<1>4. Raised(tree', high', max', {}, {}, Loose(at', node')) BY DEF Raised
<1>5. MaxedNext({}) BY <1>1, <1>3, <1>4 DEF MaxedNext, MaxedIn, Inserting, Removing
<1> QED BY <1>2, <1>5

LEMMA SameMaxed ==
    ASSUME NEW S, Good(S), Maxed(S), UNCHANGED <<tree, key, color, size, alloc, at, cur, doomed, high, max, node>>
    PROVE  \E T : GoodNext(T) /\ MaxedNext(T)
<1>1. GoodNext(S) /\ MaxedNext(S) BY DEF Good, GoodNext, Maxed, MaxedNext
<1> QED BY <1>1

(* The state of the tree, and of the interval tree if it is one.            *)
StandingMaxed == \E S : Good(S) /\ (kind = "intervaltree" => Maxed(S))

LEMMA MaxedStep ==
    ASSUME StandingMaxed, [StepNext]_<<itree, bst, kind>>
    PROVE  StandingMaxed'
<1>1. PICK S : Good(S) /\ (kind = "intervaltree" => Maxed(S)) BY DEF StandingMaxed
<1>2. kind' = kind BY DEF StepNext
<1>3. CASE kind # "intervaltree"
  <2>1. Standing BY <1>1 DEF Standing
  <2>2. Standing' BY <2>1, TreeStep DEF BagKept
  <2> QED BY <1>2, <1>3, <2>2 DEF Standing, StandingMaxed
<1>4. CASE kind = "intervaltree"
  <2>1. Good(S) /\ Maxed(S) BY <1>1, <1>4
  <2>2. \E T : GoodNext(T) /\ MaxedNext(T)
    <3>1. CASE UNCHANGED itree BY <2>1, <3>1, SameMaxed DEF itree, vars
    <3>2. CASE INext
      <4>1. ASSUME NEW k \in Key, NEW h \in High, IInsert(k, h) PROVE \E T : GoodNext(T) /\ MaxedNext(T)
        BY <2>1, <4>1, InsertMaxed
      <4>2. ASSUME NEW k \in Key, IRemove(k) PROVE \E T : GoodNext(T) /\ MaxedNext(T)
        BY <2>1, <4>2, RemoveMaxed
      <4>3. ASSUME NEW k \in Key, IRemoveNothing(k) PROVE \E T : GoodNext(T) /\ MaxedNext(T)
        BY <2>1, <4>3, SameMaxed DEF IRemoveNothing, RemoveNothing
      <4>4. CASE IClear BY <2>1, <4>4, ClearMaxed
      <4>5. CASE IInsertRepair \/ IRemoveRepair
        <5>1. MaxedNext(S) BY <2>1, <4>5, IntervalRepairMaxed
        <5>2. Repair BY <4>5 DEF Repair, IInsertRepair, IRemoveRepair
        <5>3. GoodNext(S) BY <2>1, <5>2, RepairGood
        <5> QED BY <5>1, <5>3
      <4> QED BY <3>2, <4>1, <4>2, <4>3, <4>4, <4>5 DEF INext
    <3> QED BY <1>4, <3>1, <3>2 DEF StepNext
  <2>3. PICK T : GoodNext(T) /\ MaxedNext(T) BY <2>2
  <2>4. Good(T)' /\ Maxed(T)' BY <2>3 DEF Good, GoodNext, Maxed, MaxedNext
  <2> QED BY <2>4 DEF StandingMaxed
<1> QED BY <1>3, <1>4

LEMMA MaxedInit ==
    ASSUME StepInit
    PROVE  StandingMaxed
<1>1. Good({}) BY InitGood DEF StepInit, IInit
<1>2. PICK h \in High : high = [n \in Node |-> h] /\ max = high BY DEF StepInit, IInit
<1>3. high \in [Node -> High] /\ max \in [Node -> High] BY <1>2
<1>4. at = "idle" BY DEF StepInit, IInit, Init
<1>5. Raised(tree, high, max, {}, {}, Loose(at, node)) BY DEF Raised
<1>6. Maxed({}) BY <1>3, <1>4, <1>5 DEF Maxed, MaxedIn, Inserting, Removing
<1> QED BY <1>1, <1>6 DEF StandingMaxed

(***************************************************************************)
(* What count, intersect and within find.                                   *)
(***************************************************************************)
LEMMA ForkOf ==
    ASSUME NEW S, NEW D, Structure(tree, S, D)
    PROVE  /\ D[Leaf] = {} /\ Leaf \notin S /\ S \subseteq Node /\ tree.root \in S \cup {Leaf} /\ D[tree.root] = S
           /\ \A m \in S : /\ D[m] = {m} \cup D[tree.left[m]] \cup D[tree.right[m]]
                           /\ tree.left[m] \in S \cup {Leaf} /\ tree.right[m] \in S \cup {Leaf}
                           /\ m \notin D[tree.left[m]] /\ m \notin D[tree.right[m]]
                           /\ D[tree.left[m]] \cap D[tree.right[m]] = {}
                           /\ D[m] \subseteq S
<1>1. Shaped(tree, S, D, Leaf) /\ S \subseteq Node /\ tree.root \in S \cup {Leaf} /\ D[tree.root] = S
  BY DEF Structure, Tree
<1>2. /\ "left" \in Side /\ "right" \in Side /\ Other("left") = "right" /\ Other("right") = "left"
      /\ tree["left"] = tree.left /\ tree["right"] = tree.right
  BY DEF Side, Other
<1>3. D[Leaf] = {} /\ Leaf \notin S BY <1>1 DEF Shaped
<1>4. ASSUME NEW m \in S
      PROVE  /\ D[m] = {m} \cup D[tree.left[m]] \cup D[tree.right[m]]
             /\ tree.left[m] \in S \cup {Leaf} /\ tree.right[m] \in S \cup {Leaf}
             /\ m \notin D[tree.left[m]] /\ m \notin D[tree.right[m]]
             /\ D[tree.left[m]] \cap D[tree.right[m]] = {}
             /\ D[m] \subseteq S
  <2>1. Fork(tree, S, D, Leaf, m, "left") /\ Fork(tree, S, D, Leaf, m, "right") BY <1>1, <1>2 DEF Shaped
  <2>2. D[m] \subseteq S BY <1>1 DEF Shaped
  <2> QED BY <1>2, <2>1, <2>2 DEF Fork
<1> QED BY <1>1, <1>3, <1>4

(* A search that looks to the left of the nodes of L and to the right of    *)
(* those of R, if all of M are there.                                       *)
Searches(S, f, M, L, R) ==
    /\ f[Leaf] = {}
    /\ \A m \in S : f[m] = (IF m \in L THEN f[tree.left[m]] ELSE {})
                           \cup (IF m \in M THEN {m} ELSE {})
                           \cup (IF m \in R THEN f[tree.right[m]] ELSE {})
Reaches(S, D, M, L, R) ==
    \A m \in S : /\ m \in L \/ D[tree.left[m]] \cap M = {}
                 /\ m \in R \/ D[tree.right[m]] \cap M = {}

LEMMA SearchExists ==
    ASSUME NEW S, NEW D, Structure(tree, S, D), NEW M, NEW L, NEW R, Reaches(S, D, M, L, R)
    PROVE  Searches(S, [m \in S \cup {Leaf} |-> D[m] \cap M], M, L, R)
<1> DEFINE f == [m \in S \cup {Leaf} |-> D[m] \cap M]
<1>1. f[Leaf] = {} BY ForkOf
<1>2. ASSUME NEW m \in S
      PROVE  f[m] = (IF m \in L THEN f[tree.left[m]] ELSE {})
                    \cup (IF m \in M THEN {m} ELSE {})
                    \cup (IF m \in R THEN f[tree.right[m]] ELSE {})
  <2>1. /\ D[m] = {m} \cup D[tree.left[m]] \cup D[tree.right[m]]
        /\ tree.left[m] \in S \cup {Leaf} /\ tree.right[m] \in S \cup {Leaf}
    BY ForkOf
  <2>2. /\ m \in L \/ D[tree.left[m]] \cap M = {}
        /\ m \in R \/ D[tree.right[m]] \cap M = {}
    BY DEF Reaches
  <2>3. /\ f[m] = D[m] \cap M /\ f[tree.left[m]] = D[tree.left[m]] \cap M
        /\ f[tree.right[m]] = D[tree.right[m]] \cap M
    BY <2>1
  <2> HIDE DEF f
  <2> QED BY <2>1, <2>2, <2>3
<1> HIDE DEF f
<1>3. Searches(S, f, M, L, R) BY <1>1, <1>2 DEF Searches
<1> QED BY <1>3 DEF f

LEMMA SearchUnique ==
    ASSUME NEW S, NEW D, Structure(tree, S, D), NEW M, NEW L, NEW R, Reaches(S, D, M, L, R),
           NEW f, Searches(S, f, M, L, R)
    PROVE  f[tree.root] = S \cap M
<1> DEFINE T == {m \in S \cup {Leaf} : f[m] = D[m] \cap M}
<1>1. Leaf \in T BY ForkOf DEF Searches
<1>2. ASSUME NEW m \in S, \A s \in Side : tree[s][m] \in T PROVE m \in T
  <2>1. /\ D[m] = {m} \cup D[tree.left[m]] \cup D[tree.right[m]]
        /\ m \in L \/ D[tree.left[m]] \cap M = {}
        /\ m \in R \/ D[tree.right[m]] \cap M = {}
    BY ForkOf DEF Reaches
  <2>2. f[tree.left[m]] = D[tree.left[m]] \cap M /\ f[tree.right[m]] = D[tree.right[m]] \cap M
    <3>1. "left" \in Side /\ "right" \in Side /\ tree["left"] = tree.left /\ tree["right"] = tree.right
      BY DEF Side
    <3>2. tree["left"][m] \in T /\ tree["right"][m] \in T BY <1>2, <3>1
    <3> QED BY <3>1, <3>2
  <2>3. f[m] = (IF m \in L THEN f[tree.left[m]] ELSE {})
               \cup (IF m \in M THEN {m} ELSE {})
               \cup (IF m \in R THEN f[tree.right[m]] ELSE {})
    BY DEF Searches
  <2>4. f[m] = D[m] \cap M BY <2>1, <2>2, <2>3
  <2> QED BY <2>4
<1>3. Shaped(tree, S, D, Leaf) BY DEF Structure, Tree
<1> HIDE DEF T
<1>4. S \subseteq T BY <1>1, <1>2, <1>3, TreeInduct
<1>5. tree.root \in T BY <1>1, <1>4, ForkOf
<1> QED BY <1>5, ForkOf DEF T

(* The interval tree between two calls.                                     *)
Ranged(D) ==
    /\ Structure(tree, alloc, D) /\ Sorted(tree, alloc, D, key)
    /\ \A n \in alloc : key[n] \in Int /\ high[n] \in Int /\ max[n] \in Int /\ key[n] <= high[n]
    /\ \A n \in alloc : \A a \in D[n] : high[a] <= max[n]

LEMMA RangedOf ==
    ASSUME NEW S, Good(S), Maxed(S), at = "idle"
    PROVE  \E D : Ranged(D)
<1>1. PICK D : Core(tree, color, key, S, D) BY GoodNodes
<1>2. Structure(tree, S, D) /\ Sorted(tree, S, D, key) /\ key \in [Node -> Key] /\ S \subseteq Node
  BY <1>1 DEF Core, Structure
<1>3. /\ high \in [Node -> High] /\ max \in [Node -> High] /\ \A n \in S : key[n] <= high[n]
      /\ Raised(tree, high, max, S, {}, {})
  BY DEF Maxed, MaxedIn, Loose
<1>4. \A n \in S : \A a \in D[n] : high[a] <= max[n] BY <1>2, <1>3, MaxUnder
<1>5. \A n \in S : key[n] \in Int /\ high[n] \in Int /\ max[n] \in Int
  BY <1>2, <1>3, NodeAssumption, HighAssumption
<1>6. alloc = S BY GoodInTree
<1> QED BY <1>2, <1>3, <1>4, <1>5, <1>6 DEF Ranged

LEMMA RangedSides ==
    ASSUME NEW D, Ranged(D), NEW m \in alloc
    PROVE  /\ \A a \in D[tree.left[m]] : a \in alloc /\ key[a] <= key[m] /\ high[a] <= max[m]
           /\ \A a \in D[tree.right[m]] : a \in alloc /\ key[m] <= key[a]
<1>1. /\ D[m] = {m} \cup D[tree.left[m]] \cup D[tree.right[m]] /\ D[m] \subseteq alloc
  BY ForkOf DEF Ranged
<1>2. "left" \in Side /\ "right" \in Side /\ tree["left"] = tree.left /\ tree["right"] = tree.right
  BY DEF Side
<1>3. \A s \in Side : \A a \in D[tree[s][m]] : Precedes(s, key[a], key[m]) BY DEF Ranged, Sorted
<1>4. \A a \in D[tree.left[m]] : key[a] <= key[m]
  <2>1. \A a \in D[tree["left"][m]] : Precedes("left", key[a], key[m]) BY <1>2, <1>3
  <2> QED BY <1>2, <2>1 DEF Precedes
<1>5. \A a \in D[tree.right[m]] : key[m] <= key[a]
  <2>1. \A a \in D[tree["right"][m]] : Precedes("right", key[a], key[m]) BY <1>2, <1>3
  <2> QED BY <1>2, <2>1 DEF Precedes
<1>6. \A a \in D[m] : high[a] <= max[m] BY DEF Ranged
<1> QED BY <1>1, <1>4, <1>5, <1>6

LEMMA IntersectFinds ==
    ASSUME NEW D, Ranged(D), NEW l \in Int, NEW h \in Int
    PROVE  intersect(l, h) = {n \in alloc : l <= high[n] /\ key[n] <= h}
<1> DEFINE M == {n \in alloc : l <= high[n] /\ h >= key[n]}
           L == {n \in alloc : l <= max[n]}
           R == {n \in alloc : h >= key[n]}
<1>1. Structure(tree, alloc, D) /\ Leaf \notin alloc BY ForkOf DEF Ranged
<1>2. Reaches(alloc, D, M, L, R)
  <2> SUFFICES ASSUME NEW m \in alloc
               PROVE  /\ m \in L \/ D[tree.left[m]] \cap M = {}
                      /\ m \in R \/ D[tree.right[m]] \cap M = {}
    BY DEF Reaches
  <2>1. ASSUME m \notin L, NEW a \in D[tree.left[m]] PROVE a \notin M
    <3>1. a \in alloc /\ high[a] <= max[m] BY RangedSides
    <3>2. high[a] \in Int /\ max[m] \in Int BY <3>1 DEF Ranged
    <3>3. ~(l <= max[m]) BY <2>1
    <3>4. ~(l <= high[a]) BY <3>1, <3>2, <3>3
    <3> QED BY <3>4
  <2>2. ASSUME m \notin R, NEW a \in D[tree.right[m]] PROVE a \notin M
    <3>1. a \in alloc /\ key[m] <= key[a] BY RangedSides
    <3>2. key[a] \in Int /\ key[m] \in Int BY <3>1 DEF Ranged
    <3>3. ~(h >= key[m]) BY <2>2
    <3>4. ~(h >= key[a]) BY <3>1, <3>2, <3>3
    <3> QED BY <3>4
  <2> HIDE DEF L, M, R
  <2> QED BY <2>1, <2>2
<1>3. \A m \in alloc : /\ m \in M <=> l <= high[m] /\ h >= key[m]
                       /\ m \in L <=> l <= max[m]
                       /\ m \in R <=> h >= key[m]
  OBVIOUS
<1> HIDE DEF M, L, R
<1> DEFINE Is(f) == f = [m \in alloc \cup {Leaf} |->
                           IF m = Leaf THEN {}
                           ELSE (IF l <= max[m] THEN f[tree.left[m]] ELSE {})
                                \cup (IF l <= high[m] /\ h >= key[m] THEN {m} ELSE {})
                                \cup (IF h >= key[m] THEN f[tree.right[m]] ELSE {})]
           t == [m \in alloc \cup {Leaf} |-> D[m] \cap M]
           F == CHOOSE f : Is(f)
<1>4. Searches(alloc, t, M, L, R) BY <1>1, <1>2, SearchExists
<1>5. t = [m \in alloc \cup {Leaf} |-> t[m]] OBVIOUS
<1> HIDE DEF t
<1>6. /\ t[Leaf] = {}
      /\ \A m \in alloc : t[m] = (IF l <= max[m] THEN t[tree.left[m]] ELSE {})
                                 \cup (IF l <= high[m] /\ h >= key[m] THEN {m} ELSE {})
                                 \cup (IF h >= key[m] THEN t[tree.right[m]] ELSE {})
  BY <1>3, <1>4 DEF Searches
<1>7. Is(t) BY <1>5, <1>6, Zenon
<1>8. Is(F) BY <1>7, Zenon
<1>9. intersect(l, h) = F[tree.root] BY DEF intersect
<1>10. /\ F[Leaf] = {}
       /\ \A m \in alloc : F[m] = (IF l <= max[m] THEN F[tree.left[m]] ELSE {})
                                  \cup (IF l <= high[m] /\ h >= key[m] THEN {m} ELSE {})
                                  \cup (IF h >= key[m] THEN F[tree.right[m]] ELSE {})
  BY <1>1, <1>8, Zenon
<1> HIDE DEF F
<1>11. Searches(alloc, F, M, L, R) BY <1>3, <1>10 DEF Searches
<1>12. intersect(l, h) = alloc \cap M BY <1>1, <1>2, <1>9, <1>11, SearchUnique
<1>13. \A n \in alloc : key[n] <= h <=> h >= key[n]
  <2>1. \A n \in alloc : key[n] \in Int BY DEF Ranged
  <2> QED BY <2>1
<1> QED BY <1>3, <1>12, <1>13

LEMMA WithinFinds ==
    ASSUME NEW D, Ranged(D), NEW l \in Int, NEW h \in Int
    PROVE  within(l, h) = {n \in alloc : l <= key[n] /\ high[n] <= h}
<1> DEFINE M == {n \in alloc : l <= key[n] /\ h >= high[n]}
           L == {n \in alloc : l <= max[n] /\ l <= key[n]}
           R == {n \in alloc : h >= key[n]}
<1>1. Structure(tree, alloc, D) /\ Leaf \notin alloc BY ForkOf DEF Ranged
<1>2. Reaches(alloc, D, M, L, R)
  <2> SUFFICES ASSUME NEW m \in alloc
               PROVE  /\ m \in L \/ D[tree.left[m]] \cap M = {}
                      /\ m \in R \/ D[tree.right[m]] \cap M = {}
    BY DEF Reaches
  <2>1. ASSUME m \notin L, NEW a \in D[tree.left[m]] PROVE a \notin M
    <3>1. a \in alloc /\ high[a] <= max[m] /\ key[a] <= key[m] BY RangedSides
    <3>2. high[a] \in Int /\ max[m] \in Int /\ key[a] \in Int /\ key[m] \in Int /\ key[a] <= high[a]
      BY <3>1 DEF Ranged
    <3>3. ~(l <= max[m]) \/ ~(l <= key[m]) BY <2>1
    <3>4. ~(l <= key[a]) BY <3>1, <3>2, <3>3
    <3> QED BY <3>4
  <2>2. ASSUME m \notin R, NEW a \in D[tree.right[m]] PROVE a \notin M
    <3>1. a \in alloc /\ key[m] <= key[a] BY RangedSides
    <3>2. key[a] \in Int /\ key[m] \in Int /\ high[a] \in Int /\ key[a] <= high[a] BY <3>1 DEF Ranged
    <3>3. ~(h >= key[m]) BY <2>2
    <3>4. ~(h >= high[a]) BY <3>1, <3>2, <3>3
    <3> QED BY <3>4
  <2> HIDE DEF L, M, R
  <2> QED BY <2>1, <2>2
<1>3. \A m \in alloc : /\ m \in M <=> l <= key[m] /\ h >= high[m]
                       /\ m \in L <=> l <= max[m] /\ l <= key[m]
                       /\ m \in R <=> h >= key[m]
  OBVIOUS
<1> HIDE DEF M, L, R
<1> DEFINE Is(f) == f = [m \in alloc \cup {Leaf} |->
                           IF m = Leaf THEN {}
                           ELSE (IF l <= max[m] /\ l <= key[m] THEN f[tree.left[m]] ELSE {})
                                \cup (IF l <= key[m] /\ h >= high[m] THEN {m} ELSE {})
                                \cup (IF h >= key[m] THEN f[tree.right[m]] ELSE {})]
           t == [m \in alloc \cup {Leaf} |-> D[m] \cap M]
           F == CHOOSE f : Is(f)
<1>4. Searches(alloc, t, M, L, R) BY <1>1, <1>2, SearchExists
<1>5. t = [m \in alloc \cup {Leaf} |-> t[m]] OBVIOUS
<1> HIDE DEF t
<1>6. /\ t[Leaf] = {}
      /\ \A m \in alloc : t[m] = (IF l <= max[m] /\ l <= key[m] THEN t[tree.left[m]] ELSE {})
                                 \cup (IF l <= key[m] /\ h >= high[m] THEN {m} ELSE {})
                                 \cup (IF h >= key[m] THEN t[tree.right[m]] ELSE {})
  BY <1>3, <1>4 DEF Searches
<1>7. Is(t) BY <1>5, <1>6, Zenon
<1>8. Is(F) BY <1>7, Zenon
<1>9. within(l, h) = F[tree.root] BY DEF within
<1>10. /\ F[Leaf] = {}
       /\ \A m \in alloc : F[m] = (IF l <= max[m] /\ l <= key[m] THEN F[tree.left[m]] ELSE {})
                                  \cup (IF l <= key[m] /\ h >= high[m] THEN {m} ELSE {})
                                  \cup (IF h >= key[m] THEN F[tree.right[m]] ELSE {})
  BY <1>1, <1>8, Zenon
<1> HIDE DEF F
<1>11. Searches(alloc, F, M, L, R) BY <1>3, <1>10 DEF Searches
<1>12. within(l, h) = alloc \cap M BY <1>1, <1>2, <1>9, <1>11, SearchUnique
<1>13. \A n \in alloc : high[n] <= h <=> h >= high[n]
  <2>1. \A n \in alloc : high[n] \in Int BY DEF Ranged
  <2> QED BY <2>1
<1> QED BY <1>3, <1>12, <1>13

LEMMA MaxedFinds ==
    ASSUME NEW S, Good(S), Maxed(S)
    PROVE  QueriesFindAll
<1> SUFFICES ASSUME at = "idle", NEW l \in Key, NEW h \in High
             PROVE  /\ intersect(l, h) = {n \in InTree : l <= high[n] /\ key[n] <= h}
                    /\ within(l, h) = {n \in InTree : l <= key[n] /\ high[n] <= h}
  BY DEF QueriesFindAll
<1>1. PICK D : Ranged(D) BY RangedOf
<1>2. l \in Int /\ h \in Int BY NodeAssumption, HighAssumption
<1>3. InTree = alloc BY GoodInTree
<1> QED BY <1>1, <1>2, <1>3, IntersectFinds, WithinFinds

(* The elements of one key under a node: itself and those under its children. *)
LEMMA CountFork ==
    ASSUME NEW S, NEW D, Structure(tree, S, D), IsFiniteSet(S), NEW m \in S, NEW k, key[m] = k
    PROVE  CountOf(D[m], key, k) = 1 + CountOf(D[tree.left[m]], key, k) + CountOf(D[tree.right[m]], key, k)
<1> DEFINE A == {a \in D[m] : key[a] = k}
           L == {a \in D[tree.left[m]] : key[a] = k}
           R == {a \in D[tree.right[m]] : key[a] = k}
<1>1. /\ D[m] = {m} \cup D[tree.left[m]] \cup D[tree.right[m]]
      /\ m \notin D[tree.left[m]] /\ m \notin D[tree.right[m]]
      /\ D[tree.left[m]] \cap D[tree.right[m]] = {}
      /\ D[m] \subseteq S
  BY ForkOf
<1>2. L \in SUBSET S /\ R \in SUBSET S BY <1>1
<1>3. A = (L \cup R) \cup {m} /\ m \notin L \cup R /\ L \cap R = {} BY <1>1
<1> HIDE DEF A, L, R
<1>4. IsFiniteSet(L) /\ IsFiniteSet(R) BY <1>2, FS_Subset
<1>5. Cardinality(L) \in Nat /\ Cardinality(R) \in Nat BY <1>4, FS_CardinalityType
<1>6. Cardinality(L \cap R) = 0 BY <1>3, FS_EmptySet
<1>7. IsFiniteSet(L \cup R) /\ Cardinality(L \cup R) = Cardinality(L) + Cardinality(R)
  <2>1. /\ IsFiniteSet(L \cup R)
        /\ Cardinality(L \cup R) = Cardinality(L) + Cardinality(R) - Cardinality(L \cap R)
    BY <1>4, FS_Union
  <2> DEFINE c == Cardinality(L)
             d == Cardinality(R)
             e == Cardinality(L \cap R)
  <2>2. c \in Nat /\ d \in Nat /\ e = 0 BY <1>5, <1>6
  <2>3. Cardinality(L \cup R) = c + d - e BY <2>1
  <2> HIDE DEF c, d, e
  <2>4. Cardinality(L \cup R) = c + d BY <2>2, <2>3
  <2> QED BY <2>1, <2>4 DEF c, d
<1>8. Cardinality(A) = Cardinality(L \cup R) + 1 BY <1>3, <1>7, FS_AddElement
<1>9. Cardinality(A) = 1 + Cardinality(L) + Cardinality(R) BY <1>5, <1>7, <1>8
<1> QED BY <1>9 DEF A, L, R, CountOf

(* What count adds up at a node y that the search from x ends at.           *)
Sums(k, f, x, y) == f[x] = IF y = Leaf THEN 0 ELSE 1 + f[tree.left[y]] + f[tree.right[y]]

LEMMA CountSums ==
    ASSUME NEW D, Core(tree, color, key, alloc, D), IsFiniteSet(alloc), NEW k \in Key, NEW x \in alloc \cup {Leaf}
    PROVE  Sums(k, [m \in alloc \cup {Leaf} |-> CountOf(D[m], key, k)], x, peek(x, k))
<1> DEFINE f == [m \in alloc \cup {Leaf} |-> CountOf(D[m], key, k)]
           y == peek(x, k)
<1>1. Structure(tree, alloc, D) /\ Shaped(tree, alloc, D, Leaf) BY DEF Core, Structure, Tree
<1>2. Found(D, Leaf, key, k, x, y) BY PeekFound
<1>3. f[x] = CountOf(D[x], key, k) OBVIOUS
<1> HIDE DEF y
<1>4. CASE y = Leaf
  <2>1. \A a \in D[x] : key[a] # k BY <1>2, <1>4 DEF Found
  <2>2. CountOf(D[x], key, k) = 0 BY <2>1, CountZero
  <2> QED BY <1>3, <1>4, <2>2 DEF Sums, y
<1>5. CASE y # Leaf
  <2>1. y \in D[x] /\ key[y] = k /\ \A a \in D[x] : key[a] = k => a \in D[y] BY <1>2, <1>5 DEF Found
  <2>2. x \in alloc BY <1>1, <2>1, ForkOf
  <2>3. D[y] \subseteq D[x] /\ y \in alloc BY <1>1, <2>1, <2>2, Nested, ForkOf
  <2>4. {a \in D[x] : key[a] = k} = {a \in D[y] : key[a] = k} BY <2>1, <2>3
  <2>5. CountOf(D[x], key, k) = CountOf(D[y], key, k) BY <2>4 DEF CountOf
  <2>6. CountOf(D[y], key, k) = 1 + CountOf(D[tree.left[y]], key, k) + CountOf(D[tree.right[y]], key, k)
    BY <1>1, <2>1, <2>3, CountFork
  <2>7. tree.left[y] \in alloc \cup {Leaf} /\ tree.right[y] \in alloc \cup {Leaf} BY <1>1, <2>3, ForkOf
  <2>8. f[tree.left[y]] = CountOf(D[tree.left[y]], key, k) /\ f[tree.right[y]] = CountOf(D[tree.right[y]], key, k)
    BY <2>7
  <2> HIDE DEF f
  <2>9. f[x] = 1 + f[tree.left[y]] + f[tree.right[y]] BY <1>3, <2>5, <2>6, <2>8
  <2> QED BY <1>5, <2>9 DEF Sums, y, f
<1> QED BY <1>4, <1>5

(* The sum at every node is settled by those under it.                      *)
LEMMA SumsUnique ==
    ASSUME NEW D, Core(tree, color, key, alloc, D), NEW k \in Key, NEW f, NEW g,
           \A x \in alloc \cup {Leaf} : Sums(k, f, x, peek(x, k)) /\ Sums(k, g, x, peek(x, k))
    PROVE  f[tree.root] = g[tree.root]
<1> DEFINE T == {m \in alloc \cup {Leaf} : \A a \in D[m] \cup {m, Leaf} : f[a] = g[a]}
<1>1. Structure(tree, alloc, D) /\ Shaped(tree, alloc, D, Leaf) BY DEF Core, Structure, Tree
<1>2. D[Leaf] = {} /\ Leaf \notin alloc BY <1>1, ForkOf
<1>3. f[Leaf] = g[Leaf]
  <2>1. Found(D, Leaf, key, k, Leaf, peek(Leaf, k)) BY PeekFound
  <2>2. peek(Leaf, k) = Leaf BY <1>2, <2>1 DEF Found
  <2>3. Sums(k, f, Leaf, Leaf) /\ Sums(k, g, Leaf, Leaf) BY <2>2
  <2> QED BY <2>3 DEF Sums
<1>4. Leaf \in T BY <1>2, <1>3
<1>5. ASSUME NEW m \in alloc, \A s \in Side : tree[s][m] \in T PROVE m \in T
  <2>1. /\ D[m] = {m} \cup D[tree.left[m]] \cup D[tree.right[m]] /\ D[m] \subseteq alloc
        /\ tree.left[m] \in alloc \cup {Leaf} /\ tree.right[m] \in alloc \cup {Leaf}
    BY <1>1, ForkOf
  <2>2. tree.left[m] \in T /\ tree.right[m] \in T
    <3>1. "left" \in Side /\ "right" \in Side /\ tree["left"] = tree.left /\ tree["right"] = tree.right
      BY DEF Side
    <3>2. tree["left"][m] \in T /\ tree["right"][m] \in T BY <1>5, <3>1
    <3> QED BY <3>1, <3>2
  <2>3. \A a \in D[m] \ {m} : f[a] = g[a] BY <2>1, <2>2
  <2>4. f[m] = g[m]
    <3> DEFINE y == peek(m, k)
    <3>1. Found(D, Leaf, key, k, m, y) BY PeekFound
    <3>2. Sums(k, f, m, y) /\ Sums(k, g, m, y) OBVIOUS
    <3> HIDE DEF y, T
    <3>3. CASE y = Leaf BY <3>2, <3>3 DEF Sums
    <3>4. CASE y # Leaf
      <4>1. y \in D[m] BY <3>1, <3>4 DEF Found
      <4>2. y \in alloc BY <2>1, <4>1
      <4>3. \A c \in {tree.left[y], tree.right[y]} : f[c] = g[c]
        <5> SUFFICES ASSUME NEW c \in {tree.left[y], tree.right[y]} PROVE f[c] = g[c] OBVIOUS
        <5>1. /\ D[y] = {y} \cup D[tree.left[y]] \cup D[tree.right[y]]
              /\ c \in alloc \cup {Leaf}
              /\ y \notin D[tree.left[y]] /\ y \notin D[tree.right[y]]
          BY <1>1, <4>2, ForkOf
        <5>2. CASE c = Leaf BY <1>3, <5>2
        <5>3. CASE c # Leaf
          <6>1. c \in alloc BY <5>1, <5>3
          <6>2. c \in D[c] BY <1>1, <6>1, ForkOf
          <6>3. c \in D[y] /\ c # y BY <5>1, <6>2
          <6>4. D[y] \subseteq D[m] BY <1>1, <4>1, Nested
          <6>5. c # m
            <7> SUFFICES ASSUME c = m PROVE FALSE OBVIOUS
            <7>1. y \in D[c] BY <4>1
            <7>2. D[c] \subseteq D[tree.left[y]] \/ D[c] \subseteq D[tree.right[y]] BY <1>1, <4>2
            <7> QED BY <5>1, <7>1, <7>2
          <6> QED BY <2>3, <6>3, <6>4, <6>5
        <5> QED BY <5>2, <5>3
      <4>4. f[tree.left[y]] = g[tree.left[y]] /\ f[tree.right[y]] = g[tree.right[y]] BY <4>3
      <4> QED BY <3>2, <3>4, <4>4 DEF Sums
    <3> QED BY <3>3, <3>4
  <2> QED BY <1>3, <2>3, <2>4
<1> HIDE DEF T
<1>6. alloc \subseteq T BY <1>1, <1>4, <1>5, TreeInduct
<1>7. tree.root \in T BY <1>1, <1>4, <1>6, ForkOf
<1> QED BY <1>7 DEF T

LEMMA GoodCounts ==
    ASSUME NEW S, Good(S)
    PROVE  CountFindsAll
<1> SUFFICES ASSUME at = "idle", NEW k \in Key PROVE count(k) = Held[k] BY DEF CountFindsAll
<1>1. alloc = S BY GoodInTree
<1>2. PICK D : Core(tree, color, key, alloc, D) BY <1>1, GoodNodes
<1>3. Held = HeldIn(S, key) /\ IsFiniteSet(alloc) BY <1>1, GoodHeld
<1>4. Held[k] = CountOf(alloc, key, k) BY <1>1, <1>3 DEF HeldIn
<1>5. Structure(tree, alloc, D) BY <1>2 DEF Core
<1>6. tree.root \in alloc \cup {Leaf} /\ D[tree.root] = alloc BY <1>5, ForkOf
<1> DEFINE Is(f) == f = [m \in alloc \cup {Leaf} |->
                          LET n == peek(m, k)
                          IN IF n = Leaf THEN 0 ELSE 1 + f[tree.left[n]] + f[tree.right[n]]]
           t == [m \in alloc \cup {Leaf} |-> CountOf(D[m], key, k)]
           F == CHOOSE f : Is(f)
<1>7. t[tree.root] = CountOf(alloc, key, k) BY <1>6
<1>8. \A x \in alloc \cup {Leaf} : Sums(k, t, x, peek(x, k)) BY <1>2, <1>3, CountSums
<1>9. t = [m \in alloc \cup {Leaf} |-> t[m]] OBVIOUS
<1> HIDE DEF t
<1>10. \A m \in alloc \cup {Leaf} :
         t[m] = IF peek(m, k) = Leaf THEN 0 ELSE 1 + t[tree.left[peek(m, k)]] + t[tree.right[peek(m, k)]]
  BY <1>8, Zenon DEF Sums
<1>11. Is(t) BY <1>9, <1>10, Zenon
<1>12. Is(F) BY <1>11, Zenon
<1>13. count(k) = F[tree.root] BY DEF count
<1>14. \A m \in alloc \cup {Leaf} :
         F[m] = IF peek(m, k) = Leaf THEN 0 ELSE 1 + F[tree.left[peek(m, k)]] + F[tree.right[peek(m, k)]]
  BY <1>12, Zenon
<1> HIDE DEF F
<1>15. \A x \in alloc \cup {Leaf} : Sums(k, F, x, peek(x, k)) BY <1>14, Zenon DEF Sums
<1>16. F[tree.root] = t[tree.root] BY <1>2, <1>8, <1>15, SumsUnique
<1> QED BY <1>4, <1>7, <1>13, <1>16

(* For any keys and any high ends, whatever rotations and replacements came *)
(* between: once a call has ended, count counts every element of its key,   *)
(* and intersect and within of the interval tree find the intervals that    *)
(* meet one and those that lie within one, all of them and no other; the    *)
(* greatest high ends by which they prune never fall short.                 *)
THEOREM RangeQueriesComplete == StepSpec => []RangeQueriesFindAll
<1>1. StepInit => StandingMaxed BY MaxedInit
<1>2. StandingMaxed /\ [StepNext]_<<itree, bst, kind>> => StandingMaxed' BY MaxedStep
<1>3. StandingMaxed => RangeQueriesFindAll
  <2> SUFFICES ASSUME StandingMaxed PROVE RangeQueriesFindAll OBVIOUS
  <2>1. PICK S : Good(S) /\ (kind = "intervaltree" => Maxed(S)) BY DEF StandingMaxed
  <2>2. CountFindsAll BY <2>1, GoodCounts
  <2>3. kind = "intervaltree" => QueriesFindAll BY <2>1, MaxedFinds
  <2> QED BY <2>2, <2>3 DEF RangeQueriesFindAll
<1> QED BY <1>1, <1>2, <1>3, PTL DEF StepSpec

-----------------------------------------------------------------------------
(***************************************************************************)
(* The tree without balancing.  l is links.                                 *)
(***************************************************************************)
Stem == <<"head", Null>>
Ways(S) == {Stem} \cup Side \X S
Kids(l) == [s \in Side |-> [n \in Elm |-> l[<<s, n>>]]]

Rooted(l, S, D) ==
    /\ S \subseteq Elm /\ l \in [Ways(Elm) -> Elm \cup {Null}]
    /\ Tree(Kids(l), S, D, Null, l[Stem])

Plain(l, k, S, D) ==
    /\ Rooted(l, S, D) /\ k \in [Elm -> Key] /\ Sorted(Kids(l), S, D, k)

LEMMA BstNames ==
    /\ BST!HeadLink = Stem /\ BST!Link = Ways(Elm) /\ BST!Live = Ways(elms)
    /\ \A n : BST!Left(n) = links[<<"left", n>>] /\ BST!Right(n) = links[<<"right", n>>]
BY DEF BST!HeadLink, BST!Link, BST!Live, BST!Left, BST!Right, Stem, Ways, Side

(* The pointers of the tree.                                                *)
LEMMA WayIn ==
    ASSUME NEW S
    PROVE  /\ Stem \in Ways(S) /\ \A s \in Side, n \in S : <<s, n>> \in Ways(S) /\ <<s, n>> # Stem
           /\ \A a \in Ways(S) : a = Stem \/ \E s \in Side, n \in S : a = <<s, n>>
           /\ \A s, x, n, m : <<s, n>> = <<x, m>> => s = x /\ n = m
BY DEF Ways, Stem, Side

RootedAt(l, S, D) ==
    /\ Shaped(Kids(l), S, D, Null) /\ Null \notin S /\ S \subseteq Elm
    /\ \A n \in S, s \in Side : Kids(l)[s][n] = l[<<s, n>>] /\ l[<<s, n>>] \in S \cup {Null}
    /\ l[Stem] \in S \cup {Null} /\ D[l[Stem]] = S /\ Null \notin Elm

LEMMA RootedOf ==
    ASSUME NEW l, NEW S, NEW D, Rooted(l, S, D)
    PROVE  RootedAt(l, S, D) /\ \A a \in Ways(S) : l[a] \in S \cup {Null}
<1>1. /\ S \subseteq Elm /\ l \in [Ways(Elm) -> Elm \cup {Null}]
      /\ Shaped(Kids(l), S, D, Null) /\ l[Stem] \in S \cup {Null} /\ D[l[Stem]] = S
  BY DEF Rooted, Tree
<1>2. Null \notin S BY <1>1 DEF Shaped
<1>3. ASSUME NEW n \in S, NEW s \in Side PROVE Kids(l)[s][n] = l[<<s, n>>] /\ l[<<s, n>>] \in S \cup {Null}
  <2>1. Kids(l)[s][n] = l[<<s, n>>] BY <1>1 DEF Kids
  <2>2. Kids(l)[s][n] \in S \cup {Null}
    <3>1. Fork(Kids(l), S, D, Null, n, s) BY <1>1 DEF Shaped
    <3> QED BY <3>1 DEF Fork
  <2> QED BY <2>1, <2>2
<1>4. RootedAt(l, S, D) BY <1>1, <1>2, <1>3, ElmAssumption DEF RootedAt
<1>5. \A a \in Ways(S) : l[a] \in S \cup {Null} BY <1>1, <1>3, WayIn
<1> QED BY <1>4, <1>5

(* An element hangs on one pointer.                                         *)
LEMMA OneLink ==
    ASSUME NEW l, NEW S, NEW D, Rooted(l, S, D), NEW a \in Ways(S), NEW b \in Ways(S),
           l[a] = l[b], l[a] # Null
    PROVE  a = b
<1>1. RootedAt(l, S, D) BY RootedOf
<1>2. Tree(Kids(l), S, D, Null, l[Stem]) BY DEF Rooted
<1>3. ASSUME NEW n \in S, NEW s \in Side PROVE l[<<s, n>>] # l[Stem]
  <2>1. n \notin D[Kids(l)[s][n]] BY <1>1, Under1 DEF RootedAt
  <2> QED BY <1>1, <2>1 DEF RootedAt
<1>4. CASE a = Stem
  <2>1. CASE b = Stem BY <1>4, <2>1
  <2>2. CASE b # Stem
    <3>1. PICK s \in Side, n \in S : b = <<s, n>> BY <2>2, WayIn
    <3> QED BY <1>3, <1>4, <3>1
  <2> QED BY <2>1, <2>2
<1>5. CASE a # Stem
  <2>1. PICK s \in Side, n \in S : a = <<s, n>> BY <1>5, WayIn
  <2>2. CASE b = Stem BY <1>3, <2>1, <2>2
  <2>3. CASE b # Stem
    <3>1. PICK x \in Side, m \in S : b = <<x, m>> BY <2>3, WayIn
    <3>2. Kids(l)[s][n] = Kids(l)[x][m] /\ Kids(l)[s][n] # Null BY <1>1, <2>1, <3>1 DEF RootedAt
    <3>3. n = m /\ s = x BY <1>2, <3>2, OneParent
    <3> QED BY <2>1, <3>1, <3>3
  <2> QED BY <2>2, <2>3
<1> QED BY <1>4, <1>5

(***************************************************************************)
(* Ways down by pointers: from a to the pointer on the side g[l[a]] of the  *)
(* element there.                                                           *)
(***************************************************************************)
Track(l, X, stop, g, f) == f = [a \in X |-> IF a \in stop THEN a ELSE f[<<g[l[a]], l[a]>>]]

LEMMA TrackExists ==
    ASSUME NEW l, NEW S, NEW D, Rooted(l, S, D), NEW X \in SUBSET Ways(S), NEW stop, NEW g,
           \A a \in X \ stop : l[a] # Null /\ g[l[a]] \in Side /\ <<g[l[a]], l[a]>> \in X
    PROVE  \E f : Track(l, X, stop, g, f)
<1> DEFINE nx == [a \in X |-> <<g[l[a]], l[a]>>]
           rank == [a \in X |-> Cardinality(D[l[a]])]
           N == Cardinality(S)
<1>1. RootedAt(l, S, D) /\ \A a \in Ways(S) : l[a] \in S \cup {Null} BY RootedOf
<1>2. Shaped(Kids(l), S, D, Null) /\ IsFiniteSet(S) /\ D \in [S \cup {Null} -> SUBSET S]
  BY <1>1 DEF RootedAt, Shaped
<1>3. \A m \in S \cup {Null} : IsFiniteSet(D[m]) /\ Cardinality(D[m]) \in Nat /\ Cardinality(D[m]) <= N
  <2> TAKE m \in S \cup {Null}
  <2>1. D[m] \in SUBSET S BY <1>2
  <2>2. IsFiniteSet(D[m]) /\ Cardinality(D[m]) <= N BY <1>2, <2>1, FS_Subset
  <2> QED BY <2>2, FS_CardinalityType
<1>4. N \in Nat /\ rank \in [X -> Nat] /\ \A a \in X : rank[a] <= N BY <1>1, <1>2, <1>3, FS_CardinalityType
<1>5. ASSUME NEW a \in X, a \notin stop PROVE nx[a] \in X /\ rank[nx[a]] < rank[a]
  <2> DEFINE n == l[a]
             b == <<g[n], n>>
             m == l[b]
  <2>1. n \in S /\ g[n] \in Side /\ b \in X BY <1>1, <1>5
  <2>2. m = Kids(l)[g[n]][n] BY <1>1, <2>1 DEF RootedAt
  <2>3. nx[a] = b OBVIOUS
  <2>4. rank[b] = Cardinality(D[m]) /\ rank[a] = Cardinality(D[n]) BY <2>1
  <2> HIDE DEF b, n
  <2>5. D[m] \subseteq D[n] /\ n \in D[n] /\ n \notin D[m] /\ m \in S \cup {Null} BY <1>2, <2>1, <2>2, Under1
  <2> HIDE DEF m
  <2>6. IsFiniteSet(D[n]) /\ D[m] \in SUBSET D[n] /\ D[m] # D[n] BY <1>3, <2>1, <2>5
  <2>7. Cardinality(D[m]) <= Cardinality(D[n]) /\ Cardinality(D[m]) # Cardinality(D[n]) BY <2>6, FS_Subset
  <2>8. Cardinality(D[m]) \in Nat /\ Cardinality(D[n]) \in Nat BY <1>3, <2>1, <2>5
  <2>9. Cardinality(D[m]) < Cardinality(D[n]) BY <2>7, <2>8
  <2> QED BY <2>1, <2>3, <2>4, <2>9
<1> HIDE DEF N, rank
<1>6. \A a \in X : a \notin stop => nx[a] \in X /\ rank[nx[a]] < rank[a] BY <1>5
<1> HIDE DEF nx
<1>7. Ranked(X, stop, nx, rank, N) BY <1>4, <1>6 DEF Ranked
<1>8. PICK f : WayOf(X, stop, nx, f) BY <1>7, WayDown
<1>9. f = [a \in X |-> IF a \in stop THEN a ELSE f[nx[a]]] BY <1>8 DEF WayOf
<1>10. Track(l, X, stop, g, f) BY <1>9 DEF Track, nx
<1> QED BY <1>10

(* bl_bstree_insert's way down.                                             *)
PlainSide(k, n) == IF k <= data[n] THEN "left" ELSE "right"
PlainSides(k) == [n \in elms |-> PlainSide(k, n)]

PlainHanging(D, k, p) ==
    /\ p \in elms /\ PlainSide(k, p) \in Side /\ links[<<PlainSide(k, p), p>>] = Null
    /\ BST!InsertLink(k) = <<PlainSide(k, p), p>>
    /\ \A a \in elms, s \in Side : Before(Kids(links), D, p, PlainSide(k, p), a, s) => s = PlainSide(k, a)

LEMMA PlainInsertPlace ==
    ASSUME NEW D, Plain(links, data, elms, D), NEW k
    PROVE  /\ links[Stem] = Null => BST!InsertLink(k) = Stem
           /\ links[Stem] # Null => \E p : PlainHanging(D, k, p)
<1> DEFINE C == Kids(links)
           g == PlainSides(k)
           X == Ways(elms)
           stop == {a \in X : links[a] = Null}
<1>1. Rooted(links, elms, D) BY DEF Plain
<1>2. RootedAt(links, elms, D) /\ \A a \in X : links[a] \in elms \cup {Null} BY <1>1, RootedOf
<1>3. \A n \in elms : g[n] = PlainSide(k, n) /\ g[n] \in Side BY DEF PlainSides, PlainSide, Side
<1>4. \A a \in X \ stop : links[a] \in elms /\ g[links[a]] \in Side /\ <<g[links[a]], links[a]>> \in X
  BY <1>2, <1>3, WayIn
<1>5. \A a \in X \ stop : links[a] # Null /\ g[links[a]] \in Side /\ <<g[links[a]], links[a]>> \in X
  BY <1>4
<1>6. \A a \in X : a \in stop <=> links[a] = Null OBVIOUS
<1>7. g \in [elms -> Side] BY <1>3 DEF PlainSides
<1> HIDE DEF g, stop
<1>8. PICK h : Track(links, X, stop, g, h) BY <1>1, <1>5, TrackExists
<1> DEFINE Is(f) == f = [a \in BST!Live |->
                           IF links[a] = Null THEN a
                           ELSE f[<<IF k <= data[links[a]] THEN "left" ELSE "right", links[a]>>]]
<1>9. \A a \in X : links[a] # Null => g[links[a]] = (IF k <= data[links[a]] THEN "left" ELSE "right")
  BY <1>2, <1>3 DEF PlainSide
<1>10. Is(h) BY <1>6, <1>8, <1>9, BstNames DEF Track
<1> DEFINE F == CHOOSE f : Is(f)
<1>11. Is(F) BY <1>10
<1>12. BST!InsertLink(k) = F[Stem] BY BstNames DEF BST!InsertLink
<1> HIDE DEF F
<1>13. \A a \in X : F[a] = IF links[a] = Null THEN a ELSE F[<<g[links[a]], links[a]>>]
  <2>1. BST!Live = X BY BstNames
  <2>2. \A a \in X : F[a] = IF links[a] = Null THEN a
                           ELSE F[<<IF k <= data[links[a]] THEN "left" ELSE "right", links[a]>>]
    BY <1>11, <2>1
  <2> QED BY <1>9, <2>2
<1>14. Stem \in X BY WayIn
<1> DEFINE f == [x \in elms |-> F[<<g[x], x>>][2]]
<1>15. ASSUME NEW x \in elms
       PROVE  /\ <<g[x], x>> \in X /\ links[<<g[x], x>>] = C[g[x]][x]
              /\ C[g[x]][x] = Null => F[<<g[x], x>>] = <<g[x], x>>
              /\ C[g[x]][x] # Null => /\ F[<<g[x], x>>] = F[<<g[C[g[x]][x]], C[g[x]][x]>>]
                                      /\ C[g[x]][x] \in elms
  <2>1. <<g[x], x>> \in X /\ links[<<g[x], x>>] = C[g[x]][x] /\ C[g[x]][x] \in elms \cup {Null}
    BY <1>2, <1>3, WayIn DEF RootedAt
  <2> HIDE DEF C
  <2> QED BY <1>13, <2>1
<1>16. \A x \in elms : f[x] = IF C[g[x]][x] = Null THEN x ELSE f[C[g[x]][x]]
  <2> TAKE x \in elms
  <2> DEFINE y == C[g[x]][x]
  <2>1. f[x] = F[<<g[x], x>>][2] OBVIOUS
  <2>2. y = Null => F[<<g[x], x>>][2] = x
    <3>1. y = Null => F[<<g[x], x>>] = <<g[x], x>> BY <1>15
    <3>2. <<g[x], x>>[2] = x OBVIOUS
    <3> QED BY <3>1, <3>2
  <2>3. y # Null => y \in elms /\ F[<<g[x], x>>] = F[<<g[y], y>>] BY <1>15
  <2>4. y # Null => f[x] = f[y] BY <2>3
  <2> QED BY <2>1, <2>2, <2>4
<1>17. Shaped(C, elms, D, Null) BY <1>2 DEF RootedAt
<1> HIDE DEF C, f
<1>18. \A x \in elms : HangAt(C, D, Null, g, x, f[x]) BY <1>7, <1>16, <1>17, HangPlace
<1> DEFINE T == {x \in elms \cup {Null} : x # Null => F[<<g[x], x>>] = <<g[f[x]], f[x]>>}
<1>19. elms \subseteq T
  <2>1. Null \in T OBVIOUS
  <2>2. ASSUME NEW x \in elms, \A s \in Side : C[s][x] \in T PROVE x \in T
    <3> DEFINE y == C[g[x]][x]
    <3>1. y \in T BY <1>3, <2>2
    <3>2. CASE y = Null BY <1>15, <1>16, <3>2
    <3>3. CASE y # Null
      <4>1. F[<<g[x], x>>] = F[<<g[y], y>>] /\ f[x] = f[y] BY <1>15, <1>16, <3>3
      <4> QED BY <3>1, <3>3, <4>1
    <3> QED BY <3>2, <3>3
  <2> HIDE DEF T
  <2> QED BY <1>17, <2>1, <2>2, TreeInduct
<1>20. links[Stem] = Null => BST!InsertLink(k) = Stem BY <1>12, <1>13, <1>14
<1>21. ASSUME links[Stem] # Null PROVE \E p : PlainHanging(D, k, p)
  <2> DEFINE x == links[Stem]
             p == f[x]
  <2>1. x \in elms /\ D[x] = elms BY <1>2, <1>21 DEF RootedAt
  <2>2. F[Stem] = F[<<g[x], x>>] BY <1>13, <1>14, <1>21
  <2>3. F[<<g[x], x>>] = <<g[p], p>> BY <1>2, <1>19, <1>21, <2>1 DEF RootedAt
  <2>4. HangAt(C, D, Null, g, x, p) BY <1>18, <2>1
  <2> HIDE DEF p
  <2> HIDE DEF x
  <2>5. /\ p \in elms /\ C[g[p]][p] = Null
        /\ \A a \in elms, s \in Side : Before(C, D, p, g[p], a, s) => s = g[a]
    BY <2>1, <2>4 DEF HangAt
  <2>6. C[g[p]][p] = links[<<g[p], p>>] BY <1>15, <2>5
  <2>7. PlainHanging(D, k, p) BY <1>3, <1>12, <2>2, <2>3, <2>5, <2>6 DEF PlainHanging, C
  <2> QED BY <2>7
<1> QED BY <1>20, <1>21

(* bl_bstree_remove's way down: the pointer to an element with the key k,   *)
(* or a pointer to none when there is none.                                 *)
FindSides(k) == [n \in elms |-> IF k < data[n] THEN "left" ELSE "right"]
PlainFound(k, a) ==
    /\ a \in Ways(elms)
    /\ links[a] = Null => \A m \in elms : data[m] # k
    /\ links[a] # Null => links[a] \in elms /\ data[links[a]] = k

LEMMA PlainFindPlace ==
    ASSUME NEW D, Plain(links, data, elms, D), NEW k \in Key
    PROVE  PlainFound(k, BST!FindLink(k))
<1> DEFINE C == Kids(links)
           g == FindSides(k)
           X == Ways(elms)
           stop == {a \in X : links[a] = Null \/ data[links[a]] = k}
<1>1. Rooted(links, elms, D) /\ data \in [Elm -> Key] /\ Sorted(C, elms, D, data) BY DEF Plain
<1>2. RootedAt(links, elms, D) /\ \A a \in X : links[a] \in elms \cup {Null} BY <1>1, RootedOf
<1>3. \A n \in elms : g[n] = (IF k < data[n] THEN "left" ELSE "right") /\ g[n] \in Side BY DEF FindSides, Side
<1>4. \A a \in X \ stop : links[a] \in elms /\ g[links[a]] \in Side /\ <<g[links[a]], links[a]>> \in X
  BY <1>2, <1>3, WayIn
<1>5. \A a \in X \ stop : links[a] # Null /\ g[links[a]] \in Side /\ <<g[links[a]], links[a]>> \in X
  BY <1>4
<1>6. \A a \in X : a \in stop <=> (links[a] = Null \/ (links[a] # Null /\ data[links[a]] = k)) OBVIOUS
<1>7. g \in [elms -> Side] BY <1>3 DEF FindSides
<1> HIDE DEF g, stop
<1>8. PICK h : Track(links, X, stop, g, h) BY <1>1, <1>5, TrackExists
<1> DEFINE Is(f) == f = [a \in BST!Live |->
                           IF links[a] = Null \/ (links[a] # Null /\ data[links[a]] = k) THEN a
                           ELSE f[<<IF k < data[links[a]] THEN "left" ELSE "right", links[a]>>]]
<1>9. \A a \in X : links[a] # Null => g[links[a]] = (IF k < data[links[a]] THEN "left" ELSE "right")
  BY <1>2, <1>3
<1>10. Is(h) BY <1>6, <1>8, <1>9, BstNames DEF Track
<1> DEFINE F == CHOOSE f : Is(f)
<1>11. Is(F) BY <1>10
<1>12. BST!FindLink(k) = F[Stem] BY BstNames DEF BST!FindLink
<1> HIDE DEF F
<1>13. \A a \in X : F[a] = IF links[a] = Null \/ data[links[a]] = k THEN a ELSE F[<<g[links[a]], links[a]>>]
  <2>1. BST!Live = X BY BstNames
  <2>2. \A a \in X : F[a] = IF links[a] = Null \/ (links[a] # Null /\ data[links[a]] = k) THEN a
                           ELSE F[<<IF k < data[links[a]] THEN "left" ELSE "right", links[a]>>]
    BY <1>11, <2>1
  <2> QED BY <1>9, <2>2
<1>14. Stem \in X BY WayIn
<1>15. Shaped(C, elms, D, Null) /\ Null \notin elms BY <1>2 DEF RootedAt
<1> DEFINE f == [x \in elms \cup {Null} |-> IF x = Null THEN Null
                                            ELSE IF data[x] = k THEN x ELSE links[F[<<g[x], x>>]]]
<1>16. ASSUME NEW x \in elms
       PROVE  /\ <<g[x], x>> \in X /\ links[<<g[x], x>>] = C[g[x]][x] /\ C[g[x]][x] \in elms \cup {Null}
  BY <1>2, <1>3, WayIn DEF RootedAt
<1> HIDE DEF C
<1>17. \A a \in X : links[F[a]] = f[links[a]]
  <2> TAKE a \in X
  <2> DEFINE x == links[a]
  <2>1. x \in elms \cup {Null} BY <1>2
  <2>2. CASE x = Null BY <1>13, <2>1, <2>2
  <2>3. CASE x # Null /\ data[x] = k BY <1>13, <2>1, <2>3
  <2>4. CASE x # Null /\ data[x] # k
    <3>1. F[a] = F[<<g[x], x>>] BY <1>13, <2>4
    <3>2. f[x] = links[F[<<g[x], x>>]] BY <2>1, <2>4
    <3> QED BY <3>1, <3>2
  <2> QED BY <2>2, <2>3, <2>4
<1>18. f[Null] = Null OBVIOUS
<1>19. \A x \in elms : f[x] = IF data[x] = k THEN x ELSE f[C[IF k < data[x] THEN "left" ELSE "right"][x]]
  <2> TAKE x \in elms
  <2>1. data[x] = k => f[x] = x BY <1>15
  <2>2. data[x] # k => f[x] = links[F[<<g[x], x>>]] BY <1>15
  <2> HIDE DEF f
  <2>3. links[F[<<g[x], x>>]] = f[C[g[x]][x]] BY <1>16, <1>17
  <2>4. g[x] = (IF k < data[x] THEN "left" ELSE "right") BY <1>3
  <2> QED BY <2>1, <2>2, <2>3, <2>4
<1> HIDE DEF f
<1>20. k \in Int /\ \A a \in elms : data[a] \in Int BY <1>1, <1>2, NodeAssumption DEF RootedAt
<1>21. \A x \in elms \cup {Null} : Found(D, Null, data, k, x, f[x])
  <2>1. Sorted(C, elms, D, data) BY <1>1 DEF C
  <2> QED BY <1>15, <1>18, <1>19, <1>20, <2>1, FindPlace
<1> DEFINE T == {x \in elms \cup {Null} : \A a \in X : links[a] = x => F[a] \in X}
<1>22. elms \subseteq T /\ Null \in T
  <2>1. Null \in T BY <1>13
  <2>2. ASSUME NEW x \in elms, \A s \in Side : C[s][x] \in T PROVE x \in T
    <3> SUFFICES ASSUME NEW a \in X, links[a] = x PROVE F[a] \in X OBVIOUS
    <3>1. CASE data[x] = k BY <1>13, <3>1
    <3>2. CASE data[x] # k
      <4>1. F[a] = F[<<g[x], x>>] BY <1>13, <1>15, <3>2
      <4>2. C[g[x]][x] \in T BY <1>3, <2>2
      <4>3. F[<<g[x], x>>] \in X BY <1>16, <4>2
      <4> QED BY <4>1, <4>3
    <3> QED BY <3>1, <3>2
  <2> HIDE DEF T
  <2> QED BY <1>15, <2>1, <2>2, TreeInduct
<1>23. F[Stem] \in X BY <1>2, <1>14, <1>22
<1> DEFINE x == links[Stem]
           y == links[F[Stem]]
<1>24. x \in elms \cup {Null} /\ D[x] = elms BY <1>2 DEF RootedAt
<1>25. y = f[x] BY <1>14, <1>17
<1>26. Found(D, Null, data, k, x, y) BY <1>21, <1>24, <1>25
<1> HIDE DEF x, y
<1>27. /\ y = Null => \A m \in elms : data[m] # k
       /\ y # Null => y \in elms /\ data[y] = k
  BY <1>24, <1>26 DEF Found
<1> QED BY <1>12, <1>23, <1>27 DEF PlainFound, y

(* pop_predecessor and pop_successor go on to the end of a side.            *)
Ended(D, s, a, e) ==
    e \in Ways(elms) /\ links[e] # Null /\ AtBottom(Kids(links), D, Null, data, s, links[a], links[e])

LEMMA PlainEndPlace ==
    ASSUME NEW D, Plain(links, data, elms, D), NEW s \in Side, NEW a0 \in Ways(elms), links[a0] # Null
    PROVE  Ended(D, s, a0, BST!EndLink(a0, s))
<1> DEFINE C == Kids(links)
           g == [n \in elms |-> s]
           X == {x \in Ways(elms) : links[x] # Null}
           stop == {a \in X : links[<<s, links[a]>>] = Null}
<1>1. Rooted(links, elms, D) /\ data \in [Elm -> Key] /\ Sorted(C, elms, D, data) BY DEF Plain
<1>2. RootedAt(links, elms, D) /\ \A a \in X : links[a] \in elms /\ a \in Ways(elms) BY <1>1, RootedOf
<1>3. \A n \in elms : g[n] = s OBVIOUS
<1>4. \A n \in elms : <<s, n>> \in Ways(elms) /\ links[<<s, n>>] = C[s][n] /\ C[s][n] \in elms \cup {Null}
  BY <1>2, WayIn DEF RootedAt
<1>5. \A a \in X \ stop : links[a] # Null /\ g[links[a]] \in Side /\ <<g[links[a]], links[a]>> \in X
  BY <1>2, <1>3, <1>4
<1>6. \A a \in X : a \in stop <=> links[<<s, links[a]>>] = Null OBVIOUS
<1>7. X \in SUBSET Ways(elms) /\ a0 \in X OBVIOUS
<1>a. \A a \in Ways(elms) : links[a] # Null => a \in X OBVIOUS
<1>b. X = {x \in BST!Live : links[x] # Null} BY BstNames
<1> HIDE DEF stop, X, g
<1>8. PICK h : Track(links, X, stop, g, h) BY <1>1, <1>5, <1>7, TrackExists
<1> DEFINE Is(f) == f = [m \in {x \in BST!Live : links[x] # Null} |->
                           LET next == <<s, links[m]>> IN IF links[next] = Null THEN m ELSE f[next]]
<1>9. \A a \in X : g[links[a]] = s BY <1>2, <1>3
<1>10. Is(h)
  <2>1. h = [m \in X |-> IF m \in stop THEN m ELSE h[<<g[links[m]], links[m]>>]] BY <1>8 DEF Track
  <2>2. h = [m \in X |-> LET next == <<s, links[m]>> IN IF links[next] = Null THEN m ELSE h[next]]
    BY <1>6, <1>9, <2>1
  <2> QED BY <1>b, <2>2
<1> DEFINE F == CHOOSE f : Is(f)
<1>11. Is(F) BY <1>10
<1>12. BST!EndLink(a0, s) = F[a0] BY DEF BST!EndLink
<1> HIDE DEF F
<1>13. \A a \in X : F[a] = IF links[<<s, links[a]>>] = Null THEN a ELSE F[<<s, links[a]>>]
  <2>1. F = [m \in X |-> LET next == <<s, links[m]>> IN IF links[next] = Null THEN m ELSE F[next]]
    BY <1>b, <1>11
  <2> QED BY <2>1
<1>14. Shaped(C, elms, D, Null) /\ Null \notin elms BY <1>2 DEF RootedAt
<1> HIDE DEF C
<1> DEFINE f == [x \in elms |-> IF C[s][x] = Null THEN x ELSE links[F[<<s, x>>]]]
<1>15. \A a \in X : links[F[a]] = f[links[a]]
  <2> TAKE a \in X
  <2> DEFINE x == links[a]
  <2>1. x \in elms /\ links[<<s, x>>] = C[s][x] BY <1>2, <1>4
  <2>2. F[a] = IF C[s][x] = Null THEN a ELSE F[<<s, x>>] BY <1>13, <2>1
  <2> HIDE DEF x
  <2>3. f[x] = IF C[s][x] = Null THEN x ELSE links[F[<<s, x>>]] BY <2>1
  <2> HIDE DEF f
  <2> QED BY <2>2, <2>3 DEF x
<1>16. \A x \in elms : f[x] = IF C[s][x] = Null THEN x ELSE f[C[s][x]]
  <2> TAKE x \in elms
  <2>1. f[x] = IF C[s][x] = Null THEN x ELSE links[F[<<s, x>>]] OBVIOUS
  <2> HIDE DEF f
  <2>2. C[s][x] # Null => <<s, x>> \in X /\ links[<<s, x>>] = C[s][x] BY <1>4, <1>a
  <2> QED BY <1>15, <2>1, <2>2
<1> HIDE DEF f
<1>17. \A a \in elms : data[a] \in Int BY <1>1, <1>2, NodeAssumption DEF RootedAt
<1>18. \A x \in elms : AtBottom(C, D, Null, data, s, x, f[x])
  <2>1. Sorted(C, elms, D, data) BY <1>1 DEF C
  <2> QED BY <1>14, <1>16, <1>17, <2>1, Bottom
<1> DEFINE T == {x \in elms \cup {Null} : \A a \in X : links[a] = x => F[a] \in X}
<1>19. elms \subseteq T
  <2>1. Null \in T BY <1>2, <1>14
  <2>2. ASSUME NEW x \in elms, \A y \in Side : C[y][x] \in T PROVE x \in T
    <3> SUFFICES ASSUME NEW a \in X, links[a] = x PROVE F[a] \in X OBVIOUS
    <3>1. F[a] = IF C[s][x] = Null THEN a ELSE F[<<s, x>>] BY <1>4, <1>13
    <3>2. CASE C[s][x] = Null BY <3>1, <3>2
    <3>3. CASE C[s][x] # Null
      <4>1. C[s][x] \in T BY <2>2
      <4>2. <<s, x>> \in X /\ links[<<s, x>>] = C[s][x] BY <1>4, <1>a, <3>3
      <4>3. F[<<s, x>>] \in X BY <4>1, <4>2
      <4> QED BY <3>1, <3>3, <4>3
    <3> QED BY <3>2, <3>3
  <2> HIDE DEF T
  <2> QED BY <1>14, <2>1, <2>2, TreeInduct
<1>20. F[a0] \in X BY <1>2, <1>7, <1>19
<1> DEFINE e == F[a0]
<1>21. links[e] = f[links[a0]] /\ links[a0] \in elms BY <1>2, <1>7, <1>15
<1>22. AtBottom(C, D, Null, data, s, links[a0], links[e]) BY <1>18, <1>21
<1>23. e \in Ways(elms) /\ links[e] # Null
  <2>1. e \in X BY <1>20
  <2> HIDE DEF e
  <2> QED BY <2>1 DEF X
<1> QED BY <1>12, <1>22, <1>23 DEF Ended, C

-----------------------------------------------------------------------------
LEMMA PlainInTree ==
    ASSUME NEW D, Rooted(links, elms, D)
    PROVE  BST!InTree = elms
<1> DEFINE C == Kids(links)
           X == Ways(elms)
<1>1. RootedAt(links, elms, D) /\ \A a \in X : links[a] \in elms \cup {Null} BY RootedOf
<1>2. Shaped(C, elms, D, Null) /\ Null \notin elms /\ D[Null] = {} BY <1>1 DEF RootedAt, Shaped
<1>3. "left" \in Side /\ "right" \in Side /\ Other("left") = "right" BY DEF Side, Other
<1>4. \A n \in elms : /\ <<"left", n>> \in X /\ <<"right", n>> \in X
                      /\ links[<<"left", n>>] = C["left"][n] /\ links[<<"right", n>>] = C["right"][n]
                      /\ C["left"][n] \in elms \cup {Null} /\ C["right"][n] \in elms \cup {Null}
  BY <1>1, <1>3, WayIn DEF RootedAt
<1>5. \A n \in elms : D[n] = {n} \cup D[C["left"][n]] \cup D[C["right"][n]]
  <2> TAKE n \in elms
  <2>1. Fork(C, elms, D, Null, n, "left") BY <1>2, <1>3 DEF Shaped
  <2> HIDE DEF C
  <2> QED BY <1>3, <2>1 DEF Fork
<1> HIDE DEF C
<1> DEFINE Is(h) == h = [a \in BST!Live |-> IF links[a] = Null THEN {}
                          ELSE {links[a]} \cup h[<<"left", links[a]>>] \cup h[<<"right", links[a]>>]]
           t == [a \in X |-> D[links[a]]]
<1>6. \A a \in X : t[a] = IF links[a] = Null THEN {}
                          ELSE {links[a]} \cup t[<<"left", links[a]>>] \cup t[<<"right", links[a]>>]
  <2> TAKE a \in X
  <2>1. CASE links[a] = Null BY <1>2, <2>1
  <2>2. CASE links[a] # Null
    <3> DEFINE n == links[a]
    <3>1. n \in elms /\ t[a] = D[n] BY <1>1, <2>2
    <3>2. t[<<"left", n>>] = D[C["left"][n]] /\ t[<<"right", n>>] = D[C["right"][n]] BY <1>4, <3>1
    <3> HIDE DEF t
    <3> QED BY <1>5, <2>2, <3>1, <3>2
  <2> QED BY <2>1, <2>2
<1>7. t = [a \in X |-> t[a]] OBVIOUS
<1> HIDE DEF t
<1>8. BST!Live = X BY BstNames
<1> HIDE DEF X
<1>9. Is(t) BY <1>6, <1>7, <1>8
<1> DEFINE F == CHOOSE h : Is(h)
<1>10. Is(F) BY <1>9
<1>11. BST!InTree = F[Stem] BY BstNames DEF BST!InTree
<1> HIDE DEF F
<1>12. \A a \in X : F[a] = IF links[a] = Null THEN {}
                           ELSE {links[a]} \cup F[<<"left", links[a]>>] \cup F[<<"right", links[a]>>]
  BY <1>8, <1>10
<1> DEFINE f == [x \in elms \cup {Null} |-> IF x = Null THEN {}
                                            ELSE {x} \cup F[<<"left", x>>] \cup F[<<"right", x>>]]
<1>13. \A a \in X : F[a] = f[links[a]] BY <1>1, <1>12
<1>14. f[Null] = {} OBVIOUS
<1>15. \A x \in elms : f[x] = {x} \cup f[C["left"][x]] \cup f[C["right"][x]]
  <2> TAKE x \in elms
  <2>1. f[x] = {x} \cup F[<<"left", x>>] \cup F[<<"right", x>>] BY <1>2
  <2> HIDE DEF f
  <2>2. F[<<"left", x>>] = f[C["left"][x]] /\ F[<<"right", x>>] = f[C["right"][x]] BY <1>4, <1>13
  <2> QED BY <2>1, <2>2
<1> HIDE DEF f
<1>16. \A x \in elms \cup {Null} : f[x] = D[x] BY <1>2, <1>14, <1>15, UnderUnique
<1>17. Stem \in X BY WayIn DEF X
<1> QED BY <1>1, <1>11, <1>13, <1>16, <1>17 DEF RootedAt

(* bl_bstree_insert                                                         *)
NewElm(l, l2, a, c) ==
    /\ l2 \in [Ways(Elm) -> Elm \cup {Null}]
    /\ \A b \in Ways(Elm) : l2[b] = IF b \in {<<"left", c>>, <<"right", c>>} THEN Null
                                    ELSE IF b = a THEN c ELSE l[b]

LEMMA NewElmOf ==
    ASSUME NEW l \in [Ways(Elm) -> Elm \cup {Null}], NEW a \in Ways(Elm), NEW c \in Elm
    PROVE  NewElm(l, [l EXCEPT ![a] = c, ![<<"left", c>>] = Null, ![<<"right", c>>] = Null], a, c)
<1> DEFINE L == Ways(Elm)
           lc == <<"left", c>>
           rc == <<"right", c>>
           l2 == [l EXCEPT ![a] = c, ![lc] = Null, ![rc] = Null]
<1>1. lc \in L /\ rc \in L BY WayIn DEF Side
<1> HIDE DEF L, lc, rc
<1>2. l2 \in [L -> Elm \cup {Null}] BY DEF L
<1>3. \A b \in L : l2[b] = IF b \in {lc, rc} THEN Null ELSE IF b = a THEN c ELSE l[b] BY <1>1 DEF L
<1> HIDE DEF l2
<1> QED BY <1>2, <1>3 DEF NewElm, l2, L, lc, rc

NewData(S, k, k2, c, x) == k2 \in [Elm -> Key] /\ k2[c] = x /\ \A a \in S : k2[a] = k[a]

LEMMA NewElmKids ==
    ASSUME NEW l, NEW l2, NEW a, NEW c \in Elm, NewElm(l, l2, a, c)
    PROVE  /\ \A s \in Side : Kids(l2)[s][c] = Null
           /\ \A s \in Side, n \in Elm \ {c} : Kids(l2)[s][n] = IF <<s, n>> = a THEN c ELSE l[<<s, n>>]
           /\ l2[Stem] = IF Stem = a THEN c ELSE l[Stem]
<1>1. /\ l2 \in [Ways(Elm) -> Elm \cup {Null}]
      /\ \A b \in Ways(Elm) : l2[b] = IF b \in {<<"left", c>>, <<"right", c>>} THEN Null
                                    ELSE IF b = a THEN c ELSE l[b]
  BY DEF NewElm
<1>2. \A s \in Side, n \in Elm : Kids(l2)[s][n] = l2[<<s, n>>] /\ <<s, n>> \in Ways(Elm) /\ <<s, n>> # Stem
  BY WayIn, Zenon DEF Kids
<1>3. \A s \in Side : <<s, c>> \in {<<"left", c>>, <<"right", c>>} BY DEF Side
<1>4. \A s \in Side, n \in Elm \ {c} : <<s, n>> \notin {<<"left", c>>, <<"right", c>>} OBVIOUS
<1>5. Stem \notin {<<"left", c>>, <<"right", c>>} /\ Stem \in Ways(Elm) BY <1>2, WayIn DEF Side
<1> QED BY <1>1, <1>2, <1>3, <1>4, <1>5

LEMMA PlainFirst ==
    ASSUME NEW D, Plain(links, data, elms, D), links[Stem] = Null, NEW c \in Elm \ elms,
           NEW l2, NewElm(links, l2, Stem, c), NEW k2, NEW x, NewData(elms, data, k2, c, x)
    PROVE  Plain(l2, k2, elms \cup {c}, OneD(c, Null))
<1>1. Rooted(links, elms, D) BY DEF Plain
<1>2. RootedAt(links, elms, D) BY <1>1, RootedOf
<1>3. elms = {} /\ Null \notin Elm BY <1>2 DEF RootedAt, Shaped
<1>4. (\A s \in Side : Kids(l2)[s][c] = Null) /\ l2[Stem] = c BY NewElmKids
<1>5. Tree(Kids(l2), {c}, OneD(c, Null), Null, l2[Stem]) BY <1>3, <1>4, OneTree DEF OneD
<1>6. Sorted(Kids(l2), {c}, OneD(c, Null), k2)
  <2>1. \A s \in Side : OneD(c, Null)[Kids(l2)[s][c]] = {} BY <1>3, <1>4 DEF OneD
  <2> QED BY <2>1 DEF Sorted
<1>7. l2 \in [Ways(Elm) -> Elm \cup {Null}] /\ k2 \in [Elm -> Key] BY DEF NewElm, NewData
<1>8. elms \cup {c} = {c} BY <1>3
<1>9. Plain(l2, k2, {c}, OneD(c, Null)) BY <1>5, <1>6, <1>7 DEF Plain, Rooted
<1> QED BY <1>8, <1>9

LEMMA PlainUnder ==
    ASSUME NEW D, Plain(links, data, elms, D), NEW c \in Elm \ elms, NEW k \in Key,
           NEW p, PlainHanging(D, k, p),
           NEW l2, NewElm(links, l2, <<PlainSide(k, p), p>>, c), NEW k2, NewData(elms, data, k2, c, k)
    PROVE  Plain(l2, k2, elms \cup {c}, HungD(elms, D, Null, c, p))
<1> DEFINE d == PlainSide(k, p)
           C == Kids(links)
           C2 == Kids(l2)
           D2 == HungD(elms, D, Null, c, p)
<1>1. Rooted(links, elms, D) /\ data \in [Elm -> Key] /\ Sorted(C, elms, D, data) BY DEF Plain
<1>2. RootedAt(links, elms, D) BY <1>1, RootedOf
<1>3. /\ p \in elms /\ d \in Side /\ links[<<d, p>>] = Null
      /\ \A a \in elms, s \in Side : Before(C, D, p, d, a, s) => s = PlainSide(k, a)
  BY DEF PlainHanging
<1>4. /\ \A s \in Side : C2[s][c] = Null
      /\ \A s \in Side, n \in Elm \ {c} : C2[s][n] = IF <<s, n>> = <<d, p>> THEN c ELSE links[<<s, n>>]
      /\ l2[Stem] = IF Stem = <<d, p>> THEN c ELSE links[Stem]
  BY NewElmKids
<1>5. /\ \A n \in elms, s \in Side : C[s][n] = links[<<s, n>>]
      /\ elms \subseteq Elm /\ Shaped(C, elms, D, Null) /\ Null \notin Elm /\ Null \notin elms
  BY <1>2 DEF RootedAt
<1>6. l2[Stem] = links[Stem] BY <1>3, <1>4, WayIn
<1>7. Hung(C, C2, elms, Null, c, p, d)
  <2>1. C2[d][p] = c /\ C[d][p] = Null BY <1>3, <1>4, <1>5
  <2>2. \A n \in elms, s \in Side : n # p \/ s # d => C2[s][n] = C[s][n]
    <3> SUFFICES ASSUME NEW n \in elms, NEW s \in Side, n # p \/ s # d PROVE C2[s][n] = C[s][n] OBVIOUS
    <3>1. <<s, n>> # <<d, p>> BY WayIn
    <3>2. n \in Elm \ {c} BY <1>5
    <3> QED BY <1>4, <1>5, <3>1, <3>2
  <2> QED BY <1>4, <1>5, <2>1, <2>2 DEF Hung
<1> HIDE DEF d, C2
<1>8. Tree(C, elms, D, Null, links[Stem]) BY <1>1 DEF Rooted
<1>9. Tree(C2, elms \cup {c}, D2, Null, links[Stem]) BY <1>3, <1>7, <1>8, HungTree
<1>10. k2 \in [Elm -> Key] /\ k2[c] = k /\ \A a \in elms : k2[a] = data[a] BY DEF NewData
<1>11. \A a \in elms, s \in Side : Before(C, D, p, d, a, s) => Precedes(s, k2[c], data[a])
  <2> SUFFICES ASSUME NEW a \in elms, NEW s \in Side, Before(C, D, p, d, a, s)
               PROVE  Precedes(s, k2[c], data[a])
    OBVIOUS
  <2>1. k \in Int /\ data[a] \in Int BY <1>1, <1>5, NodeAssumption
  <2>2. s = (IF k <= data[a] THEN "left" ELSE "right") BY <1>3 DEF PlainSide
  <2> QED BY <1>10, <2>1, <2>2 DEF Precedes
<1>12. Sorted(C2, elms \cup {c}, D2, k2) BY <1>1, <1>3, <1>5, <1>7, <1>10, <1>11, HungSorted
<1>13. l2 \in [Ways(Elm) -> Elm \cup {Null}] BY DEF NewElm
<1> QED BY <1>5, <1>6, <1>9, <1>10, <1>12, <1>13 DEF Plain, Rooted, C2

PlainHolds == held = Cardinality(elms) /\ \E D : Plain(links, data, elms, D)

PlainParts(D) ==
    /\ Plain(links, data, elms, D) /\ Rooted(links, elms, D) /\ RootedAt(links, elms, D)
    /\ links \in [Ways(Elm) -> Elm \cup {Null}] /\ data \in [Elm -> Key] /\ elms \subseteq Elm
    /\ IsFiniteSet(elms) /\ Cardinality(elms) \in Nat /\ held = Cardinality(elms)
    /\ BST!InTree = elms

LEMMA PlainOf ==
    ASSUME PlainHolds
    PROVE  \E D : PlainParts(D)
<1>1. PICK D : Plain(links, data, elms, D) BY DEF PlainHolds
<1>2. Rooted(links, elms, D) /\ data \in [Elm -> Key] BY <1>1 DEF Plain
<1>3. RootedAt(links, elms, D) BY <1>2, RootedOf
<1>4. links \in [Ways(Elm) -> Elm \cup {Null}] /\ elms \subseteq Elm BY <1>2 DEF Rooted
<1>5. IsFiniteSet(elms) BY <1>3 DEF RootedAt, Shaped
<1>6. Cardinality(elms) \in Nat BY <1>5, FS_CardinalityType
<1>7. BST!InTree = elms BY <1>2, PlainInTree
<1>8. held = Cardinality(elms) BY DEF PlainHolds
<1> QED BY <1>1, <1>2, <1>3, <1>4, <1>5, <1>6, <1>7, <1>8 DEF PlainParts

PlainGoal(S) == elms' = S /\ held' = Cardinality(S) /\ \E D : Plain(links', data', S, D)

LEMMA PlainInsert ==
    ASSUME PlainHolds, NEW k \in Key, BST!Insert(k)
    PROVE  \E c \in Elm \ elms : PlainGoal(elms \cup {c}) /\ data' = [data EXCEPT ![c] = k]
<1> DEFINE c == CHOOSE n \in Elm : n \notin elms
           a == BST!InsertLink(k)
<1>1. /\ c \in Elm \ elms
      /\ links' = [links EXCEPT ![a] = c, ![<<"left", c>>] = Null, ![<<"right", c>>] = Null]
      /\ data' = [data EXCEPT ![c] = k] /\ elms' = elms \cup {c} /\ held' = held + 1
  BY DEF BST!Insert
<1> HIDE DEF c
<1>2. PICK D : PlainParts(D) BY PlainOf
<1>3. /\ Plain(links, data, elms, D) /\ links \in [Ways(Elm) -> Elm \cup {Null}]
      /\ data \in [Elm -> Key] /\ elms \subseteq Elm
      /\ IsFiniteSet(elms) /\ Cardinality(elms) \in Nat /\ held = Cardinality(elms)
  BY <1>2 DEF PlainParts
<1>4. held' = Cardinality(elms \cup {c}) BY <1>1, <1>3, FS_AddElement
<1>5. NewData(elms, data, data', c, k) BY <1>1, <1>3 DEF NewData
<1>6. /\ links[Stem] = Null => a = Stem
      /\ links[Stem] # Null => \E p : PlainHanging(D, k, p)
  BY <1>3, PlainInsertPlace
<1>7. CASE links[Stem] = Null
  <2>1. a = Stem /\ Stem \in Ways(Elm) BY <1>6, <1>7, WayIn
  <2> HIDE DEF a
  <2>2. NewElm(links, links', Stem, c) BY <1>1, <1>3, <2>1, NewElmOf
  <2>3. Plain(links', data', elms \cup {c}, OneD(c, Null)) BY <1>1, <1>3, <1>5, <1>7, <2>2, PlainFirst
  <2> QED BY <1>1, <1>4, <2>3 DEF PlainGoal
<1>8. CASE links[Stem] # Null
  <2>1. PICK p : PlainHanging(D, k, p) BY <1>6, <1>8
  <2>2. a = <<PlainSide(k, p), p>> /\ a \in Ways(Elm)
    <3>1. p \in elms /\ PlainSide(k, p) \in Side /\ a = <<PlainSide(k, p), p>> BY <2>1 DEF PlainHanging
    <3> QED BY <1>3, <3>1, WayIn
  <2> HIDE DEF a
  <2>3. NewElm(links, links', <<PlainSide(k, p), p>>, c) BY <1>1, <1>3, <2>2, NewElmOf
  <2>4. Plain(links', data', elms \cup {c}, HungD(elms, D, Null, c, p))
    BY <1>1, <1>3, <1>5, <2>1, <2>3, PlainUnder
  <2> QED BY <1>1, <1>4, <2>4 DEF PlainGoal
<1> QED BY <1>7, <1>8

-----------------------------------------------------------------------------
(* b takes the place of a.                                                  *)
Renamed(C, C2, S, nil, a, b) ==
    /\ a \in S /\ b \notin S \cup {nil}
    /\ \A s \in Side : C2[s][b] = C[s][a]
    /\ \A n \in S \ {a}, s \in Side : C2[s][n] = IF C[s][n] = a THEN b ELSE C[s][n]

Swap(x, a, b) == IF x = a THEN b ELSE x
Swapped(T, a, b) == IF a \in T THEN (T \ {a}) \cup {b} ELSE T

RenamedD(S, D, nil, a, b) ==
    [x \in ((S \ {a}) \cup {b}) \cup {nil} |-> Swapped(D[IF x = b THEN a ELSE x], a, b)]

LEMMA SwapSets ==
    ASSUME NEW S, NEW a, NEW b, b \notin S
    PROVE  /\ \A T \in SUBSET S : \A y : y \in Swapped(T, a, b) <=> \E x \in T : y = Swap(x, a, b)
           /\ \A x, y \in S : Swap(x, a, b) = Swap(y, a, b) => x = y
           /\ \A T \in SUBSET S : a \in S => Swapped(T, a, b) \in SUBSET ((S \ {a}) \cup {b})
BY DEF Swap, Swapped

RenamedChild(C, C2, S, D, nil, a, b, n, s) ==
    /\ C2[s][Swap(n, a, b)] = Swap(C[s][n], a, b)
    /\ Swap(C[s][n], a, b) \in ((S \ {a}) \cup {b}) \cup {nil}
    /\ RenamedD(S, D, nil, a, b)[Swap(C[s][n], a, b)] = Swapped(D[C[s][n]], a, b)

LEMMA RenamedUnder ==
    ASSUME NEW C, NEW C2, NEW S, NEW D, NEW nil, Shaped(C, S, D, nil),
           NEW a, NEW b, Renamed(C, C2, S, nil, a, b), NEW n \in S, NEW s \in Side
    PROVE  RenamedChild(C, C2, S, D, nil, a, b, n, s)
<1> DEFINE D2 == RenamedD(S, D, nil, a, b)
<1>1. /\ a \in S /\ b \notin S /\ b # nil /\ nil \notin S /\ C[s][n] \in S \cup {nil} /\ C[s][n] # n
  BY Under1 DEF Renamed
<1>2. C2[s][Swap(n, a, b)] = Swap(C[s][n], a, b)
  <2>1. CASE n = a BY <1>1, <2>1 DEF Renamed, Swap
  <2>2. CASE n # a BY <1>1, <2>2 DEF Renamed, Swap
  <2> QED BY <2>1, <2>2
<1>3. \A c \in S \cup {nil} : /\ Swap(c, a, b) \in ((S \ {a}) \cup {b}) \cup {nil}
                              /\ D2[Swap(c, a, b)] = Swapped(D[c], a, b)
  <2> TAKE c \in S \cup {nil}
  <2>1. CASE c = a BY <1>1, <2>1 DEF RenamedD, Swap
  <2>2. CASE c # a BY <1>1, <2>2 DEF RenamedD, Swap
  <2> QED BY <2>1, <2>2
<1> QED BY <1>1, <1>2, <1>3 DEF RenamedChild

LEMMA RenamedShaped ==
    ASSUME NEW C, NEW C2, NEW S, NEW D, NEW nil, Shaped(C, S, D, nil),
           NEW a, NEW b, Renamed(C, C2, S, nil, a, b)
    PROVE  Shaped(C2, (S \ {a}) \cup {b}, RenamedD(S, D, nil, a, b), nil)
<1> DEFINE D2 == RenamedD(S, D, nil, a, b)
           S2 == (S \ {a}) \cup {b}
<1>1. a \in S /\ b \notin S /\ b # nil BY DEF Renamed
<1>2. IsFiniteSet(S) /\ nil \notin S /\ D \in [S \cup {nil} -> SUBSET S] /\ D[nil] = {} BY DEF Shaped
<1>3. IsFiniteSet(S2)
  <2>1. IsFiniteSet(S \ {a}) BY <1>1, <1>2, FS_RemoveElement
  <2> QED BY <2>1, FS_AddElement
<1>4. D2 \in [S2 \cup {nil} -> SUBSET S2]
  <2>1. \A x \in S2 \cup {nil} : Swapped(D[IF x = b THEN a ELSE x], a, b) \in SUBSET S2
    BY <1>1, <1>2, SwapSets
  <2> QED BY <2>1 DEF RenamedD
<1>5. D2[nil] = {} BY <1>1, <1>2 DEF RenamedD, Swapped
<1>6. ASSUME NEW n2 \in S2, NEW s \in Side PROVE Fork(C2, S2, D2, nil, n2, s)
  <2>1. PICK n \in S : n2 = Swap(n, a, b) BY <1>1 DEF Swap
  <2> DEFINE l == C[s][n]
             r == C[Other(s)][n]
  <2>2. Other(s) \in Side BY Sides
  <2>3. RenamedChild(C, C2, S, D, nil, a, b, n, s) BY RenamedUnder
  <2>4. RenamedChild(C, C2, S, D, nil, a, b, n, Other(s)) BY <2>2, RenamedUnder
  <2>5. /\ D[n] = {n} \cup D[l] \cup D[r] /\ n \notin D[l] /\ D[l] \cap D[r] = {}
        /\ D[l] \in SUBSET S /\ D[r] \in SUBSET S
    <3>1. Fork(C, S, D, nil, n, s) BY DEF Shaped
    <3> QED BY <2>2, <3>1, Under1 DEF Fork
  <2>6. /\ C2[s][n2] = Swap(l, a, b) /\ C2[s][n2] \in S2 \cup {nil} /\ D2[C2[s][n2]] = Swapped(D[l], a, b)
        /\ D2[C2[Other(s)][n2]] = Swapped(D[r], a, b)
    BY <2>1, <2>3, <2>4 DEF RenamedChild
  <2>7. D2[n2] = Swapped(D[n], a, b) BY <1>1, <2>1 DEF RenamedD, Swap
  <2> HIDE DEF D2, l, r, S2
  <2>8. /\ \A T \in SUBSET S : \A y : y \in Swapped(T, a, b) <=> \E x \in T : y = Swap(x, a, b)
        /\ \A x, y \in S : Swap(x, a, b) = Swap(y, a, b) => x = y
    BY <1>1, SwapSets
  <2>9. D[n] \in SUBSET S BY <2>5
  <2>10. D2[n2] = {n2} \cup D2[C2[s][n2]] \cup D2[C2[Other(s)][n2]]
    <3>1. \A y : y \in D2[n2] <=> \E x \in D[n] : y = Swap(x, a, b) BY <2>7, <2>8, <2>9
    <3>2. \A y : y \in D2[C2[s][n2]] <=> \E x \in D[l] : y = Swap(x, a, b) BY <2>5, <2>6, <2>8
    <3>3. \A y : y \in D2[C2[Other(s)][n2]] <=> \E x \in D[r] : y = Swap(x, a, b) BY <2>5, <2>6, <2>8
    <3> QED BY <2>1, <2>5, <3>1, <3>2, <3>3
  <2>11. n2 \notin D2[C2[s][n2]] BY <2>1, <2>5, <2>6, <2>8
  <2>12. D2[C2[s][n2]] \cap D2[C2[Other(s)][n2]] = {}
    <3> SUFFICES ASSUME NEW y, y \in D2[C2[s][n2]], y \in D2[C2[Other(s)][n2]] PROVE FALSE OBVIOUS
    <3>1. PICK x \in D[l] : y = Swap(x, a, b) BY <2>5, <2>6, <2>8
    <3>2. PICK z \in D[r] : y = Swap(z, a, b) BY <2>5, <2>6, <2>8
    <3>3. x \in S /\ z \in S BY <2>5
    <3>4. \A u, w \in S : Swap(u, a, b) = Swap(w, a, b) => u = w BY <2>8
    <3>5. x = z BY <3>1, <3>2, <3>3, <3>4
    <3> QED BY <2>5, <3>5
  <2> QED BY <2>6, <2>10, <2>11, <2>12 DEF Fork
<1> QED BY <1>1, <1>2, <1>3, <1>4, <1>5, <1>6 DEF Shaped

LEMMA RenamedSorted ==
    ASSUME NEW C, NEW C2, NEW S, NEW D, NEW nil, Shaped(C, S, D, nil),
           NEW a, NEW b, Renamed(C, C2, S, nil, a, b),
           NEW k, NEW k2, Sorted(C, S, D, k), k2[b] = k[a], \A n \in S \ {a} : k2[n] = k[n]
    PROVE  Sorted(C2, (S \ {a}) \cup {b}, RenamedD(S, D, nil, a, b), k2)
<1> DEFINE D2 == RenamedD(S, D, nil, a, b)
           S2 == (S \ {a}) \cup {b}
<1>1. a \in S /\ b \notin S BY DEF Renamed
<1> SUFFICES ASSUME NEW n2 \in S2, NEW s \in Side, NEW m2 \in D2[C2[s][n2]]
             PROVE  Precedes(s, k2[m2], k2[n2])
  BY DEF Sorted
<1>2. PICK n \in S : n2 = Swap(n, a, b) BY <1>1 DEF Swap
<1>3. RenamedChild(C, C2, S, D, nil, a, b, n, s) BY RenamedUnder
<1>4. D2[C2[s][n2]] = Swapped(D[C[s][n]], a, b) BY <1>2, <1>3 DEF RenamedChild
<1>5. D[C[s][n]] \in SUBSET S BY Under1
<1>6. PICK m \in D[C[s][n]] : m2 = Swap(m, a, b) BY <1>1, <1>4, <1>5, SwapSets
<1>7. \A x \in S : k2[Swap(x, a, b)] = k[x] BY DEF Swap
<1>8. Precedes(s, k[m], k[n]) BY DEF Sorted
<1> QED BY <1>2, <1>5, <1>6, <1>7, <1>8

-----------------------------------------------------------------------------
(* The pointer a to r is given the one child of r.                          *)
LinkTo(l, l2, a, x) ==
    l2 \in [Ways(Elm) -> Elm \cup {Null}] /\ \A e \in Ways(Elm) : l2[e] = IF e = a THEN x ELSE l[e]

LEMMA PlainSpliced ==
    ASSUME NEW l, NEW S, NEW D, Rooted(l, S, D), NEW a \in Ways(S), NEW r \in S, l[a] = r,
           NEW s0 \in Side, l[<<s0, r>>] = Null,
           NEW l2, LinkTo(l, l2, a, l[<<Other(s0), r>>])
    PROVE  /\ Spliced(Kids(l), Kids(l2), S, Null, r, l[<<Other(s0), r>>], s0)
           /\ Rooted(l2, S \ {r}, SplicedD(S, D, Null, r))
<1> DEFINE ch == l[<<Other(s0), r>>]
           C == Kids(l)
           C2 == Kids(l2)
<1>1. RootedAt(l, S, D) BY RootedOf
<1>2. /\ S \subseteq Elm /\ Null \notin S /\ \A n \in S, s \in Side : C[s][n] = l[<<s, n>>]
  BY <1>1 DEF RootedAt
<1>3. Other(s0) \in Side BY Sides
<1>4. C[s0][r] = Null /\ ch = C[Other(s0)][r] BY <1>2, <1>3
<1>5. l2 \in [Ways(Elm) -> Elm \cup {Null}] /\ \A e \in Ways(Elm) : l2[e] = IF e = a THEN ch ELSE l[e]
  BY DEF LinkTo
<1>6. \A e \in Ways(S) : e \in Ways(Elm) /\ (e = a <=> l[e] = r)
  <2> TAKE e \in Ways(S)
  <2>1. e \in Ways(Elm) BY <1>2 DEF Ways
  <2>2. l[e] = r => e = a BY <1>2, OneLink
  <2> QED BY <2>1, <2>2
<1> HIDE DEF ch
<1>7. ASSUME NEW n \in S \ {r}, NEW s \in Side PROVE C2[s][n] = IF C[s][n] = r THEN ch ELSE C[s][n]
  <2>1. <<s, n>> \in Ways(S) BY WayIn
  <2>2. C2[s][n] = l2[<<s, n>>] BY <1>2 DEF Kids
  <2>3. C[s][n] = l[<<s, n>>] BY <1>2
  <2> QED BY <1>5, <1>6, <2>1, <2>2, <2>3
<1> HIDE DEF C2
<1>8. Spliced(C, C2, S, Null, r, ch, s0) BY <1>4, <1>7 DEF Spliced
<1>9. Stem \in Ways(S) BY WayIn
<1>10. l2[Stem] = IF l[Stem] = r THEN ch ELSE l[Stem] BY <1>5, <1>6, <1>9
<1>11. Tree(C, S, D, Null, l[Stem]) BY DEF Rooted
<1>12. Tree(C2, S \ {r}, SplicedD(S, D, Null, r), Null, l2[Stem]) BY <1>8, <1>10, <1>11, SplicedTree
<1>13. Rooted(l2, S \ {r}, SplicedD(S, D, Null, r)) BY <1>2, <1>5, <1>12 DEF Rooted, C2
<1> QED BY <1>8, <1>13 DEF ch, C2

(* The element b takes the place of the one at a.                           *)
TakenOver(l, l2, a, b) ==
    /\ l2 \in [Ways(Elm) -> Elm \cup {Null}] /\ l2[a] = b
    /\ \A s \in Side : l2[<<s, b>>] = l[<<s, l[a]>>]
    /\ \A e \in Ways(Elm) \ {a, <<"left", b>>, <<"right", b>>} : l2[e] = l[e]

LEMMA PlainRenamed ==
    ASSUME NEW l, NEW S, NEW D, Rooted(l, S, D), NEW a \in Ways(S), NEW c \in S, l[a] = c,
           NEW b \in Elm \ S, NEW l2, TakenOver(l, l2, a, b)
    PROVE  /\ Renamed(Kids(l), Kids(l2), S, Null, c, b)
           /\ Rooted(l2, (S \ {c}) \cup {b}, RenamedD(S, D, Null, c, b))
<1> DEFINE C == Kids(l)
           C2 == Kids(l2)
           S2 == (S \ {c}) \cup {b}
           D2 == RenamedD(S, D, Null, c, b)
<1>1. RootedAt(l, S, D) BY RootedOf
<1>2. /\ S \subseteq Elm /\ Null \notin S /\ Null \notin Elm /\ Shaped(C, S, D, Null)
      /\ (\A n \in S, s \in Side : C[s][n] = l[<<s, n>>])
      /\ l[Stem] \in S \cup {Null} /\ D[l[Stem]] = S
  BY <1>1 DEF RootedAt
<1>3. /\ l2 \in [Ways(Elm) -> Elm \cup {Null}] /\ l2[a] = b
      /\ \A s \in Side : l2[<<s, b>>] = l[<<s, c>>]
      /\ \A e \in Ways(Elm) \ {a, <<"left", b>>, <<"right", b>>} : l2[e] = l[e]
  BY DEF TakenOver
<1>4. \A e \in Ways(S) : /\ e \in Ways(Elm) /\ e \notin {<<"left", b>>, <<"right", b>>}
                         /\ (e = a <=> l[e] = c)
  <2> TAKE e \in Ways(S)
  <2>1. e \in Ways(Elm) BY <1>2 DEF Ways
  <2>2. l[e] = c => e = a BY <1>2, OneLink
  <2>3. e = Stem \/ \E s \in Side, n \in S : e = <<s, n>> BY WayIn
  <2>4. "left" \in Side /\ "right" \in Side BY DEF Side
  <2>5. e \notin {<<"left", b>>, <<"right", b>>} BY <2>3, <2>4, WayIn
  <2> QED BY <2>1, <2>2, <2>5
<1>5. \A e \in Ways(S) : l2[e] = IF l[e] = c THEN b ELSE l[e] BY <1>3, <1>4
<1>6. ASSUME NEW n \in S \ {c}, NEW s \in Side PROVE C2[s][n] = IF C[s][n] = c THEN b ELSE C[s][n]
  <2>1. <<s, n>> \in Ways(S) BY WayIn
  <2>2. C2[s][n] = l2[<<s, n>>] BY <1>2 DEF Kids
  <2>3. C[s][n] = l[<<s, n>>] BY <1>2
  <2> QED BY <1>5, <2>1, <2>2, <2>3
<1>7. \A s \in Side : C2[s][b] = C[s][c] BY <1>2, <1>3 DEF Kids
<1> HIDE DEF C2
<1>8. Renamed(C, C2, S, Null, c, b) BY <1>2, <1>6, <1>7 DEF Renamed
<1>9. Shaped(C2, S2, D2, Null) BY <1>2, <1>8, RenamedShaped
<1>10. l2[Stem] = Swap(l[Stem], c, b)
  <2>1. Stem \in Ways(S) BY WayIn
  <2> QED BY <1>5, <2>1 DEF Swap
<1>11. l2[Stem] \in S2 \cup {Null} BY <1>2, <1>10 DEF Swap
<1>12. D2[l2[Stem]] = S2
  <2>1. D2[l2[Stem]] = Swapped(S, c, b)
    <3>1. CASE l[Stem] = c BY <1>2, <1>10, <1>11, <3>1 DEF Swap, RenamedD
    <3>2. CASE l[Stem] # c BY <1>2, <1>10, <1>11, <3>2 DEF Swap, RenamedD
    <3> QED BY <3>1, <3>2
  <2> QED BY <2>1 DEF Swapped
<1>13. Tree(C2, S2, D2, Null, l2[Stem]) BY <1>9, <1>11, <1>12 DEF Tree
<1>14. S2 \subseteq Elm BY <1>2
<1>15. Rooted(l2, S2, D2) BY <1>3, <1>13, <1>14 DEF Rooted, C2
<1> QED BY <1>8, <1>15 DEF C2

-----------------------------------------------------------------------------
(* bl_bstree_remove                                                         *)
SideFor(n) == IF links[<<"left", n>>] # Null THEN "left" ELSE "right"

(* An element without children.                                             *)
LEMMA PlainCut ==
    ASSUME NEW D, Plain(links, data, elms, D), NEW a \in Ways(elms), NEW n \in elms, links[a] = n,
           links[<<SideFor(n), n>>] = Null
    PROVE  \E E : Plain([links EXCEPT ![a] = Null], data, elms \ {n}, E)
<1> DEFINE l2 == [links EXCEPT ![a] = Null]
           E == SplicedD(elms, D, Null, n)
           C == Kids(links)
<1>1. Rooted(links, elms, D) /\ data \in [Elm -> Key] /\ Sorted(C, elms, D, data) BY DEF Plain
<1>2. /\ links \in [Ways(Elm) -> Elm \cup {Null}] /\ Shaped(C, elms, D, Null) /\ elms \subseteq Elm
  BY <1>1, RootedOf DEF Rooted, RootedAt
<1>3. links[<<"left", n>>] = Null /\ links[<<"right", n>>] = Null BY DEF SideFor
<1>4. "left" \in Side /\ Other("left") = "right" BY Sides DEF Side
<1>5. a \in Ways(Elm) BY <1>2 DEF Ways
<1>6. LinkTo(links, l2, a, links[<<Other("left"), n>>]) BY <1>2, <1>3, <1>4, <1>5 DEF LinkTo
<1> HIDE DEF l2
<1>7. /\ Spliced(C, Kids(l2), elms, Null, n, links[<<Other("left"), n>>], "left")
      /\ Rooted(l2, elms \ {n}, E)
  BY <1>1, <1>3, <1>4, <1>6, PlainSpliced
<1>8. Sorted(Kids(l2), elms \ {n}, E, data) BY <1>1, <1>2, <1>4, <1>7, SplicedSorted
<1>9. Plain(l2, data, elms \ {n}, E) BY <1>1, <1>7, <1>8 DEF Plain
<1> QED BY <1>9 DEF l2

(* r, at the pointer e, is the last element on the other side of what hangs *)
(* under n on the side s: it is taken out, and then takes the place of n.   *)
Moving(D, s, n, e, r) ==
    /\ s \in Side /\ n \in elms /\ e \in Ways(elms) /\ links[e] = r /\ r \in elms /\ r # n
    /\ r \in D[links[<<s, n>>]] /\ links[<<Other(s), r>>] = Null
    /\ \A m \in D[links[<<s, n>>]] : Precedes(s, data[m], data[r])

LEMMA MovingOf ==
    ASSUME NEW D, Plain(links, data, elms, D), NEW n \in elms, links[<<SideFor(n), n>>] # Null
    PROVE  LET s == SideFor(n)
               e == BST!EndLink(<<s, n>>, Other(s))
           IN Moving(D, s, n, e, links[e])
<1> DEFINE s == SideFor(n)
           o == Other(s)
           a == <<s, n>>
           e == BST!EndLink(a, o)
           C == Kids(links)
<1>1. s \in Side /\ o \in Side /\ Other(o) = s BY Sides DEF SideFor, Side
<1>2. RootedAt(links, elms, D) /\ \A b \in Ways(elms) : links[b] \in elms \cup {Null} BY RootedOf DEF Plain
<1>3. a \in Ways(elms) BY <1>1, WayIn
<1>4. links[a] # Null OBVIOUS
<1> HIDE DEF s, a, o
<1>5. Ended(D, o, a, e) BY <1>1, <1>3, <1>4, PlainEndPlace
<1> HIDE DEF e
<1> DEFINE r == links[e]
<1>6. e \in Ways(elms) /\ r # Null /\ AtBottom(C, D, Null, data, o, links[a], r) BY <1>5 DEF Ended
<1>7. r \in elms BY <1>2, <1>6
<1>8. r \in D[links[a]] /\ C[o][r] = Null /\ \A m \in D[links[a]] : Precedes(s, data[m], data[r])
  BY <1>1, <1>6 DEF AtBottom
<1>9. links[<<o, r>>] = Null BY <1>1, <1>2, <1>7, <1>8 DEF RootedAt
<1>10. r # n
  <2>1. n \notin D[C[s][n]] BY <1>1, <1>2, Under1 DEF RootedAt
  <2>2. C[s][n] = links[a] BY <1>1, <1>2 DEF RootedAt, a
  <2> QED BY <1>8, <2>1, <2>2
<1>11. /\ s \in Side /\ n \in elms /\ e \in Ways(elms) /\ links[e] = r
       /\ r \in D[links[<<s, n>>]] /\ links[<<Other(s), r>>] = Null
       /\ \A m \in D[links[<<s, n>>]] : Precedes(s, data[m], data[r])
  BY <1>1, <1>6, <1>8, <1>9 DEF a, o
<1> HIDE DEF r
<1>12. Moving(D, s, n, e, r) BY <1>7, <1>10, <1>11 DEF Moving, r
<1> QED BY <1>12 DEF r, e, a, o, s

Virtual(k, n, r) == [k EXCEPT ![n] = k[r]]

(* r taken out, its key at n.                                               *)
LEMMA PlainPopped ==
    ASSUME NEW D, Plain(links, data, elms, D), NEW s, NEW n, NEW e, NEW r, Moving(D, s, n, e, r)
    PROVE  Plain(BST!Popped(s, e), Virtual(data, n, r), elms \ {r}, SplicedD(elms, D, Null, r))
<1> DEFINE C == Kids(links)
           ch == links[<<s, r>>]
           l2 == [links EXCEPT ![e] = ch]
           E == SplicedD(elms, D, Null, r)
           k2 == Virtual(data, n, r)
<1>1. /\ s \in Side /\ n \in elms /\ e \in Ways(elms) /\ links[e] = r /\ r \in elms
      /\ r \in D[links[<<s, n>>]] /\ links[<<Other(s), r>>] = Null
      /\ \A m \in D[links[<<s, n>>]] : Precedes(s, data[m], data[r])
  BY DEF Moving
<1>2. Rooted(links, elms, D) /\ data \in [Elm -> Key] /\ Sorted(C, elms, D, data) BY DEF Plain
<1>3. /\ RootedAt(links, elms, D) /\ links \in [Ways(Elm) -> Elm \cup {Null}]
  BY <1>2, RootedOf DEF Rooted
<1>4. /\ Shaped(C, elms, D, Null) /\ elms \subseteq Elm
      /\ \A m \in elms, x \in Side : C[x][m] = links[<<x, m>>]
  BY <1>3 DEF RootedAt
<1>5. Other(s) \in Side /\ Other(Other(s)) = s BY <1>1, Sides
<1>6. BST!Popped(s, e) = l2 BY <1>1 DEF BST!Popped
<1>7. e \in Ways(Elm) /\ <<s, r>> \in Ways(Elm)
  <2>1. r \in Elm BY <1>1, <1>4
  <2>2. e \in Ways(Elm) BY <1>1, <1>4 DEF Ways
  <2> QED BY <1>1, <2>1, <2>2, WayIn
<1>8. ch \in Elm \cup {Null} BY <1>3, <1>7
<1> HIDE DEF ch
<1>9. LinkTo(links, l2, e, ch) BY <1>3, <1>7, <1>8 DEF LinkTo
<1> HIDE DEF l2
<1>10. LinkTo(links, l2, e, links[<<Other(Other(s)), r>>]) BY <1>5, <1>9 DEF ch
<1>11. /\ Spliced(C, Kids(l2), elms, Null, r, links[<<Other(Other(s)), r>>], Other(s))
       /\ Rooted(l2, elms \ {r}, E)
  BY <1>1, <1>2, <1>5, <1>10, PlainSpliced
<1>12. k2 \in [Elm -> Key] /\ k2[n] = data[r] /\ \A m \in elms \ {n} : k2[m] = data[m]
  BY <1>1, <1>2, <1>4 DEF Virtual
<1> HIDE DEF k2
<1>13. \A m \in elms : data[m] \in Int BY <1>2, <1>4, NodeAssumption
<1>14. r \in D[C[s][n]] /\ \A m \in D[C[s][n]] : Precedes(s, data[m], data[r]) BY <1>1, <1>4
<1>15. Sorted(C, elms, D, k2) BY <1>1, <1>2, <1>4, <1>12, <1>13, <1>14, MovedSorted
<1>16. Sorted(Kids(l2), elms \ {r}, E, k2) BY <1>1, <1>4, <1>5, <1>11, <1>15, SplicedSorted
<1> QED BY <1>6, <1>11, <1>12, <1>16 DEF Plain, k2

(* The pointer to n is none of r's.                                         *)
LEMMA MovingAway ==
    ASSUME NEW D, Plain(links, data, elms, D), NEW s, NEW n, NEW e, NEW r, Moving(D, s, n, e, r),
           NEW a \in Ways(elms), links[a] = n
    PROVE  a \in Ways(elms \ {r})
<1> DEFINE c == Kids(links)[s][n]
<1>1. s \in Side /\ n \in elms /\ r \in elms /\ r \in D[links[<<s, n>>]] BY DEF Moving
<1>2. RootedAt(links, elms, D) BY RootedOf DEF Plain
<1>3. Shaped(Kids(links), elms, D, Null) /\ c = links[<<s, n>>] BY <1>1, <1>2 DEF RootedAt
<1>4. c \in elms \cup {Null} /\ D[Null] = {} /\ n \notin D[c] BY <1>1, <1>3, Under1
<1> HIDE DEF c
<1>5. CASE a = Stem BY <1>5, WayIn
<1>6. CASE a # Stem
  <2>1. PICK x \in Side, m \in elms : a = <<x, m>> BY <1>6, WayIn
  <2>2. m # r
    <3> SUFFICES ASSUME m = r PROVE FALSE OBVIOUS
    <3>1. Kids(links)[x][r] = n /\ Null \notin elms BY <1>1, <1>2, <2>1 DEF RootedAt
    <3>2. n \in D[r] BY <1>1, <1>3, <3>1, Under1
    <3>3. r \in D[c] /\ c \in elms BY <1>1, <1>3, <1>4
    <3>4. D[r] \subseteq D[c] BY <1>3, <3>3, Nested
    <3> QED BY <1>4, <3>2, <3>4
  <2> QED BY <2>1, <2>2, WayIn
<1> QED BY <1>5, <1>6

(* r in the place of n, at the pointer a.                                   *)
LEMMA PlainMoved ==
    ASSUME NEW D, Plain(links, data, elms, D), NEW s, NEW n, NEW e, NEW r, Moving(D, s, n, e, r),
           NEW a \in Ways(elms), links[a] = n,
           NEW l2, TakenOver(BST!Popped(s, e), l2, a, r)
    PROVE  \E E : Plain(l2, data, elms \ {n}, E)
<1> DEFINE S == elms \ {r}
           D1 == SplicedD(elms, D, Null, r)
           k1 == Virtual(data, n, r)
           l1 == BST!Popped(s, e)
           E == RenamedD(S, D1, Null, n, r)
<1>1. /\ s \in Side /\ n \in elms /\ e \in Ways(elms) /\ links[e] = r /\ r \in elms /\ n # r
      /\ r \in D[links[<<s, n>>]]
  BY DEF Moving
<1>2. Plain(l1, k1, S, D1) BY PlainPopped
<1>3. Rooted(l1, S, D1) /\ Sorted(Kids(l1), S, D1, k1) BY <1>2 DEF Plain
<1>4. Rooted(links, elms, D) /\ data \in [Elm -> Key] BY DEF Plain
<1>5. RootedAt(links, elms, D) /\ links \in [Ways(Elm) -> Elm \cup {Null}] BY <1>4, RootedOf DEF Rooted
<1>6. elms \subseteq Elm /\ Shaped(Kids(links), elms, D, Null) BY <1>5 DEF RootedAt
<1>7. a \in Ways(S) BY MovingAway
<1>8. l1[a] = n
  <2>1. a # e /\ a \in Ways(Elm) BY <1>1, <1>6 DEF Ways
  <2> QED BY <1>5, <2>1 DEF BST!Popped
<1> HIDE DEF l1
<1>9. n \in S /\ r \in Elm \ S BY <1>1, <1>6
<1>10. TakenOver(l1, l2, a, r) BY DEF l1
<1>11. Renamed(Kids(l1), Kids(l2), S, Null, n, r) /\ Rooted(l2, (S \ {n}) \cup {r}, E)
  BY <1>3, <1>7, <1>8, <1>9, <1>10, PlainRenamed
<1>12. data[r] = k1[n] /\ \A m \in S \ {n} : data[m] = k1[m] BY <1>1, <1>4, <1>6 DEF Virtual
<1>13. Shaped(Kids(l1), S, D1, Null) BY <1>3, RootedOf DEF RootedAt
<1> HIDE DEF k1, D1
<1>14. Sorted(Kids(l2), (S \ {n}) \cup {r}, E, data) BY <1>3, <1>11, <1>12, <1>13, RenamedSorted
<1>15. Plain(l2, data, (S \ {n}) \cup {r}, E) BY <1>4, <1>11, <1>14 DEF Plain
<1>16. (S \ {n}) \cup {r} = elms \ {n} BY <1>1
<1> QED BY <1>15, <1>16

(* What bl_bstree_remove writes is that.                                    *)
LEMMA TakenOverOf ==
    ASSUME NEW l1 \in [Ways(Elm) -> Elm \cup {Null}], NEW a \in Ways(Elm), NEW n \in Elm, l1[a] = n,
           NEW r \in Elm, a \notin {<<"left", r>>, <<"right", r>>}
    PROVE  TakenOver(l1, [l1 EXCEPT ![<<"left", r>>] = l1[<<"left", n>>],
                                    ![<<"right", r>>] = l1[<<"right", n>>], ![a] = r], a, r)
<1> DEFINE lr == <<"left", r>>
           rr == <<"right", r>>
           x == l1[<<"left", n>>]
           y == l1[<<"right", n>>]
           l2 == [l1 EXCEPT ![lr] = x, ![rr] = y, ![a] = r]
           L == Ways(Elm)
<1>1. lr \in L /\ rr \in L /\ lr # rr BY WayIn DEF Side
<1>2. x \in Elm \cup {Null} /\ y \in Elm \cup {Null} BY WayIn DEF Side
<1>3. a \in L /\ a # lr /\ a # rr /\ l1 \in [L -> Elm \cup {Null}] OBVIOUS
<1>4. \A s \in Side : <<s, r>> \in {lr, rr} /\ l1[<<s, l1[a]>>] = (IF <<s, r>> = lr THEN x ELSE y) BY DEF Side
<1> HIDE DEF L, x, y, lr, rr
<1>5. l2 \in [L -> Elm \cup {Null}] BY <1>2, <1>3
<1>6. l2[a] = r BY <1>3
<1>7. l2[lr] = x /\ l2[rr] = y BY <1>1, <1>3
<1>8. \A e \in L \ {a, lr, rr} : l2[e] = l1[e] BY <1>3
<1> HIDE DEF l2
<1>9. \A s \in Side : l2[<<s, r>>] = l1[<<s, l1[a]>>] BY <1>1, <1>4, <1>7
<1>10. l2 \in [Ways(Elm) -> Elm \cup {Null}] /\ \A e \in Ways(Elm) \ {a, <<"left", r>>, <<"right", r>>} : l2[e] = l1[e]
  BY <1>5, <1>8 DEF L, lr, rr
<1>11. TakenOver(l1, l2, a, r) BY <1>6, <1>9, <1>10 DEF TakenOver
<1> QED BY <1>11 DEF l2, lr, rr, x, y

LEMMA PlainRemoved ==
    ASSUME PlainHolds, NEW k \in Key, BST!Remove(k)
    PROVE  \E n \in elms : PlainGoal(elms \ {n}) /\ data' = data /\ data[n] = k
<1> DEFINE a == BST!FindLink(k)
           n == links[a]
           s == SideFor(n)
           e == BST!EndLink(<<s, n>>, Other(s))
           r == links[e]
           l1 == BST!Popped(s, e)
           l2 == [l1 EXCEPT ![<<"left", r>>] = l1[<<"left", n>>],
                            ![<<"right", r>>] = l1[<<"right", n>>], ![a] = r]
<1>1. /\ n # Null /\ data' = data /\ elms' = elms \ {n} /\ held' = held - 1
      /\ links' = IF links[<<s, n>>] = Null THEN [links EXCEPT ![a] = Null] ELSE l2
  BY BstNames DEF BST!Remove, SideFor, Other
<1>2. PICK D : PlainParts(D) BY PlainOf
<1>3. /\ Plain(links, data, elms, D) /\ links \in [Ways(Elm) -> Elm \cup {Null}] /\ elms \subseteq Elm
      /\ IsFiniteSet(elms) /\ Cardinality(elms) \in Nat /\ held = Cardinality(elms)
  BY <1>2 DEF PlainParts
<1>4. a \in Ways(elms) /\ n \in elms /\ data[n] = k BY <1>1, <1>3, PlainFindPlace DEF PlainFound
<1>5. held' = Cardinality(elms \ {n}) BY <1>1, <1>3, <1>4, FS_RemoveElement
<1> HIDE DEF a, s
<1>6. CASE links[<<s, n>>] = Null
  <2>1. \E E : Plain([links EXCEPT ![a] = Null], data, elms \ {n}, E)
    BY <1>3, <1>4, <1>6, PlainCut DEF s
  <2> QED BY <1>1, <1>4, <1>5, <1>6, <2>1 DEF PlainGoal
<1>7. CASE links[<<s, n>>] # Null
  <2> HIDE DEF n
  <2>1. Moving(D, s, n, e, r) BY <1>3, <1>4, <1>7, MovingOf DEF s
  <2> HIDE DEF e
  <2>2. n = links[a] BY DEF n
  <2>3. a \in Ways(elms \ {r}) BY <1>3, <1>4, <2>1, <2>2, MovingAway
  <2>4. a \notin {<<"left", r>>, <<"right", r>>}
    <3>1. \A x \in Side, m \in elms \ {r} : <<x, m>> \notin {<<"left", r>>, <<"right", r>>} OBVIOUS
    <3>2. Stem \notin {<<"left", r>>, <<"right", r>>} BY WayIn DEF Side
    <3> QED BY <2>3, <3>1, <3>2, WayIn
  <2>5. r \in elms /\ a \in Ways(Elm) /\ r \in Elm /\ n \in Elm /\ a # e /\ e \in Ways(Elm) /\ s \in Side
    BY <1>3, <1>4, <2>1, <2>2 DEF Moving, Ways
  <2>6. l1 \in [Ways(Elm) -> Elm \cup {Null}]
    <3>1. <<s, r>> \in Ways(Elm) BY <2>5, WayIn
    <3>2. links[<<s, r>>] \in Elm \cup {Null} BY <1>3, <3>1
    <3>3. l1 = [links EXCEPT ![e] = links[<<s, r>>]] BY DEF BST!Popped
    <3> QED BY <1>3, <3>2, <3>3
  <2>7. l1[a] = n
    <3>1. l1 = [links EXCEPT ![e] = links[<<s, r>>]] BY DEF BST!Popped
    <3> QED BY <1>3, <2>2, <2>5, <3>1
  <2> HIDE DEF l1, r
  <2>8. TakenOver(l1, l2, a, r) BY <2>4, <2>5, <2>6, <2>7, TakenOverOf
  <2> HIDE DEF l2
  <2>9. TakenOver(BST!Popped(s, e), l2, a, r) BY <2>8 DEF l1
  <2>10. \E E : Plain(l2, data, elms \ {n}, E) BY <1>3, <1>4, <2>1, <2>2, <2>9, PlainMoved
  <2> QED BY <1>1, <1>4, <1>5, <1>7, <2>10 DEF PlainGoal
<1> QED BY <1>6, <1>7

(* A tree with nothing on its stem.                                         *)
LEMMA PlainEmpty ==
    ASSUME NEW l \in [Ways(Elm) -> Elm \cup {Null}], l[Stem] = Null, NEW k \in [Elm -> Key]
    PROVE  \E D : Plain(l, k, {}, D)
<1> DEFINE none == {}
           D == [a \in none \cup {Null} |-> none]
           C == Kids(l)
<1>1. D \in [none \cup {Null} -> SUBSET none] /\ D[Null] = none /\ IsFiniteSet(none) /\ none \subseteq Elm
  BY FS_EmptySet
<1>2. \A x : x \notin none OBVIOUS
<1> HIDE DEF none, D, C
<1>3. Shaped(C, none, D, Null) BY <1>1, <1>2 DEF Shaped, none
<1>4. Tree(C, none, D, Null, l[Stem]) BY <1>1, <1>3 DEF Tree
<1>5. Sorted(C, none, D, k) BY <1>2 DEF Sorted
<1>6. Plain(l, k, none, D) BY <1>1, <1>4, <1>5 DEF Plain, Rooted, C
<1> QED BY <1>6 DEF none

LEMMA PlainCleared ==
    ASSUME PlainHolds, BST!ForeachRemove
    PROVE  PlainGoal({}) /\ data' = data
<1>1. PICK D : PlainParts(D) BY PlainOf
<1>2. links \in [Ways(Elm) -> Elm \cup {Null}] /\ data \in [Elm -> Key] /\ BST!InTree = elms
  BY <1>1 DEF PlainParts
<1>3. elms' = {} /\ links' = [links EXCEPT ![Stem] = Null] /\ held' = 0 /\ data' = data
  BY <1>2, BstNames DEF BST!ForeachRemove
<1>4. links' \in [Ways(Elm) -> Elm \cup {Null}] /\ links'[Stem] = Null BY <1>2, <1>3, WayIn
<1>5. \E E : Plain(links', data', {}, E) BY <1>2, <1>3, <1>4, PlainEmpty
<1>6. Cardinality({}) = 0 BY FS_EmptySet
<1> QED BY <1>3, <1>5, <1>6 DEF PlainGoal

LEMMA PlainSame ==
    ASSUME PlainHolds, links' = links, data' = data, elms' = elms, held' = held
    PROVE  PlainGoal(elms)
BY DEF PlainHolds, PlainGoal

-----------------------------------------------------------------------------
LEMMA BstCardinality == \A S : BST!Cardinality(S) = Cardinality(S)
BY DEF BST!Cardinality, Cardinality

BstHeld == [x \in Key |-> Cardinality({n \in BST!InTree : data[n] = x})]

BstCopies == [x \in Key |-> BST!Cardinality({n \in BST!InTree : data[n] = x})]

LEMMA BstHeldIs == BstHeld = BstCopies
BY BstCardinality DEF BstHeld, BstCopies

LEMMA BstHeldNext == BstHeld' = BstCopies'
<1>1. (BstHeld = BstCopies)' BY BstHeldIs, PTL
<1> QED BY <1>1

LEMMA PlainHeld == PlainHolds => BstHeld = HeldIn(elms, data)
<1> SUFFICES ASSUME PlainHolds PROVE BstHeld = HeldIn(elms, data) OBVIOUS
<1>1. BST!InTree = elms BY PlainOf DEF PlainParts
<1> QED BY <1>1 DEF BstHeld, HeldIn, CountOf

LEMMA PlainNext ==
    ASSUME NEW S
    PROVE  PlainGoal(S) => PlainHolds' /\ BstHeld' = HeldIn(S, data')
<1>1. PlainHolds' => (BstHeld = HeldIn(elms, data))' BY PlainHeld, PTL
<1>2. PlainGoal(S) => PlainHolds' BY DEF PlainGoal, PlainHolds
<1> QED BY <1>1, <1>2 DEF PlainGoal, HeldIn

PlainKept == PlainHolds' /\ [BST!Bag!Next]_BST!Bag!bag

LEMMA PlainInsertBag ==
    ASSUME PlainHolds, NEW k \in Key, BST!Insert(k)
    PROVE  PlainKept
<1>1. PICK n \in Elm \ elms : PlainGoal(elms \cup {n}) /\ data' = [data EXCEPT ![n] = k] BY PlainInsert
<1>2. IsFiniteSet(elms) /\ elms \subseteq Elm /\ data \in [Elm -> Key] BY PlainOf DEF PlainParts
<1> DEFINE k2 == [data EXCEPT ![n] = k]
<1>3. k2[n] = k /\ \A m \in elms : k2[m] = data[m] BY <1>1, <1>2
<1>4. BstHeld' = HeldIn(elms \cup {n}, k2) BY <1>1, PlainNext
<1> HIDE DEF k2
<1>5. \A x \in Key : CountOf(elms \cup {n}, k2, x) = IF x = k THEN CountOf(elms, data, x) + 1 ELSE CountOf(elms, data, x)
  BY <1>1, <1>2, <1>3, CountInsert
<1>6. BstHeld' = [BstHeld EXCEPT ![k] = @ + 1] BY <1>4, <1>5, PlainHeld DEF HeldIn
<1>7. last' = <<"insert", k>> BY DEF BST!Insert
<1>8. BST!Bag!Insert(k) BY <1>6, <1>7, BstHeldIs, BstHeldNext DEF BST!Bag!Insert, BstCopies
<1>9. BST!Bag!Next BY <1>8 DEF BST!Bag!Next
<1> QED BY <1>1, <1>9, PlainNext DEF PlainKept

LEMMA PlainRemoveBag ==
    ASSUME PlainHolds, NEW k \in Key, BST!Remove(k)
    PROVE  PlainKept
<1>1. PICK n \in elms : PlainGoal(elms \ {n}) /\ data' = data /\ data[n] = k BY PlainRemoved
<1>2. IsFiniteSet(elms) BY PlainOf DEF PlainParts
<1>3. BstHeld' = HeldIn(elms \ {n}, data) BY <1>1, PlainNext
<1>4. \A x \in Key : /\ CountOf(elms \ {n}, data, x) = IF x = data[n] THEN CountOf(elms, data, x) - 1 ELSE CountOf(elms, data, x)
                     /\ x = data[n] => CountOf(elms, data, x) > 0
  BY <1>1, <1>2, CountRemove
<1>5. BstHeld[k] > 0 BY <1>1, <1>4, PlainHeld DEF HeldIn
<1>6. BstHeld' = [BstHeld EXCEPT ![k] = @ - 1] BY <1>1, <1>3, <1>4, PlainHeld DEF HeldIn
<1>7. last' = <<"remove", k>> BY DEF BST!Remove
<1>8. BST!Bag!Remove(k) BY <1>5, <1>6, <1>7, BstHeldIs, BstHeldNext DEF BST!Bag!Remove, BstCopies
<1>9. BST!Bag!Next BY <1>8 DEF BST!Bag!Next
<1> QED BY <1>1, <1>9, PlainNext DEF PlainKept

LEMMA PlainAbsentBag ==
    ASSUME PlainHolds, NEW k \in Key, BST!RemoveNothing(k)
    PROVE  PlainKept
<1>1. PICK D : PlainParts(D) BY PlainOf
<1>2. \A m \in elms : data[m] # k
  <2>1. links[BST!FindLink(k)] = Null BY DEF BST!RemoveNothing
  <2> QED BY <1>1, <2>1, PlainFindPlace DEF PlainParts, PlainFound
<1>3. links' = links /\ data' = data /\ elms' = elms /\ held' = held /\ last' = <<"absent", k>>
  BY DEF BST!RemoveNothing
<1>4. PlainGoal(elms) BY <1>3, PlainSame
<1>5. BstHeld = HeldIn(elms, data) /\ BstHeld' = HeldIn(elms, data) BY <1>3, <1>4, PlainHeld, PlainNext
<1>6. CountOf(elms, data, k) = 0 BY <1>2, CountZero
<1>7. BST!Bag!RemoveNothing(k) BY <1>3, <1>5, <1>6, BstHeldIs, BstHeldNext DEF BST!Bag!RemoveNothing, BstCopies, HeldIn
<1>8. BST!Bag!Next BY <1>7 DEF BST!Bag!Next
<1> QED BY <1>4, <1>8, PlainNext DEF PlainKept

LEMMA PlainClearBag ==
    ASSUME PlainHolds, BST!ForeachRemove
    PROVE  PlainKept
<1>1. PlainGoal({}) /\ data' = data BY PlainCleared
<1>2. BstHeld' = HeldIn({}, data) BY <1>1, PlainNext
<1>3. \A x : CountOf({}, data, x) = 0 BY CountEmpty DEF CountNone
<1>4. BstHeld' = [k \in Key |-> 0] BY <1>2, <1>3 DEF HeldIn
<1>5. last' = <<"clear">> BY DEF BST!ForeachRemove
<1>6. BST!Bag!Clear BY <1>4, <1>5, BstHeldIs, BstHeldNext DEF BST!Bag!Clear, BstCopies
<1>7. BST!Bag!Next BY <1>6 DEF BST!Bag!Next
<1> QED BY <1>1, <1>7, PlainNext DEF PlainKept

LEMMA PlainSameBag ==
    ASSUME PlainHolds, UNCHANGED bst
    PROVE  PlainKept
<1>1. links' = links /\ data' = data /\ elms' = elms /\ held' = held /\ last' = last BY DEF bst
<1>2. PlainGoal(elms) BY <1>1, PlainSame
<1>3. BstHeld = HeldIn(elms, data) /\ BstHeld' = HeldIn(elms, data) BY <1>1, <1>2, PlainHeld, PlainNext
<1>4. UNCHANGED BST!Bag!bag BY <1>1, <1>3, BstHeldIs, BstHeldNext DEF BST!Bag!bag, BstCopies
<1> QED BY <1>2, <1>4, PlainNext DEF PlainKept

LEMMA PlainInit ==
    ASSUME BST!Init
    PROVE  PlainHolds /\ BST!Bag!Init
<1>1. /\ links = [l \in Ways(Elm) |-> Null] /\ data \in [Elm -> Key] /\ held = 0 /\ elms = {} /\ last = <<>>
  BY BstNames DEF BST!Init
<1>2. links \in [Ways(Elm) -> Elm \cup {Null}] /\ links[Stem] = Null BY <1>1, WayIn
<1>3. \E D : Plain(links, data, {}, D) BY <1>1, <1>2, PlainEmpty
<1>4. Cardinality({}) = 0 BY FS_EmptySet
<1>5. PlainHolds BY <1>1, <1>3, <1>4 DEF PlainHolds
<1>6. \A x : CountOf({}, data, x) = 0 BY CountEmpty DEF CountNone
<1>7. BstHeld = [k \in Key |-> 0] BY <1>1, <1>5, <1>6, PlainHeld DEF HeldIn
<1> QED BY <1>1, <1>5, <1>7, BstHeldIs, BstHeldNext DEF BST!Bag!Init, BstCopies

LEMMA PlainStep ==
    ASSUME PlainHolds, [StepNext]_<<itree, bst, kind>>
    PROVE  PlainKept
<1>1. CASE UNCHANGED bst BY <1>1, PlainSameBag
<1>2. CASE BST!Next
  <2>1. ASSUME NEW k \in Key, BST!Insert(k) PROVE PlainKept BY <2>1, PlainInsertBag
  <2>2. ASSUME NEW k \in Key, BST!Remove(k) PROVE PlainKept BY <2>2, PlainRemoveBag
  <2>3. ASSUME NEW k \in Key, BST!RemoveNothing(k) PROVE PlainKept BY <2>3, PlainAbsentBag
  <2>4. ASSUME BST!ForeachRemove PROVE PlainKept BY <2>4, PlainClearBag
  <2> QED BY <1>2, <2>1, <2>2, <2>3, <2>4 DEF BST!Next
<1> QED BY <1>1, <1>2 DEF StepNext

LEMMA PlainNothingLost == PlainHolds => BST!NothingLost
<1> SUFFICES ASSUME PlainHolds PROVE BST!NothingLost OBVIOUS
<1>1. BST!InTree = elms BY PlainOf DEF PlainParts
<1> QED BY <1>1, BstCardinality DEF BST!NothingLost, PlainHolds

LEMMA PlainIsBag == StepSpec => BST!ImplementsBag
<1>1. StepInit => PlainHolds /\ BST!Bag!Init BY PlainInit DEF StepInit
<1>2. PlainHolds /\ [StepNext]_<<itree, bst, kind>> => PlainHolds' /\ [BST!Bag!Next]_BST!Bag!bag
  BY PlainStep DEF PlainKept
<1> QED BY <1>1, <1>2, PTL DEF StepSpec, BST!ImplementsBag, BST!Bag!Spec

(* In the red-black tree, the interval tree and the tree without balancing  *)
(* every element malloc has given and free has not taken back is in the     *)
(* tree, and size counts them.                                              *)
THEOREM NoTreeLoses == StepSpec => []TreesLoseNothing
<1>1. StepInit => Standing /\ PlainHolds BY TreeInit, PlainInit DEF StepInit, IInit
<1>2. Standing /\ PlainHolds /\ [StepNext]_<<itree, bst, kind>> => Standing' /\ PlainHolds'
  BY TreeStep, PlainStep DEF BagKept, PlainKept
<1>3. Standing /\ PlainHolds => TreesLoseNothing
  BY StandingHolds, PlainNothingLost DEF TreesLoseNothing
<1> QED BY <1>1, <1>2, <1>3, PTL DEF StepSpec

(* Insert, remove and clear of these trees are those of a bag of keys:      *)
(* remove finds an element with its key exactly when there is one, also     *)
(* when equal elements have come to stand on both sides of one another.     *)
THEOREM TreesAreBags == StepSpec => TreesImplementBags
BY BalancedIsBag, PlainIsBag DEF TreesImplementBags
=============================================================================
