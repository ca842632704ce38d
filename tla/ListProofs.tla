------------------------------- MODULE ListProofs --------------------------------
(***************************************************************************)
(* Proofs about the linked structures, for any memory and any data.         *)
(*                                                                         *)
(* First bl_hashtable: its elements stand on the chains of one table, or of *)
(* two while a rehash moves them, and are a stack of data for each key, for *)
(* any keys, hashes and table sizes.  Then bl_queue, bl_slist and bl_stack, *)
(* and what all of them have in common.  What is said of bl_queue is said   *)
(* of one that never removes the last of several elements (RemoveLast =     *)
(* FALSE; with it BLQueue_last.cfg has a counterexample).                   *)
(***************************************************************************)
EXTENDS StepLists, ListOpsProofs, FiniteSetTheorems

-----------------------------------------------------------------------------
(***************************************************************************)
(* bl_hashtable.  The elements stand on the chains q[k] of the slots k in   *)
(* K, the first of each at h[k].                                            *)
(***************************************************************************)
Chained(es, q, K, h) ==
    /\ Null \notin DOMAIN es
    /\ \A k \in K : Follows(es, q[k], Null) /\ h[k] = Start(q[k], Null)
    /\ \A e \in DOMAIN es : \E k \in K : e \in ToSet(q[k])
    /\ \A k, m \in K : \A e \in ToSet(q[k]) \cap ToSet(q[m]) : k = m

LEMMA ChainedWalk ==
    ASSUME NEW es, NEW q, NEW K, NEW h, Chained(es, q, K, h)
    PROVE  /\ Walk(es, Null, Null) = <<>>
           /\ \A k \in K : Walk(es, h[k], Null) = q[k]
<1> DEFINE P == {q[k] : k \in K}
<1>1. /\ Null \notin DOMAIN es
      /\ \A k \in K : Follows(es, q[k], Null) /\ h[k] = Start(q[k], Null)
      /\ \A e \in DOMAIN es : \E k \in K : e \in ToSet(q[k])
      /\ \A k, m \in K : \A e \in ToSet(q[k]) \cap ToSet(q[m]) : k = m
  BY DEF Chained
<1>2. Paths(es, P, Null)
  <2>1. \A p \in P : Follows(es, p, Null) BY <1>1
  <2>2. \A e \in DOMAIN es : \E p \in P : e \in ToSet(p) BY <1>1
  <2>3. ASSUME NEW p \in P, NEW s \in P, NEW e \in ToSet(p) \cap ToSet(s) PROVE p = s
    <3>1. PICK k \in K : p = q[k] OBVIOUS
    <3>2. PICK m \in K : s = q[m] OBVIOUS
    <3> QED BY <1>1, <3>1, <3>2
  <2> HIDE DEF P
  <2> QED BY <1>1, <2>1, <2>2, <2>3 DEF Paths
<1>3. \A k \in K : q[k] \in P OBVIOUS
<1> HIDE DEF P
<1>4. Walk(es, Null, Null) = <<>> /\ \A p \in P : Walk(es, Start(p, Null), Null) = p
  BY <1>2, WalkIs
<1> QED BY <1>1, <1>3, <1>4

LEMMA ChainedIs ==
    ASSUME NEW es, NEW q, NEW K, NEW h, Chained(es, q, K, h), NEW k \in K
    PROVE  /\ Follows(es, q[k], Null) /\ h[k] = Start(q[k], Null)
           /\ q[k] \in Seq(DOMAIN es) /\ Len(q[k]) \in Nat /\ DOMAIN q[k] = 1 .. Len(q[k])
           /\ \A n \in 1 .. Len(q[k]) : /\ q[k][n] \in DOMAIN es /\ q[k][n] \in ToSet(q[k])
                                        /\ es[q[k][n]].next = After(q[k], n, Null)
           /\ \A n, m \in 1 .. Len(q[k]) : q[k][n] = q[k][m] => n = m
           /\ ToSet(q[k]) \subseteq DOMAIN es
           /\ h[k] = After(q[k], 0, Null)
<1>1. Follows(es, q[k], Null) /\ h[k] = Start(q[k], Null) BY DEF Chained
<1> DEFINE s == q[k]
<1> HIDE DEF s
<1>2. Follows(es, s, Null) BY <1>1 DEF s
<1>3. /\ s \in Seq(DOMAIN es) /\ Len(s) \in Nat /\ DOMAIN s = 1 .. Len(s)
      /\ \A n \in 1 .. Len(s) : s[n] \in DOMAIN es
      /\ \A n, m \in 1 .. Len(s) : s[n] = s[m] => n = m
      /\ \A n \in 1 .. Len(s) : es[s[n]].next = After(s, n, Null)
      /\ Start(s, Null) = After(s, 0, Null)
  BY <1>2, FollowsIs
<1>4. ToSet(s) \subseteq DOMAIN es /\ \A n \in 1 .. Len(s) : s[n] \in ToSet(s) BY <1>3 DEF ToSet
<1> QED BY <1>1, <1>3, <1>4 DEF s

(* The chain keeps its elements and their next. *)
LEMMA ChainedSame ==
    ASSUME NEW es, NEW q, NEW K, NEW h, Chained(es, q, K, h), NEW es2, DOMAIN es2 = DOMAIN es,
           \A e \in DOMAIN es : es2[e].next = es[e].next
    PROVE  Chained(es2, q, K, h)
<1>1. ASSUME NEW k \in K PROVE Follows(es2, q[k], Null)
  <2>1. Follows(es, q[k], Null) /\ ToSet(q[k]) \subseteq DOMAIN es BY ChainedIs
  <2>2. \A e \in ToSet(q[k]) : e \in DOMAIN es2 /\ es2[e].next = es[e].next BY <2>1
  <2> QED BY <2>1, <2>2, FollowsSame
<1> QED BY <1>1 DEF Chained

(* A new element stands first on the chain of k. *)
Adds(es, q, K, h, k, c, es2, q2, h2) ==
    /\ k \in K /\ c \notin DOMAIN es /\ c # Null
    /\ DOMAIN es2 = DOMAIN es \cup {c}
    /\ es2[c].next = h[k]
    /\ \A e \in DOMAIN es : es2[e].next = es[e].next
    /\ \A m \in K : q2[m] = IF m = k THEN <<c>> \o q[k] ELSE q[m]
    /\ \A m \in K : h2[m] = IF m = k THEN c ELSE h[m]

LEMMA ChainedAdd ==
    ASSUME NEW es, NEW q, NEW K, NEW h, Chained(es, q, K, h),
           NEW k, NEW c, NEW es2, NEW q2, NEW h2, Adds(es, q, K, h, k, c, es2, q2, h2)
    PROVE  Chained(es2, q2, K, h2)
<1> USE DEF Adds
<1>1. /\ Null \notin DOMAIN es
      /\ \A m \in K : Follows(es, q[m], Null) /\ h[m] = Start(q[m], Null)
      /\ \A e \in DOMAIN es : \E m \in K : e \in ToSet(q[m])
      /\ \A m, n \in K : \A e \in ToSet(q[m]) \cap ToSet(q[n]) : m = n
  BY DEF Chained
<1>2. \A m \in K : ToSet(q[m]) \subseteq DOMAIN es BY ChainedIs
<1> DEFINE s == q[k]
           t == InsertAt(s, 1, c)
<1>3. s \in Seq(DOMAIN es) /\ Len(s) \in Nat /\ h[k] = After(s, 0, Null)
      /\ \A n \in 1 .. Len(s) : s[n] \in DOMAIN es
  BY ChainedIs
<1>4. 1 \in 1 .. Len(s) + 1 /\ 1 - 1 = 0 BY <1>3
<1>5. s \in Seq(DOMAIN es2) /\ c \in DOMAIN es2
  <2> DEFINE D == DOMAIN es
             E == DOMAIN es2
  <2>1. D \subseteq E /\ c \in E OBVIOUS
  <2> HIDE DEF s, D, E
  <2>2. s \in Seq(D) BY <1>3 DEF D
  <2>3. s \in Seq(E) BY <2>1, <2>2
  <2> QED BY <2>1, <2>3 DEF E
<1>6. t = <<c>> \o s /\ ToSet(t) = ToSet(s) \cup {c}
  <2>1. <<c>> \o s = InsertAt(s, 1, c) BY <1>5, ConsIs
  <2>2. ToSet(InsertAt(s, 1, c)) = ToSet(s) \cup {c}
    <3> DEFINE E == DOMAIN es2
    <3>1. s \in Seq(E) /\ c \in E /\ 1 \in 1 .. Len(s) + 1 BY <1>4, <1>5
    <3> HIDE DEF s, E
    <3>2. InsertAt(s, 1, c) \in Seq(E) /\ ToSet(InsertAt(s, 1, c)) = ToSet(s) \cup {c}
      BY <3>1, InsertAtIs
    <3> QED BY <3>2
  <2> QED BY <2>1, <2>2
<1>7. Follows(es2, t, Null) /\ Start(t, Null) = c
  <2>1. Follows(es, s, Null) /\ c \notin ToSet(s) /\ ToSet(s) \subseteq DOMAIN es2 BY <1>1, <1>2
  <2>2. es2[c].next = After(s, 1 - 1, Null) BY <1>3, <1>4
  <2>3. \A n \in 1 .. Len(s) : es2[s[n]].next = es[s[n]].next BY <1>3
  <2> HIDE DEF s, t, Adds
  <2> QED BY <1>4, <1>5, <2>1, <2>2, <2>3, FollowsIn DEF t
<1>8. ASSUME NEW m \in K PROVE Follows(es2, q2[m], Null) /\ h2[m] = Start(q2[m], Null)
  <2>1. CASE m = k BY <1>6, <1>7, <2>1
  <2>2. CASE m # k
    <3>1. \A e \in ToSet(q[m]) : e \in DOMAIN es2 /\ es2[e].next = es[e].next BY <1>2
    <3>2. Follows(es2, q[m], Null) BY <1>1, <3>1, FollowsSame
    <3> QED BY <1>1, <2>2, <3>2
  <2> QED BY <2>1, <2>2
<1>9. \A m \in K : ToSet(q2[m]) = IF m = k THEN ToSet(s) \cup {c} ELSE ToSet(q[m]) BY <1>6
<1> HIDE DEF s, t
<1>10. \A e \in DOMAIN es2 : \E m \in K : e \in ToSet(q2[m]) BY <1>1, <1>9 DEF s
<1>11. \A m, n \in K : \A e \in ToSet(q2[m]) \cap ToSet(q2[n]) : m = n BY <1>1, <1>2, <1>9 DEF s
<1> QED BY <1>1, <1>8, <1>10, <1>11 DEF Chained

(* The element at p leaves the chain of k. *)
Takes(es, q, K, h, k, p, es2, q2, h2) ==
    /\ k \in K /\ p \in 1 .. Len(q[k])
    /\ DOMAIN es2 = DOMAIN es \ {q[k][p]}
    /\ \A e \in DOMAIN es2 : es2[e].next = IF p # 1 /\ e = q[k][p - 1] THEN es[q[k][p]].next
                                            ELSE es[e].next
    /\ \A m \in K : q2[m] = IF m = k THEN RemoveAt(q[k], p) ELSE q[m]
    /\ \A m \in K : h2[m] = IF m = k /\ p = 1 THEN es[q[k][p]].next ELSE h[m]

LEMMA ChainedTake ==
    ASSUME NEW es, NEW q, NEW K, NEW h, Chained(es, q, K, h),
           NEW k, NEW p, NEW es2, NEW q2, NEW h2, Takes(es, q, K, h, k, p, es2, q2, h2)
    PROVE  Chained(es2, q2, K, h2)
<1> USE DEF Takes
<1>1. /\ Null \notin DOMAIN es
      /\ \A m \in K : Follows(es, q[m], Null) /\ h[m] = Start(q[m], Null)
      /\ \A e \in DOMAIN es : \E m \in K : e \in ToSet(q[m])
      /\ \A m, n \in K : \A e \in ToSet(q[m]) \cap ToSet(q[n]) : m = n
  BY DEF Chained
<1>2. \A m \in K : ToSet(q[m]) \subseteq DOMAIN es BY ChainedIs
<1> DEFINE s == q[k]
           x == s[p]
           t == RemoveAt(s, p)
<1>3. /\ s \in Seq(DOMAIN es) /\ Len(s) \in Nat /\ Follows(es, s, Null) /\ h[k] = Start(s, Null)
      /\ \A n \in 1 .. Len(s) : s[n] \in DOMAIN es /\ s[n] \in ToSet(s)
                                /\ es[s[n]].next = After(s, n, Null)
      /\ \A n, m \in 1 .. Len(s) : s[n] = s[m] => n = m
  BY ChainedIs
<1>4. p \in 1 .. Len(s) OBVIOUS
<1>5. p # 1 => p - 1 \in 1 .. Len(s) /\ p - 1 # p BY <1>3, <1>4
<1>6. \A e \in DOMAIN es2 : es2[e].next = IF p # 1 /\ e = s[p - 1] THEN es[x].next ELSE es[e].next
  OBVIOUS
<1>7. DOMAIN es2 = DOMAIN es \ {x} /\ x \in ToSet(s) BY <1>3
<1> HIDE DEF s, x
<1>8. Follows(es2, t, Null) /\ ToSet(t) = ToSet(s) \ {x}
      /\ Start(t, Null) = IF p = 1 THEN After(s, 1, Null) ELSE Start(s, Null)
  <2>1. \A n \in 1 .. Len(s) : n # p => s[n] \in DOMAIN es2 BY <1>3, <1>4, <1>7 DEF x
  <2>2. p # 1 => es2[s[p - 1]].next = After(s, p, Null)
    <3>1. es[x].next = After(s, p, Null) BY <1>3, <1>4 DEF x
    <3> QED BY <1>5, <1>6, <2>1, <3>1
  <2>3. \A n \in 1 .. Len(s) : n # p - 1 /\ n # p => es2[s[n]].next = es[s[n]].next
    <3> SUFFICES ASSUME NEW n \in 1 .. Len(s), n # p - 1, n # p PROVE es2[s[n]].next = es[s[n]].next
      OBVIOUS
    <3>1. ~(p # 1 /\ s[n] = s[p - 1]) BY <1>3, <1>5
    <3> QED BY <1>6, <2>1, <3>1
  <2> HIDE DEF t
  <2> QED BY <1>3, <1>4, <2>1, <2>2, <2>3, FollowsOut DEF t, x
<1>9. ASSUME NEW m \in K PROVE Follows(es2, q2[m], Null) /\ h2[m] = Start(q2[m], Null)
  <2>1. CASE m = k
    <3>1. p = 1 => es[x].next = After(s, 1, Null) BY <1>3, <1>4 DEF x
    <3>2. q2[m] = t /\ h2[m] = IF p = 1 THEN es[x].next ELSE h[k] BY <2>1 DEF s, x
    <3> QED BY <1>3, <1>8, <3>1, <3>2
  <2>2. CASE m # k
    <3>1. \A e \in ToSet(q[m]) : e \in DOMAIN es2 /\ es2[e].next = es[e].next
      <4> SUFFICES ASSUME NEW e \in ToSet(q[m]) PROVE e \in DOMAIN es2 /\ es2[e].next = es[e].next
        OBVIOUS
      <4>1. e \notin ToSet(s) /\ e \in DOMAIN es BY <1>1, <1>2, <2>2 DEF s
      <4>2. e # x /\ ~(p # 1 /\ e = s[p - 1]) BY <1>3, <1>5, <1>7, <4>1
      <4> QED BY <1>6, <1>7, <4>1, <4>2
    <3>2. Follows(es2, q[m], Null) BY <1>1, <3>1, FollowsSame
    <3> QED BY <1>1, <2>2, <3>2
  <2> QED BY <2>1, <2>2
<1>10. \A m \in K : ToSet(q2[m]) = IF m = k THEN ToSet(s) \ {x} ELSE ToSet(q[m]) BY <1>8 DEF s
<1> HIDE DEF t
<1>11. \A e \in DOMAIN es2 : \E m \in K : e \in ToSet(q2[m]) BY <1>1, <1>7, <1>10 DEF s
<1>12. \A m, n \in K : \A e \in ToSet(q2[m]) \cap ToSet(q2[n]) : m = n
  <2>1. \A m \in K : ToSet(q2[m]) \subseteq ToSet(q[m]) BY <1>10 DEF s
  <2> QED BY <1>1, <2>1
<1> QED BY <1>1, <1>7, <1>9, <1>11, <1>12 DEF Chained

(* The first element of the chain of k becomes the first of that of m. *)
Moves(es, q, K, h, k, m, es2, q2, h2) ==
    /\ k \in K /\ m \in K /\ k # m /\ h[k] # Null
    /\ DOMAIN es2 = DOMAIN es
    /\ es2[h[k]].next = h[m]
    /\ \A e \in DOMAIN es : e # h[k] => es2[e].next = es[e].next
    /\ \A n \in K : q2[n] = IF n = k THEN RemoveAt(q[k], 1)
                             ELSE IF n = m THEN <<h[k]>> \o q[m] ELSE q[n]
    /\ \A n \in K : h2[n] = IF n = k THEN es[h[k]].next ELSE IF n = m THEN h[k] ELSE h[n]

LEMMA ChainedMove ==
    ASSUME NEW es, NEW q, NEW K, NEW h, Chained(es, q, K, h),
           NEW k, NEW m, NEW es2, NEW q2, NEW h2, Moves(es, q, K, h, k, m, es2, q2, h2)
    PROVE  Chained(es2, q2, K, h2) /\ 1 \in 1 .. Len(q[k]) /\ h[k] = q[k][1]
<1> USE DEF Moves
<1> DEFINE c == h[k]
           D == DOMAIN es
           es1 == [e \in D \ {c} |-> es[e]]
           q1 == [n \in K |-> IF n = k THEN RemoveAt(q[k], 1) ELSE q[n]]
           h1 == [n \in K |-> IF n = k THEN es[c].next ELSE h[n]]
<1>1. /\ q[k] \in Seq(D) /\ Len(q[k]) \in Nat /\ c = Start(q[k], Null)
      /\ \A n \in 1 .. Len(q[k]) : q[k][n] \in D
      /\ Null \notin D
  <2>1. Null \notin D BY DEF Chained
  <2> QED BY <2>1, ChainedIs
<1>2. 1 \in 1 .. Len(q[k]) /\ c = q[k][1] /\ c \in D
  <2>1. q[k] # <<>> /\ c = q[k][1] BY <1>1 DEF Start
  <2>2. 1 \in 1 .. Len(q[k]) BY <1>1, <2>1
  <2> QED BY <1>1, <2>1, <2>2
<1>3. Chained(es1, q1, K, h1)
  <2> DEFINE p == 1
  <2>1. /\ p \in 1 .. Len(q[k])
        /\ DOMAIN es1 = D \ {q[k][p]}
        /\ \A e \in DOMAIN es1 : es1[e].next = IF p # 1 /\ e = q[k][p - 1] THEN es[q[k][p]].next
                                                ELSE es[e].next
    BY <1>2
  <2>2. \A n \in K : q1[n] = IF n = k THEN RemoveAt(q[k], p) ELSE q[n] OBVIOUS
  <2>3. \A n \in K : h1[n] = IF n = k /\ p = 1 THEN es[q[k][p]].next ELSE h[n] BY <1>2
  <2> HIDE DEF es1, q1, h1, c, p
  <2>4. Takes(es, q, K, h, k, p, es1, q1, h1) BY <2>1, <2>2, <2>3 DEF Takes
  <2> QED BY <2>4, ChainedTake, Zenon
<1>4. Chained(es2, q2, K, h2)
  <2>1. /\ c \notin DOMAIN es1 /\ c # Null /\ DOMAIN es2 = DOMAIN es1 \cup {c}
        /\ es2[c].next = h1[m] /\ \A e \in DOMAIN es1 : es2[e].next = es1[e].next
    BY <1>1, <1>2
  <2>2. \A n \in K : q2[n] = IF n = m THEN <<c>> \o q1[m] ELSE q1[n] OBVIOUS
  <2>3. \A n \in K : h2[n] = IF n = m THEN c ELSE h1[n] OBVIOUS
  <2> HIDE DEF es1, q1, h1, c
  <2>4. Adds(es1, q1, K, h1, m, c, es2, q2, h2) BY <2>1, <2>2, <2>3 DEF Adds
  <2> QED BY <1>3, <2>4, ChainedAdd, Zenon
<1> QED BY <1>2, <1>4

-----------------------------------------------------------------------------
(* A table T of ts chains, of which those up to r are moved to the table N   *)
(* of ns chains; m is the first element of the chain r that is not.          *)
Slots(ts, ns) == ({"old"} \X (0 .. ts - 1)) \cup ({"new"} \X (0 .. ns - 1))
HeadAt(T, N, ns, r, m, k) ==
    IF k[1] = "new" THEN N[k[2]]
    ELSE IF ns = 0 \/ k[2] > r THEN T[k[2]]
    ELSE IF k[2] = r THEN m ELSE Null
Heads(T, ts, N, ns, r, m) == [k \in Slots(ts, ns) |-> HeadAt(T, N, ns, r, m, k)]
Pairs(es) ==
    /\ DOMAIN es \subseteq Cell /\ IsFiniteSet(DOMAIN es)
    /\ es = [e \in DOMAIN es |-> es[e]]
    /\ \A e \in DOMAIN es : es[e] \in [key : Key, data : Data, next : Cell \cup {Null}]
Shaped(T, ts, N, ns, r, m) ==
    /\ ts \in Nat \ {0} /\ ns \in Nat /\ r \in 0 .. ts - 1
    /\ T \in [0 .. ts - 1 -> Cell \cup {Null}]
    /\ N \in [0 .. ns - 1 -> Cell \cup {Null}]
    /\ m \in Cell \cup {Null}
    /\ ns = 0 => r = 0 /\ m = Null
AtHome(g, es, q, ts, ns) ==
    /\ g \in [Key -> Nat]
    /\ \A k \in Slots(ts, ns) : \A e \in ToSet(q[k]) :
         k[2] = g[es[e].key] % (IF k[1] = "old" THEN ts ELSE ns)

(* The elements es stand on the chains q of the tables T and N.              *)
Stands(g, es, T, ts, n, N, ns, r, m, q) ==
    /\ Pairs(es)
    /\ Shaped(T, ts, N, ns, r, m)
    /\ Chained(es, q, Slots(ts, ns), Heads(T, ts, N, ns, r, m))
    /\ AtHome(g, es, q, ts, ns)
    /\ n = Cardinality(DOMAIN es)

HashStands(q) == Stands(hash, hElms, table, tableSize, count, newTable, newSize, row, moving, q)

LEMMA HashOps ==
    /\ \A es, c, nil : Hash!Walk(es, c, nil) = Walk(es, c, nil)
    /\ \A S : Hash!Min(S) = Min(S)
    /\ \A s, S : Hash!Among(s, S) = Among(s, S)
    /\ \A s : Hash!ToSet(s) = ToSet(s)
    /\ \A s : Hash!Reverse(s) = Reverse(s)
    /\ \A s : Hash!Store!Reverse(s) = Reverse(s)
    /\ \A f, S : Hash!Restrict(f, S) = Restrict(f, S)
    /\ \A f : Hash!Range(f) = Range(f)
    /\ \A S : Hash!Cardinality(S) = Cardinality(S)
<1>1. \A es, c, nil : Hash!Walk(es, c, nil) = Walk(es, c, nil) BY DEF Hash!Walk, Walk
<1>2. \A S : Hash!Min(S) = Min(S) BY DEF Hash!Min, Min
<1>3. \A s, S : Hash!Among(s, S) = Among(s, S) BY DEF Hash!Among, Among
<1>4. \A s : Hash!ToSet(s) = ToSet(s) BY DEF Hash!ToSet, ToSet
<1>5. \A s : Hash!Reverse(s) = Reverse(s) BY DEF Hash!Reverse, Reverse
<1>6. \A s : Hash!Store!Reverse(s) = Reverse(s) BY DEF Hash!Store!Reverse, Reverse
<1>7. \A f, S : Hash!Restrict(f, S) = Restrict(f, S) BY DEF Hash!Restrict, Restrict
<1>8. \A f : Hash!Range(f) = Range(f) BY DEF Hash!Range, Range
<1>9. \A S : Hash!Cardinality(S) = Cardinality(S) BY DEF Hash!Cardinality, Cardinality
<1> QED BY <1>1, <1>2, <1>3, <1>4, <1>5, <1>6, <1>7, <1>8, <1>9

LEMMA SlotsAre ==
    ASSUME NEW ts \in Nat, NEW ns \in Nat
    PROVE  /\ \A j \in 0 .. ts - 1 : <<"old", j>> \in Slots(ts, ns)
           /\ \A j \in 0 .. ns - 1 : <<"new", j>> \in Slots(ts, ns)
           /\ \A k \in Slots(ts, ns) : \/ \E j \in 0 .. ts - 1 : k = <<"old", j>>
                                       \/ \E j \in 0 .. ns - 1 : k = <<"new", j>>
           /\ \A i, j : <<"old", i>> # <<"new", j>>
           /\ \A i, j : <<"old", i>> = <<"old", j>> => i = j
           /\ \A i, j : <<"new", i>> = <<"new", j>> => i = j
BY DEF Slots

LEMMA HeadsAre ==
    ASSUME NEW T, NEW ts \in Nat, NEW N, NEW ns \in Nat, NEW r, NEW m
    PROVE  /\ \A j \in 0 .. ts - 1 : Heads(T, ts, N, ns, r, m)[<<"old", j>>] =
                IF ns = 0 \/ j > r THEN T[j] ELSE IF j = r THEN m ELSE Null
           /\ \A j \in 0 .. ns - 1 : Heads(T, ts, N, ns, r, m)[<<"new", j>>] = N[j]
BY SlotsAre DEF Heads, HeadAt

LEMMA HashReads ==
    ASSUME NEW q, HashStands(q)
    PROVE  /\ \A j \in 0 .. tableSize - 1 : Hash!Rest(j) = q[<<"old", j>>]
           /\ \A j \in 0 .. newSize - 1 : Hash!Moved(j) = q[<<"new", j>>]
           /\ newSize = 0 => \A j \in 0 .. tableSize - 1 : Hash!Chain(table[j]) = q[<<"old", j>>]
           /\ Hash!Idle <=> newSize = 0
<1>1. /\ Shaped(table, tableSize, newTable, newSize, row, moving)
      /\ Chained(hElms, q, Slots(tableSize, newSize),
                 Heads(table, tableSize, newTable, newSize, row, moving))
  BY DEF HashStands, Stands
<1> DEFINE K == Slots(tableSize, newSize)
           h == Heads(table, tableSize, newTable, newSize, row, moving)
<1>2. tableSize \in Nat /\ newSize \in Nat /\ row \in Nat BY <1>1 DEF Shaped
<1>3. /\ Walk(hElms, Null, Null) = <<>>
      /\ \A k \in K : Walk(hElms, h[k], Null) = q[k]
  BY <1>1, ChainedWalk
<1>4. /\ \A j \in 0 .. tableSize - 1 : <<"old", j>> \in K
      /\ \A j \in 0 .. newSize - 1 : <<"new", j>> \in K
  BY <1>2, SlotsAre
<1>5. /\ \A j \in 0 .. tableSize - 1 : h[<<"old", j>>] =
            IF newSize = 0 \/ j > row THEN table[j] ELSE IF j = row THEN moving ELSE Null
      /\ \A j \in 0 .. newSize - 1 : h[<<"new", j>>] = newTable[j]
  <2>1. \A k \in K : h[k] = HeadAt(table, newTable, newSize, row, moving, k) BY DEF Heads
  <2> HIDE DEF K, h
  <2>2. /\ \A j \in 0 .. tableSize - 1 :
              h[<<"old", j>>] = HeadAt(table, newTable, newSize, row, moving, <<"old", j>>)
        /\ \A j \in 0 .. newSize - 1 :
              h[<<"new", j>>] = HeadAt(table, newTable, newSize, row, moving, <<"new", j>>)
    BY <1>4, <2>1
  <2> QED BY <2>2 DEF HeadAt
<1> HIDE DEF K, h
<1>6. \A c : Hash!Chain(c) = Walk(hElms, c, Null) BY HashOps DEF Hash!Chain
<1>7. Hash!Idle <=> newSize = 0 BY DEF Hash!Idle
<1>8. ASSUME NEW j \in 0 .. tableSize - 1 PROVE Hash!Rest(j) = q[<<"old", j>>]
  <2>1. CASE newSize = 0 \/ j > row
    <3>1. Hash!Rest(j) = Walk(hElms, table[j], Null) BY <1>6, <1>7, <2>1 DEF Hash!Rest
    <3> QED BY <1>3, <1>4, <1>5, <2>1, <3>1
  <2>2. CASE ~(newSize = 0 \/ j > row) /\ j = row
    <3>1. Hash!Rest(j) = Walk(hElms, moving, Null) BY <1>6, <1>7, <2>2 DEF Hash!Rest
    <3> QED BY <1>3, <1>4, <1>5, <2>2, <3>1
  <2>3. CASE ~(newSize = 0 \/ j > row) /\ j # row
    <3>1. Hash!Rest(j) = <<>> BY <1>7, <2>3 DEF Hash!Rest
    <3>2. h[<<"old", j>>] = Null BY <1>5, <2>3
    <3> QED BY <1>3, <1>4, <3>1, <3>2
  <2> QED BY <2>1, <2>2, <2>3
<1>9. ASSUME NEW j \in 0 .. newSize - 1 PROVE Hash!Moved(j) = q[<<"new", j>>]
  BY <1>3, <1>4, <1>5, <1>6 DEF Hash!Moved
<1>10. ASSUME newSize = 0, NEW j \in 0 .. tableSize - 1
       PROVE Hash!Chain(table[j]) = q[<<"old", j>>]
  BY <1>3, <1>4, <1>5, <1>6, <1>10
<1> QED BY <1>7, <1>8, <1>9, <1>10

LEMMA HashIntact ==
    ASSUME NEW q, HashStands(q)
    PROVE  Hash!TableIntact
<1>1. /\ Shaped(table, tableSize, newTable, newSize, row, moving)
      /\ Chained(hElms, q, Slots(tableSize, newSize),
                 Heads(table, tableSize, newTable, newSize, row, moving))
      /\ AtHome(hash, hElms, q, tableSize, newSize)
      /\ count = Cardinality(DOMAIN hElms)
  BY DEF HashStands, Stands
<1> DEFINE K == Slots(tableSize, newSize)
<1>2. /\ tableSize \in Nat /\ newSize \in Nat
      /\ DOMAIN table = 0 .. tableSize - 1 /\ DOMAIN newTable = 0 .. newSize - 1
  BY <1>1 DEF Shaped
<1>3. /\ \A j \in DOMAIN table : Hash!Rest(j) = q[<<"old", j>>] /\ <<"old", j>> \in K
      /\ \A j \in DOMAIN newTable : Hash!Moved(j) = q[<<"new", j>>] /\ <<"new", j>> \in K
      /\ \A k \in K : \/ \E j \in DOMAIN table : k = <<"old", j>>
                      \/ \E j \in DOMAIN newTable : k = <<"new", j>>
  BY <1>2, HashReads, SlotsAre
<1>4. /\ \A e \in DOMAIN hElms : \E k \in K : e \in ToSet(q[k])
      /\ \A k, m \in K : \A e \in ToSet(q[k]) \cap ToSet(q[m]) : k = m
  BY <1>1 DEF Chained
<1>5. \A k \in K : ToSet(q[k]) \subseteq DOMAIN hElms BY <1>1, ChainedIs
<1>6. \A k \in K : \A e \in ToSet(q[k]) :
          k[2] = hash[hElms[e].key] % (IF k[1] = "old" THEN tableSize ELSE newSize)
  BY <1>1 DEF AtHome
<1> HIDE DEF K
<1>7. \A s : Hash!ToSet(s) = ToSet(s) BY HashOps
<1>8. \A j \in DOMAIN table : \A e \in Hash!ToSet(Hash!Rest(j)) :
          Hash!Index(hElms[e].key, tableSize) = j
  <2> SUFFICES ASSUME NEW j \in DOMAIN table, NEW e \in ToSet(q[<<"old", j>>])
               PROVE  hash[hElms[e].key] % tableSize = j
    BY <1>3, <1>7 DEF Hash!Index
  <2>1. <<"old", j>>[1] = "old" /\ <<"old", j>>[2] = j /\ <<"old", j>> \in K BY <1>3
  <2> QED BY <1>6, <2>1
<1>9. \A j \in DOMAIN newTable : \A e \in Hash!ToSet(Hash!Moved(j)) :
          Hash!Index(hElms[e].key, newSize) = j
  <2> SUFFICES ASSUME NEW j \in DOMAIN newTable, NEW e \in ToSet(q[<<"new", j>>])
               PROVE  hash[hElms[e].key] % newSize = j
    BY <1>3, <1>7 DEF Hash!Index
  <2>1. <<"new", j>>[1] = "new" /\ <<"new", j>>[2] = j /\ <<"new", j>> \in K BY <1>3
  <2> QED BY <1>6, <2>1
<1>10. Hash!Chains = {q[k] : k \in K}
  <2>1. Hash!Chains = {Hash!Rest(j) : j \in DOMAIN table} \cup {Hash!Moved(j) : j \in DOMAIN newTable}
    BY DEF Hash!Chains
  <2>2. ASSUME NEW p \in Hash!Chains PROVE p \in {q[k] : k \in K} BY <1>3, <2>1
  <2>3. ASSUME NEW k \in K PROVE q[k] \in Hash!Chains BY <1>3, <2>1
  <2> QED BY <2>2, <2>3
<1>11. DOMAIN hElms = UNION {Hash!ToSet(p) : p \in Hash!Chains}
  <2>1. ASSUME NEW e \in DOMAIN hElms PROVE \E p \in Hash!Chains : e \in Hash!ToSet(p)
    BY <1>4, <1>7, <1>10
  <2>2. ASSUME NEW p \in Hash!Chains PROVE Hash!ToSet(p) \subseteq DOMAIN hElms BY <1>5, <1>7, <1>10
  <2> QED BY <2>1, <2>2
<1>12. \A p, s \in Hash!Chains : p # s => Hash!ToSet(p) \cap Hash!ToSet(s) = {}
  BY <1>4, <1>7, <1>10
<1>13. count = Hash!Cardinality(DOMAIN hElms) BY <1>1, HashOps
<1> QED BY <1>8, <1>9, <1>11, <1>12, <1>13 DEF Hash!TableIntact
-----------------------------------------------------------------------------
LEMMA ModIs == \A a \in Nat, b \in Nat \ {0} : a % b \in 0 .. b - 1
OBVIOUS

LEMMA ConsSet ==
    ASSUME NEW S, NEW s \in Seq(S), NEW e \in S
    PROVE  ToSet(<<e>> \o s) = ToSet(s) \cup {e}
<1>1. 1 \in 1 .. Len(s) + 1 /\ <<e>> \o s = InsertAt(s, 1, e) BY ConsIs
<1>2. InsertAt(s, 1, e) \in Seq(S) /\ ToSet(InsertAt(s, 1, e)) = ToSet(s) \cup {e}
  BY <1>1, InsertAtIs
<1> QED BY <1>1, <1>2

LEMMA StandsIs ==
    ASSUME NEW g, NEW es, NEW T, NEW ts, NEW n, NEW N, NEW ns, NEW r, NEW m, NEW q,
           Stands(g, es, T, ts, n, N, ns, r, m, q)
    PROVE  /\ ts \in Nat \ {0} /\ ns \in Nat /\ r \in 0 .. ts - 1
           /\ \A k \in Key : /\ g[k] % ts \in 0 .. ts - 1
                             /\ <<"old", g[k] % ts>> \in Slots(ts, ns)
                             /\ ns # 0 => /\ g[k] % ns \in 0 .. ns - 1
                                          /\ <<"new", g[k] % ns>> \in Slots(ts, ns)
           /\ \A k \in Slots(ts, ns) :
                 /\ q[k] \in Seq(DOMAIN es) /\ ToSet(q[k]) \subseteq DOMAIN es
                 /\ Follows(es, q[k], Null)
           /\ DOMAIN es \subseteq Cell /\ Null \notin Cell
           /\ \A e \in DOMAIN es : es[e].key \in Key /\ es[e].data \in Data
           /\ \A k \in Key : g[k] \in Nat
<1>1. /\ Pairs(es) /\ Shaped(T, ts, N, ns, r, m) /\ AtHome(g, es, q, ts, ns)
      /\ Chained(es, q, Slots(ts, ns), Heads(T, ts, N, ns, r, m))
  BY DEF Stands
<1>2. ts \in Nat \ {0} /\ ns \in Nat /\ r \in 0 .. ts - 1 BY <1>1 DEF Shaped
<1>3. \A k \in Key : g[k] \in Nat BY <1>1 DEF AtHome
<1>4. ASSUME NEW k \in Key
      PROVE  /\ g[k] % ts \in 0 .. ts - 1 /\ <<"old", g[k] % ts>> \in Slots(ts, ns)
             /\ ns # 0 => /\ g[k] % ns \in 0 .. ns - 1
                          /\ <<"new", g[k] % ns>> \in Slots(ts, ns)
  <2>1. g[k] % ts \in 0 .. ts - 1 /\ (ns # 0 => g[k] % ns \in 0 .. ns - 1) BY <1>2, <1>3, ModIs
  <2> QED BY <1>2, <2>1, SlotsAre
<1>5. \A k \in Slots(ts, ns) : /\ q[k] \in Seq(DOMAIN es) /\ ToSet(q[k]) \subseteq DOMAIN es
                               /\ Follows(es, q[k], Null)
  BY <1>1, ChainedIs
<1>6. DOMAIN es \subseteq Cell /\ \A e \in DOMAIN es : es[e].key \in Key /\ es[e].data \in Data
  BY <1>1 DEF Pairs
<1> QED BY <1>2, <1>3, <1>4, <1>5, <1>6, QueueAssumption

(* A new element, of k and d, in the cell c.                                 *)
AddedAt(g, es, T, ts, n, k, d, c, es2, T2, n2) ==
    /\ k \in Key /\ d \in Data /\ c \in Cell \ DOMAIN es
    /\ es2 = [e \in DOMAIN es \cup {c} |->
                IF e = c THEN [key |-> k, data |-> d, next |-> T[g[k] % ts]] ELSE es[e]]
    /\ T2 = [T EXCEPT ![g[k] % ts] = c]
    /\ n2 = n + 1
PutAt(q, K, b, c) == [x \in K |-> IF x = b THEN <<c>> \o q[b] ELSE q[x]]

LEMMA StandsAdd ==
    ASSUME NEW g, NEW es, NEW T, NEW ts, NEW n, NEW N, NEW ns, NEW r, NEW m, NEW q,
           Stands(g, es, T, ts, n, N, ns, r, m, q), ns = 0,
           NEW k, NEW d, NEW c, NEW es2, NEW T2, NEW n2,
           AddedAt(g, es, T, ts, n, k, d, c, es2, T2, n2)
    PROVE  Stands(g, es2, T2, ts, n2, N, ns, r, m,
                  PutAt(q, Slots(ts, ns), <<"old", g[k] % ts>>, c))
<1> DEFINE K == Slots(ts, ns)
           h == Heads(T, ts, N, ns, r, m)
           h2 == Heads(T2, ts, N, ns, r, m)
           j == g[k] % ts
           b == <<"old", j>>
           q2 == PutAt(q, K, b, c)
<1>1. /\ Pairs(es) /\ Shaped(T, ts, N, ns, r, m) /\ AtHome(g, es, q, ts, ns)
      /\ Chained(es, q, K, h) /\ n = Cardinality(DOMAIN es)
  BY DEF Stands
<1>2. /\ ts \in Nat \ {0} /\ ns \in Nat /\ r \in 0 .. ts - 1
      /\ k \in Key /\ j \in 0 .. ts - 1 /\ b \in K /\ b[1] = "old" /\ b[2] = j
      /\ \A x \in K : q[x] \in Seq(DOMAIN es) /\ ToSet(q[x]) \subseteq DOMAIN es
      /\ Null \notin Cell
  <2>1. k \in Key BY DEF AddedAt
  <2> QED BY <2>1, StandsIs
<1>3. /\ c \in Cell \ DOMAIN es /\ c # Null /\ d \in Data /\ n2 = n + 1
      /\ DOMAIN es2 = DOMAIN es \cup {c}
      /\ es2[c] = [key |-> k, data |-> d, next |-> T[j]]
      /\ \A e \in DOMAIN es : es2[e] = es[e]
      /\ es2 = [e \in DOMAIN es2 |-> es2[e]]
      /\ T2 = [T EXCEPT ![j] = c]
  BY <1>2 DEF AddedAt
<1> HIDE DEF j
<1>4. T \in [0 .. ts - 1 -> Cell \cup {Null}] /\ T[j] \in Cell \cup {Null} BY <1>1, <1>2 DEF Shaped
<1>5. Pairs(es2)
  <2>1. IsFiniteSet(DOMAIN es2) BY <1>1, <1>3, FS_AddElement DEF Pairs
  <2>2. \A e \in DOMAIN es2 : es2[e] \in [key : Key, data : Data, next : Cell \cup {Null}]
    BY <1>1, <1>2, <1>3, <1>4 DEF Pairs
  <2> QED BY <1>1, <1>3, <2>1, <2>2 DEF Pairs
<1>6. Shaped(T2, ts, N, ns, r, m)
  <2>1. T2 \in [0 .. ts - 1 -> Cell \cup {Null}] BY <1>3, <1>4
  <2> QED BY <1>1, <2>1 DEF Shaped
<1>7. n2 = Cardinality(DOMAIN es2) BY <1>1, <1>3, FS_AddElement DEF Pairs
<1>8. \A x \in K : /\ h2[x] = IF x = b THEN c ELSE h[x]
                   /\ x = b => h[x] = T[j]
  <2>1. ASSUME NEW x \in K PROVE \E a \in 0 .. ts - 1 : x = <<"old", a>>
    BY <1>2, SlotsAre
  <2>2. ASSUME NEW a \in 0 .. ts - 1 PROVE /\ h2[<<"old", a>>] = T2[a] /\ h[<<"old", a>>] = T[a]
                                           /\ <<"old", a>> = b <=> a = j
    <3>1. h2[<<"old", a>>] = T2[a] /\ h[<<"old", a>>] = T[a] BY <1>2, SlotsAre DEF Heads, HeadAt
    <3> QED BY <3>1
  <2>3. \A a \in 0 .. ts - 1 : T2[a] = IF a = j THEN c ELSE T[a] BY <1>3, <1>4
  <2> HIDE DEF h, h2, b
  <2> QED BY <2>1, <2>2, <2>3
<1>9. \A x \in K : q2[x] = IF x = b THEN <<c>> \o q[b] ELSE q[x] BY DEF PutAt
<1> HIDE DEF b, K, h, h2, q2
<1>10. Chained(es2, q2, K, h2)
  <2>1. Adds(es, q, K, h, b, c, es2, q2, h2) BY <1>2, <1>3, <1>8, <1>9 DEF Adds
  <2> QED BY <1>1, <2>1, ChainedAdd, Zenon
<1>11. AtHome(g, es2, q2, ts, ns)
  <2> SUFFICES ASSUME NEW x \in K, NEW e \in ToSet(q2[x])
               PROVE  x[2] = g[es2[e].key] % (IF x[1] = "old" THEN ts ELSE ns)
    BY <1>1 DEF AtHome, K
  <2>1. CASE e \in ToSet(q[x])
    <3>1. es2[e] = es[e] BY <1>2, <1>3, <2>1
    <3> QED BY <1>1, <2>1, <3>1 DEF AtHome, K
  <2>2. CASE e \notin ToSet(q[x])
    <3>1. x = b BY <1>9, <2>2
    <3>2. ToSet(q2[x]) = ToSet(q[x]) \cup {c}
      <4> DEFINE E == DOMAIN es2
                 s == q[b]
      <4>1. s \in Seq(DOMAIN es) /\ DOMAIN es \subseteq E /\ c \in E BY <1>2, <1>3
      <4> HIDE DEF E, s
      <4>2. s \in Seq(E) BY <4>1
      <4>3. ToSet(<<c>> \o s) = ToSet(s) \cup {c} BY <4>1, <4>2, ConsSet
      <4> QED BY <1>9, <3>1, <4>3 DEF s
    <3>3. e = c /\ es2[e].key = k BY <1>3, <2>2, <3>2
    <3> QED BY <1>2, <3>1, <3>3 DEF j
  <2> QED BY <2>1, <2>2
<1>12. Stands(g, es2, T2, ts, n2, N, ns, r, m, q2)
  BY <1>5, <1>6, <1>7, <1>10, <1>11 DEF Stands, K, h2
<1> QED BY <1>12 DEF q2, b, j, K
-----------------------------------------------------------------------------
(* The element at p of the chain of k is taken out.                          *)
TakenAt(g, es, T, ts, n, q, k, p, es2, T2, n2) ==
    LET j == g[k] % ts
        s == q[<<"old", j>>]
    IN /\ k \in Key /\ p \in 1 .. Len(s)
       /\ DOMAIN es2 = DOMAIN es \ {s[p]} /\ es2 = [e \in DOMAIN es2 |-> es2[e]]
       /\ \A e \in DOMAIN es2 :
            es2[e] = IF p # 1 /\ e = s[p - 1] THEN [es[e] EXCEPT !.next = es[s[p]].next] ELSE es[e]
       /\ T2 = IF p = 1 THEN [T EXCEPT ![j] = es[s[p]].next] ELSE T
       /\ n2 = n - 1
TakeAt(q, K, b, p) == [x \in K |-> IF x = b THEN RemoveAt(q[b], p) ELSE q[x]]

LEMMA OutSet ==
    ASSUME NEW S, NEW s \in Seq(S), NEW p \in 1 .. Len(s)
    PROVE  ToSet(RemoveAt(s, p)) \subseteq ToSet(s)
<1>1. RemoveAt(s, p) \in Seq(S) /\ Len(RemoveAt(s, p)) = Len(s) - 1 /\ RemoveAt(s, p) = Outset(s, p)
  BY RemoveAtIs
<1> DEFINE t == RemoveAt(s, p)
<1>2. t \in Seq(S) /\ Len(t) = Len(s) - 1
      /\ \A k \in 1 .. Len(s) - 1 : t[k] = IF k < p THEN s[k] ELSE s[k + 1]
  BY <1>1 DEF Outset
<1>3. Len(s) \in Nat /\ DOMAIN s = 1 .. Len(s) OBVIOUS
<1> HIDE DEF t
<1>4. DOMAIN t = 1 .. Len(s) - 1 BY <1>2
<1>5. \A k \in DOMAIN t : t[k] \in ToSet(s)
  <2> SUFFICES ASSUME NEW k \in 1 .. Len(s) - 1 PROVE t[k] \in ToSet(s) BY <1>4
  <2>1. k \in DOMAIN s /\ k + 1 \in DOMAIN s BY <1>3
  <2> QED BY <1>2, <2>1 DEF ToSet
<1>6. ToSet(t) \subseteq ToSet(s) BY <1>5 DEF ToSet
<1> QED BY <1>6 DEF t

LEMMA StandsTake ==
    ASSUME NEW g, NEW es, NEW T, NEW ts, NEW n, NEW N, NEW ns, NEW r, NEW m, NEW q,
           Stands(g, es, T, ts, n, N, ns, r, m, q), ns = 0,
           NEW k, NEW p, NEW es2, NEW T2, NEW n2,
           TakenAt(g, es, T, ts, n, q, k, p, es2, T2, n2)
    PROVE  Stands(g, es2, T2, ts, n2, N, ns, r, m,
                  TakeAt(q, Slots(ts, ns), <<"old", g[k] % ts>>, p))
<1> DEFINE K == Slots(ts, ns)
           h == Heads(T, ts, N, ns, r, m)
           h2 == Heads(T2, ts, N, ns, r, m)
           j == g[k] % ts
           b == <<"old", j>>
           s == q[b]
           y == s[p]
           w == es[y].next
           q2 == TakeAt(q, K, b, p)
<1>1. /\ Pairs(es) /\ Shaped(T, ts, N, ns, r, m) /\ AtHome(g, es, q, ts, ns)
      /\ Chained(es, q, K, h) /\ n = Cardinality(DOMAIN es)
  BY DEF Stands
<1>2. /\ ts \in Nat \ {0} /\ ns \in Nat /\ r \in 0 .. ts - 1
      /\ k \in Key /\ j \in 0 .. ts - 1 /\ b \in K /\ b[1] = "old" /\ b[2] = j
      /\ \A x \in K : q[x] \in Seq(DOMAIN es) /\ ToSet(q[x]) \subseteq DOMAIN es
      /\ Null \notin Cell
  <2>1. k \in Key BY DEF TakenAt
  <2> QED BY <2>1, StandsIs
<1>3. /\ p \in 1 .. Len(s) /\ n2 = n - 1
      /\ DOMAIN es2 = DOMAIN es \ {y} /\ es2 = [e \in DOMAIN es2 |-> es2[e]]
      /\ \A e \in DOMAIN es2 :
            es2[e] = IF p # 1 /\ e = s[p - 1] THEN [es[e] EXCEPT !.next = w] ELSE es[e]
      /\ T2 = IF p = 1 THEN [T EXCEPT ![j] = w] ELSE T
  BY DEF TakenAt
<1>4. s \in Seq(DOMAIN es) /\ y \in DOMAIN es
  <2>1. s \in Seq(DOMAIN es) /\ p \in 1 .. Len(s) BY <1>2, <1>3, Zenon
  <2> DEFINE D == DOMAIN es
  <2> HIDE DEF s, D
  <2>2. s \in Seq(D) /\ p \in 1 .. Len(s) BY <2>1 DEF D
  <2>3. s[p] \in D BY <2>2
  <2> QED BY <2>2, <2>3 DEF D
<1> HIDE DEF j, s, y
<1>5. T \in [0 .. ts - 1 -> Cell \cup {Null}] /\ w \in Cell \cup {Null}
  <2>1. es[y] \in [key : Key, data : Data, next : Cell \cup {Null}] BY <1>1, <1>4 DEF Pairs
  <2> QED BY <1>1, <2>1 DEF Shaped
<1> HIDE DEF w
<1>6. \A e \in DOMAIN es2 :
         /\ es[e] \in [key : Key, data : Data, next : Cell \cup {Null}]
         /\ es2[e] \in [key : Key, data : Data, next : Cell \cup {Null}]
         /\ es2[e].key = es[e].key /\ es2[e].data = es[e].data
         /\ es2[e].next = IF p # 1 /\ e = s[p - 1] THEN w ELSE es[e].next
  <2> SUFFICES ASSUME NEW e \in DOMAIN es2
               PROVE  /\ es[e] \in [key : Key, data : Data, next : Cell \cup {Null}]
                      /\ es2[e] \in [key : Key, data : Data, next : Cell \cup {Null}]
                      /\ es2[e].key = es[e].key /\ es2[e].data = es[e].data
                      /\ es2[e].next = IF p # 1 /\ e = s[p - 1] THEN w ELSE es[e].next
    OBVIOUS
  <2>1. es[e] \in [key : Key, data : Data, next : Cell \cup {Null}] BY <1>1, <1>3 DEF Pairs
  <2>2. es2[e] = IF p # 1 /\ e = s[p - 1] THEN [es[e] EXCEPT !.next = w] ELSE es[e] BY <1>3
  <2>3. CASE p # 1 /\ e = s[p - 1] BY <1>5, <2>1, <2>2, <2>3
  <2>4. CASE ~(p # 1 /\ e = s[p - 1]) BY <2>1, <2>2, <2>4
  <2> QED BY <2>3, <2>4
<1>7. Pairs(es2)
  <2>1. IsFiniteSet(DOMAIN es2) BY <1>1, <1>3, FS_RemoveElement DEF Pairs
  <2> QED BY <1>1, <1>3, <1>6, <2>1 DEF Pairs
<1>8. Shaped(T2, ts, N, ns, r, m)
  <2>1. T2 \in [0 .. ts - 1 -> Cell \cup {Null}] BY <1>3, <1>5
  <2> QED BY <1>1, <2>1 DEF Shaped
<1>9. n2 = Cardinality(DOMAIN es2)
  <2> DEFINE D == DOMAIN es
  <2>1. IsFiniteSet(D) /\ y \in D /\ DOMAIN es2 = D \ {y} BY <1>1, <1>3, <1>4 DEF Pairs
  <2> HIDE DEF D
  <2>2. Cardinality(D \ {y}) = Cardinality(D) - 1 BY <2>1, FS_RemoveElement
  <2> QED BY <1>1, <1>3, <2>1, <2>2 DEF D
<1>10. \A x \in K : h2[x] = IF x = b /\ p = 1 THEN w ELSE h[x]
  <2>1. ASSUME NEW x \in K PROVE \E a \in 0 .. ts - 1 : x = <<"old", a>>
    BY <1>2, SlotsAre
  <2>2. ASSUME NEW a \in 0 .. ts - 1 PROVE /\ h2[<<"old", a>>] = T2[a] /\ h[<<"old", a>>] = T[a]
                                           /\ <<"old", a>> = b <=> a = j
    <3>1. h2[<<"old", a>>] = T2[a] /\ h[<<"old", a>>] = T[a] BY <1>2, SlotsAre DEF Heads, HeadAt
    <3> QED BY <3>1
  <2>3. \A a \in 0 .. ts - 1 : T2[a] = IF a = j /\ p = 1 THEN w ELSE T[a] BY <1>3, <1>5
  <2> HIDE DEF h, h2, b
  <2> QED BY <2>1, <2>2, <2>3
<1>11. \A x \in K : q2[x] = IF x = b THEN RemoveAt(s, p) ELSE q[x] BY DEF TakeAt, s
<1> HIDE DEF b, K, h, h2, q2
<1>12. Chained(es2, q2, K, h2)
  <2>1. Takes(es, q, K, h, b, p, es2, q2, h2) BY <1>2, <1>3, <1>6, <1>10, <1>11 DEF Takes, s, y, w
  <2> QED BY <1>1, <2>1, ChainedTake, Zenon
<1>13. AtHome(g, es2, q2, ts, ns)
  <2> SUFFICES ASSUME NEW x \in K, NEW e \in ToSet(q2[x])
               PROVE  x[2] = g[es2[e].key] % (IF x[1] = "old" THEN ts ELSE ns)
    BY <1>1 DEF AtHome, K
  <2>1. ToSet(RemoveAt(s, p)) \subseteq ToSet(s) BY <1>3, <1>4, OutSet
  <2>2. e \in ToSet(q[x]) BY <1>11, <2>1 DEF s
  <2>3. e \in DOMAIN es2
    <3>1. Follows(es2, q2[x], Null) BY <1>12, ChainedIs
    <3> QED BY <1>12, ChainedIs
  <2>4. es2[e].key = es[e].key BY <1>6, <2>3
  <2> QED BY <1>1, <2>2, <2>4 DEF AtHome, K
<1>14. Stands(g, es2, T2, ts, n2, N, ns, r, m, q2)
  BY <1>7, <1>8, <1>9, <1>12, <1>13 DEF Stands, K, h2
<1> QED BY <1>14 DEF q2, b, j, K

(* The elements keep their keys and their next.                              *)
Alike(es2, es) == /\ Pairs(es2) /\ DOMAIN es2 = DOMAIN es
                  /\ \A e \in DOMAIN es : es2[e].key = es[e].key /\ es2[e].next = es[e].next

LEMMA StandsAlike ==
    ASSUME NEW g, NEW es, NEW T, NEW ts, NEW n, NEW N, NEW ns, NEW r, NEW m, NEW q,
           Stands(g, es, T, ts, n, N, ns, r, m, q), NEW es2, Alike(es2, es)
    PROVE  Stands(g, es2, T, ts, n, N, ns, r, m, q)
<1> DEFINE K == Slots(ts, ns)
           h == Heads(T, ts, N, ns, r, m)
<1>1. /\ Shaped(T, ts, N, ns, r, m) /\ AtHome(g, es, q, ts, ns)
      /\ Chained(es, q, K, h) /\ n = Cardinality(DOMAIN es)
  BY DEF Stands
<1>2. /\ Pairs(es2) /\ DOMAIN es2 = DOMAIN es
      /\ \A e \in DOMAIN es : es2[e].key = es[e].key /\ es2[e].next = es[e].next
  BY DEF Alike
<1>3. \A x \in K : ToSet(q[x]) \subseteq DOMAIN es BY <1>1, ChainedIs
<1> HIDE DEF h
<1>4. Chained(es2, q, K, h) BY <1>1, <1>2, ChainedSame
<1>5. AtHome(g, es2, q, ts, ns) BY <1>1, <1>2, <1>3 DEF AtHome
<1> QED BY <1>1, <1>2, <1>4, <1>5 DEF Stands, h

-----------------------------------------------------------------------------
(* No elements.                                                              *)
LEMMA StandsEmpty ==
    ASSUME NEW g \in [Key -> Nat], NEW es, es = [e \in DOMAIN es |-> es[e]], DOMAIN es = {},
           NEW ts \in Nat \ {0}, NEW T, T = [j \in 0 .. ts - 1 |-> Null],
           NEW N, N \in [0 .. -1 -> Cell \cup {Null}]
    PROVE  Stands(g, es, T, ts, 0, N, 0, 0, Null, [x \in Slots(ts, 0) |-> <<>>])
<1> DEFINE K == Slots(ts, 0)
           q == [x \in K |-> <<>>]
           h == Heads(T, ts, N, 0, 0, Null)
<1>1. Pairs(es) BY FS_EmptySet DEF Pairs
<1>2. Shaped(T, ts, N, 0, 0, Null) BY DEF Shaped
<1>3. \A x \in K : h[x] = Null
  <2>1. ASSUME NEW x \in K PROVE \E a \in 0 .. ts - 1 : x = <<"old", a>>
    BY SlotsAre
  <2>2. ASSUME NEW a \in 0 .. ts - 1 PROVE h[<<"old", a>>] = Null
    BY SlotsAre DEF Heads, HeadAt
  <2> HIDE DEF h, K
  <2> QED BY <2>1, <2>2
<1>4. /\ \A x \in K : q[x] = <<>>
      /\ <<>> \in Seq(DOMAIN es) /\ Len(<<>>) = 0 /\ ToSet(<<>>) = {}
  BY DEF ToSet
<1> HIDE DEF K, q, h
<1>5. Chained(es, q, K, h)
  <2>1. Follows(es, <<>>, Null) /\ Start(<<>>, Null) = Null BY <1>4 DEF Follows, Start
  <2> QED BY <1>3, <1>4, <2>1 DEF Chained
<1>6. AtHome(g, es, q, ts, 0) BY <1>4 DEF AtHome, K
<1>7. Cardinality(DOMAIN es) = 0 BY FS_EmptySet
<1> QED BY <1>1, <1>2, <1>5, <1>6, <1>7 DEF Stands, K, q, h
-----------------------------------------------------------------------------
(* A rehash begins: a table N of empty chains.                               *)
Begun(q, ts, ns) == [x \in Slots(ts, ns) |-> IF x[1] = "old" THEN q[x] ELSE <<>>]

LEMMA StandsBegin ==
    ASSUME NEW g, NEW es, NEW T, NEW ts, NEW n, NEW N, NEW ns, NEW r, NEW m, NEW q,
           Stands(g, es, T, ts, n, N, ns, r, m, q), ns = 0,
           NEW ns2 \in Nat \ {0}, NEW N2, N2 = [j \in 0 .. ns2 - 1 |-> Null]
    PROVE  Stands(g, es, T, ts, n, N2, ns2, 0, T[0], Begun(q, ts, ns2))
<1> DEFINE K == Slots(ts, ns)
           K2 == Slots(ts, ns2)
           h == Heads(T, ts, N, ns, r, m)
           h2 == Heads(T, ts, N2, ns2, 0, T[0])
           q2 == Begun(q, ts, ns2)
<1>1. /\ Pairs(es) /\ Shaped(T, ts, N, ns, r, m) /\ AtHome(g, es, q, ts, ns)
      /\ Chained(es, q, K, h) /\ n = Cardinality(DOMAIN es)
  BY DEF Stands
<1>2. ts \in Nat \ {0} /\ T \in [0 .. ts - 1 -> Cell \cup {Null}] /\ r = 0 BY <1>1 DEF Shaped
<1>3. Shaped(T, ts, N2, ns2, 0, T[0]) BY <1>2 DEF Shaped
<1>4. ASSUME NEW a \in 0 .. ts - 1
      PROVE  /\ <<"old", a>> \in K /\ <<"old", a>> \in K2
             /\ h2[<<"old", a>>] = h[<<"old", a>>]
             /\ q2[<<"old", a>>] = q[<<"old", a>>]
  <2>1. <<"old", a>> \in K /\ <<"old", a>> \in K2 BY <1>2, SlotsAre
  <2>2. h[<<"old", a>>] = T[a] BY <2>1 DEF Heads, HeadAt
  <2>3. h2[<<"old", a>>] = T[a]
    <3>1. h2[<<"old", a>>] = IF ns2 = 0 \/ a > 0 THEN T[a] ELSE IF a = 0 THEN T[0] ELSE Null
      BY <2>1 DEF Heads, HeadAt
    <3> QED BY <1>2, <3>1
  <2> QED BY <2>1, <2>2, <2>3 DEF Begun
<1>5. ASSUME NEW a \in 0 .. ns2 - 1
      PROVE  /\ <<"new", a>> \in K2 /\ h2[<<"new", a>>] = Null /\ q2[<<"new", a>>] = <<>>
  <2>1. <<"new", a>> \in K2 BY <1>2, SlotsAre
  <2> QED BY <2>1 DEF Heads, HeadAt, Begun
<1>6. /\ \A x \in K : \E a \in 0 .. ts - 1 : x = <<"old", a>>
      /\ \A x \in K2 : \/ \E a \in 0 .. ts - 1 : x = <<"old", a>>
                       \/ \E a \in 0 .. ns2 - 1 : x = <<"new", a>>
  BY <1>2, SlotsAre
<1> HIDE DEF K, K2, h, h2, q2
<1>7. \A x \in K2 : \/ x \in K /\ q2[x] = q[x] /\ h2[x] = h[x] /\ x[1] = "old"
                    \/ q2[x] = <<>> /\ h2[x] = Null
  BY <1>4, <1>5, <1>6
<1>8. \A x \in K : x \in K2 /\ q2[x] = q[x] BY <1>4, <1>6
<1>9. <<>> \in Seq(DOMAIN es) /\ Len(<<>>) = 0 /\ ToSet(<<>>) = {} BY DEF ToSet
<1>10. Chained(es, q2, K2, h2)
  <2>1. Follows(es, <<>>, Null) /\ Start(<<>>, Null) = Null BY <1>9 DEF Follows, Start
  <2>2. /\ Null \notin DOMAIN es
        /\ \A x \in K : Follows(es, q[x], Null) /\ h[x] = Start(q[x], Null)
        /\ \A e \in DOMAIN es : \E x \in K : e \in ToSet(q[x])
        /\ \A x, y \in K : \A e \in ToSet(q[x]) \cap ToSet(q[y]) : x = y
    BY <1>1 DEF Chained
  <2>3. \A x \in K2 : Follows(es, q2[x], Null) /\ h2[x] = Start(q2[x], Null)
    BY <1>7, <2>1, <2>2
  <2>4. \A e \in DOMAIN es : \E x \in K2 : e \in ToSet(q2[x]) BY <1>8, <2>2
  <2>5. \A x, y \in K2 : \A e \in ToSet(q2[x]) \cap ToSet(q2[y]) : x = y BY <1>7, <1>9, <2>2
  <2> QED BY <2>2, <2>3, <2>4, <2>5 DEF Chained
<1>11. AtHome(g, es, q2, ts, ns2) BY <1>1, <1>7, <1>9 DEF AtHome, K, K2
<1> QED BY <1>1, <1>3, <1>10, <1>11 DEF Stands, K2, h2, q2

(* The next element of the old table is put first on a chain of the new one. *)
MovedAt(g, es, N, ns, m, es2, N2, m2) ==
    LET j == g[es[m].key] % ns
    IN /\ m # Null
       /\ es2 = [es EXCEPT ![m].next = N[j]]
       /\ N2 = [N EXCEPT ![j] = m]
       /\ m2 = es[m].next
MoveTo(q, K, b, a, m) ==
    [x \in K |-> IF x = b THEN RemoveAt(q[b], 1) ELSE IF x = a THEN <<m>> \o q[a] ELSE q[x]]

(* What this does to the elements. *)
MoveMeans(es, es2, ns, r, m, q) ==
    /\ m \in DOMAIN es /\ DOMAIN es2 = DOMAIN es
    /\ \A e \in DOMAIN es : es2[e].key = es[e].key /\ es2[e].data = es[e].data
    /\ 1 \in 1 .. Len(q[<<"old", r>>]) /\ m = q[<<"old", r>>][1]
    /\ ns # 0

LEMMA StandsMoves ==
    ASSUME NEW g, NEW es, NEW T, NEW ts, NEW n, NEW N, NEW ns, NEW r, NEW m, NEW q,
           Stands(g, es, T, ts, n, N, ns, r, m, q),
           NEW es2, NEW N2, NEW m2, MovedAt(g, es, N, ns, m, es2, N2, m2)
    PROVE  /\ Stands(g, es2, T, ts, n, N2, ns, r, m2,
                     MoveTo(q, Slots(ts, ns), <<"old", r>>, <<"new", g[es[m].key] % ns>>, m))
           /\ MoveMeans(es, es2, ns, r, m, q)
<1> DEFINE K == Slots(ts, ns)
           h == Heads(T, ts, N, ns, r, m)
           h2 == Heads(T, ts, N2, ns, r, m2)
           j == g[es[m].key] % ns
           b == <<"old", r>>
           a == <<"new", j>>
           q2 == MoveTo(q, K, b, a, m)
<1>1. /\ Pairs(es) /\ Shaped(T, ts, N, ns, r, m) /\ AtHome(g, es, q, ts, ns)
      /\ Chained(es, q, K, h) /\ n = Cardinality(DOMAIN es)
  BY DEF Stands
<1>2. /\ ts \in Nat \ {0} /\ ns \in Nat \ {0} /\ r \in 0 .. ts - 1
      /\ N \in [0 .. ns - 1 -> Cell \cup {Null}] /\ T \in [0 .. ts - 1 -> Cell \cup {Null}]
      /\ m # Null
  BY <1>1 DEF Shaped, MovedAt
<1>3. b \in K /\ h[b] = m /\ b[1] = "old" /\ b[2] = r
  <2>1. b \in K BY <1>2, SlotsAre
  <2>2. h[b] = IF ns = 0 \/ r > r THEN T[r] ELSE IF r = r THEN m ELSE Null
    BY <2>1 DEF Heads, HeadAt
  <2> QED BY <1>2, <2>1, <2>2
<1>4. m \in DOMAIN es
  <2> DEFINE s == q[b]
             D == DOMAIN es
  <2>1. s \in Seq(D) /\ m = Start(s, Null) BY <1>1, <1>3, ChainedIs
  <2> HIDE DEF s, D
  <2>2. s # <<>> /\ m = s[1] BY <1>2, <2>1 DEF Start
  <2>3. m \in D BY <2>1, <2>2
  <2> QED BY <2>3 DEF D
<1>5. es[m] \in [key : Key, data : Data, next : Cell \cup {Null}] BY <1>1, <1>4 DEF Pairs
<1>6. j \in 0 .. ns - 1 /\ a \in K /\ a[1] = "new" /\ a[2] = j
  <2>1. es[m].key \in Key BY <1>5
  <2>2. j \in 0 .. ns - 1 /\ a \in K BY <1>2, <2>1, StandsIs
  <2> QED BY <2>2
<1>7. /\ es2 = [es EXCEPT ![m].next = N[j]] /\ N2 = [N EXCEPT ![j] = m] /\ m2 = es[m].next
  BY DEF MovedAt
<1> HIDE DEF j
<1>8. N[j] \in Cell \cup {Null} /\ m \in Cell /\ m2 \in Cell \cup {Null}
  BY <1>1, <1>2, <1>4, <1>5, <1>6, <1>7 DEF Pairs
<1>9. /\ DOMAIN es2 = DOMAIN es /\ es2 = [e \in DOMAIN es2 |-> es2[e]]
      /\ es2[m] = [es[m] EXCEPT !.next = N[j]]
      /\ \A e \in DOMAIN es : e # m => es2[e] = es[e]
  BY <1>1, <1>4, <1>7 DEF Pairs
<1>10. /\ es2[m] \in [key : Key, data : Data, next : Cell \cup {Null}]
       /\ es2[m].key = es[m].key /\ es2[m].data = es[m].data /\ es2[m].next = N[j]
  BY <1>5, <1>8, <1>9
<1>11. Pairs(es2) /\ \A e \in DOMAIN es : es2[e].key = es[e].key /\ es2[e].data = es[e].data
  <2>1. \A e \in DOMAIN es2 : es2[e] \in [key : Key, data : Data, next : Cell \cup {Null}]
    BY <1>1, <1>9, <1>10 DEF Pairs
  <2> QED BY <1>1, <1>9, <1>10, <2>1 DEF Pairs
<1>12. Shaped(T, ts, N2, ns, r, m2)
  <2>1. N2 \in [0 .. ns - 1 -> Cell \cup {Null}] BY <1>2, <1>7, <1>8
  <2> QED BY <1>1, <1>2, <1>8, <2>1 DEF Shaped
<1>13. \A x \in K : h2[x] = IF x = b THEN m2 ELSE IF x = a THEN m ELSE h[x]
  <2>1. ASSUME NEW x \in K PROVE \/ \E i \in 0 .. ts - 1 : x = <<"old", i>>
                                 \/ \E i \in 0 .. ns - 1 : x = <<"new", i>>
    BY <1>2, SlotsAre
  <2>2. ASSUME NEW i \in 0 .. ts - 1
        PROVE  h2[<<"old", i>>] = IF i = r THEN m2 ELSE h[<<"old", i>>]
    <3>1. <<"old", i>> \in K BY <1>2, SlotsAre
    <3>2. /\ h[<<"old", i>>] = IF ns = 0 \/ i > r THEN T[i] ELSE IF i = r THEN m ELSE Null
          /\ h2[<<"old", i>>] = IF ns = 0 \/ i > r THEN T[i] ELSE IF i = r THEN m2 ELSE Null
      BY <3>1 DEF Heads, HeadAt
    <3> HIDE DEF h, h2
    <3> QED BY <1>2, <3>2
  <2>3. ASSUME NEW i \in 0 .. ns - 1
        PROVE  h2[<<"new", i>>] = IF i = j THEN m ELSE h[<<"new", i>>]
    <3>1. <<"new", i>> \in K BY <1>2, SlotsAre
    <3>2. h[<<"new", i>>] = N[i] /\ h2[<<"new", i>>] = N2[i] BY <3>1 DEF Heads, HeadAt
    <3> HIDE DEF h, h2
    <3> QED BY <1>2, <1>7, <3>2
  <2>4. /\ \A i : <<"old", i>> = b <=> i = r
        /\ \A i : <<"new", i>> = a <=> i = j
        /\ \A i : <<"old", i>> # a /\ <<"new", i>> # b
    OBVIOUS
  <2> HIDE DEF h, h2, K, a, b
  <2> QED BY <2>1, <2>2, <2>3, <2>4
<1>14. h[a] = N[j]
  BY <1>6 DEF Heads, HeadAt
<1>15. \A x \in K : q2[x] = IF x = b THEN RemoveAt(q[b], 1)
                            ELSE IF x = a THEN <<m>> \o q[a] ELSE q[x]
  BY DEF MoveTo
<1>16. a # b OBVIOUS
<1> HIDE DEF a, b, K, h, h2, q2
<1>17. Chained(es2, q2, K, h2) /\ 1 \in 1 .. Len(q[b]) /\ h[b] = q[b][1]
  <2>1. /\ \A x \in K : q2[x] = IF x = b THEN RemoveAt(q[b], 1)
                                ELSE IF x = a THEN <<h[b]>> \o q[a] ELSE q[x]
        /\ \A x \in K : h2[x] = IF x = b THEN es[h[b]].next ELSE IF x = a THEN h[b] ELSE h[x]
    BY <1>3, <1>7, <1>13, <1>15
  <2>2. /\ h[b] # Null /\ es2[h[b]].next = h[a]
        /\ \A e \in DOMAIN es : e # h[b] => es2[e].next = es[e].next
    BY <1>2, <1>3, <1>9, <1>10, <1>14
  <2>3. Moves(es, q, K, h, b, a, es2, q2, h2)
    BY <1>3, <1>6, <1>9, <1>16, <2>1, <2>2 DEF Moves
  <2> QED BY <1>1, <2>3, ChainedMove, SMT
<1>18. AtHome(g, es2, q2, ts, ns)
  <2> SUFFICES ASSUME NEW x \in K, NEW e \in ToSet(q2[x])
               PROVE  x[2] = g[es2[e].key] % (IF x[1] = "old" THEN ts ELSE ns)
    BY <1>1 DEF AtHome, K
  <2>1. \A z \in K : q[z] \in Seq(DOMAIN es) /\ ToSet(q[z]) \subseteq DOMAIN es
    BY <1>1, ChainedIs
  <2>2. ToSet(RemoveAt(q[b], 1)) \subseteq ToSet(q[b])
    <3> DEFINE s == q[b]
               D == DOMAIN es
    <3>1. s \in Seq(D) /\ 1 \in 1 .. Len(s) BY <1>3, <1>17, <2>1
    <3> HIDE DEF s, D
    <3>2. ToSet(RemoveAt(s, 1)) \subseteq ToSet(s) BY <3>1, OutSet
    <3> QED BY <3>2 DEF s
  <2>3. ToSet(<<m>> \o q[a]) = ToSet(q[a]) \cup {m}
    <3> DEFINE s == q[a]
               D == DOMAIN es
    <3>1. s \in Seq(D) /\ m \in D BY <1>4, <1>6, <2>1
    <3> HIDE DEF s, D
    <3>2. ToSet(<<m>> \o s) = ToSet(s) \cup {m} BY <3>1, ConsSet
    <3> QED BY <3>2 DEF s
  <2>4. CASE e \in ToSet(q[x])
    <3>1. es2[e].key = es[e].key BY <1>11, <2>1, <2>4
    <3> QED BY <1>1, <2>4, <3>1 DEF AtHome, K
  <2>5. CASE e \notin ToSet(q[x])
    <3>1. x = a /\ e = m BY <1>15, <2>2, <2>3, <2>5
    <3>2. es2[e].key = es[m].key BY <1>10, <3>1
    <3> QED BY <1>6, <3>1, <3>2 DEF j
  <2> QED BY <2>4, <2>5
<1>19. Stands(g, es2, T, ts, n, N2, ns, r, m2, q2)
  BY <1>1, <1>9, <1>11, <1>12, <1>17, <1>18 DEF Stands, K, h2
<1> HIDE DEF Stands, Pairs
<1>20. m = q[b][1] BY <1>3, <1>17
<1>21. MoveMeans(es, es2, ns, r, m, q) BY <1>2, <1>4, <1>9, <1>11, <1>17, <1>20 DEF b, MoveMeans
<1> QED BY <1>19, <1>21 DEF q2, b, a, j, K

LEMMA StandsMove ==
    ASSUME NEW g, NEW es, NEW T, NEW ts, NEW n, NEW N, NEW ns, NEW r, NEW m, NEW q,
           Stands(g, es, T, ts, n, N, ns, r, m, q),
           NEW es2, NEW N2, NEW m2, MovedAt(g, es, N, ns, m, es2, N2, m2)
    PROVE  Stands(g, es2, T, ts, n, N2, ns, r, m2,
                  MoveTo(q, Slots(ts, ns), <<"old", r>>, <<"new", g[es[m].key] % ns>>, m))
BY StandsMoves, Zenon

LEMMA MoveIs ==
    ASSUME NEW g, NEW es, NEW T, NEW ts, NEW n, NEW N, NEW ns, NEW r, NEW m, NEW q,
           Stands(g, es, T, ts, n, N, ns, r, m, q),
           NEW es2, NEW N2, NEW m2, MovedAt(g, es, N, ns, m, es2, N2, m2)
    PROVE  MoveMeans(es, es2, ns, r, m, q)
BY StandsMoves, Zenon
-----------------------------------------------------------------------------
(* The old chain r is moved, and the next one begins.                        *)
LEMMA StandsNextRow ==
    ASSUME NEW g, NEW es, NEW T, NEW ts, NEW n, NEW N, NEW ns, NEW r, NEW m, NEW q,
           Stands(g, es, T, ts, n, N, ns, r, m, q), ns # 0, m = Null, r + 1 < ts
    PROVE  Stands(g, es, T, ts, n, N, ns, r + 1, T[r + 1], q)
<1> DEFINE K == Slots(ts, ns)
           h == Heads(T, ts, N, ns, r, m)
           v == r + 1
           h2 == Heads(T, ts, N, ns, v, T[v])
<1>1. /\ Pairs(es) /\ Shaped(T, ts, N, ns, r, m) /\ AtHome(g, es, q, ts, ns)
      /\ Chained(es, q, K, h) /\ n = Cardinality(DOMAIN es)
  BY DEF Stands
<1>2. ts \in Nat \ {0} /\ ns \in Nat /\ r \in 0 .. ts - 1 /\ v \in 0 .. ts - 1 BY <1>1 DEF Shaped
<1>3. Shaped(T, ts, N, ns, v, T[v]) BY <1>1, <1>2 DEF Shaped
<1>4. ASSUME NEW a \in 0 .. ts - 1
      PROVE  /\ <<"old", a>> \in K
             /\ h2[<<"old", a>>] = h[<<"old", a>>]
  <2>1. <<"old", a>> \in K BY <1>2, SlotsAre
  <2>2. /\ h[<<"old", a>>] = IF ns = 0 \/ a > r THEN T[a] ELSE IF a = r THEN m ELSE Null
        /\ h2[<<"old", a>>] = IF ns = 0 \/ a > v THEN T[a] ELSE IF a = v THEN T[v] ELSE Null
    BY <2>1 DEF Heads, HeadAt
  <2>3. h[<<"old", a>>] = IF a > r THEN T[a] ELSE Null BY <2>2
  <2>4. h2[<<"old", a>>] = IF a > v THEN T[a] ELSE IF a = v THEN T[v] ELSE Null BY <2>2
  <2>5. a > r <=> a > v \/ a = v BY <1>2
  <2> HIDE DEF h, h2, v
  <2> QED BY <2>1, <2>3, <2>4, <2>5
<1>5. ASSUME NEW a \in 0 .. ns - 1
      PROVE  <<"new", a>> \in K /\ h2[<<"new", a>>] = h[<<"new", a>>]
  <2>1. <<"new", a>> \in K BY <1>2, SlotsAre
  <2> QED BY <2>1 DEF Heads, HeadAt
<1>6. \A x \in K : \/ \E a \in 0 .. ts - 1 : x = <<"old", a>>
                   \/ \E a \in 0 .. ns - 1 : x = <<"new", a>>
  BY <1>2, SlotsAre
<1> HIDE DEF K, h, h2
<1>7. \A x \in K : h2[x] = h[x] BY <1>4, <1>5, <1>6
<1>8. Chained(es, q, K, h2) BY <1>1, <1>7 DEF Chained
<1> QED BY <1>1, <1>3, <1>8 DEF Stands, K, h2

(* When the last old chain is moved, the old table is empty.                 *)
AllMoved(q, ts) == \A j \in 0 .. ts - 1 : q[<<"old", j>>] = <<>>

LEMMA OldEmpty ==
    ASSUME NEW g, NEW es, NEW T, NEW ts, NEW n, NEW N, NEW ns, NEW r, NEW m, NEW q,
           Stands(g, es, T, ts, n, N, ns, r, m, q), ns # 0, m = Null, r + 1 = ts
    PROVE  AllMoved(q, ts)
<1> DEFINE K == Slots(ts, ns)
           h == Heads(T, ts, N, ns, r, m)
<1>1. /\ Shaped(T, ts, N, ns, r, m) /\ Chained(es, q, K, h)
  BY DEF Stands
<1>2. ts \in Nat \ {0} /\ ns \in Nat /\ r \in 0 .. ts - 1 BY <1>1 DEF Shaped
<1>4. Null \notin DOMAIN es BY <1>1 DEF Chained
<1>5. ASSUME NEW a \in 0 .. ts - 1 PROVE q[<<"old", a>>] = <<>>
  <2>1. <<"old", a>> \in K BY <1>2, SlotsAre
  <2>2. h[<<"old", a>>] = IF ns = 0 \/ a > r THEN T[a] ELSE IF a = r THEN m ELSE Null
    BY <2>1 DEF Heads, HeadAt
  <2>3. ~(a > r) BY <1>2
  <2>4. h[<<"old", a>>] = Null BY <2>2, <2>3
  <2> DEFINE s == q[<<"old", a>>]
             D == DOMAIN es
  <2> HIDE DEF h
  <2>5. s \in Seq(D) /\ Null = Start(s, Null) BY <1>1, <2>1, <2>4, ChainedIs
  <2> HIDE DEF s
  <2>6. s = <<>>
    <3> SUFFICES ASSUME s # <<>> PROVE FALSE OBVIOUS
    <3>1. s[1] \in D BY <2>5
    <3> QED BY <1>4, <2>5, <3>1 DEF Start
  <2> QED BY <2>6 DEF s
<1> QED BY <1>5, Zenon DEF AllMoved

(* The last old chain is moved, and the new table takes the old one's place. *)
Ended(q, ns) == [x \in Slots(ns, 0) |-> q[<<"new", x[2]>>]]

LEMMA StandsEnd ==
    ASSUME NEW g, NEW es, NEW T, NEW ts, NEW n, NEW N, NEW ns, NEW r, NEW m, NEW q,
           Stands(g, es, T, ts, n, N, ns, r, m, q), ns # 0, m = Null, r + 1 = ts,
           NEW N2, N2 \in [0 .. -1 -> Cell \cup {Null}]
    PROVE  Stands(g, es, N, ns, n, N2, 0, 0, Null, Ended(q, ns))
<1> DEFINE K == Slots(ts, ns)
           K2 == Slots(ns, 0)
           h == Heads(T, ts, N, ns, r, m)
           h2 == Heads(N, ns, N2, 0, 0, Null)
           q2 == Ended(q, ns)
<1>1. /\ Pairs(es) /\ Shaped(T, ts, N, ns, r, m) /\ AtHome(g, es, q, ts, ns)
      /\ Chained(es, q, K, h) /\ n = Cardinality(DOMAIN es)
  BY DEF Stands
<1>2. ts \in Nat \ {0} /\ ns \in Nat \ {0} /\ r \in 0 .. ts - 1 /\ 0 \in Nat BY <1>1 DEF Shaped
<1>3. Shaped(N, ns, N2, 0, 0, Null) BY <1>1, <1>2 DEF Shaped
<1>4. /\ Null \notin DOMAIN es
      /\ \A x \in K : Follows(es, q[x], Null) /\ h[x] = Start(q[x], Null)
      /\ \A e \in DOMAIN es : \E x \in K : e \in ToSet(q[x])
      /\ \A x, y \in K : \A e \in ToSet(q[x]) \cap ToSet(q[y]) : x = y
  BY <1>1 DEF Chained
<1>5. \A a \in 0 .. ts - 1 : q[<<"old", a>>] = <<>>
  <2>1. AllMoved(q, ts) BY OldEmpty, Zenon
  <2> QED BY <2>1, Zenon DEF AllMoved
<1>6. ASSUME NEW a \in 0 .. ns - 1
      PROVE  /\ <<"new", a>> \in K /\ <<"old", a>> \in K2
             /\ q2[<<"old", a>>] = q[<<"new", a>>]
             /\ h2[<<"old", a>>] = h[<<"new", a>>]
  <2>1. <<"new", a>> \in K /\ <<"old", a>> \in K2 BY <1>2, SlotsAre
  <2>2. q2[<<"old", a>>] = q[<<"new", a>>] BY <2>1 DEF Ended
  <2>3. h[<<"new", a>>] = N[a] BY <2>1 DEF Heads, HeadAt
  <2>4. h2[<<"old", a>>] = N[a] BY <2>1 DEF Heads, HeadAt
  <2> QED BY <2>1, <2>2, <2>3, <2>4
<1>7. /\ \A x \in K2 : \E a \in 0 .. ns - 1 : x = <<"old", a>>
      /\ \A x \in K : \/ \E a \in 0 .. ts - 1 : x = <<"old", a>>
                      \/ \E a \in 0 .. ns - 1 : x = <<"new", a>>
  BY <1>2, SlotsAre
<1> HIDE DEF K, K2, h, h2, q2
<1>8. \A x \in K2 : Follows(es, q2[x], Null) /\ h2[x] = Start(q2[x], Null)
  <2> SUFFICES ASSUME NEW x \in K2 PROVE Follows(es, q2[x], Null) /\ h2[x] = Start(q2[x], Null)
    OBVIOUS
  <2>1. PICK a \in 0 .. ns - 1 : x = <<"old", a>> BY <1>7
  <2> DEFINE y == <<"new", a>>
  <2>2. y \in K /\ q2[x] = q[y] /\ h2[x] = h[y] BY <1>6, <2>1
  <2> HIDE DEF y
  <2> QED BY <1>4, <2>2
<1>9. ASSUME NEW e \in DOMAIN es PROVE \E x \in K2 : e \in ToSet(q2[x])
  <2>1. PICK x \in K : e \in ToSet(q[x]) BY <1>4
  <2>2. ToSet(<<>>) = {} BY DEF ToSet
  <2>3. PICK a \in 0 .. ns - 1 : x = <<"new", a>> BY <1>5, <1>7, <2>1, <2>2
  <2> QED BY <1>6, <2>1, <2>3
<1>10. ASSUME NEW x \in K2, NEW y \in K2, NEW e \in ToSet(q2[x]) \cap ToSet(q2[y]) PROVE x = y
  <2>1. PICK a \in 0 .. ns - 1 : x = <<"old", a>> BY <1>7
  <2>2. PICK c \in 0 .. ns - 1 : y = <<"old", c>> BY <1>7
  <2>3. <<"new", a>> = <<"new", c>> BY <1>4, <1>6, <2>1, <2>2
  <2> QED BY <2>1, <2>2, <2>3
<1>11. Chained(es, q2, K2, h2) BY <1>4, <1>8, <1>9, <1>10 DEF Chained
<1>12. AtHome(g, es, q2, ns, 0)
  <2> SUFFICES ASSUME NEW x \in K2, NEW e \in ToSet(q2[x])
               PROVE  x[2] = g[es[e].key] % (IF x[1] = "old" THEN ns ELSE 0)
    BY <1>1 DEF AtHome, K2
  <2>1. PICK a \in 0 .. ns - 1 : x = <<"old", a>> BY <1>7
  <2> DEFINE y == <<"new", a>>
  <2>2. y \in K /\ e \in ToSet(q[y]) /\ y[1] = "new" /\ y[2] = a BY <1>6, <2>1
  <2>3. y[2] = g[es[e].key] % (IF y[1] = "old" THEN ts ELSE ns) BY <1>1, <2>2 DEF AtHome, K
  <2> QED BY <2>1, <2>2, <2>3
<1>13. Stands(g, es, N, ns, n, N2, 0, 0, Null, q2)
  BY <1>1, <1>3, <1>11, <1>12 DEF Stands, K2, h2
<1> QED BY <1>13 DEF q2

-----------------------------------------------------------------------------
(* The data of the key k, the ones a rehash has moved turned round.          *)
ItemsAt(g, es, ts, ns, q, k) ==
    (IF ns = 0 THEN <<>> ELSE Reverse(DataIn(es, k, q[<<"new", g[k] % ns>>])))
      \o DataIn(es, k, q[<<"old", g[k] % ts>>])

LEMMA HashItems ==
    ASSUME NEW q, HashStands(q)
    PROVE  Hash!Items = [k \in Key |-> ItemsAt(hash, hElms, tableSize, newSize, q, k)]
<1> DEFINE K == Slots(tableSize, newSize)
<1>1. /\ tableSize \in Nat \ {0} /\ newSize \in Nat
      /\ \A k \in Key : /\ hash[k] % tableSize \in 0 .. tableSize - 1
                        /\ <<"old", hash[k] % tableSize>> \in K
                        /\ newSize # 0 => /\ hash[k] % newSize \in 0 .. newSize - 1
                                          /\ <<"new", hash[k] % newSize>> \in K
      /\ \A x \in K : q[x] \in Seq(DOMAIN hElms)
  BY StandsIs DEF HashStands
<1> HIDE DEF K
<1>2. ASSUME NEW k, NEW s \in Seq(DOMAIN hElms)
      PROVE  Hash!DataOf(k, s) = DataIn(hElms, k, s)
  <2> DEFINE t == Among(s, OfKey(hElms, k))
             D == DOMAIN hElms
  <2>1. t \in Seq(D)
    <3> HIDE DEF D
    <3>1. s \in Seq(D) BY DEF D
    <3> QED BY <3>1, AmongIs
  <2>2. Hash!DataOf(k, s) = [n \in 1 .. Len(t) |-> hElms[t[n]].data]
    BY HashOps DEF Hash!DataOf, OfKey
  <2> HIDE DEF t
  <2>3. \A n \in 1 .. Len(t) : hElms[t[n]].data = DataAt(hElms)[t[n]]
    <3>1. \A n \in 1 .. Len(t) : t[n] \in D BY <2>1
    <3> QED BY <3>1 DEF DataAt
  <2> DEFINE g == DataAt(hElms)
  <2> HIDE DEF g
  <2>4. Mapped(g, t) = [n \in 1 .. Len(t) |-> hElms[t[n]].data] BY <2>3 DEF Mapped, g
  <2> QED BY <2>2, <2>4 DEF DataIn, t, g
<1>3. ASSUME NEW k \in Key
      PROVE  (IF Hash!Idle THEN <<>>
              ELSE Hash!Reverse(Hash!DataOf(k, Hash!Moved(Hash!Index(k, newSize)))))
               \o Hash!DataOf(k, Hash!Rest(Hash!Index(k, tableSize)))
             = ItemsAt(hash, hElms, tableSize, newSize, q, k)
  <2> DEFINE j == hash[k] % tableSize
             a == hash[k] % newSize
             o == q[<<"old", j>>]
             w == q[<<"new", a>>]
  <2>1. Hash!Index(k, newSize) = a /\ Hash!Index(k, tableSize) = j BY DEF Hash!Index
  <2>2. /\ j \in 0 .. tableSize - 1 /\ o \in Seq(DOMAIN hElms)
        /\ newSize # 0 => a \in 0 .. newSize - 1 /\ w \in Seq(DOMAIN hElms)
    BY <1>1
  <2>3. Hash!Idle <=> newSize = 0 BY HashReads
  <2>4. Hash!Rest(j) = o /\ (newSize # 0 => Hash!Moved(a) = w)
    BY <2>2, HashReads
  <2>5. ItemsAt(hash, hElms, tableSize, newSize, q, k)
          = (IF newSize = 0 THEN <<>> ELSE Reverse(DataIn(hElms, k, w))) \o DataIn(hElms, k, o)
    BY DEF ItemsAt
  <2> HIDE DEF j, a, o, w
  <2>6. Hash!DataOf(k, Hash!Rest(j)) = DataIn(hElms, k, o) BY <1>2, <2>2, <2>4
  <2>7. newSize # 0 => Hash!DataOf(k, Hash!Moved(a)) = DataIn(hElms, k, w) BY <1>2, <2>2, <2>4
  <2>8. \A s : Hash!Reverse(s) = Reverse(s) BY HashOps
  <2> QED BY <2>1, <2>3, <2>5, <2>6, <2>7, <2>8
<1> QED BY <1>3 DEF Hash!Items

(* The same of the next state. *)
LEMMA NextItems ==
    ASSUME NEW q
    PROVE  HashStands(q)' =>
             Hash!Items' = [k \in Key |-> ItemsAt(hash', hElms', tableSize', newSize', q, k)]
<1>1. HashStands(q) => Hash!Items = [k \in Key |-> ItemsAt(hash, hElms, tableSize, newSize, q, k)]
  BY HashItems
<1>2. HashStands(q)' =>
        (Hash!Items = [k \in Key |-> ItemsAt(hash, hElms, tableSize, newSize, q, k)])'
  BY <1>1, PTL
<1> QED BY <1>2
-----------------------------------------------------------------------------
LEMMA ItemsIdle ==
    ASSUME NEW g, NEW es, NEW T, NEW ts, NEW n, NEW N, NEW ns, NEW r, NEW m, NEW q,
           Stands(g, es, T, ts, n, N, ns, r, m, q), ns = 0, NEW k \in Key
    PROVE  /\ ItemsAt(g, es, ts, ns, q, k) = DataIn(es, k, q[<<"old", g[k] % ts>>])
           /\ ItemsAt(g, es, ts, ns, q, k) \in Seq(Data)
<1> DEFINE s == q[<<"old", g[k] % ts>>]
           d == DataIn(es, k, s)
<1>1. s \in Seq(DOMAIN es) /\ \A e \in DOMAIN es : es[e].data \in Data
  <2>1. \A z \in Slots(ts, ns) : q[z] \in Seq(DOMAIN es) BY StandsIs
  <2>2. <<"old", g[k] % ts>> \in Slots(ts, ns) BY StandsIs
  <2>3. \A e \in DOMAIN es : es[e].data \in Data BY StandsIs
  <2> QED BY <2>1, <2>2, <2>3
<1>2. ItemsAt(g, es, ts, ns, q, k) = <<>> \o d BY DEF ItemsAt
<1> HIDE DEF s
<1>3. d \in Seq(Data) BY <1>1, DataInIs
<1> HIDE DEF d
<1>4. <<>> \o d = d BY <1>3, ConcatEmptySeq
<1> QED BY <1>2, <1>3, <1>4 DEF d, s

(* The data of x are b, with d first if x is k. *)
OnTop(a, b, k, x, d) == a = IF x = k THEN <<d>> \o b ELSE b

LEMMA ItemsAdd ==
    ASSUME NEW g, NEW es, NEW T, NEW ts, NEW n, NEW N, NEW ns, NEW r, NEW m, NEW q,
           Stands(g, es, T, ts, n, N, ns, r, m, q), ns = 0,
           NEW k, NEW d, NEW c, NEW es2, NEW T2, NEW n2,
           AddedAt(g, es, T, ts, n, k, d, c, es2, T2, n2),
           NEW q2, q2 = PutAt(q, Slots(ts, ns), <<"old", g[k] % ts>>, c), NEW x \in Key
    PROVE  OnTop(ItemsAt(g, es2, ts, ns, q2, x), ItemsAt(g, es, ts, ns, q, x), k, x, d)
<1> DEFINE b == <<"old", g[k] % ts>>
           y == <<"old", g[x] % ts>>
           s == q[y]
           K == Slots(ts, ns)
<1>1. Stands(g, es2, T2, ts, n2, N, ns, r, m, q2) BY StandsAdd
<1>2. /\ ItemsAt(g, es2, ts, ns, q2, x) = DataIn(es2, x, q2[y])
      /\ ItemsAt(g, es, ts, ns, q, x) = DataIn(es, x, s)
  <2>1. ItemsAt(g, es2, ts, ns, q2, x) = DataIn(es2, x, q2[y]) BY <1>1, ItemsIdle
  <2>2. ItemsAt(g, es, ts, ns, q, x) = DataIn(es, x, s) BY ItemsIdle
  <2> QED BY <2>1, <2>2
<1>3. s \in Seq(DOMAIN es) /\ y \in K
  <2>1. \A z \in K : q[z] \in Seq(DOMAIN es) BY StandsIs
  <2>2. y \in K BY StandsIs
  <2> QED BY <2>1, <2>2
<1>4. /\ c \in DOMAIN es2 /\ DOMAIN es \subseteq DOMAIN es2
      /\ es2[c].key = k /\ es2[c].data = d
      /\ \A e \in DOMAIN es : es2[e].key = es[e].key /\ es2[e].data = es[e].data
  BY DEF AddedAt
<1>5. q2[y] = IF y = b THEN <<c>> \o s ELSE s BY <1>3 DEF PutAt
<1>6. x = k => y = b OBVIOUS
<1> HIDE DEF s, y, b, K
<1>7. DataIn(es2, x, s) = DataIn(es, x, s)
  <2>1. SameOn(DOMAIN es, es, es2) BY <1>4 DEF SameOn
  <2> QED BY <1>3, <2>1, DataInSame
<1>8. DataIn(es2, x, <<c>> \o s) = IF es2[c].key = x THEN <<es2[c].data>> \o DataIn(es2, x, s)
                                   ELSE DataIn(es2, x, s)
  <2> DEFINE D == DOMAIN es
             E == DOMAIN es2
  <2>1. s \in Seq(D) /\ D \subseteq E /\ c \in E BY <1>3, <1>4
  <2> HIDE DEF D, E
  <2>2. s \in Seq(E) BY <2>1
  <2> QED BY <1>3, <2>1, <2>2, DataInCons DEF E
<1>9. CASE x = k
  <2>1. q2[y] = <<c>> \o s BY <1>5, <1>6, <1>9
  <2> QED BY <1>2, <1>4, <1>7, <1>8, <1>9, <2>1 DEF OnTop
<1>10. CASE x # k
  <2>1. DataIn(es2, x, <<c>> \o s) = DataIn(es2, x, s) BY <1>4, <1>8, <1>10
  <2>2. DataIn(es2, x, q2[y]) = DataIn(es2, x, s) BY <1>5, <2>1
  <2> QED BY <1>2, <1>7, <1>10, <2>2 DEF OnTop
<1> QED BY <1>9, <1>10

(* p is the place of the first element of k on its chain.                    *)
FirstAt(g, es, ts, q, k, p) ==
    LET s == q[<<"old", g[k] % ts>>]
    IN /\ p \in 1 .. Len(s) /\ es[s[p]].key = k
       /\ \A i \in 1 .. p - 1 : es[s[i]].key # k

LEMMA ItemsTake ==
    ASSUME NEW g, NEW es, NEW T, NEW ts, NEW n, NEW N, NEW ns, NEW r, NEW m, NEW q,
           Stands(g, es, T, ts, n, N, ns, r, m, q), ns = 0,
           NEW k, NEW p, NEW es2, NEW T2, NEW n2,
           TakenAt(g, es, T, ts, n, q, k, p, es2, T2, n2), FirstAt(g, es, ts, q, k, p),
           NEW q2, q2 = TakeAt(q, Slots(ts, ns), <<"old", g[k] % ts>>, p), NEW x \in Key
    PROVE  OnTop(ItemsAt(g, es, ts, ns, q, x), ItemsAt(g, es2, ts, ns, q2, x), k, x,
                 es[q[<<"old", g[k] % ts>>][p]].data)
<1> DEFINE b == <<"old", g[k] % ts>>
           y == <<"old", g[x] % ts>>
           s == q[y]
           t == q2[y]
           K == Slots(ts, ns)
           o == q[b]
<1>1. Stands(g, es2, T2, ts, n2, N, ns, r, m, q2) BY StandsTake
<1>2. /\ ItemsAt(g, es2, ts, ns, q2, x) = DataIn(es2, x, t)
      /\ ItemsAt(g, es, ts, ns, q, x) = DataIn(es, x, s)
  BY <1>1, ItemsIdle
<1>3. /\ \A e \in DOMAIN es : es[e].data \in Data
      /\ s \in Seq(DOMAIN es) /\ t \in Seq(DOMAIN es2) /\ y \in K
      /\ \A e \in DOMAIN es : es[e] \in [key : Key, data : Data, next : Cell \cup {Null}]
  <2>1. \A e \in DOMAIN es : es[e] \in [key : Key, data : Data, next : Cell \cup {Null}]
    BY DEF Stands, Pairs
  <2>2. \A z \in K : q[z] \in Seq(DOMAIN es) BY StandsIs
  <2>3. \A z \in K : q2[z] \in Seq(DOMAIN es2) BY <1>1, StandsIs
  <2>4. y \in K BY StandsIs
  <2>5. \A e \in DOMAIN es : es[e].data \in Data BY StandsIs
  <2> QED BY <2>1, <2>2, <2>3, <2>4, <2>5
<1>4. DOMAIN es2 \subseteq DOMAIN es
      /\ \A e \in DOMAIN es2 : es2[e].key = es[e].key /\ es2[e].data = es[e].data
  <2> DEFINE w == es[o[p]].next
  <2>1. /\ DOMAIN es2 = DOMAIN es \ {o[p]}
        /\ \A e \in DOMAIN es2 :
             es2[e] = IF p # 1 /\ e = o[p - 1] THEN [es[e] EXCEPT !.next = w] ELSE es[e]
    BY DEF TakenAt
  <2> HIDE DEF w, o
  <2> SUFFICES ASSUME NEW e \in DOMAIN es2 PROVE es2[e].key = es[e].key /\ es2[e].data = es[e].data
    BY <2>1
  <2>2. es[e] \in [key : Key, data : Data, next : Cell \cup {Null}] BY <1>3, <2>1
  <2>3. es2[e] = [es[e] EXCEPT !.next = w] \/ es2[e] = es[e] BY <2>1
  <2> QED BY <2>2, <2>3
<1>5. t = IF y = b THEN RemoveAt(o, p) ELSE s BY <1>3 DEF TakeAt
<1>6. (x = k => y = b) /\ (y = b => s = o) OBVIOUS
<1>7. p \in 1 .. Len(o) /\ es[o[p]].key = k /\ \A i \in 1 .. p - 1 : es[o[i]].key # k
  BY DEF FirstAt
<1> HIDE DEF s, t, y, b, o, K
<1>8. DataIn(es2, x, t) = DataIn(es, x, t)
  <2>1. SameOn(DOMAIN es2, es, es2) BY <1>4 DEF SameOn
  <2> QED BY <1>3, <2>1, DataInSame
<1>9. CASE y = b
  <2>1. /\ es[s[p]].key # x => DataIn(es, x, RemoveAt(s, p)) = DataIn(es, x, s)
        /\ es[s[p]].key = x /\ (\A i \in 1 .. p - 1 : es[s[i]].key # x)
             => DataIn(es, x, s) = <<es[s[p]].data>> \o DataIn(es, x, RemoveAt(s, p))
    <3>1. s \in Seq(DOMAIN es) /\ p \in 1 .. Len(s) BY <1>3, <1>6, <1>7, <1>9
    <3> QED BY <3>1, DataInCut, Zenon
  <2> QED BY <1>2, <1>5, <1>6, <1>7, <1>8, <1>9, <2>1 DEF o, b, OnTop
<1>10. CASE y # b BY <1>2, <1>5, <1>6, <1>8, <1>10 DEF o, b, OnTop
<1> QED BY <1>9, <1>10

(* The first element of k is given the data d.                               *)
DataChanged(es, es2, y, d) ==
    \A e \in DOMAIN es : es2[e].data = IF e = y THEN d ELSE es[e].data
TopChanged(a, b, k, x, d) == a = IF x = k THEN <<d>> \o Tail(b) ELSE b

LEMMA ItemsChange ==
    ASSUME NEW g, NEW es, NEW T, NEW ts, NEW n, NEW N, NEW ns, NEW r, NEW m, NEW q,
           Stands(g, es, T, ts, n, N, ns, r, m, q), ns = 0,
           NEW k \in Key, NEW p, FirstAt(g, es, ts, q, k, p), NEW d, NEW es2, Alike(es2, es),
           DataChanged(es, es2, q[<<"old", g[k] % ts>>][p], d),
           NEW x \in Key
    PROVE  TopChanged(ItemsAt(g, es2, ts, ns, q, x), ItemsAt(g, es, ts, ns, q, x), k, x, d)
<1> DEFINE b == <<"old", g[k] % ts>>
           y == <<"old", g[x] % ts>>
           s == q[y]
           o == q[b]
           c == o[p]
           f == RemoveAt(o, p)
           K == Slots(ts, ns)
<1>1. Stands(g, es2, T, ts, n, N, ns, r, m, q) BY StandsAlike
<1>2. /\ ItemsAt(g, es2, ts, ns, q, x) = DataIn(es2, x, s)
      /\ ItemsAt(g, es, ts, ns, q, x) = DataIn(es, x, s)
  BY <1>1, ItemsIdle
<1>3. /\ \A e \in DOMAIN es : es[e].data \in Data
      /\ s \in Seq(DOMAIN es) /\ y \in K /\ b \in K /\ o \in Seq(DOMAIN es)
  <2>1. \A z \in K : q[z] \in Seq(DOMAIN es) BY StandsIs
  <2>2. y \in K /\ b \in K BY StandsIs
  <2>3. \A e \in DOMAIN es : es[e].data \in Data BY StandsIs
  <2> QED BY <2>1, <2>2, <2>3
<1>4. DOMAIN es2 = DOMAIN es
      /\ \A e \in DOMAIN es : es2[e].key = es[e].key
                              /\ es2[e].data = IF e = c THEN d ELSE es[e].data
  BY DEF Alike, DataChanged
<1>5. p \in 1 .. Len(o) /\ es[c].key = k /\ \A i \in 1 .. p - 1 : es[o[i]].key # k
  BY DEF FirstAt
<1>6. /\ \A i, j \in 1 .. Len(o) : o[i] = o[j] => i = j
      /\ Len(o) \in Nat
  <2>1. Chained(es, q, K, Heads(T, ts, N, ns, r, m)) BY DEF Stands
  <2> HIDE DEF b, K
  <2> QED BY <1>3, <2>1, ChainedIs
<1>0. x = k => s = o OBVIOUS
<1>7. ASSUME NEW e \in ToSet(s), e = c PROVE x = k \/ es[e].key # x BY <1>5, <1>7
<1> HIDE DEF s, y, b, K
<1>8. CASE x # k
  <2> DEFINE S == DOMAIN es \ {e \in DOMAIN es : e = c}
  <2>1. DataIn(es2, x, s) = DataIn(es, x, s)
    <3> DEFINE D == DOMAIN es
               T1 == OfKey(es, x)
               T2 == OfKey(es2, x)
               a == Among(s, T1)
    <3>1. s \in Seq(D) /\ T1 = T2 BY <1>3, <1>4 DEF OfKey
    <3>2. \A e \in T1 : DataAt(es2)[e] = DataAt(es)[e]
      <4> SUFFICES ASSUME NEW e \in T1 PROVE DataAt(es2)[e] = DataAt(es)[e] OBVIOUS
      <4>1. e \in DOMAIN es /\ e # c BY <1>5, <1>8 DEF OfKey
      <4> QED BY <1>4, <4>1 DEF DataAt
    <3> HIDE DEF D, T1, T2
    <3>3. a \in Seq(D) /\ ToSet(a) = ToSet(s) \cap T1 BY <3>1, AmongIs
    <3> HIDE DEF a
    <3>4. \A i \in 1 .. Len(a) : a[i] \in T1
      <4>1. DOMAIN a = 1 .. Len(a) BY <3>3
      <4>2. \A i \in 1 .. Len(a) : a[i] \in ToSet(a) BY <4>1 DEF ToSet
      <4> QED BY <3>3, <4>2
    <3>5. Mapped(DataAt(es2), a) = Mapped(DataAt(es), a) BY <3>2, <3>4 DEF Mapped
    <3> QED BY <3>1, <3>5 DEF DataIn, a, T1, T2
  <2> QED BY <1>2, <1>8, <2>1 DEF TopChanged
<1>9. CASE x = k
  <2>0. c \in DOMAIN es BY <1>3, <1>5
  <2>1. /\ DataIn(es, k, o) = <<es[c].data>> \o DataIn(es, k, f)
        /\ DataIn(es2, k, o) = <<es2[c].data>> \o DataIn(es2, k, f)
    <3> HIDE DEF o
    <3>1. DataIn(es, k, o) = <<es[o[p]].data>> \o DataIn(es, k, RemoveAt(o, p))
      BY <1>3, <1>5, DataInCut
    <3>2. /\ es2[o[p]].key = k /\ \A i \in 1 .. p - 1 : es2[o[i]].key # k
          /\ o \in Seq(DOMAIN es2)
      <4>1. \A i \in 1 .. p - 1 : i \in 1 .. Len(o) BY <1>5, <1>6
      <4>2. \A i \in 1 .. Len(o) : o[i] \in DOMAIN es BY <1>3
      <4>3. \A i \in 1 .. p - 1 : es2[o[i]].key # k BY <1>4, <1>5, <4>1, <4>2
      <4> QED BY <1>3, <1>4, <1>5, <2>0, <4>3
    <3>3. DataIn(es2, k, o) = <<es2[o[p]].data>> \o DataIn(es2, k, RemoveAt(o, p))
      BY <1>3, <1>5, <3>2, DataInCut
    <3> QED BY <3>1, <3>3
  <2>2. DataIn(es2, k, f) = DataIn(es, k, f)
    <3> DEFINE S == DOMAIN es \ {c}
    <3>1. f \in Seq(S)
      <4>1. f \in Seq(DOMAIN es) /\ Len(f) = Len(o) - 1 /\ f = Outset(o, p)
        BY <1>3, <1>5, RemoveAtIs
      <4>2. \A i \in 1 .. Len(o) - 1 : f[i] = IF i < p THEN o[i] ELSE o[i + 1] BY <4>1 DEF Outset
      <4> HIDE DEF f
      <4>3. ASSUME NEW i \in 1 .. Len(o) - 1 PROVE f[i] # c
        <5>1. i \in 1 .. Len(o) /\ i + 1 \in 1 .. Len(o) BY <1>6
        <5>2. i < p => i # p OBVIOUS
        <5>3. ~(i < p) => i + 1 # p BY <1>5
        <5> HIDE DEF o
        <5> QED BY <1>5, <1>6, <4>2, <5>1, <5>2, <5>3
      <4> DEFINE D == DOMAIN es
      <4> HIDE DEF o, c, D
      <4>4. f \in Seq(D) /\ Len(f) = Len(o) - 1 BY <4>1 DEF D
      <4>5. \A i \in 1 .. Len(f) : f[i] \in D \ {c} BY <4>3, <4>4
      <4>6. f \in Seq(D \ {c}) BY <4>4, <4>5
      <4> QED BY <4>6 DEF D
    <3>2. SameOn(S, es, es2) BY <1>4 DEF SameOn
    <3> HIDE DEF S, f, c, o
    <3>3. DataIn(es2, k, f) = DataIn(es, k, f) BY <3>1, <3>2, DataInSame
    <3> QED BY <3>3
  <2>3. DataIn(es, k, f) \in Seq(Data)
    <3>1. f \in Seq(DOMAIN es) BY <1>3, <1>5, RemoveAtIs
    <3> HIDE DEF f
    <3> QED BY <1>3, <3>1, DataInIs
  <2>4. es[c].data \in Data /\ es2[c].data = d BY <1>3, <1>4, <2>0
  <2> DEFINE v == DataIn(es, k, f)
             z == es[c].data
  <2> HIDE DEF f, v, z, c, o
  <2>5. Tail(<<z>> \o v) = v
    <3>1. v \in Seq(Data) /\ z \in Data BY <2>3, <2>4 DEF v, z
    <3> QED BY <3>1
  <2> QED BY <1>0, <1>2, <1>9, <2>1, <2>2, <2>4, <2>5 DEF v, z, TopChanged
<1> QED BY <1>8, <1>9
-----------------------------------------------------------------------------
LEMMA ItemsBegin ==
    ASSUME NEW g, NEW es, NEW T, NEW ts, NEW n, NEW N, NEW ns, NEW r, NEW m, NEW q,
           Stands(g, es, T, ts, n, N, ns, r, m, q), ns = 0,
           NEW ns2 \in Nat \ {0}, NEW k \in Key
    PROVE  ItemsAt(g, es, ts, ns2, Begun(q, ts, ns2), k) = ItemsAt(g, es, ts, ns, q, k)
<1> DEFINE o == <<"old", g[k] % ts>>
           w == <<"new", g[k] % ns2>>
           q2 == Begun(q, ts, ns2)
           s == q[o]
<1>1. ts \in Nat \ {0} /\ g[k] \in Nat /\ g[k] % ts \in 0 .. ts - 1
  <2>1. ts \in Nat \ {0} BY StandsIs
  <2>2. \A z \in Key : g[z] \in Nat BY StandsIs
  <2> QED BY <2>1, <2>2, ModIs
<1>2. g[k] % ns2 \in 0 .. ns2 - 1 BY <1>1, ModIs
<1>3. o \in Slots(ts, ns2) /\ w \in Slots(ts, ns2) BY <1>1, <1>2, SlotsAre
<1>4. q2[o] = s /\ q2[w] = <<>> BY <1>3 DEF Begun
<1>5. /\ ItemsAt(g, es, ts, ns, q, k) = DataIn(es, k, s)
      /\ ItemsAt(g, es, ts, ns, q, k) \in Seq(Data)
  BY ItemsIdle
<1>6. ItemsAt(g, es, ts, ns2, q2, k) = Reverse(DataIn(es, k, q2[w])) \o DataIn(es, k, q2[o])
  BY DEF ItemsAt
<1> HIDE DEF o, w, q2, s
<1>7. DataIn(es, k, <<>>) = <<>>
  <2>1. Among(<<>>, OfKey(es, k)) = <<>> BY AmongEmpty
  <2> QED BY <2>1 DEF DataIn, Mapped
<1>8. Reverse(<<>>) = <<>> /\ <<>> \o DataIn(es, k, s) = DataIn(es, k, s)
  <2>1. DataIn(es, k, s) \in Seq(Data) BY <1>5
  <2>2. Reverse(<<>>) = <<>> BY ReverseEmpty
  <2> QED BY <2>1, <2>2, ConcatEmptySeq
<1> QED BY <1>4, <1>5, <1>6, <1>7, <1>8 DEF q2

LEMMA StandsData ==
    ASSUME NEW g, NEW es, NEW T, NEW ts, NEW n, NEW N, NEW ns, NEW r, NEW m, NEW q,
           Stands(g, es, T, ts, n, N, ns, r, m, q), NEW x \in Slots(ts, ns), NEW k
    PROVE  DataIn(es, k, q[x]) \in Seq(Data) /\ q[x] \in Seq(DOMAIN es)
<1> DEFINE s == q[x]
<1>1. s \in Seq(DOMAIN es)
  <2>1. \A z \in Slots(ts, ns) : q[z] \in Seq(DOMAIN es) BY StandsIs
  <2> QED BY <2>1
<1>2. \A e \in DOMAIN es : es[e].data \in Data BY StandsIs
<1> HIDE DEF s
<1>3. DataIn(es, k, s) \in Seq(Data) BY <1>1, <1>2, DataInIs
<1> QED BY <1>1, <1>3 DEF s

Kept(a, b) == a = b
Turned(a, b) == a = Reverse(b)

LEMMA ItemsMove ==
    ASSUME NEW g, NEW es, NEW T, NEW ts, NEW n, NEW N, NEW ns, NEW r, NEW m, NEW q,
           Stands(g, es, T, ts, n, N, ns, r, m, q),
           NEW es2, NEW N2, NEW m2, MovedAt(g, es, N, ns, m, es2, N2, m2),
           NEW q2, q2 = MoveTo(q, Slots(ts, ns), <<"old", r>>, <<"new", g[es[m].key] % ns>>, m),
           NEW k \in Key
    PROVE  Kept(ItemsAt(g, es2, ts, ns, q2, k), ItemsAt(g, es, ts, ns, q, k))
<1> DEFINE K == Slots(ts, ns)
           b == <<"old", r>>
           a == <<"new", g[es[m].key] % ns>>
           o == <<"old", g[k] % ts>>
           w == <<"new", g[k] % ns>>
           s == q[o]
           t == q[w]
           x == DataIn(es, k, s)
           y == DataIn(es, k, t)
<1>1. /\ Stands(g, es2, T, ts, n, N2, ns, r, m2, q2)
      /\ m \in DOMAIN es /\ DOMAIN es2 = DOMAIN es
      /\ \A e \in DOMAIN es : es2[e].key = es[e].key /\ es2[e].data = es[e].data
      /\ 1 \in 1 .. Len(q[b]) /\ m = q[b][1]
      /\ ns # 0
  <2>1. Stands(g, es2, T, ts, n, N2, ns, r, m2, q2) BY StandsMove
  <2>2. MoveMeans(es, es2, ns, r, m, q) BY MoveIs, Zenon
  <2> QED BY <2>1, <2>2 DEF MoveMeans
<1>2. o \in K /\ w \in K /\ b \in K /\ ts \in Nat \ {0} /\ ns \in Nat \ {0}
  <2>1. /\ ts \in Nat \ {0} /\ ns \in Nat /\ r \in 0 .. ts - 1
        /\ \A z \in Key : /\ <<"old", g[z] % ts>> \in Slots(ts, ns)
                          /\ ns # 0 => <<"new", g[z] % ns>> \in Slots(ts, ns)
    BY StandsIs
  <2> QED BY <1>1, <2>1, SlotsAre
<1>3. /\ s \in Seq(DOMAIN es) /\ t \in Seq(DOMAIN es) /\ q[b] \in Seq(DOMAIN es)
      /\ x \in Seq(Data) /\ y \in Seq(Data)
      /\ q2[o] \in Seq(DOMAIN es) /\ q2[w] \in Seq(DOMAIN es)
  <2>1. \A z \in K : \A v : DataIn(es, v, q[z]) \in Seq(Data) /\ q[z] \in Seq(DOMAIN es)
    BY StandsData
  <2>2. \A z \in K : q2[z] \in Seq(DOMAIN es2) BY <1>1, StandsData
  <2> QED BY <1>1, <1>2, <2>1, <2>2, Zenon
<1>4. /\ q2[o] = IF o = b THEN RemoveAt(s, 1) ELSE s
      /\ q2[w] = IF w = a THEN <<m>> \o t ELSE t
  <2>1. \A z \in K : q2[z] = IF z = b THEN RemoveAt(q[b], 1)
                             ELSE IF z = a THEN <<m>> \o q[a] ELSE q[z]
    BY DEF MoveTo
  <2>2. o # a /\ w # b OBVIOUS
  <2> HIDE DEF o, a, b, w, K
  <2> QED BY <1>2, <2>1, <2>2
<1>5. es[m].key = k => o = b /\ w = a
  <2> SUFFICES ASSUME es[m].key = k PROVE o = b /\ w = a OBVIOUS
  <2>1. m \in ToSet(q[b])
    <3> DEFINE u == q[b]
    <3>1. 1 \in DOMAIN u /\ m = u[1] BY <1>1, <1>3
    <3> HIDE DEF u
    <3>2. m \in ToSet(u) BY <3>1 DEF ToSet
    <3> QED BY <3>2 DEF u
  <2>2. b[1] = "old" /\ b[2] = r OBVIOUS
  <2>3. b[2] = g[es[m].key] % (IF b[1] = "old" THEN ts ELSE ns)
    <3>1. AtHome(g, es, q, ts, ns) BY DEF Stands
    <3> HIDE DEF b
    <3> QED BY <1>2, <2>1, <3>1 DEF AtHome
  <2>4. r = g[k] % ts BY <2>2, <2>3
  <2> QED BY <2>4
<1>6. /\ ItemsAt(g, es, ts, ns, q, k) = Reverse(y) \o x
      /\ ItemsAt(g, es2, ts, ns, q2, k)
           = Reverse(DataIn(es2, k, q2[w])) \o DataIn(es2, k, q2[o])
  BY <1>1, Zenon DEF ItemsAt
<1>7. o = b => s = q[b] OBVIOUS
<1> HIDE DEF a, b, o, w, s, t, K
<1>8. DataIn(es2, k, q2[w]) = DataIn(es, k, q2[w]) /\ DataIn(es2, k, q2[o]) = DataIn(es, k, q2[o])
  <2>1. SameOn(DOMAIN es, es, es2) BY <1>1 DEF SameOn
  <2> DEFINE u == q2[w]
             v == q2[o]
  <2>2. u \in Seq(DOMAIN es) /\ v \in Seq(DOMAIN es) BY <1>3
  <2> HIDE DEF u, v
  <2>3. DataIn(es2, k, u) = DataIn(es, k, u) BY <2>1, <2>2, DataInSame
  <2>4. DataIn(es2, k, v) = DataIn(es, k, v) BY <2>1, <2>2, DataInSame
  <2> QED BY <2>3, <2>4 DEF u, v
<1>9. DataIn(es, k, <<m>> \o t) = IF es[m].key = k THEN <<es[m].data>> \o y ELSE y
  <2>1. m \in DOMAIN es BY <1>1
  <2>2. t \in Seq(DOMAIN es) BY <1>3
  <2> QED BY <2>1, <2>2, DataInCons, Zenon
<1>10. ASSUME o = b
       PROVE  /\ es[m].key # k => DataIn(es, k, RemoveAt(s, 1)) = x
              /\ es[m].key = k => x = <<es[m].data>> \o DataIn(es, k, RemoveAt(s, 1))
              /\ DataIn(es, k, RemoveAt(s, 1)) \in Seq(Data)
  <2> DEFINE p == 1
  <2>1. p \in 1 .. Len(s) /\ m = s[p] /\ p - 1 = 0 BY <1>1, <1>7, <1>10
  <2>2. RemoveAt(s, p) = q2[o] BY <1>4, <1>10
  <2> HIDE DEF p
  <2>3. /\ es[s[p]].key # k => DataIn(es, k, RemoveAt(s, p)) = DataIn(es, k, s)
        /\ es[s[p]].key = k /\ (\A i \in 1 .. p - 1 : es[s[i]].key # k)
             => DataIn(es, k, s) = <<es[s[p]].data>> \o DataIn(es, k, RemoveAt(s, p))
    <3>1. s \in Seq(DOMAIN es) BY <1>3
    <3>2. p \in 1 .. Len(s) BY <2>1
    <3> QED BY <3>1, <3>2, DataInCut, Zenon
  <2>4. \A i \in 1 .. p - 1 : FALSE BY <2>1
  <2>5. DataIn(es, k, RemoveAt(s, p)) \in Seq(Data)
    <3>1. DataIn(es2, k, q2[o]) \in Seq(Data)
      <4>1. o \in Slots(ts, ns) BY <1>2 DEF K
      <4> QED BY <1>1, <4>1, StandsData
    <3> QED BY <1>8, <2>2, <3>1
  <2> QED BY <2>1, <2>3, <2>4, <2>5 DEF p
<1>11. CASE es[m].key # k
  <2>1. DataIn(es, k, q2[w]) = y BY <1>4, <1>9, <1>11
  <2>2. DataIn(es, k, q2[o]) = x BY <1>4, <1>10, <1>11
  <2> QED BY <1>6, <1>8, <2>1, <2>2, Zenon DEF Kept
<1>12. CASE es[m].key = k
  <2> DEFINE d == es[m].data
             z == DataIn(es, k, RemoveAt(s, 1))
  <2>1. x = <<d>> \o z /\ z \in Seq(Data) BY <1>5, <1>10, <1>12
  <2>2. DataIn(es, k, q2[w]) = <<d>> \o y BY <1>4, <1>5, <1>9, <1>12
  <2>3. DataIn(es, k, q2[o]) = z BY <1>4, <1>5, <1>12
  <2>4. d \in Data
    <3>1. \A e \in DOMAIN es : es[e].data \in Data BY StandsIs
    <3> QED BY <1>1, <3>1
  <2> HIDE DEF x, y, z, d
  <2>5. Reverse(<<d>> \o y) = Reverse(y) \o <<d>> BY <1>3, <2>4, ReverseCons
  <2>6. Reverse(y) \in Seq(Data) /\ <<d>> \in Seq(Data) BY <1>3, <2>4, ReverseIs
  <2>7. (Reverse(y) \o <<d>>) \o z = Reverse(y) \o (<<d>> \o z) BY <2>1, <2>6, ConcatAssociative
  <2> QED BY <1>6, <1>8, <2>1, <2>2, <2>3, <2>5, <2>7, Zenon DEF Kept
<1> QED BY <1>11, <1>12

LEMMA ItemsEnd ==
    ASSUME NEW g, NEW es, NEW T, NEW ts, NEW n, NEW N, NEW ns, NEW r, NEW m, NEW q,
           Stands(g, es, T, ts, n, N, ns, r, m, q), ns # 0, m = Null, r + 1 = ts,
           NEW k \in Key
    PROVE  Turned(ItemsAt(g, es, ns, 0, Ended(q, ns), k), ItemsAt(g, es, ts, ns, q, k))
<1> DEFINE o == <<"old", g[k] % ts>>
           w == <<"new", g[k] % ns>>
           v == <<"old", g[k] % ns>>
           t == q[w]
           y == DataIn(es, k, t)
           q2 == Ended(q, ns)
<1>1. /\ ts \in Nat \ {0} /\ ns \in Nat \ {0} /\ g[k] % ts \in 0 .. ts - 1
      /\ g[k] % ns \in 0 .. ns - 1
  BY StandsIs
<1>2. q[o] = <<>>
  <2>1. AllMoved(q, ts) BY OldEmpty, Zenon
  <2>2. \A j \in 0 .. ts - 1 : q[<<"old", j>>] = <<>> BY <2>1, Zenon DEF AllMoved
  <2> QED BY <1>1, <2>2
<1>3. v \in Slots(ns, 0) /\ w \in Slots(ts, ns) BY <1>1, SlotsAre
<1>4. q2[v] = t BY <1>3 DEF Ended
<1>5. /\ ItemsAt(g, es, ts, ns, q, k) = Reverse(y) \o DataIn(es, k, <<>>)
      /\ ItemsAt(g, es, ns, 0, q2, k) = <<>> \o y
  BY <1>1, <1>2, <1>4 DEF ItemsAt
<1>6. y \in Seq(Data) BY <1>3, StandsData
<1> HIDE DEF y, t, q2
<1>7. DataIn(es, k, <<>>) = <<>>
  <2>1. Among(<<>>, OfKey(es, k)) = <<>> BY AmongEmpty
  <2> QED BY <2>1 DEF DataIn, Mapped
<1>8. Reverse(y) \in Seq(Data) /\ Reverse(Reverse(y)) = y BY <1>6, ReverseIs
<1>9. Reverse(y) \o <<>> = Reverse(y) /\ <<>> \o y = y BY <1>6, <1>8, ConcatEmptySeq
<1> QED BY <1>5, <1>7, <1>8, <1>9 DEF q2, Turned
-----------------------------------------------------------------------------
LEMMA NextStands ==
    ASSUME NEW q
    PROVE  Stands(hash', hElms', table', tableSize', count', newTable', newSize', row', moving', q)
             <=> HashStands(q)'
BY DEF HashStands

(* The first element of k of a chain has the first of the data of k.         *)
Tops(d, s) == d \in Data /\ \E v \in Seq(Data) : s = <<d>> \o v

LEMMA ItemsFirst ==
    ASSUME NEW g, NEW es, NEW T, NEW ts, NEW n, NEW N, NEW ns, NEW r, NEW m, NEW q,
           Stands(g, es, T, ts, n, N, ns, r, m, q), ns = 0,
           NEW k \in Key, NEW p, FirstAt(g, es, ts, q, k, p)
    PROVE  Tops(es[q[<<"old", g[k] % ts>>][p]].data, ItemsAt(g, es, ts, ns, q, k))
<1> DEFINE s == q[<<"old", g[k] % ts>>]
           y == s[p]
           f == RemoveAt(s, p)
           v == DataIn(es, k, f)
<1>1. ItemsAt(g, es, ts, ns, q, k) = DataIn(es, k, s) BY ItemsIdle
<1>2. s \in Seq(DOMAIN es) /\ \A e \in DOMAIN es : es[e].data \in Data
  <2>1. \A z \in Slots(ts, ns) : q[z] \in Seq(DOMAIN es) BY StandsIs
  <2>2. <<"old", g[k] % ts>> \in Slots(ts, ns) BY StandsIs
  <2>3. \A e \in DOMAIN es : es[e].data \in Data BY StandsIs
  <2> QED BY <2>1, <2>2, <2>3
<1>3. p \in 1 .. Len(s) /\ es[y].key = k /\ \A i \in 1 .. p - 1 : es[s[i]].key # k
  BY DEF FirstAt
<1> HIDE DEF s
<1>4. DataIn(es, k, s) = <<es[y].data>> \o v BY <1>2, <1>3, DataInCut
<1>5. v \in Seq(Data)
  <2>1. f \in Seq(DOMAIN es) BY <1>2, <1>3, RemoveAtIs
  <2> HIDE DEF f
  <2> QED BY <1>2, <2>1, DataInIs
<1>6. es[y].data \in Data BY <1>2, <1>3
<1> HIDE DEF v
<1> QED BY <1>1, <1>4, <1>5, <1>6 DEF s, Tops

(* Without an element of k on its chain, k has no data.                      *)
LEMMA ItemsNone ==
    ASSUME NEW g, NEW es, NEW T, NEW ts, NEW n, NEW N, NEW ns, NEW r, NEW m, NEW q,
           Stands(g, es, T, ts, n, N, ns, r, m, q), ns = 0, NEW k \in Key,
           \A a \in 1 .. Len(q[<<"old", g[k] % ts>>]) : es[q[<<"old", g[k] % ts>>][a]].key # k
    PROVE  ItemsAt(g, es, ts, ns, q, k) = <<>>
<1> DEFINE s == q[<<"old", g[k] % ts>>]
           D == DOMAIN es
           S == OfKey(es, k)
<1>1. ItemsAt(g, es, ts, ns, q, k) = DataIn(es, k, s) BY ItemsIdle
<1>2. s \in Seq(D)
  <2>1. \A z \in Slots(ts, ns) : q[z] \in Seq(DOMAIN es) BY StandsIs
  <2>2. <<"old", g[k] % ts>> \in Slots(ts, ns) BY StandsIs
  <2> QED BY <2>1, <2>2
<1>3. ToSet(s) \cap S = {}
  <2>1. \A a \in 1 .. Len(s) : s[a] \notin S BY DEF OfKey
  <2> HIDE DEF s, S, D
  <2>2. DOMAIN s = 1 .. Len(s) BY <1>2
  <2> QED BY <2>1, <2>2 DEF ToSet
<1> HIDE DEF s, S, D
<1>4. Among(s, S) = <<>> BY <1>2, <1>3, AmongNone
<1>5. DataIn(es, k, s) = <<>> BY <1>4 DEF DataIn, Mapped, S
<1> QED BY <1>1, <1>5

LEMMA EmptyItems ==
    ASSUME NEW g, NEW es, NEW T, NEW ts, NEW n, NEW N, NEW ns, NEW r, NEW m, NEW q,
           Stands(g, es, T, ts, n, N, ns, r, m, q), ns = 0,
           q = [x \in Slots(ts, ns) |-> <<>>], NEW k \in Key
    PROVE  ItemsAt(g, es, ts, ns, q, k) = <<>>
<1>1. <<"old", g[k] % ts>> \in Slots(ts, ns) BY StandsIs
<1>2. q[<<"old", g[k] % ts>>] = <<>> BY <1>1
<1>3. Len(<<>>) = 0 /\ 1 .. 0 = {} OBVIOUS
<1>4. \A a \in 1 .. Len(q[<<"old", g[k] % ts>>]) : es[q[<<"old", g[k] % ts>>][a]].key # k
  BY <1>2, <1>3
<1> QED BY <1>4, ItemsNone

(* What the search for k ends with. *)
PlaceOf(k, q, p) == FirstAt(hash, hElms, tableSize, q, k, p)
LEMMA HashFinds ==
    ASSUME NEW q, HashStands(q), newSize = 0, NEW k \in Key
    PROVE  \/ /\ Hash!Found(k) = Null
              /\ ItemsAt(hash, hElms, tableSize, newSize, q, k) = <<>>
           \/ /\ Hash!Found(k) # Null
              /\ \E p : /\ PlaceOf(k, q, p)
                        /\ Hash!Found(k) = q[<<"old", hash[k] % tableSize>>][p]
                        /\ Hash!Before(k) = IF p = 1 THEN Null
                                            ELSE q[<<"old", hash[k] % tableSize>>][p - 1]
                        /\ Hash!Before(k) = Null <=> p = 1
<1> DEFINE j == hash[k] % tableSize
           s == q[<<"old", j>>]
           P == {a \in 1 .. Len(s) : hElms[s[a]].key = k}
<1>1. Stands(hash, hElms, table, tableSize, count, newTable, newSize, row, moving, q)
  BY DEF HashStands
<1>2. j \in 0 .. tableSize - 1 /\ Null \notin Cell /\ DOMAIN hElms \subseteq Cell
  BY <1>1, StandsIs
<1>3. s \in Seq(DOMAIN hElms)
  <2>1. \A z \in Slots(tableSize, newSize) : q[z] \in Seq(DOMAIN hElms) BY <1>1, StandsIs
  <2>2. <<"old", j>> \in Slots(tableSize, newSize) BY <1>1, StandsIs
  <2> QED BY <2>1, <2>2
<1>4. Hash!Chain(table[j]) = s BY <1>2, HashReads
<1>5. Hash!Index(k, tableSize) = j BY DEF Hash!Index
<1>6. \A S : Hash!Min(S) = Min(S) BY HashOps
<1>0. P = {} => ItemsAt(hash, hElms, tableSize, newSize, q, k) = <<>>
  <2> SUFFICES ASSUME P = {} PROVE ItemsAt(hash, hElms, tableSize, newSize, q, k) = <<>> OBVIOUS
  <2>1. \A a \in 1 .. Len(s) : hElms[s[a]].key # k OBVIOUS
  <2> QED BY <1>1, <2>1, ItemsNone
<1> HIDE DEF s, j
<1>7. Hash!Matches(k) = P BY <1>4, <1>5 DEF Hash!Matches
<1>8. CASE P = {}
  <2>1. Hash!Found(k) = Null BY <1>7, <1>8 DEF Hash!Found
  <2> QED BY <1>0, <1>8, <2>1
<1>9. CASE P # {}
  <2> DEFINE p == Min(P)
  <2>1. P \subseteq Nat BY <1>3
  <2>2. p \in P /\ \A a \in P : p <= a BY <1>9, <2>1, MinOf
  <2> HIDE DEF p
  <2>3. p \in 1 .. Len(s) /\ hElms[s[p]].key = k BY <2>2
  <2>4. \A a \in 1 .. p - 1 : hElms[s[a]].key # k
    <3> SUFFICES ASSUME NEW a \in 1 .. p - 1, hElms[s[a]].key = k PROVE FALSE OBVIOUS
    <3>1. Len(s) \in Nat BY <1>3
    <3>2. a \in 1 .. Len(s) /\ ~(p <= a) BY <2>3, <3>1
    <3> QED BY <2>2, <3>2
  <2>5. Hash!Found(k) = s[p] BY <1>4, <1>5, <1>6, <1>7, <1>9 DEF Hash!Found, p
  <2>6. Hash!Before(k) = IF p = 1 THEN Null ELSE s[p - 1]
    BY <1>4, <1>5, <1>6, <1>7, <1>9 DEF Hash!Before, p
  <2>7. PlaceOf(k, q, p) BY <2>3, <2>4 DEF PlaceOf, FirstAt, s, j
  <2>8. p # 1 => s[p - 1] \in DOMAIN hElms
    <3> SUFFICES ASSUME p # 1 PROVE s[p - 1] \in DOMAIN hElms OBVIOUS
    <3>1. Len(s) \in Nat BY <1>3
    <3>2. p - 1 \in 1 .. Len(s) BY <2>3, <3>1
    <3> QED BY <1>3, <3>2
  <2>9. s[p] \in DOMAIN hElms BY <1>3, <2>3
  <2>10. Hash!Found(k) # Null /\ (Hash!Before(k) = Null <=> p = 1)
    BY <1>2, <2>5, <2>6, <2>8, <2>9
  <2> QED BY <2>5, <2>6, <2>7, <2>10 DEF s, j
<1> QED BY <1>8, <1>9

LEMMA NoTable == <<>> \in [0 .. -1 -> Cell \cup {Null}]
<1>1. 0 .. -1 = {} /\ 1 .. 0 = {} OBVIOUS
<1>2. <<>> \in Seq(Cell \cup {Null}) /\ Len(<<>>) = 0 OBVIOUS
<1>3. DOMAIN <<>> = {} /\ <<>> = [x \in DOMAIN <<>> |-> <<>>[x]] BY <1>1, <1>2
<1> QED BY <1>1, <1>3
-----------------------------------------------------------------------------
(* What the actions do to the elements and to the data. *)
LEMMA AddedGoes ==
    ASSUME NEW q, HashStands(q), newSize = 0, NEW k \in Key, NEW d \in Data, Hash!Added(k, d),
           UNCHANGED <<hash, tableSize, newTable, newSize, row, moving>>
    PROVE  /\ \E q2 : HashStands(q2)'
           /\ Hash!Items' = [Hash!Items EXCEPT ![k] = <<d>> \o @]
<1>1. PICK c \in Cell \ DOMAIN hElms :
        /\ hElms' = [e \in DOMAIN hElms \cup {c} |->
                       IF e = c THEN [key |-> k, data |-> d, next |-> table[Hash!Index(k, tableSize)]]
                                ELSE hElms[e]]
        /\ table' = [table EXCEPT ![Hash!Index(k, tableSize)] = c]
        /\ count' = count + 1
  BY DEF Hash!Added
<1>2. AddedAt(hash, hElms, table, tableSize, count, k, d, c, hElms', table', count')
  BY <1>1 DEF AddedAt, Hash!Index
<1>3. PICK q2 : q2 = PutAt(q, Slots(tableSize, newSize), <<"old", hash[k] % tableSize>>, c)
  OBVIOUS
<1>4. Stands(hash, hElms, table, tableSize, count, newTable, newSize, row, moving, q)
  BY DEF HashStands
<1> DEFINE es2 == hElms'
           T2 == table'
           n2 == count'
<1>5. Stands(hash, es2, T2, tableSize, n2, newTable, newSize, row, moving, q2)
  <2> HIDE DEF es2, T2, n2
  <2>1. AddedAt(hash, hElms, table, tableSize, count, k, d, c, es2, T2, n2)
    BY <1>2 DEF es2, T2, n2
  <2> QED BY <1>3, <1>4, <2>1, StandsAdd, Zenon
<1>6. HashStands(q2)' BY <1>5, NextStands
<1>7. \A x \in Key : ItemsAt(hash, es2, tableSize, newSize, q2, x) =
          IF x = k THEN <<d>> \o ItemsAt(hash, hElms, tableSize, newSize, q, x)
          ELSE ItemsAt(hash, hElms, tableSize, newSize, q, x)
  <2> HIDE DEF es2, T2, n2
  <2>1. AddedAt(hash, hElms, table, tableSize, count, k, d, c, es2, T2, n2)
    BY <1>2 DEF es2, T2, n2
  <2> SUFFICES ASSUME NEW x \in Key
               PROVE  ItemsAt(hash, es2, tableSize, newSize, q2, x) =
                        IF x = k THEN <<d>> \o ItemsAt(hash, hElms, tableSize, newSize, q, x)
                        ELSE ItemsAt(hash, hElms, tableSize, newSize, q, x)
    OBVIOUS
  <2>2. OnTop(ItemsAt(hash, es2, tableSize, newSize, q2, x),
              ItemsAt(hash, hElms, tableSize, newSize, q, x), k, x, d)
    BY <1>3, <1>4, <2>1, ItemsAdd, Zenon
  <2> QED BY <2>2 DEF OnTop
<1>8. Hash!Items = [x \in Key |-> ItemsAt(hash, hElms, tableSize, newSize, q, x)] BY HashItems
<1>9. Hash!Items' = [x \in Key |-> ItemsAt(hash, es2, tableSize, newSize, q2, x)]
  BY <1>6, NextItems
<1> DEFINE I == Hash!Items
           J == Hash!Items'
<1>10. I = [x \in Key |-> ItemsAt(hash, hElms, tableSize, newSize, q, x)]
       /\ J = [x \in Key |-> ItemsAt(hash, es2, tableSize, newSize, q2, x)]
  BY <1>8, <1>9
<1>11. J = [I EXCEPT ![k] = <<d>> \o I[k]]
  <2> HIDE DEF I, J, es2
  <2> QED BY <1>7, <1>10
<1> QED BY <1>6, <1>11

LEMMA InsertGoes ==
    ASSUME NEW q, HashStands(q), NEW k \in Key, NEW d \in Data, Hash!Insert(k, d)
    PROVE  (\E q2 : HashStands(q2)') /\ Hash!Store!Insert(k, d)
<1>1. /\ newSize = 0 /\ Hash!Added(k, d) /\ UNCHANGED hRet
      /\ UNCHANGED <<hash, tableSize, newTable, newSize, row, moving>>
  BY DEF Hash!Insert, Hash!Idle, Hash!resize
<1>2. (\E q2 : HashStands(q2)') /\ Hash!Items' = [Hash!Items EXCEPT ![k] = <<d>> \o @]
  BY <1>1, AddedGoes
<1> QED BY <1>1, <1>2 DEF Hash!Store!Insert

LEMMA ItemsAre ==
    ASSUME NEW q, HashStands(q), newSize = 0
    PROVE  /\ DOMAIN Hash!Items = Key
           /\ \A k \in Key : /\ Hash!Items[k] = ItemsAt(hash, hElms, tableSize, newSize, q, k)
                             /\ Hash!Items[k] \in Seq(Data)
<1>1. Hash!Items = [x \in Key |-> ItemsAt(hash, hElms, tableSize, newSize, q, x)] BY HashItems
<1>2. Stands(hash, hElms, table, tableSize, count, newTable, newSize, row, moving, q)
  BY DEF HashStands
<1>3. \A k \in Key : ItemsAt(hash, hElms, tableSize, newSize, q, k) \in Seq(Data)
  BY <1>2, ItemsIdle
<1> QED BY <1>1, <1>3

(* The data of the element a search ends with is the first of its key.       *)
LEMMA FoundData ==
    ASSUME NEW q, HashStands(q), newSize = 0, NEW k \in Key
    PROVE  /\ Hash!Found(k) = Null <=> Hash!Items[k] = <<>>
           /\ Hash!Found(k) # Null => hElms[Hash!Found(k)].data = Head(Hash!Items[k])
<1> DEFINE I == ItemsAt(hash, hElms, tableSize, newSize, q, k)
<1>1. Hash!Items[k] = I BY ItemsAre
<1>2. Stands(hash, hElms, table, tableSize, count, newTable, newSize, row, moving, q)
  BY DEF HashStands
<1>3. CASE Hash!Found(k) = Null
  <2>1. I = <<>> BY <1>3, HashFinds
  <2> QED BY <1>1, <1>3, <2>1
<1>4. CASE Hash!Found(k) # Null
  <2>1. PICK p : PlaceOf(k, q, p) /\ Hash!Found(k) = q[<<"old", hash[k] % tableSize>>][p]
    BY <1>4, HashFinds
  <2>2. FirstAt(hash, hElms, tableSize, q, k, p) BY <2>1 DEF PlaceOf
  <2> DEFINE y == q[<<"old", hash[k] % tableSize>>][p]
  <2>3. Tops(hElms[y].data, I) BY <1>2, <2>2, ItemsFirst, Zenon
  <2> DEFINE z == hElms[y].data
  <2> HIDE DEF I, z
  <2>4. PICK v \in Seq(Data) : z \in Data /\ I = <<z>> \o v BY <2>3 DEF z, Tops
  <2>5. I # <<>> /\ Head(I) = z BY <2>4
  <2> QED BY <1>1, <1>4, <2>1, <2>5 DEF z
<1> QED BY <1>3, <1>4

LEMMA GetGoes ==
    ASSUME NEW q, HashStands(q), NEW k \in Key, Hash!Get(k)
    PROVE  (\E q2 : HashStands(q2)') /\ Hash!Store!Get(k)
<1>1. /\ newSize = 0 /\ hRet' = IF Hash!Found(k) = Null THEN Null ELSE hElms[Hash!Found(k)].data
      /\ UNCHANGED <<hash, hElms, table, tableSize, count, newTable, newSize, row, moving>>
  BY DEF Hash!Get, Hash!Idle, Hash!resize
<1>2. HashStands(q)' BY <1>1 DEF HashStands
<1>3. Hash!Items' = Hash!Items
  BY <1>1, <1>2, HashItems, NextItems
<1>4. hRet' = IF Hash!Items[k] = <<>> THEN Null ELSE Head(Hash!Items[k]) BY <1>1, FoundData
<1> QED BY <1>2, <1>3, <1>4 DEF Hash!Store!Get

LEMMA RemoveNothingGoes ==
    ASSUME NEW q, HashStands(q), NEW k \in Key, Hash!RemoveNothing(k)
    PROVE  (\E q2 : HashStands(q2)') /\ Hash!Store!Take(k)
<1>1. /\ newSize = 0 /\ Hash!Found(k) = Null /\ hRet' = Null
      /\ UNCHANGED <<hash, hElms, table, tableSize, count, newTable, newSize, row, moving>>
  BY DEF Hash!RemoveNothing, Hash!Idle, Hash!resize
<1>2. HashStands(q)' BY <1>1 DEF HashStands
<1>3. Hash!Items' = Hash!Items
  BY <1>1, <1>2, HashItems, NextItems
<1>4. Hash!Items[k] = <<>> BY <1>1, FoundData
<1> QED BY <1>1, <1>2, <1>3, <1>4 DEF Hash!Store!Take

LEMMA RemoveFoundGoes ==
    ASSUME NEW q, HashStands(q), NEW k \in Key, Hash!RemoveFound(k)
    PROVE  (\E q2 : HashStands(q2)') /\ Hash!Store!Take(k)
<1> DEFINE f == Hash!Found(k)
           b == Hash!Before(k)
           o == <<"old", hash[k] % tableSize>>
           s == q[o]
           es2 == hElms'
           T2 == table'
           n2 == count'
           u == Hash!Unlinked(k)
<1>1. /\ newSize = 0 /\ f # Null /\ hRet' = hElms[f].data
      /\ es2 = Hash!Restrict(u, DOMAIN hElms \ {f})
      /\ T2 = IF b # Null THEN table ELSE [table EXCEPT ![hash[k] % tableSize] = hElms[f].next]
      /\ n2 = count - 1
      /\ UNCHANGED <<hash, tableSize, newTable, newSize, row, moving>>
  BY DEF Hash!RemoveFound, Hash!Idle, Hash!resize, Hash!Index
<1>2. u = IF b = Null THEN hElms ELSE [hElms EXCEPT ![b].next = hElms[f].next]
  BY DEF Hash!Unlinked
<1>3. Stands(hash, hElms, table, tableSize, count, newTable, newSize, row, moving, q)
  BY DEF HashStands
<1>4. PICK p : PlaceOf(k, q, p) /\ f = s[p] /\ b = (IF p = 1 THEN Null ELSE s[p - 1])
               /\ (b = Null <=> p = 1)
  BY <1>1, HashFinds
<1>5. FirstAt(hash, hElms, tableSize, q, k, p) BY <1>4 DEF PlaceOf
<1>6. p \in 1 .. Len(s) BY <1>5 DEF FirstAt
<1> HIDE DEF f, b, es2, T2, n2, u, s
<1>7. DOMAIN u = DOMAIN hElms /\ \A e \in DOMAIN hElms :
          u[e] = IF p # 1 /\ e = s[p - 1] THEN [hElms[e] EXCEPT !.next = hElms[f].next] ELSE hElms[e]
  <2>1. CASE p = 1 BY <1>2, <1>4, <2>1
  <2>2. CASE p # 1
    <3>1. u = [hElms EXCEPT ![b].next = hElms[f].next] /\ b = s[p - 1] BY <1>2, <1>4, <2>2
    <3> DEFINE c == s[p - 1]
    <3> HIDE DEF c
    <3>2. u = [hElms EXCEPT ![c].next = hElms[f].next] BY <3>1 DEF c
    <3>3. DOMAIN u = DOMAIN hElms /\ \A e \in DOMAIN hElms :
            u[e] = IF e = c THEN [hElms[e] EXCEPT !.next = hElms[f].next] ELSE hElms[e]
      BY <3>2
    <3> QED BY <2>2, <3>3 DEF c
  <2> QED BY <2>1, <2>2
<1>8. /\ DOMAIN es2 = DOMAIN hElms \ {f} /\ es2 = [e \in DOMAIN es2 |-> es2[e]]
      /\ \A e \in DOMAIN es2 : es2[e] = u[e]
  <2>1. es2 = [e \in DOMAIN hElms \ {f} |-> u[e]] BY <1>1, HashOps DEF Restrict
  <2> QED BY <2>1
<1>9. TakenAt(hash, hElms, table, tableSize, count, q, k, p, es2, T2, n2)
  <2>1. \A e \in DOMAIN es2 : es2[e] =
          IF p # 1 /\ e = s[p - 1] THEN [hElms[e] EXCEPT !.next = hElms[s[p]].next] ELSE hElms[e]
    BY <1>4, <1>7, <1>8
  <2>2. DOMAIN es2 = DOMAIN hElms \ {s[p]} BY <1>4, <1>8
  <2>3. T2 = IF p = 1 THEN [table EXCEPT ![hash[k] % tableSize] = hElms[s[p]].next] ELSE table
    BY <1>1, <1>4
  <2> QED BY <1>1, <1>6, <1>8, <2>1, <2>2, <2>3 DEF TakenAt, s
<1>10. PICK q2 : q2 = TakeAt(q, Slots(tableSize, newSize), o, p) OBVIOUS
<1>11. Stands(hash, es2, T2, tableSize, n2, newTable, newSize, row, moving, q2)
  BY <1>1, <1>3, <1>9, <1>10, StandsTake, Zenon
<1>12. HashStands(q2)' BY <1>1, <1>11, NextStands DEF es2, T2, n2
<1> DEFINE z == hElms[s[p]].data
<1>13. \A x \in Key : ItemsAt(hash, hElms, tableSize, newSize, q, x) =
          IF x = k THEN <<z>> \o ItemsAt(hash, es2, tableSize, newSize, q2, x)
          ELSE ItemsAt(hash, es2, tableSize, newSize, q2, x)
  <2> SUFFICES ASSUME NEW x \in Key
               PROVE  ItemsAt(hash, hElms, tableSize, newSize, q, x) =
                        IF x = k THEN <<z>> \o ItemsAt(hash, es2, tableSize, newSize, q2, x)
                        ELSE ItemsAt(hash, es2, tableSize, newSize, q2, x)
    OBVIOUS
  <2>1. newSize = 0 BY <1>1
  <2>2. OnTop(ItemsAt(hash, hElms, tableSize, newSize, q, x),
              ItemsAt(hash, es2, tableSize, newSize, q2, x), k, x, z)
    BY <1>3, <1>5, <1>9, <1>10, <2>1, ItemsTake, Zenon DEF s
  <2> QED BY <2>2 DEF OnTop
<1> DEFINE I == Hash!Items
           J == Hash!Items'
<1>14. I = [x \in Key |-> ItemsAt(hash, hElms, tableSize, newSize, q, x)] BY HashItems
<1>15. J = [x \in Key |-> ItemsAt(hash, es2, tableSize, newSize, q2, x)]
  <2>1. J = [x \in Key |-> ItemsAt(hash', es2, tableSize', newSize', q2, x)]
    BY <1>12, NextItems DEF es2
  <2> QED BY <1>1, <2>1
<1>16. \A x \in Key : ItemsAt(hash, es2, tableSize, newSize, q2, x) \in Seq(Data)
  <2>1. newSize = 0 BY <1>1
  <2> SUFFICES ASSUME NEW x \in Key
               PROVE  ItemsAt(hash, es2, tableSize, newSize, q2, x) \in Seq(Data)
    OBVIOUS
  <2> QED BY <1>11, <2>1, ItemsIdle
<1>17. z \in Data
  <2>1. hElms[s[p]].data \in Data
    <3>1. newSize = 0 BY <1>1
    <3>2. Tops(hElms[s[p]].data, ItemsAt(hash, hElms, tableSize, newSize, q, k))
      BY <1>3, <1>5, <3>1, ItemsFirst, Zenon DEF s
    <3> QED BY <3>2 DEF Tops
  <2> QED BY <2>1
<1>18. hRet' = z BY <1>1, <1>4
<1> HIDE DEF z, I, J
<1>19. I[k] # <<>> /\ z = Head(I[k]) /\ J = [I EXCEPT ![k] = Tail(I[k])]
  <2>1. I[k] = <<z>> \o J[k] /\ J[k] \in Seq(Data) BY <1>13, <1>14, <1>15, <1>16
  <2> DEFINE v == J[k]
  <2> HIDE DEF v
  <2>2. I[k] = <<z>> \o v /\ v \in Seq(Data) BY <2>1 DEF v
  <2>3. I[k] # <<>> /\ Head(I[k]) = z /\ Tail(I[k]) = v BY <1>17, <2>2
  <2>4. \A x \in Key : J[x] = IF x = k THEN v ELSE I[x] BY <1>13, <1>14, <1>15 DEF v
  <2> QED BY <1>14, <1>15, <2>3, <2>4
<1> QED BY <1>12, <1>18, <1>19 DEF Hash!Store!Take, I, J

LEMMA ModifyGoes ==
    ASSUME NEW q, HashStands(q), NEW k \in Key, NEW d \in Data, Hash!Modify(k, d)
    PROVE  (\E q2 : HashStands(q2)') /\ Hash!Store!Modify(k, d)
<1>1. newSize = 0 /\ UNCHANGED <<hash, tableSize, newTable, newSize, row, moving>>
  BY DEF Hash!Modify, Hash!Idle, Hash!resize
<1>2. CASE Hash!Found(k) = Null /\ hRet' = d /\ Hash!Added(k, d)
  <2>1. (\E q2 : HashStands(q2)') /\ Hash!Items' = [Hash!Items EXCEPT ![k] = <<d>> \o @]
    BY <1>1, <1>2, AddedGoes
  <2>2. Hash!Items[k] = <<>> BY <1>1, <1>2, FoundData
  <2>3. <<d>> \o <<>> = <<d>> OBVIOUS
  <2> DEFINE I == Hash!Items
             J == Hash!Items'
  <2>4. J = [I EXCEPT ![k] = <<d>>]
    <3>1. J = [I EXCEPT ![k] = <<d>> \o I[k]] BY <2>1
    <3> HIDE DEF I, J
    <3>2. I[k] = <<>> BY <2>2 DEF I
    <3> QED BY <2>3, <3>1, <3>2
  <2> QED BY <1>2, <2>1, <2>2, <2>4 DEF Hash!Store!Modify
<1>3. CASE /\ Hash!Found(k) # Null
           /\ hRet' = hElms[Hash!Found(k)].data
           /\ hElms' = [hElms EXCEPT ![Hash!Found(k)].data = d]
           /\ UNCHANGED <<table, count>>
  <2> DEFINE o == <<"old", hash[k] % tableSize>>
             es2 == hElms'
             c == q[o][1]
  <2>1. PICK p : PlaceOf(k, q, p) /\ Hash!Found(k) = q[o][p] BY <1>1, <1>3, HashFinds
  <2>2. FirstAt(hash, hElms, tableSize, q, k, p) BY <2>1 DEF PlaceOf
  <2>3. Stands(hash, hElms, table, tableSize, count, newTable, newSize, row, moving, q)
    BY DEF HashStands
  <2> DEFINE y == q[o][p]
  <2>4. y \in DOMAIN hElms
    <3>1. \A z \in Slots(tableSize, newSize) : q[z] \in Seq(DOMAIN hElms) BY <2>3, StandsIs
    <3>2. o \in Slots(tableSize, newSize) BY <2>3, StandsIs
    <3>3. p \in 1 .. Len(q[o]) BY <2>2 DEF FirstAt
    <3> HIDE DEF o
    <3> QED BY <3>1, <3>2, <3>3
  <2>5. es2 = [hElms EXCEPT ![y].data = d] BY <1>3, <2>1
  <2>6. /\ \A e \in DOMAIN hElms : hElms[e] \in [key : Key, data : Data, next : Cell \cup {Null}]
        /\ DOMAIN hElms \subseteq Cell /\ IsFiniteSet(DOMAIN hElms)
        /\ hElms = [e \in DOMAIN hElms |-> hElms[e]]
    BY <2>3 DEF Stands, Pairs
  <2> HIDE DEF y, es2
  <2>7. /\ DOMAIN es2 = DOMAIN hElms /\ es2 = [e \in DOMAIN es2 |-> es2[e]]
        /\ \A e \in DOMAIN hElms :
             es2[e] = IF e = y THEN [hElms[e] EXCEPT !.data = d] ELSE hElms[e]
    BY <2>4, <2>5
  <2>8. \A e \in DOMAIN hElms :
          /\ es2[e] \in [key : Key, data : Data, next : Cell \cup {Null}]
          /\ es2[e].key = hElms[e].key /\ es2[e].next = hElms[e].next
          /\ es2[e].data = IF e = y THEN d ELSE hElms[e].data
    BY <2>6, <2>7
  <2>9. Alike(es2, hElms) BY <2>6, <2>7, <2>8 DEF Alike, Pairs
  <2>10. Stands(hash, es2, table, tableSize, count, newTable, newSize, row, moving, q)
    BY <2>3, <2>9, StandsAlike, Zenon
  <2>11. HashStands(q)' BY <1>1, <1>3, <2>10, NextStands DEF es2
  <2>12. DataChanged(hElms, es2, q[o][p], d) BY <2>8 DEF y, DataChanged
  <2>13. \A x \in Key : TopChanged(ItemsAt(hash, es2, tableSize, newSize, q, x),
                                   ItemsAt(hash, hElms, tableSize, newSize, q, x), k, x, d)
    <3>1. newSize = 0 BY <1>1
    <3> QED BY <2>2, <2>3, <2>9, <2>12, <3>1, ItemsChange, Zenon
  <2> DEFINE I == Hash!Items
             J == Hash!Items'
  <2>14. I = [x \in Key |-> ItemsAt(hash, hElms, tableSize, newSize, q, x)] BY HashItems
  <2>15. J = [x \in Key |-> ItemsAt(hash, es2, tableSize, newSize, q, x)]
    <3>1. J = [x \in Key |-> ItemsAt(hash', es2, tableSize', newSize', q, x)]
      BY <2>11, NextItems DEF es2
    <3> QED BY <1>1, <3>1
  <2>16. hRet' = Head(Hash!Items[k]) /\ Hash!Items[k] # <<>> BY <1>1, <1>3, FoundData
  <2> HIDE DEF I, J
  <2>17. J = [I EXCEPT ![k] = <<d>> \o Tail(I[k])]
    <3>1. \A x \in Key : J[x] = IF x = k THEN <<d>> \o Tail(I[x]) ELSE I[x]
      BY <2>13, <2>14, <2>15 DEF TopChanged
    <3> QED BY <2>14, <2>15, <3>1
  <2> QED BY <2>11, <2>16, <2>17 DEF Hash!Store!Modify, I, J
<1> QED BY <1>2, <1>3 DEF Hash!Modify

(* Once every element has gone, no key has data.                             *)
LEMMA ForeachRemoveGoes ==
    ASSUME NEW q, HashStands(q), Hash!ForeachRemove
    PROVE  (\E q2 : HashStands(q2)') /\ Hash!Store!Clear
<1> DEFINE K == Slots(tableSize, newSize)
           S == UNION {Hash!ToSet(Hash!Chain(h)) : h \in Hash!Range(table)}
           es2 == hElms'
           T2 == table'
<1>1. /\ newSize = 0 /\ es2 = Hash!Restrict(hElms, DOMAIN hElms \ S)
      /\ T2 = [j \in 0 .. tableSize - 1 |-> Null] /\ count' = 0
      /\ UNCHANGED <<hash, tableSize, hRet, newTable, newSize, row, moving>>
  BY DEF Hash!ForeachRemove, Hash!Idle, Hash!resize, Hash!EmptyTable
<1>2. /\ Shaped(table, tableSize, newTable, newSize, row, moving)
      /\ Chained(hElms, q, K, Heads(table, tableSize, newTable, newSize, row, moving))
      /\ hash \in [Key -> Nat]
  BY DEF HashStands, Stands, AtHome
<1>3. /\ tableSize \in Nat \ {0} /\ row = 0 /\ moving = Null
      /\ newTable \in [0 .. -1 -> Cell \cup {Null}]
      /\ DOMAIN table = 0 .. tableSize - 1
  <2>1. 0 - 1 = -1 OBVIOUS
  <2> QED BY <1>1, <1>2, <2>1 DEF Shaped
<1>4. DOMAIN hElms \subseteq S
  <2> SUFFICES ASSUME NEW e \in DOMAIN hElms PROVE e \in S OBVIOUS
  <2>1. PICK x \in K : e \in ToSet(q[x]) BY <1>2 DEF Chained
  <2>2. PICK j \in 0 .. tableSize - 1 : x = <<"old", j>> BY <1>1, <1>3, SlotsAre
  <2>3. Hash!Chain(table[j]) = q[x] BY <1>1, <2>2, HashReads
  <2>4. table[j] \in Hash!Range(table) BY <1>3, HashOps DEF Range
  <2>5. e \in Hash!ToSet(Hash!Chain(table[j])) BY <2>1, <2>3, HashOps
  <2> QED BY <2>4, <2>5
<1> HIDE DEF S, K
<1>5. DOMAIN es2 = {} /\ es2 = [e \in DOMAIN es2 |-> es2[e]]
  <2>1. es2 = [e \in DOMAIN hElms \ S |-> hElms[e]] BY <1>1, HashOps DEF Restrict
  <2> HIDE DEF es2
  <2> QED BY <1>4, <2>1
<1>6. PICK q2 : q2 = [x \in Slots(tableSize, 0) |-> <<>>] OBVIOUS
<1> HIDE DEF es2, T2
<1>7. Stands(hash, es2, T2, tableSize, 0, newTable, 0, 0, Null, q2)
  BY <1>1, <1>2, <1>3, <1>5, <1>6, StandsEmpty
<1>8. HashStands(q2)' BY <1>1, <1>3, <1>7, NextStands DEF es2, T2
<1>9. Hash!Items' = [x \in Key |-> ItemsAt(hash, es2, tableSize, newSize, q2, x)]
  <2>1. Hash!Items' = [x \in Key |-> ItemsAt(hash', es2, tableSize', newSize', q2, x)]
    BY <1>8, NextItems DEF es2
  <2> QED BY <1>1, <2>1
<1>10. \A x \in Key : ItemsAt(hash, es2, tableSize, 0, q2, x) = <<>> BY <1>6, <1>7, EmptyItems
<1> QED BY <1>1, <1>8, <1>9, <1>10 DEF Hash!Store!Clear
-----------------------------------------------------------------------------
LEMMA RehashGoes ==
    ASSUME NEW q, HashStands(q), NEW z \in Sizes, Hash!Rehash(z)
    PROVE  (\E q2 : HashStands(q2)') /\ UNCHANGED Hash!Store!store
<1> DEFINE N2 == newTable'
<1>1. /\ newSize = 0 /\ newSize' = z /\ N2 = [j \in 0 .. z - 1 |-> Null]
      /\ row' = 0 /\ moving' = table[0]
      /\ UNCHANGED <<hash, hElms, table, tableSize, count, hRet>>
  BY DEF Hash!Rehash, Hash!Idle, Hash!EmptyTable
<1>2. z \in Nat \ {0} BY ListAssumption
<1>3. Stands(hash, hElms, table, tableSize, count, newTable, newSize, row, moving, q)
  BY DEF HashStands
<1>4. PICK q2 : q2 = Begun(q, tableSize, z) OBVIOUS
<1> HIDE DEF N2
<1>5. Stands(hash, hElms, table, tableSize, count, N2, z, 0, table[0], q2)
  <2>1. newSize = 0 BY <1>1
  <2>2. N2 = [j \in 0 .. z - 1 |-> Null] BY <1>1
  <2> QED BY <1>2, <1>3, <1>4, <2>1, <2>2, StandsBegin
<1>6. HashStands(q2)' BY <1>1, <1>5, NextStands DEF N2
<1>7. Hash!Items = [x \in Key |-> ItemsAt(hash, hElms, tableSize, newSize, q, x)] BY HashItems
<1>8. Hash!Items' = [x \in Key |-> ItemsAt(hash, hElms, tableSize, z, q2, x)]
  <2>1. Hash!Items' = [x \in Key |-> ItemsAt(hash', hElms', tableSize', newSize', q2, x)]
    BY <1>6, NextItems
  <2> QED BY <1>1, <2>1
<1>9. \A x \in Key : ItemsAt(hash, hElms, tableSize, z, q2, x)
                       = ItemsAt(hash, hElms, tableSize, newSize, q, x)
  <2>1. newSize = 0 BY <1>1
  <2> QED BY <1>2, <1>3, <1>4, <2>1, ItemsBegin
<1>10. Hash!Items' = Hash!Items BY <1>7, <1>8, <1>9
<1> QED BY <1>1, <1>6, <1>10 DEF Hash!Store!store

LEMMA RehashMoveGoes ==
    ASSUME NEW q, HashStands(q), Hash!RehashMove
    PROVE  (\E q2 : HashStands(q2)') /\ UNCHANGED Hash!Store!store
<1> DEFINE es2 == hElms'
           N2 == newTable'
           m2 == moving'
           b == hash[hElms[moving].key] % newSize
<1>1. /\ moving # Null
      /\ es2 = [hElms EXCEPT ![moving].next = newTable[b]]
      /\ N2 = [newTable EXCEPT ![b] = moving]
      /\ m2 = hElms[moving].next
      /\ UNCHANGED <<hash, table, tableSize, count, hRet, newSize, row>>
  BY DEF Hash!RehashMove, Hash!Index
<1>2. Stands(hash, hElms, table, tableSize, count, newTable, newSize, row, moving, q)
  BY DEF HashStands
<1> HIDE DEF es2, N2, m2
<1>3. MovedAt(hash, hElms, newTable, newSize, moving, es2, N2, m2) BY <1>1 DEF MovedAt
<1>4. PICK q2 : q2 = MoveTo(q, Slots(tableSize, newSize), <<"old", row>>, <<"new", b>>, moving)
  OBVIOUS
<1>5. Stands(hash, es2, table, tableSize, count, N2, newSize, row, m2, q2)
  BY <1>2, <1>3, <1>4, StandsMove, Zenon
<1>6. HashStands(q2)' BY <1>1, <1>5, NextStands DEF es2, N2, m2
<1>7. Hash!Items = [x \in Key |-> ItemsAt(hash, hElms, tableSize, newSize, q, x)] BY HashItems
<1>8. Hash!Items' = [x \in Key |-> ItemsAt(hash, es2, tableSize, newSize, q2, x)]
  <2>1. Hash!Items' = [x \in Key |-> ItemsAt(hash', es2, tableSize', newSize', q2, x)]
    BY <1>6, NextItems DEF es2
  <2> QED BY <1>1, <2>1
<1>9. \A x \in Key : ItemsAt(hash, es2, tableSize, newSize, q2, x)
                       = ItemsAt(hash, hElms, tableSize, newSize, q, x)
  <2> SUFFICES ASSUME NEW x \in Key
               PROVE  ItemsAt(hash, es2, tableSize, newSize, q2, x)
                       = ItemsAt(hash, hElms, tableSize, newSize, q, x)
    OBVIOUS
  <2>1. Kept(ItemsAt(hash, es2, tableSize, newSize, q2, x),
             ItemsAt(hash, hElms, tableSize, newSize, q, x))
    BY <1>2, <1>3, <1>4, ItemsMove, Zenon
  <2> QED BY <2>1 DEF Kept
<1>10. Hash!Items' = Hash!Items BY <1>7, <1>8, <1>9
<1> QED BY <1>1, <1>6, <1>10 DEF Hash!Store!store

LEMMA RehashChainGoes ==
    ASSUME NEW q, HashStands(q), Hash!RehashChain
    PROVE  (\E q2 : HashStands(q2)') /\ UNCHANGED Hash!Store!store
<1> DEFINE r == row + 1
           m == table[r]
<1>1. /\ newSize # 0 /\ moving = Null /\ r < tableSize /\ row' = r /\ moving' = m
      /\ UNCHANGED <<hash, hElms, table, tableSize, count, hRet, newTable, newSize>>
  BY DEF Hash!RehashChain, Hash!Idle
<1>2. Stands(hash, hElms, table, tableSize, count, newTable, newSize, row, moving, q)
  BY DEF HashStands
<1>3. Stands(hash, hElms, table, tableSize, count, newTable, newSize, r, m, q)
  <2>1. newSize # 0 BY <1>1
  <2>2. moving = Null BY <1>1
  <2>3. row + 1 < tableSize BY <1>1
  <2> QED BY <1>2, <2>1, <2>2, <2>3, StandsNextRow, Zenon
<1> HIDE DEF r, m
<1>4. HashStands(q)' BY <1>1, <1>3, NextStands
<1>5. Hash!Items = [x \in Key |-> ItemsAt(hash, hElms, tableSize, newSize, q, x)] BY HashItems
<1>6. Hash!Items' = [x \in Key |-> ItemsAt(hash, hElms, tableSize, newSize, q, x)]
  <2>1. Hash!Items' = [x \in Key |-> ItemsAt(hash', hElms', tableSize', newSize', q, x)]
    BY <1>4, NextItems
  <2> QED BY <1>1, <2>1
<1> QED BY <1>1, <1>4, <1>5, <1>6 DEF Hash!Store!store

LEMMA RehashEndGoes ==
    ASSUME NEW q, HashStands(q), Hash!RehashEnd
    PROVE  (\E q2 : HashStands(q2)') /\ Hash!Store!TurnRound
<1>1. /\ newSize # 0 /\ moving = Null /\ row + 1 = tableSize
      /\ table' = newTable /\ tableSize' = newSize /\ newTable' = <<>>
      /\ newSize' = 0 /\ row' = 0
      /\ UNCHANGED <<hash, hElms, count, hRet, moving>>
  BY DEF Hash!RehashEnd, Hash!Idle
<1>2. Stands(hash, hElms, table, tableSize, count, newTable, newSize, row, moving, q)
  BY DEF HashStands
<1> DEFINE N2 == <<>>
<1>3. N2 \in [0 .. -1 -> Cell \cup {Null}] BY NoTable
<1>4. PICK q2 : q2 = Ended(q, newSize) OBVIOUS
<1>5. Stands(hash, hElms, newTable, newSize, count, N2, 0, 0, Null, q2)
  <2>1. newSize # 0 BY <1>1
  <2>2. moving = Null BY <1>1
  <2>3. row + 1 = tableSize BY <1>1
  <2> HIDE DEF N2
  <2> QED BY <1>2, <1>3, <1>4, <2>1, <2>2, <2>3, StandsEnd, Zenon
<1>6. HashStands(q2)' BY <1>1, <1>5, NextStands
<1>7. Hash!Items = [x \in Key |-> ItemsAt(hash, hElms, tableSize, newSize, q, x)] BY HashItems
<1>8. Hash!Items' = [x \in Key |-> ItemsAt(hash, hElms, newSize, 0, q2, x)]
  <2>1. Hash!Items' = [x \in Key |-> ItemsAt(hash', hElms', tableSize', newSize', q2, x)]
    BY <1>6, NextItems
  <2> QED BY <1>1, <2>1
<1>9. \A x \in Key : ItemsAt(hash, hElms, newSize, 0, q2, x)
                       = Reverse(ItemsAt(hash, hElms, tableSize, newSize, q, x))
  <2> SUFFICES ASSUME NEW x \in Key
               PROVE  ItemsAt(hash, hElms, newSize, 0, q2, x)
                       = Reverse(ItemsAt(hash, hElms, tableSize, newSize, q, x))
    OBVIOUS
  <2>1. newSize # 0 BY <1>1
  <2>2. moving = Null BY <1>1
  <2>3. row + 1 = tableSize BY <1>1
  <2>4. Turned(ItemsAt(hash, hElms, newSize, 0, q2, x),
               ItemsAt(hash, hElms, tableSize, newSize, q, x))
    BY <1>2, <1>4, <2>1, <2>2, <2>3, ItemsEnd, Zenon
  <2> QED BY <2>4 DEF Turned
<1>10. Hash!Items' = [x \in Key |-> Reverse(Hash!Items[x])] BY <1>7, <1>8, <1>9
<1>11. Hash!Items' = [x \in Key |-> Hash!Store!Reverse(Hash!Items[x])] BY <1>10, HashOps
<1> QED BY <1>1, <1>6, <1>11 DEF Hash!Store!TurnRound
-----------------------------------------------------------------------------
HashHolds == \E q : HashStands(q)

LEMMA HashInit ==
    ASSUME Hash!Init
    PROVE  HashHolds /\ Hash!Store!Init
<1> DEFINE N == <<>>
<1>1. /\ hash \in [Key -> Nat] /\ hElms = [c \in {} |-> Null] /\ tableSize \in Nat \ {0}
      /\ table = [j \in 0 .. tableSize - 1 |-> Null] /\ count = 0 /\ hRet = Null
      /\ newTable = N /\ newSize = 0 /\ row = 0 /\ moving = Null
  BY ListAssumption DEF Hash!Init, Hash!EmptyTable
<1>2. DOMAIN hElms = {} /\ hElms = [e \in DOMAIN hElms |-> hElms[e]] BY <1>1
<1>3. N \in [0 .. -1 -> Cell \cup {Null}] BY NoTable
<1> HIDE DEF N
<1>4. PICK q : q = [x \in Slots(tableSize, 0) |-> <<>>] OBVIOUS
<1>5. Stands(hash, hElms, table, tableSize, 0, N, 0, 0, Null, q)
  BY <1>1, <1>2, <1>3, <1>4, StandsEmpty
<1>6. HashStands(q) BY <1>1, <1>5 DEF HashStands
<1>7. Hash!Items = [x \in Key |-> ItemsAt(hash, hElms, tableSize, 0, q, x)] BY <1>1, <1>6, HashItems
<1>8. \A x \in Key : ItemsAt(hash, hElms, tableSize, 0, q, x) = <<>> BY <1>4, <1>5, EmptyItems
<1> QED BY <1>1, <1>6, <1>7, <1>8 DEF HashHolds, Hash!Store!Init

LEMMA HashStep ==
    ASSUME HashHolds, Hash!Next
    PROVE  HashHolds' /\ [Hash!Store!Next]_(Hash!Store!store)
<1>1. PICK q : HashStands(q) BY DEF HashHolds
<1> DEFINE Goes == (\E q2 : HashStands(q2)')
           Does == [Hash!Store!Next]_(Hash!Store!store)
<1>2. ASSUME NEW k \in Key, NEW d \in Data, Hash!Insert(k, d) PROVE Goes /\ Does
  BY <1>1, <1>2, InsertGoes DEF Hash!Store!Next
<1>3. ASSUME NEW k \in Key, NEW d \in Data, Hash!Modify(k, d) PROVE Goes /\ Does
  BY <1>1, <1>3, ModifyGoes DEF Hash!Store!Next
<1>4. ASSUME NEW k \in Key, Hash!Get(k) PROVE Goes /\ Does
  BY <1>1, <1>4, GetGoes DEF Hash!Store!Next
<1>5. ASSUME NEW k \in Key, Hash!RemoveFound(k) PROVE Goes /\ Does
  BY <1>1, <1>5, RemoveFoundGoes DEF Hash!Store!Next
<1>6. ASSUME NEW k \in Key, Hash!RemoveNothing(k) PROVE Goes /\ Does
  BY <1>1, <1>6, RemoveNothingGoes DEF Hash!Store!Next
<1>7. ASSUME Hash!ForeachRemove PROVE Goes /\ Does
  BY <1>1, <1>7, ForeachRemoveGoes DEF Hash!Store!Next
<1>8. ASSUME NEW n \in Sizes, Hash!Rehash(n) PROVE Goes /\ Does
  BY <1>1, <1>8, RehashGoes
<1>9. ASSUME Hash!RehashMove PROVE Goes /\ Does
  BY <1>1, <1>9, RehashMoveGoes
<1>10. ASSUME Hash!RehashChain PROVE Goes /\ Does
  BY <1>1, <1>10, RehashChainGoes
<1>11. ASSUME Hash!RehashEnd PROVE Goes /\ Does
  BY <1>1, <1>11, RehashEndGoes DEF Hash!Store!Next
<1> HIDE DEF Does
<1>12. Goes /\ Does
  <2> HIDE DEF Goes
  <2> QED BY <1>2, <1>3, <1>4, <1>5, <1>6, <1>7, <1>8, <1>9, <1>10, <1>11 DEF Hash!Next
<1> QED BY <1>12 DEF HashHolds, Does

LEMMA HashStays ==
    ASSUME HashHolds, UNCHANGED hashtable
    PROVE  HashHolds' /\ UNCHANGED Hash!Store!store
<1>1. PICK q : HashStands(q) BY DEF HashHolds
<1>2. UNCHANGED <<hash, hElms, table, tableSize, count, hRet, newTable, newSize, row, moving>>
  BY DEF hashtable
<1>3. HashStands(q)' BY <1>1, <1>2 DEF HashStands
<1>4. Hash!Items' = Hash!Items
  <2>1. Hash!Items = [x \in Key |-> ItemsAt(hash, hElms, tableSize, newSize, q, x)]
    BY <1>1, HashItems
  <2>2. Hash!Items' = [x \in Key |-> ItemsAt(hash', hElms', tableSize', newSize', q, x)]
    BY <1>3, NextItems
  <2> QED BY <1>2, <2>1, <2>2
<1> QED BY <1>2, <1>3, <1>4 DEF HashHolds, Hash!Store!store

LEMMA HashNext ==
    ASSUME HashHolds, [StepNext]_<<kind, vars, hashtable, slist>>
    PROVE  HashHolds' /\ [Hash!Store!Next]_(Hash!Store!store)
<1>1. CASE UNCHANGED hashtable BY <1>1, HashStays
<1>2. CASE Hash!Next BY <1>2, HashStep
<1> QED BY <1>1, <1>2 DEF StepNext

(* However bl_hashtable is used, what it holds under each key is a stack,    *)
(* the element inserted last on top; a rehash turns every stack round and    *)
(* does nothing else.                                                        *)
THEOREM TableIsStacks == StepSpec => HashImplementsStore
<1>1. StepInit => HashHolds /\ Hash!Store!Init BY HashInit DEF StepInit
<1>2. HashHolds /\ [StepNext]_<<kind, vars, hashtable, slist>>
        => HashHolds' /\ [Hash!Store!Next]_(Hash!Store!store)
  BY HashNext
<1> QED BY <1>1, <1>2, PTL DEF StepSpec, HashImplementsStore, Hash!ImplementsStore, Hash!Store!Spec

-----------------------------------------------------------------------------
(***************************************************************************)
(* bl_queue, bl_slist and bl_stack.                                         *)
(***************************************************************************)
IInv == TypeOK /\ ListIntact

LEMMA LastOrBefore == \A n \in Nat : \A i \in 1 .. n : i = n \/ i < n
OBVIOUS

LEMMA TailIs ==
    ASSUME NEW S, NEW s \in Seq(S), s # <<>>
    PROVE  Tail(s) = [i \in 1 .. Len(s) - 1 |-> s[i + 1]]
<1>1. /\ Tail(s) \in Seq(S)
      /\ Len(Tail(s)) = Len(s) - 1
      /\ \A i \in 1 .. Len(Tail(s)) : Tail(s)[i] = s[i + 1]
  BY HeadTailProperties
<1> DEFINE t == Tail(s)
<1>2. t \in [1 .. Len(t) -> S] BY <1>1, LenProperties
<1> HIDE DEF t
<1>3. t = [i \in 1 .. Len(t) |-> t[i]] BY <1>2
<1> QED BY <1>1, <1>3 DEF t

(* What follows from IInv on the length of the list and its first cell. *)
LEMMA Lengths ==
    ASSUME IInv
    PROVE  /\ Len(chain) \in Nat
           /\ DOMAIN chain = 1 .. Len(chain)
           /\ \A i \in 1 .. Len(chain) : chain[i] \in Cell
           /\ size = Len(chain)
           /\ size = 0 => chain = <<>> /\ head = Null
           /\ size > 0 => /\ chain # <<>>
                          /\ head = chain[1]
                          /\ head \in Cell
                          /\ tail = chain[Len(chain)]
BY DEF IInv, TypeOK, ListIntact, Linked

(* bl_queue_enqueue appends its cell, and its data, to a whole list.        *)
LEMMA EnqueuedKeeps ==
    ASSUME IInv, NEW c \in Cell \ used, NEW d \in Data, Enqueued(c, d),
           ret' \in Data \cup {Null}
    PROVE  IInv' /\ Contents' = Append(Contents, d)
<1> USE Lengths
<1>1. chain' = Append(chain, c)
  <2>1. CASE size = 0 BY <2>1 DEF Enqueued
  <2>2. CASE size # 0
    <3>1. size > 0 /\ chain # <<>> /\ tail = chain[Len(chain)] BY <2>2
    <3> QED BY <2>2, <3>1 DEF Enqueued
  <2> QED BY <2>1, <2>2
<1>2. /\ chain' \in Seq(Cell)
      /\ Len(chain') = Len(chain) + 1
      /\ \A i \in 1 .. Len(chain) : chain'[i] = chain[i]
      /\ chain'[Len(chain) + 1] = c
  BY <1>1 DEF IInv, TypeOK
<1>3. \A i \in 1 .. Len(chain) : chain[i] # c
  BY DEF IInv, ListIntact
<1>4. TypeOK'
  <2>1. next' \in [Cell -> Cell \cup {Null}] BY DEF Enqueued, IInv, TypeOK
  <2>2. data' \in [Cell -> Data] BY DEF Enqueued, IInv, TypeOK
  <2>3. head' \in Cell \cup {Null} /\ tail' \in Cell \cup {Null} /\ size' \in Nat /\ used' \subseteq Cell
    BY DEF Enqueued, IInv, TypeOK
  <2> QED BY <1>2, <2>1, <2>2, <2>3 DEF TypeOK
<1>5. Linked'
  <2>1. next'[c] = Null /\ head' = chain'[1]
    <3>1. CASE size = 0 BY <3>1, <1>2 DEF Enqueued, IInv, TypeOK
    <3>2. CASE size # 0
      <4>1. tail # c BY <3>2, <1>3
      <4> QED BY <3>2, <4>1, <1>2 DEF Enqueued, IInv, TypeOK
    <3> QED BY <3>1, <3>2
  <2>2. ASSUME NEW i \in 1 .. Len(chain)
        PROVE  next'[chain[i]] = chain'[i + 1]
    <3>1. size # 0 /\ tail = chain[Len(chain)] BY <2>2
    <3>2. next' = [next EXCEPT ![c] = Null, ![tail] = c] BY <3>1 DEF Enqueued
    <3>3. CASE i = Len(chain) BY <3>1, <3>2, <3>3, <1>2, <1>3 DEF IInv, TypeOK
    <3>4. CASE i < Len(chain)
      <4>1. chain[i] # tail BY <3>1, <3>4 DEF IInv, ListIntact, Once
      <4>2. next'[chain[i]] = next[chain[i]] BY <3>2, <4>1, <1>3 DEF IInv, TypeOK
      <4>3. next[chain[i]] = chain[i + 1] BY <3>4 DEF IInv, ListIntact, Linked
      <4> QED BY <4>2, <4>3, <3>4, <1>2
    <3>5. Len(chain) \in Nat /\ i \in 1 .. Len(chain) OBVIOUS
    <3>6. i = Len(chain) \/ i < Len(chain) BY <3>5, LastOrBefore, Zenon
    <3> QED BY <3>3, <3>4, <3>6, Zenon
  <2>3. ASSUME NEW i \in 1 .. Len(chain')
        PROVE  next'[chain'[i]] = IF i < Len(chain') THEN chain'[i + 1] ELSE Null
    <3>1. CASE i = Len(chain) + 1 BY <3>1, <2>1, <1>2
    <3>2. CASE i \in 1 .. Len(chain) BY <3>2, <2>2, <1>2
    <3> QED BY <3>1, <3>2, <1>2
  <2>4. chain' # <<>> BY <1>2
  <2> QED BY <2>1, <2>3, <2>4 DEF Linked
<1>6. ListIntact'
  <2>1. size' = Len(chain') /\ tail' = chain'[Len(chain')] BY <1>2 DEF Enqueued
  <2>2. used' = {chain'[i] : i \in 1 .. Len(chain')}
    <3>1. used' = used \cup {c} /\ used = {chain[i] : i \in 1 .. Len(chain)}
      BY DEF Enqueued, IInv, ListIntact
    <3> QED BY <3>1, <1>2
  <2>3. Once'
    <3>1. Once BY DEF IInv, ListIntact
    <3> QED BY <3>1, <1>2, <1>3 DEF Once
  <2> QED BY <1>5, <2>1, <2>2, <2>3 DEF ListIntact
<1>7. Contents' = Append(Contents, d)
  <2>1. data' = [data EXCEPT ![c] = d] BY DEF Enqueued
  <2>2. \A i \in 1 .. Len(chain) : data'[chain'[i]] = data[chain[i]]
    BY <2>1, <1>2, <1>3 DEF IInv, TypeOK
  <2>3. data'[c] = d BY <2>1 DEF IInv, TypeOK
  <2>4. Contents' = [i \in 1 .. Len(chain) + 1 |-> IF i \in 1 .. Len(chain) THEN data[chain[i]] ELSE d]
    BY <1>2, <2>2, <2>3 DEF Contents
  <2>5. Contents \in Seq(Data) /\ Len(Contents) = Len(chain) BY DEF Contents, IInv, TypeOK
  <2> QED BY <2>4, <2>5 DEF Contents
<1> QED BY <1>4, <1>6, <1>7 DEF IInv

(* dequeue takes the first element.                                         *)
LEMMA DequeueKeeps ==
    ASSUME IInv, Dequeue
    PROVE  IInv' /\ Contents # <<>> /\ ret' = Head(Contents) /\ Contents' = Tail(Contents)
<1> USE Lengths
<1>1. size > 0 /\ head = chain[1] /\ chain # <<>> /\ Len(chain) >= 1
  BY DEF Dequeue, IInv, TypeOK
<1>2. /\ chain' \in Seq(Cell)
      /\ Len(chain') = Len(chain) - 1
      /\ \A i \in 1 .. Len(chain') : chain'[i] = chain[i + 1]
  BY <1>1 DEF Dequeue, IInv, TypeOK
<1>3. \A i \in 2 .. Len(chain) : chain[i] # chain[1]
  BY <1>1 DEF IInv, ListIntact, Once
<1>4. TypeOK'
  <2>1. head \in Cell /\ next[head] \in Cell \cup {Null} /\ data[head] \in Data
    BY <1>1 DEF IInv, TypeOK
  <2>2. size' \in Nat BY <1>1 DEF Dequeue, IInv, TypeOK
  <2> QED BY <1>2, <2>1, <2>2, Zenon DEF Dequeue, IInv, TypeOK
<1>5. Linked'
  <2>1. head' = IF chain' = <<>> THEN Null ELSE chain'[1]
    <3>1. head' = IF 1 < Len(chain) THEN chain[2] ELSE Null
      BY <1>1 DEF Dequeue, IInv, ListIntact, Linked
    <3>2. CASE Len(chain) = 1 BY <3>1, <3>2, <1>2
    <3>3. CASE Len(chain) > 1
      <4>1. chain' # <<>> /\ chain'[1] = chain[2] BY <3>3, <1>2
      <4> QED BY <3>1, <3>3, <4>1
    <3> QED BY <3>2, <3>3, <1>1
  <2>2. next' = next BY DEF Dequeue
  <2>3. ASSUME NEW i \in 1 .. Len(chain')
        PROVE  next'[chain'[i]] = IF i < Len(chain') THEN chain'[i + 1] ELSE Null
    <3>1. i + 1 \in 1 .. Len(chain) /\ chain'[i] = chain[i + 1] BY <1>2
    <3>2. next[chain[i + 1]] = IF i + 1 < Len(chain) THEN chain[i + 1 + 1] ELSE Null
      BY <3>1 DEF IInv, ListIntact, Linked
    <3>3. i < Len(chain') => chain'[i + 1] = chain[i + 1 + 1] BY <1>2
    <3> QED BY <2>2, <3>1, <3>2, <3>3, <1>2
  <2> QED BY <2>1, <2>3 DEF Linked
<1>6. ListIntact'
  <2>1. size' = Len(chain') BY <1>2 DEF Dequeue
  <2>2. size' > 0 => tail' = chain'[Len(chain')]
    BY <1>1, <1>2, <2>1 DEF Dequeue
  <2>3. used' = {chain'[i] : i \in 1 .. Len(chain')}
    <3>1. used' = used \ {chain[1]} /\ used = {chain[i] : i \in 1 .. Len(chain)}
      BY <1>1 DEF Dequeue, IInv, ListIntact
    <3>2. ASSUME NEW i \in 1 .. Len(chain), chain[i] # chain[1]
          PROVE  \E j \in 1 .. Len(chain') : chain'[j] = chain[i]
      <4>1. i - 1 \in 1 .. Len(chain') BY <3>2, <1>2
      <4>2. chain'[i - 1] = chain[i] BY <4>1, <1>2
      <4> QED BY <4>1, <4>2
    <3>3. ASSUME NEW j \in 1 .. Len(chain')
          PROVE  chain'[j] \in used'
      <4>1. j + 1 \in 2 .. Len(chain) /\ chain'[j] = chain[j + 1] BY <1>2
      <4> QED BY <4>1, <3>1, <1>3
    <3> QED BY <3>1, <3>2, <3>3
  <2>4. Once'
    <3>1. ASSUME NEW i \in 1 .. Len(chain'), NEW j \in 1 .. Len(chain'), chain'[i] = chain'[j]
          PROVE  i = j
      <4>1. i + 1 \in 1 .. Len(chain) /\ j + 1 \in 1 .. Len(chain) /\ chain[i + 1] = chain[j + 1]
        BY <3>1, <1>2
      <4>2. i + 1 = j + 1 BY <4>1 DEF IInv, ListIntact, Once
      <4> QED BY <4>2
    <3> QED BY <3>1 DEF Once
  <2> QED BY <1>5, <2>1, <2>2, <2>3, <2>4 DEF ListIntact
<1>7. Contents \in Seq(Data) /\ Len(Contents) = Len(chain) /\ Contents # <<>>
  BY <1>1 DEF Contents, IInv, TypeOK
<1>8. ret' = Head(Contents)
  BY <1>1, <1>7 DEF Dequeue, Contents
<1>9. Contents' = Tail(Contents)
  <2>1. Contents' = [i \in 1 .. Len(chain) - 1 |-> data[chain[i + 1]]]
    BY <1>2 DEF Contents, Dequeue
  <2>2. Tail(Contents) = [i \in 1 .. Len(Contents) - 1 |-> Contents[i + 1]]
    <3> HIDE DEF Contents
    <3> QED BY <1>7, TailIs
  <2>3. \A i \in 1 .. Len(chain) - 1 : Contents[i + 1] = data[chain[i + 1]]
    BY DEF Contents
  <2> QED BY <2>1, <2>2, <2>3, <1>7
<1> QED BY <1>4, <1>6, <1>7, <1>8, <1>9 DEF IInv

(* An element taken out of the middle leaves the others in their order.     *)
LEMMA UnlinkKeeps ==
    ASSUME IInv, NEW i \in 1 .. Len(chain), i < Len(chain) \/ i = 1, Unlink(i),
           UNCHANGED <<data, tail>>, ret' \in Data \cup {Null}
    PROVE  /\ IInv'
           /\ Contents' = [j \in 1 .. Len(Contents) - 1 |->
                              IF j < i THEN Contents[j] ELSE Contents[j + 1]]
<1> USE Lengths
<1> DEFINE From(j) == IF j < i THEN j ELSE j + 1
<1>1. Len(chain) >= 1 /\ chain' = [j \in 1 .. Len(chain) - 1 |-> chain[From(j)]]
  BY DEF Unlink
<1>2. \A j \in 1 .. Len(chain) - 1 : From(j) \in 1 .. Len(chain) /\ From(j) # i
  BY <1>1
<1>3. /\ chain' \in Seq(Cell)
      /\ Len(chain') = Len(chain) - 1
      /\ \A j \in 1 .. Len(chain') : chain'[j] = chain[From(j)]
  BY <1>1, <1>2
<1>range. Len(chain) \in Nat /\ i \in Nat /\ 1 <= i /\ i <= Len(chain) OBVIOUS
<1>shift. /\ \A j, k \in 1 .. Len(chain) - 1 : From(j) = From(k) => j = k
          /\ \A j \in 1 .. Len(chain) : j # i => \E k \in 1 .. Len(chain) - 1 : From(k) = j
          /\ \A j \in 1 .. Len(chain) - 1 : j # i - 1 =>
                /\ From(j) # i - 1
                /\ From(j + 1) = From(j) + 1
                /\ From(j) < Len(chain) <=> j < Len(chain) - 1
  <2>1. ASSUME NEW j \in 1 .. Len(chain), j # i
        PROVE  \E k \in 1 .. Len(chain) - 1 : From(k) = j
    <3>1. CASE j < i
      <4>1. j \in 1 .. Len(chain) - 1 /\ From(j) = j BY <1>range, <3>1
      <4> QED BY <4>1
    <3>2. CASE j > i
      <4>1. j - 1 \in 1 .. Len(chain) - 1 /\ From(j - 1) = j BY <1>range, <3>2
      <4> QED BY <4>1
    <3> QED BY <1>range, <2>1, <3>1, <3>2
  <2>2. \A j, k \in 1 .. Len(chain) - 1 : From(j) = From(k) => j = k BY <1>range
  <2>3. \A j \in 1 .. Len(chain) - 1 : j # i - 1 =>
            /\ From(j) # i - 1
            /\ From(j + 1) = From(j) + 1
            /\ From(j) < Len(chain) <=> j < Len(chain) - 1
    BY <1>range
  <2> QED BY <2>1, <2>2, <2>3
<1>ends. /\ i > 1 => From(i - 1) = i - 1 /\ From(1) = 1
         /\ From(i) = i + 1
         /\ i < Len(chain) => From(Len(chain) - 1) = Len(chain)
  <2>1. i > 1 => From(i - 1) = i - 1 BY <1>range
  <2>2. i > 1 => From(1) = 1 BY <1>range
  <2>3. From(i) = i + 1 BY <1>range
  <2>4. i < Len(chain) => From(Len(chain) - 1) = Len(chain)
    <3>1. ASSUME i < Len(chain) PROVE ~(Len(chain) - 1 < i) BY <1>range, <3>1
    <3> QED BY <1>range, <3>1
  <2> QED BY <2>1, <2>2, <2>3, <2>4, Zenon
<1> HIDE DEF From
<1>4. \A j, k \in 1 .. Len(chain) : chain[j] = chain[k] => j = k
  BY DEF IInv, ListIntact, Once
<1>5. TypeOK'
  <2>1. i > 1 => chain[i - 1] \in Cell OBVIOUS
  <2>2. chain[i] \in Cell /\ chain[1] \in Cell BY <1>1
  <2>3. next' \in [Cell -> Cell \cup {Null}]
    BY <2>1, <2>2 DEF Unlink, IInv, TypeOK
  <2>4. head' \in Cell \cup {Null} BY <2>2 DEF Unlink, IInv, TypeOK
  <2>5. size' \in Nat /\ used' \subseteq Cell BY <1>1 DEF Unlink, IInv, TypeOK
  <2> QED BY <1>3, <2>3, <2>4, <2>5 DEF IInv, TypeOK
<1>6. Linked'
  <2>1. head' = IF chain' = <<>> THEN Null ELSE chain'[1]
    <3>1. CASE i = 1
      <4>1. head' = IF 1 < Len(chain) THEN chain[2] ELSE Null
        BY <3>1, <1>1 DEF Unlink, IInv, ListIntact, Linked
      <4>2. CASE Len(chain) = 1 BY <4>1, <4>2, <1>3
      <4>3. CASE Len(chain) > 1
        <5>1. chain' # <<>> /\ chain'[1] = chain[2] BY <4>3, <3>1, <1>3, <1>ends
        <5> QED BY <4>1, <4>3, <5>1
      <4> QED BY <4>2, <4>3, <1>1
    <3>2. CASE i # 1
      <4>1. chain' # <<>> /\ chain'[1] = chain[1] BY <3>2, <1>range, <1>3, <1>ends
      <4>2. head' = chain[1] BY <3>2, <1>1 DEF Unlink
      <4> QED BY <4>1, <4>2
    <3> QED BY <3>1, <3>2
  <2>2. ASSUME NEW j \in 1 .. Len(chain')
        PROVE  next'[chain'[j]] = IF j < Len(chain') THEN chain'[j + 1] ELSE Null
    <3>1. /\ j \in 1 .. Len(chain) - 1
          /\ From(j) \in 1 .. Len(chain)
          /\ chain'[j] = chain[From(j)]
      BY <1>2, <1>3
    <3>2. CASE i > 1 /\ j = i - 1
      <4>1. i < Len(chain) BY <3>2, <3>1, <1>range
      <4>2. next' = [next EXCEPT ![chain[i - 1]] = next[chain[i]]] BY <3>2 DEF Unlink
      <4>3. chain'[j] = chain[i - 1] /\ chain[i - 1] \in Cell BY <3>1, <3>2, <1>ends
      <4>4. next'[chain'[j]] = next[chain[i]] BY <4>2, <4>3 DEF IInv, TypeOK
      <4>5. next[chain[i]] = chain[i + 1] BY <4>1 DEF IInv, ListIntact, Linked
      <4>6. j < Len(chain') /\ j + 1 = i /\ chain'[i] = chain[i + 1]
        BY <3>2, <4>1, <1>3, <1>ends, <1>range
      <4> QED BY <4>4, <4>5, <4>6
    <3>3. CASE j # i - 1
      <4>1. next'[chain[From(j)]] = next[chain[From(j)]]
        <5>1. CASE i = 1 BY <5>1 DEF Unlink
        <5>2. CASE i # 1
          <6>1. i - 1 \in 1 .. Len(chain) /\ From(j) # i - 1 BY <5>2, <3>1, <3>3, <1>range, <1>shift
          <6>2. chain[From(j)] # chain[i - 1] BY <6>1, <3>1, <1>4
          <6>3. next' = [next EXCEPT ![chain[i - 1]] = next[chain[i]]] BY <5>2 DEF Unlink
          <6> QED BY <6>2, <6>3, <3>1 DEF IInv, TypeOK
        <5> QED BY <5>1, <5>2
      <4>2. next[chain[From(j)]] = IF From(j) < Len(chain) THEN chain[From(j) + 1] ELSE Null
        BY <3>1 DEF IInv, ListIntact, Linked
      <4>3. /\ From(j) < Len(chain) <=> j < Len(chain')
            /\ From(j + 1) = From(j) + 1
        BY <3>1, <3>3, <1>shift, <1>3
      <4>4. j < Len(chain') => chain'[j + 1] = chain[From(j) + 1]
        <5> SUFFICES ASSUME j < Len(chain') PROVE chain'[j + 1] = chain[From(j) + 1]
          OBVIOUS
        <5>1. j + 1 \in 1 .. Len(chain') BY <3>1, <1>range
        <5>2. chain'[j + 1] = chain[From(j + 1)] BY <5>1, <1>3
        <5> QED BY <4>3, <5>2
      <4> QED BY <3>1, <4>1, <4>2, <4>3, <4>4
    <3>4. CASE i = 1 /\ j = i - 1 BY <3>4, <3>1
    <3> QED BY <3>2, <3>3, <3>4, <1>range
  <2> QED BY <2>1, <2>2 DEF Linked
<1>7. ListIntact'
  <2>1. size' = Len(chain') BY <1>3 DEF Unlink
  <2>2. size' > 0 => tail' = chain'[Len(chain')]
    <3>1. ASSUME size' > 0 PROVE i < Len(chain) BY <3>1, <2>1, <1>3, <1>range
    <3>2. ASSUME size' > 0 PROVE tail' = chain'[Len(chain')]
      <4>1. Len(chain') = Len(chain) - 1 /\ Len(chain') \in 1 .. Len(chain') BY <3>2, <2>1, <1>3, <1>range
      <4>2. chain'[Len(chain')] = chain[Len(chain)] BY <4>1, <3>1, <3>2, <1>3, <1>ends
      <4>3. tail = chain[Len(chain)] BY <1>1
      <4> QED BY <4>2, <4>3
    <3> QED BY <3>2
  <2>3. used' = {chain'[j] : j \in 1 .. Len(chain')}
    <3>1. used' = used \ {chain[i]} /\ used = {chain[j] : j \in 1 .. Len(chain)}
      BY DEF Unlink, IInv, ListIntact
    <3>2. ASSUME NEW j \in 1 .. Len(chain), chain[j] # chain[i]
          PROVE  \E k \in 1 .. Len(chain') : chain'[k] = chain[j]
      <4>1. PICK k \in 1 .. Len(chain) - 1 : From(k) = j BY <3>2, <1>shift
      <4> QED BY <4>1, <1>3
    <3>3. ASSUME NEW j \in 1 .. Len(chain')
          PROVE  chain'[j] \in used'
      <4>1. chain'[j] = chain[From(j)] /\ From(j) \in 1 .. Len(chain) /\ From(j) # i BY <1>2, <1>3
      <4> QED BY <4>1, <3>1, <1>4
    <3> QED BY <3>1, <3>2, <3>3
  <2>4. Once'
    <3>1. ASSUME NEW j \in 1 .. Len(chain'), NEW k \in 1 .. Len(chain'), chain'[j] = chain'[k]
          PROVE  j = k
      <4>1. /\ chain[From(j)] = chain[From(k)]
            /\ From(j) \in 1 .. Len(chain) /\ From(k) \in 1 .. Len(chain)
        BY <3>1, <1>2, <1>3
      <4>2. From(j) = From(k) BY <4>1, <1>4
      <4> QED BY <4>2, <1>3, <1>shift
    <3> QED BY <3>1 DEF Once
  <2> QED BY <1>6, <2>1, <2>2, <2>3, <2>4 DEF ListIntact
<1>8. Contents' = [j \in 1 .. Len(Contents) - 1 |-> IF j < i THEN Contents[j] ELSE Contents[j + 1]]
  <2>1. Len(Contents) = Len(chain) BY DEF Contents
  <2>2. Contents' = [j \in 1 .. Len(chain) - 1 |-> data[chain[From(j)]]]
    BY <1>3 DEF Contents
  <2>3. ASSUME NEW j \in 1 .. Len(chain) - 1
        PROVE  data[chain[From(j)]] = IF j < i THEN Contents[j] ELSE Contents[j + 1]
    <3>1. From(j) \in 1 .. Len(chain) BY <1>2
    <3> QED BY <3>1, <1>range DEF Contents, From
  <2> QED BY <2>1, <2>2, <2>3
<1> QED BY <1>5, <1>7, <1>8 DEF IInv
(* A change of one element's data leaves the list as it is.                 *)
LEMMA ChangeKeeps ==
    ASSUME IInv, NEW i \in 1 .. Len(chain), NEW e \in Data,
           data' = [data EXCEPT ![chain[i]] = e],
           UNCHANGED <<next, head, tail, size, used, chain>>, ret' \in Data \cup {Null}
    PROVE  IInv' /\ Contents' = [Contents EXCEPT ![i] = e]
<1> USE Lengths
<1>1. TypeOK' BY DEF IInv, TypeOK
<1>2. ListIntact' BY DEF IInv, ListIntact, Linked, Once
<1>3. \A j \in 1 .. Len(chain) : data'[chain[j]] = IF j = i THEN e ELSE data[chain[j]]
  BY DEF IInv, TypeOK, ListIntact, Once
<1>4. Contents' = [Contents EXCEPT ![i] = e]
  BY <1>3 DEF Contents
<1> QED BY <1>1, <1>2, <1>4 DEF IInv

LEMMA ForeachRemoveKeeps ==
    ASSUME IInv, ForeachRemove
    PROVE  IInv' /\ Contents' = <<>>
<1>1. chain' = <<>> /\ Len(chain') = 0 BY DEF ForeachRemove
<1>2. TypeOK' BY <1>1 DEF ForeachRemove, IInv, TypeOK
<1>3. used' = {} BY DEF ForeachRemove, IInv, ListIntact
<1>4. ListIntact' BY <1>1, <1>3 DEF ForeachRemove, ListIntact, Linked, Once
<1>5. Contents' = <<>> BY <1>1 DEF Contents
<1> QED BY <1>2, <1>4, <1>5 DEF IInv

(* A state with the same list is as good.                                   *)
LEMMA SameList ==
    ASSUME IInv, UNCHANGED <<next, data, head, tail, size, used, chain>>,
           ret' \in Data \cup {Null}
    PROVE  IInv' /\ Contents' = Contents
BY DEF IInv, TypeOK, ListIntact, Linked, Once, Contents
-----------------------------------------------------------------------------
(* The place of the first match is the same in the list and in the queue.   *)
LEMMA SameFirst ==
    ASSUME IInv, NEW d \in Data
    PROVE  /\ Len(Contents) = Len(chain)
           /\ Absent(d) <=> Queue!Absent(d)
           /\ \A i \in 1 .. Len(chain) : FirstIs(i, d) => Queue!FirstIs(i, d)
<1> USE Lengths
<1>1. Len(Contents) = Len(chain) /\ \A i \in 1 .. Len(chain) : Contents[i] = data[chain[i]]
  BY DEF Contents
<1>2. Absent(d) <=> Queue!Absent(d) BY <1>1 DEF Absent, Queue!Absent
<1>3. ASSUME NEW i \in 1 .. Len(chain), FirstIs(i, d)
      PROVE  Queue!FirstIs(i, d)
  <2>1. \A j \in 1 .. i - 1 : j \in 1 .. Len(chain) OBVIOUS
  <2> QED BY <1>1, <1>3, <2>1 DEF FirstIs, Queue!FirstIs
<1> QED BY <1>1, <1>2, <1>3

LEMMA QueueInit == Init => IInv /\ Queue!Init
<1> SUFFICES ASSUME Init PROVE IInv /\ Queue!Init OBVIOUS
<1>1. chain = <<>> /\ Len(chain) = 0 BY DEF Init
<1>2. IInv BY <1>1 DEF Init, IInv, TypeOK, ListIntact, Linked, Once
<1>3. Queue!Init BY <1>1 DEF Init, Queue!Init, Contents
<1> QED BY <1>2, <1>3

(* Every step keeps the list whole and is a step of the queue.              *)
LEMMA QueueStep ==
    ASSUME RemoveLast = FALSE, IInv, Next
    PROVE  IInv' /\ Queue!Next
<1> USE Lengths
<1>0. ret \in Data \cup {Null} BY DEF IInv, TypeOK
<1>1. ASSUME NEW d \in Data, Enqueue(d) PROVE IInv' /\ Queue!Next
  <2>1. PICK c \in Cell \ used : Enqueued(c, d) BY <1>1 DEF Enqueue
  <2>2. ret' = ret BY <1>1 DEF Enqueue
  <2>3. IInv' /\ Contents' = Append(Contents, d) BY <2>1, <2>2, <1>0, EnqueuedKeeps
  <2>4. Queue!Enqueue(d) BY <2>2, <2>3 DEF Queue!Enqueue
  <2> QED BY <2>3, <2>4 DEF Queue!Next
<1>2. ASSUME NEW d \in Data, RemoveNothing(d) PROVE IInv' /\ Queue!Next
  <2>1. IInv' /\ Contents' = Contents BY <1>2, SameList DEF RemoveNothing
  <2>2. Queue!Remove(d) BY <1>2, <2>1, SameFirst DEF RemoveNothing, Queue!Remove
  <2> QED BY <2>1, <2>2 DEF Queue!Next
<1>3. ASSUME NEW d \in Data, RemoveFound(d) PROVE IInv' /\ Queue!Next
  <2>1. PICK i \in 1 .. Len(chain) :
           FirstIs(i, d) /\ (RemoveLast \/ i < Len(chain) \/ i = 1) /\ Unlink(i)
    BY <1>3 DEF RemoveFound
  <2>2. ret' = d /\ UNCHANGED <<data, tail>> BY <1>3 DEF RemoveFound
  <2>3. /\ IInv'
        /\ Contents' = [j \in 1 .. Len(Contents) - 1 |->
                           IF j < i THEN Contents[j] ELSE Contents[j + 1]]
    BY <2>1, <2>2, UnlinkKeeps
  <2>4. Queue!Remove(d)
    <3>1. i \in 1 .. Len(Contents) /\ Queue!FirstIs(i, d) BY <2>1, SameFirst
    <3> QED BY <2>2, <2>3, <3>1 DEF Queue!Remove
  <2> QED BY <2>3, <2>4 DEF Queue!Next
<1>4. ASSUME NEW d \in Data, NEW e \in Data, Modify(d, e) PROVE IInv' /\ Queue!Next
  <2>1. CASE /\ Absent(d)
             /\ ret' = e
             /\ \E c \in Cell \ used : Enqueued(c, e)
    <3>1. PICK c \in Cell \ used : Enqueued(c, e) BY <2>1
    <3>2. IInv' /\ Contents' = Append(Contents, e) BY <2>1, <3>1, EnqueuedKeeps
    <3>3. Queue!Modify(d, e) BY <2>1, <3>2, SameFirst DEF Queue!Modify
    <3> QED BY <3>2, <3>3 DEF Queue!Next
  <2>2. CASE /\ ret' = d
             /\ \E i \in 1 .. Len(chain) :
                  FirstIs(i, d) /\ data' = [data EXCEPT ![chain[i]] = e]
             /\ UNCHANGED <<next, head, tail, size, used, chain>>
    <3>1. PICK i \in 1 .. Len(chain) :
             FirstIs(i, d) /\ data' = [data EXCEPT ![chain[i]] = e]
      BY <2>2
    <3>2. IInv' /\ Contents' = [Contents EXCEPT ![i] = e] BY <2>2, <3>1, ChangeKeeps
    <3>3. i \in 1 .. Len(Contents) /\ Queue!FirstIs(i, d) BY <3>1, SameFirst
    <3>4. Queue!Modify(d, e) BY <2>2, <3>2, <3>3 DEF Queue!Modify
    <3> QED BY <3>2, <3>4 DEF Queue!Next
  <2> QED BY <1>4, <2>1, <2>2 DEF Modify
<1>5. CASE DequeueNothing
  <2>1. chain = <<>> /\ Contents = <<>> BY <1>5 DEF DequeueNothing, Contents
  <2>2. IInv' /\ Contents' = Contents BY <1>5, SameList DEF DequeueNothing
  <2>3. Queue!Dequeue BY <1>5, <2>1, <2>2 DEF DequeueNothing, Queue!Dequeue
  <2> QED BY <2>2, <2>3 DEF Queue!Next
<1>6. CASE Dequeue
  <2>1. IInv' /\ Queue!Dequeue BY <1>6, DequeueKeeps DEF Queue!Dequeue
  <2> QED BY <2>1 DEF Queue!Next
<1>7. CASE ForeachRemove
  <2>1. IInv' /\ Queue!Clear BY <1>7, ForeachRemoveKeeps DEF Queue!Clear, ForeachRemove
  <2> QED BY <2>1 DEF Queue!Next
<1> QED BY <1>1, <1>2, <1>3, <1>4, <1>5, <1>6, <1>7 DEF Next

LEMMA QueueStutter ==
    ASSUME IInv, UNCHANGED vars
    PROVE  IInv' /\ UNCHANGED Queue!queue
<1>1. ret' \in Data \cup {Null} BY DEF IInv, TypeOK, vars
<1>2. IInv' /\ Contents' = Contents BY <1>1, SameList DEF vars
<1> QED BY <1>2 DEF Queue!queue, vars

(* The list stays whole as long as the last of several elements is not      *)
(* removed: tail is its last element, no freed cell is in it, none leaks.   *)
THEOREM ListStaysIntact ==
    ASSUME RemoveLast = FALSE
    PROVE  Spec => []ListIntact
<1>1. Init => IInv BY QueueInit
<1>2. IInv /\ [Next]_vars => IInv' BY QueueStep, QueueStutter, Zenon
<1>3. IInv => ListIntact BY DEF IInv
<1> QED BY <1>1, <1>2, <1>3, PTL DEF Spec

(* ... and the queue is then first in, first out, removals and changes of   *)
(* elements in its middle included: bl_queue implements Fifo.               *)
THEOREM QueueIsFifo ==
    ASSUME RemoveLast = FALSE
    PROVE  Spec => ImplementsFifo
<1>1. Init => IInv /\ Queue!Init BY QueueInit
<1>2. IInv /\ [Next]_vars => IInv' BY QueueStep, QueueStutter, Zenon
<1>3. IInv /\ [Next]_vars => [Queue!Next]_Queue!queue BY QueueStep, QueueStutter, Zenon
<1> QED BY <1>1, <1>2, <1>3, PTL DEF Spec, Queue!Spec, ImplementsFifo

-----------------------------------------------------------------------------
(***************************************************************************)
(* bl_slist and bl_stack.                                                   *)
(***************************************************************************)
(* Every cell of es is an element.                                           *)
Elms(es) == /\ DOMAIN es \subseteq Cell
            /\ es \in [DOMAIN es -> [data : Ranked, next : Cell \cup {Null}]]

(* The elements stand on two paths: the list, and what is not in it.         *)
TwoPaths(es, q, r) ==
    /\ Follows(es, q, Null) /\ Follows(es, r, Null)
    /\ DOMAIN es = ToSet(q) \cup ToSet(r)
    /\ ToSet(q) \cap ToSet(r) = {}

(* es holds the list q, which begins with f and has n elements.              *)
IsList(es, f, n, q) ==
    /\ Elms(es)
    /\ TwoPaths(es, q, <<>>)
    /\ f = Start(q, Null)
    /\ n = Len(q)

ItemsOf(es, q) == Mapped(DataAt(es), q)

LEMMA NoCells == <<>> \in Seq({}) /\ Len(<<>>) = 0 /\ ToSet(<<>>) = {}
BY DEF ToSet

LEMMA NoPath ==
    ASSUME NEW es
    PROVE  Follows(es, <<>>, Null)
<1> DEFINE z == <<>>
<1>1. z \in Seq(DOMAIN es) /\ Len(z) = 0 OBVIOUS
<1> HIDE DEF z
<1>2. 1 .. 0 = {} OBVIOUS
<1>3. Follows(es, z, Null) BY <1>1, <1>2 DEF Follows
<1> QED BY <1>3 DEF z

LEMMA TwoPathsWalk ==
    ASSUME NEW es, NEW q, NEW r, DOMAIN es \subseteq Cell, TwoPaths(es, q, r)
    PROVE  Walk(es, Start(q, Null), Null) = q
<1>1. /\ Follows(es, q, Null) /\ Follows(es, r, Null)
      /\ DOMAIN es = ToSet(q) \cup ToSet(r)
      /\ ToSet(q) \cap ToSet(r) = {}
      /\ Null \notin DOMAIN es
  BY QueueAssumption DEF TwoPaths
<1>2. Paths(es, {q, r}, Null)
  <2>1. \A p \in {q, r} : Follows(es, p, Null) BY <1>1
  <2>2. \A e \in DOMAIN es : \E p \in {q, r} : e \in ToSet(p) BY <1>1
  <2>3. \A p, s \in {q, r} : \A e \in ToSet(p) \cap ToSet(s) : p = s BY <1>1
  <2> QED BY <1>1, <2>1, <2>2, <2>3 DEF Paths
<1>3. q \in {q, r} OBVIOUS
<1> QED BY <1>2, <1>3, WalkIs

LEMMA DataAtIs ==
    ASSUME NEW es, Elms(es)
    PROVE  DataAt(es) \in [DOMAIN es -> Ranked]
BY DEF Elms, DataAt

LEMMA IsListRead ==
    ASSUME NEW es, NEW f, NEW n, NEW q, IsList(es, f, n, q)
    PROVE  /\ Walk(es, f, Null) = q
           /\ q \in Seq(DOMAIN es) /\ Len(q) \in Nat /\ n = Len(q)
           /\ DOMAIN es = ToSet(q) /\ DOMAIN q = 1 .. Len(q)
           /\ \A k, m \in 1 .. Len(q) : q[k] = q[m] => k = m
           /\ \A k \in 1 .. Len(q) : q[k] \in DOMAIN es /\ es[q[k]].next = After(q, k, Null)
           /\ f = Null <=> q = <<>>
           /\ f # Null => f = q[1] /\ 1 \in 1 .. Len(q)
           /\ ItemsOf(es, q) \in Seq(Ranked) /\ Len(ItemsOf(es, q)) = Len(q)
           /\ \A k \in 1 .. Len(q) : ItemsOf(es, q)[k] = es[q[k]].data
<1>1. /\ Elms(es) /\ TwoPaths(es, q, <<>>) /\ f = Start(q, Null) /\ n = Len(q)
      /\ DOMAIN es \subseteq Cell
  BY DEF IsList, Elms
<1>2. Walk(es, f, Null) = q BY <1>1, TwoPathsWalk
<1>3. Follows(es, q, Null) /\ DOMAIN es = ToSet(q)
  <2>1. Follows(es, q, Null) /\ DOMAIN es = ToSet(q) \cup ToSet(<<>>) BY <1>1 DEF TwoPaths
  <2> QED BY <2>1, NoCells
<1>4. /\ q \in Seq(DOMAIN es) /\ Len(q) \in Nat /\ DOMAIN q = 1 .. Len(q)
      /\ \A k \in 1 .. Len(q) : q[k] \in DOMAIN es
      /\ \A k, m \in 1 .. Len(q) : q[k] = q[m] => k = m
      /\ \A k \in 1 .. Len(q) : es[q[k]].next = After(q, k, Null)
  BY <1>3, FollowsIs
<1>5. q # <<>> => 1 \in 1 .. Len(q) BY <1>4
<1>6. f = Null <=> q = <<>>
  <2>1. ASSUME q # <<>> PROVE f # Null
    <3>1. f = q[1] /\ q[1] \in DOMAIN es BY <1>1, <1>4, <1>5, <2>1 DEF Start
    <3> QED BY <1>1, <3>1, QueueAssumption
  <2> QED BY <1>1, <2>1 DEF Start
<1>7. f # Null => f = q[1] /\ 1 \in 1 .. Len(q) BY <1>1, <1>5, <1>6 DEF Start
<1>8. DataAt(es) \in [DOMAIN es -> Ranked] BY <1>1, DataAtIs
<1>9. ItemsOf(es, q) \in Seq(Ranked) /\ Len(ItemsOf(es, q)) = Len(q)
  <2> DEFINE g == DataAt(es)
  <2> HIDE DEF g
  <2>1. g \in [DOMAIN es -> Ranked] BY <1>8 DEF g
  <2>2. ASSUME NEW w \in Seq(DOMAIN es)
        PROVE  Mapped(g, w) \in Seq(Ranked) /\ Len(Mapped(g, w)) = Len(w)
    BY <2>1 DEF Mapped
  <2> QED BY <1>4, <2>2 DEF ItemsOf, g
<1>10. \A k \in 1 .. Len(q) : ItemsOf(es, q)[k] = es[q[k]].data
  BY <1>4 DEF ItemsOf, Mapped, DataAt
<1> QED BY <1>1, <1>2, <1>3, <1>4, <1>6, <1>7, <1>9, <1>10

LEMMA SlistOps ==
    /\ \A es, c, nil : Slist!Walk(es, c, nil) = Walk(es, c, nil)
    /\ \A S : Slist!Min(S) = Min(S)
    /\ \A s, S : Slist!Among(s, S) = Among(s, S)
    /\ \A s, S : Slist!Ordered!Among(s, S) = Among(s, S)
    /\ \A S : Slist!Ordered!Min(S) = Min(S)
    /\ \A s, k : Slist!Ordered!RemoveAt(s, k) = RemoveAt(s, k)
    /\ \A s, k, e : Slist!Ordered!InsertAt(s, k, e) = InsertAt(s, k, e)
    /\ \A s : Slist!ToSet(s) = ToSet(s)
    /\ \A f, S : Slist!Restrict(f, S) = Restrict(f, S)
    /\ \A f : Slist!Ordered!IsInjective(f) = IsInjective(f)
<1>1. \A es, c, nil : Slist!Walk(es, c, nil) = Walk(es, c, nil) BY DEF Slist!Walk, Walk
<1>2. \A S : Slist!Min(S) = Min(S) BY DEF Slist!Min, Min
<1>3. \A s, S : Slist!Among(s, S) = Among(s, S) BY DEF Slist!Among, Among
<1>4. \A s, S : Slist!Ordered!Among(s, S) = Among(s, S) BY DEF Slist!Ordered!Among, Among
<1>5. \A S : Slist!Ordered!Min(S) = Min(S) BY DEF Slist!Ordered!Min, Min
<1>6. \A s, k : Slist!Ordered!RemoveAt(s, k) = RemoveAt(s, k)
  BY DEF Slist!Ordered!RemoveAt, RemoveAt
<1>7. \A s, k, e : Slist!Ordered!InsertAt(s, k, e) = InsertAt(s, k, e)
  BY DEF Slist!Ordered!InsertAt, InsertAt
<1>8. \A s : Slist!ToSet(s) = ToSet(s) BY DEF Slist!ToSet, ToSet
<1>9. \A f, S : Slist!Restrict(f, S) = Restrict(f, S) BY DEF Slist!Restrict, Restrict
<1>10. \A f : Slist!Ordered!IsInjective(f) = IsInjective(f)
  BY Zenon DEF Slist!Ordered!IsInjective, IsInjective
<1> QED BY <1>1, <1>2, <1>3, <1>4, <1>5, <1>6, <1>7, <1>8, <1>9, <1>10

LEMMA RestOf ==
    ASSUME NEW S, NEW r \in Seq(S), r # <<>>
    PROVE  1 \in 1 .. Len(r) /\ r[1] \in S /\ r[1] \in ToSet(r)
<1>1. 1 \in 1 .. Len(r) OBVIOUS
<1> QED BY <1>1 DEF ToSet

(* The first element that is not in the list q is put in at p.               *)
LEMMA LinkIn ==
    ASSUME NEW es, NEW q, NEW r, TwoPaths(es, q, r), r # <<>>,
           NEW p \in 1 .. Len(q) + 1, NEW es2, DOMAIN es2 = DOMAIN es,
           es2[r[1]].next = After(q, p - 1, Null),
           p # 1 => es2[q[p - 1]].next = r[1],
           \A e \in DOMAIN es : e # r[1] /\ ~(p # 1 /\ e = q[p - 1]) => es2[e].next = es[e].next
    PROVE  /\ TwoPaths(es2, InsertAt(q, p, r[1]), RemoveAt(r, 1))
           /\ Start(InsertAt(q, p, r[1]), Null) = IF p = 1 THEN r[1] ELSE Start(q, Null)
<1> DEFINE c == r[1]
           D == DOMAIN es
           q2 == InsertAt(q, p, c)
           r2 == RemoveAt(r, 1)
<1>1. /\ Follows(es, q, Null) /\ Follows(es, r, Null)
      /\ D = ToSet(q) \cup ToSet(r) /\ ToSet(q) \cap ToSet(r) = {}
  BY DEF TwoPaths
<1>2. /\ q \in Seq(D) /\ Len(q) \in Nat /\ DOMAIN q = 1 .. Len(q)
      /\ \A k, m \in 1 .. Len(q) : q[k] = q[m] => k = m
  BY <1>1, FollowsIs
<1>3. /\ r \in Seq(D) /\ Len(r) \in Nat /\ DOMAIN r = 1 .. Len(r)
      /\ \A k, m \in 1 .. Len(r) : r[k] = r[m] => k = m
  BY <1>1, FollowsIs
<1>4. 1 \in 1 .. Len(r) /\ c \in D /\ c \in ToSet(r) BY <1>3, RestOf
<1>5. c \notin ToSet(q) BY <1>1, <1>4
<1>6. \A k \in 1 .. Len(q) : q[k] \in ToSet(q) /\ q[k] \in D /\ q[k] # c BY <1>2, <1>5 DEF ToSet
<1>7. p # 1 => p - 1 \in 1 .. Len(q) BY <1>2
<1>8. \A k \in 1 .. Len(q) : k # p - 1 => es2[q[k]].next = es[q[k]].next BY <1>2, <1>6, <1>7
<1>9. c \in DOMAIN es2 /\ ToSet(q) \subseteq DOMAIN es2 BY <1>1, <1>4
<1>10. Follows(es2, q2, Null) /\ Start(q2, Null) = IF p = 1 THEN c ELSE Start(q, Null)
  <2> HIDE DEF c
  <2>1. es2[c].next = After(q, p - 1, Null) /\ (p # 1 => es2[q[p - 1]].next = c) BY DEF c
  <2> QED BY <1>1, <1>5, <1>8, <1>9, <2>1, FollowsIn
<1>11. ToSet(q2) = ToSet(q) \cup {c} BY <1>2, <1>4, InsertAtIs
<1>12. /\ Follows(es, r2, Null) /\ ToSet(r2) = ToSet(r) \ {c}
  <2>1. \A k \in 1 .. Len(r) : k # 1 => r[k] \in DOMAIN es BY <1>3
  <2> QED BY <1>1, <1>4, <2>1, FollowsOut
<1> HIDE DEF c, D, q2, r2
<1>13. \A e \in ToSet(r2) : e \in DOMAIN es2 /\ es2[e].next = es[e].next
  <2> SUFFICES ASSUME NEW e \in ToSet(r2) PROVE e \in DOMAIN es2 /\ es2[e].next = es[e].next
    OBVIOUS
  <2>1. e \in ToSet(r) /\ e # c /\ e \in D /\ e \notin ToSet(q) BY <1>1, <1>12
  <2>2. p # 1 => q[p - 1] # e BY <1>6, <1>7, <2>1
  <2> QED BY <2>1, <2>2 DEF c, D
<1>14. Follows(es2, r2, Null) BY <1>12, <1>13, FollowsSame
<1>15. DOMAIN es2 = ToSet(q2) \cup ToSet(r2) BY <1>1, <1>4, <1>11, <1>12 DEF D
<1>16. ToSet(q2) \cap ToSet(r2) = {} BY <1>1, <1>11, <1>12
<1> QED BY <1>10, <1>14, <1>15, <1>16 DEF TwoPaths, c, q2, r2

(* Where add_sorted and sort put an element of data d among items.          *)
Place(items, d) == Min({i \in 1 .. Len(items) : Rank(items[i]) > Rank(d)} \cup {Len(items) + 1})

LEMMA PlaceIs ==
    ASSUME NEW s \in Seq(Ranked), NEW d \in Ranked, NEW p \in 1 .. Len(s) + 1,
           \A k \in 1 .. Len(s) : k < p => Rank(s[k]) <= Rank(d),
           p <= Len(s) => Rank(s[p]) > Rank(d)
    PROVE  p = Place(s, d)
<1> DEFINE R == {i \in 1 .. Len(s) : Rank(s[i]) > Rank(d)} \cup {Len(s) + 1}
<1>1. Len(s) \in Nat /\ R \in SUBSET Nat OBVIOUS
<1>2. \A x \in Ranked : Rank(x) \in Int BY ListAssumption
<1>3. \A k \in 1 .. Len(s) : s[k] \in Ranked OBVIOUS
<1>4. p \in R
  <2>1. p <= Len(s) \/ p = Len(s) + 1 BY <1>1
  <2> QED BY <1>1, <2>1
<1>5. ASSUME NEW i \in R PROVE p <= i
  <2>1. CASE i = Len(s) + 1 BY <1>1, <2>1
  <2>2. CASE i \in 1 .. Len(s) /\ Rank(s[i]) > Rank(d)
    <3>1. ~(i < p)
      <4> SUFFICES ASSUME i < p PROVE FALSE OBVIOUS
      <4>1. Rank(s[i]) <= Rank(d) BY <2>2
      <4>2. Rank(s[i]) \in Int /\ Rank(d) \in Int BY <1>2, <1>3, <2>2
      <4> QED BY <2>2, <4>1, <4>2
    <3> QED BY <1>1, <2>2, <3>1
  <2> QED BY <2>1, <2>2
<1> HIDE DEF R
<1>6. Min(R) = p BY <1>1, <1>4, <1>5, MinIs
<1> QED BY <1>6 DEF R, Place

(* What Slist!Inserted gives: the first element that is not in the list q   *)
(* stands in it after the last that is not greater.                         *)
LEMMA InsertedIs ==
    ASSUME NEW es, NEW q, NEW r, Elms(es), TwoPaths(es, q, r), r # <<>>,
           NEW p, p = Place(ItemsOf(es, q), es[r[1]].data),
           NEW l, l = Slist!Inserted(es, Start(q, Null), r[1])
    PROVE  /\ Elms(l[1]) /\ DOMAIN l[1] = DOMAIN es
           /\ \A e \in DOMAIN es : l[1][e].data = es[e].data
           /\ p \in 1 .. Len(q) + 1
           /\ TwoPaths(l[1], InsertAt(q, p, r[1]), RemoveAt(r, 1))
           /\ l[2] = Start(InsertAt(q, p, r[1]), Null)
<1> DEFINE c == r[1]
           D == DOMAIN es
           n == Len(q)
           f == Start(q, Null)
           d == es[c].data
           s == ItemsOf(es, q)
           Before(i) == i = n \/ Rank(d) < Rank(es[q[i + 1]].data)
           Bs == {i \in 1 .. n : Before(i)}
           prev == q[Min(Bs)]
<1>1. /\ Follows(es, q, Null) /\ Follows(es, r, Null)
      /\ D = ToSet(q) \cup ToSet(r) /\ ToSet(q) \cap ToSet(r) = {}
  BY DEF TwoPaths
<1>2. /\ q \in Seq(D) /\ n \in Nat /\ DOMAIN q = 1 .. n
      /\ \A k \in 1 .. n : q[k] \in D /\ es[q[k]].next = After(q, k, Null)
      /\ \A k, m \in 1 .. n : q[k] = q[m] => k = m
      /\ f = After(q, 0, Null)
  BY <1>1, FollowsIs
<1>3. r \in Seq(D) BY <1>1, FollowsIs
<1>4. c \in D /\ c \in ToSet(r) BY <1>3, RestOf
<1>5. \A k \in 1 .. n : q[k] \in ToSet(q) /\ q[k] # c BY <1>1, <1>2, <1>4 DEF ToSet
<1>6. Walk(es, f, Null) = q BY TwoPathsWalk DEF Elms
<1>7. D \subseteq Cell /\ es \in [D -> [data : Ranked, next : Cell \cup {Null}]] BY DEF Elms
<1>8. \A e \in D : es[e] \in [data : Ranked, next : Cell \cup {Null}] BY <1>7
<1>9. \A e \in D : es[e].data \in Ranked /\ Rank(es[e].data) \in Int BY <1>8, ListAssumption
<1>10. s \in Seq(Ranked) /\ Len(s) = n /\ \A k \in 1 .. n : s[k] = es[q[k]].data
  <2>1. s = [k \in 1 .. n |-> es[q[k]].data] BY <1>2 DEF ItemsOf, Mapped, DataAt
  <2>2. s \in [1 .. n -> Ranked] BY <1>2, <1>9, <2>1
  <2> HIDE DEF s, n
  <2> QED BY <1>2, <2>1, <2>2, Listed
<1>11. l = IF f = Null \/ Rank(d) < Rank(es[f].data)
             THEN <<[es EXCEPT ![c].next = f], c>>
             ELSE <<[es EXCEPT ![c].next = es[prev].next, ![prev].next = c], f>>
  <2> DEFINE W == Slist!Walk(es, f, Null)
             B(i) == i = Len(W) \/ Rank(d) < Rank(es[W[i + 1]].data)
             Ws == {i \in 1 .. Len(W) : B(i)}
             before == W[Slist!Min(Ws)]
  <2>1. l = IF f = Null \/ Rank(d) < Rank(es[f].data)
             THEN <<[es EXCEPT ![c].next = f], c>>
             ELSE <<[es EXCEPT ![c].next = es[before].next, ![before].next = c], f>>
    <3> HIDE DEF f
    <3> QED BY Zenon DEF Slist!Inserted, f
  <2>2. W = q BY <1>6, SlistOps
  <2> HIDE DEF W
  <2>3. Ws = Bs BY <2>2
  <2> HIDE DEF Ws, Bs
  <2>4. Slist!Min(Ws) = Min(Bs) BY <2>3, SlistOps
  <2>5. before = prev BY <2>2, <2>4
  <2> HIDE DEF before, prev
  <2> QED BY <2>1, <2>5
<1>12. f = Null <=> n = 0
  <2>1. Null \notin D BY <1>7, QueueAssumption
  <2>2. n > 0 => f = q[1] /\ q[1] \in D
    <3>1. 0 + 1 = 1 OBVIOUS
    <3>2. n > 0 => 1 \in 1 .. n BY <1>2
    <3> HIDE DEF f, n, D
    <3> QED BY <1>2, <3>1, <3>2 DEF After, n
  <2>3. n = 0 => f = Null BY <1>2 DEF After
  <2> QED BY <1>2, <2>1, <2>2, <2>3
<1>13. n # 0 => f = q[1] /\ 1 \in 1 .. n
  <2>1. n # 0 => 0 < n /\ 1 \in 1 .. n /\ 0 + 1 = 1 BY <1>2
  <2> HIDE DEF f
  <2> QED BY <1>2, <2>1 DEF After
<1> HIDE DEF c, D, n, f, d, s
<1>14. CASE f = Null \/ Rank(d) < Rank(es[f].data)
  <2> DEFINE es2 == [es EXCEPT ![c].next = f]
  <2>1. l[1] = es2 /\ l[2] = c
    <3>1. l = <<es2, c>> BY <1>11, <1>14, Zenon
    <3> HIDE DEF es2
    <3> QED BY <3>1
  <2>2. f \in Cell \cup {Null} BY <1>2, <1>7, <1>12, <1>13
  <2>3. /\ DOMAIN es2 = D
        /\ es2[c] = [es[c] EXCEPT !.next = f]
        /\ \A e \in D : e # c => es2[e] = es[e]
    BY <1>4, <1>7 DEF D
  <2>4. /\ es2[c].next = f /\ es2[c].data = es[c].data
        /\ es2[c] \in [data : Ranked, next : Cell \cup {Null}]
    BY <1>4, <1>8, <2>2, <2>3
  <2>5. es2 \in [D -> [data : Ranked, next : Cell \cup {Null}]]
    <3>1. \A e \in D : es2[e] \in [data : Ranked, next : Cell \cup {Null}] BY <1>8, <2>3, <2>4
    <3>2. es2 = [e \in D |-> es2[e]] BY <1>7
    <3> HIDE DEF es2
    <3> QED BY <3>1, <3>2
  <2> HIDE DEF es2
  <2>6. Elms(es2) BY <1>7, <2>3, <2>5 DEF Elms
  <2>7. 1 \in 1 .. n + 1 /\ 1 - 1 = 0 BY <1>2
  <2>8. 1 = Place(s, d)
    <3>1. d \in Ranked BY <1>4, <1>9 DEF d
    <3>2. \A k \in 1 .. n : ~(k < 1) OBVIOUS
    <3>3. ASSUME 1 <= n PROVE Rank(s[1]) > Rank(d)
      <4>1. f # Null /\ f = q[1] /\ 1 \in 1 .. n BY <1>2, <1>12, <1>13, <3>3
      <4>2. s[1] = es[f].data /\ f \in D BY <1>2, <1>10, <4>1
      <4>3. Rank(d) \in Int /\ Rank(es[f].data) \in Int BY <1>9, <1>4, <4>2 DEF d
      <4> QED BY <1>14, <4>1, <4>2, <4>3
    <3> QED BY <1>10, <2>7, <3>1, <3>2, <3>3, PlaceIs
  <2>9. p = 1 BY <2>8 DEF s, d, c
  <2>10. /\ TwoPaths(es2, InsertAt(q, 1, c), RemoveAt(r, 1))
         /\ Start(InsertAt(q, 1, c), Null) = c
    <3>1. es2[c].next = After(q, 1 - 1, Null) BY <1>2, <2>4, <2>7
    <3>2. \A e \in DOMAIN es : e # c => es2[e].next = es[e].next BY <2>3 DEF D
    <3>3. DOMAIN es2 = DOMAIN es BY <2>3 DEF D
    <3> QED BY <2>7, <3>1, <3>2, <3>3, LinkIn DEF c, n
  <2>11. \A e \in DOMAIN es : es2[e].data = es[e].data BY <2>3, <2>4 DEF D
  <2> QED BY <2>1, <2>3, <2>6, <2>7, <2>9, <2>10, <2>11 DEF c, n, D
<1>15. CASE ~(f = Null \/ Rank(d) < Rank(es[f].data))
  <2>1. n # 0 /\ f = q[1] /\ 1 \in 1 .. n /\ n \in Nat BY <1>2, <1>12, <1>13, <1>15
  <2> DEFINE m == Min(Bs)
             es2 == [es EXCEPT ![c].next = es[prev].next, ![prev].next = c]
  <2>2. m \in Bs /\ \A i \in Bs : m <= i
    <3>1. n \in Bs BY <2>1
    <3>2. Bs \in SUBSET Nat OBVIOUS
    <3> HIDE DEF Bs
    <3>3. \E x \in Bs : \A k \in Bs : x <= k BY <3>1, <3>2, Least
    <3> QED BY <3>3 DEF Min
  <2>3. m \in 1 .. n /\ Before(m) BY <2>2
  <2>4. \A i \in 1 .. n : i < m => ~Before(i)
    <3> SUFFICES ASSUME NEW i \in 1 .. n, i < m, Before(i) PROVE FALSE OBVIOUS
    <3>1. i \in Bs OBVIOUS
    <3> HIDE DEF Bs, m, Before
    <3> QED BY <2>2, <2>3, <3>1
  <2>5. l[1] = es2 /\ l[2] = f
    <3> HIDE DEF prev
    <3>1. l = <<es2, f>> BY <1>11, <1>15
    <3> HIDE DEF es2
    <3> QED BY <3>1
  <2>6. prev = q[m] OBVIOUS
  <2> HIDE DEF m, prev, Bs
  <2>7. prev \in D /\ prev # c /\ es[prev].next = After(q, m, Null) BY <1>2, <1>5, <2>3, <2>6
  <2>8. /\ DOMAIN es2 = D
        /\ es2[c] = [es[c] EXCEPT !.next = es[prev].next]
        /\ es2[prev] = [es[prev] EXCEPT !.next = c]
        /\ \A e \in D : e # c /\ e # prev => es2[e] = es[e]
    BY <1>4, <1>7, <2>7 DEF D
  <2>9. es[prev].next \in Cell \cup {Null} /\ c \in Cell BY <1>4, <1>7, <1>8, <2>7
  <2>10. /\ es2[c].next = es[prev].next /\ es2[c].data = es[c].data
         /\ es2[c] \in [data : Ranked, next : Cell \cup {Null}]
    BY <1>4, <1>8, <2>8, <2>9
  <2>11. /\ es2[prev].next = c /\ es2[prev].data = es[prev].data
         /\ es2[prev] \in [data : Ranked, next : Cell \cup {Null}]
    BY <1>8, <2>7, <2>8, <2>9
  <2>12. es2 \in [D -> [data : Ranked, next : Cell \cup {Null}]]
    <3>1. \A e \in D : es2[e] \in [data : Ranked, next : Cell \cup {Null}]
      BY <1>8, <2>8, <2>10, <2>11
    <3>2. es2 = [e \in D |-> es2[e]] BY <1>7
    <3> HIDE DEF es2
    <3> QED BY <3>1, <3>2
  <2> HIDE DEF es2
  <2>13. Elms(es2) BY <1>7, <2>8, <2>12 DEF Elms
  <2>14. m + 1 \in 1 .. n + 1 /\ (m + 1) - 1 = m /\ m + 1 # 1 BY <2>1, <2>3
  <2>15. m + 1 = Place(s, d)
    <3>1. d \in Ranked /\ Rank(d) \in Int BY <1>4, <1>9 DEF d
    <3>2. ASSUME NEW k \in 1 .. n, k < m + 1 PROVE Rank(s[k]) <= Rank(d)
      <4>1. s[k] = es[q[k]].data /\ Rank(s[k]) \in Int BY <1>2, <1>9, <1>10
      <4>2. CASE k = 1 BY <1>15, <2>1, <3>1, <4>1, <4>2
      <4>3. CASE k # 1
        <5>1. k - 1 \in 1 .. n /\ k - 1 < m /\ (k - 1) + 1 = k BY <2>1, <2>3, <3>2, <4>3
        <5>2. ~Before(k - 1) BY <2>4, <5>1
        <5>3. ~(Rank(d) < Rank(es[q[k]].data)) BY <5>1, <5>2
        <5> QED BY <3>1, <4>1, <5>3
      <4> QED BY <4>2, <4>3
    <3>3. ASSUME m + 1 <= n PROVE Rank(s[m + 1]) > Rank(d)
      <4>1. m + 1 \in 1 .. n /\ m # n BY <2>1, <2>3, <3>3
      <4>2. Rank(d) < Rank(es[q[m + 1]].data) BY <2>3, <4>1
      <4>3. s[m + 1] = es[q[m + 1]].data /\ Rank(s[m + 1]) \in Int BY <1>2, <1>9, <1>10, <4>1
      <4> QED BY <3>1, <4>2, <4>3
    <3> HIDE DEF Before
    <3> QED BY <1>10, <2>14, <3>1, <3>2, <3>3, PlaceIs
  <2>16. p = m + 1 BY <2>15 DEF s, d, c
  <2>17. /\ TwoPaths(es2, InsertAt(q, m + 1, c), RemoveAt(r, 1))
         /\ Start(InsertAt(q, m + 1, c), Null) = f
    <3> DEFINE pp == m + 1
    <3>1. es2[c].next = After(q, pp - 1, Null) BY <2>7, <2>10, <2>14
    <3>2. es2[q[pp - 1]].next = c /\ pp # 1 /\ pp \in 1 .. n + 1 BY <2>6, <2>11, <2>14
    <3>3. \A e \in DOMAIN es : e # c /\ ~(pp # 1 /\ e = q[pp - 1]) => es2[e].next = es[e].next
      BY <2>6, <2>8, <2>14 DEF D
    <3>4. DOMAIN es2 = DOMAIN es BY <2>8 DEF D
    <3> HIDE DEF pp
    <3>5. /\ TwoPaths(es2, InsertAt(q, pp, c), RemoveAt(r, 1))
          /\ Start(InsertAt(q, pp, c), Null) = f
      BY <3>1, <3>2, <3>3, <3>4, LinkIn DEF c, n, f
    <3> QED BY <3>5 DEF pp
  <2>18. \A e \in DOMAIN es : es2[e].data = es[e].data BY <2>8, <2>10, <2>11 DEF D
  <2> QED BY <2>5, <2>8, <2>13, <2>14, <2>16, <2>17, <2>18 DEF c, n, D
<1> QED BY <1>14, <1>15

-----------------------------------------------------------------------------
(* es holds a list that begins with f, has n elements, and their data is s.  *)
Holds(es, f, n, s) == \E q : IsList(es, f, n, q) /\ s = ItemsOf(es, q)

LEMMA ItemsSame ==
    ASSUME NEW es, NEW S, S \subseteq DOMAIN es, NEW es2, S \subseteq DOMAIN es2, NEW q \in Seq(S),
           \A e \in S : es2[e].data = es[e].data
    PROVE  ItemsOf(es2, q) = ItemsOf(es, q)
<1>1. \A e \in S : DataAt(es2)[e] = DataAt(es)[e] BY DEF DataAt
<1> DEFINE g == DataAt(es)
           h == DataAt(es2)
<1> HIDE DEF g, h
<1>2. \A e \in S : h[e] = g[e] BY <1>1 DEF g, h
<1>3. Mapped(h, q) = Mapped(g, q) BY <1>2, MappedSame
<1> QED BY <1>3 DEF ItemsOf, g, h

(* es2 has the element c besides those of es.                                *)
Wider(es2, es, c) ==
    /\ Elms(es2) /\ DOMAIN es2 = DOMAIN es \cup {c}
    /\ \A e \in DOMAIN es : es2[e].data = es[e].data

LEMMA ItemsIn ==
    ASSUME NEW es, NEW es2, NEW c, Wider(es2, es, c),
           NEW q \in Seq(DOMAIN es), NEW p \in 1 .. Len(q) + 1
    PROVE  ItemsOf(es2, InsertAt(q, p, c)) = InsertAt(ItemsOf(es, q), p, es2[c].data)
<1> DEFINE D == DOMAIN es
           E == DOMAIN es2
           g == DataAt(es2)
<1>0. /\ Elms(es2) /\ DOMAIN es2 = DOMAIN es \cup {c}
      /\ \A e \in DOMAIN es : es2[e].data = es[e].data
  BY DEF Wider
<1>1. g \in [E -> Ranked] BY <1>0, DataAtIs
<1>2. q \in Seq(E) /\ c \in E
  <2>1. D \subseteq E /\ q \in Seq(D) /\ c \in E BY <1>0
  <2> HIDE DEF D, E
  <2> QED BY <2>1
<1>3. g[c] = es2[c].data BY <1>2 DEF DataAt
<1>4. ItemsOf(es2, q) = ItemsOf(es, q)
  <2>1. D \subseteq E BY <1>0
  <2> QED BY <1>0, <2>1, ItemsSame
<1> HIDE DEF D, E, g
<1>5. Mapped(g, InsertAt(q, p, c)) = InsertAt(Mapped(g, q), p, g[c])
  <2>1. \A w \in Seq(E) : \A k \in 1 .. Len(w) + 1 : \A e \in E :
           Mapped(g, InsertAt(w, k, e)) = InsertAt(Mapped(g, w), k, g[e])
    BY <1>1, MappedIn
  <2> QED BY <1>2, <2>1
<1> QED BY <1>3, <1>4, <1>5 DEF ItemsOf, g

LEMMA ItemsOut ==
    ASSUME NEW es, NEW q \in Seq(DOMAIN es), NEW p \in 1 .. Len(q)
    PROVE  ItemsOf(es, RemoveAt(q, p)) = RemoveAt(ItemsOf(es, q), p)
BY MappedOut DEF ItemsOf

(* es1 is es with the new cell c, whose data is d and whose next is x.       *)
Grown(es1, es, q, c, d, x) ==
    /\ Elms(es1) /\ DOMAIN es1 = DOMAIN es \cup {c}
    /\ es1[c].data = d /\ es1[c].next = x
    /\ \A e \in DOMAIN es : es1[e] = es[e] /\ e # c
    /\ x = Null => TwoPaths(es1, q, <<c>>)

LEMMA NewCell ==
    ASSUME NEW es, NEW f, NEW n, NEW q, IsList(es, f, n, q), NEW c \in Cell \ DOMAIN es,
           NEW d \in Ranked, NEW x \in Cell \cup {Null},
           NEW es1, es1 = Slist!With(es, c, d, x)
    PROVE  Grown(es1, es, q, c, d, x)
<1>1. es1 = [e \in DOMAIN es \cup {c} |-> IF e = c THEN [data |-> d, next |-> x] ELSE es[e]]
  BY DEF Slist!With
<1>2. DOMAIN es1 = DOMAIN es \cup {c} /\ es1[c].data = d /\ es1[c].next = x BY <1>1
<1>3. \A e \in DOMAIN es : es1[e] = es[e] /\ e # c BY <1>1
<1>4. Elms(es1)
  <2>1. DOMAIN es \subseteq Cell /\ \A e \in DOMAIN es : es[e] \in [data : Ranked, next : Cell \cup {Null}]
    BY DEF IsList, Elms
  <2>2. [data |-> d, next |-> x] \in [data : Ranked, next : Cell \cup {Null}] OBVIOUS
  <2>3. \A e \in DOMAIN es \cup {c} : es1[e] \in [data : Ranked, next : Cell \cup {Null}]
    BY <1>1, <2>1, <2>2
  <2>4. es1 = [e \in DOMAIN es1 |-> es1[e]] BY <1>1
  <2> QED BY <1>2, <2>1, <2>3, <2>4 DEF Elms
<1>5. ASSUME x = Null PROVE TwoPaths(es1, q, <<c>>)
  <2>1. DOMAIN es = ToSet(q) BY IsListRead
  <2>2. Follows(es1, q, Null)
    <3>1. Follows(es, q, Null) BY DEF IsList, TwoPaths
    <3>2. \A e \in ToSet(q) : e \in DOMAIN es1 /\ es1[e].next = es[e].next BY <1>2, <1>3, <2>1
    <3> QED BY <3>1, <3>2, FollowsSame
  <2> DEFINE r == <<c>>
  <2>3. r \in Seq(DOMAIN es1) /\ Len(r) = 1 /\ r[1] = c /\ DOMAIN r = 1 .. 1 BY <1>2
  <2> HIDE DEF r
  <2>4. Follows(es1, r, Null)
    <3>1. \A k, m \in 1 .. Len(r) : r[k] = r[m] => k = m BY <2>3
    <3>2. After(r, 1, Null) = Null BY <2>3 DEF After
    <3>3. \A k \in 1 .. Len(r) : es1[r[k]].next = After(r, k, Null) BY <1>2, <1>5, <2>3, <3>2
    <3> QED BY <2>3, <3>1, <3>3 DEF Follows
  <2>5. ToSet(r) = {c} BY <2>3 DEF ToSet
  <2>6. DOMAIN es1 = ToSet(q) \cup ToSet(r) /\ ToSet(q) \cap ToSet(r) = {} BY <1>2, <2>1, <2>5
  <2>7. TwoPaths(es1, q, r) BY <2>2, <2>4, <2>6 DEF TwoPaths
  <2> QED BY <2>7 DEF r
<1> QED BY <1>2, <1>3, <1>4, <1>5 DEF Grown

LEMMA OneLess ==
    ASSUME NEW c
    PROVE  <<c>> # <<>> /\ <<c>>[1] = c /\ RemoveAt(<<c>>, 1) = <<>>
<1> DEFINE r == <<c>>
           t == RemoveAt(r, 1)
<1>1. r \in Seq({c}) /\ Len(r) = 1 /\ r[1] = c /\ r # <<>> OBVIOUS
<1> HIDE DEF r
<1>2. 1 \in 1 .. Len(r) BY <1>1
<1>3. t \in Seq({c}) /\ Len(t) = Len(r) - 1 BY <1>1, <1>2, RemoveAtIs
<1> HIDE DEF t
<1>4. t = <<>> BY <1>1, <1>3
<1> QED BY <1>1, <1>4 DEF r, t

(* push and add_sorted put a new element in.                                *)
LEMMA PutIn ==
    ASSUME NEW es, NEW f, NEW n, NEW q, IsList(es, f, n, q), NEW c, c \notin DOMAIN es,
           NEW es2, Wider(es2, es, c), NEW p \in 1 .. Len(q) + 1, TwoPaths(es2, InsertAt(q, p, c), <<>>),
           NEW f2, f2 = Start(InsertAt(q, p, c), Null)
    PROVE  Holds(es2, f2, n + 1, InsertAt(ItemsOf(es, q), p, es2[c].data))
<1>1. q \in Seq(DOMAIN es) /\ n = Len(q) BY IsListRead
<1> DEFINE q2 == InsertAt(q, p, c)
<1>2. Len(q2) = n + 1
  <2> DEFINE E == DOMAIN es \cup {c}
  <2>1. q \in Seq(E) /\ c \in E BY <1>1
  <2> HIDE DEF E
  <2> QED BY <1>1, <2>1, InsertAtIs
<1>3. ItemsOf(es2, q2) = InsertAt(ItemsOf(es, q), p, es2[c].data)
  <2> HIDE DEF q2
  <2>1. p \in 1 .. Len(q) + 1 OBVIOUS
  <2> QED BY <1>1, <2>1, ItemsIn DEF q2
<1> HIDE DEF q2
<1>4. IsList(es2, f2, n + 1, q2) BY <1>2 DEF IsList, Wider, q2
<1> QED BY <1>3, <1>4, Zenon DEF Holds

LEMMA PushIs ==
    ASSUME NEW es, NEW f, NEW n, NEW s, Holds(es, f, n, s), NEW c \in Cell \ DOMAIN es,
           NEW d \in Ranked
    PROVE  Holds(Slist!With(es, c, d, f), c, n + 1, <<d>> \o s)
<1>1. PICK q : IsList(es, f, n, q) /\ s = ItemsOf(es, q) BY Zenon DEF Holds
<1>2. /\ q \in Seq(DOMAIN es) /\ Len(q) \in Nat
      /\ \A k \in 1 .. Len(q) : q[k] \in DOMAIN es
      /\ s \in Seq(Ranked) /\ Len(s) = Len(q)
      /\ Elms(es) /\ f = Start(q, Null)
  BY <1>1, IsListRead DEF IsList
<1> DEFINE es1 == Slist!With(es, c, d, Null)
           es2 == Slist!With(es, c, d, f)
           r == <<c>>
<1>3. f \in Cell \cup {Null}
  <2>1. q # <<>> => 1 \in 1 .. Len(q) BY <1>2
  <2>2. f = Null \/ f \in DOMAIN es BY <1>2, <2>1 DEF Start
  <2> QED BY <1>2, <2>2 DEF Elms
<1>4. Null \in Cell \cup {Null} OBVIOUS
<1> HIDE DEF es1, es2, r
<1>5. /\ Elms(es1) /\ DOMAIN es1 = DOMAIN es \cup {c}
      /\ \A e \in DOMAIN es : es1[e] = es[e] /\ e # c
      /\ TwoPaths(es1, q, r)
  <2>1. Grown(es1, es, q, c, d, Null) BY <1>1, <1>4, NewCell, Zenon DEF es1
  <2> QED BY <2>1 DEF Grown, r
<1>6. /\ Elms(es2) /\ DOMAIN es2 = DOMAIN es \cup {c}
      /\ es2[c].data = d /\ es2[c].next = f
      /\ \A e \in DOMAIN es : es2[e] = es[e] /\ e # c
  <2>1. Grown(es2, es, q, c, d, f) BY <1>1, <1>3, NewCell, Zenon DEF es2
  <2> QED BY <2>1 DEF Grown
<1>7. r # <<>> /\ r[1] = c /\ RemoveAt(r, 1) = <<>> BY OneLess DEF r
<1>8. 1 \in 1 .. Len(q) + 1 /\ 1 - 1 = 0 /\ f = After(q, 0, Null)
  <2>1. 1 \in 1 .. Len(q) + 1 BY <1>2
  <2>2. Follows(es, q, Null) BY <1>1 DEF IsList, TwoPaths
  <2>3. f = After(q, 0, Null) BY <1>2, <2>2, FollowsIs
  <2> QED BY <2>1, <2>3
<1>9. /\ TwoPaths(es2, InsertAt(q, 1, c), <<>>)
      /\ Start(InsertAt(q, 1, c), Null) = c
  <2>1. DOMAIN es2 = DOMAIN es1 BY <1>5, <1>6
  <2>2. es2[r[1]].next = After(q, 1 - 1, Null) BY <1>6, <1>7, <1>8
  <2>3. \A e \in DOMAIN es1 : e # r[1] => es2[e].next = es1[e].next BY <1>5, <1>6, <1>7
  <2> QED BY <1>5, <1>7, <1>8, <2>1, <2>2, <2>3, LinkIn
<1>10. Wider(es2, es, c) BY <1>6 DEF Wider
<1>11. Holds(es2, c, n + 1, InsertAt(s, 1, d)) BY <1>1, <1>6, <1>8, <1>9, <1>10, PutIn
<1>12. <<d>> \o s = InsertAt(s, 1, d) BY <1>2, ConsIs
<1> QED BY <1>11, <1>12 DEF es2

LEMMA AddSortedIs ==
    ASSUME NEW es, NEW f, NEW n, NEW s, Holds(es, f, n, s), NEW c \in Cell \ DOMAIN es,
           NEW d \in Ranked, NEW l, l = Slist!Inserted(Slist!With(es, c, d, Null), f, c)
    PROVE  Holds(l[1], l[2], n + 1, InsertAt(s, Place(s, d), d))
<1>1. PICK q : IsList(es, f, n, q) /\ s = ItemsOf(es, q) BY Zenon DEF Holds
<1>2. q \in Seq(DOMAIN es) /\ f = Start(q, Null) BY <1>1, IsListRead DEF IsList
<1> DEFINE es1 == Slist!With(es, c, d, Null)
           r == <<c>>
           p == Place(s, d)
           es2 == l[1]
<1>3. Null \in Cell \cup {Null} OBVIOUS
<1> HIDE DEF es1, r
<1>4. /\ Elms(es1) /\ DOMAIN es1 = DOMAIN es \cup {c}
      /\ es1[c].data = d
      /\ \A e \in DOMAIN es : es1[e] = es[e] /\ e # c
      /\ TwoPaths(es1, q, r)
  <2>1. Grown(es1, es, q, c, d, Null) BY <1>1, <1>3, NewCell, Zenon DEF es1
  <2> QED BY <2>1 DEF Grown, r
<1>5. r # <<>> /\ r[1] = c /\ RemoveAt(r, 1) = <<>> BY OneLess DEF r
<1>6. ItemsOf(es1, q) = s
  <2>1. DOMAIN es \subseteq DOMAIN es1 /\ \A e \in DOMAIN es : es1[e].data = es[e].data BY <1>4
  <2>2. DOMAIN es \subseteq DOMAIN es OBVIOUS
  <2> QED BY <1>1, <1>2, <2>1, <2>2, ItemsSame
<1> HIDE DEF p, es2
<1>7. /\ Elms(es2) /\ DOMAIN es2 = DOMAIN es1
      /\ \A e \in DOMAIN es1 : es2[e].data = es1[e].data
      /\ p \in 1 .. Len(q) + 1
      /\ TwoPaths(es2, InsertAt(q, p, c), <<>>)
      /\ l[2] = Start(InsertAt(q, p, c), Null)
  <2>1. p = Place(ItemsOf(es1, q), es1[r[1]].data) BY <1>4, <1>5, <1>6 DEF p
  <2>2. l = Slist!Inserted(es1, Start(q, Null), r[1]) BY <1>2, <1>5 DEF es1
  <2>3. /\ Elms(l[1]) /\ DOMAIN l[1] = DOMAIN es1
        /\ \A e \in DOMAIN es1 : l[1][e].data = es1[e].data
        /\ p \in 1 .. Len(q) + 1
        /\ TwoPaths(l[1], InsertAt(q, p, r[1]), RemoveAt(r, 1))
        /\ l[2] = Start(InsertAt(q, p, r[1]), Null)
    BY <1>4, <1>5, <2>1, <2>2, InsertedIs
  <2> QED BY <1>5, <2>3 DEF es2
<1>8. /\ \A e \in DOMAIN es : es2[e].data = es[e].data
      /\ es2[c].data = d /\ DOMAIN es2 = DOMAIN es \cup {c}
      /\ Wider(es2, es, c)
  BY <1>4, <1>7 DEF Wider
<1>9. Holds(es2, l[2], n + 1, InsertAt(s, p, d)) BY <1>1, <1>7, <1>8, PutIn
<1> QED BY <1>9 DEF es2, p

(* pop, del: the element q[p] is taken out.                                 *)
LEMMA TakeOut ==
    ASSUME NEW es, NEW f, NEW n, NEW q, IsList(es, f, n, q), NEW p \in 1 .. Len(q),
           NEW es2, DOMAIN es2 = DOMAIN es \ {q[p]},
           \A e \in DOMAIN es2 :
              es2[e] = IF es[e].next = q[p] THEN [es[e] EXCEPT !.next = es[q[p]].next] ELSE es[e],
           es2 = [e \in DOMAIN es2 |-> es2[e]],
           NEW f2, f2 = IF q[p] = f THEN es[f].next ELSE f
    PROVE  Holds(es2, f2, n - 1, RemoveAt(ItemsOf(es, q), p))
<1>1. /\ q \in Seq(DOMAIN es) /\ Len(q) \in Nat /\ n = Len(q)
      /\ DOMAIN es = ToSet(q) /\ DOMAIN q = 1 .. Len(q)
      /\ \A k, m \in 1 .. Len(q) : q[k] = q[m] => k = m
      /\ \A k \in 1 .. Len(q) : q[k] \in DOMAIN es /\ es[q[k]].next = After(q, k, Null)
      /\ f = Null <=> q = <<>>
      /\ f # Null => f = q[1] /\ 1 \in 1 .. Len(q)
  BY IsListRead
<1>2. /\ DOMAIN es \subseteq Cell
      /\ \A e \in DOMAIN es : es[e] \in [data : Ranked, next : Cell \cup {Null}]
      /\ Follows(es, q, Null) /\ f = Start(q, Null)
  BY DEF IsList, Elms, TwoPaths
<1> DEFINE x == q[p]
           D == DOMAIN es
           E == DOMAIN es2
           q2 == RemoveAt(q, p)
<1>3. x \in D /\ E = D \ {x} /\ Null \notin D /\ es[x].next \in Cell \cup {Null}
  BY <1>1, <1>2, QueueAssumption
<1>4. \A e \in E : /\ es2[e].next = IF es[e].next = x THEN es[x].next ELSE es[e].next
                   /\ es2[e].data = es[e].data
                   /\ es2[e] \in [data : Ranked, next : Cell \cup {Null}]
  <2> SUFFICES ASSUME NEW e \in E
               PROVE  /\ es2[e].next = IF es[e].next = x THEN es[x].next ELSE es[e].next
                      /\ es2[e].data = es[e].data
                      /\ es2[e] \in [data : Ranked, next : Cell \cup {Null}]
    OBVIOUS
  <2>1. e \in D /\ es[e] \in [data : Ranked, next : Cell \cup {Null}] BY <1>2, <1>3
  <2>2. es2[e] = IF es[e].next = x THEN [es[e] EXCEPT !.next = es[x].next] ELSE es[e] OBVIOUS
  <2> HIDE DEF x, E
  <2> QED BY <1>3, <2>1, <2>2
<1>5. Elms(es2)
  <2>1. es2 \in [E -> [data : Ranked, next : Cell \cup {Null}]] BY <1>4
  <2> QED BY <1>2, <1>3, <2>1 DEF Elms
(* Only the element before q[p] points to it.                               *)
<1>6. \A k \in 1 .. Len(q) : es[q[k]].next = x <=> k = p - 1
  <2> SUFFICES ASSUME NEW k \in 1 .. Len(q) PROVE es[q[k]].next = x <=> k = p - 1
    OBVIOUS
  <2>1. es[q[k]].next = After(q, k, Null) BY <1>1
  <2>2. CASE k < Len(q)
    <3>1. k + 1 \in 1 .. Len(q) BY <1>1, <2>2
    <3>2. After(q, k, Null) = q[k + 1] BY <2>2 DEF After
    <3>3. k + 1 = p <=> k = p - 1 BY <1>1
    <3>4. q[k + 1] = q[p] <=> k + 1 = p BY <1>1, <3>1
    <3> QED BY <2>1, <3>2, <3>3, <3>4
  <2>3. CASE ~(k < Len(q))
    <3>1. After(q, k, Null) = Null BY <2>3 DEF After
    <3>2. k # p - 1 BY <1>1, <2>3
    <3> QED BY <1>3, <2>1, <3>1, <3>2
  <2> QED BY <2>2, <2>3
<1>7. /\ Follows(es2, q2, Null) /\ ToSet(q2) = ToSet(q) \ {x}
      /\ Start(q2, Null) = IF p = 1 THEN After(q, 1, Null) ELSE Start(q, Null)
  <2> HIDE DEF E
  <2>1. \A k \in 1 .. Len(q) : k # p => q[k] \in E BY <1>1, <1>3
  <2>2. ASSUME p # 1 PROVE es2[q[p - 1]].next = After(q, p, Null)
    <3>1. p - 1 \in 1 .. Len(q) /\ p - 1 # p BY <1>1, <2>2
    <3>2. es[q[p - 1]].next = x /\ q[p - 1] \in E BY <1>6, <2>1, <3>1
    <3>3. es2[q[p - 1]].next = es[x].next BY <1>4, <3>2
    <3> QED BY <1>1, <3>3
  <2>3. \A k \in 1 .. Len(q) : k # p - 1 /\ k # p => es2[q[k]].next = es[q[k]].next
    BY <1>4, <1>6, <2>1
  <2> QED BY <1>2, <2>1, <2>2, <2>3, FollowsOut DEF E
<1>8. f2 = Start(q2, Null)
  <2>1. q # <<>> /\ f = q[1] /\ 1 \in 1 .. Len(q) BY <1>1
  <2>2. x = f <=> p = 1 BY <1>1, <2>1
  <2>3. es[f].next = After(q, 1, Null) BY <1>1, <2>1
  <2> HIDE DEF x, q2
  <2>4. f2 = IF x = f THEN es[f].next ELSE f BY DEF x
  <2> QED BY <1>2, <1>7, <2>2, <2>3, <2>4
<1>9. q2 \in Seq(D) /\ Len(q2) = Len(q) - 1 BY <1>1, RemoveAtIs
<1>10. TwoPaths(es2, q2, <<>>)
  <2>1. ToSet(<<>>) = {} BY NoCells
  <2>2. DOMAIN es2 = ToSet(q2) BY <1>1, <1>3, <1>7
  <2>3. Follows(es2, <<>>, Null) BY NoPath
  <2> HIDE DEF q2
  <2> QED BY <1>7, <2>1, <2>2, <2>3 DEF TwoPaths
<1>11. IsList(es2, f2, n - 1, q2) BY <1>1, <1>5, <1>8, <1>9, <1>10 DEF IsList
<1>12. ItemsOf(es2, q2) = RemoveAt(ItemsOf(es, q), p)
  <2>1. q2 \in Seq(E) BY <1>7 DEF Follows
  <2>2. ItemsOf(es2, q2) = ItemsOf(es, q2) BY <1>3, <1>4, <2>1, ItemsSame
  <2>4. ItemsOf(es, q2) = RemoveAt(ItemsOf(es, q), p) BY <1>1, ItemsOut
  <2> QED BY <2>2, <2>4
<1> HIDE DEF q2
<1> QED BY <1>11, <1>12, Zenon DEF Holds

-----------------------------------------------------------------------------
(* The places of the data equal to d. *)
EqualAt(s, d) == {k \in 1 .. Len(s) : Rank(s[k]) = Rank(d)}

LEMMA SlistReads ==
    ASSUME NEW q, IsList(elms, first, length, q), NEW s, s = ItemsOf(elms, q)
    PROVE  /\ Slist!Chain = q /\ Slist!Contents = s
           /\ \A d : Slist!Matches(d) = EqualAt(s, d) /\ Slist!Ordered!Equal(d) = EqualAt(s, d)
           /\ Slist!ListWhole
<1>1. /\ Walk(elms, first, Null) = q
      /\ q \in Seq(DOMAIN elms) /\ Len(q) \in Nat /\ length = Len(q)
      /\ DOMAIN elms = ToSet(q)
      /\ s \in Seq(Ranked) /\ Len(s) = Len(q)
      /\ \A k \in 1 .. Len(q) : s[k] = elms[q[k]].data
  BY IsListRead
<1>2. Slist!Chain = q BY <1>1, SlistOps DEF Slist!Chain
<1>3. Slist!Contents = s
  <2>1. Slist!Contents = [k \in 1 .. Len(q) |-> elms[q[k]].data] BY <1>2 DEF Slist!Contents
  <2>2. s = [k \in 1 .. Len(q) |-> s[k]] BY <1>1
  <2> QED BY <1>1, <2>1, <2>2
<1>4. ASSUME NEW d PROVE Slist!Matches(d) = EqualAt(s, d) /\ Slist!Ordered!Equal(d) = EqualAt(s, d)
  <2>1. Slist!Matches(d) = {k \in 1 .. Len(q) : Rank(elms[q[k]].data) = Rank(d)}
    BY <1>2 DEF Slist!Matches
  <2>2. Slist!Matches(d) = EqualAt(s, d) BY <1>1, <2>1 DEF EqualAt
  <2>3. Slist!Ordered!Equal(d) = EqualAt(s, d) BY <1>3 DEF Slist!Ordered!Equal, EqualAt
  <2> QED BY <2>2, <2>3
<1>5. Slist!ListWhole BY <1>1, <1>2, SlistOps DEF Slist!ListWhole
<1> QED BY <1>2, <1>3, <1>4, <1>5

(* The same of the next state. *)
LEMMA HoldsRead ==
    ASSUME NEW es, NEW f, NEW n, NEW s, Holds(es, f, n, s)
    PROVE  [k \in 1 .. Len(Walk(es, f, Null)) |-> es[Walk(es, f, Null)[k]].data] = s
<1>1. PICK q : IsList(es, f, n, q) /\ s = ItemsOf(es, q) BY Zenon DEF Holds
<1>2. /\ Walk(es, f, Null) = q /\ Len(q) \in Nat
      /\ s \in Seq(Ranked) /\ Len(s) = Len(q)
      /\ \A k \in 1 .. Len(q) : s[k] = es[q[k]].data
  BY <1>1, IsListRead
<1>3. s = [k \in 1 .. Len(q) |-> s[k]] BY <1>2
<1> DEFINE W == Walk(es, f, Null)
<1> HIDE DEF W
<1>4. W = q BY <1>2 DEF W
<1>5. [k \in 1 .. Len(W) |-> es[W[k]].data] = s BY <1>2, <1>3, <1>4
<1> QED BY <1>5 DEF W

LEMMA NextContents ==
    ASSUME NEW s, Holds(elms', first', length', s)
    PROVE  Slist!Contents' = s
<1>1. [k \in 1 .. Len(Walk(elms', first', Null)) |-> elms'[Walk(elms', first', Null)[k]].data] = s
  BY HoldsRead
<1>2. Slist!Walk(elms', first', Null) = Walk(elms', first', Null) BY SlistOps
<1> QED BY <1>1, <1>2 DEF Slist!Contents, Slist!Chain

LEMMA PopIs ==
    ASSUME NEW s, Holds(elms, first, length, s), Slist!Pop
    PROVE  Holds(elms', first', length', Tail(s)) /\ Slist!Ordered!Pop
<1>1. PICK q : IsList(elms, first, length, q) /\ s = ItemsOf(elms, q) BY Zenon DEF Holds
<1>2. /\ first # Null /\ sRet' = <<elms[first].data>>
      /\ first' = elms[first].next
      /\ elms' = [e \in DOMAIN elms \ {first} |-> elms[e]]
      /\ length' = length - 1
  BY SlistOps DEF Slist!Pop, Slist!Without, Restrict
<1>3. /\ q \in Seq(DOMAIN elms) /\ Len(q) \in Nat /\ length = Len(q)
      /\ DOMAIN elms = ToSet(q) /\ DOMAIN q = 1 .. Len(q)
      /\ \A k, m \in 1 .. Len(q) : q[k] = q[m] => k = m
      /\ \A k \in 1 .. Len(q) : q[k] \in DOMAIN elms /\ elms[q[k]].next = After(q, k, Null)
      /\ first = q[1] /\ 1 \in 1 .. Len(q)
      /\ s \in Seq(Ranked) /\ Len(s) = Len(q)
      /\ \A k \in 1 .. Len(q) : s[k] = elms[q[k]].data
  BY <1>1, <1>2, IsListRead
<1>4. \A e \in DOMAIN elms : elms[e].next # first
  <2> SUFFICES ASSUME NEW e \in DOMAIN elms PROVE elms[e].next # first
    OBVIOUS
  <2> PICK k \in 1 .. Len(q) : e = q[k] BY <1>3 DEF ToSet
  <2>1. Null \notin DOMAIN elms BY <1>1, QueueAssumption DEF IsList, Elms
  <2>2. CASE k < Len(q)
    <3>1. k + 1 \in 1 .. Len(q) /\ k + 1 # 1 BY <1>3, <2>2
    <3>2. elms[q[k]].next = q[k + 1] BY <1>3, <2>2 DEF After
    <3> QED BY <1>3, <3>1, <3>2
  <2>3. CASE ~(k < Len(q))
    <3>1. elms[q[k]].next = Null BY <1>3, <2>3 DEF After
    <3> QED BY <1>2, <3>1
  <2> QED BY <2>2, <2>3
<1> DEFINE es2 == elms'
           f2 == first'
<1>5. Holds(es2, f2, length - 1, RemoveAt(s, 1))
  <2>1. DOMAIN es2 = DOMAIN elms \ {q[1]} /\ es2 = [e \in DOMAIN es2 |-> es2[e]]
        /\ \A e \in DOMAIN es2 : es2[e] = elms[e]
    BY <1>2, <1>3
  <2>2. f2 = IF q[1] = first THEN elms[first].next ELSE first BY <1>2, <1>3
  <2> HIDE DEF es2, f2
  <2>3. \A e \in DOMAIN es2 :
          es2[e] = IF elms[e].next = q[1] THEN [elms[e] EXCEPT !.next = elms[q[1]].next] ELSE elms[e]
    BY <1>3, <1>4, <2>1
  <2> QED BY <1>1, <1>3, <2>1, <2>2, <2>3, TakeOut
<1>6. s # <<>> BY <1>3
<1>7. Tail(s) = RemoveAt(s, 1) /\ Head(s) = s[1] BY <1>3, <1>6, TailOut
<1>8. Holds(elms', first', length', Tail(s)) BY <1>2, <1>5, <1>7
<1>9. Slist!Contents' = Tail(s) BY <1>8, NextContents
<1>10. Slist!Contents = s BY <1>1, SlistReads
<1>11. sRet' = <<Head(s)>> BY <1>2, <1>3, <1>7
<1> QED BY <1>6, <1>8, <1>9, <1>10, <1>11 DEF Slist!Ordered!Pop

LEMMA DelIs ==
    ASSUME NEW s, Holds(elms, first, length, s), NEW d \in Ranked, Slist!Del(d)
    PROVE  /\ Holds(elms', first', length', RemoveAt(s, Min(EqualAt(s, d))))
           /\ Slist!Ordered!Del(d)
<1>1. PICK q : IsList(elms, first, length, q) /\ s = ItemsOf(elms, q) BY Zenon DEF Holds
<1> DEFINE p == Min(EqualAt(s, d))
           x == q[p]
<1>2. /\ Slist!Chain = q /\ Slist!Matches(d) = EqualAt(s, d) /\ Slist!Ordered!Equal(d) = EqualAt(s, d)
      /\ Slist!Contents = s
  BY <1>1, SlistReads
<1>3. Slist!Min(EqualAt(s, d)) = p /\ Slist!Ordered!Min(EqualAt(s, d)) = p BY SlistOps
<1>4. /\ q \in Seq(DOMAIN elms) /\ Len(q) \in Nat /\ length = Len(q)
      /\ \A k \in 1 .. Len(q) : q[k] \in DOMAIN elms
      /\ s \in Seq(Ranked) /\ Len(s) = Len(q)
      /\ \A k \in 1 .. Len(q) : s[k] = elms[q[k]].data
  BY <1>1, IsListRead
<1>5. EqualAt(s, d) # {} BY <1>2 DEF Slist!Del
<1>6. p \in 1 .. Len(q)
  <2>1. EqualAt(s, d) \in SUBSET Nat /\ EqualAt(s, d) \subseteq 1 .. Len(q) BY <1>4 DEF EqualAt
  <2>2. p \in EqualAt(s, d) BY <1>5, <2>1, MinOf
  <2> QED BY <2>1, <2>2
<1> HIDE DEF p
<1>7. /\ sRet' = <<elms[x].data>>
      /\ first' = IF x = first THEN elms[first].next ELSE first
      /\ elms' = Slist!Without(Slist!Unlinked(x), x)
      /\ length' = length - 1
  BY <1>2, <1>3 DEF Slist!Del
<1> DEFINE es2 == elms'
           f2 == first'
<1>8. es2 = [e \in DOMAIN elms \ {x} |->
               IF elms[e].next = x THEN [elms[e] EXCEPT !.next = elms[x].next] ELSE elms[e]]
  <2> DEFINE un == [e \in DOMAIN elms |->
                      IF elms[e].next = x THEN [elms[e] EXCEPT !.next = elms[x].next] ELSE elms[e]]
  <2>1. Slist!Unlinked(x) = un BY DEF Slist!Unlinked
  <2>2. DOMAIN un = DOMAIN elms OBVIOUS
  <2>3. \A e \in DOMAIN elms \ {x} :
          un[e] = IF elms[e].next = x THEN [elms[e] EXCEPT !.next = elms[x].next] ELSE elms[e]
    OBVIOUS
  <2> HIDE DEF un, x
  <2>4. es2 = [e \in DOMAIN elms \ {x} |-> un[e]]
    BY <1>7, <2>1, <2>2, SlistOps DEF Slist!Without, Restrict
  <2> QED BY <2>3, <2>4
<1>9. Holds(es2, f2, length - 1, RemoveAt(s, p))
  <2>1. /\ DOMAIN es2 = DOMAIN elms \ {q[p]} /\ es2 = [e \in DOMAIN es2 |-> es2[e]]
        /\ \A e \in DOMAIN es2 :
             es2[e] = IF elms[e].next = q[p] THEN [elms[e] EXCEPT !.next = elms[q[p]].next] ELSE elms[e]
    <3> HIDE DEF es2
    <3> QED BY <1>8
  <2>2. f2 = IF q[p] = first THEN elms[first].next ELSE first BY <1>7
  <2> HIDE DEF es2, f2
  <2> QED BY <1>1, <1>6, <2>1, <2>2, TakeOut
<1>10. Holds(elms', first', length', RemoveAt(s, p)) BY <1>7, <1>9
<1>11. Slist!Contents' = RemoveAt(s, p) BY <1>10, NextContents
<1>12. sRet' = <<s[p]>> BY <1>4, <1>6, <1>7
<1>13. Slist!Ordered!RemoveAt(s, p) = RemoveAt(s, p) BY SlistOps
<1>14. Slist!Ordered!Del(d) BY <1>2, <1>3, <1>5, <1>11, <1>12, <1>13 DEF Slist!Ordered!Del
<1> QED BY <1>10, <1>14 DEF p

(* The calls that leave the list as it is.                                  *)
LEMMA LookIs ==
    ASSUME NEW s, Holds(elms, first, length, s), NEW d \in Ranked,
           Slist!Find(d) \/ Slist!DelNothing(d) \/ Slist!Peek
    PROVE  /\ Holds(elms', first', length', s)
           /\ \E x \in Ranked : Slist!Ordered!Look(x)
<1>1. PICK q : IsList(elms, first, length, q) /\ s = ItemsOf(elms, q) BY Zenon DEF Holds
<1>2. /\ Slist!Chain = q /\ Slist!Contents = s
      /\ \A x : Slist!Matches(x) = EqualAt(s, x) /\ Slist!Ordered!Equal(x) = EqualAt(s, x)
  BY <1>1, SlistReads
<1>3. /\ q \in Seq(DOMAIN elms) /\ Len(q) \in Nat
      /\ first # Null => first = q[1] /\ 1 \in 1 .. Len(q)
      /\ s \in Seq(Ranked) /\ Len(s) = Len(q)
      /\ \A k \in 1 .. Len(q) : s[k] = elms[q[k]].data
  BY <1>1, IsListRead
<1>4. \A S : Slist!Min(S) = Min(S) /\ Slist!Ordered!Min(S) = Min(S) BY SlistOps
<1>5. UNCHANGED <<elms, first, length>> BY DEF Slist!Find, Slist!DelNothing, Slist!Peek
<1>6. Holds(elms', first', length', s) BY <1>5
<1>7. Slist!Contents' = s BY <1>6, NextContents
<1>8. \A x \in Ranked : sRet' = (IF EqualAt(s, x) = {} THEN <<>> ELSE <<s[Min(EqualAt(s, x))]>>)
        => Slist!Ordered!Look(x)
  BY <1>2, <1>4, <1>7 DEF Slist!Ordered!Look
<1>9. \A x : EqualAt(s, x) # {} => Min(EqualAt(s, x)) \in 1 .. Len(q)
             /\ \A k \in EqualAt(s, x) : Min(EqualAt(s, x)) <= k
  <2> SUFFICES ASSUME NEW x, EqualAt(s, x) # {}
               PROVE  Min(EqualAt(s, x)) \in 1 .. Len(q) /\ \A k \in EqualAt(s, x) : Min(EqualAt(s, x)) <= k
    OBVIOUS
  <2>1. EqualAt(s, x) \in SUBSET Nat /\ EqualAt(s, x) \subseteq 1 .. Len(q) BY <1>3 DEF EqualAt
  <2>2. Min(EqualAt(s, x)) \in EqualAt(s, x) /\ \A k \in EqualAt(s, x) : Min(EqualAt(s, x)) <= k
    BY <2>1, MinOf
  <2> QED BY <2>1, <2>2
<1>10. CASE Slist!Find(d) \/ Slist!DelNothing(d)
  <2>1. sRet' = IF EqualAt(s, d) = {} THEN <<>> ELSE <<s[Min(EqualAt(s, d))]>>
    <3>1. CASE Slist!Find(d)
      <4>1. sRet' = IF EqualAt(s, d) = {} THEN <<>> ELSE <<elms[q[Min(EqualAt(s, d))]].data>>
        BY <1>2, <1>4, <3>1 DEF Slist!Find
      <4> QED BY <1>3, <1>9, <4>1
    <3>2. CASE Slist!DelNothing(d) BY <1>2, <3>2 DEF Slist!DelNothing
    <3> QED BY <1>10, <3>1, <3>2
  <2> QED BY <1>6, <1>8, <2>1
<1>11. CASE Slist!Peek
  <2>1. first # Null /\ sRet' = <<elms[first].data>> BY <1>11 DEF Slist!Peek
  <2>2. 1 \in 1 .. Len(q) /\ sRet' = <<s[1]>> /\ s[1] \in Ranked BY <1>3, <2>1
  <2>3. 1 \in EqualAt(s, s[1]) BY <1>3, <2>2 DEF EqualAt
  <2> DEFINE m == Min(EqualAt(s, s[1]))
  <2>4. m \in 1 .. Len(q) /\ m <= 1 BY <1>9, <2>3
  <2>5. m = 1
    <3> HIDE DEF m
    <3> QED BY <1>3, <2>4
  <2>6. EqualAt(s, s[1]) # {} BY <2>3
  <2>7. sRet' = IF EqualAt(s, s[1]) = {} THEN <<>> ELSE <<s[Min(EqualAt(s, s[1]))]>>
    BY <2>2, <2>5, <2>6
  <2> QED BY <1>6, <1>8, <2>2, <2>7
<1> QED BY <1>10, <1>11

LEMMA EmptyList ==
    ASSUME NEW es, es = [c \in {} |-> Null]
    PROVE  Holds(es, Null, 0, <<>>)
<1> DEFINE z == <<>>
<1>0. DOMAIN es = {} OBVIOUS
<1>1. Len(z) = 0 /\ ToSet(z) = {} BY NoCells
<1>2. Follows(es, z, Null) BY NoPath
<1>3. Start(z, Null) = Null BY DEF Start
<1> HIDE DEF z
<1>4. TwoPaths(es, z, z) BY <1>0, <1>1, <1>2 DEF TwoPaths
<1>5. 1 .. 0 = {} OBVIOUS
<1>6. ItemsOf(es, z) = z BY <1>1, <1>5 DEF ItemsOf, Mapped, z
<1>7. Elms(es) BY <1>0 DEF Elms
<1>8. IsList(es, Null, 0, z) BY <1>1, <1>3, <1>4, <1>7 DEF IsList, z
<1>9. Holds(es, Null, 0, z) BY <1>6, <1>8, Zenon DEF Holds
<1> QED BY <1>9 DEF z

LEMMA FreeNodesIs ==
    ASSUME NEW s, Holds(elms, first, length, s), Slist!FreeNodes
    PROVE  Holds(elms', first', length', <<>>) /\ Slist!Ordered!Clear
<1>1. PICK q : IsList(elms, first, length, q) /\ s = ItemsOf(elms, q) BY Zenon DEF Holds
<1>2. Slist!Chain = q /\ DOMAIN elms = ToSet(q) BY <1>1, SlistReads, IsListRead
<1>3. elms' = [e \in {} |-> Null]
  <2>1. elms' = [e \in DOMAIN elms \ ToSet(q) |-> elms[e]]
    BY <1>2, SlistOps DEF Slist!FreeNodes, Restrict
  <2>2. DOMAIN elms \ ToSet(q) = {} BY <1>2
  <2> QED BY <2>1, <2>2
<1>4. first' = Null /\ length' = 0 /\ sRet' = <<>> BY DEF Slist!FreeNodes
<1>5. Holds(elms', Null, 0, <<>>) BY <1>3, EmptyList
<1>6. Holds(elms', first', length', <<>>) BY <1>4, <1>5
<1>7. Slist!Contents' = <<>> BY <1>6, NextContents
<1> QED BY <1>4, <1>6, <1>7 DEF Slist!Ordered!Clear

-----------------------------------------------------------------------------
LEMMA PushStep ==
    ASSUME NEW s, Holds(elms, first, length, s), NEW d \in Ranked, Slist!Push(d)
    PROVE  (\E t : Holds(elms', first', length', t)) /\ Slist!Ordered!Push(d)
<1>1. PICK c \in Cell \ DOMAIN elms :
        /\ elms' = Slist!With(elms, c, d, first) /\ first' = c /\ length' = length + 1 /\ sRet' = <<>>
  BY DEF Slist!Push
<1>2. Holds(elms', first', length', <<d>> \o s) BY <1>1, PushIs
<1>3. Slist!Contents' = <<d>> \o s BY <1>2, NextContents
<1>4. Slist!Contents = s
  <2>1. PICK q : IsList(elms, first, length, q) /\ s = ItemsOf(elms, q) BY Zenon DEF Holds
  <2> QED BY <2>1, SlistReads
<1>5. Slist!Ordered!Push(d) BY <1>1, <1>3, <1>4 DEF Slist!Ordered!Push
<1> QED BY <1>2, <1>5

LEMMA AddSortedStep ==
    ASSUME NEW s, Holds(elms, first, length, s), NEW d \in Ranked, Slist!AddSorted(d)
    PROVE  (\E t : Holds(elms', first', length', t)) /\ Slist!Ordered!AddSorted(d)
<1>1. PICK c \in Cell \ DOMAIN elms :
        /\ elms' = Slist!Inserted(Slist!With(elms, c, d, Null), first, c)[1]
        /\ first' = Slist!Inserted(Slist!With(elms, c, d, Null), first, c)[2]
        /\ length' = length + 1 /\ sRet' = <<>>
  BY DEF Slist!AddSorted
<1>2. Holds(elms', first', length', InsertAt(s, Place(s, d), d)) BY <1>1, AddSortedIs
<1>3. Slist!Contents' = InsertAt(s, Place(s, d), d) BY <1>2, NextContents
<1>4. Slist!Contents = s
  <2>1. PICK q : IsList(elms, first, length, q) /\ s = ItemsOf(elms, q) BY Zenon DEF Holds
  <2> QED BY <2>1, SlistReads
<1> DEFINE G == {k \in 1 .. Len(s) : Rank(s[k]) > Rank(d)} \cup {Len(s) + 1}
<1>5. Slist!Ordered!Greater(d) \cup {Len(Slist!Contents) + 1} = G
  BY <1>4 DEF Slist!Ordered!Greater
<1>6. Place(s, d) = Min(G) BY DEF Place
<1>7. Slist!Ordered!AddSorted(d)
  <2> HIDE DEF G
  <2>1. Slist!Ordered!Min(G) = Min(G) BY SlistOps
  <2>2. Slist!Ordered!InsertAt(s, Min(G), d) = InsertAt(s, Min(G), d) BY SlistOps
  <2>3. Slist!Contents' = Slist!Ordered!InsertAt(s, Min(G), d) BY <1>3, <1>6, <2>2
  <2> QED BY <1>1, <1>4, <1>5, <2>1, <2>3 DEF Slist!Ordered!AddSorted
<1> QED BY <1>2, <1>7

(* What is past an element, among those that are not deleted.               *)
LEMMA PastIs ==
    ASSUME NEW q, IsList(elms, first, length, q), NEW dels, NEW k \in 0 .. Len(q)
    PROVE  Slist!Past(After(q, k, Null), dels) = NextIn(q, k, DOMAIN elms \ dels, Null)
<1>1. /\ q \in Seq(DOMAIN elms) /\ Len(q) \in Nat
      /\ \A m, n \in 1 .. Len(q) : q[m] = q[n] => m = n
      /\ \A m \in 1 .. Len(q) : q[m] \in DOMAIN elms
      /\ DOMAIN elms \subseteq Cell
  <2>1. DOMAIN elms \subseteq Cell BY DEF IsList, Elms
  <2> QED BY <2>1, IsListRead
<1>2. Slist!Chain = q
  <2>1. ItemsOf(elms, q) = ItemsOf(elms, q) OBVIOUS
  <2> QED BY SlistReads
<1> DEFINE c == After(q, k, Null)
           T == DOMAIN elms \ dels
           L == {i \in 1 .. Len(q) : q[i] \notin dels /\ \E j \in 1 .. i : q[j] = c}
           R == {n \in 1 .. Len(q) : q[n] \in T /\ n > k}
<1>3. ASSUME NEW i \in 1 .. Len(q) PROVE (\E j \in 1 .. i : q[j] = c) <=> i > k
  <2>1. CASE k < Len(q)
    <3>1. c = q[k + 1] /\ k + 1 \in 1 .. Len(q) BY <1>1, <2>1 DEF After
    <3> HIDE DEF c
    <3>2. ASSUME NEW j \in 1 .. i, q[j] = c PROVE i > k
      <4>1. j \in 1 .. Len(q) BY <1>1
      <4>2. j = k + 1 BY <1>1, <3>1, <3>2, <4>1
      <4> QED BY <1>1, <4>2
    <3>3. ASSUME i > k PROVE \E j \in 1 .. i : q[j] = c
      <4>1. k + 1 \in 1 .. i BY <1>1, <3>3
      <4> QED BY <3>1, <4>1
    <3> QED BY <3>2, <3>3
  <2>2. CASE ~(k < Len(q))
    <3>1. c = Null /\ ~(i > k) BY <1>1, <2>2 DEF After
    <3>2. \A j \in 1 .. i : j \in 1 .. Len(q) BY <1>1
    <3>3. \A j \in 1 .. i : q[j] # Null BY <1>1, <3>2, QueueAssumption
    <3> QED BY <3>1, <3>3
  <2> QED BY <2>1, <2>2
<1> HIDE DEF c
<1>4. L = R BY <1>1, <1>3
<1>5. Slist!Past(c, dels) = IF L = {} THEN Null ELSE q[Slist!Min(L)]
  BY <1>2 DEF Slist!Past
<1>6. Slist!Min(L) = Min(L)
  <2> HIDE DEF L
  <2> QED BY SlistOps
<1>7. NextIn(q, k, T, Null) = IF R = {} THEN Null ELSE q[Min(R)] BY DEF NextIn
<1> HIDE DEF L, R
<1>8. Slist!Past(c, dels) = NextIn(q, k, T, Null) BY <1>4, <1>5, <1>6, <1>7
<1> QED BY <1>8 DEF c

LEMMA NextInIs ==
    ASSUME NEW S, NEW q \in Seq(S), NEW k \in Nat, NEW T, NEW nil
    PROVE  NextIn(q, k, T, nil) \in S \cup {nil}
<1> DEFINE R == {n \in 1 .. Len(q) : q[n] \in T /\ n > k}
<1>1. NextIn(q, k, T, nil) = IF R = {} THEN nil ELSE q[Min(R)] BY DEF NextIn
<1>2. R \in SUBSET Nat /\ R \subseteq 1 .. Len(q) /\ \A m \in 1 .. Len(q) : q[m] \in S OBVIOUS
<1> HIDE DEF R
<1>3. R # {} => Min(R) \in R BY <1>2, MinOf
<1> QED BY <1>1, <1>2, <1>3

LEMMA DelMultIs ==
    ASSUME NEW s, Holds(elms, first, length, s), NEW d \in Ranked, Slist!DelMult(d)
    PROVE  (\E t : Holds(elms', first', length', t)) /\ Slist!Ordered!DelMult(d)
<1>1. PICK q : IsList(elms, first, length, q) /\ s = ItemsOf(elms, q) BY Zenon DEF Holds
<1> DEFINE D == DOMAIN elms
           E == EqualAt(s, d)
           dels == {q[k] : k \in E}
           left == D \ dels
           found == Among(q, dels)
           q2 == Among(q, left)
           g == DataAt(elms)
           Same == {x \in Ranked : Rank(x) = Rank(d)}
           Other == {x \in Ranked : Rank(x) # Rank(d)}
           es2 == elms'
           f2 == first'
<1>2. /\ Slist!Chain = q /\ Slist!Contents = s /\ Slist!Matches(d) = E
  BY <1>1, SlistReads
<1>3. /\ q \in Seq(D) /\ Len(q) \in Nat /\ length = Len(q)
      /\ D = ToSet(q) /\ DOMAIN q = 1 .. Len(q)
      /\ \A k \in 1 .. Len(q) : q[k] \in D /\ elms[q[k]].next = After(q, k, Null)
      /\ s \in Seq(Ranked) /\ Len(s) = Len(q)
      /\ \A k \in 1 .. Len(q) : s[k] = elms[q[k]].data
  BY <1>1, IsListRead
<1>4. /\ D \subseteq Cell
      /\ \A e \in D : elms[e] \in [data : Ranked, next : Cell \cup {Null}]
      /\ Follows(elms, q, Null) /\ first = Start(q, Null)
  BY <1>1 DEF IsList, Elms, TwoPaths
<1>5. g \in [D -> Ranked] /\ \A e \in D : g[e] = elms[e].data
  BY <1>1, DataAtIs DEF IsList, DataAt
<1>6. \A x \in D : x \in dels <=> g[x] \in Same
  <2> SUFFICES ASSUME NEW k \in 1 .. Len(q) PROVE q[k] \in dels <=> Rank(s[k]) = Rank(d)
    <3>1. \A x \in D : \E k \in 1 .. Len(q) : x = q[k] BY <1>3 DEF ToSet
    <3>2. \A k \in 1 .. Len(q) : g[q[k]] = s[k] /\ s[k] \in Ranked BY <1>3, <1>5
    <3> HIDE DEF D, dels, g
    <3> QED BY <3>1, <3>2
  <2>1. ASSUME Rank(s[k]) = Rank(d) PROVE q[k] \in dels BY <1>3, <2>1 DEF EqualAt
  <2>2. ASSUME q[k] \in dels PROVE Rank(s[k]) = Rank(d)
    <3>1. PICK m \in E : q[k] = q[m] BY <2>2
    <3>2. m \in 1 .. Len(q) /\ Rank(s[m]) = Rank(d) BY <1>3, <3>1 DEF EqualAt
    <3>3. s[m] = s[k] BY <1>3, <3>1, <3>2
    <3> QED BY <3>2, <3>3
  <2> QED BY <2>1, <2>2
<1>7. \A x \in D : x \in left <=> g[x] \in Other
  <2>1. \A x \in D : g[x] \in Ranked BY <1>5
  <2> HIDE DEF g, dels
  <2> QED BY <1>6, <2>1
<1>8. \A k \in 0 .. Len(q) : Slist!Past(After(q, k, Null), dels) = NextIn(q, k, left, Null)
  <2> HIDE DEF dels
  <2> QED BY <1>1, PastIs
<1>9. /\ es2 = [c \in left |-> [elms[c] EXCEPT !.next = Slist!Past(elms[c].next, dels)]]
      /\ f2 = Slist!Past(first, dels)
      /\ length' = length - Len(found)
      /\ sRet' = [k \in 1 .. Len(found) |-> elms[found[k]].data]
  <2>1. Slist!Among(q, dels) = found BY SlistOps
  <2>2. dels = {Slist!Chain[k] : k \in Slist!Matches(d)} BY <1>2
  <2> HIDE DEF dels, E
  <2> QED BY <1>2, <2>1, <2>2 DEF Slist!DelMult
<1> HIDE DEF dels, E, g, Same, Other, es2, f2, found
<1>10. \A k \in 1 .. Len(q) : q[k] \in left =>
          /\ q[k] \in DOMAIN es2
          /\ es2[q[k]] = [elms[q[k]] EXCEPT !.next = NextIn(q, k, left, Null)]
  <2> SUFFICES ASSUME NEW k \in 1 .. Len(q), q[k] \in left
               PROVE  /\ q[k] \in DOMAIN es2
                      /\ es2[q[k]] = [elms[q[k]] EXCEPT !.next = NextIn(q, k, left, Null)]
    OBVIOUS
  <2>1. k \in 0 .. Len(q) BY <1>3
  <2>2. Slist!Past(elms[q[k]].next, dels) = NextIn(q, k, left, Null) BY <1>3, <1>8, <2>1
  <2> HIDE DEF left
  <2> QED BY <1>9, <2>2
<1>11. \A k \in 1 .. Len(q) : q[k] \in left =>
          /\ q[k] \in DOMAIN es2
          /\ es2[q[k]].next = NextIn(q, k, left, Null)
          /\ es2[q[k]].data = elms[q[k]].data
          /\ es2[q[k]] \in [data : Ranked, next : Cell \cup {Null}]
  <2> SUFFICES ASSUME NEW k \in 1 .. Len(q), q[k] \in left
               PROVE  /\ es2[q[k]].next = NextIn(q, k, left, Null)
                      /\ es2[q[k]].data = elms[q[k]].data
                      /\ es2[q[k]] \in [data : Ranked, next : Cell \cup {Null}]
    BY <1>10
  <2>1. k \in Nat BY <1>3
  <2>2. NextIn(q, k, left, Null) \in Cell \cup {Null}
    <3>1. NextIn(q, k, left, Null) \in D \cup {Null} BY <1>3, <2>1, NextInIs
    <3> QED BY <1>4, <3>1
  <2> DEFINE nn == NextIn(q, k, left, Null)
  <2>3. es2[q[k]] = [elms[q[k]] EXCEPT !.next = nn] BY <1>10
  <2>4. elms[q[k]] \in [data : Ranked, next : Cell \cup {Null}] BY <1>3, <1>4
  <2> HIDE DEF nn
  <2> QED BY <2>2, <2>3, <2>4 DEF nn
<1>12. \A e \in left : \E k \in 1 .. Len(q) : e = q[k] BY <1>3 DEF ToSet
<1>13. DOMAIN es2 = left BY <1>9
<1>14. Follows(es2, q2, Null) /\ Start(q2, Null) = f2
  <2> HIDE DEF left
  <2>1. Follows(es2, q2, Null) /\ Start(q2, Null) = NextIn(q, 0, left, Null)
    BY <1>4, <1>11, FollowsAmong
  <2>2. 0 \in 0 .. Len(q) BY <1>3
  <2>3. first = After(q, 0, Null) BY <1>4, FollowsIs
  <2> QED BY <1>8, <1>9, <2>1, <2>2, <2>3
<1>15. q2 \in Seq(D) /\ ToSet(q2) = left
  <2>1. q2 \in Seq(D) /\ ToSet(q2) = ToSet(q) \cap left BY <1>3, AmongIs
  <2> QED BY <1>3, <2>1
<1>16. Len(q2) = length - Len(found)
  <2>1. \A x \in D : x \in left <=> x \notin dels OBVIOUS
  <2> HIDE DEF D, left
  <2>2. Len(q2) = Len(q) - Len(found) BY <1>3, <2>1, AmongCounts DEF found
  <2> QED BY <1>3, <2>2
<1>17. Elms(es2)
  <2>1. left \subseteq Cell BY <1>4
  <2> HIDE DEF left
  <2>2. \A e \in left : es2[e] \in [data : Ranked, next : Cell \cup {Null}] BY <1>11, <1>12
  <2>3. es2 = [e \in left |-> es2[e]] BY <1>9
  <2> QED BY <1>13, <2>1, <2>2, <2>3 DEF Elms
<1>18. TwoPaths(es2, q2, <<>>)
  <2>1. ToSet(<<>>) = {} BY NoCells
  <2>2. Follows(es2, <<>>, Null) BY NoPath
  <2> HIDE DEF q2, left
  <2> QED BY <1>13, <1>14, <1>15, <2>1, <2>2 DEF TwoPaths
<1>19. IsList(es2, f2, length', q2)
  <2> HIDE DEF q2
  <2> QED BY <1>9, <1>14, <1>16, <1>17, <1>18 DEF IsList
<1>20. ItemsOf(es2, q2) = Among(s, Other)
  <2>1. q2 \in Seq(left) BY <1>13, <1>14 DEF Follows
  <2>2. \A e \in left : es2[e].data = elms[e].data
    <3> HIDE DEF left
    <3> QED BY <1>11, <1>12
  <2>3. left \subseteq DOMAIN elms OBVIOUS
  <2> HIDE DEF left, q2
  <2>4. ItemsOf(es2, q2) = ItemsOf(elms, q2) BY <1>13, <2>1, <2>2, <2>3, ItemsSame
  <2>5. Among(Mapped(g, q), Other) = Mapped(g, Among(q, left))
    <3> HIDE DEF D
    <3>1. \A T, U : (\A x \in D : x \in U <=> g[x] \in T) => Among(Mapped(g, q), T) = Mapped(g, Among(q, U))
      BY <1>3, <1>5, AmongMapped
    <3> QED BY <1>7, <3>1
  <2> QED BY <1>1, <2>4, <2>5 DEF ItemsOf, g, q2
<1>21. sRet' = Among(s, Same)
  <2>1. Among(Mapped(g, q), Same) = Mapped(g, found)
    <3> HIDE DEF D
    <3>1. \A T, U : (\A x \in D : x \in U <=> g[x] \in T) => Among(Mapped(g, q), T) = Mapped(g, Among(q, U))
      BY <1>3, <1>5, AmongMapped
    <3> QED BY <1>6, <3>1 DEF found
  <2>2. found \in Seq(D) BY <1>3, AmongIs DEF found
  <2>3. \A k \in 1 .. Len(found) : g[found[k]] = elms[found[k]].data BY <1>5, <2>2
  <2>4. sRet' = Mapped(g, found) BY <1>9, <2>3 DEF Mapped
  <2> QED BY <1>1, <2>1, <2>4 DEF ItemsOf, g
<1>22. Holds(elms', first', length', Among(s, Other))
  <2> HIDE DEF q2
  <2>1. Holds(es2, f2, length', ItemsOf(es2, q2)) BY <1>19, Zenon DEF Holds
  <2> QED BY <1>20, <2>1 DEF es2, f2
<1>23. Slist!Contents' = Among(s, Other) BY <1>22, NextContents
<1>24. Slist!Ordered!DelMult(d)
  <2>1. \A S : Slist!Ordered!Among(s, S) = Among(s, S) BY SlistOps
  <2> QED BY <1>2, <1>21, <1>23, <2>1 DEF Slist!Ordered!DelMult, Same, Other
<1> QED BY <1>22, <1>24

-----------------------------------------------------------------------------
(* A place found by add_sorted has no greater item before it.               *)
LEMMA PlaceWas ==
    ASSUME NEW s \in Seq(Ranked), NEW d \in Ranked
    PROVE  /\ Place(s, d) \in 1 .. Len(s) + 1
           /\ \A k \in 1 .. Len(s) : k < Place(s, d) => Rank(s[k]) <= Rank(d)
           /\ Place(s, d) <= Len(s) => Rank(s[Place(s, d)]) > Rank(d)
<1> DEFINE R == {i \in 1 .. Len(s) : Rank(s[i]) > Rank(d)} \cup {Len(s) + 1}
           p == Min(R)
<1>1. Len(s) \in Nat /\ R \in SUBSET Nat /\ R \subseteq 1 .. Len(s) + 1 /\ R # {} OBVIOUS
<1>2. \A x \in Ranked : Rank(x) \in Int BY ListAssumption
<1>3. \A k \in 1 .. Len(s) : s[k] \in Ranked OBVIOUS
<1>4. \A k \in 1 .. Len(s) : k \notin R => Rank(s[k]) <= Rank(d)
  <2> SUFFICES ASSUME NEW k \in 1 .. Len(s), k \notin R PROVE Rank(s[k]) <= Rank(d) OBVIOUS
  <2>1. ~(Rank(s[k]) > Rank(d)) OBVIOUS
  <2>2. Rank(s[k]) \in Int /\ Rank(d) \in Int BY <1>2, <1>3
  <2> QED BY <2>1, <2>2
<1>5. \A k \in R : k <= Len(s) => Rank(s[k]) > Rank(d)
  <2> SUFFICES ASSUME NEW k \in R, k <= Len(s) PROVE Rank(s[k]) > Rank(d) OBVIOUS
  <2>1. k # Len(s) + 1 BY <1>1
  <2> QED BY <2>1
<1> HIDE DEF R
<1>6. p \in R /\ \A k \in R : p <= k BY <1>1, MinOf
<1> HIDE DEF p
<1>7. p \in 1 .. Len(s) + 1 BY <1>1, <1>6
<1>8. \A k \in 1 .. Len(s) : k < p => k \notin R
  <2> SUFFICES ASSUME NEW k \in 1 .. Len(s), k < p, k \in R PROVE FALSE OBVIOUS
  <2>1. p <= k BY <1>6
  <2> QED BY <1>1, <1>7, <2>1
<1>9. Place(s, d) = p BY DEF Place, p, R
<1> QED BY <1>4, <1>5, <1>6, <1>7, <1>8, <1>9

(* w lists 1 .. n in the order of their data in s, equals as they are.      *)
Stable(w, n, s) ==
    /\ w \in Seq(1 .. n) /\ Len(w) = n
    /\ \A k, m \in 1 .. n : w[k] = w[m] => k = m
    /\ \A k, m \in 1 .. n : k < m =>
         Rank(s[w[k]]) < Rank(s[w[m]]) \/ (Rank(s[w[k]]) = Rank(s[w[m]]) /\ w[k] < w[m])

LEMMA StableOne ==
    ASSUME NEW s
    PROVE  Stable(<<1>>, 1, s) /\ <<1>>[1] = 1
<1> DEFINE w == <<1>>
<1>1. w \in Seq(1 .. 1) /\ Len(w) = 1 /\ w[1] = 1 OBVIOUS
<1> HIDE DEF w
<1>2. \A k, m \in 1 .. 1 : k = m /\ ~(k < m) OBVIOUS
<1>3. Stable(w, 1, s) BY <1>1, <1>2 DEF Stable
<1> QED BY <1>1, <1>3 DEF w

LEMMA StableIn ==
    ASSUME NEW s \in Seq(Ranked), NEW n \in Nat, n + 1 \in 1 .. Len(s), NEW w, Stable(w, n, s),
           NEW p, p = Place(Mapped(s, w), s[n + 1])
    PROVE  Stable(InsertAt(w, p, n + 1), n + 1, s)
<1> DEFINE t == Mapped(s, w)
           N == n + 1
           d == s[N]
           S == 1 .. N
           v == InsertAt(w, p, N)
<1>1. /\ w \in Seq(1 .. n) /\ Len(w) = n
      /\ \A k, m \in 1 .. n : w[k] = w[m] => k = m
      /\ \A k, m \in 1 .. n : k < m =>
           Rank(s[w[k]]) < Rank(s[w[m]]) \/ (Rank(s[w[k]]) = Rank(s[w[m]]) /\ w[k] < w[m])
  BY DEF Stable
<1>2. \A k \in 1 .. n : /\ w[k] \in 1 .. n /\ w[k] < N /\ w[k] \in S /\ s[w[k]] \in Ranked
                        /\ w[k] \in Int
  BY <1>1
<1>3. t \in Seq(Ranked) /\ Len(t) = n /\ \A k \in 1 .. n : t[k] = s[w[k]]
  <2>1. t = [k \in 1 .. n |-> s[w[k]]] BY <1>1 DEF Mapped
  <2>2. t \in [1 .. n -> Ranked] BY <1>2, <2>1
  <2> HIDE DEF t
  <2> QED BY <2>1, <2>2, Listed
<1>4. d \in Ranked OBVIOUS
<1>5. \A x \in Ranked : Rank(x) \in Int BY ListAssumption
<1> HIDE DEF t, d
<1>6. /\ p \in 1 .. n + 1
      /\ \A k \in 1 .. n : k < p => Rank(t[k]) <= Rank(d)
      /\ p <= n => Rank(t[p]) > Rank(d)
  <2>1. p = Place(t, d) BY DEF t, d
  <2> QED BY <1>3, <1>4, <2>1, PlaceWas
<1>7. \A k \in 1 .. n : k >= p => Rank(t[k]) > Rank(d)
  <2> SUFFICES ASSUME NEW k \in 1 .. n, k >= p PROVE Rank(t[k]) > Rank(d) OBVIOUS
  <2>1. p <= n /\ p \in 1 .. n BY <1>6
  <2>2. CASE k = p BY <1>6, <2>1, <2>2
  <2>3. CASE k # p
    <3>1. p < k BY <1>6, <2>3
    <3>2. Rank(t[p]) <= Rank(t[k])
      <4>1. Rank(t[p]) < Rank(t[k]) \/ Rank(t[p]) = Rank(t[k])
        <5>1. Rank(s[w[p]]) < Rank(s[w[k]]) \/ Rank(s[w[p]]) = Rank(s[w[k]])
          BY <1>1, <2>1, <3>1
        <5>2. t[p] = s[w[p]] /\ t[k] = s[w[k]] BY <1>3, <2>1
        <5> QED BY <5>1, <5>2
      <4> DEFINE a == Rank(t[p])
                 b == Rank(t[k])
      <4>2. a \in Int /\ b \in Int BY <1>2, <1>3, <1>5, <2>1
      <4> HIDE DEF a, b
      <4>3. a <= b BY <4>1, <4>2 DEF a, b
      <4> QED BY <4>3 DEF a, b
    <3> DEFINE a == Rank(t[p])
               b == Rank(t[k])
               c == Rank(d)
    <3>3. a \in Int /\ b \in Int /\ c \in Int BY <1>2, <1>3, <1>4, <1>5, <2>1
    <3>4. a <= b /\ a > c BY <1>6, <2>1, <3>2
    <3> HIDE DEF a, b, c
    <3>5. b > c BY <3>3, <3>4
    <3> QED BY <3>5 DEF b, c
  <2> QED BY <2>2, <2>3
<1>8. v \in Seq(S) /\ Len(v) = n + 1 /\ v = Inset(w, p, N)
  <2>1. w \in Seq(S) /\ N \in S
    <3>1. 1 .. n \subseteq S /\ N \in S OBVIOUS
    <3> HIDE DEF S
    <3> QED BY <1>1, <3>1
  <2>2. p \in 1 .. Len(w) + 1 BY <1>1, <1>6
  <2> HIDE DEF S, N
  <2>3. \A A : w \in Seq(A) /\ N \in A => InsertAt(w, p, N) \in Seq(A) /\ Len(InsertAt(w, p, N)) = Len(w) + 1
                                          /\ InsertAt(w, p, N) = Inset(w, p, N)
    BY <2>2, InsertAtIs
  <2> QED BY <1>1, <2>1, <2>3
<1> DEFINE Old(k) == IF k < p THEN k ELSE k - 1
<1>9. \A k \in 1 .. n + 1 : k # p => v[k] = w[Old(k)] /\ Old(k) \in 1 .. n
  <2> SUFFICES ASSUME NEW k \in 1 .. n + 1, k # p PROVE v[k] = w[Old(k)] /\ Old(k) \in 1 .. n OBVIOUS
  <2> HIDE DEF v, N
  <2>1. v[k] = IF k < p THEN w[k] ELSE IF k = p THEN N ELSE w[k - 1] BY <1>1, <1>8 DEF Inset
  <2>2. Old(k) \in 1 .. n BY <1>6
  <2> QED BY <2>1, <2>2
<1>10. v[p] = N
  <2> HIDE DEF v, N
  <2>1. v[p] = IF p < p THEN w[p] ELSE IF p = p THEN N ELSE w[p - 1] BY <1>1, <1>6, <1>8 DEF Inset
  <2>2. ~(p < p) BY <1>6
  <2> QED BY <2>1, <2>2
<1> HIDE DEF v
<1>11. ASSUME NEW k \in 1 .. n + 1, NEW m \in 1 .. n + 1, v[k] = v[m] PROVE k = m
  <2>1. CASE k = p /\ m = p BY <2>1
  <2>2. CASE k = p /\ m # p
    <3>1. v[m] < N BY <1>2, <1>9, <2>2
    <3>2. v[m] = N BY <1>10, <1>11, <2>2
    <3> QED BY <3>1, <3>2
  <2>3. CASE k # p /\ m = p
    <3>1. v[k] < N BY <1>2, <1>9, <2>3
    <3>2. v[k] = N BY <1>10, <1>11, <2>3
    <3> QED BY <3>1, <3>2
  <2>4. CASE k # p /\ m # p
    <3>1. Old(k) \in 1 .. n /\ Old(m) \in 1 .. n /\ w[Old(k)] = w[Old(m)] BY <1>9, <1>11, <2>4
    <3>2. Old(k) = Old(m) BY <1>1, <3>1
    <3> QED BY <1>6, <2>4, <3>2
  <2> QED BY <2>1, <2>2, <2>3, <2>4
<1>12. ASSUME NEW k \in 1 .. n + 1, NEW m \in 1 .. n + 1, k < m
       PROVE  Rank(s[v[k]]) < Rank(s[v[m]]) \/ (Rank(s[v[k]]) = Rank(s[v[m]]) /\ v[k] < v[m])
  <2>1. CASE k # p /\ m # p
    <3>1. /\ Old(k) \in 1 .. n /\ Old(m) \in 1 .. n /\ v[k] = w[Old(k)] /\ v[m] = w[Old(m)]
      BY <1>9, <2>1
    <3>2. Old(k) < Old(m) BY <1>6, <1>12, <2>1
    <3> HIDE DEF Old
    <3> QED BY <1>1, <3>1, <3>2
  <2>2. CASE k = p
    <3>1. m # p /\ v[m] = w[Old(m)] /\ Old(m) \in 1 .. n /\ Old(m) >= p BY <1>6, <1>9, <1>12, <2>2
    <3> HIDE DEF Old
    <3>2. Rank(s[v[m]]) > Rank(d) BY <1>3, <1>7, <3>1
    <3>3. s[v[k]] = d BY <1>10, <2>2 DEF d
    <3>4. s[v[m]] \in Ranked BY <1>2, <3>1
    <3> DEFINE a == Rank(s[v[m]])
               b == Rank(d)
    <3>5. a \in Int /\ b \in Int /\ a > b BY <1>4, <1>5, <3>2, <3>4
    <3> HIDE DEF a, b
    <3>6. b < a BY <3>5
    <3> QED BY <3>3, <3>6 DEF a, b
  <2>3. CASE m = p
    <3>1. k # p /\ v[k] = w[Old(k)] /\ Old(k) \in 1 .. n /\ Old(k) < p BY <1>6, <1>9, <1>12, <2>3
    <3> HIDE DEF Old
    <3>2. Rank(s[v[k]]) <= Rank(d) BY <1>3, <1>6, <3>1
    <3>3. s[v[m]] = d /\ v[m] = N BY <1>10, <2>3 DEF d
    <3>4. s[v[k]] \in Ranked /\ v[k] < N BY <1>2, <3>1
    <3> DEFINE a == Rank(s[v[k]])
               b == Rank(d)
    <3>5. a \in Int /\ b \in Int /\ a <= b BY <1>4, <1>5, <3>2, <3>4
    <3> HIDE DEF a, b
    <3>6. a < b \/ a = b BY <3>5
    <3> QED BY <3>3, <3>4, <3>6 DEF a, b
  <2> QED BY <2>1, <2>2, <2>3
<1> QED BY <1>8, <1>11, <1>12 DEF Stable, v

-----------------------------------------------------------------------------
LEMMA OnwardsHead ==
    ASSUME NEW S, NEW q \in Seq(S), NEW n \in 1 .. Len(q)
    PROVE  /\ Onwards(q, n) \in Seq(S) /\ Onwards(q, n) # <<>>
           /\ Onwards(q, n)[1] = q[n]
           /\ RemoveAt(Onwards(q, n), 1) = Onwards(q, n + 1)
<1> DEFINE o == Onwards(q, n)
           u == Onwards(q, n + 1)
<1>1. Len(q) \in Nat /\ Len(q) + 1 - n \in Nat /\ Len(q) + 1 - (n + 1) \in Nat OBVIOUS
<1>2. /\ o = [m \in 1 .. Len(q) + 1 - n |-> q[n + m - 1]]
      /\ u = [m \in 1 .. Len(q) + 1 - (n + 1) |-> q[n + 1 + m - 1]]
  BY DEF Onwards
<1>3. \A m \in 1 .. Len(q) + 1 - n : q[n + m - 1] \in S OBVIOUS
<1>4. \A m \in 1 .. Len(q) + 1 - (n + 1) : q[n + 1 + m - 1] \in S OBVIOUS
<1> HIDE DEF o, u
<1>5. o \in Seq(S) /\ Len(o) = Len(q) + 1 - n
  <2> DEFINE l == Len(q) + 1 - n
  <2>1. l \in Nat /\ o \in [1 .. l -> S] BY <1>1, <1>2, <1>3
  <2> HIDE DEF l
  <2>2. o \in Seq(S) /\ Len(o) = l BY <2>1, Listed
  <2> QED BY <2>2 DEF l
<1>6. u \in Seq(S) /\ Len(u) = Len(q) + 1 - (n + 1)
  <2> DEFINE l == Len(q) + 1 - (n + 1)
  <2>1. l \in Nat /\ u \in [1 .. l -> S] BY <1>1, <1>2, <1>4
  <2> HIDE DEF l
  <2>2. u \in Seq(S) /\ Len(u) = l BY <2>1, Listed
  <2> QED BY <2>2 DEF l
<1>7. 1 \in 1 .. Len(o) /\ o # <<>> /\ o[1] = q[n]
  <2>1. 1 \in 1 .. Len(q) + 1 - n /\ n + 1 - 1 = n BY <1>1
  <2>2. o[1] = q[n] BY <1>2, <2>1
  <2> QED BY <1>5, <2>1, <2>2
<1>8. RemoveAt(o, 1) \in Seq(S) /\ Len(RemoveAt(o, 1)) = Len(o) - 1 /\ RemoveAt(o, 1) = Outset(o, 1)
  BY <1>5, <1>7, RemoveAtIs
<1>9. RemoveAt(o, 1) = u
  <2> DEFINE r == RemoveAt(o, 1)
  <2>1. Len(r) = Len(u) BY <1>1, <1>5, <1>6, <1>8
  <2>2. ASSUME NEW k \in 1 .. Len(r) PROVE r[k] = u[k]
    <3>1. k \in 1 .. Len(o) - 1 /\ ~(k < 1) BY <1>8
    <3>2. r[k] = o[k + 1] BY <1>8, <3>1 DEF Outset
    <3>3. /\ k + 1 \in 1 .. Len(q) + 1 - n /\ k \in 1 .. Len(q) + 1 - (n + 1)
          /\ n + (k + 1) - 1 = n + k /\ n + 1 + k - 1 = n + k
      BY <1>1, <1>5, <3>1
    <3>4. o[k + 1] = q[n + k] /\ u[k] = q[n + k] BY <1>2, <3>3
    <3> QED BY <3>2, <3>4
  <2> HIDE DEF r
  <2>3. r \in Seq(S) BY <1>8 DEF r
  <2> QED BY <1>6, <2>1, <2>2, <2>3, SameSeq DEF r
<1> QED BY <1>5, <1>7, <1>9 DEF o, u

(* The data of the elements q[w[1]], q[w[2]], ... are those of q.            *)
LEMMA MappedTwice ==
    ASSUME NEW es, NEW q \in Seq(DOMAIN es), NEW n \in 0 .. Len(q), NEW w \in Seq(1 .. n),
           NEW es2, DOMAIN es2 = DOMAIN es, \A e \in DOMAIN es : es2[e].data = es[e].data
    PROVE  /\ Mapped(q, w) \in Seq(DOMAIN es) /\ Len(Mapped(q, w)) = Len(w)
           /\ ItemsOf(es2, Mapped(q, w)) = Mapped(ItemsOf(es, q), w)
<1> DEFINE D == DOMAIN es
           S == 1 .. n
           v == Mapped(q, w)
           s == ItemsOf(es, q)
           t == ItemsOf(es2, v)
<1>1. /\ Len(w) \in Nat /\ \A k \in 1 .. Len(w) : w[k] \in 1 .. n /\ w[k] \in 1 .. Len(q)
      /\ \A k \in 1 .. Len(q) : q[k] \in D
  OBVIOUS
<1>2. v = [k \in 1 .. Len(w) |-> q[w[k]]] BY DEF Mapped
<1> HIDE DEF v, D
<1>3. v \in Seq(D) /\ Len(v) = Len(w)
  <2>1. v \in [1 .. Len(w) -> D] BY <1>1, <1>2
  <2> QED BY <1>1, <2>1, Listed
<1>4. t = [k \in 1 .. Len(w) |-> es2[q[w[k]]].data]
  <2>1. t = [k \in 1 .. Len(v) |-> DataAt(es2)[v[k]]] BY DEF ItemsOf, Mapped
  <2>2. \A k \in 1 .. Len(w) : DataAt(es2)[v[k]] = es2[q[w[k]]].data
    BY <1>1, <1>2 DEF DataAt, D
  <2> HIDE DEF t
  <2> QED BY <1>3, <2>1, <2>2
<1>5. \A k \in 1 .. Len(q) : s[k] = es[q[k]].data BY <1>1 DEF ItemsOf, Mapped, DataAt, D
<1>6. \A k \in 1 .. Len(w) : es2[q[w[k]]].data = s[w[k]] BY <1>1, <1>5 DEF D
<1> HIDE DEF t, s
<1>7. t = Mapped(s, w) BY <1>4, <1>6 DEF Mapped
<1> QED BY <1>3, <1>7 DEF v, s, t, D

(* bl_slist_sort once it has inserted n elements of q.                       *)
Inserting(l, es, q, w, n) ==
    /\ Stable(w, n, ItemsOf(es, q))
    /\ Elms(l[1]) /\ DOMAIN l[1] = DOMAIN es
    /\ \A e \in DOMAIN es : l[1][e].data = es[e].data
    /\ TwoPaths(l[1], Mapped(q, w), Onwards(q, n + 1))
    /\ l[2] = Start(Mapped(q, w), Null)
SortedTo(l, es, q, n) == \E w : Inserting(l, es, q, w, n)

LEMMA SortFirst ==
    ASSUME NEW es, NEW f, NEW n, NEW q, IsList(es, f, n, q), q # <<>>
    PROVE  SortedTo(<<[es EXCEPT ![f].next = Null], f>>, es, q, 1)
<1> DEFINE es2 == [es EXCEPT ![f].next = Null]
           D == DOMAIN es
           w == <<1>>
           v == Mapped(q, w)
           o == Onwards(q, 2)
<1>1. /\ q \in Seq(D) /\ Len(q) \in Nat /\ D = ToSet(q) /\ DOMAIN q = 1 .. Len(q)
      /\ \A k, m \in 1 .. Len(q) : q[k] = q[m] => k = m
      /\ \A k \in 1 .. Len(q) : q[k] \in D
      /\ f # Null => f = q[1] /\ 1 \in 1 .. Len(q)
      /\ f = Null <=> q = <<>>
  BY IsListRead
<1>2. f = q[1] /\ 1 \in 1 .. Len(q) /\ f \in D BY <1>1
<1>3. D \subseteq Cell /\ \A e \in D : es[e] \in [data : Ranked, next : Cell \cup {Null}]
  BY DEF IsList, Elms
<1>4. es = [e \in D |-> es[e]] BY DEF IsList, Elms
<1>5. /\ DOMAIN es2 = D /\ es2[f].next = Null /\ es2[f].data = es[f].data
      /\ es2[f] \in [data : Ranked, next : Cell \cup {Null}]
      /\ \A e \in D : e # f => es2[e] = es[e]
      /\ es2 = [e \in D |-> es2[e]]
  <2>1. es2[f] = [es[f] EXCEPT !.next = Null] BY <1>2, <1>4
  <2>2. es[f] \in [data : Ranked, next : Cell \cup {Null}] BY <1>2, <1>3
  <2>3. es2[f].next = Null /\ es2[f].data = es[f].data /\ es2[f] \in [data : Ranked, next : Cell \cup {Null}]
    <3> HIDE DEF es2
    <3> QED BY <2>1, <2>2
  <2> QED BY <1>4, <2>3
<1> HIDE DEF es2
<1>6. Elms(es2)
  <2>1. \A e \in D : es2[e] \in [data : Ranked, next : Cell \cup {Null}] BY <1>3, <1>5
  <2> QED BY <1>3, <1>5, <2>1 DEF Elms
<1>7. w[1] = 1 /\ Len(w) = 1 /\ w \in Seq(1 .. 1) /\ Stable(w, 1, ItemsOf(es, q)) BY StableOne
<1> HIDE DEF w
<1>8. v = <<f>> /\ v \in Seq(D) /\ Len(v) = 1 /\ v[1] = f
  <2>1. v = [k \in 1 .. 1 |-> q[w[k]]] BY <1>7 DEF Mapped
  <2>2. \A k \in 1 .. 1 : q[w[k]] = f BY <1>2, <1>7
  <2> HIDE DEF v
  <2>3. v = [k \in 1 .. 1 |-> f] BY <2>1, <2>2
  <2> QED BY <1>2, <2>3
<1> HIDE DEF v
<1>9. Follows(es2, v, Null)
  <2>1. \A k, m \in 1 .. Len(v) : v[k] = v[m] => k = m BY <1>8
  <2>2. After(v, 1, Null) = Null BY <1>8 DEF After
  <2>3. \A k \in 1 .. Len(v) : es2[v[k]].next = After(v, k, Null) BY <1>5, <1>8, <2>2
  <2> QED BY <1>5, <1>8, <2>1, <2>3 DEF Follows
<1>10. o = RemoveAt(q, 1)
  <2>1. Onwards(q, 1) = q BY <1>1, OnwardsIs
  <2>2. RemoveAt(Onwards(q, 1), 1) = Onwards(q, 1 + 1) BY <1>1, <1>2, OnwardsHead
  <2>3. 1 + 1 = 2 OBVIOUS
  <2> QED BY <2>1, <2>2, <2>3
<1> HIDE DEF o
<1>11. Follows(es2, o, Null) /\ ToSet(o) = ToSet(q) \ {q[1]}
  <2>1. Follows(es, q, Null) BY DEF IsList, TwoPaths
  <2>2. \A k \in 1 .. Len(q) : k # 1 => q[k] \in DOMAIN es2 /\ q[k] # f /\ es2[q[k]].next = es[q[k]].next
    BY <1>1, <1>2, <1>5
  <2>3. 1 \in 1 .. Len(q) BY <1>2
  <2> QED BY <1>10, <2>1, <2>2, <2>3, FollowsOut
<1>12. ToSet(v) = {f}
  <2>1. DOMAIN v = 1 .. 1 BY <1>8
  <2> QED BY <1>8, <2>1 DEF ToSet
<1>13. TwoPaths(es2, v, o)
  <2>1. DOMAIN es2 = ToSet(v) \cup ToSet(o) /\ ToSet(v) \cap ToSet(o) = {}
    BY <1>1, <1>2, <1>5, <1>11, <1>12
  <2> QED BY <1>9, <1>11, <2>1 DEF TwoPaths
<1>14. f = Start(v, Null) BY <1>8 DEF Start
<1>15. \A e \in D : es2[e].data = es[e].data BY <1>5
<1> DEFINE l == <<es2, f>>
<1>16. l[1] = es2 /\ l[2] = f OBVIOUS
<1>17. 1 + 1 = 2 OBVIOUS
<1> HIDE DEF l
<1>18. Inserting(l, es, q, w, 1)
  BY <1>5, <1>6, <1>7, <1>13, <1>14, <1>15, <1>16, <1>17 DEF Inserting, v, o
<1>19. SortedTo(l, es, q, 1) BY <1>18, Zenon DEF SortedTo
<1> QED BY <1>19 DEF l, es2

LEMMA SortNext ==
    ASSUME NEW es, NEW q \in Seq(DOMAIN es), ItemsOf(es, q) \in Seq(Ranked), Len(ItemsOf(es, q)) = Len(q),
           NEW n \in Nat, n + 1 \in 1 .. Len(q), NEW l, SortedTo(l, es, q, n),
           NEW l2, l2 = Slist!Inserted(l[1], l[2], q[n + 1])
    PROVE  SortedTo(l2, es, q, n + 1)
<1>1. PICK w : Inserting(l, es, q, w, n) BY Zenon DEF SortedTo
<1> DEFINE D == DOMAIN es
           s == ItemsOf(es, q)
           v == Mapped(q, w)
           o == Onwards(q, n + 1)
           es1 == l[1]
           es2 == l2[1]
           N == n + 1
           S == 1 .. N
           p == Place(Mapped(s, w), s[N])
           w2 == InsertAt(w, p, N)
<1>2. /\ Stable(w, n, s) /\ w \in Seq(1 .. n) /\ Len(w) = n
      /\ Elms(es1) /\ DOMAIN es1 = D
      /\ \A e \in D : es1[e].data = es[e].data
      /\ TwoPaths(es1, v, o)
      /\ l[2] = Start(v, Null)
  BY <1>1 DEF Inserting, Stable
<1>3. n \in 0 .. Len(q) /\ N \in 1 .. Len(q) OBVIOUS
<1>4. /\ o # <<>> /\ o[1] = q[N] /\ RemoveAt(o, 1) = Onwards(q, N + 1)
  BY <1>3, OnwardsHead
<1>5. v \in Seq(D) /\ Len(v) = n /\ ItemsOf(es1, v) = Mapped(s, w)
  <2>1. w \in Seq(1 .. n) BY <1>2
  <2> HIDE DEF es1
  <2> QED BY <1>2, <1>3, <2>1, MappedTwice
<1>6. q[N] \in D BY <1>3
<1>7. s[N] = es[q[N]].data
  BY <1>3, <1>6 DEF ItemsOf, Mapped, DataAt
<1>8. es1[o[1]].data = s[N] BY <1>2, <1>4, <1>6, <1>7
<1> HIDE DEF D, s, v, o, es1, es2, N, p
<1>9. /\ Elms(es2) /\ DOMAIN es2 = DOMAIN es1
      /\ \A e \in DOMAIN es1 : es2[e].data = es1[e].data
      /\ p \in 1 .. Len(v) + 1
      /\ TwoPaths(es2, InsertAt(v, p, o[1]), RemoveAt(o, 1))
      /\ l2[2] = Start(InsertAt(v, p, o[1]), Null)
  <2>1. p = Place(ItemsOf(es1, v), es1[o[1]].data) BY <1>5, <1>8 DEF p
  <2>2. l2 = Slist!Inserted(es1, Start(v, Null), o[1]) BY <1>2, <1>4 DEF es1, N
  <2>3. /\ Elms(l2[1]) /\ DOMAIN l2[1] = DOMAIN es1
        /\ \A e \in DOMAIN es1 : l2[1][e].data = es1[e].data
        /\ p \in 1 .. Len(v) + 1
        /\ TwoPaths(l2[1], InsertAt(v, p, o[1]), RemoveAt(o, 1))
        /\ l2[2] = Start(InsertAt(v, p, o[1]), Null)
    BY <1>2, <1>4, <2>1, <2>2, InsertedIs
  <2> QED BY <2>3 DEF es2
<1>10. Stable(w2, N, s)
  <2>1. s \in Seq(Ranked) /\ n + 1 \in 1 .. Len(s) /\ p = Place(Mapped(s, w), s[n + 1])
    BY DEF s, p, N
  <2>2. Stable(InsertAt(w, p, n + 1), n + 1, s) BY <1>2, <2>1, StableIn
  <2> QED BY <2>2 DEF N
<1>11. Mapped(q, w2) = InsertAt(v, p, q[N])
  <2>1. w \in Seq(S) /\ N \in S
    <3>1. 1 .. n \subseteq S /\ N \in S BY DEF N
    <3> HIDE DEF S
    <3> QED BY <1>2, <3>1
  <2> DEFINE g == [k \in S |-> q[k]]
  <2>2. g \in [S -> D]
    <3>1. \A k \in S : k \in 1 .. Len(q) BY <1>3
    <3>2. \A k \in 1 .. Len(q) : q[k] \in D BY DEF D
    <3> QED BY <3>1, <3>2
  <2>3. \A k \in S : g[k] = q[k] OBVIOUS
  <2> HIDE DEF S, g
  <2>4. p \in 1 .. Len(w) + 1 BY <1>2, <1>5, <1>9
  <2>5. Mapped(g, w2) = InsertAt(Mapped(g, w), p, g[N]) BY <2>1, <2>2, <2>4, MappedIn
  <2>6. w2 \in Seq(S) BY <2>1, <2>4, InsertAtIs
  <2>7. \A u \in Seq(S) : Mapped(g, u) = Mapped(q, u)
    <3> SUFFICES ASSUME NEW u \in Seq(S) PROVE Mapped(g, u) = Mapped(q, u) OBVIOUS
    <3>1. \A k \in 1 .. Len(u) : u[k] \in S OBVIOUS
    <3>2. \A k \in 1 .. Len(u) : g[u[k]] = q[u[k]] BY <2>3, <3>1
    <3> QED BY <3>2 DEF Mapped
  <2> HIDE DEF w2
  <2>8. Mapped(g, w) = Mapped(q, w) /\ Mapped(g, w2) = Mapped(q, w2) BY <2>1, <2>6, <2>7
  <2> QED BY <2>1, <2>3, <2>5, <2>8 DEF v
<1> HIDE DEF w2
<1>12. Inserting(l2, es, q, w2, N)
  BY <1>2, <1>4, <1>9, <1>10, <1>11 DEF Inserting, es2, s, D
<1>13. SortedTo(l2, es, q, N) BY <1>12, Zenon DEF SortedTo
<1> QED BY <1>13 DEF N

LEMMA SortLast ==
    ASSUME NEW es, NEW f, NEW n, NEW q, IsList(es, f, n, q), NEW l, SortedTo(l, es, q, n)
    PROVE  \E w : Stable(w, n, ItemsOf(es, q)) /\ Holds(l[1], l[2], n, Mapped(ItemsOf(es, q), w))
<1>1. PICK w : Inserting(l, es, q, w, n) BY Zenon DEF SortedTo
<1> DEFINE D == DOMAIN es
           s == ItemsOf(es, q)
           v == Mapped(q, w)
           es1 == l[1]
<1>2. /\ Stable(w, n, s) /\ w \in Seq(1 .. n) /\ Len(w) = n
      /\ Elms(es1) /\ DOMAIN es1 = D
      /\ \A e \in D : es1[e].data = es[e].data
      /\ TwoPaths(es1, v, Onwards(q, n + 1))
      /\ l[2] = Start(v, Null)
  BY <1>1 DEF Inserting, Stable
<1>3. q \in Seq(D) /\ Len(q) \in Nat /\ n = Len(q) BY IsListRead
<1>4. n \in 0 .. Len(q) BY <1>3
<1>5. v \in Seq(D) /\ Len(v) = n /\ ItemsOf(es1, v) = Mapped(s, w)
  <2>1. w \in Seq(1 .. n) BY <1>2
  <2> HIDE DEF es1
  <2> QED BY <1>2, <1>3, <1>4, <2>1, MappedTwice
<1>6. Onwards(q, n + 1) = <<>> BY <1>3, OnwardsIs
<1> HIDE DEF v, es1, s
<1>7. IsList(es1, l[2], n, v) BY <1>2, <1>5, <1>6 DEF IsList
<1>8. Holds(es1, l[2], n, Mapped(s, w)) BY <1>5, <1>7, Zenon DEF Holds
<1> QED BY <1>2, <1>8 DEF es1, s

-----------------------------------------------------------------------------
(* bl_slist_sort, as a function of the elements inserted.                    *)
SortBody(t, q) ==
    [n \in 1 .. Len(q) |->
       IF n = 1 THEN <<[elms EXCEPT ![first].next = Null], first>>
       ELSE Slist!Inserted(t[n - 1][1], t[n - 1][2], q[n])]
Sorts(t, q) == t = SortBody(t, q)

LEMMA SortGrows ==
    ASSUME NEW q, IsList(elms, first, length, q), q # <<>>, NEW t, Sorts(t, q)
    PROVE  \A n \in 1 .. Len(q) : SortedTo(t[n], elms, q, n)
<1> DEFINE N == Len(q)
           Us == {n \in Nat : n + 1 <= N => SortedTo(t[n + 1], elms, q, n + 1)}
<1>1. /\ q \in Seq(DOMAIN elms) /\ N \in Nat /\ 1 \in 1 .. N
      /\ ItemsOf(elms, q) \in Seq(Ranked) /\ Len(ItemsOf(elms, q)) = Len(q)
  BY IsListRead
<1>2. /\ 1 \in 1 .. N => t[1] = <<[elms EXCEPT ![first].next = Null], first>>
      /\ \A n \in 1 .. N : n # 1 => t[n] = Slist!Inserted(t[n - 1][1], t[n - 1][2], q[n])
  <2> DEFINE b == SortBody(t, q)
  <2>1. /\ 1 \in 1 .. N => b[1] = <<[elms EXCEPT ![first].next = Null], first>>
        /\ \A n \in 1 .. N : n # 1 => b[n] = Slist!Inserted(t[n - 1][1], t[n - 1][2], q[n])
    BY DEF SortBody
  <2>2. t = b BY DEF Sorts
  <2> HIDE DEF b
  <2> QED BY <2>1, <2>2
<1>3. 0 \in Us
  <2>1. SortedTo(<<[elms EXCEPT ![first].next = Null], first>>, elms, q, 1) BY SortFirst
  <2>3. SortedTo(t[1], elms, q, 1) BY <1>1, <1>2, <2>1
  <2>2. 0 + 1 = 1 OBVIOUS
  <2> QED BY <2>3, <2>2
<1>4. ASSUME NEW n \in Us PROVE n + 1 \in Us
  <2>1. n \in Nat /\ n + 1 \in Nat /\ (n + 1 <= N => SortedTo(t[n + 1], elms, q, n + 1)) OBVIOUS
  <2> HIDE DEF Us
  <2>2. ASSUME (n + 1) + 1 <= N PROVE SortedTo(t[(n + 1) + 1], elms, q, (n + 1) + 1)
    <3> DEFINE k == n + 1
    <3>1. /\ k \in Nat /\ k + 1 \in 1 .. N /\ k + 1 # 1 /\ (k + 1) - 1 = k /\ n + 1 <= N
      BY <1>1, <2>1, <2>2
    <3>2. SortedTo(t[k], elms, q, k) BY <2>1, <3>1
    <3> HIDE DEF k
    <3>3. t[k + 1] = Slist!Inserted(t[k][1], t[k][2], q[k + 1]) BY <1>2, <3>1
    <3>4. SortedTo(t[k + 1], elms, q, k + 1) BY <1>1, <3>1, <3>2, <3>3, SortNext
    <3> QED BY <3>4 DEF k
  <2> QED BY <2>1, <2>2 DEF Us
<1> HIDE DEF Us
<1>5. Us \in SUBSET Nat BY DEF Us
<1>6. Us = Nat BY <1>3, <1>4, <1>5, Induct
<1>7. ASSUME NEW n \in 1 .. N PROVE SortedTo(t[n], elms, q, n)
  <2> DEFINE k == n - 1
  <2>1. k \in Nat /\ k + 1 = n /\ n <= N BY <1>1
  <2> HIDE DEF k
  <2>2. k \in Us BY <1>6, <2>1
  <2>3. k + 1 <= N => SortedTo(t[k + 1], elms, q, k + 1) BY <2>2 DEF Us
  <2> QED BY <2>1, <2>3
<1> QED BY <1>7

(* What bl_slist_sort may have got to.                                       *)
Halves(es) == [DOMAIN es -> [data : Ranked, next : Cell \cup {Null}]] \X (Cell \cup {Null})

LEMMA SortedIn ==
    ASSUME NEW es, NEW q, q # <<>>, NEW l, NEW n, n \in 1 .. Len(q), q \in Seq(DOMAIN es), n \in Nat,
           SortedTo(l, es, q, n), l = <<l[1], l[2]>>
    PROVE  l \in Halves(es)
<1>1. PICK w : Inserting(l, es, q, w, n) BY Zenon DEF SortedTo
<1>2. /\ w \in Seq(1 .. n) /\ Len(w) = n /\ DOMAIN l[1] = DOMAIN es
      /\ DOMAIN l[1] \subseteq Cell
      /\ l[1] \in [DOMAIN l[1] -> [data : Ranked, next : Cell \cup {Null}]]
      /\ l[2] = Start(Mapped(q, w), Null)
  BY <1>1 DEF Inserting, Stable, Elms
<1>3. Start(Mapped(q, w), Null) \in Cell \cup {Null}
  <2>1. Mapped(q, w) = [k \in 1 .. n |-> q[w[k]]] BY <1>2 DEF Mapped
  <2>2. 1 \in 1 .. n /\ w[1] \in 1 .. n BY <1>2
  <2>3. w[1] \in 1 .. Len(q) BY <2>2
  <2>4. q[w[1]] \in DOMAIN es BY <2>3
  <2>5. Mapped(q, w)[1] \in Cell BY <1>2, <2>1, <2>2, <2>4
  <2> HIDE DEF Mapped
  <2> QED BY <2>5 DEF Start
<1> QED BY <1>2, <1>3 DEF Halves

LEMMA InsertedPair ==
    ASSUME NEW es, NEW f, NEW c, NEW l, l = Slist!Inserted(es, f, c)
    PROVE  l = <<l[1], l[2]>>
<1> DEFINE W == Slist!Walk(es, f, Null)
           B(i) == i = Len(W) \/ Rank(es[c].data) < Rank(es[W[i + 1]].data)
           before == W[Slist!Min({i \in 1 .. Len(W) : B(i)})]
           C == f = Null \/ Rank(es[c].data) < Rank(es[f].data)
           a == [es EXCEPT ![c].next = f]
           b == [es EXCEPT ![c].next = es[before].next, ![before].next = c]
<1>1. l = IF C THEN <<a, c>> ELSE <<b, f>> BY Zenon DEF Slist!Inserted
<1> HIDE DEF C, a, b
<1> QED BY <1>1

LEMMA SortExists ==
    ASSUME NEW q, IsList(elms, first, length, q), q # <<>>
    PROVE  \E t : Sorts(t, q)
<1> DEFINE A == Halves(elms)
           N == Len(q)
           z == <<[elms EXCEPT ![first].next = Null], first>>
           Put(l, n) == Slist!Inserted(l[1], l[2], q[n])
           step == [p \in Nat \X A |->
                      IF Put(p[2], p[1] + 2) \in A THEN Put(p[2], p[1] + 2) ELSE p[2]]
<1>1. /\ q \in Seq(DOMAIN elms) /\ N \in Nat /\ 1 \in 1 .. N
      /\ ItemsOf(elms, q) \in Seq(Ranked) /\ Len(ItemsOf(elms, q)) = Len(q)
  BY IsListRead
<1>2. SortedTo(z, elms, q, 1) BY SortFirst
<1>3. z \in A
  <2>1. z = <<z[1], z[2]>> /\ 1 \in Nat OBVIOUS
  <2> HIDE DEF z, A
  <2> QED BY <1>1, <1>2, <2>1, SortedIn DEF A
<1>5. step \in [Nat \X A -> A] OBVIOUS
<1> HIDE DEF A, z, step
<1>6. PICK g : Grows(g, A, z, step) BY <1>3, <1>5, Recursion
<1>7. g \in [Nat -> A] /\ g[0] = z /\ \A n \in Nat : g[n + 1] = step[<<n, g[n]>>]
  BY <1>6 DEF Grows
<1>8. \A n \in Nat : g[n + 1] = IF Put(g[n], n + 2) \in A THEN Put(g[n], n + 2) ELSE g[n]
  <2> SUFFICES ASSUME NEW n \in Nat
               PROVE  g[n + 1] = IF Put(g[n], n + 2) \in A THEN Put(g[n], n + 2) ELSE g[n]
    OBVIOUS
  <2>1. g[n] \in A /\ g[n + 1] = step[<<n, g[n]>>] BY <1>7
  <2> HIDE DEF Put
  <2>2. <<n, g[n]>> \in Nat \X A /\ <<n, g[n]>>[1] = n /\ <<n, g[n]>>[2] = g[n] BY <2>1
  <2> QED BY <2>1, <2>2 DEF step
(* Every step but the last does insert.                                     *)
<1> DEFINE Us == {n \in Nat : n + 1 <= N => SortedTo(g[n], elms, q, n + 1)}
<1>9. ASSUME NEW n \in Nat, n + 2 <= N, SortedTo(g[n], elms, q, n + 1)
      PROVE  g[n + 1] = Put(g[n], n + 2) /\ SortedTo(g[n + 1], elms, q, n + 2)
  <2> DEFINE k == n + 1
             l2 == Put(g[n], n + 2)
  <2>1. /\ k \in Nat /\ k + 1 \in 1 .. N /\ k + 1 = n + 2 /\ n + 2 \in 1 .. N /\ n + 2 \in Nat
    BY <1>1, <1>9
  <2>2. l2 = Slist!Inserted(g[n][1], g[n][2], q[k + 1]) BY <2>1
  <2>3. SortedTo(g[n], elms, q, k) BY <1>9
  <2> HIDE DEF k, l2
  <2>4. SortedTo(l2, elms, q, k + 1) BY <1>1, <2>1, <2>2, <2>3, SortNext
  <2>5. l2 = <<l2[1], l2[2]>> BY <2>2, InsertedPair
  <2>6. l2 \in A BY <1>1, <2>1, <2>4, <2>5, SortedIn DEF A
  <2>7. g[n + 1] = l2 BY <1>8, <2>6 DEF l2
  <2> QED BY <2>1, <2>4, <2>7 DEF l2
<1>10. 0 \in Us
  <2>1. 0 + 1 = 1 OBVIOUS
  <2> QED BY <1>2, <1>7, <2>1
<1>11. ASSUME NEW n \in Us PROVE n + 1 \in Us
  <2>1. n \in Nat /\ n + 1 \in Nat /\ (n + 1 <= N => SortedTo(g[n], elms, q, n + 1)) OBVIOUS
  <2> HIDE DEF Us
  <2>2. ASSUME (n + 1) + 1 <= N PROVE SortedTo(g[n + 1], elms, q, (n + 1) + 1)
    <3>1. n + 2 <= N /\ n + 1 <= N /\ (n + 1) + 1 = n + 2 BY <1>1, <2>1, <2>2
    <3>2. SortedTo(g[n + 1], elms, q, n + 2) BY <1>9, <2>1, <3>1
    <3> QED BY <3>1, <3>2
  <2> QED BY <2>1, <2>2 DEF Us
<1> HIDE DEF Us
<1>12. Us \in SUBSET Nat BY DEF Us
<1>13. Us = Nat BY <1>10, <1>11, <1>12, Induct
<1>14. ASSUME NEW n \in Nat, n + 2 <= N PROVE g[n + 1] = Put(g[n], n + 2)
  <2>1. n + 1 <= N BY <1>1, <1>14
  <2>2. SortedTo(g[n], elms, q, n + 1)
    <3>1. n \in Us BY <1>13
    <3> QED BY <2>1, <3>1 DEF Us
  <2> HIDE DEF Put
  <2> QED BY <1>9, <1>14, <2>2
<1> DEFINE t == [n \in 1 .. N |-> g[n - 1]]
<1>15. ASSUME NEW n \in 1 .. N PROVE t[n] = SortBody(t, q)[n]
  <2>1. t[n] = g[n - 1] OBVIOUS
  <2>2. CASE n = 1
    <3>1. n - 1 = 0 BY <2>2
    <3>2. SortBody(t, q)[n] = z
      <4> HIDE DEF t
      <4> QED BY <2>2 DEF SortBody, z
    <3> QED BY <1>7, <2>1, <3>1, <3>2
  <2>3. CASE n # 1
    <3> DEFINE k == n - 2
    <3>1. k \in Nat /\ k + 2 = n /\ k + 2 <= N /\ n - 1 = k + 1 /\ n - 1 \in 1 .. N /\ (n - 1) - 1 = k
      BY <1>1, <2>3
    <3>2. t[n - 1] = g[k] BY <3>1
    <3> HIDE DEF k
    <3>3. g[k + 1] = Slist!Inserted(g[k][1], g[k][2], q[k + 2]) BY <1>14, <3>1
    <3>4. SortBody(t, q)[n] = Slist!Inserted(t[n - 1][1], t[n - 1][2], q[n])
      <4> HIDE DEF t
      <4> QED BY <2>3 DEF SortBody
    <3> HIDE DEF t
    <3> QED BY <2>1, <3>1, <3>2, <3>3, <3>4
  <2> QED BY <2>2, <2>3
<1>16. t = SortBody(t, q)
  <2>1. t = [n \in 1 .. N |-> t[n]] OBVIOUS
  <2> HIDE DEF t
  <2>2. SortBody(t, q) = [n \in 1 .. N |-> SortBody(t, q)[n]] BY DEF SortBody
  <2> QED BY <1>15, <2>1, <2>2
<1>17. Sorts(t, q) BY <1>16, Zenon DEF Sorts
<1> QED BY <1>17, Zenon

(* bl_slist_sort.                                                            *)
LEMMA SortResult ==
    ASSUME NEW s, Holds(elms, first, length, s), Slist!Sort
    PROVE  \E w : Stable(w, Len(s), s) /\ Holds(elms', first', length', Mapped(s, w))
<1>1. PICK q : IsList(elms, first, length, q) /\ s = ItemsOf(elms, q) BY Zenon DEF Holds
<1>2. /\ Slist!Chain = q
      /\ first = Null <=> q = <<>>
      /\ length = Len(q) /\ Len(s) = Len(q)
  <2>1. Slist!Chain = q BY <1>1, SlistReads
  <2>2. first = Null <=> q = <<>> BY <1>1, IsListRead
  <2>3. length = Len(q) /\ Len(s) = Len(q) BY <1>1, IsListRead
  <2> QED BY <2>1, <2>2, <2>3
<1> DEFINE t == CHOOSE u : Sorts(u, q)
           sorted == IF first = Null THEN <<elms, Null>> ELSE t[Len(q)]
<1>3. elms' = sorted[1] /\ first' = sorted[2] /\ length' = length
  <2> DEFINE W == Slist!Chain
             V(c) == CHOOSE u : u = [n \in 1 .. Len(c) |->
                       IF n = 1 THEN <<[elms EXCEPT ![first].next = Null], first>>
                       ELSE LET l == u[n - 1] IN Slist!Inserted(l[1], l[2], c[n])]
             r == IF first = Null THEN <<elms, Null>> ELSE V(W)[Len(W)]
  <2>1. elms' = r[1] /\ first' = r[2] /\ length' = length BY Zenon DEF Slist!Sort
  <2>2. V(q) = t BY DEF Sorts, SortBody
  <2>3. W = q BY <1>2
  <2> HIDE DEF W, V
  <2>4. r = sorted
    <3> HIDE DEF t
    <3> QED BY <2>2, <2>3
  <2> HIDE DEF r, sorted
  <2> QED BY <2>1, <2>4
<1> HIDE DEF t
<1>4. CASE first = Null
  <2> DEFINE w == <<>>
  <2>1. q = <<>> /\ Len(s) = 0 BY <1>2, <1>4
  <2>2. w \in Seq(1 .. 0) /\ Len(w) = 0 OBVIOUS
  <2>3. 1 .. 0 = {} OBVIOUS
  <2> HIDE DEF w
  <2>4. Stable(w, 0, s) BY <2>2, <2>3 DEF Stable
  <2>5. Mapped(s, w) = s
    <3>1. s \in Seq(Ranked) BY <1>1, IsListRead
    <3>2. Mapped(s, w) = [k \in 1 .. 0 |-> s[w[k]]] BY <2>2 DEF Mapped
    <3> QED BY <2>1, <2>3, <3>1, <3>2
  <2>6. elms' = elms /\ first' = first /\ length' = length BY <1>3, <1>4
  <2>7. Holds(elms', first', length', Mapped(s, w)) BY <2>5, <2>6
  <2> QED BY <2>1, <2>4, <2>7
<1>5. CASE first # Null
  <2>1. q # <<>> BY <1>2, <1>5
  <2>2. Sorts(t, q)
    <3>1. \E u : Sorts(u, q) BY <1>1, <2>1, SortExists
    <3> QED BY <3>1, Zenon DEF t
  <2>3. Len(q) \in 1 .. Len(q) BY <1>1, <1>5, IsListRead
  <2>4. SortedTo(t[Len(q)], elms, q, Len(q)) BY <1>1, <2>1, <2>2, <2>3, SortGrows
  <2>5. sorted = t[Len(q)] BY <1>5
  <2> HIDE DEF sorted
  <2>6. \E w : Stable(w, length, s) /\ Holds(sorted[1], sorted[2], length, Mapped(s, w))
    BY <1>1, <1>2, <2>4, <2>5, SortLast
  <2> QED BY <1>2, <1>3, <2>6
<1> QED BY <1>4, <1>5

LEMMA SortIs ==
    ASSUME NEW s, Holds(elms, first, length, s), Slist!Sort
    PROVE  (\E r : Holds(elms', first', length', r)) /\ Slist!Ordered!Sort
<1>1. PICK w : Stable(w, Len(s), s) /\ Holds(elms', first', length', Mapped(s, w)) BY SortResult
<1> DEFINE n == Len(s)
           r == Mapped(s, w)
<1>2. Slist!Contents' = r BY <1>1, NextContents
<1>3. Slist!Contents = s
  <2>1. PICK q : IsList(elms, first, length, q) /\ s = ItemsOf(elms, q) BY Zenon DEF Holds
  <2> QED BY <2>1, SlistReads
<1>4. /\ w \in Seq(1 .. n) /\ Len(w) = n
      /\ \A k, m \in 1 .. n : w[k] = w[m] => k = m
      /\ \A k, m \in 1 .. n : k < m =>
           Rank(s[w[k]]) < Rank(s[w[m]]) \/ (Rank(s[w[k]]) = Rank(s[w[m]]) /\ w[k] < w[m])
  BY <1>1 DEF Stable
<1>5. w \in [1 .. n -> 1 .. n] /\ DOMAIN w = 1 .. n BY <1>4
<1>6. IsInjective(w) BY <1>4, <1>5, Zenon DEF IsInjective
<1>7. Slist!Ordered!IsInjective(w) BY <1>6, SlistOps
<1>8. r = [k \in 1 .. n |-> s[w[k]]] BY <1>4 DEF Mapped
<1>9. sRet' = <<>> BY DEF Slist!Sort
<1> HIDE DEF r
<1>10. \A k \in 1 .. n : r[k] = s[w[k]] BY <1>8
<1>11. w \in {p \in [1 .. Len(Slist!Contents) -> 1 .. Len(Slist!Contents)] :
                Slist!Ordered!IsInjective(p)}
  BY <1>3, <1>5, <1>7
<1>12. Slist!Contents' = [k \in 1 .. Len(Slist!Contents) |-> Slist!Contents[w[k]]]
  BY <1>2, <1>3, <1>8
<1>13. \A k, m \in 1 .. Len(Slist!Contents) : k < m =>
          \/ Rank((Slist!Contents')[k]) < Rank((Slist!Contents')[m])
          \/ Rank((Slist!Contents')[k]) = Rank((Slist!Contents')[m]) /\ w[k] < w[m]
  BY <1>2, <1>3, <1>4, <1>10
<1>14. Slist!Ordered!Sort BY <1>9, <1>11, <1>12, <1>13, Zenon DEF Slist!Ordered!Sort
<1> QED BY <1>1, <1>14

-----------------------------------------------------------------------------
SlistHolds == \E s : Holds(elms, first, length, s)
SlistList == Slist!Ordered!list

LEMMA SlistKeeps ==
    ASSUME NEW s, Holds(elms, first, length, s), UNCHANGED <<elms, first, length>>
    PROVE  SlistHolds' /\ UNCHANGED Slist!Contents
<1>1. Holds(elms', first', length', s) OBVIOUS
<1>2. Slist!Contents' = s BY <1>1, NextContents
<1>3. Slist!Contents = s
  <2>1. PICK q : IsList(elms, first, length, q) /\ s = ItemsOf(elms, q) BY Zenon DEF Holds
  <2> QED BY <2>1, SlistReads
<1>4. SlistHolds' BY <1>1, Zenon DEF SlistHolds
<1> QED BY <1>2, <1>3, <1>4

LEMMA SlistInit ==
    ASSUME StepInit
    PROVE  SlistHolds /\ Slist!Ordered!Init
<1>1. /\ elms = [c \in {} |-> Null] /\ first = Null /\ length = 0 /\ sRet = <<>>
  BY DEF StepInit, Slist!Init
<1>2. Holds(elms, Null, 0, <<>>) BY <1>1, EmptyList
<1>3. Holds(elms, first, length, <<>>) BY <1>1, <1>2
<1>4. PICK q : IsList(elms, first, length, q) /\ <<>> = ItemsOf(elms, q) BY <1>3, Zenon DEF Holds
<1>5. Slist!Contents = <<>> BY <1>4, SlistReads
<1>6. SlistHolds BY <1>3, Zenon DEF SlistHolds
<1> QED BY <1>1, <1>5, <1>6 DEF Slist!Ordered!Init

LEMMA SlistCalls ==
    ASSUME SlistHolds, Slist!Next
    PROVE  SlistHolds' /\ Slist!Ordered!Next
<1>1. PICK s : Holds(elms, first, length, s) BY DEF SlistHolds
<1> DEFINE Goal == (\E t : Holds(elms', first', length', t)) /\ Slist!Ordered!Next
<1>2. ASSUME NEW d \in Ranked, Slist!Push(d) PROVE Goal
  <2>1. (\E t : Holds(elms', first', length', t)) /\ Slist!Ordered!Push(d) BY <1>1, <1>2, PushStep
  <2> QED BY <2>1 DEF Slist!Ordered!Next
<1>3. ASSUME NEW d \in Ranked, Slist!AddSorted(d) PROVE Goal
  <2>1. (\E t : Holds(elms', first', length', t)) /\ Slist!Ordered!AddSorted(d)
    BY <1>1, <1>3, AddSortedStep
  <2> QED BY <2>1 DEF Slist!Ordered!Next
<1>4. ASSUME NEW d \in Ranked, Slist!Find(d) \/ Slist!DelNothing(d) PROVE Goal
  <2>1. Holds(elms', first', length', s) /\ \E x \in Ranked : Slist!Ordered!Look(x)
    BY <1>1, <1>4, LookIs
  <2> QED BY <2>1 DEF Slist!Ordered!Next
<1>5. ASSUME NEW d \in Ranked, Slist!Del(d) PROVE Goal
  <2>1. /\ Holds(elms', first', length', RemoveAt(s, Min(EqualAt(s, d))))
        /\ Slist!Ordered!Del(d)
    BY <1>1, <1>5, DelIs
  <2> QED BY <2>1 DEF Slist!Ordered!Next
<1>6. ASSUME NEW d \in Ranked, Slist!DelMult(d) PROVE Goal
  <2>1. (\E t : Holds(elms', first', length', t)) /\ Slist!Ordered!DelMult(d)
    BY <1>1, <1>6, DelMultIs
  <2> QED BY <2>1 DEF Slist!Ordered!Next
<1>7. ASSUME Slist!Pop PROVE Goal
  <2>1. Holds(elms', first', length', Tail(s)) /\ Slist!Ordered!Pop BY <1>1, <1>7, PopIs
  <2> QED BY <2>1 DEF Slist!Ordered!Next
<1>8. ASSUME Slist!Peek PROVE Goal
  <2>0. Ranked # {}
    <3>1. PICK q : IsList(elms, first, length, q) BY <1>1, Zenon DEF Holds
    <3>2. first # Null BY <1>8 DEF Slist!Peek
    <3>3. first \in DOMAIN elms BY <3>1, <3>2, IsListRead
    <3>4. elms[first] \in [data : Ranked, next : Cell \cup {Null}] BY <3>1, <3>3 DEF IsList, Elms
    <3> QED BY <3>4
  <2>1. PICK d \in Ranked : TRUE BY <2>0
  <2>2. Holds(elms', first', length', s) /\ \E x \in Ranked : Slist!Ordered!Look(x)
    BY <1>1, <1>8, <2>1, LookIs
  <2> QED BY <2>2 DEF Slist!Ordered!Next
<1>9. ASSUME Slist!Sort PROVE Goal
  <2>1. (\E t : Holds(elms', first', length', t)) /\ Slist!Ordered!Sort BY <1>1, <1>9, SortIs
  <2> QED BY <2>1 DEF Slist!Ordered!Next
<1>10. ASSUME Slist!FreeNodes PROVE Goal
  <2>1. Holds(elms', first', length', <<>>) /\ Slist!Ordered!Clear BY <1>1, <1>10, FreeNodesIs
  <2> QED BY <2>1 DEF Slist!Ordered!Next
<1> HIDE DEF Goal
<1>11. Goal
  BY <1>2, <1>3, <1>4, <1>5, <1>6, <1>7, <1>8, <1>9, <1>10 DEF Slist!Next
<1> QED BY <1>11, Zenon DEF Goal, SlistHolds

LEMMA SlistStep ==
    ASSUME SlistHolds, [StepNext]_<<kind, vars, hashtable, slist>>
    PROVE  SlistHolds' /\ [Slist!Ordered!Next]_SlistList
<1>1. PICK s : Holds(elms, first, length, s) BY DEF SlistHolds
<1>2. CASE UNCHANGED slist
  <2>1. UNCHANGED <<elms, first, length>> /\ UNCHANGED sRet BY <1>2 DEF slist
  <2>2. SlistHolds' /\ UNCHANGED Slist!Contents BY <1>1, <2>1, SlistKeeps
  <2> QED BY <2>1, <2>2 DEF SlistList, Slist!Ordered!list
<1>3. CASE Slist!Next BY <1>3, SlistCalls
<1>4. Slist!StackNext => Slist!Next
  BY DEF Slist!StackNext, Slist!StackPush, Slist!StackPop, Slist!StackPeek, Slist!StackFreeNodes,
         Slist!Next
<1> QED BY <1>2, <1>3, <1>4 DEF StepNext

(* bl_slist and bl_stack, of any data, are the sequences they promise to be: *)
(* no deletion loses an element, add_sorted and sort keep equals in order.   *)
THEOREM ListsAreOrdered == StepSpec => SlistImplementsOrdered
<1>1. StepInit => SlistHolds /\ Slist!Ordered!Init BY SlistInit
<1>2. SlistHolds /\ [StepNext]_<<kind, vars, hashtable, slist>>
        => SlistHolds' /\ [Slist!Ordered!Next]_Slist!Ordered!list
  BY SlistStep DEF SlistList
<1> QED BY <1>1, <1>2, PTL DEF StepSpec, SlistImplementsOrdered, Slist!ImplementsOrderedList,
            Slist!Ordered!Spec

LEMMA SlistWhole ==
    ASSUME SlistHolds
    PROVE  Slist!ListWhole
<1>1. PICK s, q : IsList(elms, first, length, q) /\ s = ItemsOf(elms, q)
  BY Zenon DEF SlistHolds, Holds
<1> QED BY <1>1, SlistReads
-----------------------------------------------------------------------------
(***************************************************************************)
(* The structures side by side.                                             *)
(***************************************************************************)
(* The queue when the behaviour is about another structure.                  *)
QueueHolds == (kind = "queue" /\ IInv) \/ (kind # "queue" /\ NoQueue)

LEMMA NoQueueIs == NoQueue => ListIntact /\ Queue!Init
<1> SUFFICES ASSUME NoQueue PROVE ListIntact /\ Queue!Init OBVIOUS
<1>1. chain = <<>> /\ Len(chain) = 0 BY DEF NoQueue
<1>2. ListIntact BY <1>1 DEF NoQueue, ListIntact, Linked, Once
<1>3. Queue!Init BY <1>1 DEF NoQueue, Queue!Init, Contents
<1> QED BY <1>2, <1>3

LEMMA StepQueueInit == StepInit => QueueHolds /\ Queue!Init
BY QueueInit, NoQueueIs DEF StepInit, QueueHolds

LEMMA StepQueue ==
    ASSUME RemoveLast = FALSE, QueueHolds, [StepNext]_<<kind, vars, hashtable, slist>>
    PROVE  QueueHolds' /\ [Queue!Next]_Queue!queue
<1>1. CASE UNCHANGED <<kind, vars>>
  <2>1. CASE kind = "queue"
    <3>1. IInv /\ UNCHANGED vars BY <1>1, <2>1 DEF QueueHolds
    <3>2. IInv' /\ UNCHANGED Queue!queue BY <3>1, QueueStutter
    <3> QED BY <1>1, <2>1, <3>2 DEF QueueHolds
  <2>2. CASE kind # "queue"
    <3>1. NoQueue /\ UNCHANGED vars BY <1>1, <2>2 DEF QueueHolds
    <3>2. NoQueue' /\ UNCHANGED Queue!queue
      BY <3>1 DEF NoQueue, vars, Queue!queue, Contents
    <3> QED BY <1>1, <2>2, <3>2 DEF QueueHolds
  <2> QED BY <2>1, <2>2
<1>2. CASE kind = "queue" /\ Next /\ UNCHANGED kind
  <2>1. IInv' /\ Queue!Next BY <1>2, QueueStep, Zenon DEF QueueHolds
  <2> QED BY <1>2, <2>1 DEF QueueHolds
<1> QED BY <1>1, <1>2 DEF StepNext

(* Beside the other structures too bl_queue keeps its list whole and is      *)
(* first in, first out.                                                      *)
THEOREM QueueAmongLists ==
    ASSUME RemoveLast = FALSE
    PROVE  StepSpec => []ListIntact /\ ImplementsFifo
<1>1. StepInit => QueueHolds /\ Queue!Init BY StepQueueInit
<1>2. QueueHolds /\ [StepNext]_<<kind, vars, hashtable, slist>>
        => QueueHolds' /\ [Queue!Next]_Queue!queue
  BY StepQueue, Zenon
<1>3. QueueHolds => ListIntact BY NoQueueIs DEF QueueHolds, IInv
<1> QED BY <1>1, <1>2, <1>3, PTL DEF StepSpec, Queue!Spec, ImplementsFifo

(* Every element that exists is in one chain of the hash table, the one of   *)
(* its key's hash, half way through a rehash as well, and in the list of a   *)
(* bl_slist or bl_stack, once; the counts count them.                        *)
THEOREM NoElementLost == StepSpec => []ElementsLinked
<1>1. StepInit => HashHolds /\ SlistHolds BY HashInit, SlistInit DEF StepInit
<1>2. HashHolds /\ SlistHolds /\ [StepNext]_<<kind, vars, hashtable, slist>>
        => HashHolds' /\ SlistHolds'
  BY HashNext, SlistStep
<1>3. HashHolds /\ SlistHolds => ElementsLinked
  BY HashIntact, SlistWhole DEF HashHolds, ElementsLinked
<1> QED BY <1>1, <1>2, <1>3, PTL DEF StepSpec
=============================================================================
