------------------------------ MODULE ListOpsProofs ------------------------------
(***************************************************************************)
(* Lemmas about sequences and linked cells that the proofs about BLPath and *)
(* about the linked structures share.                                       *)
(***************************************************************************)
EXTENDS ListOps, SequencesExt, SequenceTheorems, WellFoundedInduction, TLAPS

(* Induction, for a set of numbers.                                         *)
LEMMA Induct ==
    ASSUME NEW T \in SUBSET Nat, 0 \in T, \A n \in T : n + 1 \in T
    PROVE  T = Nat
<1> SUFFICES ASSUME Nat \ T # {} PROVE FALSE OBVIOUS
<1>1. PICK n \in Nat \ T : \A k \in Nat \ T : ~(<<k, n>> \in OpToRel(<, Nat))
  BY NatLessThanWellFounded, WFMin, Zenon
<1>2. n # 0 /\ n - 1 \in Nat /\ n - 1 < n OBVIOUS
<1>3. <<n - 1, n>> \in OpToRel(<, Nat)
  BY <1>2, Zenon DEF OpToRel
<1>4. n - 1 \in T BY <1>1, <1>2, <1>3
<1>5. (n - 1) + 1 = n OBVIOUS
<1> QED BY <1>4, <1>5

(* What is defined step by step exists. *)
Grows(f, A, a, step) ==
    f \in [Nat -> A] /\ f[0] = a /\ \A n \in Nat : f[n + 1] = step[<<n, f[n]>>]

LEMMA Recursion ==
    ASSUME NEW A, NEW a \in A, NEW step \in [Nat \X A -> A]
    PROVE  \E f : Grows(f, A, a, step)
<1> DEFINE Good(g, n) == g[0] = a /\ \A k \in 0 .. n - 1 : g[k + 1] = step[<<k, g[k]>>]
           Ts == {n \in Nat : \E g \in [0 .. n -> A] : Good(g, n)}
           Us == {k \in Nat : \A m, n \in Nat : k <= m /\ k <= n =>
                    \A g \in [0 .. m -> A], h \in [0 .. n -> A] :
                       Good(g, m) /\ Good(h, n) => g[k] = h[k]}
<1>1. Ts = Nat
  <2>1. 0 \in Ts
    <3>1. [k \in 0 .. 0 |-> a] \in [0 .. 0 -> A] OBVIOUS
    <3>2. Good([k \in 0 .. 0 |-> a], 0) OBVIOUS
    <3> QED BY <3>1, <3>2
  <2>2. ASSUME NEW n \in Ts PROVE n + 1 \in Ts
    <3>1. PICK g \in [0 .. n -> A] : Good(g, n) OBVIOUS
    <3> DEFINE h == [k \in 0 .. n + 1 |-> IF k <= n THEN g[k] ELSE step[<<n, g[n]>>]]
    <3>2. g[n] \in A /\ <<n, g[n]>> \in Nat \X A OBVIOUS
    <3>3. step[<<n, g[n]>>] \in A BY <3>2
    <3>4. h \in [0 .. n + 1 -> A] BY <3>3
    <3>5. Good(h, n + 1)
      <4>1. h[0] = a BY <3>1
      <4>2. ASSUME NEW k \in 0 .. (n + 1) - 1 PROVE h[k + 1] = step[<<k, h[k]>>]
        <5>1. CASE k = n
          <6>1. /\ n \in 0 .. n + 1 /\ n + 1 \in 0 .. n + 1
                /\ n <= n /\ ~(n + 1 <= n)
            OBVIOUS
          <6>2. h[n] = g[n] /\ h[n + 1] = step[<<n, g[n]>>] BY <6>1
          <6> QED BY <5>1, <6>2
        <5>2. CASE k # n
          <6>1. k \in 0 .. n - 1 /\ k + 1 <= n /\ k <= n BY <5>2
          <6> QED BY <3>1, <6>1
        <5> QED BY <5>1, <5>2
      <4> QED BY <4>1, <4>2
    <3> HIDE DEF h, Good
    <3>6. n + 1 \in Nat OBVIOUS
    <3> QED BY <3>4, <3>5, <3>6
  <2> HIDE DEF Ts
  <2>3. Ts \in SUBSET Nat BY DEF Ts
  <2> QED BY <2>1, <2>2, <2>3, Induct
<1>2. Us = Nat
  <2>1. 0 \in Us OBVIOUS
  <2>2. ASSUME NEW k \in Us PROVE k + 1 \in Us
    <3>0. k \in Nat OBVIOUS
    <3>1. ASSUME NEW m \in Nat, NEW n \in Nat, k + 1 <= m, k + 1 <= n,
                 NEW g \in [0 .. m -> A], NEW h \in [0 .. n -> A],
                 Good(g, m), Good(h, n)
          PROVE  g[k + 1] = h[k + 1]
      <4>1. k <= m /\ k <= n /\ k \in 0 .. m - 1 /\ k \in 0 .. n - 1
        <5> HIDE DEF Us, Good
        <5> QED BY <3>0, <3>1
      <4>2. g[k] = h[k]
        <5> HIDE DEF Good
        <5> QED BY <3>1, <4>1
      <4>3. g[k + 1] = step[<<k, g[k]>>] /\ h[k + 1] = step[<<k, h[k]>>]
        <5> HIDE DEF Us
        <5> QED BY <3>1, <4>1
      <4> QED BY <4>2, <4>3
    <3> HIDE DEF Good
    <3>2. k + 1 \in Nat BY <3>0
    <3> QED BY <3>1, <3>2
  <2> HIDE DEF Us
  <2>3. Us \in SUBSET Nat BY DEF Us
  <2> QED BY <2>1, <2>2, <2>3, Induct
<1> DEFINE G(n) == CHOOSE g \in [0 .. n -> A] : Good(g, n)
           f == [n \in Nat |-> G(n)[n]]
<1>3. \A n \in Nat : G(n) \in [0 .. n -> A] /\ Good(G(n), n)
  <2> SUFFICES ASSUME NEW n \in Nat PROVE G(n) \in [0 .. n -> A] /\ Good(G(n), n) OBVIOUS
  <2>1. \E g \in [0 .. n -> A] : Good(g, n) BY <1>1
  <2> HIDE DEF Good
  <2> QED BY <2>1
<1> HIDE DEF G
<1>4. f \in [Nat -> A] BY <1>3
<1>5. f[0] = a BY <1>3
<1>6. ASSUME NEW n \in Nat PROVE f[n + 1] = step[<<n, f[n]>>]
  <2>1. n \in 0 .. (n + 1) - 1 OBVIOUS
  <2>2. G(n + 1)[n + 1] = step[<<n, G(n + 1)[n]>>] BY <1>3, <2>1
  <2>3. G(n + 1)[n] = G(n)[n]
    <3>1. n \in Us /\ n + 1 \in Nat /\ n <= n + 1 /\ n <= n
      <4> HIDE DEF Us
      <4> QED BY <1>2
    <3>2. G(n) \in [0 .. n -> A] /\ Good(G(n), n)
          /\ G(n + 1) \in [0 .. n + 1 -> A] /\ Good(G(n + 1), n + 1)
      BY <1>3, <3>1
    <3> HIDE DEF Good
    <3> QED BY <3>1, <3>2
  <2> QED BY <2>2, <2>3
<1> HIDE DEF f
<1> QED BY <1>4, <1>5, <1>6 DEF Grows

LEMMA UpTo ==
    ASSUME NEW n \in Nat
    PROVE  \A i : i \in 1 .. n + 1 <=> i \in 1 .. n \/ i = n + 1
<1>1. \A i : i \in 1 .. n + 1 => i \in Int /\ (i \in 1 .. n \/ i = n + 1) OBVIOUS
<1>2. \A i \in 1 .. n : i \in 1 .. n + 1 OBVIOUS
<1>3. n + 1 \in 1 .. n + 1 OBVIOUS
<1> QED BY <1>1, <1>2, <1>3

(* f[n] is what Among has taken of the first n terms of s.                   *)
Taken(f, s, T, S) ==
    /\ f \in [0 .. Len(s) -> Seq(S)]
    /\ f[0] = <<>>
    /\ \A n \in 0 .. Len(s) - 1 :
         f[n + 1] = IF s[n + 1] \in T THEN Append(f[n], s[n + 1]) ELSE f[n]
    /\ Among(s, T) = f[Len(s)]

(* Among takes the terms of s one by one.                                    *)
LEMMA AmongSteps ==
    ASSUME NEW S, NEW s \in Seq(S), NEW T
    PROVE  \E f : Taken(f, s, T, S)
<1> DEFINE N == Len(s)
           step == [p \in Nat \X Seq(S) |->
                      IF p[1] + 1 \in 1 .. N /\ s[p[1] + 1] \in T
                        THEN Append(p[2], s[p[1] + 1]) ELSE p[2]]
           Body(f) == [i \in 0 .. N |-> IF i = 0 THEN <<>>
                         ELSE IF s[i] \in T THEN Append(f[i - 1], s[i]) ELSE f[i - 1]]
           Of == CHOOSE f : f = Body(f)
<1>1. N \in Nat /\ <<>> \in Seq(S) OBVIOUS
<1>2. step \in [Nat \X Seq(S) -> Seq(S)]
  <2> SUFFICES ASSUME NEW p \in Nat \X Seq(S), p[1] + 1 \in 1 .. N
               PROVE  Append(p[2], s[p[1] + 1]) \in Seq(S)
    OBVIOUS
  <2> QED OBVIOUS
<1>3. PICK g \in [Nat -> Seq(S)] : g[0] = <<>> /\ \A n \in Nat : g[n + 1] = step[<<n, g[n]>>]
  <2> DEFINE B == Seq(S)
         z == <<>>
  <2>1. z \in B /\ step \in [Nat \X B -> B] BY <1>1, <1>2
  <2> HIDE DEF step, B, z
  <2>2. \E f : Grows(f, B, z, step) BY <2>1, Recursion
  <2> QED BY <2>2 DEF B, z, Grows
<1> DEFINE h == [i \in 0 .. N |-> g[i]]
<1>4. h = Body(h)
  <2> SUFFICES ASSUME NEW i \in 0 .. N PROVE h[i] = Body(h)[i]
    OBVIOUS
  <2>1. CASE i = 0 BY <1>1, <1>3, <2>1
  <2>2. CASE i # 0
    <3>1. i - 1 \in Nat /\ (i - 1) + 1 = i /\ i \in 1 .. N /\ i - 1 \in 0 .. N
      BY <1>1, <2>2
    <3>2. g[i] = step[<<i - 1, g[i - 1]>>]
      <4> HIDE DEF step
      <4>1. g[(i - 1) + 1] = step[<<i - 1, g[i - 1]>>] BY <1>3, <3>1
      <4> QED BY <3>1, <4>1
    <3>3. step[<<i - 1, g[i - 1]>>] = IF s[i] \in T THEN Append(g[i - 1], s[i]) ELSE g[i - 1]
      BY <3>1
    <3> QED BY <2>2, <3>1, <3>2, <3>3
  <2> QED BY <2>1, <2>2
<1>5. Of = Body(Of)
  <2> HIDE DEF Body, h
  <2> QED BY <1>4
<1>6. Among(s, T) = Of[N] BY DEF Among
<1> HIDE DEF Of, Body
<1>10. /\ 0 \in 0 .. N /\ Of[0] = <<>> /\ h[0] = <<>>
       /\ \A n \in 0 .. N : n # 0 =>
            /\ Of[n] = IF s[n] \in T THEN Append(Of[n - 1], s[n]) ELSE Of[n - 1]
            /\ h[n] = IF s[n] \in T THEN Append(h[n - 1], s[n]) ELSE h[n - 1]
       /\ Of = [n \in 0 .. N |-> Of[n]]
  <2>1. 0 \in 0 .. N BY <1>1
  <2> HIDE DEF h, N
  <2> QED BY <1>4, <1>5, <2>1 DEF Body
<1>11. h = [n \in 0 .. N |-> h[n]] OBVIOUS
<1> HIDE DEF h
<1>7. Of = h
  <2> DEFINE Us == {n \in Nat : n <= N => Of[n] = h[n]}
  <2>1. 0 \in Us BY <1>10
  <2>2. ASSUME NEW n \in Us PROVE n + 1 \in Us
    <3>1. n \in Nat /\ n + 1 \in Nat OBVIOUS
    <3>2. ASSUME n + 1 <= N PROVE Of[n + 1] = h[n + 1]
      <4>0. n <= N /\ (n <= N => Of[n] = h[n]) BY <1>1, <3>1, <3>2
      <4> HIDE DEF Us, N
      <4>1. n + 1 \in 0 .. N /\ n + 1 # 0 /\ (n + 1) - 1 = n
        BY <1>1, <3>1, <3>2
      <4>3. /\ Of[n + 1] = IF s[n + 1] \in T THEN Append(Of[n], s[n + 1]) ELSE Of[n]
            /\ h[n + 1] = IF s[n + 1] \in T THEN Append(h[n], s[n + 1]) ELSE h[n]
        BY <1>10, <4>1
      <4> QED BY <4>0, <4>3
    <3> QED BY <3>1, <3>2
  <2> HIDE DEF Us
  <2>3. Us \in SUBSET Nat BY DEF Us
  <2>4. Us = Nat BY <2>1, <2>2, <2>3, Induct
  <2> HIDE DEF N
  <2>5. ASSUME NEW n \in 0 .. N PROVE Of[n] = h[n]
    <3>1. n \in Us /\ n <= N BY <1>1, <2>4
    <3> QED BY <3>1 DEF Us
  <2> QED BY <1>10, <1>11, <2>5
<1>8. h \in [0 .. N -> Seq(S)] /\ h[0] = <<>> /\ Among(s, T) = h[N]
  BY <1>1, <1>3, <1>6, <1>7, <1>10 DEF h
<1>9. ASSUME NEW n \in 0 .. N - 1
      PROVE h[n + 1] = IF s[n + 1] \in T THEN Append(h[n], s[n + 1]) ELSE h[n]
  <2>1. n + 1 \in 0 .. N /\ n + 1 # 0 /\ (n + 1) - 1 = n BY <1>1
  <2> HIDE DEF N
  <2> QED BY <1>10, <2>1
<1> HIDE DEF step
<1>12. Taken(h, s, T, S) BY <1>8, <1>9 DEF N, Taken
<1> QED BY <1>12, Zenon

(* What holds of Among is shown for its first terms.  *)
LEMMA AppendIs ==
    ASSUME NEW S, NEW q \in Seq(S), NEW e \in S
    PROVE  /\ Append(q, e) \in Seq(S) /\ Len(Append(q, e)) = Len(q) + 1
           /\ Append(q, e) = [m \in 1 .. Len(q) + 1 |-> IF m <= Len(q) THEN q[m] ELSE e]
           /\ ToSet(Append(q, e)) = ToSet(q) \cup {e}
<1> DEFINE l == Len(q)
           p == Append(q, e)
<1>1. l \in Nat /\ DOMAIN q = 1 .. l /\ DOMAIN p = 1 .. l + 1 /\ p \in Seq(S) /\ Len(p) = l + 1
  OBVIOUS
<1>2. \A m \in 1 .. l : p[m] = q[m] OBVIOUS
<1>3. p[l + 1] = e OBVIOUS
<1>4. \A m : m \in 1 .. l + 1 <=> m \in 1 .. l \/ m = l + 1 BY <1>1, UpTo
<1>5. p = [m \in 1 .. l + 1 |-> p[m]]
  <2> HIDE DEF p, l
  <2>1. p \in [1 .. l + 1 -> S] BY <1>1
  <2> QED BY <2>1
<1> HIDE DEF l, p
<1>6. {p[m] : m \in 1 .. l + 1} = {q[m] : m \in 1 .. l} \cup {e}
  BY <1>2, <1>3, <1>4
<1>7. ASSUME NEW m \in 1 .. l + 1 PROVE p[m] = IF m <= l THEN q[m] ELSE e
  <2>1. CASE m \in 1 .. l BY <1>1, <1>2, <2>1
  <2>2. CASE m = l + 1
    <3>1. ~(l + 1 <= l) BY <1>1
    <3> QED BY <1>3, <2>2, <3>1
  <2> QED BY <1>4, <2>1, <2>2
<1>8. p = [m \in 1 .. l + 1 |-> IF m <= l THEN q[m] ELSE e] BY <1>5, <1>7
<1> QED BY <1>1, <1>6, <1>8 DEF ToSet, l, p

(* Among has the terms of s that are in T, and is a sequence like s.         *)
LEMMA AmongIs ==
    ASSUME NEW S, NEW s \in Seq(S), NEW T
    PROVE  /\ Among(s, T) \in Seq(S)
           /\ ToSet(Among(s, T)) = ToSet(s) \cap T
<1> DEFINE N == Len(s)
<1>1. N \in Nat /\ \A n \in 1 .. N : s[n] \in S OBVIOUS
<1>0. PICK f : Taken(f, s, T, S) BY AmongSteps, Zenon
<1>2.    /\ f \in [0 .. N -> Seq(S)]
         /\ f[0] = <<>>
         /\ \A n \in 0 .. N - 1 :
              f[n + 1] = IF s[n + 1] \in T THEN Append(f[n], s[n + 1]) ELSE f[n]
         /\ Among(s, T) = f[N]
  <2> QED BY <1>0 DEF Taken
<1>3. DOMAIN s = 1 .. N OBVIOUS
<1> HIDE DEF N
<1> DEFINE Right(n) == ToSet(f[n]) = {s[m] : m \in 1 .. n} \cap T
           Rs == {n \in Nat : n <= N => Right(n)}
<1>4. 0 \in Rs
  <2>1. ToSet(<<>>) = {} BY DEF ToSet
  <2>2. {s[m] : m \in 1 .. 0} = {} OBVIOUS
  <2> QED BY <1>2, <2>1, <2>2
<1>5. ASSUME NEW n \in Rs PROVE n + 1 \in Rs
  <2>1. n \in Nat /\ n + 1 \in Nat OBVIOUS
  <2>2. ASSUME n + 1 <= N PROVE Right(n + 1)
    <3>1. n \in 0 .. N - 1 /\ n \in 0 .. N /\ n <= N /\ n + 1 \in 1 .. N BY <1>1, <2>1, <2>2
    <3>2. Right(n) BY <3>1
    <3>3. {s[m] : m \in 1 .. n + 1} = {s[m] : m \in 1 .. n} \cup {s[n + 1]}
      <4>1. \A m : m \in 1 .. n + 1 <=> m \in 1 .. n \/ m = n + 1 BY <2>1, UpTo
      <4> QED BY <4>1
    <3>4. s[n + 1] \in S /\ f[n] \in Seq(S) BY <1>1, <1>2, <3>1
    <3>5. ToSet(Append(f[n], s[n + 1])) = ToSet(f[n]) \cup {s[n + 1]} BY <3>4, AppendIs
    <3> HIDE DEF Rs
    <3>6. CASE s[n + 1] \in T BY <1>2, <3>1, <3>2, <3>3, <3>5, <3>6
    <3>7. CASE s[n + 1] \notin T BY <1>2, <3>1, <3>2, <3>3, <3>7
    <3> QED BY <3>6, <3>7
  <2> HIDE DEF Right
  <2> QED BY <2>1, <2>2
<1> HIDE DEF Rs
<1>6. Rs \in SUBSET Nat BY DEF Rs
<1>7. Rs = Nat BY <1>4, <1>5, <1>6, Induct
<1>8. Right(N)
  <2>1. N \in Rs /\ N <= N BY <1>1, <1>7
  <2> HIDE DEF Right
  <2> QED BY <2>1 DEF Rs
<1>9. f[N] \in Seq(S) BY <1>1, <1>2
<1> HIDE DEF Right
<1>10. ToSet(f[N]) = ToSet(s) \cap T BY <1>3, <1>8 DEF Right, ToSet
<1> QED BY <1>2, <1>9, <1>10

(* t is the terms of s[1 .. n] that are in T: the k-th stands at at[k] in s.  *)
InOrder(at, t, s, n, T) ==
    /\ at \in [1 .. Len(t) -> 1 .. n]
    /\ \A k, m \in 1 .. Len(t) : k < m => at[k] < at[m]
    /\ \A k \in 1 .. Len(t) : t[k] = s[at[k]]
    /\ \A i \in 1 .. n : s[i] \in T => \E k \in 1 .. Len(t) : at[k] = i

LEMMA Reversed ==
    ASSUME NEW S, NEW s \in Seq(S)
    PROVE  Reverse(s) \in Seq(S) /\ Len(Reverse(s)) = Len(s) /\ ToSet(Reverse(s)) = ToSet(s)
<1> DEFINE n == Len(s)
           r == [i \in 1 .. n |-> s[(n - i) + 1]]
<1>1. n \in Nat /\ DOMAIN s = 1 .. n OBVIOUS
<1>2. Reverse(s) = r BY DEF Reverse
<1>3. \A i \in 1 .. n : (n - i) + 1 \in 1 .. n /\ (n - ((n - i) + 1)) + 1 = i BY <1>1
<1>4. \A i \in 1 .. n : r[i] \in S BY <1>1, <1>3
<1>5. r \in Seq(S) /\ Len(r) = n /\ DOMAIN r = 1 .. n BY <1>1, <1>4
<1>6. \A i \in 1 .. n : s[i] = r[(n - i) + 1] BY <1>3
<1>7. \A i \in 1 .. n : r[i] = s[(n - i) + 1] OBVIOUS
<1> HIDE DEF n, r
<1>8. ToSet(r) = ToSet(s)
  <2>1. ASSUME NEW i \in 1 .. n PROVE r[i] \in ToSet(s) BY <1>1, <1>3, <1>7 DEF ToSet
  <2>2. ASSUME NEW i \in 1 .. n PROVE s[i] \in ToSet(r) BY <1>3, <1>5, <1>6 DEF ToSet
  <2>3. \A e \in ToSet(r) : \E i \in 1 .. n : e = r[i] BY <1>5 DEF ToSet
  <2>4. \A e \in ToSet(s) : \E i \in 1 .. n : e = s[i] BY <1>1 DEF ToSet
  <2>5. ToSet(r) \subseteq ToSet(s) BY <2>1, <2>3
  <2>6. ToSet(s) \subseteq ToSet(r) BY <2>2, <2>4
  <2> QED BY <2>5, <2>6, Zenon
<1> QED BY <1>2, <1>5, <1>8 DEF n

LEMMA Joined ==
    ASSUME NEW S, NEW s \in Seq(S), NEW t \in Seq(S)
    PROVE  s \o t \in Seq(S) /\ Len(s \o t) = Len(s) + Len(t) /\ ToSet(s \o t) = ToSet(s) \cup ToSet(t)
<1> DEFINE m == Len(s)
           n == Len(t)
           j == s \o t
<1>1. m \in Nat /\ n \in Nat /\ DOMAIN s = 1 .. m /\ DOMAIN t = 1 .. n OBVIOUS
<1>2. j \in Seq(S) /\ Len(j) = m + n /\ DOMAIN j = 1 .. m + n OBVIOUS
<1>3. \A i \in 1 .. m : j[i] = s[i] OBVIOUS
<1>4. \A i \in 1 .. n : j[m + i] = t[i] OBVIOUS
<1> HIDE DEF m, n, j
<1>5. \A i \in 1 .. m : i \in 1 .. m + n BY <1>1
<1>6. \A i \in 1 .. n : m + i \in 1 .. m + n BY <1>1
<1>7. \A k \in 1 .. m + n : k \in 1 .. m \/ (k - m \in 1 .. n /\ m + (k - m) = k) BY <1>1
<1>8. ToSet(s) \cup ToSet(t) \subseteq ToSet(j)
  BY <1>1, <1>2, <1>3, <1>4, <1>5, <1>6 DEF ToSet
<1>9. ASSUME NEW k \in 1 .. m + n PROVE j[k] \in ToSet(s) \cup ToSet(t)
  <2>1. CASE k \in 1 .. m BY <1>1, <1>3, <2>1 DEF ToSet
  <2>2. CASE k - m \in 1 .. n /\ m + (k - m) = k
    <3>1. j[k] = t[k - m] BY <1>4, <2>2
    <3> QED BY <1>1, <2>2, <3>1 DEF ToSet
  <2> QED BY <1>7, <2>1, <2>2
<1>10. ToSet(j) \subseteq ToSet(s) \cup ToSet(t) BY <1>2, <1>9 DEF ToSet
<1> QED BY <1>2, <1>8, <1>10 DEF m, n, j

LEMMA Removed ==
    ASSUME NEW S, NEW s \in Seq(S), NEW p \in 1 .. Len(s)
    PROVE  /\ RemoveAt(s, p) \in Seq(S) /\ Len(RemoveAt(s, p)) = Len(s) - 1
           /\ ToSet(RemoveAt(s, p)) \subseteq ToSet(s)
           /\ ToSet(s) \subseteq ToSet(RemoveAt(s, p)) \cup {s[p]}
<1> DEFINE n == Len(s)
           a == SubSeq(s, 1, p - 1)
           b == SubSeq(s, p + 1, n)
<1>1. n \in Nat /\ DOMAIN s = 1 .. n /\ p \in 1 .. n OBVIOUS
<1>2. a \in Seq(S) /\ Len(a) = p - 1 /\ DOMAIN a = 1 .. p - 1 /\ \A i \in 1 .. p - 1 : a[i] = s[i]
  OBVIOUS
<1>3. b \in Seq(S) /\ Len(b) = n - p /\ DOMAIN b = 1 .. n - p /\ \A i \in 1 .. n - p : b[i] = s[i + p]
  OBVIOUS
<1>4. RemoveAt(s, p) = a \o b BY DEF RemoveAt
<1> HIDE DEF n, a, b
<1>5. /\ a \o b \in Seq(S) /\ Len(a \o b) = n - 1 /\ ToSet(a \o b) = ToSet(a) \cup ToSet(b)
  BY <1>1, <1>2, <1>3, Joined
<1>6. ToSet(a) \subseteq ToSet(s) BY <1>1, <1>2 DEF ToSet
<1>7. ToSet(b) \subseteq ToSet(s)
  <2>1. ASSUME NEW i \in 1 .. n - p PROVE b[i] \in ToSet(s)
    <3>1. i + p \in DOMAIN s /\ b[i] = s[i + p] BY <1>1, <1>3
    <3> QED BY <3>1 DEF ToSet
  <2> QED BY <1>3, <2>1 DEF ToSet
<1>8. ASSUME NEW i \in 1 .. n PROVE s[i] \in ToSet(a) \cup ToSet(b) \cup {s[p]}
  <2>1. CASE i < p
    <3>1. i \in 1 .. p - 1 BY <1>1, <2>1
    <3> QED BY <1>2, <3>1 DEF ToSet
  <2>2. CASE i > p
    <3>1. i - p \in 1 .. n - p /\ (i - p) + p = i BY <1>1, <2>2
    <3>2. b[i - p] = s[i] BY <1>3, <3>1
    <3> QED BY <1>3, <3>1, <3>2 DEF ToSet
  <2>3. CASE i = p BY <2>3
  <2> QED BY <1>1, <2>1, <2>2, <2>3
<1>9. ToSet(s) \subseteq ToSet(a) \cup ToSet(b) \cup {s[p]} BY <1>1, <1>8 DEF ToSet
<1> QED BY <1>4, <1>5, <1>6, <1>7, <1>9 DEF n

LEMMA Listed ==
    ASSUME NEW S, NEW n \in Nat, NEW s \in [1 .. n -> S]
    PROVE  s \in Seq(S) /\ Len(s) = n /\ DOMAIN s = 1 .. n
OBVIOUS

LEMMA Shortened ==
    ASSUME NEW S, NEW s \in Seq(S), NEW n \in 0 .. Len(s)
    PROVE  SubSeq(s, 1, n) \in Seq(S) /\ ToSet(SubSeq(s, 1, n)) \subseteq ToSet(s)
<1> DEFINE t == SubSeq(s, 1, n)
<1>1. t \in Seq(S) /\ DOMAIN t = 1 .. n /\ \A i \in 1 .. n : t[i] = s[i] OBVIOUS
<1>2. \A i \in 1 .. n : i \in DOMAIN s OBVIOUS
<1> HIDE DEF t
<1> QED BY <1>1, <1>2 DEF ToSet, t

LEMMA Least ==
    ASSUME NEW R \in SUBSET Nat, R # {}
    PROVE  \E x \in R : \A k \in R : x <= k
<1>1. PICK x \in R : \A k \in R : ~(<<k, x>> \in OpToRel(<, Nat))
  BY NatLessThanWellFounded, WFMin, Zenon
<1>2. \A k \in R : ~(k < x)
  <2>1. SUFFICES ASSUME NEW k \in R, k < x PROVE <<k, x>> \in OpToRel(<, Nat)
    BY <1>1, Zenon
  <2> QED BY <2>1, Zenon DEF OpToRel
<1>3. \A k \in R : x <= k BY <1>2
<1> QED BY <1>3

LEMMA MinIn ==
    ASSUME NEW n \in Nat, NEW S \in SUBSET (1 .. n), S # {}
    PROVE  Min(S) \in 0 .. n
<1>1. S \in SUBSET Nat OBVIOUS
<1>2. \E x \in S : \A k \in S : x <= k BY <1>1, Least
<1>3. Min(S) \in S BY <1>2 DEF Min
<1>4. \A i \in 1 .. n : i \in 0 .. n OBVIOUS
<1> DEFINE m == Min(S)
<1>5. m \in 1 .. n BY <1>3
<1> HIDE DEF m
<1>6. m \in 0 .. n BY <1>4, <1>5
<1> QED BY <1>6 DEF m

-----------------------------------------------------------------------------
(***************************************************************************)
(* Paths of linked cells.                                                   *)
(***************************************************************************)
Start(q, nil) == IF q = <<>> THEN nil ELSE q[1]
After(q, k, nil) == IF k < Len(q) THEN q[k + 1] ELSE nil

(* The pointers of es lead through q, which comes to no cell twice.          *)
Follows(es, q, nil) ==
    /\ q \in Seq(DOMAIN es)
    /\ \A k, m \in 1 .. Len(q) : q[k] = q[m] => k = m
    /\ \A k \in 1 .. Len(q) : es[q[k]].next = After(q, k, nil)

(* Every cell of es is on one of the paths P, and on no other.               *)
Paths(es, P, nil) ==
    /\ nil \notin DOMAIN es
    /\ \A q \in P : Follows(es, q, nil)
    /\ \A e \in DOMAIN es : \E q \in P : e \in ToSet(q)
    /\ \A p, q \in P : \A e \in ToSet(p) \cap ToSet(q) : p = q

Onwards(q, k) == [m \in 1 .. Len(q) + 1 - k |-> q[k + m - 1]]

LEMMA PutFirst ==
    ASSUME NEW S, NEW e \in S, NEW s \in Seq(S)
    PROVE  /\ <<e>> \o s \in Seq(S)
           /\ Len(<<e>> \o s) = Len(s) + 1
           /\ <<e>> \o s = [m \in 1 .. Len(s) + 1 |-> IF m = 1 THEN e ELSE s[m - 1]]
<1> DEFINE a == <<e>>
           n == Len(s)
           j == a \o s
<1>1. n \in Nat /\ a \in Seq(S) /\ Len(a) = 1 /\ a[1] = e OBVIOUS
<1> HIDE DEF a
<1>2. j \in Seq(S) /\ Len(j) = n + 1
      /\ \A m \in 1 .. n + 1 : j[m] = IF m <= 1 THEN a[m] ELSE s[m - 1]
  <2> HIDE DEF j
  <2>1. /\ j \in Seq(S) /\ Len(j) = Len(a) + Len(s)
        /\ \A m \in 1 .. Len(a) + Len(s) : j[m] = IF m <= Len(a) THEN a[m] ELSE s[m - Len(a)]
    BY <1>1, ConcatProperties DEF j
  <2>2. 1 + n = n + 1 BY <1>1
  <2> QED BY <1>1, <2>1, <2>2
<1> HIDE DEF j, n
<1>3. \A m \in 1 .. n + 1 : j[m] = IF m = 1 THEN e ELSE s[m - 1]
  <2>1. \A m \in 1 .. n + 1 : m <= 1 <=> m = 1 BY <1>1
  <2> QED BY <1>1, <1>2, <2>1
<1>4. j = [m \in 1 .. n + 1 |-> j[m]]
  <2>1. j \in [1 .. n + 1 -> S] BY <1>2
  <2> QED BY <2>1
<1>5. j = [m \in 1 .. n + 1 |-> IF m = 1 THEN e ELSE s[m - 1]] BY <1>3, <1>4
<1> QED BY <1>2, <1>5 DEF j, n, a

LEMMA OnwardsIs ==
    ASSUME NEW S, NEW q \in Seq(S)
    PROVE  /\ Onwards(q, 1) = q
           /\ Onwards(q, Len(q) + 1) = <<>>
           /\ \A k \in 1 .. Len(q) : Onwards(q, k) = <<q[k]>> \o Onwards(q, k + 1)
<1>1. Len(q) \in Nat /\ q \in [1 .. Len(q) -> S] OBVIOUS
<1>2. Onwards(q, 1) = q
  <2>1. \A m \in 1 .. Len(q) : 1 + m - 1 = m BY <1>1
  <2>2. Len(q) + 1 - 1 = Len(q) BY <1>1
  <2> QED BY <1>1, <2>1, <2>2 DEF Onwards
<1>3. Onwards(q, Len(q) + 1) = <<>>
  <2>1. Len(q) + 1 - (Len(q) + 1) = 0 BY <1>1
  <2>2. 1 .. 0 = {} OBVIOUS
  <2>3. Onwards(q, Len(q) + 1) \in [{} -> S] BY <2>1, <2>2 DEF Onwards
  <2>4. <<>> \in [{} -> S] BY <2>2
  <2> QED BY <2>3, <2>4
<1>4. ASSUME NEW k \in 1 .. Len(q) PROVE Onwards(q, k) = <<q[k]>> \o Onwards(q, k + 1)
  <2> DEFINE n == Len(q) - k
             r == Onwards(q, k + 1)
  <2>1. n \in Nat
    <3>1. k \in Nat /\ k <= Len(q) BY <1>1
    <3> QED BY <1>1, <3>1
  <2>2. Len(q) + 1 - (k + 1) = n /\ Len(q) + 1 - k = n + 1
    <3>1. \A x, y \in Int : x + 1 - (y + 1) = x - y /\ x + 1 - y = (x - y) + 1 OBVIOUS
    <3>2. Len(q) \in Int /\ k \in Int BY <1>1
    <3> QED BY <3>1, <3>2
  <2>3. \A m \in 1 .. n : k + 1 + m - 1 = k + m /\ k + m \in 1 .. Len(q) BY <1>1
  <2>4. r = [m \in 1 .. n |-> q[k + m]] BY <2>2, <2>3 DEF Onwards
  <2>5. r \in Seq(S) /\ Len(r) = n
    <3>1. r \in [1 .. n -> S] BY <1>1, <2>3, <2>4
    <3> HIDE DEF r
    <3> QED BY <2>1, <3>1, Listed
  <2>6. q[k] \in S BY <1>1
  <2>7. Onwards(q, k) = [m \in 1 .. n + 1 |-> q[k + m - 1]] BY <2>2 DEF Onwards
  <2>8. ASSUME NEW m \in 1 .. n + 1
        PROVE  q[k + m - 1] = IF m = 1 THEN q[k] ELSE r[m - 1]
    <3> HIDE DEF r
    <3>1. CASE m = 1
      <4>1. k + 1 - 1 = k OBVIOUS
      <4> QED BY <3>1, <4>1
    <3>2. CASE m # 1
      <4>1. m - 1 \in 1 .. n /\ k + (m - 1) = k + m - 1 BY <2>1, <3>2
      <4>2. r[m - 1] = q[k + (m - 1)] BY <2>4, <4>1
      <4> QED BY <3>2, <4>1, <4>2
    <3> QED BY <3>1, <3>2
  <2> HIDE DEF r
  <2>9. <<q[k]>> \o r = [m \in 1 .. n + 1 |-> IF m = 1 THEN q[k] ELSE r[m - 1]]
    BY <2>5, <2>6, PutFirst
  <2> HIDE DEF n
  <2>10. <<q[k]>> \o r = Onwards(q, k) BY <2>7, <2>8, <2>9
  <2> QED BY <2>10 DEF r
<1> QED BY <1>2, <1>3, <1>4

(* From the first cell of a path the walk comes to all of it.                *)
LEMMA WalkIs ==
    ASSUME NEW es, NEW P, NEW nil, Paths(es, P, nil)
    PROVE  /\ Walk(es, nil, nil) = <<>>
           /\ \A q \in P : Walk(es, Start(q, nil), nil) = q
<1> DEFINE D == DOMAIN es
           Body(f) == [e \in D \cup {nil} |->
                         IF e = nil THEN <<>> ELSE <<e>> \o f[es[e].next]]
           PathOf(e) == CHOOSE q \in P : e \in ToSet(q)
           PosOf(e) == CHOOSE k \in 1 .. Len(PathOf(e)) : PathOf(e)[k] = e
           t == [e \in D \cup {nil} |-> IF e = nil THEN <<>> ELSE Onwards(PathOf(e), PosOf(e))]
           From == CHOOSE f : f = Body(f)
<1>1. /\ nil \notin D
      /\ \A q \in P : Follows(es, q, nil)
      /\ \A e \in D : \E q \in P : e \in ToSet(q)
      /\ \A p, q \in P : \A e \in ToSet(p) \cap ToSet(q) : p = q
  BY DEF Paths
<1>2. \A q \in P : /\ q \in Seq(D) /\ Len(q) \in Nat /\ DOMAIN q = 1 .. Len(q)
                   /\ \A k, m \in 1 .. Len(q) : q[k] = q[m] => k = m
                   /\ \A k \in 1 .. Len(q) : q[k] \in D /\ es[q[k]].next = After(q, k, nil)
  BY <1>1 DEF Follows
<1> HIDE DEF D
<1>3. ASSUME NEW q \in P, NEW k \in 1 .. Len(q) PROVE t[q[k]] = Onwards(q, k)
  <2>1. q[k] \in D /\ q[k] # nil BY <1>1, <1>2
  <2>2. q[k] \in ToSet(q) BY <1>2 DEF ToSet
  <2>3. PathOf(q[k]) = q BY <1>1, <2>2
  <2>4. PosOf(q[k]) = k
    <3> HIDE DEF PathOf
    <3> QED BY <1>2, <2>3
  <2> HIDE DEF PathOf, PosOf
  <2> QED BY <2>1, <2>3, <2>4
<1>4. t[nil] = <<>> OBVIOUS
<1> HIDE DEF t
<1>5. ASSUME NEW q \in P, NEW k \in 1 .. Len(q) PROVE t[After(q, k, nil)] = Onwards(q, k + 1)
  <2>1. CASE k < Len(q)
    <3>1. k + 1 \in 1 .. Len(q) BY <1>2, <2>1
    <3> QED BY <2>1, <3>1, <1>3 DEF After
  <2>2. CASE ~(k < Len(q))
    <3>1. k = Len(q) BY <1>2, <2>2
    <3>2. Onwards(q, Len(q) + 1) = <<>> BY <1>2, OnwardsIs
    <3> QED BY <2>2, <3>1, <3>2, <1>4 DEF After
  <2> QED BY <2>1, <2>2
<1>6. t = Body(t)
  <2>1. t = [e \in D \cup {nil} |-> t[e]] BY DEF t
  <2>2. ASSUME NEW e \in D \cup {nil} PROVE t[e] = Body(t)[e]
    <3>1. CASE e = nil BY <1>4, <3>1
    <3>2. CASE e # nil
      <4>1. PICK q \in P : e \in ToSet(q) BY <1>1, <3>2
      <4>2. PICK k \in 1 .. Len(q) : e = q[k] BY <1>2, <4>1 DEF ToSet
      <4>3. es[e].next = After(q, k, nil) BY <1>2, <4>2
      <4>4. t[e] = Onwards(q, k) BY <1>3, <4>2
      <4>5. Onwards(q, k) = <<q[k]>> \o Onwards(q, k + 1) BY <1>2, OnwardsIs
      <4>6. t[es[e].next] = Onwards(q, k + 1) BY <1>5, <4>3
      <4>7. t[e] = <<e>> \o t[es[e].next] BY <4>2, <4>4, <4>5, <4>6
      <4> QED BY <3>2, <4>7
    <3> QED BY <3>1, <3>2
  <2> HIDE DEF D
  <2>3. Body(t) = [e \in D \cup {nil} |-> Body(t)[e]] OBVIOUS
  <2> HIDE DEF Body
  <2> QED BY <2>1, <2>2, <2>3
<1>7. From = Body(From)
  <2> HIDE DEF Body
  <2> QED BY <1>6
<1> HIDE DEF From
<1>8. From[nil] = <<>> BY <1>7
<1>9. \A e \in D : From[e] = <<e>> \o From[es[e].next] BY <1>1, <1>7
<1> HIDE DEF Body
<1>10. ASSUME NEW q \in P PROVE From[Start(q, nil)] = q
  <2> DEFINE N == Len(q)
             Good(n) == From[After(q, N - n, nil)] = Onwards(q, N - n + 1)
             Gs == {n \in Nat : n <= N => Good(n)}
  <2>0. N \in Nat BY <1>2
  <2>1. 0 \in Gs
    <3>1. N - 0 = N /\ ~(N < N) BY <2>0
    <3>2. Onwards(q, N + 1) = <<>> BY <1>2, OnwardsIs
    <3> QED BY <1>8, <3>1, <3>2 DEF After
  <2>2. ASSUME NEW n \in Gs PROVE n + 1 \in Gs
    <3>0. n \in Nat OBVIOUS
    <3>1. ASSUME n + 1 <= N PROVE Good(n + 1)
      <4> DEFINE k == N - n
      <4>1. k \in 1 .. N /\ N - (n + 1) = k - 1 /\ n <= N /\ k - 1 + 1 = k /\ k - 1 < N
        <5> HIDE DEF Gs
        <5> QED BY <2>0, <3>0, <3>1
      <4>2. From[After(q, k, nil)] = Onwards(q, k + 1) BY <4>1
      <4> HIDE DEF k
      <4>3. After(q, k - 1, nil) = q[k] BY <4>1 DEF After
      <4>4. q[k] \in D /\ es[q[k]].next = After(q, k, nil) BY <1>2, <4>1
      <4>5. From[q[k]] = <<q[k]>> \o Onwards(q, k + 1) BY <1>9, <4>2, <4>4
      <4>6. Onwards(q, k) = <<q[k]>> \o Onwards(q, k + 1) BY <1>2, <4>1, OnwardsIs
      <4>7. From[After(q, k - 1, nil)] = Onwards(q, k - 1 + 1)
        BY <4>1, <4>3, <4>5, <4>6
      <4> QED BY <4>1, <4>7
    <3> HIDE DEF Good
    <3>2. n + 1 \in Nat BY <3>0
    <3> QED BY <3>1, <3>2
  <2> HIDE DEF Gs
  <2>3. Gs \in SUBSET Nat BY DEF Gs
  <2>4. Gs = Nat BY <2>1, <2>2, <2>3, Induct
  <2>5. Good(N)
    <3>1. N \in Gs /\ N <= N BY <2>0, <2>4
    <3> HIDE DEF Good
    <3> QED BY <3>1 DEF Gs
  <2>6. N - N = 0 /\ 0 + 1 = 1 BY <2>0
  <2>7. From[After(q, 0, nil)] = q
    <3>1. From[After(q, 0, nil)] = Onwards(q, 1) BY <2>5, <2>6
    <3>2. Onwards(q, 1) = q BY <1>2, OnwardsIs
    <3> QED BY <3>1, <3>2
  <2>8. Start(q, nil) = After(q, 0, nil)
    <3>1. q \in Seq(D) BY <1>2
    <3>2. q = <<>> <=> ~(0 < Len(q)) BY <3>1, <2>0
    <3> QED BY <3>2, <2>6 DEF Start, After
  <2> QED BY <2>7, <2>8
<1>11. \A e : Walk(es, e, nil) = From[e] BY DEF Walk, From, Body, D
<1> QED BY <1>8, <1>10, <1>11

-----------------------------------------------------------------------------
(***************************************************************************)
(* Sequences with an item more, or an item less.                            *)
(***************************************************************************)
Joins(j, a, b, S) ==
    /\ j \in Seq(S) /\ Len(j) = Len(a) + Len(b)
    /\ \A k \in 1 .. Len(a) : j[k] = a[k]
    /\ \A k \in 1 .. Len(b) : j[Len(a) + k] = b[k]

LEMMA ConcatAt ==
    ASSUME NEW S, NEW a \in Seq(S), NEW b \in Seq(S)
    PROVE  Joins(a \o b, a, b, S)
<1>1. /\ a \o b \in Seq(S) /\ Len(a \o b) = Len(a) + Len(b)
      /\ \A k \in 1 .. Len(a) : (a \o b)[k] = a[k]
      /\ \A k \in 1 .. Len(b) : (a \o b)[Len(a) + k] = b[k]
  OBVIOUS
<1> QED BY <1>1, Zenon DEF Joins

LEMMA SameSeq ==
    ASSUME NEW S, NEW s \in Seq(S), NEW T, NEW t \in Seq(T), Len(s) = Len(t),
           \A k \in 1 .. Len(s) : s[k] = t[k]
    PROVE  s = t
OBVIOUS

(* s with e at p, and s without its p-th term, place by place.               *)
Inset(s, p, e) == [k \in 1 .. Len(s) + 1 |-> IF k < p THEN s[k] ELSE IF k = p THEN e ELSE s[k - 1]]
Outset(s, p) == [k \in 1 .. Len(s) - 1 |-> IF k < p THEN s[k] ELSE s[k + 1]]

LEMMA InsertAtIs ==
    ASSUME NEW S, NEW s \in Seq(S), NEW p \in 1 .. Len(s) + 1, NEW e \in S
    PROVE  /\ InsertAt(s, p, e) \in Seq(S) /\ Len(InsertAt(s, p, e)) = Len(s) + 1
           /\ InsertAt(s, p, e) = Inset(s, p, e)
           /\ ToSet(InsertAt(s, p, e)) = ToSet(s) \cup {e}
<1> DEFINE n == Len(s)
           a == SubSeq(s, 1, p - 1)
           b == SubSeq(s, p, n)
           o == <<e>>
           x == a \o o
           y == x \o b
           t == Inset(s, p, e)
<1>1. n \in Nat /\ p \in 1 .. n + 1 /\ p - 1 \in Nat /\ n + 1 - p \in Nat OBVIOUS
<1>2. a \in Seq(S) /\ Len(a) = p - 1 /\ \A k \in 1 .. p - 1 : a[k] = s[k] OBVIOUS
<1>3. b \in Seq(S) /\ Len(b) = n + 1 - p /\ \A k \in 1 .. n + 1 - p : b[k] = s[p + k - 1]
  OBVIOUS
<1>4. o \in Seq(S) /\ Len(o) = 1 /\ o[1] = e OBVIOUS
<1>5. InsertAt(s, p, e) = y BY DEF InsertAt
<1>6. DOMAIN s = 1 .. n /\ \A k \in 1 .. n : s[k] \in S OBVIOUS
<1> HIDE DEF n, a, b, o
<1>7. /\ x \in Seq(S) /\ Len(x) = p
      /\ \A k \in 1 .. p - 1 : x[k] = s[k]
      /\ x[p] = e
  <2>1. Joins(x, a, o, S) BY <1>2, <1>4, ConcatAt, Zenon
  <2>2. (p - 1) + 1 = p /\ 1 \in 1 .. 1 BY <1>1
  <2> HIDE DEF x
  <2> QED BY <1>2, <1>4, <2>1, <2>2 DEF Joins
<1> HIDE DEF x
<1>8. /\ y \in Seq(S) /\ Len(y) = n + 1
      /\ \A k \in 1 .. p : y[k] = x[k]
      /\ \A k \in 1 .. n + 1 - p : y[p + k] = s[p + k - 1]
  <2>1. Joins(y, x, b, S) BY <1>3, <1>7, ConcatAt, Zenon
  <2>2. p + (n + 1 - p) = n + 1 BY <1>1
  <2> HIDE DEF y
  <2> QED BY <1>3, <1>7, <2>1, <2>2 DEF Joins
<1> HIDE DEF y
<1>9. ASSUME NEW k \in 1 .. n + 1
      PROVE  y[k] = IF k < p THEN s[k] ELSE IF k = p THEN e ELSE s[k - 1]
  <2>1. CASE k < p
    <3>1. k \in 1 .. p - 1 /\ k \in 1 .. p BY <1>1, <2>1
    <3> QED BY <1>7, <1>8, <2>1, <3>1
  <2>2. CASE k = p
    <3>1. k \in 1 .. p /\ ~(k < p) BY <1>1, <2>2
    <3> QED BY <1>7, <1>8, <2>2, <3>1
  <2>3. CASE k > p
    <3>1. k - p \in 1 .. n + 1 - p /\ p + (k - p) = k /\ ~(k < p) /\ k # p BY <1>1, <2>3
    <3> QED BY <1>8, <3>1
  <2> QED BY <1>1, <2>1, <2>2, <2>3
<1>10. y = t
  <2>1. y = [k \in 1 .. n + 1 |-> y[k]]
    <3>1. y \in [1 .. n + 1 -> S] BY <1>8
    <3> QED BY <3>1
  <2> QED BY <1>9, <2>1 DEF n, Inset
<1> HIDE DEF t
<1>11. ToSet(y) = ToSet(s) \cup {e}
  <2>1. DOMAIN y = 1 .. n + 1 BY <1>1, <1>8
  <2>2. ASSUME NEW k \in 1 .. n + 1 PROVE y[k] \in ToSet(s) \cup {e}
    <3>1. CASE k < p
      <4>1. k \in 1 .. n BY <1>1, <3>1
      <4> QED BY <1>6, <1>9, <3>1, <4>1 DEF ToSet
    <3>2. CASE k = p BY <1>1, <1>9, <3>2
    <3>3. CASE k > p
      <4>1. k - 1 \in 1 .. n /\ ~(k < p) /\ k # p BY <1>1, <3>3
      <4> QED BY <1>6, <1>9, <4>1 DEF ToSet
    <3> QED BY <1>1, <3>1, <3>2, <3>3
  <2>3. ASSUME NEW k \in 1 .. n PROVE s[k] \in ToSet(y)
    <3>1. CASE k < p
      <4>1. k \in 1 .. n + 1 BY <1>1, <3>1
      <4> QED BY <1>9, <2>1, <3>1, <4>1 DEF ToSet
    <3>2. CASE ~(k < p)
      <4>1. k + 1 \in 1 .. n + 1 /\ ~(k + 1 < p) /\ k + 1 # p /\ (k + 1) - 1 = k BY <1>1, <3>2
      <4>2. y[k + 1] = s[k] BY <1>9, <4>1
      <4> QED BY <2>1, <4>1, <4>2 DEF ToSet
    <3> QED BY <3>1, <3>2
  <2>4. e \in ToSet(y)
    <3>1. p \in 1 .. n + 1 /\ ~(p < p) BY <1>1
    <3> QED BY <1>9, <2>1, <3>1 DEF ToSet
  <2> QED BY <1>6, <2>1, <2>2, <2>3, <2>4 DEF ToSet
<1> QED BY <1>5, <1>8, <1>10, <1>11 DEF n, t

LEMMA RemoveAtIs ==
    ASSUME NEW S, NEW s \in Seq(S), NEW p \in 1 .. Len(s)
    PROVE  /\ RemoveAt(s, p) \in Seq(S) /\ Len(RemoveAt(s, p)) = Len(s) - 1
           /\ RemoveAt(s, p) = Outset(s, p)
<1> DEFINE n == Len(s)
           a == SubSeq(s, 1, p - 1)
           b == SubSeq(s, p + 1, n)
           y == a \o b
<1>1. n \in Nat /\ p \in 1 .. n /\ n - 1 \in Nat OBVIOUS
<1>2. a \in Seq(S) /\ Len(a) = p - 1 /\ \A k \in 1 .. p - 1 : a[k] = s[k] OBVIOUS
<1>3. b \in Seq(S) /\ Len(b) = n - p /\ \A k \in 1 .. n - p : b[k] = s[p + k] OBVIOUS
<1>4. RemoveAt(s, p) = y BY DEF RemoveAt
<1> HIDE DEF n, a, b
<1>5. /\ y \in Seq(S) /\ Len(y) = n - 1
      /\ \A k \in 1 .. p - 1 : y[k] = s[k]
      /\ \A k \in 1 .. n - p : y[(p - 1) + k] = s[p + k]
  <2>1. Joins(y, a, b, S) BY <1>2, <1>3, ConcatAt, Zenon
  <2>2. (p - 1) + (n - p) = n - 1 BY <1>1
  <2> HIDE DEF y
  <2> QED BY <1>2, <1>3, <2>1, <2>2 DEF Joins
<1> HIDE DEF y
<1>6. ASSUME NEW k \in 1 .. n - 1 PROVE y[k] = IF k < p THEN s[k] ELSE s[k + 1]
  <2>1. CASE k < p
    <3>1. k \in 1 .. p - 1 BY <1>1, <2>1
    <3> QED BY <1>5, <2>1, <3>1
  <2>2. CASE ~(k < p)
    <3>1. (k + 1) - p \in 1 .. n - p /\ p + ((k + 1) - p) = k + 1 /\ (p - 1) + ((k + 1) - p) = k
      BY <1>1, <2>2
    <3>2. y[(p - 1) + ((k + 1) - p)] = s[p + ((k + 1) - p)] BY <1>5, <3>1
    <3> QED BY <2>2, <3>1, <3>2
  <2> QED BY <2>1, <2>2
<1>7. y = Outset(s, p)
  <2>1. y = [k \in 1 .. n - 1 |-> y[k]]
    <3>1. y \in [1 .. n - 1 -> S] BY <1>5
    <3> QED BY <3>1
  <2> QED BY <1>6, <2>1 DEF n, Outset
<1> QED BY <1>4, <1>5, <1>7 DEF n

LEMMA TailOut ==
    ASSUME NEW S, NEW s \in Seq(S), s # <<>>
    PROVE  1 \in 1 .. Len(s) /\ Tail(s) = RemoveAt(s, 1) /\ Head(s) = s[1]
<1>1. Len(s) \in Nat /\ Len(s) # 0 OBVIOUS
<1>2. 1 \in 1 .. Len(s) BY <1>1
<1>3. /\ RemoveAt(s, 1) \in Seq(S) /\ Len(RemoveAt(s, 1)) = Len(s) - 1
      /\ RemoveAt(s, 1) = Outset(s, 1)
  BY <1>2, RemoveAtIs
<1>4. Tail(s) \in Seq(S) /\ Len(Tail(s)) = Len(s) - 1
      /\ \A k \in 1 .. Len(s) - 1 : Tail(s)[k] = s[k + 1]
  OBVIOUS
<1> DEFINE t == Tail(s)
           u == RemoveAt(s, 1)
<1>5. \A k \in 1 .. Len(s) - 1 : u[k] = s[k + 1]
  <2>1. \A k \in 1 .. Len(s) - 1 : ~(k < 1) OBVIOUS
  <2> QED BY <1>3, <2>1 DEF Outset
<1> HIDE DEF t, u
<1>6. t = u BY <1>3, <1>4, <1>5, SameSeq DEF t, u
<1> QED BY <1>2, <1>6 DEF t, u

LEMMA ConsIs ==
    ASSUME NEW S, NEW s \in Seq(S), NEW e \in S
    PROVE  1 \in 1 .. Len(s) + 1 /\ <<e>> \o s = InsertAt(s, 1, e)
<1>1. Len(s) \in Nat OBVIOUS
<1>2. 1 \in 1 .. Len(s) + 1 BY <1>1
<1> DEFINE t == <<e>> \o s
           u == InsertAt(s, 1, e)
<1>3. t = [m \in 1 .. Len(s) + 1 |-> IF m = 1 THEN e ELSE s[m - 1]] BY PutFirst
<1>4. u = Inset(s, 1, e) BY <1>2, InsertAtIs
<1>5. \A k \in 1 .. Len(s) + 1 : ~(k < 1) OBVIOUS
<1> HIDE DEF t, u
<1>6. t = u BY <1>3, <1>4, <1>5 DEF Inset
<1> QED BY <1>2, <1>6 DEF t, u

-----------------------------------------------------------------------------
(***************************************************************************)
(* The paths on which a cell is put in, or taken out.                       *)
(***************************************************************************)
LEMMA FollowsIs ==
    ASSUME NEW es, NEW q, NEW nil, Follows(es, q, nil)
    PROVE  /\ q \in Seq(DOMAIN es) /\ Len(q) \in Nat /\ DOMAIN q = 1 .. Len(q)
           /\ \A k \in 1 .. Len(q) : q[k] \in DOMAIN es
           /\ \A k, m \in 1 .. Len(q) : q[k] = q[m] => k = m
           /\ \A k \in 1 .. Len(q) : es[q[k]].next = After(q, k, nil)
           /\ Start(q, nil) = After(q, 0, nil)
<1>1. q \in Seq(DOMAIN es) BY DEF Follows
<1>2. q = <<>> <=> ~(0 < Len(q)) BY <1>1
<1>3. Start(q, nil) = After(q, 0, nil) BY <1>2 DEF Start, After
<1> QED BY <1>1, <1>3 DEF Follows

LEMMA FollowsSame ==
    ASSUME NEW es, NEW q, NEW nil, Follows(es, q, nil), NEW es2,
           \A e \in ToSet(q) : e \in DOMAIN es2 /\ es2[e].next = es[e].next
    PROVE  Follows(es2, q, nil)
<1>1. /\ q \in Seq(DOMAIN es) /\ Len(q) \in Nat /\ DOMAIN q = 1 .. Len(q)
      /\ \A k, m \in 1 .. Len(q) : q[k] = q[m] => k = m
      /\ \A k \in 1 .. Len(q) : es[q[k]].next = After(q, k, nil)
  BY FollowsIs
<1>2. \A k \in 1 .. Len(q) : q[k] \in DOMAIN es2 /\ es2[q[k]].next = es[q[k]].next
  BY <1>1 DEF ToSet
<1>3. q \in Seq(DOMAIN es2) BY <1>1, <1>2
<1> QED BY <1>1, <1>2, <1>3 DEF Follows

LEMMA FollowsIn ==
    ASSUME NEW es, NEW q, NEW nil, Follows(es, q, nil),
           NEW p \in 1 .. Len(q) + 1, NEW es2, NEW c \in DOMAIN es2,
           c \notin ToSet(q), ToSet(q) \subseteq DOMAIN es2,
           es2[c].next = After(q, p - 1, nil),
           p # 1 => es2[q[p - 1]].next = c,
           \A k \in 1 .. Len(q) : k # p - 1 => es2[q[k]].next = es[q[k]].next
    PROVE  /\ Follows(es2, InsertAt(q, p, c), nil)
           /\ Start(InsertAt(q, p, c), nil) = IF p = 1 THEN c ELSE Start(q, nil)
<1> DEFINE n == Len(q)
           t == InsertAt(q, p, c)
           D == DOMAIN es2
<1>1. /\ n \in Nat /\ DOMAIN q = 1 .. n /\ q \in Seq(DOMAIN es)
      /\ \A k, m \in 1 .. n : q[k] = q[m] => k = m
      /\ \A k \in 1 .. n : es[q[k]].next = After(q, k, nil)
      /\ p \in 1 .. n + 1 /\ p - 1 \in Nat
  BY FollowsIs
<1>2. \A k \in 1 .. n : q[k] \in D /\ q[k] # c BY <1>1 DEF ToSet
<1>3. q \in Seq(D) BY <1>1, <1>2
<1>4. t \in Seq(D) /\ Len(t) = n + 1 /\ t = Inset(q, p, c) BY <1>3, InsertAtIs
<1>5. \A k \in 1 .. n + 1 : t[k] = IF k < p THEN q[k] ELSE IF k = p THEN c ELSE q[k - 1]
  <2> HIDE DEF t
  <2> QED BY <1>4 DEF Inset
<1> DEFINE Old(k) == IF k < p THEN k ELSE k - 1
<1> HIDE DEF t, n, D
<1>6. \A k \in 1 .. n + 1 : k # p => Old(k) \in 1 .. n /\ t[k] = q[Old(k)]
  BY <1>1, <1>5
<1>7. t[p] = c BY <1>1, <1>5
<1>8. \A k, m \in 1 .. n + 1 : k # p /\ m # p /\ Old(k) = Old(m) => k = m BY <1>1
<1>9. ASSUME NEW k \in 1 .. n + 1, NEW m \in 1 .. n + 1, t[k] = t[m] PROVE k = m
  <2> HIDE DEF Old
  <2>1. CASE k # p /\ m # p BY <1>1, <1>6, <1>8, <1>9, <2>1
  <2>2. CASE k = p BY <1>2, <1>6, <1>7, <1>9, <2>2
  <2>3. CASE m = p BY <1>2, <1>6, <1>7, <1>9, <2>3
  <2> QED BY <2>1, <2>2, <2>3
<1>10. ASSUME NEW k \in 1 .. n + 1 PROVE es2[t[k]].next = After(t, k, nil)
  <2>1. CASE k = p
    <3>1. k < n + 1 <=> p - 1 < n BY <1>1, <2>1
    <3>2. (p - 1) + 1 = p BY <1>1
    <3>3. ASSUME k < n + 1 PROVE t[k + 1] = q[p]
      <4>1. k + 1 \in 1 .. n + 1 /\ ~(k + 1 < p) /\ k + 1 # p /\ (k + 1) - 1 = p BY <1>1, <2>1, <3>3
      <4> QED BY <1>5, <4>1
    <3>4. After(t, k, nil) = After(q, p - 1, nil) BY <1>4, <3>1, <3>2, <3>3 DEF After, n
    <3> QED BY <1>7, <2>1, <3>4
  <2>2. CASE k = p - 1
    <3>1. k < p /\ k < n + 1 /\ k + 1 = p /\ p # 1 BY <1>1, <2>2
    <3>2. t[k] = q[p - 1] BY <1>5, <2>2, <3>1
    <3>3. After(t, k, nil) = c BY <1>4, <1>7, <3>1 DEF After
    <3> QED BY <3>1, <3>2, <3>3
  <2>3. CASE k < p - 1
    <3>1. k \in 1 .. n /\ k < p /\ k + 1 < p /\ k + 1 \in 1 .. n + 1 /\ k < n + 1 /\ k < n /\ k # p - 1
      BY <1>1, <2>3
    <3>2. t[k] = q[k] /\ t[k + 1] = q[k + 1] BY <1>5, <3>1
    <3>3. After(t, k, nil) = After(q, k, nil) BY <1>4, <3>1, <3>2 DEF After, n
    <3>4. es2[q[k]].next = es[q[k]].next BY <3>1 DEF n
    <3> QED BY <1>1, <3>1, <3>2, <3>3, <3>4
  <2>4. CASE k > p
    <3>1. /\ k - 1 \in 1 .. n /\ ~(k < p) /\ k # p /\ k - 1 # p - 1
          /\ (k < n + 1 <=> k - 1 < n) /\ (k - 1) + 1 = k
      BY <1>1, <2>4
    <3>2. t[k] = q[k - 1] BY <1>5, <3>1
    <3>3. ASSUME k < n + 1 PROVE t[k + 1] = q[k]
      <4>1. k + 1 \in 1 .. n + 1 /\ ~(k + 1 < p) /\ k + 1 # p /\ (k + 1) - 1 = k BY <1>1, <2>4, <3>3
      <4> QED BY <1>5, <4>1
    <3>4. After(t, k, nil) = After(q, k - 1, nil) BY <1>4, <3>1, <3>3 DEF After, n
    <3>5. es2[q[k - 1]].next = es[q[k - 1]].next BY <3>1 DEF n
    <3> QED BY <1>1, <3>1, <3>2, <3>4, <3>5
  <2>5. k = p \/ k = p - 1 \/ k < p - 1 \/ k > p BY <1>1
  <2> QED BY <2>1, <2>2, <2>3, <2>4, <2>5
<1>11. Follows(es2, t, nil) BY <1>4, <1>9, <1>10 DEF Follows, D
<1>12. Start(t, nil) = IF p = 1 THEN c ELSE Start(q, nil)
  <2>1. t # <<>> BY <1>1, <1>4
  <2>2. CASE p = 1 BY <1>7, <2>1, <2>2 DEF Start
  <2>3. CASE p # 1
    <3>1. 1 < p /\ 1 \in 1 .. n + 1 /\ n # 0 BY <1>1, <2>3
    <3>2. t[1] = q[1] BY <1>5, <3>1
    <3>3. q # <<>> BY <3>1 DEF n
    <3> QED BY <2>1, <2>3, <3>2, <3>3 DEF Start
  <2> QED BY <2>2, <2>3
<1> QED BY <1>11, <1>12 DEF t

LEMMA FollowsOut ==
    ASSUME NEW es, NEW q, NEW nil, Follows(es, q, nil),
           NEW p \in 1 .. Len(q), NEW es2,
           \A k \in 1 .. Len(q) : k # p => q[k] \in DOMAIN es2,
           p # 1 => es2[q[p - 1]].next = After(q, p, nil),
           \A k \in 1 .. Len(q) : k # p - 1 /\ k # p => es2[q[k]].next = es[q[k]].next
    PROVE  /\ Follows(es2, RemoveAt(q, p), nil)
           /\ ToSet(RemoveAt(q, p)) = ToSet(q) \ {q[p]}
           /\ Start(RemoveAt(q, p), nil) = IF p = 1 THEN After(q, 1, nil) ELSE Start(q, nil)
<1> DEFINE n == Len(q)
           t == RemoveAt(q, p)
           D == DOMAIN es2
           Old(k) == IF k < p THEN k ELSE k + 1
<1>1. /\ n \in Nat /\ DOMAIN q = 1 .. n /\ q \in Seq(DOMAIN es)
      /\ \A k, m \in 1 .. n : q[k] = q[m] => k = m
      /\ \A k \in 1 .. n : es[q[k]].next = After(q, k, nil)
      /\ p \in 1 .. n /\ p - 1 \in Nat /\ n - 1 \in Nat
  BY FollowsIs
<1>2. t \in Seq(DOMAIN es) /\ Len(t) = n - 1 /\ t = Outset(q, p) BY <1>1, RemoveAtIs
<1>3. \A k \in 1 .. n - 1 : t[k] = IF k < p THEN q[k] ELSE q[k + 1]
  <2> HIDE DEF t
  <2> QED BY <1>2 DEF Outset
<1>4. \A k \in 1 .. n : k # p => q[k] \in D OBVIOUS
<1> HIDE DEF t, n, D
<1>5. \A k \in 1 .. n - 1 : Old(k) \in 1 .. n /\ Old(k) # p /\ t[k] = q[Old(k)] BY <1>1, <1>3
<1>6. \A k, m \in 1 .. n - 1 : Old(k) = Old(m) => k = m BY <1>1
<1>7. ASSUME NEW k \in 1 .. n - 1, NEW m \in 1 .. n - 1, t[k] = t[m] PROVE k = m
  <2> HIDE DEF Old
  <2> QED BY <1>1, <1>5, <1>6, <1>7
<1>8. t \in Seq(D)
  <2> HIDE DEF Old
  <2>1. \A k \in 1 .. n - 1 : t[k] \in D BY <1>4, <1>5
  <2> QED BY <1>2, <2>1
<1>9. ASSUME NEW k \in 1 .. n - 1 PROVE es2[t[k]].next = After(t, k, nil)
  <2>1. CASE k = p - 1
    <3>1. k < p /\ p # 1 /\ k + 1 = p /\ (k < n - 1 <=> p < n) BY <1>1, <2>1
    <3>2. t[k] = q[p - 1] BY <1>3, <2>1, <3>1
    <3>3. ASSUME k < n - 1 PROVE t[k + 1] = q[p + 1]
      <4>1. k + 1 \in 1 .. n - 1 /\ ~(k + 1 < p) BY <1>1, <2>1, <3>3
      <4> QED BY <1>3, <3>1, <4>1
    <3>4. After(t, k, nil) = After(q, p, nil) BY <1>2, <3>1, <3>3 DEF After, n
    <3> QED BY <3>1, <3>2, <3>4
  <2>2. CASE k < p - 1
    <3>1. k \in 1 .. n /\ k < p /\ k + 1 < p /\ k + 1 \in 1 .. n - 1 /\ k < n - 1 /\ k < n
          /\ k # p - 1 /\ k # p
      BY <1>1, <2>2
    <3>2. t[k] = q[k] /\ t[k + 1] = q[k + 1] BY <1>3, <3>1
    <3>3. After(t, k, nil) = After(q, k, nil) BY <1>2, <3>1, <3>2 DEF After, n
    <3>4. es2[q[k]].next = es[q[k]].next BY <3>1 DEF n
    <3> QED BY <1>1, <3>1, <3>2, <3>3, <3>4
  <2>3. CASE k >= p
    <3>1. /\ k + 1 \in 1 .. n /\ ~(k < p) /\ k + 1 # p - 1 /\ k + 1 # p
          /\ (k < n - 1 <=> k + 1 < n)
      BY <1>1, <2>3
    <3>2. t[k] = q[k + 1] BY <1>3, <3>1
    <3>3. ASSUME k < n - 1 PROVE t[k + 1] = q[(k + 1) + 1]
      <4>1. k + 1 \in 1 .. n - 1 /\ ~(k + 1 < p) BY <1>1, <2>3, <3>3
      <4> QED BY <1>3, <4>1
    <3>4. After(t, k, nil) = After(q, k + 1, nil) BY <1>2, <3>1, <3>3 DEF After, n
    <3>5. es2[q[k + 1]].next = es[q[k + 1]].next BY <3>1 DEF n
    <3> QED BY <1>1, <3>1, <3>2, <3>4, <3>5
  <2>4. k = p - 1 \/ k < p - 1 \/ k >= p BY <1>1
  <2> QED BY <2>1, <2>2, <2>3, <2>4
<1>10. Follows(es2, t, nil) BY <1>2, <1>7, <1>8, <1>9 DEF Follows, D
<1>11. DOMAIN t = 1 .. n - 1 BY <1>1, <1>2
<1>12. ToSet(t) = ToSet(q) \ {q[p]}
  <2>1. ASSUME NEW k \in 1 .. n - 1 PROVE t[k] \in ToSet(q) \ {q[p]}
    <3> HIDE DEF Old
    <3> QED BY <1>1, <1>5 DEF ToSet
  <2>2. ASSUME NEW k \in 1 .. n, k # p PROVE q[k] \in ToSet(t)
    <3>1. CASE k < p
      <4>1. k \in 1 .. n - 1 BY <1>1, <3>1
      <4> QED BY <1>3, <1>11, <3>1, <4>1 DEF ToSet
    <3>2. CASE ~(k < p)
      <4>1. k - 1 \in 1 .. n - 1 /\ ~(k - 1 < p) /\ (k - 1) + 1 = k BY <1>1, <2>2, <3>2
      <4>2. t[k - 1] = q[k] BY <1>3, <4>1
      <4> QED BY <1>11, <4>1, <4>2 DEF ToSet
    <3> QED BY <3>1, <3>2
  <2>3. \A e \in ToSet(t) : e \in ToSet(q) \ {q[p]} BY <1>11, <2>1 DEF ToSet
  <2>4. \A e \in ToSet(q) : e # q[p] => e \in ToSet(t) BY <1>1, <2>2 DEF ToSet
  <2> QED BY <2>3, <2>4, Zenon
<1>13. Start(t, nil) = IF p = 1 THEN After(q, 1, nil) ELSE Start(q, nil)
  <2>1. t = <<>> <=> n = 1 BY <1>1, <1>2
  <2>2. q # <<>> BY <1>1 DEF n
  <2>3. CASE n = 1
    <3>1. p = 1 /\ ~(1 < n) BY <1>1, <2>3
    <3> QED BY <2>1, <2>3, <3>1 DEF Start, After, n
  <2>4. CASE n # 1
    <3>1. 1 \in 1 .. n - 1 /\ 1 < n /\ (1 < p <=> p # 1) BY <1>1, <2>4
    <3>2. t[1] = IF p = 1 THEN q[1 + 1] ELSE q[1] BY <1>3, <3>1
    <3> QED BY <2>1, <2>2, <2>4, <3>1, <3>2 DEF Start, After, n
  <2> QED BY <2>3, <2>4
<1> QED BY <1>10, <1>12, <1>13 DEF t

-----------------------------------------------------------------------------
(***************************************************************************)
(* The paths of which some cells are taken out.                             *)
(***************************************************************************)
(* The first cell of q after its k-th that is in T.                          *)
NextIn(q, k, T, nil) ==
    LET left == {n \in 1 .. Len(q) : q[n] \in T /\ n > k}
    IN IF left = {} THEN nil ELSE q[Min(left)]

LEMMA MinIs ==
    ASSUME NEW R \in SUBSET Nat, NEW x \in R, \A y \in R : x <= y
    PROVE  Min(R) = x
<1>1. Min(R) \in R /\ \A y \in R : Min(R) <= y BY DEF Min
<1> DEFINE m == Min(R)
<1>2. m \in R /\ m <= x /\ x <= m BY <1>1
<1> HIDE DEF m
<1>3. m = x BY <1>2
<1> QED BY <1>3 DEF m

(* Among keeps the order of the terms, and takes each that is in T.          *)
LEMMA AmongOrder ==
    ASSUME NEW S, NEW s \in Seq(S), NEW T
    PROVE  \E at : InOrder(at, Among(s, T), s, Len(s), T)
<1> DEFINE N == Len(s)
<1>1. N \in Nat /\ \A n \in 1 .. N : s[n] \in S OBVIOUS
<1>2. PICK f : Taken(f, s, T, S) BY AmongSteps, Zenon
<1>3. /\ f \in [0 .. N -> Seq(S)]
      /\ f[0] = <<>>
      /\ \A n \in 0 .. N - 1 :
           f[n + 1] = IF s[n + 1] \in T THEN Append(f[n], s[n + 1]) ELSE f[n]
      /\ Among(s, T) = f[N]
  BY <1>2 DEF Taken
<1> HIDE DEF N
<1> DEFINE Right(n) == \E at : InOrder(at, f[n], s, n, T)
           Rs == {n \in Nat : n <= N => Right(n)}
<1>4. 0 \in Rs
  <2> DEFINE at == [k \in 1 .. 0 |-> 0]
             z == <<>>
  <2>1. Len(z) = 0 /\ 1 .. 0 = {} OBVIOUS
  <2>2. at \in [1 .. 0 -> 1 .. 0] BY <2>1
  <2> HIDE DEF at, z
  <2>3. InOrder(at, z, s, 0, T) BY <2>1, <2>2 DEF InOrder
  <2>4. f[0] = z BY <1>3 DEF z
  <2>5. Right(0) BY <2>3, <2>4, Zenon
  <2> HIDE DEF Right
  <2> QED BY <2>5
<1>5. ASSUME NEW n \in Rs PROVE n + 1 \in Rs
  <2>1. n \in Nat /\ n + 1 \in Nat OBVIOUS
  <2>2. ASSUME n + 1 <= N PROVE Right(n + 1)
    <3>1. n \in 0 .. N - 1 /\ n \in 0 .. N /\ n <= N /\ n + 1 \in 1 .. N BY <1>1, <2>1, <2>2
    <3>2. Right(n) BY <3>1
    <3> HIDE DEF Rs
    <3>3. PICK at : InOrder(at, f[n], s, n, T) BY <3>2, Zenon
    <3> DEFINE e == s[n + 1]
               t == f[n]
               l == Len(t)
               u == f[n + 1]
               a2 == [k \in 1 .. l + 1 |-> IF k = l + 1 THEN n + 1 ELSE at[k]]
    <3>4. e \in S /\ t \in Seq(S) /\ l \in Nat /\ n \in Nat BY <1>1, <1>3, <2>1, <3>1
    <3>5. /\ at \in [1 .. l -> 1 .. n]
          /\ \A k, m \in 1 .. l : k < m => at[k] < at[m]
          /\ \A k \in 1 .. l : t[k] = s[at[k]]
          /\ \A i \in 1 .. n : s[i] \in T => \E k \in 1 .. l : at[k] = i
      BY <3>3 DEF InOrder
    <3>6. \A i : i \in 1 .. n + 1 <=> i \in 1 .. n \/ i = n + 1 BY <3>4, UpTo
    <3>7. \A i : i \in 1 .. l + 1 <=> i \in 1 .. l \/ i = l + 1 BY <3>4, UpTo
    <3>8. CASE e \in T
      <4>1. u = Append(t, e) BY <1>3, <3>1, <3>8
      <4>2. Len(u) = l + 1 /\ u = [m \in 1 .. l + 1 |-> IF m <= l THEN t[m] ELSE e]
        BY <3>4, <4>1, AppendIs
      <4> HIDE DEF u, t, l, e
      <4>3. \A k \in 1 .. l : a2[k] = at[k] /\ u[k] = t[k] /\ k # l + 1
        <5>1. \A k \in 1 .. l : k <= l /\ k # l + 1 BY <3>4
        <5> QED BY <3>7, <4>2, <5>1
      <4>4. a2[l + 1] = n + 1 /\ u[l + 1] = e
        <5>1. ~(l + 1 <= l) BY <3>4
        <5> QED BY <3>7, <4>2, <5>1
      <4>5. a2 \in [1 .. l + 1 -> 1 .. n + 1]
        <5>1. \A k \in 1 .. l + 1 : a2[k] \in 1 .. n + 1 BY <3>5, <3>6, <3>7, <4>3, <4>4
        <5> QED BY <5>1
      <4>6. a2 = [k \in 1 .. l + 1 |-> a2[k]] OBVIOUS
      <4> HIDE DEF a2
      <4>7. \A k, m \in 1 .. l + 1 : k < m => a2[k] < a2[m]
        <5> SUFFICES ASSUME NEW k \in 1 .. l + 1, NEW m \in 1 .. l + 1, k < m
                     PROVE  a2[k] < a2[m]
          OBVIOUS
        <5>1. k \in 1 .. l BY <3>4
        <5>2. CASE m \in 1 .. l BY <3>5, <4>3, <5>1, <5>2
        <5>3. CASE m = l + 1
          <6>1. at[k] \in 1 .. n BY <3>5, <5>1
          <6>2. a2[k] = at[k] /\ a2[m] = n + 1 BY <4>3, <4>4, <5>1, <5>3
          <6> QED BY <3>4, <6>1, <6>2
        <5> QED BY <3>7, <5>2, <5>3
      <4>8. \A k \in 1 .. l + 1 : u[k] = s[a2[k]]
        BY <3>5, <3>7, <4>3, <4>4 DEF e
      <4>9. \A i \in 1 .. n + 1 : s[i] \in T => \E k \in 1 .. l + 1 : a2[k] = i
        <5> SUFFICES ASSUME NEW i \in 1 .. n + 1, s[i] \in T
                     PROVE  \E k \in 1 .. l + 1 : a2[k] = i
          OBVIOUS
        <5>1. CASE i = n + 1 BY <3>7, <4>4, <5>1
        <5>2. CASE i \in 1 .. n
          <6>1. PICK k \in 1 .. l : at[k] = i BY <3>5, <5>2
          <6> QED BY <3>7, <4>3, <6>1
        <5> QED BY <3>6, <5>1, <5>2
      <4>10. InOrder(a2, u, s, n + 1, T) BY <4>2, <4>5, <4>7, <4>8, <4>9 DEF InOrder
      <4> QED BY <4>10, Zenon DEF u
    <3>9. CASE e \notin T
      <4>1. u = t BY <1>3, <3>1, <3>9
      <4> HIDE DEF u, t, l
      <4>2. at \in [1 .. l -> 1 .. n + 1]
        <5>1. \A k \in 1 .. l : at[k] \in 1 .. n + 1 BY <3>5, <3>6
        <5> QED BY <3>5, <5>1
      <4>3. \A i \in 1 .. n + 1 : s[i] \in T => \E k \in 1 .. l : at[k] = i
        BY <3>5, <3>6, <3>9
      <4>4. InOrder(at, u, s, n + 1, T) BY <3>5, <4>1, <4>2, <4>3 DEF InOrder, l
      <4> QED BY <4>4, Zenon DEF u
    <3> HIDE DEF Right
    <3> QED BY <3>8, <3>9
  <2> HIDE DEF Right
  <2> QED BY <2>1, <2>2
<1> HIDE DEF Rs
<1>6. Rs \in SUBSET Nat BY DEF Rs
<1>7. Rs = Nat BY <1>4, <1>5, <1>6, Induct
<1>8. Right(N)
  <2>1. N \in Rs /\ N <= N BY <1>1, <1>7
  <2> HIDE DEF Right
  <2> QED BY <2>1 DEF Rs
<1> QED BY <1>3, <1>8 DEF N

(* What Among does not take is as long as s without what it takes.           *)
LEMMA AmongCounts ==
    ASSUME NEW S, NEW s \in Seq(S), NEW T, NEW U, \A x \in S : x \in U <=> x \notin T
    PROVE  Len(Among(s, U)) = Len(s) - Len(Among(s, T))
<1> DEFINE N == Len(s)
<1>1. N \in Nat /\ \A n \in 1 .. N : s[n] \in S OBVIOUS
<1>2. PICK f : Taken(f, s, T, S) BY AmongSteps, Zenon
<1>3. PICK g : Taken(g, s, U, S) BY AmongSteps, Zenon
<1>4. /\ f \in [0 .. N -> Seq(S)] /\ f[0] = <<>>
      /\ \A n \in 0 .. N - 1 :
           f[n + 1] = IF s[n + 1] \in T THEN Append(f[n], s[n + 1]) ELSE f[n]
      /\ Among(s, T) = f[N]
  BY <1>2 DEF Taken
<1>5. /\ g \in [0 .. N -> Seq(S)] /\ g[0] = <<>>
      /\ \A n \in 0 .. N - 1 :
           g[n + 1] = IF s[n + 1] \in U THEN Append(g[n], s[n + 1]) ELSE g[n]
      /\ Among(s, U) = g[N]
  BY <1>3 DEF Taken
<1> HIDE DEF N
<1> DEFINE Right(n) == Len(g[n]) = n - Len(f[n])
           Rs == {n \in Nat : n <= N => Right(n)}
<1>6. 0 \in Rs
  <2> DEFINE z == <<>>
  <2>1. Len(z) = 0 OBVIOUS
  <2>2. f[0] = z /\ g[0] = z BY <1>4, <1>5
  <2> HIDE DEF z
  <2> QED BY <2>1, <2>2
<1>7. ASSUME NEW n \in Rs PROVE n + 1 \in Rs
  <2>1. n \in Nat /\ n + 1 \in Nat OBVIOUS
  <2>2. ASSUME n + 1 <= N PROVE Right(n + 1)
    <3>1. n \in 0 .. N - 1 /\ n \in 0 .. N /\ n <= N /\ n + 1 \in 1 .. N BY <1>1, <2>1, <2>2
    <3>2. Right(n) BY <3>1
    <3> HIDE DEF Rs
    <3>3. s[n + 1] \in S /\ f[n] \in Seq(S) /\ g[n] \in Seq(S) BY <1>1, <1>4, <1>5, <3>1
    <3>4. /\ Len(Append(f[n], s[n + 1])) = Len(f[n]) + 1
          /\ Len(Append(g[n], s[n + 1])) = Len(g[n]) + 1
      BY <3>3, AppendIs
    <3>5. Len(f[n]) \in Nat /\ Len(g[n]) \in Nat BY <3>3
    <3>6. CASE s[n + 1] \in T
      <4>1. Len(f[n + 1]) = Len(f[n]) + 1 /\ Len(g[n + 1]) = Len(g[n])
        BY <1>4, <1>5, <3>1, <3>3, <3>4, <3>6
      <4> QED BY <2>1, <3>2, <3>5, <4>1
    <3>7. CASE s[n + 1] \notin T
      <4>1. Len(f[n + 1]) = Len(f[n]) /\ Len(g[n + 1]) = Len(g[n]) + 1
        BY <1>4, <1>5, <3>1, <3>3, <3>4, <3>7
      <4> QED BY <2>1, <3>2, <3>5, <4>1
    <3> QED BY <3>6, <3>7
  <2> HIDE DEF Right
  <2> QED BY <2>1, <2>2
<1> HIDE DEF Rs
<1>8. Rs \in SUBSET Nat BY DEF Rs
<1>9. Rs = Nat BY <1>6, <1>7, <1>8, Induct
<1>10. Right(N)
  <2>1. N \in Rs /\ N <= N BY <1>1, <1>9
  <2> HIDE DEF Right
  <2> QED BY <2>1 DEF Rs
<1> QED BY <1>4, <1>5, <1>10 DEF N

(* Among of the images is the images of Among.                               *)
Mapped(g, s) == [k \in 1 .. Len(s) |-> g[s[k]]]

LEMMA MappedIs ==
    ASSUME NEW S, NEW A, NEW g \in [S -> A], NEW s \in Seq(S)
    PROVE  Mapped(g, s) \in Seq(A) /\ Len(Mapped(g, s)) = Len(s)
BY DEF Mapped

LEMMA MappedAppend ==
    ASSUME NEW S, NEW A, NEW g \in [S -> A], NEW s \in Seq(S), NEW e \in S
    PROVE  Mapped(g, Append(s, e)) = Append(Mapped(g, s), g[e])
<1> DEFINE l == Len(s)
           m == Mapped(g, s)
           a == Append(s, e)
           x == Mapped(g, a)
           y == Append(m, g[e])
<1>1. l \in Nat OBVIOUS
<1>2. a \in Seq(S) /\ Len(a) = l + 1 /\ a = [k \in 1 .. l + 1 |-> IF k <= l THEN s[k] ELSE e]
  BY AppendIs
<1>3. m \in Seq(A) /\ Len(m) = l /\ g[e] \in A
  <2>1. m \in [1 .. l -> A] BY DEF Mapped
  <2> HIDE DEF m, l
  <2>2. m \in Seq(A) /\ Len(m) = l BY <1>1, <2>1, Listed
  <2> QED BY <2>2
<1>4. y = [k \in 1 .. l + 1 |-> IF k <= l THEN m[k] ELSE g[e]] BY <1>3, AppendIs
<1>5. \A k \in 1 .. l : m[k] = g[s[k]] BY DEF Mapped
<1> HIDE DEF a, m, y
<1>6. x = [k \in 1 .. l + 1 |-> g[a[k]]] BY <1>2 DEF Mapped
<1>7. \A k \in 1 .. l + 1 : g[a[k]] = IF k <= l THEN m[k] ELSE g[e]
  <2>1. \A k \in 1 .. l + 1 : k <= l => k \in 1 .. l BY <1>1
  <2> HIDE DEF l
  <2> QED BY <1>2, <1>5, <2>1
<1> HIDE DEF x, l
<1>8. x = y BY <1>4, <1>6, <1>7
<1> QED BY <1>8 DEF x, y, m, a

LEMMA AmongMapped ==
    ASSUME NEW S, NEW A, NEW g \in [S -> A], NEW s \in Seq(S), NEW T, NEW U,
           \A x \in S : x \in U <=> g[x] \in T
    PROVE  Among(Mapped(g, s), T) = Mapped(g, Among(s, U))
<1> DEFINE N == Len(s)
           r == Mapped(g, s)
<1>1. N \in Nat /\ \A n \in 1 .. N : s[n] \in S OBVIOUS
<1>2. r \in Seq(A) /\ Len(r) = N BY MappedIs
<1>3. \A n \in 1 .. N : r[n] = g[s[n]] BY DEF Mapped
<1> HIDE DEF r
<1>4. PICK f : Taken(f, s, U, S) BY AmongSteps, Zenon
<1>5. PICK h : Taken(h, r, T, A) BY <1>2, AmongSteps, Zenon
<1>6. /\ f \in [0 .. N -> Seq(S)] /\ f[0] = <<>>
      /\ \A n \in 0 .. N - 1 :
           f[n + 1] = IF s[n + 1] \in U THEN Append(f[n], s[n + 1]) ELSE f[n]
      /\ Among(s, U) = f[N]
  BY <1>4 DEF Taken
<1>7. /\ h \in [0 .. N -> Seq(A)] /\ h[0] = <<>>
      /\ \A n \in 0 .. N - 1 :
           h[n + 1] = IF r[n + 1] \in T THEN Append(h[n], r[n + 1]) ELSE h[n]
      /\ Among(r, T) = h[N]
  BY <1>2, <1>5 DEF Taken
<1> HIDE DEF N
<1> DEFINE Right(n) == h[n] = Mapped(g, f[n])
           Rs == {n \in Nat : n <= N => Right(n)}
<1>8. 0 \in Rs
  <2> DEFINE z == <<>>
  <2>1. z \in Seq(S) /\ Len(z) = 0 OBVIOUS
  <2>2. Mapped(g, z) \in Seq(A) /\ Len(Mapped(g, z)) = 0
    <3> HIDE DEF z
    <3>1. ASSUME NEW w \in Seq(S) PROVE Mapped(g, w) \in Seq(A) /\ Len(Mapped(g, w)) = Len(w)
      BY DEF Mapped
    <3> QED BY <2>1, <3>1
  <2>3. Mapped(g, z) = z
    <3> DEFINE y == Mapped(g, z)
    <3> HIDE DEF y
    <3>1. y = <<>> BY <2>2 DEF y
    <3> QED BY <3>1 DEF y
  <2>4. f[0] = z /\ h[0] = z BY <1>6, <1>7
  <2> HIDE DEF z
  <2>5. Right(0) BY <2>3, <2>4
  <2> HIDE DEF Right
  <2> QED BY <2>5
<1>9. ASSUME NEW n \in Rs PROVE n + 1 \in Rs
  <2>1. n \in Nat /\ n + 1 \in Nat OBVIOUS
  <2>2. ASSUME n + 1 <= N PROVE Right(n + 1)
    <3>1. n \in 0 .. N - 1 /\ n \in 0 .. N /\ n <= N /\ n + 1 \in 1 .. N BY <1>1, <2>1, <2>2
    <3>2. h[n] = Mapped(g, f[n]) BY <3>1
    <3> HIDE DEF Rs
    <3>3. s[n + 1] \in S /\ f[n] \in Seq(S) /\ r[n + 1] = g[s[n + 1]] BY <1>1, <1>3, <1>6, <3>1
    <3>4. Mapped(g, Append(f[n], s[n + 1])) = Append(Mapped(g, f[n]), g[s[n + 1]])
      BY <3>3, MappedAppend
    <3>5. s[n + 1] \in U <=> r[n + 1] \in T BY <3>3
    <3>6. /\ f[n + 1] = IF s[n + 1] \in U THEN Append(f[n], s[n + 1]) ELSE f[n]
          /\ h[n + 1] = IF r[n + 1] \in T THEN Append(h[n], r[n + 1]) ELSE h[n]
      BY <1>6, <1>7, <3>1
    <3>7. CASE s[n + 1] \in U BY <3>2, <3>3, <3>4, <3>5, <3>6, <3>7
    <3>8. CASE s[n + 1] \notin U BY <3>2, <3>5, <3>6, <3>8
    <3> QED BY <3>7, <3>8
  <2> HIDE DEF Right
  <2> QED BY <2>1, <2>2
<1> HIDE DEF Rs
<1>10. Rs \in SUBSET Nat BY DEF Rs
<1>11. Rs = Nat BY <1>8, <1>9, <1>10, Induct
<1>12. Right(N)
  <2>1. N \in Rs /\ N <= N BY <1>1, <1>11
  <2> HIDE DEF Right
  <2> QED BY <2>1 DEF Rs
<1> QED BY <1>6, <1>7, <1>12 DEF r

(* From a cell that is kept, the path leads to the next that is kept.        *)
LEMMA FollowsAmong ==
    ASSUME NEW es, NEW q, NEW nil, Follows(es, q, nil), NEW T, NEW es2,
           \A k \in 1 .. Len(q) : q[k] \in T =>
              q[k] \in DOMAIN es2 /\ es2[q[k]].next = NextIn(q, k, T, nil)
    PROVE  /\ Follows(es2, Among(q, T), nil)
           /\ Start(Among(q, T), nil) = NextIn(q, 0, T, nil)
<1> DEFINE n == Len(q)
           t == Among(q, T)
           l == Len(t)
           D == DOMAIN es2
<1>1. /\ n \in Nat /\ DOMAIN q = 1 .. n /\ q \in Seq(DOMAIN es)
      /\ \A k, m \in 1 .. n : q[k] = q[m] => k = m
  BY FollowsIs
<1>2. PICK at : InOrder(at, t, q, n, T) BY <1>1, AmongOrder, Zenon
<1>3. t \in Seq(DOMAIN es) /\ ToSet(t) = ToSet(q) \cap T BY <1>1, AmongIs
<1>4. l \in Nat /\ DOMAIN t = 1 .. l BY <1>3
<1>5. /\ at \in [1 .. l -> 1 .. n]
      /\ \A k, m \in 1 .. l : k < m => at[k] < at[m]
      /\ \A k \in 1 .. l : t[k] = q[at[k]]
      /\ \A k \in 1 .. n : q[k] \in T => \E m \in 1 .. l : at[m] = k
  BY <1>2 DEF InOrder
<1>6. \A k \in 1 .. l : t[k] \in T BY <1>3, <1>4 DEF ToSet
<1> HIDE DEF t, l, n, D
<1>7. ASSUME NEW k \in 0 .. l, NEW j \in Nat, j = IF k = 0 THEN 0 ELSE at[k]
      PROVE  NextIn(q, j, T, nil) = After(t, k, nil)
  <2> DEFINE left == {m \in 1 .. n : q[m] \in T /\ m > j}
  <2>1. ASSUME NEW m \in 1 .. l, m > k PROVE at[m] \in left
    <3>1. at[m] \in 1 .. n /\ q[at[m]] \in T BY <1>5, <1>6
    <3>2. at[m] > j
      <4>1. CASE k = 0 BY <1>7, <3>1, <4>1
      <4>2. CASE k # 0
        <5>1. k \in 1 .. l /\ k < m BY <1>4, <2>1, <4>2
        <5>2. at[k] < at[m] BY <1>5, <5>1
        <5> QED BY <1>7, <3>1, <4>2, <5>2
      <4> QED BY <4>1, <4>2
    <3> QED BY <3>1, <3>2
  <2>2. ASSUME NEW i \in left PROVE \E m \in 1 .. l : m > k /\ at[m] = i
    <3>1. PICK m \in 1 .. l : at[m] = i BY <1>5
    <3>2. m > k
      <4> SUFFICES ASSUME ~(m > k) PROVE FALSE OBVIOUS
      <4>1. k \in 1 .. l /\ (m = k \/ m < k) BY <1>4
      <4>2. j = at[k] /\ at[k] \in 1 .. n /\ at[m] \in 1 .. n BY <1>5, <1>7, <4>1
      <4>3. CASE m = k BY <3>1, <4>2, <4>3
      <4>4. CASE m < k
        <5>1. at[m] < at[k] BY <1>5, <4>1, <4>4
        <5> QED BY <3>1, <4>2, <5>1
      <4> QED BY <4>1, <4>3, <4>4
    <3> QED BY <3>1, <3>2
  <2>3. left \in SUBSET Nat OBVIOUS
  <2>4. NextIn(q, j, T, nil) = IF left = {} THEN nil ELSE q[Min(left)] BY DEF NextIn, n
  <2> HIDE DEF left
  <2>5. CASE k < l
    <3>1. k + 1 \in 1 .. l /\ k + 1 > k BY <1>4, <2>5
    <3>2. at[k + 1] \in left BY <2>1, <3>1
    <3>3. ASSUME NEW i \in left PROVE at[k + 1] <= i
      <4>1. PICK m \in 1 .. l : m > k /\ at[m] = i BY <2>2
      <4>2. m = k + 1 \/ k + 1 < m BY <1>4, <4>1
      <4>3. at[k + 1] \in Nat /\ i \in Nat BY <2>3, <3>2
      <4>4. CASE m = k + 1 BY <4>1, <4>3, <4>4
      <4>5. CASE k + 1 < m
        <5>1. at[k + 1] < at[m] BY <1>5, <3>1, <4>5
        <5> QED BY <4>1, <4>3, <5>1
      <4> QED BY <4>2, <4>4, <4>5
    <3>4. Min(left) = at[k + 1] BY <2>3, <3>2, <3>3, MinIs
    <3>5. After(t, k, nil) = t[k + 1] BY <2>5 DEF After, l
    <3> QED BY <1>5, <2>4, <3>1, <3>2, <3>4, <3>5
  <2>6. CASE ~(k < l)
    <3>1. left = {} BY <1>4, <2>2, <2>6
    <3>2. After(t, k, nil) = nil BY <2>6 DEF After, l
    <3> QED BY <2>4, <3>1, <3>2
  <2> QED BY <2>5, <2>6
<1>8. ASSUME NEW k \in 1 .. l PROVE t[k] \in D /\ es2[t[k]].next = After(t, k, nil)
  <2>1. at[k] \in 1 .. n /\ t[k] = q[at[k]] /\ q[at[k]] \in T BY <1>5, <1>6
  <2>2. q[at[k]] \in D /\ es2[q[at[k]]].next = NextIn(q, at[k], T, nil) BY <2>1 DEF n, D
  <2>3. k \in 0 .. l /\ k # 0 /\ at[k] \in Nat BY <1>4, <2>1
  <2>4. NextIn(q, at[k], T, nil) = After(t, k, nil) BY <1>7, <2>3
  <2> QED BY <2>1, <2>2, <2>4
<1>9. ASSUME NEW k \in 1 .. l, NEW m \in 1 .. l, t[k] = t[m] PROVE k = m
  <2>1. at[k] \in 1 .. n /\ at[m] \in 1 .. n /\ q[at[k]] = q[at[m]] BY <1>5, <1>9
  <2>2. at[k] = at[m] BY <1>1, <2>1
  <2>3. ~(k < m) /\ ~(m < k)
    <3>1. ASSUME k < m PROVE FALSE
      <4>1. at[k] < at[m] BY <1>5, <3>1
      <4> QED BY <2>1, <2>2, <4>1
    <3>2. ASSUME m < k PROVE FALSE
      <4>1. at[m] < at[k] BY <1>5, <3>2
      <4> QED BY <2>1, <2>2, <4>1
    <3> QED BY <3>1, <3>2
  <2> QED BY <1>4, <2>3
<1>10. t \in Seq(D) BY <1>3, <1>4, <1>8 DEF l
<1>11. Follows(es2, t, nil) BY <1>8, <1>9, <1>10 DEF Follows, D, l
<1>12. Start(t, nil) = NextIn(q, 0, T, nil)
  <2>1. NextIn(q, 0, T, nil) = After(t, 0, nil)
    <3>1. 0 \in 0 .. l BY <1>4
    <3> QED BY <1>7, <3>1
  <2>2. Start(t, nil) = After(t, 0, nil) BY <1>11, FollowsIs
  <2> QED BY <2>1, <2>2
<1> QED BY <1>11, <1>12 DEF t

LEMMA MappedSame ==
    ASSUME NEW S, NEW s \in Seq(S), NEW g, NEW h, \A e \in S : g[e] = h[e]
    PROVE  Mapped(g, s) = Mapped(h, s)
<1>1. \A k \in 1 .. Len(s) : g[s[k]] = h[s[k]] OBVIOUS
<1> QED BY <1>1 DEF Mapped

LEMMA MappedIn ==
    ASSUME NEW S, NEW A, NEW g \in [S -> A], NEW s \in Seq(S), NEW p \in 1 .. Len(s) + 1, NEW e \in S
    PROVE  Mapped(g, InsertAt(s, p, e)) = InsertAt(Mapped(g, s), p, g[e])
<1> DEFINE n == Len(s)
           r == Mapped(g, s)
           t == InsertAt(s, p, e)
           u == InsertAt(r, p, g[e])
<1>0. n \in Nat OBVIOUS
<1>1. ASSUME NEW w \in Seq(S) PROVE Mapped(g, w) \in Seq(A) /\ Len(Mapped(g, w)) = Len(w)
  BY DEF Mapped
<1>2. r \in Seq(A) /\ Len(r) = n /\ g[e] \in A BY <1>1
<1>3. t \in Seq(S) /\ Len(t) = n + 1 /\ t = Inset(s, p, e) BY InsertAtIs
<1>4. \A k \in 1 .. n : r[k] = g[s[k]] BY DEF Mapped
<1> HIDE DEF r
<1>5. u = Inset(r, p, g[e]) BY <1>2, InsertAtIs
<1> HIDE DEF t, u
<1>6. Mapped(g, t) = [k \in 1 .. n + 1 |-> g[t[k]]] BY <1>3 DEF Mapped
<1>7. u = [k \in 1 .. n + 1 |-> IF k < p THEN r[k] ELSE IF k = p THEN g[e] ELSE r[k - 1]]
  BY <1>2, <1>5 DEF Inset
<1>8. ASSUME NEW k \in 1 .. n + 1
      PROVE  g[t[k]] = IF k < p THEN r[k] ELSE IF k = p THEN g[e] ELSE r[k - 1]
  <2>1. t[k] = IF k < p THEN s[k] ELSE IF k = p THEN e ELSE s[k - 1] BY <1>3 DEF Inset
  <2>2. (k < p => k \in 1 .. n) /\ (~(k < p) /\ k # p => k - 1 \in 1 .. n) BY <1>0
  <2> HIDE DEF n
  <2> QED BY <1>4, <2>1, <2>2
<1> HIDE DEF n
<1>9. Mapped(g, t) = u BY <1>6, <1>7, <1>8
<1> QED BY <1>9 DEF t, u, r

LEMMA MappedOut ==
    ASSUME NEW S, NEW g, NEW s \in Seq(S), NEW p \in 1 .. Len(s)
    PROVE  Mapped(g, RemoveAt(s, p)) = RemoveAt(Mapped(g, s), p)
<1> DEFINE n == Len(s)
           A == {g[x] : x \in S}
           r == Mapped(g, s)
           t == RemoveAt(s, p)
           u == RemoveAt(r, p)
<1>0. n \in Nat OBVIOUS
<1>1. r \in [1 .. n -> A] BY DEF Mapped
<1>2. r \in Seq(A) /\ Len(r) = n
  <2> HIDE DEF r, n, A
  <2> QED BY <1>0, <1>1, Listed
<1>3. t \in Seq(S) /\ Len(t) = n - 1 /\ t = Outset(s, p) BY RemoveAtIs
<1>4. \A k \in 1 .. n : r[k] = g[s[k]] BY DEF Mapped
<1> HIDE DEF r
<1>5. u = Outset(r, p) BY <1>2, RemoveAtIs
<1> HIDE DEF t, u
<1>6. Mapped(g, t) = [k \in 1 .. n - 1 |-> g[t[k]]] BY <1>3 DEF Mapped
<1>7. u = [k \in 1 .. n - 1 |-> IF k < p THEN r[k] ELSE r[k + 1]] BY <1>2, <1>5 DEF Outset
<1>8. ASSUME NEW k \in 1 .. n - 1 PROVE  g[t[k]] = IF k < p THEN r[k] ELSE r[k + 1]
  <2>1. t[k] = IF k < p THEN s[k] ELSE s[k + 1] BY <1>3 DEF Outset
  <2>2. k \in 1 .. n /\ k + 1 \in 1 .. n BY <1>0
  <2> HIDE DEF n
  <2> QED BY <1>4, <2>1, <2>2
<1> HIDE DEF n
<1>9. Mapped(g, t) = u BY <1>6, <1>7, <1>8
<1> QED BY <1>9 DEF t, u, r

LEMMA MinOf ==
    ASSUME NEW S \in SUBSET Nat, S # {}
    PROVE  Min(S) \in S /\ \A k \in S : Min(S) <= k
<1>1. \E x \in S : \A k \in S : x <= k BY Least
<1> QED BY <1>1 DEF Min
-----------------------------------------------------------------------------
(***************************************************************************)
(* Among and Mapped of sequences put together.                              *)
(***************************************************************************)
LEMMA AmongAppend ==
    ASSUME NEW S, NEW s \in Seq(S), NEW e \in S, NEW T
    PROVE  Among(Append(s, e), T) = IF e \in T THEN Append(Among(s, T), e) ELSE Among(s, T)
<1> DEFINE N == Len(s)
           t == Append(s, e)
<1>1. /\ N \in Nat /\ t \in Seq(S) /\ Len(t) = N + 1 /\ t[N + 1] = e
      /\ \A n \in 1 .. N : t[n] = s[n]
  BY AppendProperties
<1>2. PICK f : Taken(f, t, T, S) BY <1>1, AmongSteps, Zenon
<1>3. PICK h : Taken(h, s, T, S) BY AmongSteps, Zenon
<1> HIDE DEF t
<1>4. /\ f[0] = <<>> /\ Among(t, T) = f[N + 1]
      /\ \A n \in 0 .. N : f[n + 1] = IF t[n + 1] \in T THEN Append(f[n], t[n + 1]) ELSE f[n]
  BY <1>1, <1>2 DEF Taken
<1>5. /\ h[0] = <<>> /\ Among(s, T) = h[N]
      /\ \A n \in 0 .. N - 1 : h[n + 1] = IF s[n + 1] \in T THEN Append(h[n], s[n + 1]) ELSE h[n]
  BY <1>3 DEF Taken
<1> HIDE DEF N
<1> DEFINE Same == {n \in Nat : n <= N => f[n] = h[n]}
<1>6. Same = Nat
  <2>1. 0 \in Same BY <1>4, <1>5
  <2>2. ASSUME NEW n \in Same PROVE n + 1 \in Same
    <3>1. n \in Nat /\ n + 1 \in Nat OBVIOUS
    <3> SUFFICES ASSUME n + 1 <= N PROVE f[n + 1] = h[n + 1] BY <3>1
    <3>2. n \in 0 .. N /\ n \in 0 .. N - 1 /\ n + 1 \in 1 .. N /\ n <= N BY <1>1, <3>1
    <3>3. f[n] = h[n] BY <3>2
    <3> HIDE DEF Same
    <3>4. t[n + 1] = s[n + 1] BY <1>1, <3>2
    <3> QED BY <1>4, <1>5, <3>2, <3>3, <3>4
  <2>3. Same \in SUBSET Nat OBVIOUS
  <2> HIDE DEF Same
  <2> QED BY <2>1, <2>2, <2>3, Induct
<1>7. f[N] = h[N]
  <2>1. N \in Same /\ N <= N BY <1>1, <1>6
  <2> QED BY <2>1
<1>8. N \in 0 .. N BY <1>1
<1>9. f[N + 1] = IF t[N + 1] \in T THEN Append(f[N], t[N + 1]) ELSE f[N] BY <1>4, <1>8
<1> QED BY <1>1, <1>4, <1>5, <1>7, <1>9 DEF t

LEMMA AmongNone ==
    ASSUME NEW S, NEW s \in Seq(S), NEW T
    PROVE  /\ Among(s, T) = <<>> <=> ToSet(s) \cap T = {}
           /\ Among(<<>>, T) = <<>>
<1>1. Among(s, T) \in Seq(S) /\ ToSet(Among(s, T)) = ToSet(s) \cap T BY AmongIs
<1> DEFINE a == Among(s, T)
<1> HIDE DEF a
<1>2. a \in Seq(S) BY <1>1 DEF a
<1>3. a = <<>> => ToSet(a) = {} BY DEF ToSet
<1>4. ToSet(a) = {} => a = <<>>
  <2> SUFFICES ASSUME a # <<>> PROVE ToSet(a) # {} OBVIOUS
  <2>1. 1 \in DOMAIN a BY <1>2
  <2>2. a[1] \in ToSet(a) BY <2>1 DEF ToSet
  <2> QED BY <2>2
<1>5. <<>> \in Seq({}) /\ Len(<<>>) = 0 OBVIOUS
<1>6. PICK f : Taken(f, <<>>, T, {}) BY <1>5, AmongSteps, Zenon
<1>7. Among(<<>>, T) = <<>> BY <1>5, <1>6 DEF Taken
<1> QED BY <1>1, <1>3, <1>4, <1>7 DEF a

LEMMA AmongConcat ==
    ASSUME NEW S, NEW a \in Seq(S), NEW b0 \in Seq(S), NEW T
    PROVE  Among(a \o b0, T) = Among(a, T) \o Among(b0, T)
<1> DEFINE Good(b) == Among(a \o b, T) = Among(a, T) \o Among(b, T)
           R == {n \in Nat : \A b \in Seq(S) : Len(b) = n => Good(b)}
<1>1. \A b \in Seq(S) : Among(b, T) \in Seq(S) BY AmongIs
<1>2. 0 \in R
  <2> SUFFICES ASSUME NEW b \in Seq(S), Len(b) = 0 PROVE Good(b) OBVIOUS
  <2>1. b = <<>> OBVIOUS
  <2>2. a \o b = a /\ Among(b, T) = <<>> BY <2>1, ConcatEmptySeq, AmongNone
  <2>3. Among(a, T) \o <<>> = Among(a, T) BY <1>1, ConcatEmptySeq
  <2> QED BY <2>2, <2>3
<1>3. ASSUME NEW n \in R PROVE n + 1 \in R
  <2> SUFFICES ASSUME NEW b \in Seq(S), Len(b) = n + 1 PROVE Good(b) OBVIOUS
  <2>0. n \in Nat OBVIOUS
  <2>1. b # <<>> BY <2>0
  <2>2. PICK c \in Seq(S), e \in S : b = Append(c, e) BY <2>1, SequenceEmptyOrAppend
  <2>3. Len(c) = n
    <3>1. Len(b) = Len(c) + 1 BY <2>2, AppendProperties
    <3>2. Len(c) \in Nat OBVIOUS
    <3> QED BY <2>0, <3>1, <3>2
  <2>4. Among(a \o c, T) = Among(a, T) \o Among(c, T) BY <2>3
  <2> DEFINE ac == a \o c
             x == Among(a, T)
             y == Among(c, T)
  <2>5. ac \in Seq(S) /\ x \in Seq(S) /\ y \in Seq(S) BY <1>1, ConcatProperties
  <2>6. a \o b = Append(ac, e)
    <3>1. <<e>> \in Seq(S) OBVIOUS
    <3>2. b = c \o <<e>> BY <2>2, AppendIsConcat
    <3>3. a \o (c \o <<e>>) = (a \o c) \o <<e>> BY <3>1, ConcatAssociative
    <3>4. Append(ac, e) = ac \o <<e>> BY <2>5, AppendIsConcat
    <3> QED BY <3>2, <3>3, <3>4
  <2>7. Among(b, T) = IF e \in T THEN Append(y, e) ELSE y BY <2>2, AmongAppend
  <2> HIDE DEF ac
  <2>8. Among(Append(ac, e), T) = IF e \in T THEN Append(Among(ac, T), e) ELSE Among(ac, T)
    BY <2>5, AmongAppend
  <2>9. x \o Append(y, e) = Append(x \o y, e)
    <3> HIDE DEF x, y
    <3>1. <<e>> \in Seq(S) /\ x \o y \in Seq(S) BY <2>5, ConcatProperties
    <3>2. Append(y, e) = y \o <<e>> BY <2>5, AppendIsConcat
    <3>3. x \o (y \o <<e>>) = (x \o y) \o <<e>> BY <2>5, <3>1, ConcatAssociative
    <3>4. Append(x \o y, e) = (x \o y) \o <<e>> BY <3>1, AppendIsConcat
    <3> QED BY <3>2, <3>3, <3>4
  <2>10. Among(ac, T) = x \o y BY <2>4 DEF ac
  <2> HIDE DEF x, y
  <2>11. Among(a \o b, T) = x \o Among(b, T)
    <3>1. CASE e \in T BY <2>6, <2>7, <2>8, <2>9, <2>10, <3>1
    <3>2. CASE e \notin T BY <2>6, <2>7, <2>8, <2>10, <3>2
    <3> QED BY <3>1, <3>2
  <2> QED BY <2>11 DEF x
<1>4. R = Nat
  <2>1. R \in SUBSET Nat OBVIOUS
  <2> HIDE DEF R
  <2> QED BY <1>2, <1>3, <2>1, Induct
<1>5. Len(b0) \in Nat OBVIOUS
<1>6. Len(b0) \in R BY <1>4, <1>5
<1> HIDE DEF Good
<1>7. Good(b0) BY <1>6
<1> QED BY <1>7 DEF Good

LEMMA AmongOne ==
    ASSUME NEW e, NEW T
    PROVE  Among(<<e>>, T) = IF e \in T THEN <<e>> ELSE <<>>
<1>1. <<>> \in Seq({e}) /\ e \in {e} OBVIOUS
<1>2. Append(<<>>, e) = <<e>> OBVIOUS
<1>3. Among(Append(<<>>, e), T) = IF e \in T THEN Append(Among(<<>>, T), e) ELSE Among(<<>>, T)
  BY <1>1, AmongAppend
<1>4. Among(<<>>, T) = <<>> BY <1>1, AmongNone
<1> QED BY <1>2, <1>3, <1>4

LEMMA AmongAgree ==
    ASSUME NEW S, NEW s \in Seq(S), NEW T, NEW U, \A x \in S : x \in T <=> x \in U
    PROVE  Among(s, T) = Among(s, U)
<1> DEFINE g == [x \in S |-> x]
<1>1. g \in [S -> S] OBVIOUS
<1>0. \A x \in S : x \in U <=> g[x] \in T OBVIOUS
<1>2. \A t \in Seq(S) : Mapped(g, t) = t
  <2> SUFFICES ASSUME NEW t \in Seq(S) PROVE Mapped(g, t) = t OBVIOUS
  <2>1. \A k \in 1 .. Len(t) : g[t[k]] = t[k] OBVIOUS
  <2>2. t = [k \in 1 .. Len(t) |-> t[k]] OBVIOUS
  <2> HIDE DEF g
  <2> QED BY <2>1, <2>2 DEF Mapped
<1> HIDE DEF g
<1>3. ASSUME NEW V, NEW W, \A x \in S : x \in W <=> g[x] \in V
      PROVE  Among(Mapped(g, s), V) = Mapped(g, Among(s, W))
  BY <1>1, <1>3, AmongMapped
<1>5. Among(Mapped(g, s), T) = Mapped(g, Among(s, U)) BY <1>0, <1>3, Zenon
<1>4. Among(s, U) \in Seq(S) BY AmongIs
<1> QED BY <1>2, <1>4, <1>5

LEMMA MappedLen ==
    ASSUME NEW S, NEW g, NEW s \in Seq(S)
    PROVE  Mapped(g, s) \in Seq({g[x] : x \in S}) /\ Len(Mapped(g, s)) = Len(s)
<1> DEFINE n == Len(s)
           A == {g[x] : x \in S}
           r == Mapped(g, s)
<1>1. n \in Nat /\ r \in [1 .. n -> A] BY DEF Mapped
<1> HIDE DEF r, n, A
<1>2. r \in Seq(A) /\ Len(r) = n BY <1>1, Listed
<1> QED BY <1>2 DEF r, n, A

LEMMA MappedConcat ==
    ASSUME NEW S, NEW g, NEW a \in Seq(S), NEW b \in Seq(S)
    PROVE  Mapped(g, a \o b) = Mapped(g, a) \o Mapped(g, b)
<1> DEFINE A == {g[x] : x \in S}
           j == a \o b
           x == Mapped(g, a)
           y == Mapped(g, b)
           l == Len(a)
           n == Len(a) + Len(b)
           z == x \o y
           w == Mapped(g, j)
<1>1. /\ j \in Seq(S) /\ Len(j) = n /\ l \in Nat /\ Len(b) \in Nat
      /\ \A i \in 1 .. n : j[i] = IF i <= l THEN a[i] ELSE b[i - l]
  BY ConcatProperties
<1>0. \A q \in Seq(S) : Mapped(g, q) \in Seq(A) /\ Len(Mapped(g, q)) = Len(q) BY MappedLen
<1> HIDE DEF A
<1>2. x \in Seq(A) /\ Len(x) = l /\ y \in Seq(A) /\ Len(y) = Len(b) BY <1>0
<1>3. (\A i \in 1 .. l : x[i] = g[a[i]]) /\ (\A i \in 1 .. Len(b) : y[i] = g[b[i]]) BY DEF Mapped
<1> HIDE DEF x, y, j
<1>4. /\ z \in Seq(A) /\ Len(z) = n
      /\ \A i \in 1 .. n : z[i] = IF i <= l THEN x[i] ELSE y[i - l]
  <2>1. /\ z \in Seq(A) /\ Len(z) = Len(x) + Len(y)
        /\ \A i \in 1 .. Len(x) + Len(y) : z[i] = IF i <= Len(x) THEN x[i] ELSE y[i - Len(x)]
    BY <1>2, ConcatProperties
  <2> QED BY <1>2, <2>1
<1>5. w \in Seq(A) /\ Len(w) = n BY <1>0, <1>1
<1>6. \A i \in 1 .. n : w[i] = g[j[i]] BY <1>1 DEF Mapped
<1> HIDE DEF z, w
<1>7. ASSUME NEW i \in 1 .. n PROVE w[i] = z[i]
  <2>0. w[i] = g[j[i]] /\ (i <= l => j[i] = a[i] /\ z[i] = x[i])
                      /\ (~(i <= l) => j[i] = b[i - l] /\ z[i] = y[i - l])
    BY <1>1, <1>4, <1>6
  <2>1. CASE i <= l
    <3>1. i \in 1 .. l BY <1>1, <2>1
    <3> QED BY <1>3, <2>0, <2>1, <3>1
  <2>2. CASE ~(i <= l)
    <3>1. i - l \in 1 .. Len(b) BY <1>1, <2>2
    <3> QED BY <1>3, <2>0, <2>2, <3>1
  <2> QED BY <2>1, <2>2
<1> HIDE DEF n
<1>8. w = z BY <1>4, <1>5, <1>7, SameSeq
<1> QED BY <1>8 DEF w, z, j, x, y

LEMMA ReverseIs ==
    ASSUME NEW S, NEW s \in Seq(S)
    PROVE  /\ Reverse(s) \in Seq(S) /\ Len(Reverse(s)) = Len(s)
           /\ \A i \in 1 .. Len(s) : Reverse(s)[i] = s[(Len(s) - i) + 1]
           /\ Reverse(Reverse(s)) = s
<1> DEFINE n == Len(s)
           r == Reverse(s)
           t == Reverse(r)
<1>1. n \in Nat OBVIOUS
<1>2. r \in Seq(S) /\ Len(r) = n BY Reversed
<1>3. \A i \in 1 .. n : r[i] = s[(n - i) + 1] BY DEF Reverse
<1> HIDE DEF r
<1>4. t \in Seq(S) /\ Len(t) = n BY <1>2, Reversed
<1>5. \A i \in 1 .. n : t[i] = r[(n - i) + 1] BY <1>2 DEF Reverse
<1> HIDE DEF t
<1>6. ASSUME NEW i \in 1 .. n PROVE t[i] = s[i]
  <2>1. (n - i) + 1 \in 1 .. n /\ (n - ((n - i) + 1)) + 1 = i BY <1>1
  <2> QED BY <1>3, <1>5, <2>1
<1>7. t = s BY <1>4, <1>6, SameSeq
<1> QED BY <1>2, <1>3, <1>7 DEF r, t

LEMMA ReverseCons ==
    ASSUME NEW S, NEW s \in Seq(S), NEW e \in S
    PROVE  Reverse(<<e>> \o s) = Reverse(s) \o <<e>> /\ Reverse(<<>>) = <<>>
<1> DEFINE n == Len(s)
           o == <<e>>
           c == o \o s
           v == Reverse(c)
           r == Reverse(s)
           w == r \o o
<1>1. n \in Nat /\ o \in Seq(S) /\ Len(o) = 1 /\ o[1] = e OBVIOUS
<1> HIDE DEF o
<1>2. /\ c \in Seq(S) /\ Len(c) = 1 + n
      /\ \A i \in 1 .. 1 + n : c[i] = IF i <= 1 THEN o[i] ELSE s[i - 1]
  <2>1. /\ c \in Seq(S) /\ Len(c) = Len(o) + Len(s)
        /\ \A i \in 1 .. Len(o) + Len(s) : c[i] = IF i <= Len(o) THEN o[i] ELSE s[i - Len(o)]
    BY <1>1, ConcatProperties
  <2> QED BY <1>1, <2>1
<1> HIDE DEF c
<1>3. /\ v \in Seq(S) /\ Len(v) = 1 + n
      /\ \A i \in 1 .. 1 + n : v[i] = c[((1 + n) - i) + 1]
  BY <1>2, ReverseIs
<1>4. r \in Seq(S) /\ Len(r) = n /\ \A i \in 1 .. n : r[i] = s[(n - i) + 1] BY ReverseIs
<1> HIDE DEF r, v
<1>5. /\ w \in Seq(S) /\ Len(w) = n + 1
      /\ \A i \in 1 .. n + 1 : w[i] = IF i <= n THEN r[i] ELSE o[i - n]
  <2>1. /\ w \in Seq(S) /\ Len(w) = Len(r) + Len(o)
        /\ \A i \in 1 .. Len(r) + Len(o) : w[i] = IF i <= Len(r) THEN r[i] ELSE o[i - Len(r)]
    BY <1>1, <1>4, ConcatProperties
  <2> QED BY <1>1, <1>4, <2>1
<1> HIDE DEF w
<1>6. ASSUME NEW i \in 1 .. n + 1 PROVE v[i] = w[i]
  <2>1. ((1 + n) - i) + 1 \in 1 .. 1 + n /\ (((1 + n) - i) + 1) - 1 = (n - i) + 1 BY <1>1
  <2>2. v[i] = c[((1 + n) - i) + 1] BY <1>1, <1>3
  <2>3. CASE i <= n
    <3>1. ~(((1 + n) - i) + 1 <= 1) /\ i \in 1 .. n BY <1>1, <2>3
    <3>2. v[i] = s[(n - i) + 1] BY <1>2, <2>1, <2>2, <3>1
    <3> QED BY <1>4, <1>5, <2>3, <3>1, <3>2
  <2>4. CASE ~(i <= n)
    <3>1. ((1 + n) - i) + 1 = 1 /\ i - n = 1 BY <1>1, <2>4
    <3>2. v[i] = o[1] BY <1>2, <2>1, <2>2, <3>1
    <3> QED BY <1>5, <2>4, <3>1, <3>2
  <2> QED BY <2>3, <2>4
<1>7. Len(v) = n + 1 /\ Len(w) = n + 1 BY <1>1, <1>3, <1>5
<1>8. v = w BY <1>3, <1>5, <1>6, <1>7, SameSeq
<1>9. Reverse(<<>>) = <<>>
  <2>1. <<>> \in Seq(S) /\ Len(<<>>) = 0 OBVIOUS
  <2> DEFINE x == Reverse(<<>>)
  <2>2. x \in Seq(S) /\ Len(x) = 0 BY <2>1, Reversed
  <2> HIDE DEF x
  <2>3. x = <<>> BY <2>2
  <2> QED BY <2>3 DEF x
<1> QED BY <1>8, <1>9 DEF v, w, c, r, o

(* s is taken apart at p.                                                    *)
Parts(s, p, a, b) ==
    /\ s = a \o (<<s[p]>> \o b) /\ RemoveAt(s, p) = a \o b
    /\ \A e \in ToSet(a) : \E n \in 1 .. p - 1 : e = s[n]

LEMMA Cut ==
    ASSUME NEW S, NEW s \in Seq(S), NEW p \in 1 .. Len(s)
    PROVE  \E a, b \in Seq(S) : Parts(s, p, a, b)
<1> DEFINE n == Len(s)
           a == SubSeq(s, 1, p - 1)
           b == SubSeq(s, p + 1, n)
<1>1. n \in Nat /\ p \in 1 .. n OBVIOUS
<1>2. a \in Seq(S) /\ DOMAIN a = 1 .. p - 1 /\ \A k \in 1 .. p - 1 : a[k] = s[k] OBVIOUS
<1>3. b \in Seq(S) OBVIOUS
<1>4. RemoveAt(s, p) = a \o b BY DEF RemoveAt
<1>5. s = a \o (<<s[p]>> \o b)
  <2>1. SubSeq(s, p, n) = <<s[p]>> \o b
    <3>1. n \in p .. n BY <1>1
    <3> QED BY <3>1, SubSeqRecursiveFirst
  <2>2. s = a \o SubSeq(s, p, n)
    <3>1. /\ 1 \in 1 .. Len(s) + 1 /\ p - 1 \in 1 - 1 .. Len(s) /\ n \in p - 1 .. Len(s)
          /\ (p - 1) + 1 = p
      BY <1>1
    <3>2. SubSeq(s, 1, p - 1) \o SubSeq(s, (p - 1) + 1, n) = SubSeq(s, 1, n)
      BY <3>1, ConcatAdjacentSubSeq
    <3>3. SubSeq(s, 1, n) = s BY SubSeqFull
    <3> QED BY <3>1, <3>2, <3>3
  <2> QED BY <2>1, <2>2
<1> HIDE DEF a, b
<1>6. \A e \in ToSet(a) : \E k \in 1 .. p - 1 : e = s[k] BY <1>2 DEF ToSet
<1>7. Parts(s, p, a, b) BY <1>4, <1>5, <1>6 DEF Parts
<1> QED BY <1>2, <1>3, <1>7

LEMMA AmongCons ==
    ASSUME NEW S, NEW s \in Seq(S), NEW e \in S, NEW T
    PROVE  Among(<<e>> \o s, T) = IF e \in T THEN <<e>> \o Among(s, T) ELSE Among(s, T)
<1>1. <<e>> \in Seq(S) /\ Among(s, T) \in Seq(S) BY AmongIs
<1> DEFINE o == <<e>>
<1> HIDE DEF o
<1>2. Among(o \o s, T) = Among(o, T) \o Among(s, T)
  <2>1. o \in Seq(S) BY <1>1 DEF o
  <2> QED BY <2>1, AmongConcat
<1>3. Among(o, T) = IF e \in T THEN <<e>> ELSE <<>> BY AmongOne DEF o
<1>4. <<>> \o Among(s, T) = Among(s, T) BY <1>1, ConcatEmptySeq
<1> QED BY <1>2, <1>3, <1>4 DEF o

(* A term that is not in T does not matter to Among; the first that is comes *)
(* first.                                                                    *)
LEMMA AmongCut ==
    ASSUME NEW S, NEW s \in Seq(S), NEW p \in 1 .. Len(s), NEW T
    PROVE  /\ s[p] \notin T => Among(RemoveAt(s, p), T) = Among(s, T)
           /\ s[p] \in T /\ (\A n \in 1 .. p - 1 : s[n] \notin T)
                => Among(s, T) = <<s[p]>> \o Among(RemoveAt(s, p), T)
<1>0. PICK a, b \in Seq(S) : Parts(s, p, a, b) BY Cut, Zenon
<1>1. /\ s = a \o (<<s[p]>> \o b) /\ RemoveAt(s, p) = a \o b
      /\ \A e \in ToSet(a) : \E n \in 1 .. p - 1 : e = s[n]
  BY <1>0 DEF Parts
<1> DEFINE e == s[p]
           x == Among(a, T)
           y == Among(b, T)
           c == <<e>> \o b
<1>2. e \in S /\ x \in Seq(S) /\ y \in Seq(S) BY AmongIs
<1>3. <<e>> \in Seq(S) /\ c \in Seq(S) BY <1>2, ConcatProperties
<1>5. s = a \o c BY <1>1
<1> HIDE DEF e
<1>4. Among(c, T) = IF e \in T THEN <<e>> \o y ELSE y BY <1>2, AmongCons
<1> HIDE DEF c
<1>6. Among(a \o c, T) = x \o Among(c, T) /\ Among(a \o b, T) = x \o y
  <2>1. ASSUME NEW d \in Seq(S) PROVE Among(a \o d, T) = Among(a, T) \o Among(d, T)
    BY AmongConcat
  <2> QED BY <1>3, <2>1
<1>7. Among(s, T) = x \o Among(c, T) /\ Among(RemoveAt(s, p), T) = x \o y BY <1>1, <1>5, <1>6
<1>8. ASSUME e \notin T PROVE Among(RemoveAt(s, p), T) = Among(s, T) BY <1>4, <1>7, <1>8
<1>9. ASSUME e \in T, \A n \in 1 .. p - 1 : s[n] \notin T
      PROVE  Among(s, T) = <<e>> \o Among(RemoveAt(s, p), T)
  <2>1. ToSet(a) \cap T = {} BY <1>1, <1>9
  <2>2. x = <<>> BY <2>1, AmongNone
  <2>3. <<e>> \o y \in Seq(S) BY <1>2, <1>3, ConcatProperties
  <2> HIDE DEF x, y
  <2>4. x \o y = y /\ x \o (<<e>> \o y) = <<e>> \o y BY <1>2, <2>2, <2>3, ConcatEmptySeq
  <2>5. Among(c, T) = <<e>> \o y BY <1>4, <1>9
  <2>6. Among(RemoveAt(s, p), T) = y BY <1>7, <2>4
  <2> QED BY <1>7, <2>4, <2>5, <2>6
<1> QED BY <1>8, <1>9 DEF e
-----------------------------------------------------------------------------
(***************************************************************************)
(* The data of the elements s, and of those among them that have the key k. *)
(***************************************************************************)
DataAt(es) == [e \in DOMAIN es |-> es[e].data]
OfKey(es, k) == {e \in DOMAIN es : es[e].key = k}
DataIn(es, k, s) == Mapped(DataAt(es), Among(s, OfKey(es, k)))

LEMMA DataInIs ==
    ASSUME NEW es, NEW A, \A e \in DOMAIN es : es[e].data \in A,
           NEW s \in Seq(DOMAIN es), NEW k
    PROVE  /\ DataIn(es, k, s) \in Seq(A)
           /\ DataIn(es, k, s) = <<>> <=> \A n \in 1 .. Len(s) : es[s[n]].key # k
           /\ DataIn(es, k, <<>>) = <<>>
<1> DEFINE D == DOMAIN es
           T == OfKey(es, k)
           t == Among(s, T)
           g == DataAt(es)
<1>1. g \in [D -> A] BY DEF DataAt
<1>2. \A n \in 1 .. Len(s) : s[n] \in D /\ (s[n] \in T <=> es[s[n]].key = k) BY DEF OfKey
<1> HIDE DEF T, g, D
<1>3. s \in Seq(D) BY DEF D
<1>4. t \in Seq(D) BY <1>3, AmongIs
<1>5. Mapped(g, t) \in Seq(A) /\ Len(Mapped(g, t)) = Len(t)
  <2> HIDE DEF t
  <2>1. g \in [D -> A] BY <1>1
  <2>2. Len(t) \in Nat /\ \A n \in 1 .. Len(t) : g[t[n]] \in A BY <1>4, <2>1
  <2>3. Mapped(g, t) \in [1 .. Len(t) -> A] BY <2>2 DEF Mapped
  <2> DEFINE u == Mapped(g, t)
  <2> HIDE DEF u
  <2> QED BY <2>2, <2>3, Listed DEF u
<1>6. t = <<>> <=> ToSet(s) \cap T = {} BY <1>3, AmongNone
<1>7. Among(<<>>, T) = <<>> BY <1>3, AmongNone
<1>8. ToSet(s) \cap T = {} <=> \A n \in 1 .. Len(s) : s[n] \notin T
  <2>1. DOMAIN s = 1 .. Len(s) BY <1>3
  <2> QED BY <2>1 DEF ToSet
<1>9. Mapped(g, t) = <<>> <=> t = <<>>
  <2> HIDE DEF t
  <2> DEFINE u == Mapped(g, t)
  <2> HIDE DEF u
  <2>1. u \in Seq(A) /\ Len(u) = Len(t) BY <1>5 DEF u
  <2>2. u = <<>> <=> Len(u) = 0 BY <2>1
  <2>3. t = <<>> <=> Len(t) = 0 BY <1>4
  <2> QED BY <2>1, <2>2, <2>3 DEF u
<1>10. Mapped(g, <<>>) = <<>> BY DEF Mapped
<1> HIDE DEF t
<1>11. DataIn(es, k, s) = Mapped(g, t) /\ DataIn(es, k, <<>>) = Mapped(g, Among(<<>>, T))
  BY DEF DataIn, g, t, T
<1> QED BY <1>2, <1>5, <1>6, <1>7, <1>8, <1>9, <1>10, <1>11

SameOn(S, es, es2) ==
    /\ S \subseteq DOMAIN es /\ S \subseteq DOMAIN es2
    /\ \A e \in S : es2[e].key = es[e].key /\ es2[e].data = es[e].data

LEMMA DataInSame ==
    ASSUME NEW es, NEW es2, NEW S, SameOn(S, es, es2),
           NEW s \in Seq(S), NEW k
    PROVE  DataIn(es2, k, s) = DataIn(es, k, s)
<1> DEFINE g == DataAt(es)
           h == DataAt(es2)
           T == OfKey(es, k)
           U == OfKey(es2, k)
<1>1. \A e \in S : e \in U <=> e \in T BY DEF OfKey, SameOn
<1>2. \A e \in S : h[e] = g[e] BY DEF DataAt, SameOn
<1> HIDE DEF g, h, T, U
<1>3. Among(s, U) = Among(s, T) BY <1>1, AmongAgree
<1>4. Among(s, T) \in Seq(S) BY AmongIs
<1> DEFINE t == Among(s, T)
<1> HIDE DEF t
<1>5. Mapped(h, t) = Mapped(g, t) BY <1>2, <1>4, MappedSame DEF t
<1> QED BY <1>3, <1>5 DEF DataIn, g, h, t, T, U

LEMMA DataInCons ==
    ASSUME NEW es, NEW s \in Seq(DOMAIN es), NEW c \in DOMAIN es, NEW k
    PROVE  DataIn(es, k, <<c>> \o s) = IF es[c].key = k THEN <<es[c].data>> \o DataIn(es, k, s)
                                       ELSE DataIn(es, k, s)
<1> DEFINE D == DOMAIN es
           T == OfKey(es, k)
           t == Among(s, T)
           g == DataAt(es)
<1>1. g[c] = es[c].data BY DEF DataAt
<1>2. c \in T <=> es[c].key = k BY DEF OfKey
<1>3. s \in Seq(D) /\ c \in D BY DEF D
<1> HIDE DEF T, g, D
<1>4. t \in Seq(D) BY <1>3, AmongIs
<1>5. Among(<<c>> \o s, T) = IF c \in T THEN <<c>> \o t ELSE t BY <1>3, AmongCons
<1> HIDE DEF t
<1>6. Mapped(g, <<c>> \o t) = <<g[c]>> \o Mapped(g, t)
  <2>1. <<c>> \in Seq(D) BY <1>3
  <2>2. Mapped(g, <<c>>) = <<g[c]>> BY DEF Mapped
  <2>3. \A a, b \in Seq(D) : Mapped(g, a \o b) = Mapped(g, a) \o Mapped(g, b)
    BY MappedConcat
  <2> QED BY <1>4, <2>1, <2>2, <2>3
<1>7. DataIn(es, k, s) = Mapped(g, t) BY DEF DataIn, g, t, T
<1>8. DataIn(es, k, <<c>> \o s) = Mapped(g, Among(<<c>> \o s, T)) BY DEF DataIn, g, T
<1> QED BY <1>1, <1>2, <1>5, <1>6, <1>7, <1>8

LEMMA DataInCut ==
    ASSUME NEW es, NEW s \in Seq(DOMAIN es), NEW p \in 1 .. Len(s), NEW k
    PROVE  /\ es[s[p]].key # k => DataIn(es, k, RemoveAt(s, p)) = DataIn(es, k, s)
           /\ es[s[p]].key = k /\ (\A n \in 1 .. p - 1 : es[s[n]].key # k)
                => DataIn(es, k, s) = <<es[s[p]].data>> \o DataIn(es, k, RemoveAt(s, p))
<1> DEFINE D == DOMAIN es
           T == OfKey(es, k)
           r == RemoveAt(s, p)
           t == Among(r, T)
           g == DataAt(es)
           c == s[p]
<1>0. s \in Seq(D) /\ Len(s) \in Nat BY DEF D
<1>1. \A n \in 1 .. Len(s) : s[n] \in D /\ (s[n] \in T <=> es[s[n]].key = k)
  BY DEF DataAt, OfKey
<1>2. g[c] = es[c].data /\ c \in D BY DEF DataAt
<1>3. \A n \in 1 .. p - 1 : n \in 1 .. Len(s) BY <1>0
<1> HIDE DEF T, g, D
<1>4. t \in Seq(D)
  <2>1. r \in Seq(D) BY <1>0, RemoveAtIs
  <2> HIDE DEF r
  <2> QED BY <2>1, AmongIs
<1>5. /\ c \notin T => t = Among(s, T)
      /\ c \in T /\ (\A n \in 1 .. p - 1 : s[n] \notin T) => Among(s, T) = <<c>> \o t
  BY <1>0, AmongCut
<1> HIDE DEF t, r
<1>6. Mapped(g, <<c>> \o t) = <<g[c]>> \o Mapped(g, t)
  <2> HIDE DEF c
  <2>1. <<c>> \in Seq(D) BY <1>2
  <2>2. Mapped(g, <<c>>) = <<g[c]>> BY DEF Mapped
  <2>3. \A a, b \in Seq(D) : Mapped(g, a \o b) = Mapped(g, a) \o Mapped(g, b)
    BY MappedConcat
  <2> QED BY <1>4, <2>1, <2>2, <2>3
<1>7. DataIn(es, k, r) = Mapped(g, t) BY DEF DataIn, g, t, T
<1>8. DataIn(es, k, s) = Mapped(g, Among(s, T)) BY DEF DataIn, g, T
<1>9. ASSUME es[c].key # k PROVE DataIn(es, k, r) = DataIn(es, k, s)
  BY <1>1, <1>5, <1>7, <1>8, <1>9
<1>10. ASSUME es[c].key = k, \A n \in 1 .. p - 1 : es[s[n]].key # k
       PROVE  DataIn(es, k, s) = <<es[c].data>> \o DataIn(es, k, r)
  <2>1. \A n \in 1 .. p - 1 : s[n] \notin T BY <1>1, <1>3, <1>10
  <2>2. Among(s, T) = <<c>> \o t BY <1>1, <1>5, <1>10, <2>1
  <2> QED BY <1>2, <1>6, <1>7, <1>8, <2>2
<1> QED BY <1>9, <1>10 DEF r, c

LEMMA AmongEmpty == \A T : Among(<<>>, T) = <<>>
<1> SUFFICES ASSUME NEW T PROVE Among(<<>>, T) = <<>> OBVIOUS
<1>1. <<>> \in Seq({}) OBVIOUS
<1> QED BY <1>1, AmongNone

LEMMA ReverseEmpty == Reverse(<<>>) = <<>>
<1>1. <<>> \in Seq({1}) /\ 1 \in {1} OBVIOUS
<1> QED BY <1>1, ReverseCons
=============================================================================
