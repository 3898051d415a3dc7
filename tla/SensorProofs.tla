---------------------------- MODULE SensorProofs ----------------------------
(***************************************************************************)
(* Proofs about SensorPath, for every set of frames, every order of        *)
(* arrival and every limit.  What a loop of the code computes is proved by *)
(* induction on its rounds, in the form of the least number principle.     *)
(***************************************************************************)
EXTENDS SensorPath, FiniteSetTheorems, WellFoundedInduction, TLAPS

(* A set of naturals that is not empty has a least element.                *)
LEMMA LeastNumber ==
    ASSUME NEW T, T \subseteq Nat, T # {}
    PROVE  \E n \in T : \A m \in T : n <= m
<1> DEFINE R == OpToRel(<, Nat)
<1>1. IsWellFoundedOn(R, Nat)
    BY NatLessThanWellFounded
<1>2. \A x, y \in Nat : x < y => <<x, y>> \in R
    BY DEF OpToRel
<1> HIDE DEF R
<1>3. PICK n \in T : \A m \in T : ~(<<m, n>> \in R)
    BY <1>1, WFMin
<1>4. ASSUME NEW m \in T PROVE n <= m
  <2>1. m \in Nat /\ n \in Nat
      BY <1>3
  <2>2. ~(m < n)
      BY <1>2, <1>3, <2>1
  <2> QED BY <2>1, <2>2
<1> QED BY <1>3, <1>4

(* The loop of Kept has a result for each number of rounds.                *)
LEMMA KeptLoop ==
    ASSUME NEW q, NEW S, Len(q) \in Nat
    PROVE  \E kept :
               /\ kept = [n \in 0..Len(q) |->
                             IF n = 0 THEN <<>>
                             ELSE IF q[n] \in S THEN Append(kept[n - 1], q[n])
                             ELSE kept[n - 1]]
               /\ Kept(q, S) = kept[Len(q)]
<1> DEFINE Round(g, n) == IF q[n] \in S THEN Append(g, q[n]) ELSE g
           Runs(g, m) == g = [n \in 0..m |-> IF n = 0 THEN <<>> ELSE Round(g[n - 1], n)]
           Bad == {m \in 0..Len(q) : ~ \E g : Runs(g, m)}
<1> HIDE DEF Round
<1>1. Bad = {}
  <2>1. SUFFICES ASSUME Bad # {} PROVE FALSE
      OBVIOUS
  <2>2. PICK m \in Bad : \A k \in Bad : m <= k
    <3>1. Bad \subseteq Nat
        OBVIOUS
    <3> HIDE DEF Bad
    <3> QED BY <2>1, <3>1, LeastNumber
  <2>3. CASE m = 0
    <3>1. Runs([n \in 0..0 |-> <<>>], 0)
        OBVIOUS
    <3> QED BY <2>3, <3>1
  <2>4. CASE m # 0
    <3>1. m - 1 \in 0..Len(q) /\ m - 1 \notin Bad
        BY <2>2, <2>4
    <3>2. PICK g : Runs(g, m - 1)
        BY <3>1
    <3> DEFINE h == [n \in 0..m |-> IF n = m THEN Round(g[m - 1], m) ELSE g[n]]
    <3>3. Runs(h, m)
      <4>1. ASSUME NEW n \in 0..m
            PROVE  h[n] = IF n = 0 THEN <<>> ELSE Round(h[n - 1], n)
        <5>1. CASE n = m
          <6>1. h[n] = Round(g[m - 1], m)
              BY <5>1, <4>1
          <6>2. h[n - 1] = g[m - 1]
              BY <5>1, <4>1, <3>1, <2>4
          <6> QED BY <5>1, <6>1, <6>2, <2>4
        <5>2. CASE n # m
          <6>1. n \in 0..(m - 1)
              BY <4>1, <5>2, <3>1
          <6>2. h[n] = g[n]
              BY <5>2, <4>1
          <6>3. n # 0 => h[n - 1] = g[n - 1]
              BY <6>1, <4>1, <3>1
          <6>4. g[n] = IF n = 0 THEN <<>> ELSE Round(g[n - 1], n)
              BY <3>2, <6>1
          <6> QED BY <6>2, <6>3, <6>4
        <5> QED BY <5>1, <5>2
      <4> QED BY <4>1
    <3> QED BY <3>3
  <2> QED BY <2>3, <2>4
<1>2. \E g : Runs(g, Len(q))
    BY <1>1
<1> DEFINE k == CHOOSE g : Runs(g, Len(q))
<1>3. Runs(k, Len(q))
    BY <1>2
<1>4. Kept(q, S) = k[Len(q)]
    BY DEF Kept, Round
<1> QED BY <1>3, <1>4 DEF Round

(* What Kept keeps: the elements of q that are in S, none of them twice if *)
(* none was there twice.                                                   *)
LEMMA KeptFacts ==
    ASSUME NEW T, NEW q \in Seq(T), NEW S
    PROVE  /\ Kept(q, S) \in Seq(T)
           /\ ToSet(Kept(q, S)) = ToSet(q) \intersect S
           /\ IsInjective(q) => IsInjective(Kept(q, S))
<1> DEFINE N == Len(q)
<1>0. N \in Nat
    OBVIOUS
<1>1. PICK kept :
        /\ kept = [n \in 0..N |->
                      IF n = 0 THEN <<>>
                      ELSE IF q[n] \in S THEN Append(kept[n - 1], q[n])
                      ELSE kept[n - 1]]
        /\ Kept(q, S) = kept[N]
    BY <1>0, KeptLoop
<1>2. kept[0] = <<>>
    BY <1>0, <1>1
<1>3. \A n \in 1..N : kept[n] = IF q[n] \in S THEN Append(kept[n - 1], q[n]) ELSE kept[n - 1]
  <2> SUFFICES ASSUME NEW n \in 1..N
               PROVE  kept[n] = IF q[n] \in S THEN Append(kept[n - 1], q[n]) ELSE kept[n - 1]
      OBVIOUS
  <2>1. n \in 0..N /\ n # 0
      BY <1>0
  <2> HIDE DEF N
  <2> QED BY <1>1, <2>1
<1> DEFINE Upto(n) == {q[i] : i \in 1..n}
           Ok(n) == /\ kept[n] \in Seq(T)
                    /\ ToSet(kept[n]) = Upto(n) \intersect S
                    /\ IsInjective(q) => IsInjective(kept[n])
           Bad == {n \in 0..N : ~Ok(n)}
<1>4. Bad = {}
  <2>1. SUFFICES ASSUME Bad # {} PROVE FALSE
      OBVIOUS
  <2>2. PICK m \in Bad : \A k \in Bad : m <= k
    <3>1. Bad \subseteq Nat
        BY <1>0
    <3> HIDE DEF Bad
    <3> QED BY <2>1, <3>1, LeastNumber
  <2>3. Ok(0)
    <3>1. ToSet(<<>>) = {} /\ IsInjective(<<>>) /\ <<>> \in Seq(T)
        BY DEF ToSet, IsInjective
    <3>2. Upto(0) = {}
        OBVIOUS
    <3> QED BY <3>1, <3>2, <1>2
  <2>4. m \in 1..N /\ m - 1 \in 0..N /\ m - 1 \notin Bad
    <3> HIDE DEF Ok
    <3>1. m \in 0..N /\ m # 0
        BY <2>3
    <3>2. m - 1 \in 0..N /\ ~(m <= m - 1)
        BY <1>0, <3>1
    <3> QED BY <1>0, <2>2, <3>1, <3>2
  <2>5. Ok(m - 1)
      BY <2>4
  <2>6. Upto(m) = Upto(m - 1) \union {q[m]}
    <3>1. \A i \in 1..m : i = m \/ i \in 1..(m - 1)
        BY <2>4, <1>0
    <3>2. \A i \in 1..(m - 1) : i \in 1..m
        BY <2>4, <1>0
    <3>3. m \in 1..m
        BY <2>4, <1>0
    <3> QED BY <3>1, <3>2, <3>3
  <2>7. CASE q[m] \in S
    <3>1. kept[m] = Append(kept[m - 1], q[m])
        BY <2>4, <2>7, <1>3
    <3>2. q[m] \in T
        BY <2>4
    <3>3. kept[m] \in Seq(T)
        BY <3>1, <3>2, <2>5
    <3>4. /\ DOMAIN kept[m] = 1..(Len(kept[m - 1]) + 1)
          /\ DOMAIN kept[m - 1] = 1..Len(kept[m - 1])
          /\ \A i \in 1..Len(kept[m - 1]) : kept[m][i] = kept[m - 1][i]
          /\ kept[m][Len(kept[m - 1]) + 1] = q[m]
          /\ Len(kept[m - 1]) \in Nat
        BY <3>1, <3>2, <2>5
    <3>5. ToSet(kept[m]) = ToSet(kept[m - 1]) \union {q[m]}
      <4>1. ToSet(kept[m]) \subseteq ToSet(kept[m - 1]) \union {q[m]}
        <5>1. ASSUME NEW i \in DOMAIN kept[m]
              PROVE  kept[m][i] \in ToSet(kept[m - 1]) \union {q[m]}
          <6>1. i \in 1..Len(kept[m - 1]) \/ i = Len(kept[m - 1]) + 1
              BY <3>4
          <6> QED BY <3>4, <6>1 DEF ToSet
        <5> QED BY <5>1 DEF ToSet
      <4>2. q[m] \in ToSet(kept[m])
          BY <3>4 DEF ToSet
      <4>3. ToSet(kept[m - 1]) \subseteq ToSet(kept[m])
          BY <3>4 DEF ToSet
      <4> QED BY <4>1, <4>2, <4>3
    <3>6. ToSet(kept[m]) = Upto(m) \intersect S
        BY <3>5, <2>5, <2>6, <2>7
    <3>7. ASSUME IsInjective(q) PROVE IsInjective(kept[m])
      <4>1. q[m] \notin Upto(m - 1)
        <5>1. ASSUME NEW i \in 1..(m - 1), q[i] = q[m] PROVE FALSE
          <6>1. i \in DOMAIN q /\ m \in DOMAIN q /\ i # m
              BY <2>4, <1>0, <5>1
          <6> QED BY <6>1, <5>1, <3>7 DEF IsInjective
        <5> QED BY <5>1
      <4>2. q[m] \notin ToSet(kept[m - 1])
          BY <4>1, <2>5
      <4>3. \A i \in 1..Len(kept[m - 1]) : kept[m][i] # q[m]
          BY <4>2, <3>4 DEF ToSet
      <4>4. \A i, j \in 1..Len(kept[m - 1]) : kept[m][i] = kept[m][j] => i = j
          BY <3>4, <3>7, <2>5 DEF IsInjective
      <4> HIDE DEF Ok
      <4> DEFINE L == Len(kept[m - 1])
      <4>5. ASSUME NEW i \in DOMAIN kept[m], NEW j \in DOMAIN kept[m], kept[m][i] = kept[m][j]
            PROVE  i = j
        <5>1. (i \in 1..L \/ i = L + 1) /\ (j \in 1..L \/ j = L + 1)
            BY <3>4
        <5> HIDE DEF L
        <5> QED BY <5>1, <4>3, <4>4, <4>5, <3>4 DEF L
      <4> QED BY <4>5 DEF IsInjective
    <3> QED BY <3>3, <3>6, <3>7, <2>2
  <2>8. CASE q[m] \notin S
    <3>1. kept[m] = kept[m - 1]
        BY <2>4, <2>8, <1>3
    <3>2. Upto(m) \intersect S = Upto(m - 1) \intersect S
        BY <2>6, <2>8
    <3> HIDE DEF Upto
    <3> QED BY <3>1, <3>2, <2>5, <2>2
  <2> QED BY <2>7, <2>8
<1>5. Ok(N)
  <2>1. N \in 0..N
      BY <1>0
  <2> HIDE DEF N, Ok
  <2> QED BY <1>4, <2>1
<1>6. Upto(N) = ToSet(q)
    BY DEF ToSet
<1> QED BY <1>1, <1>5, <1>6

-----------------------------------------------------------------------------
(***************************************************************************)
(* The stamp-ordered queues of DataBuffer and ApproximateSynchronizer.     *)
(***************************************************************************)

Ordered(q) == \A i, j \in DOMAIN q : i < j => q[i].stamp <= q[j].stamp

(* The frame goes to a position p: the frames before it are not newer, the *)
(* ones behind it are, and nothing else changes.                           *)
LEMMA InsertPosition ==
    ASSUME NEW q \in Seq(Frame), Ordered(q), NEW f \in Frame
    PROVE  /\ InsertOrdered(q, f) \in Seq(Frame)
           /\ Len(InsertOrdered(q, f)) = Len(q) + 1
           /\ \E p \in 1..(Len(q) + 1) :
                  /\ InsertOrdered(q, f)[p] = f
                  /\ \A i \in 1..Len(q) : i < p => /\ InsertOrdered(q, f)[i] = q[i]
                                                   /\ q[i].stamp <= f.stamp
                  /\ \A i \in 1..Len(q) : p <= i => /\ InsertOrdered(q, f)[i + 1] = q[i]
                                                    /\ f.stamp < q[i].stamp
<1> DEFINE I == {i \in 1..Len(q) : q[i].stamp > f.stamp}
           r == InsertOrdered(q, f)
<1>0. /\ Len(q) \in Nat /\ f.stamp \in Nat
      /\ \A i \in 1..Len(q) : q[i] \in Frame /\ q[i].stamp \in Nat
    BY BufferAssumption
<1>1. CASE I = {}
  <2>1. r = Append(q, f)
      BY <1>1 DEF InsertOrdered, SelectInSeq
  <2>2. \A i \in 1..Len(q) : q[i].stamp <= f.stamp
      BY <1>0, <1>1
  <2> HIDE DEF I
  <2>3. r \in Seq(Frame) /\ Len(r) = Len(q) + 1 /\ r[Len(q) + 1] = f
      BY <2>1
  <2>4. \A i \in 1..Len(q) : r[i] = q[i]
      BY <2>1
  <2>5. \A i \in 1..Len(q) : ~(Len(q) + 1 <= i)
      BY <1>0
  <2> HIDE DEF r
  <2>6. Len(q) + 1 \in 1..(Len(q) + 1)
      BY <1>0
  <2> QED BY <2>2, <2>3, <2>4, <2>5, <2>6 DEF r
<1>2. CASE I # {}
  <2>1. PICK p \in I : \A i \in I : p <= i
    <3>1. I \subseteq Nat
        BY <1>0
    <3> HIDE DEF I
    <3> QED BY <3>1, <1>2, LeastNumber
  <2>2. Min(I) = p
    <3>1. \A x \in I : x \in Nat
        BY <1>0
    <3>2. \A x \in I : (\A y \in I : x <= y) => x = p
        BY <2>1, <3>1
    <3> HIDE DEF I
    <3> QED BY <2>1, <3>2 DEF Min
  <2>3. p \in 1..Len(q) /\ p # 0 /\ q[p].stamp > f.stamp
      BY <2>1, <1>0
  <2>4. SelectInSeq(q, LAMBDA g : g.stamp > f.stamp) = p
      BY <2>2, <1>2 DEF SelectInSeq
  <2>5. r = SubSeq(q, 1, p - 1) \o <<f>> \o SubSeq(q, p, Len(q))
      BY <2>3, <2>4 DEF InsertOrdered, InsertAt
  <2>6. \A i \in 1..Len(q) : i < p => q[i].stamp <= f.stamp
    <3>1. \A i \in 1..Len(q) : i < p => ~(p <= i)
        BY <2>3
    <3> QED BY <2>1, <3>1, <1>0
  <2>7. \A i \in 1..Len(q) : p <= i => f.stamp < q[i].stamp
    <3> SUFFICES ASSUME NEW i \in 1..Len(q), p <= i PROVE f.stamp < q[i].stamp
        OBVIOUS
    <3>1. q[p].stamp <= q[i].stamp
      <4>1. i = p \/ (i \in DOMAIN q /\ p \in DOMAIN q /\ p < i)
          BY <2>3
      <4> QED BY <4>1, <1>0 DEF Ordered
    <3> QED BY <3>1, <2>3, <1>0
  <2> HIDE DEF I
  <2> DEFINE a == SubSeq(q, 1, p - 1)
             b == SubSeq(q, p, Len(q))
  <2>8. /\ a \in Seq(Frame) /\ Len(a) = p - 1
        /\ \A i \in 1..(p - 1) : a[i] = q[i]
      BY <1>0, <2>3
  <2>9. /\ b \in Seq(Frame) /\ Len(b) = Len(q) - p + 1
        /\ \A i \in 1..(Len(q) - p + 1) : b[i] = q[p + i - 1]
      BY <1>0, <2>3
  <2>10. r = a \o <<f>> \o b
      BY <2>5
  <2> HIDE DEF a, b, r
  <2>11. r \in Seq(Frame) /\ Len(r) = Len(q) + 1 /\ r[p] = f
    <3> DEFINE c == a \o <<f>>
    <3>1. c \in Seq(Frame) /\ Len(c) = p /\ c[p] = f
        BY <1>0, <2>3, <2>8
    <3>2. r = c \o b
        BY <2>10
    <3> HIDE DEF c
    <3>3. r \in Seq(Frame) /\ Len(r) = p + (Len(q) - p + 1) /\ r[p] = c[p]
        BY <1>0, <2>3, <2>9, <3>1, <3>2, SMTT(30)
    <3> QED BY <1>0, <2>3, <3>1, <3>3
  <2>12. ASSUME NEW i \in 1..Len(q), i < p PROVE r[i] = q[i]
      BY <1>0, <2>3, <2>8, <2>9, <2>10, <2>12
  <2>13. ASSUME NEW i \in 1..Len(q), p <= i PROVE r[i + 1] = q[i]
    <3>1. r[i + 1] = b[i + 1 - p]
        BY <1>0, <2>3, <2>8, <2>9, <2>10, <2>13, SMTT(30)
    <3>2. i + 1 - p \in 1..(Len(q) - p + 1) /\ p + (i + 1 - p) - 1 = i
        BY <1>0, <2>3, <2>13
    <3> QED BY <3>1, <3>2, <2>9
  <2>14. p \in 1..(Len(q) + 1)
      BY <1>0, <2>3
  <2> QED BY <2>6, <2>7, <2>11, <2>12, <2>13, <2>14 DEF r
<1> QED BY <1>1, <1>2

(* So the queue stays ordered, holds one frame more, and none twice.       *)
LEMMA InsertFacts ==
    ASSUME NEW q \in Seq(Frame), Ordered(q), NEW f \in Frame
    PROVE  /\ InsertOrdered(q, f) \in Seq(Frame)
           /\ Ordered(InsertOrdered(q, f))
           /\ ToSet(InsertOrdered(q, f)) = ToSet(q) \union {f}
           /\ IsInjective(q) /\ f \notin ToSet(q) => IsInjective(InsertOrdered(q, f))
<1> DEFINE r == InsertOrdered(q, f)
           N == Len(q)
<1>1. PICK p \in 1..(N + 1) :
          /\ r[p] = f
          /\ \A i \in 1..N : i < p => r[i] = q[i] /\ q[i].stamp <= f.stamp
          /\ \A i \in 1..N : p <= i => r[i + 1] = q[i] /\ f.stamp < q[i].stamp
    BY InsertPosition
<1>2. r \in Seq(Frame) /\ Len(r) = N + 1
    BY InsertPosition
<1>3. /\ N \in Nat /\ f.stamp \in Nat /\ DOMAIN q = 1..N /\ DOMAIN r = 1..(N + 1)
      /\ \A i \in 1..N : q[i].stamp \in Nat
    BY <1>2, BufferAssumption
<1> HIDE DEF r, N
<1> DEFINE old(i) == IF i < p THEN i ELSE i - 1
<1>4. ASSUME NEW i \in 1..(N + 1), i # p
      PROVE  /\ old(i) \in 1..N /\ r[i] = q[old(i)]
             /\ i < p => q[old(i)].stamp <= f.stamp
             /\ p < i => f.stamp < q[old(i)].stamp
  <2>1. CASE i < p
      BY <2>1, <1>1, <1>3, <1>4
  <2>2. CASE p < i
    <3>1. i - 1 \in 1..N /\ p <= i - 1 /\ (i - 1) + 1 = i /\ ~(i < p)
        BY <2>2, <1>1, <1>3, <1>4
    <3>2. r[i] = q[i - 1] /\ f.stamp < q[i - 1].stamp
        BY <3>1, <1>1
    <3> QED BY <3>1, <3>2
  <2> QED BY <2>1, <2>2, <1>1, <1>3, <1>4
<1>5. ASSUME NEW i \in 1..(N + 1), NEW j \in 1..(N + 1), i # p, j # p
      PROVE  (i < j => old(i) < old(j)) /\ (old(i) = old(j) => i = j)
    BY <1>1, <1>3, <1>5
<1> HIDE DEF old
<1>6. Ordered(r)
  <2> SUFFICES ASSUME NEW i \in 1..(N + 1), NEW j \in 1..(N + 1), i < j
               PROVE  r[i].stamp <= r[j].stamp
      BY <1>3 DEF Ordered
  <2>1. CASE i = p
    <3>1. j # p /\ p < j
        BY <2>1, <1>1, <1>3
    <3> QED BY <2>1, <3>1, <1>1, <1>3, <1>4
  <2>2. CASE j = p
    <3>1. i # p /\ i < p
        BY <2>2, <1>1, <1>3
    <3> QED BY <2>2, <3>1, <1>1, <1>3, <1>4
  <2>3. CASE i # p /\ j # p
    <3>1. old(i) < old(j)
        BY <2>3, <1>5
    <3>2. old(i) \in DOMAIN q /\ old(j) \in DOMAIN q /\ r[i] = q[old(i)] /\ r[j] = q[old(j)]
        BY <2>3, <1>3, <1>4
    <3> QED BY <3>1, <3>2 DEF Ordered
  <2> QED BY <2>1, <2>2, <2>3
<1>7. ToSet(r) = ToSet(q) \union {f}
  <2>1. ToSet(r) \subseteq ToSet(q) \union {f}
    <3> SUFFICES ASSUME NEW i \in 1..(N + 1) PROVE r[i] \in ToSet(q) \union {f}
        BY <1>3 DEF ToSet
    <3> QED BY <1>1, <1>3, <1>4 DEF ToSet
  <2>2. f \in ToSet(r)
      BY <1>1, <1>3 DEF ToSet
  <2>3. ToSet(q) \subseteq ToSet(r)
    <3> SUFFICES ASSUME NEW i \in 1..N PROVE q[i] \in ToSet(r)
        BY <1>3 DEF ToSet
    <3>1. i \in 1..(N + 1) /\ i + 1 \in 1..(N + 1)
        BY <1>3
    <3>2. i < p \/ p <= i
        BY <1>1, <1>3
    <3> QED BY <3>1, <3>2, <1>1, <1>3 DEF ToSet
  <2> QED BY <2>1, <2>2, <2>3
<1>8. ASSUME IsInjective(q), f \notin ToSet(q) PROVE IsInjective(r)
  <2> SUFFICES ASSUME NEW i \in 1..(N + 1), NEW j \in 1..(N + 1), r[i] = r[j] PROVE i = j
      BY <1>3 DEF IsInjective
  <2>1. \A k \in 1..(N + 1) : k # p => r[k] # f
      BY <1>3, <1>4, <1>8 DEF ToSet
  <2>2. CASE i = p \/ j = p
      BY <2>1, <2>2, <1>1
  <2>3. CASE i # p /\ j # p
    <3>1. q[old(i)] = q[old(j)] /\ old(i) \in DOMAIN q /\ old(j) \in DOMAIN q
        BY <2>3, <1>3, <1>4
    <3>2. old(i) = old(j)
        BY <3>1, <1>8 DEF IsInjective
    <3> QED BY <3>2, <2>3, <1>5
  <2> QED BY <2>2, <2>3
<1> QED BY <1>2, <1>6, <1>7, <1>8 DEF r

(* What is left of a queue once n frames have been popped.                 *)
Rest(q, n) == SubSeq(q, n + 1, Len(q))

(* It is a queue of the last frames, in their order; a frame that is not   *)
(* among them was at the front at some point.                              *)
LEMMA RestFacts ==
    ASSUME NEW T, NEW q \in Seq(T), NEW n \in 0..Len(q)
    PROVE  /\ Rest(q, n) \in Seq(T) /\ Len(Rest(q, n)) = Len(q) - n
           /\ \A i \in 1..(Len(q) - n) : Rest(q, n)[i] = q[n + i]
           /\ ToSet(Rest(q, n)) \subseteq ToSet(q)
           /\ Ordered(q) => Ordered(Rest(q, n))
           /\ IsInjective(q) => IsInjective(Rest(q, n))
           /\ \A x \in ToSet(q) : x \in ToSet(Rest(q, n)) \/ \E m \in 0..(n - 1) : x = q[m + 1]
<1> DEFINE r == Rest(q, n)
           N == Len(q)
<1>1. r \in Seq(T) /\ Len(r) = N - n /\ \A i \in 1..(N - n) : r[i] = q[n + i]
    BY DEF Rest
<1>2. /\ N \in Nat /\ n \in Nat /\ n <= N
      /\ DOMAIN q = 1..N /\ DOMAIN r = 1..(N - n)
    BY <1>1
<1> HIDE DEF r, N
<1>3. \A i \in 1..(N - n) : n + i \in 1..N
    BY <1>2
<1>4. ToSet(r) \subseteq ToSet(q)
    BY <1>1, <1>2, <1>3 DEF ToSet
<1>5. ASSUME Ordered(q) PROVE Ordered(r)
  <2> SUFFICES ASSUME NEW i \in 1..(N - n), NEW j \in 1..(N - n), i < j
               PROVE  r[i].stamp <= r[j].stamp
      BY <1>2 DEF Ordered
  <2>1. n + i \in DOMAIN q /\ n + j \in DOMAIN q /\ n + i < n + j
      BY <1>2, <1>3
  <2>2. r[i] = q[n + i] /\ r[j] = q[n + j]
      BY <1>1
  <2> QED BY <2>1, <2>2, <1>5 DEF Ordered
<1>6. ASSUME IsInjective(q) PROVE IsInjective(r)
  <2> SUFFICES ASSUME NEW i \in 1..(N - n), NEW j \in 1..(N - n), r[i] = r[j]
               PROVE  i = j
      BY <1>2 DEF IsInjective
  <2>1. n + i \in DOMAIN q /\ n + j \in DOMAIN q /\ q[n + i] = q[n + j]
      BY <1>1, <1>2, <1>3
  <2>2. n + i = n + j
      BY <2>1, <1>6 DEF IsInjective
  <2> QED BY <2>2, <1>2
<1>7. ASSUME NEW x \in ToSet(q)
      PROVE  x \in ToSet(r) \/ \E m \in 0..(n - 1) : x = q[m + 1]
  <2>1. PICK i \in 1..N : x = q[i]
      BY <1>2, <1>7 DEF ToSet
  <2>2. CASE i <= n
    <3>1. i - 1 \in 0..(n - 1) /\ (i - 1) + 1 = i
        BY <2>2, <1>2
    <3> QED BY <2>1, <3>1
  <2>3. CASE ~(i <= n)
    <3>1. i - n \in 1..(N - n) /\ n + (i - n) = i
        BY <2>3, <1>2
    <3>2. r[i - n] = x
        BY <3>1, <2>1, <1>1
    <3> QED BY <3>1, <3>2, <1>2 DEF ToSet
  <2> QED BY <2>2, <2>3
<1> QED BY <1>1, <1>4, <1>5, <1>6, <1>7 DEF r, N

(* addData pops while the queue is over its limits, and no further.        *)
LEMMA PopOverLimit ==
    ASSUME NEW q \in Seq(Frame)
    PROVE  \E n \in 0..Len(q) :
               /\ PopWhile(q, OverLimit) = Rest(q, n)
               /\ n = Len(q) \/ ~OverLimit(Rest(q, n))
               /\ \A m \in 0..(n - 1) : OverLimit(Rest(q, m))
<1> DEFINE Stop == {n \in 0..Len(q) : n = Len(q) \/ ~OverLimit(Rest(q, n))}
           Good(n) == /\ n = Len(q) \/ ~OverLimit(Rest(q, n))
                      /\ \A m \in 0..(n - 1) : OverLimit(Rest(q, m))
<1>1. Len(q) \in Nat
    OBVIOUS
<1>2. PICK n \in Stop : \A m \in Stop : n <= m
  <2>1. Stop \subseteq Nat /\ Len(q) \in Stop
      BY <1>1
  <2> HIDE DEF Stop
  <2> QED BY <2>1, LeastNumber
<1>3. n \in 0..Len(q) /\ Good(n)
  <2>1. n \in 0..Len(q) /\ (n = Len(q) \/ ~OverLimit(Rest(q, n)))
      OBVIOUS
  <2>2. ASSUME NEW m \in 0..(n - 1) PROVE OverLimit(Rest(q, m))
    <3>1. m \in 0..Len(q) /\ m # Len(q) /\ ~(n <= m)
        BY <1>1, <2>1
    <3> QED BY <3>1, <1>2
  <2> QED BY <2>1, <2>2
<1> HIDE DEF Stop
<1> DEFINE c == CHOOSE k \in 0..Len(q) : Good(k)
<1>4. c \in 0..Len(q) /\ Good(c)
    BY <1>3
<1>5. PopWhile(q, OverLimit) = Rest(q, c)
    BY DEF PopWhile, Rest
<1> QED BY <1>4, <1>5

(* evictExpiredLocked pops while the front is too old.                     *)
LEMMA PopExpired ==
    ASSUME NEW q \in Seq(Frame), NEW latest
    PROVE  \E n \in 0..Len(q) :
               /\ PopWhile(q, LAMBDA r : r # <<>> /\ Expired(Head(r), latest)) = Rest(q, n)
               /\ n = Len(q) \/ ~Expired(q[n + 1], latest)
               /\ \A m \in 0..(n - 1) : Expired(q[m + 1], latest)
<1> DEFINE Old(r) == r # <<>> /\ Expired(Head(r), latest)
           Stop == {n \in 0..Len(q) : n = Len(q) \/ ~Old(Rest(q, n))}
           Good(n) == /\ n = Len(q) \/ ~Old(Rest(q, n))
                      /\ \A m \in 0..(n - 1) : Old(Rest(q, m))
<1>1. Len(q) \in Nat
    OBVIOUS
<1>2. \A m \in 0..Len(q) : m # Len(q) => Rest(q, m) # <<>> /\ Head(Rest(q, m)) = q[m + 1]
  <2> SUFFICES ASSUME NEW m \in 0..Len(q), m # Len(q)
               PROVE  Rest(q, m) # <<>> /\ Head(Rest(q, m)) = q[m + 1]
      OBVIOUS
  <2>1. /\ Rest(q, m) \in Seq(Frame) /\ Len(Rest(q, m)) = Len(q) - m
        /\ \A i \in 1..(Len(q) - m) : Rest(q, m)[i] = q[m + i]
      BY RestFacts
  <2>2. 1 \in 1..(Len(q) - m)
      BY <1>1
  <2>3. Rest(q, m)[1] = q[m + 1]
      BY <2>1, <2>2
  <2>4. Len(Rest(q, m)) > 0
      BY <2>1, <1>1
  <2> QED BY <2>1, <2>3, <2>4
<1> HIDE DEF Old
<1>3. PICK n \in Stop : \A m \in Stop : n <= m
  <2>1. Stop \subseteq Nat /\ Len(q) \in Stop
      BY <1>1
  <2> HIDE DEF Stop
  <2> QED BY <2>1, LeastNumber
<1>4. n \in 0..Len(q) /\ Good(n)
  <2>1. n \in 0..Len(q) /\ (n = Len(q) \/ ~Old(Rest(q, n)))
      OBVIOUS
  <2>2. ASSUME NEW m \in 0..(n - 1) PROVE Old(Rest(q, m))
    <3>1. m \in 0..Len(q) /\ m # Len(q) /\ ~(n <= m)
        BY <1>1, <2>1
    <3> QED BY <3>1, <1>3
  <2> QED BY <2>1, <2>2
<1> HIDE DEF Stop
<1> DEFINE c == CHOOSE k \in 0..Len(q) : Good(k)
<1>5. c \in 0..Len(q) /\ Good(c)
    BY <1>4
<1>6. PopWhile(q, LAMBDA r : r # <<>> /\ Expired(Head(r), latest)) = Rest(q, c)
    BY DEF PopWhile, Rest, Old
<1> HIDE DEF c
<1>7. c = Len(q) \/ ~Expired(q[c + 1], latest)
    BY <1>2, <1>5 DEF Old
<1>8. ASSUME NEW m \in 0..(c - 1) PROVE Expired(q[m + 1], latest)
  <2>1. m \in 0..Len(q) /\ m # Len(q)
      BY <1>1, <1>5
  <2> QED BY <2>1, <1>2, <1>5 DEF Old
<1> QED BY <1>5, <1>6, <1>7, <1>8

(* The bytes of a finite number of frames are a number.                    *)
LEMMA BytesTyped ==
    ASSUME NEW q, IsFiniteSet(DOMAIN q), \A i \in DOMAIN q : q[i] \in Frame
    PROVE  /\ IsFiniteSet(UNION {{i} \X (1 .. q[i].bytes) : i \in DOMAIN q})
           /\ Bytes(q) \in Nat
<1> DEFINE D == DOMAIN q
           of == [i \in D |-> {i} \X (1 .. q[i].bytes)]
           parts == {{i} \X (1 .. q[i].bytes) : i \in D}
<1>1. of \in Surjection(D, parts)
  <2>1. of \in [D -> parts] /\ \A t \in parts : \E i \in D : of[i] = t
      OBVIOUS
  <2> QED BY <2>1 DEF Surjection
<1>2. IsFiniteSet(parts)
  <2> HIDE DEF of, parts
  <2> QED BY <1>1, FS_Surjection
<1>3. ASSUME NEW i \in D PROVE IsFiniteSet({i} \X (1 .. q[i].bytes))
  <2>1. PICK n \in Nat : n = q[i].bytes
      BY BufferAssumption
  <2>2. IsFiniteSet({i}) /\ IsFiniteSet(1 .. n)
    <3>1. 1 \in Int /\ n \in Int
        OBVIOUS
    <3> QED BY <3>1, FS_Singleton, FS_Interval
  <2> QED BY <2>1, <2>2, FS_Product
<1>4. \A t \in parts : IsFiniteSet(t)
    BY <1>3
<1>5. IsFiniteSet(UNION parts)
  <2> HIDE DEF parts
  <2> QED BY <1>2, <1>4, FS_UNION
<1> QED BY <1>5, FS_CardinalityType DEF Bytes

(* Frames that are among others, none of them twice, have no more bytes.   *)
LEMMA BytesMonotone ==
    ASSUME NEW q, NEW r, IsFiniteSet(DOMAIN r), \A i \in DOMAIN r : r[i] \in Frame,
           NEW at \in [DOMAIN q -> DOMAIN r], IsInjective(at),
           \A i \in DOMAIN q : q[i] = r[at[i]]
    PROVE  Bytes(q) <= Bytes(r)
<1> DEFINE cq == UNION {{i} \X (1 .. q[i].bytes) : i \in DOMAIN q}
           cr == UNION {{i} \X (1 .. r[i].bytes) : i \in DOMAIN r}
           move == [x \in cq |-> <<at[x[1]], x[2]>>]
<1>1. \A x \in cq : x[1] \in DOMAIN q /\ x[2] \in 1 .. q[x[1]].bytes /\ x = <<x[1], x[2]>>
    OBVIOUS
<1>2. \A i \in DOMAIN r : \A b \in 1 .. r[i].bytes : <<i, b>> \in cr
    OBVIOUS
<1>3. IsFiniteSet(cr)
    BY BytesTyped
<1>4. Bytes(q) = Cardinality(cq) /\ Bytes(r) = Cardinality(cr)
    BY DEF Bytes
<1> HIDE DEF cq, cr
<1>5. ASSUME NEW x \in cq PROVE move[x] \in cr
  <2>1. at[x[1]] \in DOMAIN r /\ r[at[x[1]]] = q[x[1]]
      BY <1>1
  <2>2. x[2] \in 1 .. r[at[x[1]]].bytes
      BY <2>1, <1>1
  <2> QED BY <2>1, <2>2, <1>2
<1>6. ASSUME NEW x \in cq, NEW y \in cq, move[x] = move[y] PROVE x = y
  <2>1. at[x[1]] = at[y[1]] /\ x[2] = y[2]
      BY <1>6
  <2>2. x[1] = y[1]
      BY <2>1, <1>1 DEF IsInjective
  <2> QED BY <2>1, <2>2, <1>1
<1>7. move \in Injection(cq, cr)
  <2>1. move \in [cq -> cr] /\ DOMAIN move = cq
      BY <1>5
  <2> HIDE DEF move
  <2> QED BY <2>1, <1>6 DEF Injection, IsInjective
<1> HIDE DEF move
<1> QED BY <1>3, <1>4, <1>7, FS_Injection

-----------------------------------------------------------------------------
(***************************************************************************)
(* DataBuffer.                                                             *)
(***************************************************************************)

(* The frames of f's sensor from its stamp on, among the frames of A.      *)
From(A, f) == {g \in A : g.sensor = f.sensor /\ g.stamp >= f.stamp}

(* BeyondLimits, for the frames of A.                                      *)
Beyond(A, f) ==
    \/ MaxAge > 0 /\ \E g \in A : g.stamp - f.stamp > MaxAge
    \/ Cardinality(From(A, f)) > MaxSize
    \/ MaxBytes > 0 /\ Bytes([g \in From(A, f) |-> g]) > MaxBytes

(* A frame the limits put out stays out, whatever arrives.                 *)
LEMMA BeyondMonotone ==
    ASSUME NEW B, IsFiniteSet(B), B \subseteq Frame, NEW A, A \subseteq B, NEW f \in Frame,
           Beyond(A, f)
    PROVE  Beyond(B, f)
<1> DEFINE FA == From(A, f)
           FB == From(B, f)
<1>1. FA \subseteq FB /\ FB \subseteq B /\ FB \subseteq Frame
    BY DEF From
<1> HIDE DEF FA, FB
<1>2. IsFiniteSet(FB)
    BY <1>1, FS_Subset
<1>3. IsFiniteSet(FA) /\ Cardinality(FA) <= Cardinality(FB)
    BY <1>1, <1>2, FS_Subset
<1>4. Cardinality(FA) \in Nat /\ Cardinality(FB) \in Nat
    BY <1>2, <1>3, FS_CardinalityType
<1> DEFINE ia == [g \in FA |-> g]
           ib == [g \in FB |-> g]
<1>5. /\ DOMAIN ia = FA /\ DOMAIN ib = FB /\ ia \in [FA -> FB] /\ IsInjective(ia)
      /\ \A g \in FA : ia[g] = ib[ia[g]] /\ ia[g] \in Frame
      /\ \A g \in FB : ib[g] \in Frame
    BY <1>1 DEF IsInjective
<1> HIDE DEF ia, ib
<1>6. Bytes(ia) <= Bytes(ib)
    BY <1>2, <1>5, BytesMonotone
<1>7. Bytes(ia) \in Nat /\ Bytes(ib) \in Nat
    BY <1>2, <1>3, <1>5, BytesTyped
<1>8. \/ MaxAge > 0 /\ \E g \in B : g.stamp - f.stamp > MaxAge
      \/ Cardinality(FA) > MaxSize
      \/ MaxBytes > 0 /\ Bytes(ia) > MaxBytes
    BY DEF Beyond, FA, ia
<1>9. \/ MaxAge > 0 /\ \E g \in B : g.stamp - f.stamp > MaxAge
      \/ Cardinality(FB) > MaxSize
      \/ MaxBytes > 0 /\ Bytes(ib) > MaxBytes
    BY <1>3, <1>4, <1>6, <1>7, <1>8, BufferAssumption
<1> QED BY <1>9 DEF Beyond, FB, ib

(* The queue of a sensor: received frames of it, in stamp order, none      *)
(* twice.                                                                  *)
QueueOk(q, s, A) ==
    /\ q \in Seq(Frame) /\ ToSet(q) \subseteq {f \in A : f.sensor = s}
    /\ Ordered(q) /\ IsInjective(q)

(* A frame at the front of a queue that is over its limits is beyond them. *)
LEMMA OverIsBeyond ==
    ASSUME NEW A, IsFiniteSet(A), A \subseteq Frame, NEW s \in Sensor, NEW q, QueueOk(q, s, A),
           NEW m \in 0..(Len(q) - 1), OverLimit(Rest(q, m))
    PROVE  Beyond(A, q[m + 1])
<1> DEFINE r == Rest(q, m)
           f == q[m + 1]
           F == From(A, f)
<1>1. q \in Seq(Frame) /\ Len(q) \in Nat /\ m \in 0..Len(q) /\ m + 1 \in 1..Len(q)
      /\ DOMAIN q = 1..Len(q)
    BY DEF QueueOk
<1>2. /\ r \in Seq(Frame) /\ Len(r) = Len(q) - m
      /\ \A i \in 1..(Len(q) - m) : r[i] = q[m + i]
      /\ IsInjective(r)
  <2>1. IsInjective(q)
      BY DEF QueueOk
  <2> QED BY <1>1, <2>1, RestFacts, ZenonT(30)
<1>3. ASSUME NEW i \in 1..(Len(q) - m) PROVE r[i] \in F
  <2>1. r[i] = q[m + i] /\ m + i \in 1..Len(q)
      BY <1>1, <1>2
  <2>2. i = 1 \/ m + 1 < m + i
      BY <1>1
  <2>3. \A k \in 1..Len(q) : q[k] \in A /\ q[k].sensor = s /\ q[k].stamp \in Nat
      BY <1>1, BufferAssumption DEF QueueOk, ToSet
  <2>4. q[m + 1].stamp <= q[m + i].stamp
      BY <1>1, <2>1, <2>2, <2>3 DEF QueueOk, Ordered
  <2>5. q[m + i].stamp >= f.stamp
      BY <2>1, <2>3, <2>4, <1>1
  <2> QED BY <1>1, <2>1, <2>3, <2>5 DEF From
<1>4. F \subseteq A /\ F \subseteq Frame
    BY DEF From
<1> DEFINE L == Len(q) - m
<1>5. L \in Nat /\ DOMAIN r = 1..L /\ Len(r) = L
    BY <1>1, <1>2
<1>6. OverLimit(r)
    OBVIOUS
<1> HIDE DEF r, f, L
<1>7. IsFiniteSet(F)
  <2> HIDE DEF F
  <2> QED BY <1>4, FS_Subset
<1>8. r \in Injection(1..L, F)
    BY <1>2, <1>3, <1>5 DEF Injection, L
<1> HIDE DEF F
<1>9. L <= Cardinality(F) /\ IsFiniteSet(1..L)
  <2>1. Cardinality(1..L) = L
    <3>1. 1 \in Int /\ L \in Int
        BY <1>5
    <3> QED BY <3>1, <1>5, FS_Interval
  <2> QED BY <2>1, <1>7, <1>8, FS_Injection
<1> DEFINE id == [g \in F |-> g]
<1>10. /\ DOMAIN id = F /\ r \in [DOMAIN r -> F] /\ \A i \in DOMAIN r : r[i] = id[r[i]]
       /\ \A g \in F : id[g] \in Frame
    BY <1>4, <1>5, <1>8 DEF Injection
<1> HIDE DEF id
<1>11. Bytes(r) <= Bytes(id)
    BY <1>2, <1>7, <1>10, BytesMonotone
<1>12. Bytes(id) \in Nat /\ Cardinality(F) \in Nat
    BY <1>7, <1>10, BytesTyped, FS_CardinalityType
<1>13. Bytes(r) \in Nat
  <2>1. IsFiniteSet(DOMAIN r) /\ \A i \in DOMAIN r : r[i] \in Frame
      BY <1>4, <1>5, <1>9, <1>10
  <2> QED BY <2>1, BytesTyped
<1>14. Cardinality(F) > MaxSize \/ (MaxBytes > 0 /\ Bytes(id) > MaxBytes)
    BY <1>5, <1>6, <1>9, <1>11, <1>12, <1>13, BufferAssumption DEF OverLimit
<1> QED BY <1>14 DEF Beyond, id, F, f

(* The buffer when the frames of A have arrived.                           *)
BufferOk(b, A) ==
    /\ b \in [queue : [Sensor -> Seq(Frame)], latest : Nat \union {None}]
    /\ \A s \in Sensor : QueueOk(b.queue[s], s, A)
    /\ b.latest # None => \E g \in A : g.stamp = b.latest
    /\ \A f \in A : f \in ToSet(b.queue[f.sensor]) \/ Beyond(A, f)

(* The queues a buffer holds respect its limits.                           *)
WithinLimits(b) ==
    \A s \in Sensor : /\ ~OverLimit(b.queue[s])
                      /\ \A f \in ToSet(b.queue[s]) : ~Expired(f, b.latest)

(* The first n frames of q are too old, and the next one is not.           *)
OldFront(q, n, latest) ==
    /\ n = Len(q) \/ ~Expired(q[n + 1], latest)
    /\ \A m \in 0..(n - 1) : Expired(q[m + 1], latest)

(* What is left of a queue once the expired front is gone: the frames that *)
(* are young enough.                                                       *)
LEMMA YoungEnough ==
    ASSUME NEW A, NEW s \in Sensor, NEW latest \in Nat, NEW q, QueueOk(q, s, A),
           NEW n \in 0..Len(q), OldFront(q, n, latest)
    PROVE  /\ QueueOk(Rest(q, n), s, A)
           /\ ToSet(Rest(q, n)) = {f \in ToSet(q) : ~Expired(f, latest)}
           /\ ~OverLimit(q) => ~OverLimit(Rest(q, n))
<1>5. q \in Seq(Frame) /\ Ordered(q) /\ IsInjective(q)
    BY DEF QueueOk
<1>6. Len(q) \in Nat /\ n \in Nat /\ n <= Len(q)
    BY <1>5
<1>7. DOMAIN q = 1..Len(q) /\ \A i \in 1..Len(q) : q[i] \in Frame /\ q[i].stamp \in Nat
    BY <1>5, BufferAssumption
<1> DEFINE r == Rest(q, n)
<1>8. /\ r \in Seq(Frame) /\ Len(r) = Len(q) - n
      /\ \A i \in 1..(Len(q) - n) : r[i] = q[n + i]
      /\ ToSet(r) \subseteq ToSet(q) /\ Ordered(r) /\ IsInjective(r)
      /\ \A x \in ToSet(q) : x \in ToSet(r) \/ \E m \in 0..(n - 1) : x = q[m + 1]
    BY <1>5, RestFacts
<1> HIDE DEF r
<1>9. QueueOk(r, s, A)
    BY <1>8 DEF QueueOk
<1>10. ASSUME NEW i \in 1..(Len(q) - n) PROVE ~Expired(r[i], latest)
  <2>1. n # Len(q) /\ n + 1 \in 1..Len(q) /\ n + i \in 1..Len(q)
      BY <1>6
  <2>2. i = 1 \/ n + 1 < n + i
      BY <1>6
  <2>3. q[n + 1].stamp <= q[n + i].stamp
    <3>1. PICK a \in Nat, b \in Nat : a = q[n + 1].stamp /\ b = q[n + i].stamp
        BY <1>7, <2>1
    <3>2. i = 1 => a = b
        BY <3>1
    <3>3. i # 1 => a <= b
        BY <1>5, <1>7, <2>1, <2>2, <3>1 DEF Ordered
    <3>4. a <= b
        BY <3>2, <3>3
    <3> QED BY <3>1, <3>4
  <2>4. r[i] = q[n + i]
      BY <1>8
  <2>5. ~Expired(q[n + 1], latest)
      BY <2>1 DEF OldFront
  <2>6. q[n + 1].stamp \in Nat /\ q[n + i].stamp \in Nat
      BY <1>7, <2>1
  <2> QED BY <2>3, <2>4, <2>5, <2>6, BufferAssumption DEF Expired
<1>11. ToSet(r) = {f \in ToSet(q) : ~Expired(f, latest)}
  <2>1. \A f \in ToSet(r) : ~Expired(f, latest)
    <3>1. DOMAIN r = 1..(Len(q) - n)
        BY <1>8
    <3> QED BY <3>1, <1>10 DEF ToSet
  <2>2. \A f \in ToSet(q) : f \notin ToSet(r) => Expired(f, latest)
      BY <1>8 DEF OldFront
  <2> QED BY <1>8, <2>1, <2>2
<1>12. ASSUME ~OverLimit(q) PROVE ~OverLimit(r)
  <2> DEFINE at == [i \in 1..(Len(q) - n) |-> n + i]
  <2>1. DOMAIN r = 1..(Len(q) - n)
      BY <1>8
  <2>2. /\ at \in [DOMAIN r -> DOMAIN q] /\ IsInjective(at)
        /\ \A i \in DOMAIN r : r[i] = q[at[i]]
      BY <1>6, <1>7, <1>8, <2>1 DEF IsInjective
  <2> HIDE DEF at
  <2>3. IsFiniteSet(DOMAIN q) /\ IsFiniteSet(DOMAIN r)
    <3>1. PICK a \in Int, b \in Int : a = Len(q) /\ b = Len(q) - n
        BY <1>6
    <3>2. IsFiniteSet(1..a) /\ IsFiniteSet(1..b)
        BY <3>1, FS_Interval
    <3> QED BY <3>1, <3>2, <2>1, <1>7
  <2>4. \A i \in DOMAIN q : q[i] \in Frame
      BY <1>7
  <2>5. \A i \in DOMAIN r : r[i] \in Frame
      BY <1>8
  <2>6. Bytes(r) <= Bytes(q)
      BY <2>2, <2>3, <2>4, BytesMonotone
  <2>7. Bytes(r) \in Nat /\ Bytes(q) \in Nat
      BY <2>3, <2>4, <2>5, BytesTyped
  <2>8. Len(r) <= Len(q) /\ Len(r) \in Nat
      BY <1>6, <1>8
  <2> QED BY <2>6, <2>7, <2>8, <1>7, <1>12, BufferAssumption DEF OverLimit
<1> QED BY <1>9, <1>11, <1>12 DEF r

(* evictExpiredLocked leaves the frames that are young enough, in order.   *)
LEMMA EvictFacts ==
    ASSUME NEW queue \in [Sensor -> Seq(Frame)], NEW latest \in Nat, NEW A, A \subseteq Frame,
           \A s \in Sensor : QueueOk(queue[s], s, A), NEW s \in Sensor
    PROVE  /\ EvictExpired(queue, latest) \in [Sensor -> Seq(Frame)]
           /\ QueueOk(EvictExpired(queue, latest)[s], s, A)
           /\ ToSet(EvictExpired(queue, latest)[s]) =
                  {f \in ToSet(queue[s]) : ~Expired(f, latest)}
           /\ ~OverLimit(queue[s]) => ~OverLimit(EvictExpired(queue, latest)[s])
<1> DEFINE e == EvictExpired(queue, latest)
<1>1. ASSUME NEW t \in Sensor
      PROVE  \E n \in 0..Len(queue[t]) :
                 /\ e[t] = Rest(queue[t], n)
                 /\ n = Len(queue[t]) \/ ~Expired(queue[t][n + 1], latest)
                 /\ \A m \in 0..(n - 1) : Expired(queue[t][m + 1], latest)
  <2>1. e[t] = PopWhile(queue[t], LAMBDA r : r # <<>> /\ Expired(Head(r), latest))
      BY DEF EvictExpired
  <2>2. queue[t] \in Seq(Frame)
      OBVIOUS
  <2> HIDE DEF e
  <2> QED BY <2>1, <2>2, PopExpired
<1>2. e = [t \in Sensor |-> e[t]]
    BY DEF EvictExpired
<1> HIDE DEF e
<1>3. \A t \in Sensor : e[t] \in Seq(Frame)
    BY <1>1, RestFacts
<1>4. e \in [Sensor -> Seq(Frame)]
    BY <1>2, <1>3
<1>5. PICK q \in Seq(Frame) : q = queue[s]
    OBVIOUS
<1>6. PICK n \in 0..Len(q) :
          /\ e[s] = Rest(q, n)
          /\ n = Len(q) \/ ~Expired(q[n + 1], latest)
          /\ \A m \in 0..(n - 1) : Expired(q[m + 1], latest)
    BY <1>1, <1>5
<1>7. QueueOk(q, s, A)
    BY <1>5
<1>8. /\ QueueOk(Rest(q, n), s, A)
      /\ ToSet(Rest(q, n)) = {f \in ToSet(q) : ~Expired(f, latest)}
      /\ ~OverLimit(q) => ~OverLimit(Rest(q, n))
  <2>1. OldFront(q, n, latest)
      BY <1>6 DEF OldFront
  <2> QED BY <2>1, <1>6, <1>7, YoungEnough
<1> QED BY <1>4, <1>5, <1>6, <1>8 DEF e

(* An empty queue is within every limit.                                   *)
LEMMA EmptyWithinLimits == ~OverLimit(<<>>)
<1>1. UNION {{i} \X (1 .. <<>>[i].bytes) : i \in DOMAIN <<>>} = {}
    OBVIOUS
<1>2. Bytes(<<>>) = 0
    BY <1>1, FS_EmptySet DEF Bytes
<1>3. Len(<<>>) = 0
    OBVIOUS
<1> QED BY <1>2, <1>3, BufferAssumption DEF OverLimit

(* The queue a frame is added to: the frames its limits allow, the others  *)
(* are beyond them.                                                        *)
LEMMA AddedQueue ==
    ASSUME NEW A, IsFiniteSet(A), A \subseteq Frame, NEW f \in A,
           NEW q, QueueOk(q, f.sensor, A \ {f})
    PROVE  LET added == PopWhile(InsertOrdered(q, f), OverLimit) IN
           /\ QueueOk(added, f.sensor, A)
           /\ ~OverLimit(added)
           /\ \A g \in ToSet(q) \union {f} : g \in ToSet(added) \/ Beyond(A, g)
<1> DEFINE i == InsertOrdered(q, f)
           added == PopWhile(i, OverLimit)
<1>1. /\ i \in Seq(Frame) /\ Ordered(i) /\ ToSet(i) = ToSet(q) \union {f}
      /\ IsInjective(i)
  <2>1. q \in Seq(Frame) /\ Ordered(q) /\ f \in Frame
      BY DEF QueueOk
  <2>2. IsInjective(q) /\ f \notin ToSet(q)
      BY DEF QueueOk
  <2> QED BY <2>1, <2>2, InsertFacts
<1>2. f.sensor \in Sensor
    BY BufferAssumption
<1>3. QueueOk(i, f.sensor, A)
    BY <1>1 DEF QueueOk
<1> HIDE DEF i
<1>4. PICK n \in 0..Len(i) :
          /\ added = Rest(i, n)
          /\ n = Len(i) \/ ~OverLimit(Rest(i, n))
          /\ \A m \in 0..(n - 1) : OverLimit(Rest(i, m))
    BY <1>1, PopOverLimit
<1> HIDE DEF added
<1>5. /\ added \in Seq(Frame) /\ Len(added) = Len(i) - n
      /\ ToSet(added) \subseteq ToSet(i) /\ Ordered(added) /\ IsInjective(added)
      /\ \A x \in ToSet(i) : x \in ToSet(added) \/ \E m \in 0..(n - 1) : x = i[m + 1]
  <2>1. added = Rest(i, n)
      BY <1>4
  <2>2. i \in Seq(Frame) /\ Ordered(i) /\ IsInjective(i)
      BY <1>1
  <2> QED BY <2>1, <2>2, RestFacts
<1>6. QueueOk(added, f.sensor, A)
    BY <1>3, <1>5 DEF QueueOk
<1>7. ~OverLimit(added)
  <2>1. CASE n = Len(i)
    <3>1. Len(added) = 0
        BY <2>1, <1>1, <1>5
    <3>2. added = <<>>
        BY <3>1, <1>5
    <3> QED BY <3>2, EmptyWithinLimits
  <2>2. CASE n # Len(i)
      BY <2>2, <1>4
  <2> QED BY <2>1, <2>2
<1>8. ASSUME NEW m \in 0..(n - 1) PROVE Beyond(A, i[m + 1])
  <2>1. OverLimit(Rest(i, m))
      BY <1>4
  <2>2. m \in 0..(Len(i) - 1)
    <3>1. PICK k \in Nat : k = Len(i)
        BY <1>1
    <3>2. n \in 0..k
        BY <3>1, <1>4
    <3>3. m \in 0..(k - 1)
        BY <3>2
    <3> QED BY <3>1, <3>3
  <2> QED BY <2>1, <2>2, <1>2, <1>3, OverIsBeyond
<1>9. \A g \in ToSet(i) : g \in ToSet(added) \/ Beyond(A, g)
    BY <1>5, <1>8
<1> QED BY <1>1, <1>6, <1>7, <1>9 DEF added, i

(* addData keeps the buffer's promise and its limits.                      *)
LEMMA AddDataOk ==
    ASSUME NEW A, IsFiniteSet(A), A \subseteq Frame, NEW b, BufferOk(b, A),
           NEW f \in Frame, f \notin A
    PROVE  /\ BufferOk(AddData(b, f), A \union {f})
           /\ WithinLimits(b) => WithinLimits(AddData(b, f))
<1> DEFINE B == A \union {f}
<1>1. IsFiniteSet(B) /\ B \subseteq Frame /\ A \subseteq B /\ f \in B /\ B \ {f} = A
    BY FS_AddElement
<1>2. /\ b = [queue |-> b.queue, latest |-> b.latest]
      /\ b.queue \in [Sensor -> Seq(Frame)] /\ b.latest \in Nat \union {None}
      /\ \A s \in Sensor : QueueOk(b.queue[s], s, A)
      /\ f.sensor \in Sensor /\ f.stamp \in Nat
    BY BufferAssumption DEF BufferOk
<1> HIDE DEF B
<1>3. PICK L \in Nat :
          /\ L = IF b.latest = None \/ f.stamp > b.latest THEN f.stamp ELSE b.latest
          /\ \E g \in B : g.stamp = L
          /\ f.stamp <= L
  <2>1. CASE b.latest = None
      BY <2>1, <1>1, <1>2
  <2>2. CASE b.latest # None
    <3>1. PICK l \in Nat : l = b.latest
        BY <1>2, <2>2
    <3>2. \E g \in A : g.stamp = l
        BY <2>2, <3>1 DEF BufferOk
    <3>3. CASE f.stamp > l
        BY <3>1, <3>3, <1>1, <1>2
    <3>4. CASE ~(f.stamp > l)
        BY <2>2, <3>1, <3>2, <3>4, <1>1, <1>2
    <3> QED BY <3>3, <3>4
  <2> QED BY <2>1, <2>2
<1>4. \A s \in Sensor : QueueOk(b.queue[s], s, B)
    BY <1>1, <1>2 DEF QueueOk
<1>5. \A g \in A : Beyond(A, g) => Beyond(B, g)
    BY <1>1, BeyondMonotone
<1>6. \A g \in Frame : Expired(g, L) => Beyond(B, g)
  <2> SUFFICES ASSUME NEW g \in Frame, Expired(g, L) PROVE Beyond(B, g)
      OBVIOUS
  <2>1. PICK h \in B : h.stamp = L
      BY <1>3
  <2>2. g.stamp \in Nat /\ MaxAge \in Nat
      BY BufferAssumption
  <2>3. MaxAge > 0 /\ h.stamp - g.stamp > MaxAge
      BY <1>3, <2>1, <2>2 DEF Expired
  <2> QED BY <2>3 DEF Beyond
<1>7. CASE MaxSize = 0
  <2>1. AddData(b, f) = b
      BY <1>7 DEF AddData
  <2>2. Beyond(B, f)
    <3>1. f \in From(B, f) /\ From(B, f) \subseteq B
        BY <1>1, <1>2 DEF From
    <3>2. IsFiniteSet(From(B, f))
        BY <1>1, <3>1, FS_Subset
    <3>3. Cardinality(From(B, f)) > 0
        BY <3>1, <3>2, FS_EmptySet, FS_CardinalityType
    <3> QED BY <3>3, <1>7 DEF Beyond
  <2>3. BufferOk(b, B)
      BY <1>1, <1>2, <1>4, <1>5, <2>2 DEF BufferOk, B
  <2> QED BY <2>1, <2>3 DEF B
<1>8. CASE MaxSize # 0 /\ Expired(f, L)
  <2>1. AddData(b, f) = [queue |-> b.queue, latest |-> L]
      BY <1>2, <1>3, <1>8 DEF AddData
  <2>2. L = b.latest
      BY <1>2, <1>3, <1>8, BufferAssumption DEF Expired
  <2>3. AddData(b, f) = b
      BY <1>2, <2>1, <2>2
  <2>4. BufferOk(b, B)
      BY <1>1, <1>2, <1>4, <1>5, <1>6, <1>8 DEF BufferOk, B
  <2> QED BY <2>3, <2>4 DEF B
<1>9. CASE MaxSize # 0 /\ ~Expired(f, L)
  <2> DEFINE t == f.sensor
             new == PopWhile(InsertOrdered(b.queue[t], f), OverLimit)
             added == [b.queue EXCEPT ![t] = new]
             left == EvictExpired(added, L)
  <2>1. AddData(b, f) = [queue |-> left, latest |-> L]
      BY <1>2, <1>3, <1>9 DEF AddData
  <2>2. /\ QueueOk(new, t, B) /\ ~OverLimit(new)
        /\ \A g \in ToSet(b.queue[t]) \union {f} : g \in ToSet(new) \/ Beyond(B, g)
      BY <1>1, <1>2, AddedQueue
  <2>3. added \in [Sensor -> Seq(Frame)]
    <3>1. new \in Seq(Frame)
        BY <2>2 DEF QueueOk
    <3> HIDE DEF new
    <3> QED BY <3>1, <1>2
  <2>4. added[t] = new /\ \A s \in Sensor : s # t => added[s] = b.queue[s]
    <3> HIDE DEF new
    <3> QED BY <1>2
  <2> HIDE DEF added, new
  <2>5. \A s \in Sensor : QueueOk(added[s], s, B)
      BY <1>4, <2>2, <2>4
  <2>6. left \in [Sensor -> Seq(Frame)]
      BY <1>1, <1>2, <2>3, <2>5, EvictFacts
  <2>7. ASSUME NEW s \in Sensor
        PROVE  /\ QueueOk(left[s], s, B)
               /\ ToSet(left[s]) = {g \in ToSet(added[s]) : ~Expired(g, L)}
               /\ ~OverLimit(added[s]) => ~OverLimit(left[s])
      BY <1>1, <2>3, <2>5, EvictFacts
  <2> HIDE DEF left
  <2>8. ASSUME NEW g \in B PROVE g \in ToSet(left[g.sensor]) \/ Beyond(B, g)
    <3>1. g \in Frame /\ g.sensor \in Sensor
        BY <1>1, BufferAssumption
    <3>2. g \in ToSet(added[g.sensor]) \/ Beyond(B, g)
      <4>1. g = f \/ g \in A
          BY DEF B
      <4>2. g = f \/ g \in ToSet(b.queue[g.sensor]) \/ Beyond(B, g)
          BY <4>1, <1>5 DEF BufferOk
      <4>3. CASE g.sensor = t
          BY <4>2, <4>3, <2>2, <2>4
      <4>4. CASE g.sensor # t
          BY <4>2, <4>4, <3>1, <2>4
      <4> QED BY <4>3, <4>4
    <3> QED BY <3>1, <3>2, <2>7, <1>6
  <2>9. BufferOk([queue |-> left, latest |-> L], B)
      BY <1>3, <2>6, <2>7, <2>8 DEF BufferOk
  <2>10. ASSUME WithinLimits(b) PROVE WithinLimits([queue |-> left, latest |-> L])
    <3>1. \A s \in Sensor : ~OverLimit(added[s])
        BY <2>2, <2>4, <2>10 DEF WithinLimits
    <3>2. \A s \in Sensor : ~OverLimit(left[s]) /\ \A g \in ToSet(left[s]) : ~Expired(g, L)
        BY <3>1, <2>7
    <3> QED BY <3>2 DEF WithinLimits
  <2> QED BY <2>1, <2>9, <2>10 DEF B
<1> QED BY <1>7, <1>8, <1>9

(* What the buffer promises, with what the promise rests on.               *)
BufferInv ==
    /\ arrived \subseteq Frame /\ IsFiniteSet(arrived)
    /\ BufferOk(buffer, arrived)
    /\ WithinLimits(buffer)

(* Nothing has arrived, nothing is buffered.                               *)
LEMMA BufferInit == Init => BufferInv
<1> SUFFICES ASSUME Init PROVE BufferInv
    OBVIOUS
<1>1. /\ buffer = [queue |-> [s \in Sensor |-> <<>>], latest |-> None]
      /\ arrived = {}
    BY DEF Init, EmptyBuffer
<1>2. \A s \in Sensor : buffer.queue[s] = <<>>
    BY <1>1
<1>3. ToSet(<<>>) = {} /\ Ordered(<<>>) /\ IsInjective(<<>>)
    BY DEF ToSet, Ordered, IsInjective
<1>4. buffer \in [queue : [Sensor -> Seq(Frame)], latest : Nat \union {None}]
    BY <1>1
<1>5. BufferOk(buffer, arrived)
    BY <1>1, <1>2, <1>3, <1>4 DEF BufferOk, QueueOk
<1>6. WithinLimits(buffer)
    BY <1>2, <1>3, EmptyWithinLimits DEF WithinLimits
<1> QED BY <1>1, <1>5, <1>6, FS_EmptySet DEF BufferInv

(* Only a frame that arrives changes the buffer.                           *)
LEMMA BufferStep == BufferInv /\ [Next]_vars => BufferInv'
<1> SUFFICES ASSUME BufferInv, [Next]_vars PROVE BufferInv'
    OBVIOUS
<1>1. ASSUME NEW f \in Frame, HandleFrame(f) PROVE BufferInv'
  <2>1. f \notin arrived /\ buffer' = AddData(buffer, f) /\ arrived' = arrived \union {f}
      BY <1>1 DEF HandleFrame
  <2>2. PICK A, b : A = arrived /\ b = buffer
      OBVIOUS
  <2>3. /\ BufferOk(AddData(b, f), A \union {f})
        /\ WithinLimits(AddData(b, f))
      BY <2>1, <2>2, AddDataOk DEF BufferInv
  <2>4. IsFiniteSet(A \union {f}) /\ A \union {f} \subseteq Frame
      BY <2>2, FS_AddElement DEF BufferInv
  <2> QED BY <2>1, <2>2, <2>3, <2>4 DEF BufferInv
<1>2. ASSUME UNCHANGED <<buffer, arrived>> PROVE BufferInv'
    BY <1>2 DEF BufferInv
<1>3. (\E c \in Capture : Trigger(c)) \/ Harvest \/ UNCHANGED vars =>
          UNCHANGED <<buffer, arrived>>
    BY DEF Trigger, Harvest, vars
<1> QED BY <1>1, <1>2, <1>3 DEF Next

(* BufferInv holds throughout.                                             *)
LEMMA BufferAlways == Spec => []BufferInv
  BY BufferInit, BufferStep, PTL DEF Spec

(* The limits of the buffer, as the model states them.                     *)
LEMMA BeyondIs == ASSUME NEW f PROVE BeyondLimits(f) = Beyond(arrived, f)
  BY DEF BeyondLimits, Beyond, From

(* BufferKeepsNewest, for every set of frames, every order of arrival and  *)
(* every limit by count, bytes and age: DataBuffer::addData and            *)
(* evictExpiredLocked never drop a frame that the limits would allow.      *)
THEOREM BufferNeverForgets == Spec => []BufferKeepsNewest
<1>1. BufferInv => BufferKeepsNewest
    BY BeyondIs DEF BufferInv, BufferOk, BufferKeepsNewest
<1> QED BY <1>1, BufferAlways, PTL

(* The other half of DataBuffer's contract: a queue never holds more       *)
(* frames or bytes than its limits allow, nor a frame older than the age   *)
(* limit allows.                                                           *)
THEOREM BufferBounded == Spec => []WithinLimits(buffer)
<1>1. BufferInv => WithinLimits(buffer)
    BY DEF BufferInv
<1> QED BY <1>1, BufferAlways, PTL

-----------------------------------------------------------------------------
(***************************************************************************)
(* How often the elements of a set occur in a sequence.                    *)
(***************************************************************************)

At(q, S) == {i \in DOMAIN q : q[i] \in S}
Occ(q, S) == Cardinality(At(q, S))

(* A sequence has finitely many places.                                    *)
LEMMA OccTyped ==
    ASSUME NEW X, NEW q \in Seq(X), NEW S
    PROVE  IsFiniteSet(At(q, S)) /\ Occ(q, S) \in Nat
<1>1. PICK n \in Int : DOMAIN q = 1..n
    OBVIOUS
<1>2. IsFiniteSet(1..n) /\ At(q, S) \subseteq 1..n
    BY <1>1, FS_Interval DEF At
<1>3. IsFiniteSet(At(q, S))
    BY <1>2, FS_Subset
<1> QED BY <1>3, FS_CardinalityType DEF Occ

(* Something occurs if and only if it is there.                            *)
LEMMA OccPositive ==
    ASSUME NEW X, NEW q \in Seq(X), NEW S
    PROVE  Occ(q, S) > 0 <=> \E x \in ToSet(q) : x \in S
<1>1. IsFiniteSet(At(q, S)) /\ Occ(q, S) \in Nat
    BY OccTyped
<1>2. Occ(q, S) = 0 <=> At(q, S) = {}
    BY <1>1, FS_EmptySet DEF Occ
<1>3. At(q, S) # {} <=> \E x \in ToSet(q) : x \in S
    BY DEF At, ToSet
<1> QED BY <1>1, <1>2, <1>3

(* Occurrences add up over the two parts of a sequence.                    *)
LEMMA OccConcat ==
    ASSUME NEW X, NEW a \in Seq(X), NEW b \in Seq(X), NEW S
    PROVE  Occ(a \o b, S) = Occ(a, S) + Occ(b, S)
<1> DEFINE c == a \o b
           n == Len(a)
           m == Len(b)
           J == {i \in (n + 1)..(n + m) : c[i] \in S}
           shift == [i \in At(b, S) |-> i + n]
<1>1. /\ n \in Nat /\ m \in Nat /\ DOMAIN a = 1..n /\ DOMAIN b = 1..m
      /\ DOMAIN c = 1..(n + m) /\ c \in Seq(X)
      /\ \A i \in 1..n : c[i] = a[i]
    OBVIOUS
<1>2. \A i \in 1..m : c[i + n] = b[i]
    OBVIOUS
<1> HIDE DEF c, n, m
<1>3. At(c, S) = At(a, S) \union J
  <2>1. \A i \in 1..(n + m) : i \in 1..n \/ i \in (n + 1)..(n + m)
      BY <1>1
  <2>2. \A i \in 1..n : i \in 1..(n + m)
      BY <1>1
  <2>3. \A i \in (n + 1)..(n + m) : i \in 1..(n + m)
      BY <1>1
  <2> QED BY <1>1, <2>1, <2>2, <2>3 DEF At
<1>4. At(a, S) \intersect J = {}
  <2>1. \A i \in 1..n : i \notin (n + 1)..(n + m)
      BY <1>1
  <2> QED BY <2>1, <1>1 DEF At
<1>5. shift \in Bijection(At(b, S), J)
  <2>1. \A i \in At(b, S) : i \in 1..m /\ i + n \in (n + 1)..(n + m) /\ i + n \in J
      BY <1>1, <1>2 DEF At
  <2>2. \A i, j \in At(b, S) : i + n = j + n => i = j
      BY <2>1, <1>1
  <2>3. ASSUME NEW j \in J PROVE \E i \in At(b, S) : shift[i] = j
    <3>1. j - n \in 1..m /\ (j - n) + n = j
        BY <1>1
    <3>2. b[j - n] = c[j]
        BY <3>1, <1>2
    <3>3. j - n \in At(b, S)
        BY <3>1, <3>2, <1>1 DEF At
    <3> QED BY <3>1, <3>3
  <2>4. shift \in [At(b, S) -> J] /\ DOMAIN shift = At(b, S)
      BY <2>1
  <2>5. \A i, j \in At(b, S) : shift[i] = shift[j] => i = j
      BY <2>2
  <2> HIDE DEF shift, J
  <2> QED BY <2>3, <2>4, <2>5 DEF Bijection, Injection, Surjection, IsInjective
<1> HIDE DEF shift, J
<1>6. IsFiniteSet(At(a, S)) /\ IsFiniteSet(At(b, S))
    BY OccTyped
<1>7. IsFiniteSet(J) /\ Cardinality(J) = Cardinality(At(b, S))
  <2>1. ExistsBijection(At(b, S), J)
      BY <1>5 DEF ExistsBijection
  <2> QED BY <2>1, <1>6, FS_Bijection
<1>8. Cardinality(At(c, S)) = Cardinality(At(a, S)) + Cardinality(J)
  <2>1. Cardinality(At(a, S) \union J) =
            Cardinality(At(a, S)) + Cardinality(J) - Cardinality(At(a, S) \intersect J)
      BY <1>6, <1>7, FS_Union
  <2>2. Cardinality(At(a, S) \intersect J) = 0
      BY <1>4, FS_EmptySet
  <2>3. Cardinality(At(a, S)) \in Nat /\ Cardinality(J) \in Nat
      BY <1>6, <1>7, FS_CardinalityType
  <2> QED BY <1>3, <2>1, <2>2, <2>3
<1> QED BY <1>7, <1>8 DEF Occ, c

(* Occurrences in a sequence of one element.                               *)
LEMMA OccOne ==
    ASSUME NEW e, NEW S
    PROVE  Occ(<<e>>, S) = IF e \in S THEN 1 ELSE 0
<1>1. DOMAIN <<e>> = {1} /\ <<e>>[1] = e
    OBVIOUS
<1>2. CASE e \in S
  <2>1. At(<<e>>, S) = {1}
      BY <1>1, <1>2 DEF At
  <2> QED BY <2>1, <1>2, FS_Singleton DEF Occ
<1>3. CASE e \notin S
  <2>1. At(<<e>>, S) = {}
      BY <1>1, <1>3 DEF At
  <2> QED BY <2>1, <1>3, FS_EmptySet DEF Occ
<1> QED BY <1>2, <1>3

(* One more element at the back, one less at the front.                    *)
LEMMA OccAppendTail ==
    ASSUME NEW X, NEW q \in Seq(X), NEW S
    PROVE  /\ \A e \in X : Occ(Append(q, e), S) = Occ(q, S) + IF e \in S THEN 1 ELSE 0
           /\ q # <<>> => Occ(q, S) = Occ(Tail(q), S) + IF Head(q) \in S THEN 1 ELSE 0
<1>1. ASSUME NEW e \in X PROVE Occ(Append(q, e), S) = Occ(q, S) + IF e \in S THEN 1 ELSE 0
  <2>1. Append(q, e) = q \o <<e>> /\ <<e>> \in Seq(X)
      OBVIOUS
  <2>2. Occ(q \o <<e>>, S) = Occ(q, S) + Occ(<<e>>, S)
      BY <2>1, OccConcat
  <2> QED BY <2>1, <2>2, OccOne
<1>2. ASSUME q # <<>> PROVE Occ(q, S) = Occ(Tail(q), S) + IF Head(q) \in S THEN 1 ELSE 0
  <2>1. <<Head(q)>> \in Seq(X) /\ Tail(q) \in Seq(X)
      BY <1>2
  <2>2. q = <<Head(q)>> \o Tail(q)
      BY <1>2
  <2>3. Occ(q, S) = Occ(<<Head(q)>>, S) + Occ(Tail(q), S)
    <3> DEFINE a == <<Head(q)>>
               b == Tail(q)
    <3>1. a \in Seq(X) /\ b \in Seq(X) /\ q = a \o b
        BY <2>1, <2>2
    <3> HIDE DEF a, b
    <3>2. Occ(a \o b, S) = Occ(a, S) + Occ(b, S)
        BY <3>1, OccConcat
    <3> QED BY <3>1, <3>2 DEF a, b
  <2>4. Occ(Tail(q), S) \in Nat
      BY <2>1, OccTyped
  <2>5. Occ(<<Head(q)>>, S) = IF Head(q) \in S THEN 1 ELSE 0
      BY OccOne
  <2> QED BY <2>3, <2>4, <2>5
<1> QED BY <1>1, <1>2

(* Sequences with the same elements in the same places are the same.       *)
LEMMA SameSeq ==
    ASSUME NEW X, NEW s \in Seq(X), NEW t \in Seq(X), Len(s) = Len(t),
           \A i \in 1..Len(s) : s[i] = t[i]
    PROVE  s = t
  OBVIOUS

(* A sequence is its first n elements followed by the rest.                *)
LEMMA SplitSeq ==
    ASSUME NEW X, NEW q \in Seq(X), NEW n \in 0..Len(q)
    PROVE  /\ SubSeq(q, 1, n) \in Seq(X) /\ Len(SubSeq(q, 1, n)) = n
           /\ \A i \in 1..n : SubSeq(q, 1, n)[i] = q[i]
           /\ q = SubSeq(q, 1, n) \o Rest(q, n)
<1> DEFINE a == SubSeq(q, 1, n)
           b == Rest(q, n)
           N == Len(q)
<1>1. a \in Seq(X) /\ Len(a) = n /\ \A i \in 1..n : a[i] = q[i]
    OBVIOUS
<1>2. b \in Seq(X) /\ Len(b) = N - n /\ \A i \in 1..(N - n) : b[i] = q[n + i]
    BY RestFacts
<1>3. N \in Nat /\ n \in Nat /\ n <= N
    OBVIOUS
<1> HIDE DEF a, b
<1> DEFINE c == a \o b
<1>4. c \in Seq(X) /\ Len(c) = N /\ \A i \in 1..n : c[i] = a[i]
    BY <1>1, <1>2, <1>3
<1>5. \A i \in 1..(N - n) : c[n + i] = b[i]
    BY <1>1, <1>2, <1>3
<1> HIDE DEF c
<1>6. ASSUME NEW i \in 1..N PROVE q[i] = c[i]
  <2>1. CASE i <= n
      BY <2>1, <1>1, <1>3, <1>4
  <2>2. CASE ~(i <= n)
    <3>1. i - n \in 1..(N - n) /\ n + (i - n) = i
        BY <2>2, <1>3
    <3> QED BY <3>1, <1>2, <1>5
  <2> QED BY <2>1, <2>2
<1>7. q = c
    BY <1>4, <1>6, SameSeq
<1> QED BY <1>1, <1>7 DEF a, b, c

(* A suffix has no more occurrences.                                       *)
LEMMA OccRest ==
    ASSUME NEW X, NEW q \in Seq(X), NEW n \in 0..Len(q), NEW S
    PROVE  Occ(Rest(q, n), S) <= Occ(q, S)
<1> DEFINE a == SubSeq(q, 1, n)
           b == Rest(q, n)
<1>1. a \in Seq(X) /\ q = a \o b
    BY SplitSeq
<1>2. b \in Seq(X)
    BY RestFacts
<1> HIDE DEF a, b
<1>4. Occ(q, S) = Occ(a, S) + Occ(b, S)
    BY <1>1, <1>2, OccConcat
<1>5. Occ(a, S) \in Nat /\ Occ(b, S) \in Nat
    BY <1>1, <1>2, OccTyped
<1> QED BY <1>4, <1>5 DEF b

(* An inserted frame is one occurrence more.                               *)
LEMMA OccInsert ==
    ASSUME NEW q \in Seq(Frame), Ordered(q), NEW f \in Frame, NEW S
    PROVE  Occ(InsertOrdered(q, f), S) = Occ(q, S) + IF f \in S THEN 1 ELSE 0
<1> DEFINE r == InsertOrdered(q, f)
           N == Len(q)
<1>1. PICK p \in 1..(N + 1) :
          /\ r[p] = f
          /\ \A i \in 1..N : i < p => r[i] = q[i]
          /\ \A i \in 1..N : p <= i => r[i + 1] = q[i]
  <2>1. \E p \in 1..(Len(q) + 1) :
            /\ InsertOrdered(q, f)[p] = f
            /\ \A i \in 1..Len(q) : i < p => InsertOrdered(q, f)[i] = q[i]
            /\ \A i \in 1..Len(q) : p <= i => InsertOrdered(q, f)[i + 1] = q[i]
    <3>1. PICK p \in 1..(Len(q) + 1) :
              /\ InsertOrdered(q, f)[p] = f
              /\ \A i \in 1..Len(q) : i < p => /\ InsertOrdered(q, f)[i] = q[i]
                                               /\ q[i].stamp <= f.stamp
              /\ \A i \in 1..Len(q) : p <= i => /\ InsertOrdered(q, f)[i + 1] = q[i]
                                                /\ f.stamp < q[i].stamp
        BY InsertPosition
    <3> QED BY <3>1
  <2> QED BY <2>1
<1>2. r \in Seq(Frame) /\ Len(r) = N + 1 /\ N \in Nat
    BY InsertPosition
<1> HIDE DEF r
<1> DEFINE a == SubSeq(q, 1, p - 1)
           b == Rest(q, p - 1)
<1> DEFINE n == p - 1
<1>0. n \in 0..N
    BY <1>1, <1>2
<1>3. a \in Seq(Frame) /\ Len(a) = p - 1 /\ \A i \in 1..(p - 1) : a[i] = q[i]
  <2> HIDE DEF n
  <2>1. /\ SubSeq(q, 1, n) \in Seq(Frame) /\ Len(SubSeq(q, 1, n)) = n
        /\ \A i \in 1..n : SubSeq(q, 1, n)[i] = q[i]
      BY <1>0, SplitSeq
  <2> QED BY <2>1 DEF n
<1>4. b \in Seq(Frame) /\ Len(b) = N - (p - 1) /\ \A i \in 1..(N - (p - 1)) : b[i] = q[p - 1 + i]
  <2> HIDE DEF n
  <2>1. /\ Rest(q, n) \in Seq(Frame) /\ Len(Rest(q, n)) = Len(q) - n
        /\ \A i \in 1..(Len(q) - n) : Rest(q, n)[i] = q[n + i]
      BY <1>0, RestFacts
  <2> QED BY <2>1 DEF n
<1>5. q = a \o b
  <2> HIDE DEF n
  <2>1. q = SubSeq(q, 1, n) \o Rest(q, n)
      BY <1>0, SplitSeq
  <2> QED BY <2>1 DEF n
<1> HIDE DEF a, b, n
<1>6. r = (a \o <<f>>) \o b
  <2> DEFINE c == a \o <<f>>
             d == c \o b
  <2>1. c \in Seq(Frame) /\ Len(c) = p /\ c[p] = f /\ \A i \in 1..(p - 1) : c[i] = a[i]
      BY <1>1, <1>2, <1>3
  <2> HIDE DEF c
  <2>2. d \in Seq(Frame) /\ Len(d) = p + (N - (p - 1)) /\ \A i \in 1..p : d[i] = c[i]
      BY <1>1, <1>2, <1>4, <2>1, SMTT(30)
  <2>3. \A i \in 1..(N - (p - 1)) : d[p + i] = b[i]
      BY <1>1, <1>2, <1>4, <2>1
  <2> HIDE DEF d
  <2>4. ASSUME NEW i \in 1..(N + 1) PROVE r[i] = d[i]
    <3>1. CASE i < p
        BY <3>1, <1>1, <1>2, <1>3, <2>1, <2>2, SMTT(30)
    <3>2. CASE i = p
        BY <3>2, <1>1, <1>2, <2>1, <2>2
    <3>3. CASE p < i
      <4>1. i - p \in 1..(N - (p - 1)) /\ p + (i - p) = i /\ p - 1 + (i - p) = i - 1
          BY <3>3, <1>1, <1>2
      <4>2. d[i] = q[i - 1]
          BY <4>1, <1>4, <2>3
      <4>3. i - 1 \in 1..N /\ p <= i - 1 /\ (i - 1) + 1 = i
          BY <3>3, <1>1, <1>2
      <4> QED BY <4>2, <4>3, <1>1
    <3> QED BY <3>1, <3>2, <3>3, <1>1, <1>2
  <2>5. Len(d) = N + 1
      BY <1>1, <1>2, <2>2
  <2>6. r = d
      BY <1>2, <2>2, <2>4, <2>5, SameSeq
  <2> QED BY <2>6 DEF d, c
<1>7. Occ(q, S) = Occ(a, S) + Occ(b, S)
    BY <1>3, <1>4, <1>5, OccConcat
<1>8. Occ(r, S) = (Occ(a, S) + Occ(<<f>>, S)) + Occ(b, S)
  <2>1. <<f>> \in Seq(Frame) /\ a \o <<f>> \in Seq(Frame)
      BY <1>3
  <2>2. Occ(r, S) = Occ(a \o <<f>>, S) + Occ(b, S)
      BY <2>1, <1>4, <1>6, OccConcat
  <2>3. Occ(a \o <<f>>, S) = Occ(a, S) + Occ(<<f>>, S)
      BY <2>1, <1>3, OccConcat
  <2> QED BY <2>2, <2>3
<1>9. Occ(a, S) \in Nat /\ Occ(b, S) \in Nat
    BY <1>3, <1>4, OccTyped
<1> QED BY <1>7, <1>8, <1>9, OccOne DEF r

-----------------------------------------------------------------------------
(***************************************************************************)
(* ApproximateSynchronizer and PairIndex.                                  *)
(***************************************************************************)

FramesOf(s) == {f \in Frame : f.sensor = s}
Matches == [camera : FramesOf("camera"), lidar : FramesOf("lidar")]
Drops == [frame : Frame, reason : {"outside", "full", "flush"}]

(* A record of the index names two frames if they matched, one otherwise.  *)
Row == {r \in PairRecords :
            IF r.reason = "matched" THEN r.camera # None /\ r.lidar # None
            ELSE r.camera = None <=> r.lidar # None}

MatchRows(ms) == [i \in DOMAIN ms |-> Matched(ms[i])]
DropRows(ds) == [i \in DOMAIN ds |-> Single(ds[i])]

(* The record of a match names both frames.                                *)
LEMMA MatchedRow ==
    ASSUME NEW m \in Matches
    PROVE  /\ Matched(m) \in Row /\ Matched(m).reason = "matched"
           /\ \A s \in Sensor : StampOf(Matched(m), s) = m[s].stamp
           /\ m.camera \in Frame /\ m.camera.sensor = "camera"
           /\ m.lidar \in Frame /\ m.lidar.sensor = "lidar"
<1>1. PICK c \in Frame, l \in Frame : /\ m = [camera |-> c, lidar |-> l]
                                      /\ c.sensor = "camera" /\ l.sensor = "lidar"
    BY DEF Matches, FramesOf
<1>2. c.stamp \in Nat /\ l.stamp \in Nat /\ None \notin Nat
    BY BufferAssumption DEF None
<1>3. Matched(m) = [camera |-> c.stamp, lidar |-> l.stamp, reason |-> "matched"]
    BY <1>1 DEF Matched
<1>4. Matched(m) \in PairRecords
    BY <1>2, <1>3 DEF PairRecords
<1>5. Matched(m).camera # None /\ Matched(m).lidar # None
    BY <1>2, <1>3
<1>6. Matched(m) \in Row /\ Matched(m).reason = "matched"
    BY <1>3, <1>4, <1>5 DEF Row
<1>7. \A s \in Sensor : StampOf(Matched(m), s) = m[s].stamp
    BY <1>1, <1>3 DEF StampOf, Sensor
<1> QED BY <1>1, <1>6, <1>7

(* The record of a drop names the frame dropped, under its sensor.         *)
LEMMA SingleRow ==
    ASSUME NEW d \in Drops
    PROVE  /\ Single(d) \in Row /\ Single(d).reason = d.reason
           /\ d.frame \in Frame /\ d.frame.sensor \in Sensor /\ d.frame.stamp \in Nat
           /\ \A s \in Sensor : StampOf(Single(d), s) =
                                    IF s = d.frame.sensor THEN d.frame.stamp ELSE None
           /\ PairTime(Single(d)) = d.frame.stamp
<1>1. PICK f \in Frame, why \in {"outside", "full", "flush"} : d = [frame |-> f, reason |-> why]
    BY DEF Drops
<1>2. f.stamp \in Nat /\ None \notin Nat /\ f.sensor \in Sensor
    BY BufferAssumption DEF None
<1>3. Single(d) = [camera |-> IF f.sensor = "camera" THEN f.stamp ELSE None,
                   lidar  |-> IF f.sensor = "lidar" THEN f.stamp ELSE None,
                   reason |-> why]
    BY <1>1 DEF Single
<1>4. CASE f.sensor = "camera"
  <2>1. Single(d) = [camera |-> f.stamp, lidar |-> None, reason |-> why]
      BY <1>3, <1>4
  <2>2. Single(d) \in PairRecords
      BY <1>1, <1>2, <2>1 DEF PairRecords
  <2>3. Single(d) \in Row
      BY <1>1, <1>2, <2>1, <2>2 DEF Row
  <2>4. PairTime(Single(d)) = f.stamp
      BY <1>2, <2>1 DEF PairTime
  <2>5. \A s \in Sensor : StampOf(Single(d), s) = IF s = "camera" THEN f.stamp ELSE None
      BY <2>1 DEF StampOf, Sensor
  <2> QED BY <1>1, <1>2, <1>4, <2>1, <2>3, <2>4, <2>5
<1>5. CASE f.sensor = "lidar"
  <2>1. Single(d) = [camera |-> None, lidar |-> f.stamp, reason |-> why]
      BY <1>3, <1>5
  <2>2. Single(d) \in PairRecords
      BY <1>1, <1>2, <2>1 DEF PairRecords
  <2>3. Single(d) \in Row
      BY <1>1, <1>2, <2>1, <2>2 DEF Row
  <2>4. PairTime(Single(d)) = f.stamp
      BY <1>2, <2>1 DEF PairTime
  <2>5. \A s \in Sensor : StampOf(Single(d), s) = IF s = "lidar" THEN f.stamp ELSE None
      BY <2>1 DEF StampOf, Sensor
  <2> QED BY <1>1, <1>2, <1>5, <2>1, <2>3, <2>4, <2>5
<1> QED BY <1>2, <1>4, <1>5 DEF Sensor

(* The records of the results, result by result.                           *)
LEMMA RowsTyped ==
    ASSUME NEW ms \in Seq(Matches), NEW ds \in Seq(Drops)
    PROVE  /\ MatchRows(ms) \in Seq(Row) /\ Len(MatchRows(ms)) = Len(ms)
           /\ DropRows(ds) \in Seq(Row) /\ Len(DropRows(ds)) = Len(ds)
<1>1. \A i \in 1..Len(ms) : Matched(ms[i]) \in Row
    BY MatchedRow
<1>2. \A i \in 1..Len(ds) : Single(ds[i]) \in Row
    BY SingleRow
<1>3. MatchRows(ms) \in Seq(Row) /\ Len(MatchRows(ms)) = Len(ms)
    BY <1>1 DEF MatchRows
<1>4. DropRows(ds) \in Seq(Row) /\ Len(DropRows(ds)) = Len(ds)
    BY <1>2 DEF DropRows
<1> QED BY <1>3, <1>4

(* One more result is one more record.                                     *)
LEMMA RowsAppend ==
    ASSUME NEW ms \in Seq(Matches), NEW ds \in Seq(Drops)
    PROVE  /\ \A m \in Matches : MatchRows(Append(ms, m)) = Append(MatchRows(ms), Matched(m))
           /\ \A d \in Drops : DropRows(Append(ds, d)) = Append(DropRows(ds), Single(d))
<1>0. /\ \A m \in Matches : Append(ms, m) \in Seq(Matches)
      /\ \A d \in Drops : Append(ds, d) \in Seq(Drops)
    OBVIOUS
<1>1. ASSUME NEW m \in Matches
      PROVE  MatchRows(Append(ms, m)) = Append(MatchRows(ms), Matched(m))
  <2> DEFINE a == MatchRows(Append(ms, m))
             b == Append(MatchRows(ms), Matched(m))
  <2>1. /\ a \in Seq(Row) /\ Len(a) = Len(ms) + 1 /\ b \in Seq(Row) /\ Len(b) = Len(ms) + 1
    <3>1. a \in Seq(Row) /\ Len(a) = Len(Append(ms, m))
        BY <1>0, RowsTyped
    <3>2. Len(Append(ms, m)) = Len(ms) + 1
        OBVIOUS
    <3>3. MatchRows(ms) \in Seq(Row) /\ Len(MatchRows(ms)) = Len(ms) /\ Matched(m) \in Row
        BY RowsTyped, MatchedRow
    <3>4. b \in Seq(Row) /\ Len(b) = Len(ms) + 1
        BY <3>3
    <3> QED BY <3>1, <3>2, <3>4
  <2>2. ASSUME NEW i \in 1..(Len(ms) + 1) PROVE a[i] = b[i]
    <3>1. a[i] = Matched(Append(ms, m)[i])
        BY DEF MatchRows
    <3>2. CASE i = Len(ms) + 1
      <4>1. a[i] = Matched(m)
          BY <3>1, <3>2
      <4>2. b[i] = Matched(m)
          BY <3>2, RowsTyped, MatchedRow
      <4> QED BY <4>1, <4>2
    <3>3. CASE i # Len(ms) + 1
      <4>1. i \in 1..Len(ms)
          BY <3>3
      <4>2. a[i] = Matched(ms[i])
          BY <3>1, <4>1
      <4>3. b[i] = MatchRows(ms)[i]
          BY <4>1, RowsTyped, MatchedRow
      <4> QED BY <4>1, <4>2, <4>3 DEF MatchRows
    <3> QED BY <3>2, <3>3
  <2> HIDE DEF a, b
  <2>3. a = b
      BY <2>1, <2>2, SameSeq
  <2> QED BY <2>3 DEF a, b
<1>2. ASSUME NEW d \in Drops PROVE DropRows(Append(ds, d)) = Append(DropRows(ds), Single(d))
  <2> DEFINE a == DropRows(Append(ds, d))
             b == Append(DropRows(ds), Single(d))
  <2>1. /\ a \in Seq(Row) /\ Len(a) = Len(ds) + 1 /\ b \in Seq(Row) /\ Len(b) = Len(ds) + 1
    <3>1. a \in Seq(Row) /\ Len(a) = Len(Append(ds, d))
        BY <1>0, RowsTyped
    <3>2. Len(Append(ds, d)) = Len(ds) + 1
        OBVIOUS
    <3>3. DropRows(ds) \in Seq(Row) /\ Len(DropRows(ds)) = Len(ds) /\ Single(d) \in Row
        BY RowsTyped, SingleRow
    <3>4. b \in Seq(Row) /\ Len(b) = Len(ds) + 1
        BY <3>3
    <3> QED BY <3>1, <3>2, <3>4
  <2>2. ASSUME NEW i \in 1..(Len(ds) + 1) PROVE a[i] = b[i]
    <3>1. a[i] = Single(Append(ds, d)[i])
        BY DEF DropRows
    <3>2. CASE i = Len(ds) + 1
      <4>1. a[i] = Single(d)
          BY <3>1, <3>2
      <4>2. b[i] = Single(d)
          BY <3>2, RowsTyped, SingleRow
      <4> QED BY <4>1, <4>2
    <3>3. CASE i # Len(ds) + 1
      <4>1. i \in 1..Len(ds)
          BY <3>3
      <4>2. a[i] = Single(ds[i])
          BY <3>1, <4>1
      <4>3. b[i] = DropRows(ds)[i]
          BY <4>1, RowsTyped, SingleRow
      <4> QED BY <4>1, <4>2, <4>3 DEF DropRows
    <3> QED BY <3>2, <3>3
  <2> HIDE DEF a, b
  <2>3. a = b
      BY <2>1, <2>2, SameSeq
  <2> QED BY <2>3 DEF a, b
<1> QED BY <1>1, <1>2

(* A call of the synchronizer at work, when the frames of A have arrived.  *)
WorkOk(w, A) ==
    /\ w \in [waiting : [Sensor -> Seq(Frame)], matches : Seq(Matches), drops : Seq(Drops)]
    /\ \A s \in Sensor : QueueOk(w.waiting[s], s, A)

Stamped(s, t) == {f \in Frame : f.sensor = s /\ f.stamp = t}
RowsAt(s, t) == {r \in Row : StampOf(r, s) = t}

(* The frames of sensor s stamped t that a call has in its hands: waiting, *)
(* matched or dropped.                                                     *)
Tally(w, s, t) ==
    Occ(w.waiting[s], Stamped(s, t))
    + (Occ(MatchRows(w.matches), RowsAt(s, t)) + Occ(DropRows(w.drops), RowsAt(s, t)))

(* The queue without its front.                                            *)
LEMMA TailFacts ==
    ASSUME NEW q, NEW s, NEW A, QueueOk(q, s, A), q # <<>>
    PROVE  /\ QueueOk(Tail(q), s, A) /\ Len(Tail(q)) = Len(q) - 1
           /\ Head(q) \in Frame /\ Head(q) \in A /\ Head(q).sensor = s /\ Head(q) \in ToSet(q)
           /\ ToSet(q) = ToSet(Tail(q)) \union {Head(q)}
           /\ \A x \in ToSet(q) : Head(q).stamp <= x.stamp
<1>1. q \in Seq(Frame) /\ ToSet(q) \subseteq {f \in A : f.sensor = s} /\ Ordered(q) /\ IsInjective(q)
    BY DEF QueueOk
<1>2. PICK N \in Nat : N = Len(q) /\ DOMAIN q = 1..N /\ N >= 1
    BY <1>1
<1>3. Head(q) = q[1] /\ 1 \in DOMAIN q
    BY <1>1, <1>2
<1>4. Tail(q) = Rest(q, 1) /\ 1 \in 0..Len(q)
    BY <1>1, <1>2 DEF Rest
<1>5. /\ Rest(q, 1) \in Seq(Frame) /\ Len(Rest(q, 1)) = Len(q) - 1
      /\ ToSet(Rest(q, 1)) \subseteq ToSet(q)
      /\ Ordered(Rest(q, 1)) /\ IsInjective(Rest(q, 1))
      /\ \A x \in ToSet(q) : x \in ToSet(Rest(q, 1)) \/ \E m \in 0..(1 - 1) : x = q[m + 1]
    BY <1>1, <1>4, RestFacts
<1>6. \A x \in ToSet(q) : x \in ToSet(Rest(q, 1)) \/ x = q[1]
  <2>1. \A m \in 0..(1 - 1) : m + 1 = 1
      OBVIOUS
  <2> QED BY <1>5, <2>1
<1>7. Head(q) \in ToSet(q)
    BY <1>3 DEF ToSet
<1>8. ASSUME NEW x \in ToSet(q) PROVE Head(q).stamp <= x.stamp
  <2>1. PICK i \in 1..N : x = q[i]
      BY <1>2 DEF ToSet
  <2>2. q[1] \in Frame /\ q[1].stamp \in Nat
      BY <1>1, <1>2, BufferAssumption
  <2>3. i = 1 \/ (1 < i /\ i \in DOMAIN q)
      BY <1>2
  <2>4. CASE i = 1
      BY <2>1, <2>2, <2>4, <1>3
  <2>5. CASE 1 < i /\ i \in DOMAIN q
      BY <2>1, <2>5, <1>1, <1>3 DEF Ordered
  <2> QED BY <2>3, <2>4, <2>5
<1>9. QueueOk(Tail(q), s, A)
    BY <1>1, <1>4, <1>5 DEF QueueOk
<1>10. ToSet(q) = ToSet(Tail(q)) \union {Head(q)}
    BY <1>3, <1>4, <1>5, <1>6, <1>7
<1>11. Head(q) \in Frame /\ Head(q) \in A /\ Head(q).sensor = s
    BY <1>1, <1>3, <1>7, <1>2
<1> QED BY <1>4, <1>5, <1>7, <1>8, <1>9, <1>10, <1>11

(* A frame that is dropped goes from its queue to the drops, and nothing   *)
(* else changes.                                                           *)
DropEffect(w, s, why, A) ==
    /\ WorkOk(Drop(w, s, why), A)
    /\ Drop(w, s, why).waiting = [w.waiting EXCEPT ![s] = Tail(w.waiting[s])]
    /\ Drop(w, s, why).matches = w.matches
    /\ DropRows(Drop(w, s, why).drops) =
           Append(DropRows(w.drops), Single([frame |-> Head(w.waiting[s]), reason |-> why]))
    /\ [frame |-> Head(w.waiting[s]), reason |-> why] \in Drops
    /\ \A t \in Sensor, n \in Nat : Tally(Drop(w, s, why), t, n) = Tally(w, t, n)

(* recordDrop and pop_front have that effect.                              *)
LEMMA DropFacts ==
    ASSUME NEW A, NEW w, WorkOk(w, A), NEW s \in Sensor, w.waiting[s] # <<>>,
           NEW why \in {"outside", "full", "flush"}
    PROVE  DropEffect(w, s, why, A)
<1>1. PICK wt \in [Sensor -> Seq(Frame)], ms \in Seq(Matches), ds \in Seq(Drops) :
          w = [waiting |-> wt, matches |-> ms, drops |-> ds]
    BY DEF WorkOk
<1>2. w.waiting = wt /\ w.matches = ms /\ w.drops = ds
    BY <1>1
<1>3. \A t \in Sensor : QueueOk(wt[t], t, A)
    BY <1>2 DEF WorkOk
<1>4. wt[s] # <<>> /\ wt[s] \in Seq(Frame)
    BY <1>1, <1>2
<1> DEFINE x == Head(wt[s])
           d == [frame |-> x, reason |-> why]
           wt2 == [wt EXCEPT ![s] = Tail(wt[s])]
           w2 == Drop(w, s, why)
<1>5. /\ QueueOk(Tail(wt[s]), s, A) /\ x \in Frame /\ x.sensor = s
    BY <1>3, <1>4, TailFacts
<1>6. d \in Drops
    BY <1>5 DEF Drops
<1>7. w2 = [waiting |-> wt2, matches |-> ms, drops |-> Append(ds, d)]
  <2>1. w2 = [w EXCEPT !.waiting = [wt EXCEPT ![s] = Tail(wt[s])], !.drops = Append(ds, d)]
      BY <1>2 DEF Drop
  <2> HIDE DEF d, w2
  <2> QED BY <1>1, <2>1
<1>8. w2.waiting = wt2 /\ w2.matches = ms /\ w2.drops = Append(ds, d)
    BY <1>7
<1>9. /\ wt2 \in [Sensor -> Seq(Frame)] /\ wt2[s] = Tail(wt[s])
      /\ \A t \in Sensor : t # s => wt2[t] = wt[t]
    BY <1>1, <1>4
<1>10. Append(ds, d) \in Seq(Drops)
    BY <1>1, <1>6
<1> HIDE DEF wt2, d, w2
<1>11. WorkOk(w2, A)
  <2>1. w2 \in [waiting : [Sensor -> Seq(Frame)], matches : Seq(Matches), drops : Seq(Drops)]
      BY <1>1, <1>7, <1>9, <1>10
  <2>2. \A t \in Sensor : QueueOk(wt2[t], t, A)
      BY <1>3, <1>5, <1>9
  <2> QED BY <2>1, <2>2, <1>8 DEF WorkOk
<1>12. DropRows(Append(ds, d)) = Append(DropRows(ds), Single(d))
    BY <1>1, <1>6, RowsAppend
<1>13. ASSUME NEW t \in Sensor, NEW n \in Nat PROVE Tally(w2, t, n) = Tally(w, t, n)
  <2> DEFINE F == Stamped(t, n)
             R == RowsAt(t, n)
  <2>1. Single(d) \in Row /\ StampOf(Single(d), t) = IF t = s THEN x.stamp ELSE None
    <3>1. d.frame = x
        BY DEF d
    <3> QED BY <3>1, <1>5, <1>6, SingleRow
  <2>2. DropRows(ds) \in Seq(Row) /\ MatchRows(ms) \in Seq(Row)
      BY <1>1, RowsTyped
  <2>3. Occ(DropRows(Append(ds, d)), R) = Occ(DropRows(ds), R) + IF Single(d) \in R THEN 1 ELSE 0
      BY <1>12, <2>1, <2>2, OccAppendTail
  <2>4. Occ(wt[s], F) = Occ(Tail(wt[s]), F) + IF x \in F THEN 1 ELSE 0
      BY <1>4, OccAppendTail
  <2>5. /\ Occ(wt[t], F) \in Nat /\ Occ(wt2[t], F) \in Nat
        /\ Occ(DropRows(ds), R) \in Nat /\ Occ(MatchRows(ms), R) \in Nat
    <3>1. wt[t] \in Seq(Frame) /\ wt2[t] \in Seq(Frame)
        BY <1>1, <1>9
    <3> QED BY <3>1, <2>2, OccTyped
  <2>6. t = s => (x \in F <=> Single(d) \in R)
      BY <1>5, <2>1 DEF Stamped, RowsAt
  <2>7. t # s => Single(d) \notin R
      BY <2>1 DEF RowsAt, None
  <2> HIDE DEF F, R, x
  <2>8. Occ(wt[t], F) + Occ(DropRows(ds), R) = Occ(wt2[t], F) + Occ(DropRows(Append(ds, d)), R)
    <3>1. CASE t = s
        BY <3>1, <2>3, <2>4, <2>5, <2>6, <1>9
    <3>2. CASE t # s
        BY <3>2, <2>3, <2>5, <2>7, <1>9
    <3> QED BY <3>1, <3>2
  <2>9. Occ(DropRows(Append(ds, d)), R) \in Nat
      BY <2>3, <2>5
  <2>10. Tally(w, t, n) = Occ(wt[t], F) + (Occ(MatchRows(ms), R) + Occ(DropRows(ds), R))
      BY <1>2 DEF Tally, F, R
  <2>11. Tally(w2, t, n) = Occ(wt2[t], F)
                           + (Occ(MatchRows(ms), R) + Occ(DropRows(Append(ds, d)), R))
      BY <1>8 DEF Tally, F, R
  <2>12. PICK a \in Nat, b \in Nat, c \in Nat, a2 \in Nat, c2 \in Nat :
             /\ a = Occ(wt[t], F) /\ b = Occ(MatchRows(ms), R) /\ c = Occ(DropRows(ds), R)
             /\ a2 = Occ(wt2[t], F) /\ c2 = Occ(DropRows(Append(ds, d)), R)
      BY <2>5, <2>9
  <2>13. a + c = a2 + c2
      BY <2>8, <2>12
  <2>14. a + (b + c) = a2 + (b + c2)
      BY <2>13
  <2> QED BY <2>10, <2>11, <2>12, <2>14
<1> QED BY <1>2, <1>6, <1>8, <1>11, <1>12, <1>13 DEF wt2, d, w2, DropEffect

(* The records a call leads to, besides those of base.                     *)
RowSet(base, w) == base \union ToSet(MatchRows(w.matches)) \union ToSet(DropRows(w.drops))

(* One more match or drop is one more record.                              *)
LEMMA RowSetGrows ==
    ASSUME NEW base, NEW ms \in Seq(Matches), NEW ds \in Seq(Drops)
    PROVE  /\ \A m \in Matches : ToSet(MatchRows(Append(ms, m))) =
                                     ToSet(MatchRows(ms)) \union {Matched(m)}
           /\ \A d \in Drops : ToSet(DropRows(Append(ds, d))) =
                                   ToSet(DropRows(ds)) \union {Single(d)}
<1>1. ASSUME NEW q \in Seq(Row), NEW r \in Row PROVE ToSet(Append(q, r)) = ToSet(q) \union {r}
  <2>1. PICK n \in Nat : n = Len(q) /\ DOMAIN q = 1..n
      OBVIOUS
  <2>2. DOMAIN Append(q, r) = 1..(n + 1) /\ Append(q, r)[n + 1] = r
      BY <2>1
  <2>3. \A i \in 1..n : Append(q, r)[i] = q[i]
      BY <2>1
  <2>4. \A i \in 1..(n + 1) : i = n + 1 \/ i \in 1..n
      BY <2>1
  <2>5. 1..n \subseteq 1..(n + 1) /\ n + 1 \in 1..(n + 1)
      BY <2>1
  <2>6. ToSet(Append(q, r)) \subseteq ToSet(q) \union {r}
      BY <2>1, <2>2, <2>3, <2>4 DEF ToSet
  <2>7. ToSet(q) \union {r} \subseteq ToSet(Append(q, r))
      BY <2>1, <2>2, <2>3, <2>5 DEF ToSet
  <2> QED BY <2>6, <2>7
<1>2. MatchRows(ms) \in Seq(Row) /\ DropRows(ds) \in Seq(Row)
    BY RowsTyped
<1>3. \A m \in Matches : Matched(m) \in Row
    BY MatchedRow
<1>4. \A d \in Drops : Single(d) \in Row
    BY SingleRow
<1>5. \A m \in Matches : ToSet(MatchRows(Append(ms, m))) = ToSet(MatchRows(ms)) \union {Matched(m)}
    BY <1>1, <1>2, <1>3, RowsAppend
<1>6. \A d \in Drops : ToSet(DropRows(Append(ds, d))) = ToSet(DropRows(ds)) \union {Single(d)}
    BY <1>1, <1>2, <1>4, RowsAppend
<1> QED BY <1>5, <1>6

(* Every frame of A is accounted for, by a frame of its stamp that waits   *)
(* or by a record.                                                         *)
Accounted(rows, wt, A) ==
    \A g \in A : \/ \E x \in ToSet(wt[g.sensor]) : x.stamp = g.stamp
                 \/ \E r \in rows : StampOf(r, g.sensor) = g.stamp

(* The other sensor has moved past what the record r could have matched.   *)
Apart(r, wt, A) ==
    \A s \in Sensor : StampOf(r, s) = None =>
        /\ \E z \in A : z.sensor = s /\ z.stamp > PairTime(r) + Tolerance
        /\ \A x \in ToSet(wt[s]) : x.stamp > PairTime(r) + Tolerance

(* What it could have matched has found another end.                       *)
Hopeless(r, rows, A) ==
    \A g \in A : /\ StampOf(r, g.sensor) = None
                 /\ g.stamp - PairTime(r) \in (-Tolerance)..Tolerance
                 => \E x \in rows : StampOf(x, g.sensor) = g.stamp /\ x.reason # "outside"

Settled(rows, wt, A) ==
    \A r \in rows : r.reason = "outside" => Apart(r, wt, A) /\ Hopeless(r, rows, A)

(* The frames that leave the queues have their records.                    *)
Moves(rows, wt, rows2, wt2) ==
    /\ rows \subseteq rows2
    /\ \A s \in Sensor :
           /\ ToSet(wt2[s]) \subseteq ToSet(wt[s])
           /\ \A x \in ToSet(wt[s]) : \/ x \in ToSet(wt2[s])
                                      \/ \E r \in rows2 : StampOf(r, s) = x.stamp

(* Such a move keeps every frame accounted for, and what is settled stays  *)
(* so if the new records are.                                              *)
LEMMA MovesKeep ==
    ASSUME NEW A, A \subseteq Frame, NEW rows, NEW wt, NEW rows2, NEW wt2,
           Moves(rows, wt, rows2, wt2)
    PROVE  /\ Accounted(rows, wt, A) => Accounted(rows2, wt2, A)
           /\ /\ Settled(rows, wt, A)
              /\ \A r \in rows2 : r \in rows \/ r.reason # "outside"
                                  \/ (Apart(r, wt2, A) /\ Hopeless(r, rows2, A))
              => Settled(rows2, wt2, A)
<1>0. \A g \in A : g.sensor \in Sensor
    BY BufferAssumption
<1>1. Accounted(rows, wt, A) => Accounted(rows2, wt2, A)
    BY <1>0 DEF Moves, Accounted
<1>2. ASSUME NEW r, Apart(r, wt, A) PROVE Apart(r, wt2, A)
    BY <1>2 DEF Moves, Apart
<1>3. ASSUME NEW r, Hopeless(r, rows, A) PROVE Hopeless(r, rows2, A)
    BY <1>3 DEF Moves, Hopeless
<1>4. ASSUME Settled(rows, wt, A),
             \A r \in rows2 : r \in rows \/ r.reason # "outside"
                              \/ (Apart(r, wt2, A) /\ Hopeless(r, rows2, A))
      PROVE  Settled(rows2, wt2, A)
    BY <1>2, <1>3, <1>4 DEF Settled
<1> QED BY <1>1, <1>4

(* The frame dropped because the other front is too far ahead of it: its   *)
(* partners cannot wait any more, and have not been dropped for the same   *)
(* reason, because this frame was still waiting.                           *)
LEMMA DroppedIsHopeless ==
    ASSUME NEW A, A \subseteq Frame, NEW rows, rows \subseteq Row,
           NEW wt \in [Sensor -> Seq(Frame)], \A s \in Sensor : QueueOk(wt[s], s, A),
           Accounted(rows, wt, A), Settled(rows, wt, A),
           NEW o \in Sensor, NEW s \in Sensor, s # o, wt[o] # <<>>, wt[s] # <<>>,
           Head(wt[s]).stamp - Head(wt[o]).stamp > Tolerance,
           NEW r \in Row, StampOf(r, o) = Head(wt[o]).stamp, PairTime(r) = Head(wt[o]).stamp,
           NEW wt2 \in [Sensor -> Seq(Frame)], ToSet(wt2[s]) \subseteq ToSet(wt[s])
    PROVE  Apart(r, wt2, A) /\ Hopeless(r, rows, A)
<1> DEFINE x == Head(wt[o])
           y == Head(wt[s])
<1>1. /\ x \in Frame /\ x \in ToSet(wt[o])
      /\ y \in Frame /\ y \in A /\ y.sensor = s /\ \A z \in ToSet(wt[s]) : y.stamp <= z.stamp
    BY TailFacts
<1>2. PICK xt \in Nat : xt = x.stamp /\ PairTime(r) = xt /\ StampOf(r, o) = xt
    BY <1>1, BufferAssumption
<1>3. PICK yt \in Nat : yt = y.stamp
    BY <1>1, BufferAssumption
<1>4. yt - xt > Tolerance /\ Tolerance \in Nat
    BY <1>2, <1>3, SynchronizerAssumption
<1>5. yt > xt + Tolerance
    BY <1>4
<1>6. Sensor = {o, s}
    BY DEF Sensor
<1>7. xt # None
    BY DEF None
<1>8. \A z \in ToSet(wt[s]) : z \in Frame /\ z.stamp \in Nat /\ yt <= z.stamp
  <2>1. \A z \in ToSet(wt[s]) : z \in A
      BY DEF QueueOk
  <2> QED BY <2>1, <1>1, <1>3, BufferAssumption
<1>9. \A z \in ToSet(wt[s]) : z.stamp > xt + Tolerance
    BY <1>8, <1>4, <1>5
<1> HIDE DEF x, y
<1>10. Apart(r, wt2, A)
  <2>1. \A u \in Sensor : StampOf(r, u) = None => u = s
      BY <1>2, <1>6, <1>7
  <2>2. y \in A /\ y.sensor = s /\ y.stamp > PairTime(r) + Tolerance
      BY <1>1, <1>2, <1>3, <1>5
  <2>3. \A z \in ToSet(wt2[s]) : z.stamp > PairTime(r) + Tolerance
      BY <1>9, <1>2
  <2> QED BY <2>1, <2>2, <2>3 DEF Apart
<1>11. ASSUME NEW g \in A, StampOf(r, g.sensor) = None,
              g.stamp - PairTime(r) \in (-Tolerance)..Tolerance
       PROVE  \E k \in rows : StampOf(k, g.sensor) = g.stamp /\ k.reason # "outside"
  <2>1. g.sensor = s /\ g \in Frame
      BY <1>11, <1>2, <1>6, <1>7, BufferAssumption
  <2>2. PICK gt \in Nat : gt = g.stamp
      BY <2>1, BufferAssumption
  <2>3. gt - xt <= Tolerance /\ -Tolerance <= gt - xt
      BY <1>11, <1>2, <2>2
  <2>4. ~ (gt > xt + Tolerance) /\ ~ (xt > gt + Tolerance)
      BY <2>3, <1>4
  <2>5. ~ \E z \in ToSet(wt[s]) : z.stamp = g.stamp
      BY <1>9, <2>2, <2>4
  <2>6. PICK k \in rows : StampOf(k, s) = gt
      BY <2>1, <2>2, <2>5 DEF Accounted
  <2>7. ASSUME k.reason = "outside" PROVE FALSE
    <3>1. k \in Row /\ Apart(k, wt, A)
        BY <2>7 DEF Settled
    <3>2. gt # None
        BY DEF None
    <3>3. StampOf(k, o) = None /\ PairTime(k) = gt
        BY <3>1, <3>2, <2>6, <2>7 DEF Row, StampOf, PairTime, Sensor
    <3>4. x.stamp > PairTime(k) + Tolerance
        BY <1>1, <3>1, <3>3 DEF Apart
    <3>5. xt > gt + Tolerance
        BY <3>3, <3>4, <1>2
    <3> QED BY <3>5, <2>4
  <2> QED BY <2>1, <2>2, <2>6, <2>7
<1>12. Hopeless(r, rows, A)
    BY <1>11 DEF Hopeless
<1> QED BY <1>10, <1>12

(* The frames that wait.                                                   *)
Pending(w) == Len(w.waiting["camera"]) + Len(w.waiting["lidar"])

(* The call once the two fronts are paired.                                *)
MatchFronts(w) ==
    [waiting |-> [s \in Sensor |-> Tail(w.waiting[s])], drops |-> w.drops,
     matches |-> Append(w.matches, [camera |-> Head(w.waiting["camera"]),
                                    lidar |-> Head(w.waiting["lidar"])])]

(* The three outcomes of a round of tryMatchLocked.                        *)
LEMMA MatchOneCases ==
    ASSUME NEW A, NEW w, WorkOk(w, A)
    PROVE  \/ (\E s \in Sensor : w.waiting[s] = <<>>) /\ MatchOne(w) = w
           \/ /\ \A s \in Sensor : w.waiting[s] # <<>>
              /\ MatchOne(w) = MatchFronts(w)
           \/ /\ \A s \in Sensor : w.waiting[s] # <<>>
              /\ \E o, s \in Sensor :
                     /\ s # o
                     /\ Head(w.waiting[s]).stamp - Head(w.waiting[o]).stamp > Tolerance
                     /\ MatchOne(w) = Drop(w, o, "outside")
<1>1. CASE \E s \in Sensor : w.waiting[s] = <<>>
    BY <1>1 DEF MatchOne
<1>2. CASE \A s \in Sensor : w.waiting[s] # <<>>
  <2>1. w.waiting["camera"] # <<>> /\ w.waiting["lidar"] # <<>>
      BY <1>2 DEF Sensor
  <2>2. QueueOk(w.waiting["camera"], "camera", A) /\ QueueOk(w.waiting["lidar"], "lidar", A)
      BY DEF WorkOk, Sensor
  <2> DEFINE image == Head(w.waiting["camera"])
             cloud == Head(w.waiting["lidar"])
  <2>3. image \in Frame /\ cloud \in Frame
      BY <2>1, <2>2, TailFacts
  <2>4. PICK i \in Nat, c \in Nat : i = image.stamp /\ c = cloud.stamp
      BY <2>3, BufferAssumption
  <2>5. Tolerance \in Nat
      BY SynchronizerAssumption
  <2>6. \/ i - c \in (-Tolerance)..Tolerance
        \/ i < c /\ c - i > Tolerance /\ i - c \notin (-Tolerance)..Tolerance
        \/ ~(i < c) /\ i - c > Tolerance /\ i - c \notin (-Tolerance)..Tolerance
      BY <2>5
  <2>7. ~ \E s \in Sensor : w.waiting[s] = <<>>
      BY <1>2
  <2>8. "camera" \in Sensor /\ "lidar" \in Sensor /\ "camera" # "lidar"
      BY DEF Sensor
  <2>9. CASE i - c \in (-Tolerance)..Tolerance
      BY <1>2, <2>4, <2>7, <2>9 DEF MatchOne, MatchFronts
  <2>10. CASE i < c /\ c - i > Tolerance /\ i - c \notin (-Tolerance)..Tolerance
    <3>1. MatchOne(w) = Drop(w, "camera", "outside")
        BY <2>4, <2>7, <2>10 DEF MatchOne, TrailingFront
    <3> QED BY <1>2, <2>4, <2>8, <2>10, <3>1
  <2>11. CASE ~(i < c) /\ i - c > Tolerance /\ i - c \notin (-Tolerance)..Tolerance
    <3>1. MatchOne(w) = Drop(w, "lidar", "outside")
        BY <2>4, <2>7, <2>11 DEF MatchOne, TrailingFront
    <3> QED BY <1>2, <2>4, <2>8, <2>11, <3>1
  <2> QED BY <2>6, <2>9, <2>10, <2>11
<1> QED BY <1>1, <1>2

(* What a round that pairs the two fronts leaves.                          *)
LEMMA MatchFacts ==
    ASSUME NEW A, NEW w, WorkOk(w, A), \A s \in Sensor : w.waiting[s] # <<>>
    PROVE  /\ WorkOk(MatchFronts(w), A)
           /\ MatchFronts(w).waiting = [s \in Sensor |-> Tail(w.waiting[s])]
           /\ \A base : \E r \in Row :
                 /\ RowSet(base, MatchFronts(w)) = RowSet(base, w) \union {r}
                 /\ r.reason = "matched"
                 /\ \A s \in Sensor : StampOf(r, s) = Head(w.waiting[s]).stamp
           /\ \A t \in Sensor, n \in Nat : Tally(MatchFronts(w), t, n) = Tally(w, t, n)
<1> DEFINE v == MatchFronts(w)
<1>1. PICK wt \in [Sensor -> Seq(Frame)], ms \in Seq(Matches), ds \in Seq(Drops) :
          w = [waiting |-> wt, matches |-> ms, drops |-> ds]
    BY DEF WorkOk
<1>2. w.waiting = wt /\ w.matches = ms /\ w.drops = ds
    BY <1>1
<1>3. \A t \in Sensor : QueueOk(wt[t], t, A) /\ wt[t] # <<>>
    BY <1>2 DEF WorkOk
<1>4. \A t \in Sensor : /\ QueueOk(Tail(wt[t]), t, A)
                        /\ Head(wt[t]) \in Frame /\ Head(wt[t]).sensor = t
    BY <1>3, TailFacts
<1> DEFINE m == [camera |-> Head(wt["camera"]), lidar |-> Head(wt["lidar"])]
           wt2 == [s \in Sensor |-> Tail(wt[s])]
<1>5. m \in Matches
  <2>1. "camera" \in Sensor /\ "lidar" \in Sensor
      BY DEF Sensor
  <2> QED BY <2>1, <1>4 DEF Matches, FramesOf
<1>6. \A s \in Sensor : m[s] = Head(wt[s])
    BY DEF Sensor
<1>7. v = [waiting |-> wt2, drops |-> ds, matches |-> Append(ms, m)]
    BY <1>2 DEF MatchFronts
<1>9. wt2 \in [Sensor -> Seq(Frame)] /\ \A s \in Sensor : wt2[s] = Tail(wt[s])
  <2>1. \A s \in Sensor : Tail(wt[s]) \in Seq(Frame)
      BY <1>4 DEF QueueOk
  <2> QED BY <2>1
<1>10. Append(ms, m) \in Seq(Matches)
    BY <1>5
<1> HIDE DEF wt2, m, v
<1>8. /\ v.waiting = wt2 /\ v.matches = Append(ms, m) /\ v.drops = ds
      /\ v \in [waiting : {wt2}, matches : {Append(ms, m)}, drops : {ds}]
    BY <1>7
<1>11. WorkOk(v, A)
  <2>1. v \in [waiting : [Sensor -> Seq(Frame)], matches : Seq(Matches), drops : Seq(Drops)]
      BY <1>8, <1>9, <1>10
  <2>2. \A t \in Sensor : QueueOk(wt2[t], t, A)
      BY <1>4, <1>9
  <2> QED BY <2>1, <2>2, <1>8 DEF WorkOk
<1>12. /\ Matched(m) \in Row /\ Matched(m).reason = "matched"
       /\ \A s \in Sensor : StampOf(Matched(m), s) = Head(wt[s]).stamp
    BY <1>5, <1>6, MatchedRow
<1>13. ToSet(MatchRows(Append(ms, m))) = ToSet(MatchRows(ms)) \union {Matched(m)}
    BY <1>5, RowSetGrows
<1>14. MatchRows(Append(ms, m)) = Append(MatchRows(ms), Matched(m))
    BY <1>5, RowsAppend
<1>15. ASSUME NEW t \in Sensor, NEW n \in Nat PROVE Tally(v, t, n) = Tally(w, t, n)
  <2> DEFINE F == Stamped(t, n)
             R == RowsAt(t, n)
  <2>1. DropRows(ds) \in Seq(Row) /\ MatchRows(ms) \in Seq(Row) /\ wt[t] \in Seq(Frame)
      BY <1>1, RowsTyped
  <2>2. Occ(MatchRows(Append(ms, m)), R) =
            Occ(MatchRows(ms), R) + IF Matched(m) \in R THEN 1 ELSE 0
      BY <1>12, <1>14, <2>1, OccAppendTail
  <2>3. Occ(wt[t], F) = Occ(Tail(wt[t]), F) + IF Head(wt[t]) \in F THEN 1 ELSE 0
      BY <1>3, <2>1, OccAppendTail
  <2>4. Tail(wt[t]) \in Seq(Frame)
      BY <1>4 DEF QueueOk
  <2>5. Head(wt[t]) \in F <=> Matched(m) \in R
      BY <1>4, <1>12 DEF Stamped, RowsAt
  <2>6. PICK a2 \in Nat, b \in Nat, c \in Nat :
            a2 = Occ(Tail(wt[t]), F) /\ b = Occ(MatchRows(ms), R) /\ c = Occ(DropRows(ds), R)
      BY <2>1, <2>4, OccTyped
  <2>7. PICK e \in Nat : e = IF Matched(m) \in R THEN 1 ELSE 0
      OBVIOUS
  <2>8. Tally(w, t, n) = Occ(wt[t], F) + (Occ(MatchRows(ms), R) + Occ(DropRows(ds), R))
      BY <1>2 DEF Tally
  <2>9. Tally(v, t, n) = Occ(wt2[t], F) + (Occ(MatchRows(Append(ms, m)), R) + Occ(DropRows(ds), R))
      BY <1>8 DEF Tally
  <2> HIDE DEF F, R
  <2>10. Tally(w, t, n) = (a2 + e) + (b + c)
      BY <2>3, <2>5, <2>6, <2>7, <2>8
  <2>11. Tally(v, t, n) = a2 + ((b + e) + c)
      BY <2>2, <2>6, <2>7, <2>9, <1>9
  <2>12. (a2 + e) + (b + c) = a2 + ((b + e) + c)
      OBVIOUS
  <2> QED BY <2>10, <2>11, <2>12
<1>16. \A base : RowSet(base, v) = RowSet(base, w) \union {Matched(m)}
    BY <1>2, <1>8, <1>13 DEF RowSet
<1> QED BY <1>2, <1>8, <1>11, <1>12, <1>15, <1>16 DEF wt2, v

(* The queues of v are those of w without some fronts.                     *)
Shorter(v, w) == \A s \in Sensor : Len(v.waiting[s]) <= Len(w.waiting[s])

(* What a round, or several of them, keeps: the types, the number of       *)
(* frames of each stamp, every frame accounted for, and the frames dropped *)
(* as outside the tolerance hopeless.                                      *)
Keeps(w, v, base, A) ==
    /\ WorkOk(v, A) /\ Shorter(v, w)
    /\ \A t \in Sensor, n \in Nat : Tally(v, t, n) = Tally(w, t, n)
    /\ Accounted(RowSet(base, w), w.waiting, A) => Accounted(RowSet(base, v), v.waiting, A)
    /\ Accounted(RowSet(base, w), w.waiting, A) /\ Settled(RowSet(base, w), w.waiting, A)
       => Settled(RowSet(base, v), v.waiting, A)

(* The records of a call are records.                                      *)
LEMMA RowSetTyped ==
    ASSUME NEW A, NEW w, WorkOk(w, A), NEW base, base \subseteq Row
    PROVE  RowSet(base, w) \subseteq Row
<1>1. w.matches \in Seq(Matches) /\ w.drops \in Seq(Drops)
    BY DEF WorkOk
<1>2. MatchRows(w.matches) \in Seq(Row) /\ DropRows(w.drops) \in Seq(Row)
    BY <1>1, RowsTyped
<1>3. \A q \in Seq(Row) : ToSet(q) \subseteq Row
    BY DEF ToSet
<1> QED BY <1>2, <1>3 DEF RowSet

(* The front of o is too far behind the front of the other queue.          *)
Trails(w, o) ==
    \E s \in Sensor : /\ s # o /\ w.waiting[s] # <<>>
                      /\ Head(w.waiting[s]).stamp - Head(w.waiting[o]).stamp > Tolerance

(* A frame taken off its queue and dropped, for whatever reason but the    *)
(* tolerance; or for the tolerance, when the other front is too far ahead. *)
LEMMA DropKeeps ==
    ASSUME NEW A, A \subseteq Frame, NEW w, WorkOk(w, A), NEW base, base \subseteq Row,
           NEW o \in Sensor, w.waiting[o] # <<>>, NEW why \in {"outside", "full", "flush"},
           why = "outside" => Trails(w, o)
    PROVE  /\ Keeps(w, Drop(w, o, why), base, A)
           /\ Len(Drop(w, o, why).waiting[o]) = Len(w.waiting[o]) - 1
<1> DEFINE v == Drop(w, o, why)
           d == [frame |-> Head(w.waiting[o]), reason |-> why]
           r == Single(d)
           rows == RowSet(base, w)
           rows2 == RowSet(base, v)
<1>1. /\ WorkOk(v, A) /\ d \in Drops /\ v.matches = w.matches
      /\ v.waiting = [w.waiting EXCEPT ![o] = Tail(w.waiting[o])]
      /\ DropRows(v.drops) = Append(DropRows(w.drops), r)
      /\ \A t \in Sensor, n \in Nat : Tally(v, t, n) = Tally(w, t, n)
  <2>1. DropEffect(w, o, why, A)
      BY DropFacts
  <2> QED BY <2>1 DEF DropEffect
<1>2. /\ r \in Row /\ r.reason = why /\ PairTime(r) = Head(w.waiting[o]).stamp
      /\ StampOf(r, o) = Head(w.waiting[o]).stamp
  <2>1. d.frame = Head(w.waiting[o]) /\ d.reason = why
      OBVIOUS
  <2>2. Head(w.waiting[o]).sensor = o
      BY TailFacts DEF WorkOk
  <2> QED BY <1>1, <2>1, <2>2, SingleRow
<1>3. PICK wt \in [Sensor -> Seq(Frame)] : wt = w.waiting
    BY DEF WorkOk
<1>4. PICK wt2 \in [Sensor -> Seq(Frame)] : wt2 = v.waiting
    BY <1>1 DEF WorkOk
<1>5. wt2[o] = Tail(wt[o]) /\ \A s \in Sensor : s # o => wt2[s] = wt[s]
    BY <1>1, <1>3, <1>4
<1>6. /\ \A s \in Sensor : QueueOk(wt[s], s, A)
      /\ wt[o] # <<>>
    BY <1>3 DEF WorkOk
<1>7. /\ Len(Tail(wt[o])) = Len(wt[o]) - 1
      /\ ToSet(wt[o]) = ToSet(Tail(wt[o])) \union {Head(wt[o])}
    BY <1>6, TailFacts
<1>8. Len(Tail(wt[o])) <= Len(wt[o]) /\ \A s \in Sensor : Len(wt[s]) <= Len(wt[s])
  <2>1. \A n \in Nat : n - 1 <= n /\ n <= n
      OBVIOUS
  <2>2. \A s \in Sensor : Len(wt[s]) \in Nat
      OBVIOUS
  <2> QED BY <2>1, <2>2, <1>7
<1>9. Shorter(v, w)
  <2> HIDE DEF v
  <2>1. \A s \in Sensor : Len(wt2[s]) <= Len(wt[s])
      BY <1>5, <1>8
  <2> QED BY <2>1, <1>3, <1>4 DEF Shorter
<1>10. rows2 = rows \union {r}
  <2>1. ToSet(DropRows(v.drops)) = ToSet(DropRows(w.drops)) \union {r}
    <3>1. w.matches \in Seq(Matches) /\ w.drops \in Seq(Drops)
        BY DEF WorkOk
    <3>2. DropRows(Append(w.drops, d)) = Append(DropRows(w.drops), r)
        BY <1>1, <3>1, RowsAppend
    <3>3. ToSet(DropRows(Append(w.drops, d))) = ToSet(DropRows(w.drops)) \union {r}
        BY <1>1, <3>1, RowSetGrows
    <3> QED BY <3>2, <3>3, <1>1
  <2> QED BY <1>1, <2>1 DEF RowSet
<1> HIDE DEF v, r, d, rows, rows2
<1>11. Moves(rows, wt, rows2, wt2)
  <2>1. rows \subseteq rows2 /\ r \in rows2 /\ StampOf(r, o) = Head(wt[o]).stamp
      BY <1>2, <1>3, <1>10
  <2>2. ASSUME NEW s \in Sensor
        PROVE  /\ ToSet(wt2[s]) \subseteq ToSet(wt[s])
               /\ \A x \in ToSet(wt[s]) : \/ x \in ToSet(wt2[s])
                                          \/ \E k \in rows2 : StampOf(k, s) = x.stamp
    <3>1. CASE s = o
        BY <3>1, <1>5, <1>7, <2>1
    <3>2. CASE s # o
        BY <3>2, <1>5
    <3> QED BY <3>1, <3>2
  <2> QED BY <2>1, <2>2 DEF Moves
<1>12. Accounted(rows, wt, A) => Accounted(rows2, wt2, A)
    BY <1>11, MovesKeep
<1>13. ASSUME Accounted(rows, wt, A), Settled(rows, wt, A) PROVE Settled(rows2, wt2, A)
  <2>1. r.reason # "outside" \/ (Apart(r, wt2, A) /\ Hopeless(r, rows2, A))
    <3>1. CASE why # "outside"
        BY <3>1, <1>2
    <3>2. CASE why = "outside"
      <4>1. PICK s \in Sensor : /\ s # o /\ wt[s] # <<>>
                                /\ Head(wt[s]).stamp - Head(wt[o]).stamp > Tolerance
          BY <3>2, <1>3 DEF Trails
      <4>2. rows \subseteq Row
          BY RowSetTyped DEF rows
      <4>3. StampOf(r, o) = Head(wt[o]).stamp /\ PairTime(r) = Head(wt[o]).stamp
          BY <1>2, <1>3
      <4>4. ToSet(wt2[s]) \subseteq ToSet(wt[s])
          BY <4>1, <1>5
      <4>5. Apart(r, wt2, A) /\ Hopeless(r, rows, A)
          BY <4>1, <4>2, <4>3, <4>4, <1>2, <1>6, <1>13, DroppedIsHopeless
      <4>6. Hopeless(r, rows2, A)
          BY <4>5, <1>10 DEF Hopeless
      <4> QED BY <4>5, <4>6
    <3> QED BY <3>1, <3>2
  <2>2. \A k \in rows2 : k \in rows \/ k.reason # "outside"
                         \/ (Apart(k, wt2, A) /\ Hopeless(k, rows2, A))
      BY <2>1, <1>10
  <2> QED BY <2>2, <1>11, <1>13, MovesKeep
<1>14. Keeps(w, v, base, A)
    BY <1>1, <1>3, <1>4, <1>9, <1>12, <1>13 DEF Keeps, rows, rows2
<1> QED BY <1>3, <1>4, <1>5, <1>7, <1>14 DEF v

(* A round keeps all this, and takes a frame away while both queues hold   *)
(* frames.                                                                 *)
LEMMA MatchOneKeeps ==
    ASSUME NEW A, A \subseteq Frame, NEW w, WorkOk(w, A), NEW base, base \subseteq Row
    PROVE  /\ Keeps(w, MatchOne(w), base, A)
           /\ \/ \E s \in Sensor : MatchOne(w).waiting[s] = <<>>
              \/ Pending(MatchOne(w)) < Pending(w)
<1> DEFINE v == MatchOne(w)
<1>0. PICK wt \in [Sensor -> Seq(Frame)] : wt = w.waiting /\ \A s \in Sensor : QueueOk(wt[s], s, A)
    BY DEF WorkOk
<1>01. "camera" \in Sensor /\ "lidar" \in Sensor
    BY DEF Sensor
<1>02. PICK c \in Nat, l \in Nat : c = Len(wt["camera"]) /\ l = Len(wt["lidar"])
    BY <1>01
<1>03. \A s \in Sensor : Len(w.waiting[s]) \in Nat
    BY <1>0
<1>1. CASE (\E s \in Sensor : w.waiting[s] = <<>>) /\ v = w
    BY <1>1, <1>03 DEF Keeps, Shorter
<1>2. CASE /\ \A s \in Sensor : w.waiting[s] # <<>>
           /\ v = MatchFronts(w)
  <2> HIDE DEF v
  <2>1. /\ WorkOk(v, A)
        /\ v.waiting = [s \in Sensor |-> Tail(w.waiting[s])]
        /\ \A t \in Sensor, n \in Nat : Tally(v, t, n) = Tally(w, t, n)
      BY <1>2, MatchFacts
  <2>2. PICK r \in Row : /\ RowSet(base, v) = RowSet(base, w) \union {r}
                         /\ r.reason = "matched"
                         /\ \A s \in Sensor : StampOf(r, s) = Head(w.waiting[s]).stamp
    <3>1. \A b : \E r \in Row :
                 /\ RowSet(b, MatchFronts(w)) = RowSet(b, w) \union {r}
                 /\ r.reason = "matched"
                 /\ \A s \in Sensor : StampOf(r, s) = Head(w.waiting[s]).stamp
        BY <1>2, MatchFacts
    <3> QED BY <3>1, <1>2
  <2>3. PICK wt2 \in [Sensor -> Seq(Frame)] : wt2 = v.waiting
      BY <2>1 DEF WorkOk
  <2>4. \A s \in Sensor : wt2[s] = Tail(wt[s])
      BY <2>1, <2>3, <1>0
  <2>5. \A s \in Sensor : /\ Len(Tail(wt[s])) = Len(wt[s]) - 1
                          /\ ToSet(wt[s]) = ToSet(Tail(wt[s])) \union {Head(wt[s])}
      BY <1>0, <1>2, TailFacts
  <2>6. Shorter(v, w)
    <3>1. \A n \in Nat : n - 1 <= n
        OBVIOUS
    <3>2. \A s \in Sensor : Len(wt[s]) \in Nat
        OBVIOUS
    <3>3. \A s \in Sensor : Len(wt2[s]) <= Len(wt[s])
        BY <3>1, <3>2, <2>4, <2>5
    <3> QED BY <3>3, <1>0, <2>3 DEF Shorter
  <2> DEFINE rows == RowSet(base, w)
             rows2 == RowSet(base, v)
  <2>7. rows2 = rows \union {r}
      BY <2>2
  <2> HIDE DEF rows, rows2
  <2>8. Moves(rows, wt, rows2, wt2)
    <3>1. rows \subseteq rows2 /\ r \in rows2
        BY <2>7
    <3>2. \A s \in Sensor : StampOf(r, s) = Head(wt[s]).stamp
        BY <2>2, <1>0
    <3> QED BY <3>1, <3>2, <2>4, <2>5 DEF Moves
  <2>9. \A k \in rows2 : k \in rows \/ k.reason # "outside"
      BY <2>2, <2>7
  <2>10. /\ Accounted(rows, wt, A) => Accounted(rows2, wt2, A)
         /\ Settled(rows, wt, A) => Settled(rows2, wt2, A)
      BY <2>8, <2>9, MovesKeep
  <2>11. Keeps(w, v, base, A)
      BY <2>1, <2>3, <2>6, <2>10, <1>0 DEF Keeps, rows, rows2
  <2>12. Pending(v) = (c - 1) + (l - 1) /\ Pending(w) = c + l
      BY <2>3, <2>4, <2>5, <1>0, <1>01, <1>02 DEF Pending
  <2>13. (c - 1) + (l - 1) < c + l
      OBVIOUS
  <2> QED BY <2>11, <2>12, <2>13 DEF v
<1>3. CASE /\ \A s \in Sensor : w.waiting[s] # <<>>
           /\ \E o, s \in Sensor :
                  /\ s # o
                  /\ Head(w.waiting[s]).stamp - Head(w.waiting[o]).stamp > Tolerance
                  /\ v = Drop(w, o, "outside")
  <2> HIDE DEF v
  <2>1. PICK o \in Sensor, s \in Sensor :
                  /\ s # o
                  /\ Head(w.waiting[s]).stamp - Head(w.waiting[o]).stamp > Tolerance
                  /\ v = Drop(w, o, "outside")
      BY <1>3
  <2>2. w.waiting[o] # <<>> /\ w.waiting[s] # <<>>
      BY <1>3
  <2>3. /\ Keeps(w, v, base, A)
        /\ Len(v.waiting[o]) = Len(w.waiting[o]) - 1
    <3>1. Trails(w, o)
        BY <2>1, <2>2 DEF Trails
    <3> QED BY <2>1, <2>2, <3>1, DropKeeps
  <2>4. PICK c2 \in Nat, l2 \in Nat : c2 = Len(v.waiting["camera"]) /\ l2 = Len(v.waiting["lidar"])
    <3>1. v.waiting \in [Sensor -> Seq(Frame)]
        BY <2>3 DEF Keeps, WorkOk
    <3> QED BY <3>1, <1>01
  <2>5. c2 <= c /\ l2 <= l
      BY <2>3, <2>4, <1>0, <1>01, <1>02 DEF Keeps, Shorter
  <2>6. c2 < c \/ l2 < l
    <3>1. CASE o = "camera"
      <4>1. c2 = c - 1
          BY <3>1, <2>3, <2>4, <1>0, <1>02
      <4> QED BY <4>1
    <3>2. CASE o = "lidar"
      <4>1. l2 = l - 1
          BY <3>2, <2>3, <2>4, <1>0, <1>02
      <4> QED BY <4>1
    <3> QED BY <3>1, <3>2 DEF Sensor
  <2>7. Pending(v) = c2 + l2 /\ Pending(w) = c + l
      BY <2>4, <1>0, <1>02 DEF Pending
  <2>8. c2 + l2 < c + l
      BY <2>5, <2>6
  <2> QED BY <2>3, <2>7, <2>8 DEF v
<1> QED BY <1>1, <1>2, <1>3, MatchOneCases

(* Rounds follow one another.                                              *)
LEMMA KeepsTransitive ==
    ASSUME NEW A, NEW w, WorkOk(w, A), NEW base, NEW v, Keeps(w, v, base, A),
           NEW u, Keeps(v, u, base, A)
    PROVE  Keeps(w, u, base, A)
<1>1. ASSUME NEW s \in Sensor PROVE Len(u.waiting[s]) <= Len(w.waiting[s])
  <2>1. w.waiting[s] \in Seq(Frame) /\ v.waiting[s] \in Seq(Frame) /\ u.waiting[s] \in Seq(Frame)
      BY DEF Keeps, WorkOk, QueueOk
  <2>2. PICK a \in Nat, b \in Nat, c \in Nat :
            a = Len(w.waiting[s]) /\ b = Len(v.waiting[s]) /\ c = Len(u.waiting[s])
      BY <2>1
  <2>3. b <= a /\ c <= b
      BY <2>2 DEF Keeps, Shorter
  <2>4. c <= a
      BY <2>3
  <2> QED BY <2>2, <2>4
<1>2. \A t \in Sensor, n \in Nat : Tally(u, t, n) = Tally(w, t, n)
    BY DEF Keeps
<1> QED BY <1>1, <1>2 DEF Keeps, Shorter

(* The loop of tryMatchLocked has a result for each number of rounds.      *)
LEMMA TryMatchLoop ==
    ASSUME NEW w, Pending(w) \in Nat
    PROVE  \E after : /\ after[0] = w
                      /\ \A n \in 1..Pending(w) : after[n] = MatchOne(after[n - 1])
                      /\ TryMatch(w) = after[Pending(w)]
<1> DEFINE N == Pending(w)
           Runs(g, m) == g = [n \in 0..m |-> IF n = 0 THEN w ELSE MatchOne(g[n - 1])]
           Bad == {m \in 0..N : ~ \E g : Runs(g, m)}
<1>0. N \in Nat
    OBVIOUS
<1> HIDE DEF N
<1>1. Bad = {}
  <2>1. SUFFICES ASSUME Bad # {} PROVE FALSE
      OBVIOUS
  <2>2. PICK m \in Bad : \A k \in Bad : m <= k
    <3>1. Bad \subseteq Nat
        BY <1>0
    <3> HIDE DEF Bad
    <3> QED BY <2>1, <3>1, LeastNumber
  <2>3. CASE m = 0
    <3>1. Runs([n \in 0..0 |-> w], 0)
        OBVIOUS
    <3> QED BY <2>3, <3>1
  <2>4. CASE m # 0
    <3>1. m - 1 \in 0..N /\ m - 1 \notin Bad
        BY <2>2, <2>4, <1>0
    <3>2. PICK g : Runs(g, m - 1)
        BY <3>1
    <3> DEFINE h == [n \in 0..m |-> IF n = m THEN MatchOne(g[m - 1]) ELSE g[n]]
    <3>3. Runs(h, m)
      <4>1. ASSUME NEW n \in 0..m
            PROVE  h[n] = IF n = 0 THEN w ELSE MatchOne(h[n - 1])
        <5>1. CASE n = m
          <6>1. h[n] = MatchOne(g[m - 1])
              BY <5>1, <4>1
          <6>2. h[n - 1] = g[m - 1]
              BY <5>1, <4>1, <3>1, <2>4
          <6> QED BY <5>1, <6>1, <6>2, <2>4
        <5>2. CASE n # m
          <6>1. n \in 0..(m - 1)
              BY <4>1, <5>2, <3>1
          <6>2. h[n] = g[n]
              BY <5>2, <4>1
          <6>3. n # 0 => h[n - 1] = g[n - 1]
              BY <6>1, <4>1, <3>1
          <6>4. g[n] = IF n = 0 THEN w ELSE MatchOne(g[n - 1])
              BY <3>2, <6>1
          <6> QED BY <6>2, <6>3, <6>4
        <5> QED BY <5>1, <5>2
      <4> QED BY <4>1
    <3> QED BY <3>3
  <2> QED BY <2>3, <2>4
<1>2. \E g : Runs(g, N)
    BY <1>0, <1>1
<1> DEFINE k == CHOOSE g : Runs(g, N)
<1>3. Runs(k, N)
    BY <1>2
<1>4. TryMatch(w) = k[N]
    BY DEF TryMatch, N, Pending
<1> HIDE DEF k
<1>5. k[0] = w
    BY <1>0, <1>3
<1>6. \A n \in 1..N : k[n] = MatchOne(k[n - 1])
  <2> SUFFICES ASSUME NEW n \in 1..N PROVE k[n] = MatchOne(k[n - 1])
      OBVIOUS
  <2>1. n \in 0..N /\ n # 0
      BY <1>0
  <2> QED BY <1>3, <2>1
<1> QED BY <1>4, <1>5, <1>6 DEF N

(* The number of frames that wait.                                         *)
LEMMA PendingTyped == ASSUME NEW A, NEW w, WorkOk(w, A) PROVE Pending(w) \in Nat
<1>1. w.waiting \in [Sensor -> Seq(Frame)] /\ "camera" \in Sensor /\ "lidar" \in Sensor
    BY DEF WorkOk, Sensor
<1>2. PICK c \in Nat, l \in Nat : c = Len(w.waiting["camera"]) /\ l = Len(w.waiting["lidar"])
    BY <1>1
<1>3. c + l \in Nat
    OBVIOUS
<1> QED BY <1>2, <1>3 DEF Pending

(* tryMatchLocked keeps what each round keeps, and ends with a queue       *)
(* empty: as many rounds as frames are enough.                             *)
LEMMA TryMatchKeeps ==
    ASSUME NEW A, A \subseteq Frame, NEW w, WorkOk(w, A), NEW base, base \subseteq Row
    PROVE  /\ Keeps(w, TryMatch(w), base, A)
           /\ \E s \in Sensor : TryMatch(w).waiting[s] = <<>>
<1>1. PICK N \in Nat : N = Pending(w)
  BY PendingTyped
<1>2. PICK after : /\ after[0] = w
                   /\ \A n \in 1..N : after[n] = MatchOne(after[n - 1])
                   /\ TryMatch(w) = after[N]
    BY <1>1, TryMatchLoop
<1> DEFINE Short(n) == \/ \E s \in Sensor : after[n].waiting[s] = <<>>
                       \/ Pending(after[n]) + n <= N
           Ok(n) == Keeps(w, after[n], base, A) /\ Short(n)
           Bad == {n \in 0..N : ~Ok(n)}
<1>3. \A v : WorkOk(v, A) => Pending(v) \in Nat
    BY PendingTyped
<1>4. Bad = {}
  <2>1. SUFFICES ASSUME Bad # {} PROVE FALSE
      OBVIOUS
  <2>2. PICK m \in Bad : \A k \in Bad : m <= k
    <3>1. Bad \subseteq Nat
        OBVIOUS
    <3> HIDE DEF Bad
    <3> QED BY <2>1, <3>1, LeastNumber
  <2>3. Ok(0)
    <3>1. Keeps(w, w, base, A)
      <4>1. \A s \in Sensor : Len(w.waiting[s]) \in Nat
          BY DEF WorkOk
      <4>2. \A n \in Nat : n <= n
          OBVIOUS
      <4>3. Shorter(w, w)
          BY <4>1, <4>2 DEF Shorter
      <4> QED BY <4>3 DEF Keeps
    <3>2. N + 0 <= N
        OBVIOUS
    <3> QED BY <3>1, <3>2, <1>1, <1>2
  <2> HIDE DEF Ok
  <2>4. m \in 1..N /\ m - 1 \in 0..N /\ m - 1 \notin Bad
    <3>1. m \in 0..N /\ m # 0
        BY <2>3
    <3>2. m - 1 \in 0..N /\ ~(m <= m - 1)
        BY <3>1
    <3> QED BY <2>2, <3>1, <3>2
  <2>5. Ok(m - 1)
      BY <2>4
  <2> DEFINE v == after[m - 1]
  <2>6. after[m] = MatchOne(v)
      BY <2>4, <1>2
  <2>7. Keeps(w, v, base, A) /\ Short(m - 1) /\ WorkOk(v, A)
      BY <2>5 DEF Ok, Keeps
  <2> HIDE DEF v
  <2>8. /\ Keeps(v, MatchOne(v), base, A)
        /\ \/ \E s \in Sensor : MatchOne(v).waiting[s] = <<>>
           \/ Pending(MatchOne(v)) < Pending(v)
      BY <2>7, MatchOneKeeps
  <2>9. Keeps(w, MatchOne(v), base, A) /\ WorkOk(MatchOne(v), A)
      BY <2>7, <2>8, KeepsTransitive DEF Keeps
  <2>10. Short(m)
    <3>1. CASE \E s \in Sensor : v.waiting[s] = <<>>
      <4>1. MatchOne(v) = v
          BY <3>1 DEF MatchOne
      <4> QED BY <3>1, <4>1, <2>6
    <3>2. CASE \E s \in Sensor : MatchOne(v).waiting[s] = <<>>
        BY <3>2, <2>6
    <3>3. CASE Pending(MatchOne(v)) < Pending(v) /\ Pending(v) + (m - 1) <= N
      <4>1. PICK a \in Nat, b \in Nat : a = Pending(MatchOne(v)) /\ b = Pending(v)
          BY <2>7, <2>9, <1>3
      <4>2. a < b /\ b + (m - 1) <= N /\ m \in Nat
          BY <3>3, <4>1, <2>4
      <4>3. a + m <= N
          BY <4>2
      <4> QED BY <4>1, <4>3, <2>6
    <3> QED BY <3>1, <3>2, <3>3, <2>7, <2>8 DEF v
  <2> QED BY <2>2, <2>6, <2>9, <2>10 DEF Ok
<1>5. Ok(N)
    BY <1>4
<1>6. \E s \in Sensor : after[N].waiting[s] = <<>>
  <2>1. CASE Pending(after[N]) + N <= N
    <3>1. after[N].waiting["camera"] \in Seq(Frame) /\ after[N].waiting["lidar"] \in Seq(Frame)
      <4>1. after[N].waiting \in [Sensor -> Seq(Frame)]
          BY <1>5 DEF Keeps, WorkOk
      <4> QED BY <4>1 DEF Sensor
    <3>2. PICK c \in Nat, l \in Nat : /\ c = Len(after[N].waiting["camera"])
                                      /\ l = Len(after[N].waiting["lidar"])
        BY <3>1
    <3>3. (c + l) + N <= N
        BY <2>1, <3>2 DEF Pending
    <3>4. c = 0
        BY <3>3
    <3>5. after[N].waiting["camera"] = <<>>
      <4>1. \A q \in Seq(Frame) : Len(q) = 0 => q = <<>>
          OBVIOUS
      <4> QED BY <4>1, <3>1, <3>2, <3>4
    <3> QED BY <3>5 DEF Sensor
  <2> QED BY <2>1, <1>5
<1> QED BY <1>2, <1>5, <1>6

-----------------------------------------------------------------------------
(* The queues of the synchronizer when the frames of A have arrived.       *)
WaitingOk(wt, A) ==
    /\ wt \in [Sensor -> Seq(Frame)]
    /\ \A s \in Sensor : QueueOk(wt[s], s, A)

(* f is not behind a frame of its sensor.                                  *)
InOrder(f, A) == \A g \in A : g.sensor = f.sensor => g.stamp <= f.stamp

(* A call that starts with nothing found.                                  *)
LEMMA WorkingFacts ==
    ASSUME NEW A, NEW wt, WaitingOk(wt, A)
    PROVE  /\ WorkOk(Working(wt), A) /\ Working(wt).waiting = wt
           /\ \A base : RowSet(base, Working(wt)) = base
           /\ \A t \in Sensor, n \in Nat : Tally(Working(wt), t, n) = Occ(wt[t], Stamped(t, n))
<1> DEFINE w == Working(wt)
<1>1. w.waiting = wt /\ w.matches = <<>> /\ w.drops = <<>>
    BY DEF Working
<1>2. w \in [waiting : [Sensor -> Seq(Frame)], matches : Seq(Matches), drops : Seq(Drops)]
    BY DEF Working, WaitingOk
<1> HIDE DEF w
<1>3. WorkOk(w, A)
    BY <1>1, <1>2 DEF WorkOk, WaitingOk
<1>4. MatchRows(<<>>) = <<>> /\ DropRows(<<>>) = <<>> /\ ToSet(<<>>) = {}
    BY DEF MatchRows, DropRows, ToSet
<1>5. \A S : Occ(<<>>, S) = 0
  <2>1. \A S : At(<<>>, S) = {}
      BY DEF At
  <2> QED BY <2>1, FS_EmptySet DEF Occ
<1>6. \A base : RowSet(base, w) = base
    BY <1>1, <1>4 DEF RowSet
<1>7. ASSUME NEW t \in Sensor, NEW n \in Nat PROVE Tally(w, t, n) = Occ(wt[t], Stamped(t, n))
  <2>1. PICK a \in Nat : a = Occ(wt[t], Stamped(t, n))
    <3>1. wt[t] \in Seq(Frame)
        BY DEF WaitingOk
    <3> QED BY <3>1, OccTyped
  <2>2. Tally(w, t, n) = a + (0 + 0)
      BY <1>1, <1>4, <1>5, <2>1 DEF Tally
  <2> QED BY <2>1, <2>2
<1> QED BY <1>1, <1>3, <1>6, <1>7 DEF w

(* A frame that takes its place in its queue.                              *)
LEMMA InsertKeeps ==
    ASSUME NEW A, A \subseteq Frame, NEW wt, WaitingOk(wt, A), NEW f \in Frame, f \notin A,
           NEW base, base \subseteq Row
    PROVE  LET wt2 == [wt EXCEPT ![f.sensor] = InsertOrdered(wt[f.sensor], f)]
               B == A \union {f}
           IN  /\ WaitingOk(wt2, B)
               /\ Len(wt2[f.sensor]) = Len(wt[f.sensor]) + 1
               /\ \A s \in Sensor : s # f.sensor => wt2[s] = wt[s]
               /\ \A t \in Sensor, n \in Nat :
                      Occ(wt2[t], Stamped(t, n)) =
                          Occ(wt[t], Stamped(t, n)) + IF f \in Stamped(t, n) THEN 1 ELSE 0
               /\ Accounted(base, wt, A) => Accounted(base, wt2, B)
               /\ Settled(base, wt, A) /\ InOrder(f, A) => Settled(base, wt2, B)
<1> DEFINE o == f.sensor
           wt2 == [wt EXCEPT ![f.sensor] = InsertOrdered(wt[f.sensor], f)]
           B == A \union {f}
<1>1. o \in Sensor /\ f.stamp \in Nat /\ wt \in [Sensor -> Seq(Frame)]
    BY BufferAssumption DEF WaitingOk
<1>2. \A s \in Sensor : QueueOk(wt[s], s, A) /\ wt[s] \in Seq(Frame) /\ Ordered(wt[s])
    BY DEF WaitingOk, QueueOk
<1>3. /\ InsertOrdered(wt[o], f) \in Seq(Frame)
      /\ Ordered(InsertOrdered(wt[o], f))
      /\ ToSet(InsertOrdered(wt[o], f)) = ToSet(wt[o]) \union {f}
      /\ IsInjective(wt[o]) /\ f \notin ToSet(wt[o]) => IsInjective(InsertOrdered(wt[o], f))
    BY <1>1, <1>2, InsertFacts
<1>4. Len(InsertOrdered(wt[o], f)) = Len(wt[o]) + 1
    BY <1>1, <1>2, InsertPosition
<1>5. /\ wt2 \in [Sensor -> Seq(Frame)] /\ wt2[o] = InsertOrdered(wt[o], f)
      /\ \A s \in Sensor : s # o => wt2[s] = wt[s]
    BY <1>1, <1>3
<1> HIDE DEF wt2, B, o
<1>6. A \subseteq B /\ f \in B /\ B = A \union {f} /\ o = f.sensor
    BY DEF B, o
<1>7. WaitingOk(wt2, B)
  <2>1. ASSUME NEW s \in Sensor PROVE QueueOk(wt2[s], s, B)
    <3>1. /\ ToSet(wt[s]) \subseteq {g \in A : g.sensor = s}
          /\ IsInjective(wt[s])
        BY <1>2 DEF QueueOk
    <3>2. CASE s = o
      <4>1. f \notin ToSet(wt[o])
          BY <3>1, <3>2
      <4>2. IsInjective(wt2[o])
          BY <3>1, <3>2, <4>1, <1>3, <1>5
      <4>3. ToSet(wt2[o]) \subseteq {g \in B : g.sensor = o}
          BY <3>1, <3>2, <1>3, <1>5, <1>6
      <4> QED BY <3>2, <4>2, <4>3, <1>3, <1>5 DEF QueueOk
    <3>3. CASE s # o
      <4>1. wt2[s] = wt[s]
          BY <3>3, <1>5
      <4>2. ToSet(wt2[s]) \subseteq {g \in B : g.sensor = s}
          BY <3>1, <4>1, <1>6
      <4> QED BY <4>1, <4>2, <1>2 DEF QueueOk
    <3> QED BY <3>2, <3>3
  <2> QED BY <2>1, <1>5 DEF WaitingOk
<1>8. ASSUME NEW t \in Sensor, NEW n \in Nat
      PROVE  Occ(wt2[t], Stamped(t, n)) =
                 Occ(wt[t], Stamped(t, n)) + IF f \in Stamped(t, n) THEN 1 ELSE 0
  <2>1. CASE t = o
    <3>1. Occ(InsertOrdered(wt[o], f), Stamped(t, n)) =
              Occ(wt[o], Stamped(t, n)) + IF f \in Stamped(t, n) THEN 1 ELSE 0
        BY <1>1, <1>2, OccInsert
    <3> QED BY <2>1, <3>1, <1>5
  <2>2. CASE t # o
    <3>1. f \notin Stamped(t, n)
        BY <2>2, <1>6 DEF Stamped
    <3>2. PICK a \in Nat : a = Occ(wt[t], Stamped(t, n))
        BY <1>2, OccTyped
    <3>3. a = a + 0
        OBVIOUS
    <3> QED BY <2>2, <3>1, <3>2, <3>3, <1>5
  <2> QED BY <2>1, <2>2
<1>9. \A s \in Sensor : /\ ToSet(wt[s]) \subseteq ToSet(wt2[s])
                        /\ \A x \in ToSet(wt2[s]) : x \in ToSet(wt[s]) \/ (x = f /\ s = o)
    BY <1>3, <1>5
<1>10. f \in ToSet(wt2[o])
    BY <1>3, <1>5
<1>11. ASSUME Accounted(base, wt, A) PROVE Accounted(base, wt2, B)
  <2> SUFFICES ASSUME NEW g \in B
               PROVE  \/ \E x \in ToSet(wt2[g.sensor]) : x.stamp = g.stamp
                      \/ \E r \in base : StampOf(r, g.sensor) = g.stamp
      BY DEF Accounted
  <2>1. CASE g = f
      BY <2>1, <1>6, <1>10
  <2>2. CASE g \in A
    <3>1. g.sensor \in Sensor
        BY <2>2, BufferAssumption
    <3> QED BY <2>2, <3>1, <1>9, <1>11 DEF Accounted
  <2> QED BY <2>1, <2>2, <1>6
<1>12. ASSUME Settled(base, wt, A), InOrder(f, A) PROVE Settled(base, wt2, B)
  <2> SUFFICES ASSUME NEW r \in base, r.reason = "outside"
               PROVE  Apart(r, wt2, B) /\ Hopeless(r, base, B)
      BY DEF Settled
  <2>1. Apart(r, wt, A) /\ Hopeless(r, base, A)
      BY <1>12 DEF Settled
  <2>2. PICK p \in Nat : p = PairTime(r)
    <3>1. r \in Row /\ None \notin Nat
        BY DEF None
    <3> QED BY <3>1 DEF Row, PairRecords, PairTime
  <2>3. Tolerance \in Nat
      BY SynchronizerAssumption
  <2>4. StampOf(r, o) = None => f.stamp > p + Tolerance
    <3> SUFFICES ASSUME StampOf(r, o) = None PROVE f.stamp > p + Tolerance
        OBVIOUS
    <3>1. PICK z \in A : z.sensor = o /\ z.stamp > p + Tolerance
        BY <1>1, <2>1, <2>2 DEF Apart
    <3>2. z.stamp <= f.stamp
        BY <3>1, <1>6, <1>12 DEF InOrder
    <3>3. z.stamp \in Nat
        BY <3>1, BufferAssumption
    <3> QED BY <3>1, <3>2, <3>3, <1>1, <2>3
  <2>5. Apart(r, wt2, B)
    <3> SUFFICES ASSUME NEW s \in Sensor, StampOf(r, s) = None
                 PROVE  /\ \E z \in B : z.sensor = s /\ z.stamp > PairTime(r) + Tolerance
                        /\ \A x \in ToSet(wt2[s]) : x.stamp > PairTime(r) + Tolerance
        BY DEF Apart
    <3>1. /\ \E z \in A : z.sensor = s /\ z.stamp > PairTime(r) + Tolerance
          /\ \A x \in ToSet(wt[s]) : x.stamp > PairTime(r) + Tolerance
        BY <2>1 DEF Apart
    <3>2. \A x \in ToSet(wt2[s]) : x.stamp > PairTime(r) + Tolerance
        BY <3>1, <1>9, <2>2, <2>4
    <3> QED BY <3>1, <3>2, <1>6
  <2>6. Hopeless(r, base, B)
    <3> SUFFICES ASSUME NEW g \in B, StampOf(r, g.sensor) = None,
                        g.stamp - PairTime(r) \in (-Tolerance)..Tolerance
                 PROVE  \E x \in base : StampOf(x, g.sensor) = g.stamp /\ x.reason # "outside"
        BY DEF Hopeless
    <3>1. CASE g \in A
        BY <3>1, <2>1 DEF Hopeless
    <3>2. CASE g = f
      <4>1. f.stamp > p + Tolerance
          BY <3>2, <2>4, <1>6
      <4>2. f.stamp - p <= Tolerance
          BY <3>2, <2>2, <2>3
      <4>3. FALSE
          BY <4>1, <4>2, <2>3, <1>1
      <4> QED BY <4>3
    <3> QED BY <3>1, <3>2, <1>6
  <2> QED BY <2>5, <2>6
<1> QED BY <1>4, <1>5, <1>6, <1>7, <1>8, <1>11, <1>12 DEF wt2, B, o

(* What addImage and addPointCloud leave when f comes in.                  *)
AddEffect(wt, A, f, base, v) ==
    /\ WorkOk(v, A \union {f})
    /\ \A s \in Sensor : Len(v.waiting[s]) <= QueueSize
    /\ \E s \in Sensor : v.waiting[s] = <<>>
    /\ \A t \in Sensor, n \in Nat :
           Tally(v, t, n) = Occ(wt[t], Stamped(t, n)) + IF f \in Stamped(t, n) THEN 1 ELSE 0
    /\ Accounted(base, wt, A) => Accounted(RowSet(base, v), v.waiting, A \union {f})
    /\ Accounted(base, wt, A) /\ Settled(base, wt, A) /\ InOrder(f, A)
       => Settled(RowSet(base, v), v.waiting, A \union {f})

(* They have that effect.                                                  *)
LEMMA AddFrameFacts ==
    ASSUME NEW A, A \subseteq Frame, NEW wt, WaitingOk(wt, A), NEW f \in Frame, f \notin A,
           \A s \in Sensor : Len(wt[s]) <= QueueSize,
           NEW base, base \subseteq Row
    PROVE  AddEffect(wt, A, f, base, AddFrame(wt, f))
<1> DEFINE o == f.sensor
           B == A \union {f}
           wt2 == [wt EXCEPT ![f.sensor] = InsertOrdered(wt[f.sensor], f)]
           w == Working(wt2)
           u == IF Len(w.waiting[o]) > QueueSize THEN Drop(w, o, "full") ELSE w
           v == TryMatch(u)
<1>1. /\ WaitingOk(wt2, B)
      /\ Len(wt2[o]) = Len(wt[o]) + 1
      /\ \A s \in Sensor : s # o => wt2[s] = wt[s]
      /\ \A t \in Sensor, n \in Nat :
             Occ(wt2[t], Stamped(t, n)) =
                 Occ(wt[t], Stamped(t, n)) + IF f \in Stamped(t, n) THEN 1 ELSE 0
      /\ Accounted(base, wt, A) => Accounted(base, wt2, B)
      /\ Settled(base, wt, A) /\ InOrder(f, A) => Settled(base, wt2, B)
    BY InsertKeeps
<1>2. AddFrame(wt, f) = v
    BY DEF AddFrame
<1>3. o \in Sensor /\ B \subseteq Frame
    BY BufferAssumption
<1> HIDE DEF o, wt2, B
<1>4. /\ WorkOk(w, B) /\ w.waiting = wt2 /\ RowSet(base, w) = base
      /\ \A t \in Sensor, n \in Nat : Tally(w, t, n) = Occ(wt2[t], Stamped(t, n))
    BY <1>1, WorkingFacts
<1> HIDE DEF w
<1>5. QueueSize \in Nat \ {0}
    BY SynchronizerAssumption
<1>6. \A s \in Sensor : Len(wt[s]) \in Nat /\ Len(wt2[s]) \in Nat
    BY <1>1 DEF WaitingOk
<1>7. Keeps(w, u, base, B) /\ \A s \in Sensor : Len(u.waiting[s]) <= QueueSize
  <2>1. CASE Len(wt2[o]) > QueueSize
    <3>1. u = Drop(w, o, "full")
        BY <2>1, <1>4
    <3>2. w.waiting[o] # <<>>
      <4>1. Len(<<>>) = 0
          OBVIOUS
      <4>2. Len(wt2[o]) # 0
          BY <2>1, <1>5
      <4> QED BY <4>1, <4>2, <1>4
    <3>3. /\ Keeps(w, Drop(w, o, "full"), base, B)
          /\ Len(Drop(w, o, "full").waiting[o]) = Len(w.waiting[o]) - 1
        BY <3>2, <1>3, <1>4, DropKeeps
    <3>4. Keeps(w, u, base, B) /\ Len(u.waiting[o]) = Len(wt2[o]) - 1
        BY <3>1, <3>3, <1>4
    <3> HIDE DEF u
    <3>5. PICK k \in Nat : k = Len(wt[o]) /\ k <= QueueSize /\ Len(u.waiting[o]) = (k + 1) - 1
        BY <3>4, <1>1, <1>3, <1>6
    <3>6. Len(u.waiting[o]) <= QueueSize
      <4>1. (k + 1) - 1 = k
          OBVIOUS
      <4> QED BY <3>5, <4>1
    <3>7. ASSUME NEW s \in Sensor, s # o PROVE Len(u.waiting[s]) <= QueueSize
      <4>1. Len(u.waiting[s]) <= Len(wt2[s]) /\ Len(wt2[s]) = Len(wt[s]) /\ Len(wt[s]) <= QueueSize
          BY <3>4, <3>7, <1>1, <1>4 DEF Keeps, Shorter
      <4>2. u.waiting[s] \in Seq(Frame)
          BY <3>4 DEF Keeps, WorkOk, QueueOk
      <4>3. PICK a \in Nat, b \in Nat : a = Len(u.waiting[s]) /\ b = Len(wt[s])
          BY <4>2, <1>6
      <4>4. a <= b /\ b <= QueueSize
          BY <4>1, <4>3
      <4>5. a <= QueueSize
          BY <4>4, <1>5
      <4> QED BY <4>3, <4>5
    <3> QED BY <3>4, <3>6, <3>7
  <2>2. CASE ~(Len(wt2[o]) > QueueSize)
    <3>1. u = w
        BY <2>2, <1>4
    <3>2. Shorter(w, w)
      <4>1. \A n \in Nat : n <= n
          OBVIOUS
      <4> QED BY <4>1, <1>4, <1>6 DEF Shorter
    <3>3. Keeps(w, w, base, B)
        BY <3>2, <1>4 DEF Keeps
    <3>4. \A s \in Sensor : Len(wt2[s]) <= QueueSize
      <4>1. Len(wt2[o]) <= QueueSize
          BY <2>2, <1>3, <1>5, <1>6
      <4> QED BY <4>1, <1>1
    <3> QED BY <3>1, <3>3, <3>4, <1>4
  <2> QED BY <2>1, <2>2
<1> HIDE DEF u
<1>8. WorkOk(u, B)
    BY <1>7 DEF Keeps
<1>9. Keeps(u, v, base, B) /\ \E s \in Sensor : v.waiting[s] = <<>>
    BY <1>3, <1>8, TryMatchKeeps
<1> HIDE DEF v
<1>10. Keeps(w, v, base, B)
    BY <1>4, <1>7, <1>9, KeepsTransitive
<1>11. ASSUME NEW s \in Sensor PROVE Len(v.waiting[s]) <= QueueSize
  <2>1. Len(v.waiting[s]) <= Len(u.waiting[s]) /\ Len(u.waiting[s]) <= QueueSize
      BY <1>7, <1>9 DEF Keeps, Shorter
  <2>2. v.waiting[s] \in Seq(Frame) /\ u.waiting[s] \in Seq(Frame)
      BY <1>8, <1>9 DEF Keeps, WorkOk, QueueOk
  <2>3. PICK a \in Nat, b \in Nat : a = Len(v.waiting[s]) /\ b = Len(u.waiting[s])
      BY <2>2
  <2>4. a <= b /\ b <= QueueSize
      BY <2>1, <2>3
  <2>5. a <= QueueSize
      BY <2>4, <1>5
  <2> QED BY <2>3, <2>5
<1>12. \A t \in Sensor, n \in Nat :
           Tally(v, t, n) = Occ(wt[t], Stamped(t, n)) + IF f \in Stamped(t, n) THEN 1 ELSE 0
  <2> SUFFICES ASSUME NEW t \in Sensor, NEW n \in Nat
               PROVE  Tally(v, t, n) =
                          Occ(wt[t], Stamped(t, n)) + IF f \in Stamped(t, n) THEN 1 ELSE 0
      OBVIOUS
  <2>1. Tally(v, t, n) = Tally(w, t, n)
      BY <1>10 DEF Keeps
  <2>2. Tally(w, t, n) = Occ(wt2[t], Stamped(t, n))
      BY <1>4
  <2> QED BY <2>1, <2>2, <1>1
<1>13. Accounted(base, wt, A) => Accounted(RowSet(base, v), v.waiting, B)
    BY <1>1, <1>4, <1>10 DEF Keeps
<1>14. Accounted(base, wt, A) /\ Settled(base, wt, A) /\ InOrder(f, A)
       => Settled(RowSet(base, v), v.waiting, B)
    BY <1>1, <1>4, <1>10 DEF Keeps
<1>15. WorkOk(v, B)
    BY <1>10 DEF Keeps
<1>16. AddEffect(wt, A, f, base, v)
    BY <1>9, <1>11, <1>12, <1>13, <1>14, <1>15 DEF AddEffect, B
<1> QED BY <1>2, <1>16

(* What flushUnmatched leaves.                                             *)
FlushEffect(wt, A, base, v) ==
    /\ WorkOk(v, A) /\ v.waiting = NoneWaiting
    /\ \A t \in Sensor, n \in Nat : Tally(v, t, n) = Occ(wt[t], Stamped(t, n))
    /\ Accounted(base, wt, A) => Accounted(RowSet(base, v), NoneWaiting, A)
    /\ Settled(base, wt, A) => Settled(RowSet(base, v), NoneWaiting, A)

(* The elements of two sequences in a row.                                 *)
LEMMA ConcatSet ==
    ASSUME NEW X, NEW c \in Seq(X), NEW l \in Seq(X)
    PROVE  ToSet(c \o l) = ToSet(c) \union ToSet(l)
<1> DEFINE all == c \o l
<1>1. PICK n \in Nat, m \in Nat : /\ n = Len(c) /\ m = Len(l) /\ DOMAIN c = 1..n
                                  /\ DOMAIN l = 1..m /\ DOMAIN all = 1..(n + m)
    OBVIOUS
<1>2. \A i \in 1..n : all[i] = c[i]
    BY <1>1
<1>3. \A i \in 1..m : all[i + n] = l[i]
    BY <1>1
<1> HIDE DEF all
<1>4. \A i \in 1..(n + m) : i \in 1..n \/ (i - n \in 1..m /\ (i - n) + n = i)
    OBVIOUS
<1>5. (\A i \in 1..n : i \in 1..(n + m)) /\ \A i \in 1..m : i + n \in 1..(n + m)
    OBVIOUS
<1>6. ToSet(all) \subseteq ToSet(c) \union ToSet(l)
  <2> SUFFICES ASSUME NEW i \in 1..(n + m) PROVE all[i] \in ToSet(c) \union ToSet(l)
      BY <1>1 DEF ToSet
  <2>1. CASE i \in 1..n
      BY <2>1, <1>1, <1>2 DEF ToSet
  <2>2. CASE i - n \in 1..m /\ (i - n) + n = i
    <3>1. all[i] = l[i - n]
        BY <2>2, <1>3
    <3> QED BY <2>2, <3>1, <1>1 DEF ToSet
  <2> QED BY <2>1, <2>2, <1>4
<1>7. ToSet(c) \subseteq ToSet(all)
    BY <1>1, <1>2, <1>5 DEF ToSet
<1>8. ToSet(l) \subseteq ToSet(all)
    BY <1>1, <1>3, <1>5 DEF ToSet
<1> QED BY <1>6, <1>7, <1>8 DEF all

(* It has that effect.                                                     *)
LEMMA FlushFacts ==
    ASSUME NEW A, A \subseteq Frame, NEW wt, WaitingOk(wt, A), NEW base, base \subseteq Row
    PROVE  FlushEffect(wt, A, base, FlushUnmatched(wt))
<1>1. PICK c \in Seq(Frame), l \in Seq(Frame) :
          /\ c = wt["camera"] /\ l = wt["lidar"]
          /\ QueueOk(c, "camera", A) /\ QueueOk(l, "lidar", A)
    BY DEF WaitingOk, Sensor
<1> DEFINE all == c \o l
           ds == [i \in DOMAIN all |-> [frame |-> all[i], reason |-> "flush"]]
           v == FlushUnmatched(wt)
<1>2. PICK N \in Nat : all \in Seq(Frame) /\ N = Len(all) /\ DOMAIN all = 1..N
    OBVIOUS
<1>3. v = [waiting |-> NoneWaiting, matches |-> <<>>, drops |-> ds]
  <2>1. v = [Working(NoneWaiting) EXCEPT !.drops = ds]
      BY <1>1 DEF FlushUnmatched
  <2> HIDE DEF ds, v
  <2>2. Working(NoneWaiting) = [waiting |-> NoneWaiting, matches |-> <<>>, drops |-> <<>>]
      BY DEF Working
  <2> QED BY <2>1, <2>2
<1>4. \A i \in 1..N : all[i] \in Frame
  <2> HIDE DEF all
  <2> QED BY <1>2
<1>5. ToSet(all) = ToSet(c) \union ToSet(l)
    BY ConcatSet
<1>6. ds \in Seq(Drops) /\ Len(ds) = N /\ \A i \in 1..N : ds[i] = [frame |-> all[i], reason |-> "flush"]
  <2>1. \A i \in 1..N : [frame |-> all[i], reason |-> "flush"] \in Drops
      BY <1>4 DEF Drops
  <2> HIDE DEF all
  <2> QED BY <2>1, <1>2
<1> HIDE DEF ds, v
<1>7. v.waiting = NoneWaiting /\ v.matches = <<>> /\ v.drops = ds
    BY <1>3
<1>8. WorkOk(v, A)
  <2>1. NoneWaiting \in [Sensor -> Seq(Frame)] /\ \A s \in Sensor : NoneWaiting[s] = <<>>
      BY DEF NoneWaiting
  <2>2. v \in [waiting : [Sensor -> Seq(Frame)], matches : Seq(Matches), drops : Seq(Drops)]
      BY <1>3, <1>6, <2>1
  <2>3. ToSet(<<>>) = {} /\ Ordered(<<>>) /\ IsInjective(<<>>) /\ <<>> \in Seq(Frame)
      BY DEF ToSet, Ordered, IsInjective
  <2> QED BY <1>7, <2>1, <2>2, <2>3 DEF WorkOk, QueueOk
<1> DEFINE rows == DropRows(ds)
<1> HIDE DEF all
<1>9. /\ rows \in Seq(Row) /\ DOMAIN rows = 1..N
      /\ \A i \in 1..N : /\ rows[i].reason = "flush"
                         /\ \A s \in Sensor : StampOf(rows[i], s) =
                                IF s = all[i].sensor THEN all[i].stamp ELSE None
  <2>1. rows \in Seq(Row) /\ DOMAIN rows = 1..N
    <3>1. DropRows(ds) \in Seq(Row) /\ Len(DropRows(ds)) = Len(ds)
      <4>1. <<>> \in Seq(Matches) /\ ds \in Seq(Drops)
          BY <1>6
      <4> QED BY <4>1, RowsTyped
    <3>2. rows \in Seq(Row) /\ Len(rows) = N
        BY <3>1, <1>6
    <3> HIDE DEF rows
    <3> QED BY <3>2
  <2>2. ASSUME NEW i \in 1..N
        PROVE  /\ rows[i].reason = "flush"
               /\ \A s \in Sensor : StampOf(rows[i], s) =
                                IF s = all[i].sensor THEN all[i].stamp ELSE None
    <3>1. rows[i] = Single(ds[i]) /\ ds[i] \in Drops
        BY <1>6 DEF DropRows
    <3>2. ds[i].frame = all[i] /\ ds[i].reason = "flush"
        BY <1>6
    <3> QED BY <3>1, <3>2, SingleRow
  <2> QED BY <2>1, <2>2
<1>10. ToSet(MatchRows(<<>>)) = {} /\ ToSet(<<>>) = {} /\ \A S : Occ(<<>>, S) = 0
  <2>1. \A S : At(<<>>, S) = {}
      BY DEF At
  <2>2. \A S : Occ(<<>>, S) = 0
      BY <2>1, FS_EmptySet DEF Occ
  <2> QED BY <2>2 DEF MatchRows, ToSet
<1>11. RowSet(base, v) = base \union ToSet(rows)
    BY <1>7, <1>10 DEF RowSet
<1>12. Moves(base, wt, RowSet(base, v), NoneWaiting)
  <2>1. ASSUME NEW s \in Sensor, NEW x \in ToSet(wt[s])
        PROVE  \E r \in RowSet(base, v) : StampOf(r, s) = x.stamp
    <3>1. x \in ToSet(all) /\ x.sensor = s
        BY <1>1, <1>5 DEF QueueOk, Sensor
    <3>2. PICK i \in 1..N : x = all[i]
        BY <3>1, <1>2 DEF ToSet
    <3>3. rows[i] \in ToSet(rows) /\ StampOf(rows[i], s) = x.stamp
        BY <3>1, <3>2, <1>9 DEF ToSet
    <3> QED BY <3>3, <1>11
  <2>2. \A s \in Sensor : ToSet(NoneWaiting[s]) = {}
      BY <1>10 DEF NoneWaiting
  <2> QED BY <2>1, <2>2, <1>11 DEF Moves
<1>13. \A r \in RowSet(base, v) : r \in base \/ r.reason # "outside"
  <2>1. \A r \in ToSet(rows) : r.reason = "flush"
      BY <1>9 DEF ToSet
  <2> QED BY <2>1, <1>11
<1>14. /\ Accounted(base, wt, A) => Accounted(RowSet(base, v), NoneWaiting, A)
       /\ Settled(base, wt, A) => Settled(RowSet(base, v), NoneWaiting, A)
    BY <1>12, <1>13, MovesKeep
<1>15. ASSUME NEW t \in Sensor, NEW n \in Nat PROVE Tally(v, t, n) = Occ(wt[t], Stamped(t, n))
  <2> DEFINE F == Stamped(t, n)
  <2>1. At(rows, RowsAt(t, n)) = At(all, F)
    <3>1. ASSUME NEW i \in 1..N PROVE rows[i] \in RowsAt(t, n) <=> all[i] \in F
      <4>1. rows[i] \in Row /\ all[i] \in Frame
        <5> HIDE DEF rows
        <5> QED BY <1>4, <1>9
      <4>2. n # None
          BY DEF None
      <4> QED BY <4>1, <4>2, <1>9 DEF RowsAt, Stamped
    <3> QED BY <3>1, <1>2, <1>9 DEF At
  <2>2. Occ(rows, RowsAt(t, n)) = Occ(all, F)
      BY <2>1 DEF Occ
  <2>3. Occ(all, F) = Occ(c, F) + Occ(l, F)
      BY <1>1, OccConcat DEF all
  <2>4. PICK a \in Nat, b \in Nat : a = Occ(c, F) /\ b = Occ(l, F)
      BY <1>1, OccTyped
  <2>5. /\ t = "camera" => Occ(l, F) = 0
        /\ t = "lidar" => Occ(c, F) = 0
    <3>1. ASSUME t = "camera" PROVE Occ(l, F) = 0
      <4>1. At(l, F) = {}
          BY <3>1, <1>1 DEF At, Stamped, QueueOk, ToSet
      <4> QED BY <4>1, FS_EmptySet DEF Occ
    <3>2. ASSUME t = "lidar" PROVE Occ(c, F) = 0
      <4>1. At(c, F) = {}
          BY <3>2, <1>1 DEF At, Stamped, QueueOk, ToSet
      <4> QED BY <4>1, FS_EmptySet DEF Occ
    <3> QED BY <3>1, <3>2
  <2>6. Occ(all, F) = Occ(wt[t], F)
    <3>1. CASE t = "camera"
      <4>1. b = 0 /\ Occ(wt[t], F) = a
          BY <3>1, <2>4, <2>5, <1>1
      <4>2. a + b = a
          BY <4>1
      <4> QED BY <2>3, <2>4, <4>1, <4>2
    <3>2. CASE t = "lidar"
      <4>1. a = 0 /\ Occ(wt[t], F) = b
          BY <3>2, <2>4, <2>5, <1>1
      <4>2. a + b = b
          BY <4>1
      <4> QED BY <2>3, <2>4, <4>1, <4>2
    <3> QED BY <3>1, <3>2 DEF Sensor
  <2>7. MatchRows(<<>>) = <<>> /\ NoneWaiting[t] = <<>>
      BY DEF MatchRows, NoneWaiting
  <2>8. Tally(v, t, n) = 0 + (0 + Occ(rows, RowsAt(t, n)))
      BY <2>7, <1>7, <1>10 DEF Tally
  <2>9. Occ(rows, RowsAt(t, n)) = a + b
      BY <2>2, <2>3, <2>4
  <2>10. 0 + (0 + (a + b)) = a + b
      OBVIOUS
  <2> QED BY <2>2, <2>6, <2>8, <2>9, <2>10
<1>16. FlushEffect(wt, A, base, v)
    BY <1>7, <1>8, <1>14, <1>15 DEF FlushEffect
<1> QED BY <1>16 DEF v

(* The index: its records, and an id for each record it ever had.          *)
IndexOk(ix) ==
    /\ ix \in [records : Seq(Row), nextId : Nat \ {0}]
    /\ Len(ix.records) + 1 <= ix.nextId
    /\ Len(ix.records) <= MaxPairs

(* The records the index has forgotten.                                    *)
Lost(ix) == ix.nextId - 1 - Len(ix.records)

(* What dispatch leaves: all the records, unless the index forgets some.   *)
DispatchEffect(ix, w, ix2) ==
    /\ IndexOk(ix2)
    /\ Lost(ix2) = 0 => Lost(ix) = 0
    /\ \A S : Occ(ix2.records, S) <=
                  Occ(ix.records, S)
                  + (Occ(MatchRows(w.matches), S) + Occ(DropRows(w.drops), S))
    /\ Lost(ix2) = 0 =>
           /\ \A S : Occ(ix2.records, S) =
                         Occ(ix.records, S)
                         + (Occ(MatchRows(w.matches), S) + Occ(DropRows(w.drops), S))
           /\ ToSet(ix2.records) = RowSet(ToSet(ix.records), w)

(* It has that effect.                                                     *)
LEMMA DispatchFacts ==
    ASSUME NEW A, NEW w, WorkOk(w, A), NEW ix, IndexOk(ix)
    PROVE  DispatchEffect(ix, w, Dispatch(ix, w))
<1>1. PICK rs \in Seq(Row), id \in Nat : /\ ix = [records |-> rs, nextId |-> id]
                                        /\ Len(rs) + 1 <= id
    BY DEF IndexOk
<1>2. ix.records = rs /\ ix.nextId = id
    BY <1>1
<1>3. PICK ms \in Seq(Row), ds \in Seq(Row) : ms = MatchRows(w.matches) /\ ds = DropRows(w.drops)
  <2>1. w.matches \in Seq(Matches) /\ w.drops \in Seq(Drops)
      BY DEF WorkOk
  <2> QED BY <2>1, RowsTyped
<1> DEFINE new == ms \o ds
           q == rs \o new
           n == IF Len(q) > MaxPairs THEN Len(q) - MaxPairs ELSE 0
           ix2 == Dispatch(ix, w)
<1>4. new \in Seq(Row) /\ q \in Seq(Row) /\ Len(q) = Len(rs) + Len(new)
    OBVIOUS
<1>5. PICK L \in Nat, k \in Nat, R \in Nat : L = Len(q) /\ k = Len(new) /\ R = Len(rs) /\ L = R + k
    BY <1>4
<1>6. MaxPairs \in Nat \ {0}
    BY SynchronizerAssumption
<1> HIDE DEF new, q
<1>7. n \in 0..L /\ L - n <= MaxPairs /\ (n = 0 \/ (L > MaxPairs /\ n = L - MaxPairs))
    BY <1>5, <1>6
<1>8. ix2 = [records |-> Rest(q, n), nextId |-> id + k]
  <2>1. ix2 = [records |-> Trim(rs \o (ms \o ds)), nextId |-> id + Len(ms \o ds)]
      BY <1>2, <1>3 DEF Dispatch, MatchRows, DropRows
  <2>2. Trim(q) = Rest(q, n)
    <3>1. (IF L > MaxPairs THEN L - MaxPairs + 1 ELSE 1) = n + 1
        BY <1>5, <1>6
    <3> HIDE DEF n
    <3> QED BY <3>1, <1>5 DEF Trim, Rest
  <2>3. rs \o (ms \o ds) = q /\ Len(ms \o ds) = k
      BY <1>5 DEF q, new
  <2> HIDE DEF n, ix2
  <2> QED BY <2>1, <2>2, <2>3
<1> HIDE DEF n, ix2
<1>9. ix2.records = Rest(q, n) /\ ix2.nextId = id + k
    BY <1>8
<1>10. /\ Rest(q, n) \in Seq(Row) /\ Len(Rest(q, n)) = L - n
    BY <1>4, <1>5, <1>7, RestFacts
<1>11. R + 1 <= id
    BY <1>1, <1>5
<1>12. (L - n) + 1 <= id + k /\ id + k \in Nat \ {0}
    BY <1>5, <1>7, <1>11
<1>13. IndexOk(ix2)
  <2>1. ix2 \in [records : Seq(Row), nextId : Nat \ {0}]
      BY <1>8, <1>10, <1>12
  <2>2. Len(ix2.records) + 1 <= ix2.nextId /\ Len(ix2.records) <= MaxPairs
      BY <1>7, <1>9, <1>10, <1>12
  <2> QED BY <2>1, <2>2 DEF IndexOk
<1>14. Lost(ix2) = (id + k) - 1 - (L - n) /\ Lost(ix) = id - 1 - R
    BY <1>2, <1>5, <1>9, <1>10 DEF Lost
<1>15. Lost(ix2) = 0 => n = 0 /\ Lost(ix) = 0
  <2>1. (id + k) - 1 - (L - n) = 0 => n = 0 /\ id - 1 - R = 0
      BY <1>5, <1>7, <1>11
  <2> QED BY <1>14, <2>1
<1>16. ASSUME NEW S PROVE Occ(q, S) = Occ(rs, S) + (Occ(ms, S) + Occ(ds, S))
  <2>1. Occ(q, S) = Occ(rs, S) + Occ(new, S)
      BY <1>4, OccConcat DEF q
  <2>2. Occ(new, S) = Occ(ms, S) + Occ(ds, S)
      BY OccConcat DEF new
  <2> QED BY <2>1, <2>2
<1>17. \A S : Occ(Rest(q, n), S) <= Occ(q, S)
    BY <1>4, <1>5, <1>7, OccRest
<1>18. n = 0 => Rest(q, n) = q
  <2>1. SubSeq(q, 1, Len(q)) = q
      BY <1>4
  <2>2. 0 + 1 = 1
      OBVIOUS
  <2> QED BY <2>1, <2>2 DEF Rest
<1>19. ToSet(q) = RowSet(ToSet(rs), w)
  <2>1. ToSet(q) = ToSet(rs) \union ToSet(new)
      BY <1>4, ConcatSet DEF q
  <2>2. ToSet(new) = ToSet(ms) \union ToSet(ds)
      BY ConcatSet DEF new
  <2> QED BY <2>1, <2>2, <1>3 DEF RowSet
<1>20. \A S : Occ(ix2.records, S) <=
                  Occ(ix.records, S)
                  + (Occ(MatchRows(w.matches), S) + Occ(DropRows(w.drops), S))
    BY <1>2, <1>3, <1>9, <1>16, <1>17
<1>21. ASSUME Lost(ix2) = 0
       PROVE  /\ \A S : Occ(ix2.records, S) =
                         Occ(ix.records, S)
                         + (Occ(MatchRows(w.matches), S) + Occ(DropRows(w.drops), S))
              /\ ToSet(ix2.records) = RowSet(ToSet(ix.records), w)
  <2>1. ix2.records = q
      BY <1>9, <1>15, <1>18, <1>21
  <2> QED BY <2>1, <1>2, <1>3, <1>16, <1>19
<1> QED BY <1>13, <1>15, <1>20, <1>21 DEF DispatchEffect, ix2

-----------------------------------------------------------------------------
(***************************************************************************)
(* The invariant of the synchronizer and its index.                        *)
(***************************************************************************)

Same(A, s, n) == {g \in A : g.sensor = s /\ g.stamp = n}

(* The frames of sensor s stamped n that wait or have a record.            *)
HeldAt(wt, ix, s, n) == Occ(wt[s], Stamped(s, n)) + Occ(ix.records, RowsAt(s, n))

(* The synchronizer and the index when the frames of A have been handed to *)
(* them, those of lt behind a newer frame of their sensor.                 *)
SyncOk(wt, ix, A, lt) ==
    /\ WaitingOk(wt, A) /\ \A s \in Sensor : Len(wt[s]) <= QueueSize
    /\ IndexOk(ix)
    /\ \A s \in Sensor, n \in Nat :
           /\ HeldAt(wt, ix, s, n) <= Cardinality(Same(A, s, n))
           /\ Lost(ix) = 0 => HeldAt(wt, ix, s, n) = Cardinality(Same(A, s, n))
    /\ Lost(ix) = 0 => Accounted(ToSet(ix.records), wt, A)
    /\ Lost(ix) = 0 /\ lt = {} => Settled(ToSet(ix.records), wt, A)

(* A call that hands over what it found: as many frames are held as before *)
(* it and as it brought.                                                   *)
LEMMA HeldMoves ==
    ASSUME NEW A, NEW wt, WaitingOk(wt, A), NEW ix, IndexOk(ix), NEW B, NEW v, WorkOk(v, B),
           NEW ix2, DispatchEffect(ix, v, ix2), NEW s \in Sensor, NEW n \in Nat, NEW e \in Nat,
           Tally(v, s, n) = Occ(wt[s], Stamped(s, n)) + e
    PROVE  /\ HeldAt(v.waiting, ix2, s, n) <= HeldAt(wt, ix, s, n) + e
           /\ Lost(ix2) = 0 => HeldAt(v.waiting, ix2, s, n) = HeldAt(wt, ix, s, n) + e
<1> DEFINE F == Stamped(s, n)
           R == RowsAt(s, n)
<1>1. v.waiting[s] \in Seq(Frame) /\ wt[s] \in Seq(Frame)
    BY DEF WorkOk, WaitingOk, QueueOk
<1>2. ix.records \in Seq(Row) /\ ix2.records \in Seq(Row)
    BY DEF IndexOk, DispatchEffect
<1>3. MatchRows(v.matches) \in Seq(Row) /\ DropRows(v.drops) \in Seq(Row)
  <2>1. v.matches \in Seq(Matches) /\ v.drops \in Seq(Drops)
      BY DEF WorkOk
  <2> QED BY <2>1, RowsTyped
<1>4. PICK a \in Nat, b \in Nat, c \in Nat, d \in Nat, x \in Nat, y \in Nat :
          /\ a = Occ(wt[s], F) /\ b = Occ(v.waiting[s], F)
          /\ c = Occ(MatchRows(v.matches), R) /\ d = Occ(DropRows(v.drops), R)
          /\ x = Occ(ix.records, R) /\ y = Occ(ix2.records, R)
    BY <1>1, <1>2, <1>3, OccTyped
<1>5. b + (c + d) = a + e
    BY <1>4 DEF Tally
<1>6. y <= x + (c + d)
    BY <1>4 DEF DispatchEffect
<1>7. Lost(ix2) = 0 => y = x + (c + d)
    BY <1>4 DEF DispatchEffect
<1>8. HeldAt(v.waiting, ix2, s, n) = b + y /\ HeldAt(wt, ix, s, n) = a + x
    BY <1>4 DEF HeldAt
<1>9. b + y <= (a + x) + e
    BY <1>5, <1>6
<1>10. y = x + (c + d) => b + y = (a + x) + e
    BY <1>5
<1> QED BY <1>7, <1>8, <1>9, <1>10

(* The number held is a number.                                            *)
LEMMA HeldTyped ==
    ASSUME NEW A, NEW wt, WaitingOk(wt, A), NEW ix, IndexOk(ix), NEW s \in Sensor, NEW n
    PROVE  HeldAt(wt, ix, s, n) \in Nat
<1>1. wt[s] \in Seq(Frame) /\ ix.records \in Seq(Row)
    BY DEF WaitingOk, IndexOk
<1>2. PICK a \in Nat, b \in Nat : a = Occ(wt[s], Stamped(s, n)) /\ b = Occ(ix.records, RowsAt(s, n))
    BY <1>1, OccTyped
<1>3. a + b \in Nat
    OBVIOUS
<1> QED BY <1>2, <1>3 DEF HeldAt

(* One more frame is one more of its stamp.                                *)
LEMMA SameAdd ==
    ASSUME NEW A, IsFiniteSet(A), A \subseteq Frame, NEW f \in Frame, f \notin A, NEW s, NEW n
    PROVE  /\ Cardinality(Same(A, s, n)) \in Nat
           /\ Cardinality(Same(A \union {f}, s, n)) =
                  Cardinality(Same(A, s, n)) + IF f \in Stamped(s, n) THEN 1 ELSE 0
<1>1. IsFiniteSet(Same(A, s, n)) /\ f \notin Same(A, s, n)
  <2>1. Same(A, s, n) \subseteq A
      BY DEF Same
  <2> QED BY <2>1, FS_Subset
<1>2. Cardinality(Same(A, s, n)) \in Nat
    BY <1>1, FS_CardinalityType
<1>3. CASE f \in Stamped(s, n)
  <2>1. Same(A \union {f}, s, n) = Same(A, s, n) \union {f}
      BY <1>3 DEF Same, Stamped
  <2> QED BY <2>1, <1>1, <1>2, <1>3, FS_AddElement
<1>4. CASE f \notin Stamped(s, n)
  <2>1. Same(A \union {f}, s, n) = Same(A, s, n)
      BY <1>4 DEF Same, Stamped
  <2> QED BY <2>1, <1>2, <1>4
<1> QED BY <1>2, <1>3, <1>4

(* A frame handed to the synchronizer.                                     *)
LEMMA SyncAdd ==
    ASSUME NEW A, IsFiniteSet(A), A \subseteq Frame, NEW f \in Frame, f \notin A,
           NEW wt, NEW ix, NEW lt, SyncOk(wt, ix, A, lt),
           NEW lt2, lt2 = {} => lt = {} /\ InOrder(f, A)
    PROVE  SyncOk(AddFrame(wt, f).waiting, Dispatch(ix, AddFrame(wt, f)), A \union {f}, lt2)
<1> DEFINE v == AddFrame(wt, f)
           ix2 == Dispatch(ix, v)
           B == A \union {f}
           base == ToSet(ix.records)
<1>1. WaitingOk(wt, A) /\ IndexOk(ix) /\ \A s \in Sensor : Len(wt[s]) <= QueueSize
    BY DEF SyncOk
<1>2. base \subseteq Row
    BY <1>1 DEF IndexOk, ToSet
<1>3. AddEffect(wt, A, f, base, v)
    BY <1>1, <1>2, AddFrameFacts
<1> HIDE DEF v
<1>4. WorkOk(v, B)
    BY <1>3 DEF AddEffect
<1>5. DispatchEffect(ix, v, ix2)
    BY <1>1, <1>4, DispatchFacts
<1> HIDE DEF ix2, base
<1>6. WaitingOk(v.waiting, B) /\ \A s \in Sensor : Len(v.waiting[s]) <= QueueSize
    BY <1>3, <1>4 DEF WorkOk, WaitingOk, AddEffect
<1>7. IndexOk(ix2) /\ (Lost(ix2) = 0 => Lost(ix) = 0 /\ ToSet(ix2.records) = RowSet(base, v))
    BY <1>5 DEF DispatchEffect, base
<1>8. ASSUME NEW s \in Sensor, NEW n \in Nat
      PROVE  /\ HeldAt(v.waiting, ix2, s, n) <= Cardinality(Same(B, s, n))
             /\ Lost(ix2) = 0 => HeldAt(v.waiting, ix2, s, n) = Cardinality(Same(B, s, n))
  <2>1. PICK e \in Nat : e = IF f \in Stamped(s, n) THEN 1 ELSE 0
      OBVIOUS
  <2>2. Tally(v, s, n) = Occ(wt[s], Stamped(s, n)) + e
      BY <1>3, <2>1 DEF AddEffect
  <2>3. /\ HeldAt(v.waiting, ix2, s, n) <= HeldAt(wt, ix, s, n) + e
        /\ Lost(ix2) = 0 => HeldAt(v.waiting, ix2, s, n) = HeldAt(wt, ix, s, n) + e
      BY <1>1, <1>4, <1>5, <2>2, HeldMoves
  <2>4. /\ HeldAt(wt, ix, s, n) <= Cardinality(Same(A, s, n))
        /\ Lost(ix) = 0 => HeldAt(wt, ix, s, n) = Cardinality(Same(A, s, n))
      BY DEF SyncOk
  <2>5. /\ Cardinality(Same(A, s, n)) \in Nat
        /\ Cardinality(Same(B, s, n)) = Cardinality(Same(A, s, n)) + e
      BY <2>1, SameAdd
  <2>6. PICK h \in Nat, h2 \in Nat, k \in Nat :
            /\ h = HeldAt(wt, ix, s, n) /\ h2 = HeldAt(v.waiting, ix2, s, n)
            /\ k = Cardinality(Same(A, s, n))
      BY <1>1, <1>6, <1>7, <2>5, HeldTyped
  <2>7. h2 <= h + e /\ h <= k
      BY <2>3, <2>4, <2>6
  <2>8. h2 <= k + e
      BY <2>7
  <2>9. Lost(ix2) = 0 => h2 = k + e
      BY <2>3, <2>4, <2>6, <1>7
  <2> QED BY <2>5, <2>6, <2>8, <2>9
<1>9. ASSUME Lost(ix2) = 0 PROVE Accounted(ToSet(ix2.records), v.waiting, B)
  <2>1. Accounted(base, wt, A)
      BY <1>7, <1>9 DEF SyncOk, base
  <2> QED BY <2>1, <1>3, <1>7, <1>9 DEF AddEffect
<1>10. ASSUME Lost(ix2) = 0, lt2 = {} PROVE Settled(ToSet(ix2.records), v.waiting, B)
  <2>1. Accounted(base, wt, A) /\ Settled(base, wt, A) /\ InOrder(f, A)
      BY <1>7, <1>10 DEF SyncOk, base
  <2> QED BY <2>1, <1>3, <1>7, <1>10 DEF AddEffect
<1>11. SyncOk(v.waiting, ix2, B, lt2)
    BY <1>6, <1>7, <1>8, <1>9, <1>10 DEF SyncOk
<1> QED BY <1>11 DEF v, ix2

(* flushPendingPairs_.                                                     *)
LEMMA SyncFlush ==
    ASSUME NEW A, IsFiniteSet(A), A \subseteq Frame,
           NEW wt, NEW ix, NEW lt, SyncOk(wt, ix, A, lt)
    PROVE  SyncOk(NoneWaiting, Dispatch(ix, FlushUnmatched(wt)), A, lt)
<1> DEFINE v == FlushUnmatched(wt)
           ix2 == Dispatch(ix, v)
           base == ToSet(ix.records)
<1>1. WaitingOk(wt, A) /\ IndexOk(ix)
    BY DEF SyncOk
<1>2. base \subseteq Row
    BY <1>1 DEF IndexOk, ToSet
<1>3. FlushEffect(wt, A, base, v)
    BY <1>1, <1>2, FlushFacts
<1> HIDE DEF v
<1>4. WorkOk(v, A) /\ v.waiting = NoneWaiting
    BY <1>3 DEF FlushEffect
<1>5. DispatchEffect(ix, v, ix2)
    BY <1>1, <1>4, DispatchFacts
<1> HIDE DEF ix2, base
<1>6. WaitingOk(NoneWaiting, A) /\ \A s \in Sensor : Len(NoneWaiting[s]) <= QueueSize
  <2>1. \A s \in Sensor : NoneWaiting[s] = <<>>
      BY DEF NoneWaiting
  <2>2. Len(<<>>) = 0
      OBVIOUS
  <2>3. 0 <= QueueSize
      BY SynchronizerAssumption
  <2> QED BY <1>4, <2>1, <2>2, <2>3 DEF WorkOk, WaitingOk
<1>7. IndexOk(ix2) /\ (Lost(ix2) = 0 => Lost(ix) = 0 /\ ToSet(ix2.records) = RowSet(base, v))
    BY <1>5 DEF DispatchEffect, base
<1>8. ASSUME NEW s \in Sensor, NEW n \in Nat
      PROVE  /\ HeldAt(NoneWaiting, ix2, s, n) <= Cardinality(Same(A, s, n))
             /\ Lost(ix2) = 0 => HeldAt(NoneWaiting, ix2, s, n) = Cardinality(Same(A, s, n))
  <2>1. Tally(v, s, n) = Occ(wt[s], Stamped(s, n)) + 0
    <3>1. Tally(v, s, n) = Occ(wt[s], Stamped(s, n))
        BY <1>3 DEF FlushEffect
    <3>2. wt[s] \in Seq(Frame)
        BY <1>1 DEF WaitingOk
    <3>3. PICK a \in Nat : a = Occ(wt[s], Stamped(s, n))
        BY <3>2, OccTyped
    <3>4. a = a + 0
        OBVIOUS
    <3> QED BY <3>1, <3>3, <3>4
  <2>2. /\ HeldAt(v.waiting, ix2, s, n) <= HeldAt(wt, ix, s, n) + 0
        /\ Lost(ix2) = 0 => HeldAt(v.waiting, ix2, s, n) = HeldAt(wt, ix, s, n) + 0
    <3>1. 0 \in Nat
        OBVIOUS
    <3> QED BY <3>1, <1>1, <1>4, <1>5, <2>1, HeldMoves
  <2>3. /\ HeldAt(wt, ix, s, n) <= Cardinality(Same(A, s, n))
        /\ Lost(ix) = 0 => HeldAt(wt, ix, s, n) = Cardinality(Same(A, s, n))
      BY DEF SyncOk
  <2>4. Cardinality(Same(A, s, n)) \in Nat
    <3>1. Same(A, s, n) \subseteq A
        BY DEF Same
    <3> QED BY <3>1, FS_Subset, FS_CardinalityType
  <2>5. PICK h \in Nat, h2 \in Nat, k \in Nat :
            /\ h = HeldAt(wt, ix, s, n) /\ h2 = HeldAt(NoneWaiting, ix2, s, n)
            /\ k = Cardinality(Same(A, s, n))
      BY <1>1, <1>6, <1>7, <2>4, HeldTyped
  <2>6. h2 <= h + 0 /\ h <= k
      BY <2>2, <2>3, <2>5, <1>4
  <2>7. h2 <= k
      BY <2>6
  <2>8. Lost(ix2) = 0 => h2 = h + 0 /\ h = k
      BY <2>2, <2>3, <2>5, <1>4, <1>7
  <2>9. h2 = h + 0 /\ h = k => h2 = k
      OBVIOUS
  <2> QED BY <2>5, <2>7, <2>8, <2>9
<1>9. ASSUME Lost(ix2) = 0 PROVE Accounted(ToSet(ix2.records), NoneWaiting, A)
  <2>1. Accounted(base, wt, A)
      BY <1>7, <1>9 DEF SyncOk, base
  <2> QED BY <2>1, <1>3, <1>7, <1>9 DEF FlushEffect
<1>10. ASSUME Lost(ix2) = 0, lt = {} PROVE Settled(ToSet(ix2.records), NoneWaiting, A)
  <2>1. Settled(base, wt, A)
      BY <1>7, <1>10 DEF SyncOk, base
  <2> QED BY <2>1, <1>3, <1>7, <1>10 DEF FlushEffect
<1>11. SyncOk(NoneWaiting, ix2, A, lt)
    BY <1>6, <1>7, <1>8, <1>9, <1>10 DEF SyncOk
<1> QED BY <1>11 DEF v, ix2

(* The frames the synchronizer is given.                                   *)
Given == IF mode = "off" THEN {} ELSE arrived

SyncInv ==
    /\ mode \in {"off", "on", "strict"}
    /\ arrived \subseteq Frame /\ IsFiniteSet(arrived) /\ late \subseteq arrived
    /\ SyncOk(waiting, index, Given, late)

(* Nothing has arrived, nothing waits and nothing is recorded.             *)
LEMMA SyncInit == Init => SyncInv
<1> SUFFICES ASSUME Init PROVE SyncInv
    OBVIOUS
<1>1. /\ mode \in {"off", "on", "strict"} /\ arrived = {} /\ late = {} /\ Given = {}
      /\ waiting = NoneWaiting /\ index = EmptyIndex
    BY DEF Init, Given
<1>2. ToSet(<<>>) = {} /\ Ordered(<<>>) /\ IsInjective(<<>>) /\ <<>> \in Seq(Frame) /\ Len(<<>>) = 0
    BY DEF ToSet, Ordered, IsInjective
<1>3. NoneWaiting \in [Sensor -> Seq(Frame)] /\ \A s \in Sensor : NoneWaiting[s] = <<>>
    BY DEF NoneWaiting
<1>4. WaitingOk(NoneWaiting, {})
    BY <1>2, <1>3 DEF WaitingOk, QueueOk
<1>5. QueueSize \in Nat \ {0} /\ MaxPairs \in Nat \ {0}
    BY SynchronizerAssumption
<1>6. EmptyIndex.records = <<>> /\ EmptyIndex.nextId = 1
    BY DEF EmptyIndex
<1>7. IndexOk(EmptyIndex)
  <2>1. EmptyIndex \in [records : Seq(Row), nextId : Nat \ {0}]
      BY DEF EmptyIndex
  <2>2. 0 + 1 <= 1 /\ 0 <= MaxPairs
      BY <1>5
  <2> QED BY <1>2, <1>6, <2>1, <2>2 DEF IndexOk
<1>8. \A s \in Sensor : Len(NoneWaiting[s]) <= QueueSize
    BY <1>2, <1>3, <1>5
<1>9. ASSUME NEW s \in Sensor, NEW n \in Nat
      PROVE  HeldAt(NoneWaiting, EmptyIndex, s, n) = Cardinality(Same({}, s, n))
             /\ HeldAt(NoneWaiting, EmptyIndex, s, n) <= Cardinality(Same({}, s, n))
  <2>1. \A S : At(<<>>, S) = {}
      BY DEF At
  <2>2. \A S : Occ(<<>>, S) = 0
      BY <2>1, FS_EmptySet DEF Occ
  <2>3. HeldAt(NoneWaiting, EmptyIndex, s, n) = 0 + 0
      BY <1>3, <1>6, <2>2 DEF HeldAt
  <2>4. Same({}, s, n) = {}
      BY DEF Same
  <2>5. Cardinality(Same({}, s, n)) = 0
      BY <2>4, FS_EmptySet
  <2> QED BY <2>3, <2>5
<1>10. Accounted({}, NoneWaiting, {}) /\ Settled({}, NoneWaiting, {})
    BY DEF Accounted, Settled
<1>11. SyncOk(NoneWaiting, EmptyIndex, {}, {})
    BY <1>2, <1>4, <1>6, <1>7, <1>8, <1>9, <1>10 DEF SyncOk
<1> QED BY <1>1, <1>11, FS_EmptySet DEF SyncInv

(* What flushPendingPairs_ does to it.                                     *)
LEMMA FlushStep ==
    ASSUME SyncInv, FlushPendingPairs, UNCHANGED <<mode, arrived, late>>
    PROVE  SyncInv' /\ waiting' = NoneWaiting
<1>1. PICK wt, ix, A, lt : wt = waiting /\ ix = index /\ A = Given /\ lt = late
    OBVIOUS
<1>2. waiting' = NoneWaiting /\ index' = Dispatch(ix, FlushUnmatched(wt))
    BY <1>1 DEF FlushPendingPairs
<1>3. A \subseteq Frame /\ IsFiniteSet(A)
    BY <1>1, FS_EmptySet DEF SyncInv, Given
<1>4. SyncOk(wt, ix, A, lt)
    BY <1>1 DEF SyncInv
<1>5. SyncOk(NoneWaiting, Dispatch(ix, FlushUnmatched(wt)), A, lt)
    BY <1>3, <1>4, SyncFlush
<1>6. A = Given' /\ lt = late'
    BY <1>1 DEF Given
<1> QED BY <1>2, <1>5, <1>6 DEF SyncInv

(* Every step keeps the invariant.                                         *)
LEMMA SyncStep == SyncInv /\ [Next]_vars => SyncInv'
<1> SUFFICES ASSUME SyncInv, [Next]_vars PROVE SyncInv'
    OBVIOUS
<1>1. ASSUME NEW f \in Frame, HandleFrame(f) PROVE SyncInv'
  <2>1. /\ f \notin arrived /\ arrived' = arrived \union {f} /\ mode' = mode
        /\ late' = IF \E g \in arrived : g.sensor = f.sensor /\ g.stamp > f.stamp
                   THEN late \union {f} ELSE late
      BY <1>1 DEF HandleFrame
  <2>2. PICK wt, ix, A, lt : wt = waiting /\ ix = index /\ A = arrived /\ lt = late
      OBVIOUS
  <2>3. /\ A \subseteq Frame /\ IsFiniteSet(A) /\ lt \subseteq A /\ f \notin A
        /\ A \union {f} \subseteq Frame /\ IsFiniteSet(A \union {f})
      BY <2>1, <2>2, FS_AddElement DEF SyncInv
  <2>4. late' \subseteq arrived'
      BY <2>1, <2>2, <2>3
  <2>5. PICK lt2 : lt2 = late'
      OBVIOUS
  <2>6. lt2 = {} => lt = {} /\ InOrder(f, A)
    <3> SUFFICES ASSUME lt2 = {} PROVE lt = {} /\ InOrder(f, A)
        OBVIOUS
    <3>1. lt = {} /\ ~ \E g \in A : g.sensor = f.sensor /\ g.stamp > f.stamp
        BY <2>1, <2>2, <2>5
    <3>2. \A g \in A : g.stamp \in Nat /\ f.stamp \in Nat
        BY <2>3, BufferAssumption
    <3>3. \A i, j \in Nat : ~(i > j) => i <= j
        OBVIOUS
    <3> QED BY <3>1, <3>2, <3>3 DEF InOrder
  <2>7. CASE mode = "off"
    <3>1. waiting' = wt /\ index' = ix
        BY <1>1, <2>2, <2>7 DEF HandleFrame
    <3>2. SyncOk(wt, ix, {}, lt)
        BY <2>2, <2>7 DEF SyncInv, Given
    <3>3. SyncOk(wt, ix, {}, lt2)
        BY <3>2, <2>6 DEF SyncOk
    <3>4. Given' = {}
        BY <2>1, <2>7 DEF Given
    <3> QED BY <3>1, <3>3, <3>4, <2>1, <2>2, <2>3, <2>4, <2>5 DEF SyncInv
  <2>8. CASE mode # "off"
    <3>1. waiting' = AddFrame(wt, f).waiting /\ index' = Dispatch(ix, AddFrame(wt, f))
        BY <1>1, <2>2, <2>8 DEF HandleFrame
    <3>2. SyncOk(wt, ix, A, lt)
        BY <2>2, <2>8 DEF SyncInv, Given
    <3>3. SyncOk(AddFrame(wt, f).waiting, Dispatch(ix, AddFrame(wt, f)), A \union {f}, lt2)
        BY <3>2, <2>3, <2>6, SyncAdd
    <3>4. Given' = A \union {f}
        BY <2>1, <2>2, <2>8 DEF Given
    <3> QED BY <3>1, <3>3, <3>4, <2>1, <2>2, <2>3, <2>4, <2>5 DEF SyncInv
  <2> QED BY <2>7, <2>8
<1>2. ASSUME NEW c \in Capture, Trigger(c) PROVE SyncInv'
  <2>1. FlushPendingPairs /\ UNCHANGED <<mode, arrived, late>>
      BY <1>2 DEF Trigger
  <2> QED BY <2>1, FlushStep
<1>3. ASSUME Harvest PROVE SyncInv'
  <2>1. FlushPendingPairs /\ UNCHANGED <<mode, arrived, late>>
      BY <1>3 DEF Harvest
  <2> QED BY <2>1, FlushStep
<1>4. ASSUME UNCHANGED vars PROVE SyncInv'
    BY <1>4 DEF SyncInv, Given, vars
<1> QED BY <1>1, <1>2, <1>3, <1>4 DEF Next

(* SyncInv holds throughout.                                               *)
LEMMA SyncAlways == Spec => []SyncInv
  BY SyncInit, SyncStep, PTL DEF Spec

(* FrameAccounted, for every set of frames, every order of arrival and     *)
(* every size of the queues and of the index: addImage, addPointCloud,     *)
(* tryMatchLocked, flushUnmatched and dispatch neither lose a frame nor    *)
(* record it twice.                                                        *)
THEOREM FramesAccountedFor == Spec => []FrameAccounted
<1>1. ASSUME SyncInv PROVE FrameAccounted
  <2> SUFFICES ASSUME mode # "off", NEW f \in arrived
               PROVE  LET same == {g \in arrived : g.sensor = f.sensor /\ g.stamp = f.stamp}
                          held == Cardinality({i \in DOMAIN waiting[f.sensor] :
                                                   waiting[f.sensor][i].stamp = f.stamp})
                                  + Cardinality(RowsOf(index.records, f))
                      IN  /\ held <= Cardinality(same)
                          /\ Expelled = 0 => held = Cardinality(same)
      BY DEF FrameAccounted
  <2>1. PICK s \in Sensor, n \in Nat : s = f.sensor /\ n = f.stamp
      BY <1>1, BufferAssumption DEF SyncInv
  <2>2. SyncOk(waiting, index, arrived, late)
      BY <1>1 DEF SyncInv, Given
  <2>3. {i \in DOMAIN waiting[s] : waiting[s][i].stamp = n} = At(waiting[s], Stamped(s, n))
    <3>1. QueueOk(waiting[s], s, arrived)
        BY <2>2 DEF SyncOk, WaitingOk
    <3>2. \A i \in DOMAIN waiting[s] : waiting[s][i] \in arrived /\ waiting[s][i].sensor = s
        BY <3>1 DEF QueueOk, ToSet
    <3>3. \A i \in DOMAIN waiting[s] : waiting[s][i] \in Frame
        BY <3>2, <1>1 DEF SyncInv
    <3> QED BY <3>2, <3>3 DEF At, Stamped
  <2>4. RowsOf(index.records, f) = At(index.records, RowsAt(s, n))
    <3>1. index.records \in Seq(Row)
        BY <2>2 DEF SyncOk, IndexOk
    <3>2. \A i \in DOMAIN index.records : index.records[i] \in Row
        BY <3>1
    <3> QED BY <3>2, <2>1 DEF RowsOf, At, RowsAt
  <2>5. {g \in arrived : g.sensor = f.sensor /\ g.stamp = f.stamp} = Same(arrived, s, n)
      BY <2>1 DEF Same
  <2>6. Expelled = Lost(index)
      BY DEF Expelled, Lost
  <2>7. /\ HeldAt(waiting, index, s, n) <= Cardinality(Same(arrived, s, n))
        /\ Lost(index) = 0 =>
               HeldAt(waiting, index, s, n) = Cardinality(Same(arrived, s, n))
      BY <2>2 DEF SyncOk
  <2> QED BY <2>1, <2>3, <2>4, <2>5, <2>6, <2>7 DEF HeldAt, Occ
<1> QED BY <1>1, SyncAlways, PTL

(* DropsAreHopeless, for every tolerance and every size of the queues:     *)
(* tryMatchLocked drops a frame as outside the tolerance only when no      *)
(* frame it could have been paired with is free, or ever will be ("can     *)
(* never match").                                                          *)
THEOREM OutsideMeansHopeless == Spec => []DropsAreHopeless
<1>1. ASSUME SyncInv PROVE DropsAreHopeless
  <2> SUFFICES ASSUME late = {}, NEW r \in ToSet(index.records), r.reason = "outside",
                      NEW g \in arrived, StampOf(r, g.sensor) = None,
                      g.stamp - PairTime(r) \in (-Tolerance)..Tolerance
               PROVE  \/ Expelled > 0
                      \/ \E i \in RowsOf(index.records, g) : index.records[i].reason # "outside"
      BY DEF DropsAreHopeless
  <2>1. SyncOk(waiting, index, Given, late)
      BY <1>1 DEF SyncInv
  <2>2. IndexOk(index) /\ r \in Row
      BY <2>1 DEF SyncOk, IndexOk, ToSet
  <2>3. mode # "off"
    <3> SUFFICES ASSUME mode = "off" PROVE FALSE
        OBVIOUS
    <3>1. PICK s \in Sensor, n \in Nat : StampOf(r, s) = n
        BY <2>2 DEF Row, PairRecords, StampOf, Sensor, None
    <3>2. Occ(index.records, RowsAt(s, n)) > 0
      <4>1. r \in RowsAt(s, n) /\ index.records \in Seq(Row)
          BY <2>2, <3>1 DEF RowsAt, IndexOk
      <4> QED BY <4>1, OccPositive
    <3>3. HeldAt(waiting, index, s, n) <= 0
      <4>1. Same({}, s, n) = {}
          BY DEF Same
      <4>2. Cardinality(Same({}, s, n)) = 0
          BY <4>1, FS_EmptySet
      <4>3. Given = {}
          BY DEF Given
      <4> QED BY <2>1, <4>2, <4>3 DEF SyncOk
    <3>4. PICK a \in Nat, b \in Nat : /\ a = Occ(waiting[s], Stamped(s, n))
                                      /\ b = Occ(index.records, RowsAt(s, n))
      <4>1. waiting[s] \in Seq(Frame) /\ index.records \in Seq(Row)
          BY <2>1 DEF SyncOk, WaitingOk, IndexOk
      <4> QED BY <4>1, OccTyped
    <3>5. b > 0 /\ a + b <= 0
        BY <3>2, <3>3, <3>4 DEF HeldAt
    <3> QED BY <3>5
  <2>4. CASE Lost(index) = 0
    <3>1. Hopeless(r, ToSet(index.records), arrived)
        BY <2>1, <2>3, <2>4 DEF SyncOk, Settled, Given
    <3>2. PICK x \in ToSet(index.records) : StampOf(x, g.sensor) = g.stamp /\ x.reason # "outside"
        BY <3>1 DEF Hopeless
    <3>3. PICK i \in DOMAIN index.records : x = index.records[i]
        BY DEF ToSet
    <3> QED BY <3>2, <3>3 DEF RowsOf
  <2>5. CASE Lost(index) # 0
    <3>1. PICK k \in Nat, n \in Nat : k = Len(index.records) /\ n = index.nextId /\ k + 1 <= n
        BY <2>2 DEF IndexOk
    <3>2. Expelled = n - 1 - k /\ n - 1 - k # 0
        BY <3>1, <2>5 DEF Expelled, Lost
    <3>3. n - 1 - k > 0
        BY <3>1, <3>2
    <3> QED BY <3>2, <3>3
  <2> QED BY <2>4, <2>5
<1> QED BY <1>1, SyncAlways, PTL

(* The queues of the synchronizer never outgrow sync_queue_size, nor the   *)
(* index its maxRecords.                                                   *)
THEOREM SynchronizerBounded ==
    Spec => []((\A s \in Sensor : Len(waiting[s]) <= QueueSize) /\ Len(index.records) <= MaxPairs)
<1>1. SyncInv => (\A s \in Sensor : Len(waiting[s]) <= QueueSize) /\ Len(index.records) <= MaxPairs
    BY DEF SyncInv, SyncOk, IndexOk
<1> QED BY <1>1, SyncAlways, PTL

-----------------------------------------------------------------------------
(***************************************************************************)
(* The batches of a capture.                                               *)
(***************************************************************************)

(* Two sequences with nothing in common, and nothing twice.                *)
LEMMA ConcatInjective ==
    ASSUME NEW X, NEW c \in Seq(X), NEW l \in Seq(X), IsInjective(c), IsInjective(l),
           \A x \in ToSet(c) : x \notin ToSet(l)
    PROVE  IsInjective(c \o l)
<1> DEFINE all == c \o l
<1>1. PICK n \in Nat, m \in Nat : /\ n = Len(c) /\ m = Len(l) /\ DOMAIN c = 1..n
                                  /\ DOMAIN l = 1..m /\ DOMAIN all = 1..(n + m)
    OBVIOUS
<1>2. \A i \in 1..n : all[i] = c[i] /\ all[i] \in ToSet(c)
    BY <1>1 DEF ToSet
<1>3. \A i \in 1..m : all[i + n] = l[i] /\ all[i + n] \in ToSet(l)
    BY <1>1 DEF ToSet
<1> HIDE DEF all
<1>4. \A i \in 1..(n + m) : i \in 1..n \/ (i - n \in 1..m /\ (i - n) + n = i)
    OBVIOUS
<1>5. ASSUME NEW i \in 1..(n + m), NEW j \in 1..(n + m), all[i] = all[j] PROVE i = j
  <2>1. CASE i \in 1..n /\ j \in 1..n
      BY <2>1, <1>1, <1>2, <1>5 DEF IsInjective
  <2>2. CASE i \in 1..n /\ j - n \in 1..m /\ (j - n) + n = j
    <3>1. all[i] \in ToSet(c) /\ all[j] \in ToSet(l)
        BY <2>2, <1>2, <1>3
    <3> QED BY <3>1, <1>5
  <2>3. CASE j \in 1..n /\ i - n \in 1..m /\ (i - n) + n = i
    <3>1. all[j] \in ToSet(c) /\ all[i] \in ToSet(l)
        BY <2>3, <1>2, <1>3
    <3> QED BY <3>1, <1>5
  <2>4. CASE i - n \in 1..m /\ (i - n) + n = i /\ j - n \in 1..m /\ (j - n) + n = j
    <3>1. l[i - n] = all[i] /\ l[j - n] = all[j]
        BY <2>4, <1>3
    <3>2. i - n = j - n
        BY <2>4, <3>1, <1>1, <1>5 DEF IsInjective
    <3> QED BY <2>4, <3>2
  <2> QED BY <2>1, <2>2, <2>3, <2>4, <1>4
<1>6. IsInjective(all)
    BY <1>1, <1>5 DEF IsInjective
<1> QED BY <1>6 DEF all

(* The frames of both queues.                                              *)
Buffered(b) == ToSet(b.queue["camera"]) \union ToSet(b.queue["lidar"])

(* getDataWithinTimeRange of the buffer: every frame of the window, once.  *)
LEMMA DataWithinFacts ==
    ASSUME NEW A, A \subseteq Frame, NEW b, BufferOk(b, A), NEW lo, NEW hi
    PROVE  /\ DataWithin(b, lo, hi) \in Seq(Frame)
           /\ IsInjective(DataWithin(b, lo, hi))
           /\ ToSet(DataWithin(b, lo, hi)) =
                  {f \in Buffered(b) : lo <= f.stamp /\ f.stamp <= hi}
<1>1. PICK c \in Seq(Frame), l \in Seq(Frame) :
          /\ c = b.queue["camera"] /\ l = b.queue["lidar"]
          /\ QueueOk(c, "camera", A) /\ QueueOk(l, "lidar", A)
  <2>1. QueueOk(b.queue["camera"], "camera", A) /\ QueueOk(b.queue["lidar"], "lidar", A)
      BY DEF BufferOk, Sensor
  <2> QED BY <2>1 DEF QueueOk
<1> DEFINE W == {f \in Frame : lo <= f.stamp /\ f.stamp <= hi}
           kc == Kept(c, W)
           kl == Kept(l, W)
<1>2. DataWithin(b, lo, hi) = kc \o kl
    BY <1>1 DEF DataWithin
<1>3. /\ IsInjective(c) /\ IsInjective(l)
      /\ \A x \in ToSet(c) : x \in Frame /\ x.sensor = "camera"
      /\ \A x \in ToSet(l) : x \in Frame /\ x.sensor = "lidar"
    BY <1>1 DEF QueueOk
<1>4. kc \in Seq(Frame) /\ ToSet(kc) = ToSet(c) \intersect W /\ IsInjective(kc)
    BY <1>3, KeptFacts
<1>5. kl \in Seq(Frame) /\ ToSet(kl) = ToSet(l) \intersect W /\ IsInjective(kl)
    BY <1>3, KeptFacts
<1> HIDE DEF kc, kl
<1>6. kc \o kl \in Seq(Frame)
    BY <1>4, <1>5
<1>7. \A x \in ToSet(kc) : x \notin ToSet(kl)
    BY <1>3, <1>4, <1>5
<1>8. IsInjective(kc \o kl)
    BY <1>4, <1>5, <1>7, ConcatInjective
<1>9. ToSet(kc \o kl) = ToSet(kc) \union ToSet(kl)
    BY <1>4, <1>5, ConcatSet
<1>10. ToSet(kc) \union ToSet(kl) = {f \in Buffered(b) : lo <= f.stamp /\ f.stamp <= hi}
    BY <1>1, <1>3, <1>4, <1>5 DEF Buffered
<1> QED BY <1>2, <1>6, <1>8, <1>9, <1>10

(* getDataWithinTimeRange of the index: every record of the window.        *)
LEMMA PairsWithinFacts ==
    ASSUME NEW ix, IndexOk(ix), NEW lo, NEW hi
    PROVE  /\ PairsWithin(ix, lo, hi) \in Seq(Row)
           /\ ToSet(PairsWithin(ix, lo, hi)) =
                  {r \in ToSet(ix.records) : lo <= PairTime(r) /\ PairTime(r) <= hi}
<1>1. PICK q \in Seq(Row) : q = ix.records
    BY DEF IndexOk
<1> DEFINE W == {r \in ToSet(q) : lo <= PairTime(r) /\ PairTime(r) <= hi}
<1>2. Kept(q, W) \in Seq(Row) /\ ToSet(Kept(q, W)) = ToSet(q) \intersect W
    BY KeptFacts
<1> QED BY <1>1, <1>2 DEF PairsWithin

Captures ==
    [at : {"none", "refused", "open", "done"}, time : Nat \union {None},
     pre : Seq(Frame), post : Seq(Frame), preRows : Seq(Row), postRows : Seq(Row),
     seen : SUBSET Frame]

(* An open capture has, once each, the frames it has seen of the time      *)
(* before its event.                                                       *)
OpenOk(k, A) ==
    k.at = "open" =>
        /\ k.time \in Nat /\ IsInjective(k.pre) /\ k.seen \subseteq A
        /\ \A f \in ToSet(k.pre) : f.stamp <= k.time
        /\ \A f \in k.seen : k.time - Pre <= f.stamp /\ f.stamp <= k.time =>
               f \in ToSet(k.pre) \/ Beyond(A, f)

CaptureInv ==
    /\ capture \in [Capture -> Captures]
    /\ \A c \in Capture : OpenOk(capture[c], arrived)

(* What an open capture has stays true when more frames arrive.            *)
LEMMA OpenMonotone ==
    ASSUME NEW B, IsFiniteSet(B), B \subseteq Frame, NEW A, A \subseteq B, NEW k, OpenOk(k, A)
    PROVE  OpenOk(k, B)
<1> SUFFICES ASSUME k.at = "open"
             PROVE  /\ k.time \in Nat /\ IsInjective(k.pre) /\ k.seen \subseteq B
                    /\ \A f \in ToSet(k.pre) : f.stamp <= k.time
                    /\ \A f \in k.seen : k.time - Pre <= f.stamp /\ f.stamp <= k.time =>
                           f \in ToSet(k.pre) \/ Beyond(B, f)
    BY DEF OpenOk
<1>1. /\ k.time \in Nat /\ IsInjective(k.pre) /\ k.seen \subseteq A
      /\ \A f \in ToSet(k.pre) : f.stamp <= k.time
      /\ \A f \in k.seen : k.time - Pre <= f.stamp /\ f.stamp <= k.time =>
             f \in ToSet(k.pre) \/ Beyond(A, f)
    BY DEF OpenOk
<1>2. \A f \in k.seen : f \in Frame /\ (Beyond(A, f) => Beyond(B, f))
  <2> SUFFICES ASSUME NEW f \in k.seen PROVE f \in Frame /\ (Beyond(A, f) => Beyond(B, f))
      OBVIOUS
  <2>1. f \in Frame
      BY <1>1
  <2> QED BY <2>1, BeyondMonotone
<1> QED BY <1>1, <1>2

(* The record of an accepted trigger.                                      *)
Accepted(c, time, b, ix, A) ==
    [at   |-> IF PostOf[c] = 0 THEN "done" ELSE "open",
     time |-> time, seen |-> A,
     pre  |-> DataWithin(b, StartTime(time), time),
     preRows |-> PairsWithin(ix, StartTime(time), time), post |-> <<>>, postRows |-> <<>>]

(* What such a record k has.                                               *)
AcceptEffect(time, b, ix, A, k) ==
    /\ k \in Captures /\ OpenOk(k, A) /\ k.time = time
    /\ ToSet(k.pre) = {f \in Buffered(b) : time - Pre <= f.stamp /\ f.stamp <= time}
    /\ ToSet(k.preRows) =
           {r \in ToSet(ix.records) : time - Pre <= PairTime(r) /\ PairTime(r) <= time}

(* The first batch: what the buffer has of the time before the event.      *)
LEMMA AcceptedFacts ==
    ASSUME NEW A, A \subseteq Frame, NEW b, BufferOk(b, A), NEW ix, IndexOk(ix),
           NEW c \in Capture, NEW time \in Nat
    PROVE  AcceptEffect(time, b, ix, A, Accepted(c, time, b, ix, A))
<1> DEFINE k == Accepted(c, time, b, ix, A)
           pre == DataWithin(b, time - Pre, time)
           rows == PairsWithin(ix, time - Pre, time)
<1>1. /\ pre \in Seq(Frame) /\ IsInjective(pre)
      /\ ToSet(pre) = {f \in Buffered(b) : time - Pre <= f.stamp /\ f.stamp <= time}
    BY DataWithinFacts
<1>2. /\ rows \in Seq(Row)
      /\ ToSet(rows) =
             {r \in ToSet(ix.records) : time - Pre <= PairTime(r) /\ PairTime(r) <= time}
    BY PairsWithinFacts
<1>3. PICK at \in {"done", "open"} :
          k = [at |-> at, time |-> time, seen |-> A, pre |-> pre, preRows |-> rows,
               post |-> <<>>, postRows |-> <<>>]
    BY DEF Accepted, StartTime
<1> HIDE DEF k, pre, rows
<1>4. /\ k.at = at /\ k.time = time /\ k.seen = A /\ k.pre = pre /\ k.preRows = rows
      /\ k.post = <<>> /\ k.postRows = <<>>
    BY <1>3
<1>5. k \in Captures
    BY <1>1, <1>2, <1>3 DEF Captures
<1>6. ASSUME NEW f \in A, time - Pre <= f.stamp, f.stamp <= time
      PROVE  f \in ToSet(pre) \/ Beyond(A, f)
  <2>1. f \in ToSet(b.queue[f.sensor]) \/ Beyond(A, f)
      BY DEF BufferOk
  <2>2. f.sensor \in Sensor
      BY BufferAssumption
  <2>3. ToSet(b.queue[f.sensor]) \subseteq Buffered(b)
      BY <2>2 DEF Sensor, Buffered
  <2> QED BY <2>1, <2>3, <1>1, <1>6
<1>7. OpenOk(k, A)
    BY <1>1, <1>4, <1>6 DEF OpenOk
<1> QED BY <1>1, <1>2, <1>4, <1>5, <1>7 DEF k, AcceptEffect

(* The record of a capture whose second batch is taken.                    *)
Ended(k, end, b, ix) ==
    LET time == k.time
        rows == PairsWithin(ix, time, end)
    IN  [k EXCEPT
            !.at = "done",
            !.post = Kept(DataWithin(b, time, end), {f \in Frame : AfterEvent(f.stamp, time)}),
            !.postRows = Kept(rows, {r \in ToSet(rows) : AfterEvent(PairTime(r), time)})]

(* What such a record d has of the capture k.                              *)
EndEffect(k, end, b, ix, d) ==
    /\ d \in Captures /\ d.at = "done" /\ d.time = k.time /\ d.pre = k.pre
    /\ d.preRows = k.preRows
    /\ IsInjective(d.post)
    /\ ToSet(d.post) = {f \in Buffered(b) : k.time <= f.stamp /\ f.stamp <= end
                                            /\ f.stamp # k.time}
    /\ ToSet(d.postRows) = {r \in ToSet(ix.records) :
                                /\ k.time <= PairTime(r) /\ PairTime(r) <= end
                                /\ PairTime(r) # k.time}

(* The second batch: what the buffer has of the time after the event.      *)
LEMMA EndedFacts ==
    ASSUME NEW A, A \subseteq Frame, NEW b, BufferOk(b, A), NEW ix, IndexOk(ix),
           NEW k \in Captures, NEW end
    PROVE  EndEffect(k, end, b, ix, Ended(k, end, b, ix))
<1>1. PICK at, time, pre, post, preRows, postRows, seen :
          k = [at |-> at, time |-> time, pre |-> pre, post |-> post,
               preRows |-> preRows, postRows |-> postRows, seen |-> seen]
    BY DEF Captures
<1>2. /\ at \in {"none", "refused", "open", "done"} /\ time \in Nat \union {None}
      /\ pre \in Seq(Frame) /\ preRows \in Seq(Row) /\ seen \in SUBSET Frame
    BY <1>1 DEF Captures
<1>3. k.time = time /\ k.pre = pre /\ k.preRows = preRows
    BY <1>1
<1> DEFINE all == DataWithin(b, time, end)
           rows == PairsWithin(ix, time, end)
           W == {f \in Frame : AfterEvent(f.stamp, time)}
           X == {r \in ToSet(rows) : AfterEvent(PairTime(r), time)}
           d == Ended(k, end, b, ix)
<1>4. /\ all \in Seq(Frame) /\ IsInjective(all)
      /\ ToSet(all) = {f \in Buffered(b) : time <= f.stamp /\ f.stamp <= end}
    BY DataWithinFacts
<1>5. /\ rows \in Seq(Row)
      /\ ToSet(rows) = {r \in ToSet(ix.records) : time <= PairTime(r) /\ PairTime(r) <= end}
    BY PairsWithinFacts
<1> HIDE DEF all, rows
<1>6. Kept(all, W) \in Seq(Frame) /\ ToSet(Kept(all, W)) = ToSet(all) \intersect W
      /\ IsInjective(Kept(all, W))
    BY <1>4, KeptFacts
<1>7. Kept(rows, X) \in Seq(Row) /\ ToSet(Kept(rows, X)) = ToSet(rows) \intersect X
    BY <1>5, KeptFacts
<1>8. PICK p \in Seq(Frame), q \in Seq(Row) : p = Kept(all, W) /\ q = Kept(rows, X)
    BY <1>6, <1>7
<1>9. d = [k EXCEPT !.at = "done", !.post = p, !.postRows = q]
    BY <1>3, <1>8 DEF Ended, all, rows
<1> HIDE DEF d, W, X
<1>10. d = [at |-> "done", time |-> time, pre |-> pre, post |-> p,
            preRows |-> preRows, postRows |-> q, seen |-> seen]
    BY <1>1, <1>9
<1>11. /\ d.at = "done" /\ d.time = time /\ d.pre = pre /\ d.preRows = preRows
       /\ d.post = p /\ d.postRows = q
    BY <1>10
<1>12. d \in Captures
    BY <1>2, <1>10 DEF Captures
<1>13. ToSet(p) = {f \in Buffered(b) : time <= f.stamp /\ f.stamp <= end /\ f.stamp # time}
  <2>1. \A x \in ToSet(all) : x \in Frame
      BY <1>4 DEF ToSet
  <2> QED BY <2>1, <1>4, <1>6, <1>8 DEF W, AfterEvent
<1>14. ToSet(q) = {r \in ToSet(ix.records) :
                       /\ time <= PairTime(r) /\ PairTime(r) <= end /\ PairTime(r) # time}
    BY <1>5, <1>7, <1>8 DEF X, AfterEvent
<1> QED BY <1>3, <1>6, <1>8, <1>11, <1>12, <1>13, <1>14 DEF d, EndEffect

(* What a trigger does to its capture: it is refused, or it has its first  *)
(* batch; the others stay as they are.                                     *)
LEMMA TriggerFacts ==
    ASSUME BufferInv, CaptureInv, NEW c \in Capture, Trigger(c)
    PROVE  /\ capture[c].at = "none" /\ FlushPendingPairs
           /\ UNCHANGED <<mode, buffer, arrived, late>>
           /\ \E time \in Nat :
                  \E k \in {[NoCapture EXCEPT !.at = "refused"],
                            Accepted(c, time, buffer, index', arrived)} :
                      capture' = [capture EXCEPT ![c] = k]
<1>1. /\ capture[c].at = "none" /\ FlushPendingPairs
      /\ UNCHANGED <<mode, buffer, arrived, late>>
    BY DEF Trigger
<1>2. PICK b, A, ix : b = buffer /\ A = arrived /\ ix = index'
    OBVIOUS
<1>3. PICK time \in Nat : time = IF b.latest = None THEN WallNow ELSE b.latest
    BY <1>2, SensorPathAssumption DEF BufferInv, BufferOk
<1> DEFINE rows == PairsWithin(ix, StartTime(time), time)
<1>4. PICK ok \in BOOLEAN :
          capture' = [capture EXCEPT ![c] =
              IF ~ok THEN [NoCapture EXCEPT !.at = "refused"]
              ELSE Accepted(c, time, b, ix, A)]
  <2>1. PICK queued \in BOOLEAN :
            LET ok == /\ mode = "strict" => \E r \in ToSet(rows) : r.reason = "matched"
                      /\ queued
            IN  capture' = [capture EXCEPT ![c] =
                    IF ~ok THEN [NoCapture EXCEPT !.at = "refused"]
                    ELSE Accepted(c, time, b, ix, A)]
      BY <1>2, <1>3 DEF Trigger, Accepted
  <2> QED BY <2>1
<1>5. capture' = [capture EXCEPT ![c] = [NoCapture EXCEPT !.at = "refused"]]
      \/ capture' = [capture EXCEPT ![c] = Accepted(c, time, b, ix, A)]
    BY <1>4
<1> QED BY <1>1, <1>2, <1>5

(* What the scheduler timer does: the captures that are due have their     *)
(* second batch; the others stay as they are.                              *)
LEMMA HarvestFacts ==
    ASSUME Harvest
    PROVE  /\ FlushPendingPairs /\ UNCHANGED <<mode, buffer, arrived, late>>
           /\ \E due \in SUBSET {c \in Capture : capture[c].at = "open"} :
                  capture' = [c \in Capture |->
                      IF c \in due THEN Ended(capture[c], EndTime(c), buffer, index')
                      ELSE capture[c]]
<1>1. /\ FlushPendingPairs /\ UNCHANGED <<mode, buffer, arrived, late>>
    BY DEF Harvest
<1>2. PICK due \in SUBSET {c \in Capture : capture[c].at = "open"} :
          capture' = [c \in Capture |-> IF c \in due THEN PostBatch(c) ELSE capture[c]]
    BY DEF Harvest
<1>3. \A c \in Capture : PostBatch(c) = Ended(capture[c], EndTime(c), buffer, index')
    BY DEF PostBatch, Ended
<1>4. capture' = [c \in Capture |->
                      IF c \in due THEN Ended(capture[c], EndTime(c), buffer, index')
                      ELSE capture[c]]
    BY <1>2, <1>3
<1> QED BY <1>1, <1>2, <1>4

(* A record that was refused or never used.                                *)
LEMMA NoCaptureFacts ==
    /\ NoCapture \in Captures /\ NoCapture.at = "none"
    /\ [NoCapture EXCEPT !.at = "refused"] \in Captures
    /\ [NoCapture EXCEPT !.at = "refused"].at = "refused"
<1>1. PICK k, e, z : k = NoCapture /\ e = <<>> /\ z = {}
    OBVIOUS
<1>2. k = [at |-> "none", time |-> None, pre |-> e, post |-> e, preRows |-> e, postRows |-> e,
           seen |-> z]
    BY <1>1 DEF NoCapture
<1>3. e \in Seq(Frame) /\ e \in Seq(Row) /\ z \in SUBSET Frame /\ None \in Nat \union {None}
    BY <1>1
<1>4. [k EXCEPT !.at = "refused"] =
          [at |-> "refused", time |-> None, pre |-> e, post |-> e, preRows |-> e, postRows |-> e,
           seen |-> z]
    BY <1>2
<1>5. k \in Captures /\ k.at = "none"
    BY <1>2, <1>3 DEF Captures
<1>6. PICK r : r = [k EXCEPT !.at = "refused"]
    OBVIOUS
<1>7. r \in Captures /\ r.at = "refused"
    BY <1>3, <1>4, <1>6 DEF Captures
<1> QED BY <1>1, <1>5, <1>6, <1>7

(* No capture is open at first.                                            *)
LEMMA CaptureInit == Init => CaptureInv
  BY NoCaptureFacts DEF Init, CaptureInv, OpenOk

(* Every step keeps what a capture has.                                    *)
LEMMA CaptureStep ==
    ASSUME BufferInv, SyncInv, SyncInv', CaptureInv, [Next]_vars
    PROVE  CaptureInv'
<1>0. capture \in [Capture -> Captures] /\ \A c \in Capture : OpenOk(capture[c], arrived)
    BY DEF CaptureInv
<1>01. arrived \subseteq Frame /\ IsFiniteSet(arrived) /\ BufferOk(buffer, arrived)
    BY DEF BufferInv
<1>1. ASSUME NEW f \in Frame, HandleFrame(f) PROVE CaptureInv'
  <2>1. capture' = capture /\ arrived' = arrived \union {f}
      BY <1>1 DEF HandleFrame
  <2>2. PICK A, B : A = arrived /\ B = arrived'
      OBVIOUS
  <2>3. IsFiniteSet(B) /\ B \subseteq Frame /\ A \subseteq B
      BY <2>1, <2>2 DEF SyncInv
  <2>4. \A c \in Capture : OpenOk(capture[c], B)
      BY <1>0, <2>2, <2>3, OpenMonotone
  <2> QED BY <1>0, <2>1, <2>2, <2>4 DEF CaptureInv
<1>2. ASSUME NEW c \in Capture, Trigger(c) PROVE CaptureInv'
  <2>1. arrived' = arrived
      BY <1>2, TriggerFacts
  <2>02. PICK time \in Nat :
            \E k \in {[NoCapture EXCEPT !.at = "refused"],
                      Accepted(c, time, buffer, index', arrived)} :
                capture' = [capture EXCEPT ![c] = k]
      BY <1>2, TriggerFacts
  <2>2. PICK k \in {[NoCapture EXCEPT !.at = "refused"],
                    Accepted(c, time, buffer, index', arrived)} :
            capture' = [capture EXCEPT ![c] = k]
      BY <2>02
  <2>3. PICK b, A, ix : b = buffer /\ A = arrived /\ ix = index'
      OBVIOUS
  <2>4. IndexOk(ix) /\ A \subseteq Frame /\ BufferOk(b, A)
      BY <1>01, <2>3 DEF SyncInv, SyncOk
  <2>5. k \in Captures /\ OpenOk(k, A)
    <3>1. CASE k = [NoCapture EXCEPT !.at = "refused"]
        BY <3>1, NoCaptureFacts DEF OpenOk
    <3>2. CASE k = Accepted(c, time, b, ix, A)
        BY <3>2, <2>4, AcceptedFacts DEF AcceptEffect
    <3> QED BY <2>2, <2>3, <3>1, <3>2
  <2>6. PICK cap \in [Capture -> Captures] : cap = capture
      BY <1>0
  <2>7. capture' = [cap EXCEPT ![c] = k]
      BY <2>2, <2>6
  <2>8. \A d \in Capture : OpenOk(cap[d], A)
      BY <1>0, <2>3, <2>6
  <2>9. /\ [cap EXCEPT ![c] = k] \in [Capture -> Captures]
        /\ \A d \in Capture : OpenOk([cap EXCEPT ![c] = k][d], A)
      BY <2>5, <2>8
  <2> QED BY <2>1, <2>3, <2>7, <2>9 DEF CaptureInv
<1>3. ASSUME Harvest PROVE CaptureInv'
  <2>1. arrived' = arrived
      BY <1>3, HarvestFacts
  <2>2. PICK due \in SUBSET {c \in Capture : capture[c].at = "open"} :
            capture' = [c \in Capture |->
                IF c \in due THEN Ended(capture[c], EndTime(c), buffer, index')
                ELSE capture[c]]
      BY <1>3, HarvestFacts
  <2>3. PICK b, A, ix : b = buffer /\ A = arrived /\ ix = index'
      OBVIOUS
  <2>4. IndexOk(ix) /\ A \subseteq Frame /\ BufferOk(b, A)
      BY <1>01, <2>3 DEF SyncInv, SyncOk
  <2>5. ASSUME NEW c \in Capture
        PROVE  /\ Ended(capture[c], EndTime(c), b, ix) \in Captures
               /\ Ended(capture[c], EndTime(c), b, ix).at = "done"
    <3>1. PICK k \in Captures : k = capture[c]
        BY <1>0
    <3>2. PICK end : end = EndTime(c)
        OBVIOUS
    <3>3. Ended(k, end, b, ix) \in Captures /\ Ended(k, end, b, ix).at = "done"
      <4>1. EndEffect(k, end, b, ix, Ended(k, end, b, ix))
          BY <2>4, EndedFacts
      <4> QED BY <4>1 DEF EndEffect
    <3> QED BY <3>1, <3>2, <3>3
  <2>6. \A c \in Capture : OpenOk(Ended(capture[c], EndTime(c), b, ix), A)
      BY <2>5 DEF OpenOk
  <2>7. PICK e : e = [c \in Capture |-> Ended(capture[c], EndTime(c), b, ix)]
      OBVIOUS
  <2>8. \A c \in Capture : e[c] \in Captures /\ OpenOk(e[c], A)
      BY <2>5, <2>6, <2>7
  <2>9. capture' = [c \in Capture |-> IF c \in due THEN e[c] ELSE capture[c]]
      BY <2>2, <2>3, <2>7
  <2>10. PICK cap \in [Capture -> Captures] : cap = capture
      BY <1>0
  <2>11. capture' = [c \in Capture |-> IF c \in due THEN e[c] ELSE cap[c]]
      BY <2>9, <2>10
  <2>12. \A c \in Capture : OpenOk(cap[c], A)
      BY <1>0, <2>3, <2>10
  <2>13. /\ [c \in Capture |-> IF c \in due THEN e[c] ELSE cap[c]] \in [Capture -> Captures]
         /\ \A d \in Capture : OpenOk([c \in Capture |-> IF c \in due THEN e[c] ELSE cap[c]][d], A)
      BY <2>8, <2>12
  <2> QED BY <2>1, <2>3, <2>11, <2>13 DEF CaptureInv
<1>4. ASSUME UNCHANGED vars PROVE CaptureInv'
    BY <1>4 DEF CaptureInv, vars
<1> QED BY <1>1, <1>2, <1>3, <1>4 DEF Next

SensorInv == BufferInv /\ SyncInv /\ CaptureInv

(* The invariant of the whole path.                                        *)
LEMMA SensorAlways == Spec => []SensorInv
<1>1. Init => SensorInv
    BY BufferInit, SyncInit, CaptureInit DEF SensorInv
<1>2. SensorInv /\ [Next]_vars => SensorInv'
    BY BufferStep, SyncStep, CaptureStep DEF SensorInv
<1> QED BY <1>1, <1>2, PTL DEF Spec

(* The type invariant: the queues of DataBuffer and of the synchronizer    *)
(* hold received frames in stamp order, and the index well-formed records. *)
THEOREM SensorTyped == Spec => []TypeOK
<1>1. ASSUME SensorInv PROVE TypeOK
  <2>1. BufferInv /\ SyncInv /\ CaptureInv
      BY <1>1 DEF SensorInv
  <2>2. /\ mode \in {"off", "on", "strict"}
        /\ arrived \subseteq Frame /\ late \subseteq arrived
      BY <2>1 DEF SyncInv
  <2>3. ASSUME NEW s \in Sensor, NEW q, NEW A, A \subseteq arrived, QueueOk(q, s, A)
        PROVE  /\ ToSet(q) \subseteq {f \in arrived : f.sensor = s}
               /\ \A i, j \in DOMAIN q : i < j => q[i].stamp <= q[j].stamp
      BY <2>3 DEF QueueOk, Ordered
  <2>4. \A s \in Sensor : QueueOk(buffer.queue[s], s, arrived)
      BY <2>1 DEF BufferInv, BufferOk
  <2>5. Given \subseteq arrived /\ \A s \in Sensor : QueueOk(waiting[s], s, Given)
      BY <2>1 DEF SyncInv, SyncOk, WaitingOk, Given
  <2>6. \A s \in Sensor : \A q \in {buffer.queue[s], waiting[s]} :
           /\ ToSet(q) \subseteq {f \in arrived : f.sensor = s}
           /\ \A i, j \in DOMAIN q : i < j => q[i].stamp <= q[j].stamp
      BY <2>3, <2>4, <2>5
  <2>7. buffer.latest \in Nat \union {None}
      BY <2>1 DEF BufferInv, BufferOk
  <2>8. index.nextId \in Nat /\ index.records \in Seq(Row)
      BY <2>1 DEF SyncInv, SyncOk, IndexOk
  <2>9. ToSet(index.records) \subseteq PairRecords
      BY <2>8 DEF ToSet, Row
  <2>10. \A c \in Capture : capture[c].at \in {"none", "refused", "open", "done"}
      BY <2>1 DEF CaptureInv, Captures
  <2> QED BY <2>2, <2>6, <2>7, <2>8, <2>9, <2>10 DEF TypeOK
<1> QED BY <1>1, SensorAlways, PTL

(* A capture that ends in a step was open, and the step is a harvest of it *)
(* that leaves it with its second batch.                                   *)
LEMMA TakesPostFacts ==
    ASSUME SensorInv, SensorInv', [Next]_vars, NEW c \in Capture, TakesPost(c)
    PROVE  /\ UNCHANGED <<mode, buffer, arrived>> /\ waiting' = NoneWaiting
           /\ capture[c] \in Captures /\ OpenOk(capture[c], arrived)
           /\ EndEffect(capture[c], capture[c].time + PostOf[c], buffer, index', capture'[c])
<1>0. /\ BufferInv /\ SyncInv' /\ CaptureInv
    BY DEF SensorInv
<1>1. capture[c].at = "open" /\ capture'[c].at = "done"
    BY DEF TakesPost
<1>2. capture' # capture
    BY <1>1
<1>3. ASSUME NEW d \in Capture, Trigger(d) PROVE FALSE
  <2>1. capture[d].at = "none" /\ \E k : capture' = [capture EXCEPT ![d] = k]
      BY <1>0, <1>3, TriggerFacts
  <2>2. d # c
      BY <1>1, <2>1
  <2>3. PICK k : capture' = [capture EXCEPT ![d] = k]
      BY <2>1
  <2>4. capture \in [Capture -> Captures]
      BY <1>0 DEF CaptureInv
  <2>5. capture'[c] = capture[c]
      BY <2>2, <2>3, <2>4
  <2> QED BY <1>1, <2>5
<1>4. ASSUME NEW f \in Frame, HandleFrame(f) PROVE FALSE
    BY <1>2, <1>4 DEF HandleFrame
<1>5. Harvest
    BY <1>2, <1>3, <1>4 DEF Next, vars
<1>6. FlushPendingPairs /\ UNCHANGED <<mode, buffer, arrived, late>>
    BY <1>5, HarvestFacts
<1>7. PICK due \in SUBSET {d \in Capture : capture[d].at = "open"} :
          capture' = [d \in Capture |->
              IF d \in due THEN Ended(capture[d], EndTime(d), buffer, index')
              ELSE capture[d]]
    BY <1>5, HarvestFacts
<1>8. c \in due
  <2> SUFFICES ASSUME c \notin due PROVE FALSE
      OBVIOUS
  <2>1. capture'[c] = capture[c]
      BY <1>7
  <2> QED BY <1>1, <2>1
<1>9. capture'[c] = Ended(capture[c], EndTime(c), buffer, index')
    BY <1>7, <1>8
<1>10. capture[c] \in Captures /\ OpenOk(capture[c], arrived)
    BY <1>0 DEF CaptureInv
<1>11. PICK k, b, A, ix, end :
           /\ k \in Captures
           /\ k = capture[c] /\ b = buffer /\ A = arrived /\ ix = index' /\ end = EndTime(c)
    BY <1>10
<1>12. IndexOk(ix) /\ A \subseteq Frame /\ BufferOk(b, A)
    BY <1>0, <1>11 DEF BufferInv, SyncInv, SyncOk
<1>13. EndEffect(k, end, b, ix, Ended(k, end, b, ix))
  <2>1. k \in Captures
      BY <1>11
  <2> QED BY <2>1, <1>12, EndedFacts
<1>14. EndTime(c) = capture[c].time + PostOf[c]
    BY DEF EndTime
<1> QED BY <1>6, <1>9, <1>10, <1>11, <1>13, <1>14 DEF FlushPendingPairs

(* BatchesExact, for every number of captures, every window and every      *)
(* order of callbacks: recordDataAroundEventDetailed and                   *)
(* processExpiredCaptures store no frame twice, and miss none that the     *)
(* limits of the buffer allow, but those that come late for the event.     *)
THEOREM BatchesAreExact == Spec => BatchesExact
<1> DEFINE Exact ==
        \A c \in Capture : TakesPost(c) =>
          LET time == capture[c].time
              all  == capture'[c].pre \o capture'[c].post
          IN  /\ IsInjective(all)
              /\ \A f \in arrived :
                     InWindow(f.stamp, time - Pre, time + PostOf[c]) =>
                        \/ f \in ToSet(all)
                        \/ BeyondLimits(f)
                        \/ f.stamp <= time /\ f \notin capture[c].seen
<1>1. ASSUME SensorInv, SensorInv', [Next]_vars PROVE Exact
  <2> SUFFICES ASSUME NEW c \in Capture, TakesPost(c)
               PROVE  LET time == capture[c].time
                          all  == capture'[c].pre \o capture'[c].post
                      IN  /\ IsInjective(all)
                          /\ \A f \in arrived :
                                 InWindow(f.stamp, time - Pre, time + PostOf[c]) =>
                                    \/ f \in ToSet(all)
                                    \/ BeyondLimits(f)
                                    \/ f.stamp <= time /\ f \notin capture[c].seen
      OBVIOUS
  <2>1. /\ UNCHANGED <<mode, buffer, arrived>>
        /\ capture[c] \in Captures /\ OpenOk(capture[c], arrived)
        /\ EndEffect(capture[c], capture[c].time + PostOf[c], buffer, index', capture'[c])
      BY <1>1, TakesPostFacts
  <2>2. PICK k, d, b, A, ix :
            /\ k \in Captures
            /\ k = capture[c] /\ d = capture'[c] /\ b = buffer /\ A = arrived /\ ix = index'
      BY <2>1
  <2>3. OpenOk(k, A) /\ EndEffect(k, k.time + PostOf[c], b, ix, d) /\ k.at = "open"
      BY <2>1, <2>2 DEF TakesPost
  <2>4. /\ k.time \in Nat /\ IsInjective(k.pre)
        /\ \A f \in ToSet(k.pre) : f.stamp <= k.time
        /\ \A f \in k.seen : k.time - Pre <= f.stamp /\ f.stamp <= k.time =>
               f \in ToSet(k.pre) \/ Beyond(A, f)
      BY <2>3 DEF OpenOk
  <2>5. PICK time \in Nat : time = k.time
      BY <2>4
  <2>6. /\ d \in Captures /\ d.pre = k.pre /\ IsInjective(d.post)
        /\ ToSet(d.post) = {f \in Buffered(b) : time <= f.stamp /\ f.stamp <= time + PostOf[c]
                                                /\ f.stamp # time}
      BY <2>3, <2>5 DEF EndEffect
  <2>7. A \subseteq Frame /\ BufferOk(b, A)
      BY <1>1, <2>2 DEF SensorInv, BufferInv
  <2>8. \A f \in Buffered(b) : f \in Frame /\ f.stamp \in Nat
    <3>1. QueueOk(b.queue["camera"], "camera", A) /\ QueueOk(b.queue["lidar"], "lidar", A)
        BY <2>7 DEF BufferOk, Sensor
    <3> QED BY <3>1, <2>7, BufferAssumption DEF QueueOk, Buffered
  <2>9. d.pre \in Seq(Frame) /\ d.post \in Seq(Frame)
      BY <2>6 DEF Captures
  <2>10. \A f \in ToSet(d.pre) : f \notin ToSet(d.post)
    <3> SUFFICES ASSUME NEW f \in ToSet(d.pre), f \in ToSet(d.post) PROVE FALSE
        OBVIOUS
    <3>1. f.stamp <= time
        BY <2>4, <2>5, <2>6
    <3>2. time <= f.stamp /\ f.stamp # time /\ f.stamp \in Nat
        BY <2>6, <2>8
    <3> QED BY <3>1, <3>2
  <2>11. IsInjective(d.pre \o d.post)
      BY <2>4, <2>6, <2>9, <2>10, ConcatInjective
  <2>12. ToSet(d.pre \o d.post) = ToSet(d.pre) \union ToSet(d.post)
      BY <2>9, ConcatSet
  <2>13. ASSUME NEW f \in A, time - Pre <= f.stamp, f.stamp <= time + PostOf[c]
         PROVE  \/ f \in ToSet(d.pre \o d.post)
                \/ Beyond(A, f)
                \/ f.stamp <= time /\ f \notin k.seen
    <3>1. f.stamp \in Nat /\ f.sensor \in Sensor
        BY <2>7, BufferAssumption
    <3>2. CASE f.stamp <= time
        BY <3>2, <2>4, <2>5, <2>6, <2>12, <2>13
    <3>3. CASE ~(f.stamp <= time)
      <4>1. time <= f.stamp /\ f.stamp # time
          BY <3>1, <3>3
      <4>2. f \in ToSet(b.queue[f.sensor]) \/ Beyond(A, f)
          BY <2>7 DEF BufferOk
      <4>3. ToSet(b.queue[f.sensor]) \subseteq Buffered(b)
          BY <3>1 DEF Sensor, Buffered
      <4>4. f \in Buffered(b) => f \in ToSet(d.post)
          BY <4>1, <2>6, <2>13
      <4> QED BY <4>2, <4>3, <4>4, <2>12
    <3> QED BY <3>2, <3>3
  <2>14. \A f : BeyondLimits(f) = Beyond(arrived, f)
      BY BeyondIs
  <2> QED BY <2>2, <2>5, <2>11, <2>13, <2>14 DEF InWindow
<1>2. ASSUME UNCHANGED vars PROVE Exact
    BY <1>2 DEF vars, TakesPost
<1> QED BY <1>1, SensorAlways, PTL DEF Spec, BatchesExact

(* The rows taken of an index for a window.                                *)
TakenFor(rows, ix, from, to) ==
    \A r \in ToSet(ix.records) : from <= PairTime(r) /\ PairTime(r) <= to => r \in ToSet(rows)

(* The frame has its row, but for the exceptions of PairsCoverBatch.       *)
HasRow(rows, f, ix, from, to) ==
    \/ RowsOf(rows, f) # {}
    \/ Lost(ix) > 0
    \/ /\ f.sensor = "lidar"
       /\ \E r \in ToSet(ix.records) :
              /\ r.lidar = f.stamp /\ r.camera # None /\ ~InWindow(r.camera, from, to)

(* After a flush every frame has its record, unless the index has          *)
(* forgotten some; the rows of a window have it too, unless they are       *)
(* looked up by the stamp of a camera frame outside the window.            *)
LEMMA RowForFacts ==
    ASSUME NEW A, NEW ix, IndexOk(ix), Lost(ix) = 0 => Accounted(ToSet(ix.records), NoneWaiting, A),
           NEW f \in A, f \in Frame, NEW from, NEW to, from <= f.stamp, f.stamp <= to,
           NEW rows, TakenFor(rows, ix, from, to)
    PROVE  HasRow(rows, f, ix, from, to)
<1>1. CASE Lost(ix) # 0
  <2>1. PICK k \in Nat, n \in Nat : k = Len(ix.records) /\ n = ix.nextId /\ k + 1 <= n
      BY DEF IndexOk
  <2>2. Lost(ix) = n - 1 - k /\ n - 1 - k # 0
      BY <2>1, <1>1 DEF Lost
  <2>3. n - 1 - k > 0
      BY <2>1, <2>2
  <2> QED BY <2>2, <2>3 DEF HasRow
<1>2. CASE Lost(ix) = 0
  <2>1. f.sensor \in Sensor /\ f.stamp \in Nat /\ f.stamp # None
      BY BufferAssumption DEF None
  <2>2. ~ \E x \in ToSet(NoneWaiting[f.sensor]) : x.stamp = f.stamp
      BY <2>1 DEF NoneWaiting, ToSet
  <2>3. PICK r \in ToSet(ix.records) : StampOf(r, f.sensor) = f.stamp
      BY <1>2, <2>2 DEF Accounted
  <2>4. CASE from <= PairTime(r) /\ PairTime(r) <= to
    <3>1. r \in ToSet(rows)
        BY <2>4 DEF TakenFor
    <3>2. PICK i \in DOMAIN rows : r = rows[i]
        BY <3>1 DEF ToSet
    <3> QED BY <2>3, <3>2 DEF RowsOf, HasRow
  <2>5. CASE ~(from <= PairTime(r) /\ PairTime(r) <= to)
    <3>1. PairTime(r) # f.stamp
        BY <2>5
    <3>2. f.sensor = "lidar"
      <4>1. f.sensor = "camera" => PairTime(r) = f.stamp
          BY <2>1, <2>3 DEF StampOf, PairTime
      <4> QED BY <2>1, <3>1, <4>1 DEF Sensor
    <3>3. r.lidar = f.stamp
        BY <2>3, <3>2 DEF StampOf
    <3>4. r.camera # None
        BY <3>1, <3>3 DEF PairTime
    <3>5. PairTime(r) = r.camera
        BY <3>4 DEF PairTime
    <3> QED BY <2>5, <3>2, <3>3, <3>4, <3>5 DEF InWindow, HasRow
  <2> QED BY <2>4, <2>5
<1> QED BY <1>1, <1>2

(* A capture that begins in a step is accepted by the trigger of that      *)
(* step.                                                                   *)
LEMMA TakesPreFacts ==
    ASSUME SensorInv, SensorInv', [Next]_vars, NEW c \in Capture, TakesPre(c)
    PROVE  /\ UNCHANGED <<mode, buffer, arrived>> /\ waiting' = NoneWaiting
           /\ \E time \in Nat : capture'[c] = Accepted(c, time, buffer, index', arrived)
<1>0. BufferInv /\ SyncInv' /\ CaptureInv
    BY DEF SensorInv
<1>1. capture[c].at = "none" /\ capture'[c].at \in {"open", "done"}
    BY DEF TakesPre
<1>2. capture \in [Capture -> Captures]
    BY <1>0 DEF CaptureInv
<1>3. ASSUME NEW f \in Frame, HandleFrame(f) PROVE FALSE
    BY <1>1, <1>3 DEF HandleFrame
<1>4. ASSUME Harvest PROVE FALSE
  <2>1. PICK due \in SUBSET {d \in Capture : capture[d].at = "open"} :
            capture' = [d \in Capture |->
                IF d \in due THEN Ended(capture[d], EndTime(d), buffer, index')
                ELSE capture[d]]
      BY <1>4, HarvestFacts
  <2>2. c \notin due
      BY <1>1
  <2>3. capture'[c] = capture[c]
      BY <2>1, <2>2
  <2> QED BY <1>1, <2>3
<1>5. PICK d \in Capture : Trigger(d)
    BY <1>1, <1>3, <1>4 DEF Next, vars
<1>6. FlushPendingPairs /\ UNCHANGED <<mode, buffer, arrived, late>>
    BY <1>0, <1>5, TriggerFacts
<1>7. PICK time \in Nat :
          \E k \in {[NoCapture EXCEPT !.at = "refused"],
                    Accepted(d, time, buffer, index', arrived)} :
              capture' = [capture EXCEPT ![d] = k]
    BY <1>0, <1>5, TriggerFacts
<1>8. PICK k \in {[NoCapture EXCEPT !.at = "refused"],
                  Accepted(d, time, buffer, index', arrived)} :
          capture' = [capture EXCEPT ![d] = k]
    BY <1>7
<1>9. d = c
  <2> SUFFICES ASSUME d # c PROVE FALSE
      OBVIOUS
  <2>1. capture'[c] = capture[c]
      BY <1>2, <1>8
  <2> QED BY <1>1, <2>1
<1>10. capture'[c] = k
    BY <1>2, <1>8, <1>9
<1>11. k # [NoCapture EXCEPT !.at = "refused"]
    BY <1>1, <1>10, NoCaptureFacts
<1> QED BY <1>6, <1>8, <1>9, <1>10, <1>11 DEF FlushPendingPairs

(* PairsCoverBatch, for every window and every order of callbacks: the     *)
(* flush of flushPendingPairs_ before each batch leaves no stored frame    *)
(* without its row, but for the two exceptions the property names.         *)
THEOREM RowsCoverBatches == Spec => PairsCoverBatch
<1> DEFINE Cover ==
        mode # "off" => \A c \in Capture :
          LET after == capture'[c] IN
          /\ TakesPre(c) => \A f \in ToSet(after.pre) :
                 RowFor(f, after.preRows, after.time - Pre, after.time)
          /\ TakesPost(c) => \A f \in ToSet(after.post) :
                 RowFor(f, after.postRows, after.time + 1, after.time + PostOf[c])
<1>1. ASSUME SensorInv, SensorInv', [Next]_vars, mode # "off", mode' = mode,
             arrived' = arrived, waiting' = NoneWaiting
      PROVE  /\ IndexOk(index')
             /\ Lost(index') = 0 => Accounted(ToSet(index'.records), NoneWaiting, arrived)
             /\ Expelled' = Lost(index')
             /\ BufferOk(buffer, arrived) /\ arrived \subseteq Frame
             /\ \A f \in Buffered(buffer) : f \in arrived /\ f \in Frame /\ f.stamp \in Nat
  <2>1. SyncOk(waiting', index', Given', late') /\ Given' = arrived
      BY <1>1 DEF SensorInv, SyncInv, Given
  <2>2. BufferOk(buffer, arrived) /\ arrived \subseteq Frame
      BY <1>1 DEF SensorInv, BufferInv
  <2>3. /\ QueueOk(buffer.queue["camera"], "camera", arrived)
        /\ QueueOk(buffer.queue["lidar"], "lidar", arrived)
      BY <2>2 DEF BufferOk, Sensor
  <2>4. \A f \in Buffered(buffer) : f \in arrived /\ f \in Frame /\ f.stamp \in Nat
      BY <2>2, <2>3, BufferAssumption DEF QueueOk, Buffered
  <2>5. Expelled' = Lost(index')
      BY DEF Expelled, Lost
  <2>6. /\ IndexOk(index')
        /\ Lost(index') = 0 => Accounted(ToSet(index'.records), NoneWaiting, arrived)
      BY <1>1, <2>1 DEF SyncOk
  <2> QED BY <2>2, <2>4, <2>5, <2>6
<1>2. ASSUME SensorInv, SensorInv', [Next]_vars, mode # "off", NEW c \in Capture, TakesPre(c),
             NEW f \in ToSet(capture'[c].pre)
      PROVE  RowFor(f, capture'[c].preRows, capture'[c].time - Pre, capture'[c].time)
  <2>1. /\ UNCHANGED <<mode, buffer, arrived>> /\ waiting' = NoneWaiting
        /\ \E time \in Nat : capture'[c] = Accepted(c, time, buffer, index', arrived)
      BY <1>2, TakesPreFacts
  <2>2. PICK time \in Nat : capture'[c] = Accepted(c, time, buffer, index', arrived)
      BY <2>1
  <2>3. PICK b, A, ix, k : b = buffer /\ A = arrived /\ ix = index' /\ k = capture'[c]
      OBVIOUS
  <2>4. /\ IndexOk(ix) /\ (Lost(ix) = 0 => Accounted(ToSet(ix.records), NoneWaiting, A))
        /\ Expelled' = Lost(ix) /\ BufferOk(b, A) /\ A \subseteq Frame
        /\ \A g \in Buffered(b) : g \in A /\ g \in Frame /\ g.stamp \in Nat
      BY <1>1, <1>2, <2>1, <2>3
  <2>5. k = Accepted(c, time, b, ix, A)
      BY <2>2, <2>3
  <2>6. /\ k.time = time
        /\ ToSet(k.pre) = {g \in Buffered(b) : time - Pre <= g.stamp /\ g.stamp <= time}
        /\ ToSet(k.preRows) =
               {r \in ToSet(ix.records) : time - Pre <= PairTime(r) /\ PairTime(r) <= time}
    <3>1. AcceptEffect(time, b, ix, A, Accepted(c, time, b, ix, A))
        BY <2>4, AcceptedFacts
    <3> QED BY <3>1, <2>5 DEF AcceptEffect
  <2>7. f \in A /\ f \in Frame /\ time - Pre <= f.stamp /\ f.stamp <= time
      BY <1>2, <2>3, <2>4, <2>6
  <2>8. \A r \in ToSet(ix.records) :
            time - Pre <= PairTime(r) /\ PairTime(r) <= time => r \in ToSet(k.preRows)
      BY <2>6
  <2> DEFINE from == time - Pre
             rows == k.preRows
  <2> HIDE DEF from, rows
  <2>9. HasRow(rows, f, ix, from, time)
    <3>1. from <= f.stamp /\ f.stamp <= time
        BY <2>7 DEF from
    <3>2. TakenFor(rows, ix, from, time)
        BY <2>8 DEF from, rows, TakenFor
    <3>3. f \in A /\ f \in Frame
        BY <2>7
    <3>4. IndexOk(ix) /\ (Lost(ix) = 0 => Accounted(ToSet(ix.records), NoneWaiting, A))
        BY <2>4
    <3> QED BY <3>1, <3>2, <3>3, <3>4, RowForFacts
  <2> QED BY <2>3, <2>4, <2>6, <2>9 DEF RowFor, HasRow, from, rows
<1>3. ASSUME SensorInv, SensorInv', [Next]_vars, mode # "off", NEW c \in Capture, TakesPost(c),
             NEW f \in ToSet(capture'[c].post)
      PROVE  RowFor(f, capture'[c].postRows, capture'[c].time + 1, capture'[c].time + PostOf[c])
  <2>1. /\ UNCHANGED <<mode, buffer, arrived>> /\ waiting' = NoneWaiting
        /\ OpenOk(capture[c], arrived)
        /\ EndEffect(capture[c], capture[c].time + PostOf[c], buffer, index', capture'[c])
      BY <1>3, TakesPostFacts
  <2>2. PICK b, A, ix, k, d : /\ b = buffer /\ A = arrived /\ ix = index'
                              /\ k = capture[c] /\ d = capture'[c]
      OBVIOUS
  <2>3. /\ IndexOk(ix) /\ (Lost(ix) = 0 => Accounted(ToSet(ix.records), NoneWaiting, A))
        /\ Expelled' = Lost(ix) /\ BufferOk(b, A) /\ A \subseteq Frame
        /\ \A g \in Buffered(b) : g \in A /\ g \in Frame /\ g.stamp \in Nat
      BY <1>1, <1>3, <2>1, <2>2
  <2>4. PICK time \in Nat : time = k.time
      BY <1>3, <2>1, <2>2 DEF TakesPost, OpenOk
  <2>5. EndEffect(k, time + PostOf[c], b, ix, d)
      BY <2>1, <2>2, <2>4
  <2> DEFINE to == time + PostOf[c]
             from == time + 1
             rows == d.postRows
  <2>6. PostOf[c] \in Nat
      BY SensorPathAssumption
  <2>7. to \in Nat /\ from \in Nat
      BY <2>6
  <2>8. /\ d.time = time
        /\ ToSet(d.post) = {g \in Buffered(b) : time <= g.stamp /\ g.stamp <= to /\ g.stamp # time}
        /\ ToSet(rows) = {r \in ToSet(ix.records) :
                              time <= PairTime(r) /\ PairTime(r) <= to /\ PairTime(r) # time}
      BY <2>4, <2>5 DEF EndEffect
  <2>9. f \in A /\ f \in Frame /\ from <= f.stamp /\ f.stamp <= to
    <3>1. /\ f \in A /\ f \in Frame /\ f.stamp \in Nat
          /\ time <= f.stamp /\ f.stamp <= to /\ f.stamp # time
        BY <1>3, <2>2, <2>3, <2>8
    <3>2. \A n \in Nat : time <= n /\ n # time => time + 1 <= n
        OBVIOUS
    <3> QED BY <3>1, <3>2
  <2>10. TakenFor(rows, ix, from, to)
    <3> SUFFICES ASSUME NEW r \in ToSet(ix.records), from <= PairTime(r), PairTime(r) <= to
                 PROVE  r \in ToSet(rows)
        BY DEF TakenFor
    <3>1. PairTime(r) \in Nat
      <4>1. r \in Row /\ None \notin Nat
          BY <2>3 DEF None, IndexOk, ToSet
      <4> QED BY <4>1 DEF Row, PairRecords, PairTime
    <3>2. \A n \in Nat : time + 1 <= n => time <= n /\ n # time
        OBVIOUS
    <3>3. time <= PairTime(r) /\ PairTime(r) # time
        BY <3>1, <3>2
    <3> QED BY <3>3, <2>8
  <2> HIDE DEF from, to, rows
  <2>11. HasRow(rows, f, ix, from, to)
      BY <2>3, <2>9, <2>10, RowForFacts
  <2> QED BY <2>2, <2>3, <2>8, <2>11 DEF RowFor, HasRow, from, to, rows
<1>4. ASSUME SensorInv, SensorInv', [Next]_vars PROVE Cover
    BY <1>2, <1>3, <1>4
<1> QED BY <1>4, SensorAlways, PTL DEF Spec, PairsCoverBatch
=============================================================================
