---------------------------- MODULE TablesProofs ----------------------------
(* Lemmas about the operations of Tables, for any keys and any files.      *)
EXTENDS Tables, FiniteSetTheorems, WellFoundedInduction, TLAPS

-----------------------------------------------------------------------------
(* The smallest and the largest of the keys of a table.                    *)

\* A nonempty set of naturals has a least element.
LEMMA LeastNatural ==
    ASSUME NEW S \in SUBSET Nat, S # {}
    PROVE  \E n \in S : \A m \in S : n <= m
<1> DEFINE R == OpToRel(<, Nat)
<1>1. IsWellFoundedOn(R, Nat)
  BY NatLessThanWellFounded
<1>2. \A x, y \in Nat : x < y => <<x, y>> \in R
  BY DEF OpToRel
<1> HIDE DEF R
<1>3. PICK n \in S : \A y \in S : ~ (<<y, n>> \in R)
  BY <1>1, WFMin
<1>4. S \subseteq Nat /\ n \in Nat
  OBVIOUS
<1>5. \A m \in S : ~(m < n)
  BY <1>2, <1>3, <1>4
<1> QED BY <1>4, <1>5

\* A nonempty bounded set of naturals has a largest element.
LEMMA LargestNatural ==
    ASSUME NEW S \in SUBSET Nat, S # {}, NEW b \in Nat, \A n \in S : n <= b
    PROVE  \E n \in S : \A m \in S : m <= n
<1> DEFINE B == {c \in Nat : \A n \in S : n <= c}
<1>1. PICK c \in B : \A d \in B : c <= d
  <2>1. B \subseteq Nat /\ b \in B
    OBVIOUS
  <2> QED BY <2>1, LeastNatural
<1>2. c \in Nat /\ \A n \in S : n <= c
  OBVIOUS
<1>3. c \in S
  <2> SUFFICES ASSUME c \notin S PROVE FALSE
    OBVIOUS
  <2>1. \A n \in S : n \in Nat /\ n <= c - 1
    BY <1>2
  <2>2. c - 1 \in Nat
    <3>1. PICK n \in S : TRUE
      OBVIOUS
    <3>2. n \in Nat /\ n <= c - 1
      BY <2>1, <3>1
    <3> QED BY <1>2, <3>2
  <2>3. c - 1 \in B
    BY <2>1, <2>2
  <2> QED BY <1>1, <1>2, <2>3
<1> QED BY <1>2, <1>3

\* A finite set of naturals is bounded.
LEMMA FiniteBounded ==
    ASSUME NEW S \in SUBSET Nat, IsFiniteSet(S)
    PROVE  \E b \in Nat : \A n \in S : n <= b
<1> DEFINE Bound(T) == \E b \in Nat : \A n \in T : n <= b
           Sizes == {Cardinality(T) : T \in {U \in SUBSET S : ~Bound(U)}}
<1> SUFFICES ASSUME ~Bound(S) PROVE FALSE
  OBVIOUS
<1>1. \A T \in SUBSET S : IsFiniteSet(T) /\ Cardinality(T) \in Nat
  BY FS_Subset, FS_CardinalityType
<1>2. Sizes \subseteq Nat /\ Sizes # {}
  BY <1>1
<1>3. PICK n \in Sizes : \A m \in Sizes : n <= m
  BY <1>2, LeastNatural
<1>4. PICK T \in SUBSET S : ~Bound(T) /\ n = Cardinality(T)
  OBVIOUS
<1>5. T # {}
  BY <1>4
<1>6. PICK x \in T : TRUE
  BY <1>5
<1>7. /\ T \ {x} \in SUBSET S
      /\ Cardinality(T \ {x}) = Cardinality(T) - 1
  BY <1>1, <1>6, FS_RemoveElement
<1>8. Bound(T \ {x})
  <2> SUFFICES ASSUME ~Bound(T \ {x}) PROVE FALSE
    OBVIOUS
  <2>1. Cardinality(T \ {x}) \in Sizes
    BY <1>7
  <2>2. n <= Cardinality(T \ {x})
    BY <1>3, <2>1
  <2>3. Cardinality(T) \in Nat
    BY <1>1
  <2> QED BY <2>2, <2>3, <1>4, <1>7
<1>9. PICK b \in Nat : \A m \in T \ {x} : m <= b
  BY <1>8
<1>10. x \in Nat
  BY <1>6
<1>11. \E d \in Nat : x <= d /\ b <= d
  <2>1. CASE x <= b
    BY <1>9, <2>1
  <2>2. CASE b <= x
    BY <1>10, <2>2
  <2> QED BY <1>9, <1>10, <2>1, <2>2
<1>12. PICK d \in Nat : x <= d /\ b <= d
  BY <1>11
<1>13. \A m \in T : m \in Nat /\ m <= d
  BY <1>9, <1>10, <1>12
<1> QED BY <1>4, <1>13

\* What MetaOf takes for the bounds of a file's keys.
LEMMA MinNat ==
    ASSUME NEW S \in SUBSET Nat, S # {}
    PROVE  Min(S) \in S /\ \A m \in S : Min(S) <= m
BY LeastNatural DEF Min

\* The largest key of a table, when there is a bound on them.
LEMMA MaxNat ==
    ASSUME NEW S \in SUBSET Nat, S # {}, NEW b \in Nat, \A n \in S : n <= b
    PROVE  Max(S) \in S /\ \A m \in S : m <= Max(S)
<1>1. \E n \in S : \A m \in S : n >= m
  <2>1. PICK n \in S : \A m \in S : m <= n
    BY LargestNatural
  <2> QED BY <2>1
<1>2. Max(S) \in S /\ \A m \in S : Max(S) >= m
  BY <1>1 DEF Max
<1> QED BY <1>2

\* The largest key of a table, of which there are finitely many.
LEMMA MaxFinite ==
    ASSUME NEW S \in SUBSET Nat, S # {}, IsFiniteSet(S)
    PROVE  Max(S) \in S /\ \A m \in S : m <= Max(S)
<1>1. PICK b \in Nat : \A n \in S : n <= b
  BY FiniteBounded
<1> QED BY <1>1, MaxNat

-----------------------------------------------------------------------------
(* remove_if and sort on the files of a level.                             *)

\* One step of remove_if.
Step(metas, ids, s, i) ==
    IF metas[i].id \in ids THEN s ELSE Append(s, metas[i])

\* The first n steps of remove_if.
Steps(metas, ids, n, g) ==
    \A i \in 0..n : g[i] = IF i = 0 THEN <<>> ELSE Step(metas, ids, g[i - 1], i)

\* removeSSTablesByIds goes through a level file by file to its end.
LEMMA StepsExist ==
    ASSUME NEW S, NEW metas \in Seq(S), NEW ids
    PROVE  \E g \in [0..Len(metas) -> Seq(S)] : Steps(metas, ids, Len(metas), g)
<1> DEFINE Can(n) == \E g \in [0..n -> Seq(S)] : Steps(metas, ids, n, g)
           Cannot == {n \in 0..Len(metas) : ~Can(n)}
<1>1. Len(metas) \in Nat /\ \A i \in 1..Len(metas) : metas[i] \in S
  OBVIOUS
<1>2. SUFFICES ASSUME Cannot # {} PROVE FALSE
  BY <1>1
<1>3. Cannot \in SUBSET Nat
  BY <1>1
<1>4. PICK n \in Cannot : \A m \in Cannot : n <= m
  BY <1>2, <1>3, LeastNatural
<1>5. n \in 0..Len(metas) /\ ~Can(n)
  OBVIOUS
<1>6. Can(0)
  <2> DEFINE g == [i \in 0..0 |-> <<>>]
  <2>1. g \in [0..0 -> Seq(S)]
    OBVIOUS
  <2>2. Steps(metas, ids, 0, g)
    BY DEF Steps
  <2> QED BY <2>1, <2>2
<1>7. n # 0
  BY <1>5, <1>6
<1>8. n - 1 \in 0..Len(metas) /\ n \in Nat /\ n \in 1..Len(metas)
  BY <1>1, <1>5, <1>7
<1>9. Can(n - 1)
  <2> SUFFICES ASSUME ~Can(n - 1) PROVE FALSE
    OBVIOUS
  <2>1. n - 1 \in Cannot
    BY <1>8
  <2>2. n <= n - 1
    BY <2>1, <1>4
  <2> QED BY <2>2, <1>8
<1>10. PICK g \in [0..(n - 1) -> Seq(S)] : Steps(metas, ids, n - 1, g)
  BY <1>9
<1> DEFINE h == [i \in 0..n |-> IF i < n THEN g[i]
                                ELSE Step(metas, ids, g[n - 1], n)]
<1>11. g[n - 1] \in Seq(S) /\ Step(metas, ids, g[n - 1], n) \in Seq(S)
  <2>1. g[n - 1] \in Seq(S) /\ metas[n] \in S
    BY <1>1, <1>8, <1>10
  <2> QED BY <2>1 DEF Step
<1>12. h \in [0..n -> Seq(S)]
  <2>1. \A i \in 0..n : i < n => i \in 0..(n - 1)
    BY <1>8
  <2> QED BY <2>1, <1>10, <1>11
<1>13. Steps(metas, ids, n, h)
  <2> SUFFICES ASSUME NEW i \in 0..n
               PROVE  h[i] = IF i = 0 THEN <<>>
                             ELSE Step(metas, ids, h[i - 1], i)
    BY DEF Steps
  <2>1. CASE i < n
    <3>1. i \in 0..(n - 1) /\ h[i] = g[i] /\ (i # 0 => h[i - 1] = g[i - 1])
      BY <2>1, <1>8
    <3>2. g[i] = IF i = 0 THEN <<>> ELSE Step(metas, ids, g[i - 1], i)
      BY <3>1, <1>10 DEF Steps
    <3> QED BY <3>1, <3>2
  <2>2. CASE i = n
    BY <2>2, <1>8
  <2> QED BY <2>1, <2>2, <1>8
<1> QED BY <1>5, <1>12, <1>13

\* What Without computes is the last of these steps.
LEMMA WithoutSteps ==
    ASSUME NEW S, NEW metas \in Seq(S), NEW ids
    PROVE  \E g : /\ DOMAIN g = 0..Len(metas)
                  /\ Steps(metas, ids, Len(metas), g)
                  /\ Without(metas, ids) = g[Len(metas)]
<1> DEFINE F(g) == [i \in 0..Len(metas) |->
                        IF i = 0 THEN <<>>
                        ELSE IF metas[i].id \in ids THEN g[i - 1]
                             ELSE Append(g[i - 1], metas[i])]
<1>1. PICK g \in [0..Len(metas) -> Seq(S)] : Steps(metas, ids, Len(metas), g)
  BY StepsExist
<1>2. g = F(g)
  BY <1>1 DEF Steps, Step
<1>3. (CHOOSE k : k = F(k)) = F(CHOOSE k : k = F(k))
  BY <1>2
<1>4. Without(metas, ids) = (CHOOSE k : k = F(k))[Len(metas)]
  BY DEF Without
<1> DEFINE k == CHOOSE k : k = F(k)
<1>5. k = F(k)
  BY <1>3
<1>6. DOMAIN k = 0..Len(metas)
  BY <1>5
<1>7. Steps(metas, ids, Len(metas), k)
  BY <1>5 DEF Steps, Step
<1> QED BY <1>4, <1>6, <1>7

\* r is what is left of the first n files: h says where each comes from.
Left(metas, ids, n, r, h) ==
    /\ h \in [DOMAIN r -> 1..n]
    /\ \A i, j \in DOMAIN r : i < j => h[i] < h[j]
    /\ \A i \in DOMAIN r : r[i] = metas[h[i]] /\ r[i].id \notin ids
    /\ \A j \in 1..n : metas[j].id \notin ids => \E i \in DOMAIN r : h[i] = j

\* One more file looked at, kept or removed.
LEMMA LeftStep ==
    ASSUME NEW S, NEW metas \in Seq(S), NEW ids, NEW n \in 1..Len(metas),
           NEW s \in Seq(S), NEW h, Left(metas, ids, n - 1, s, h)
    PROVE  \E k : Left(metas, ids, n, Step(metas, ids, s, n), k)
<1>1. n \in Nat /\ metas[n] \in S /\ DOMAIN s = 1..Len(s) /\ Len(s) \in Nat
  OBVIOUS
<1>2. CASE metas[n].id \in ids
  <2>1. Step(metas, ids, s, n) = s
    BY <1>2 DEF Step
  <2>2. h \in [DOMAIN s -> 1..n]
    BY <1>1 DEF Left
  <2>3. \A j \in 1..n : metas[j].id \notin ids => j \in 1..(n - 1)
    BY <1>1, <1>2
  <2>4. Left(metas, ids, n, s, h)
    BY <2>2, <2>3 DEF Left
  <2> QED BY <2>1, <2>4
<1>3. CASE metas[n].id \notin ids
  <2> DEFINE r == Append(s, metas[n])
             k == [i \in 1..(Len(s) + 1) |-> IF i = Len(s) + 1 THEN n ELSE h[i]]
  <2>1. Step(metas, ids, s, n) = r
    BY <1>3 DEF Step
  <2>2. /\ DOMAIN r = 1..(Len(s) + 1) /\ r[Len(s) + 1] = metas[n]
        /\ \A i \in 1..Len(s) : r[i] = s[i]
    BY <1>1
  <2>3. /\ k[Len(s) + 1] = n
        /\ \A i \in 1..Len(s) : k[i] = h[i] /\ h[i] \in 1..(n - 1)
    BY <1>1 DEF Left
  <2>4. \A i \in 1..(Len(s) + 1) : i = Len(s) + 1 \/ i \in 1..Len(s)
    BY <1>1
  <2>5. k \in [DOMAIN r -> 1..n]
    <3> HIDE DEF k
    <3>1. \A i \in 1..(Len(s) + 1) : k[i] \in 1..n
      <4>1. \A i \in 1..Len(s) : k[i] \in 1..n
        BY <1>1, <2>3
      <4> QED BY <1>1, <2>3, <2>4, <4>1
    <3> USE DEF k
    <3>2. DOMAIN k = 1..(Len(s) + 1) /\ k = [i \in DOMAIN k |-> k[i]]
      OBVIOUS
    <3> HIDE DEF k
    <3> QED BY <2>2, <3>1, <3>2
  <2> HIDE DEF k, r
  <2>6. \A i, j \in DOMAIN r : i < j => k[i] < k[j]
    <3> TAKE i, j \in DOMAIN r
    <3> HAVE i < j
    <3>1. i \in 1..Len(s) /\ k[i] = h[i] /\ h[i] \in 1..(n - 1)
      BY <1>1, <2>2, <2>3, <2>4
    <3>2. CASE j = Len(s) + 1
      BY <3>1, <3>2, <2>3, <1>1
    <3>3. CASE j \in 1..Len(s)
      BY <3>1, <3>3, <2>3, <1>1 DEF Left
    <3> QED BY <3>2, <3>3, <2>2, <2>4
  <2>7. \A i \in DOMAIN r : r[i] = metas[k[i]] /\ r[i].id \notin ids
    BY <1>1, <1>3, <2>2, <2>3, <2>4 DEF Left
  <2>8. \A j \in 1..n : metas[j].id \notin ids => \E i \in DOMAIN r : k[i] = j
    <3> TAKE j \in 1..n
    <3> HAVE metas[j].id \notin ids
    <3>1. CASE j = n
      BY <3>1, <2>2, <2>3, <1>1
    <3>2. CASE j # n
      <4>1. j \in 1..(n - 1)
        BY <3>2, <1>1
      <4>2. PICK i \in DOMAIN s : h[i] = j
        BY <4>1 DEF Left
      <4> QED BY <4>2, <1>1, <2>2, <2>3
    <3> QED BY <3>1, <3>2
  <2> QED BY <2>1, <2>5, <2>6, <2>7, <2>8 DEF Left
<1> QED BY <1>2, <1>3

\* removeSSTablesByIds keeps the other files of a level, in their order.
LEMMA WithoutLeft ==
    ASSUME NEW S, NEW metas \in Seq(S), NEW ids
    PROVE  /\ Without(metas, ids) \in Seq(S)
           /\ \E h : Left(metas, ids, Len(metas), Without(metas, ids), h)
<1>1. PICK g : /\ DOMAIN g = 0..Len(metas)
               /\ Steps(metas, ids, Len(metas), g)
               /\ Without(metas, ids) = g[Len(metas)]
  BY WithoutSteps
<1> DEFINE Ok(n) == g[n] \in Seq(S) /\ \E h : Left(metas, ids, n, g[n], h)
           Bad == {n \in 0..Len(metas) : ~Ok(n)}
<1>2. Len(metas) \in Nat
  OBVIOUS
<1>3. Bad = {}
  <2> SUFFICES ASSUME Bad # {} PROVE FALSE
    OBVIOUS
  <2>1. Bad \in SUBSET Nat
    BY <1>2
  <2>2. PICK n \in Bad : \A m \in Bad : n <= m
    BY <2>1, LeastNatural
  <2>3. n \in 0..Len(metas) /\ ~Ok(n) /\ n \in Nat
    BY <2>1
  <2>4. Ok(0)
    <3>1. g[0] = <<>>
      BY <1>1, <1>2 DEF Steps
    <3>2. Left(metas, ids, 0, <<>>, <<>>)
      BY DEF Left
    <3> QED BY <3>1, <3>2
  <2>5. n # 0 /\ n \in 1..Len(metas)
    BY <2>3, <2>4
  <2>6. Ok(n - 1)
    <3> SUFFICES ASSUME ~Ok(n - 1) PROVE FALSE
      OBVIOUS
    <3>1. n - 1 \in Bad
      BY <2>5, <1>2
    <3>2. n <= n - 1
      BY <3>1, <2>2
    <3> QED BY <3>2, <2>3
  <2>7. g[n] = Step(metas, ids, g[n - 1], n)
    BY <1>1, <2>3, <2>5 DEF Steps
  <2>8. Step(metas, ids, g[n - 1], n) \in Seq(S)
    <3>1. metas[n] \in S /\ g[n - 1] \in Seq(S)
      BY <2>5, <2>6
    <3> QED BY <3>1 DEF Step
  <2>9. \E h : Left(metas, ids, n, g[n], h)
    BY <2>5, <2>6, <2>7, LeftStep
  <2> QED BY <2>3, <2>7, <2>8, <2>9
<1>4. Ok(Len(metas))
  BY <1>2, <1>3
<1> QED BY <1>1, <1>4

\* What is left and where, as sets.
LEMMA WithoutRange ==
    ASSUME NEW S, NEW metas \in Seq(S), NEW ids
    PROVE  /\ Without(metas, ids) \in Seq(S)
           /\ Range(Without(metas, ids)) = {m \in Range(metas) : m.id \notin ids}
<1> DEFINE r == Without(metas, ids)
<1>1. PICK h : Left(metas, ids, Len(metas), r, h)
  BY WithoutLeft
<1>2. r \in Seq(S)
  BY WithoutLeft
<1>3. DOMAIN metas = 1..Len(metas)
  OBVIOUS
<1> HIDE DEF r
<1>4. ASSUME NEW m \in Range(r) PROVE m \in Range(metas) /\ m.id \notin ids
  <2>1. PICK i \in DOMAIN r : m = r[i]
    BY DEF Range
  <2>2. m = metas[h[i]] /\ m.id \notin ids /\ h[i] \in DOMAIN metas
    BY <1>1, <1>3, <2>1 DEF Left
  <2> QED BY <2>2 DEF Range
<1>5. ASSUME NEW m \in Range(metas), m.id \notin ids PROVE m \in Range(r)
  <2>1. PICK j \in DOMAIN metas : m = metas[j]
    BY DEF Range
  <2>2. PICK i \in DOMAIN r : h[i] = j
    BY <1>1, <1>3, <1>5, <2>1 DEF Left
  <2>3. r[i] = m
    BY <1>1, <2>1, <2>2 DEF Left
  <2> QED BY <2>3 DEF Range
<1> QED BY <1>2, <1>4, <1>5 DEF r

\* Some order has no file before one with a smaller minKey.
Order(metas, p) ==
    /\ p \in Bijection(DOMAIN metas, DOMAIN metas)
    /\ \A i, j \in DOMAIN metas :
           i < j => metas[p[i]].minKey <= metas[p[j]].minKey

\* std::sort can always put the files of a level in order of their minKey.
LEMMA OrderExists ==
    ASSUME NEW S, \A m \in S : m.minKey \in Nat
    PROVE  \A metas \in Seq(S) : \E p : Order(metas, p)
<1> DEFINE Lens == {Len(metas) : metas \in {s \in Seq(S) : ~\E p : Order(s, p)}}
<1>1. SUFFICES ASSUME NEW metas \in Seq(S), ~\E p : Order(metas, p) PROVE FALSE
  OBVIOUS
<1>2. Lens \in SUBSET Nat /\ Lens # {}
  <2>1. Len(metas) \in Lens
    BY <1>1
  <2>2. \A s \in Seq(S) : Len(s) \in Nat
    OBVIOUS
  <2> QED BY <2>1, <2>2
<1>3. PICK n \in Lens : \A m \in Lens : n <= m
  BY <1>2, LeastNatural
<1>4. PICK s \in Seq(S) : (~\E p : Order(s, p)) /\ n = Len(s)
  OBVIOUS
<1>5. n \in Nat /\ DOMAIN s = 1..n /\ \A i \in 1..n : s[i] \in S /\ s[i].minKey \in Nat
  BY <1>1, <1>4
<1>6. n # 0
  <2> SUFFICES ASSUME n = 0 PROVE FALSE
    OBVIOUS
  <2>1. DOMAIN s = {}
    BY <1>5
  <2>2. <<>> \in Bijection(DOMAIN s, DOMAIN s)
    BY <2>1 DEF Bijection, Injection, Surjection, IsInjective
  <2>3. Order(s, <<>>)
    BY <2>1, <2>2 DEF Order
  <2> QED BY <2>3, <1>4
<1> DEFINE t == SubSeq(s, 1, n - 1)
<1>7. /\ t \in Seq(S) /\ Len(t) = n - 1 /\ DOMAIN t = 1..(n - 1)
      /\ \A i \in 1..(n - 1) : t[i] = s[i]
  BY <1>4, <1>5, <1>6
<1> HIDE DEF t
<1>8. PICK q : Order(t, q)
  <2> SUFFICES ASSUME ~\E p : Order(t, p) PROVE FALSE
    OBVIOUS
  <2>1. Len(t) \in Lens
    BY <1>7
  <2>2. n <= n - 1
    BY <1>3, <1>7, <2>1
  <2> QED BY <2>2, <1>5
<1>9. /\ \A i \in 1..(n - 1) : q[i] \in 1..(n - 1)
      /\ \A i, j \in 1..(n - 1) : q[i] = q[j] => i = j
      /\ \A j \in 1..(n - 1) : \E i \in 1..(n - 1) : q[i] = j
      /\ \A i, j \in 1..(n - 1) : i < j => s[q[i]].minKey <= s[q[j]].minKey
  <2>1. q \in [1..(n - 1) -> 1..(n - 1)] /\ IsInjective(q)
    BY <1>7, <1>8 DEF Order, Bijection, Injection
  <2>2. \A j \in 1..(n - 1) : \E i \in 1..(n - 1) : q[i] = j
    BY <1>7, <1>8 DEF Order, Bijection, Surjection
  <2>3. \A i, j \in 1..(n - 1) : q[i] = q[j] => i = j
    BY <2>1 DEF IsInjective
  <2>4. \A i \in 1..(n - 1) : t[q[i]] = s[q[i]]
    BY <2>1, <1>7
  <2>5. \A i, j \in 1..(n - 1) : i < j => t[q[i]].minKey <= t[q[j]].minKey
    BY <1>7, <1>8 DEF Order
  <2> QED BY <2>1, <2>2, <2>3, <2>4, <2>5
<1> DEFINE After(i) == i = n \/ s[n].minKey < s[q[i]].minKey
           A == {i \in 1..n : After(i)}
<1>10. PICK m \in A : \A i \in A : m <= i
  <2>1. A \in SUBSET Nat /\ n \in A
    BY <1>5, <1>6
  <2> QED BY <2>1, LeastNatural
<1>11. /\ m \in 1..n /\ After(m)
       /\ \A i \in 1..n : i < m => ~After(i)
  <2>1. m \in 1..n /\ After(m)
    OBVIOUS
  <2>2. \A i \in 1..n : i < m => i \notin A
    BY <1>10, <2>1, <1>5
  <2> QED BY <2>1, <2>2
<1> HIDE DEF A
<1> DEFINE key(i) == s[i].minKey
           p == [i \in 1..n |-> IF i < m THEN q[i] ELSE IF i = m THEN n ELSE q[i - 1]]
<1>12. /\ \A i \in 1..n : i < m => i \in 1..(n - 1) /\ p[i] = q[i]
       /\ p[m] = n
       /\ \A i \in 1..n : m < i => i - 1 \in 1..(n - 1) /\ p[i] = q[i - 1]
       /\ DOMAIN p = 1..n
  BY <1>5, <1>6, <1>11
<1>13. \A i \in 1..n : p[i] \in 1..n /\ (p[i] = n <=> i = m)
  <2> TAKE i \in 1..n
  <2>1. CASE i < m
    <3>1. q[i] \in 1..(n - 1) /\ p[i] = q[i]
      BY <2>1, <1>9, <1>12
    <3> QED BY <3>1, <2>1, <1>5, <1>11
  <2>2. CASE i = m
    BY <2>2, <1>12, <1>5, <1>6
  <2>3. CASE m < i
    <3>1. q[i - 1] \in 1..(n - 1) /\ p[i] = q[i - 1]
      BY <2>3, <1>9, <1>12
    <3> QED BY <3>1, <2>3, <1>5, <1>11
  <2> QED BY <2>1, <2>2, <2>3, <1>5, <1>11
<1>14. \A i, j \in 1..n : p[i] = p[j] => i = j
  <2> TAKE i, j \in 1..n
  <2> HAVE p[i] = p[j]
  <2>1. CASE i = m
    BY <2>1, <1>13, <1>12
  <2>2. CASE j = m
    BY <2>2, <1>13, <1>12
  <2>3. CASE i < m /\ j < m
    BY <2>3, <1>9, <1>12
  <2>4. CASE i < m /\ m < j
    <3>1. q[i] = q[j - 1] /\ i \in 1..(n - 1) /\ j - 1 \in 1..(n - 1)
      BY <2>4, <1>12
    <3>2. i = j - 1
      BY <3>1, <1>9
    <3> QED BY <3>2, <2>4, <1>5, <1>11
  <2>5. CASE m < i /\ j < m
    <3>1. q[i - 1] = q[j] /\ i - 1 \in 1..(n - 1) /\ j \in 1..(n - 1)
      BY <2>5, <1>12
    <3>2. i - 1 = j
      BY <3>1, <1>9
    <3> QED BY <3>2, <2>5, <1>5, <1>11
  <2>6. CASE m < i /\ m < j
    <3>1. q[i - 1] = q[j - 1] /\ i - 1 \in 1..(n - 1) /\ j - 1 \in 1..(n - 1)
      BY <2>6, <1>12
    <3>2. i - 1 = j - 1
      BY <3>1, <1>9
    <3> QED BY <3>2, <1>5
  <2> QED BY <2>1, <2>2, <2>3, <2>4, <2>5, <2>6, <1>5, <1>11
<1>15. \A j \in 1..n : \E i \in 1..n : p[i] = j
  <2> TAKE j \in 1..n
  <2>1. CASE j = n
    BY <2>1, <1>11, <1>12
  <2>2. CASE j # n
    <3>1. j \in 1..(n - 1)
      BY <2>2, <1>5
    <3>2. PICK i \in 1..(n - 1) : q[i] = j
      BY <3>1, <1>9
    <3>3. CASE i < m
      <4>1. i \in 1..n /\ p[i] = q[i]
        BY <3>3, <1>5, <1>12
      <4> QED BY <4>1, <3>2
    <3>4. CASE ~(i < m)
      <4>1. i + 1 \in 1..n /\ m < i + 1 /\ (i + 1) - 1 = i
        BY <3>4, <1>5, <1>11
      <4>2. p[i + 1] = q[i]
        BY <4>1, <1>12
      <4> QED BY <4>1, <4>2, <3>2
    <3> QED BY <3>3, <3>4
  <2> QED BY <2>1, <2>2
<1>16. \A i, j \in 1..n : i < j => s[p[i]].minKey <= s[p[j]].minKey
  <2> TAKE i, j \in 1..n
  <2> HAVE i < j
  <2>1. CASE j < m
    <3>1. /\ p[i] = q[i] /\ p[j] = q[j]
          /\ i \in 1..(n - 1) /\ j \in 1..(n - 1)
      BY <2>1, <1>5, <1>11, <1>12
    <3> QED BY <3>1, <1>9
  <2>2. CASE j = m
    <3>1. i < m /\ p[i] = q[i] /\ p[j] = n /\ q[i] \in 1..n /\ i # n
      BY <2>2, <1>5, <1>11, <1>12, <1>13
    <3>2. ~(s[n].minKey < s[q[i]].minKey)
      BY <3>1, <1>11
    <3>3. s[n].minKey \in Nat /\ s[q[i]].minKey \in Nat
      BY <3>1, <1>5, <1>6
    <3>4. s[q[i]].minKey <= s[n].minKey
      BY <3>2, <3>3
    <3> QED BY <3>1, <3>4
  <2>3. CASE i = m
    <3>1. p[i] = n /\ p[j] = q[j - 1] /\ j - 1 \in 1..(n - 1) /\ m # n /\ m \in 1..(n - 1)
      BY <2>3, <1>5, <1>11, <1>12
    <3>2. s[n].minKey < s[q[m]].minKey
      BY <3>1, <1>11
    <3>3. m = j - 1 \/ m < j - 1
      BY <2>3, <1>5, <1>11
    <3>4. m = j - 1 \/ s[q[m]].minKey <= s[q[j - 1]].minKey
      BY <3>1, <3>3, <1>9
    <3>5. q[m] \in 1..n /\ q[j - 1] \in 1..n
      <4>1. q[m] \in 1..(n - 1) /\ q[j - 1] \in 1..(n - 1)
        BY <3>1, <1>9
      <4> QED BY <4>1, <1>5
    <3>6. /\ s[n].minKey \in Nat /\ s[q[m]].minKey \in Nat
          /\ s[q[j - 1]].minKey \in Nat
      BY <3>5, <1>5, <1>6
    <3>7. s[n].minKey <= s[q[j - 1]].minKey
      <4>1. PICK x \in Nat, y \in Nat, z \in Nat :
                s[n].minKey = x /\ s[q[m]].minKey = y /\ s[q[j - 1]].minKey = z
        BY <3>6
      <4>2. x < y /\ (m = j - 1 \/ y <= z)
        BY <3>2, <3>4, <4>1
      <4>3. m = j - 1 => y = z
        BY <4>1
      <4>4. x <= z
        BY <4>2, <4>3
      <4> QED BY <4>1, <4>4
    <3> QED BY <3>1, <3>7
  <2>4. CASE i < m /\ m < j
    <3>1. p[i] = q[i] /\ p[j] = q[j - 1] /\ i \in 1..(n - 1) /\ j - 1 \in 1..(n - 1)
      BY <2>4, <1>12
    <3>2. i < j - 1
      BY <2>4, <1>5, <1>11
    <3> QED BY <3>1, <3>2, <1>9
  <2>5. CASE m < i
    <3>1. /\ p[i] = q[i - 1] /\ p[j] = q[j - 1]
          /\ i - 1 \in 1..(n - 1) /\ j - 1 \in 1..(n - 1)
      BY <2>5, <1>5, <1>11, <1>12
    <3>2. i - 1 < j - 1
      BY <1>5
    <3> QED BY <3>1, <3>2, <1>9
  <2> QED BY <2>1, <2>2, <2>3, <2>4, <2>5, <1>5, <1>11
<1>17. p \in [1..n -> 1..n]
  BY <1>12, <1>13
<1> HIDE DEF p
<1>18. p \in Bijection(1..n, 1..n)
  BY <1>12, <1>14, <1>15, <1>17 DEF Bijection, Injection, Surjection, IsInjective
<1>19. Order(s, p)
  BY <1>5, <1>16, <1>18 DEF Order
<1> QED BY <1>4, <1>19

\* std::sort returns the same files, none before one with a smaller minKey.
LEMMA SortedOrder ==
    ASSUME NEW S, \A m \in S : m.minKey \in Nat, NEW metas \in Seq(S)
    PROVE  /\ Sorted(metas) \in Seq(S)
           /\ \E p : /\ Order(metas, p)
                     /\ DOMAIN Sorted(metas) = DOMAIN metas
                     /\ \A i \in DOMAIN metas : Sorted(metas)[i] = metas[p[i]]
<1>1. \E p : Order(metas, p)
  BY OrderExists
<1> DEFINE p == CHOOSE p \in Bijection(DOMAIN metas, DOMAIN metas) :
                    \A i, j \in DOMAIN metas :
                        i < j => metas[p[i]].minKey <= metas[p[j]].minKey
<1>2. Order(metas, p)
  BY <1>1 DEF Order
<1>3. Sorted(metas) = [i \in DOMAIN metas |-> metas[p[i]]]
  BY DEF Sorted
<1> HIDE DEF p
<1>4. \A i \in DOMAIN metas : p[i] \in DOMAIN metas
  BY <1>2 DEF Order, Bijection, Injection
<1>5. DOMAIN metas = 1..Len(metas) /\ Len(metas) \in Nat
      /\ \A i \in DOMAIN metas : metas[i] \in S
  OBVIOUS
<1>6. [i \in DOMAIN metas |-> metas[p[i]]] \in Seq(S)
  BY <1>4, <1>5
<1> QED BY <1>2, <1>3, <1>6

\* std::sort neither loses nor adds a file.
LEMMA SortedRange ==
    ASSUME NEW S, \A m \in S : m.minKey \in Nat, NEW metas \in Seq(S)
    PROVE  Range(Sorted(metas)) = Range(metas)
<1>1. PICK p : /\ Order(metas, p)
               /\ DOMAIN Sorted(metas) = DOMAIN metas
               /\ \A i \in DOMAIN metas : Sorted(metas)[i] = metas[p[i]]
  BY SortedOrder
<1>2. \A i \in DOMAIN metas : p[i] \in DOMAIN metas
  BY <1>1 DEF Order, Bijection, Injection
<1>3. \A j \in DOMAIN metas : \E i \in DOMAIN metas : p[i] = j
  BY <1>1 DEF Order, Bijection, Surjection
<1> DEFINE r == Sorted(metas)
<1> HIDE DEF r
<1>4. ASSUME NEW m \in Range(r) PROVE m \in Range(metas)
  <2>1. PICK i \in DOMAIN metas : m = r[i]
    BY <1>1 DEF Range, r
  <2>2. m = metas[p[i]] /\ p[i] \in DOMAIN metas
    BY <1>1, <1>2, <2>1 DEF r
  <2> QED BY <2>2 DEF Range
<1>5. ASSUME NEW m \in Range(metas) PROVE m \in Range(r)
  <2>1. PICK j \in DOMAIN metas : m = metas[j]
    BY DEF Range
  <2>2. PICK i \in DOMAIN metas : p[i] = j
    BY <1>3
  <2>3. m = r[i] /\ i \in DOMAIN r
    BY <1>1, <2>1, <2>2 DEF r
  <2> QED BY <2>3 DEF Range
<1> QED BY <1>4, <1>5 DEF r

-----------------------------------------------------------------------------
(* Levels whose files are sorted and do not overlap.                       *)

Ascending(metas) ==
    \A i, j \in DOMAIN metas : i < j => metas[i].maxKey < metas[j].minKey

\* A meta as SSTable::flush makes it.
Bounded(m) == m.minKey \in Nat /\ m.maxKey \in Nat /\ m.minKey <= m.maxKey

Apart(m, n) == m.maxKey < n.minKey \/ n.maxKey < m.minKey

\* removeSSTablesByIds leaves such a level sorted.
LEMMA WithoutAscending ==
    ASSUME NEW S, NEW metas \in Seq(S), NEW ids, Ascending(metas)
    PROVE  Ascending(Without(metas, ids))
<1> DEFINE r == Without(metas, ids)
<1>1. PICK h : Left(metas, ids, Len(metas), r, h)
  BY WithoutLeft
<1>2. DOMAIN metas = 1..Len(metas)
  OBVIOUS
<1> HIDE DEF r
<1>3. Ascending(r)
  <2> SUFFICES ASSUME NEW i \in DOMAIN r, NEW j \in DOMAIN r, i < j
               PROVE  r[i].maxKey < r[j].minKey
    BY DEF Ascending
  <2>1. h[i] \in DOMAIN metas /\ h[j] \in DOMAIN metas /\ h[i] < h[j]
    BY <1>1, <1>2 DEF Left
  <2>2. r[i] = metas[h[i]] /\ r[j] = metas[h[j]]
    BY <1>1 DEF Left
  <2> QED BY <2>1, <2>2 DEF Ascending
<1> QED BY <1>3 DEF r

\* Two files of such a level are apart, or the same.
LEMMA AscendingApart ==
    ASSUME NEW metas, Ascending(metas), DOMAIN metas \subseteq Nat,
           NEW m \in Range(metas), NEW n \in Range(metas)
    PROVE  m = n \/ Apart(m, n)
<1>1. PICK i \in DOMAIN metas : m = metas[i]
  BY DEF Range
<1>2. PICK j \in DOMAIN metas : n = metas[j]
  BY DEF Range
<1>3. i \in Nat /\ j \in Nat
  OBVIOUS
<1>4. i = j \/ i < j \/ j < i
  BY <1>3
<1> QED BY <1>1, <1>2, <1>4 DEF Ascending, Apart

\* The sort of a level to which a file apart from the others has been added.
LEMMA SortedAscending ==
    ASSUME NEW S, \A m \in S : Bounded(m),
           NEW metas \in Seq(S), Ascending(metas),
           NEW meta \in S, \A m \in Range(metas) : Apart(m, meta)
    PROVE  Ascending(Sorted(Append(metas, meta)))
<1> DEFINE s == Append(metas, meta)
<1>1. s \in Seq(S) /\ \A m \in S : m.minKey \in Nat
  BY DEF Bounded
<1>2. PICK p : /\ Order(s, p)
               /\ DOMAIN Sorted(s) = DOMAIN s
               /\ \A i \in DOMAIN s : Sorted(s)[i] = s[p[i]]
  BY <1>1, SortedOrder
<1>3. /\ DOMAIN metas = 1..Len(metas) /\ Len(metas) \in Nat
      /\ DOMAIN s = 1..(Len(metas) + 1) /\ s[Len(metas) + 1] = meta
      /\ \A i \in 1..Len(metas) : s[i] = metas[i]
  OBVIOUS
<1>4. \A i \in DOMAIN s : Bounded(s[i])
  BY <1>1
<1> HIDE DEF s
<1>5. ASSUME NEW i \in DOMAIN s, NEW j \in DOMAIN s, i # j
      PROVE  Apart(s[i], s[j])
  <2>1. CASE i = Len(metas) + 1
    <3>1. j \in 1..Len(metas)
      BY <2>1, <1>3, <1>5
    <3>2. s[j] \in Range(metas)
      BY <3>1, <1>3 DEF Range
    <3> QED BY <3>2, <2>1, <1>3 DEF Apart
  <2>2. CASE j = Len(metas) + 1
    <3>1. i \in 1..Len(metas)
      BY <2>2, <1>3, <1>5
    <3>2. s[i] \in Range(metas)
      BY <3>1, <1>3 DEF Range
    <3> QED BY <3>2, <2>2, <1>3 DEF Apart
  <2>3. CASE i \in 1..Len(metas) /\ j \in 1..Len(metas)
    <3>1. i < j \/ j < i
      BY <1>5, <1>3
    <3>2. s[i] = metas[i] /\ s[j] = metas[j]
      BY <2>3, <1>3
    <3> QED BY <3>1, <3>2, <2>3, <1>3 DEF Ascending, Apart
  <2> QED BY <2>1, <2>2, <2>3, <1>3
<1>6. Ascending(Sorted(s))
  <2> SUFFICES ASSUME NEW i \in DOMAIN s, NEW j \in DOMAIN s, i < j
               PROVE  s[p[i]].maxKey < s[p[j]].minKey
    BY <1>2 DEF Ascending
  <2>1. p[i] \in DOMAIN s /\ p[j] \in DOMAIN s /\ p[i] # p[j]
    <3>1. i # j
      BY <1>3
    <3> QED BY <1>2, <3>1 DEF Order, Bijection, Injection, IsInjective
  <2>2. s[p[i]].minKey <= s[p[j]].minKey
    BY <1>2 DEF Order
  <2>3. Apart(s[p[i]], s[p[j]])
    BY <2>1, <1>5
  <2>4. Bounded(s[p[i]]) /\ Bounded(s[p[j]])
    BY <2>1, <1>4
  <2> QED BY <2>2, <2>3, <2>4 DEF Apart, Bounded
<1> QED BY <1>6 DEF s

-----------------------------------------------------------------------------
(* What the two changes of a version do to its levels.                     *)

Versions(S) == [levels : [Levels -> Seq(S)], sstables : SUBSET Nat]

\* a is v with one file more, at the end of its level.
Added(S, v, meta, a) ==
    /\ a \in Versions(S)
    /\ a.sstables = v.sstables \cup {meta.id}
    /\ a.levels[meta.level] = Append(v.levels[meta.level], meta)
    /\ \A l \in Levels : l # meta.level => a.levels[l] = v.levels[l]

\* addSSTable
LEMMA AddSSTableLevels ==
    ASSUME NEW S, NEW v \in Versions(S), NEW meta \in S,
           meta.level \in Levels, meta.id \in Nat
    PROVE  Added(S, v, meta, AddSSTable(v, meta))
<1> DEFINE k == meta.level
           a == AddSSTable(v, meta)
<1>1. /\ v.levels \in [Levels -> Seq(S)] /\ v.sstables \in SUBSET Nat
      /\ v = [levels |-> v.levels, sstables |-> v.sstables]
  BY DEF Versions
<1>2. Append(v.levels[k], meta) \in Seq(S)
  BY <1>1
<1>3. /\ a.sstables = v.sstables \cup {meta.id}
      /\ a.levels = [v.levels EXCEPT ![k] = Append(@, meta)]
      /\ a = [levels |-> a.levels, sstables |-> a.sstables]
  BY <1>1 DEF AddSSTable
<1> HIDE DEF a
<1>4. a.levels \in [Levels -> Seq(S)] /\ a.sstables \in SUBSET Nat
  BY <1>1, <1>2, <1>3
<1>5. a \in Versions(S)
  BY <1>3, <1>4 DEF Versions
<1>6. a.levels[k] = Append(v.levels[k], meta)
  BY <1>1, <1>3
<1>7. \A l \in Levels : l # k => a.levels[l] = v.levels[l]
  BY <1>1, <1>3
<1>8. Added(S, v, meta, a)
  BY <1>3, <1>5, <1>6, <1>7 DEF Added
<1> QED BY <1>8 DEF a

\* A level whose files are all in T.
LEMMA SeqInto ==
    ASSUME NEW S, NEW T, NEW s \in Seq(S), \A m \in Range(s) : m \in T
    PROVE  s \in Seq(T)
<1>1. \A i \in DOMAIN s : s[i] \in T
  BY DEF Range
<1>2. Len(s) \in Nat /\ DOMAIN s = 1..Len(s) /\ s = [i \in 1..Len(s) |-> s[i]]
  OBVIOUS
<1> QED BY <1>1, <1>2

\* push_back of a file's metadata.
LEMMA AppendRange ==
    ASSUME NEW S, NEW metas \in Seq(S), NEW meta \in S
    PROVE  Range(Append(metas, meta)) = Range(metas) \cup {meta}
<1> DEFINE s == Append(metas, meta)
<1>1. /\ DOMAIN s = 1..(Len(metas) + 1) /\ DOMAIN metas = 1..Len(metas)
      /\ Len(metas) \in Nat /\ s[Len(metas) + 1] = meta
      /\ \A i \in 1..Len(metas) : s[i] = metas[i]
  OBVIOUS
<1> HIDE DEF s
<1>2. \A i \in 1..(Len(metas) + 1) : i \in 1..Len(metas) \/ i = Len(metas) + 1
  BY <1>1
<1>3. \A i \in 1..Len(metas) : i \in 1..(Len(metas) + 1)
  BY <1>1
<1>4. Len(metas) + 1 \in 1..(Len(metas) + 1)
  BY <1>1
<1>5. Range(s) = Range(metas) \cup {meta}
  BY <1>1, <1>2, <1>3, <1>4 DEF Range
<1> QED BY <1>5 DEF s

\* c is v without the files ids and with a new one, its level sorted again.
Compacted(S, v, ids, meta, c) ==
    /\ c \in Versions(S)
    /\ c.sstables = (v.sstables \ ids) \cup {meta.id}
    /\ c.levels[meta.level] =
           Sorted(Append(Without(v.levels[meta.level], ids), meta))
    /\ \A l \in Levels : l # meta.level => c.levels[l] = Without(v.levels[l], ids)
    /\ \A l \in Levels : \A m : m \in Range(c.levels[l]) <=>
           \/ m \in Range(v.levels[l]) /\ m.id \notin ids
           \/ l = meta.level /\ m = meta

\* removeSSTablesByIds, addSSTable and the sort of compactL0toL1, compactlevelN.
LEMMA CompactedLevels ==
    ASSUME NEW S, \A m \in S : m.minKey \in Nat,
           NEW v \in Versions(S), NEW ids, NEW meta \in S,
           meta.level \in Levels, meta.id \in Nat
    PROVE  Compacted(S, v, ids, meta, CompactedVersion(v, ids, meta))
<1> DEFINE r == RemoveSSTablesByIds(v, ids)
           a == AddSSTable(r, meta)
           c == CompactedVersion(v, ids, meta)
           k == meta.level
<1>1. \A l \in Levels : v.levels[l] \in Seq(S)
  BY DEF Versions
<1>2. \A l \in Levels : Without(v.levels[l], ids) \in Seq(S)
  BY <1>1, WithoutRange
<1>3. r \in Versions(S) /\ r.sstables = v.sstables \ ids
      /\ \A l \in Levels : r.levels[l] = Without(v.levels[l], ids)
  BY <1>2 DEF Versions, RemoveSSTablesByIds
<1> HIDE DEF r
<1>4. /\ a \in Versions(S)
      /\ a.sstables = r.sstables \cup {meta.id}
      /\ a.levels[k] = Append(r.levels[k], meta)
      /\ \A l \in Levels : l # k => a.levels[l] = r.levels[l]
  BY <1>3, AddSSTableLevels DEF Added
<1>5. c = [a EXCEPT !.levels[k] = Sorted(@)]
  BY DEF CompactedVersion, SortLevel, r
<1> HIDE DEF a, c
<1>6. a.levels[k] \in Seq(S)
  BY <1>4 DEF Versions
<1>7. Sorted(a.levels[k]) \in Seq(S)
  BY <1>6, SortedOrder
<1>8. /\ c \in Versions(S) /\ c.sstables = a.sstables
      /\ c.levels[k] = Sorted(a.levels[k])
      /\ \A l \in Levels : l # k => c.levels[l] = a.levels[l]
  BY <1>4, <1>5, <1>7 DEF Versions
<1>9. c.levels[k] = Sorted(Append(Without(v.levels[k], ids), meta))
  BY <1>3, <1>4, <1>8
<1>10. \A l \in Levels : l # k => c.levels[l] = Without(v.levels[l], ids)
  BY <1>3, <1>4, <1>8
<1>11. \A l \in Levels : \A m : m \in Range(c.levels[l]) <=>
           \/ m \in Range(v.levels[l]) /\ m.id \notin ids
           \/ l = k /\ m = meta
  <2> SUFFICES ASSUME NEW l \in Levels, NEW m
               PROVE  m \in Range(c.levels[l]) <=>
                          \/ m \in Range(v.levels[l]) /\ m.id \notin ids
                          \/ l = k /\ m = meta
    OBVIOUS
  <2>1. Range(Without(v.levels[l], ids)) = {n \in Range(v.levels[l]) : n.id \notin ids}
    BY <1>1, WithoutRange
  <2>2. CASE l = k
    <3>1. Range(c.levels[k]) = Range(Append(Without(v.levels[k], ids), meta))
      <4>1. Append(Without(v.levels[k], ids), meta) \in Seq(S)
        BY <1>2
      <4> QED BY <4>1, <1>9, SortedRange
    <3>2. Range(c.levels[k]) = Range(Without(v.levels[k], ids)) \cup {meta}
      BY <3>1, <1>2, AppendRange
    <3> QED BY <3>2, <2>1, <2>2
  <2>3. CASE l # k
    BY <2>3, <2>1, <1>10
  <2> QED BY <2>2, <2>3
<1>12. Compacted(S, v, ids, meta, c)
  BY <1>3, <1>4, <1>8, <1>9, <1>10, <1>11 DEF Compacted
<1> QED BY <1>12 DEF c

-----------------------------------------------------------------------------
(* Tables that are made of others, and their metadata.                     *)

\* Contents of a memtable or an SSTable with keys in K.
IsTable(t, K) == DOMAIN t \subseteq K /\ t \in [DOMAIN t -> Entry]

\* MemTable::clear
LEMMA EmptyIsTable ==
    ASSUME NEW K
    PROVE  IsTable(EmptyTable, K) /\ DOMAIN EmptyTable = {}
BY DEF IsTable, EmptyTable

\* A table the compaction does not give up has a key.
LEMMA NotEmptyTable ==
    ASSUME NEW K, NEW t, IsTable(t, K), t # EmptyTable
    PROVE  DOMAIN t # {}
BY DEF IsTable, EmptyTable

\* The first and the last key that SSTable::flush writes into the metadata.
LEMMA MetaOfTable ==
    ASSUME NEW K \in SUBSET Nat, IsFiniteSet(K),
           NEW t, IsTable(t, K), DOMAIN t # {}, NEW id, NEW l
    PROVE  LET m == MetaOf(id, l, t)
           IN  /\ m = [id |-> id, level |-> l, minKey |-> m.minKey,
                       maxKey |-> m.maxKey, size |-> m.size]
               /\ m.minKey \in DOMAIN t /\ m.maxKey \in DOMAIN t /\ m.size \in Nat
               /\ Bounded(m)
               /\ \A k \in DOMAIN t : m.minKey <= k /\ k <= m.maxKey
<1>1. DOMAIN t \in SUBSET Nat /\ IsFiniteSet(DOMAIN t)
  BY FS_Subset DEF IsTable
<1>2. /\ Min(DOMAIN t) \in DOMAIN t
      /\ \A k \in DOMAIN t : Min(DOMAIN t) <= k
  BY <1>1, MinNat
<1>3. /\ Max(DOMAIN t) \in DOMAIN t
      /\ \A k \in DOMAIN t : k <= Max(DOMAIN t)
  BY <1>1, MaxFinite
<1>4. Cardinality(DOMAIN t) \in Nat
  BY <1>1, FS_CardinalityType
<1> QED BY <1>1, <1>2, <1>3, <1>4 DEF MetaOf, Bounded

\* Every entry of t is the newest of its key among the tables ids, and of the
\* keys whose newest entry is a value none is left out.
Merged(K, tables, ids, t) ==
    /\ IsTable(t, K)
    /\ \A k : \A id \in ids :
           /\ k \in DOMAIN tables[id] /\ tables[id][k].type = "PUT"
           /\ \A j \in ids : k \in DOMAIN tables[j] => tables[id][k].seq >= tables[j][k].seq
           => k \in DOMAIN t
    /\ \A k \in DOMAIN t :
           /\ \E id \in ids : k \in DOMAIN tables[id] /\ t[k] = tables[id][k]
           /\ \A id \in ids : k \in DOMAIN tables[id] => t[k].seq >= tables[id][k].seq

\* The k-way merge of mergeSSTables.
LEMMA MergedTable ==
    ASSUME NEW K, NEW tables, NEW ids, \A id \in ids : IsTable(tables[id], K)
    PROVE  Merged(K, tables, ids, MergeSSTables(tables, ids))
<1> DEFINE merged == MergeSSTables(tables, ids)
           All(k) == UNION {EntryOf(tables[id], k) : id \in ids}
           Keys_ == UNION {DOMAIN tables[id] : id \in ids}
           live == {k \in Keys_ : Visible(NewestOf(tables, ids, k)) # {}}
<1>1. merged = [k \in live |-> CHOOSE e \in NewestOf(tables, ids, k) : TRUE]
  BY DEF MergeSSTables
<1>2. \A k : NewestOf(tables, ids, k) = {e \in All(k) : \A f \in All(k) : e.seq >= f.seq}
  BY DEF NewestOf, Newest
<1>3. \A k : \A e \in All(k) :
          \E id \in ids : k \in DOMAIN tables[id] /\ e = tables[id][k]
  BY DEF EntryOf
<1>4. \A k : \A id \in ids : k \in DOMAIN tables[id] => tables[id][k] \in All(k)
  BY DEF EntryOf
<1> HIDE DEF All, Keys_
<1>5. ASSUME NEW k \in live
      PROVE  /\ k \in K /\ merged[k] \in Entry
             /\ \E id \in ids : k \in DOMAIN tables[id] /\ merged[k] = tables[id][k]
             /\ \A id \in ids : k \in DOMAIN tables[id] =>
                    merged[k].seq >= tables[id][k].seq
  <2>1. NewestOf(tables, ids, k) # {}
    BY DEF Visible
  <2>2. merged[k] \in NewestOf(tables, ids, k)
    BY <1>1, <2>1
  <2>3. merged[k] \in All(k) /\ \A f \in All(k) : merged[k].seq >= f.seq
    BY <1>2, <2>2
  <2>4. PICK id \in ids : k \in DOMAIN tables[id] /\ merged[k] = tables[id][k]
    BY <1>3, <2>3
  <2>5. k \in K /\ merged[k] \in Entry
    BY <2>4 DEF IsTable
  <2>6. \A j \in ids : k \in DOMAIN tables[j] =>
            merged[k].seq >= tables[j][k].seq
    BY <1>4, <2>3
  <2> QED BY <2>4, <2>5, <2>6
<1>6. DOMAIN merged = live /\ merged = [k \in DOMAIN merged |-> merged[k]]
  BY <1>1
<1> HIDE DEF merged
<1>7. IsTable(merged, K)
  BY <1>5, <1>6 DEF IsTable
<1>8. ASSUME NEW k, NEW id \in ids,
             k \in DOMAIN tables[id], tables[id][k].type = "PUT",
             \A j \in ids : k \in DOMAIN tables[j] => tables[id][k].seq >= tables[j][k].seq
      PROVE  k \in DOMAIN merged
  <2>1. tables[id][k] \in All(k)
    BY <1>4, <1>8
  <2>2. \A f \in All(k) : tables[id][k].seq >= f.seq
    BY <1>3, <1>8
  <2>3. tables[id][k] \in Visible(NewestOf(tables, ids, k))
    BY <1>2, <1>8, <2>1, <2>2 DEF Visible
  <2>4. k \in live
    BY <1>8, <2>3 DEF Keys_
  <2> QED BY <1>6, <2>4
<1>9. Merged(K, tables, ids, merged)
  BY <1>5, <1>6, <1>7, <1>8 DEF Merged
<1> QED BY <1>9 DEF merged

\* The entries of t are records of the log.
FromLog(records, t) ==
    \A k \in DOMAIN t : \E r \in Range(records) :
        r.key = k /\ t[k] = [seq |-> r.seq, type |-> r.type]

\* recover() puts the records of the log into the memtable: of each key one
\* that is in the log.
LEMMA ReplayedTable ==
    ASSUME NEW K,
           NEW records \in Seq([key : K, seq : Nat, type : {"PUT", "DELETE"}])
    PROVE  IsTable(Replayed(records), K) /\ FromLog(records, Replayed(records))
<1> DEFINE P(k) == {i \in DOMAIN records : records[i].key = k}
           R(k) == records[Max(P(k))]
           t == Replayed(records)
<1>1. /\ DOMAIN t = {r.key : r \in Range(records)}
      /\ t = [k \in DOMAIN t |-> t[k]]
      /\ \A k \in DOMAIN t : t[k] = [seq |-> R(k).seq, type |-> R(k).type]
  BY DEF Replayed
<1>2. DOMAIN records = 1..Len(records) /\ Len(records) \in Nat
  OBVIOUS
<1>3. ASSUME NEW k \in DOMAIN t
      PROVE  R(k) \in Range(records) /\ R(k).key = k
  <2>1. PICK r \in Range(records) : r.key = k
    BY <1>1
  <2>2. PICK i \in DOMAIN records : r = records[i]
    BY DEF Range
  <2>3. i \in P(k) /\ P(k) \in SUBSET Nat /\ \A n \in P(k) : n <= Len(records)
    BY <1>2, <2>1, <2>2
  <2>4. Max(P(k)) \in P(k)
    BY <1>2, <2>3, MaxNat
  <2> QED BY <2>4 DEF Range
<1>4. \A r \in Range(records) : /\ r.key \in K /\ r.seq \in Nat
                                /\ r.type \in {"PUT", "DELETE"}
  <2> DEFINE Recs == [key : K, seq : Nat, type : {"PUT", "DELETE"}]
  <2>1. records \in Seq(Recs)
    OBVIOUS
  <2>2. \A r \in Recs : r.key \in K /\ r.seq \in Nat /\ r.type \in {"PUT", "DELETE"}
    OBVIOUS
  <2> HIDE DEF Recs
  <2>3. \A i \in DOMAIN records : records[i] \in Recs
    BY <2>1
  <2> QED BY <2>2, <2>3 DEF Range
<1> HIDE DEF t, R
<1>5. ASSUME NEW k \in DOMAIN t PROVE k \in K /\ t[k] \in Entry
  <2>1. /\ R(k).key = k /\ R(k).key \in K /\ R(k).seq \in Nat
        /\ R(k).type \in {"PUT", "DELETE"}
    BY <1>3, <1>4
  <2>2. t[k] = [seq |-> R(k).seq, type |-> R(k).type]
    BY <1>1
  <2> QED BY <2>1, <2>2 DEF Entry
<1>6. IsTable(t, K)
  BY <1>1, <1>5 DEF IsTable
<1>7. FromLog(records, t)
  BY <1>1, <1>3 DEF FromLog
<1> QED BY <1>6, <1>7 DEF t

\* Of entries with different numbers a merge keeps what get() looks for.
LEMMA NewestMerged ==
    ASSUME NEW In, NEW Out, \A e \in In \cup Out : e.seq \in Nat,
           \A e, f \in In \cup Out : e.seq = f.seq => e = f,
           NEW x \in In, \A e \in In : x.seq >= e.seq
    PROVE  Newest(Out \cup {x}) = Newest(In \cup Out)
BY DEF Newest

\* Where the merge drops a tombstone, either get() does not look at it or it
\* finds the key deleted.
LEMMA NewestDropped ==
    ASSUME NEW In, NEW Out, \A e \in In \cup Out : e.seq \in Nat,
           \A e, f \in In \cup Out : e.seq = f.seq => e = f,
           NEW x \in In, \A e \in In : x.seq >= e.seq, x.type # "PUT"
    PROVE  \/ Newest(Out) = Newest(In \cup Out)
           \/ /\ Visible(Newest(In \cup Out)) = {}
              /\ \A e \in Out : e.seq <= x.seq
<1>1. CASE \E o \in Out : o.seq > x.seq
  BY <1>1 DEF Newest
<1>2. CASE \A o \in Out : o.seq <= x.seq
  <2>1. Newest(In \cup Out) = {x}
    BY <1>2 DEF Newest
  <2> QED BY <1>2, <2>1 DEF Visible
<1> QED BY <1>1, <1>2

-----------------------------------------------------------------------------
(* What a lookup in the levels finds.                                      *)

\* A file's metadata says between which keys its table lies.
Describes(m, t) ==
    m.minKey <= m.maxKey /\ \A k \in DOMAIN t : m.minKey <= k /\ k <= m.maxKey

\* The entries of key k on level l, and on all of them.
Found(v, tables, l, k) ==
    {tables[m.id][k] : m \in {n \in Range(v.levels[l]) : k \in DOMAIN tables[n.id]}}

Stored(v, tables, k) == UNION {Found(v, tables, l, k) : l \in Levels}

\* Entry e is no older than f; a replayed log may hold what a table has, too.
NotOlder(e, f) == e = f \/ e.seq > f.seq

\* What get() takes for granted of a version and its tables.
Readable(v, tables) ==
    /\ \A l \in Levels : \A m \in Range(v.levels[l]) :
           /\ m.id \in v.sstables /\ Bounded(m) /\ Describes(m, tables[m.id])
           /\ \A k \in DOMAIN tables[m.id] : k \in Nat /\ tables[m.id][k].seq \in Nat
    /\ SortedLevels(v)
    /\ \A p, q \in Levels : p < q =>
           \A k : \A e \in Found(v, tables, p, k), f \in Found(v, tables, q, k) :
               NotOlder(e, f)

\* get() looks at one file of a level, and it is the one that holds the key.
LEMMA HitsFound ==
    ASSUME NEW S, NEW v \in Versions(S), NEW tables, Readable(v, tables),
           NEW l \in Levels, NEW k
    PROVE  Hits(v, tables, l, k) = Found(v, tables, l, k)
<1>1. \A m \in FilesFor(v, l, k) : m \in Range(v.levels[l])
  BY DEF FilesFor, FirstReaching, Range
<1>2. ASSUME NEW m \in Range(v.levels[l]), k \in DOMAIN tables[m.id]
      PROVE  m \in FilesFor(v, l, k)
  <2>1. /\ m.id \in v.sstables /\ Bounded(m) /\ k \in Nat
        /\ m.minKey <= k /\ k <= m.maxKey
    BY <1>2 DEF Readable, Describes
  <2>2. CASE l = 0
    BY <2>1, <2>2 DEF FilesFor
  <2>3. CASE l # 0
    <3>1. v.levels[l] \in Seq(S)
      BY DEF Versions
    <3>2. PICK j \in DOMAIN v.levels[l] : m = v.levels[l][j]
      BY DEF Range
    <3>3. j \in Nat /\ DOMAIN v.levels[l] = 1..Len(v.levels[l]) /\ Len(v.levels[l]) \in Nat
      BY <3>1
    <3>4. \A n \in 1..(j - 1) : v.levels[l][n].maxKey < k
      <4> TAKE n \in 1..(j - 1)
      <4>1. n \in DOMAIN v.levels[l] /\ n < j
        BY <3>2, <3>3
      <4>2. v.levels[l][n].maxKey < m.minKey
        BY <2>3, <3>2, <4>1 DEF Readable, SortedLevels
      <4>3. Bounded(v.levels[l][n])
        BY <4>1 DEF Readable, Range
      <4> QED BY <2>1, <4>2, <4>3 DEF Bounded
    <3>5. m \in FirstReaching(v.levels[l], k)
      BY <2>1, <3>2, <3>4 DEF FirstReaching, Bounded
    <3> QED BY <2>1, <2>3, <3>5 DEF FilesFor
  <2> QED BY <2>2, <2>3
<1>3. \A e : e \in Hits(v, tables, l, k) <=>
          \E m \in FilesFor(v, l, k) : k \in DOMAIN tables[m.id] /\ e = tables[m.id][k]
  BY DEF Hits, EntryOf
<1>4. \A e : e \in Found(v, tables, l, k) <=>
          \E m \in Range(v.levels[l]) : k \in DOMAIN tables[m.id] /\ e = tables[m.id][k]
  BY DEF Found
<1> QED BY <1>1, <1>2, <1>3, <1>4

\* A hit in a memtable is no older than all tables: get() returns it.
LEMMA LookupCandidate ==
    ASSUME NEW S, NEW v \in Versions(S), NEW tables, Readable(v, tables), NEW k,
           NEW e, e.seq \in Nat,
           \A f \in Stored(v, tables, k) : f.seq \in Nat /\ NotOlder(e, f)
    PROVE  Lookup(v, tables, k, {e}) = {e}
<1> DEFINE Stops == {l \in Levels : /\ v.levels[l] # <<>>
                                    /\ {e} # {} \/ Hits(v, tables, l, k) # {}}
           H == Hits(v, tables, Min(Stops), k)
<1>1. Lookup(v, tables, k, {e}) = IF Stops = {} THEN {e} ELSE Newest({e} \cup H)
  BY DEF Lookup
<1>2. CASE Stops = {}
  BY <1>1, <1>2
<1>3. CASE Stops # {}
  <2>1. Stops \in SUBSET Nat /\ Stops \subseteq Levels
    BY DEF Levels
  <2> HIDE DEF Stops
  <2>2. Min(Stops) \in Levels
    BY <1>3, <2>1, MinNat
  <2>3. H = Found(v, tables, Min(Stops), k)
    BY <2>2, HitsFound
  <2>4. \A f \in H : f.seq \in Nat /\ NotOlder(e, f)
    BY <2>2, <2>3 DEF Stored
  <2> HIDE DEF H
  <2>5. Newest({e} \cup H) = {e}
    BY <2>4 DEF Newest, NotOlder
  <2> QED BY <1>1, <1>3, <2>5
<1> QED BY <1>2, <1>3

\* Without one get() returns the newest entry of all levels, though it stops
\* at the first that has any.
LEMMA LookupStored ==
    ASSUME NEW S, NEW v \in Versions(S), NEW tables, Readable(v, tables), NEW k
    PROVE  Lookup(v, tables, k, {}) = Newest(Stored(v, tables, k))
<1> DEFINE Stops == {l \in Levels : /\ v.levels[l] # <<>>
                                    /\ {} # {} \/ Hits(v, tables, l, k) # {}}
           F(l) == Found(v, tables, l, k)
           all == Stored(v, tables, k)
<1>1. Lookup(v, tables, k, {}) = IF Stops = {} THEN {}
                                 ELSE Newest({} \cup Hits(v, tables, Min(Stops), k))
  BY DEF Lookup
<1>2. \A l \in Levels : Hits(v, tables, l, k) = F(l)
  BY HitsFound
<1>3. \A l \in Levels : F(l) # {} => v.levels[l] # <<>>
  BY DEF Found, Range
<1>4. Stops = {l \in Levels : F(l) # {}}
  BY <1>2, <1>3
<1>5. all = UNION {F(l) : l \in Levels}
  BY DEF Stored
<1>6. \A p, q \in Levels : p < q => \A e \in F(p), f \in F(q) : NotOlder(e, f)
  BY DEF Readable
<1>7. \A l \in Levels : \A e \in F(l) : e.seq \in Nat
  BY DEF Readable, Found
<1> HIDE DEF F, all, Stops
<1>8. CASE Stops = {}
  <2>1. all = {}
    BY <1>4, <1>5, <1>8
  <2> QED BY <1>1, <1>8, <2>1 DEF Newest, all
<1>9. CASE Stops # {}
  <2>1. Stops \in SUBSET Nat /\ Stops \subseteq Levels
    BY <1>4 DEF Levels
  <2> DEFINE p == Min(Stops)
  <2>2. p \in Stops /\ \A l \in Stops : p <= l
    BY <1>9, <2>1, MinNat
  <2> HIDE DEF p
  <2>3. p \in Levels /\ F(p) # {} /\ \A l \in Levels : F(l) # {} => l = p \/ p < l
    BY <1>4, <2>1, <2>2 DEF Levels
  <2>4. Lookup(v, tables, k, {}) = Newest(F(p))
    BY <1>1, <1>2, <1>9, <2>3 DEF p
  <2>5. \A f \in all : f \in F(p) \/ \A e \in F(p) : e.seq > f.seq
    BY <1>5, <1>6, <2>3 DEF NotOlder
  <2>6. \A e \in F(p) : e \in all
    BY <1>5, <2>3
  <2>7. \A f \in all : f.seq \in Nat
    BY <1>5, <1>7
  <2>8. Newest(F(p)) = Newest(all)
    BY <2>3, <2>5, <2>6, <2>7 DEF Newest
  <2> QED BY <2>4, <2>8 DEF all
<1> QED BY <1>8, <1>9

-----------------------------------------------------------------------------
(* What a flush and a compaction keep of what a lookup takes for granted.  *)

\* No two entries of one key have the same number.
OneEach(v, tables) ==
    \A k : \A e, f \in Stored(v, tables, k) : e.seq = f.seq => e = f

\* The files ids can be merged into one that fits between their level, l or
\* l + 1, and the others: no file that stays on level l + 1 reaches into them,
\* and what stays on level l is no older.
Mergeable(v, tables, l, ids) ==
    /\ \A id \in ids : \E p \in {l, l + 1} : \E m \in Range(v.levels[p]) : m.id = id
    /\ \A m \in Range(v.levels[l + 1]) : m.id \notin ids =>
           \/ \A id \in ids : \A k \in DOMAIN tables[id] : k < m.minKey
           \/ \A id \in ids : \A k \in DOMAIN tables[id] : m.maxKey < k
    /\ \A m \in Range(v.levels[l]) : m.id \notin ids =>
           \A id \in ids : \A k \in DOMAIN tables[m.id] \cap DOMAIN tables[id] :
               NotOlder(tables[m.id][k], tables[id][k])

\* The entries of a key, file by file.
LEMMA FoundFiles ==
    ASSUME NEW v, NEW tables, NEW k
    PROVE  /\ \A l : \A e : e \in Found(v, tables, l, k) <=>
                  \E m \in Range(v.levels[l]) : k \in DOMAIN tables[m.id] /\ e = tables[m.id][k]
           /\ \A e : e \in Stored(v, tables, k) <=>
                  \E l \in Levels : e \in Found(v, tables, l, k)
BY DEF Found, Stored

\* A lookup depends on the files of the version only.
LEMMA ReadableSame ==
    ASSUME NEW v, NEW tables, NEW u, Readable(v, tables),
           \A id \in v.sstables : u[id] = tables[id]
    PROVE  /\ Readable(v, u)
           /\ \A k : /\ \A l \in Levels : Found(v, u, l, k) = Found(v, tables, l, k)
                     /\ Stored(v, u, k) = Stored(v, tables, k)
<1>1. \A l \in Levels : \A m \in Range(v.levels[l]) :
          /\ m.id \in v.sstables /\ Bounded(m) /\ Describes(m, u[m.id])
          /\ u[m.id] = tables[m.id]
          /\ \A k \in DOMAIN u[m.id] : k \in Nat /\ u[m.id][k].seq \in Nat
  BY DEF Readable
<1>2. \A k : \A l \in Levels : Found(v, u, l, k) = Found(v, tables, l, k)
  <2> TAKE k
  <2> TAKE l \in Levels
  <2>1. \A m \in Range(v.levels[l]) : u[m.id] = tables[m.id]
    BY <1>1
  <2>2. \A e : e \in Found(v, u, l, k) <=>
            \E m \in Range(v.levels[l]) : k \in DOMAIN u[m.id] /\ e = u[m.id][k]
    BY DEF Found
  <2>3. \A e : e \in Found(v, tables, l, k) <=>
            \E m \in Range(v.levels[l]) : k \in DOMAIN tables[m.id] /\ e = tables[m.id][k]
    BY DEF Found
  <2> DEFINE F == Found(v, u, l, k)
             G == Found(v, tables, l, k)
  <2> HIDE DEF F, G
  <2>4. \A e : e \in F <=> e \in G
    BY <2>1, <2>2, <2>3 DEF F, G
  <2>5. F = G
    BY <2>4
  <2> QED BY <2>5 DEF F, G
<1>3. \A k : Stored(v, u, k) = Stored(v, tables, k)
  BY <1>2 DEF Stored
<1>4. SortedLevels(v)
  BY DEF Readable
<1>5. \A p, q \in Levels : p < q =>
          \A k : \A e \in Found(v, u, p, k), f \in Found(v, u, q, k) : NotOlder(e, f)
  BY <1>2 DEF Readable
<1>6. Readable(v, u)
  BY <1>1, <1>4, <1>5 DEF Readable
<1> QED BY <1>2, <1>3, <1>6

\* A table that is no older than the others goes to L0.
LEMMA AddedReadable ==
    ASSUME NEW S, NEW v \in Versions(S), NEW tables,
           Readable(v, tables), OneEach(v, tables),
           NEW meta \in S, meta.level = 0, Bounded(meta),
           NEW t, t = tables[meta.id], Describes(meta, t),
           \A k \in DOMAIN t : k \in Nat /\ t[k].seq \in Nat,
           \A k \in DOMAIN t : \A f \in Stored(v, tables, k) : NotOlder(t[k], f),
           NEW a, Added(S, v, meta, a)
    PROVE  /\ Readable(a, tables) /\ OneEach(a, tables)
           /\ \A k : Found(a, tables, 0, k) = Found(v, tables, 0, k) \cup EntryOf(t, k)
           /\ \A k : \A l \in Levels \ {0} : Found(a, tables, l, k) = Found(v, tables, l, k)
<1>1. /\ Range(a.levels[0]) = Range(v.levels[0]) \cup {meta}
      /\ \A l \in Levels \ {0} : a.levels[l] = v.levels[l]
      /\ a.sstables = v.sstables \cup {meta.id}
  <2>1. v.levels[0] \in Seq(S)
    BY DEF Versions, Levels
  <2>2. Range(Append(v.levels[0], meta)) = Range(v.levels[0]) \cup {meta}
    BY <2>1, AppendRange
  <2> QED BY <2>2 DEF Added
<1>2. \A k : Found(a, tables, 0, k) = Found(v, tables, 0, k) \cup EntryOf(t, k)
  <2> TAKE k
  <2>1. \A e : e \in Found(a, tables, 0, k) <=>
            \E m \in Range(a.levels[0]) : k \in DOMAIN tables[m.id] /\ e = tables[m.id][k]
    BY DEF Found
  <2>2. \A e : e \in Found(v, tables, 0, k) <=>
            \E m \in Range(v.levels[0]) : k \in DOMAIN tables[m.id] /\ e = tables[m.id][k]
    BY DEF Found
  <2>3. \A e : e \in EntryOf(t, k) <=> k \in DOMAIN tables[meta.id] /\ e = tables[meta.id][k]
    BY DEF EntryOf
  <2> QED BY <1>1, <2>1, <2>2, <2>3
<1>3. \A k : \A l \in Levels \ {0} : Found(a, tables, l, k) = Found(v, tables, l, k)
  BY <1>1 DEF Found
<1>4. ASSUME NEW k, NEW e \in EntryOf(t, k), NEW f \in Stored(v, tables, k)
      PROVE  NotOlder(e, f)
  BY <1>4 DEF EntryOf
<1>5. \A l \in Levels : \A m \in Range(a.levels[l]) :
          /\ m.id \in a.sstables /\ Bounded(m) /\ Describes(m, tables[m.id])
          /\ \A k \in DOMAIN tables[m.id] : k \in Nat /\ tables[m.id][k].seq \in Nat
  BY <1>1 DEF Readable
<1>6. SortedLevels(a)
  BY <1>1 DEF Readable, SortedLevels
<1>7. ASSUME NEW p \in Levels, NEW q \in Levels, p < q, NEW k,
             NEW e \in Found(a, tables, p, k), NEW f \in Found(a, tables, q, k)
      PROVE  NotOlder(e, f)
  <2>1. q # 0
    BY <1>7 DEF Levels
  <2>2. f \in Found(v, tables, q, k)
    BY <1>3, <1>7, <2>1
  <2>3. CASE e \in Found(v, tables, p, k)
    BY <1>7, <2>2, <2>3 DEF Readable
  <2>4. CASE e \in EntryOf(t, k)
    BY <1>4, <2>2, <2>4 DEF Stored
  <2> QED BY <1>2, <1>3, <1>7, <2>3, <2>4
<1>8. Readable(a, tables)
  BY <1>5, <1>6, <1>7 DEF Readable
<1>9. OneEach(a, tables)
  <2> SUFFICES ASSUME NEW k, NEW e \in Stored(a, tables, k), NEW f \in Stored(a, tables, k),
                      e.seq = f.seq
               PROVE  e = f
    BY DEF OneEach
  <2>1. \A x \in Stored(a, tables, k) : x \in Stored(v, tables, k) \/ x \in EntryOf(t, k)
    BY <1>2, <1>3, FoundFiles
  <2>2. \A x \in Stored(v, tables, k) : x.seq \in Nat
    BY FoundFiles DEF Readable
  <2>3. CASE e \in Stored(v, tables, k) /\ f \in Stored(v, tables, k)
    BY <2>3 DEF OneEach
  <2>4. CASE e \in EntryOf(t, k) /\ f \in EntryOf(t, k)
    BY <2>4 DEF EntryOf
  <2>5. CASE e \in EntryOf(t, k) /\ f \in Stored(v, tables, k)
    BY <1>4, <2>2, <2>5 DEF NotOlder
  <2>6. CASE e \in Stored(v, tables, k) /\ f \in EntryOf(t, k)
    BY <1>4, <2>2, <2>6 DEF NotOlder
  <2> QED BY <2>1, <2>3, <2>4, <2>5, <2>6
<1> QED BY <1>2, <1>3, <1>8, <1>9

\* t[k] comes from one of the files ids, on level l or l + 1.
TakenOver(v, tables, l, ids, t, k) ==
    \E id \in ids : \E p \in {l, l + 1} :
        k \in DOMAIN tables[id] /\ t[k] = tables[id][k] /\ t[k] \in Found(v, tables, p, k)

\* What the merge takes over of a key.
LEMMA MergedFound ==
    ASSUME NEW v, NEW tables, NEW l \in 0..2, NEW ids, Mergeable(v, tables, l, ids),
           NEW K, NEW t, Merged(K, tables, ids, t), NEW k \in DOMAIN t
    PROVE  TakenOver(v, tables, l, ids, t, k)
<1>1. PICK id \in ids : k \in DOMAIN tables[id] /\ t[k] = tables[id][k]
  BY DEF Merged
<1>2. PICK p \in {l, l + 1} : \E m \in Range(v.levels[p]) : m.id = id
  BY DEF Mergeable
<1>3. t[k] \in Found(v, tables, p, k)
  BY <1>1, <1>2 DEF Found
<1> QED BY <1>1, <1>2, <1>3 DEF TakenOver

\* Where the entries of a key are after a compaction.
LEMMA CompactedFound ==
    ASSUME NEW S, NEW v \in Versions(S), NEW tables, NEW l \in 0..2, NEW ids,
           Mergeable(v, tables, l, ids), NEW K, NEW t, Merged(K, tables, ids, t),
           NEW meta \in S, meta.level = l + 1, t = tables[meta.id],
           NEW c, Compacted(S, v, ids, meta, c), NEW k
    PROVE  /\ \A p \in Levels : \A e \in Found(c, tables, p, k) :
                  \/ e \in Found(v, tables, p, k)
                  \/ p = l + 1 /\ e \in Found(v, tables, l, k)
           /\ \A e \in Stored(c, tables, k) : e \in Stored(v, tables, k)
<1>1. \A p \in Levels : \A m \in Range(c.levels[p]) :
          \/ m \in Range(v.levels[p]) /\ m.id \notin ids
          \/ p = l + 1 /\ m = meta
  BY DEF Compacted
<1>2. ASSUME NEW p \in Levels, NEW e \in Found(c, tables, p, k)
      PROVE  \/ e \in Found(v, tables, p, k)
             \/ p = l + 1 /\ e \in Found(v, tables, l, k)
  <2>1. PICK m \in Range(c.levels[p]) : k \in DOMAIN tables[m.id] /\ e = tables[m.id][k]
    BY <1>2 DEF Found
  <2>2. CASE m \in Range(v.levels[p])
    BY <2>1, <2>2 DEF Found
  <2>3. CASE p = l + 1 /\ m = meta
    <3>1. k \in DOMAIN t /\ e = t[k]
      BY <2>1, <2>3
    <3> QED BY <2>3, <3>1, MergedFound DEF TakenOver
  <2> QED BY <1>1, <2>2, <2>3
<1>3. l \in Levels
  BY DEF Levels
<1>4. ASSUME NEW e \in Stored(c, tables, k)
      PROVE  e \in Stored(v, tables, k)
  <2>1. PICK p \in Levels : e \in Found(c, tables, p, k)
    BY <1>4 DEF Stored
  <2> QED BY <1>2, <1>3, <2>1 DEF Stored
<1> QED BY <1>2, <1>4

\* compactL0toL1, compactlevelN: what a lookup takes for granted stays so.
LEMMA CompactedReadable ==
    ASSUME NEW S, \A m \in S : Bounded(m),
           NEW v \in Versions(S), NEW tables, Readable(v, tables), OneEach(v, tables),
           NEW l \in 0..2, NEW ids, Mergeable(v, tables, l, ids),
           NEW K \in SUBSET Nat, NEW t, Merged(K, tables, ids, t),
           NEW meta \in S, meta.level = l + 1, t = tables[meta.id],
           Describes(meta, t), meta.minKey \in DOMAIN t, meta.maxKey \in DOMAIN t,
           NEW c, Compacted(S, v, ids, meta, c)
    PROVE  Readable(c, tables) /\ OneEach(c, tables)
<1>1. /\ c.sstables = (v.sstables \ ids) \cup {meta.id}
      /\ c.levels[l + 1] = Sorted(Append(Without(v.levels[l + 1], ids), meta))
      /\ \A p \in Levels : p # l + 1 => c.levels[p] = Without(v.levels[p], ids)
      /\ \A p \in Levels : \A m \in Range(c.levels[p]) :
             \/ m \in Range(v.levels[p]) /\ m.id \notin ids
             \/ p = l + 1 /\ m = meta
  BY DEF Compacted
<1>2. l \in Levels /\ l + 1 \in Levels /\ l \in Nat /\ l + 1 # 0
  BY DEF Levels
<1>3. \A p \in Levels : v.levels[p] \in Seq(S)
  BY DEF Versions
<1>4. IsTable(t, K)
  BY DEF Merged
<1>5. \A p \in Levels : \A m \in Range(c.levels[p]) :
          /\ m.id \in c.sstables /\ Bounded(m) /\ Describes(m, tables[m.id])
          /\ \A k \in DOMAIN tables[m.id] : k \in Nat /\ tables[m.id][k].seq \in Nat
  <2> SUFFICES ASSUME NEW p \in Levels, NEW m \in Range(c.levels[p])
               PROVE  /\ m.id \in c.sstables /\ Bounded(m) /\ Describes(m, tables[m.id])
                      /\ \A k \in DOMAIN tables[m.id] : k \in Nat /\ tables[m.id][k].seq \in Nat
    OBVIOUS
  <2>1. CASE m \in Range(v.levels[p]) /\ m.id \notin ids
    BY <1>1, <2>1 DEF Readable
  <2>2. CASE m = meta
    <3>1. \A k \in DOMAIN t : k \in Nat /\ t[k].seq \in Nat
      BY <1>4 DEF IsTable, Entry
    <3> QED BY <1>1, <2>2, <3>1
  <2> QED BY <1>1, <2>1, <2>2
<1>6. SortedLevels(c)
  <2>1. \A p \in Levels \ {0} : Ascending(v.levels[p])
    BY DEF Readable, SortedLevels, Ascending
  <2>2. ASSUME NEW p \in Levels, p # 0, p # l + 1
        PROVE  Ascending(c.levels[p])
    BY <1>1, <1>3, <2>1, <2>2, WithoutAscending
  <2>3. Ascending(c.levels[l + 1])
    <3> DEFINE left == Without(v.levels[l + 1], ids)
    <3>1. /\ left \in Seq(S) /\ Ascending(left)
          /\ Range(left) = {m \in Range(v.levels[l + 1]) : m.id \notin ids}
      BY <1>2, <1>3, <2>1, WithoutAscending, WithoutRange
    <3>2. \A m \in Range(v.levels[l + 1]) : Bounded(m)
      BY <1>2 DEF Readable
    <3>3. \E id \in ids : meta.minKey \in DOMAIN tables[id]
      BY DEF Merged
    <3>4. \E id \in ids : meta.maxKey \in DOMAIN tables[id]
      BY DEF Merged
    <3>5. meta.minKey \in Nat /\ meta.maxKey \in Nat
      BY <1>4 DEF IsTable
    <3> HIDE DEF left
    <3>6. \A m \in Range(left) : Apart(m, meta)
      <4> TAKE m \in Range(left)
      <4>1. m \in Range(v.levels[l + 1]) /\ m.id \notin ids /\ Bounded(m)
        BY <3>1, <3>2
      <4>2. CASE \A id \in ids : \A k \in DOMAIN tables[id] : k < m.minKey
        BY <3>4, <4>2 DEF Apart
      <4>3. CASE \A id \in ids : \A k \in DOMAIN tables[id] : m.maxKey < k
        BY <3>3, <4>3 DEF Apart
      <4> QED BY <4>1, <4>2, <4>3 DEF Mergeable
    <3>7. Ascending(Sorted(Append(left, meta)))
      BY <3>1, <3>6, SortedAscending
    <3> QED BY <1>1, <3>7 DEF left
  <2> QED BY <2>2, <2>3 DEF SortedLevels, Ascending
<1>7. ASSUME NEW p \in Levels, NEW q \in Levels, p < q, NEW k,
             NEW e \in Found(c, tables, p, k), NEW f \in Found(c, tables, q, k)
      PROVE  NotOlder(e, f)
  <2>1. PICK a \in Range(c.levels[p]) : k \in DOMAIN tables[a.id] /\ e = tables[a.id][k]
    BY <1>7 DEF Found
  <2>2. PICK b \in Range(c.levels[q]) : k \in DOMAIN tables[b.id] /\ f = tables[b.id][k]
    BY <1>7 DEF Found
  <2>3. CASE a \in Range(v.levels[p]) /\ b \in Range(v.levels[q])
    <3>1. e \in Found(v, tables, p, k) /\ f \in Found(v, tables, q, k)
      BY <2>1, <2>2, <2>3 DEF Found
    <3> QED BY <1>7, <3>1 DEF Readable
  <2>4. CASE a = meta /\ p = l + 1 /\ b \in Range(v.levels[q])
    <3>1. k \in DOMAIN t /\ e = t[k] /\ f \in Found(v, tables, q, k)
      BY <2>1, <2>2, <2>4 DEF Found
    <3>2. PICK r \in {l, l + 1} : e \in Found(v, tables, r, k)
      BY <3>1, MergedFound DEF TakenOver
    <3>3. r \in Levels /\ r < q
      BY <1>2, <1>7, <2>4 DEF Levels
    <3> QED BY <3>1, <3>2, <3>3 DEF Readable
  <2>5. CASE a \in Range(v.levels[p]) /\ a.id \notin ids /\ b = meta /\ q = l + 1
    <3>1. k \in DOMAIN t /\ f = t[k] /\ e \in Found(v, tables, p, k)
      BY <2>1, <2>2, <2>5 DEF Found
    <3>6. TakenOver(v, tables, l, ids, t, k)
      BY <3>1, MergedFound
    <3>7. PICK id \in ids : \E r \in {l, l + 1} :
              k \in DOMAIN tables[id] /\ f = tables[id][k] /\ f \in Found(v, tables, r, k)
      BY <3>1, <3>6 DEF TakenOver
    <3>2. PICK r \in {l, l + 1} :
              k \in DOMAIN tables[id] /\ f = tables[id][k] /\ f \in Found(v, tables, r, k)
      BY <3>7
    <3>3. CASE p < r
      BY <1>2, <3>1, <3>2, <3>3 DEF Readable
    <3>4. CASE p = l
      <4>1. k \in DOMAIN tables[a.id] \cap DOMAIN tables[id]
        BY <2>1, <3>2
      <4> QED BY <2>1, <2>5, <3>2, <3>4, <4>1 DEF Mergeable
    <3>5. p < r \/ p = l
      BY <1>2, <1>7, <2>5, <3>2 DEF Levels
    <3> QED BY <3>3, <3>4, <3>5
  <2>6. ~(p = l + 1 /\ q = l + 1)
    BY <1>2, <1>7 DEF Levels
  <2> QED BY <1>1, <2>3, <2>4, <2>5, <2>6
<1>8. Readable(c, tables)
  BY <1>5, <1>6, <1>7 DEF Readable
<1>9. OneEach(c, tables)
  BY CompactedFound DEF OneEach
<1> QED BY <1>8, <1>9

\* The newest entry of a key stays, unless it is a tombstone: then it may go,
\* with all that L0 and L1 hold of the key.
LEMMA CompactedNewest ==
    ASSUME NEW S, NEW v \in Versions(S), NEW tables, Readable(v, tables),
           NEW l \in 0..2, NEW ids, Mergeable(v, tables, l, ids),
           NEW K, NEW t, Merged(K, tables, ids, t),
           NEW meta \in S, meta.level = l + 1, t = tables[meta.id],
           NEW c, Compacted(S, v, ids, meta, c),
           NEW k, NEW e \in Stored(v, tables, k),
           \A f \in Stored(v, tables, k) : NotOlder(e, f)
    PROVE  \/ e \in Stored(c, tables, k)
           \/ /\ e.type # "PUT"
              /\ Found(c, tables, 0, k) = {} /\ Found(c, tables, 1, k) = {}
<1>1. PICK p \in Levels : \E m \in Range(v.levels[p]) : k \in DOMAIN tables[m.id] /\ e = tables[m.id][k]
  BY DEF Stored, Found
<1>2. PICK m \in Range(v.levels[p]) : k \in DOMAIN tables[m.id] /\ e = tables[m.id][k]
  BY <1>1
<1>3. l \in Levels /\ l + 1 \in Levels /\ l \in Nat /\ 0 \in Levels /\ 1 \in Levels
  BY DEF Levels
<1>4. /\ meta \in Range(c.levels[l + 1])
      /\ \A q \in Levels : \A n \in Range(v.levels[q]) : n.id \notin ids => n \in Range(c.levels[q])
      /\ \A q \in Levels : \A n \in Range(c.levels[q]) :
             \/ n \in Range(v.levels[q]) /\ n.id \notin ids
             \/ q = l + 1 /\ n = meta
  BY <1>3 DEF Compacted
<1>5. \A f \in Stored(v, tables, k) : f.seq \in Nat
  BY FoundFiles DEF Readable
<1>6. CASE m.id \notin ids
  <2>1. e \in Found(c, tables, p, k)
    BY <1>2, <1>4, <1>6 DEF Found
  <2> QED BY <2>1 DEF Stored
<1>7. CASE m.id \in ids /\ k \in DOMAIN t
  <2>1. PICK q \in {l, l + 1} : t[k] \in Found(v, tables, q, k)
    BY <1>7, MergedFound DEF TakenOver
  <2>2. t[k] \in Stored(v, tables, k)
    BY <1>3, <2>1 DEF Stored
  <2>3. t[k].seq >= e.seq
    BY <1>2, <1>7 DEF Merged
  <2>4. t[k] = e
    BY <1>5, <2>2, <2>3 DEF NotOlder
  <2>5. e \in Found(c, tables, l + 1, k)
    BY <1>4, <1>7, <2>4 DEF Found
  <2> QED BY <1>3, <2>5 DEF Stored
<1>8. CASE m.id \in ids /\ k \notin DOMAIN t /\ e \notin Stored(c, tables, k)
  <2>1. \A id \in ids : k \in DOMAIN tables[id] => tables[id][k] \in Stored(v, tables, k)
    BY <1>3, FoundFiles DEF Mergeable
  <2>2. \A id \in ids : k \in DOMAIN tables[id] => e.seq >= tables[id][k].seq
    BY <1>5, <2>1 DEF NotOlder
  <2>3. e.type # "PUT"
    BY <1>2, <1>8, <2>2 DEF Merged
  <2>4. ASSUME NEW q \in {0, 1}, NEW f \in Found(c, tables, q, k) PROVE FALSE
    <3>1. PICK n \in Range(c.levels[q]) : k \in DOMAIN tables[n.id] /\ f = tables[n.id][k]
      BY <2>4 DEF Found
    <3>2. n \in Range(v.levels[q]) /\ n.id \notin ids
      BY <1>3, <1>4, <1>8, <3>1
    <3>3. f \in Found(v, tables, q, k) /\ f \in Stored(v, tables, k)
      BY <1>3, <3>1, <3>2 DEF Found, Stored
    <3>4. f \in Stored(c, tables, k)
      BY <1>3, <2>4 DEF Stored
    <3>5. ~NotOlder(f, e)
      BY <1>5, <1>8, <3>3, <3>4 DEF NotOlder
    <3>6. PICK r \in {l, l + 1} : \E x \in Range(v.levels[r]) : x.id = m.id
      BY <1>8 DEF Mergeable
    <3>7. e \in Found(v, tables, r, k) /\ r \in Levels
      BY <1>2, <1>3, <3>6 DEF Found
    <3>8. ~(q < r)
      BY <1>3, <3>3, <3>5, <3>7 DEF Readable
    <3>9. CASE q = l
      <4>1. k \in DOMAIN tables[n.id] \cap DOMAIN tables[m.id]
        BY <1>2, <3>1
      <4> QED BY <1>2, <1>8, <3>1, <3>2, <3>5, <3>9, <4>1 DEF Mergeable
    <3>10. CASE q = l + 1
      <4>1. /\ n \in Range(v.levels[l + 1]) /\ n.minKey \in Nat /\ n.maxKey \in Nat
            /\ k \in Nat /\ n.minKey <= k /\ k <= n.maxKey
        BY <1>3, <3>1, <3>2, <3>10 DEF Readable, Describes, Bounded
      <4>2. \/ k < n.minKey
            \/ n.maxKey < k
        BY <1>2, <1>8, <3>2, <4>1 DEF Mergeable
      <4> QED BY <4>1, <4>2
    <3>11. q = l \/ q = l + 1
      BY <3>6, <3>8, <1>3
    <3> QED BY <3>9, <3>10, <3>11
  <2> QED BY <2>3, <2>4
<1> QED BY <1>6, <1>7, <1>8

\* A file that a compaction leaves on the level below its inputs lies on one
\* side of all of them.
LEMMA OutsideHull ==
    ASSUME NEW K \in SUBSET Nat, IsFiniteSet(K), NEW S,
           \A m \in S : m.minKey \in K /\ m.maxKey \in K,
           NEW v \in Versions(S), NEW tables, Readable(v, tables),
           NEW l \in 0..2, v.levels[l] # <<>>,
           NEW m \in Range(v.levels[l + 1]), m \notin Overlapping(v, l)
    PROVE  \/ \A n \in Sources(v, l) \cup Overlapping(v, l) : m.maxKey < n.minKey
           \/ \A n \in Sources(v, l) \cup Overlapping(v, l) : n.maxKey < m.minKey
<1> DEFINE src == Sources(v, l)
           over == Overlapping(v, l)
           low == Min({n.minKey : n \in src})
           high == Max({n.maxKey : n \in src})
<1>1. /\ l \in Levels /\ l + 1 \in Levels /\ l + 1 # 0
      /\ v.levels[l] \in Seq(S) /\ v.levels[l + 1] \in Seq(S)
  BY DEF Levels, Versions
<1>2. 1 \in DOMAIN v.levels[l] /\ Head(v.levels[l]) = v.levels[l][1]
  BY <1>1
<1>3. /\ src \subseteq Range(v.levels[l]) /\ src # {}
      /\ over \subseteq Range(v.levels[l + 1])
  BY <1>2 DEF Sources, Overlapping, Range
<1>4. \A p \in {l, l + 1} : \A n \in Range(v.levels[p]) :
          n.minKey \in K /\ n.maxKey \in K /\ Bounded(n)
  <2> SUFFICES ASSUME NEW p \in {l, l + 1}, NEW n \in Range(v.levels[p])
               PROVE  n.minKey \in K /\ n.maxKey \in K /\ Bounded(n)
    OBVIOUS
  <2>1. n \in S
    BY <1>1 DEF Range
  <2> QED BY <1>1, <2>1 DEF Readable
<1>5. over = {n \in Range(v.levels[l + 1]) : ~(n.maxKey < low \/ n.minKey > high)}
  BY DEF Overlapping
<1>6. low \in Nat /\ \A n \in src : low <= n.minKey
  <2> DEFINE T == {n.minKey : n \in src}
  <2>1. T \in SUBSET Nat /\ T # {}
    BY <1>3, <1>4
  <2>2. Min(T) \in T /\ \A x \in T : Min(T) <= x
    BY <2>1, MinNat
  <2> QED BY <2>1, <2>2
<1>7. high \in Nat /\ \A n \in src : n.maxKey <= high
  <2> DEFINE T == {n.maxKey : n \in src}
  <2>1. T \in SUBSET K /\ T # {}
    BY <1>3, <1>4
  <2>2. T \in SUBSET Nat /\ IsFiniteSet(T)
    BY <2>1, FS_Subset
  <2>3. Max(T) \in T /\ \A x \in T : x <= Max(T)
    BY <2>1, <2>2, MaxFinite
  <2> QED BY <2>2, <2>3
<1> HIDE DEF low, high, src, over
<1>8. m.maxKey < low \/ m.minKey > high
  BY <1>5 DEF over
<1>9. \A n \in over : n.maxKey >= low /\ n.minKey <= high
  BY <1>3, <1>4, <1>5, <1>6, <1>7 DEF Bounded
<1>10. \A n \in over : Apart(m, n)
  <2> TAKE n \in over
  <2>1. Ascending(v.levels[l + 1]) /\ DOMAIN v.levels[l + 1] \subseteq Nat
    <3>1. Ascending(v.levels[l + 1])
      BY <1>1 DEF Readable, SortedLevels, Ascending
    <3> QED BY <1>1, <3>1
  <2>2. m # n
    BY DEF over
  <2> QED BY <1>3, <2>1, <2>2, AscendingApart
<1>11. CASE m.maxKey < low
  <2>1. \A n \in src : m.maxKey < n.minKey
    BY <1>3, <1>4, <1>6, <1>11 DEF Bounded
  <2>2. \A n \in over : m.maxKey < n.minKey
    BY <1>3, <1>4, <1>6, <1>9, <1>10, <1>11 DEF Bounded, Apart
  <2> QED BY <2>1, <2>2 DEF src, over
<1>12. CASE m.minKey > high
  <2>1. \A n \in src : n.maxKey < m.minKey
    BY <1>3, <1>4, <1>7, <1>12 DEF Bounded
  <2>2. \A n \in over : n.maxKey < m.minKey
    BY <1>3, <1>4, <1>7, <1>9, <1>10, <1>12 DEF Bounded, Apart
  <2> QED BY <2>1, <2>2 DEF src, over
<1> QED BY <1>8, <1>11, <1>12

\* compactL0toL1, compactlevelN: the files they choose can be merged.
LEMMA InputsMergeable ==
    ASSUME NEW K \in SUBSET Nat, IsFiniteSet(K), NEW S,
           \A m \in S : m.minKey \in K /\ m.maxKey \in K,
           NEW v \in Versions(S), NEW tables, Readable(v, tables),
           NEW l \in 0..2, v.levels[l] # <<>>
    PROVE  Mergeable(v, tables, l, CompactionInputs(v, l))
<1> DEFINE ids == CompactionInputs(v, l)
           src == Sources(v, l)
           over == Overlapping(v, l)
<1>1. /\ l \in Levels /\ l + 1 \in Levels /\ l < l + 1
      /\ v.levels[l] \in Seq(S)
  BY DEF Levels, Versions
<1>2. 1 \in DOMAIN v.levels[l] /\ Head(v.levels[l]) = v.levels[l][1]
  BY <1>1
<1>3. src \subseteq Range(v.levels[l]) /\ over \subseteq Range(v.levels[l + 1])
  BY <1>2 DEF Sources, Overlapping, Range
<1>4. /\ \A n \in src \cup over : n.id \in ids
      /\ \A id \in ids : \E n \in src \cup over : n.id = id
  BY <1>1, <1>3 DEF CompactionInputs, Readable
<1>5. \A p \in {l, l + 1} : \A n \in Range(v.levels[p]) :
          /\ Bounded(n)
          /\ \A k \in DOMAIN tables[n.id] : k \in Nat /\ n.minKey <= k /\ k <= n.maxKey
  BY <1>1 DEF Readable, Describes
<1>6. ASSUME NEW m \in Range(v.levels[l + 1]), m.id \notin ids
      PROVE  \/ \A id \in ids : \A k \in DOMAIN tables[id] : k < m.minKey
             \/ \A id \in ids : \A k \in DOMAIN tables[id] : m.maxKey < k
  <2>1. m \notin over
    BY <1>4, <1>6
  <2>2. \/ \A n \in src \cup over : m.maxKey < n.minKey
        \/ \A n \in src \cup over : n.maxKey < m.minKey
    BY <2>1, OutsideHull
  <2> HIDE DEF ids, src, over
  <2>3. Bounded(m)
    BY <1>5
  <2>4. CASE \A n \in src \cup over : m.maxKey < n.minKey
    BY <1>3, <1>4, <1>5, <2>3, <2>4 DEF Bounded
  <2>5. CASE \A n \in src \cup over : n.maxKey < m.minKey
    BY <1>3, <1>4, <1>5, <2>3, <2>5 DEF Bounded
  <2> QED BY <2>2, <2>4, <2>5
<1>7. ASSUME NEW m \in Range(v.levels[l]), m.id \notin ids, NEW id \in ids,
             NEW k \in DOMAIN tables[m.id] \cap DOMAIN tables[id]
      PROVE  NotOlder(tables[m.id][k], tables[id][k])
  <2>1. PICK n \in src \cup over : n.id = id
    BY <1>4
  <2>2. CASE n \in over
    <3>1. n \in Range(v.levels[l + 1])
      BY <1>3, <2>2
    <3>2. /\ tables[m.id][k] \in Found(v, tables, l, k)
          /\ tables[id][k] \in Found(v, tables, l + 1, k)
      BY <2>1, <3>1 DEF Found
    <3> QED BY <1>1, <3>2 DEF Readable
  <2>3. CASE n \in src
    <3>1. m \notin src
      BY <1>4, <1>7
    <3>2. l # 0
      BY <3>1 DEF Sources
    <3>3. Ascending(v.levels[l]) /\ DOMAIN v.levels[l] \subseteq Nat
      <4>1. Ascending(v.levels[l])
        BY <1>1, <3>2 DEF Readable, SortedLevels, Ascending
      <4> QED BY <1>1, <4>1
    <3>4. Apart(m, n)
      BY <1>3, <2>3, <3>1, <3>3, AscendingApart
    <3>5. /\ Bounded(m) /\ Bounded(n) /\ k \in Nat
          /\ m.minKey <= k /\ k <= m.maxKey /\ n.minKey <= k /\ k <= n.maxKey
      BY <1>3, <1>5, <2>1, <2>3
    <3> QED BY <3>4, <3>5 DEF Apart, Bounded
  <2> QED BY <2>1, <2>2, <2>3
<1>8. \A id \in ids : \E p \in {l, l + 1} : \E m \in Range(v.levels[p]) : m.id = id
  BY <1>3, <1>4
<1> QED BY <1>6, <1>7, <1>8 DEF Mergeable

\* They still can after another file has come to L0.
LEMMA AddedMergeable ==
    ASSUME NEW S, NEW v \in Versions(S), NEW tables,
           NEW l \in 0..2, NEW ids, Mergeable(v, tables, l, ids),
           NEW meta \in S, meta.level = 0, meta.id \notin ids,
           NEW t, t = tables[meta.id],
           \A k \in DOMAIN t : \A f \in Stored(v, tables, k) : NotOlder(t[k], f),
           NEW a, Added(S, v, meta, a)
    PROVE  Mergeable(a, tables, l, ids)
<1>1. /\ Range(a.levels[0]) = Range(v.levels[0]) \cup {meta}
      /\ \A p \in Levels \ {0} : a.levels[p] = v.levels[p]
  <2>1. v.levels[0] \in Seq(S)
    BY DEF Versions, Levels
  <2>2. Range(Append(v.levels[0], meta)) = Range(v.levels[0]) \cup {meta}
    BY <2>1, AppendRange
  <2> QED BY <2>2 DEF Added
<1>2. l \in Levels /\ l + 1 \in Levels \ {0}
  BY DEF Levels
<1>3. \A id \in ids : \E p \in {l, l + 1} : \E m \in Range(a.levels[p]) : m.id = id
  BY <1>1, <1>2 DEF Mergeable
<1>4. a.levels[l + 1] = v.levels[l + 1]
  BY <1>1, <1>2
<1>5. ASSUME NEW m \in Range(a.levels[l]), m.id \notin ids, NEW id \in ids,
             NEW k \in DOMAIN tables[m.id] \cap DOMAIN tables[id]
      PROVE  NotOlder(tables[m.id][k], tables[id][k])
  <2>1. CASE m \in Range(v.levels[l])
    BY <1>5, <2>1 DEF Mergeable
  <2>2. CASE m = meta
    <3>1. PICK p \in {l, l + 1} : \E n \in Range(v.levels[p]) : n.id = id
      BY DEF Mergeable
    <3>2. tables[id][k] \in Stored(v, tables, k)
      BY <1>2, <3>1 DEF Stored, Found
    <3> QED BY <2>2, <3>2
  <2> QED BY <1>1, <1>2, <2>1, <2>2
<1> QED BY <1>3, <1>4, <1>5 DEF Mergeable

\* They still can after a new file has been written.
LEMMA MergeableSame ==
    ASSUME NEW v, NEW tables, NEW u, NEW l \in 0..2, NEW ids, Mergeable(v, tables, l, ids),
           Readable(v, tables), \A id \in v.sstables : u[id] = tables[id]
    PROVE  Mergeable(v, u, l, ids)
<1>1. l \in Levels /\ l + 1 \in Levels
  BY DEF Levels
<1>2. \A p \in {l, l + 1} : \A m \in Range(v.levels[p]) : u[m.id] = tables[m.id]
  BY <1>1 DEF Readable
<1>3. \A id \in ids : u[id] = tables[id]
  BY <1>2 DEF Mergeable
<1> QED BY <1>2, <1>3 DEF Mergeable
=============================================================================
