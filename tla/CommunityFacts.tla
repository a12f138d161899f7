--------------------------- MODULE CommunityFacts ---------------------------
(***************************************************************************)
(* Facts about operators of the community modules that the proofs cite:    *)
(* Min and Max of sets of numbers, and FlattenSeq.  What is true of all    *)
(* numbers is shown by the least counterexample.                           *)
(***************************************************************************)
EXTENDS Integers, SequencesExt, FiniteSetTheorems, SequenceTheorems, WellFoundedInduction, TLAPS

\* A set of numbers has a least.
LEMMA LeastNat == ASSUME NEW T, T \subseteq Nat, T # {} PROVE \E x \in T : \A y \in T : x <= y
<1>1. \E x \in T : \A y \in T : ~(<<y, x>> \in OpToRel(<, Nat))
  BY NatLessThanWellFounded, WFMin
<1>2. OpToRel(<, Nat) = {ss \in Nat \X Nat : ss[1] < ss[2]}
  BY Zenon DEF OpToRel
<1>3. PICK x \in T : \A y \in T : ~(<<y, x>> \in {ss \in Nat \X Nat : ss[1] < ss[2]})
  BY <1>1, <1>2, Zenon
<1>4. \A y \in T : <<y, x>> \in Nat \X Nat
  OBVIOUS
<1>5. ASSUME NEW y \in T PROVE x <= y
  <2>1. ~(<<y, x>>[1] < <<y, x>>[2])
    BY <1>3, <1>4, Zenon
  <2> QED BY <2>1
<1> QED BY <1>5

\* Min is one of the set and the least of it.
LEMMA MinNat == ASSUME NEW T, T \subseteq Nat, T # {} PROVE Min(T) \in T /\ \A y \in T : Min(T) <= y
BY LeastNat DEF Min


\* A row of numbers has a greatest.
LEMMA Greatest ==
  ASSUME NEW n \in Nat, n # 0, NEW f \in [1..n -> Nat]
  PROVE  \E m \in 1..n : \A i \in 1..n : f[i] <= f[m]
<1> DEFINE Has(k) == \E m \in 1..k : \A i \in 1..k : f[i] <= f[m]
<1> DEFINE T == {k \in 1..n : ~Has(k)}
<1>1. \A k \in 1..n : k \in T <=> ~Has(k)
  OBVIOUS
<1>2. T \subseteq 1..n
  OBVIOUS
<1> HIDE DEF T, Has
<1>3. SUFFICES T = {}
  <2>1. n \in 1..n
    OBVIOUS
  <2> QED BY <1>1, <2>1 DEF Has
<1>4. SUFFICES ASSUME T # {} PROVE FALSE
  OBVIOUS
<1>5. PICK k \in T : \A j \in T : k <= j
  <2>1. T \subseteq Nat
    BY <1>2
  <2> QED BY <1>4, <2>1, LeastNat
<1>6. k \in 1..n /\ ~Has(k)
  BY <1>1, <1>2, <1>5
<1>7. f[k] \in Nat
  BY <1>6
<1>8. k # 1
  BY <1>6 DEF Has
<1>9. k - 1 \in 1..n /\ ~(k - 1 \in T)
  <2>1. k - 1 \in 1..n /\ ~(k <= k - 1)
    BY <1>6, <1>8
  <2> QED BY <1>5, <2>1
<1>10. PICK m \in 1..(k-1) : \A i \in 1..(k-1) : f[i] <= f[m]
  BY <1>1, <1>9 DEF Has
<1>11. f[m] \in Nat /\ \A i \in 1..(k-1) : f[i] \in Nat
  BY <1>6
<1>12. \A i \in 1..k : i = k \/ i \in 1..(k-1)
  BY <1>6
<1>13. CASE f[m] <= f[k]
  <2>1. ASSUME NEW i \in 1..k PROVE f[i] <= f[k]
    BY <1>7, <1>10, <1>11, <1>12, <1>13
  <2> QED BY <1>6, <2>1 DEF Has
<1>14. CASE f[k] < f[m]
  <2>1. ASSUME NEW i \in 1..k PROVE f[i] <= f[m]
    BY <1>7, <1>10, <1>11, <1>12, <1>14
  <2> QED BY <1>6, <2>1 DEF Has
<1> QED BY <1>7, <1>11, <1>13, <1>14

\* Max is one of the set and the greatest of it, when it is within an interval.
LEMMA MaxNat ==
  ASSUME NEW n \in Nat, NEW T, T \subseteq 1..n, T # {}
  PROVE  Max(T) \in T /\ \A y \in T : y <= Max(T)
<1> DEFINE D == {n - y : y \in T}
<1>1. D \subseteq Nat /\ D # {}
  <2>1. \A y \in T : n - y \in Nat
    OBVIOUS
  <2> QED BY <2>1
<1>2. PICK d \in D : \A e \in D : d <= e
  BY <1>1, LeastNat
<1>3. PICK x \in T : d = n - x
  BY <1>2
<1>4. ASSUME NEW y \in T PROVE y <= x
  <2>1. d <= n - y
    BY <1>2
  <2> QED BY <1>3, <2>1
<1> QED BY <1>4 DEF Max

\* FlattenSeq: the recursive function exists, and so what it makes is a sequence.
LEMMA FlattenIsSeq ==
  ASSUME NEW S, NEW seqs \in Seq(Seq(S))
  PROVE  FlattenSeq(seqs) \in Seq(S)
<1> DEFINE n == Len(seqs)
<1>0. n \in Nat /\ \A i \in 1..n : seqs[i] \in Seq(S)
  OBVIOUS
<1>1. CASE n = 0
  <2>1. seqs = << >>
    BY <1>1, EmptySeq
  <2> QED BY <2>1 DEF FlattenSeq
<1>2. CASE n # 0
  <2> DEFINE F(g, k) == [i \in 1..k |-> IF i = 1 THEN seqs[i] ELSE g[i-1] \o seqs[i]]
  <2> DEFINE Has(k) == \E g : g \in [1..k -> Seq(S)] /\ g = F(g, k)
  <2> DEFINE T == {k \in 1..n : ~Has(k)}
  <2>1. \A k \in 1..n : k \in T <=> ~Has(k)
    OBVIOUS
  <2>2. T \subseteq 1..n
    OBVIOUS
  <2>3. Has(1)
    <3> DEFINE g == [i \in 1..1 |-> seqs[i]]
    <3>1. g \in [1..1 -> Seq(S)]
      BY <1>0, <1>2
    <3>2. g = F(g, 1)
      OBVIOUS
    <3> HIDE DEF g
    <3> QED BY <3>1, <3>2
  <2>4. ASSUME NEW k \in 1..n, k # 1, Has(k-1) PROVE Has(k)
    <3>1. PICK g : g \in [1..(k-1) -> Seq(S)] /\ g = F(g, k-1)
      BY <2>4
    <3> DEFINE h == [i \in 1..k |-> IF i = k THEN g[k-1] \o seqs[k] ELSE g[i]]
    <3>2. h \in [1..k -> Seq(S)]
      <4>1. g[k-1] \o seqs[k] \in Seq(S)
        <5>1. g[k-1] \in Seq(S) /\ seqs[k] \in Seq(S)
          BY <1>0, <2>4, <3>1
        <5> QED BY <5>1, ConcatProperties
      <4>2. \A i \in 1..k : i # k => g[i] \in Seq(S)
        BY <2>4, <3>1
      <4> QED BY <4>1, <4>2
    <3>3. ASSUME NEW i \in 1..k PROVE h[i] = IF i = 1 THEN seqs[i] ELSE h[i-1] \o seqs[i]
      <4>1. CASE i = k
        <5>1. k \in 1..k /\ k - 1 \in 1..k /\ k - 1 # k
          BY <2>4
        <5>2. h[k-1] = g[k-1] /\ h[k] = g[k-1] \o seqs[k]
          BY <5>1
        <5> QED BY <2>4, <4>1, <5>2
      <4>2. CASE i # k
        <5>1. i \in 1..(k-1)
          BY <2>4, <4>2
        <5>2. g[i] = IF i = 1 THEN seqs[i] ELSE g[i-1] \o seqs[i]
          BY <3>1, <5>1
        <5>3. i # 1 => i - 1 \in 1..k /\ i - 1 # k
          BY <2>4, <5>1
        <5> QED BY <4>2, <5>2, <5>3
      <4> QED BY <4>1, <4>2
    <3>4. h = F(h, k)
      BY <3>3
    <3> HIDE DEF h, F
    <3> QED BY <3>2, <3>4
  <2> HIDE DEF T, Has
  <2>5. Has(n)
    <3>1. SUFFICES T = {}
      <4>1. n \in 1..n
        BY <1>0, <1>2
      <4> QED BY <2>1, <3>1, <4>1
    <3>2. SUFFICES ASSUME T # {} PROVE FALSE
      OBVIOUS
    <3>3. PICK k \in T : \A j \in T : k <= j
      <4>1. T \subseteq Nat
        BY <2>2
      <4> QED BY <3>2, <4>1, LeastNat
    <3>4. k \in 1..n /\ k # 1 /\ ~Has(k)
      BY <2>1, <2>2, <2>3, <3>3
    <3>5. k - 1 \in 1..n /\ ~(k <= k - 1)
      BY <1>0, <3>4
    <3>6. Has(k - 1)
      BY <2>1, <3>3, <3>5
    <3> QED BY <2>4, <3>4, <3>6
  <2>6. PICK g : g \in [1..n -> Seq(S)] /\ g = F(g, n)
    BY <2>5 DEF Has
  <2> DEFINE f == CHOOSE f : f = F(f, n)
  <2>7. f = F(f, n)
    BY <2>6
  <2>8. FlattenSeq(seqs) = f[n]
    BY <1>2 DEF FlattenSeq
  <2> HIDE DEF f
  <2>9. \A i \in 1..n : f[i] = IF i = 1 THEN seqs[i] ELSE f[i-1] \o seqs[i]
    BY <2>7
  <2> DEFINE U == {i \in 1..n : f[i] \notin Seq(S)}
  <2>10. SUFFICES U = {}
    BY <1>0, <1>2, <2>8
  <2>11. SUFFICES ASSUME U # {} PROVE FALSE
    OBVIOUS
  <2>12. PICK k \in U : \A j \in U : k <= j
    <3>1. U \subseteq Nat
      OBVIOUS
    <3> QED BY <2>11, <3>1, LeastNat
  <2>13. CASE k = 1
    BY <1>0, <2>9, <2>12, <2>13
  <2>14. CASE k # 1
    <3>1. k - 1 \in 1..n /\ ~(k <= k - 1)
      BY <2>12, <2>14
    <3>2. f[k-1] \in Seq(S) /\ seqs[k] \in Seq(S)
      BY <1>0, <2>12, <3>1
    <3>3. f[k-1] \o seqs[k] \in Seq(S)
      BY <3>2, ConcatProperties
    <3> QED BY <2>9, <2>12, <2>14, <3>3
  <2> QED BY <2>13, <2>14
<1> QED BY <1>1, <1>2
=============================================================================
