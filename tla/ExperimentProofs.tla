--------------------------- MODULE ExperimentProofs ---------------------------
(* Proofs about Experiment, for any matrix, any load generators, any number  *)
(* of failures and any times.                                                *)
EXTENDS Experiment, SequenceTheorems, FiniteSetTheorems,
        FunctionTheorems, WellFoundedInduction, TLAPS

-----------------------------------------------------------------------------
(* Putting things in order.                                                  *)

LEMMA Smallest ==
  ASSUME NEW T \in SUBSET Nat, T # {}
  PROVE  \E x \in T : \A y \in T : x <= y
<1>1. PICK x \in T : \A y \in T : <<y, x>> \notin OpToRel(<, Nat)
  BY NatLessThanWellFounded, WFMin
<1>2. \A y \in T : ~(y < x)
  BY <1>1 DEF OpToRel
<1> QED
  BY <1>2

\* An increasing sequence of indices: an element's place is the number of those
\* that are not after it, which is another for each element.
LEMMA OrderExists ==
    ASSUME NEW n \in Nat, NEW key \in [1..n -> Nat]
    PROVE  \E p \in [1..n -> 1..n] :
             /\ IsInjective(p)
             /\ \A j, k \in 1..n : j < k => key[p[j]] <= key[p[k]]
<1> DEFINE upTo(i) == {j \in 1..n : key[j] < key[i] \/ (key[j] = key[i] /\ j <= i)}
           rank == [i \in 1..n |-> Cardinality(upTo(i))]
<1>1. IsFiniteSet(1..n) /\ Cardinality(1..n) = n
  BY FS_Interval
<1>2. \A i \in 1..n : /\ upTo(i) \in SUBSET (1..n) /\ IsFiniteSet(upTo(i))
                      /\ i \in upTo(i) /\ rank[i] \in 1..n
  <2> SUFFICES ASSUME NEW i \in 1..n
               PROVE  /\ upTo(i) \in SUBSET (1..n) /\ IsFiniteSet(upTo(i))
                      /\ i \in upTo(i) /\ rank[i] \in 1..n
      OBVIOUS
  <2>1. upTo(i) \in SUBSET (1..n) /\ i \in upTo(i)
    OBVIOUS
  <2> HIDE DEF upTo
  <2>2. IsFiniteSet(upTo(i)) /\ Cardinality(upTo(i)) <= n /\ Cardinality(upTo(i)) \in Nat
    BY <1>1, <2>1, FS_Subset, FS_CardinalityType
  <2>3. Cardinality(upTo(i)) # 0
    BY <2>1, <2>2, FS_EmptySet
  <2> QED
    BY <2>1, <2>2, <2>3
<1>3. ASSUME NEW i \in 1..n, NEW j \in 1..n, key[i] < key[j] \/ (key[i] = key[j] /\ i < j)
      PROVE  rank[i] < rank[j]
  <2>1. upTo(i) \in SUBSET upTo(j) /\ j \notin upTo(i) /\ j \in upTo(j)
    BY <1>3
  <2> HIDE DEF upTo
  <2>2. Cardinality(upTo(i)) <= Cardinality(upTo(j)) /\ Cardinality(upTo(i)) # Cardinality(upTo(j))
    BY <1>2, <2>1, FS_Subset
  <2> QED
    BY <1>2, <2>2
<1>4. rank \in Injection(1..n, 1..n)
  <2>1. ASSUME NEW i \in 1..n, NEW j \in 1..n, rank[i] = rank[j] PROVE i = j
    <3> HIDE DEF rank, upTo
    <3>1. key[i] \in Nat /\ key[j] \in Nat /\ rank[i] \in Nat /\ rank[j] \in Nat
      BY <1>2
    <3>2. ~(rank[i] < rank[j]) /\ ~(rank[j] < rank[i])
      BY <2>1, <3>1
    <3>3. ~(key[i] < key[j]) /\ ~(key[j] < key[i]) /\ ~(i < j /\ key[i] = key[j]) /\ ~(j < i /\ key[j] = key[i])
      BY <1>3, <3>2
    <3> QED
      BY <3>1, <3>3
  <2>2. rank \in [1..n -> 1..n]
    BY <1>2
  <2> HIDE DEF rank
  <2> QED
    BY <2>1, <2>2 DEF Injection, IsInjective
<1>5. rank \in Surjection(1..n, 1..n)
  BY <1>1, <1>4, FS_Injection
<1> HIDE DEF rank
<1> DEFINE p == [k \in 1..n |-> CHOOSE i \in 1..n : rank[i] = k]
<1>6. \A k \in 1..n : p[k] \in 1..n /\ rank[p[k]] = k
  BY <1>5 DEF Surjection
<1> HIDE DEF p
<1>7. p \in [1..n -> 1..n]
  BY <1>6 DEF p
<1>8. \A j, k \in 1..n : j < k => key[p[j]] <= key[p[k]]
  <2> SUFFICES ASSUME NEW j \in 1..n, NEW k \in 1..n, j < k, ~(key[p[j]] <= key[p[k]])
               PROVE  FALSE
      OBVIOUS
  <2>1. key[p[k]] < key[p[j]]
    BY <1>6
  <2>2. rank[p[k]] < rank[p[j]]
    BY <1>3, <1>6, <2>1
  <2> QED
    BY <1>6, <2>2
<1>9. IsInjective(p)
  <2>1. \A j, k \in 1..n : p[j] = p[k] => j = k
    BY <1>6
  <2> QED
    BY <1>7, <2>1 DEF IsInjective
<1> QED
  BY <1>7, <1>8, <1>9
-----------------------------------------------------------------------------
(* Sums over finite sets.                                                    *)

\* One element of s, and the sum g of the others.
SumStep(g, f, s) ==
    IF s = {} THEN 0 ELSE f[CHOOSE x \in s : TRUE] + g[s \ {CHOOSE x \in s : TRUE}]

Sums(g, f, S) == g = [s \in SUBSET S |-> SumStep(g, f, s)]

\* The recursion has a solution: one for the subsets with n + 1 elements comes
\* from one for those with n.
LEMMA SumExists ==
    ASSUME NEW f, NEW S, IsFiniteSet(S)
    PROVE  \E g : Sums(g, f, S)
<1> DEFINE L(n) == {s \in SUBSET S : Cardinality(s) <= n}
           Has(n) == \E g : g = [s \in L(n) |-> SumStep(g, f, s)]
           Bad == {n \in Nat : ~Has(n)}
<1>1. \A s \in SUBSET S : IsFiniteSet(s) /\ Cardinality(s) \in Nat
  BY FS_Subset, FS_CardinalityType
<1>2. Has(0)
  <2> DEFINE g == [s \in L(0) |-> 0]
  <2>1. \A s \in L(0) : s = {}
    BY <1>1, FS_EmptySet
  <2>2. g = [s \in L(0) |-> SumStep(g, f, s)]
    BY <2>1 DEF SumStep
  <2> QED
    BY <2>2
<1>3. ASSUME NEW n \in Nat, Has(n)
      PROVE  Has(n + 1)
  <2>1. PICK g : g = [s \in L(n) |-> SumStep(g, f, s)]
    BY <1>3
  <2> DEFINE h == [s \in L(n + 1) |-> SumStep(g, f, s)]
  <2>2. ASSUME NEW s \in L(n)
        PROVE  s \in L(n + 1) /\ h[s] = g[s]
    <3>1. Cardinality(s) \in Nat
      BY <1>1
    <3>2. s \in L(n + 1)
      BY <3>1, <1>3
    <3>3. g[s] = SumStep(g, f, s)
      BY <2>1
    <3> QED
      BY <3>2, <3>3
  <2>3. ASSUME NEW s \in L(n + 1)
        PROVE  SumStep(g, f, s) = SumStep(h, f, s)
    <3>1. CASE s = {}
      BY <3>1 DEF SumStep
    <3>2. CASE s # {}
      <4> DEFINE x == CHOOSE x \in s : TRUE
      <4>1. x \in s
        BY <3>2
      <4>2. s \ {x} \in L(n)
        <5>1. IsFiniteSet(s) /\ Cardinality(s) \in Nat
          BY <1>1
        <5>2. Cardinality(s \ {x}) = Cardinality(s) - 1
          BY <5>1, <4>1, FS_RemoveElement
        <5> QED
          BY <5>1, <5>2, <1>3
      <4>3. h[s \ {x}] = g[s \ {x}]
        BY <4>2, <2>2
      <4> HIDE DEF h
      <4> QED
        BY <3>2, <4>3 DEF SumStep
    <3> QED
      BY <3>1, <3>2
  <2>4. h = [s \in L(n + 1) |-> SumStep(h, f, s)]
    BY <2>3
  <2> QED
    BY <2>4
<1>4. Bad = {}
  <2> SUFFICES ASSUME Bad # {} PROVE FALSE
    OBVIOUS
  <2> HIDE DEF Has
  <2>1. PICK n \in Bad : \A m \in Bad : n <= m
    BY Smallest
  <2>2. n # 0
    BY <1>2
  <2>3. n - 1 \in Nat /\ n - 1 \notin Bad
    BY <2>1, <2>2
  <2>4. Has(n - 1 + 1)
    BY <2>3, <1>3
  <2> QED
    BY <2>1, <2>4
<1>5. Has(Cardinality(S))
  <2>1. Cardinality(S) \in Nat
    BY FS_CardinalityType
  <2> HIDE DEF Has
  <2> QED
    BY <2>1, <1>4
<1>6. L(Cardinality(S)) = SUBSET S
  BY FS_Subset
<1> QED
  BY <1>5, <1>6 DEF Sums

\* What the library computes is that solution.
LEMMA SumSolves ==
    ASSUME NEW f, NEW S, IsFiniteSet(S)
    PROVE  \E g : Sums(g, f, S) /\ SumFunctionOnSet(f, S) = g[S]
<1> DEFINE G == CHOOSE g : g = [s \in SUBSET S |-> SumStep(g, f, s)]
<1>1. G = [s \in SUBSET S |-> SumStep(G, f, s)]
  BY SumExists DEF Sums
<1>2. SumFunctionOnSet(f, S) = G[S]
  BY DEF SumFunctionOnSet, FoldFunctionOnSet, MapThenFoldSet, SumStep
<1> HIDE DEF G
<1> QED
  BY <1>1, <1>2 DEF Sums

\* Two solutions agree where the functions do.
LEMMA SumUnique ==
    ASSUME NEW f1, NEW f2, NEW S1, NEW S2, NEW T, IsFiniteSet(T), T \subseteq S1, T \subseteq S2,
           \A x \in T : f1[x] = f2[x],
           NEW g1, Sums(g1, f1, S1), NEW g2, Sums(g2, f2, S2)
    PROVE  g1[T] = g2[T]
<1> DEFINE Bad == {n \in Nat : \E s \in SUBSET T : Cardinality(s) = n /\ g1[s] # g2[s]}
<1>1. \A s \in SUBSET T : IsFiniteSet(s) /\ Cardinality(s) \in Nat
  BY FS_Subset, FS_CardinalityType
<1>2. Bad = {}
  <2> SUFFICES ASSUME Bad # {} PROVE FALSE
    OBVIOUS
  <2>1. PICK n \in Bad : \A m \in Bad : n <= m
    BY Smallest
  <2>2. PICK s \in SUBSET T : Cardinality(s) = n /\ g1[s] # g2[s]
    BY <2>1
  <2>9. \A w \in SUBSET T : Cardinality(w) < n => g1[w] = g2[w]
    BY <1>1, <2>1, <2>2
  <2>3. g1[s] = SumStep(g1, f1, s) /\ g2[s] = SumStep(g2, f2, s)
    <3>1. s \in SUBSET S1 /\ s \in SUBSET S2
      OBVIOUS
    <3> QED
      BY <3>1 DEF Sums
  <2>4. s # {}
    BY <2>2, <2>3 DEF SumStep
  <2> DEFINE x == CHOOSE x \in s : TRUE
             u == s \ {x}
  <2>5. x \in s
    BY <2>4
  <2>6. u \in SUBSET T /\ Cardinality(u) < n
    <3>1. IsFiniteSet(s) /\ Cardinality(s) = n /\ n \in Nat
      BY <1>1, <2>2
    <3>2. Cardinality(u) = n - 1
      BY <3>1, <2>5, FS_RemoveElement
    <3> QED
      BY <3>1, <3>2
  <2>7. g1[u] = g2[u]
    BY <2>6, <2>9
  <2>8. f1[x] = f2[x]
    BY <2>5
  <2> HIDE DEF Bad
  <2> QED
    BY <2>2, <2>3, <2>4, <2>7, <2>8 DEF SumStep
<1> QED
  BY <1>1, <1>2

\* A sum depends on the values on the set alone.
LEMMA SumSame ==
    ASSUME NEW f1, NEW f2, NEW S, IsFiniteSet(S), \A x \in S : f1[x] = f2[x]
    PROVE  SumFunctionOnSet(f1, S) = SumFunctionOnSet(f2, S)
<1>1. PICK g1 : Sums(g1, f1, S) /\ SumFunctionOnSet(f1, S) = g1[S]
  BY SumSolves
<1>2. PICK g2 : Sums(g2, f2, S) /\ SumFunctionOnSet(f2, S) = g2[S]
  BY SumSolves
<1>3. g1[S] = g2[S]
  BY <1>1, <1>2, SumUnique
<1> QED
  BY <1>1, <1>2, <1>3

LEMMA SumEmpty == \A f : SumFunctionOnSet(f, {}) = 0
<1> SUFFICES ASSUME NEW f PROVE SumFunctionOnSet(f, {}) = 0
  OBVIOUS
<1>1. PICK g : Sums(g, f, {}) /\ SumFunctionOnSet(f, {}) = g[{}]
  BY SumSolves, FS_EmptySet
<1>2. g[{}] = SumStep(g, f, {})
  BY <1>1 DEF Sums
<1> QED
  BY <1>1, <1>2 DEF SumStep

LEMMA SumChosen ==
    ASSUME NEW f, NEW S, IsFiniteSet(S), S # {}
    PROVE  \E x \in S : SumFunctionOnSet(f, S) = f[x] + SumFunctionOnSet(f, S \ {x})
<1> DEFINE x == CHOOSE x \in S : TRUE
           T == S \ {x}
<1>1. x \in S /\ IsFiniteSet(T) /\ T \subseteq S
  BY FS_RemoveElement
<1>2. PICK g : Sums(g, f, S) /\ SumFunctionOnSet(f, S) = g[S]
  BY SumSolves
<1>3. PICK h : Sums(h, f, T) /\ SumFunctionOnSet(f, T) = h[T]
  BY <1>1, SumSolves
<1>4. g[T] = h[T]
  <2> HIDE DEF T
  <2>1. \A z \in T : f[z] = f[z]
    OBVIOUS
  <2> QED
    BY <2>1, <1>1, <1>2, <1>3, SumUnique
<1>5. g[S] = SumStep(g, f, S)
  BY <1>2 DEF Sums
<1>6. SumStep(g, f, S) = f[x] + g[T]
  BY DEF SumStep
<1> QED
  BY <1>1, <1>2, <1>3, <1>4, <1>5, <1>6

\* Any element may be taken first: by the smallest set for which one may not.
LEMMA SumTake ==
    ASSUME NEW f, NEW S, IsFiniteSet(S), \A x \in S : f[x] \in Int
    PROVE  /\ SumFunctionOnSet(f, S) \in Int
           /\ \A y \in S : SumFunctionOnSet(f, S) = f[y] + SumFunctionOnSet(f, S \ {y})
<1> DEFINE Sum(s) == SumFunctionOnSet(f, s)
           Good(s) == Sum(s) \in Int /\ \A y \in s : Sum(s) = f[y] + Sum(s \ {y})
           Bad == {n \in Nat : \E s \in SUBSET S : Cardinality(s) = n /\ ~Good(s)}
<1>1. \A s \in SUBSET S : IsFiniteSet(s) /\ Cardinality(s) \in Nat
  BY FS_Subset, FS_CardinalityType
<1>2. \A s \in SUBSET S : s # {} => \E x \in s : Sum(s) = f[x] + Sum(s \ {x})
  BY <1>1, SumChosen
<1>3. Sum({}) = 0
  BY SumEmpty
<1> HIDE DEF Sum
<1>4. Bad = {}
  <2> SUFFICES ASSUME Bad # {} PROVE FALSE
    OBVIOUS
  <2>1. PICK n \in Bad : \A m \in Bad : n <= m
    BY Smallest
  <2>2. PICK s \in SUBSET S : Cardinality(s) = n /\ ~Good(s)
    BY <2>1
  <2>3. \A u \in SUBSET S : Cardinality(u) < n => Good(u)
    BY <1>1, <2>1, <2>2
  <2>4. s # {}
    BY <2>2, <1>3
  <2>5. PICK x \in s : Sum(s) = f[x] + Sum(s \ {x})
    BY <2>4, <1>2
  <2>6. ASSUME NEW y \in s
        PROVE  s \ {y} \in SUBSET S /\ Cardinality(s \ {y}) = n - 1
    BY <1>1, <2>2, FS_RemoveElement
  <2>7. \A y \in s : Good(s \ {y})
    BY <2>6, <2>3, <2>2, <1>1
  <2>8. Sum(s) \in Int
    BY <2>5, <2>7
  <2>9. ASSUME NEW y \in s
        PROVE  Sum(s) = f[y] + Sum(s \ {y})
    <3>1. CASE y = x
      BY <3>1, <2>5
    <3>2. CASE y # x
      <4>1. Sum(s \ {x}) = f[y] + Sum((s \ {x}) \ {y})
        BY <2>7, <3>2
      <4>2. Sum(s \ {y}) = f[x] + Sum((s \ {y}) \ {x})
        BY <2>7, <3>2
      <4>3. (s \ {x}) \ {y} = (s \ {y}) \ {x}
        OBVIOUS
      <4> DEFINE u == (s \ {x}) \ {y}
      <4>4. Sum(u) \in Int
        <5>1. s \ {x} \in SUBSET S /\ Cardinality(s \ {x}) = n - 1 /\ y \in s \ {x}
          BY <2>6, <3>2
        <5>2. IsFiniteSet(s \ {x}) /\ n \in Nat
          BY <5>1, <1>1, <2>2
        <5>3. Cardinality(u) = n - 2
          <6> DEFINE T == s \ {x}
          <6>1. IsFiniteSet(T) /\ y \in T /\ Cardinality(T) = n - 1 /\ u = T \ {y}
            BY <5>1, <5>2
          <6> HIDE DEF T, u
          <6>2. Cardinality(T \ {y}) = Cardinality(T) - 1
            BY <6>1, FS_RemoveElement
          <6> QED
            BY <6>1, <6>2, <5>2
        <5>4. u \in SUBSET S
          <6>1. \A z \in u : z \in S
            OBVIOUS
          <6> HIDE DEF u
          <6> QED
            BY <6>1
        <5>6. Cardinality(u) < n
          BY <5>2, <5>3
        <5> HIDE DEF u
        <5>5. Good(u)
          BY <5>4, <5>6, <2>3
        <5> QED
          BY <5>5
      <4>5. f[x] \in Int /\ f[y] \in Int
        OBVIOUS
      <4>6. Sum(s) = f[x] + (f[y] + Sum(u))
        BY <2>5, <4>1
      <4>7. Sum(s \ {y}) = f[x] + Sum(u)
        BY <4>2, <4>3
      <4> HIDE DEF u
      <4> QED
        BY <4>4, <4>5, <4>6, <4>7
    <3> QED
      BY <3>1, <3>2
  <2> QED
    BY <2>2, <2>8, <2>9
<1>5. Good(S)
  BY <1>1, <1>4
<1> QED
  BY <1>5 DEF Sum

LEMMA SumAdd ==
    ASSUME NEW f, NEW S, NEW y, IsFiniteSet(S), y \notin S, \A x \in S \cup {y} : f[x] \in Int
    PROVE  SumFunctionOnSet(f, S \cup {y}) = f[y] + SumFunctionOnSet(f, S)
<1> DEFINE T == S \cup {y}
<1>1. IsFiniteSet(T) /\ y \in T /\ T \ {y} = S
  BY FS_AddElement
<1>2. \A x \in T : f[x] \in Int
  OBVIOUS
<1> HIDE DEF T
<1>3. SumFunctionOnSet(f, T) = f[y] + SumFunctionOnSet(f, T \ {y})
  BY <1>1, <1>2, SumTake
<1> QED
  BY <1>1, <1>3 DEF T

\* One value changes.
LEMMA SumChange ==
    ASSUME NEW f, NEW g, NEW S, NEW y \in S, IsFiniteSet(S),
           \A x \in S : f[x] \in Int /\ g[x] \in Int,
           \A x \in S : x # y => f[x] = g[x]
    PROVE  SumFunctionOnSet(g, S) = SumFunctionOnSet(f, S) - f[y] + g[y]
<1> DEFINE T == S \ {y}
<1>1. IsFiniteSet(T)
  BY FS_RemoveElement
<1>2. /\ SumFunctionOnSet(f, S) = f[y] + SumFunctionOnSet(f, T)
      /\ SumFunctionOnSet(g, S) = g[y] + SumFunctionOnSet(g, T)
  BY SumTake
<1>3. SumFunctionOnSet(f, T) = SumFunctionOnSet(g, T)
  <2>1. \A x \in T : f[x] = g[x]
    OBVIOUS
  <2> HIDE DEF T
  <2> QED
    BY <2>1, <1>1, SumSame
<1>4. SumFunctionOnSet(f, T) \in Int
  <2>1. \A x \in T : f[x] \in Int
    OBVIOUS
  <2> HIDE DEF T
  <2> QED
    BY <2>1, <1>1, SumTake
<1> HIDE DEF T
<1> QED
  BY <1>2, <1>3, <1>4

\* A sum of n numbers of at most b each is at most b n.
LEMMA SumBound ==
    ASSUME NEW f, NEW S, NEW b \in Nat, IsFiniteSet(S), \A x \in S : f[x] \in 0..b
    PROVE  SumFunctionOnSet(f, S) \in Nat /\ SumFunctionOnSet(f, S) <= b * Cardinality(S)
<1> DEFINE Sum(s) == SumFunctionOnSet(f, s)
           Good(s) == Sum(s) \in Nat /\ Sum(s) <= b * Cardinality(s)
           Bad == {n \in Nat : \E s \in SUBSET S : Cardinality(s) = n /\ ~Good(s)}
<1>1. \A s \in SUBSET S : IsFiniteSet(s) /\ Cardinality(s) \in Nat
  BY FS_Subset, FS_CardinalityType
<1>2. \A s \in SUBSET S : s # {} => \E x \in s : Sum(s) = f[x] + Sum(s \ {x})
  BY <1>1, SumChosen
<1>3. Sum({}) = 0 /\ Cardinality({}) = 0 /\ b * 0 = 0
  BY SumEmpty, FS_EmptySet
<1> HIDE DEF Sum
<1>4. Bad = {}
  <2> SUFFICES ASSUME Bad # {} PROVE FALSE
    OBVIOUS
  <2>1. PICK n \in Bad : \A m \in Bad : n <= m
    BY Smallest
  <2>2. PICK s \in SUBSET S : Cardinality(s) = n /\ ~Good(s)
    BY <2>1
  <2>3. \A u \in SUBSET S : Cardinality(u) < n => Good(u)
    BY <1>1, <2>1, <2>2
  <2>4. s # {}
    <3>1. b * Cardinality({}) = b * 0
      BY <1>3
    <3>2. Good({})
      BY <1>3, <3>1
    <3> HIDE DEF Good
    <3> QED
      BY <2>2, <3>2
  <2>5. PICK x \in s : Sum(s) = f[x] + Sum(s \ {x})
    BY <2>4, <1>2
  <2> DEFINE u == s \ {x}
  <2>6. u \in SUBSET S /\ Cardinality(u) = n - 1
    BY <1>1, <2>2, FS_RemoveElement
  <2> HIDE DEF u
  <2>14. n \in Nat
    OBVIOUS
  <2>15. Good(u)
    <3>1. Cardinality(u) < n
      BY <2>6, <2>14
    <3> HIDE DEF Good
    <3> QED
      BY <2>6, <3>1, <2>3
  <2>7. Good(u) /\ n \in Nat
    BY <2>14, <2>15
  <2>8. f[x] \in 0..b
    OBVIOUS
  <2>9. b * n = b * (n - 1) + b
    BY <2>7
  <2>10. Sum(s) = f[x] + Sum(u)
    BY <2>5 DEF u
  <2>11. b * (n - 1) \in Int
    BY <2>7
  <2>12. Sum(u) \in Nat /\ Sum(u) <= b * (n - 1)
    BY <2>6, <2>7
  <2> HIDE DEF Good
  <2>13. Sum(s) \in Nat /\ Sum(s) <= b * n
    BY <2>8, <2>9, <2>10, <2>11, <2>12
  <2> QED
    BY <2>13, <2>2 DEF Good
<1>5. Good(S)
  BY <1>1, <1>4
<1> QED
  BY <1>5 DEF Sum

LEMMA SumNat ==
    ASSUME NEW f, NEW S, IsFiniteSet(S), \A x \in S : f[x] \in Nat
    PROVE  SumFunctionOnSet(f, S) \in Nat
<1> DEFINE Sum(s) == SumFunctionOnSet(f, s)
           Bad == {n \in Nat : \E s \in SUBSET S : Cardinality(s) = n /\ Sum(s) \notin Nat}
<1>1. \A s \in SUBSET S : IsFiniteSet(s) /\ Cardinality(s) \in Nat
  BY FS_Subset, FS_CardinalityType
<1>2. \A s \in SUBSET S : s # {} => \E x \in s : Sum(s) = f[x] + Sum(s \ {x})
  BY <1>1, SumChosen
<1>3. Sum({}) = 0
  BY SumEmpty
<1> HIDE DEF Sum
<1>4. Bad = {}
  <2> SUFFICES ASSUME Bad # {} PROVE FALSE
    OBVIOUS
  <2>1. PICK n \in Bad : \A m \in Bad : n <= m
    BY Smallest
  <2>2. PICK s \in SUBSET S : Cardinality(s) = n /\ Sum(s) \notin Nat
    BY <2>1
  <2>3. \A u \in SUBSET S : Cardinality(u) < n => Sum(u) \in Nat
    BY <1>1, <2>1, <2>2
  <2>4. s # {}
    BY <2>2, <1>3
  <2>5. PICK x \in s : Sum(s) = f[x] + Sum(s \ {x})
    BY <2>4, <1>2
  <2> DEFINE u == s \ {x}
  <2>6. u \in SUBSET S /\ Cardinality(u) = n - 1 /\ n \in Nat
    BY <1>1, <2>2, FS_RemoveElement
  <2> HIDE DEF u
  <2>7. Sum(u) \in Nat
    BY <2>6, <2>3
  <2>8. f[x] \in Nat
    OBVIOUS
  <2> QED
    BY <2>2, <2>5, <2>7, <2>8 DEF u
<1>5. Sum(S) \in Nat
  BY <1>1, <1>4
<1> QED
  BY <1>5 DEF Sum

\* One value grows by d, or is d and new.
LEMMA SumBump ==
    ASSUME NEW f, NEW g, NEW s, NEW d \in Nat, IsFiniteSet(DOMAIN f),
           DOMAIN g = DOMAIN f \cup {s},
           \A u \in DOMAIN f : f[u] \in Nat /\ (u # s => f[u] = g[u]),
           g[s] = (IF s \in DOMAIN f THEN f[s] ELSE 0) + d
    PROVE  SumFunction(g) = SumFunction(f) + d
<1> DEFINE D == DOMAIN f
<1>0. \A u \in D \cup {s} : g[u] \in Int
  OBVIOUS
<1>1. SumFunction(f) = SumFunctionOnSet(f, D) /\ SumFunction(g) = SumFunctionOnSet(g, D \cup {s})
  BY DEF SumFunction
<1>2. SumFunctionOnSet(f, D) \in Nat
  BY SumNat
<1>3. CASE s \in D
  <2>1. D \cup {s} = D
    BY <1>3
  <2>2. \A u \in D : f[u] \in Int /\ g[u] \in Int
    BY <1>0
  <2>3. SumFunctionOnSet(g, D) = SumFunctionOnSet(f, D) - f[s] + g[s]
    BY <1>3, <2>2, SumChange
  <2>4. f[s] \in Nat
    BY <1>3
  <2> QED
    BY <1>1, <1>2, <1>3, <2>1, <2>3, <2>4
<1>4. CASE s \notin D
  <2>2. SumFunctionOnSet(g, D \cup {s}) = g[s] + SumFunctionOnSet(g, D)
    BY <1>4, <1>0, SumAdd
  <2>3. \A u \in D : f[u] = g[u]
    BY <1>4
  <2>4. SumFunctionOnSet(f, D) = SumFunctionOnSet(g, D)
    BY <2>3, SumSame
  <2> QED
    BY <1>1, <1>2, <1>4, <2>2, <2>4
<1> QED
  BY <1>3, <1>4

-----------------------------------------------------------------------------
(* Types.                                                                    *)

Sample == [bytes : Nat, stall : Nat]
Samples == UNION {[S -> Sample] : S \in SUBSET Nat}
Recording == [started : Nat, startup : Int, prevArr : Nat, stalls : Nat, stalled : Nat,
              seconds : Samples, arr : Seq(Nat \ {0})]
LinkLog == Seq([at : Nat, imp : Imp])
SessionRec == [t : Targets, rec : Recording, log : LinkLog \ {<<>>}, late : Nat]
RunRec == [cell : Cells, row : RowIds, profile : Profile, started : Nat,
           sessions : Seq(SessionRec)]
Unit == [run : RunIds, at : Nat \ {0}]

InHand == {"apply", "restart", "plan", "await", "fire", "collect", "clear"}

CtlType == ctl \in [pc : InHand \cup {"cell", "done", "gone"}, cell : RunIds, i : Nat \ {0},
                    ev : Nat \ {0}, started : Nat, got : Seq(SessionRec)]

WorldType ==
    /\ link \in [Targets -> Imp] /\ cur \in [Targets -> RunIds]
    /\ store \in [Targets -> [RunIds -> Recording \cup {NoRec}]]
    /\ pending \in [Targets -> Seq(Unit)]
    /\ log \in [Targets -> LinkLog \ {<<>>}]

RestType ==
    /\ now \in Nat \ {0} /\ live \in BOOLEAN /\ faults \in 0..MaxFaults /\ media \in Nat
    /\ runs \in Seq(RunRec)
    /\ hit \in [Cells -> SUBSET {"request", "restart"}]

TypeInv == CtlType /\ WorldType /\ RestType

\* Where runOne is: within the targets and the timeline of the run in hand,
\* with nothing collected before it collects.
PlaceInv ==
    /\ ctl.pc \in InHand =>
         /\ ctl.cell \in Cells
         /\ ctl.i <= Len(Cell.targets)
         /\ ctl.ev <= Len(Cell.profile.timeline) + 1
    /\ ctl.pc \in {"plan", "await"} => ctl.i = 1
    /\ ctl.pc = "fire" => ctl.ev <= Len(Cell.profile.timeline)
    /\ ctl.pc \in {"collect", "clear"} => ctl.ev = Len(Cell.profile.timeline) + 1
    /\ ctl.pc \in {"apply", "restart", "plan", "await", "fire"} => ctl.got = <<>>

CoreInv == TypeInv /\ PlaceInv

(* A recorder keeps its type, and is never mistaken for none.                *)
LEMMA NoRecIsNone == NoRec \notin Recording
<1>1. \A r \in Recording : r.started \in Nat /\ "started" \in DOMAIN r
  BY DEF Recording
<1>2. "started" \notin DOMAIN NoRec
  BY DEF NoRec
<1> QED
  BY <1>1, <1>2

LEMMA CellType ==
    ASSUME NEW c \in Cells
    PROVE  /\ Plan[c].profile \in Profile /\ Plan[c].profile.apply \in Imp
           /\ Plan[c].profile.timeline \in Seq([at : Nat, apply : Imp])
           /\ Plan[c].targets \in Seq(Targets) /\ Len(Plan[c].targets) \in Nat \ {0}
           /\ Plan[c].row \in RowIds
           /\ \A k \in 1..Len(Plan[c].targets) : Plan[c].targets[k] \in Targets
<1>1. Plan[c] \in [profile : Profile, targets : Seq(Targets) \ {<<>>}, row : RowIds]
  <2> DEFINE R == [profile : Profile, targets : Seq(Targets) \ {<<>>}, row : RowIds]
  <2>1. Plan \in Seq(R)
    BY ExperimentAssumption
  <2> HIDE DEF R
  <2>2. Plan[c] \in R
    BY <2>1 DEF Cells
  <2> QED
    BY <2>2 DEF R
<1>2. Plan[c].targets # <<>> /\ Plan[c].targets \in Seq(Targets)
  BY <1>1
<1>3. Len(Plan[c].targets) \in Nat \ {0}
  BY <1>2, EmptySeq
<1> QED
  BY <1>1, <1>2, <1>3 DEF Profile

LEMMA ConstTypes ==
    /\ PerSec \in Nat \ {0} /\ Warmup \in Nat /\ Measure \in Nat
    /\ JitterBuf \in Nat /\ Threshold \in Nat /\ Timeout \in Nat /\ MaxFaults \in Nat
    /\ Len(Plan) \in Nat
BY ExperimentAssumption

LEMMA SecondOfNat == ASSUME NEW t \in Nat PROVE t \div PerSec \in Nat
BY ConstTypes

LEMMA NewRecorderType == ASSUME NEW t \in Nat PROVE Rec!newRecorder(t) \in Recording
<1>1. <<>> \in Samples
  <2>1. <<>> \in [{} -> Sample]
    OBVIOUS
  <2> QED
    BY <2>1 DEF Samples
<1>2. <<>> \in Seq(Nat \ {0}) /\ -1 \in Int
  OBVIOUS
<1> QED
  BY <1>1, <1>2 DEF Rec!newRecorder, Recording

LEMMA SecondType ==
    ASSUME NEW r \in Recording, NEW s \in Nat
    PROVE  /\ Rec!second(r, s) \in Recording
           /\ DOMAIN Rec!second(r, s).seconds = DOMAIN r.seconds \cup {s}
           /\ \A u \in DOMAIN r.seconds : Rec!second(r, s).seconds[u] = r.seconds[u]
           /\ s \notin DOMAIN r.seconds =>
                Rec!second(r, s).seconds[s] = [bytes |-> 0, stall |-> 0]
           /\ \A f \in {"started", "startup", "prevArr", "stalls", "stalled", "arr"} :
                Rec!second(r, s)[f] = r[f]
<1>1. PICK S \in SUBSET Nat : r.seconds \in [S -> Sample]
  BY DEF Recording, Samples
<1>2. CASE s \in DOMAIN r.seconds
  BY <1>2 DEF Rec!second
<1>3. CASE s \notin DOMAIN r.seconds
  <2> DEFINE new == [u \in DOMAIN r.seconds \cup {s} |->
                       IF u = s THEN [bytes |-> 0, stall |-> 0] ELSE r.seconds[u]]
  <2>1. Rec!second(r, s) = [r EXCEPT !.seconds = new]
    BY <1>3 DEF Rec!second
  <2>2. new \in [S \cup {s} -> Sample]
    BY <1>1, <1>3 DEF Sample
  <2>3. new \in Samples
    BY <2>2 DEF Samples
  <2> HIDE DEF new
  <2>4. Rec!second(r, s).seconds = new /\ Rec!second(r, s) \in Recording
    BY <2>1, <2>3 DEF Recording
  <2>5. \A f \in {"started", "startup", "prevArr", "stalls", "stalled", "arr"} :
           Rec!second(r, s)[f] = r[f]
    BY <2>1 DEF Recording
  <2> QED
    BY <1>3, <2>4, <2>5 DEF new
<1> QED
  BY <1>2, <1>3

LEMMA MarkStartupType ==
    ASSUME NEW r \in Recording, NEW t \in Nat
    PROVE  /\ Rec!markStartup(r, t) \in Recording
           /\ \A f \in {"prevArr", "stalls", "stalled", "seconds", "arr"} :
                Rec!markStartup(r, t)[f] = r[f]
<1>1. t - r.started \in Int
  BY DEF Recording
<1> QED
  BY <1>1 DEF Rec!markStartup, Recording

LEMMA StallType ==
    ASSUME NEW r \in Recording, NEW t \in Nat, NEW d \in Nat
    PROVE  LET s == t \div PerSec
               q == Rec!stall(r, t, d)
           IN  /\ q \in Recording
               /\ q.stalled = r.stalled + d /\ q.arr = r.arr /\ q.prevArr = r.prevArr
               /\ q.seconds = [Rec!second(r, s).seconds EXCEPT ![s].stall = @ + d]
<1> DEFINE s == t \div PerSec
           r1 == Rec!second(r, s)
           q == Rec!stall(r, t, d)
<1>1. s \in Nat
  BY SecondOfNat
<1>2. /\ r1 \in Recording /\ s \in DOMAIN r1.seconds
      /\ r1.stalled = r.stalled /\ r1.arr = r.arr /\ r1.prevArr = r.prevArr
  BY <1>1, SecondType
<1>3. q = [r1 EXCEPT !.stalls = @ + 1, !.stalled = @ + d,
                     !.seconds[s].stall = @ + d]
  BY DEF Rec!stall, Rec!SecondOf
<1> HIDE DEF r1, q
<1>4. PICK S \in SUBSET Nat : r1.seconds \in [S -> Sample]
  BY <1>2 DEF Recording, Samples
<1> DEFINE secs == [r1.seconds EXCEPT ![s].stall = @ + d]
<1>5. secs \in [S -> Sample]
  BY <1>2, <1>4 DEF Sample
<1>6. secs \in Samples
  BY <1>5 DEF Samples
<1>7. q.seconds = secs /\ q.stalled = r1.stalled + d /\ q.arr = r1.arr /\ q.prevArr = r1.prevArr
  BY <1>2, <1>3 DEF Recording
<1>8. q \in Recording
  <2> HIDE DEF secs
  <2>1. q = [r1 EXCEPT !.stalls = @ + 1, !.stalled = @ + d, !.seconds = secs]
    BY <1>2, <1>3 DEF Recording, secs
  <2>2. r1.stalls + 1 \in Nat /\ r1.stalled + d \in Nat
    BY <1>2 DEF Recording
  <2> QED
    BY <2>1, <2>2, <1>2, <1>6 DEF Recording
<1> QED
  BY <1>2, <1>7, <1>8 DEF r1, q

LEMMA CountType ==
    ASSUME NEW r \in Recording, NEW t \in Nat \ {0}
    PROVE  LET s == t \div PerSec
               q == Rec!count(r, t)
           IN  /\ q \in Recording
               /\ q.stalled = r.stalled /\ q.arr = Append(r.arr, t) /\ q.prevArr = r.prevArr
               /\ q.seconds = [Rec!second(r, s).seconds EXCEPT ![s].bytes = @ + 1]
<1> DEFINE s == t \div PerSec
           r1 == Rec!second(r, s)
           q == Rec!count(r, t)
<1>1. s \in Nat
  BY SecondOfNat
<1>2. /\ r1 \in Recording /\ s \in DOMAIN r1.seconds
      /\ r1.stalled = r.stalled /\ r1.arr = r.arr /\ r1.prevArr = r.prevArr
  BY <1>1, SecondType
<1>3. q = [r1 EXCEPT !.seconds[s].bytes = @ + 1, !.arr = Append(@, t)]
  BY DEF Rec!count, Rec!SecondOf
<1> HIDE DEF r1, q
<1>4. PICK S \in SUBSET Nat : r1.seconds \in [S -> Sample]
  BY <1>2 DEF Recording, Samples
<1> DEFINE secs == [r1.seconds EXCEPT ![s].bytes = @ + 1]
<1>5. secs \in [S -> Sample]
  BY <1>2, <1>4 DEF Sample
<1>6. secs \in Samples
  BY <1>5 DEF Samples
<1>7. q.seconds = secs /\ q.stalled = r1.stalled /\ q.arr = Append(r1.arr, t) /\ q.prevArr = r1.prevArr
  BY <1>2, <1>3 DEF Recording
<1>8. q \in Recording
  <2> HIDE DEF secs
  <2>1. q = [r1 EXCEPT !.seconds = secs, !.arr = Append(@, t)]
    BY <1>2, <1>3 DEF Recording, secs
  <2>2. Append(r1.arr, t) \in Seq(Nat \ {0})
    BY <1>2, AppendProperties DEF Recording
  <2> QED
    BY <2>1, <2>2, <1>2, <1>6 DEF Recording
<1> QED
  BY <1>2, <1>7, <1>8 DEF r1, q

\* What a unit of time t adds to the time booked as stalled.
Booked(r, t) ==
    IF r.prevArr # 0 /\ t - r.prevArr > JitterBuf + Threshold
    THEN t - r.prevArr - JitterBuf ELSE 0

\* What Media makes of a recording.
LEMMA MediaType ==
    ASSUME NEW r \in Recording, NEW t \in Nat \ {0}
    PROVE  LET s == t \div PerSec
               q == Rec!Media(r, t)
               old == Rec!second(r, s).seconds
           IN  /\ Booked(r, t) \in Nat
               /\ q \in Recording
               /\ q.arr = Append(r.arr, t) /\ q.prevArr = t
               /\ q.stalled = r.stalled + Booked(r, t)
               /\ q.seconds = [old EXCEPT ![s] = [bytes |-> @.bytes + 1,
                                                  stall |-> @.stall + Booked(r, t)]]
<1> DEFINE s == t \div PerSec
           q == Rec!Media(r, t)
           old == Rec!second(r, s).seconds
           d == Booked(r, t)
           r1 == Rec!count(r, t)
           r2 == IF r.prevArr = 0 THEN Rec!markStartup(r1, t)
                 ELSE IF t - r.prevArr > JitterBuf + Threshold
                      THEN Rec!stall(r1, t, t - r.prevArr - JitterBuf) ELSE r1
<1>1. r.prevArr \in Nat /\ JitterBuf \in Nat /\ Threshold \in Nat /\ s \in Nat
  BY ConstTypes, SecondOfNat DEF Recording
<1>2. d \in Nat
  BY <1>1 DEF Booked
<1>3. /\ r1 \in Recording /\ r1.stalled = r.stalled /\ r1.arr = Append(r.arr, t)
      /\ r1.seconds = [old EXCEPT ![s].bytes = @ + 1]
  BY CountType
<1>a. DOMAIN old = DOMAIN r.seconds \cup {s} /\ Rec!second(r, s) \in Recording
  <2> HIDE DEF s
  <2> QED
    BY <1>1, SecondType
<1>4. s \in DOMAIN old /\ DOMAIN r1.seconds = DOMAIN old
  <2> HIDE DEF s, old, r1
  <2> QED
    BY <1>3, <1>a
<1>5. old[s] \in Sample
  <2> HIDE DEF s
  <2>1. PICK S \in SUBSET Nat : old \in [S -> Sample]
    BY <1>a DEF Recording, Samples
  <2> QED
    BY <2>1, <1>4
<1>6. Rec!second(r1, s) = r1
  BY <1>4 DEF Rec!second
<1> DEFINE new == [old EXCEPT ![s] = [bytes |-> @.bytes + 1, stall |-> @.stall + d]]
<1>7. d = 0 => r1.seconds = new
  <2> SUFFICES ASSUME d = 0 PROVE r1.seconds = new
      OBVIOUS
  <2> HIDE DEF d, r1, old
  <2>1. [old[s] EXCEPT !.bytes = @ + 1] = [bytes |-> old[s].bytes + 1, stall |-> old[s].stall + d]
    BY <1>5 DEF Sample
  <2> QED
    BY <2>1, <1>3, <1>4
<1>8. /\ r2 \in Recording /\ r2.arr = r1.arr
      /\ r2.stalled = r.stalled + d /\ r2.seconds = new
  <2> HIDE DEF r1, old, new, s
  <2>1. CASE r.prevArr = 0
    <3>1. d = 0
      BY <2>1 DEF Booked
    <3>2. r2 = Rec!markStartup(r1, t)
      BY <2>1
    <3>3. r2 \in Recording /\ r2.arr = r1.arr /\ r2.stalled = r1.stalled /\ r2.seconds = r1.seconds
      BY <1>3, <3>2, MarkStartupType
    <3>4. r2.stalled = r.stalled + d
      BY <1>3, <3>1, <3>3 DEF Recording
    <3> QED
      BY <1>7, <3>1, <3>3, <3>4
  <2>2. CASE r.prevArr # 0 /\ ~(t - r.prevArr > JitterBuf + Threshold)
    <3>1. d = 0 /\ r2 = r1
      BY <2>2 DEF Booked
    <3>2. r2.stalled = r.stalled + d
      BY <1>3, <3>1 DEF Recording
    <3> QED
      BY <1>3, <1>7, <3>1, <3>2
  <2>3. CASE r.prevArr # 0 /\ t - r.prevArr > JitterBuf + Threshold
    <3>1. d = t - r.prevArr - JitterBuf
      BY <2>3 DEF Booked
    <3>2. r2 = Rec!stall(r1, t, d)
      BY <2>3, <3>1
    <3> HIDE DEF r2, d
    <3>3. /\ r2 \in Recording /\ r2.stalled = r1.stalled + d /\ r2.arr = r1.arr
          /\ r2.seconds = [Rec!second(r1, s).seconds EXCEPT ![s].stall = @ + d]
      BY <1>2, <1>3, <3>2, StallType DEF s
    <3>4. r2.seconds = [r1.seconds EXCEPT ![s].stall = @ + d]
      BY <1>6, <3>3
    <3> DEFINE e == [bytes |-> old[s].bytes + 1, stall |-> old[s].stall]
    <3>a. [old[s] EXCEPT !.bytes = @ + 1] = e
      BY <1>5 DEF Sample
    <3>b. r1.seconds[s] = e
      BY <1>3, <1>4, <3>a
    <3>5. [r1.seconds[s] EXCEPT !.stall = @ + d]
             = [bytes |-> old[s].bytes + 1, stall |-> old[s].stall + d]
      BY <3>b
    <3> HIDE DEF e
    <3>c. r2.seconds = [r1.seconds EXCEPT ![s] = [bytes |-> old[s].bytes + 1,
                                                  stall |-> old[s].stall + d]]
      BY <3>4, <3>5
    <3>6. r2.seconds = new
      BY <1>3, <1>4, <3>c DEF new
    <3> QED
      BY <1>3, <3>3, <3>6
  <2> QED
    BY <2>1, <2>2, <2>3
<1>9. q = [r2 EXCEPT !.prevArr = t]
  BY DEF Rec!Media
<1> HIDE DEF r2, new, d
<1>10. /\ q \in Recording /\ q.arr = r2.arr /\ q.prevArr = t /\ q.stalled = r2.stalled
       /\ q.seconds = r2.seconds
  BY <1>8, <1>9 DEF Recording
<1> QED
  BY <1>2, <1>3, <1>8, <1>10 DEF d, new

\* The controller has not begun.
LEMMA InitCore == Init => CoreInv
<1> SUFFICES ASSUME Init PROVE CoreInv
    OBVIOUS
<1>1. now \in Nat \ {0}
  BY ExperimentAssumption DEF Init
<1>2. ctl = [pc |-> "cell", cell |-> 0, i |-> 1, ev |-> 1, started |-> 0, got |-> <<>>]
  BY DEF Init
<1>3. /\ ctl \in [pc : InHand \cup {"cell", "done", "gone"}, cell : RunIds, i : Nat \ {0},
                  ev : Nat \ {0}, started : Nat, got : Seq(SessionRec)]
      /\ PlaceInv
  BY <1>2 DEF RunIds, Boot, PlaceInv, InHand
<1>4. Rec!newRecorder(now) \in Recording
  BY <1>1, NewRecorderType
<1>5. store \in [Targets -> [RunIds -> Recording \cup {NoRec}]]
  BY <1>4 DEF Init
<1>6. Clear \in Imp
  BY DEF Clear, Imp
<1>7. log \in [Targets -> LinkLog \ {<<>>}]
  BY <1>1, <1>6 DEF Init, LinkLog, At
<1>8. /\ link \in [Targets -> Imp] /\ cur \in [Targets -> RunIds]
      /\ pending \in [Targets -> Seq(Unit)]
  BY <1>6 DEF Init, RunIds
<1>9. runs \in Seq(RunRec) /\ hit \in [Cells -> SUBSET {"request", "restart"}]
  BY DEF Init
<1>10. live \in BOOLEAN /\ faults \in 0..MaxFaults /\ media \in Nat
  BY ConstTypes DEF Init
<1> QED
  BY <1>1, <1>3, <1>5, <1>7, <1>8, <1>9, <1>10 DEF CoreInv, TypeInv, CtlType, WorldType, RestType

\* What a request does to the load generators keeps their types.
LEMMA ApplyType ==
    ASSUME TypeInv, NEW t \in Targets, NEW imp \in Imp, Apply(t, imp)
    PROVE  /\ link' \in [Targets -> Imp] /\ log' \in [Targets -> LinkLog \ {<<>>}]
           /\ UNCHANGED <<cur, store, pending>>
<1>1. log[t] \in LinkLog /\ At(now, imp) \in [at : Nat, imp : Imp]
  BY DEF TypeInv, CtlType, WorldType, RestType, At
<1>2. Append(log[t], At(now, imp)) \in LinkLog \ {<<>>}
  BY <1>1, AppendProperties DEF LinkLog
<1> QED
  BY <1>2 DEF TypeInv, CtlType, WorldType, RestType, Apply

LEMMA RestartType ==
    ASSUME TypeInv, NEW t \in Targets, NEW run \in RunIds, Restart(t, run)
    PROVE  /\ cur' \in [Targets -> RunIds]
           /\ store' \in [Targets -> [RunIds -> Recording \cup {NoRec}]]
           /\ log' \in [Targets -> LinkLog \ {<<>>}]
           /\ UNCHANGED <<link, pending>>
<1>1. Rec!newRecorder(now) \in Recording
  BY NewRecorderType DEF TypeInv, CtlType, WorldType, RestType
<1>2. <<At(now, link[t])>> \in LinkLog \ {<<>>}
  BY DEF TypeInv, CtlType, WorldType, RestType, LinkLog, At
<1> QED
  BY <1>1, <1>2 DEF TypeInv, CtlType, WorldType, RestType, Restart

LEMMA TargetType ==
    ASSUME TypeInv, PlaceInv, ctl.pc \in {"apply", "restart", "fire", "collect", "clear"}
    PROVE  /\ ctl.cell \in Cells /\ Target \in Targets /\ Len(Cell.targets) \in Nat \ {0}
           /\ ctl.i \in 1..Len(Cell.targets) /\ Cell.profile.apply \in Imp
<1>1. ctl.cell \in Cells /\ ctl.i \in Nat \ {0} /\ ctl.i <= Len(Cell.targets)
  BY DEF TypeInv, CtlType, WorldType, RestType, PlaceInv, InHand
<1> QED
  BY <1>1, CellType DEF Target, Cell

\* The events are those of the timeline, each once, in the order of their times.
LEMMA EventsSorted ==
    ASSUME ctl.cell \in Cells
    PROVE  LET tl == Cell.profile.timeline IN
           /\ Events \in Seq([at : Nat, apply : Imp]) /\ Len(Events) = Len(tl)
           /\ \A j, k \in 1..Len(tl) : j < k => Events[j].at <= Events[k].at
           /\ \E p \in [DOMAIN tl -> DOMAIN tl] :
                IsInjective(p) /\ Events = [k \in DOMAIN tl |-> tl[p[k]]]
<1> DEFINE tl == Cell.profile.timeline
           n == Len(tl)
           key == [k \in 1..n |-> tl[k].at]
           p == CHOOSE q \in [DOMAIN tl -> DOMAIN tl] :
                  IsInjective(q) /\ \A j, k \in DOMAIN tl : j < k => tl[q[j]].at <= tl[q[k]].at
<1>1. tl \in Seq([at : Nat, apply : Imp])
  BY CellType DEF Cell
<1>2. n \in Nat /\ DOMAIN tl = 1..n /\ \A k \in 1..n : tl[k] \in [at : Nat, apply : Imp]
  <2> DEFINE E == [at : Nat, apply : Imp]
  <2>1. tl \in Seq(E)
    BY <1>1
  <2> HIDE DEF E, tl
  <2>2. n \in Nat /\ DOMAIN tl = 1..n /\ \A k \in 1..n : tl[k] \in E
    BY <2>1
  <2> QED
    BY <2>2 DEF E
<1>a. Events = [k \in DOMAIN tl |-> tl[p[k]]]
  BY DEF Events
<1> HIDE DEF n, tl
<1>3. key \in [1..n -> Nat]
  BY <1>2
<1>4. PICK q \in [1..n -> 1..n] :
         IsInjective(q) /\ \A j, k \in 1..n : j < k => key[q[j]] <= key[q[k]]
  <2> HIDE DEF key
  <2> QED
    BY <1>2, <1>3, OrderExists
<1>5. \A j, k \in DOMAIN tl : j < k => tl[q[j]].at <= tl[q[k]].at
  BY <1>2, <1>4
<1>6. /\ p \in [DOMAIN tl -> DOMAIN tl] /\ IsInjective(p)
      /\ \A j, k \in DOMAIN tl : j < k => tl[p[j]].at <= tl[p[k]].at
  BY <1>2, <1>4, <1>5
<1> HIDE DEF p
<1>7. \A k \in 1..n : Events[k] = tl[p[k]] /\ p[k] \in 1..n
  BY <1>a, <1>2, <1>6
<1>8. Events \in Seq([at : Nat, apply : Imp]) /\ Len(Events) = n
  BY <1>a, <1>2, <1>6
<1> QED
  BY <1>a, <1>2, <1>6, <1>7, <1>8 DEF n, tl

LEMMA EventsType ==
    ASSUME ctl.cell \in Cells
    PROVE  /\ Len(Events) = Len(Cell.profile.timeline) /\ Len(Events) \in Nat
           /\ DOMAIN Events = 1..Len(Events)
           /\ \A k \in 1..Len(Events) : Events[k].at \in Nat /\ Events[k].apply \in Imp
<1> DEFINE E == [at : Nat, apply : Imp]
<1>1. Events \in Seq(E) /\ Len(Events) = Len(Cell.profile.timeline)
  BY EventsSorted
<1> HIDE DEF E
<1>2. DOMAIN Events = 1..Len(Events) /\ Len(Events) \in Nat /\ \A k \in 1..Len(Events) : Events[k] \in E
  BY <1>1
<1> QED
  BY <1>1, <1>2 DEF E

\* Going on to the next target, or past the last one.
LEMMA NextTargetPlace ==
    ASSUME CtlType, PlaceInv, ctl.pc \in InHand,
           NEW past, NextTarget(past)
    PROVE  \/ /\ ctl.i < Len(Cell.targets)
              /\ ctl' = [ctl EXCEPT !.i = ctl.i + 1]
              /\ ctl'.i = ctl.i + 1 /\ ctl'.pc = ctl.pc /\ ctl'.ev = ctl.ev
              /\ ctl'.cell = ctl.cell /\ ctl'.started = ctl.started /\ ctl'.got = ctl.got
           \/ ctl.i = Len(Cell.targets) /\ ctl' = [past EXCEPT !.i = 1]
<1>1. ctl.cell \in Cells /\ ctl.i \in Nat /\ ctl.i <= Len(Cell.targets) /\ Len(Cell.targets) \in Nat
  BY CellType DEF CtlType, PlaceInv, Cell
<1> QED
  BY <1>1 DEF NextTarget, CtlType

LEMMA FailsType ==
    ASSUME TypeInv, ctl.cell \in Cells, Fails
    PROVE  /\ now' \in Nat \ {0} /\ now' >= now /\ faults' \in 0..MaxFaults
           /\ hit' \in [Cells -> SUBSET {"request", "restart"}]
<1>1. now' \in Nat \ {0} /\ now' >= now
  BY ConstTypes DEF TypeInv, CtlType, WorldType, RestType, Fails
<1>2. faults' \in 0..MaxFaults
  BY ConstTypes DEF TypeInv, CtlType, WorldType, RestType, Fails, Failure
<1> QED
  BY <1>1, <1>2 DEF TypeInv, CtlType, WorldType, RestType, Fails

LEMMA RunFailsPlace ==
    ASSUME CtlType, RunFails
    PROVE  /\ CtlType' /\ PlaceInv' /\ runs' = runs
           /\ ctl'.cell = ctl.cell /\ ctl'.pc \in {"cell", "gone"}
BY DEF CtlType, RunFails, PlaceInv, InHand

\* What a step does to the load generators.
LEMMA WorldStep == CoreInv /\ [Next]_vars => WorldType'
<1> SUFFICES ASSUME CoreInv, [Next]_vars PROVE WorldType'
    OBVIOUS
<1>1. TypeInv /\ PlaceInv /\ WorldType /\ RestType
  BY DEF CoreInv, TypeInv
<1>2. UNCHANGED targetVars => WorldType'
  BY <1>1 DEF WorldType, targetVars
<1>3. ASSUME NEW t \in Targets, NEW imp \in Imp, Apply(t, imp) PROVE WorldType'
  BY <1>1, <1>3, ApplyType DEF WorldType
<1>4. ASSUME NEW t \in Targets, NEW run \in RunIds, Restart(t, run) PROVE WorldType'
  BY <1>1, <1>4, RestartType DEF WorldType
<1>5. Clear \in Imp
  BY DEF Clear, Imp
<1>6. ASSUME PostProfile PROVE WorldType'
  <2>1. Target \in Targets /\ Cell.profile.apply \in Imp
    BY <1>1, <1>6, TargetType DEF PostProfile
  <2> QED
    BY <1>2, <1>3, <1>6, <2>1 DEF PostProfile, NoEffect
<1>7. ASSUME PostRestart PROVE WorldType'
  <2>1. Target \in Targets /\ ctl.cell \in RunIds
    BY <1>1, <1>7, TargetType DEF PostRestart, RunIds
  <2> QED
    BY <1>2, <1>4, <1>7, <2>1 DEF PostRestart, NoEffect
<1>8. ASSUME PostEvent PROVE WorldType'
  <2>1. Target \in Targets /\ ctl.cell \in Cells /\ ctl.ev \in 1..Len(Cell.profile.timeline)
    BY <1>1, <1>8, TargetType DEF PostEvent, PlaceInv, TypeInv, CtlType
  <2>2. Events[ctl.ev].apply \in Imp
    BY <2>1, EventsType
  <2> QED
    BY <1>2, <1>3, <1>8, <2>1, <2>2 DEF PostEvent, NoEffect
<1>9. ASSUME PostClear PROVE WorldType'
  <2>1. Target \in Targets
    BY <1>1, <1>9, TargetType DEF PostClear
  <2> QED
    BY <1>2, <1>3, <1>5, <1>9, <2>1 DEF PostClear, NoEffect
<1>10. ASSUME NEW t \in Targets, TargetRestarts(t) PROVE WorldType'
  <2>1. Rec!newRecorder(now) \in Recording
    BY <1>1, NewRecorderType DEF RestType
  <2>2. <<At(now, Clear)>> \in LinkLog \ {<<>>}
    BY <1>1, <1>5 DEF RestType, LinkLog, At
  <2>3. /\ link' = [link EXCEPT ![t] = Clear] /\ cur' = [cur EXCEPT ![t] = Boot]
        /\ pending' = [pending EXCEPT ![t] = <<>>]
        /\ log' = [log EXCEPT ![t] = <<At(now, Clear)>>]
        /\ store' = [store EXCEPT ![t] = [r \in RunIds |->
                       IF r = Boot THEN Rec!newRecorder(now) ELSE NoRec]]
    BY <1>10 DEF TargetRestarts
  <2>4. Boot \in RunIds /\ <<>> \in Seq(Unit)
    BY DEF RunIds
  <2>5. link' \in [Targets -> Imp] /\ cur' \in [Targets -> RunIds]
    BY <1>1, <1>5, <2>3, <2>4 DEF WorldType
  <2>6. log' \in [Targets -> LinkLog \ {<<>>}] /\ pending' \in [Targets -> Seq(Unit)]
    BY <1>1, <2>2, <2>3, <2>4 DEF WorldType
  <2>7. store' \in [Targets -> [RunIds -> Recording \cup {NoRec}]]
    BY <1>1, <2>1, <2>3 DEF WorldType
  <2> QED
    BY <2>5, <2>6, <2>7 DEF WorldType
<1>11. ASSUME NEW t \in Targets, MediaRead(t) PROVE WorldType'
  <2>1. [run |-> cur[t], at |-> now] \in Unit
    BY <1>1 DEF WorldType, RestType, Unit
  <2>2. Append(pending[t], [run |-> cur[t], at |-> now]) \in Seq(Unit)
    BY <1>1, <2>1, AppendProperties DEF WorldType
  <2> QED
    BY <1>1, <1>11, <2>2 DEF WorldType, MediaRead
<1>12. ASSUME NEW t \in Targets, MediaRecord(t) PROVE WorldType'
  <2>1. PICK k \in DOMAIN pending[t] :
          /\ pending' = [pending EXCEPT ![t] = RemoveAt(@, k)]
          /\ store' = IF store[t][pending[t][k].run] = NoRec THEN store
                      ELSE [store EXCEPT ![t][pending[t][k].run] = Rec!Media(@, pending[t][k].at)]
          /\ UNCHANGED <<link, cur, log>>
    BY <1>12 DEF MediaRecord
  <2> DEFINE u == pending[t][k]
  <2>2. pending[t] \in Seq(Unit) /\ k \in 1..Len(pending[t]) /\ Len(pending[t]) \in Nat
    BY <1>1 DEF WorldType
  <2>a. u \in Unit
    BY <2>2
  <2> HIDE DEF u
  <2>3. u.run \in RunIds /\ u.at \in Nat \ {0}
    BY <2>a DEF Unit
  <2>4. RemoveAt(pending[t], k) \in Seq(Unit)
    BY <2>2 DEF RemoveAt
  <2>5. store[t][u.run] # NoRec => Rec!Media(store[t][u.run], u.at) \in Recording
    <3> SUFFICES ASSUME store[t][u.run] # NoRec
                 PROVE  Rec!Media(store[t][u.run], u.at) \in Recording
        OBVIOUS
    <3>1. store[t][u.run] \in Recording
      BY <1>1, <2>3 DEF WorldType
    <3> QED
      BY <2>3, <3>1, MediaType
  <2>6. store' \in [Targets -> [RunIds -> Recording \cup {NoRec}]]
    <3>1. CASE store[t][u.run] = NoRec
      BY <1>1, <2>1, <3>1 DEF WorldType, u
    <3>2. CASE store[t][u.run] # NoRec
      <4>1. store' = [store EXCEPT ![t][u.run] = Rec!Media(store[t][u.run], u.at)]
        BY <2>1, <2>3, <3>2, <1>1 DEF WorldType, u
      <4> QED
        BY <1>1, <2>3, <2>5, <3>2, <4>1 DEF WorldType
    <3> QED
      BY <3>1, <3>2
  <2> QED
    BY <1>1, <2>1, <2>4, <2>6 DEF WorldType
<1>13. ASSUME StartCell \/ Schedule \/ Tick \/ Wake \/ Collect \/ WriteSummary \/ Cancel
              \/ UNCHANGED vars
       PROVE  UNCHANGED targetVars
  BY <1>13 DEF StartCell, Schedule, Tick, Wake, Collect, WriteSummary, Cancel, vars
<1>14. Viewed \subseteq Targets
  BY ExperimentAssumption
<1> QED
  BY <1>2, <1>6, <1>7, <1>8, <1>9, <1>10, <1>11, <1>12, <1>13, <1>14 DEF Next, Runs

\* What a step does to the rest.
LEMMA RestStep == CoreInv /\ [Next]_vars => RestType'
<1> SUFFICES ASSUME CoreInv, [Next]_vars PROVE RestType'
    OBVIOUS
<1>1. TypeInv /\ PlaceInv /\ CtlType /\ WorldType /\ RestType
  BY DEF CoreInv, TypeInv
<1>2. ASSUME UNCHANGED <<now, live, faults, media, runs, hit>> PROVE RestType'
  BY <1>1, <1>2 DEF RestType
<1>3. ASSUME PostProfile \/ PostRestart \/ PostEvent \/ Collect \/ PostClear
      PROVE  /\ now' \in Nat \ {0} /\ live' \in BOOLEAN /\ faults' \in 0..MaxFaults /\ media' \in Nat
             /\ hit' \in [Cells -> SUBSET {"request", "restart"}]
  <2>1. ctl.cell \in Cells
    BY <1>1, <1>3 DEF PlaceInv, InHand, PostProfile, PostRestart, PostEvent, Collect, PostClear
  <2>2. Succeeds \/ Fails
    BY <1>3 DEF PostProfile, PostRestart, PostEvent, Collect, PostClear
  <2>3. live' = live /\ media' = media
    BY <1>3 DEF PostProfile, PostRestart, PostEvent, Collect, PostClear
  <2>4. CASE Succeeds
    BY <1>1, <2>3, <2>4 DEF Succeeds, RestType
  <2>5. CASE Fails
    BY <1>1, <2>1, <2>3, <2>5, FailsType DEF RestType
  <2> QED
    BY <2>2, <2>4, <2>5
<1>4. ASSUME PostProfile \/ PostRestart \/ PostEvent \/ Collect PROVE RestType'
  <2>1. runs' = runs
    BY <1>4 DEF PostProfile, PostRestart, PostEvent, Collect, RunFails
  <2> QED
    BY <1>1, <1>3, <1>4, <2>1 DEF RestType
<1>5. ASSUME PostClear PROVE RestType'
  <2>1. RunRecord \in RunRec
    <3>1. ctl.cell \in Cells /\ ctl.started \in Nat /\ ctl.got \in Seq(SessionRec)
      BY <1>1, <1>5 DEF CtlType, PlaceInv, InHand, PostClear
    <3> QED
      BY <3>1, CellType DEF RunRecord, RunRec, Cell
  <2>2. runs' = runs \/ runs' = Append(runs, RunRecord)
    BY <1>5 DEF PostClear, RunFails
  <2>3. runs' \in Seq(RunRec)
    BY <1>1, <2>1, <2>2, AppendProperties DEF RestType
  <2> QED
    BY <1>3, <1>5, <2>3 DEF RestType
<1>6. ASSUME Tick PROVE RestType'
  BY <1>1, <1>6 DEF Tick, RestType
<1>7. ASSUME Wake PROVE RestType'
  BY <1>1, <1>7 DEF Wake, RunFails, RestType
<1>8. ASSUME Cancel PROVE RestType'
  <2>1. live' = FALSE /\ faults < MaxFaults /\ faults' = faults + 1
        /\ UNCHANGED <<now, media, runs, hit>>
    BY <1>8 DEF Cancel, Failure
  <2>2. faults' \in 0..MaxFaults
    BY <1>1, <2>1, ConstTypes DEF RestType
  <2>3. live' \in BOOLEAN
    BY <2>1
  <2> QED
    BY <1>1, <2>1, <2>2, <2>3 DEF RestType
<1>9. ASSUME NEW t \in Targets, TargetRestarts(t) PROVE RestType'
  <2>1. hit' = [hit EXCEPT ![ctl.cell] = @ \cup {"restart"}] /\ faults' \in 0..MaxFaults
    BY <1>1, <1>9, ConstTypes DEF TargetRestarts, Failure, RestType
  <2>2. hit' \in [Cells -> SUBSET {"request", "restart"}]
    BY <1>1, <2>1 DEF RestType
  <2> QED
    BY <1>1, <1>9, <2>1, <2>2 DEF TargetRestarts, RestType
<1>10. ASSUME NEW t \in Targets, MediaRead(t) \/ MediaRecord(t) PROVE RestType'
  BY <1>1, <1>10 DEF MediaRead, MediaRecord, RestType
<1>11. ASSUME StartCell \/ Schedule \/ WriteSummary \/ UNCHANGED vars PROVE RestType'
  <2>1. UNCHANGED <<now, live, faults, media, runs, hit>>
    BY <1>11 DEF StartCell, Schedule, WriteSummary, LastCell, vars
  <2> QED
    BY <1>2, <2>1
<1>12. Viewed \subseteq Targets
  BY ExperimentAssumption
<1> QED
  BY <1>4, <1>5, <1>6, <1>7, <1>8, <1>9, <1>10, <1>11, <1>12 DEF Next, Runs

\* What is collected of a target.
LEMMA ResultsType ==
    ASSUME TypeInv, NEW t \in Targets, ctl.cell \in RunIds
    PROVE  Results(t) \in Seq(SessionRec)
<1>1. CASE store[t][ctl.cell] = NoRec
  BY <1>1 DEF Results
<1>2. CASE store[t][ctl.cell] # NoRec
  <2>1. /\ store[t][ctl.cell] \in Recording /\ log[t] \in LinkLog \ {<<>>}
        /\ pending[t] \in Seq(Unit)
    BY <1>2 DEF TypeInv, WorldType
  <2>2. Len(pending[t]) \in Nat
    BY <2>1
  <2>3. [t |-> t, rec |-> store[t][ctl.cell], log |-> log[t], late |-> Len(pending[t])]
          \in SessionRec
    BY <2>1, <2>2 DEF SessionRec
  <2> QED
    BY <1>2, <2>3 DEF Results
<1> QED
  BY <1>1, <1>2

\* What a step does to the controller's own place.
LEMMA CtlStep == CoreInv /\ [Next]_vars => CtlType' /\ PlaceInv'
<1> SUFFICES ASSUME CoreInv, [Next]_vars PROVE CtlType' /\ PlaceInv'
    OBVIOUS
<1>1. TypeInv /\ PlaceInv /\ CtlType /\ WorldType /\ RestType /\ now \in Nat
  BY DEF CoreInv, TypeInv, RestType
<1> DEFINE n == Len(Cell.profile.timeline)
           m == Len(Cell.targets)
<1>2. ctl.pc \in InHand =>
        /\ ctl.cell \in Cells /\ n \in Nat /\ m \in Nat \ {0} /\ Len(Events) = n
        /\ ctl.i \in 1..m /\ ctl.ev \in 1..(n + 1)
  BY <1>1, EventsType, CellType DEF CtlType, PlaceInv, Cell
<1>a. /\ "apply" \in InHand /\ "restart" \in InHand /\ "plan" \in InHand /\ "await" \in InHand
      /\ "fire" \in InHand /\ "collect" \in InHand /\ "clear" \in InHand
  BY DEF InHand
<1>3. ASSUME ctl' = ctl PROVE CtlType' /\ PlaceInv'
  BY <1>1, <1>3 DEF CtlType, PlaceInv, Cell
\* The run in hand stays in hand, with another place, target or event.
<1>4. ASSUME ctl.pc \in InHand, CtlType', ctl'.cell = ctl.cell, ctl'.i <= m, ctl'.ev <= n + 1,
             ctl'.pc \in {"plan", "await"} => ctl'.i = 1,
             ctl'.pc = "fire" => ctl'.ev <= n,
             ctl'.pc \in {"collect", "clear"} => ctl'.ev = n + 1,
             ctl'.pc \in {"apply", "restart", "plan", "await", "fire"} => ctl'.got = <<>>
      PROVE  PlaceInv'
  <2>1. Cell' = Cell
    BY <1>4 DEF Cell
  <2> HIDE DEF n, m
  <2> QED
    BY <1>2, <1>4, <2>1 DEF PlaceInv, n, m
<1>5. ASSUME RunFails PROVE CtlType' /\ PlaceInv'
  BY <1>1, <1>5, RunFailsPlace
<1>6. ASSUME StartCell PROVE CtlType' /\ PlaceInv'
  <2>1. CASE live
    <3>1. ctl.cell + 1 \in Cells
      BY <1>1, <1>6, ConstTypes DEF StartCell, CtlType, RunIds, Boot, Cells
    <3>2. ctl' = [pc |-> "apply", cell |-> ctl.cell + 1, i |-> 1, ev |-> 1,
                  started |-> ctl.started, got |-> <<>>]
      BY <1>1, <1>6, <2>1 DEF StartCell, CtlType
    <3>3. ctl.cell + 1 \in RunIds /\ <<>> \in Seq(SessionRec)
      BY <3>1 DEF RunIds
    <3>4. CtlType'
      BY <1>1, <3>2, <3>3 DEF CtlType, InHand
    <3>5. 1 <= Len(Cell'.targets) /\ 1 <= Len(Cell'.profile.timeline) + 1
      BY <3>1, <3>2, CellType DEF Cell
    <3> QED
      BY <3>1, <3>2, <3>4, <3>5 DEF PlaceInv
  <2>2. CASE ~live
    BY <1>1, <1>6, <2>2 DEF StartCell, CtlType, PlaceInv, InHand
  <2> QED
    BY <2>1, <2>2
<1>7. ASSUME PostProfile PROVE CtlType' /\ PlaceInv'
  <2>1. ctl.pc = "apply" /\ ctl.got = <<>> /\ ctl.started \in Nat
    BY <1>1, <1>7 DEF PostProfile, PlaceInv, CtlType
  <2>2. ASSUME NextTarget([ctl EXCEPT !.pc = "restart", !.started = now])
        PROVE  CtlType' /\ PlaceInv'
    <3>1. CASE ctl.i < m
      <4>1. ctl' = [ctl EXCEPT !.i = ctl.i + 1]
        BY <2>2, <3>1 DEF NextTarget
      <4>2. /\ CtlType' /\ ctl'.cell = ctl.cell /\ ctl'.pc = "apply" /\ ctl'.i = ctl.i + 1
            /\ ctl'.ev = ctl.ev /\ ctl'.got = <<>>
        BY <1>1, <2>1, <4>1 DEF CtlType
      <4> HIDE DEF n, m
      <4> QED
        BY <1>2, <1>4, <2>1, <3>1, <4>2 DEF InHand
    <3>2. CASE ~(ctl.i < m)
      <4>1. ctl' = [ctl EXCEPT !.pc = "restart", !.started = now, !.i = 1]
        BY <1>1, <2>2, <3>2 DEF NextTarget, CtlType
      <4>a. ctl' = [pc |-> "restart", cell |-> ctl.cell, i |-> 1, ev |-> ctl.ev,
                  started |-> now, got |-> ctl.got]
        BY <1>1, <4>1 DEF CtlType
      <4>2. /\ CtlType' /\ ctl'.cell = ctl.cell /\ ctl'.pc = "restart" /\ ctl'.i = 1
            /\ ctl'.ev = ctl.ev /\ ctl'.got = <<>>
        BY <1>1, <1>a, <2>1, <4>a DEF CtlType
      <4> HIDE DEF n, m
      <4> QED
        BY <1>2, <1>4, <2>1, <4>2 DEF InHand
    <3> QED
      BY <3>1, <3>2
  <2> QED
    BY <1>5, <1>7, <2>2 DEF PostProfile
<1>8. ASSUME PostRestart PROVE CtlType' /\ PlaceInv'
  <2>1. ctl.pc = "restart" /\ ctl.got = <<>>
    BY <1>1, <1>8 DEF PostRestart, PlaceInv
  <2>2. ASSUME NextTarget([ctl EXCEPT !.pc = "plan"]) PROVE CtlType' /\ PlaceInv'
    <3>1. CASE ctl.i < m
      <4>1. ctl' = [ctl EXCEPT !.i = ctl.i + 1]
        BY <2>2, <3>1 DEF NextTarget
      <4>2. /\ CtlType' /\ ctl'.cell = ctl.cell /\ ctl'.pc = "restart" /\ ctl'.i = ctl.i + 1
            /\ ctl'.ev = ctl.ev /\ ctl'.got = <<>>
        BY <1>1, <2>1, <4>1 DEF CtlType
      <4> HIDE DEF n, m
      <4> QED
        BY <1>2, <1>4, <2>1, <3>1, <4>2 DEF InHand
    <3>2. CASE ~(ctl.i < m)
      <4>1. ctl' = [ctl EXCEPT !.pc = "plan", !.i = 1]
        BY <1>1, <2>2, <3>2 DEF NextTarget, CtlType
      <4>a. ctl' = [pc |-> "plan", cell |-> ctl.cell, i |-> 1, ev |-> ctl.ev,
                  started |-> ctl.started, got |-> ctl.got]
        BY <1>1, <4>1 DEF CtlType
      <4>2. /\ CtlType' /\ ctl'.cell = ctl.cell /\ ctl'.pc = "plan" /\ ctl'.i = 1
            /\ ctl'.ev = ctl.ev /\ ctl'.got = <<>>
        BY <1>1, <1>a, <2>1, <4>a DEF CtlType
      <4> HIDE DEF n, m
      <4> QED
        BY <1>2, <1>4, <2>1, <4>2 DEF InHand
    <3> QED
      BY <3>1, <3>2
  <2> QED
    BY <1>5, <1>8, <2>2 DEF PostRestart
\* Waking, or having nothing to wait for: the event if there is one.
<1>9. ASSUME ctl.pc \in {"plan", "await"},
             \/ ctl' = [ctl EXCEPT !.pc = "await"]
             \/ ctl' = [ctl EXCEPT !.pc = IF ctl.ev <= Len(Events) THEN "fire" ELSE "collect"]
      PROVE  CtlType' /\ PlaceInv'
  <2>1. ctl.pc \in InHand /\ ctl.got = <<>> /\ ctl.i = 1
    BY <1>1, <1>9 DEF PlaceInv, InHand
  <2>2. CtlType' /\ ctl'.cell = ctl.cell /\ ctl'.i = 1 /\ ctl'.ev = ctl.ev /\ ctl'.got = <<>>
    <3>1. CASE ctl' = [ctl EXCEPT !.pc = "await"]
      BY <1>1, <1>a, <2>1, <3>1 DEF CtlType
    <3>2. CASE ctl' = [ctl EXCEPT !.pc = IF ctl.ev <= Len(Events) THEN "fire" ELSE "collect"]
      <4> DEFINE pc == IF ctl.ev <= Len(Events) THEN "fire" ELSE "collect"
      <4>1. pc \in InHand
        BY DEF InHand
      <4>2. ctl' = [ctl EXCEPT !.pc = pc]
        BY <3>2
      <4> HIDE DEF pc
      <4> QED
        BY <1>1, <2>1, <4>1, <4>2 DEF CtlType
    <3> QED
      BY <1>9, <3>1, <3>2
  <2>3. \/ ctl'.pc = "await"
        \/ ctl'.pc = "fire" /\ ctl.ev <= Len(Events)
        \/ ctl'.pc = "collect" /\ ~(ctl.ev <= Len(Events))
    BY <1>1, <1>9 DEF CtlType
  <2> HIDE DEF n, m
  <2> QED
    BY <1>2, <1>4, <2>1, <2>2, <2>3
<1>10. ASSUME Schedule PROVE CtlType' /\ PlaceInv'
  <2>1. CASE now < Due
    BY <1>9, <1>10, <2>1 DEF Schedule
  <2>2. CASE ~(now < Due)
    BY <1>9, <1>10, <2>2 DEF Schedule
  <2> QED
    BY <2>1, <2>2
<1>11. ASSUME Wake PROVE CtlType' /\ PlaceInv'
  BY <1>5, <1>9, <1>11 DEF Wake
<1>12. ASSUME PostEvent PROVE CtlType' /\ PlaceInv'
  <2>1. ctl.pc = "fire" /\ ctl.got = <<>> /\ ctl.ev <= n
        /\ NextTarget([ctl EXCEPT !.pc = "plan", !.ev = @ + 1])
    BY <1>1, <1>12 DEF PostEvent, PlaceInv
  <2>2. CASE ctl.i < m
    <3>1. ctl' = [ctl EXCEPT !.i = ctl.i + 1]
      BY <2>1, <2>2 DEF NextTarget
    <3>2. /\ CtlType' /\ ctl'.cell = ctl.cell /\ ctl'.pc = "fire" /\ ctl'.i = ctl.i + 1
          /\ ctl'.ev = ctl.ev /\ ctl'.got = <<>>
      BY <1>1, <2>1, <3>1 DEF CtlType
    <3> HIDE DEF n, m
    <3> QED
      BY <1>2, <1>4, <2>1, <2>2, <3>2 DEF InHand
  <2>3. CASE ~(ctl.i < m)
    <3>1. ctl' = [ctl EXCEPT !.pc = "plan", !.ev = ctl.ev + 1, !.i = 1]
      BY <1>1, <2>1, <2>3 DEF NextTarget, CtlType
    <3>a. ctl' = [pc |-> "plan", cell |-> ctl.cell, i |-> 1, ev |-> ctl.ev + 1,
                started |-> ctl.started, got |-> ctl.got]
      BY <1>1, <3>1 DEF CtlType
    <3>2. /\ CtlType' /\ ctl'.cell = ctl.cell /\ ctl'.pc = "plan" /\ ctl'.i = 1
          /\ ctl'.ev = ctl.ev + 1 /\ ctl'.got = <<>>
      BY <1>1, <1>a, <2>1, <3>a DEF CtlType
    <3> HIDE DEF n, m
    <3> QED
      BY <1>2, <1>4, <2>1, <3>2 DEF InHand
  <2> QED
    BY <2>2, <2>3
<1>13. ASSUME Collect PROVE CtlType' /\ PlaceInv'
  <2>1. ctl.pc = "collect" /\ ctl.ev = n + 1
    BY <1>1, <1>13 DEF Collect, PlaceInv
  <2>2. ctl.got \in Seq(SessionRec) /\ ctl.got \o Results(Target) \in Seq(SessionRec)
    <3>1. ctl.got \in Seq(SessionRec) /\ Target \in Targets /\ ctl.cell \in RunIds
      BY <1>1, <2>1, TargetType DEF CtlType
    <3>2. Results(Target) \in Seq(SessionRec)
      BY <1>1, <3>1, ResultsType
    <3> QED
      BY <3>1, <3>2, ConcatProperties
  <2>3. PICK g \in Seq(SessionRec) :
          ctl' = IF ctl.i < m THEN [ctl EXCEPT !.got = g, !.i = ctl.i + 1]
                 ELSE [ctl EXCEPT !.got = g, !.i = 1, !.pc = "clear"]
    BY <1>1, <1>13, <2>2 DEF Collect, CtlType
  <2>4. CASE ctl.i < m
    <3>1. ctl' = [ctl EXCEPT !.got = g, !.i = ctl.i + 1]
      BY <2>3, <2>4
    <3>a. ctl' = [pc |-> ctl.pc, cell |-> ctl.cell, i |-> ctl.i + 1, ev |-> ctl.ev,
                  started |-> ctl.started, got |-> g]
      BY <1>1, <3>1 DEF CtlType
    <3>2. /\ CtlType' /\ ctl'.cell = ctl.cell /\ ctl'.pc = "collect" /\ ctl'.i = ctl.i + 1
          /\ ctl'.ev = ctl.ev
      BY <1>1, <1>a, <2>1, <3>a DEF CtlType
    <3> HIDE DEF n, m
    <3> QED
      BY <1>2, <1>4, <2>1, <2>4, <3>2 DEF InHand
  <2>5. CASE ~(ctl.i < m)
    <3>1. ctl' = [ctl EXCEPT !.got = g, !.i = 1, !.pc = "clear"]
      BY <2>3, <2>5
    <3>a. ctl' = [pc |-> "clear", cell |-> ctl.cell, i |-> 1, ev |-> ctl.ev,
                started |-> ctl.started, got |-> g]
      BY <1>1, <3>1 DEF CtlType
    <3>2. /\ CtlType' /\ ctl'.cell = ctl.cell /\ ctl'.pc = "clear" /\ ctl'.i = 1
          /\ ctl'.ev = ctl.ev
      BY <1>1, <1>a, <2>1, <3>a DEF CtlType
    <3> HIDE DEF n, m
    <3> QED
      BY <1>2, <1>4, <2>1, <3>2 DEF InHand
  <2> QED
    BY <2>4, <2>5
<1>14. ASSUME PostClear PROVE CtlType' /\ PlaceInv'
  <2>1. ctl.pc = "clear" /\ ctl.ev = n + 1
    BY <1>1, <1>14 DEF PostClear, PlaceInv
  <2>2. CASE ctl.i < m
    <3>1. ctl' = [ctl EXCEPT !.i = ctl.i + 1]
      BY <1>14, <2>2 DEF PostClear, NextTarget
    <3>2. /\ CtlType' /\ ctl'.cell = ctl.cell /\ ctl'.pc = "clear" /\ ctl'.i = ctl.i + 1
          /\ ctl'.ev = ctl.ev
      BY <1>1, <2>1, <3>1 DEF CtlType
    <3> HIDE DEF n, m
    <3> QED
      BY <1>2, <1>4, <2>1, <2>2, <3>2 DEF InHand
  <2>3. CASE ~(ctl.i < m)
    <3>1. RunFails \/ ctl' = [ctl EXCEPT !.pc = "cell"]
      BY <1>14, <2>3 DEF PostClear
    <3>2. CASE ctl' = [ctl EXCEPT !.pc = "cell"]
      BY <1>1, <3>2 DEF CtlType, PlaceInv, InHand
    <3> QED
      BY <1>5, <3>1, <3>2
  <2> QED
    BY <2>2, <2>3
<1>15. ASSUME WriteSummary PROVE CtlType' /\ PlaceInv'
  <2>1. ctl' = [ctl EXCEPT !.pc = "done"]
    BY <1>15 DEF WriteSummary, LastCell
  <2> QED
    BY <1>1, <2>1 DEF CtlType, PlaceInv, InHand
<1>16. ASSUME NEW t \in Targets,
              Tick \/ Cancel \/ TargetRestarts(t) \/ MediaRead(t) \/ MediaRecord(t)
       PROVE  ctl' = ctl
  BY <1>16 DEF Tick, Cancel, TargetRestarts, MediaRead, MediaRecord
<1>17. ASSUME Tick \/ Cancel \/ UNCHANGED vars PROVE ctl' = ctl
  BY <1>17 DEF Tick, Cancel, vars
<1>18. Viewed \subseteq Targets
  BY ExperimentAssumption
<1> QED
  BY <1>3, <1>6, <1>7, <1>8, <1>10, <1>11, <1>12, <1>13, <1>14, <1>15, <1>16, <1>17, <1>18
     DEF Next, Runs

LEMMA CoreStep == CoreInv /\ [Next]_vars => CoreInv'
BY WorldStep, RestStep, CtlStep DEF CoreInv, TypeInv

LEMMA CoreAlways == Spec => []CoreInv
<1>1. Init => CoreInv
  BY InitCore
<1>2. CoreInv /\ [Next]_vars => CoreInv'
  BY CoreStep
<1> QED
  BY <1>1, <1>2, PTL DEF Spec

\* A unit that is recorded: the recording of the run it was read in, if there
\* still is one.
LEMMA RecordGoes ==
    ASSUME CoreInv, NEW t \in Targets, MediaRecord(t)
    PROVE  \E k \in 1..Len(pending[t]) :
             LET run == pending[t][k].run
                 at == pending[t][k].at
             IN  /\ run \in RunIds /\ at \in Nat \ {0}
                 /\ pending' = [pending EXCEPT ![t] = RemoveAt(pending[t], k)]
                 /\ \A u \in Targets, r \in RunIds :
                      store'[u][r] = IF u = t /\ r = run /\ store[u][r] # NoRec
                                     THEN Rec!Media(store[u][r], at) ELSE store[u][r]
                 /\ store[t][run] # NoRec => store[t][run] \in Recording
<1>1. /\ pending[t] \in Seq(Unit) /\ pending \in [Targets -> Seq(Unit)]
      /\ store \in [Targets -> [RunIds -> Recording \cup {NoRec}]]
  BY DEF CoreInv, TypeInv, WorldType
<1>2. PICK k \in DOMAIN pending[t] :
        /\ pending' = [pending EXCEPT ![t] = RemoveAt(@, k)]
        /\ store' = IF store[t][pending[t][k].run] = NoRec THEN store
                    ELSE [store EXCEPT ![t][pending[t][k].run] = Rec!Media(@, pending[t][k].at)]
  BY DEF MediaRecord
<1>a. k \in 1..Len(pending[t])
  BY <1>1
<1> DEFINE run == pending[t][k].run
           at == pending[t][k].at
<1>3. pending[t][k] \in Unit
  BY <1>1, <1>a
<1>4. run \in RunIds /\ at \in Nat \ {0}
  BY <1>3 DEF Unit
<1>5. store[t][run] # NoRec => store[t][run] \in Recording
  BY <1>1, <1>4
<1>6. ASSUME NEW u \in Targets, NEW r \in RunIds
      PROVE  store'[u][r] = IF u = t /\ r = run /\ store[u][r] # NoRec
                            THEN Rec!Media(store[u][r], at) ELSE store[u][r]
  <2>0. store' = IF store[t][run] = NoRec THEN store
                 ELSE [store EXCEPT ![t][run] = Rec!Media(store[t][run], at)]
    BY <1>1, <1>2, <1>4
  <2> HIDE DEF run, at
  <2>1. CASE store[t][run] = NoRec
    BY <2>0, <2>1
  <2>2. CASE store[t][run] # NoRec
    BY <1>1, <1>4, <2>0, <2>2
  <2> QED
    BY <2>1, <2>2
<1>7. pending' = [pending EXCEPT ![t] = RemoveAt(pending[t], k)]
  BY <1>1, <1>2
<1> QED
  BY <1>4, <1>5, <1>6, <1>7, <1>a

\* Recording loses no recording.
LEMMA RecordKeeps ==
    ASSUME CoreInv, NEW t \in Targets, MediaRecord(t)
    PROVE  \A u \in Targets, r \in RunIds : store[u][r] # NoRec => store'[u][r] # NoRec
<1>1. PICK run \in RunIds, at \in Nat \ {0} :
        /\ \A u \in Targets, r \in RunIds :
             store'[u][r] = IF u = t /\ r = run /\ store[u][r] # NoRec
                            THEN Rec!Media(store[u][r], at) ELSE store[u][r]
        /\ store[t][run] # NoRec => store[t][run] \in Recording
  BY RecordGoes
<1>2. store[t][run] # NoRec => Rec!Media(store[t][run], at) # NoRec
  <2> SUFFICES ASSUME store[t][run] # NoRec PROVE Rec!Media(store[t][run], at) # NoRec
      OBVIOUS
  <2>1. store[t][run] \in Recording
    BY <1>1
  <2>2. Rec!Media(store[t][run], at) \in Recording
    BY <2>1, MediaType
  <2> QED
    BY <2>2, NoRecIsNone
<1> QED
  BY <1>1, <1>2

-----------------------------------------------------------------------------
(* What each request makes of the place, the target and the event.           *)
Goes(pc, i, ev, started, got) ==
    ctl' = [pc |-> pc, cell |-> ctl.cell, i |-> i, ev |-> ev, started |-> started, got |-> got]

More == ctl.i < Len(Cell.targets)
Stay == Goes(ctl.pc, ctl.i + 1, ctl.ev, ctl.started, ctl.got)

LEMMA InHandFacts ==
    ASSUME CoreInv, ctl.pc \in InHand
    PROVE  /\ ctl.cell \in Cells /\ ctl.cell \in RunIds /\ ctl.cell \in Nat \ {0}
           /\ Len(Cell.targets) \in Nat \ {0} /\ DOMAIN Cell.targets = 1..Len(Cell.targets)
           /\ ctl.i \in 1..Len(Cell.targets) /\ Target \in Targets
           /\ \A j \in 1..Len(Cell.targets) : Cell.targets[j] \in Targets
           /\ Len(Events) = Len(Cell.profile.timeline) /\ Len(Events) \in Nat
           /\ ctl.ev \in 1..(Len(Events) + 1)
           /\ Cell.profile.apply \in Imp /\ Target = Cell.targets[ctl.i]
           /\ \A k \in 1..Len(Events) : Events[k].at \in Nat /\ Events[k].apply \in Imp
<1>1. /\ ctl.cell \in Cells /\ ctl.i \in Nat \ {0} /\ ctl.ev \in Nat \ {0}
      /\ ctl.i <= Len(Cell.targets) /\ ctl.ev <= Len(Cell.profile.timeline) + 1
  BY DEF CoreInv, TypeInv, CtlType, PlaceInv
<1>2. /\ Len(Events) = Len(Cell.profile.timeline) /\ Len(Events) \in Nat
      /\ \A k \in 1..Len(Events) : Events[k].at \in Nat /\ Events[k].apply \in Imp
  BY <1>1, EventsType
<1>3. /\ Len(Cell.targets) \in Nat \ {0} /\ Cell.profile.apply \in Imp
      /\ DOMAIN Cell.targets = 1..Len(Cell.targets)
      /\ \A j \in 1..Len(Cell.targets) : Cell.targets[j] \in Targets
  BY <1>1, CellType DEF Cell
<1>4. ctl.cell \in RunIds /\ ctl.cell \in Nat \ {0}
  BY <1>1, ConstTypes DEF RunIds, Cells
<1> QED
  BY <1>1, <1>2, <1>3, <1>4 DEF Target

LEMMA CtlRecord ==
    ASSUME CoreInv
    PROVE  ctl = [pc |-> ctl.pc, cell |-> ctl.cell, i |-> ctl.i, ev |-> ctl.ev,
                  started |-> ctl.started, got |-> ctl.got]
BY DEF CoreInv, TypeInv, CtlType

LEMMA NextGoes ==
    ASSUME CoreInv, ctl.pc \in InHand, NEW past, NextTarget(past)
    PROVE  \/ More /\ Stay
           \/ ~More /\ ctl.i = Len(Cell.targets) /\ ctl' = [past EXCEPT !.i = 1]
<1>1. ctl.i \in Nat /\ Len(Cell.targets) \in Nat /\ ctl.i <= Len(Cell.targets)
  BY InHandFacts
<1>2. CASE More
  <2>1. ctl' = [ctl EXCEPT !.i = ctl.i + 1]
    BY <1>2 DEF NextTarget, More
  <2> QED
    BY <1>2, <2>1, CtlRecord DEF Stay, Goes
<1>3. CASE ~More
  <2>1. ctl' = [past EXCEPT !.i = 1] /\ ctl.i = Len(Cell.targets)
    BY <1>1, <1>3 DEF NextTarget, More
  <2> QED
    BY <1>3, <2>1
<1> QED
  BY <1>2, <1>3

LEMMA ProfileGoes ==
    ASSUME CoreInv, PostProfile
    PROVE  /\ ctl.pc = "apply" /\ live' = live
           /\ \/ /\ Apply(Target, Cell.profile.apply) /\ Succeeds /\ runs' = runs
                 /\ \/ More /\ Stay
                    \/ ~More /\ ctl.i = Len(Cell.targets)
                       /\ Goes("restart", 1, ctl.ev, now, ctl.got)
              \/ (Apply(Target, Cell.profile.apply) \/ NoEffect) /\ Fails /\ RunFails
<1>1. ctl.pc = "apply" /\ ctl.pc \in InHand /\ live' = live
  BY DEF PostProfile, InHand
<1>2. ASSUME NextTarget([ctl EXCEPT !.pc = "restart", !.started = now])
      PROVE  \/ More /\ Stay
             \/ ~More /\ ctl.i = Len(Cell.targets) /\ Goes("restart", 1, ctl.ev, now, ctl.got)
  <2>1. CASE More
    BY <1>1, <1>2, <2>1, NextGoes
  <2>2. CASE ~More
    <3>1. ctl' = [ctl EXCEPT !.pc = "restart", !.started = now, !.i = 1] /\ ctl.i = Len(Cell.targets)
      BY <1>1, <1>2, <2>2, InHandFacts DEF NextTarget, More, CoreInv, TypeInv, CtlType
    <3>2. ctl' =
            [pc |-> "restart", cell |-> ctl.cell, i |-> 1, ev |-> ctl.ev, started |-> now, got |-> ctl.got]
      BY <3>1 DEF CoreInv, TypeInv, CtlType
    <3> QED
      BY <2>2, <3>1, <3>2 DEF Goes
  <2> QED
    BY <2>1, <2>2
<1> QED
  BY <1>1, <1>2 DEF PostProfile

LEMMA RestartGoes ==
    ASSUME CoreInv, PostRestart
    PROVE  /\ ctl.pc = "restart" /\ live' = live
           /\ \/ /\ Restart(Target, ctl.cell) /\ Succeeds /\ runs' = runs
                 /\ \/ More /\ Stay
                    \/ ~More /\ ctl.i = Len(Cell.targets)
                       /\ Goes("plan", 1, ctl.ev, ctl.started, ctl.got)
              \/ (Restart(Target, ctl.cell) \/ NoEffect) /\ Fails /\ RunFails
<1>1. ctl.pc = "restart" /\ ctl.pc \in InHand /\ live' = live
  BY DEF PostRestart, InHand
<1>2. ASSUME NextTarget([ctl EXCEPT !.pc = "plan"])
      PROVE  \/ More /\ Stay
             \/ ~More /\ ctl.i = Len(Cell.targets) /\ Goes("plan", 1, ctl.ev, ctl.started, ctl.got)
  <2>1. CASE More
    BY <1>1, <1>2, <2>1, NextGoes
  <2>2. CASE ~More
    <3>1. ctl' = [ctl EXCEPT !.pc = "plan", !.i = 1] /\ ctl.i = Len(Cell.targets)
      BY <1>1, <1>2, <2>2, InHandFacts DEF NextTarget, More, CoreInv, TypeInv, CtlType
    <3>2. ctl' =
            [pc |-> "plan", cell |-> ctl.cell, i |-> 1, ev |-> ctl.ev, started |-> ctl.started,
             got |-> ctl.got]
      BY <3>1 DEF CoreInv, TypeInv, CtlType
    <3> QED
      BY <2>2, <3>1, <3>2 DEF Goes
  <2> QED
    BY <2>1, <2>2
<1> QED
  BY <1>1, <1>2 DEF PostRestart

\* Before and after a wait.
LEMMA WaitGoes ==
    ASSUME CoreInv, Schedule \/ Wake
    PROVE  /\ ctl.pc \in {"plan", "await"} /\ UNCHANGED <<now, live, targetVars, faults, media, hit, runs>>
           /\ \/ ctl.pc = "plan" /\ now < Due /\ Goes("await", ctl.i, ctl.ev, ctl.started, ctl.got)
              \/ /\ ~(now < Due)
                 /\ \/ /\ ctl.ev <= Len(Events) /\ Goes("fire", ctl.i, ctl.ev, ctl.started, ctl.got)
                    \/ /\ ctl.ev > Len(Events) /\ ctl.ev = Len(Events) + 1
                       /\ Goes("collect", ctl.i, ctl.ev, ctl.started, ctl.got)
              \/ ~live /\ RunFails
<1>1. ctl.pc \in {"plan", "await"} /\ ctl.pc \in InHand
  BY DEF Schedule, Wake, InHand
<1>2. UNCHANGED <<now, live, targetVars, faults, media, hit, runs>>
  BY DEF Schedule, Wake, RunFails
<1>3. ctl.ev \in Nat /\ Len(Events) \in Nat /\ ctl.ev <= Len(Events) + 1
  BY <1>1, InHandFacts
<1>4. now \in Nat /\ Due \in Nat
  <2>1. ctl.started \in Nat /\ totalDur \in Nat
    BY ConstTypes DEF CoreInv, TypeInv, CtlType, totalDur
  <2>2. ctl.ev <= Len(Events) => Events[ctl.ev].at \in Nat
    BY <1>1, InHandFacts
  <2> QED
    BY <2>1, <2>2 DEF Due, CoreInv, TypeInv, RestType
<1>5. CASE ctl' = [ctl EXCEPT !.pc = "await"] /\ now < Due /\ ctl.pc = "plan"
  BY <1>1, <1>2, <1>5, CtlRecord DEF Goes
<1>6. CASE ctl' = [ctl EXCEPT !.pc = IF ctl.ev <= Len(Events) THEN "fire" ELSE "collect"]
           /\ ~(now < Due)
  <2>1. CASE ctl.ev <= Len(Events)
    BY <1>1, <1>2, <1>6, <2>1, CtlRecord DEF Goes
  <2>2. CASE ~(ctl.ev <= Len(Events))
    <3>1. ctl.ev > Len(Events) /\ ctl.ev = Len(Events) + 1
      BY <1>3, <2>2
    <3> QED
      BY <1>1, <1>2, <1>6, <2>2, <3>1, CtlRecord DEF Goes
  <2> QED
    BY <2>1, <2>2
<1>7. CASE ~live /\ RunFails
  BY <1>1, <1>2, <1>7
<1> QED
  BY <1>4, <1>5, <1>6, <1>7 DEF Schedule, Wake

LEMMA EventGoes ==
    ASSUME CoreInv, PostEvent
    PROVE  /\ ctl.pc = "fire" /\ live' = live /\ runs' = runs /\ ctl.ev \in 1..Len(Events)
           /\ \/ Apply(Target, Events[ctl.ev].apply) /\ Succeeds
              \/ (Apply(Target, Events[ctl.ev].apply) \/ NoEffect) /\ Fails
           /\ \/ More /\ Stay
              \/ ~More /\ ctl.i = Len(Cell.targets)
                 /\ Goes("plan", 1, ctl.ev + 1, ctl.started, ctl.got)
<1>1. ctl.pc = "fire" /\ ctl.pc \in InHand /\ live' = live /\ runs' = runs
  BY DEF PostEvent, InHand
<1>2. ctl.ev \in 1..Len(Events)
  BY <1>1, InHandFacts DEF CoreInv, PlaceInv
<1>3. NextTarget([ctl EXCEPT !.pc = "plan", !.ev = @ + 1])
  BY DEF PostEvent
<1>4. \/ More /\ Stay
      \/ ~More /\ ctl.i = Len(Cell.targets) /\ Goes("plan", 1, ctl.ev + 1, ctl.started, ctl.got)
  <2>1. CASE More
    BY <1>1, <1>3, <2>1, NextGoes
  <2>2. CASE ~More
    <3>1. ctl' = [ctl EXCEPT !.pc = "plan", !.ev = ctl.ev + 1, !.i = 1] /\ ctl.i = Len(Cell.targets)
      BY <1>1, <1>3, <2>2, InHandFacts DEF NextTarget, More, CoreInv, TypeInv, CtlType
    <3>2. ctl' =
            [pc |-> "plan", cell |-> ctl.cell, i |-> 1, ev |-> ctl.ev + 1, started |-> ctl.started,
             got |-> ctl.got]
      BY <3>1 DEF CoreInv, TypeInv, CtlType
    <3> QED
      BY <2>2, <3>1, <3>2 DEF Goes
  <2> QED
    BY <2>1, <2>2
<1> QED
  BY <1>1, <1>2, <1>4 DEF PostEvent

LEMMA CollectGoes ==
    ASSUME CoreInv, Collect
    PROVE  /\ ctl.pc = "collect" /\ UNCHANGED <<live, targetVars, runs>>
           /\ \E g \in Seq(SessionRec) :
                /\ \/ Succeeds /\ g = ctl.got \o Results(Target)
                   \/ Fails /\ g = ctl.got
                /\ \/ More /\ Goes("collect", ctl.i + 1, ctl.ev, ctl.started, g)
                   \/ ~More /\ ctl.i = Len(Cell.targets) /\ Goes("clear", 1, ctl.ev, ctl.started, g)
<1>1. ctl.pc = "collect" /\ ctl.pc \in InHand /\ UNCHANGED <<live, targetVars, runs>>
  BY DEF Collect, InHand
<1>2. ctl.got \in Seq(SessionRec) /\ ctl.got \o Results(Target) \in Seq(SessionRec)
  <2>1. ctl.got \in Seq(SessionRec) /\ Target \in Targets /\ ctl.cell \in RunIds
    BY <1>1, InHandFacts DEF CoreInv, TypeInv, CtlType
  <2>2. Results(Target) \in Seq(SessionRec)
    BY <2>1, ResultsType DEF CoreInv
  <2> QED
    BY <2>1, <2>2, ConcatProperties
<1>3. ASSUME NEW g, ctl' = IF ctl.i < Len(Cell.targets) THEN [[ctl EXCEPT !.got = g] EXCEPT !.i = @ + 1]
                           ELSE [[ctl EXCEPT !.got = g] EXCEPT !.i = 1, !.pc = "clear"]
      PROVE  \/ More /\ Goes("collect", ctl.i + 1, ctl.ev, ctl.started, g)
             \/ ~More /\ ctl.i = Len(Cell.targets) /\ Goes("clear", 1, ctl.ev, ctl.started, g)
  <2>1. ctl.i \in Nat /\ Len(Cell.targets) \in Nat /\ ctl.i <= Len(Cell.targets)
    BY <1>1, InHandFacts
  <2>2. [ctl EXCEPT !.got = g] = [pc |-> ctl.pc, cell |-> ctl.cell, i |-> ctl.i, ev |-> ctl.ev,
                                  started |-> ctl.started, got |-> g]
    BY CtlRecord
  <2>3. CASE More
    <3>1. ctl' = [[ctl EXCEPT !.got = g] EXCEPT !.i = @ + 1]
      BY <1>3, <2>3 DEF More
    <3>2. ctl' = [pc |-> ctl.pc, cell |-> ctl.cell, i |-> ctl.i + 1, ev |-> ctl.ev,
                  started |-> ctl.started, got |-> g]
      BY <2>2, <3>1
    <3> QED
      BY <1>1, <2>3, <3>2 DEF Goes
  <2>4. CASE ~More
    <3>1. ctl' = [[ctl EXCEPT !.got = g] EXCEPT !.i = 1, !.pc = "clear"]
      BY <1>3, <2>4 DEF More
    <3>2. ctl' = [pc |-> "clear", cell |-> ctl.cell, i |-> 1, ev |-> ctl.ev,
                  started |-> ctl.started, got |-> g]
      BY <2>2, <3>1
    <3>3. ctl.i = Len(Cell.targets)
      BY <2>1, <2>4 DEF More
    <3> QED
      BY <2>4, <3>2, <3>3 DEF Goes
  <2> QED
    BY <2>3, <2>4
<1> QED
  BY <1>1, <1>2, <1>3 DEF Collect

LEMMA ClearGoes ==
    ASSUME CoreInv, PostClear
    PROVE  /\ ctl.pc = "clear" /\ live' = live
           /\ \/ Apply(Target, Clear) /\ Succeeds
              \/ (Apply(Target, Clear) \/ NoEffect) /\ Fails
           /\ \/ More /\ Stay /\ runs' = runs
              \/ /\ ~More /\ ctl.i = Len(Cell.targets)
                 /\ \/ RunFails
                    \/ runs' = Append(runs, RunRecord)
                       /\ Goes("cell", ctl.i, ctl.ev, ctl.started, ctl.got)
<1>1. ctl.pc = "clear" /\ ctl.pc \in InHand /\ live' = live
  BY DEF PostClear, InHand
<1>2. CASE More
  <2>1. NextTarget(ctl) /\ runs' = runs
    BY <1>2 DEF PostClear, More
  <2>2. Stay
    BY <1>2, <2>1, CtlRecord DEF NextTarget, Stay, Goes, More
  <2> QED
    BY <1>1, <1>2, <2>1, <2>2 DEF PostClear
<1>3. CASE ~More
  <2>1. \/ RunFails
        \/ runs' = Append(runs, RunRecord) /\ ctl' = [ctl EXCEPT !.pc = "cell"]
    BY <1>3 DEF PostClear, More
  <2>2. ctl.i = Len(Cell.targets)
    BY <1>1, <1>3, InHandFacts DEF More
  <2>3. ctl' = [ctl EXCEPT !.pc = "cell"] => Goes("cell", ctl.i, ctl.ev, ctl.started, ctl.got)
    BY CtlRecord DEF Goes
  <2> QED
    BY <1>1, <1>3, <2>1, <2>2, <2>3 DEF PostClear
<1> QED
  BY <1>2, <1>3

LEMMA FailGoes ==
    ASSUME CoreInv, RunFails
    PROVE  /\ runs' = runs
           /\ Goes(IF live THEN "cell" ELSE "gone", ctl.i, ctl.ev, ctl.started, ctl.got)
BY CtlRecord DEF RunFails, Goes

LEMMA GoesFields ==
    ASSUME NEW pc, NEW i, NEW ev, NEW s, NEW g, Goes(pc, i, ev, s, g)
    PROVE  /\ ctl'.pc = pc /\ ctl'.cell = ctl.cell /\ ctl'.i = i /\ ctl'.ev = ev
           /\ ctl'.started = s /\ ctl'.got = g
BY DEF Goes

\* A failure that was met stays met.
LEMMA HitGrows ==
    ASSUME CoreInv, [Next]_vars
    PROVE  \A c \in Cells : hit[c] \subseteq hit'[c]
<1>1. hit \in [Cells -> SUBSET {"request", "restart"}]
  BY DEF CoreInv, TypeInv, RestType
<1>2. ASSUME NEW c \in Cells, NEW k, hit' = [hit EXCEPT ![c] = @ \cup {k}]
      PROVE  \A d \in Cells : hit[d] \subseteq hit'[d]
  BY <1>1, <1>2
<1>3. ASSUME ctl.pc \in InHand, Fails PROVE \A d \in Cells : hit[d] \subseteq hit'[d]
  BY <1>2, <1>3, InHandFacts DEF Fails
<1>4. ASSUME PostProfile \/ PostRestart \/ PostEvent \/ Collect \/ PostClear
      PROVE  \A d \in Cells : hit[d] \subseteq hit'[d]
  <2>1. ctl.pc \in InHand /\ (hit' = hit \/ Fails)
    BY <1>4 DEF PostProfile, PostRestart, PostEvent, Collect, PostClear, Succeeds, InHand
  <2> QED
    BY <1>3, <2>1
<1>5. ASSUME NEW t \in Targets, TargetRestarts(t) PROVE \A d \in Cells : hit[d] \subseteq hit'[d]
  <2>1. ctl.cell \in Cells
    BY <1>5, ConstTypes DEF TargetRestarts, CoreInv, TypeInv, CtlType, RunIds, Boot, Cells
  <2> QED
    BY <1>2, <1>5, <2>1 DEF TargetRestarts
<1>6. ASSUME NEW t, StartCell \/ Schedule \/ Tick \/ Wake \/ WriteSummary \/ Cancel
              \/ MediaRead(t) \/ MediaRecord(t) \/ UNCHANGED vars
      PROVE  hit' = hit
  BY <1>6 DEF StartCell, Schedule, Tick, Wake, WriteSummary, Cancel, MediaRead, MediaRecord, vars
<1> QED
  BY <1>4, <1>5, <1>6 DEF Next, Runs

-----------------------------------------------------------------------------
(* The links are left clear.                                                 *)

\* The run in hand may still impair t, and has not cleared it.
OpenFor(t) ==
    \/ ctl.pc \in (InHand \ {"clear"}) \cup {"gone"}
    \/ ctl.pc = "clear" /\ \E j \in ctl.i..Len(Cell.targets) : Cell.targets[j] = t

Excused(c, t) == ~Uses(c, t) \/ "request" \in hit[c]

\* Run c is what t's impairment is owed to.
Blamed(c, t) ==
    /\ Uses(c, t) /\ \A d \in (c + 1)..ctl.cell : Excused(d, t)
    /\ "request" \in hit[c] \/ (c = ctl.cell /\ OpenFor(t))

ClearInv == \A t \in Targets : link[t] # Clear => \E c \in 1..ctl.cell : Blamed(c, t)

\* While the run in hand stays in hand, blame stays where it was.
LEMMA BlameStays ==
    ASSUME CoreInv, [Next]_vars, ctl'.cell = ctl.cell, NEW t \in Targets,
           NEW c \in 1..ctl.cell, Blamed(c, t),
           c = ctl.cell /\ OpenFor(t) => OpenFor(t)' \/ "request" \in hit'[c]
    PROVE  \E d \in 1..ctl'.cell : Blamed(d, t)'
<1>1. ctl.cell \in Nat /\ 1..ctl.cell \subseteq Cells
  BY ConstTypes DEF CoreInv, TypeInv, CtlType, RunIds, Boot, Cells
<1>2. \A d \in 1..ctl.cell : hit[d] \subseteq hit'[d]
  BY <1>1, HitGrows
<1>3. \A d \in (c + 1)..ctl.cell : d \in 1..ctl.cell
  BY <1>1
<1>4. \A d \in (c + 1)..ctl'.cell : Excused(d, t)'
  BY <1>2, <1>3 DEF Blamed, Excused, Uses
<1>5. "request" \in hit'[c] \/ (c = ctl'.cell /\ OpenFor(t)')
  BY <1>2 DEF Blamed
<1>6. Uses(c, t)'
  BY DEF Blamed, Uses
<1> QED
  BY <1>4, <1>5, <1>6 DEF Blamed

\* The run in hand is to blame for what it still may undo, or failed to.
LEMMA BlameSelf ==
    ASSUME CoreInv, ctl.pc \in InHand, ctl'.cell = ctl.cell, NEW t \in Targets,
           Uses(ctl.cell, t), OpenFor(t)' \/ "request" \in hit'[ctl.cell]
    PROVE  \E d \in 1..ctl'.cell : Blamed(d, t)'
<1>1. ctl.cell \in Nat \ {0}
  BY InHandFacts
<1>2. ctl.cell \in 1..ctl'.cell /\ \A d \in (ctl.cell + 1)..ctl'.cell : FALSE
  BY <1>1
<1>3. Uses(ctl.cell, t)'
  BY DEF Uses
<1> QED
  BY <1>2, <1>3 DEF Blamed

LEMMA TargetUsed ==
    ASSUME CoreInv, ctl.pc \in InHand
    PROVE  Uses(ctl.cell, Target)
BY InHandFacts DEF Uses, Cell

LEMMA FailsHit ==
    ASSUME CoreInv, ctl.pc \in InHand, Fails
    PROVE  "request" \in hit'[ctl.cell]
BY InHandFacts DEF Fails, CoreInv, TypeInv, RestType

LEMMA ClearStart == CoreInv /\ ClearInv /\ StartCell => ClearInv'
<1> SUFFICES ASSUME CoreInv, ClearInv, StartCell, NEW t \in Targets, link'[t] # Clear
             PROVE  \E c \in 1..ctl'.cell : Blamed(c, t)'
    BY DEF ClearInv
<1>1. /\ ctl.pc = "cell" /\ link' = link /\ hit' = hit
  BY DEF StartCell, targetVars
<1>2. PICK c \in 1..ctl.cell : Blamed(c, t)
  BY <1>1 DEF ClearInv
<1>3. "request" \in hit[c] /\ ctl.cell \in Nat
  BY <1>1, <1>2 DEF Blamed, OpenFor, InHand, CoreInv, TypeInv, CtlType, RunIds, Boot, Cells
<1>4. CASE live
  <2>1. ctl'.cell = ctl.cell + 1 /\ ctl'.pc = "apply"
    BY <1>4 DEF StartCell, CoreInv, TypeInv, CtlType
  <2>2. CASE Uses(ctl.cell + 1, t)
    <3>1. PICK e \in 1..ctl'.cell : e = ctl.cell + 1
      BY <1>3, <2>1
    <3>2. \A d \in (e + 1)..ctl'.cell : FALSE
      BY <1>3, <2>1, <3>1
    <3>3. OpenFor(t)'
      BY <2>1 DEF OpenFor, InHand
    <3>4. Uses(e, t)
      BY <2>2, <3>1
    <3> QED
      BY <2>1, <3>1, <3>2, <3>3, <3>4 DEF Blamed
  <2>3. CASE ~Uses(ctl.cell + 1, t)
    <3>1. c \in 1..ctl'.cell /\ \A d \in (c + 1)..ctl'.cell : d \in (c + 1)..ctl.cell \/ d = ctl.cell + 1
      BY <1>3, <2>1
    <3>2. \A d \in (c + 1)..ctl'.cell : Excused(d, t)'
      BY <1>1, <1>2, <2>3, <3>1 DEF Blamed, Excused, Uses
    <3> QED
      BY <1>1, <1>2, <1>3, <3>1, <3>2 DEF Blamed, Uses
  <2> QED
    BY <2>2, <2>3
<1>5. CASE ~live
  <2>1. ctl'.cell = ctl.cell
    BY <1>5 DEF StartCell, CoreInv, TypeInv, CtlType
  <2> QED
    BY <1>1, <1>2, <1>3, <2>1 DEF Blamed, Excused, Uses
<1> QED
  BY <1>4, <1>5

LEMMA ClearStep == CoreInv /\ ClearInv /\ [Next]_vars => ClearInv'
<1> SUFFICES ASSUME CoreInv, ClearInv, [Next]_vars PROVE ClearInv'
    OBVIOUS
\* Nothing is newly impaired, and the run in hand remains where it was.
<1>1. ASSUME ctl'.cell = ctl.cell, \A t \in Targets : link'[t] # Clear => link[t] # Clear,
             \A t \in Targets : OpenFor(t) => OpenFor(t)' \/ "request" \in hit'[ctl.cell]
      PROVE  ClearInv'
  BY <1>1, BlameStays DEF ClearInv
\* A link is changed by the run in hand.
<1>2. ASSUME NEW imp, ctl.pc \in InHand, ctl'.cell = ctl.cell, Apply(Target, imp) \/ NoEffect,
             \A t \in Targets : Uses(ctl.cell, t) => OpenFor(t)' \/ "request" \in hit'[ctl.cell],
             \A t \in Targets : OpenFor(t) => OpenFor(t)' \/ "request" \in hit'[ctl.cell]
      PROVE  ClearInv'
  <2> SUFFICES ASSUME NEW t \in Targets, link'[t] # Clear
               PROVE  \E c \in 1..ctl'.cell : Blamed(c, t)'
      BY DEF ClearInv
  <2>1. CASE t = Target
    BY <1>2, <2>1, TargetUsed, BlameSelf
  <2>2. CASE t # Target
    <3>1. link'[t] = link[t]
      BY <1>2, <2>2, InHandFacts DEF Apply, NoEffect, targetVars, CoreInv, TypeInv, WorldType
    <3> QED
      BY <1>2, <3>1, BlameStays DEF ClearInv
  <2> QED
    BY <2>1, <2>2
<1>3. ASSUME ctl.pc \in InHand, Fails PROVE "request" \in hit'[ctl.cell]
  BY <1>3, FailsHit
<1>4. ASSUME PostProfile PROVE ClearInv'
  <2>1. ctl.pc \in InHand /\ (Apply(Target, Cell.profile.apply) \/ NoEffect)
    BY <1>4, ProfileGoes DEF InHand
  <2>2. ctl'.cell = ctl.cell
    BY <1>4, ProfileGoes, FailGoes, GoesFields DEF Stay
  <2>3. ctl'.pc \in {"apply", "restart"} \/ "request" \in hit'[ctl.cell]
    BY <1>3, <1>4, <2>1, ProfileGoes, GoesFields DEF Stay
  <2>4. \A t \in Targets : OpenFor(t)' \/ "request" \in hit'[ctl.cell]
    BY <2>3 DEF OpenFor, InHand
  <2> QED
    BY <1>2, <2>1, <2>2, <2>4
<1>5. ASSUME PostEvent PROVE ClearInv'
  <2>1. ctl.pc \in InHand /\ (Apply(Target, Events[ctl.ev].apply) \/ NoEffect)
    BY <1>5, EventGoes DEF InHand
  <2>2. ctl'.cell = ctl.cell /\ ctl'.pc \in {"fire", "plan"}
    BY <1>5, EventGoes, GoesFields DEF Stay
  <2>3. \A t \in Targets : OpenFor(t)'
    BY <2>2 DEF OpenFor, InHand
  <2> QED
    BY <1>2, <2>1, <2>2, <2>3
<1>6. ASSUME PostRestart PROVE ClearInv'
  <2>1. ctl.pc \in InHand /\ link' = link
    BY <1>6, RestartGoes DEF InHand, Restart, NoEffect, targetVars
  <2>2. ctl'.cell = ctl.cell
    BY <1>6, RestartGoes, FailGoes, GoesFields DEF Stay
  <2>3. ctl'.pc \in {"plan", "restart"} \/ "request" \in hit'[ctl.cell]
    BY <1>3, <1>6, <2>1, RestartGoes, GoesFields DEF Stay
  <2>4. \A t \in Targets : OpenFor(t)' \/ "request" \in hit'[ctl.cell]
    BY <2>3 DEF OpenFor, InHand
  <2> QED
    BY <1>1, <2>1, <2>2, <2>4
<1>7. ASSUME Schedule \/ Wake PROVE ClearInv'
  <2>1. link' = link
    BY <1>7, WaitGoes DEF targetVars
  <2>2. ctl'.cell = ctl.cell /\ ctl'.pc \in {"await", "fire", "collect", "gone"}
    <3>1. CASE ~live /\ RunFails
      BY <3>1, FailGoes, GoesFields
    <3>2. CASE ~(~live /\ RunFails)
      BY <1>7, <3>2, WaitGoes, GoesFields
    <3> QED
      BY <3>1, <3>2
  <2>3. \A t \in Targets : OpenFor(t)'
    BY <2>2 DEF OpenFor, InHand
  <2> QED
    BY <1>1, <2>1, <2>2, <2>3
<1>8. ASSUME Collect PROVE ClearInv'
  <2>1. link' = link /\ ctl.pc = "collect" /\ ctl.pc \in InHand
    BY <1>8, CollectGoes DEF targetVars, InHand
  <2>2. /\ ctl'.cell = ctl.cell
        /\ ctl'.pc = "collect" \/ (ctl'.pc = "clear" /\ ctl'.i = 1)
    BY <1>8, CollectGoes, GoesFields
  <2>3. CASE ctl'.pc = "collect"
    <3>1. \A t \in Targets : OpenFor(t)'
      BY <2>3 DEF OpenFor, InHand
    <3> QED
      BY <1>1, <2>1, <2>2, <3>1
  <2>4. CASE ctl'.pc = "clear" /\ ctl'.i = 1
    <3>1. \A t \in Targets : Uses(ctl.cell, t) => OpenFor(t)'
      BY <2>1, <2>2, <2>4, InHandFacts DEF Uses, OpenFor, Cell
    <3>2. ASSUME NEW t \in Targets, link'[t] # Clear PROVE \E c \in 1..ctl'.cell : Blamed(c, t)'
      <4>1. PICK c \in 1..ctl.cell : Blamed(c, t)
        BY <2>1, <3>2 DEF ClearInv
      <4>2. c = ctl.cell => OpenFor(t)'
        BY <3>1, <4>1 DEF Blamed
      <4> QED
        BY <2>2, <4>1, <4>2, BlameStays
    <3> QED
      BY <3>2 DEF ClearInv
  <2> QED
    BY <2>2, <2>3, <2>4
<1>9. ASSUME PostClear PROVE ClearInv'
  <2>1. ctl.pc = "clear" /\ ctl.pc \in InHand
    BY <1>9, ClearGoes DEF InHand
  <2>2. ctl'.cell = ctl.cell
    BY <1>9, ClearGoes, FailGoes, GoesFields DEF Stay
  <2>3. CASE (Apply(Target, Clear) \/ NoEffect) /\ Fails
    BY <1>2, <1>3, <2>1, <2>2, <2>3
  <2>4. CASE Apply(Target, Clear) /\ Succeeds
    <3> SUFFICES ASSUME NEW t \in Targets, link'[t] # Clear
                 PROVE  \E c \in 1..ctl'.cell : Blamed(c, t)'
        BY DEF ClearInv
    <3>1. t # Target /\ link[t] # Clear
      BY <2>1, <2>4, InHandFacts DEF Apply, CoreInv, TypeInv, WorldType
    <3>2. OpenFor(t) => OpenFor(t)'
      <4> SUFFICES ASSUME OpenFor(t) PROVE OpenFor(t)'
          OBVIOUS
      <4>1. PICK j \in ctl.i..Len(Cell.targets) : Cell.targets[j] = t
        BY <2>1 DEF OpenFor, InHand
      <4>2. j # ctl.i
        BY <2>1, <3>1, <4>1, InHandFacts
      <4>3. j \in (ctl.i + 1)..Len(Cell.targets) /\ ctl.i < Len(Cell.targets)
        BY <2>1, <4>1, <4>2, InHandFacts
      <4>4. ctl'.pc = "clear" /\ ctl'.i = ctl.i + 1
        BY <1>9, <2>1, <4>3, ClearGoes, GoesFields DEF More, Stay
      <4> QED
        BY <2>2, <4>1, <4>3, <4>4 DEF OpenFor, Cell
    <3> QED
      BY <2>2, <3>1, <3>2, BlameStays DEF ClearInv
  <2> QED
    BY <1>9, <2>3, <2>4, ClearGoes
<1>10. ASSUME WriteSummary PROVE ClearInv'
  <2>1. link' = link /\ ctl' = [ctl EXCEPT !.pc = "done"] /\ ctl.pc = "cell"
    BY <1>10 DEF WriteSummary, LastCell, targetVars
  <2>2. ctl'.cell = ctl.cell
    BY <2>1 DEF CoreInv, TypeInv, CtlType
  <2>3. \A t \in Targets : ~OpenFor(t)
    BY <2>1 DEF OpenFor, InHand
  <2> QED
    BY <1>1, <2>1, <2>2, <2>3
<1>11. ASSUME ctl' = ctl, \A t \in Targets : link'[t] # Clear => link[t] # Clear PROVE ClearInv'
  <2>1. \A t \in Targets : OpenFor(t) => OpenFor(t)'
    BY <1>11 DEF OpenFor, Cell
  <2> QED
    BY <1>1, <1>11, <2>1
<1>12. ASSUME NEW t \in Targets, TargetRestarts(t) PROVE ClearInv'
  <2>1. ctl' = ctl /\ link' = [link EXCEPT ![t] = Clear]
    BY <1>12 DEF TargetRestarts
  <2> QED
    BY <1>11, <2>1 DEF CoreInv, TypeInv, WorldType
<1>13. ASSUME NEW t \in Targets, MediaRead(t) \/ MediaRecord(t) PROVE ClearInv'
  BY <1>11, <1>13 DEF MediaRead, MediaRecord
<1>14. ASSUME Tick \/ Cancel \/ UNCHANGED vars PROVE ClearInv'
  BY <1>11, <1>14 DEF Tick, Cancel, vars, targetVars
<1>15. Viewed \subseteq Targets
  BY ExperimentAssumption
<1> QED
  BY <1>4, <1>5, <1>6, <1>7, <1>8, <1>9, <1>10, <1>12, <1>13, <1>14, <1>15, ClearStart
     DEF Next, Runs

\* A load generator that is still impaired when the controller is done, or was
\* stopped (expctl.go:272, the links are cleared whatever comes of it), had a
\* request of the last run that used it fail.
THEOREM LinksLeftClear == Spec => []LeftClear
<1>1. Init => ClearInv
  BY DEF Init, ClearInv
<1>2. CoreInv /\ ClearInv => LeftClear
  <2> SUFFICES ASSUME CoreInv, ClearInv, ctl.pc \in {"done", "gone"},
                      NEW t \in Targets, link[t] # Clear
               PROVE  \E c \in 1..ctl.cell :
                        /\ Uses(c, t)
                        /\ \A d \in (c + 1)..ctl.cell : ~Uses(d, t) \/ "request" \in hit[d]
                        /\ "request" \in hit[c] \/ (ctl.pc = "gone" /\ c = ctl.cell)
      BY DEF LeftClear
  <2>1. OpenFor(t) => ctl.pc = "gone"
    BY DEF OpenFor, InHand
  <2> QED
    BY <2>1 DEF ClearInv, Blamed, Excused
<1> QED
  BY <1>1, <1>2, CoreAlways, ClearStep, PTL DEF Spec

-----------------------------------------------------------------------------
(* A run is what its label says.                                             *)
SetUp == {"plan", "await", "fire", "collect", "clear"}

Start == At(ctl.started, Cell.profile.apply)
Quiet == ctl.pc \in InHand /\ "restart" \notin hit[ctl.cell]

HasProfile(t) == link[t] = Cell.profile.apply
HasBegun(t) == log[t][1] = Start /\ store[t][ctl.cell] # NoRec

\* Unless a load generator restarted, those that were asked for have the
\* profile, then sessions that began under it.
SetUpInv ==
    Quiet =>
      /\ \A j \in 1..Len(Cell.targets) :
           /\ ctl.pc = "restart" \/ (ctl.pc = "apply" /\ j < ctl.i) => HasProfile(Cell.targets[j])
           /\ ctl.pc \in SetUp \/ (ctl.pc = "restart" /\ j < ctl.i) => HasBegun(Cell.targets[j])
      /\ ctl.pc = "restart" => now = ctl.started
      /\ \A n \in 1..Len(ctl.got) : ctl.got[n].log[1] = Start

LEMMA QuietBefore ==
    ASSUME CoreInv, [Next]_vars, ctl'.cell = ctl.cell, ctl.pc \in InHand, Quiet'
    PROVE  Quiet
BY InHandFacts, HitGrows DEF Quiet

LEMMA SameCell ==
    ASSUME ctl'.cell = ctl.cell
    PROVE  Cell' = Cell /\ Events' = Events
BY DEF Cell, Events

\* The first entry of a log stays when the link changes again.
LEMMA FirstStays ==
    ASSUME CoreInv, NEW t \in Targets, NEW imp, Apply(Target, imp) \/ NoEffect
    PROVE  log'[t][1] = log[t][1]
<1>1. log[t] \in LinkLog /\ log[t] # <<>>
  BY DEF CoreInv, TypeInv, WorldType
<1>2. Len(log[t]) \in Nat \ {0}
  BY <1>1, EmptySeq DEF LinkLog
<1>3. Append(log[t], At(now, imp))[1] = log[t][1]
  BY <1>1, <1>2, AppendProperties DEF LinkLog
<1> QED
  BY <1>3 DEF Apply, NoEffect, targetVars, CoreInv, TypeInv, WorldType

LEMMA SetUpStart == CoreInv /\ StartCell => SetUpInv'
<1> SUFFICES ASSUME CoreInv, StartCell PROVE SetUpInv'
    OBVIOUS
<1>1. CASE live
  <2>1. ctl'.pc = "apply" /\ ctl'.i = 1 /\ ctl'.got = <<>>
    BY <1>1 DEF StartCell, CoreInv, TypeInv, CtlType
  <2> QED
    BY <2>1 DEF SetUpInv, SetUp
<1>2. CASE ~live
  <2>1. ctl'.pc = "gone"
    BY <1>2 DEF StartCell, CoreInv, TypeInv, CtlType
  <2> QED
    BY <2>1 DEF SetUpInv, Quiet, InHand
<1> QED
  BY <1>1, <1>2

LEMMA SetUpProfile == CoreInv /\ SetUpInv /\ PostProfile => SetUpInv'
<1> SUFFICES ASSUME CoreInv, SetUpInv, PostProfile, Quiet' PROVE SetUpInv'
    BY DEF SetUpInv
<1>1. ctl.pc = "apply" /\ ctl.pc \in InHand /\ ctl.got = <<>>
  BY ProfileGoes DEF InHand, CoreInv, PlaceInv
<1>2. Apply(Target, Cell.profile.apply) /\ Succeeds
      /\ (\/ More /\ Stay
          \/ ~More /\ ctl.i = Len(Cell.targets) /\ Goes("restart", 1, ctl.ev, now, ctl.got))
  <2>1. RunFails => ~Quiet'
    BY FailGoes, GoesFields DEF Quiet, InHand
  <2> QED
    BY <2>1, ProfileGoes
<1>3. ctl'.cell = ctl.cell /\ ctl'.got = <<>> /\ now' = now
      /\ (\/ ctl'.pc = "apply" /\ ctl'.i = ctl.i + 1
          \/ ctl'.pc = "restart" /\ ctl'.i = 1 /\ ctl'.started = now /\ ctl.i = Len(Cell.targets))
  BY <1>1, <1>2, GoesFields DEF Stay, Succeeds
<1>4. Cell' = Cell /\ Quiet
  BY <1>1, <1>3, SameCell, QuietBefore DEF Next, Runs
<1>5. \A j \in 1..Len(Cell.targets) : j <= ctl.i => link'[Cell.targets[j]] = Cell.profile.apply
  <2> SUFFICES ASSUME NEW j \in 1..Len(Cell.targets), j <= ctl.i
               PROVE  link'[Cell.targets[j]] = Cell.profile.apply
      OBVIOUS
  <2>1. Cell.targets[j] \in Targets /\ ctl.i \in Nat /\ Target = Cell.targets[ctl.i]
    BY <1>1, InHandFacts
  <2>2. link' = [link EXCEPT ![Target] = Cell.profile.apply]
    BY <1>2 DEF Apply
  <2>3. link \in [Targets -> Imp]
    BY DEF CoreInv, TypeInv, WorldType
  <2>4. j < ctl.i => link[Cell.targets[j]] = Cell.profile.apply
    BY <1>1, <1>4 DEF SetUpInv, HasProfile
  <2> QED
    BY <2>1, <2>2, <2>3, <2>4
<1>6. ctl.i \in Nat /\ Len(Cell.targets) \in Nat
  BY <1>1, InHandFacts
<1>7. \A j \in 1..Len(Cell.targets) :
         ctl'.pc = "restart" \/ j < ctl'.i => HasProfile(Cell.targets[j])'
  BY <1>3, <1>4, <1>5, <1>6 DEF HasProfile
<1> QED
  BY <1>3, <1>4, <1>7 DEF SetUpInv, SetUp

LEMMA SetUpRestart == CoreInv /\ SetUpInv /\ PostRestart => SetUpInv'
<1> SUFFICES ASSUME CoreInv, SetUpInv, PostRestart, Quiet' PROVE SetUpInv'
    BY DEF SetUpInv
<1>1. ctl.pc = "restart" /\ ctl.pc \in InHand /\ ctl.got = <<>>
  BY RestartGoes DEF InHand, CoreInv, PlaceInv
<1>2. Restart(Target, ctl.cell) /\ Succeeds
      /\ (\/ More /\ Stay
          \/ ~More /\ ctl.i = Len(Cell.targets)
             /\ Goes("plan", 1, ctl.ev, ctl.started, ctl.got))
  <2>1. RunFails => ~Quiet'
    BY FailGoes, GoesFields DEF Quiet, InHand
  <2> QED
    BY <2>1, RestartGoes
<1>3. ctl'.cell = ctl.cell /\ ctl'.got = <<>> /\ now' = now /\ ctl'.started = ctl.started
      /\ (\/ ctl'.pc = "restart" /\ ctl'.i = ctl.i + 1
          \/ ctl'.pc = "plan" /\ ctl.i = Len(Cell.targets))
  BY <1>1, <1>2, GoesFields DEF Stay, Succeeds
<1>4. Cell' = Cell /\ Quiet
  BY <1>1, <1>3, SameCell, QuietBefore DEF Next, Runs
<1>5. \A j \in 1..Len(Cell.targets) : j <= ctl.i => HasBegun(Cell.targets[j])'
  <2> SUFFICES ASSUME NEW j \in 1..Len(Cell.targets), j <= ctl.i
               PROVE  HasBegun(Cell.targets[j])'
      OBVIOUS
  <2> DEFINE t == Cell.targets[j]
  <2>1. /\ t \in Targets /\ ctl.i \in Nat /\ Target = Cell.targets[ctl.i]
        /\ ctl.cell \in RunIds /\ Target \in Targets
    BY <1>1, InHandFacts
  <2>2. Start' = Start
    BY <1>3, <1>4 DEF Start
  <2>3. /\ store \in [Targets -> [RunIds -> Recording \cup {NoRec}]]
        /\ log \in [Targets -> LinkLog \ {<<>>}] /\ now \in Nat
    BY DEF CoreInv, TypeInv, WorldType, RestType
  <2>4. now = ctl.started /\ link[Target] = Cell.profile.apply
    BY <1>1, <1>4, <2>1, InHandFacts DEF SetUpInv, HasProfile
  <2>5. CASE t = Target
    <3>1. log'[Target] = <<At(now, link[Target])>>
      BY <1>2, <2>1, <2>3 DEF Restart
    <3>2. store'[Target][ctl.cell] = Rec!newRecorder(now)
      BY <1>2, <2>1, <2>3 DEF Restart
    <3>3. log'[Target][1] = Start
      BY <2>4, <3>1 DEF Start
    <3>4. Rec!newRecorder(now) # NoRec
      BY <2>3, NewRecorderType, NoRecIsNone
    <3> QED
      BY <1>3, <1>4, <2>2, <2>5, <3>2, <3>3, <3>4 DEF HasBegun
  <2>6. CASE t # Target
    <3>1. j < ctl.i
      BY <2>1, <2>6
    <3>2. HasBegun(t)
      BY <1>1, <1>4, <3>1 DEF SetUpInv
    <3>3. log'[t] = log[t] /\ store'[t] = store[t]
      BY <1>2, <2>1, <2>3, <2>6 DEF Restart
    <3> QED
      BY <1>3, <1>4, <2>2, <3>2, <3>3 DEF HasBegun
  <2> QED
    BY <2>5, <2>6
<1>6. ctl.i \in Nat /\ Len(Cell.targets) \in Nat
  BY <1>1, InHandFacts
<1>7. \A j \in 1..Len(Cell.targets) :
         ctl'.pc = "plan" \/ j < ctl'.i => HasBegun(Cell.targets[j])'
  BY <1>3, <1>4, <1>5, <1>6
<1>8. \A j \in 1..Len(Cell.targets) : HasProfile(Cell.targets[j])'
  BY <1>1, <1>2, <1>4 DEF SetUpInv, HasProfile, Restart
<1>9. now = ctl.started
  BY <1>1, <1>4 DEF SetUpInv
<1> QED
  BY <1>3, <1>4, <1>7, <1>8, <1>9 DEF SetUpInv, SetUp

\* While the links go through the timeline and are cleared, the load
\* generators' sessions stay.
LEMMA SetUpKept ==
    ASSUME CoreInv, SetUpInv, [Next]_vars, ctl.pc \in SetUp, ctl'.pc \in SetUp,
           ctl'.cell = ctl.cell, ctl'.started = ctl.started,
           \A t \in Targets : log'[t][1] = log[t][1],
           \A t \in Targets : store[t][ctl.cell] # NoRec => store'[t][ctl.cell] # NoRec,
           Quiet => \A n \in 1..Len(ctl'.got) : ctl'.got[n].log[1] = Start
    PROVE  SetUpInv'
<1> SUFFICES ASSUME Quiet' PROVE SetUpInv'
    BY DEF SetUpInv
<1>1. ctl.pc \in InHand /\ ctl'.pc # "restart" /\ ctl'.pc # "apply"
  BY DEF SetUp, InHand
<1>2. Quiet /\ Cell' = Cell
  BY <1>1, QuietBefore, SameCell
<1>3. Start' = Start
  BY <1>2 DEF Start
<1>4. \A j \in 1..Len(Cell.targets) : HasBegun(Cell.targets[j])'
  BY <1>1, <1>2, <1>3, InHandFacts DEF SetUpInv, HasBegun
<1> QED
  BY <1>1, <1>2, <1>3, <1>4 DEF SetUpInv

LEMMA SetUpCollect == CoreInv /\ SetUpInv /\ Collect => SetUpInv'
<1> SUFFICES ASSUME CoreInv, SetUpInv, Collect PROVE SetUpInv'
    OBVIOUS
<1>1. ctl.pc = "collect" /\ ctl.pc \in InHand /\ UNCHANGED targetVars
  BY CollectGoes DEF InHand
<1>2. PICK g \in Seq(SessionRec) :
        /\ g = ctl.got \o Results(Target) \/ g = ctl.got
        /\ \/ Goes("collect", ctl.i + 1, ctl.ev, ctl.started, g)
           \/ Goes("clear", 1, ctl.ev, ctl.started, g)
  BY CollectGoes
<1>3. /\ ctl'.pc \in {"collect", "clear"} /\ ctl'.cell = ctl.cell
      /\ ctl'.started = ctl.started /\ ctl'.got = g
  BY <1>2, GoesFields
<1>4. ASSUME Quiet PROVE \A n \in 1..Len(g) : g[n].log[1] = Start
  <2>1. \A n \in 1..Len(ctl.got) : ctl.got[n].log[1] = Start
    BY <1>4 DEF SetUpInv
  <2>2. log[Target][1] = Start
    BY <1>1, <1>4, InHandFacts DEF SetUpInv, HasBegun, SetUp
  <2>3. CASE g = ctl.got \o Results(Target)
    <3>1. CASE Results(Target) = <<>>
      BY <2>1, <2>3, <3>1 DEF CoreInv, TypeInv, CtlType
    <3>2. CASE Results(Target) # <<>>
      <4> DEFINE r == [t |-> Target, rec |-> store[Target][ctl.cell], log |-> log[Target],
                       late |-> Len(pending[Target])]
      <4>1. Results(Target) = <<r>> /\ r.log = log[Target]
        BY <3>2 DEF Results
      <4> HIDE DEF r
      <4>2. ctl.got \in Seq(SessionRec)
        BY DEF CoreInv, TypeInv, CtlType
      <4>3. \A n \in 1..Len(g) : g[n] = r \/ (n \in 1..Len(ctl.got) /\ g[n] = ctl.got[n])
        BY <2>3, <4>1, <4>2
      <4> QED
        BY <2>1, <2>2, <4>1, <4>3
    <3> QED
      BY <3>1, <3>2
  <2> QED
    BY <1>2, <2>1, <2>3
<1> QED
  BY <1>1, <1>3, <1>4, SetUpKept DEF SetUp, targetVars, Next, Runs

LEMMA SetUpStep == CoreInv /\ SetUpInv /\ [Next]_vars => SetUpInv'
<1> SUFFICES ASSUME CoreInv, SetUpInv, [Next]_vars PROVE SetUpInv'
    OBVIOUS
<1>1. ASSUME ctl'.pc \notin InHand PROVE SetUpInv'
  BY <1>1 DEF SetUpInv, Quiet
<1>2. \A imp : \A t \in Targets : Apply(t, imp) \/ NoEffect => store' = store
  BY DEF Apply, NoEffect, targetVars
<1>3. ASSUME RunFails PROVE ctl'.pc \notin InHand
  BY <1>3, FailGoes, GoesFields DEF InHand
<1>4. ASSUME Schedule \/ Wake PROVE SetUpInv'
  <2>1. ctl.pc \in {"plan", "await"} /\ UNCHANGED targetVars
    BY <1>4, WaitGoes
  <2>2. CASE RunFails
    BY <1>1, <1>3, <2>2
  <2>3. CASE ~RunFails
    <3>1. /\ ctl'.pc \in {"await", "fire", "collect"} /\ ctl'.cell = ctl.cell
          /\ ctl'.started = ctl.started /\ ctl'.got = ctl.got
      BY <1>4, <2>3, WaitGoes, GoesFields
    <3>2. ctl.pc \in SetUp /\ ctl'.pc \in SetUp
      BY <2>1, <3>1 DEF SetUp
    <3> QED
      BY <2>1, <3>1, <3>2, SetUpKept DEF SetUpInv, targetVars
  <2> QED
    BY <2>2, <2>3
<1>5. ASSUME PostEvent PROVE SetUpInv'
  <2>1. /\ ctl.pc = "fire" /\ ctl.pc \in InHand /\ ctl.pc \in SetUp
        /\ Apply(Target, Events[ctl.ev].apply) \/ NoEffect
    BY <1>5, EventGoes DEF SetUp, InHand
  <2>2. /\ ctl'.pc \in {"fire", "plan"} /\ ctl'.cell = ctl.cell
        /\ ctl'.started = ctl.started /\ ctl'.got = ctl.got
    BY <1>5, EventGoes, GoesFields DEF Stay
  <2>3. ctl'.pc \in SetUp
    BY <2>2 DEF SetUp
  <2>4. store' = store /\ \A t \in Targets : log'[t][1] = log[t][1]
    BY <1>2, <2>1, InHandFacts, FirstStays
  <2> QED
    BY <2>1, <2>2, <2>3, <2>4, SetUpKept DEF SetUpInv
<1>6. ASSUME PostClear PROVE SetUpInv'
  <2>1. /\ ctl.pc = "clear" /\ ctl.pc \in InHand /\ ctl.pc \in SetUp
        /\ Apply(Target, Clear) \/ NoEffect
    BY <1>6, ClearGoes DEF SetUp, InHand
  <2>2. CASE Stay
    <3>1. /\ ctl'.pc = "clear" /\ ctl'.cell = ctl.cell
          /\ ctl'.started = ctl.started /\ ctl'.got = ctl.got
      BY <2>1, <2>2, GoesFields DEF Stay
    <3>2. ctl'.pc \in SetUp
      BY <3>1 DEF SetUp
    <3>3. store' = store /\ \A t \in Targets : log'[t][1] = log[t][1]
      BY <1>2, <2>1, InHandFacts, FirstStays
    <3> QED
      BY <2>1, <3>1, <3>2, <3>3, SetUpKept DEF SetUpInv
  <2>3. CASE ~Stay
    <3>1. RunFails \/ Goes("cell", ctl.i, ctl.ev, ctl.started, ctl.got)
      BY <1>6, <2>3, ClearGoes
    <3>2. ctl'.pc \notin InHand
      BY <1>3, <3>1, GoesFields DEF InHand
    <3> QED
      BY <1>1, <3>2
  <2> QED
    BY <2>2, <2>3
<1>7. ASSUME WriteSummary PROVE SetUpInv'
  <2>1. ctl'.pc = "done"
    BY <1>7 DEF WriteSummary, LastCell, CoreInv, TypeInv, CtlType
  <2> QED
    BY <1>1, <2>1 DEF InHand
<1>8. ASSUME UNCHANGED <<ctl, link, log, store, hit>>, now' = now \/ ctl.pc = "await" PROVE SetUpInv'
  BY <1>8 DEF SetUpInv, Quiet, HasProfile, HasBegun, Start, Cell, SetUp
<1>9. ASSUME Tick \/ Cancel \/ UNCHANGED vars PROVE SetUpInv'
  BY <1>8, <1>9 DEF Tick, Cancel, vars, targetVars
<1>10. ASSUME NEW t \in Targets, TargetRestarts(t) PROVE SetUpInv'
  <2>1. ctl' = ctl /\ hit' = [hit EXCEPT ![ctl.cell] = @ \cup {"restart"}]
    BY <1>10 DEF TargetRestarts
  <2>2. ctl.pc \in InHand => "restart" \in hit'[ctl'.cell]
    BY <2>1, InHandFacts DEF CoreInv, TypeInv, RestType
  <2> QED
    BY <2>1, <2>2 DEF SetUpInv, Quiet
<1>11. ASSUME NEW t \in Targets, MediaRead(t) PROVE SetUpInv'
  BY <1>8, <1>11 DEF MediaRead
<1>12. ASSUME NEW t \in Targets, MediaRecord(t) PROVE SetUpInv'
  <2>1. UNCHANGED <<ctl, link, log, hit, now>>
    BY <1>12 DEF MediaRecord
  <2>2. \A u \in Targets, r \in RunIds : store[u][r] # NoRec => store'[u][r] # NoRec
    BY <1>12, RecordKeeps
  <2>3. CASE ctl.pc \in SetUp
    <3>1. ctl.cell \in RunIds
      BY DEF CoreInv, TypeInv, CtlType
    <3> QED
      BY <2>1, <2>2, <2>3, <3>1, SetUpKept DEF SetUpInv
  <2>4. CASE ctl.pc \notin SetUp
    <3> SUFFICES ASSUME Quiet' PROVE SetUpInv'
        BY DEF SetUpInv
    <3>1. Quiet /\ ctl.pc \in InHand /\ Cell' = Cell /\ Start' = Start
      BY <2>1 DEF Quiet, Cell, Start
    <3>2. \A j \in 1..Len(Cell.targets) :
            /\ HasProfile(Cell.targets[j]) => HasProfile(Cell.targets[j])'
            /\ HasBegun(Cell.targets[j]) => HasBegun(Cell.targets[j])'
      BY <2>1, <2>2, <3>1, InHandFacts DEF HasProfile, HasBegun
    <3> QED
      BY <2>1, <2>4, <3>1, <3>2 DEF SetUpInv, SetUp
  <2> QED
    BY <2>3, <2>4
<1>13. Viewed \subseteq Targets
  BY ExperimentAssumption
<1> QED
  BY <1>4, <1>5, <1>6, <1>7, <1>9, <1>10, <1>11, <1>12, <1>13,
     SetUpStart, SetUpProfile, SetUpRestart, SetUpCollect DEF Next, Runs

\* What a link has gone through after n events of the run in hand.
Played(n) ==
    [k \in 1..(n + 1) |->
       IF k = 1 THEN Start ELSE At(ctl.started + Events[k - 1].at, Events[k - 1].apply)]

\* The number of events that target j has had.
Had(j) == IF ctl.pc = "fire" /\ j < ctl.i THEN ctl.ev ELSE ctl.ev - 1

HasPlayed(j) == log[Cell.targets[j]] = Played(Had(j))

Fresh == ctl.pc \in InHand /\ hit[ctl.cell] = {}

\* If nothing failed, each target has gone through the events that were due,
\* each at its time, and was collected after the last.
TimelineInv ==
    Fresh =>
      /\ ctl.pc \in {"plan", "await"} /\ ctl.ev <= Len(Events) =>
           now <= ctl.started + Events[ctl.ev].at
      /\ ctl.pc = "fire" => now = ctl.started + Events[ctl.ev].at
      /\ ctl.pc \in {"apply", "restart"} => ctl.ev = 1
      /\ \A j \in 1..Len(Cell.targets) :
           ctl.pc \in {"plan", "await", "fire", "collect"} \/ (ctl.pc = "restart" /\ j < ctl.i)
             => HasPlayed(j)
      /\ ctl.pc = "collect" => Len(ctl.got) = ctl.i - 1
      /\ ctl.pc = "clear" => Len(ctl.got) = Len(Cell.targets)
      /\ \A n \in 1..Len(ctl.got) :
           ctl.got[n].t = Cell.targets[n] /\ ctl.got[n].log = Played(Len(Events))

\* A target is named once in a cell of the matrix.
DistinctTargets == \A c \in Cells : IsInjective(Plan[c].targets)

LEMMA PlayedType ==
    ASSUME CoreInv, ctl.pc \in InHand, NEW n \in 0..Len(Events)
    PROVE  /\ Played(n) \in LinkLog /\ Len(Played(n)) = n + 1 /\ Played(n)[1] = Start
           /\ \A k \in 1..n : Played(n)[k + 1] = At(ctl.started + Events[k].at, Events[k].apply)
<1>1. /\ n \in Nat /\ ctl.started \in Nat /\ Cell.profile.apply \in Imp
      /\ \A k \in 1..n : Events[k].at \in Nat /\ Events[k].apply \in Imp
  BY InHandFacts DEF CoreInv, TypeInv, CtlType
<1> DEFINE E == [at : Nat, imp : Imp]
<1>2. Start \in E
  BY <1>1 DEF Start, At
<1>3. ASSUME NEW k \in 2..(n + 1)
      PROVE  At(ctl.started + Events[k - 1].at, Events[k - 1].apply) \in E
  <2>1. k - 1 \in 1..n
    BY <1>1
  <2>2. Events[k - 1].at \in Nat /\ Events[k - 1].apply \in Imp
    BY <1>1, <2>1
  <2> QED
    BY <1>1, <2>2 DEF At
<1> HIDE DEF E
<1>4. Played(n) \in [1..(n + 1) -> E]
  BY <1>1, <1>2, <1>3 DEF Played
<1>5. Played(n) \in Seq(E) /\ Len(Played(n)) = n + 1
  BY <1>1, <1>4
<1>6. Played(n)[1] = Start
  BY <1>1 DEF Played
<1>7. ASSUME NEW k \in 1..n
      PROVE  Played(n)[k + 1] = At(ctl.started + Events[k].at, Events[k].apply)
  <2>1. k + 1 \in 1..(n + 1) /\ k + 1 # 1 /\ (k + 1) - 1 = k
    BY <1>1
  <2> QED
    BY <2>1 DEF Played
<1> QED
  BY <1>5, <1>6, <1>7 DEF E, LinkLog

LEMMA PlayedNext ==
    ASSUME CoreInv, ctl.pc \in InHand, NEW n \in 1..Len(Events)
    PROVE  Append(Played(n - 1), At(ctl.started + Events[n].at, Events[n].apply)) = Played(n)
<1>1. n \in 0..Len(Events) /\ n - 1 \in 0..Len(Events) /\ n \in Nat
  BY InHandFacts
<1> DEFINE x == At(ctl.started + Events[n].at, Events[n].apply)
           a == Played(n - 1)
           b == Played(n)
           L == [at : Nat, imp : Imp]
<1>2. /\ a \in LinkLog /\ Len(a) = n /\ a[1] = Start
      /\ \A k \in 1..(n - 1) : a[k + 1] = At(ctl.started + Events[k].at, Events[k].apply)
  BY <1>1, PlayedType
<1>3. /\ b \in LinkLog /\ Len(b) = n + 1 /\ b[1] = Start
      /\ \A k \in 1..n : b[k + 1] = At(ctl.started + Events[k].at, Events[k].apply)
  BY <1>1, PlayedType
<1> HIDE DEF a, b
<1>a. a \in Seq(L) /\ b \in Seq(L)
  BY <1>2, <1>3 DEF LinkLog
<1>b. x \in L
  <2>1. ctl.started \in Nat /\ Events[n].at \in Nat /\ Events[n].apply \in Imp
    BY InHandFacts DEF CoreInv, TypeInv, CtlType
  <2> QED
    BY <2>1 DEF At
<1> HIDE DEF L, x
<1>4. a \in Seq(L) /\ b \in Seq(L) /\ x \in L
  BY <1>a, <1>b
<1>5. /\ Append(a, x) \in Seq(L) /\ Len(Append(a, x)) = n + 1
      /\ \A k \in 1..n : Append(a, x)[k] = a[k]
      /\ Append(a, x)[n + 1] = x
  BY <1>2, <1>4, AppendProperties
<1>6. ASSUME NEW k \in 1..(n + 1) PROVE Append(a, x)[k] = b[k]
  <2>1. CASE k = 1
    BY <1>1, <1>2, <1>3, <1>5, <2>1
  <2>2. CASE k \in 2..n
    <3>1. k - 1 \in 1..(n - 1) /\ k - 1 \in 1..n /\ (k - 1) + 1 = k /\ k \in 1..n
      BY <1>1, <2>2
    <3> QED
      BY <1>2, <1>3, <1>5, <3>1
  <2>3. CASE k = n + 1
    <3>1. n \in 1..n
      BY <1>1
    <3> QED
      BY <1>3, <1>5, <2>3, <3>1 DEF x
  <2>4. k = 1 \/ k \in 2..n \/ k = n + 1
    BY <1>1
  <2> QED
    BY <2>1, <2>2, <2>3, <2>4
<1>7. Append(a, x) = b
  BY <1>3, <1>4, <1>5, <1>6, SeqEqual
<1> QED
  BY <1>7 DEF a, b, x

LEMMA FreshBefore ==
    ASSUME CoreInv, [Next]_vars, ctl'.cell = ctl.cell, ctl.pc \in InHand, Fresh'
    PROVE  Fresh /\ Quiet /\ ~Fails
<1>1. hit[ctl.cell] = {}
  BY InHandFacts, HitGrows DEF Fresh
<1>2. ~Fails
  BY FailsHit DEF Fresh
<1> QED
  BY <1>1, <1>2 DEF Fresh, Quiet

LEMMA SamePlayed ==
    ASSUME ctl'.cell = ctl.cell, ctl'.started = ctl.started
    PROVE  Start' = Start /\ \A n : Played(n)' = Played(n)
BY SameCell DEF Start, Played

LEMMA TimelineStart == CoreInv /\ StartCell => TimelineInv'
<1> SUFFICES ASSUME CoreInv, StartCell PROVE TimelineInv'
    OBVIOUS
<1>1. CASE live
  <2>1. ctl'.pc = "apply" /\ ctl'.i = 1 /\ ctl'.ev = 1 /\ ctl'.got = <<>>
    BY <1>1 DEF StartCell, CoreInv, TypeInv, CtlType
  <2> QED
    BY <2>1 DEF TimelineInv
<1>2. CASE ~live
  <2>1. ctl'.pc = "gone"
    BY <1>2 DEF StartCell, CoreInv, TypeInv, CtlType
  <2> QED
    BY <2>1 DEF TimelineInv, Fresh, InHand
<1> QED
  BY <1>1, <1>2

LEMMA TimelineProfile == CoreInv /\ TimelineInv /\ PostProfile => TimelineInv'
<1> SUFFICES ASSUME CoreInv, TimelineInv, PostProfile, Fresh' PROVE TimelineInv'
    BY DEF TimelineInv
<1>1. ctl.pc = "apply" /\ ctl.pc \in InHand /\ ctl.got = <<>>
  BY ProfileGoes DEF InHand, CoreInv, PlaceInv
<1>2. Stay \/ Goes("restart", 1, ctl.ev, now, ctl.got)
  <2>1. RunFails => ~Fresh'
    BY FailGoes, GoesFields DEF Fresh, InHand
  <2> QED
    BY <2>1, ProfileGoes
<1>3. /\ ctl'.cell = ctl.cell /\ ctl'.got = <<>> /\ ctl'.ev = ctl.ev
      /\ ctl'.pc = "apply" \/ (ctl'.pc = "restart" /\ ctl'.i = 1)
  BY <1>1, <1>2, GoesFields DEF Stay
<1>4. Fresh
  BY <1>1, <1>3, FreshBefore DEF Next, Runs
<1>5. ctl'.ev = 1
  BY <1>1, <1>3, <1>4 DEF TimelineInv
<1> QED
  BY <1>3, <1>5 DEF TimelineInv

LEMMA TimelineRestart == DistinctTargets /\ CoreInv /\ SetUpInv /\ TimelineInv /\ PostRestart => TimelineInv'
<1> SUFFICES ASSUME DistinctTargets, CoreInv, SetUpInv, TimelineInv, PostRestart, Fresh'
             PROVE  TimelineInv'
    BY DEF TimelineInv
<1>1. ctl.pc = "restart" /\ ctl.pc \in InHand /\ ctl.got = <<>>
  BY RestartGoes DEF InHand, CoreInv, PlaceInv
<1>2. Restart(Target, ctl.cell) /\ Succeeds
      /\ (\/ More /\ Stay
          \/ ~More /\ ctl.i = Len(Cell.targets)
             /\ Goes("plan", 1, ctl.ev, ctl.started, ctl.got))
  <2>1. RunFails => ~Fresh'
    BY FailGoes, GoesFields DEF Fresh, InHand
  <2> QED
    BY <2>1, RestartGoes
<1>3. /\ ctl'.cell = ctl.cell /\ ctl'.got = <<>> /\ now' = now /\ ctl'.started = ctl.started
      /\ ctl'.ev = ctl.ev
      /\ (\/ ctl'.pc = "restart" /\ ctl'.i = ctl.i + 1
          \/ ctl'.pc = "plan" /\ ctl.i = Len(Cell.targets))
  BY <1>1, <1>2, GoesFields DEF Stay, Succeeds
<1>4. Cell' = Cell /\ Events' = Events /\ Fresh /\ Quiet /\ \A n : Played(n)' = Played(n)
  BY <1>1, <1>3, SameCell, SamePlayed, FreshBefore DEF Next, Runs
<1>5. ctl.ev = 1 /\ now = ctl.started
  BY <1>1, <1>4 DEF TimelineInv, SetUpInv
<1>6. Played(0) = <<Start>>
  BY DEF Played
<1>7. \A j \in 1..Len(Cell.targets) : j <= ctl.i => log'[Cell.targets[j]] = Played(0)
  <2> SUFFICES ASSUME NEW j \in 1..Len(Cell.targets), j <= ctl.i
               PROVE  log'[Cell.targets[j]] = Played(0)
      OBVIOUS
  <2>1. Cell.targets[j] \in Targets /\ ctl.i \in 1..Len(Cell.targets) /\ Target = Cell.targets[ctl.i]
    BY <1>1, InHandFacts
  <2>2. log' = [log EXCEPT ![Target] = <<At(now, link[Target])>>] /\ log \in [Targets -> LinkLog \ {<<>>}]
    BY <1>2 DEF Restart, CoreInv, TypeInv, WorldType
  <2>3. CASE Cell.targets[j] = Target
    <3>1. link[Target] = Cell.profile.apply
      BY <1>1, <1>4, <2>1 DEF SetUpInv, HasProfile
    <3>2. log'[Cell.targets[j]] = <<At(now, link[Target])>>
      BY <2>1, <2>2, <2>3
    <3> QED
      BY <1>5, <1>6, <3>1, <3>2 DEF Start
  <2>4. CASE Cell.targets[j] # Target
    <3>1. j < ctl.i
      BY <2>1, <2>4
    <3>2. log[Cell.targets[j]] = Played(Had(j)) /\ Had(j) = 0
      BY <1>1, <1>4, <1>5, <3>1 DEF TimelineInv, HasPlayed, Had
    <3> QED
      BY <2>1, <2>2, <2>4, <3>2
  <2> QED
    BY <2>3, <2>4
<1>8. \A j \in 1..Len(Cell.targets) : j <= ctl.i => HasPlayed(j)'
  <2>1. \A j \in 1..Len(Cell.targets) : Had(j)' = 0
    BY <1>3, <1>5 DEF Had
  <2> QED
    BY <1>4, <1>7, <2>1 DEF HasPlayed
<1>9. ctl.i \in Nat /\ Len(Cell.targets) \in Nat
  BY <1>1, InHandFacts
<1>10. \A j \in 1..Len(Cell.targets) : ctl'.pc = "plan" \/ j < ctl'.i => HasPlayed(j)'
  BY <1>3, <1>8, <1>9
<1>11. ctl'.ev <= Len(Events') => now' <= ctl'.started + Events'[ctl'.ev].at
  <2> SUFFICES ASSUME ctl'.ev <= Len(Events') PROVE now' <= ctl'.started + Events'[ctl'.ev].at
      OBVIOUS
  <2>1. Events[1].at \in Nat /\ now \in Nat
    BY <1>1, <1>3, <1>4, <1>5, InHandFacts DEF CoreInv, TypeInv, RestType
  <2> QED
    BY <1>3, <1>4, <1>5, <2>1
<1> QED
  BY <1>3, <1>4, <1>5, <1>10, <1>11 DEF TimelineInv

LEMMA TimelineWait == CoreInv /\ TimelineInv /\ (Schedule \/ Wake) => TimelineInv'
<1> SUFFICES ASSUME CoreInv, TimelineInv, Schedule \/ Wake, Fresh' PROVE TimelineInv'
    BY DEF TimelineInv
<1>1. /\ ctl.pc \in {"plan", "await"} /\ ctl.pc \in InHand /\ ctl.got = <<>>
      /\ UNCHANGED <<now, targetVars>>
  BY WaitGoes DEF InHand, CoreInv, PlaceInv
<1>2. ~RunFails
  BY FailGoes, GoesFields DEF Fresh, InHand
<1>3. /\ ctl'.cell = ctl.cell /\ ctl'.got = <<>> /\ ctl'.started = ctl.started
      /\ ctl'.ev = ctl.ev /\ ctl'.i = ctl.i
      /\ \/ ctl'.pc = "await" /\ now < Due
         \/ ctl'.pc = "fire" /\ ~(now < Due) /\ ctl.ev <= Len(Events)
         \/ ctl'.pc = "collect" /\ ctl.ev > Len(Events)
  BY <1>1, <1>2, WaitGoes, GoesFields
<1>4. Cell' = Cell /\ Events' = Events /\ Fresh /\ \A n : Played(n)' = Played(n)
  BY <1>1, <1>3, SameCell, SamePlayed, FreshBefore DEF Next, Runs
<1>5. ctl.i = 1 /\ 1 - 1 = 0
  BY <1>1 DEF CoreInv, PlaceInv
<1>6. \A j \in 1..Len(Cell.targets) : HasPlayed(j)'
  <2> SUFFICES ASSUME NEW j \in 1..Len(Cell.targets) PROVE HasPlayed(j)'
      OBVIOUS
  <2>1. HasPlayed(j) /\ Had(j) = ctl.ev - 1
    BY <1>1, <1>4 DEF TimelineInv, Had
  <2>2. Had(j)' = ctl.ev - 1
    BY <1>3, <1>5 DEF Had
  <2> QED
    BY <1>1, <1>4, <2>1, <2>2 DEF HasPlayed, targetVars
<1>7. ctl.ev <= Len(Events) => now <= ctl.started + Events[ctl.ev].at
  BY <1>1, <1>4 DEF TimelineInv
<1>8. ctl'.pc = "fire" => now = ctl.started + Events[ctl.ev].at
  <2> SUFFICES ASSUME ctl'.pc = "fire" PROVE now = ctl.started + Events[ctl.ev].at
      OBVIOUS
  <2>1. ctl.ev <= Len(Events) /\ ~(now < Due)
    BY <1>3
  <2>2. ctl.started \in Nat /\ Events[ctl.ev].at \in Nat /\ now \in Nat
    BY <1>1, <2>1, InHandFacts DEF CoreInv, TypeInv, CtlType, RestType
  <2>3. Due = ctl.started + Events[ctl.ev].at
    BY <2>1 DEF Due
  <2> QED
    BY <1>7, <2>1, <2>2, <2>3
<1> QED
  BY <1>1, <1>3, <1>4, <1>5, <1>6, <1>7, <1>8 DEF TimelineInv

LEMMA TimelineTick == CoreInv /\ TimelineInv /\ Tick => TimelineInv'
<1> SUFFICES ASSUME CoreInv, TimelineInv, Tick, Fresh' PROVE TimelineInv'
    BY DEF TimelineInv
<1>1. /\ ctl' = ctl /\ ctl.pc = "await" /\ ctl.pc \in InHand /\ now < Due /\ now' = now + 1
      /\ log' = log
  BY DEF Tick, InHand, targetVars
<1>2. Cell' = Cell /\ Events' = Events /\ Fresh /\ \A n : Played(n)' = Played(n)
  BY <1>1, SameCell, SamePlayed, FreshBefore DEF Next, Runs
<1>3. ctl.ev <= Len(Events) => now' <= ctl.started + Events[ctl.ev].at
  <2> SUFFICES ASSUME ctl.ev <= Len(Events) PROVE now' <= ctl.started + Events[ctl.ev].at
      OBVIOUS
  <2>1. ctl.started \in Nat /\ Events[ctl.ev].at \in Nat /\ now \in Nat
    BY <1>1, InHandFacts DEF CoreInv, TypeInv, CtlType, RestType
  <2> QED
    BY <1>1, <2>1 DEF Due
<1>4. \A j : HasPlayed(j)' <=> HasPlayed(j)
  BY <1>1, <1>2 DEF HasPlayed, Had
<1> QED
  BY <1>1, <1>2, <1>3, <1>4 DEF TimelineInv

LEMMA TimelineEvent == DistinctTargets /\ CoreInv /\ TimelineInv /\ PostEvent => TimelineInv'
<1> SUFFICES ASSUME DistinctTargets, CoreInv, TimelineInv, PostEvent, Fresh' PROVE TimelineInv'
    BY DEF TimelineInv
<1>1. ctl.pc = "fire" /\ ctl.pc \in InHand /\ ctl.got = <<>> /\ ctl.ev \in 1..Len(Events)
  BY EventGoes DEF InHand, CoreInv, PlaceInv
<1>2. /\ ctl'.cell = ctl.cell /\ ctl'.got = <<>> /\ ctl'.started = ctl.started
      /\ \/ ctl'.pc = "fire" /\ ctl'.i = ctl.i + 1 /\ ctl'.ev = ctl.ev
         \/ ctl'.pc = "plan" /\ ctl'.i = 1 /\ ctl'.ev = ctl.ev + 1 /\ ctl.i = Len(Cell.targets)
  BY <1>1, EventGoes, GoesFields DEF Stay
<1>3. /\ Cell' = Cell /\ Events' = Events /\ Fresh /\ \A n : Played(n)' = Played(n)
      /\ Apply(Target, Events[ctl.ev].apply) /\ now' = now
  BY <1>1, <1>2, SameCell, SamePlayed, FreshBefore, EventGoes DEF Next, Runs, Succeeds
<1>4. /\ ctl.ev \in Nat /\ ctl.i \in 1..Len(Cell.targets) /\ Len(Cell.targets) \in Nat
      /\ ctl.cell \in Cells /\ Len(Events) \in Nat /\ Target = Cell.targets[ctl.i]
      /\ DOMAIN Cell.targets = 1..Len(Cell.targets)
      /\ \A k \in 1..Len(Events) : Events[k].at \in Nat
      /\ now \in Nat /\ ctl.started \in Nat
  BY <1>1, InHandFacts DEF CoreInv, TypeInv, CtlType, RestType
<1>5. now = ctl.started + Events[ctl.ev].at
  BY <1>1, <1>3 DEF TimelineInv
<1>6. ASSUME NEW j \in 1..Len(Cell.targets) PROVE HasPlayed(j)'
  <2>1. log' = [log EXCEPT ![Target] = Append(@, At(now, Events[ctl.ev].apply))]
    BY <1>3 DEF Apply
  <2>2. log \in [Targets -> LinkLog \ {<<>>}] /\ Cell.targets[j] \in Targets
    BY <1>1, InHandFacts DEF CoreInv, TypeInv, WorldType
  <2>3. log[Cell.targets[j]] = Played(Had(j))
    BY <1>1, <1>3 DEF TimelineInv, HasPlayed
  <2>4. CASE j = ctl.i
    <3>1. Had(j) = ctl.ev - 1 /\ Had(j)' = ctl.ev
      BY <1>1, <1>2, <1>4, <2>4 DEF Had
    <3>2. Append(Played(ctl.ev - 1), At(now, Events[ctl.ev].apply)) = Played(ctl.ev)
      BY <1>1, <1>5, PlayedNext
    <3>3. log'[Cell.targets[j]] = Append(log[Cell.targets[j]], At(now, Events[ctl.ev].apply))
      BY <1>4, <2>1, <2>2, <2>4
    <3> QED
      BY <1>3, <2>3, <3>1, <3>2, <3>3 DEF HasPlayed
  <2>5. CASE j # ctl.i
    <3>1. Cell.targets[j] # Target
      BY <1>4, <2>5 DEF DistinctTargets, IsInjective, Cell
    <3>2. log'[Cell.targets[j]] = log[Cell.targets[j]]
      BY <2>1, <2>2, <3>1
    <3>3. Had(j)' = Had(j)
      BY <1>1, <1>2, <1>4, <2>5 DEF Had
    <3> QED
      BY <1>3, <2>3, <3>2, <3>3 DEF HasPlayed
  <2> QED
    BY <2>4, <2>5
<1>7. ctl'.pc = "plan" /\ ctl'.ev <= Len(Events) => now <= ctl.started + Events[ctl'.ev].at
  <2> SUFFICES ASSUME ctl'.ev = ctl.ev + 1, ctl.ev + 1 <= Len(Events)
               PROVE  now <= ctl.started + Events[ctl'.ev].at
      BY <1>2
  <2>1. Events[ctl.ev].at <= Events[ctl.ev + 1].at
    <3>1. ctl.ev \in 1..Len(Cell.profile.timeline) /\ ctl.ev + 1 \in 1..Len(Cell.profile.timeline)
      BY <1>1, <1>4, EventsType
    <3>2. \A j, k \in 1..Len(Cell.profile.timeline) : j < k => Events[j].at <= Events[k].at
      BY <1>4, EventsSorted
    <3>3. ctl.ev < ctl.ev + 1
      <4>1. PICK n \in Nat : n = ctl.ev
        BY <3>1
      <4> QED
        BY <4>1
    <3> QED
      BY <3>1, <3>2, <3>3, Zenon
  <2>2. PICK p \in Nat, q \in Nat, s \in Nat :
          /\ p = Events[ctl.ev].at /\ q = Events[ctl.ev + 1].at /\ s = ctl.started
          /\ ctl.ev + 1 \in 1..Len(Events)
    <3>1. ctl.ev \in 1..Len(Events) /\ ctl.ev + 1 \in 1..Len(Events)
      BY <1>1, <1>4
    <3> QED
      BY <1>4, <3>1
  <2>3. now = s + p /\ p <= q
    BY <1>5, <2>1, <2>2
  <2>4. now <= s + q
    BY <2>3
  <2>5. Events[ctl'.ev].at = q /\ ctl.started = s
    BY <2>2
  <2> QED
    BY <2>4, <2>5
<1> QED
  BY <1>2, <1>3, <1>5, <1>6, <1>7 DEF TimelineInv

LEMMA TimelineCollect == CoreInv /\ SetUpInv /\ TimelineInv /\ Collect => TimelineInv'
<1> SUFFICES ASSUME CoreInv, SetUpInv, TimelineInv, Collect, Fresh' PROVE TimelineInv'
    BY DEF TimelineInv
<1>1. ctl.pc = "collect" /\ ctl.pc \in InHand /\ UNCHANGED targetVars
  BY CollectGoes DEF InHand
<1>2. PICK g \in Seq(SessionRec) :
        /\ \/ Succeeds /\ g = ctl.got \o Results(Target)
           \/ Fails /\ g = ctl.got
        /\ \/ More /\ Goes("collect", ctl.i + 1, ctl.ev, ctl.started, g)
           \/ ~More /\ ctl.i = Len(Cell.targets) /\ Goes("clear", 1, ctl.ev, ctl.started, g)
  BY CollectGoes
<1>3. /\ ctl'.cell = ctl.cell /\ ctl'.started = ctl.started /\ ctl'.got = g /\ ctl'.ev = ctl.ev
      /\ \/ ctl'.pc = "collect" /\ ctl'.i = ctl.i + 1
         \/ ctl'.pc = "clear" /\ ctl.i = Len(Cell.targets)
  BY <1>2, GoesFields
<1>4. /\ Cell' = Cell /\ Events' = Events /\ Fresh /\ Quiet /\ ~Fails
      /\ \A n : Played(n)' = Played(n)
  BY <1>1, <1>3, SameCell, SamePlayed, FreshBefore DEF Next, Runs
<1>5. /\ ctl.i \in 1..Len(Cell.targets) /\ Len(Cell.targets) \in Nat /\ Target = Cell.targets[ctl.i]
      /\ ctl.got \in Seq(SessionRec) /\ Len(ctl.got) = ctl.i - 1
      /\ ctl.ev = Len(Events) + 1 /\ Len(Events) \in Nat
  BY <1>1, <1>4, InHandFacts DEF TimelineInv, CoreInv, TypeInv, CtlType, PlaceInv
<1> DEFINE r == [t |-> Target, rec |-> store[Target][ctl.cell], log |-> log[Target],
                 late |-> Len(pending[Target])]
<1>6. Results(Target) = <<r>>
  BY <1>1, <1>4, <1>5 DEF SetUpInv, SetUp, HasBegun, Results
<1>7. r.t = Cell.targets[ctl.i] /\ r.log = Played(Len(Events))
  <2>1. log[Target] = Played(Had(ctl.i))
    BY <1>1, <1>4, <1>5 DEF TimelineInv, HasPlayed
  <2>2. Had(ctl.i) = Len(Events)
    BY <1>1, <1>5 DEF Had
  <2> QED
    BY <1>5, <2>1, <2>2
<1> HIDE DEF r
<1>8. g = Append(ctl.got, r)
  BY <1>2, <1>4, <1>5, <1>6
<1>9. /\ Len(g) = ctl.i
      /\ \A n \in 1..Len(g) : (n = ctl.i /\ g[n] = r)
                             \/ (n \in 1..Len(ctl.got) /\ g[n] = ctl.got[n])
  BY <1>5, <1>8
<1>10. \A n \in 1..Len(ctl.got) :
          ctl.got[n].t = Cell.targets[n] /\ ctl.got[n].log = Played(Len(Events))
  BY <1>4 DEF TimelineInv
<1>11. \A n \in 1..Len(g) : g[n].t = Cell.targets[n] /\ g[n].log = Played(Len(Events))
  BY <1>7, <1>9, <1>10
<1>12. \A j \in 1..Len(Cell.targets) : HasPlayed(j)'
  <2>1. \A j \in 1..Len(Cell.targets) : HasPlayed(j) /\ Had(j)' = Had(j)
    BY <1>1, <1>3, <1>4 DEF TimelineInv, Had
  <2> QED
    BY <1>1, <1>4, <2>1 DEF HasPlayed, targetVars
<1>13. ctl'.pc = "collect" => Len(g) = ctl'.i - 1
  BY <1>3, <1>5, <1>9
<1> QED
  BY <1>3, <1>4, <1>9, <1>11, <1>12, <1>13 DEF TimelineInv

LEMMA TimelineStep ==
    DistinctTargets /\ CoreInv /\ SetUpInv /\ TimelineInv /\ [Next]_vars => TimelineInv'
<1> SUFFICES ASSUME DistinctTargets, CoreInv, SetUpInv, TimelineInv, [Next]_vars PROVE TimelineInv'
    OBVIOUS
<1>1. ASSUME PostClear PROVE TimelineInv'
  <2> SUFFICES ASSUME Fresh' PROVE TimelineInv'
      BY DEF TimelineInv
  <2>1. ctl.pc = "clear" /\ ctl.pc \in InHand
    BY <1>1, ClearGoes DEF InHand
  <2>2. Stay
    BY <1>1, ClearGoes, FailGoes, GoesFields DEF Fresh, InHand
  <2>3. /\ ctl'.pc = "clear" /\ ctl'.cell = ctl.cell /\ ctl'.ev = ctl.ev
        /\ ctl'.started = ctl.started /\ ctl'.got = ctl.got
    BY <2>1, <2>2, GoesFields DEF Stay
  <2>4. /\ Cell' = Cell /\ Events' = Events /\ Fresh /\ \A n : Played(n)' = Played(n)
    BY <2>1, <2>3, SameCell, SamePlayed, FreshBefore
  <2> QED
    BY <2>1, <2>3, <2>4 DEF TimelineInv
<1>2. ASSUME WriteSummary PROVE TimelineInv'
  <2>1. ctl'.pc = "done"
    BY <1>2 DEF WriteSummary, LastCell, CoreInv, TypeInv, CtlType
  <2> QED
    BY <2>1 DEF TimelineInv, Fresh, InHand
<1>3. ASSUME UNCHANGED <<ctl, log, hit, now>> PROVE TimelineInv'
  <2>1. Cell' = Cell /\ Events' = Events /\ \A n : Played(n)' = Played(n)
    BY <1>3, SameCell, SamePlayed
  <2>2. \A j : HasPlayed(j)' <=> HasPlayed(j)
    BY <1>3, <2>1 DEF HasPlayed, Had
  <2> QED
    BY <1>3, <2>1, <2>2 DEF TimelineInv, Fresh
<1>4. ASSUME Cancel \/ UNCHANGED vars PROVE TimelineInv'
  BY <1>3, <1>4 DEF Cancel, vars, targetVars
<1>5. ASSUME NEW t \in Targets, MediaRead(t) \/ MediaRecord(t) PROVE TimelineInv'
  BY <1>3, <1>5 DEF MediaRead, MediaRecord
<1>6. ASSUME NEW t \in Targets, TargetRestarts(t) PROVE TimelineInv'
  <2>1. ctl' = ctl /\ hit' = [hit EXCEPT ![ctl.cell] = @ \cup {"restart"}]
    BY <1>6 DEF TargetRestarts
  <2>2. ctl.pc \in InHand => "restart" \in hit'[ctl'.cell]
    BY <2>1, InHandFacts DEF CoreInv, TypeInv, RestType
  <2> QED
    BY <2>1, <2>2 DEF TimelineInv, Fresh
<1>7. Viewed \subseteq Targets
  BY ExperimentAssumption
<1> QED
  BY <1>1, <1>2, <1>4, <1>5, <1>6, <1>7, TimelineStart, TimelineProfile, TimelineRestart,
     TimelineWait, TimelineTick, TimelineEvent, TimelineCollect DEF Next, Runs

\* The log that TimelineInv describes is the one the label asks for.
LEMMA PlayedPrescribed ==
    ASSUME CoreInv, ctl.pc \in InHand
    PROVE  AsPrescribed(RunRecord, Played(Len(Events)))
<1> DEFINE tl == Cell.profile.timeline
           n == Len(Events)
           log_ == Played(Len(Events))
<1>1. n \in Nat /\ Len(tl) = n /\ ctl.started \in Nat /\ \A k \in 1..n : Events[k].at \in Nat
  BY InHandFacts DEF CoreInv, TypeInv, CtlType
<1>2. /\ Events \in Seq([at : Nat, apply : Imp])
      /\ \A j, k \in 1..Len(tl) : j < k => Events[j].at <= Events[k].at
      /\ \E p \in [DOMAIN tl -> DOMAIN tl] :
           IsInjective(p) /\ Events = [k \in DOMAIN tl |-> tl[p[k]]]
  BY InHandFacts, EventsSorted
<1>3. DOMAIN tl = 1..n
  <2>1. Plan[ctl.cell].profile.timeline \in Seq([at : Nat, apply : Imp])
    BY InHandFacts, CellType
  <2> HIDE DEF n
  <2> QED
    BY <1>1, <2>1 DEF Cell
<1>4. /\ log_ \in LinkLog /\ Len(log_) = n + 1 /\ log_[1] = Start
      /\ \A k \in 1..n : log_[k + 1] = At(ctl.started + Events[k].at, Events[k].apply)
  BY <1>1, PlayedType
<1>5. RunRecord.profile.timeline = tl /\ RunRecord.started = ctl.started
      /\ RunRecord.profile.apply = Cell.profile.apply
  BY DEF RunRecord
<1> HIDE DEF n, log_, tl
<1>6. PICK p \in [DOMAIN tl -> DOMAIN tl] :
        IsInjective(p) /\ Events = [k \in DOMAIN tl |-> tl[p[k]]]
  BY <1>2
<1>7. Tail(log_) = [k \in DOMAIN tl |-> At(ctl.started + tl[p[k]].at, tl[p[k]].apply)]
  <2>1. /\ DOMAIN Tail(log_) = 1..n
        /\ \A k \in 1..n : Tail(log_)[k] = log_[k + 1]
    <3>1. log_ # <<>>
      BY <1>1, <1>4
    <3>2. Tail(log_) \in LinkLog /\ Len(Tail(log_)) = n
      BY <1>1, <1>4, <3>1, HeadTailProperties DEF LinkLog
    <3>3. \A k \in 1..n : Tail(log_)[k] = log_[k + 1]
      BY <1>1, <1>4, <3>1, <3>2, HeadTailProperties DEF LinkLog
    <3> QED
      BY <3>2, <3>3 DEF LinkLog
  <2>2. \A k \in 1..n : Events[k] = tl[p[k]]
    BY <1>3, <1>6
  <2>3. \A k \in 1..n : Tail(log_)[k] = At(ctl.started + tl[p[k]].at, tl[p[k]].apply)
    BY <1>4, <2>1, <2>2
  <2> DEFINE E == [at : Nat, imp : Imp]
             other == [k \in 1..n |-> At(ctl.started + tl[p[k]].at, tl[p[k]].apply)]
  <2>4. \A k \in 1..n : other[k] = Tail(log_)[k]
    BY <2>3
  <2>5. Tail(log_) \in LinkLog /\ Len(Tail(log_)) = n
    <3>1. log_ # <<>>
      BY <1>1, <1>4
    <3> QED
      BY <1>1, <1>4, <3>1, HeadTailProperties DEF LinkLog
  <2>6. Tail(log_) \in Seq(E)
    BY <2>5 DEF LinkLog
  <2> HIDE DEF E
  <2>7. \A k \in 1..n : Tail(log_)[k] \in E
    BY <2>5, <2>6
  <2>8. other \in [1..n -> E]
    BY <2>4, <2>7
  <2> HIDE DEF other
  <2>9. other \in Seq(E) /\ Len(other) = n
    BY <1>1, <2>8
  <2>10. Tail(log_) = other
    BY <2>4, <2>5, <2>6, <2>9, SeqEqual
  <2> QED
    BY <1>3, <2>10 DEF other
<1>8. IsSorted(log_, LAMBDA a, b : a.at <= b.at)
  <2> SUFFICES ASSUME NEW i \in 1..(n + 1), NEW j \in 1..(n + 1), i < j
               PROVE  log_[i].at <= log_[j].at
      BY <1>4 DEF IsSorted
  <2>1. PICK b \in 1..n : j = b + 1
    <3>1. j - 1 \in 1..n /\ j = (j - 1) + 1
      BY <1>1
    <3> QED
      BY <3>1
  <2>a. \A k \in 1..n : log_[k + 1].at = ctl.started + Events[k].at
    <3> SUFFICES ASSUME NEW k \in 1..n PROVE log_[k + 1].at = ctl.started + Events[k].at
        OBVIOUS
    <3>1. log_[k + 1] = At(ctl.started + Events[k].at, Events[k].apply)
      BY <1>4
    <3> QED
      BY <3>1 DEF At
  <2>2. log_[j].at = ctl.started + Events[b].at /\ Events[b].at \in Nat
    BY <1>1, <2>1, <2>a
  <2>3. CASE i = 1
    BY <1>1, <1>4, <2>2, <2>3 DEF Start, At
  <2>4. CASE i # 1
    <3>1. PICK a \in 1..n : i = a + 1
      <4>1. i - 1 \in 1..n /\ i = (i - 1) + 1
        BY <1>1, <2>4
      <4> QED
        BY <4>1
    <3>2. log_[i].at = ctl.started + Events[a].at /\ Events[a].at \in Nat
      BY <1>1, <2>a, <3>1
    <3>3. Events[a].at <= Events[b].at
      <4>1. a \in 1..Len(tl) /\ b \in 1..Len(tl) /\ (a < b \/ a = b)
        BY <1>1, <2>1, <3>1
      <4> QED
        BY <1>1, <1>2, <4>1
    <3> QED
      BY <1>1, <2>2, <3>2, <3>3
  <2> QED
    BY <2>3, <2>4
<1>9. log_[1] = At(RunRecord.started, RunRecord.profile.apply)
  BY <1>4, <1>5 DEF Start
<1> QED
  <2>1. \E q \in [DOMAIN tl -> DOMAIN tl] :
           IsInjective(q)
           /\ Tail(log_) = [k \in DOMAIN tl |-> At(ctl.started + tl[q[k]].at, tl[q[k]].apply)]
    BY <1>6, <1>7
  <2>2. AsPrescribed(RunRecord, log_)
    BY <1>5, <1>8, <1>9, <2>1 DEF AsPrescribed, IsSorted
  <2> QED
    BY <2>2 DEF log_

\* Runs are added by the last clear of a run, and not touched again.
LEMMA RunsGoes ==
    ASSUME CoreInv, [Next]_vars
    PROVE  \/ runs' = runs
           \/ /\ PostClear /\ ctl.pc = "clear" /\ runs' = Append(runs, RunRecord)
              /\ Goes("cell", ctl.i, ctl.ev, ctl.started, ctl.got)
<1>1. ASSUME PostProfile \/ PostRestart \/ Schedule \/ Wake \/ PostEvent \/ Collect
      PROVE  runs' = runs
  BY <1>1, ProfileGoes, RestartGoes, WaitGoes, EventGoes, CollectGoes, FailGoes
<1>2. ASSUME PostClear
      PROVE  \/ runs' = runs
             \/ /\ ctl.pc = "clear" /\ runs' = Append(runs, RunRecord)
                /\ Goes("cell", ctl.i, ctl.ev, ctl.started, ctl.got)
  BY <1>2, ClearGoes, FailGoes
<1>3. ASSUME NEW t, StartCell \/ Tick \/ WriteSummary \/ Cancel \/ TargetRestarts(t)
                    \/ MediaRead(t) \/ MediaRecord(t) \/ UNCHANGED vars
      PROVE  runs' = runs
  BY <1>3 DEF StartCell, Tick, WriteSummary, Cancel, TargetRestarts, MediaRead, MediaRecord, vars
<1> QED
  BY <1>1, <1>2, <1>3 DEF Next, Runs

\* Whatever every new run record satisfies, while a failure may be added to
\* what a run met, every run record satisfies.
Begun(rr) ==
    "restart" \notin hit[rr.cell] =>
      \A j \in DOMAIN rr.sessions : rr.sessions[j].log[1] = At(rr.started, rr.profile.apply)

Labelled(rr) ==
    hit[rr.cell] = {} =>
      /\ [j \in DOMAIN rr.sessions |-> rr.sessions[j].t] = Plan[rr.cell].targets
      /\ \A j \in DOMAIN rr.sessions : AsPrescribed(rr, rr.sessions[j].log)

LabelInv == \A k \in 1..Len(runs) : Begun(runs[k]) /\ Labelled(runs[k])

LEMMA LabelNew ==
    ASSUME DistinctTargets, CoreInv, SetUpInv, TimelineInv, ctl.pc = "clear"
    PROVE  Begun(RunRecord) /\ Labelled(RunRecord)
<1>1. /\ ctl.pc \in InHand /\ ctl.got \in Seq(SessionRec)
      /\ RunRecord.cell = ctl.cell /\ RunRecord.sessions = ctl.got
      /\ RunRecord.started = ctl.started /\ RunRecord.profile = Cell.profile
  BY DEF InHand, CoreInv, TypeInv, CtlType, RunRecord
<1>2. DOMAIN ctl.got = 1..Len(ctl.got)
  BY <1>1
<1>3. Begun(RunRecord)
  BY <1>1, <1>2 DEF Begun, SetUpInv, Quiet, Start
<1>4. ASSUME hit[ctl.cell] = {}
      PROVE  /\ [j \in DOMAIN ctl.got |-> ctl.got[j].t] = Plan[ctl.cell].targets
             /\ \A j \in DOMAIN ctl.got : AsPrescribed(RunRecord, ctl.got[j].log)
  <2>1. /\ Len(ctl.got) = Len(Cell.targets)
        /\ \A j \in 1..Len(ctl.got) : ctl.got[j].t = Cell.targets[j]
                                      /\ ctl.got[j].log = Played(Len(Events))
    BY <1>1, <1>4 DEF TimelineInv, Fresh
  <2>2. Cell.targets \in Seq(Targets)
    BY <1>1, InHandFacts, CellType DEF Cell
  <2>3. [j \in DOMAIN ctl.got |-> ctl.got[j].t] = Cell.targets
    BY <1>2, <2>1, <2>2
  <2>4. AsPrescribed(RunRecord, Played(Len(Events)))
    BY <1>1, PlayedPrescribed
  <2> QED
    BY <1>2, <2>1, <2>3, <2>4 DEF Cell
<1> QED
  BY <1>1, <1>3, <1>4 DEF Labelled

LEMMA LabelStep ==
    DistinctTargets /\ CoreInv /\ SetUpInv /\ TimelineInv /\ LabelInv /\ [Next]_vars => LabelInv'
<1> SUFFICES ASSUME DistinctTargets, CoreInv, SetUpInv, TimelineInv, LabelInv, [Next]_vars
             PROVE  LabelInv'
    OBVIOUS
<1>1. \A c \in Cells : hit[c] \subseteq hit'[c]
  BY HitGrows
<1>2. ASSUME NEW rr, rr.cell \in Cells, Begun(rr), Labelled(rr) PROVE Begun(rr)' /\ Labelled(rr)'
  <2>1. "restart" \notin hit'[rr.cell] => "restart" \notin hit[rr.cell]
    BY <1>1, <1>2
  <2>2. hit'[rr.cell] = {} => hit[rr.cell] = {}
    BY <1>1, <1>2
  <2>3. Begun(rr)'
    BY <1>2, <2>1 DEF Begun
  <2>4. Labelled(rr)'
    BY <1>2, <2>2 DEF Labelled
  <2> QED
    BY <2>3, <2>4
<1>3. runs \in Seq(RunRec) /\ \A k \in 1..Len(runs) : runs[k].cell \in Cells
  <2>1. runs \in Seq(RunRec)
    BY DEF CoreInv, TypeInv, RestType
  <2>2. \A k \in 1..Len(runs) : runs[k] \in RunRec
    BY <2>1
  <2> QED
    BY <2>1, <2>2 DEF RunRec
<1>4. CASE runs' = runs
  BY <1>2, <1>3, <1>4 DEF LabelInv
<1>5. CASE ctl.pc = "clear" /\ runs' = Append(runs, RunRecord)
  <2>1. Begun(RunRecord) /\ Labelled(RunRecord) /\ RunRecord.cell \in Cells
    BY <1>5, LabelNew, InHandFacts DEF RunRecord, InHand
  <2> DEFINE rr == RunRecord
  <2> HIDE DEF rr
  <2>2. \A k \in 1..Len(runs') : runs'[k] = rr \/ (k \in 1..Len(runs) /\ runs'[k] = runs[k])
    BY <1>3, <1>5 DEF rr
  <2>3. \A k \in 1..Len(runs') : runs'[k].cell \in Cells /\ Begun(runs'[k]) /\ Labelled(runs'[k])
    BY <1>3, <2>1, <2>2 DEF LabelInv, rr
  <2> QED
    BY <1>2, <2>3 DEF LabelInv
<1> QED
  BY <1>4, <1>5, RunsGoes

LEMMA CoreTyped == CoreInv => TypeOK
<1> SUFFICES ASSUME CoreInv PROVE TypeOK
    OBVIOUS
<1>1. /\ ctl.pc \in {"cell", "apply", "restart", "plan", "await", "fire",
                     "collect", "clear", "done", "gone"}
      /\ ctl.cell \in RunIds /\ ctl.i \in Nat \ {0} /\ ctl.ev \in Nat \ {0}
  BY DEF CoreInv, TypeInv, CtlType, InHand
<1> QED
  BY <1>1 DEF TypeOK, CoreInv, TypeInv, WorldType, RestType

\* A run is what its label says (expctl.go:141): the sessions that were
\* collected began under the profile unless a load generator restarted, and if
\* nothing failed all targets are there and each went through the timeline, in
\* order and on time; provided the matrix names a target once in a cell.
THEOREM RunsAsLabelled == ASSUME DistinctTargets PROVE Spec => []AsLabelled
<1>1. Init => SetUpInv /\ TimelineInv /\ LabelInv
  BY DEF Init, SetUpInv, TimelineInv, LabelInv, Quiet, Fresh, InHand
<1>2. CoreInv /\ LabelInv => AsLabelled
  <2> SUFFICES ASSUME CoreInv, LabelInv PROVE AsLabelled
      OBVIOUS
  <2>1. DOMAIN runs = 1..Len(runs)
    BY DEF CoreInv, TypeInv, RestType
  <2> QED
    BY <2>1, CoreTyped DEF AsLabelled, LabelInv, Begun, Labelled
<1>3. CoreInv /\ SetUpInv /\ TimelineInv /\ LabelInv /\ [Next]_vars
        => SetUpInv' /\ TimelineInv' /\ LabelInv'
  BY SetUpStep, TimelineStep, LabelStep
<1> QED
  BY <1>1, <1>2, <1>3, CoreAlways, PTL DEF Spec

-----------------------------------------------------------------------------
(* Silence.                                                                  *)

LEMMA MinIs ==
    ASSUME NEW S \in SUBSET Nat, NEW x \in S, \A y \in S : x <= y
    PROVE  Min(S) = x
<1>1. \A z \in S : (\A y \in S : z <= y) => z = x
  OBVIOUS
<1> QED
  BY <1>1 DEF Min

Cost(d) == IF d > JitterBuf + Threshold THEN d - JitterBuf ELSE 0
After(S, a) == {b \in S : b > a}
Inner(S) == {a \in S : \E b \in S : b > a}
Gaps(S) == [a \in Inner(S) |-> Cost(Min(After(S, a)) - a)]

LEMMA CostType == \A d \in Int : Cost(d) \in Nat
<1>1. JitterBuf \in Nat /\ Threshold \in Nat
  BY ExperimentAssumption
<1> QED
  BY <1>1 DEF Cost

\* A longer silence costs no less, and one that is broken up costs no more.
LEMMA CostLaws ==
    ASSUME NEW d \in Nat, NEW e \in Nat
    PROVE  Cost(d) <= Cost(d + e) /\ Cost(d) + Cost(e) <= Cost(d + e) /\ Cost(0) = 0
<1>1. JitterBuf \in Nat /\ Threshold \in Nat
  BY ExperimentAssumption
<1> QED
  BY <1>1 DEF Cost

LEMMA NextIs ==
    ASSUME NEW S \in SUBSET Nat, NEW a \in S, NEW b \in S, b > a, \A c \in S : c > a => b <= c
    PROVE  a \in Inner(S) /\ Min(After(S, a)) = b
<1>1. After(S, a) \in SUBSET Nat /\ b \in After(S, a) /\ \A y \in After(S, a) : b <= y
  BY DEF After
<1>2. Min(After(S, a)) = b
  BY <1>1, MinIs
<1> QED
  BY <1>2 DEF Inner

LEMMA NextExists ==
    ASSUME NEW S \in SUBSET Nat, NEW a \in Inner(S)
    PROVE  \E b \in S : b > a /\ (\A c \in S : c > a => b <= c) /\ Min(After(S, a)) = b
<1>1. After(S, a) \in SUBSET Nat /\ After(S, a) # {}
  BY DEF After, Inner
<1>2. PICK b \in After(S, a) : \A c \in After(S, a) : b <= c
  BY <1>1, Smallest
<1>3. a \in S /\ b \in S /\ b > a /\ \A c \in S : c > a => b <= c
  BY <1>2 DEF After, Inner
<1> QED
  BY <1>3, NextIs

LEMMA SilenceSum ==
    ASSUME NEW S \in SUBSET Nat, IsFiniteSet(S)
    PROVE  /\ IsFiniteSet(Inner(S))
           /\ \A a \in Inner(S) : Gaps(S)[a] \in Nat
           /\ Silence(S) = SumFunctionOnSet(Gaps(S), Inner(S))
           /\ Silence(S) \in Nat
<1>1. IsFiniteSet(Inner(S))
  <2>1. Inner(S) \in SUBSET S
    BY DEF Inner
  <2> QED
    BY <2>1, FS_Subset
<1>2. ASSUME NEW a \in Inner(S)
      PROVE  Gaps(S)[a] \in Nat
  <2>1. PICK b \in S : Min(After(S, a)) = b
    BY NextExists
  <2>2. a \in Nat /\ b \in Nat
    BY DEF Inner
  <2> QED
    BY <2>1, <2>2, CostType DEF Gaps
<1>3. Silence(S) = SumFunctionOnSet(Gaps(S), Inner(S))
  BY DEF Silence, SumFunction, Gaps, Inner, After, Cost
<1> QED
  BY <1>1, <1>2, <1>3, SumNat

\* A unit after the others adds the silence before it.
LEMMA SilenceEnds ==
    ASSUME NEW S \in SUBSET Nat, IsFiniteSet(S), NEW m \in S, \A x \in S : x <= m,
           NEW t \in Nat, t > m
    PROVE  Silence(S \cup {t}) = Silence(S) + Cost(t - m)
<1> DEFINE T == S \cup {t}
<1>1. T \in SUBSET Nat /\ IsFiniteSet(T)
  BY FS_AddElement
<1>2. m \notin Inner(S) /\ Inner(T) = Inner(S) \cup {m}
  <2>1. \A a : a \in Inner(S) <=> a \in S /\ a # m
    <3>1. \A x \in S : x # m => m > x
      OBVIOUS
    <3>2. \A x \in S : ~(x > m)
      OBVIOUS
    <3> QED
      BY <3>1, <3>2 DEF Inner
  <2>2. ASSUME NEW a
        PROVE  a \in Inner(T) <=> a \in S
    <3>1. CASE a \in S
      <4>1. t > a
        BY <3>1
      <4> QED
        BY <3>1, <4>1 DEF Inner
    <3>2. CASE a \notin S
      <4>1. ~(\E b \in T : b > t)
        BY <3>2
      <4> QED
        BY <3>2, <4>1 DEF Inner
    <3> QED
      BY <3>1, <3>2
  <2> QED
    BY <2>1, <2>2
<1>3. Gaps(T)[m] = Cost(t - m)
  <2>1. Min(After(T, m)) = t
    BY <1>1, NextIs
  <2>2. m \in Inner(T)
    BY <1>2
  <2> QED
    BY <2>1, <2>2 DEF Gaps
<1>4. ASSUME NEW a \in Inner(S)
      PROVE  Gaps(T)[a] = Gaps(S)[a]
  <2>1. PICK b \in S : b > a /\ (\A c \in S : c > a => b <= c) /\ Min(After(S, a)) = b
    BY NextExists
  <2>2. a \in T /\ b \in T /\ \A c \in T : c > a => b <= c
    BY <2>1 DEF Inner
  <2> HIDE DEF T
  <2>3. Min(After(T, a)) = b /\ a \in Inner(T)
    BY <1>1, <2>1, <2>2, NextIs
  <2> QED
    BY <2>1, <2>3 DEF Gaps
<1> HIDE DEF T
<1>5. Silence(T) = SumFunctionOnSet(Gaps(T), Inner(S) \cup {m})
  BY <1>1, <1>2, SilenceSum
<1>6. \A a \in Inner(S) \cup {m} : Gaps(T)[a] \in Int
  BY <1>1, <1>2, SilenceSum
<1>7. SumFunctionOnSet(Gaps(T), Inner(S) \cup {m}) = Gaps(T)[m] + SumFunctionOnSet(Gaps(T), Inner(S))
  BY <1>2, <1>6, SilenceSum, SumAdd
<1>8. SumFunctionOnSet(Gaps(T), Inner(S)) = SumFunctionOnSet(Gaps(S), Inner(S))
  BY <1>4, SilenceSum, SumSame
<1> QED
  BY <1>3, <1>5, <1>7, <1>8, SilenceSum, CostType DEF T

\* A unit between two others does not add to it.
LEMMA SilenceBroken ==
    ASSUME NEW S \in SUBSET Nat, IsFiniteSet(S), NEW t \in Nat, t \notin S,
           \E x \in S : x < t, \E x \in S : x > t
    PROVE  Silence(S \cup {t}) <= Silence(S)
<1> DEFINE T == S \cup {t}
           Above == {x \in S : x > t}
<1>1. T \in SUBSET Nat /\ IsFiniteSet(T)
  BY FS_AddElement
<1>2. PICK q \in S : q > t /\ \A c \in S : c > t => q <= c
  <2>1. Above \in SUBSET Nat /\ Above # {}
    OBVIOUS
  <2>2. PICK q \in Above : \A c \in Above : q <= c
    BY <2>1, Smallest
  <2> QED
    BY <2>2
<1>3. PICK p \in S : p < t /\ \A c \in S : c < t => c <= p
  <2> DEFINE D == {d \in Nat : \E x \in S : x < t /\ d = t - x}
  <2>1. D \in SUBSET Nat /\ D # {}
    <3>1. PICK x \in S : x < t
      OBVIOUS
    <3>2. t - x \in D
      BY <3>1
    <3> QED
      BY <3>2
  <2>2. PICK d \in D : \A e \in D : d <= e
    BY <2>1, Smallest
  <2>3. PICK x \in S : x < t /\ d = t - x
    BY <2>2
  <2>4. \A c \in S : c < t => t - c \in D
    OBVIOUS
  <2> HIDE DEF D
  <2>5. \A c \in S : c < t => c <= x
    BY <2>2, <2>3, <2>4
  <2> QED
    BY <2>3, <2>5
<1>4. \A c \in S : c > p => q <= c
  BY <1>2, <1>3
<1>5. p \in Inner(S) /\ Min(After(S, p)) = q
  BY <1>2, <1>3, <1>4, NextIs
<1>6. p \in Inner(T) /\ Min(After(T, p)) = t /\ t \in Inner(T) /\ Min(After(T, t)) = q
  <2>1. \A c \in T : (c > p => t <= c) /\ (c > t => q <= c)
    BY <1>2, <1>4
  <2>2. p \in T /\ t \in T /\ q \in T
    OBVIOUS
  <2> HIDE DEF T
  <2> QED
    BY <1>1, <1>2, <1>3, <2>1, <2>2, NextIs
<1>7. Inner(T) = Inner(S) \cup {t} /\ t \notin Inner(S)
  <2>1. t \notin Inner(S)
    BY DEF Inner
  <2>2. \A a \in S : a \in Inner(T) => a \in Inner(S)
    <3>1. \A a \in S : t > a => q > a
      BY <1>2
    <3> QED
      BY <1>2, <3>1 DEF Inner
  <2>3. Inner(S) \subseteq Inner(T) /\ Inner(T) \subseteq S \cup {t}
    BY DEF Inner
  <2> QED
    BY <1>6, <2>1, <2>2, <2>3
<1>8. ASSUME NEW a \in Inner(S) \ {p}
      PROVE  Gaps(T)[a] = Gaps(S)[a]
  <2>1. PICK b \in S : b > a /\ (\A c \in S : c > a => b <= c) /\ Min(After(S, a)) = b
    BY NextExists
  <2>2. a \in S /\ a # p
    BY DEF Inner
  <2>3. a < t => b <= p
    BY <1>3, <2>1, <2>2
  <2>4. a \in T /\ b \in T /\ \A c \in T : c > a => b <= c
    BY <1>3, <2>1, <2>2, <2>3
  <2> HIDE DEF T
  <2>5. Min(After(T, a)) = b /\ a \in Inner(T)
    BY <1>1, <2>1, <2>4, NextIs
  <2> QED
    BY <2>1, <2>5 DEF Gaps
<1> HIDE DEF T
<1>9. /\ Gaps(S)[p] = Cost(q - p)
      /\ Gaps(T)[p] = Cost(t - p)
      /\ Gaps(T)[t] = Cost(q - t)
  BY <1>5, <1>6 DEF Gaps
<1>10. /\ IsFiniteSet(Inner(S))
       /\ \A a \in Inner(S) : Gaps(S)[a] \in Int
       /\ \A a \in Inner(S) \cup {t} : Gaps(T)[a] \in Int
  BY <1>1, <1>7, SilenceSum
<1>11. Silence(T) = SumFunctionOnSet(Gaps(T), Inner(S) \cup {t})
  BY <1>1, <1>7, SilenceSum
<1>12. SumFunctionOnSet(Gaps(T), Inner(S) \cup {t}) = Gaps(T)[t] + SumFunctionOnSet(Gaps(T), Inner(S))
  BY <1>7, <1>10, SumAdd
<1>13. SumFunctionOnSet(Gaps(T), Inner(S))
         = SumFunctionOnSet(Gaps(S), Inner(S)) - Gaps(S)[p] + Gaps(T)[p]
  <2>1. \A a \in Inner(S) : Gaps(S)[a] \in Int /\ Gaps(T)[a] \in Int
    BY <1>10
  <2>2. \A a \in Inner(S) \ {p} : Gaps(S)[a] = Gaps(T)[a]
    BY <1>8
  <2> DEFINE f == Gaps(S)
             g == Gaps(T)
             I == Inner(S)
  <2>3. /\ p \in I /\ IsFiniteSet(I)
        /\ \A a \in I : f[a] \in Int /\ g[a] \in Int
        /\ \A a \in I : a # p => f[a] = g[a]
    BY <1>5, <1>10, <2>1, <2>2
  <2> HIDE DEF f, g, I
  <2>4. SumFunctionOnSet(g, I) = SumFunctionOnSet(f, I) - f[p] + g[p]
    BY <2>3, SumChange
  <2> QED
    BY <2>4 DEF f, g, I
<1>14. Silence(S) = SumFunctionOnSet(Gaps(S), Inner(S)) /\ Silence(S) \in Nat
  BY SilenceSum
<1>15. Cost(t - p) + Cost(q - t) <= Cost(q - p)
  <2>1. t - p \in Nat /\ q - t \in Nat /\ (t - p) + (q - t) = q - p
    BY <1>2, <1>3
  <2> QED
    BY <2>1, CostLaws
<1>16. Cost(t - p) \in Nat /\ Cost(q - t) \in Nat /\ Cost(q - p) \in Nat
  BY CostType
<1>17. Silence(T) = Cost(q - t) + (Silence(S) - Cost(q - p) + Cost(t - p))
  BY <1>9, <1>11, <1>12, <1>13, <1>14
<1> QED
  BY <1>14, <1>15, <1>16, <1>17 DEF T

-----------------------------------------------------------------------------
(* Recordings.                                                               *)

\* The units of arr that came in second s.
Came(arr, s) == {k \in DOMAIN arr : arr[k] \div PerSec = s}

\* What holds of a recording: the samples are those of the units, and what is
\* booked as stalled is their silence, or no less.
RecInv(r) ==
    /\ r.prevArr = IF r.arr = <<>> THEN 0 ELSE r.arr[Len(r.arr)]
    /\ IsFiniteSet(DOMAIN r.seconds)
    /\ DOMAIN r.seconds = {s \in Nat : Came(r.arr, s) # {}}
    /\ \A s \in DOMAIN r.seconds : r.seconds[s].bytes = Cardinality(Came(r.arr, s))
    /\ r.stalled = SumFunction([s \in DOMAIN r.seconds |-> r.seconds[s].stall])
    /\ Len(r.arr) = SumFunction([s \in DOMAIN r.seconds |-> r.seconds[s].bytes])
    /\ r.arr # <<>> =>
         /\ IsSorted(r.arr, <=) => r.stalled = Silence(Range(r.arr))
         /\ r.arr[1] = Min(Range(r.arr)) => r.stalled >= Silence(Range(r.arr))

LEMMA RangeAppend ==
    ASSUME NEW arr \in Seq(Nat \ {0}), NEW t \in Nat \ {0}
    PROVE  /\ Append(arr, t) \in Seq(Nat \ {0}) /\ Append(arr, t) # <<>>
           /\ Len(Append(arr, t)) = Len(arr) + 1
           /\ \A k \in 1..Len(arr) : Append(arr, t)[k] = arr[k]
           /\ Append(arr, t)[Len(arr) + 1] = t
           /\ Range(Append(arr, t)) = Range(arr) \cup {t}
<1> DEFINE new == Append(arr, t)
<1>1. /\ new \in Seq(Nat \ {0}) /\ new # <<>> /\ Len(new) = Len(arr) + 1
      /\ \A k \in 1..Len(arr) : new[k] = arr[k]
      /\ new[Len(arr) + 1] = t
  <2> DEFINE S == Nat \ {0}
  <2>1. arr \in Seq(S) /\ t \in S
    OBVIOUS
  <2> HIDE DEF S
  <2>2. /\ new \in Seq(S) /\ new # <<>> /\ Len(new) = Len(arr) + 1
        /\ \A k \in 1..Len(arr) : new[k] = arr[k]
        /\ new[Len(arr) + 1] = t
    BY <2>1, AppendProperties
  <2> QED
    BY <2>2 DEF S
<1>2. Range(new) = Range(arr) \cup {t}
  <2>1. DOMAIN new = 1..(Len(arr) + 1) /\ DOMAIN arr = 1..Len(arr) /\ Len(arr) \in Nat
    BY <1>1
  <2> HIDE DEF new
  <2>2. \A x : x \in Range(new) <=> \E k \in 1..(Len(arr) + 1) : x = new[k]
    BY <2>1 DEF Range
  <2>3. \A x : x \in Range(arr) <=> \E k \in 1..Len(arr) : x = arr[k]
    BY <2>1 DEF Range
  <2>4. \A k \in 1..(Len(arr) + 1) : k \in 1..Len(arr) \/ k = Len(arr) + 1
    BY <2>1
  <2>5. Len(arr) + 1 \in 1..(Len(arr) + 1) /\ 1..Len(arr) \subseteq 1..(Len(arr) + 1)
    BY <2>1
  <2>6. \A x \in Range(new) : x \in Range(arr) \cup {t}
    BY <1>1, <2>2, <2>3, <2>4
  <2>7. \A x \in Range(arr) \cup {t} : x \in Range(new)
    BY <1>1, <2>2, <2>3, <2>5
  <2> QED
    BY <2>6, <2>7
<1> QED
  BY <1>1, <1>2

LEMMA RangeType ==
    ASSUME NEW arr \in Seq(Nat \ {0})
    PROVE  /\ Range(arr) \in SUBSET Nat /\ IsFiniteSet(Range(arr))
           /\ \A k \in 1..Len(arr) : arr[k] \in Range(arr)
           /\ \A x \in Range(arr) : \E k \in 1..Len(arr) : x = arr[k]
<1>1. DOMAIN arr = 1..Len(arr) /\ Len(arr) \in Nat
  OBVIOUS
<1>2. arr \in Surjection(1..Len(arr), Range(arr))
  BY <1>1 DEF Surjection, Range
<1>3. IsFiniteSet(Range(arr))
  BY <1>1, <1>2, FS_Surjection, FS_Interval
<1> QED
  BY <1>1, <1>3 DEF Range

LEMMA CameNext ==
    ASSUME NEW arr \in Seq(Nat \ {0}), NEW t \in Nat \ {0}, NEW s \in Nat
    PROVE  /\ IsFiniteSet(Came(arr, s)) /\ Cardinality(Came(arr, s)) \in Nat
           /\ s = t \div PerSec =>
                /\ Came(Append(arr, t), s) # {}
                /\ Cardinality(Came(Append(arr, t), s)) = Cardinality(Came(arr, s)) + 1
           /\ s # t \div PerSec => Came(Append(arr, t), s) = Came(arr, s)
<1> DEFINE new == Append(arr, t)
           n == Len(arr) + 1
<1>1. /\ DOMAIN new = 1..n /\ DOMAIN arr = 1..Len(arr) /\ Len(arr) \in Nat
      /\ \A k \in 1..Len(arr) : new[k] = arr[k]
      /\ new[n] = t
  BY RangeAppend
<1>2. Came(arr, s) \in SUBSET (1..Len(arr))
  BY <1>1 DEF Came
<1>3. IsFiniteSet(Came(arr, s)) /\ Cardinality(Came(arr, s)) \in Nat
  <2>1. IsFiniteSet(1..Len(arr))
    BY <1>1, FS_Interval
  <2>2. IsFiniteSet(Came(arr, s))
    BY <1>2, <2>1, FS_Subset
  <2> QED
    BY <2>2, FS_CardinalityType
<1> HIDE DEF new, n
<1>4. \A k \in 1..n : k \in 1..Len(arr) \/ k = n
  BY <1>1 DEF n
<1>5. n \in 1..n /\ n \notin 1..Len(arr) /\ 1..Len(arr) \subseteq 1..n
  BY <1>1 DEF n
<1>6. CASE s = t \div PerSec
  <2>1. Came(new, s) = Came(arr, s) \cup {n}
    BY <1>1, <1>4, <1>5, <1>6 DEF Came
  <2>2. n \notin Came(arr, s)
    BY <1>2, <1>5
  <2>3. Cardinality(Came(new, s)) = Cardinality(Came(arr, s)) + 1
    BY <1>3, <2>1, <2>2, FS_AddElement
  <2> QED
    BY <1>3, <1>6, <2>1, <2>3 DEF new
<1>7. CASE s # t \div PerSec
  <2>1. Came(new, s) = Came(arr, s)
    BY <1>1, <1>4, <1>5, <1>7 DEF Came
  <2> QED
    BY <1>3, <1>7, <2>1 DEF new
<1> QED
  BY <1>6, <1>7

\* What Media makes of the samples.
LEMMA SamplesNext ==
    ASSUME NEW r \in Recording, NEW t \in Nat \ {0}, RecInv(r)
    PROVE  LET s == t \div PerSec
               q == Rec!Media(r, t)
           IN  /\ s \in Nat
               /\ DOMAIN q.seconds = DOMAIN r.seconds \cup {s}
               /\ \A u \in DOMAIN r.seconds : u # s => q.seconds[u] = r.seconds[u]
               /\ q.seconds[s].bytes = (IF s \in DOMAIN r.seconds THEN r.seconds[s].bytes ELSE 0) + 1
               /\ q.seconds[s].stall =
                    (IF s \in DOMAIN r.seconds THEN r.seconds[s].stall ELSE 0) + Booked(r, t)
<1> DEFINE s == t \div PerSec
           q == Rec!Media(r, t)
           old == Rec!second(r, s).seconds
           d == Booked(r, t)
<1>1. s \in Nat
  BY SecondOfNat
<1>2. /\ DOMAIN old = DOMAIN r.seconds \cup {s}
      /\ \A u \in DOMAIN r.seconds : old[u] = r.seconds[u]
      /\ s \notin DOMAIN r.seconds => old[s] = [bytes |-> 0, stall |-> 0]
  <2> HIDE DEF s
  <2> QED
    BY <1>1, SecondType
<1>3. q.seconds = [old EXCEPT ![s] = [bytes |-> @.bytes + 1, stall |-> @.stall + d]]
  BY MediaType
<1> HIDE DEF s, q, old, d
<1>4. /\ DOMAIN q.seconds = DOMAIN old
      /\ q.seconds[s] = [bytes |-> old[s].bytes + 1, stall |-> old[s].stall + d]
      /\ \A u \in DOMAIN old : u # s => q.seconds[u] = old[u]
  BY <1>2, <1>3
<1>5. old[s].bytes = (IF s \in DOMAIN r.seconds THEN r.seconds[s].bytes ELSE 0)
  BY <1>2
<1>6. old[s].stall = (IF s \in DOMAIN r.seconds THEN r.seconds[s].stall ELSE 0)
  BY <1>2
<1>7. \A u \in DOMAIN r.seconds : u # s => q.seconds[u] = r.seconds[u]
  BY <1>2, <1>4
<1> QED
  BY <1>1, <1>2, <1>4, <1>5, <1>6, <1>7 DEF s, q, d

LEMMA SamplesOf ==
    ASSUME NEW r \in Recording
    PROVE  \A u \in DOMAIN r.seconds : r.seconds[u] \in Sample /\ u \in Nat
<1>1. PICK S \in SUBSET Nat : r.seconds \in [S -> Sample]
  BY DEF Recording, Samples
<1> QED
  BY <1>1

LEMMA SamplesStep ==
    ASSUME NEW r \in Recording, NEW t \in Nat \ {0}, RecInv(r)
    PROVE  LET q == Rec!Media(r, t)
           IN  /\ IsFiniteSet(DOMAIN q.seconds)
               /\ DOMAIN q.seconds = {s \in Nat : Came(q.arr, s) # {}}
               /\ \A s \in DOMAIN q.seconds : q.seconds[s].bytes = Cardinality(Came(q.arr, s))
               /\ q.stalled = SumFunction([s \in DOMAIN q.seconds |-> q.seconds[s].stall])
               /\ Len(q.arr) = SumFunction([s \in DOMAIN q.seconds |-> q.seconds[s].bytes])
<1> DEFINE s == t \div PerSec
           q == Rec!Media(r, t)
           D == DOMAIN r.seconds
<1>1. /\ s \in Nat
      /\ DOMAIN q.seconds = D \cup {s}
      /\ \A u \in D : u # s => q.seconds[u] = r.seconds[u]
      /\ q.seconds[s].bytes = (IF s \in D THEN r.seconds[s].bytes ELSE 0) + 1
      /\ q.seconds[s].stall = (IF s \in D THEN r.seconds[s].stall ELSE 0) + Booked(r, t)
  BY SamplesNext
<1>2. /\ q \in Recording /\ q.arr = Append(r.arr, t) /\ q.stalled = r.stalled + Booked(r, t)
      /\ Booked(r, t) \in Nat
  BY MediaType
<1>3. r.arr \in Seq(Nat \ {0}) /\ r.stalled \in Nat
  BY DEF Recording
<1>4. /\ IsFiniteSet(D) /\ D = {u \in Nat : Came(r.arr, u) # {}}
      /\ \A u \in D : r.seconds[u].bytes = Cardinality(Came(r.arr, u))
      /\ r.stalled = SumFunction([u \in D |-> r.seconds[u].stall])
      /\ Len(r.arr) = SumFunction([u \in D |-> r.seconds[u].bytes])
  BY DEF RecInv
<1>5. /\ \A u \in D : r.seconds[u] \in Sample
      /\ \A u \in DOMAIN q.seconds : q.seconds[u] \in Sample
  BY <1>2, SamplesOf
<1>6. \A u \in Nat : u # s => Came(q.arr, u) = Came(r.arr, u)
  BY <1>2, <1>3, CameNext
<1>7. Came(q.arr, s) # {} /\ Cardinality(Came(q.arr, s)) = Cardinality(Came(r.arr, s)) + 1
  <2>1. s = t \div PerSec
    OBVIOUS
  <2> HIDE DEF s, q, D
  <2>2. /\ Came(Append(r.arr, t), s) # {}
        /\ Cardinality(Came(Append(r.arr, t), s)) = Cardinality(Came(r.arr, s)) + 1
    BY <2>1, <1>1, <1>3, CameNext
  <2> QED
    BY <2>2, <1>2
<1> HIDE DEF s, q, D
<1>8. IsFiniteSet(D \cup {s})
  BY <1>4, FS_AddElement
<1>9. D \cup {s} = {u \in Nat : Came(q.arr, u) # {}}
  BY <1>1, <1>4, <1>6, <1>7
<1>10. ASSUME NEW u \in D \cup {s}
       PROVE  q.seconds[u].bytes = Cardinality(Came(q.arr, u))
  <2>1. CASE u # s
    <3>1. u \in D /\ u \in Nat
      BY <2>1, <1>4
    <3> QED
      BY <2>1, <3>1, <1>1, <1>4, <1>6
  <2>2. CASE u = s /\ s \in D
    BY <2>2, <1>1, <1>4, <1>7
  <2>3. CASE u = s /\ s \notin D
    <3>1. Cardinality(Came(r.arr, s)) = 0
      BY <2>3, <1>1, <1>4, FS_EmptySet
    <3> QED
      BY <2>3, <3>1, <1>1, <1>7
  <2> QED
    BY <2>1, <2>2, <2>3
<1>11. q.stalled = SumFunction([u \in D \cup {s} |-> q.seconds[u].stall])
  <2> DEFINE f == [u \in D |-> r.seconds[u].stall]
             g == [u \in D \cup {s} |-> q.seconds[u].stall]
  <2>1. /\ DOMAIN g = DOMAIN f \cup {s} /\ IsFiniteSet(DOMAIN f)
        /\ \A u \in DOMAIN f : f[u] \in Nat /\ (u # s => f[u] = g[u])
    BY <1>1, <1>4, <1>5 DEF Sample
  <2>2. g[s] = (IF s \in DOMAIN f THEN f[s] ELSE 0) + Booked(r, t)
    <3>1. g[s] = q.seconds[s].stall
      OBVIOUS
    <3>2. DOMAIN f = D /\ (s \in D => f[s] = r.seconds[s].stall)
      OBVIOUS
    <3> HIDE DEF f, g
    <3> QED
      BY <1>1, <3>1, <3>2
  <2>3. r.stalled = SumFunction(f)
    BY <1>4
  <2> HIDE DEF f, g
  <2>4. SumFunction(g) = SumFunction(f) + Booked(r, t)
    BY <1>2, <2>1, <2>2, SumBump
  <2> QED
    BY <1>2, <2>3, <2>4 DEF g
<1>12. Len(q.arr) = SumFunction([u \in D \cup {s} |-> q.seconds[u].bytes])
  <2> DEFINE f == [u \in D |-> r.seconds[u].bytes]
             g == [u \in D \cup {s} |-> q.seconds[u].bytes]
  <2>1. /\ DOMAIN g = DOMAIN f \cup {s} /\ IsFiniteSet(DOMAIN f)
        /\ \A u \in DOMAIN f : f[u] \in Nat /\ (u # s => f[u] = g[u])
    BY <1>1, <1>4, <1>5 DEF Sample
  <2>2. g[s] = (IF s \in DOMAIN f THEN f[s] ELSE 0) + 1
    <3>1. g[s] = q.seconds[s].bytes
      OBVIOUS
    <3>2. DOMAIN f = D /\ (s \in D => f[s] = r.seconds[s].bytes)
      OBVIOUS
    <3> HIDE DEF f, g
    <3> QED
      BY <1>1, <3>1, <3>2
  <2>3. Len(r.arr) = SumFunction(f) /\ Len(q.arr) = Len(r.arr) + 1
    BY <1>2, <1>3, <1>4, RangeAppend
  <2> HIDE DEF f, g
  <2>4. SumFunction(g) = SumFunction(f) + 1
    BY <2>1, <2>2, SumBump
  <2> QED
    BY <2>3, <2>4 DEF g
<1> QED
  BY <1>1, <1>8, <1>9, <1>10, <1>11, <1>12 DEF q

\* Silence is booked: all of it while units are recorded in their order, and
\* no less once the earliest was first.
LEMMA SilenceStep ==
    ASSUME NEW r \in Recording, NEW t \in Nat \ {0}, RecInv(r), r.arr # <<>>
    PROVE  LET q == Rec!Media(r, t)
           IN  /\ IsSorted(q.arr, <=) => q.stalled = Silence(Range(q.arr))
               /\ q.arr[1] = Min(Range(q.arr)) => q.stalled >= Silence(Range(q.arr))
<1> DEFINE q == Rec!Media(r, t)
           S == Range(r.arr)
           n == Len(r.arr)
           last == r.prevArr
<1>1. /\ q.arr = Append(r.arr, t) /\ q.stalled = r.stalled + Booked(r, t)
      /\ Booked(r, t) \in Nat
  BY MediaType
<1>2. r.arr \in Seq(Nat \ {0}) /\ r.stalled \in Nat
  BY DEF Recording
<1>3. /\ S \in SUBSET Nat /\ IsFiniteSet(S)
      /\ \A k \in 1..n : r.arr[k] \in S
      /\ \A x \in S : \E k \in 1..n : x = r.arr[k]
  BY <1>2, RangeType
<1>4. /\ Len(q.arr) = n + 1 /\ q.arr[n + 1] = t
      /\ \A k \in 1..n : q.arr[k] = r.arr[k]
      /\ Range(q.arr) = S \cup {t}
  BY <1>1, <1>2, RangeAppend
<1>5. /\ n \in Nat /\ n >= 1 /\ last = r.arr[n] /\ last \in S /\ last \in Nat \ {0}
  <2>1. n \in Nat /\ n # 0 /\ last = r.arr[n]
    BY <1>2, EmptySeq DEF RecInv
  <2>2. n \in 1..n
    BY <2>1
  <2>4. \A k \in 1..n : r.arr[k] \in Nat \ {0}
    BY <1>2
  <2> HIDE DEF n, S
  <2>3. r.arr[n] \in Nat \ {0} /\ r.arr[n] \in S
    BY <1>3, <2>2, <2>4
  <2> QED
    BY <2>1, <2>3
<1>6. /\ IsSorted(r.arr, <=) => r.stalled = Silence(S)
      /\ r.arr[1] = Min(S) => r.stalled >= Silence(S)
  BY DEF RecInv
<1>7. Booked(r, t) = Cost(t - last)
  BY <1>5 DEF Booked, Cost
<1> HIDE DEF q, S, n, last
<1>8. Silence(S) \in Nat
  BY <1>3, SilenceSum
<1>9. ASSUME IsSorted(q.arr, <=)
      PROVE  q.stalled = Silence(S \cup {t})
  <2>1. \A i, j \in 1..(n + 1) : i < j => q.arr[i] <= q.arr[j]
    BY <1>4, <1>9 DEF IsSorted
  <2>2. IsSorted(r.arr, <=)
    <3>1. \A i, j \in 1..n : i < j => r.arr[i] <= r.arr[j]
      BY <1>4, <1>5, <2>1
    <3> QED
      BY <3>1 DEF IsSorted, n
  <2>3. t >= last
    BY <1>4, <1>5, <2>1
  <2>4. \A x \in S : x <= last
    <3>1. ASSUME NEW x \in S
          PROVE  x <= last
      <4>1. PICK k \in 1..n : x = r.arr[k]
        BY <1>3
      <4>2. CASE k = n
        BY <1>3, <1>5, <4>1, <4>2
      <4>3. CASE k < n
        <5>1. q.arr[k] <= q.arr[n]
          BY <1>5, <2>1, <4>3
        <5> QED
          BY <1>4, <1>5, <4>1, <5>1
      <4> QED
        BY <1>5, <4>2, <4>3
    <3> QED
      BY <3>1
  <2>5. CASE t = last
    <3>1. S \cup {t} = S
      BY <2>5, <1>5
    <3>2. Booked(r, t) = 0
      <4>1. t - last = 0
        BY <2>5, <1>5
      <4> QED
        BY <4>1, <1>7, CostLaws
    <3>3. q.stalled = r.stalled
      BY <1>1, <1>2, <3>2
    <3> QED
      BY <1>6, <2>2, <3>1, <3>3
  <2>6. CASE t > last
    <3>1. Silence(S \cup {t}) = Silence(S) + Cost(t - last)
      BY <1>3, <1>5, <2>4, <2>6, SilenceEnds
    <3> QED
      BY <1>1, <1>6, <1>7, <2>2, <3>1
  <2> QED
    BY <1>5, <2>3, <2>5, <2>6
<1>10. ASSUME q.arr[1] = Min(S \cup {t})
       PROVE  q.stalled >= Silence(S \cup {t})
  <2>1. q.arr[1] = r.arr[1] /\ r.arr[1] \in S /\ r.arr[1] \in Nat
    <3>1. 1 \in 1..n
      BY <1>5
    <3> QED
      BY <1>3, <1>4, <3>1
  <2>2. \A x \in S \cup {t} : r.arr[1] <= x
    <3>1. PICK x \in S \cup {t} : \A y \in S \cup {t} : x <= y
      <4>1. S \cup {t} \in SUBSET Nat /\ S \cup {t} # {}
        BY <1>3
      <4> QED
        BY <4>1, Smallest
    <3>2. Min(S \cup {t}) = x
      <4>1. S \cup {t} \in SUBSET Nat
        BY <1>3
      <4> QED
        BY <4>1, <3>1, MinIs
    <3> QED
      BY <1>10, <2>1, <3>1, <3>2
  <2>3. r.arr[1] = Min(S)
    BY <1>3, <2>1, <2>2, MinIs
  <2>4. r.stalled >= Silence(S)
    BY <2>3, <1>6
  <2>5. CASE t \in S
    <3>1. S \cup {t} = S
      BY <2>5
    <3>2. q.stalled >= Silence(S)
      BY <1>1, <1>2, <1>8, <2>4
    <3> QED
      BY <3>1, <3>2
  <2>6. CASE t \notin S /\ \E x \in S : x > t
    <3>1. r.arr[1] < t
      BY <2>1, <2>2, <2>6
    <3>2. \E x \in S : x < t
      BY <2>1, <3>1
    <3>3. Silence(S \cup {t}) <= Silence(S)
      BY <1>3, <2>6, <3>2, SilenceBroken
    <3>4. Silence(S \cup {t}) \in Nat
      <4>1. S \cup {t} \in SUBSET Nat /\ IsFiniteSet(S \cup {t})
        BY <1>3, FS_AddElement
      <4> QED
        BY <4>1, SilenceSum
    <3> QED
      BY <1>1, <1>2, <1>8, <2>4, <3>3, <3>4
  <2>7. CASE t \notin S /\ ~(\E x \in S : x > t)
    <3>1. PICK m \in S : \A x \in S : x <= m
      <4> DEFINE D == {d \in Nat : \E x \in S : d = t - x}
      <4>0. \A x \in S : x \in Nat /\ x <= t
        BY <1>3, <2>7
      <4>1. D \in SUBSET Nat /\ \A x \in S : t - x \in D
        BY <4>0
      <4>2. D # {}
        BY <1>5, <4>1
      <4>3. PICK d \in D : \A e \in D : d <= e
        BY <4>1, <4>2, Smallest
      <4>4. PICK m \in S : d = t - m
        BY <4>3
      <4> HIDE DEF D
      <4>5. \A x \in S : x <= m
        BY <4>0, <4>1, <4>3, <4>4
      <4> QED
        BY <4>5
    <3>2. m \in Nat /\ last <= m /\ t > m
      BY <1>3, <1>5, <2>7, <3>1
    <3>3. Silence(S \cup {t}) = Silence(S) + Cost(t - m)
      BY <1>3, <3>1, <3>2, SilenceEnds
    <3>4. Cost(t - m) <= Cost(t - last)
      <4>1. t - m \in Nat /\ m - last \in Nat /\ (t - m) + (m - last) = t - last
        BY <1>5, <3>2
      <4> QED
        BY <4>1, CostLaws
    <3>5. Cost(t - m) \in Nat
      <4>1. t - m \in Int
        BY <3>2
      <4> QED
        BY <4>1, CostType
    <3> QED
      BY <1>1, <1>2, <1>7, <1>8, <2>4, <3>3, <3>4, <3>5
  <2> QED
    BY <2>5, <2>6, <2>7
<1> QED
  BY <1>4, <1>9, <1>10 DEF q, S

\* The first unit of a recording makes no silence, and ends none.
LEMMA SilenceStarts ==
    ASSUME NEW r \in Recording, NEW t \in Nat \ {0}, RecInv(r), r.arr = <<>>
    PROVE  LET q == Rec!Media(r, t)
           IN  q.stalled = 0 /\ Silence(Range(q.arr)) = 0
<1> DEFINE q == Rec!Media(r, t)
<1>1. q.arr = Append(r.arr, t) /\ q.stalled = r.stalled + Booked(r, t)
  BY MediaType
<1>2. Booked(r, t) = 0
  BY DEF Booked, RecInv
<1>3. r.stalled = 0
  <2>1. DOMAIN r.seconds = {}
    BY DEF RecInv, Came
  <2> DEFINE f == [s \in DOMAIN r.seconds |-> r.seconds[s].stall]
  <2>2. DOMAIN f = {} /\ r.stalled = SumFunction(f)
    BY <2>1 DEF RecInv
  <2> HIDE DEF f
  <2>3. SumFunction(f) = 0
    BY <2>2, SumEmpty DEF SumFunction
  <2> QED
    BY <2>2, <2>3
<1>4. Range(q.arr) = {t}
  <2>1. r.arr \in Seq(Nat \ {0})
    BY DEF Recording
  <2>2. Range(r.arr) = {}
    BY DEF Range
  <2>3. Range(Append(r.arr, t)) = Range(r.arr) \cup {t}
    BY <2>1, RangeAppend
  <2> QED
    BY <1>1, <2>2, <2>3
<1>5. Silence({t}) = 0
  <2>1. {t} \in SUBSET Nat /\ IsFiniteSet({t})
    BY FS_Singleton
  <2>2. Inner({t}) = {}
    BY DEF Inner
  <2>3. Silence({t}) = SumFunctionOnSet(Gaps({t}), {})
    BY <2>1, <2>2, SilenceSum
  <2> QED
    BY <2>3, SumEmpty
<1>6. q.stalled = 0
  BY <1>1, <1>2, <1>3
<1> HIDE DEF q
<1>7. q.stalled = 0 /\ Silence(Range(q.arr)) = 0
  BY <1>4, <1>5, <1>6
<1> QED
  BY <1>7 DEF q

LEMMA RecStep ==
    ASSUME NEW r \in Recording, NEW t \in Nat \ {0}, RecInv(r)
    PROVE  RecInv(Rec!Media(r, t))
<1> DEFINE q == Rec!Media(r, t)
<1>1. q.arr = Append(r.arr, t) /\ q.prevArr = t
  BY MediaType
<1>2. r.arr \in Seq(Nat \ {0})
  BY DEF Recording
<1>3. q.prevArr = IF q.arr = <<>> THEN 0 ELSE q.arr[Len(q.arr)]
  BY <1>1, <1>2, RangeAppend
<1>4. /\ IsSorted(q.arr, <=) => q.stalled = Silence(Range(q.arr))
      /\ q.arr[1] = Min(Range(q.arr)) => q.stalled >= Silence(Range(q.arr))
  <2>1. CASE r.arr = <<>>
    <3>1. q.stalled = 0 /\ Silence(Range(q.arr)) = 0
      BY <2>1, SilenceStarts
    <3> QED
      BY <3>1
  <2>2. CASE r.arr # <<>>
    BY <2>2, SilenceStep
  <2> QED
    BY <2>1, <2>2
<1>5. /\ IsFiniteSet(DOMAIN q.seconds)
      /\ DOMAIN q.seconds = {s \in Nat : Came(q.arr, s) # {}}
      /\ \A s \in DOMAIN q.seconds : q.seconds[s].bytes = Cardinality(Came(q.arr, s))
      /\ q.stalled = SumFunction([s \in DOMAIN q.seconds |-> q.seconds[s].stall])
      /\ Len(q.arr) = SumFunction([s \in DOMAIN q.seconds |-> q.seconds[s].bytes])
  BY SamplesStep
<1> HIDE DEF q
<1>6. RecInv(q)
  BY <1>3, <1>4, <1>5 DEF RecInv
<1> QED
  BY <1>6 DEF q

LEMMA RecNew == ASSUME NEW t \in Nat PROVE RecInv(Rec!newRecorder(t))
<1> DEFINE r == Rec!newRecorder(t)
<1>1. r.prevArr = 0 /\ r.stalled = 0 /\ r.seconds = <<>> /\ r.arr = <<>>
  BY DEF Rec!newRecorder
<1> HIDE DEF r
<1>2. DOMAIN r.seconds = {} /\ Len(r.arr) = 0
  BY <1>1
<1>3. \A s \in Nat : Came(r.arr, s) = {}
  BY <1>1 DEF Came
<1>4. \A f : DOMAIN f = {} => SumFunction(f) = 0
  BY SumEmpty DEF SumFunction
<1>5. /\ SumFunction([s \in DOMAIN r.seconds |-> r.seconds[s].stall]) = 0
      /\ SumFunction([s \in DOMAIN r.seconds |-> r.seconds[s].bytes]) = 0
  BY <1>2, <1>4
<1>6. IsFiniteSet(DOMAIN r.seconds)
  BY <1>2, FS_EmptySet
<1>7. RecInv(r)
  BY <1>1, <1>2, <1>3, <1>5, <1>6 DEF RecInv
<1> QED
  BY <1>7 DEF r

StallInv == \A t \in Targets, run \in RunIds : store[t][run] # NoRec => RecInv(store[t][run])

\* What a step makes of a recording: nothing, a new one, one more unit, or it
\* is gone.
LEMMA StoreStep ==
    ASSUME CoreInv, [Next]_vars, NEW t \in Targets, NEW run \in RunIds
    PROVE  \/ store'[t][run] = store[t][run]
           \/ store'[t][run] = NoRec
           \/ store'[t][run] = Rec!newRecorder(now)
           \/ /\ store[t][run] \in Recording
              /\ \E at \in Nat \ {0} : store'[t][run] = Rec!Media(store[t][run], at)
<1> DEFINE Goal == \/ store'[t][run] = store[t][run]
                   \/ store'[t][run] = NoRec
                   \/ store'[t][run] = Rec!newRecorder(now)
                   \/ /\ store[t][run] \in Recording
                      /\ \E at \in Nat \ {0} : store'[t][run] = Rec!Media(store[t][run], at)
<1>1. store \in [Targets -> [RunIds -> Recording \cup {NoRec}]]
  BY DEF CoreInv, TypeInv, WorldType
<1>2. ASSUME PostProfile \/ PostEvent \/ PostClear \/ StartCell \/ Schedule \/ Tick \/ Wake
               \/ Collect \/ WriteSummary \/ Cancel \/ (\E u \in Viewed : MediaRead(u))
               \/ UNCHANGED vars
      PROVE  Goal
  <2>1. store' = store
    BY <1>2 DEF PostProfile, PostEvent, PostClear, StartCell, Schedule, Tick, Wake, Collect,
                WriteSummary, Cancel, MediaRead, Apply, NoEffect, targetVars, vars
  <2> QED
    BY <2>1
<1>3. ASSUME PostRestart
      PROVE  Goal
  <2>1. store' = store \/ store' = [store EXCEPT ![Target][ctl.cell] = Rec!newRecorder(now)]
    BY <1>3 DEF PostRestart, Restart, NoEffect, targetVars
  <2> QED
    BY <1>1, <2>1
<1>4. ASSUME NEW u \in Targets, TargetRestarts(u)
      PROVE  Goal
  <2>1. store' = [store EXCEPT ![u] = [r \in RunIds |->
                    IF r = Boot THEN Rec!newRecorder(now) ELSE NoRec]]
    BY <1>4 DEF TargetRestarts
  <2> QED
    BY <1>1, <2>1
<1>5. ASSUME NEW u \in Targets, MediaRecord(u)
      PROVE  Goal
  <2>1. PICK r \in RunIds, at \in Nat \ {0} :
          /\ \A w \in Targets, x \in RunIds :
               store'[w][x] = IF w = u /\ x = r /\ store[w][x] # NoRec
                              THEN Rec!Media(store[w][x], at) ELSE store[w][x]
          /\ store[u][r] # NoRec => store[u][r] \in Recording
    BY <1>5, RecordGoes
  <2> QED
    BY <2>1
<1>6. Viewed \subseteq Targets
  BY ExperimentAssumption
<1> QED
  BY <1>2, <1>3, <1>4, <1>5, <1>6 DEF Next, Runs

LEMMA StallStep == CoreInv /\ StallInv /\ [Next]_vars => StallInv'
<1> SUFFICES ASSUME CoreInv, StallInv, [Next]_vars, NEW t \in Targets, NEW run \in RunIds,
                    store'[t][run] # NoRec
             PROVE  RecInv(store'[t][run])
  BY DEF StallInv
<1>1. CASE store'[t][run] = store[t][run]
  BY <1>1 DEF StallInv
<1>2. CASE store'[t][run] = Rec!newRecorder(now)
  <2>1. now \in Nat
    BY DEF CoreInv, TypeInv, RestType
  <2> QED
    BY <1>2, <2>1, RecNew
<1>3. ASSUME store[t][run] \in Recording, NEW at \in Nat \ {0},
             store'[t][run] = Rec!Media(store[t][run], at)
      PROVE  RecInv(store'[t][run])
  <2>1. RecInv(store[t][run])
    BY <1>3, NoRecIsNone DEF StallInv
  <2> QED
    BY <1>3, <2>1, RecStep
<1> QED
  BY <1>1, <1>2, <1>3, StoreStep

LEMMA StallStart == Init => StallInv
<1> SUFFICES ASSUME Init, NEW t \in Targets, NEW run \in RunIds, store[t][run] # NoRec
             PROVE  RecInv(store[t][run])
  BY DEF StallInv
<1>1. store[t][run] = Rec!newRecorder(now)
  BY DEF Init
<1>2. now \in Nat
  BY ExperimentAssumption DEF Init
<1> QED
  BY <1>1, <1>2, RecNew

LEMMA StallAlways == Spec => []StallInv
<1>1. StallInv /\ CoreInv /\ [Next]_vars => StallInv'
  BY StallStep
<1> QED
  BY <1>1, StallStart, CoreAlways, PTL DEF Spec

\* Stalls against the clock (loadgen.go:155): what a session has booked as
\* stalled is the silence between its units when they were recorded in the
\* order of their times, and never less when one was overtaken at the lock,
\* once the earliest was first; the samples per second add up to the totals.
THEOREM StallsSound == Spec => []StallsAreSilence
<1>1. StallInv => StallsAreSilence
  <2> SUFFICES ASSUME StallInv, NEW t \in Targets, NEW run \in RunIds,
                      store[t][run] # NoRec, store[t][run].arr # <<>>
               PROVE  LET r == store[t][run] IN
                      /\ IsSorted(r.arr, <=) => r.stalled = Silence(Range(r.arr))
                      /\ r.arr[1] = Min(Range(r.arr)) => r.stalled >= Silence(Range(r.arr))
                      /\ r.stalled = SumFunction([s \in DOMAIN r.seconds |-> r.seconds[s].stall])
                      /\ Len(r.arr) = SumFunction([s \in DOMAIN r.seconds |-> r.seconds[s].bytes])
    BY DEF StallsAreSilence
  <2> DEFINE r == store[t][run]
  <2>1. RecInv(r) /\ r.arr # <<>>
    BY DEF StallInv
  <2> HIDE DEF r
  <2>2. /\ IsSorted(r.arr, <=) => r.stalled = Silence(Range(r.arr))
        /\ r.arr[1] = Min(Range(r.arr)) => r.stalled >= Silence(Range(r.arr))
        /\ r.stalled = SumFunction([s \in DOMAIN r.seconds |-> r.seconds[s].stall])
        /\ Len(r.arr) = SumFunction([s \in DOMAIN r.seconds |-> r.seconds[s].bytes])
    BY <2>1 DEF RecInv
  <2> QED
    BY <2>2 DEF r
<1> QED
  BY <1>1, StallAlways, PTL

-----------------------------------------------------------------------------
(* The summary: no unit is missed.                                           *)

\* The places of s that hold an element of T.
Hits(s, T) == {k \in 1..Len(s) : s[k] \in T}

LEMMA HitsType ==
    ASSUME NEW S, NEW s \in Seq(S), NEW T
    PROVE  /\ IsFiniteSet(Hits(s, T)) /\ Cardinality(Hits(s, T)) \in Nat
           /\ Cardinality(Hits(s, T)) <= Len(s)
<1>1. Len(s) \in Nat
  OBVIOUS
<1>2. IsFiniteSet(1..Len(s)) /\ Cardinality(1..Len(s)) = Len(s)
  BY <1>1, FS_Interval
<1>3. Hits(s, T) \in SUBSET (1..Len(s))
  BY DEF Hits
<1> QED
  BY <1>2, <1>3, FS_Subset, FS_CardinalityType

LEMMA HitsAppend ==
    ASSUME NEW S, NEW s \in Seq(S), NEW T, NEW x \in S
    PROVE  Cardinality(Hits(Append(s, x), T)) = Cardinality(Hits(s, T)) + (IF x \in T THEN 1 ELSE 0)
<1>1. /\ Len(s) \in Nat /\ Len(Append(s, x)) = Len(s) + 1
      /\ \A k \in 1..Len(s) : Append(s, x)[k] = s[k]
      /\ Append(s, x)[Len(s) + 1] = x
  BY AppendProperties
<1> DEFINE n == Len(s) + 1
<1>2. \A k \in 1..Len(Append(s, x)) : k = n \/ k \in 1..Len(s)
  BY <1>1
<1>3. CASE x \in T
  <2>1. Hits(Append(s, x), T) = Hits(s, T) \cup {n} /\ n \notin Hits(s, T)
    BY <1>1, <1>2, <1>3 DEF Hits
  <2> HIDE DEF n
  <2> QED
    BY <1>3, <2>1, HitsType, FS_AddElement
<1>4. CASE x \notin T
  <2>1. Hits(Append(s, x), T) = Hits(s, T)
    BY <1>1, <1>2, <1>4 DEF Hits
  <2> QED
    BY <1>4, <2>1, HitsType
<1> QED
  BY <1>3, <1>4

LEMMA RemoveFacts ==
    ASSUME NEW S, NEW s \in Seq(S), NEW i \in 1..Len(s)
    PROVE  /\ RemoveAt(s, i) \in Seq(S) /\ Len(RemoveAt(s, i)) = Len(s) - 1
           /\ \A k \in 1..(Len(s) - 1) : RemoveAt(s, i)[k] = IF k < i THEN s[k] ELSE s[k + 1]
<1>1. Len(s) \in Nat /\ i \in Nat
  OBVIOUS
<1> DEFINE a == SubSeq(s, 1, i - 1)
           b == SubSeq(s, i + 1, Len(s))
<1>2. a \in Seq(S) /\ Len(a) = i - 1 /\ \A k \in 1..(i - 1) : a[k] = s[k]
  BY <1>1
<1>3. b \in Seq(S) /\ Len(b) = Len(s) - i /\ \A k \in 1..(Len(s) - i) : b[k] = s[k + i]
  BY <1>1
<1>4. RemoveAt(s, i) = a \o b
  BY DEF RemoveAt
<1> HIDE DEF a, b
<1>5. /\ a \o b \in Seq(S) /\ Len(a \o b) = Len(s) - 1
      /\ \A k \in 1..(Len(s) - 1) : (a \o b)[k] = IF k <= i - 1 THEN a[k] ELSE b[k - (i - 1)]
  <2>1. /\ a \o b \in Seq(S) /\ Len(a \o b) = Len(a) + Len(b)
        /\ \A k \in 1..(Len(a) + Len(b)) : (a \o b)[k] = IF k <= Len(a) THEN a[k] ELSE b[k - Len(a)]
    BY <1>2, <1>3, ConcatProperties
  <2>2. Len(a) + Len(b) = Len(s) - 1
    BY <1>1, <1>2, <1>3
  <2> QED
    BY <1>2, <2>1, <2>2
<1>6. ASSUME NEW k \in 1..(Len(s) - 1)
      PROVE  (a \o b)[k] = IF k < i THEN s[k] ELSE s[k + 1]
  <2>1. CASE k < i
    BY <1>1, <1>2, <1>5, <2>1
  <2>2. CASE ~(k < i)
    <3>1. k - (i - 1) \in 1..(Len(s) - i) /\ k - (i - 1) + i = k + 1 /\ ~(k <= i - 1)
      BY <1>1, <2>2
    <3> QED
      BY <1>3, <1>5, <2>2, <3>1
  <2> QED
    BY <2>1, <2>2
<1> QED
  BY <1>4, <1>5, <1>6

LEMMA HitsRemove ==
    ASSUME NEW S, NEW s \in Seq(S), NEW T, NEW i \in 1..Len(s)
    PROVE  Cardinality(Hits(RemoveAt(s, i), T))
             = Cardinality(Hits(s, T)) - (IF s[i] \in T THEN 1 ELSE 0)
<1> DEFINE H == Hits(s, T) \ {i}
           G == Hits(RemoveAt(s, i), T)
           f == [k \in G |-> IF k < i THEN k ELSE k + 1]
<1>1. Len(s) \in Nat /\ i \in Nat
  OBVIOUS
<1>2. /\ Len(RemoveAt(s, i)) = Len(s) - 1
      /\ \A k \in 1..(Len(s) - 1) : RemoveAt(s, i)[k] = IF k < i THEN s[k] ELSE s[k + 1]
      /\ RemoveAt(s, i) \in Seq(S)
  BY RemoveFacts
<1>3. \A k : k \in G <=> k \in 1..(Len(s) - 1) /\ (IF k < i THEN s[k] ELSE s[k + 1]) \in T
  BY <1>2 DEF Hits
<1>4. \A k : k \in H <=> k \in 1..Len(s) /\ k # i /\ s[k] \in T
  BY DEF Hits
<1> HIDE DEF G, H
<1>5. ASSUME NEW k \in G PROVE f[k] \in H
  <2>1. CASE k < i
    BY <1>1, <1>3, <1>4, <2>1
  <2>2. CASE ~(k < i)
    <3>1. k \in 1..(Len(s) - 1) /\ s[k + 1] \in T
      BY <1>3, <2>2
    <3>2. k + 1 \in 1..Len(s) /\ k + 1 # i
      BY <1>1, <2>2, <3>1
    <3>3. k + 1 \in H
      BY <1>4, <3>1, <3>2
    <3> QED
      BY <2>2, <3>3
  <2> QED
    BY <2>1, <2>2
<1>6. \A j, k \in G : f[j] = f[k] => j = k
  BY <1>1, <1>3
<1>7. ASSUME NEW h \in H PROVE \E k \in G : f[k] = h
  <2>1. CASE h < i
    <3>1. h \in G
      BY <1>1, <1>3, <1>4, <2>1
    <3> QED
      BY <2>1, <3>1
  <2>2. CASE ~(h < i)
    <3>2. h \in 1..Len(s) /\ s[h] \in T /\ h > i
      BY <1>1, <1>4, <2>2
    <3>3. ~(h - 1 < i) /\ (h - 1) + 1 = h /\ h - 1 \in 1..(Len(s) - 1)
      BY <1>1, <3>2
    <3>1. h - 1 \in G
      BY <1>3, <3>2, <3>3
    <3> QED
      BY <3>1, <3>3
  <2> QED
    BY <2>1, <2>2
<1>8. f \in Bijection(G, H)
  <2>1. f \in [G -> H]
    BY <1>5
  <2> HIDE DEF f
  <2> QED
    BY <1>6, <1>7, <2>1, Fun_IsBij
<1>9. Cardinality(H) = Cardinality(G)
  <2>1. IsFiniteSet(G)
    BY <1>2, HitsType DEF G
  <2> QED
    BY <1>8, <2>1, FS_Bijection DEF ExistsBijection
<1>10. Cardinality(H) = Cardinality(Hits(s, T)) - (IF s[i] \in T THEN 1 ELSE 0)
  <2>1. i \in Hits(s, T) <=> s[i] \in T
    BY DEF Hits
  <2>2. IsFiniteSet(Hits(s, T)) /\ Cardinality(Hits(s, T)) \in Nat
    BY HitsType
  <2>3. Cardinality(Hits(s, T) \ {i}) = IF i \in Hits(s, T) THEN Cardinality(Hits(s, T)) - 1
                                        ELSE Cardinality(Hits(s, T))
    BY <2>2, FS_RemoveElement
  <2> QED
    BY <2>1, <2>2, <2>3 DEF H
<1> QED
  BY <1>9, <1>10 DEF G

\* Seconds do not run backwards, and whole seconds can be taken off.
LEMMA DivIs ==
    ASSUME NEW a \in Nat
    PROVE  /\ a \div PerSec \in Nat
           /\ PerSec * (a \div PerSec) <= a /\ a < PerSec * (a \div PerSec) + PerSec
BY ConstTypes

LEMMA DivLater ==
    ASSUME NEW a \in Nat, NEW n \in Nat, NEW b \in Nat, b >= a + n * PerSec
    PROVE  b \div PerSec >= a \div PerSec + n
<1>1. PerSec \in Nat \ {0}
  BY ConstTypes
<1> DEFINE q == a \div PerSec
           r == b \div PerSec
<1>2. q \in Nat /\ PerSec * q <= a
  BY DivIs
<1>3. r \in Nat /\ b < PerSec * r + PerSec
  BY DivIs
<1> HIDE DEF q, r
<1>4. SUFFICES ASSUME r + 1 <= q + n PROVE FALSE
  BY <1>2, <1>3 DEF q, r
<1>5. PerSec * (r + 1) <= PerSec * (q + n)
  BY <1>1, <1>2, <1>3, <1>4
<1>6. PerSec * (r + 1) = PerSec * r + PerSec /\ PerSec * (q + n) = PerSec * q + n * PerSec
  BY <1>1, <1>2, <1>3
<1>7. PerSec * r \in Int /\ PerSec * q \in Int /\ n * PerSec \in Int
  BY <1>1, <1>2, <1>3
<1> QED
  BY <1>1, <1>2, <1>3, <1>5, <1>6, <1>7

\* The measure window of a run, and the units of the run that came in it.
WinTimes(rr) == {a \in Nat : a \div PerSec \in Agg!Window(rr)}
WinUnits(rr) == {u \in Unit : u.run = rr.cell /\ u.at \in WinTimes(rr)}

Over(rr) == now \div PerSec >= Agg!w1(rr)

\* What the recorder has of the window, and what waits for its lock, was there
\* when session s was collected.
SessInv(rr, s) ==
    store[s.t][rr.cell] # NoRec =>
      Cardinality(Hits(store[s.t][rr.cell].arr, WinTimes(rr)))
        + Cardinality(Hits(pending[s.t], WinUnits(rr)))
      <= Cardinality(Hits(s.rec.arr, WinTimes(rr))) + s.late

Complete(rr) == Over(rr) /\ \A j \in 1..Len(rr.sessions) : SessInv(rr, rr.sessions[j])

WinInv ==
    /\ \A k \in 1..Len(runs) :
         /\ runs[k].cell <= ctl.cell /\ (ctl.pc \in InHand => runs[k].cell < ctl.cell)
         /\ Complete(runs[k])
    /\ ctl.pc \in {"collect", "clear"} => Complete(RunRecord)

LEMMA WithinHits ==
    ASSUME NEW rr, NEW r \in Recording
    PROVE  Within(rr, r) = Hits(r.arr, WinTimes(rr))
<1>1. r.arr \in Seq(Nat \ {0})
  BY DEF Recording
<1>2. DOMAIN r.arr = 1..Len(r.arr) /\ \A k \in 1..Len(r.arr) : r.arr[k] \in Nat
  BY <1>1
<1> QED
  BY <1>2 DEF Within, Hits, WinTimes

LEMMA SessType ==
    ASSUME CoreInv, NEW t \in Targets, NEW c \in RunIds
    PROVE  /\ pending[t] \in Seq(Unit)
           /\ store[t][c] # NoRec => store[t][c] \in Recording /\ store[t][c].arr \in Seq(Nat \ {0})
BY DEF CoreInv, TypeInv, WorldType, Recording

LEMMA SessSame ==
    ASSUME NEW rr, NEW s, SessInv(rr, s),
           store'[s.t][rr.cell] \in {store[s.t][rr.cell], NoRec}, pending'[s.t] = pending[s.t]
    PROVE  SessInv(rr, s)'
BY DEF SessInv

\* A unit that is read when the window is over is not of it.
LEMMA SessRead ==
    ASSUME CoreInv, NEW rr \in RunRec, NEW s \in SessionRec, Over(rr), SessInv(rr, s),
           NEW t \in Targets, MediaRead(t)
    PROVE  SessInv(rr, s)'
<1>0. /\ s.t \in Targets /\ rr.cell \in RunIds /\ pending \in [Targets -> Seq(Unit)]
      /\ cur[t] \in RunIds /\ now \in Nat \ {0} /\ rr.started \in Nat
  BY DEF SessionRec, RunRec, RunIds, CoreInv, TypeInv, WorldType, RestType
<1> DEFINE u == [run |-> cur[t], at |-> now]
<1>1. /\ store' = store
      /\ pending' = [pending EXCEPT ![t] = Append(pending[t], u)]
  BY <1>0 DEF MediaRead
<1>2. CASE s.t # t
  BY <1>0, <1>1, <1>2, SessSame
<1>3. CASE s.t = t
  <2>1. u \in Unit /\ u \notin WinUnits(rr)
    <3>1. now \div PerSec \in Nat /\ rr.started \div PerSec \in Nat /\ Warmup \in Nat /\ Measure \in Nat
      BY <1>0, ConstTypes, SecondOfNat
    <3>2. now \div PerSec \notin Agg!Window(rr)
      BY <3>1 DEF Over, Agg!w1, Agg!w0, Agg!Base, Agg!Window
    <3> QED
      BY <1>0, <3>2 DEF WinUnits, WinTimes, Unit
  <2>2. pending'[t] = Append(pending[t], u)
    BY <1>0, <1>1
  <2> DEFINE p == pending[t]
             n == Cardinality(Hits(p, WinUnits(rr)))
  <2>3. p \in Seq(Unit)
    BY <1>0
  <2> HIDE DEF u, p
  <2>4. n \in Nat
    BY <2>3, HitsType
  <2>5. Cardinality(Hits(Append(p, u), WinUnits(rr))) = n + 0
    BY <2>1, <2>3, HitsAppend
  <2>6. Cardinality(Hits(pending'[t], WinUnits(rr))) = Cardinality(Hits(pending[t], WinUnits(rr)))
    BY <2>2, <2>4, <2>5 DEF p
  <2> QED
    BY <1>1, <1>3, <2>6 DEF SessInv
<1> QED
  BY <1>2, <1>3

\* One that waited and is recorded counts as before.
LEMMA SessRecord ==
    ASSUME CoreInv, NEW rr \in RunRec, NEW s \in SessionRec, SessInv(rr, s),
           NEW t \in Targets, MediaRecord(t)
    PROVE  SessInv(rr, s)'
<1>0. /\ s.t \in Targets /\ rr.cell \in RunIds /\ pending \in [Targets -> Seq(Unit)]
      /\ s.rec.arr \in Seq(Nat \ {0}) /\ s.late \in Nat
  BY DEF SessionRec, RunRec, RunIds, Recording, CoreInv, TypeInv, WorldType
<1>1. PICK k \in 1..Len(pending[t]) :
        LET run == pending[t][k].run
            at == pending[t][k].at
        IN  /\ run \in RunIds /\ at \in Nat \ {0}
            /\ pending' = [pending EXCEPT ![t] = RemoveAt(pending[t], k)]
            /\ \A u \in Targets, r \in RunIds :
                 store'[u][r] = IF u = t /\ r = run /\ store[u][r] # NoRec
                                THEN Rec!Media(store[u][r], at) ELSE store[u][r]
            /\ store[t][run] # NoRec => store[t][run] \in Recording
  BY RecordGoes
<1> DEFINE run == pending[t][k].run
           at == pending[t][k].at
<1>2. CASE s.t # t
  <2>1. pending'[s.t] = pending[s.t] /\ store'[s.t][rr.cell] = store[s.t][rr.cell]
    BY <1>0, <1>1, <1>2
  <2> QED
    BY <2>1, SessSame
<1>3. CASE s.t = t /\ store[t][rr.cell] = NoRec
  BY <1>0, <1>1, <1>3 DEF SessInv
<1>4. CASE s.t = t /\ store[t][rr.cell] # NoRec
  <2> DEFINE W == WinTimes(rr)
             U == WinUnits(rr)
             old == store[t][rr.cell]
             new == store'[t][rr.cell]
  <2>1. old \in Recording /\ old.arr \in Seq(Nat \ {0}) /\ pending[t] \in Seq(Unit)
    BY <1>0, <1>4, SessType
  <2>2. pending[t][k] \in Unit /\ (pending[t][k] \in U <=> run = rr.cell /\ at \in W)
    BY <2>1 DEF WinUnits
  <2>3. Cardinality(Hits(pending'[t], U)) = Cardinality(Hits(pending[t], U)) - (IF pending[t][k] \in U THEN 1 ELSE 0)
    <3>1. pending'[t] = RemoveAt(pending[t], k)
      BY <1>0, <1>1
    <3> HIDE DEF U
    <3> QED
      BY <2>1, <3>1, HitsRemove
  <2>4. Cardinality(Hits(new.arr, W)) = Cardinality(Hits(old.arr, W)) + (IF run = rr.cell /\ at \in W THEN 1 ELSE 0)
    <3>0. Cardinality(Hits(old.arr, W)) \in Nat
      BY <2>1, HitsType
    <3>1. CASE run = rr.cell
      <4>1. new = Rec!Media(old, at)
        BY <1>0, <1>1, <1>4, <3>1
      <4>2. at \in Nat \ {0}
        BY <1>1
      <4>3. new.arr = Append(old.arr, at)
        <5> HIDE DEF old, new, at
        <5> QED
          BY <2>1, <4>1, <4>2, MediaType
      <4> HIDE DEF old, new, at, W
      <4> QED
        BY <2>1, <3>1, <4>2, <4>3, HitsAppend
    <3>2. CASE run # rr.cell
      <4>1. new = old
        BY <1>0, <1>1, <1>4, <3>2
      <4> HIDE DEF old, new, at, W
      <4> QED
        BY <3>0, <3>2, <4>1
    <3> QED
      BY <3>1, <3>2
  <2>5. /\ Cardinality(Hits(old.arr, W)) \in Nat /\ Cardinality(Hits(pending[t], U)) \in Nat
        /\ Cardinality(Hits(s.rec.arr, W)) \in Nat
    BY <1>0, <2>1, HitsType
  <2>6. Cardinality(Hits(old.arr, W)) + Cardinality(Hits(pending[t], U)) <= Cardinality(Hits(s.rec.arr, W)) + s.late
    BY <1>4 DEF SessInv
  <2> HIDE DEF run, at, W, U, old, new
  <2>7. Cardinality(Hits(new.arr, W)) + Cardinality(Hits(pending'[t], U)) <= Cardinality(Hits(s.rec.arr, W)) + s.late
    BY <1>0, <2>2, <2>3, <2>4, <2>5, <2>6
  <2> QED
    BY <1>4, <2>7 DEF SessInv, new, W, U
<1> QED
  BY <1>2, <1>3, <1>4

LEMMA NowGrows == CoreInv /\ [Next]_vars => now' \in Nat /\ now' >= now
<1> SUFFICES ASSUME CoreInv, [Next]_vars PROVE now' \in Nat /\ now' >= now
  OBVIOUS
<1>1. now \in Nat /\ Timeout \in Nat
  BY ConstTypes DEF CoreInv, TypeInv, RestType
<1>2. CASE Succeeds
  BY <1>1, <1>2 DEF Succeeds
<1>3. CASE Fails
  BY <1>1, <1>3 DEF Fails
<1>4. CASE Tick
  BY <1>1, <1>4 DEF Tick
<1>5. ASSUME StartCell \/ Schedule \/ Wake \/ WriteSummary \/ Cancel \/ UNCHANGED vars
      PROVE  now' \in Nat /\ now' >= now
  BY <1>1, <1>5 DEF StartCell, Schedule, Wake, WriteSummary, LastCell, Cancel, vars
<1>8. ASSUME NEW t \in Targets, TargetRestarts(t) \/ MediaRead(t) \/ MediaRecord(t)
      PROVE  now' \in Nat /\ now' >= now
  <2>1. now' = now
    <3>1. CASE TargetRestarts(t)
      BY <3>1 DEF TargetRestarts
    <3>2. CASE MediaRead(t)
      BY <3>2 DEF MediaRead
    <3>3. CASE MediaRecord(t)
      BY <3>3 DEF MediaRecord
    <3> QED
      BY <1>8, <3>1, <3>2, <3>3
  <2> QED
    BY <1>1, <2>1
<1>6. ASSUME PostProfile \/ PostRestart \/ PostEvent \/ Collect \/ PostClear
      PROVE  Succeeds \/ Fails
  BY <1>6 DEF PostProfile, PostRestart, PostEvent, Collect, PostClear
<1>7. Viewed \subseteq Targets
  BY ExperimentAssumption
<1> QED
  BY <1>2, <1>3, <1>4, <1>5, <1>6, <1>7, <1>8 DEF Next, Runs

\* A session that was collected stays as complete as it was.
LEMMA CompleteKept ==
    ASSUME CoreInv, [Next]_vars, NEW rr \in RunRec, Complete(rr),
           ctl.pc = "restart" => rr.cell # ctl.cell
    PROVE  Complete(rr)'
<1>1. Over(rr)'
  <2>1. now \in Nat /\ now' \in Nat /\ now' >= now + 0 * PerSec
    BY ConstTypes, NowGrows DEF CoreInv, TypeInv, RestType
  <2>2. now' \div PerSec >= now \div PerSec + 0
    BY <2>1, DivLater
  <2>3. /\ now' \div PerSec \in Nat /\ now \div PerSec \in Nat /\ now \div PerSec >= Agg!w1(rr)
        /\ Agg!w1(rr) \in Nat
    <3>1. rr.started \in Nat
      BY DEF RunRec
    <3>2. QED
      <4>1. now' \div PerSec \in Nat /\ now \div PerSec \in Nat /\ rr.started \div PerSec \in Nat
        BY <2>1, <3>1, SecondOfNat
      <4>2. Agg!w1(rr) = rr.started \div PerSec + Warmup + Measure
        BY DEF Agg!w1, Agg!w0, Agg!Base
      <4>3. now \div PerSec >= Agg!w1(rr)
        BY DEF Complete, Over
      <4> QED
        BY <4>1, <4>2, <4>3, ConstTypes
  <2>4. now' \div PerSec >= Agg!w1(rr)
    BY <2>2, <2>3
  <2> QED
    BY <2>4 DEF Over, Agg!w1, Agg!w0, Agg!Base
<1>2. ASSUME NEW j \in 1..Len(rr.sessions) PROVE SessInv(rr, rr.sessions[j])'
  <2>1. PICK s \in SessionRec : s = rr.sessions[j]
    BY DEF RunRec
  <2>2. SessInv(rr, s) /\ Over(rr)
    BY <2>1 DEF Complete
  <2>3. /\ s.t \in Targets /\ rr.cell \in RunIds /\ rr.cell # Boot
        /\ store \in [Targets -> [RunIds -> Recording \cup {NoRec}]] /\ pending \in [Targets -> Seq(Unit)]
    <3>1. s.t \in Targets
      BY DEF SessionRec
    <3>2. rr.cell \in Cells
      BY DEF RunRec
    <3>3. rr.cell \in RunIds /\ rr.cell # Boot
      BY <3>2, ConstTypes DEF RunIds, Cells, Boot
    <3> QED
      BY <3>1, <3>3 DEF CoreInv, TypeInv, WorldType
  <2>4. ASSUME NEW t \in Targets, MediaRead(t) PROVE SessInv(rr, s)'
    BY <2>2, <2>4, SessRead
  <2>5. ASSUME NEW t \in Targets, MediaRecord(t) PROVE SessInv(rr, s)'
    BY <2>2, <2>5, SessRecord
  <2>6. ASSUME NEW t \in Targets, TargetRestarts(t) PROVE SessInv(rr, s)'
    <3>1. CASE s.t = t
      <4>1. store'[s.t][rr.cell] = NoRec
        BY <2>3, <2>6, <3>1 DEF TargetRestarts
      <4> QED
        BY <4>1 DEF SessInv
    <3>2. CASE s.t # t
      <4>1. store'[s.t][rr.cell] = store[s.t][rr.cell] /\ pending'[s.t] = pending[s.t]
        BY <2>3, <2>6, <3>2 DEF TargetRestarts
      <4> QED
        BY <2>2, <4>1, SessSame
    <3> QED
      BY <3>1, <3>2
  <2>7. ASSUME PostRestart PROVE SessInv(rr, s)'
    <3>1. rr.cell # ctl.cell
      BY <2>7 DEF PostRestart
    <3>2. /\ store' = store \/ store' = [store EXCEPT ![Target][ctl.cell] = Rec!newRecorder(now)]
          /\ pending' = pending
      BY <2>7 DEF PostRestart, Restart, NoEffect, targetVars
    <3>3. store'[s.t][rr.cell] = store[s.t][rr.cell]
      <4>1. CASE store' = store
        BY <4>1
      <4>2. CASE store' = [store EXCEPT ![Target][ctl.cell] = Rec!newRecorder(now)]
        <5>1. store'[s.t] = IF s.t = Target THEN [store[s.t] EXCEPT ![ctl.cell] = Rec!newRecorder(now)]
                            ELSE store[s.t]
          BY <2>3, <4>2
        <5>2. store[s.t] \in [RunIds -> Recording \cup {NoRec}]
          BY <2>3
        <5> QED
          BY <2>3, <3>1, <5>1, <5>2
      <4> QED
        BY <3>2, <4>1, <4>2
    <3> QED
      BY <2>2, <3>2, <3>3, SessSame
  <2>8. ASSUME PostProfile \/ PostEvent \/ PostClear \/ StartCell \/ Schedule \/ Tick \/ Wake
               \/ Collect \/ WriteSummary \/ Cancel \/ UNCHANGED vars
        PROVE  SessInv(rr, s)'
    <3>1. store' = store /\ pending' = pending
      BY <2>8 DEF PostProfile, PostEvent, PostClear, StartCell, Schedule, Tick, Wake, Collect,
                  WriteSummary, Cancel, Apply, NoEffect, targetVars, vars
    <3> QED
      BY <2>2, <3>1, SessSame
  <2>9. Viewed \subseteq Targets
    BY ExperimentAssumption
  <2>10. SessInv(rr, s)'
    BY <2>4, <2>5, <2>6, <2>7, <2>8, <2>9 DEF Next, Runs
  <2> QED
    BY <2>1, <2>10
<1> QED
  BY <1>1, <1>2 DEF Complete

\* Where the controller goes: on with the run in hand, out of it, or on to the
\* next.
LEMMA CellGoes ==
    ASSUME CoreInv, [Next]_vars
    PROVE  \/ /\ ctl.pc = "cell" /\ ctl'.cell = ctl.cell + 1
           \/ /\ ctl'.cell = ctl.cell
              /\ ctl'.pc \in InHand => ctl.pc \in InHand
<1>1. CASE StartCell
  <2>1. live \in BOOLEAN /\ ctl.pc = "cell"
    BY <1>1 DEF StartCell, CoreInv, TypeInv, RestType
  <2>2. \/ ctl' = [ctl EXCEPT !.pc = "apply", !.cell = @ + 1, !.i = 1, !.ev = 1, !.got = <<>>]
        \/ ctl' = [ctl EXCEPT !.pc = "gone"]
    BY <1>1 DEF StartCell
  <2> QED
    BY <2>1, <2>2 DEF CoreInv, TypeInv, CtlType, InHand
<1>2. CASE WriteSummary
  <2>1. ctl' = [ctl EXCEPT !.pc = "done"]
    BY <1>2 DEF WriteSummary, LastCell
  <2> QED
    BY <2>1 DEF CoreInv, TypeInv, CtlType, InHand
<1>3. ASSUME Tick \/ Cancel \/ UNCHANGED vars
      PROVE  ctl' = ctl
  BY <1>3 DEF Tick, Cancel, vars
<1>4. ASSUME NEW t \in Targets, TargetRestarts(t) \/ MediaRead(t) \/ MediaRecord(t)
      PROVE  ctl' = ctl
  <2>1. CASE TargetRestarts(t)
    BY <2>1 DEF TargetRestarts
  <2>2. CASE MediaRead(t)
    BY <2>2 DEF MediaRead
  <2>3. CASE MediaRecord(t)
    BY <2>3 DEF MediaRecord
  <2> QED
    BY <1>4, <2>1, <2>2, <2>3
<1>5. ASSUME PostProfile \/ PostRestart \/ Schedule \/ Wake \/ PostEvent \/ Collect \/ PostClear
      PROVE  ctl'.cell = ctl.cell /\ ctl.pc \in InHand
  <2>1. CASE PostProfile
    BY <2>1, ProfileGoes, FailGoes DEF Goes, Stay, InHand
  <2>2. CASE PostRestart
    BY <2>2, RestartGoes, FailGoes DEF Goes, Stay, InHand
  <2>3. CASE Schedule \/ Wake
    BY <2>3, WaitGoes, FailGoes DEF Goes, InHand
  <2>4. CASE PostEvent
    BY <2>4, EventGoes DEF Goes, Stay, InHand
  <2>5. CASE Collect
    BY <2>5, CollectGoes DEF Goes, InHand
  <2>6. CASE PostClear
    BY <2>6, ClearGoes, FailGoes DEF Goes, Stay, InHand
  <2> QED
    BY <1>5, <2>1, <2>2, <2>3, <2>4, <2>5, <2>6
<1>6. Viewed \subseteq Targets
  BY ExperimentAssumption
<1> QED
  BY <1>1, <1>2, <1>3, <1>4, <1>5, <1>6 DEF Next, Runs

\* The record of the run in hand.
RecordOK ==
    /\ RunRecord \in RunRec
    /\ RunRecord.cell = ctl.cell /\ RunRecord.started = ctl.started
    /\ RunRecord.sessions = ctl.got

LEMMA RecordType == CoreInv /\ ctl.pc \in InHand => RecordOK
<1> SUFFICES ASSUME CoreInv, ctl.pc \in InHand PROVE RecordOK
  OBVIOUS
<1>1. ctl.cell \in Cells /\ ctl.started \in Nat /\ ctl.got \in Seq(SessionRec)
  BY InHandFacts DEF CoreInv, TypeInv, CtlType
<1>2. Cell.row \in RowIds /\ Cell.profile \in Profile
  BY <1>1, CellType DEF Cell
<1> QED
  BY <1>1, <1>2 DEF RunRecord, RunRec, RecordOK

LEMMA RecordNext == (CoreInv /\ ctl.pc \in InHand => RecordOK)'
BY RecordType, PTL

\* The window, and what is of it, depend on the run and on when it started.
LEMMA WindowOf ==
    ASSUME NEW rr, NEW qq, rr.cell = qq.cell, rr.started = qq.started
    PROVE  /\ Agg!w1(rr) = Agg!w1(qq) /\ WinTimes(rr) = WinTimes(qq) /\ WinUnits(rr) = WinUnits(qq)
BY DEF WinTimes, WinUnits, Agg!w1, Agg!w0, Agg!Base, Agg!Window

\* A run that begins to collect is over, and has collected nothing.
LEMMA WinReady ==
    ASSUME CoreInv, [Next]_vars, Schedule \/ Wake, ctl'.pc = "collect"
    PROVE  Complete(RunRecord)'
<1>1. CoreInv'
  BY CoreStep
<1>2. /\ ctl.pc \in {"plan", "await"} /\ now' = now /\ ~(now < Due) /\ ctl.ev = Len(Events) + 1
      /\ ctl'.cell = ctl.cell /\ ctl'.started = ctl.started /\ ctl'.got = ctl.got
  <2>1. ~RunFails
    BY FailGoes DEF Goes
  <2> QED
    BY <2>1, WaitGoes DEF Goes
<1>3. ctl.pc \in InHand /\ ctl.got = <<>> /\ ctl.started \in Nat /\ now \in Nat
  BY <1>2 DEF CoreInv, TypeInv, CtlType, RestType, PlaceInv, InHand
<1>4. Len(Events) \in Nat
  BY <1>3, InHandFacts
<1>5. now >= ctl.started + (Warmup + Measure) * PerSec
  <2>1. (Warmup + Measure) * PerSec \in Nat
    BY ConstTypes
  <2>2. Due = ctl.started + totalDur
    BY <1>2, <1>4 DEF Due
  <2> QED
    BY <1>2, <1>3, <2>1, <2>2 DEF totalDur
<1>6. now \div PerSec >= ctl.started \div PerSec + (Warmup + Measure)
  <2> DEFINE n == Warmup + Measure
  <2>1. n \in Nat /\ now >= ctl.started + n * PerSec
    BY <1>5, ConstTypes
  <2> HIDE DEF n
  <2>2. now \div PerSec >= ctl.started \div PerSec + n
    BY <1>3, <2>1, DivLater
  <2> QED
    BY <2>2 DEF n
<1>7. ctl.started \div PerSec \in Nat /\ Warmup \in Nat /\ Measure \in Nat
  BY <1>3, ConstTypes, SecondOfNat
<1>8. PICK qq \in RunRec : qq = RunRecord' /\ qq.started = ctl.started /\ qq.sessions = <<>>
  <2>1. ctl'.pc \in InHand
    BY DEF InHand
  <2> QED
    BY <1>1, <1>2, <1>3, <2>1, RecordNext DEF RecordOK
<1>9. Agg!w1(qq) = ctl.started \div PerSec + Warmup + Measure
  BY <1>8 DEF Agg!w1, Agg!w0, Agg!Base
<1>10. now' \div PerSec >= Agg!w1(qq)
  BY <1>2, <1>6, <1>7, <1>9
<1>11. Complete(qq)'
  BY <1>8, <1>10 DEF Complete, Over, Agg!w1, Agg!w0, Agg!Base
<1> QED
  BY <1>8, <1>11

\* A session that is collected is complete, but for what waits for the lock.
LEMMA WinCollect ==
    ASSUME CoreInv, WinInv, [Next]_vars, Collect
    PROVE  Complete(RunRecord)'
<1>1. CoreInv' /\ ctl.pc = "collect" /\ UNCHANGED <<live, targetVars, runs>>
  BY CoreStep, CollectGoes
<1>2. PICK g \in Seq(SessionRec) :
        /\ g = ctl.got \o Results(Target) \/ g = ctl.got
        /\ ctl'.pc \in InHand /\ ctl'.cell = ctl.cell /\ ctl'.started = ctl.started /\ ctl'.got = g
  <2>1. PICK g \in Seq(SessionRec) :
          /\ (Succeeds /\ g = ctl.got \o Results(Target)) \/ (Fails /\ g = ctl.got)
          /\ \/ More /\ Goes("collect", ctl.i + 1, ctl.ev, ctl.started, g)
             \/ ~More /\ ctl.i = Len(Cell.targets) /\ Goes("clear", 1, ctl.ev, ctl.started, g)
    BY CollectGoes
  <2> QED
    BY <2>1 DEF Goes, InHand
<1>3. ctl.pc \in InHand /\ ctl.got \in Seq(SessionRec)
  BY <1>1 DEF InHand, CoreInv, TypeInv, CtlType
<1>4. PICK pp \in RunRec : /\ pp = RunRecord /\ pp.cell = ctl.cell /\ pp.started = ctl.started
                           /\ pp.sessions = ctl.got
  BY <1>3, RecordType DEF RecordOK
<1>5. PICK qq \in RunRec : /\ qq = RunRecord' /\ qq.cell = ctl.cell /\ qq.started = ctl.started
                           /\ qq.sessions = g
  BY <1>1, <1>2, RecordNext DEF RecordOK
<1>6. Complete(pp)'
  <2>1. Complete(pp)
    BY <1>1, <1>4 DEF WinInv
  <2> QED
    BY <1>1, <2>1, CompleteKept
<1>7. Agg!w1(pp) = Agg!w1(qq) /\ WinTimes(pp) = WinTimes(qq) /\ WinUnits(pp) = WinUnits(qq)
  BY <1>4, <1>5, WindowOf
<1>8. Over(qq)'
  <2>1. now' \div PerSec >= Agg!w1(pp)
    BY <1>6 DEF Complete, Over, Agg!w1, Agg!w0, Agg!Base
  <2>2. now' \div PerSec >= Agg!w1(qq)
    BY <1>7, <2>1
  <2> QED
    BY <2>2 DEF Over, Agg!w1, Agg!w0, Agg!Base
<1>9. ASSUME NEW s, SessInv(pp, s)' PROVE SessInv(qq, s)'
  <2>1. /\ WinTimes(pp)' = WinTimes(pp) /\ WinUnits(pp)' = WinUnits(pp)
        /\ WinTimes(qq)' = WinTimes(qq) /\ WinUnits(qq)' = WinUnits(qq)
    OBVIOUS
  <2> QED
    BY <1>4, <1>5, <1>7, <1>9, <2>1 DEF SessInv
<1>10. ASSUME NEW j \in 1..Len(g) PROVE SessInv(qq, qq.sessions[j])'
  <2>1. CASE j \in 1..Len(ctl.got) /\ g[j] = ctl.got[j]
    <3>1. SessInv(pp, pp.sessions[j])'
      BY <1>4, <1>6, <2>1 DEF Complete
    <3>2. pp.sessions[j] = qq.sessions[j]
      BY <1>4, <1>5, <2>1
    <3>3. PICK s : s = pp.sessions[j]
      OBVIOUS
    <3> QED
      BY <1>9, <3>1, <3>2, <3>3
  <2>2. CASE Results(Target) # <<>> /\ g[j] = Results(Target)[1]
    <3>1. /\ Target \in Targets /\ ctl.cell \in RunIds
      BY <1>3, InHandFacts
    <3>2. PICK s : s = g[j]
      OBVIOUS
    <3>3. /\ store[Target][ctl.cell] # NoRec
          /\ s = [t |-> Target, rec |-> store[Target][ctl.cell], log |-> log[Target],
                  late |-> Len(pending[Target])]
      BY <2>2, <3>2 DEF Results
    <3>4. s.t = Target /\ s.rec = store[Target][ctl.cell] /\ s.late = Len(pending[Target])
      BY <3>3
    <3>5. store' = store /\ pending' = pending
      BY <1>1 DEF targetVars
    <3>6. pending[Target] \in Seq(Unit) /\ s.rec.arr \in Seq(Nat \ {0})
      BY <3>1, <3>3, <3>4, SessType
    <3>7. /\ Cardinality(Hits(pending[Target], WinUnits(qq))) \in Nat
          /\ Cardinality(Hits(pending[Target], WinUnits(qq))) <= Len(pending[Target])
          /\ Cardinality(Hits(s.rec.arr, WinTimes(qq))) \in Nat
      BY <3>6, HitsType
    <3>8. SessInv(qq, s)
      <4>1. Len(pending[Target]) \in Nat
        BY <3>6
      <4> QED
        BY <1>5, <3>4, <3>7, <4>1 DEF SessInv
    <3>9. SessInv(qq, s)'
      BY <3>5, <3>8, SessSame
    <3> QED
      BY <1>5, <3>2, <3>9
  <2>3. \/ j \in 1..Len(ctl.got) /\ g[j] = ctl.got[j]
        \/ Results(Target) # <<>> /\ g[j] = Results(Target)[1]
    <3>1. CASE g = ctl.got
      BY <3>1
    <3>2. CASE g = ctl.got \o Results(Target)
      <4>1. Target \in Targets /\ ctl.cell \in RunIds
        BY <1>3, InHandFacts
      <4>2. Results(Target) \in Seq(SessionRec) /\ Len(Results(Target)) \in {0, 1}
        BY <4>1, ResultsType DEF Results, CoreInv
      <4> DEFINE rs == Results(Target)
      <4> HIDE DEF rs
      <4>3. rs \in Seq(SessionRec) /\ Len(rs) \in {0, 1} /\ g = ctl.got \o rs
        BY <3>2, <4>2 DEF rs
      <4>4. /\ Len(g) = Len(ctl.got) + Len(rs)
            /\ \A n \in 1..Len(g) : g[n] = IF n <= Len(ctl.got) THEN ctl.got[n] ELSE rs[n - Len(ctl.got)]
        BY <1>3, <4>3, ConcatProperties
      <4>5. Len(ctl.got) \in Nat
        BY <1>3
      <4>6. CASE j <= Len(ctl.got)
        BY <4>4, <4>5, <4>6
      <4>7. CASE ~(j <= Len(ctl.got))
        <5>1. j - Len(ctl.got) = 1 /\ Len(rs) = 1
          BY <4>3, <4>4, <4>5, <4>7
        <5>2. g[j] = rs[1]
          BY <4>4, <4>7, <5>1
        <5>3. rs # <<>>
          BY <4>3, <5>1
        <5> QED
          BY <5>2, <5>3 DEF rs
      <4> QED
        BY <4>6, <4>7
    <3> QED
      BY <1>2, <3>1, <3>2
  <2> QED
    BY <2>1, <2>2, <2>3
<1>11. Complete(qq)'
  BY <1>5, <1>8, <1>10 DEF Complete
<1> QED
  BY <1>5, <1>11

\* How the controller comes to collect, or to have collected.
LEMMA CollectFrom ==
    ASSUME CoreInv, [Next]_vars, ctl'.pc \in {"collect", "clear"}
    PROVE  \/ Collect
           \/ (Schedule \/ Wake) /\ ctl'.pc = "collect"
           \/ ctl.pc \in {"collect", "clear"} /\ ctl'.cell = ctl.cell
              /\ ctl'.started = ctl.started /\ ctl'.got = ctl.got
<1>0. ~RunFails
  BY FailGoes DEF Goes
<1>1. ~StartCell
  <2> SUFFICES ASSUME StartCell PROVE FALSE
    OBVIOUS
  <2>1. \/ ctl' = [ctl EXCEPT !.pc = "apply", !.cell = @ + 1, !.i = 1, !.ev = 1, !.got = <<>>]
        \/ ctl' = [ctl EXCEPT !.pc = "gone"]
    BY DEF StartCell
  <2> QED
    BY <2>1 DEF CoreInv, TypeInv, CtlType
<1>2. ~WriteSummary
  BY DEF WriteSummary, LastCell, CoreInv, TypeInv, CtlType
<1>3. ASSUME Tick \/ Cancel \/ UNCHANGED vars
      PROVE  ctl' = ctl
  BY <1>3 DEF Tick, Cancel, vars
<1>4. ASSUME NEW t \in Targets, TargetRestarts(t) \/ MediaRead(t) \/ MediaRecord(t)
      PROVE  ctl' = ctl
  <2>1. CASE TargetRestarts(t)
    BY <2>1 DEF TargetRestarts
  <2>2. CASE MediaRead(t)
    BY <2>2 DEF MediaRead
  <2>3. CASE MediaRecord(t)
    BY <2>3 DEF MediaRecord
  <2> QED
    BY <1>4, <2>1, <2>2, <2>3
<1>5. ~PostProfile
  BY <1>0, ProfileGoes DEF Goes, Stay
<1>6. ~PostRestart
  BY <1>0, RestartGoes DEF Goes, Stay
<1>7. ~PostEvent
  BY EventGoes DEF Goes, Stay
<1>8. ASSUME Schedule \/ Wake PROVE ctl'.pc = "collect"
  BY <1>0, <1>8, WaitGoes DEF Goes
<1>9. ASSUME PostClear
      PROVE  ctl.pc = "clear" /\ ctl'.cell = ctl.cell /\ ctl'.started = ctl.started /\ ctl'.got = ctl.got
  BY <1>0, <1>9, ClearGoes DEF Goes, Stay
<1>10. Viewed \subseteq Targets
  BY ExperimentAssumption
<1>11. ctl' = ctl => ctl.pc \in {"collect", "clear"} /\ ctl'.cell = ctl.cell
                     /\ ctl'.started = ctl.started /\ ctl'.got = ctl.got
  OBVIOUS
<1> QED
  BY <1>1, <1>2, <1>3, <1>4, <1>5, <1>6, <1>7, <1>8, <1>9, <1>10, <1>11 DEF Next, Runs

LEMMA WinStep == CoreInv /\ WinInv /\ [Next]_vars => WinInv'
<1> SUFFICES ASSUME CoreInv, WinInv, [Next]_vars PROVE WinInv'
  OBVIOUS
<1>1. CoreInv' /\ runs \in Seq(RunRec) /\ ctl.cell \in Nat
  <2>1. CoreInv'
    BY CoreStep
  <2>2. runs \in Seq(RunRec) /\ ctl.cell \in RunIds
    BY DEF CoreInv, TypeInv, RestType, CtlType
  <2> QED
    BY <2>1, <2>2, ConstTypes DEF RunIds, Boot, Cells
<1>2. ASSUME NEW rr \in RunRec, NEW k \in 1..Len(runs), rr = runs[k]
      PROVE  /\ Complete(rr)'
             /\ rr.cell <= ctl'.cell /\ (ctl'.pc \in InHand => rr.cell < ctl'.cell)
  <2>1. /\ Complete(rr) /\ rr.cell <= ctl.cell
        /\ ctl.pc \in InHand => rr.cell < ctl.cell
    BY <1>2 DEF WinInv
  <2>2. rr.cell \in Nat
    BY ConstTypes DEF RunRec, Cells
  <2>3. ctl.pc = "restart" => rr.cell # ctl.cell
    BY <1>1, <2>1, <2>2 DEF InHand
  <2>4. Complete(rr)'
    BY <2>1, <2>3, CompleteKept
  <2> QED
    BY <1>1, <2>1, <2>2, <2>4, CellGoes
<1>3. CASE runs' = runs
  <2>1. ASSUME NEW k \in 1..Len(runs')
        PROVE  /\ runs'[k].cell <= ctl'.cell /\ (ctl'.pc \in InHand => runs'[k].cell < ctl'.cell)
               /\ Complete(runs[k])'
    <3>1. PICK rr \in RunRec : rr = runs[k]
      BY <1>1, <1>3, <2>1
    <3> QED
      BY <1>2, <1>3, <3>1
  <2>2. ctl'.pc \in {"collect", "clear"} => Complete(RunRecord)'
    <3> SUFFICES ASSUME ctl'.pc \in {"collect", "clear"} PROVE Complete(RunRecord)'
      OBVIOUS
    <3>1. CASE Collect
      BY <3>1, WinCollect
    <3>2. CASE (Schedule \/ Wake) /\ ctl'.pc = "collect"
      BY <3>2, WinReady
    <3>3. CASE ctl.pc \in {"collect", "clear"} /\ ctl'.cell = ctl.cell
               /\ ctl'.started = ctl.started /\ ctl'.got = ctl.got
      <4>1. RecordOK /\ RecordOK'
        BY <1>1, <3>3, RecordType, RecordNext DEF InHand
      <4>2. PICK rr \in RunRec : rr = RunRecord
        BY <4>1 DEF RecordOK
      <4>3. Complete(rr)'
        <5>1. Complete(rr)
          BY <3>3, <4>2 DEF WinInv
        <5> QED
          BY <3>3, <5>1, CompleteKept
      <4>4. RunRecord' = RunRecord
        BY <3>3 DEF RunRecord, Cell
      <4> QED
        BY <4>2, <4>3, <4>4
    <3>4. \/ Collect
          \/ (Schedule \/ Wake) /\ ctl'.pc = "collect"
          \/ ctl.pc \in {"collect", "clear"} /\ ctl'.cell = ctl.cell
             /\ ctl'.started = ctl.started /\ ctl'.got = ctl.got
      BY CollectFrom
    <3> QED
      BY <3>1, <3>2, <3>3, <3>4
  <2> QED
    BY <2>1, <2>2 DEF WinInv
<1>4. CASE ctl.pc = "clear" /\ runs' = Append(runs, RunRecord) /\ ctl'.pc = "cell" /\ ctl'.cell = ctl.cell
  <2>1. PICK qq \in RunRec : qq = RunRecord /\ qq.cell = ctl.cell
    BY <1>4, RecordType DEF RecordOK, InHand
  <2>2. Complete(qq)'
    <3>1. Complete(qq)
      BY <1>4, <2>1 DEF WinInv
    <3> QED
      BY <1>4, <3>1, CompleteKept
  <2>3. ASSUME NEW k \in 1..Len(runs')
        PROVE  /\ runs'[k].cell <= ctl'.cell /\ Complete(runs[k])'
    <3>1. PICK rr : rr = runs'[k]
      OBVIOUS
    <3>2. \/ rr = qq
          \/ k \in 1..Len(runs) /\ rr = runs[k]
      BY <1>1, <1>4, <2>1, <3>1
    <3>3. CASE rr = qq
      BY <1>1, <1>4, <2>1, <2>2, <3>1, <3>3
    <3>4. CASE k \in 1..Len(runs) /\ rr = runs[k]
      BY <1>1, <1>2, <3>1, <3>4
    <3> QED
      BY <3>2, <3>3, <3>4
  <2>4. ctl'.pc \notin InHand /\ ctl'.pc \notin {"collect", "clear"}
    BY <1>4 DEF InHand
  <2> QED
    BY <2>3, <2>4 DEF WinInv
<1> QED
  BY <1>3, <1>4, RunsGoes DEF Goes

-----------------------------------------------------------------------------
(* Sums of sums.                                                             *)

\* Induction over the subsets of a finite set; G are those of which it is said.
LEMMA Growing ==
    ASSUME NEW S, IsFiniteSet(S), NEW G, {} \in G,
           \A T \in SUBSET S : \A x \in S : T \in G /\ x \notin T => T \cup {x} \in G
    PROVE  S \in G
<1> DEFINE Bad == {n \in Nat : \E T \in SUBSET S : Cardinality(T) = n /\ T \notin G}
<1>1. \A T \in SUBSET S : IsFiniteSet(T) /\ Cardinality(T) \in Nat
  BY FS_Subset, FS_CardinalityType
<1>2. Bad = {}
  <2> SUFFICES ASSUME Bad # {} PROVE FALSE
    OBVIOUS
  <2>1. PICK n \in Bad : \A m \in Bad : n <= m
    BY Smallest
  <2>2. PICK T \in SUBSET S : Cardinality(T) = n /\ T \notin G
    BY <2>1
  <2>3. PICK x \in T : TRUE
    BY <2>2
  <2> DEFINE U == T \ {x}
  <2>4. U \in SUBSET S /\ Cardinality(U) = n - 1 /\ U \cup {x} = T /\ x \in S /\ x \notin U
    BY <1>1, <2>2, <2>3, FS_RemoveElement
  <2> HIDE DEF U
  <2>5. U \in G
    BY <1>1, <2>1, <2>4
  <2> QED
    BY <2>2, <2>4, <2>5
<1> QED
  BY <1>1, <1>2

LEMMA SumUnion ==
    ASSUME NEW f, NEW A, NEW B, IsFiniteSet(A), IsFiniteSet(B), A \cap B = {},
           \A x \in A \cup B : f[x] \in Int
    PROVE  SumFunctionOnSet(f, A \cup B) = SumFunctionOnSet(f, A) + SumFunctionOnSet(f, B)
<1> DEFINE G == {T \in SUBSET B : IsFiniteSet(A \cup T) /\
                   SumFunctionOnSet(f, A \cup T) = SumFunctionOnSet(f, A) + SumFunctionOnSet(f, T)}
<1>0. SumFunctionOnSet(f, A) \in Int
  BY SumTake
<1>1. {} \in G
  <2>1. A \cup {} = A
    OBVIOUS
  <2> QED
    BY <1>0, <2>1, SumEmpty
<1>2. ASSUME NEW T \in SUBSET B, NEW x \in B, T \in G, x \notin T
      PROVE  T \cup {x} \in G
  <2>1. /\ IsFiniteSet(A \cup T) /\ IsFiniteSet(T) /\ x \notin A \cup T
        /\ A \cup (T \cup {x}) = (A \cup T) \cup {x} /\ T \cup {x} \in SUBSET B
        /\ f[x] \in Int
    BY <1>2, FS_Subset
  <2> DEFINE V == A \cup T
  <2> HIDE DEF V
  <2>2. SumFunctionOnSet(f, V \cup {x}) = f[x] + SumFunctionOnSet(f, V) /\ IsFiniteSet(V \cup {x})
    <3>1. \A y \in V \cup {x} : f[y] \in Int
      BY DEF V
    <3> QED
      BY <2>1, <3>1, SumAdd, FS_AddElement DEF V
  <2>3. SumFunctionOnSet(f, T \cup {x}) = f[x] + SumFunctionOnSet(f, T)
    <3>1. \A y \in T \cup {x} : f[y] \in Int
      OBVIOUS
    <3> QED
      BY <1>2, <2>1, <3>1, SumAdd
  <2>4. SumFunctionOnSet(f, T) \in Int
    BY <2>1, SumTake
  <2>5. SumFunctionOnSet(f, V) = SumFunctionOnSet(f, A) + SumFunctionOnSet(f, T)
    BY <1>2 DEF V
  <2>6. SumFunctionOnSet(f, V \cup {x}) = SumFunctionOnSet(f, A) + SumFunctionOnSet(f, T \cup {x})
    BY <1>0, <2>1, <2>2, <2>3, <2>4, <2>5
  <2> QED
    BY <2>1, <2>2, <2>6 DEF V
<1> HIDE DEF G
<1>3. B \in G
  BY <1>1, <1>2, Growing
<1> QED
  BY <1>3 DEF G

\* The pairs of m with the elements of E.
PairsOf(m, E) == {m} \X E

\* The sum over a row of pairs.
LEMMA SumRow ==
    ASSUME NEW F, NEW m, NEW D, NEW h, IsFiniteSet(D),
           \A j \in D : F[<<m, j>>] \in Int /\ h[j] = F[<<m, j>>]
    PROVE  /\ IsFiniteSet(PairsOf(m, D))
           /\ SumFunctionOnSet(F, PairsOf(m, D)) = SumFunctionOnSet(h, D)
<1> DEFINE G == {T \in SUBSET D : IsFiniteSet(PairsOf(m, T)) /\
              SumFunctionOnSet(F, PairsOf(m, T)) = SumFunctionOnSet(h, T)}
<1>1. {} \in G
  <2>1. PairsOf(m, {}) = {}
    BY DEF PairsOf
  <2> QED
    BY <2>1, SumEmpty, FS_EmptySet
<1>2. ASSUME NEW T \in SUBSET D, NEW x \in D, T \in G, x \notin T
      PROVE  T \cup {x} \in G
  <2> DEFINE R == PairsOf(m, T)
             p == <<m, x>>
  <2>1. PairsOf(m, T \cup {x}) = R \cup {p} /\ p \notin R
    BY <1>2 DEF PairsOf
  <2>2. IsFiniteSet(R) /\ SumFunctionOnSet(F, R) = SumFunctionOnSet(h, T) /\ IsFiniteSet(T)
    BY <1>2, FS_Subset
  <2>3. /\ F[p] \in Int /\ F[p] = h[x] /\ \A y \in T \cup {x} : h[y] \in Int
        /\ \A y \in R \cup {p} : F[y] \in Int
    <3>1. \A y \in T \cup {x} : y \in D /\ h[y] \in Int
      OBVIOUS
    <3>2. \A y \in R \cup {p} : \E j \in D : y = <<m, j>>
      BY DEF PairsOf
    <3>3. F[p] \in Int /\ F[p] = h[x]
      OBVIOUS
    <3>4. \A y \in R \cup {p} : F[y] \in Int
      BY <3>2
    <3> QED
      BY <3>1, <3>3, <3>4
  <2> HIDE DEF R, p
  <2>4. SumFunctionOnSet(F, R \cup {p}) = F[p] + SumFunctionOnSet(F, R) /\ IsFiniteSet(R \cup {p})
    BY <2>1, <2>2, <2>3, SumAdd, FS_AddElement
  <2>5. SumFunctionOnSet(h, T \cup {x}) = h[x] + SumFunctionOnSet(h, T)
    BY <1>2, <2>2, <2>3, SumAdd
  <2> QED
    BY <1>2, <2>1, <2>2, <2>3, <2>4, <2>5
<1> HIDE DEF G
<1>3. D \in G
  BY <1>1, <1>2, Growing
<1> QED
  BY <1>3 DEF G

\* The pairs of an element k of M with one of D[k].
AllPairs(M, D) == UNION {PairsOf(k, D[k]) : k \in M}

\* The sum over pairs is the sum of the sums over the rows.
LEMMA SumPairs ==
    ASSUME NEW F, NEW M, NEW D, NEW H, NEW h, IsFiniteSet(M), \A k \in M : IsFiniteSet(D[k]),
           \A k \in M : h[k] = SumFunctionOnSet(H[k], D[k]),
           \A k \in M : \A j \in D[k] : F[<<k, j>>] \in Int /\ H[k][j] = F[<<k, j>>]
    PROVE  /\ IsFiniteSet(AllPairs(M, D))
           /\ SumFunctionOnSet(F, AllPairs(M, D)) = SumFunctionOnSet(h, M)
<1> DEFINE P(T) == AllPairs(T, D)
           G == {T \in SUBSET M : IsFiniteSet(P(T)) /\
                   SumFunctionOnSet(F, P(T)) = SumFunctionOnSet(h, T)}
<1>1. {} \in G
  <2>1. P({}) = {}
    BY DEF AllPairs
  <2> QED
    BY <2>1, SumEmpty, FS_EmptySet
<1>2. ASSUME NEW T \in SUBSET M, NEW m \in M, T \in G, m \notin T
      PROVE  T \cup {m} \in G
  <2> DEFINE R == PairsOf(m, D[m])
             Q == P(T)
  <2>1. P(T \cup {m}) = Q \cup R
    BY DEF AllPairs
  <2>2. Q \cap R = {}
    BY <1>2 DEF AllPairs, PairsOf
  <2>3. IsFiniteSet(Q) /\ SumFunctionOnSet(F, Q) = SumFunctionOnSet(h, T) /\ IsFiniteSet(T)
    BY <1>2, FS_Subset
  <2>4. \A k \in M : /\ IsFiniteSet(PairsOf(k, D[k]))
                   /\ SumFunctionOnSet(F, PairsOf(k, D[k])) = h[k]
    <3> SUFFICES ASSUME NEW k \in M
                 PROVE  /\ IsFiniteSet(PairsOf(k, D[k]))
                        /\ SumFunctionOnSet(F, PairsOf(k, D[k])) = h[k]
      OBVIOUS
    <3> DEFINE E == D[k]
               f == H[k]
    <3>1. IsFiniteSet(E) /\ \A j \in E : F[<<k, j>>] \in Int /\ f[j] = F[<<k, j>>]
      OBVIOUS
    <3>2. h[k] = SumFunctionOnSet(f, E)
      OBVIOUS
    <3> HIDE DEF E, f
    <3>3. IsFiniteSet(PairsOf(k, E)) /\ SumFunctionOnSet(F, PairsOf(k, E)) = SumFunctionOnSet(f, E)
      BY <3>1, SumRow
    <3> QED
      BY <3>2, <3>3 DEF E
  <2>5. \A y \in Q \cup R : F[y] \in Int
    <3>1. \A y \in Q \cup R : \E k \in M : \E j \in D[k] : y = <<k, j>>
      BY DEF AllPairs, PairsOf
    <3> QED
      BY <3>1
  <2>6. \A k \in M : h[k] \in Int
    <3> SUFFICES ASSUME NEW k \in M PROVE h[k] \in Int
      OBVIOUS
    <3> DEFINE E == D[k]
               f == H[k]
    <3>1. IsFiniteSet(E) /\ h[k] = SumFunctionOnSet(f, E) /\ \A j \in E : f[j] \in Int
      OBVIOUS
    <3> HIDE DEF E, f
    <3> QED
      BY <3>1, SumTake
  <2>0. IsFiniteSet(R) /\ SumFunctionOnSet(F, R) = h[m]
    BY <2>4
  <2> HIDE DEF R, Q, P
  <2>7. SumFunctionOnSet(F, Q \cup R) = SumFunctionOnSet(F, Q) + SumFunctionOnSet(F, R)
    BY <2>0, <2>2, <2>3, <2>5, SumUnion
  <2>8. SumFunctionOnSet(h, T \cup {m}) = h[m] + SumFunctionOnSet(h, T)
    <3>1. \A y \in T \cup {m} : h[y] \in Int
      BY <2>6
    <3> QED
      BY <1>2, <2>3, <3>1, SumAdd
  <2>9. SumFunctionOnSet(h, T) \in Int /\ h[m] \in Int
    BY <2>3, <2>6, SumTake
  <2>10. IsFiniteSet(Q \cup R)
    BY <2>0, <2>3, FS_Union
  <2>11. SumFunctionOnSet(F, Q \cup R) = SumFunctionOnSet(h, T \cup {m})
    BY <2>0, <2>3, <2>7, <2>8, <2>9
  <2>12. SumFunctionOnSet(F, P(T \cup {m})) = SumFunctionOnSet(h, T \cup {m}) /\ IsFiniteSet(P(T \cup {m}))
    BY <2>1, <2>10, <2>11
  <2> QED
    BY <2>12
<1> HIDE DEF G
<1>3. M \in G
  BY <1>1, <1>2, Growing
<1> QED
  BY <1>3 DEF G

\* The sum of the sizes of disjoint sets is the size of what they are together.
LEMMA SumSizes ==
    ASSUME NEW S, NEW C, IsFiniteSet(S), \A x \in S : IsFiniteSet(C[x]),
           \A x, y \in S : x # y => C[x] \cap C[y] = {}
    PROVE  SumFunctionOnSet([x \in S |-> Cardinality(C[x])], S) = Cardinality(UNION {C[x] : x \in S})
<1> DEFINE h == [x \in S |-> Cardinality(C[x])]
           P(T) == UNION {C[x] : x \in T}
           G == {T \in SUBSET S : IsFiniteSet(P(T)) /\ SumFunctionOnSet(h, T) = Cardinality(P(T))}
<1>1. {} \in G
  <2>1. P({}) = {}
    OBVIOUS
  <2> QED
    BY <2>1, SumEmpty, FS_EmptySet
<1>0. \A x \in S : h[x] \in Int /\ h[x] = Cardinality(C[x])
  BY FS_CardinalityType
<1>2. ASSUME NEW T \in SUBSET S, NEW x \in S, T \in G, x \notin T
      PROVE  T \cup {x} \in G
  <2> DEFINE Q == P(T)
             R == C[x]
  <2>1. P(T \cup {x}) = Q \cup R
    OBVIOUS
  <2>2. Q \cap R = {}
    BY <1>2
  <2>3. IsFiniteSet(Q) /\ SumFunctionOnSet(h, T) = Cardinality(Q) /\ IsFiniteSet(T) /\ IsFiniteSet(R)
    BY <1>2, FS_Subset
  <2>0. h[x] = Cardinality(R)
    OBVIOUS
  <2> HIDE DEF R, Q, h, P
  <2>4. SumFunctionOnSet(h, T \cup {x}) = h[x] + SumFunctionOnSet(h, T)
    <3>1. \A y \in T \cup {x} : h[y] \in Int
      BY <1>0
    <3> QED
      BY <1>2, <2>3, <3>1, SumAdd
  <2>5. /\ IsFiniteSet(Q \cup R) /\ Cardinality(Q) \in Nat /\ Cardinality(R) \in Nat
        /\ Cardinality(Q \cup R) = Cardinality(Q) + Cardinality(R) - Cardinality(Q \cap R)
    BY <2>3, FS_Union, FS_CardinalityType
  <2>6. SumFunctionOnSet(h, T \cup {x}) = Cardinality(Q \cup R)
    <3>1. Cardinality(Q \cap R) = 0
      BY <2>2, FS_EmptySet
    <3> QED
      BY <2>0, <2>3, <2>4, <2>5, <3>1
  <2>7. SumFunctionOnSet(h, T \cup {x}) = Cardinality(P(T \cup {x})) /\ IsFiniteSet(P(T \cup {x}))
    BY <2>1, <2>5, <2>6
  <2> QED
    BY <2>7
<1> HIDE DEF G
<1>3. S \in G
  BY <1>1, <1>2, Growing
<1> QED
  BY <1>3 DEF G

-----------------------------------------------------------------------------
(* The order of the rows.                                                    *)

\* s lists S in increasing order.
Lists(s, S) ==
    /\ s \in [1..Cardinality(S) -> S]
    /\ \A j, k \in 1..Cardinality(S) : j < k => s[j] < s[k]

LEMMA ListExists ==
    ASSUME NEW S \in SUBSET Nat, IsFiniteSet(S)
    PROVE  \E s : Lists(s, S)
<1> DEFINE n == Cardinality(S)
<1>1. n \in Nat /\ \E f : f \in Bijection(1..n, S)
  BY FS_CardinalityType DEF ExistsBijection
<1>2. PICK f : f \in Bijection(1..n, S)
  BY <1>1
<1>3. f \in [1..n -> S] /\ (\A a, b \in 1..n : f[a] = f[b] => a = b) /\ f \in [1..n -> Nat]
  BY <1>2 DEF Bijection, Injection, IsInjective
<1> HIDE DEF n
<1>4. PICK p \in [1..n -> 1..n] : /\ IsInjective(p)
                                  /\ \A j, k \in 1..n : j < k => f[p[j]] <= f[p[k]]
  BY <1>1, <1>3, OrderExists
<1> DEFINE s == [j \in 1..n |-> f[p[j]]]
<1>5. s \in [1..n -> S]
  BY <1>3
<1>6. ASSUME NEW j \in 1..n, NEW k \in 1..n, j < k PROVE s[j] < s[k]
  <2>1. j # k /\ p[j] \in 1..n /\ p[k] \in 1..n
    BY <1>1, <1>6
  <2>2. p[j] # p[k]
    BY <1>4, <2>1 DEF IsInjective
  <2>3. f[p[j]] \in Nat /\ f[p[k]] \in Nat /\ f[p[j]] # f[p[k]] /\ f[p[j]] <= f[p[k]]
    BY <1>3, <1>4, <1>6, <2>1, <2>2
  <2> QED
    BY <2>3
<1> HIDE DEF s
<1>7. Lists(s, S)
  BY <1>5, <1>6 DEF Lists, n
<1> QED
  BY <1>7

LEMMA ListFacts ==
    ASSUME NEW S \in SUBSET Nat, IsFiniteSet(S), NEW s, Lists(s, S)
    PROVE  /\ Cardinality(S) \in Nat /\ s \in [1..Cardinality(S) -> S]
           /\ \A x \in S : \E j \in 1..Cardinality(S) : s[j] = x
           /\ \A j, k \in 1..Cardinality(S) : s[j] = s[k] => j = k
<1> DEFINE n == Cardinality(S)
<1>1. n \in Nat /\ IsFiniteSet(1..n) /\ Cardinality(1..n) = n
  <2>1. n \in Nat
    BY FS_CardinalityType
  <2> HIDE DEF n
  <2> QED
    BY <2>1, FS_Interval
<1>2. s \in [1..n -> S] /\ \A j, k \in 1..n : j < k => s[j] < s[k]
  BY DEF Lists
<1>3. \A j, k \in 1..n : s[j] = s[k] => j = k
  <2> SUFFICES ASSUME NEW j \in 1..n, NEW k \in 1..n, s[j] = s[k], j # k PROVE FALSE
    OBVIOUS
  <2> HIDE DEF n
  <2>1. j < k \/ k < j
    BY <1>1
  <2>2. s[j] \in Nat /\ s[k] \in Nat
    BY <1>2
  <2>3. s[j] < s[k] \/ s[k] < s[j]
    BY <1>2, <2>1
  <2> QED
    BY <2>2, <2>3
<1>4. s \in Injection(1..n, S)
  BY <1>2, <1>3 DEF Injection, IsInjective
<1>5. Cardinality(1..n) = Cardinality(S)
  BY <1>1
<1> HIDE DEF n
<1>6. s \in Surjection(1..n, S)
  BY <1>4, <1>5, FS_Injection
<1> QED
  BY <1>1, <1>2, <1>3, <1>6 DEF Surjection, n

\* Strictly increasing, over whatever its domain is.
Rising(s) == \A j, k \in DOMAIN s : j < k => s[j] < s[k]

LEMMA RisingChosen ==
    ASSUME NEW F, NEW s \in F, Rising(s)
    PROVE  /\ (CHOOSE o \in F : Rising(o)) \in F
           /\ Rising(CHOOSE o \in F : Rising(o))
OBVIOUS

LEMMA InOrderLists ==
    ASSUME NEW S \in SUBSET Nat, IsFiniteSet(S)
    PROVE  Lists(Agg!InOrder(S), S)
<1> DEFINE F == [1..Cardinality(S) -> S]
<1>1. PICK s : Lists(s, S)
  BY ListExists
<1>2. s \in F /\ Rising(s)
  BY <1>1 DEF Lists, Rising
<1>3. Agg!InOrder(S) = CHOOSE o \in F : Rising(o)
  BY DEF Agg!InOrder, Rising, Agg!Cardinality, Cardinality
<1> HIDE DEF F
<1>4. Agg!InOrder(S) \in F /\ Rising(Agg!InOrder(S))
  BY <1>2, <1>3, RisingChosen
<1> DEFINE o == Agg!InOrder(S)
<1>5. o \in F /\ Rising(o)
  BY <1>4
<1> HIDE DEF o
<1>6. Lists(o, S)
  BY <1>5 DEF Lists, F, Rising
<1> QED
  BY <1>6 DEF o

\* The runs of a row, and their sessions.
MineOf(row, rs) == {k \in DOMAIN rs : rs[k].row = row}
SessionsOf(row, rs) == AllPairs(MineOf(row, rs), [k \in MineOf(row, rs) |-> DOMAIN rs[k].sessions])

\* What the samples of session s count in the window of run rr.
Counted(rr, s) ==
    SumFunctionOnSet([t \in Agg!InWindow(rr, s) |-> s.rec.seconds[t].bytes], Agg!InWindow(rr, s))

\* Aggregate sums as Experiment does.
LEMMA AggSums ==
    ASSUME NEW f
    PROVE  /\ Agg!SumFunction(f) = SumFunctionOnSet(f, DOMAIN f)
           /\ \A S : Agg!SumFunctionOnSet(f, S) = SumFunctionOnSet(f, S)
<1>1. ASSUME NEW S PROVE Agg!SumFunctionOnSet(f, S) = SumFunctionOnSet(f, S)
  BY DEF SumFunctionOnSet, FoldFunctionOnSet, MapThenFoldSet,
         Agg!SumFunctionOnSet, Agg!FoldFunctionOnSet, Agg!MapThenFoldSet
<1>2. Agg!SumFunction(f) = Agg!SumFunctionOnSet(f, DOMAIN f)
  BY DEF Agg!SumFunction
<1> QED
  BY <1>1, <1>2

LEMMA RowIs ==
    ASSUME NEW row, NEW rs
    PROVE  /\ Agg!Row(row, rs).row = row
           /\ Agg!Row(row, rs).runs = Cardinality(MineOf(row, rs))
           /\ Agg!Row(row, rs).sessions = Cardinality(SessionsOf(row, rs))
           /\ Agg!Row(row, rs).winBytes =
                SumFunctionOnSet([x \in SessionsOf(row, rs) |->
                                    Counted(rs[x[1]], rs[x[1]].sessions[x[2]])], SessionsOf(row, rs))
           /\ Agg!Row(row, rs).winSeconds =
                SumFunctionOnSet([x \in SessionsOf(row, rs) |->
                                    Cardinality(Agg!InWindow(rs[x[1]], rs[x[1]].sessions[x[2]]))],
                                 SessionsOf(row, rs))
<1> DEFINE all == UNION {{k} \X DOMAIN rs[k].sessions : k \in MineOf(row, rs)}
           win(x) == Agg!InWindow(rs[x[1]], rs[x[1]].sessions[x[2]])
<1>1. /\ Agg!Row(row, rs).row = row
      /\ Agg!Row(row, rs).runs = Cardinality(MineOf(row, rs))
      /\ Agg!Row(row, rs).sessions = Cardinality(all)
  BY DEF Agg!Row, Agg!Cardinality, Cardinality, MineOf
<1>2. Agg!Row(row, rs).winSeconds = Agg!SumFunction([x \in all |-> Cardinality(win(x))])
  BY DEF Agg!Row, Agg!Cardinality, Cardinality, MineOf
<1>3. Agg!Row(row, rs).winBytes
        = Agg!SumFunction([x \in all |->
             Agg!SumFunction([t \in win(x) |-> rs[x[1]].sessions[x[2]].rec.seconds[t].bytes])])
  BY DEF Agg!Row, MineOf
<1>4. \A x : Agg!SumFunction([t \in win(x) |-> rs[x[1]].sessions[x[2]].rec.seconds[t].bytes])
               = Counted(rs[x[1]], rs[x[1]].sessions[x[2]])
  BY AggSums DEF Counted
<1>0. all = SessionsOf(row, rs)
  <2>1. \A k \in MineOf(row, rs) : {k} \X DOMAIN rs[k].sessions
          = PairsOf(k, [m \in MineOf(row, rs) |-> DOMAIN rs[m].sessions][k])
    BY DEF PairsOf
  <2> QED
    BY <2>1 DEF SessionsOf, AllPairs
<1> HIDE DEF all, win
<1>5. Agg!Row(row, rs).winBytes
        = Agg!SumFunction([x \in all |-> Counted(rs[x[1]], rs[x[1]].sessions[x[2]])])
  BY <1>3, <1>4
<1>6. Agg!Row(row, rs).winBytes
        = SumFunctionOnSet([x \in all |-> Counted(rs[x[1]], rs[x[1]].sessions[x[2]])], all)
  BY <1>5, AggSums
<1>7. Agg!Row(row, rs).winSeconds = SumFunctionOnSet([x \in all |-> Cardinality(win(x))], all)
  BY <1>2, AggSums
<1> QED
  BY <1>0, <1>1, <1>6, <1>7 DEF win

LEMMA CameFinite ==
    ASSUME NEW S, NEW arr \in Seq(S), NEW t
    PROVE  IsFiniteSet(Came(arr, t))
<1>1. Len(arr) \in Nat /\ DOMAIN arr = 1..Len(arr)
  OBVIOUS
<1>2. IsFiniteSet(1..Len(arr))
  BY <1>1, FS_Interval
<1>3. Came(arr, t) \in SUBSET (1..Len(arr))
  BY <1>1 DEF Came
<1> QED
  BY <1>2, <1>3, FS_Subset

\* The samples of the window count the units received in it, over no more
\* seconds than the window has.
LEMMA CountedIs ==
    ASSUME NEW rr \in RunRec, NEW s \in SessionRec, RecInv(s.rec)
    PROVE  /\ Counted(rr, s) = Cardinality(Within(rr, s.rec)) /\ Counted(rr, s) \in Nat
           /\ Cardinality(Agg!InWindow(rr, s)) \in 0..Measure
<1> DEFINE W == Agg!InWindow(rr, s)
           arr == s.rec.arr
           C == [t \in W |-> Came(arr, t)]
<1>1. arr \in Seq(Nat \ {0}) /\ s.rec \in Recording
  BY DEF SessionRec, Recording
<1>2. /\ W = Agg!Window(rr) \cap DOMAIN s.rec.seconds
      /\ DOMAIN s.rec.seconds = {t \in Nat : Came(arr, t) # {}}
      /\ \A t \in DOMAIN s.rec.seconds : s.rec.seconds[t].bytes = Cardinality(Came(arr, t))
  BY DEF Agg!InWindow, RecInv
<1>3. IsFiniteSet(Agg!Window(rr)) /\ Cardinality(Agg!Window(rr)) = Measure
  <2>1. Agg!w0(rr) \in Int /\ Measure \in Nat /\ Agg!Window(rr) = Agg!w0(rr)..(Agg!w0(rr) + Measure - 1)
    <3>1. rr.started \in Nat
      BY DEF RunRec
    <3>2. rr.started \div PerSec \in Nat
      BY <3>1, SecondOfNat
    <3> QED
      BY <3>2, ConstTypes DEF Agg!w0, Agg!w1, Agg!Window, Agg!Base
  <2> DEFINE a == Agg!w0(rr)
  <2>2. a \in Int /\ a + Measure - 1 \in Int
    BY <2>1
  <2> HIDE DEF a
  <2>3. IsFiniteSet(a..(a + Measure - 1)) /\ Cardinality(a..(a + Measure - 1)) = Measure
    BY <2>1, <2>2, FS_Interval
  <2> QED
    BY <2>1, <2>3 DEF a
<1>4. W \in SUBSET Agg!Window(rr)
  BY <1>2
<1> HIDE DEF W, arr
<1>5. IsFiniteSet(W) /\ Cardinality(W) \in 0..Measure
  <2>1. IsFiniteSet(W) /\ Cardinality(W) <= Measure
    BY <1>3, <1>4, FS_Subset
  <2> QED
    BY <2>1, FS_CardinalityType
<1>6. \A t \in W : IsFiniteSet(C[t]) /\ C[t] = Came(arr, t)
  BY <1>1, CameFinite
<1>7. \A t, u \in W : t # u => C[t] \cap C[u] = {}
  BY DEF Came
<1>8. UNION {C[t] : t \in W} = Within(rr, s.rec)
  <2>1. DOMAIN arr = 1..Len(arr) /\ \A k \in DOMAIN arr : arr[k] \in Nat
    BY <1>1
  <2>2. \A k \in DOMAIN arr : arr[k] \div PerSec \in Nat
    BY <2>1, SecondOfNat
  <2>3. ASSUME NEW k \in Within(rr, s.rec) PROVE \E t \in W : k \in C[t]
    <3> DEFINE t == arr[k] \div PerSec
    <3>1. k \in DOMAIN arr /\ t \in Agg!Window(rr)
      BY <2>3 DEF Within, arr
    <3>2. k \in Came(arr, t) /\ t \in Nat
      BY <2>2, <3>1 DEF Came
    <3> HIDE DEF t
    <3>3. t \in W
      BY <1>2, <3>1, <3>2
    <3> QED
      BY <1>6, <3>2, <3>3
  <2>4. ASSUME NEW t \in W, NEW k \in C[t] PROVE k \in Within(rr, s.rec)
    <3>1. k \in Came(arr, t) /\ t \in Agg!Window(rr)
      BY <1>4, <1>6
    <3> QED
      BY <3>1 DEF Came, Within, arr
  <2> HIDE DEF C
  <2> QED
    BY <2>3, <2>4
<1>9. SumFunctionOnSet([t \in W |-> Cardinality(C[t])], W) = Cardinality(Within(rr, s.rec))
  <2> HIDE DEF C
  <2> QED
    BY <1>5, <1>6, <1>7, <1>8, SumSizes
<1>10. Counted(rr, s) = SumFunctionOnSet([t \in W |-> Cardinality(C[t])], W)
  <2> DEFINE f == [t \in W |-> s.rec.seconds[t].bytes]
             g == [t \in W |-> Cardinality(C[t])]
  <2>1. \A t \in W : f[t] = g[t]
    BY <1>2, <1>6
  <2>2. Counted(rr, s) = SumFunctionOnSet(f, W)
    BY DEF Counted, W
  <2> HIDE DEF f, g
  <2>3. SumFunctionOnSet(f, W) = SumFunctionOnSet(g, W)
    BY <1>5, <2>1, SumSame
  <2> QED
    BY <2>2, <2>3 DEF g
<1>11. Cardinality(Within(rr, s.rec)) \in Nat
  <2>1. Within(rr, s.rec) = Hits(arr, WinTimes(rr))
    BY <1>1, WithinHits DEF arr
  <2> QED
    BY <1>1, <2>1, HitsType
<1> QED
  BY <1>5, <1>9, <1>10, <1>11 DEF W

\* Run records whose recordings are in order.
Sound(rs) ==
    /\ rs \in Seq(RunRec)
    /\ \A k \in 1..Len(rs) : \A j \in 1..Len(rs[k].sessions) : RecInv(rs[k].sessions[j].rec)

\* The units of each session of run rr in its window, and those of each run.
UnitsOf(rr) == [j \in DOMAIN rr.sessions |-> Cardinality(Within(rr, rr.sessions[j].rec))]
TotalsOf(mine, rs) == [k \in mine |-> SumFunction(UnitsOf(rs[k]))]

\* What a row says of the runs it is made of.
RowTrue(r, rs) ==
    /\ r.runs = Cardinality(MineOf(r.row, rs))
    /\ r.winBytes = SumFunction(TotalsOf(MineOf(r.row, rs), rs))
    /\ r.winSeconds <= Measure * r.sessions

LEMMA RowSound ==
    ASSUME NEW row, NEW rs, Sound(rs)
    PROVE  RowTrue(Agg!Row(row, rs), rs)
<1> DEFINE mine == MineOf(row, rs)
           D == [k \in mine |-> DOMAIN rs[k].sessions]
           all == SessionsOf(row, rs)
           F == [x \in all |-> Counted(rs[x[1]], rs[x[1]].sessions[x[2]])]
           W == [x \in all |-> Cardinality(Agg!InWindow(rs[x[1]], rs[x[1]].sessions[x[2]]))]
           H == [k \in mine |-> UnitsOf(rs[k])]
           g == TotalsOf(mine, rs)
<1>1. /\ Len(rs) \in Nat /\ DOMAIN rs = 1..Len(rs)
      /\ \A k \in 1..Len(rs) : rs[k] \in RunRec /\ rs[k].sessions \in Seq(SessionRec)
  <2>1. rs \in Seq(RunRec)
    BY DEF Sound
  <2>2. \A x \in RunRec : x.sessions \in Seq(SessionRec)
    BY DEF RunRec
  <2> QED
    BY <2>1, <2>2
<1>2. IsFiniteSet(mine) /\ mine \in SUBSET (1..Len(rs))
  <2>1. mine \in SUBSET (1..Len(rs))
    BY <1>1 DEF MineOf
  <2>2. IsFiniteSet(1..Len(rs))
    BY <1>1, FS_Interval
  <2> HIDE DEF mine
  <2> QED
    BY <2>1, <2>2, FS_Subset
<1>3. ASSUME NEW k \in mine
      PROVE  /\ D[k] = 1..Len(rs[k].sessions) /\ IsFiniteSet(D[k])
             /\ \A j \in D[k] : /\ rs[k] \in RunRec /\ rs[k].sessions[j] \in SessionRec
                                /\ RecInv(rs[k].sessions[j].rec)
  <2>1. k \in 1..Len(rs) /\ rs[k].sessions \in Seq(SessionRec)
    BY <1>1, <1>2
  <2>2. D[k] = 1..Len(rs[k].sessions) /\ Len(rs[k].sessions) \in Nat
    BY <2>1
  <2>3. IsFiniteSet(1..Len(rs[k].sessions))
    BY <2>2, FS_Interval
  <2> HIDE DEF D
  <2>4. \A j \in D[k] : rs[k].sessions[j] \in SessionRec /\ RecInv(rs[k].sessions[j].rec)
    BY <2>1, <2>2 DEF Sound
  <2> QED
    BY <1>1, <2>1, <2>2, <2>3, <2>4
<1>4. all = AllPairs(mine, D)
  BY DEF SessionsOf
<1>5. ASSUME NEW k \in mine, NEW j \in D[k]
      PROVE  /\ <<k, j>> \in all
             /\ F[<<k, j>>] = H[k][j] /\ F[<<k, j>>] \in Nat
             /\ W[<<k, j>>] \in 0..Measure
  <2>1. <<k, j>> \in all
    BY <1>4 DEF AllPairs, PairsOf
  <2>2. F[<<k, j>>] = Counted(rs[k], rs[k].sessions[j])
    BY <2>1
  <2>3. W[<<k, j>>] = Cardinality(Agg!InWindow(rs[k], rs[k].sessions[j]))
    BY <2>1
  <2>4. rs[k] \in RunRec /\ rs[k].sessions[j] \in SessionRec /\ RecInv(rs[k].sessions[j].rec)
    BY <1>3
  <2>5. H[k][j] = Cardinality(Within(rs[k], rs[k].sessions[j].rec))
    BY DEF UnitsOf
  <2> HIDE DEF F, W, H, all, mine, D
  <2> QED
    BY <2>1, <2>2, <2>3, <2>4, <2>5, CountedIs
<1>6. ASSUME NEW k \in mine
      PROVE  /\ IsFiniteSet(D[k]) /\ g[k] = SumFunctionOnSet(H[k], D[k])
             /\ \A j \in D[k] : F[<<k, j>>] \in Int /\ H[k][j] = F[<<k, j>>]
  <2>1. g[k] = SumFunctionOnSet(H[k], D[k])
    BY DEF SumFunction, TotalsOf, UnitsOf
  <2> HIDE DEF D, F, H, g, mine, all
  <2>2. IsFiniteSet(D[k])
    BY <1>3
  <2>3. \A j \in D[k] : F[<<k, j>>] \in Nat /\ H[k][j] = F[<<k, j>>]
    BY <1>5
  <2> QED
    BY <2>1, <2>2, <2>3
<1>7. IsFiniteSet(all) /\ SumFunctionOnSet(F, all) = SumFunctionOnSet(g, mine)
  <2> HIDE DEF F, D, mine, all, H, g
  <2>1. /\ IsFiniteSet(mine) /\ \A k \in mine : IsFiniteSet(D[k])
        /\ \A k \in mine : g[k] = SumFunctionOnSet(H[k], D[k])
        /\ \A k \in mine : \A j \in D[k] : F[<<k, j>>] \in Int /\ H[k][j] = F[<<k, j>>]
    BY <1>2, <1>6
  <2>2. /\ IsFiniteSet(AllPairs(mine, D))
        /\ SumFunctionOnSet(F, AllPairs(mine, D)) = SumFunctionOnSet(g, mine)
    BY <2>1, SumPairs
  <2> QED
    BY <1>4, <2>2
<1>8. SumFunctionOnSet(g, mine) = SumFunction(g)
  BY DEF SumFunction, TotalsOf
<1>9. \A x \in all : W[x] \in 0..Measure
  <2>1. \A x \in all : \E k \in mine : \E j \in D[k] : x = <<k, j>>
    BY <1>4 DEF AllPairs, PairsOf
  <2> HIDE DEF W, all, mine, D
  <2> QED
    BY <1>5, <2>1
<1> DEFINE r == Agg!Row(row, rs)
<1>10. /\ r.row = row /\ r.runs = Cardinality(mine) /\ r.sessions = Cardinality(all)
       /\ r.winBytes = SumFunctionOnSet(F, all) /\ r.winSeconds = SumFunctionOnSet(W, all)
  BY RowIs
<1> HIDE DEF r, F, W, all, g, H, D
<1>11. r.winSeconds <= Measure * r.sessions
  BY <1>7, <1>9, <1>10, SumBound, ConstTypes
<1>12. r.winBytes = SumFunction(g)
  BY <1>7, <1>8, <1>10
<1>13. RowTrue(r, rs)
  BY <1>10, <1>11, <1>12 DEF RowTrue, g
<1> QED
  BY <1>13 DEF r

\* The first run of each row.
FirstsOf(rs) == {k \in DOMAIN rs : \A j \in 1..(k - 1) : rs[j].row # rs[k].row}

LEMMA AggregatedIs ==
    ASSUME NEW rs
    PROVE  Agg!Aggregated(rs) = [n \in DOMAIN Agg!InOrder(FirstsOf(rs)) |->
                                   Agg!Row(rs[Agg!InOrder(FirstsOf(rs))[n]].row, rs)]
BY DEF Agg!Aggregated, FirstsOf

\* Every run is in exactly one row, and the rows are made of the runs.
LEMMA RowsOnce ==
    ASSUME NEW rs, rs \in Seq(RunRec)
    PROVE  /\ \A k \in DOMAIN rs :
                Cardinality({n \in DOMAIN Agg!Aggregated(rs) : Agg!Aggregated(rs)[n].row = rs[k].row}) = 1
           /\ \A n \in DOMAIN Agg!Aggregated(rs) : \E row : Agg!Aggregated(rs)[n] = Agg!Row(row, rs)
<1> DEFINE S == FirstsOf(rs)
           o == Agg!InOrder(S)
           c == Cardinality(S)
           rws == Agg!Aggregated(rs)
<1>1. Len(rs) \in Nat /\ DOMAIN rs = 1..Len(rs)
  OBVIOUS
<1>2. S \in SUBSET (1..Len(rs)) /\ S \in SUBSET Nat
  BY <1>1 DEF FirstsOf
<1>3. IsFiniteSet(S)
  <2>1. IsFiniteSet(1..Len(rs))
    BY <1>1, FS_Interval
  <2> HIDE DEF S
  <2> QED
    BY <1>2, <2>1, FS_Subset
<1>4. /\ c \in Nat /\ o \in [1..c -> S]
      /\ \A x \in S : \E j \in 1..c : o[j] = x
      /\ \A j, k \in 1..c : o[j] = o[k] => j = k
  <2> HIDE DEF S
  <2>1. Lists(o, S)
    BY <1>2, <1>3, InOrderLists
  <2> HIDE DEF o
  <2> QED
    BY <1>2, <1>3, <2>1, ListFacts
<1>5. /\ DOMAIN rws = 1..c
      /\ \A n \in 1..c : rws[n] = Agg!Row(rs[o[n]].row, rs) /\ rws[n].row = rs[o[n]].row
  <2>1. DOMAIN o = 1..c
    BY <1>4
  <2>2. rws = [n \in DOMAIN o |-> Agg!Row(rs[o[n]].row, rs)]
    BY AggregatedIs
  <2> HIDE DEF rws, o, c
  <2>3. DOMAIN rws = 1..c /\ \A n \in 1..c : rws[n] = Agg!Row(rs[o[n]].row, rs)
    BY <2>1, <2>2
  <2>4. \A n \in 1..c : Agg!Row(rs[o[n]].row, rs).row = rs[o[n]].row
    BY RowIs
  <2> QED
    BY <2>3, <2>4
<1> HIDE DEF rws, o, c
<1>6. ASSUME NEW j \in S, NEW k \in S, rs[j].row = rs[k].row PROVE j = k
  <2>1. j \in Nat /\ k \in Nat /\ j >= 1 /\ k >= 1
    BY <1>2
  <2>2. ~(j < k) /\ ~(k < j)
    BY <1>6, <2>1 DEF FirstsOf
  <2> QED
    BY <2>1, <2>2
<1>7. ASSUME NEW k \in DOMAIN rs PROVE \E f \in S : rs[f].row = rs[k].row
  <2> DEFINE T == {m \in 1..Len(rs) : rs[m].row = rs[k].row}
  <2>1. T \in SUBSET Nat /\ k \in T
    BY <1>1
  <2>2. PICK f \in T : \A m \in T : f <= m
    <3> HIDE DEF T
    <3> QED
      BY <2>1, Smallest
  <2>3. \A j \in 1..(f - 1) : rs[j].row # rs[f].row
    <3> SUFFICES ASSUME NEW j \in 1..(f - 1), rs[j].row = rs[f].row PROVE FALSE
      OBVIOUS
    <3>1. j \in T
      BY <1>1
    <3> QED
      BY <2>2, <3>1
  <2>4. f \in S
    BY <1>1, <2>3 DEF FirstsOf
  <2> QED
    BY <2>4
<1>8. ASSUME NEW k \in DOMAIN rs
      PROVE  Cardinality({n \in DOMAIN rws : rws[n].row = rs[k].row}) = 1
  <2>1. PICK f \in S : rs[f].row = rs[k].row
    BY <1>7
  <2>2. PICK a \in 1..c : o[a] = f
    BY <1>4
  <2> HIDE DEF S
  <2>3. \A n \in 1..c : rws[n].row = rs[k].row => n = a
    <3> SUFFICES ASSUME NEW n \in 1..c, rws[n].row = rs[k].row PROVE n = a
      OBVIOUS
    <3>1. rs[o[n]].row = rs[f].row /\ o[n] \in S
      BY <1>4, <1>5, <2>1
    <3>2. o[n] = f
      BY <1>6, <3>1
    <3> QED
      BY <1>4, <2>2, <3>2
  <2>4. rws[a].row = rs[k].row
    BY <1>5, <2>1, <2>2
  <2>5. {n \in DOMAIN rws : rws[n].row = rs[k].row} = {a}
    BY <1>5, <2>3, <2>4
  <2> QED
    BY <2>5, FS_Singleton
<1>9. \A n \in DOMAIN rws : \E row : rws[n] = Agg!Row(row, rs)
  BY <1>5
<1> QED
  BY <1>8, <1>9 DEF rws

\* Where every recording is in order, so is the summary.
LEMMA SummarySound ==
    ASSUME NEW rs, Sound(rs)
    PROVE  LET rws == Agg!Aggregated(rs) IN
           /\ \A k \in DOMAIN rs : Cardinality({n \in DOMAIN rws : rws[n].row = rs[k].row}) = 1
           /\ \A n \in DOMAIN rws : RowTrue(rws[n], rs)
<1>1. rs \in Seq(RunRec)
  BY DEF Sound
<1> DEFINE rws == Agg!Aggregated(rs)
<1>2. /\ \A k \in DOMAIN rs : Cardinality({n \in DOMAIN rws : rws[n].row = rs[k].row}) = 1
      /\ \A n \in DOMAIN rws : \E row : rws[n] = Agg!Row(row, rs)
  BY <1>1, RowsOnce
<1> HIDE DEF rws
<1>3. \A n \in DOMAIN rws : RowTrue(rws[n], rs)
  BY <1>2, RowSound
<1> QED
  BY <1>2, <1>3 DEF rws

-----------------------------------------------------------------------------
(* What is collected, and what is written.                                   *)

\* What becomes of the sessions collected so far, and of the summary.
LEMMA GotGoes ==
    ASSUME CoreInv, [Next]_vars
    PROVE  \/ Collect /\ ctl'.pc # "done"
           \/ WriteSummary /\ ctl'.got = ctl.got
           \/ ctl' = ctl /\ runs' = runs /\ rows' = rows
           \/ ctl'.got \in {ctl.got, <<>>} /\ ctl'.pc # "done"
<1> DEFINE Goal == ctl'.got \in {ctl.got, <<>>} /\ ctl'.pc # "done"
<1>0. RunFails => Goal
  BY FailGoes DEF Goes
<1>1. StartCell => Goal
  <2> SUFFICES ASSUME StartCell PROVE Goal
    OBVIOUS
  <2>1. \/ ctl' = [ctl EXCEPT !.pc = "apply", !.cell = @ + 1, !.i = 1, !.ev = 1, !.got = <<>>]
        \/ ctl' = [ctl EXCEPT !.pc = "gone"]
    BY DEF StartCell
  <2> QED
    BY <2>1 DEF CoreInv, TypeInv, CtlType
<1>2. WriteSummary => ctl'.got = ctl.got
  BY DEF WriteSummary, LastCell, CoreInv, TypeInv, CtlType
<1>3. Tick \/ Cancel \/ UNCHANGED vars => ctl' = ctl /\ runs' = runs /\ rows' = rows
  BY DEF Tick, Cancel, vars
<1>4. ASSUME NEW t \in Targets, TargetRestarts(t) \/ MediaRead(t) \/ MediaRecord(t)
      PROVE  ctl' = ctl /\ runs' = runs /\ rows' = rows
  <2>1. CASE TargetRestarts(t)
    BY <2>1 DEF TargetRestarts
  <2>2. CASE MediaRead(t)
    BY <2>2 DEF MediaRead
  <2>3. CASE MediaRecord(t)
    BY <2>3 DEF MediaRecord
  <2> QED
    BY <1>4, <2>1, <2>2, <2>3
<1>5. PostProfile => Goal
  BY <1>0, ProfileGoes DEF Goes, Stay
<1>6. PostRestart => Goal
  BY <1>0, RestartGoes DEF Goes, Stay
<1>7. PostEvent => Goal
  BY EventGoes DEF Goes, Stay
<1>8. Schedule \/ Wake => Goal
  BY <1>0, WaitGoes DEF Goes
<1>9. PostClear => Goal
  BY <1>0, ClearGoes DEF Goes, Stay
<1>10. Collect => ctl'.pc # "done"
  BY CollectGoes DEF Goes
<1>11. Viewed \subseteq Targets
  BY ExperimentAssumption
<1> HIDE DEF Goal
<1>12. \/ Collect /\ ctl'.pc # "done"
       \/ WriteSummary /\ ctl'.got = ctl.got
       \/ ctl' = ctl /\ runs' = runs /\ rows' = rows
       \/ Goal
  BY <1>1, <1>2, <1>3, <1>4, <1>5, <1>6, <1>7, <1>8, <1>9, <1>10, <1>11 DEF Next, Runs
<1> QED
  BY <1>12 DEF Goal

\* Sessions whose recordings are in order.
InRecord(g) == \A j \in 1..Len(g) : RecInv(g[j].rec)

GotInv == InRecord(ctl.got) /\ \A k \in 1..Len(runs) : InRecord(runs[k].sessions)

RowsInv == ctl.pc = "done" => rows = Agg!Aggregated(runs)

LEMMA GotStep == CoreInv /\ StallInv /\ GotInv /\ [Next]_vars => GotInv'
<1> SUFFICES ASSUME CoreInv, StallInv, GotInv, [Next]_vars PROVE GotInv'
  OBVIOUS
<1>1. InRecord(ctl'.got)
  <2>1. InRecord(<<>>) /\ InRecord(ctl.got)
    BY DEF InRecord, GotInv
  <2>2. CASE Collect
    <3>1. PICK g : ctl'.got = g /\ (g = ctl.got \o Results(Target) \/ g = ctl.got)
      BY <2>2, CollectGoes DEF Goes
    <3>2. ctl.pc \in InHand /\ ctl.got \in Seq(SessionRec)
      BY <2>2, CollectGoes DEF InHand, CoreInv, TypeInv, CtlType
    <3>3. Target \in Targets /\ ctl.cell \in RunIds
      BY <3>2, InHandFacts
    <3> DEFINE rs == Results(Target)
    <3>4. rs \in Seq(SessionRec)
      BY <3>3, ResultsType DEF CoreInv
    <3>5. \A j \in 1..Len(rs) : RecInv(rs[j].rec)
      <4>1. CASE store[Target][ctl.cell] = NoRec
        BY <4>1 DEF Results
      <4>2. CASE store[Target][ctl.cell] # NoRec
        <5>1. RecInv(store[Target][ctl.cell])
          BY <3>3, <4>2 DEF StallInv
        <5>2. Len(rs) = 1 /\ rs[1].rec = store[Target][ctl.cell]
          BY <4>2 DEF Results
        <5> HIDE DEF rs
        <5> QED
          BY <5>1, <5>2
      <4> QED
        BY <4>1, <4>2
    <3> HIDE DEF rs
    <3>6. CASE g = ctl.got
      BY <2>1, <3>1, <3>6
    <3>7. CASE g = ctl.got \o rs
      <4>1. /\ Len(g) = Len(ctl.got) + Len(rs)
            /\ \A n \in 1..Len(g) : g[n] = IF n <= Len(ctl.got) THEN ctl.got[n] ELSE rs[n - Len(ctl.got)]
        BY <3>2, <3>4, <3>7, ConcatProperties
      <4>2. Len(ctl.got) \in Nat /\ Len(rs) \in Nat
        BY <3>2, <3>4
      <4>3. ASSUME NEW j \in 1..Len(g) PROVE RecInv(g[j].rec)
        <5>1. CASE j <= Len(ctl.got)
          <6>1. g[j] = ctl.got[j] /\ j \in 1..Len(ctl.got)
            BY <4>1, <4>2, <5>1
          <6> QED
            BY <2>1, <6>1 DEF InRecord
        <5>2. CASE ~(j <= Len(ctl.got))
          <6>1. g[j] = rs[j - Len(ctl.got)] /\ j - Len(ctl.got) \in 1..Len(rs)
            BY <4>1, <4>2, <5>2
          <6> QED
            BY <3>5, <6>1
        <5> QED
          BY <5>1, <5>2
      <4> QED
        BY <3>1, <4>3 DEF InRecord
    <3> QED
      BY <3>1, <3>6, <3>7 DEF rs
  <2>3. ctl'.got \in {ctl.got, <<>>} => InRecord(ctl'.got)
    BY <2>1
  <2> QED
    BY <2>2, <2>3, GotGoes
<1>2. ASSUME NEW k \in 1..Len(runs') PROVE InRecord(runs'[k].sessions)
  <2>1. CASE runs' = runs
    BY <1>2, <2>1 DEF GotInv
  <2>2. CASE runs' = Append(runs, RunRecord)
    <3>1. runs \in Seq(RunRec) /\ Len(runs) \in Nat
      BY DEF CoreInv, TypeInv, RestType
    <3> DEFINE x == RunRecord
    <3>2. x.sessions = ctl.got
      BY DEF RunRecord
    <3> HIDE DEF x
    <3>3. /\ Len(runs') = Len(runs) + 1 /\ runs'[Len(runs) + 1] = x
          /\ \A j \in 1..Len(runs) : runs'[j] = runs[j]
      BY <2>2, <3>1 DEF x
    <3>4. k = Len(runs) + 1 \/ k \in 1..Len(runs)
      BY <3>1, <3>3
    <3> QED
      BY <3>2, <3>3, <3>4 DEF GotInv
  <2> QED
    BY <2>1, <2>2, RunsGoes
<1> QED
  BY <1>1, <1>2 DEF GotInv, InRecord

LEMMA RowsStep == CoreInv /\ RowsInv /\ [Next]_vars => RowsInv'
<1> SUFFICES ASSUME CoreInv, RowsInv, [Next]_vars, ctl'.pc = "done"
             PROVE  rows' = Agg!Aggregated(runs')
  BY DEF RowsInv, Agg!Aggregated
<1>1. CASE WriteSummary
  BY <1>1 DEF WriteSummary
<1>2. CASE ctl' = ctl /\ runs' = runs /\ rows' = rows
  BY <1>2 DEF RowsInv
<1> QED
  BY <1>1, <1>2, GotGoes

LEMMA SummaryStart == Init => WinInv /\ GotInv /\ RowsInv
BY DEF Init, WinInv, GotInv, RowsInv, InRecord

LEMMA WinAlways == Spec => []WinInv
<1>1. WinInv /\ CoreInv /\ [Next]_vars => WinInv'
  BY WinStep
<1>2. Init => WinInv
  BY SummaryStart
<1> QED
  BY <1>1, <1>2, CoreAlways, PTL DEF Spec

LEMMA GotAlways == Spec => [](GotInv /\ RowsInv)
<1>1. GotInv /\ RowsInv /\ StallInv /\ CoreInv /\ [Next]_vars => (GotInv /\ RowsInv)'
  BY GotStep, RowsStep
<1>2. Init => GotInv /\ RowsInv
  BY SummaryStart
<1> QED
  BY <1>1, <1>2, CoreAlways, StallAlways, PTL DEF Spec

\* The summary (aggregate.go:34): every run that succeeded is in exactly one
\* row, a row counts the units its sessions received in the measure windows of
\* their runs, and what a recorder has of the window later had been read when
\* the run was collected.
THEOREM RowsWhole == Spec => []RowsAreWhole
<1>1. CoreInv /\ WinInv /\ GotInv /\ RowsInv => RowsAreWhole
  <2> SUFFICES ASSUME CoreInv, WinInv, GotInv, RowsInv, ctl.pc = "done" PROVE RowsAreWhole
    BY DEF RowsAreWhole
  <2>1. runs \in Seq(RunRec) /\ DOMAIN runs = 1..Len(runs) /\ rows = Agg!Aggregated(runs)
    BY DEF CoreInv, TypeInv, RestType, RowsInv
  <2>2. Sound(runs)
    BY <2>1 DEF Sound, GotInv, InRecord
  <2>3. /\ \A k \in DOMAIN runs : Cardinality({n \in DOMAIN rows : rows[n].row = runs[k].row}) = 1
        /\ \A n \in DOMAIN rows : RowTrue(rows[n], runs)
    BY <2>1, <2>2, SummarySound
  <2>4. ASSUME NEW n \in DOMAIN rows
        PROVE  LET mine == {k \in DOMAIN runs : runs[k].row = rows[n].row} IN
               /\ rows[n].runs = Cardinality(mine)
               /\ rows[n].winBytes =
                    SumFunction([k \in mine |->
                      SumFunction([j \in DOMAIN runs[k].sessions |->
                        Cardinality(Within(runs[k], runs[k].sessions[j].rec))])])
               /\ rows[n].winSeconds <= Measure * rows[n].sessions
    <3>1. RowTrue(rows[n], runs)
      BY <2>3
    <3> QED
      BY <3>1 DEF RowTrue, MineOf, TotalsOf, UnitsOf
  <2>5. ASSUME NEW k \in DOMAIN runs, NEW j \in DOMAIN runs[k].sessions,
               store[runs[k].sessions[j].t][runs[k].cell] # NoRec
        PROVE  Cardinality(Within(runs[k], store[runs[k].sessions[j].t][runs[k].cell]))
                 <= Cardinality(Within(runs[k], runs[k].sessions[j].rec)) + runs[k].sessions[j].late
    <3> DEFINE rr == runs[k]
               s == rr.sessions[j]
               r == store[s.t][rr.cell]
    <3>1. k \in 1..Len(runs) /\ rr \in RunRec
      BY <2>1
    <3>2. rr.sessions \in Seq(SessionRec) /\ rr.cell \in RunIds
      BY <3>1 DEF RunRec, RunIds
    <3>3. j \in 1..Len(rr.sessions) /\ s \in SessionRec
      BY <3>2
    <3>4. SessInv(rr, s)
      BY <3>1, <3>3 DEF WinInv, Complete
    <3>5. r \in Recording /\ s.rec \in Recording /\ s.late \in Nat /\ s.t \in Targets
      <4>1. s.t \in Targets /\ s.rec \in Recording /\ s.late \in Nat
        BY <3>3 DEF SessionRec
      <4> QED
        BY <2>5, <3>2, <4>1 DEF CoreInv, TypeInv, WorldType
    <3>6. pending[s.t] \in Seq(Unit) /\ r.arr \in Seq(Nat \ {0}) /\ s.rec.arr \in Seq(Nat \ {0})
      BY <3>5 DEF CoreInv, TypeInv, WorldType, Recording
    <3> HIDE DEF rr, s, r
    <3>7. /\ Within(rr, r) = Hits(r.arr, WinTimes(rr))
          /\ Within(rr, s.rec) = Hits(s.rec.arr, WinTimes(rr))
      BY <3>5, WithinHits
    <3>8. /\ Cardinality(Hits(r.arr, WinTimes(rr))) \in Nat
          /\ Cardinality(Hits(s.rec.arr, WinTimes(rr))) \in Nat
          /\ Cardinality(Hits(pending[s.t], WinUnits(rr))) \in Nat
      BY <3>6, HitsType
    <3>9. r # NoRec =>
            Cardinality(Hits(r.arr, WinTimes(rr))) + Cardinality(Hits(pending[s.t], WinUnits(rr)))
              <= Cardinality(Hits(s.rec.arr, WinTimes(rr))) + s.late
      BY <3>4 DEF SessInv, r
    <3>10. r # NoRec
      BY <3>5, NoRecIsNone
    <3>11. Cardinality(Within(rr, r)) <= Cardinality(Within(rr, s.rec)) + s.late
      BY <3>5, <3>7, <3>8, <3>9, <3>10
    <3> QED
      BY <3>11 DEF rr, s, r
  <2> QED
    BY <2>3, <2>4, <2>5 DEF RowsAreWhole
<1> QED
  BY <1>1, CoreAlways, WinAlways, GotAlways, PTL

-----------------------------------------------------------------------------
(* The windows of loss: the fold over the timeline.                          *)

\* What impairmentWindows has before the first event, and one event more: g
\* is the fold over each set of places in the timeline tl of run rr.
NoWindows == [openAt |-> -1, out |-> <<>>]

FoldStep(g, rr, tl, s) ==
    IF s = {} THEN NoWindows
    ELSE Agg!WindowStep(Agg!Base(rr), g[s \ {Agg!Max(s)}], tl[Agg!Max(s)])

Folds(g, rr, tl, S) == g = [s \in SUBSET S |-> FoldStep(g, rr, tl, s)]

LEMMA Greatest ==
    ASSUME NEW n \in Nat, NEW s \in SUBSET (1..n), s # {}
    PROVE  /\ Agg!Max(s) \in s
           /\ \A y \in s : Agg!Max(s) >= y
<1> DEFINE T == {m \in Nat : \A y \in s : y <= m}
<1>1. n \in T /\ T \in SUBSET Nat
  OBVIOUS
<1>2. PICK m \in T : \A k \in T : m <= k
  <2> HIDE DEF T
  <2> QED
    BY <1>1, Smallest
<1>3. m \in s
  <2> SUFFICES ASSUME m \notin s PROVE FALSE
    OBVIOUS
  <2>1. \A y \in s : y \in Nat /\ y >= 1 /\ y <= m /\ y # m
    BY <1>2
  <2>0. PICK z \in s : TRUE
    OBVIOUS
  <2>2. m - 1 \in Nat
    BY <2>0, <2>1
  <2>3. \A y \in s : y <= m - 1
    BY <2>1
  <2>4. m - 1 \in T
    BY <2>2, <2>3
  <2> QED
    BY <1>2, <2>2, <2>4
<1>4. \E x \in s : \A y \in s : x >= y
  BY <1>2, <1>3
<1> QED
  BY <1>4 DEF Agg!Max

\* The recursion has a solution: one for the sets with n + 1 places comes from
\* one for those with n.
LEMMA FoldExists ==
    ASSUME NEW rr, NEW tl, NEW N \in Nat
    PROVE  \E g : Folds(g, rr, tl, 1..N)
<1> DEFINE S == 1..N
           L(n) == {s \in SUBSET S : Cardinality(s) <= n}
           Has(n) == \E g : g = [s \in L(n) |-> FoldStep(g, rr, tl, s)]
           Bad == {n \in Nat : ~Has(n)}
<1>0. IsFiniteSet(S)
  BY FS_Interval
<1>a. \A s \in SUBSET S : s # {} => Agg!Max(s) \in s
  BY Greatest
<1> HIDE DEF S
<1>1. \A s \in SUBSET S : IsFiniteSet(s) /\ Cardinality(s) \in Nat
  BY <1>0, FS_Subset, FS_CardinalityType
<1>2. Has(0)
  <2> DEFINE g == [s \in L(0) |-> NoWindows]
  <2>1. \A s \in L(0) : s = {}
    BY <1>1, FS_EmptySet
  <2>2. g = [s \in L(0) |-> FoldStep(g, rr, tl, s)]
    BY <2>1 DEF FoldStep
  <2> QED
    BY <2>2
<1>3. ASSUME NEW n \in Nat, Has(n)
      PROVE  Has(n + 1)
  <2>1. PICK g : g = [s \in L(n) |-> FoldStep(g, rr, tl, s)]
    BY <1>3
  <2> DEFINE h == [s \in L(n + 1) |-> FoldStep(g, rr, tl, s)]
  <2>2. ASSUME NEW s \in L(n)
        PROVE  s \in L(n + 1) /\ h[s] = g[s]
    <3>1. Cardinality(s) \in Nat
      BY <1>1
    <3>2. s \in L(n + 1)
      BY <3>1, <1>3
    <3>3. g[s] = FoldStep(g, rr, tl, s)
      BY <2>1
    <3> QED
      BY <3>2, <3>3
  <2>3. ASSUME NEW s \in L(n + 1)
        PROVE  FoldStep(g, rr, tl, s) = FoldStep(h, rr, tl, s)
    <3>1. CASE s = {}
      BY <3>1 DEF FoldStep
    <3>2. CASE s # {}
      <4> DEFINE x == Agg!Max(s)
      <4>1. x \in s
        BY <1>a, <3>2
      <4> HIDE DEF x
      <4>2. s \ {x} \in L(n)
        <5>1. IsFiniteSet(s) /\ Cardinality(s) \in Nat
          BY <1>1
        <5>2. Cardinality(s \ {x}) = Cardinality(s) - 1
          BY <5>1, <4>1, FS_RemoveElement
        <5> QED
          BY <5>1, <5>2, <1>3
      <4>3. h[s \ {x}] = g[s \ {x}]
        BY <4>2, <2>2
      <4> HIDE DEF h
      <4> QED
        BY <3>2, <4>3 DEF FoldStep, x
    <3> QED
      BY <3>1, <3>2
  <2>4. h = [s \in L(n + 1) |-> FoldStep(h, rr, tl, s)]
    BY <2>3
  <2> QED
    BY <2>4
<1>4. Bad = {}
  <2> SUFFICES ASSUME Bad # {} PROVE FALSE
    OBVIOUS
  <2> HIDE DEF Has
  <2>1. PICK n \in Bad : \A m \in Bad : n <= m
    BY Smallest
  <2>2. n # 0
    BY <1>2
  <2>3. n - 1 \in Nat /\ n - 1 \notin Bad
    BY <2>1, <2>2
  <2>4. Has(n - 1 + 1)
    BY <2>3, <1>3
  <2> QED
    BY <2>1, <2>4
<1>5. Has(Cardinality(S))
  <2>1. Cardinality(S) \in Nat
    BY <1>0, FS_CardinalityType
  <2> HIDE DEF Has
  <2> QED
    BY <2>1, <1>4
<1>6. L(Cardinality(S)) = SUBSET S
  BY <1>0, FS_Subset
<1> QED
  BY <1>5, <1>6 DEF Folds, S

\* What has been made of the first i events is made of what the first i - 1
\* gave, and of the i-th.
LEMMA FoldUnrolls ==
    ASSUME NEW rr, NEW N \in Nat, N = Len(rr.profile.timeline),
           DOMAIN rr.profile.timeline = 1..N
    PROVE  \E A : /\ A[0] = NoWindows
                  /\ \A i \in 1..N : A[i] = Agg!WindowStep(Agg!Base(rr), A[i - 1], rr.profile.timeline[i])
                  /\ Agg!impairmentWindows(rr) = A[N].out
<1> DEFINE tl == rr.profile.timeline
           S == 1..N
           G == CHOOSE g : g = [s \in SUBSET S |-> FoldStep(g, rr, tl, s)]
<1>1. G = [s \in SUBSET S |-> FoldStep(G, rr, tl, s)]
  BY FoldExists DEF Folds
<1>2. Agg!impairmentWindows(rr) = G[S].out
  BY DEF Agg!impairmentWindows, Agg!FoldLeft, Agg!MapThenFoldSet, FoldStep, NoWindows
<1> HIDE DEF G
<1> DEFINE A == [i \in 0..N |-> G[1..i]]
<1>3. A[0] = NoWindows
  <2>1. 1..0 = {}
    OBVIOUS
  <2>2. G[{}] = NoWindows
    BY <1>1 DEF FoldStep
  <2> QED
    BY <2>1, <2>2
<1>4. ASSUME NEW i \in 1..N
      PROVE  A[i] = Agg!WindowStep(Agg!Base(rr), A[i - 1], tl[i])
  <2>1. 1..i \in SUBSET (1..N) /\ i \in 1..i
    OBVIOUS
  <2> DEFINE m == Agg!Max(1..i)
  <2>2. m \in 1..i /\ m >= i
    BY <2>1, Greatest
  <2>3. m = i
    BY <2>2
  <2>4. (1..i) \ {i} = 1..(i - 1) /\ 1..i # {}
    OBVIOUS
  <2>5. G[1..i] = FoldStep(G, rr, tl, 1..i)
    BY <1>1, <2>1
  <2>6. G[1..i] = Agg!WindowStep(Agg!Base(rr), G[1..(i - 1)], tl[i])
    BY <2>3, <2>4, <2>5 DEF FoldStep
  <2>7. A[i] = G[1..i] /\ A[i - 1] = G[1..(i - 1)]
    OBVIOUS
  <2> HIDE DEF A
  <2> QED
    BY <2>6, <2>7
<1>5. A[N] = G[S]
  OBVIOUS
<1> HIDE DEF A
<1> QED
  BY <1>2, <1>3, <1>4, <1>5

\* A set of numbers is listed in one way only.
LEMMA ListUnique ==
    ASSUME NEW S \in SUBSET Nat, IsFiniteSet(S), NEW s, Lists(s, S), NEW t, Lists(t, S)
    PROVE  s = t
<1> DEFINE c == Cardinality(S)
           Bad == {j \in 1..c : s[j] # t[j]}
<1>1. /\ c \in Nat /\ s \in [1..c -> S] /\ t \in [1..c -> S]
      /\ \A x \in S : (\E j \in 1..c : s[j] = x) /\ \E j \in 1..c : t[j] = x
  BY ListFacts
<1>2. /\ \A j, k \in 1..c : j < k => s[j] < s[k]
      /\ \A j, k \in 1..c : j < k => t[j] < t[k]
  BY DEF Lists
<1> HIDE DEF c
<1>3. Bad = {}
  <2> SUFFICES ASSUME Bad # {} PROVE FALSE
    OBVIOUS
  <2>1. Bad \in SUBSET Nat
    BY <1>1
  <2>2. PICK j \in Bad : \A k \in Bad : j <= k
    <3> HIDE DEF Bad
    <3> QED
      BY <2>1, Smallest
  <2>3. /\ j \in 1..c /\ s[j] # t[j] /\ s[j] \in S /\ t[j] \in S /\ s[j] \in Nat /\ t[j] \in Nat
        /\ \A k \in 1..c : k < j => s[k] = t[k]
    <3>1. j \in 1..c /\ s[j] # t[j]
      OBVIOUS
    <3>2. \A k \in 1..c : k < j => k \notin Bad
      BY <1>1, <2>1, <2>2
    <3> QED
      BY <1>1, <3>1, <3>2
  <2> HIDE DEF Bad
  <2>4. CASE s[j] < t[j]
    <3>1. PICK i \in 1..c : t[i] = s[j]
      BY <1>1, <2>3
    <3>2. ~(j < i) /\ i # j
      <4>1. j < i => t[j] < t[i]
        BY <1>2, <2>3
      <4> QED
        BY <2>3, <2>4, <3>1, <4>1
    <3>3. i < j
      BY <1>1, <2>3, <3>2
    <3>4. s[i] = t[i] /\ s[i] < s[j]
      BY <1>2, <2>3, <3>3
    <3> QED
      BY <2>3, <3>1, <3>4
  <2>5. CASE t[j] < s[j]
    <3>1. PICK i \in 1..c : s[i] = t[j]
      BY <1>1, <2>3
    <3>2. ~(j < i) /\ i # j
      <4>1. j < i => s[j] < s[i]
        BY <1>2, <2>3
      <4> QED
        BY <2>3, <2>5, <3>1, <4>1
    <3>3. i < j
      BY <1>1, <2>3, <3>2
    <3>4. s[i] = t[i] /\ t[i] < t[j]
      BY <1>2, <2>3, <3>3
    <3> QED
      BY <2>3, <3>1, <3>4
  <2> QED
    BY <2>3, <2>4, <2>5
<1>4. \A j \in 1..c : s[j] = t[j]
  BY <1>3
<1> QED
  BY <1>1, <1>4

\* A number after all others comes last.
Below(S, x) == S \in SUBSET Nat /\ x \in Nat /\ \A y \in S : y < x

Extends(t, s, S, x) == t[Cardinality(S) + 1] = x /\ \A j \in 1..Cardinality(S) : t[j] = s[j]

LEMMA ListAppend ==
    ASSUME NEW S, IsFiniteSet(S), NEW s, Lists(s, S), NEW x, Below(S, x), NEW T, T = S \cup {x}
    PROVE  /\ IsFiniteSet(T) /\ Cardinality(T) = Cardinality(S) + 1
           /\ Cardinality(S) \in Nat
           /\ \E t : Lists(t, T) /\ Extends(t, s, S, x)
<1>0. S \in SUBSET Nat /\ x \in Nat /\ \A y \in S : y < x
  BY DEF Below
<1> DEFINE c == Cardinality(S)
<1>1. c \in Nat /\ s \in [1..c -> S] /\ \A j, k \in 1..c : j < k => s[j] < s[k]
  BY <1>0, ListFacts DEF Lists
<1>2. x \notin S
  BY <1>0
<1>3. IsFiniteSet(T) /\ Cardinality(T) = c + 1
  BY <1>2, FS_AddElement
<1> HIDE DEF c
<1> DEFINE t == [j \in 1..(c + 1) |-> IF j <= c THEN s[j] ELSE x]
<1>4. t \in [1..(c + 1) -> T] /\ t[c + 1] = x /\ \A j \in 1..c : t[j] = s[j]
  BY <1>1
<1>5. ASSUME NEW j \in 1..(c + 1), NEW k \in 1..(c + 1), j < k PROVE t[j] < t[k]
  <2> HIDE DEF t
  <2>1. j \in 1..c /\ (k \in 1..c \/ k = c + 1)
    BY <1>1, <1>5
  <2>2. t[j] = s[j] /\ s[j] \in S
    BY <1>1, <1>4, <2>1
  <2>3. CASE k \in 1..c
    BY <1>0, <1>1, <1>4, <1>5, <2>1, <2>2, <2>3
  <2>4. CASE k = c + 1
    BY <1>0, <1>4, <2>2, <2>4
  <2> QED
    BY <2>1, <2>3, <2>4
<1> HIDE DEF t
<1>6. Lists(t, T)
  BY <1>3, <1>4, <1>5 DEF Lists
<1> QED
  BY <1>1, <1>3, <1>4, <1>6 DEF c, Extends

\* With L the places at which there is loss: those at which it comes on, the
\* later ones up to n without it, and those at which loss that has ended by n
\* came on.
Ons(L) == {k \in L : k - 1 \notin L}
Offs(L, k, n) == {j \in 1..n : j > k /\ j \notin L}
Ended(L, n) == {k \in Ons(L) : Offs(L, k, n) # {}}

\* sec is the second of each place.  What the fold has at n: the windows that
\* have ended, in their order, and the one that is open.
Windowed(acc, L, sec, n) ==
    /\ acc \in [openAt : Int, out : Seq(Nat \X Nat)]
    /\ n \notin L => acc.openAt = -1
    /\ n \in L => \E k \in Ons(L) : k <= n /\ acc.openAt = sec[k] /\ \A j \in k..n : j \in L
    /\ Len(acc.out) = Cardinality(Ended(L, n))
    /\ \E s : /\ Lists(s, Ended(L, n))
              /\ \A m \in 1..Cardinality(Ended(L, n)) :
                   acc.out[m] = <<sec[s[m]], sec[Min(Offs(L, s[m], n))]>>

\* The least place without loss after k is the same whatever comes later.
LEMMA OffsLeast ==
    ASSUME NEW L, NEW k \in Nat, NEW n \in Nat, Offs(L, k, n) # {}
    PROVE  /\ Min(Offs(L, k, n)) \in Offs(L, k, n)
           /\ Min(Offs(L, k, n + 1)) = Min(Offs(L, k, n))
<1>1. Offs(L, k, n) \in SUBSET Nat /\ Offs(L, k, n + 1) \in SUBSET Nat
  BY DEF Offs
<1>2. PICK x \in Offs(L, k, n) : \A y \in Offs(L, k, n) : x <= y
  BY <1>1, Smallest
<1>3. Min(Offs(L, k, n)) = x
  BY <1>1, <1>2, MinIs
<1>4. x \in Offs(L, k, n + 1) /\ \A y \in Offs(L, k, n + 1) : x <= y
  <2>1. x \in Offs(L, k, n + 1) /\ x <= n /\ x \in Nat
    BY DEF Offs
  <2>2. ASSUME NEW y \in Offs(L, k, n + 1) PROVE x <= y
    <3>1. y \in Nat /\ (y \in Offs(L, k, n) \/ y = n + 1)
      BY DEF Offs
    <3> QED
      BY <1>2, <2>1, <3>1
  <2> QED
    BY <2>1, <2>2
<1>5. Min(Offs(L, k, n + 1)) = x
  BY <1>1, <1>4, MinIs
<1> QED
  BY <1>3, <1>5

\* The places of loss that has ended.
LEMMA EndedType ==
    ASSUME NEW L \in SUBSET (Nat \ {0}), NEW n \in Nat
    PROVE  /\ Ended(L, n) \in SUBSET (1..n) /\ Ended(L, n) \in SUBSET Nat
           /\ IsFiniteSet(Ended(L, n)) /\ Cardinality(Ended(L, n)) \in Nat
<1>1. Ended(L, n) \in SUBSET (1..n) /\ Ended(L, n) \in SUBSET Nat
  <2>1. ASSUME NEW k \in Ended(L, n) PROVE k \in 1..n /\ k \in Nat
    <3>1. k \in Nat \ {0} /\ \E j \in 1..n : j > k
      BY DEF Ended, Ons, Offs
    <3> QED
      BY <3>1
  <2> QED
    BY <2>1
<1>2. IsFiniteSet(1..n)
  BY FS_Interval
<1> QED
  BY <1>1, <1>2, FS_Subset, FS_CardinalityType

\* What one place more makes of them: nothing, unless loss ends there.
LEMMA EndedNext ==
    ASSUME NEW L \in SUBSET (Nat \ {0}), 1 \notin L, NEW n \in Nat \ {0}
    PROVE  /\ n + 1 \in L \/ n \notin L => Ended(L, n + 1) = Ended(L, n)
           /\ \A k \in Ons(L) :
                n + 1 \notin L /\ k <= n /\ (\A j \in k..n : j \in L) =>
                  /\ Ended(L, n + 1) = Ended(L, n) \cup {k}
                  /\ \A x \in Ended(L, n) : x < k
                  /\ Min(Offs(L, k, n + 1)) = n + 1
<1>1. \A k : Offs(L, k, n + 1) = Offs(L, k, n) \cup {j \in {n + 1} : j > k /\ j \notin L}
  <2> SUFFICES ASSUME NEW k PROVE Offs(L, k, n + 1) = Offs(L, k, n) \cup {j \in {n + 1} : j > k /\ j \notin L}
    OBVIOUS
  <2>1. 1..(n + 1) = (1..n) \cup {n + 1}
    OBVIOUS
  <2> QED
    BY <2>1 DEF Offs
<1>2. Ended(L, n) \subseteq Ended(L, n + 1)
  BY <1>1 DEF Ended
<1>3. ASSUME NEW x \in Ended(L, n + 1), x \notin Ended(L, n)
      PROVE  x \in Ons(L) /\ x \in Nat /\ x <= n /\ n + 1 \notin L /\ \A j \in x..n : j \in L
  <2>1. x \in Ons(L) /\ Offs(L, x, n) = {} /\ x \in Nat \ {0} /\ x \in L
    BY <1>3 DEF Ended, Ons
  <2>2. n + 1 > x /\ n + 1 \notin L
    BY <1>1, <1>3, <2>1 DEF Ended
  <2>3. ASSUME NEW j \in x..n PROVE j \in L
    <3>1. j = x \/ (j \in 1..n /\ j > x)
      BY <2>1
    <3> QED
      BY <2>1, <3>1 DEF Offs
  <2> QED
    BY <2>1, <2>2, <2>3
<1>4. ASSUME n + 1 \in L \/ n \notin L PROVE Ended(L, n + 1) = Ended(L, n)
  <2>1. ASSUME NEW x \in Ended(L, n + 1) PROVE x \in Ended(L, n)
    <3> SUFFICES ASSUME x \notin Ended(L, n) PROVE FALSE
      OBVIOUS
    <3>1. x \in Nat /\ x <= n /\ n + 1 \notin L /\ \A j \in x..n : j \in L
      BY <1>3
    <3>2. n \in x..n
      BY <3>1
    <3> QED
      BY <1>4, <3>1, <3>2
  <2> QED
    BY <1>2, <2>1
<1>5. ASSUME NEW k \in Ons(L), n + 1 \notin L, k <= n, \A j \in k..n : j \in L
      PROVE  /\ Ended(L, n + 1) = Ended(L, n) \cup {k}
             /\ \A x \in Ended(L, n) : x < k
             /\ Min(Offs(L, k, n + 1)) = n + 1
  <2>1. k \in Nat \ {0} /\ k \in L /\ k - 1 \notin L
    BY DEF Ons
  <2>2. Offs(L, k, n) = {}
    <3> SUFFICES ASSUME NEW j \in Offs(L, k, n) PROVE FALSE
      OBVIOUS
    <3>1. j \in k..n /\ j \notin L
      BY <2>1 DEF Offs
    <3> QED
      BY <1>5, <3>1
  <2>3. Offs(L, k, n + 1) = {n + 1}
    BY <1>1, <1>5, <2>1, <2>2
  <2>4. Min(Offs(L, k, n + 1)) = n + 1
    BY <2>3, MinIs
  <2>5. k \in Ended(L, n + 1)
    BY <2>3 DEF Ended
  <2>6. ASSUME NEW x \in Ended(L, n + 1), x \notin Ended(L, n) PROVE x = k
    <3>1. x \in Ons(L) /\ x \in Nat /\ \A j \in x..n : j \in L
      BY <1>3, <2>6
    <3>2. ~(x < k)
      <4> SUFFICES ASSUME x < k PROVE FALSE
        OBVIOUS
      <4>1. k - 1 \in x..n
        BY <1>5, <2>1, <3>1
      <4> QED
        BY <2>1, <3>1, <4>1
    <3>3. ~(k < x)
      <4> SUFFICES ASSUME k < x PROVE FALSE
        OBVIOUS
      <4>1. x - 1 \in k..n
        BY <1>3, <2>1, <2>6, <3>1
      <4> QED
        BY <1>5, <3>1, <4>1 DEF Ons
    <3> QED
      BY <2>1, <3>1, <3>2, <3>3
  <2>7. ASSUME NEW x \in Ended(L, n) PROVE x < k
    <3>1. x \in Nat /\ Offs(L, x, n) # {}
      BY DEF Ended, Ons
    <3>2. PICK j \in 1..n : j > x /\ j \notin L
      BY <3>1 DEF Offs
    <3>3. j \notin k..n
      BY <1>5, <3>2
    <3>4. j < k
      BY <2>1, <3>2, <3>3
    <3> QED
      BY <2>1, <3>1, <3>2, <3>4
  <2>8. Ended(L, n + 1) = Ended(L, n) \cup {k}
    BY <1>2, <2>5, <2>6
  <2> QED
    BY <2>4, <2>7, <2>8
<1> QED
  BY <1>4, <1>5

\* One event more.
LEMMA WindowNext ==
    ASSUME NEW L \in SUBSET (Nat \ {0}), 1 \notin L, NEW n \in Nat \ {0}, NEW sec,
           \A k \in 1..(n + 1) : sec[k] \in Nat,
           NEW acc, Windowed(acc, L, sec, n), NEW base, NEW ev,
           base + ev.at \div PerSec = sec[n + 1], Agg!Lossy(ev.apply) <=> n + 1 \in L
    PROVE  Windowed(Agg!WindowStep(base, acc, ev), L, sec, n + 1)
<1> DEFINE new == Agg!WindowStep(base, acc, ev)
           E == Ended(L, n)
           F == Ended(L, n + 1)
           at == sec[n + 1]
<1>1. /\ acc \in [openAt : Int, out : Seq(Nat \X Nat)]
      /\ n \notin L => acc.openAt = -1
      /\ Len(acc.out) = Cardinality(E)
      /\ at \in Nat
  BY DEF Windowed
<1>2. n \in L => \E k \in Ons(L) : k <= n /\ acc.openAt = sec[k] /\ \A j \in k..n : j \in L
  BY DEF Windowed
<1>3. PICK s : /\ Lists(s, E)
               /\ \A m \in 1..Cardinality(E) : acc.out[m] = <<sec[s[m]], sec[Min(Offs(L, s[m], n))]>>
  BY DEF Windowed
<1>4. n \in L => acc.openAt \in Nat
  <2> SUFFICES ASSUME n \in L PROVE acc.openAt \in Nat
    OBVIOUS
  <2>1. PICK k \in Ons(L) : k <= n /\ acc.openAt = sec[k]
    BY <1>2
  <2>2. k \in 1..(n + 1)
    BY <2>1 DEF Ons
  <2> QED
    BY <2>1, <2>2
<1>5. new = IF n + 1 \in L /\ acc.openAt < 0 THEN [acc EXCEPT !.openAt = at]
            ELSE IF n + 1 \notin L /\ acc.openAt >= 0
            THEN [openAt |-> -1, out |-> Append(acc.out, <<acc.openAt, at>>)] ELSE acc
  BY DEF Agg!WindowStep
<1>6. E \in SUBSET Nat /\ IsFiniteSet(E) /\ Cardinality(E) \in Nat
  BY EndedType
<1>7. \A m \in 1..Cardinality(E) : Min(Offs(L, s[m], n + 1)) = Min(Offs(L, s[m], n))
  <2> SUFFICES ASSUME NEW m \in 1..Cardinality(E)
               PROVE  Min(Offs(L, s[m], n + 1)) = Min(Offs(L, s[m], n))
    OBVIOUS
  <2>1. s[m] \in E
    BY <1>3, <1>6, ListFacts
  <2>2. s[m] \in Nat /\ Offs(L, s[m], n) # {}
    BY <1>6, <2>1 DEF Ended
  <2> QED
    BY <2>2, OffsLeast
<1> DEFINE Open == /\ n + 1 \notin L => new.openAt = -1
                   /\ n + 1 \in L => \E k \in Ons(L) : k <= n + 1 /\ new.openAt = sec[k]
                                                       /\ \A j \in k..(n + 1) : j \in L
<1> HIDE DEF new, E, F, at, Open
<1>8. ASSUME F = E, new \in [openAt : Int, out : Seq(Nat \X Nat)], new.out = acc.out,
             Open
      PROVE  Windowed(new, L, sec, n + 1)
  <2>1. \A m \in 1..Cardinality(F) : new.out[m] = <<sec[s[m]], sec[Min(Offs(L, s[m], n + 1))]>>
    BY <1>3, <1>7, <1>8
  <2>2. Lists(s, F) /\ Len(new.out) = Cardinality(F)
    BY <1>1, <1>3, <1>8
  <2> QED
    BY <1>8, <2>1, <2>2 DEF Windowed, F, Open
<1>9. ASSUME n + 1 \in L, n \notin L PROVE Windowed(new, L, sec, n + 1)
  <2>1. F = E
    BY <1>9, EndedNext DEF F, E
  <2>2. new = [acc EXCEPT !.openAt = at]
    BY <1>1, <1>5, <1>9
  <2>3. new \in [openAt : Int, out : Seq(Nat \X Nat)] /\ new.out = acc.out /\ new.openAt = at
    BY <1>1, <2>2
  <2>4. n + 1 \in Ons(L) /\ \A j \in (n + 1)..(n + 1) : j \in L
    BY <1>9 DEF Ons
  <2>5. \E k \in Ons(L) : k <= n + 1 /\ new.openAt = sec[k] /\ \A j \in k..(n + 1) : j \in L
    BY <2>3, <2>4 DEF at
  <2>6. Open
    BY <1>9, <2>5 DEF Open
  <2> QED
    BY <1>8, <2>1, <2>3, <2>6
<1>10. ASSUME n + 1 \in L, n \in L PROVE Windowed(new, L, sec, n + 1)
  <2>1. F = E
    BY <1>10, EndedNext DEF F, E
  <2>2. new = acc
    BY <1>4, <1>5, <1>10
  <2>3. PICK k \in Ons(L) : k <= n /\ acc.openAt = sec[k] /\ \A j \in k..n : j \in L
    BY <1>2, <1>10
  <2>4. k <= n + 1 /\ \A j \in k..(n + 1) : j \in L
    <3>1. k \in Nat
      BY DEF Ons
    <3>2. \A j \in k..(n + 1) : j \in k..n \/ j = n + 1
      BY <3>1
    <3> QED
      BY <1>10, <2>3, <3>1, <3>2
  <2>5. Open
    BY <1>10, <2>2, <2>3, <2>4 DEF Open
  <2> QED
    BY <1>1, <1>8, <2>1, <2>2, <2>5
<1>11. ASSUME n + 1 \notin L, n \notin L PROVE Windowed(new, L, sec, n + 1)
  <2>1. F = E
    BY <1>11, EndedNext DEF F, E
  <2>2. new = acc
    BY <1>1, <1>5, <1>11
  <2>3. Open
    BY <1>1, <1>11, <2>2 DEF Open
  <2> QED
    BY <1>1, <1>8, <2>1, <2>2, <2>3
<1>12. ASSUME n + 1 \notin L, n \in L PROVE Windowed(new, L, sec, n + 1)
  <2>1. PICK k \in Ons(L) : k <= n /\ acc.openAt = sec[k] /\ \A j \in k..n : j \in L
    BY <1>2, <1>12
  <2>2. k \in Nat /\ sec[k] \in Nat
    <3>1. k \in 1..(n + 1)
      BY <2>1 DEF Ons
    <3> QED
      BY <3>1
  <2>3. F = E \cup {k} /\ (\A x \in E : x < k) /\ Min(Offs(L, k, n + 1)) = n + 1
    BY <1>12, <2>1, EndedNext DEF F, E
  <2>4. new = [openAt |-> -1, out |-> Append(acc.out, <<sec[k], at>>)]
    BY <1>4, <1>5, <1>12, <2>1
  <2> DEFINE c == Cardinality(E)
             w == <<sec[k], at>>
             P == Nat \X Nat
  <2>5. w \in P /\ acc.out \in Seq(P)
    BY <1>1, <2>2
  <2> HIDE DEF w, P
  <2>6. /\ Append(acc.out, w) \in Seq(P) /\ Len(Append(acc.out, w)) = Len(acc.out) + 1
        /\ Append(acc.out, w)[Len(acc.out) + 1] = w
        /\ \A m \in 1..Len(acc.out) : Append(acc.out, w)[m] = acc.out[m]
    BY <2>5, AppendProperties
  <2>7. new.out = Append(acc.out, w) /\ new.openAt = -1 /\ new \in [openAt : Int, out : Seq(P)]
    BY <2>4, <2>6 DEF w
  <2>a. \A y \in E : y < k
    BY <2>3
  <2>b. Lists(s, E)
    BY <1>3
  <2>d. F = E \cup {k} /\ E \in SUBSET Nat /\ k \in Nat
    BY <1>6, <2>2, <2>3
  <2>e. Below(E, k)
    BY <2>a, <2>d DEF Below
  <2>c. Cardinality(F) = Cardinality(E) + 1 /\ \E t : Lists(t, F) /\ Extends(t, s, E, k)
    BY <1>6, <2>d, <2>e, <2>b, ListAppend
  <2>8. PICK t : /\ Lists(t, F) /\ t[c + 1] = k
                 /\ \A j \in 1..c : t[j] = s[j]
    BY <2>c DEF Extends
  <2>9. Cardinality(F) = c + 1 /\ c \in Nat
    BY <1>6, <2>3, <2>c
  <2> HIDE DEF c
  <2>10. Len(new.out) = Cardinality(F) /\ Len(acc.out) = c
    BY <1>1, <2>6, <2>7, <2>9 DEF c
  <2>11. ASSUME NEW m \in 1..Cardinality(F)
         PROVE  new.out[m] = <<sec[t[m]], sec[Min(Offs(L, t[m], n + 1))]>>
    <3>1. m = c + 1 \/ m \in 1..c
      BY <2>9
    <3>2. CASE m = c + 1
      <4>1. new.out[m] = w /\ t[m] = k
        BY <2>6, <2>7, <2>8, <2>10, <3>2
      <4> QED
        BY <2>3, <4>1 DEF w, at
    <3>3. CASE m \in 1..c
      <4>1. new.out[m] = acc.out[m] /\ t[m] = s[m]
        BY <2>6, <2>7, <2>8, <2>10, <3>3
      <4>2. acc.out[m] = <<sec[s[m]], sec[Min(Offs(L, s[m], n))]>>
        BY <1>3, <3>3 DEF c
      <4>3. Min(Offs(L, s[m], n + 1)) = Min(Offs(L, s[m], n))
        BY <1>7, <3>3 DEF c
      <4> QED
        BY <4>1, <4>2, <4>3
    <3> QED
      BY <3>1, <3>2, <3>3
  <2> QED
    BY <1>12, <2>7, <2>8, <2>10, <2>11 DEF Windowed, F, P
<1>13. Windowed(new, L, sec, n + 1)
  <2>1. \/ n + 1 \in L /\ n \notin L
        \/ n + 1 \in L /\ n \in L
        \/ n + 1 \notin L /\ n \notin L
        \/ n + 1 \notin L /\ n \in L
    OBVIOUS
  <2> QED
    BY <1>9, <1>10, <1>11, <1>12, <2>1
<1> QED
  BY <1>13 DEF new

\* The i-th of the N events of run rr is at second sec[i + 1], and i + 1 is in
\* L if there is loss from then on.
Places(rr, L, sec, N) ==
    LET tl == rr.profile.timeline IN
    /\ N \in Nat /\ Len(tl) = N /\ DOMAIN tl = 1..N
    /\ L \in SUBSET (Nat \ {0}) /\ 1 \notin L
    /\ \A k \in 1..(N + 1) : sec[k] \in Nat
    /\ \A i \in 1..N : /\ Agg!Base(rr) + tl[i].at \div PerSec = sec[i + 1]
                       /\ Agg!Lossy(tl[i].apply) <=> i + 1 \in L

\* What the fold over the whole timeline has made.
LEMMA WindowsOf ==
    ASSUME NEW rr, NEW L, NEW sec, NEW N, Places(rr, L, sec, N)
    PROVE  \E acc : Windowed(acc, L, sec, N + 1) /\ Agg!impairmentWindows(rr) = acc.out
<1> DEFINE tl == rr.profile.timeline
<1>0. /\ N \in Nat /\ N = Len(tl) /\ DOMAIN tl = 1..N
      /\ L \in SUBSET (Nat \ {0}) /\ 1 \notin L
      /\ \A k \in 1..(N + 1) : sec[k] \in Nat
      /\ \A i \in 1..N : /\ Agg!Base(rr) + tl[i].at \div PerSec = sec[i + 1]
                         /\ Agg!Lossy(tl[i].apply) <=> i + 1 \in L
  BY DEF Places
<1>1. PICK A : /\ A[0] = NoWindows
               /\ \A i \in 1..N : A[i] = Agg!WindowStep(Agg!Base(rr), A[i - 1], tl[i])
               /\ Agg!impairmentWindows(rr) = A[N].out
  BY <1>0, FoldUnrolls
<1> DEFINE Bad == {i \in 0..N : ~Windowed(A[i], L, sec, i + 1)}
<1>2. Windowed(A[0], L, sec, 0 + 1)
  <2>1. Ended(L, 1) = {}
    <3> SUFFICES ASSUME NEW k \in Ended(L, 1) PROVE FALSE
      OBVIOUS
    <3>1. k \in 1..1 /\ k \in L
      BY <1>0, EndedType DEF Ended, Ons
    <3>2. k = 1
      BY <3>1
    <3> QED
      BY <1>0, <3>1, <3>2
  <2>2. Cardinality(Ended(L, 1)) = 0 /\ IsFiniteSet(Ended(L, 1))
    BY <2>1, FS_EmptySet
  <2>3. PICK s : Lists(s, Ended(L, 1))
    BY <2>1, <2>2, ListExists
  <2>4. NoWindows \in [openAt : Int, out : Seq(Nat \X Nat)] /\ NoWindows.openAt = -1
        /\ NoWindows.out = <<>> /\ Len(NoWindows.out) = 0
    BY DEF NoWindows
  <2>5. Windowed(NoWindows, L, sec, 1)
    BY <1>0, <2>2, <2>3, <2>4 DEF Windowed
  <2> QED
    BY <1>1, <2>5
<1>3. ASSUME NEW i \in 1..N, Windowed(A[i - 1], L, sec, i)
      PROVE  Windowed(A[i], L, sec, i + 1)
  <2>1. \A k \in 1..(i + 1) : sec[k] \in Nat
    BY <1>0
  <2> DEFINE base == Agg!Base(rr)
             ev == tl[i]
             acc == A[i - 1]
  <2>2. i \in Nat \ {0} /\ Windowed(acc, L, sec, i)
    BY <1>0, <1>3
  <2>3. base + ev.at \div PerSec = sec[i + 1] /\ (Agg!Lossy(ev.apply) <=> i + 1 \in L)
    BY <1>0
  <2>4. A[i] = Agg!WindowStep(base, acc, ev)
    BY <1>1
  <2> HIDE DEF base, ev, acc, tl
  <2>5. Windowed(Agg!WindowStep(base, acc, ev), L, sec, i + 1)
    BY <1>0, <2>1, <2>2, <2>3, WindowNext
  <2> QED
    BY <2>4, <2>5
<1>4. Bad = {}
  <2> SUFFICES ASSUME Bad # {} PROVE FALSE
    OBVIOUS
  <2>1. Bad \in SUBSET Nat
    BY <1>0
  <2>2. PICK i \in Bad : \A j \in Bad : i <= j
    <3> HIDE DEF Bad
    <3> QED
      BY <2>1, Smallest
  <2>3. i \in 0..N /\ ~Windowed(A[i], L, sec, i + 1)
    OBVIOUS
  <2>4. i # 0
    BY <1>2, <2>3
  <2>5. i \in 1..N /\ i - 1 \in 0..N /\ i - 1 \notin Bad
    BY <1>0, <2>1, <2>2, <2>3, <2>4
  <2>6. Windowed(A[i - 1], L, sec, (i - 1) + 1)
    BY <2>5
  <2>7. (i - 1) + 1 = i
    BY <1>0, <2>5
  <2>8. Windowed(A[i - 1], L, sec, i)
    BY <2>6, <2>7
  <2> QED
    BY <1>3, <2>3, <2>5, <2>8
<1>5. Windowed(A[N], L, sec, N + 1)
  <2>1. N \in 0..N /\ N \notin Bad
    BY <1>0, <1>4
  <2> QED
    BY <2>1
<1> QED
  BY <1>1, <1>5

\* The windows of loss that a log shows.
TimesAt(lg, s, L, n) ==
    [m \in 1..Cardinality(Ended(L, n)) |-> <<lg[s[m]].at, lg[Min(Offs(L, s[m], n))].at>>]

LEMMA LossTimesOf ==
    ASSUME NEW n \in Nat, NEW lg, DOMAIN lg = 1..n, NEW L \in SUBSET (1..n), 1 \notin L,
           \A k \in 1..n : k \in L <=> Agg!Lossy(lg[k].imp)
    PROVE  \E s : Lists(s, Ended(L, n)) /\ LossTimes(lg) = TimesAt(lg, s, L, n)
<1> DEFINE lossy(k) == Agg!Lossy(lg[k].imp)
           on == {k \in DOMAIN lg : lossy(k) /\ (k = 1 \/ ~lossy(k - 1))}
           off(k) == {j \in DOMAIN lg : j > k /\ ~lossy(j)}
           ended == {k \in on : off(k) # {}}
           ons == Agg!InOrder(ended)
           s == Agg!InOrder(Ended(L, n))
<1>1. LossTimes(lg) = [m \in DOMAIN ons |-> <<lg[ons[m]].at, lg[Min(off(ons[m]))].at>>]
  BY DEF LossTimes
<1>2. on = Ons(L)
  <2>1. ASSUME NEW k \in 1..n PROVE k \in on <=> k \in Ons(L)
    <3>1. CASE k = 1
      BY <3>1 DEF Ons
    <3>2. CASE k # 1
      <4>1. k - 1 \in 1..n
        BY <3>2
      <4>2. lossy(k - 1) <=> k - 1 \in L
        BY <4>1
      <4>3. lossy(k) <=> k \in L
        OBVIOUS
      <4> HIDE DEF lossy
      <4> QED
        BY <3>2, <4>2, <4>3 DEF Ons
    <3> QED
      BY <3>1, <3>2
  <2>2. \A k \in Ons(L) : k \in 1..n
    BY DEF Ons
  <2> QED
    BY <2>1, <2>2
<1>3. \A k : off(k) = Offs(L, k, n)
  BY DEF Offs
<1>4. ended = Ended(L, n)
  BY <1>2, <1>3 DEF Ended
<1>5. LossTimes(lg) = [m \in DOMAIN s |-> <<lg[s[m]].at, lg[Min(Offs(L, s[m], n))].at>>]
  <2>1. ons = s
    BY <1>4
  <2> HIDE DEF ons, s, off
  <2> QED
    BY <1>1, <1>3, <2>1
<1>6. Lists(s, Ended(L, n))
  <2>1. L \in SUBSET (Nat \ {0})
    OBVIOUS
  <2> QED
    BY <2>1, EndedType, InOrderLists
<1> HIDE DEF s
<1>7. DOMAIN s = 1..Cardinality(Ended(L, n))
  BY <1>6 DEF Lists
<1> QED
  <2>1. LossTimes(lg) = TimesAt(lg, s, L, n)
    BY <1>5, <1>7 DEF TimesAt
  <2> QED
    BY <1>6, <2>1

\* What seconds lose when times are added.
LEMMA DivSum ==
    ASSUME NEW a \in Nat, NEW b \in Nat
    PROVE  (a + b) \div PerSec - (a \div PerSec + b \div PerSec) \in {0, 1}
<1>1. PerSec \in Nat \ {0}
  BY ConstTypes
<1> DEFINE q == a \div PerSec
           r == b \div PerSec
           s == (a + b) \div PerSec
<1>2. q \in Nat /\ PerSec * q <= a /\ a < PerSec * q + PerSec
  BY DivIs
<1>3. r \in Nat /\ PerSec * r <= b /\ b < PerSec * r + PerSec
  BY DivIs
<1>4. s \in Nat /\ PerSec * s <= a + b /\ a + b < PerSec * s + PerSec
  <2>1. a + b \in Nat
    OBVIOUS
  <2> QED
    BY <2>1, DivIs
<1> HIDE DEF q, r, s
<1> DEFINE d == s - (q + r)
<1>5. d \in Int /\ s = q + r + d
  BY <1>2, <1>3, <1>4
<1> HIDE DEF d
<1>6. PerSec * s = PerSec * q + PerSec * r + PerSec * d
  BY <1>1, <1>2, <1>3, <1>5
<1>7. PerSec * q \in Int /\ PerSec * r \in Int /\ PerSec * d \in Int /\ PerSec * s \in Int
  BY <1>1, <1>2, <1>3, <1>4, <1>5
<1>8. PerSec * d < PerSec + PerSec /\ PerSec * d > -PerSec
  BY <1>1, <1>2, <1>3, <1>4, <1>6, <1>7
<1>9. ~(d >= 2)
  <2> SUFFICES ASSUME d >= 2 PROVE FALSE
    OBVIOUS
  <2>1. PerSec * d >= PerSec * 2
    BY <1>1, <1>5
  <2> QED
    BY <1>1, <1>7, <1>8, <2>1
<1>10. ~(d <= -1)
  <2> SUFFICES ASSUME d <= -1 PROVE FALSE
    OBVIOUS
  <2>1. PerSec * d <= PerSec * (-1)
    BY <1>1, <1>5
  <2> QED
    BY <1>1, <1>7, <1>8, <2>1
<1>11. d \in {0, 1}
  BY <1>5, <1>9, <1>10
<1> QED
  BY <1>11 DEF d, q, r, s

LEMMA UpTo == ASSUME NEW n \in Nat PROVE IsFiniteSet(1..n) /\ Cardinality(1..n) = n
<1>1. IsFiniteSet(1..n) /\ Cardinality(1..n) = IF 1 > n THEN 0 ELSE n - 1 + 1
  BY FS_Interval
<1> QED
  BY <1>1

\* A timeline in its order is gone through in that order: the permutation that
\* the label leaves open is the identity.
LEMMA OrderedLog ==
    ASSUME NEW rr, NEW N \in Nat, N = Len(rr.profile.timeline),
           rr.profile.timeline \in Seq([at : Nat, apply : Imp]), rr.started \in Nat,
           IsSortedTimeline(rr.profile.timeline),
           NEW lg \in LinkLog \ {<<>>}, AsPrescribed(rr, lg)
    PROVE  /\ DOMAIN lg = 1..(N + 1) /\ lg[1] = At(rr.started, rr.profile.apply)
           /\ \A k \in 1..N : lg[k + 1] = At(rr.started + rr.profile.timeline[k].at,
                                            rr.profile.timeline[k].apply)
<1> DEFINE tl == rr.profile.timeline
           st == rr.started
<1>1. DOMAIN tl = 1..N /\ st \in Nat /\ \A k \in 1..N : tl[k].at \in Nat
  <2> DEFINE R == [at : Nat, apply : Imp]
  <2>1. tl \in Seq(R) /\ Len(tl) = N /\ st \in Nat
    OBVIOUS
  <2>2. \A x \in R : x.at \in Nat
    OBVIOUS
  <2> HIDE DEF R, tl, st
  <2>3. DOMAIN tl = 1..N /\ \A k \in 1..N : tl[k] \in R
    BY <2>1
  <2> QED
    BY <2>1, <2>2, <2>3
<1>2. \A j, k \in 1..N : j < k => tl[j].at < tl[k].at
  BY <1>1 DEF IsSortedTimeline
<1>3. PICK p \in [DOMAIN tl -> DOMAIN tl] :
        /\ IsInjective(p)
        /\ Tail(lg) = [k \in DOMAIN tl |-> At(st + tl[p[k]].at, tl[p[k]].apply)]
  BY DEF AsPrescribed
<1>4. lg[1] = At(rr.started, rr.profile.apply)
  BY DEF AsPrescribed
<1>5. \A j, k \in 1..Len(lg) : j < k => lg[j].at <= lg[k].at
  <2>1. IsSorted(lg, LAMBDA a, b : a.at <= b.at)
    BY DEF AsPrescribed
  <2> QED
    BY <2>1 DEF IsSorted
<1>6. Len(lg) \in Nat /\ DOMAIN lg = 1..Len(lg) /\ Len(Tail(lg)) = Len(lg) - 1
      /\ Tail(lg) \in LinkLog
      /\ \A k \in 1..Len(Tail(lg)) : Tail(lg)[k] = lg[k + 1]
  BY HeadTailProperties DEF LinkLog
<1>7. p \in [1..N -> 1..N] /\ DOMAIN Tail(lg) = 1..N
      /\ \A k \in 1..N : Tail(lg)[k] = At(st + tl[p[k]].at, tl[p[k]].apply)
  BY <1>1, <1>3
<1> HIDE DEF tl, st
<1>8. Len(lg) = N + 1 /\ Len(Tail(lg)) = N
  <2>1. DOMAIN Tail(lg) = 1..Len(Tail(lg)) /\ Len(Tail(lg)) \in Nat
    BY <1>6 DEF LinkLog
  <2> DEFINE m == Len(Tail(lg))
  <2>2. 1..m = 1..N /\ m \in Nat
    BY <1>7, <2>1
  <2> HIDE DEF m
  <2>3. ~(m < N) /\ ~(N < m)
    <3>1. m < N => N \in 1..N /\ N \notin 1..m
      BY <2>2
    <3>2. N < m => m \in 1..m /\ m \notin 1..N
      BY <2>2
    <3> QED
      BY <2>2, <3>1, <3>2
  <2>4. m = N
    BY <2>2, <2>3
  <2> DEFINE l == Len(lg)
  <2>5. l \in Nat /\ m = l - 1
    BY <1>6 DEF m
  <2> HIDE DEF l
  <2>6. l = N + 1 /\ m = N
    BY <2>4, <2>5
  <2> QED
    BY <2>6 DEF l, m
<1>9. \A k \in 1..N : lg[k + 1] = At(st + tl[p[k]].at, tl[p[k]].apply)
  BY <1>6, <1>7, <1>8
<1>10. ASSUME NEW j \in 1..N, NEW k \in 1..N, j < k PROVE p[j] < p[k]
  <2>1. p[j] \in 1..N /\ p[k] \in 1..N /\ p[j] # p[k]
    <3>1. DOMAIN p = 1..N /\ p[j] \in 1..N /\ p[k] \in 1..N
      BY <1>7
    <3>2. p[j] = p[k] => j = k
      BY <1>3, <3>1 DEF IsInjective
    <3> QED
      BY <1>10, <3>1, <3>2
  <2>2. lg[j + 1].at = st + tl[p[j]].at /\ lg[k + 1].at = st + tl[p[k]].at
    <3>1. /\ lg[j + 1] = At(st + tl[p[j]].at, tl[p[j]].apply)
          /\ lg[k + 1] = At(st + tl[p[k]].at, tl[p[k]].apply)
      BY <1>9
    <3> QED
      BY <3>1 DEF At
  <2>3. lg[j + 1].at <= lg[k + 1].at
    <3>1. j + 1 \in 1..Len(lg) /\ k + 1 \in 1..Len(lg) /\ j + 1 < k + 1
      BY <1>8, <1>10
    <3> QED
      BY <1>5, <3>1
  <2>4. ~(p[k] < p[j])
    <3>1. p[k] < p[j] => tl[p[k]].at < tl[p[j]].at
      BY <1>2, <2>1
    <3>2. tl[p[k]].at \in Nat /\ tl[p[j]].at \in Nat
      BY <1>1, <2>1
    <3> DEFINE x == tl[p[j]].at
               y == tl[p[k]].at
    <3>3. x \in Nat /\ y \in Nat /\ st \in Nat /\ st + x <= st + y
      BY <1>1, <2>2, <2>3, <3>2
    <3>4. p[k] < p[j] => y < x
      BY <3>1
    <3> HIDE DEF x, y
    <3> QED
      BY <3>3, <3>4
  <2> QED
    BY <2>1, <2>4
<1> DEFINE id == [k \in 1..N |-> k]
           S == 1..N
<1>11. S \in SUBSET Nat /\ IsFiniteSet(S) /\ Cardinality(S) = N
  <2>1. IsFiniteSet(1..N) /\ Cardinality(1..N) = N
    BY UpTo
  <2> QED
    BY <2>1
<1>12. Lists(p, S) /\ Lists(id, S)
  BY <1>7, <1>10, <1>11 DEF Lists
<1>13. p = id
  <2> HIDE DEF S, id
  <2> QED
    BY <1>11, <1>12, ListUnique
<1>14. \A k \in 1..N : p[k] = k
  BY <1>13
<1> QED
  BY <1>4, <1>6, <1>8, <1>9, <1>14 DEF tl, st

\* A fresh run that begins without loss, its events in order: the windows are
\* those in which each of its links lost packets.
LEMMA WindowsSound ==
    ASSUME NEW rr \in RunRec, IsSortedTimeline(rr.profile.timeline), rr.profile.apply.loss = 0,
           NEW lg \in LinkLog \ {<<>>}, AsPrescribed(rr, lg)
    PROVE  /\ Len(LossTimes(lg)) = Len(Agg!impairmentWindows(rr))
           /\ \A n \in DOMAIN LossTimes(lg) : \A b \in {1, 2} :
                LossTimes(lg)[n][b] \div PerSec - Agg!impairmentWindows(rr)[n][b] \in {0, 1}
<1> DEFINE tl == rr.profile.timeline
           N == Len(tl)
           st == rr.started
           L == {k \in 1..(N + 1) : Agg!Lossy(lg[k].imp)}
           base == Agg!Base(rr)
           sec == [k \in 1..(N + 1) |-> IF k = 1 THEN 0 ELSE base + tl[k - 1].at \div PerSec]
           E == Ended(L, N + 1)
           C == Cardinality(E)
           off(k) == Min(Offs(L, k, N + 1))
<1>1. tl \in Seq([at : Nat, apply : Imp]) /\ st \in Nat /\ N \in Nat /\ DOMAIN tl = 1..N
  BY DEF RunRec, Profile
<1>2. \A k \in 1..N : tl[k] \in [at : Nat, apply : Imp] /\ tl[k].at \in Nat
  <2> DEFINE R == [at : Nat, apply : Imp]
  <2>1. tl \in Seq(R)
    BY <1>1
  <2>2. \A x \in R : x.at \in Nat
    OBVIOUS
  <2> HIDE DEF R, tl
  <2>3. \A k \in 1..N : tl[k] \in R
    BY <2>1
  <2> QED
    BY <2>2, <2>3 DEF R
<1>3. /\ DOMAIN lg = 1..(N + 1) /\ lg[1] = At(st, rr.profile.apply)
      /\ \A k \in 1..N : lg[k + 1] = At(st + tl[k].at, tl[k].apply)
  BY <1>1, OrderedLog
<1>4. base = st \div PerSec /\ base \in Nat
  <2>1. base = st \div PerSec
    BY DEF Agg!Base
  <2>2. st \div PerSec \in Nat
    BY <1>1, DivIs
  <2> QED
    BY <2>1, <2>2
<1> HIDE DEF tl, st, base
<1>5. L \in SUBSET (Nat \ {0}) /\ 1 \notin L
  <2>1. ~Agg!Lossy(lg[1].imp)
    BY <1>3 DEF At, Agg!Lossy
  <2> QED
    BY <1>1, <2>1
<1>6. \A k \in 1..N : (tl[k].at) \div PerSec \in Nat
  BY <1>2, DivIs
<1>7. \A k \in 1..(N + 1) : sec[k] \in Nat
  <2> SUFFICES ASSUME NEW k \in 1..(N + 1) PROVE sec[k] \in Nat
    OBVIOUS
  <2>1. k = 1 \/ k - 1 \in 1..N
    BY <1>1
  <2> QED
    BY <1>4, <1>6, <2>1
<1>8. ASSUME NEW k \in 1..N
      PROVE  /\ base + tl[k].at \div PerSec = sec[k + 1]
             /\ Agg!Lossy(tl[k].apply) <=> k + 1 \in L
             /\ lg[k + 1].at = st + tl[k].at
  <2>1. k + 1 \in 1..(N + 1) /\ k + 1 # 1 /\ (k + 1) - 1 = k
    BY <1>1
  <2>2. lg[k + 1] = At(st + tl[k].at, tl[k].apply)
    BY <1>3
  <2>3. lg[k + 1].imp = tl[k].apply /\ lg[k + 1].at = st + tl[k].at
    BY <2>2 DEF At
  <2> QED
    BY <2>1, <2>3
<1> HIDE DEF L, sec
<1>9. PICK acc : Windowed(acc, L, sec, N + 1) /\ Agg!impairmentWindows(rr) = acc.out
  <2>1. \A i \in 1..N : /\ Agg!Base(rr) + rr.profile.timeline[i].at \div PerSec = sec[i + 1]
                        /\ Agg!Lossy(rr.profile.timeline[i].apply) <=> i + 1 \in L
    BY <1>8 DEF base, tl
  <2>2. DOMAIN rr.profile.timeline = 1..N /\ Len(rr.profile.timeline) = N
    BY <1>1 DEF tl
  <2> HIDE DEF N
  <2>3. Places(rr, L, sec, N)
    BY <1>1, <1>5, <1>7, <2>1, <2>2 DEF Places
  <2> QED
    BY <2>3, WindowsOf
<1>10. PICK s : /\ Lists(s, E) /\ acc.out \in Seq(Nat \X Nat) /\ Len(acc.out) = C
                /\ \A m \in 1..C : acc.out[m] = <<sec[s[m]], sec[off(s[m])]>>
  BY <1>9 DEF Windowed
<1>11. PICK t : /\ Lists(t, E)
                /\ LossTimes(lg) = [m \in 1..C |-> <<lg[t[m]].at, lg[off(t[m])].at>>]
  <2> DEFINE n == N + 1
  <2>1. /\ n \in Nat /\ DOMAIN lg = 1..n /\ L \in SUBSET (1..n)
        /\ \A k \in 1..n : k \in L <=> Agg!Lossy(lg[k].imp)
    BY <1>1, <1>3 DEF L
  <2> HIDE DEF n
  <2>2. \E u : Lists(u, Ended(L, n)) /\ LossTimes(lg) = TimesAt(lg, u, L, n)
    BY <1>5, <2>1, LossTimesOf
  <2> QED
    BY <2>2 DEF n, TimesAt
<1>12. /\ E \in SUBSET (1..(N + 1)) /\ E \in SUBSET Nat /\ IsFiniteSet(E) /\ C \in Nat
  <2> DEFINE n == N + 1
  <2>1. n \in Nat
    BY <1>1
  <2> HIDE DEF n
  <2>2. /\ Ended(L, n) \in SUBSET (1..n) /\ Ended(L, n) \in SUBSET Nat
        /\ IsFiniteSet(Ended(L, n)) /\ Cardinality(Ended(L, n)) \in Nat
    BY <1>5, <2>1, EndedType
  <2> QED
    BY <2>2 DEF n
<1>13. s = t
  BY <1>10, <1>11, <1>12, ListUnique
<1>14. \A m \in 1..C : s[m] \in E
  BY <1>10, <1>12, ListFacts
<1>15. ASSUME NEW k \in 2..(N + 1)
       PROVE  lg[k].at \div PerSec - sec[k] \in {0, 1}
  <2>1. PICK j \in 1..N : k = j + 1
    <3>1. k - 1 \in 1..N /\ k = (k - 1) + 1
      BY <1>1
    <3> QED
      BY <3>1
  <2>2. lg[k].at = st + tl[j].at /\ sec[k] = base + tl[j].at \div PerSec
    BY <1>8, <2>1
  <2>3. st \in Nat /\ tl[j].at \in Nat
    BY <1>1, <1>2, <2>1 DEF st
  <2>4. (st + tl[j].at) \div PerSec - (st \div PerSec + tl[j].at \div PerSec) \in {0, 1}
    BY <2>3, DivSum
  <2> QED
    BY <1>4, <2>2, <2>4
<1>16. ASSUME NEW k \in E PROVE k \in 2..(N + 1) /\ off(k) \in 2..(N + 1)
  <2>1. k \in 1..(N + 1) /\ k \in L /\ Offs(L, k, N + 1) # {}
    BY <1>12 DEF Ended, Ons
  <2>2. k # 1 /\ k \in Nat
    BY <1>5, <2>1
  <2>3. off(k) \in Offs(L, k, N + 1)
    <3> DEFINE n == N + 1
    <3>1. n \in Nat
      BY <1>1
    <3> HIDE DEF n
    <3>2. Offs(L, k, n) # {}
      BY <2>1 DEF n
    <3>3. Min(Offs(L, k, n)) \in Offs(L, k, n)
      BY <2>2, <3>1, <3>2, OffsLeast
    <3> QED
      BY <3>3 DEF n
  <2> HIDE DEF off
  <2>4. off(k) \in 1..(N + 1) /\ off(k) > k
    BY <2>3 DEF Offs
  <2> QED
    BY <1>1, <2>1, <2>2, <2>4
<1> DEFINE times == LossTimes(lg)
           windows == Agg!impairmentWindows(rr)
<1>17. ASSUME NEW m \in 1..C
       PROVE  /\ times[m][1] \div PerSec - windows[m][1] \in {0, 1}
              /\ times[m][2] \div PerSec - windows[m][2] \in {0, 1}
  <2>1. s[m] \in 2..(N + 1) /\ off(s[m]) \in 2..(N + 1)
    BY <1>14, <1>16
  <2> HIDE DEF off
  <2>2. times[m] = <<lg[s[m]].at, lg[off(s[m])].at>>
    BY <1>11, <1>13
  <2>3. windows[m] = <<sec[s[m]], sec[off(s[m])]>>
    BY <1>9, <1>10
  <2>4. /\ times[m][1] = lg[s[m]].at /\ times[m][2] = lg[off(s[m])].at
        /\ windows[m][1] = sec[s[m]] /\ windows[m][2] = sec[off(s[m])]
    BY <2>2, <2>3
  <2> HIDE DEF times, windows
  <2> QED
    BY <1>15, <2>1, <2>4
<1>18. DOMAIN times = 1..C /\ Len(times) = C /\ Len(windows) = C
  <2>1. DOMAIN times = 1..C
    BY <1>11
  <2>2. Len(times) = C
    <3> DEFINE f == [m \in 1..C |-> <<lg[t[m]].at, lg[off(t[m])].at>>]
    <3>1. f = times
      BY <1>11
    <3> HIDE DEF C, off
    <3>2. Len(f) = C
      BY <1>12
    <3> QED
      BY <3>1, <3>2
  <2>3. Len(windows) = C
    BY <1>9, <1>10
  <2> QED
    BY <2>1, <2>2, <2>3
<1> HIDE DEF C, times, windows
<1>19. \A n \in DOMAIN times : \A b \in {1, 2} : times[n][b] \div PerSec - windows[n][b] \in {0, 1}
  BY <1>17, <1>18
<1> QED
  BY <1>18, <1>19 DEF times, windows

\* The windows after which recovery is measured (aggregate.go:110) are those in
\* which the links lost packets, to the second, in a run that met no failure,
\* whose file lists its events in order and whose profile starts without loss;
\* provided the matrix names a target once in a cell.
THEOREM WindowsMatchLoss == ASSUME DistinctTargets PROVE Spec => []WindowsAreApplied
<1>1. Init => SetUpInv /\ TimelineInv /\ LabelInv
  BY DEF Init, SetUpInv, TimelineInv, LabelInv, Quiet, Fresh, InHand
<1>2. CoreInv /\ LabelInv => WindowsAreApplied
  <2> SUFFICES ASSUME CoreInv, LabelInv,
                      NEW k \in 1..Len(runs), hit[runs[k].cell] = {},
                      IsSortedTimeline(runs[k].profile.timeline), runs[k].profile.apply.loss = 0,
                      NEW j \in 1..Len(runs[k].sessions)
               PROVE  LET times == LossTimes(runs[k].sessions[j].log)
                          windows == Agg!impairmentWindows(runs[k]) IN
                      /\ Len(times) = Len(windows)
                      /\ \A n \in DOMAIN times : \A b \in {1, 2} :
                           times[n][b] \div PerSec - windows[n][b] \in {0, 1}
    <3>1. CoreInv => runs \in Seq(RunRec)
      BY DEF CoreInv, TypeInv, RestType
    <3>2. CoreInv => DOMAIN runs = 1..Len(runs)
                     /\ \A k \in 1..Len(runs) : DOMAIN runs[k].sessions = 1..Len(runs[k].sessions)
      <4>1. \A x \in RunRec : DOMAIN x.sessions = 1..Len(x.sessions)
        BY DEF RunRec
      <4>2. CoreInv => \A k \in 1..Len(runs) : runs[k] \in RunRec
        BY <3>1
      <4> QED
        BY <3>1, <4>1, <4>2
    <3> QED
      BY <3>2 DEF WindowsAreApplied
  <2>1. runs[k] \in RunRec
    <3>1. runs \in Seq(RunRec)
      BY DEF CoreInv, TypeInv, RestType
    <3> QED
      BY <3>1
  <2>2. runs[k].sessions[j] \in SessionRec
    BY <2>1 DEF RunRec
  <2>3. runs[k].sessions[j].log \in LinkLog \ {<<>>}
    BY <2>2 DEF SessionRec
  <2>4. AsPrescribed(runs[k], runs[k].sessions[j].log)
    <3>1. Labelled(runs[k])
      BY DEF LabelInv
    <3>2. j \in DOMAIN runs[k].sessions
      BY <2>1 DEF RunRec
    <3> QED
      BY <3>1, <3>2 DEF Labelled
  <2> QED
    BY <2>1, <2>3, <2>4, WindowsSound
<1>3. CoreInv /\ SetUpInv /\ TimelineInv /\ LabelInv /\ [Next]_vars
        => SetUpInv' /\ TimelineInv' /\ LabelInv'
  BY SetUpStep, TimelineStep, LabelStep
<1> QED
  BY <1>1, <1>2, <1>3, CoreAlways, PTL DEF Spec
=============================================================================
