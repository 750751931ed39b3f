--------------------------- MODULE Counting_proofs ---------------------------
(* What the proofs of several components count with: the least of some         *)
(* numbers, the size of a set that one member enters or leaves, and the sum of *)
(* the weights of a set, which a fold of the community modules computes.       *)
EXTENDS Integers, FiniteSets, Folds, FiniteSetTheorems, WellFoundedInduction, TLAPS

\* Every set of naturals that is not empty has a least member: what stands in for induction.
LEMMA LeastNat ==
    ASSUME NEW S \in SUBSET Nat, S # {}
    PROVE  \E n \in S : \A m \in S : n <= m
<1>1. IsWellFoundedOn(OpToRel(<, Nat), Nat)
  BY NatLessThanWellFounded, Zenon
<1>2. PICK n \in S : \A m \in S : <<m, n>> \notin OpToRel(<, Nat)
  BY <1>1, WFMin, Zenon
<1>3. \A m \in S : ~(m < n)
  BY <1>2, Zenon DEF OpToRel
<1> QED
  BY <1>3

\* Where one member joins a selection from a finite set, the count goes up by one.
LEMMA CountUp ==
    ASSUME NEW S, IsFiniteSet(S), NEW A \in SUBSET S, NEW x \in S, x \notin A
    PROVE  Cardinality(A \cup {x}) = Cardinality(A) + 1
BY FS_Subset, FS_AddElement

\* Where one leaves it, the count goes down by one.
LEMMA CountDown ==
    ASSUME NEW S, IsFiniteSet(S), NEW A \in SUBSET S, NEW x \in A
    PROVE  Cardinality(A \ {x}) = Cardinality(A) - 1
BY FS_Subset, FS_RemoveElement

\* The count is zero exactly when nothing is selected.
LEMMA CountZero ==
    ASSUME NEW S, IsFiniteSet(S), NEW A \in SUBSET S
    PROVE  /\ Cardinality(A) \in Nat
           /\ Cardinality(A) = 0 <=> A = {}
BY FS_Subset, FS_EmptySet, FS_CardinalityType

\* A count moves with the one member that may enter its set or leave it.
LEMMA OneMoves ==
    ASSUME NEW D, IsFiniteSet(D), NEW S \in SUBSET D, NEW T \in SUBSET D,
           NEW x, S \ {x} = T \ {x}
    PROVE  /\ Cardinality(S) \in Nat /\ Cardinality(T) \in Nat
           /\ (x \in S <=> x \in T) => Cardinality(T) = Cardinality(S)
           /\ x \in T /\ x \notin S => Cardinality(T) = Cardinality(S) + 1
           /\ x \in S /\ x \notin T => Cardinality(T) = Cardinality(S) - 1 /\ Cardinality(S) > 0
<1>1. IsFiniteSet(S) /\ IsFiniteSet(T)
  BY FS_Subset
<1>2. Cardinality(S) \in Nat /\ Cardinality(T) \in Nat
  BY <1>1, FS_CardinalityType
<1>3. (x \in S <=> x \in T) => S = T
  OBVIOUS
<1>4. ASSUME x \in T, x \notin S PROVE Cardinality(T) = Cardinality(S) + 1
  <2>1. T = S \cup {x}
    BY <1>4
  <2> QED
    BY <1>1, <1>4, <2>1, FS_AddElement
<1>5. ASSUME x \in S, x \notin T PROVE Cardinality(S) = Cardinality(T) + 1
  <2>1. S = T \cup {x}
    BY <1>5
  <2> QED
    BY <1>1, <1>5, <2>1, FS_AddElement
<1>6. x \in S /\ x \notin T => Cardinality(T) = Cardinality(S) - 1 /\ Cardinality(S) > 0
  BY <1>2, <1>5
<1> QED
  BY <1>2, <1>3, <1>4, <1>6

-----------------------------------------------------------------------------
\* The sum of the weights of a set: as many units under each member as it weighs, counted.
Heap(w, S) == UNION {{x} \X (1 .. w[x]) : x \in S}
Sum(w, S) == Cardinality(Heap(w, S))

\* One more member adds its weight.
LEMMA HeapAdd ==
    ASSUME NEW D, NEW w \in [D -> Nat], NEW S \in SUBSET D, IsFiniteSet(Heap(w, S)),
           NEW x \in D, x \notin S
    PROVE  /\ IsFiniteSet(Heap(w, S \cup {x}))
           /\ Sum(w, S \cup {x}) = Sum(w, S) + w[x]
<1>1. Heap(w, S \cup {x}) = Heap(w, S) \cup ({x} \X (1 .. w[x]))
  BY DEF Heap
<1>2. Heap(w, S) \cap ({x} \X (1 .. w[x])) = {}
  BY DEF Heap
<1>3. IsFiniteSet(1 .. w[x]) /\ Cardinality(1 .. w[x]) = w[x]
  BY FS_Interval
<1>4. IsFiniteSet({x}) /\ Cardinality({x}) = 1
  BY FS_Singleton
<1>5. /\ IsFiniteSet({x} \X (1 .. w[x]))
      /\ Cardinality({x} \X (1 .. w[x])) = w[x]
  <2>1. /\ IsFiniteSet({x} \X (1 .. w[x]))
        /\ Cardinality({x} \X (1 .. w[x])) = Cardinality({x}) * Cardinality(1 .. w[x])
    BY <1>3, <1>4, FS_Product, Zenon
  <2>2. w[x] \in Nat
    OBVIOUS
  <2>3. Cardinality({x}) * Cardinality(1 .. w[x]) = 1 * w[x]
    BY <1>3, <1>4, Zenon
  <2>4. 1 * w[x] = w[x]
    BY <2>2
  <2> QED
    BY <2>1, <2>3, <2>4, Zenon
<1>6. /\ Cardinality(Heap(w, S)) \in Nat
      /\ Cardinality(Heap(w, S) \cap ({x} \X (1 .. w[x]))) = 0
  BY <1>2, FS_CardinalityType, FS_EmptySet
<1>7. /\ IsFiniteSet(Heap(w, S) \cup ({x} \X (1 .. w[x])))
      /\ Cardinality(Heap(w, S) \cup ({x} \X (1 .. w[x]))) =
           Cardinality(Heap(w, S)) + Cardinality({x} \X (1 .. w[x]))
             - Cardinality(Heap(w, S) \cap ({x} \X (1 .. w[x])))
  BY <1>5, FS_Union
<1>8. IsFiniteSet(Heap(w, S \cup {x}))
  BY <1>1, <1>7
<1>9. /\ Sum(w, S \cup {x}) = Sum(w, S) + Cardinality({x} \X (1 .. w[x]))
                                - Cardinality(Heap(w, S) \cap ({x} \X (1 .. w[x])))
      /\ Sum(w, S) \in Nat
  BY <1>1, <1>6, <1>7 DEF Sum
<1>10. w[x] \in Nat
  OBVIOUS
<1> QED
  BY <1>5, <1>6, <1>8, <1>9, <1>10

\* Of the subsets of a finite set with some property, one has the fewest members.
LEMMA FewestMembers ==
    ASSUME NEW D, IsFiniteSet(D), NEW C \in SUBSET SUBSET D, C # {}
    PROVE  \E S \in C : \A T \in C : Cardinality(S) <= Cardinality(T)
<1> DEFINE N == {Cardinality(S) : S \in C}
<1>1. \A S \in C : Cardinality(S) \in Nat
  BY FS_Subset, FS_CardinalityType
<1>2. N \in SUBSET Nat /\ N # {}
  BY <1>1
<1>3. PICK n \in N : \A m \in N : n <= m
  BY <1>2, LeastNat
<1> QED
  BY <1>3

\* The heap of a finite set is finite.
LEMMA HeapFinite ==
    ASSUME NEW D, IsFiniteSet(D), NEW w \in [D -> Nat], NEW S \in SUBSET D
    PROVE  IsFiniteSet(Heap(w, S))
<1> DEFINE C == {T \in SUBSET D : ~IsFiniteSet(Heap(w, T))}
<1> SUFFICES ASSUME C # {} PROVE FALSE
  OBVIOUS
<1>1. PICK T \in C : \A U \in C : Cardinality(T) <= Cardinality(U)
  BY FewestMembers
<1>2. T # {}
  <2>1. Heap(w, {}) = {}
    BY DEF Heap
  <2> QED
    BY <2>1, FS_EmptySet
<1>3. PICK x \in T : TRUE
  BY <1>2
<1>4. IsFiniteSet(T) /\ Cardinality(T \ {x}) = Cardinality(T) - 1 /\ Cardinality(T) \in Nat
  BY FS_Subset, FS_RemoveElement, FS_CardinalityType
<1>5. IsFiniteSet(Heap(w, T \ {x}))
  <2>1. T \ {x} \notin C
    BY <1>1, <1>4
  <2> QED
    BY <2>1
<1>6. (T \ {x}) \cup {x} = T /\ x \in D
  OBVIOUS
<1>7. IsFiniteSet(Heap(w, (T \ {x}) \cup {x}))
  BY <1>5, <1>6, HeapAdd
<1> QED
  BY <1>6, <1>7

\* A sum is a natural number, zero over none; it adds up over members and over disjoint sets,
\* and is zero over no other set where each member weighs something.
LEMMA SumAdd ==
    ASSUME NEW D, IsFiniteSet(D), NEW w \in [D -> Nat], NEW S \in SUBSET D
    PROVE  /\ Sum(w, S) \in Nat
           /\ Sum(w, {}) = 0
           /\ \A x \in D \ S : Sum(w, S \cup {x}) = Sum(w, S) + w[x]
           /\ \A x \in S : Sum(w, S \ {x}) = Sum(w, S) - w[x]
<1>1. \A T \in SUBSET D : IsFiniteSet(Heap(w, T)) /\ Sum(w, T) \in Nat
  BY HeapFinite, FS_CardinalityType DEF Sum
<1>2. Sum(w, {}) = 0
  <2>1. Heap(w, {}) = {}
    BY DEF Heap
  <2> QED
    BY <2>1, FS_EmptySet DEF Sum
<1>3. \A x \in D \ S : Sum(w, S \cup {x}) = Sum(w, S) + w[x]
  BY <1>1, HeapAdd
<1>4. ASSUME NEW x \in S PROVE Sum(w, S \ {x}) = Sum(w, S) - w[x]
  <2>1. S = (S \ {x}) \cup {x} /\ w[x] \in Nat
    OBVIOUS
  <2>2. Sum(w, (S \ {x}) \cup {x}) = Sum(w, S \ {x}) + w[x]
    <3>1. S \ {x} \in SUBSET D /\ x \in D /\ x \notin S \ {x}
      OBVIOUS
    <3>2. IsFiniteSet(Heap(w, S \ {x}))
      BY <1>1, <3>1
    <3> QED
      BY <3>1, <3>2, HeapAdd
  <2>3. Sum(w, S) = Sum(w, S \ {x}) + w[x]
    BY <2>1, <2>2
  <2> QED
    BY <1>1, <2>1, <2>3
<1> QED
  BY <1>1, <1>2, <1>3, <1>4

\* The weight of a union of two sets apart is the weights of both together.
LEMMA SumSplit ==
    ASSUME NEW D, IsFiniteSet(D), NEW w \in [D -> Nat], NEW S \in SUBSET D, NEW T \in SUBSET S
    PROVE  Sum(w, S) = Sum(w, T) + Sum(w, S \ T)
<1>1. Heap(w, S) = Heap(w, T) \cup Heap(w, S \ T)
  BY DEF Heap
<1>2. Heap(w, T) \cap Heap(w, S \ T) = {}
  BY DEF Heap
<1>3. IsFiniteSet(Heap(w, T)) /\ IsFiniteSet(Heap(w, S \ T))
  BY HeapFinite
<1>4. /\ Cardinality(Heap(w, T)) \in Nat /\ Cardinality(Heap(w, S \ T)) \in Nat
      /\ Cardinality(Heap(w, T) \cap Heap(w, S \ T)) = 0
  BY <1>2, <1>3, FS_CardinalityType, FS_EmptySet
<1>5. Cardinality(Heap(w, T) \cup Heap(w, S \ T)) =
        Cardinality(Heap(w, T)) + Cardinality(Heap(w, S \ T))
          - Cardinality(Heap(w, T) \cap Heap(w, S \ T))
  BY <1>3, FS_Union
<1> QED
  BY <1>1, <1>4, <1>5 DEF Sum

\* Only the weights of the set's own members count.
LEMMA SumSame ==
    ASSUME NEW w, NEW v, NEW S, \A x \in S : w[x] = v[x]
    PROVE  Sum(w, S) = Sum(v, S)
<1>1. Heap(w, S) = Heap(v, S)
  BY DEF Heap
<1> QED
  BY <1>1 DEF Sum

\* Renaming the members one to one keeps the sum.
LEMMA SumRenamed ==
    ASSUME NEW D, IsFiniteSet(D), NEW w \in [D -> Nat], NEW S \in SUBSET D, NEW f, NEW v,
           \A x, y \in S : f[x] = f[y] => x = y,
           \A x \in S : v[f[x]] = w[x]
    PROVE  Sum(v, {f[x] : x \in S}) = Sum(w, S)
<1> DEFINE H == Heap(w, S)
           K == Heap(v, {f[x] : x \in S})
           g == [h \in H |-> <<f[h[1]], h[2]>>]
<1>1. \A h \in H : h = <<h[1], h[2]>> /\ h[1] \in S /\ h[2] \in 1 .. w[h[1]]
  BY DEF Heap
<1>2. g \in [H -> K]
  <2> SUFFICES ASSUME NEW h \in H PROVE <<f[h[1]], h[2]>> \in K
    OBVIOUS
  <2>1. h[1] \in S /\ h[2] \in 1 .. v[f[h[1]]]
    BY <1>1
  <2> QED
    BY <2>1 DEF Heap
<1>3. \A h, k \in H : g[h] = g[k] => h = k
  BY <1>1
<1>4. \A k \in K : \E h \in H : g[h] = k
  <2> SUFFICES ASSUME NEW k \in K PROVE \E h \in H : g[h] = k
    OBVIOUS
  <2>1. PICK x \in S : k \in {f[x]} \X (1 .. v[f[x]])
    BY DEF Heap
  <2>2. k = <<f[x], k[2]>> /\ k[2] \in 1 .. w[x]
    BY <2>1
  <2>3. <<x, k[2]>> \in H
    BY <2>2 DEF Heap
  <2> QED
    BY <2>2, <2>3
<1>5. ExistsBijection(H, K)
  <2> HIDE DEF H, K, g
  <2>1. g \in Bijection(H, K)
    BY <1>2, <1>3, <1>4 DEF Bijection, Injection, Surjection, IsInjective
  <2> QED
    BY <2>1 DEF ExistsBijection
<1>6. IsFiniteSet(H)
  BY HeapFinite
<1> QED
  BY <1>5, <1>6, FS_Bijection DEF Sum

-----------------------------------------------------------------------------
\* The recursion of a fold that adds up weights, as `MapThenFoldSet` unfolds it.
FoldStep(w, S, f) ==
    [T \in SUBSET S |-> IF T = {} THEN 0
                        ELSE w[CHOOSE x \in T : TRUE] + f[T \ {CHOOSE x \in T : TRUE}]]

\* The fold that adds up the weights of a finite set is their sum.
LEMMA FoldSums ==
    ASSUME NEW D, IsFiniteSet(D), NEW w \in [D -> Nat]
    PROVE  LET f == CHOOSE g : g = FoldStep(w, D, g) IN f[D] = Sum(w, D)
<1> DEFINE Pick(T) == CHOOSE x \in T : TRUE
           sum == [T \in SUBSET D |-> Sum(w, T)]
           f == CHOOSE g : g = FoldStep(w, D, g)
<1>1. \A T \in SUBSET D : T # {} => Pick(T) \in T /\ T \ {Pick(T)} \in SUBSET D
  OBVIOUS
<1>2. \A T \in SUBSET D : T # {} => Sum(w, T) = w[Pick(T)] + Sum(w, T \ {Pick(T)})
  <2> SUFFICES ASSUME NEW T \in SUBSET D, T # {}
               PROVE  Sum(w, T) = w[Pick(T)] + Sum(w, T \ {Pick(T)})
    OBVIOUS
  <2>1. PICK x \in T : x = Pick(T)
    BY <1>1
  <2>2. Sum(w, T \ {x}) = Sum(w, T) - w[x] /\ Sum(w, T) \in Nat /\ w[x] \in Nat
    BY SumAdd
  <2>3. Sum(w, T) = w[x] + Sum(w, T \ {x})
    BY <2>2
  <2> QED
    BY <2>1, <2>3
<1>3. Sum(w, {}) = 0
  BY SumAdd
<1> HIDE DEF Pick
<1>4. sum = FoldStep(w, D, sum)
  BY <1>1, <1>2, <1>3 DEF FoldStep, Pick
<1>5. f = FoldStep(w, D, f)
  BY <1>4
<1>6. f = sum
  <2> DEFINE C == {T \in SUBSET D : f[T] # sum[T]}
  <2>1. DOMAIN f = SUBSET D /\ f = [T \in SUBSET D |-> f[T]]
    BY <1>5 DEF FoldStep
  <2>2. ASSUME C # {} PROVE FALSE
    <3>1. PICK T \in C : \A U \in C : Cardinality(T) <= Cardinality(U)
      BY <2>2, FewestMembers
    <3>2. T # {}
      BY <1>3, <1>5 DEF FoldStep
    <3>3. f[T] = w[Pick(T)] + f[T \ {Pick(T)}]
      BY <1>5, <3>2 DEF FoldStep, Pick
    <3>4. sum[T] = w[Pick(T)] + sum[T \ {Pick(T)}]
      BY <1>1, <1>2, <3>2
    <3>5. T \ {Pick(T)} \notin C
      <4>1. PICK x \in T : x = Pick(T)
        BY <1>1, <3>2
      <4>2. Cardinality(T \ {x}) = Cardinality(T) - 1 /\ Cardinality(T) \in Nat
        BY FS_Subset, FS_RemoveElement, FS_CardinalityType
      <4>3. ~(Cardinality(T) <= Cardinality(T \ {x}))
        BY <4>2
      <4> QED
        BY <3>1, <4>1, <4>3
    <3> QED
      BY <1>1, <3>2, <3>3, <3>4, <3>5
  <2> QED
    BY <2>1, <2>2
<1> QED
  BY <1>6

-----------------------------------------------------------------------------
\* One step further along a relation, from each member of `S`, and the least set that holds `B`
\* and is closed under the relation.
Grow(r, S) == UNION {{i} \cup r[i] : i \in S}
LeastClosed(D, B, r) ==
    {i \in D : \A S \in SUBSET D : B \subseteq S /\ (\A x \in S : r[x] \subseteq S) => i \in S}

\* As many steps as there are members reach the least closed set: each step adds one, or none is
\* left to add.
LEMMA Reach ==
    ASSUME NEW D, IsFiniteSet(D), NEW B \in SUBSET D, NEW r \in [D -> SUBSET D]
    PROVE  /\ Cardinality(D) \in Nat
           /\ \E h \in [0 .. Cardinality(D) -> SUBSET D] :
                /\ h[0] = B
                /\ \A n \in 1 .. Cardinality(D) : h[n] = Grow(r, h[n - 1])
                /\ h[Cardinality(D)] = LeastClosed(D, B, r)
<1> DEFINE N == Cardinality(D)
           Steps(n, h) == h[0] = B /\ \A m \in 1 .. n : h[m] = Grow(r, h[m - 1])
           L == LeastClosed(D, B, r)
<1>0. N \in Nat
  BY FS_CardinalityType
<1>1. \A S \in SUBSET D : Grow(r, S) \in SUBSET D /\ S \subseteq Grow(r, S)
  BY DEF Grow
<1>2. \A S \in SUBSET D : Grow(r, S) = S <=> \A x \in S : r[x] \subseteq S
  BY DEF Grow
<1>3. L \in SUBSET D /\ B \subseteq L /\ \A x \in L : r[x] \subseteq L
  BY DEF LeastClosed
<1>4. \A S \in SUBSET D : S \subseteq L => Grow(r, S) \subseteq L
  BY <1>3 DEF Grow
<1>5. \A n \in Nat : \E h \in [0 .. n -> SUBSET D] : Steps(n, h)
  <2> DEFINE Bad == {n \in Nat : ~ \E h \in [0 .. n -> SUBSET D] : Steps(n, h)}
  <2> SUFFICES ASSUME Bad # {} PROVE FALSE
    OBVIOUS
  <2>1. PICK n \in Bad : \A m \in Bad : n <= m
    <3>1. Bad \in SUBSET Nat
      OBVIOUS
    <3> QED
      BY <3>1, LeastNat
  <2>2. n # 0
    <3>1. [i \in 0 .. 0 |-> B] \in [0 .. 0 -> SUBSET D] /\ Steps(0, [i \in 0 .. 0 |-> B])
      OBVIOUS
    <3> QED
      BY <3>1
  <2>3. n - 1 \in Nat /\ n \in Nat /\ n - 1 \notin Bad
    BY <2>1, <2>2
  <2>4. PICK h \in [0 .. n - 1 -> SUBSET D] : Steps(n - 1, h)
    BY <2>3
  <2> DEFINE k == [m \in 0 .. n |-> IF m = n THEN Grow(r, h[n - 1]) ELSE h[m]]
  <2>5. k \in [0 .. n -> SUBSET D]
    <3>1. Grow(r, h[n - 1]) \in SUBSET D
      BY <1>1, <2>3
    <3>2. \A m \in 0 .. n : m # n => m \in 0 .. n - 1
      BY <2>3
    <3> QED
      BY <3>1, <3>2
  <2>6. Steps(n, k)
    <3>1. k[0] = B
      BY <2>2, <2>3, <2>4
    <3>2. ASSUME NEW m \in 1 .. n PROVE k[m] = Grow(r, k[m - 1])
      <4>1. m - 1 \in 0 .. n - 1 /\ m \in 0 .. n /\ m - 1 \in 0 .. n /\ m - 1 # n
        BY <2>3
      <4>2. k[m - 1] = h[m - 1]
        BY <4>1
      <4>3. CASE m = n
        BY <4>1, <4>2, <4>3
      <4>4. CASE m # n
        <5>1. m \in 1 .. n - 1
          BY <2>3, <4>4
        <5> QED
          BY <2>4, <4>1, <4>2, <4>4, <5>1
      <4> QED
        BY <4>3, <4>4
    <3> QED
      BY <3>1, <3>2
  <2> QED
    BY <2>3, <2>5, <2>6
<1>6. PICK h \in [0 .. N -> SUBSET D] : Steps(N, h)
  BY <1>0, <1>5
<1>7. \A n \in 0 .. N : B \subseteq h[n] /\ h[n] \subseteq L
  <2> DEFINE Bad == {n \in 0 .. N : ~(B \subseteq h[n] /\ h[n] \subseteq L)}
  <2> SUFFICES ASSUME Bad # {} PROVE FALSE
    OBVIOUS
  <2>1. PICK n \in Bad : \A m \in Bad : n <= m
    <3>1. Bad \in SUBSET Nat
      BY <1>0
    <3> QED
      BY <3>1, LeastNat
  <2>2. n # 0 /\ n \in 1 .. N /\ n - 1 \in 0 .. N
    BY <1>0, <1>3, <1>6
  <2>3. B \subseteq h[n - 1] /\ h[n - 1] \subseteq L
    BY <2>1, <2>2
  <2>4. h[n] = Grow(r, h[n - 1]) /\ h[n - 1] \in SUBSET D
    BY <1>6, <2>2
  <2>5. B \subseteq h[n] /\ h[n] \subseteq L
    BY <1>1, <1>4, <2>3, <2>4
  <2> QED
    BY <2>5
<1>8. \A n \in 0 .. N : Cardinality(h[n]) >= n \/ Grow(r, h[n]) = h[n]
  <2> DEFINE Bad == {n \in 0 .. N : ~(Cardinality(h[n]) >= n \/ Grow(r, h[n]) = h[n])}
  <2> SUFFICES ASSUME Bad # {} PROVE FALSE
    OBVIOUS
  <2>1. PICK n \in Bad : \A m \in Bad : n <= m
    <3>1. Bad \in SUBSET Nat
      BY <1>0
    <3> QED
      BY <3>1, LeastNat
  <2>2. \A m \in 0 .. N : Cardinality(h[m]) \in Nat /\ IsFiniteSet(h[m])
    BY FS_Subset, FS_CardinalityType
  <2>3. n # 0 /\ n \in 1 .. N /\ n - 1 \in 0 .. N /\ n \in 0 .. N
    <3>1. n \in 0 .. N /\ Cardinality(h[n]) \in Nat /\ ~(Cardinality(h[n]) >= n)
      BY <2>2
    <3> QED
      BY <1>0, <3>1
  <2>4. Cardinality(h[n - 1]) >= n - 1 \/ Grow(r, h[n - 1]) = h[n - 1]
    <3>1. n - 1 \notin Bad
      BY <2>1, <2>3
    <3> QED
      BY <2>3, <3>1
  <2>5. h[n] = Grow(r, h[n - 1]) /\ h[n - 1] \in SUBSET D
    BY <1>6, <2>3
  <2>6. Grow(r, h[n - 1]) # h[n - 1]
    BY <2>5
  <2>7. h[n - 1] \subseteq h[n] /\ h[n - 1] # h[n]
    BY <1>1, <2>5, <2>6
  <2>8. Cardinality(h[n - 1]) < Cardinality(h[n])
    BY <2>2, <2>3, <2>7, FS_Subset
  <2> QED
    BY <2>2, <2>3, <2>4, <2>6, <2>8
<1>9. h[N] \in SUBSET D /\ Grow(r, h[N]) = h[N]
  <2>1. h[N] \in SUBSET D
    BY <1>0
  <2>2. CASE Cardinality(h[N]) >= N
    <3>1. Cardinality(h[N]) <= N /\ (Cardinality(h[N]) = N => h[N] = D) /\ Cardinality(h[N]) \in Nat
      BY <2>1, FS_Subset, FS_CardinalityType
    <3>2. h[N] = D
      BY <1>0, <2>2, <3>1
    <3> QED
      BY <1>1, <3>2
  <2> QED
    BY <1>0, <1>8, <2>1, <2>2
<1>10. L \subseteq h[N]
  BY <1>0, <1>2, <1>7, <1>9 DEF LeastClosed
<1>11. h[N] = L
  <2>1. N \in 0 .. N
    BY <1>0
  <2>2. h[N] \subseteq L
    BY <1>7, <2>1
  <2> HIDE DEF L
  <2> QED
    BY <1>10, <2>2
<1> QED
  BY <1>0, <1>6, <1>11
=============================================================================
