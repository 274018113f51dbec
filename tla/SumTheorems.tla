---------------------------- MODULE SumTheorems ----------------------------
(***************************************************************************)
(* Sums over finite sets.  A sum of naturals is the number of elements of a *)
(* disjoint union, which solves the recursive equation the fold is defined  *)
(* by; that nothing else solves it goes by a least subset on which two      *)
(* solutions differ.  With it, facts about sums are facts about sets.       *)
(***************************************************************************)
EXTENDS Integers, FiniteSets, FiniteSetsExt, FiniteSetTheorems, TLAPS

\* A set of naturals that is not empty has a least one.
LEMMA LeastNatural ==
    ASSUME NEW T, T \subseteq Nat, T # {}
    PROVE  \E n \in T : \A m \in T : n <= m
<1>. DEFINE R == {ss \in Nat \X Nat : ss[1] < ss[2]}
<1>1. IsWellFoundedOn(R, Nat)
  BY NatLessThanWellFounded DEF OpToRel
<1>2. PICK n \in T : \A m \in T : ~(<<m, n>> \in R)
  <2>. HIDE DEF R
  <2>. QED
    BY <1>1, WFMin
<1>3. ASSUME NEW m \in T PROVE n <= m
  <2>1. m \in Nat /\ n \in Nat
    OBVIOUS
  <2>2. ~(<<m, n>> \in R)
    BY <1>2
  <2>3. ~(m < n)
    BY <2>1, <2>2
  <2>. QED
    BY <2>1, <2>3
<1>. QED
  BY <1>2, <1>3

LEMMA MinNatural ==
    ASSUME NEW T, T \subseteq Nat, T # {}
    PROVE  Min(T) \in T /\ \A m \in T : Min(T) <= m
<1>1. \E n \in T : \A m \in T : n <= m
  BY LeastNatural
<1>. QED
  BY <1>1 DEF Min

\* And one that is bounded has a greatest.
LEMMA GreatestNatural ==
    ASSUME NEW N \in Nat, NEW T, T \subseteq 0 .. N, T # {}
    PROVE  Max(T) \in T /\ \A m \in T : m <= Max(T)
<1>. DEFINE D == {N - m : m \in T}
<1>1. D \subseteq Nat /\ D # {}
  <2>1. \A m \in T : N - m \in Nat
    OBVIOUS
  <2>2. PICK m \in T : TRUE
    OBVIOUS
  <2>3. N - m \in D
    OBVIOUS
  <2>. QED
    BY <2>1, <2>3
<1>2. PICK d \in D : \A e \in D : d <= e
  <2>. HIDE DEF D
  <2>. QED
    BY <1>1, LeastNatural
<1>3. PICK n \in T : d = N - n
  BY <1>2
<1>4. \A m \in T : n >= m
  <2>. SUFFICES ASSUME NEW m \in T PROVE n >= m
    OBVIOUS
  <2>1. N - m \in D /\ m \in Int /\ n \in Int
    OBVIOUS
  <2>2. N - n <= N - m
    BY <1>2, <1>3, <2>1
  <2>. HIDE DEF D
  <2>. QED
    BY <2>1, <2>2
<1>5. Max(T) \in T /\ \A m \in T : Max(T) >= m
  BY <1>4 DEF Max
<1>6. \A m \in T : m \in Int
  OBVIOUS
<1>. QED
  BY <1>5, <1>6

\* The element the fold takes out of s first.
First(s) == CHOOSE x \in s : TRUE

\* One unfolding of the sum of f over the subsets of S.
Unfold(f, S, h) == [s \in SUBSET S |-> IF s = {} THEN 0 ELSE f[First(s)] + h[s \ {First(s)}]]

LEMMA FirstIsIn == \A s : s # {} => First(s) \in s
BY DEF First

\* The sum is a solution of the equation, if the equation has one.
LEMMA SumUnfolds ==
    ASSUME NEW S, NEW f, NEW g, g = Unfold(f, S, g)
    PROVE  \E h : SumFunctionOnSet(f, S) = h[S] /\ h = Unfold(f, S, h)
<1>. DEFINE iter == CHOOSE h : h = Unfold(f, S, h)
<1>1. SumFunctionOnSet(f, S) = iter[S]
  BY DEF SumFunctionOnSet, FoldFunctionOnSet, MapThenFoldSet, Unfold, First
<1>2. iter = Unfold(f, S, iter)
  OBVIOUS
<1>. QED
  BY <1>1, <1>2

\* A nonempty set of subsets of a finite set has one that is least.
LEMMA LeastSubset ==
    ASSUME NEW S, IsFiniteSet(S), NEW T, T \subseteq SUBSET S, T # {}
    PROVE  \E s \in T : \A t \in T : t \subseteq s => t = s
<1>1. IsWellFoundedOn(StrictSubsetOrdering(S), SUBSET S)
  BY FS_StrictSubsetOrderingWellFounded, FS_FiniteSubsetsOfFinite
<1>2. PICK s \in T : \A t \in T : ~(<<t, s>> \in StrictSubsetOrdering(S))
  BY <1>1, WFMin
<1>3. s \in T /\ \A t \in T : t \subseteq s => t = s
  BY <1>2 DEF StrictSubsetOrdering
<1>. QED
  BY <1>3, Zenon

\* It has no more than one.
LEMMA UnfoldUnique ==
    ASSUME NEW S, IsFiniteSet(S), NEW f, NEW g, NEW h,
           g = Unfold(f, S, g), h = Unfold(f, S, h)
    PROVE  g[S] = h[S]
<1>. DEFINE T == {s \in SUBSET S : g[s] # h[s]}
<1>1. SUFFICES ASSUME T # {} PROVE FALSE
  OBVIOUS
<1>2. PICK s \in T : \A t \in T : t \subseteq s => t = s
  <2>1. T \subseteq SUBSET S
    OBVIOUS
  <2>. HIDE DEF T
  <2>. QED
    BY <1>1, <2>1, LeastSubset
<1>3. s \in SUBSET S /\ g[s] # h[s]
  BY <1>2
<1>4. \A t \in SUBSET S : /\ g[t] = IF t = {} THEN 0 ELSE f[First(t)] + g[t \ {First(t)}]
                          /\ h[t] = IF t = {} THEN 0 ELSE f[First(t)] + h[t \ {First(t)}]
  BY DEF Unfold
<1>5. s # {}
  BY <1>3, <1>4
<1>6. s \ {First(s)} \in SUBSET S /\ s \ {First(s)} # s /\ s \ {First(s)} \subseteq s
  BY <1>3, <1>5, FirstIsIn
<1>7. g[s \ {First(s)}] = h[s \ {First(s)}]
  BY <1>2, <1>6
<1>. QED
  BY <1>3, <1>4, <1>5, <1>7

\* The size of a union of two disjoint sets.
LEMMA DisjointSize ==
    ASSUME NEW A, NEW B, IsFiniteSet(A), IsFiniteSet(B), A \cap B = {}
    PROVE  /\ IsFiniteSet(A \cup B) /\ Cardinality(A) \in Nat /\ Cardinality(B) \in Nat
           /\ Cardinality(A \cup B) = Cardinality(A) + Cardinality(B)
<1>1. Cardinality(A \cap B) = 0
  BY FS_EmptySet
<1>2. /\ IsFiniteSet(A \cup B)
      /\ Cardinality(A \cup B) = Cardinality(A) + Cardinality(B) - Cardinality(A \cap B)
  BY FS_Union
<1>3. Cardinality(A) \in Nat /\ Cardinality(B) \in Nat
  BY FS_CardinalityType
<1>. QED
  BY <1>1, <1>2, <1>3

LEMMA IntervalSize ==
    ASSUME NEW n \in Nat PROVE IsFiniteSet(1 .. n) /\ Cardinality(1 .. n) = n
<1>1. 1 \in Int /\ n \in Int
  OBVIOUS
<1>2. IsFiniteSet(1 .. n) /\ Cardinality(1 .. n) = IF 1 > n THEN 0 ELSE n - 1 + 1
  BY <1>1, FS_Interval
<1>. QED
  BY <1>2

\* X cuts V into parts of the sizes f.
Cuts(f, S, X, V) ==
    /\ \A i \in S : IsFiniteSet(X[i]) /\ f[i] = Cardinality(X[i])
    /\ \A i, j \in S : i # j => X[i] \cap X[j] = {}
    /\ V = UNION {X[i] : i \in S}

\* The sum of the sizes of disjoint sets is the size of their union.
LEMMA SumOfParts ==
    ASSUME NEW S, IsFiniteSet(S), NEW X, NEW f, NEW V, Cuts(f, S, X, V)
    PROVE  IsFiniteSet(V) /\ SumFunctionOnSet(f, S) = Cardinality(V)
<1>a. \A i \in S : IsFiniteSet(X[i]) /\ f[i] = Cardinality(X[i])
  BY DEF Cuts
<1>b. \A i, j \in S : i # j => X[i] \cap X[j] = {}
  BY DEF Cuts
<1>c. V = UNION {X[i] : i \in S}
  BY DEF Cuts
<1>. DEFINE U(s) == UNION {X[i] : i \in s}
            g == [s \in SUBSET S |-> Cardinality(U(s))]
<1>1. ASSUME NEW s \in SUBSET S PROVE IsFiniteSet(U(s))
  <2>1. IsFiniteSet(s)
    BY FS_Subset
  <2>. DEFINE F == {X[i] : i \in s}
              m == [i \in s |-> X[i]]
  <2>2. m \in Surjection(s, F)
    BY DEF Surjection
  <2>3. IsFiniteSet(F)
    BY <2>1, <2>2, FS_Surjection
  <2>4. \A t \in F : IsFiniteSet(t)
    BY <1>a
  <2>. QED
    BY <2>3, <2>4, FS_UNION
<1>2. ASSUME NEW s \in SUBSET S, NEW x \in s
      PROVE  Cardinality(U(s)) = f[x] + Cardinality(U(s \ {x}))
  <2>1. U(s) = X[x] \cup U(s \ {x}) /\ X[x] \cap U(s \ {x}) = {}
    BY <1>b
  <2>2. IsFiniteSet(X[x]) /\ IsFiniteSet(U(s \ {x})) /\ x \in S
    BY <1>1, <1>a
  <2>. DEFINE A == X[x]
              B == U(s \ {x})
  <2>3. U(s) = A \cup B /\ A \cap B = {} /\ IsFiniteSet(A) /\ IsFiniteSet(B)
    BY <2>1, <2>2
  <2>4. f[x] = Cardinality(A)
    BY <1>a, <2>2
  <2>. HIDE DEF A, B
  <2>5. Cardinality(A \cup B) = Cardinality(A) + Cardinality(B)
    BY <2>3, DisjointSize
  <2>. QED
    BY <2>3, <2>4, <2>5 DEF B
<1>3. Cardinality(U({})) = 0
  <2>1. U({}) = {}
    OBVIOUS
  <2>. QED
    BY <2>1, FS_EmptySet
<1>. HIDE DEF U
<1>4. g = Unfold(f, S, g)
  <2>1. ASSUME NEW s \in SUBSET S
        PROVE  g[s] = IF s = {} THEN 0 ELSE f[First(s)] + g[s \ {First(s)}]
    <3>1. CASE s = {}
      BY <1>3, <3>1
    <3>2. CASE s # {}
      <4>1. First(s) \in s /\ s \ {First(s)} \in SUBSET S
        BY <3>2, FirstIsIn
      <4>. QED
        BY <1>2, <3>2, <4>1
    <3>. QED
      BY <3>1, <3>2
  <2>. QED
    BY <2>1 DEF Unfold
<1>5. PICK h : SumFunctionOnSet(f, S) = h[S] /\ h = Unfold(f, S, h)
  <2>. HIDE DEF g
  <2>. QED
    BY <1>4, SumUnfolds
<1>6. g[S] = h[S]
  <2>. HIDE DEF g
  <2>. QED
    BY <1>4, <1>5, UnfoldUnique
<1>. QED
  BY <1>1, <1>5, <1>6, <1>c DEF U

LEMMA SumOfSizes ==
    ASSUME NEW S, IsFiniteSet(S), NEW X, NEW f,
           \A i \in S : IsFiniteSet(X[i]) /\ f[i] = Cardinality(X[i]),
           \A i, j \in S : i # j => X[i] \cap X[j] = {}
    PROVE  /\ IsFiniteSet(UNION {X[i] : i \in S})
           /\ SumFunctionOnSet(f, S) = Cardinality(UNION {X[i] : i \in S})
<1>. DEFINE V == UNION {X[i] : i \in S}
<1>1. Cuts(f, S, X, V)
  BY DEF Cuts
<1>. HIDE DEF V
<1>2. IsFiniteSet(V) /\ SumFunctionOnSet(f, S) = Cardinality(V)
  BY <1>1, SumOfParts
<1>. QED
  BY <1>2 DEF V

\* The units a sum of naturals counts.
UnitsOf(f, S) == UNION {{i} \X (1 .. f[i]) : i \in S}

LEMMA UnitFacts == \A f, S, u : u \in UnitsOf(f, S) <=> \E i \in S : \E k \in 1 .. f[i] : u = <<i, k>>
BY DEF UnitsOf

LEMMA SumIsUnits ==
    ASSUME NEW S, IsFiniteSet(S), NEW f, \A i \in S : f[i] \in Nat
    PROVE  /\ IsFiniteSet(UnitsOf(f, S)) /\ SumFunctionOnSet(f, S) \in Nat
           /\ SumFunctionOnSet(f, S) = Cardinality(UnitsOf(f, S))
<1>. DEFINE X == [i \in S |-> {i} \X (1 .. f[i])]
<1>1. ASSUME NEW i \in S PROVE IsFiniteSet(X[i]) /\ f[i] = Cardinality(X[i])
  <2>1. f[i] \in Nat
    OBVIOUS
  <2>2. IsFiniteSet({i}) /\ Cardinality({i}) = 1
    BY FS_Singleton
  <2>3. IsFiniteSet(1 .. f[i]) /\ Cardinality(1 .. f[i]) = f[i]
    BY <2>1, IntervalSize
  <2>4. /\ IsFiniteSet({i} \X (1 .. f[i]))
        /\ Cardinality({i} \X (1 .. f[i])) = Cardinality({i}) * Cardinality(1 .. f[i])
    BY <2>2, <2>3, FS_Product
  <2>. QED
    BY <2>1, <2>2, <2>3, <2>4
<1>2. \A i, j \in S : i # j => X[i] \cap X[j] = {}
  OBVIOUS
<1>3. UnitsOf(f, S) = UNION {X[i] : i \in S}
  BY DEF UnitsOf
<1>. HIDE DEF X
<1>4. IsFiniteSet(UnitsOf(f, S)) /\ SumFunctionOnSet(f, S) = Cardinality(UnitsOf(f, S))
  BY <1>1, <1>2, <1>3, SumOfSizes
<1>. QED
  BY <1>4, FS_CardinalityType

\* A sum goes by the values there are.
LEMMA SumSame ==
    ASSUME NEW S, IsFiniteSet(S), NEW f, NEW g, \A i \in S : f[i] \in Nat /\ g[i] = f[i]
    PROVE  SumFunctionOnSet(f, S) = SumFunctionOnSet(g, S)
<1>1. UnitsOf(f, S) = UnitsOf(g, S)
  BY DEF UnitsOf
<1>. QED
  BY <1>1, SumIsUnits

\* The sum over two sets that have nothing in common.
LEMMA SumSplits ==
    ASSUME NEW A, NEW B, IsFiniteSet(A), IsFiniteSet(B), A \cap B = {},
           NEW f, \A i \in A \cup B : f[i] \in Nat
    PROVE  /\ SumFunctionOnSet(f, A) \in Nat /\ SumFunctionOnSet(f, B) \in Nat
           /\ SumFunctionOnSet(f, A \cup B) = SumFunctionOnSet(f, A) + SumFunctionOnSet(f, B)
<1>1. IsFiniteSet(A \cup B)
  BY FS_Union
<1>2. /\ IsFiniteSet(UnitsOf(f, A)) /\ SumFunctionOnSet(f, A) \in Nat
      /\ SumFunctionOnSet(f, A) = Cardinality(UnitsOf(f, A))
  BY SumIsUnits
<1>3. /\ IsFiniteSet(UnitsOf(f, B)) /\ SumFunctionOnSet(f, B) \in Nat
      /\ SumFunctionOnSet(f, B) = Cardinality(UnitsOf(f, B))
  BY SumIsUnits
<1>4. SumFunctionOnSet(f, A \cup B) = Cardinality(UnitsOf(f, A \cup B))
  BY <1>1, SumIsUnits
<1>5. UnitsOf(f, A \cup B) = UnitsOf(f, A) \cup UnitsOf(f, B) /\ UnitsOf(f, A) \cap UnitsOf(f, B) = {}
  BY DEF UnitsOf
<1>6. Cardinality(UnitsOf(f, A) \cup UnitsOf(f, B)) = Cardinality(UnitsOf(f, A)) + Cardinality(UnitsOf(f, B))
  BY <1>2, <1>3, <1>5, DisjointSize
<1>. QED
  BY <1>2, <1>3, <1>4, <1>5, <1>6

\* The sum over nothing, and over one element.
LEMMA SumOfNone == \A f : SumFunctionOnSet(f, {}) = 0
<1>. SUFFICES ASSUME NEW f PROVE SumFunctionOnSet(f, {}) = 0
  OBVIOUS
<1>1. IsFiniteSet({}) /\ UnitsOf(f, {}) = {}
  BY FS_EmptySet DEF UnitsOf
<1>. QED
  BY <1>1, SumIsUnits, FS_EmptySet

LEMMA SumOfOne ==
    ASSUME NEW f, NEW x, f[x] \in Nat PROVE SumFunctionOnSet(f, {x}) = f[x]
<1>1. IsFiniteSet({x}) /\ UnitsOf(f, {x}) = {x} \X (1 .. f[x])
  BY FS_Singleton DEF UnitsOf
<1>2. Cardinality({x} \X (1 .. f[x])) = f[x]
  <2>1. IsFiniteSet({x}) /\ Cardinality({x}) = 1
    BY FS_Singleton
  <2>2. IsFiniteSet(1 .. f[x]) /\ Cardinality(1 .. f[x]) = f[x]
    BY IntervalSize
  <2>3. Cardinality({x} \X (1 .. f[x])) = Cardinality({x}) * Cardinality(1 .. f[x])
    BY <2>1, <2>2, FS_Product
  <2>. QED
    BY <2>1, <2>2, <2>3
<1>. QED
  BY <1>1, <1>2, SumIsUnits

\* The sum of nothing but zeros, and what one unit more makes of a sum.
LEMMA SumOfZeros ==
    ASSUME NEW S, IsFiniteSet(S), NEW f, \A i \in S : f[i] = 0
    PROVE  SumFunctionOnSet(f, S) = 0
<1>1. UnitsOf(f, S) = {}
  BY DEF UnitsOf
<1>2. \A i \in S : f[i] \in Nat
  OBVIOUS
<1>. QED
  BY <1>1, <1>2, SumIsUnits, FS_EmptySet

LEMMA SumOfOneMore ==
    ASSUME NEW S, IsFiniteSet(S), NEW x \in S, NEW f, NEW g,
           \A i \in S : f[i] \in Nat, g[x] = f[x] + 1, \A i \in S \ {x} : g[i] = f[i]
    PROVE  SumFunctionOnSet(g, S) = SumFunctionOnSet(f, S) + 1
<1>. DEFINE A == S \ {x}
            B == {x}
<1>1. /\ IsFiniteSet(A) /\ IsFiniteSet(B) /\ A \cap B = {} /\ A \cup B = S
      /\ \A i \in A : f[i] \in Nat /\ g[i] = f[i]
      /\ \A i \in A \cup B : f[i] \in Nat /\ g[i] \in Nat
  <2>1. IsFiniteSet(A) /\ IsFiniteSet(B)
    BY FS_Subset, FS_Singleton
  <2>2. g[x] \in Nat
    OBVIOUS
  <2>. QED
    BY <2>1, <2>2
<1>2. SumFunctionOnSet(f, B) = f[x] /\ SumFunctionOnSet(g, B) = f[x] + 1 /\ f[x] \in Nat
  BY SumOfOne
<1>. HIDE DEF A, B
<1>3. SumFunctionOnSet(f, A) = SumFunctionOnSet(g, A)
  BY <1>1, SumSame
<1>4. /\ SumFunctionOnSet(f, A) \in Nat
      /\ SumFunctionOnSet(f, A \cup B) = SumFunctionOnSet(f, A) + SumFunctionOnSet(f, B)
  BY <1>1, SumSplits
<1>5. SumFunctionOnSet(g, A \cup B) = SumFunctionOnSet(g, A) + SumFunctionOnSet(g, B)
  BY <1>1, SumSplits
<1>6. /\ SumFunctionOnSet(f, A \cup B) = SumFunctionOnSet(f, S)
      /\ SumFunctionOnSet(g, A \cup B) = SumFunctionOnSet(g, S)
  BY <1>1, Zenon
<1>. QED
  BY <1>2, <1>3, <1>4, <1>5, <1>6

\* A sum over more is no smaller.
LEMMA SumGrows ==
    ASSUME NEW B, IsFiniteSet(B), NEW A, A \subseteq B, NEW f, \A i \in B : f[i] \in Nat
    PROVE  SumFunctionOnSet(f, A) <= SumFunctionOnSet(f, B)
<1>. DEFINE C == B \ A
<1>1. IsFiniteSet(A) /\ IsFiniteSet(C) /\ A \cap C = {} /\ A \cup C = B
  BY FS_Subset
<1>. HIDE DEF C
<1>2. /\ SumFunctionOnSet(f, A) \in Nat /\ SumFunctionOnSet(f, C) \in Nat
      /\ SumFunctionOnSet(f, A \cup C) = SumFunctionOnSet(f, A) + SumFunctionOnSet(f, C)
  BY <1>1, SumSplits
<1>3. SumFunctionOnSet(f, A \cup C) = SumFunctionOnSet(f, B)
  BY <1>1, Zenon
<1>. QED
  BY <1>2, <1>3

\* No term is larger than the sum.
LEMMA TermInSum ==
    ASSUME NEW S, IsFiniteSet(S), NEW x \in S, NEW f, \A i \in S : f[i] \in Nat
    PROVE  f[x] <= SumFunctionOnSet(f, S)
<1>1. {x} \subseteq S /\ f[x] \in Nat
  OBVIOUS
<1>2. SumFunctionOnSet(f, {x}) <= SumFunctionOnSet(f, S)
  BY <1>1, SumGrows
<1>3. SumFunctionOnSet(f, {x}) = f[x]
  BY <1>1, SumOfOne
<1>. QED
  BY <1>2, <1>3

=============================================================================
