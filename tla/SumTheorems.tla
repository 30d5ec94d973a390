---------------------------- MODULE SumTheorems ----------------------------
(***************************************************************************)
(* Sums of a function over a finite set, Functions!SumFunctionOnSet.       *)
(*                                                                         *)
(* The library's induction theorems take a predicate; here induction is an *)
(* argument about the least element of a set of numbers, or the smallest   *)
(* of a set of subsets, that violates what is to be shown.                 *)
(***************************************************************************)
EXTENDS Functions, Integers, FiniteSetTheorems, WellFoundedInduction, TLAPS

Least(T) == CHOOSE x \in T : TRUE

\* f adds up the values of h over each subset of S, an element at a time.
AddsUp(f, h, S) ==
    f = [U \in SUBSET S |-> IF U = {} THEN 0 ELSE h[Least(U)] + f[U \ {Least(U)}]]

LEMMA NatLeast ==
    ASSUME NEW T \in SUBSET Nat, NEW n \in T
    PROVE  \E m \in T : \A k \in T : m <= k
<1> DEFINE R == OpToRel(<, Nat)
<1>1. IsWellFoundedOn(R, Nat)
  BY NatLessThanWellFounded
<1>2. \A x, y \in Nat : x < y => <<x, y>> \in R
  BY DEF OpToRel
<1> HIDE DEF R
<1>3. PICK m \in T : \A k \in T : ~ (<<k, m>> \in R)
  BY <1>1, WFMin
<1>4. \A k \in T : ~(k < m)
  BY <1>2, <1>3
<1>5. m \in Nat /\ \A k \in T : k \in Nat
  OBVIOUS
<1>6. \A k \in T : m <= k
  BY <1>4, <1>5
<1> QED
  BY <1>6

LEMMA SmallestBadSet ==
    ASSUME NEW S, NEW Bad, Bad \subseteq SUBSET S, Bad # {}, IsFiniteSet(S)
    PROVE  \E T \in Bad : \A U \in Bad : U \subseteq T => U = T
<1>1. IsWellFoundedOn(StrictSubsetOrdering(S), FiniteSubsetsOf(S))
  BY FS_StrictSubsetOrderingWellFounded
<1>2. Bad \subseteq FiniteSubsetsOf(S)
  BY FS_Subset DEF FiniteSubsetsOf
<1>3. PICK T \in Bad : \A U \in Bad : ~ (<<U, T>> \in StrictSubsetOrdering(S))
  BY <1>1, <1>2, WFMin
<1> QED
  BY <1>2, <1>3 DEF StrictSubsetOrdering, FiniteSubsetsOf

\* Adding up the subsets of at most n elements.
AddsUpTo(f, h, S, n) ==
    \A U \in SUBSET S :
        Cardinality(U) <= n => f[U] = IF U = {} THEN 0 ELSE h[Least(U)] + f[U \ {Least(U)}]

LEMMA LeastIn == \A U : U # {} => Least(U) \in U
BY DEF Least

LEMMA SomethingAddsUp ==
    ASSUME NEW h, NEW S, IsFiniteSet(S)
    PROVE  \E f : AddsUp(f, h, S)
<1> DEFINE Reached == {n \in Nat : \E f : DOMAIN f = SUBSET S /\ AddsUpTo(f, h, S, n)}
<1>0. \A U \in SUBSET S : IsFiniteSet(U) /\ Cardinality(U) \in Nat
  BY FS_Subset, FS_CardinalityType
<1>1. 0 \in Reached
  <2> DEFINE f == [U \in SUBSET S |-> 0]
  <2>1. \A U \in SUBSET S : Cardinality(U) <= 0 => U = {}
    <3> SUFFICES ASSUME NEW U \in SUBSET S, Cardinality(U) <= 0 PROVE U = {}
      OBVIOUS
    <3>1. Cardinality(U) = 0
      BY <1>0
    <3> QED
      BY <1>0, <3>1, FS_EmptySet
  <2>2. AddsUpTo(f, h, S, 0)
    BY <2>1 DEF AddsUpTo
  <2> QED
    BY <2>2
<1>2. ASSUME NEW n \in Nat, n \in Reached PROVE n + 1 \in Reached
  <2>1. PICK f : DOMAIN f = SUBSET S /\ AddsUpTo(f, h, S, n)
    BY <1>2
  <2> DEFINE g == [U \in SUBSET S |->
                    IF Cardinality(U) <= n THEN f[U]
                    ELSE IF U = {} THEN 0 ELSE h[Least(U)] + f[U \ {Least(U)}]]
  <2>2. ASSUME NEW U \in SUBSET S, U # {}, Cardinality(U) <= n + 1
        PROVE  /\ U \ {Least(U)} \in SUBSET S
               /\ Cardinality(U \ {Least(U)}) <= n
    <3>1. Cardinality(U \ {Least(U)}) = Cardinality(U) - 1
      BY <1>0, <2>2, LeastIn, FS_RemoveElement
    <3> QED
      BY <1>0, <2>2, <3>1
  <2>3. AddsUpTo(g, h, S, n + 1)
    <3> SUFFICES ASSUME NEW U \in SUBSET S, Cardinality(U) <= n + 1
                 PROVE  g[U] = IF U = {} THEN 0 ELSE h[Least(U)] + g[U \ {Least(U)}]
      BY DEF AddsUpTo
    <3>1. CASE U = {}
      <4>1. CASE Cardinality(U) <= n
        BY <3>1, <4>1, <2>1 DEF AddsUpTo
      <4>2. CASE ~(Cardinality(U) <= n)
        BY <3>1, <4>2
      <4> QED
        BY <4>1, <4>2
    <3>2. CASE U # {}
      <4>1. g[U \ {Least(U)}] = f[U \ {Least(U)}]
        BY <2>2, <3>2
      <4>2. g[U] = h[Least(U)] + f[U \ {Least(U)}]
        <5>1. CASE Cardinality(U) <= n
          BY <3>2, <5>1, <2>1 DEF AddsUpTo
        <5>2. CASE ~(Cardinality(U) <= n)
          BY <3>2, <5>2
        <5> QED
          BY <5>1, <5>2
      <4> QED
        BY <3>2, <4>1, <4>2
    <3> QED
      BY <3>1, <3>2
  <2> QED
    <3>1. DOMAIN g = SUBSET S
      OBVIOUS
    <3> HIDE DEF g
    <3> QED
      BY <2>3, <3>1
<1> HIDE DEF Reached
<1>3. Cardinality(S) \in Reached
  <2> DEFINE Missed == Nat \ Reached
  <2>1. CASE Missed = {}
    BY <2>1, <1>0
  <2>2. CASE Missed # {}
    <3>1. PICK m \in Missed : \A k \in Missed : m <= k
      BY <2>2, NatLeast
    <3>2. m # 0 /\ m - 1 \in Nat
      BY <1>1
    <3>3. m - 1 \in Reached
      BY <3>1, <3>2
    <3>4. m \in Reached
      <4>1. (m - 1) + 1 = m
        OBVIOUS
      <4> QED
        BY <1>2, <3>2, <3>3, <4>1
    <3> QED
      BY <3>4
  <2> QED
    BY <2>1, <2>2
<1>4. PICK f : DOMAIN f = SUBSET S /\ AddsUpTo(f, h, S, Cardinality(S))
  BY <1>3 DEF Reached
<1>5. \A U \in SUBSET S : Cardinality(U) <= Cardinality(S)
  BY FS_Subset
<1> DEFINE g == [U \in SUBSET S |-> f[U]]
<1>6. AddsUp(g, h, S)
  <2>1. \A U \in SUBSET S : U \ {Least(U)} \in SUBSET S
    OBVIOUS
  <2> QED
    BY <1>4, <1>5, <2>1 DEF AddsUp, AddsUpTo
<1> QED
  BY <1>6

LEMMA OneAddsUp ==
    ASSUME NEW h, NEW f, NEW g, NEW S, NEW T, IsFiniteSet(S), S \subseteq T,
           AddsUp(f, h, S), AddsUp(g, h, T)
    PROVE  f[S] = g[S]
<1> DEFINE Bad == {U \in SUBSET S : f[U] # g[U]}
<1>1. CASE Bad = {}
  BY <1>1
<1>2. CASE Bad # {}
  <2>1. PICK U \in Bad : \A V \in Bad : V \subseteq U => V = U
    <3>1. Bad \subseteq SUBSET S
      OBVIOUS
    <3> HIDE DEF Bad
    <3> QED
      BY <1>2, <3>1, SmallestBadSet
  <2>2. U # {}
    BY DEF AddsUp
  <2>3. U \ {Least(U)} \notin Bad
    BY <2>1, <2>2, LeastIn
  <2>4. f[U \ {Least(U)}] = g[U \ {Least(U)}]
    BY <2>3
  <2> QED
    BY <2>2, <2>4 DEF AddsUp
<1> QED
  BY <1>1, <1>2

LEMMA SumUnfolds ==
    ASSUME NEW h, NEW S, IsFiniteSet(S)
    PROVE  \E f : AddsUp(f, h, S) /\ SumFunctionOnSet(h, S) = f[S]
<1>1. \E f : AddsUp(f, h, S)
  BY SomethingAddsUp
<1> QED
  BY <1>1 DEF SumFunctionOnSet, FoldFunctionOnSet, MapThenFoldSet, AddsUp, Least

LEMMA SumEmpty == ASSUME NEW h PROVE SumFunctionOnSet(h, {}) = 0
<1>1. PICK f : AddsUp(f, h, {}) /\ SumFunctionOnSet(h, {}) = f[{}]
  BY SumUnfolds, FS_EmptySet
<1> QED
  BY <1>1 DEF AddsUp

LEMMA SumLeast ==
    ASSUME NEW h, NEW S, IsFiniteSet(S), S # {}
    PROVE  SumFunctionOnSet(h, S) = h[Least(S)] + SumFunctionOnSet(h, S \ {Least(S)})
<1> DEFINE T == S \ {Least(S)}
<1>1. IsFiniteSet(T) /\ T \subseteq S
  BY FS_Subset
<1>2. PICK f : AddsUp(f, h, S) /\ SumFunctionOnSet(h, S) = f[S]
  BY SumUnfolds
<1>3. PICK g : AddsUp(g, h, T) /\ SumFunctionOnSet(h, T) = g[T]
  BY <1>1, SumUnfolds
<1>4. g[T] = f[T]
  BY <1>1, <1>2, <1>3, OneAddsUp
<1>5. f[S] = h[Least(S)] + f[T]
  BY <1>2 DEF AddsUp
<1> QED
  BY <1>2, <1>3, <1>4, <1>5

\* Any element may be taken out first.
LEMMA SumRemove ==
    ASSUME NEW h, NEW S, IsFiniteSet(S), NEW x \in S, \A y \in S : h[y] \in Int
    PROVE  /\ SumFunctionOnSet(h, S) = h[x] + SumFunctionOnSet(h, S \ {x})
           /\ SumFunctionOnSet(h, S) \in Int
<1> DEFINE Sum(T) == SumFunctionOnSet(h, T)
           Good(T) == /\ Sum(T) \in Int
                      /\ \A y \in T : Sum(T) = h[y] + Sum(T \ {y})
           Bad == {T \in SUBSET S : ~Good(T)}
<1>1. \A T \in SUBSET S : IsFiniteSet(T)
  BY FS_Subset
<1>2. \A T \in SUBSET S : T # {} => Sum(T) = h[Least(T)] + Sum(T \ {Least(T)})
  BY <1>1, SumLeast
<1>3. CASE Bad = {}
  BY <1>3
<1>4. CASE Bad # {}
  <2>1. PICK T \in Bad : \A V \in Bad : V \subseteq T => V = T
    <3>1. Bad \subseteq SUBSET S
      OBVIOUS
    <3> HIDE DEF Bad
    <3> QED
      BY <1>4, <3>1, SmallestBadSet
  <2>2. \A V \in SUBSET S : V \subseteq T /\ V # T => Good(V)
    BY <2>1
  <2>3. T \in SUBSET S /\ ~Good(T)
    OBVIOUS
  <2> HIDE DEF Sum, Good, Bad
  <2>4. CASE T = {}
    <3>1. Sum({}) = 0
      BY SumEmpty DEF Sum
    <3> QED
      BY <2>3, <2>4, <3>1 DEF Good
  <2>5. CASE T # {}
    <3> DEFINE c == Least(T)
    <3>1. c \in T
      BY <2>5, LeastIn
    <3> HIDE DEF c
    <3>2. Sum(T) = h[c] + Sum(T \ {c}) /\ Good(T \ {c})
      BY <1>2, <2>2, <2>3, <2>5, <3>1 DEF c
    <3>3. ASSUME NEW y \in T, y # c PROVE Sum(T) = h[y] + Sum(T \ {y})
      <4>1. Good(T \ {y})
        BY <2>2, <2>3
      <4>2. Sum(T \ {c}) = h[y] + Sum((T \ {c}) \ {y})
        BY <3>2, <3>3 DEF Good
      <4>3. Sum(T \ {y}) = h[c] + Sum((T \ {y}) \ {c})
        BY <3>1, <3>3, <4>1 DEF Good
      <4>4. (T \ {c}) \ {y} = (T \ {y}) \ {c}
        OBVIOUS
      <4>5. Good((T \ {c}) \ {y})
        BY <2>2, <2>3
      <4>6. Sum((T \ {c}) \ {y}) \in Int /\ h[c] \in Int /\ h[y] \in Int
        BY <2>3, <3>1, <3>3, <4>5 DEF Good
      <4> DEFINE p == Sum((T \ {c}) \ {y})
      <4>7. Sum(T \ {y}) = h[c] + p
        BY <4>3, <4>4
      <4>8. Sum(T \ {c}) = h[y] + p
        BY <4>2
      <4>9. p \in Int
        BY <4>6
      <4> HIDE DEF p
      <4>10. h[c] + (h[y] + p) = h[y] + (h[c] + p)
        BY <4>6, <4>9
      <4> QED
        BY <3>2, <4>7, <4>8, <4>10
    <3>4. Sum(T) \in Int
      BY <2>3, <3>1, <3>2 DEF Good
    <3> QED
      BY <2>3, <3>2, <3>3, <3>4 DEF Good
  <2> QED
    BY <2>4, <2>5
<1> QED
  BY <1>3, <1>4

LEMMA SumInt ==
    ASSUME NEW h, NEW S, IsFiniteSet(S), \A y \in S : h[y] \in Int
    PROVE  SumFunctionOnSet(h, S) \in Int
<1>1. CASE S = {}
  BY <1>1, SumEmpty
<1>2. CASE S # {}
  BY <1>2, SumRemove
<1> QED
  BY <1>1, <1>2

\* A sum grows with its terms.
LEMMA SumMonotone ==
    ASSUME NEW g, NEW h, NEW S, IsFiniteSet(S),
           \A y \in S : g[y] \in Int /\ h[y] \in Int /\ g[y] <= h[y]
    PROVE  SumFunctionOnSet(g, S) <= SumFunctionOnSet(h, S)
<1> DEFINE G(T) == SumFunctionOnSet(g, T)
           H(T) == SumFunctionOnSet(h, T)
           Bad == {T \in SUBSET S : ~(G(T) <= H(T))}
<1>1. \A T \in SUBSET S : IsFiniteSet(T)
  BY FS_Subset
<1>2. \A T \in SUBSET S : G(T) \in Int /\ H(T) \in Int
  BY <1>1, SumInt
<1>3. \A T \in SUBSET S : \A x \in T : G(T) = g[x] + G(T \ {x}) /\ H(T) = h[x] + H(T \ {x})
  <2> TAKE T \in SUBSET S
  <2> TAKE x \in T
  <2>1. \A y \in T : g[y] \in Int /\ h[y] \in Int
    OBVIOUS
  <2> QED
    BY <1>1, <2>1, SumRemove
<1>4. CASE Bad = {}
  BY <1>4
<1>5. CASE Bad # {}
  <2>1. PICK T \in Bad : \A V \in Bad : V \subseteq T => V = T
    <3>1. Bad \subseteq SUBSET S
      OBVIOUS
    <3> HIDE DEF Bad
    <3> QED
      BY <1>5, <3>1, SmallestBadSet
  <2>2. \A V \in SUBSET S : V \subseteq T /\ V # T => G(V) <= H(V)
    BY <2>1
  <2>3. T \in SUBSET S /\ ~(G(T) <= H(T))
    OBVIOUS
  <2>4. T # {}
    BY <2>3, SumEmpty
  <2> HIDE DEF G, H, Bad
  <2>5. PICK x \in T : TRUE
    BY <2>4
  <2>6. G(T \ {x}) <= H(T \ {x})
    BY <2>2, <2>3, <2>5
  <2>7. g[x] <= h[x] /\ g[x] \in Int /\ h[x] \in Int
    BY <2>3, <2>5
  <2>8. G(T \ {x}) \in Int /\ H(T \ {x}) \in Int
    BY <1>2, <2>3
  <2> QED
    BY <1>3, <2>3, <2>5, <2>6, <2>7, <2>8
<1> QED
  BY <1>4, <1>5

\* A sum depends on the terms it adds.
LEMMA SumAgree ==
    ASSUME NEW g, NEW h, NEW S, IsFiniteSet(S), \A y \in S : g[y] \in Int /\ g[y] = h[y]
    PROVE  SumFunctionOnSet(g, S) = SumFunctionOnSet(h, S)
<1>1. \A y \in S : g[y] \in Int /\ h[y] \in Int /\ g[y] <= h[y] /\ h[y] <= g[y]
  OBVIOUS
<1>2. SumFunctionOnSet(g, S) <= SumFunctionOnSet(h, S)
  BY <1>1, SumMonotone
<1>3. SumFunctionOnSet(h, S) <= SumFunctionOnSet(g, S)
  BY <1>1, SumMonotone
<1>4. SumFunctionOnSet(g, S) \in Int /\ SumFunctionOnSet(h, S) \in Int
  BY <1>1, SumInt
<1> QED
  BY <1>2, <1>3, <1>4

LEMMA SumUnion ==
    ASSUME NEW h, NEW S, NEW T, IsFiniteSet(S), IsFiniteSet(T), S \cap T = {},
           \A y \in S \cup T : h[y] \in Int
    PROVE  SumFunctionOnSet(h, S \cup T) = SumFunctionOnSet(h, S) + SumFunctionOnSet(h, T)
<1> DEFINE Sum(U) == SumFunctionOnSet(h, U)
           Bad == {U \in SUBSET T : Sum(S \cup U) # Sum(S) + Sum(U)}
<1>1. \A U \in SUBSET T : IsFiniteSet(U) /\ IsFiniteSet(S \cup U)
  BY FS_Subset, FS_Union
<1>2. Sum(S) \in Int /\ \A U \in SUBSET T : Sum(U) \in Int /\ Sum(S \cup U) \in Int
  <2> SUFFICES ASSUME NEW U \in SUBSET T PROVE Sum(S) \in Int /\ Sum(U) \in Int /\ Sum(S \cup U) \in Int
    OBVIOUS
  <2>1. \A y \in S \cup U : h[y] \in Int
    OBVIOUS
  <2> QED
    BY <1>1, <2>1, SumInt
<1>3. ASSUME NEW U \in SUBSET T, NEW x \in U
      PROVE  Sum(U) = h[x] + Sum(U \ {x}) /\ Sum(S \cup U) = h[x] + Sum(S \cup (U \ {x}))
  <2>1. \A y \in S \cup U : h[y] \in Int
    OBVIOUS
  <2>2. Sum(U) = h[x] + Sum(U \ {x})
    <3>1. \A y \in U : h[y] \in Int
      BY <2>1
    <3>2. IsFiniteSet(U)
      BY <1>1
    <3> QED
      BY <3>1, <3>2, SumRemove
  <2>3. Sum(S \cup U) = h[x] + Sum((S \cup U) \ {x})
    BY <1>1, <2>1, SumRemove
  <2>4. (S \cup U) \ {x} = S \cup (U \ {x})
    OBVIOUS
  <2> QED
    BY <2>2, <2>3, <2>4
<1>4. CASE Bad = {}
  BY <1>4
<1>5. CASE Bad # {}
  <2>1. PICK U \in Bad : \A V \in Bad : V \subseteq U => V = U
    <3>1. Bad \subseteq SUBSET T
      OBVIOUS
    <3> HIDE DEF Bad
    <3> QED
      BY <1>5, <3>1, SmallestBadSet
  <2>2. \A V \in SUBSET T : V \subseteq U /\ V # U => Sum(S \cup V) = Sum(S) + Sum(V)
    BY <2>1
  <2>3. U \in SUBSET T /\ Sum(S \cup U) # Sum(S) + Sum(U)
    OBVIOUS
  <2>4. U # {}
    <3>1. CASE U = {}
      <4>1. Sum(S \cup U) = Sum(S)
        <5>1. S \cup U = S
          BY <3>1
        <5> QED
          BY <5>1
      <4>2. Sum(U) = 0
        BY <3>1, SumEmpty
      <4>3. Sum(S) + 0 = Sum(S)
        BY <1>2
      <4> QED
        BY <2>3, <4>1, <4>2, <4>3
    <3> QED
      BY <3>1
  <2> HIDE DEF Sum, Bad
  <2>5. PICK x \in U : TRUE
    BY <2>4
  <2>6. Sum(S \cup (U \ {x})) = Sum(S) + Sum(U \ {x})
    BY <2>2, <2>3, <2>5
  <2>7. h[x] \in Int /\ Sum(U \ {x}) \in Int
    BY <1>2, <2>3, <2>5
  <2>8. Sum(U) = h[x] + Sum(U \ {x}) /\ Sum(S \cup U) = h[x] + Sum(S \cup (U \ {x}))
    BY <1>3, <2>3, <2>5
  <2> DEFINE a == Sum(S)
             b == Sum(U \ {x})
             e == h[x]
  <2>9. a \in Int /\ b \in Int /\ e \in Int
    BY <1>2, <2>7
  <2>10. Sum(S \cup U) = e + (a + b) /\ Sum(U) = e + b
    BY <2>6, <2>8
  <2>11. Sum(S \cup U) # a + Sum(U)
    BY <2>3
  <2> HIDE DEF a, b, e
  <2>12. e + (a + b) = a + (e + b)
    BY <2>9
  <2> QED
    BY <2>10, <2>11, <2>12
<1> QED
  BY <1>4, <1>5

LEMMA SumNat ==
    ASSUME NEW h, NEW S, IsFiniteSet(S), \A y \in S : h[y] \in Nat
    PROVE  SumFunctionOnSet(h, S) \in Nat
<1> DEFINE z == [y \in S |-> 0]
           Zero(T) == SumFunctionOnSet(z, T)
           Bad == {T \in SUBSET S : Zero(T) # 0}
<1>1. \A y \in S : z[y] \in Int /\ h[y] \in Int /\ z[y] <= h[y] /\ z[y] = 0
  OBVIOUS
<1> HIDE DEF z
<1>2. SumFunctionOnSet(h, S) \in Int /\ Zero(S) <= SumFunctionOnSet(h, S)
  BY <1>1, SumInt, SumMonotone
<1>3. Zero(S) = 0
  <2>1. CASE Bad = {}
    BY <2>1
  <2>2. CASE Bad # {}
    <3>1. PICK T \in Bad : \A V \in Bad : V \subseteq T => V = T
      <4>1. Bad \subseteq SUBSET S
        OBVIOUS
      <4> HIDE DEF Bad
      <4> QED
        BY <2>2, <4>1, SmallestBadSet
    <3>2. T # {}
      BY SumEmpty
    <3>3. PICK x \in T : TRUE
      BY <3>2
    <3>4. T \ {x} \in SUBSET S /\ T \ {x} \notin Bad
      BY <3>1, <3>3
    <3>5. Zero(T \ {x}) = 0
      BY <3>4
    <3>6. Zero(T) = z[x] + Zero(T \ {x})
      <4>1. IsFiniteSet(T) /\ \A y \in T : z[y] \in Int
        BY <1>1, FS_Subset
      <4> HIDE DEF Bad
      <4> QED
        BY <3>3, <4>1, SumRemove
    <3>7. z[x] = 0
      BY <1>1, <3>3
    <3> QED
      BY <3>5, <3>6, <3>7
  <2> QED
    BY <2>1, <2>2
<1> QED
  BY <1>2, <1>3

\* A sum of natural numbers grows with the set.
LEMMA SumSubset ==
    ASSUME NEW h, NEW S, NEW T, IsFiniteSet(S), T \subseteq S, \A y \in S : h[y] \in Nat
    PROVE  SumFunctionOnSet(h, T) <= SumFunctionOnSet(h, S)
<1> DEFINE U == S \ T
<1>1. IsFiniteSet(T) /\ IsFiniteSet(U) /\ T \cap U = {} /\ T \cup U = S
  BY FS_Subset
<1>2. SumFunctionOnSet(h, T) \in Nat /\ SumFunctionOnSet(h, U) \in Nat
  BY <1>1, SumNat
<1> HIDE DEF U
<1>3. SumFunctionOnSet(h, T \cup U) = SumFunctionOnSet(h, T) + SumFunctionOnSet(h, U)
  BY <1>1, SumUnion
<1> DEFINE a == SumFunctionOnSet(h, T)
           b == SumFunctionOnSet(h, U)
<1>4. SumFunctionOnSet(h, S) = a + b
  BY <1>1, <1>3
<1>5. a \in Nat /\ b \in Nat
  BY <1>2
<1> HIDE DEF a, b
<1>6. a <= a + b
  BY <1>5
<1> QED
  BY <1>4, <1>6 DEF a

\* c is h after g, from I onto T.
Composes(c, h, g, I, T) ==
    T = {g[i] : i \in I} /\ \A i \in I : c[i] = h[g[i]]

OneToOne(g, I) == \A i, j \in I : g[i] = g[j] => i = j

\* Over an image h adds up to at most what it does along the function, and to as much
\* when the function is injective.
LEMMA SumImage ==
    ASSUME NEW h, NEW g, NEW c, NEW I, NEW T, IsFiniteSet(I), Composes(c, h, g, I, T),
           \A i \in I : c[i] \in Nat
    PROVE  /\ SumFunctionOnSet(h, T) <= SumFunctionOnSet(c, I)
           /\ OneToOne(g, I) => SumFunctionOnSet(h, T) = SumFunctionOnSet(c, I)
<1> DEFINE Image(J) == {g[i] : i \in J}
           Left(J) == SumFunctionOnSet(h, Image(J))
           Right(J) == SumFunctionOnSet(c, J)
           Injective == OneToOne(g, I)
           Good(J) == /\ IsFiniteSet(Image(J))
                      /\ Left(J) <= Right(J)
                      /\ Injective => Left(J) = Right(J)
           Bad == {J \in SUBSET I : ~Good(J)}
<1>1. \A J \in SUBSET I : IsFiniteSet(J)
  BY FS_Subset
<1>2. \A i \in I : c[i] = h[g[i]] /\ c[i] \in Nat
  BY DEF Composes
<1>3. ASSUME NEW J \in SUBSET I, IsFiniteSet(Image(J))
      PROVE  Left(J) \in Nat /\ Right(J) \in Nat
  <2>1. \A y \in Image(J) : h[y] \in Nat
    BY <1>2
  <2>2. \A i \in J : c[i] \in Nat
    BY <1>2
  <2> HIDE DEF Image
  <2> QED
    BY <1>1, <1>3, <2>1, <2>2, SumNat
<1>4. CASE Bad = {}
  <2>1. Good(I)
    BY <1>4
  <2>2. T = Image(I)
    BY DEF Composes
  <2> QED
    BY <2>1, <2>2
<1>5. CASE Bad # {}
  <2>1. PICK J \in Bad : \A V \in Bad : V \subseteq J => V = J
    <3>1. Bad \subseteq SUBSET I
      OBVIOUS
    <3> HIDE DEF Bad
    <3> QED
      BY <1>5, <3>1, SmallestBadSet
  <2>2. \A V \in SUBSET I : V \subseteq J /\ V # J => Good(V)
    BY <2>1
  <2>3. J \in SUBSET I /\ ~Good(J)
    OBVIOUS
  <2>4. CASE J = {}
    <3>1. Image(J) = {}
      BY <2>4
    <3>2. Left(J) = 0 /\ Right(J) = 0
      BY <2>4, <3>1, SumEmpty
    <3> QED
      BY <2>3, <3>1, <3>2, FS_EmptySet
  <2>5. CASE J # {}
    <3>1. PICK i \in J : TRUE
      BY <2>5
    <3> DEFINE K == J \ {i}
    <3>2. K \in SUBSET I /\ Good(K)
      BY <2>2, <2>3, <3>1
    <3>3. Image(J) = Image(K) \cup {g[i]}
      BY <3>1
    <3>4. IsFiniteSet(Image(J))
      <4>1. IsFiniteSet(Image(K))
        BY <3>2
      <4> HIDE DEF Image, K
      <4> QED
        BY <3>3, <4>1, FS_AddElement
    <3>5. Right(J) = c[i] + Right(K)
      <4>1. IsFiniteSet(J) /\ \A j \in J : c[j] \in Int
        BY <1>1, <1>2
      <4> QED
        BY <3>1, <4>1, SumRemove
    <3>6. Left(J) = Left(K) \/ Left(J) = h[g[i]] + Left(K)
      <4>1. CASE g[i] \in Image(K)
        <5>1. Image(J) = Image(K)
          BY <3>3, <4>1
        <5> QED
          BY <5>1
      <4>2. CASE g[i] \notin Image(K)
        <5>1. Image(J) \ {g[i]} = Image(K) /\ g[i] \in Image(J)
          BY <3>3, <4>2
        <5>2. \A y \in Image(J) : h[y] \in Int
          BY <1>2, <2>3
        <5> HIDE DEF Image
        <5>3. Left(J) = h[g[i]] + SumFunctionOnSet(h, Image(J) \ {g[i]})
          BY <3>4, <5>1, <5>2, SumRemove
        <5> QED
          BY <5>1, <5>3
      <4> QED
        BY <4>1, <4>2
    <3>7. Injective => Left(J) = h[g[i]] + Left(K)
      <4> SUFFICES ASSUME Injective PROVE Left(J) = h[g[i]] + Left(K)
        OBVIOUS
      <4>1. g[i] \notin Image(K)
        BY <2>3, <3>1 DEF OneToOne
      <4>2. Image(J) \ {g[i]} = Image(K) /\ g[i] \in Image(J)
        BY <3>3, <4>1
      <4>3. \A y \in Image(J) : h[y] \in Int
        BY <1>2, <2>3
      <4> HIDE DEF Image
      <4>4. Left(J) = h[g[i]] + SumFunctionOnSet(h, Image(J) \ {g[i]})
        BY <3>4, <4>2, <4>3, SumRemove
      <4> QED
        BY <4>2, <4>4
    <3>8. c[i] = h[g[i]] /\ c[i] \in Nat
      BY <1>2, <2>3, <3>1
    <3>9. Left(K) \in Nat /\ Right(K) \in Nat
      BY <1>3, <3>2
    <3>10. /\ Left(K) <= Right(K)
           /\ Injective => Left(K) = Right(K)
      BY <3>2
    <3> HIDE DEF Left, Right, Injective, K
    <3>11. Left(J) <= Right(J) /\ (Injective => Left(J) = Right(J))
      BY <3>5, <3>6, <3>7, <3>8, <3>9, <3>10
    <3> QED
      BY <2>3, <3>4, <3>11
  <2> QED
    BY <2>4, <2>5
<1> QED
  BY <1>4, <1>5

\* As many values, each at least as large, have at least as large a sum.
LEMMA SumDominates ==
    ASSUME NEW h, NEW S, NEW T, IsFiniteSet(S), IsFiniteSet(T),
           Cardinality(S) = Cardinality(T),
           \A x \in S, y \in T : h[x] \in Nat /\ h[y] \in Nat /\ h[x] <= h[y]
    PROVE  SumFunctionOnSet(h, S) <= SumFunctionOnSet(h, T)
<1>1. PICK b : b \in Bijection(S, T)
  BY FS_SameCardinalityBij DEF ExistsBijection
<1>2. /\ \A x \in S : b[x] \in T
      /\ \A x, y \in S : b[x] = b[y] => x = y
      /\ T = {b[x] : x \in S}
  BY <1>1 DEF Bijection, Injection, Surjection, IsInjective
<1> DEFINE c == [x \in S |-> h[b[x]]]
<1>3. SumFunctionOnSet(h, T) = SumFunctionOnSet(c, S)
  <2>1. Composes(c, h, b, S, T) /\ \A x \in S : c[x] \in Nat
    BY <1>2 DEF Composes
  <2>2. OneToOne(b, S)
    BY <1>2 DEF OneToOne
  <2> QED
    BY <2>1, <2>2, SumImage
<1>4. \A x \in S : c[x] = h[b[x]] /\ h[x] \in Int /\ c[x] \in Int /\ h[x] <= c[x]
  BY <1>2
<1> HIDE DEF c
<1>5. SumFunctionOnSet(h, S) <= SumFunctionOnSet(c, S)
  BY <1>4, SumMonotone
<1> QED
  BY <1>3, <1>5

\* Exchanging elements for as many, none of which is larger, does not increase the sum.
LEMMA SumExchange ==
    ASSUME NEW h, NEW S, NEW T, IsFiniteSet(S), IsFiniteSet(T),
           Cardinality(S) = Cardinality(T),
           \A x \in S \cup T : h[x] \in Nat,
           \A x \in S \ T, y \in T \ S : h[x] <= h[y]
    PROVE  SumFunctionOnSet(h, S) <= SumFunctionOnSet(h, T)
<1> DEFINE A == S \ T
           B == T \ S
           C == S \cap T
<1>1. /\ IsFiniteSet(A) /\ IsFiniteSet(B) /\ IsFiniteSet(C)
      /\ Cardinality(A) = Cardinality(B)
  <2>1. /\ IsFiniteSet(A) /\ Cardinality(A) = Cardinality(S) - Cardinality(C)
        /\ IsFiniteSet(B) /\ Cardinality(B) = Cardinality(T) - Cardinality(T \cap S)
    BY FS_Difference
  <2>2. T \cap S = C
    OBVIOUS
  <2>3. IsFiniteSet(C)
    BY FS_Intersection
  <2> QED
    BY <2>1, <2>2, <2>3
<1>2. /\ S = C \cup A /\ C \cap A = {} /\ T = C \cup B /\ C \cap B = {}
      /\ \A x \in A, y \in B : h[x] \in Nat /\ h[y] \in Nat /\ h[x] <= h[y]
      /\ \A x \in C \cup A : h[x] \in Int
      /\ \A x \in C \cup B : h[x] \in Int
  OBVIOUS
<1> HIDE DEF A, B, C
<1>3. SumFunctionOnSet(h, A) <= SumFunctionOnSet(h, B)
  BY <1>1, <1>2, SumDominates
<1>4. SumFunctionOnSet(h, C \cup A) = SumFunctionOnSet(h, C) + SumFunctionOnSet(h, A)
  BY <1>1, <1>2, SumUnion
<1>5. SumFunctionOnSet(h, C \cup B) = SumFunctionOnSet(h, C) + SumFunctionOnSet(h, B)
  BY <1>1, <1>2, SumUnion
<1>6. /\ SumFunctionOnSet(h, A) \in Int /\ SumFunctionOnSet(h, B) \in Int
      /\ SumFunctionOnSet(h, C) \in Int
  <2>1. /\ \A x \in A : h[x] \in Int
        /\ \A x \in B : h[x] \in Int
        /\ \A x \in C : h[x] \in Int
    BY <1>2
  <2> QED
    BY <1>1, <2>1, SumInt
<1>7. SumFunctionOnSet(h, C \cup A) <= SumFunctionOnSet(h, C \cup B)
  BY <1>3, <1>4, <1>5, <1>6
<1> QED
  BY <1>2, <1>7

\* q lists the elements of T, the least by h first.
Arranges(q, h, T) ==
    /\ q \in [1..Cardinality(T) -> T]
    /\ T = {q[i] : i \in 1..Cardinality(T)}
    /\ \A i, j \in 1..Cardinality(T) : i < j => h[q[i]] <= h[q[j]]

LEMMA LeastFirst ==
    ASSUME NEW h, NEW T, IsFiniteSet(T), T # {}, \A x \in T : h[x] \in Nat
    PROVE  \E m \in T : \A x \in T : h[m] <= h[x]
<1> DEFINE V == {h[x] : x \in T}
<1>1. V \in SUBSET Nat /\ V # {}
  OBVIOUS
<1>2. PICK n : n \in V
  BY <1>1
<1>3. PICK v \in V : \A w \in V : v <= w
  BY <1>1, <1>2, NatLeast
<1> QED
  BY <1>3

LEMMA SortedArrangement ==
    ASSUME NEW h, NEW S, IsFiniteSet(S), \A x \in S : h[x] \in Nat
    PROVE  \E q : Arranges(q, h, S)
<1> DEFINE Bad == {T \in SUBSET S : ~ \E q : Arranges(q, h, T)}
<1> SUFFICES ASSUME Bad # {} PROVE FALSE
  OBVIOUS
<1>1. PICK T \in Bad : \A U \in Bad : U \subseteq T => U = T
  <2>1. Bad \subseteq SUBSET S
    OBVIOUS
  <2> HIDE DEF Bad
  <2> QED
    BY <2>1, SmallestBadSet
<1>2. T \subseteq S /\ IsFiniteSet(T) /\ ~ \E q : Arranges(q, h, T)
  BY FS_Subset
<1>3. \A U : U \subseteq T /\ U # T => \E q : Arranges(q, h, U)
  BY <1>1, <1>2
<1> HIDE DEF Bad
<1>4. T # {}
  <2> SUFFICES ASSUME T = {} PROVE FALSE
    OBVIOUS
  <2>1. Cardinality(T) = 0
    BY FS_EmptySet
  <2>2. 1..0 = {}
    OBVIOUS
  <2>3. Arranges([i \in 1..0 |-> 0], h, T)
    BY <2>1, <2>2 DEF Arranges
  <2> QED
    BY <1>2, <2>3
<1>5. PICK m \in T : \A x \in T : h[m] <= h[x]
  BY <1>2, <1>4, LeastFirst
<1> DEFINE U == T \ {m}
           n == Cardinality(T)
<1>6. Cardinality(U) = n - 1 /\ n \in Nat /\ Cardinality(U) \in Nat /\ n >= 1
  <2>1. Cardinality(U) = n - 1 /\ IsFiniteSet(U)
    BY <1>2, FS_RemoveElement
  <2> QED
    BY <1>2, <2>1, FS_CardinalityType
<1>7. PICK p : Arranges(p, h, U)
  BY <1>3
<1>8. /\ p \in [1..n - 1 -> U]
      /\ U = {p[i] : i \in 1..n - 1}
      /\ \A i, j \in 1..n - 1 : i < j => h[p[i]] <= h[p[j]]
  BY <1>6, <1>7 DEF Arranges
<1> DEFINE q == [i \in 1..n |-> IF i = 1 THEN m ELSE p[i - 1]]
<1> HIDE DEF n
<1>9. \A i \in 1..n : i = 1 \/ i - 1 \in 1..n - 1
  BY <1>6
<1>10. q \in [1..n -> T]
  BY <1>8, <1>9
<1>11. T = {q[i] : i \in 1..n}
  <2>1. ASSUME NEW x \in T PROVE \E i \in 1..n : q[i] = x
    <3>1. CASE x = m
      BY <1>6, <3>1
    <3>2. CASE x # m
      <4>1. PICK i \in 1..n - 1 : p[i] = x
        BY <1>8, <3>2
      <4>2. i + 1 \in 1..n /\ i + 1 # 1 /\ (i + 1) - 1 = i
        BY <1>6
      <4> QED
        BY <4>1, <4>2
    <3> QED
      BY <3>1, <3>2
  <2> QED
    BY <1>10, <2>1
<1>12. \A i, j \in 1..n : i < j => h[q[i]] <= h[q[j]]
  <2> SUFFICES ASSUME NEW i \in 1..n, NEW j \in 1..n, i < j PROVE h[q[i]] <= h[q[j]]
    OBVIOUS
  <2>1. j - 1 \in 1..n - 1 /\ q[j] = p[j - 1] /\ q[j] \in T
    BY <1>6, <1>10
  <2>2. CASE i = 1
    BY <1>5, <2>1, <2>2
  <2>3. CASE i # 1
    <3>1. i - 1 \in 1..n - 1 /\ i - 1 < j - 1 /\ q[i] = p[i - 1]
      BY <1>6, <2>3
    <3> QED
      BY <1>8, <2>1, <3>1
  <2> QED
    BY <2>2, <2>3
<1> HIDE DEF q
<1>13. Arranges(q, h, T)
  BY <1>10, <1>11, <1>12 DEF Arranges, n
<1> QED
  BY <1>2, <1>13

\* The first of a sorted list of distinct elements cost no more than any as many.
LEMMA CheapestFirst ==
    ASSUME NEW h, NEW S, IsFiniteSet(S), \A x \in S : h[x] \in Nat,
           NEW q, Arranges(q, h, S), NEW k \in 0..Cardinality(S),
           NEW T \in SUBSET S, Cardinality(T) = k
    PROVE  SumFunctionOnSet([i \in 1..Cardinality(S) |-> h[q[i]]], 1..k) <= SumFunctionOnSet(h, T)
<1> DEFINE n == Cardinality(S)
           c == [i \in 1..n |-> h[q[i]]]
           P == {q[i] : i \in 1..k}
<1>1. n \in Nat /\ IsFiniteSet(1..n) /\ Cardinality(1..n) = n
  BY FS_CardinalityType, FS_Interval
<1>2. /\ q \in [1..n -> S]
      /\ S = {q[i] : i \in 1..n}
      /\ \A i, j \in 1..n : i < j => h[q[i]] <= h[q[j]]
  BY DEF Arranges
<1> HIDE DEF n
<1>3. \A i, j \in 1..n : q[i] = q[j] => i = j
  <2>1. q \in Surjection(1..n, S)
    BY <1>2 DEF Surjection
  <2>2. q \in Injection(1..n, S)
    BY <1>1, <2>1, FS_SurjSameCardinalityImpliesInj DEF n
  <2> QED
    BY <2>2 DEF Injection, IsInjective
<1>4. k \in Nat /\ k <= n /\ 1..k \subseteq 1..n
  BY <1>1 DEF n
<1>5. IsFiniteSet(1..k) /\ Cardinality(1..k) = k
  BY <1>4, FS_Interval
<1>6. IsFiniteSet(P) /\ Cardinality(P) = k /\ P \subseteq S
  <2>1. P \subseteq S
    BY <1>2, <1>4
  <2> DEFINE g == [i \in 1..k |-> q[i]]
  <2>2. g \in Bijection(1..k, P)
    BY <1>3, <1>4 DEF Bijection, Injection, Surjection, IsInjective
  <2> QED
    BY <1>5, <2>1, <2>2, FS_Bijection DEF ExistsBijection
<1>7. SumFunctionOnSet(h, P) = SumFunctionOnSet(c, 1..k)
  <2>1. \A i \in 1..k : c[i] = h[q[i]] /\ c[i] \in Nat
    BY <1>2, <1>4
  <2>2. OneToOne(q, 1..k)
    BY <1>3, <1>4 DEF OneToOne
  <2>3. Composes(c, h, q, 1..k, P)
    BY <2>1 DEF Composes
  <2> HIDE DEF c, P
  <2> QED
    BY <1>5, <2>1, <2>2, <2>3, SumImage
<1>8. ASSUME NEW x \in P \ T, NEW y \in T \ P PROVE h[x] <= h[y]
  <2>1. PICK i \in 1..k : x = q[i]
    OBVIOUS
  <2>2. PICK j \in 1..n : y = q[j]
    BY <1>2
  <2>3. j \notin 1..k
    BY <2>2
  <2>4. i < j /\ i \in 1..n
    BY <1>1, <1>4, <2>3
  <2> QED
    BY <1>2, <2>1, <2>2, <2>4
<1>9. IsFiniteSet(T) /\ Cardinality(P) = Cardinality(T) /\ \A x \in P \cup T : h[x] \in Nat
  BY <1>6, FS_Subset
<1> HIDE DEF P
<1>10. SumFunctionOnSet(h, P) <= SumFunctionOnSet(h, T)
  BY <1>6, <1>8, <1>9, SumExchange
<1> QED
  BY <1>7, <1>10 DEF c, n
=============================================================================
