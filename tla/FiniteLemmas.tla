---------------------------- MODULE FiniteLemmas -----------------------------
(***************************************************************************)
(* Lemmas about finite sets and sequences that the theorems about several  *)
(* components share.  Induction is put as a least counterexample: of the   *)
(* subsets of a finite set that lack a property, one has only subsets that *)
(* have it.  For sequences the property is a set of them, so that it can   *)
(* be cited; a fold is a run of a function over the elements, and what     *)
(* FoldLeft and FlattenSeq compute, by sets of positions, is such a run.   *)
(***************************************************************************)
EXTENDS Integers, FiniteSets, FiniteSetsExt, SequencesExt, FiniteSetTheorems,
        SequenceTheorems, TLAPS

-----------------------------------------------------------------------------
(* Least and greatest.                                                     *)

\* Of some finite sets one is least.
LEMMA LeastSubset ==
    ASSUME NEW S, IsFiniteSet(S), NEW B \in SUBSET SUBSET S, B # {}
    PROVE  \E a \in B : \A c \in B : c \subseteq a => c = a
<1>1. B \subseteq FiniteSubsetsOf(S)
  BY FS_Subset DEF FiniteSubsetsOf
<1>2. PICK a \in B : \A c \in B : ~(<<c, a>> \in StrictSubsetOrdering(S))
  BY <1>1, FS_StrictSubsetOrderingWellFounded, WFMin
<1>3. \A c \in B : c \subseteq a => c = a
  BY <1>2 DEF StrictSubsetOrdering
<1> QED BY <1>3

\* A finite set that is in order, by whatever relation, has a first element.
InOrder(S, R) ==
    /\ \A x, y \in S : x # y => <<x, y>> \in R \/ <<y, x>> \in R
    /\ \A x, y, z \in S : <<x, y>> \in R /\ <<y, z>> \in R => <<x, z>> \in R

\* An order of a set orders each part of it.
LEMMA OrderOfSubset ==
    ASSUME NEW S, NEW R, InOrder(S, R), NEW T \in SUBSET S
    PROVE  InOrder(T, R)
  BY DEF InOrder

\* A finite set has a last element in an order.
LEMMA LastInOrder ==
    ASSUME NEW S, IsFiniteSet(S), S # {}, NEW R, InOrder(S, R)
    PROVE  \E m \in S : \A x \in S \ {m} : <<x, m>> \in R
<1> DEFINE after(x) == {y \in S \ {x} : ~(<<y, x>> \in R)}
           B == {after(x) : x \in S}
<1>1. B \in SUBSET SUBSET S /\ B # {}
  OBVIOUS
<1>2. PICK a \in B : \A c \in B : c \subseteq a => c = a
  <2> HIDE DEF B
  <2> QED BY <1>1, LeastSubset
<1>3. PICK m \in S : a = after(m)
  OBVIOUS
<1>4. ASSUME NEW x \in S \ {m}, ~(<<x, m>> \in R) PROVE FALSE
  <2>1. x \in after(m)
    BY <1>4
  <2>2. <<m, x>> \in R
    BY <1>4 DEF InOrder
  <2>3. ASSUME NEW y \in after(x) PROVE y \in after(m)
    <3>1. y \in S /\ y # x /\ ~(<<y, x>> \in R)
      BY <2>3
    <3>2. y # m
      BY <2>2, <3>1
    <3>3. ~(<<y, m>> \in R)
      BY <2>2, <3>1, <1>4 DEF InOrder
    <3> QED BY <3>1, <3>2, <3>3
  <2>4. after(x) \subseteq after(m) /\ after(x) \in B
    BY <2>3
  <2>5. after(x) = after(m)
    BY <1>2, <1>3, <2>4
  <2>6. x \notin after(x)
    OBVIOUS
  <2> QED BY <2>1, <2>5, <2>6
<1> QED BY <1>4

\* A finite set with an element has two where it has another.
LEMMA TwoElements ==
    ASSUME NEW S, IsFiniteSet(S), NEW x \in S
    PROVE  Cardinality(S) >= 2 <=> \E y \in S : y # x
<1> DEFINE T == S \ {x}
<1>1. IsFiniteSet(T) /\ Cardinality(S) = Cardinality(T) + 1 /\ Cardinality(T) \in Nat
  <2>1. IsFiniteSet(T)
    BY FS_Subset
  <2>2. T \union {x} = S /\ x \notin T
    OBVIOUS
  <2> HIDE DEF T
  <2>3. Cardinality(T \union {x}) = Cardinality(T) + 1
    BY <2>1, <2>2, FS_AddElement
  <2> QED BY <2>1, <2>2, <2>3, FS_CardinalityType
<1>2. Cardinality(T) = 0 <=> T = {}
  BY <1>1, FS_EmptySet
<1>3. T # {} <=> \E y \in S : y # x
  OBVIOUS
<1> HIDE DEF T
<1> QED BY <1>1, <1>2, <1>3

\* The values of a function on a finite set are finitely many.
LEMMA ValuesAreFinite ==
    ASSUME NEW S, IsFiniteSet(S), NEW f, DOMAIN f = S
    PROVE  IsFiniteSet({f[x] : x \in S})
<1> DEFINE T == {f[x] : x \in S}
           g == [x \in S |-> f[x]]
<1>1. g \in Surjection(S, T)
  BY DEF Surjection
<1> HIDE DEF T, g
<1>2. IsFiniteSet(T)
  BY <1>1, FS_Surjection
<1> QED BY <1>2 DEF T

\* The least and the greatest of some numbers.
LEMMA FirstNumber ==
    ASSUME NEW B \in SUBSET Int, IsFiniteSet(B), B # {}
    PROVE  Min(B) \in B /\ \A j \in B : Min(B) <= j
<1> DEFINE R == {p \in B \X B : p[1] > p[2]}
<1>1. InOrder(B, R)
  BY DEF InOrder
<1>2. PICK m \in B : \A x \in B \ {m} : <<x, m>> \in R
  <2> HIDE DEF R
  <2> QED BY <1>1, LastInOrder
<1>3. ASSUME NEW x \in B PROVE m <= x
  <2>1. CASE x = m
    BY <2>1
  <2>2. CASE x # m
    <3>1. <<x, m>> \in R
      BY <1>2, <2>2
    <3> QED BY <3>1
  <2> QED BY <2>1, <2>2
<1> QED BY <1>3 DEF Min

\* The least of some positions.
LEMMA FirstPosition ==
    ASSUME NEW n \in Nat, NEW B \in SUBSET (1 .. n), B # {}
    PROVE  Min(B) \in B /\ \A j \in B : Min(B) <= j
<1>1. IsFiniteSet(1 .. n)
  BY FS_Interval
<1>2. IsFiniteSet(B)
  BY <1>1, FS_Subset
<1>3. B \in SUBSET Int
  OBVIOUS
<1> QED BY <1>2, <1>3, FirstNumber

\* A finite set of integers has a greatest, which Max finds.
LEMMA LastNumber ==
    ASSUME NEW B \in SUBSET Int, IsFiniteSet(B), B # {}
    PROVE  Max(B) \in B /\ \A j \in B : Max(B) >= j
<1> DEFINE R == {p \in B \X B : p[1] < p[2]}
<1>1. InOrder(B, R)
  BY DEF InOrder
<1>2. PICK m \in B : \A x \in B \ {m} : <<x, m>> \in R
  <2> HIDE DEF R
  <2> QED BY <1>1, LastInOrder
<1>3. ASSUME NEW x \in B PROVE m >= x
  <2>1. CASE x = m
    BY <2>1
  <2>2. CASE x # m
    <3>1. <<x, m>> \in R
      BY <1>2, <2>2
    <3> QED BY <3>1
  <2> QED BY <2>1, <2>2
<1> QED BY <1>3 DEF Max

-----------------------------------------------------------------------------
(* Sorting.                                                                *)

\* The sequence s has the elements of S in the order of R.
Sorts(s, S, R) ==
    /\ s \in [1 .. Cardinality(S) -> S]
    /\ \A i, j \in DOMAIN s : i < j => s[i] # s[j] /\ <<s[i], s[j]>> \in R
    /\ \A x \in S : \E i \in DOMAIN s : s[i] = x

\* A finite set can be sorted: a set that is least among those that cannot has a last
\* element, and the rest of it can.
LEMMA SortedExists ==
    ASSUME NEW S, IsFiniteSet(S), NEW R, InOrder(S, R)
    PROVE  \E s : Sorts(s, S, R)
<1> DEFINE B == {T \in SUBSET S : ~ \E s : Sorts(s, T, R)}
<1> SUFFICES ASSUME B # {} PROVE FALSE
  OBVIOUS
<1>1. PICK T \in B : \A U \in B : U \subseteq T => U = T
  <2>1. B \in SUBSET SUBSET S
    OBVIOUS
  <2> HIDE DEF B
  <2> QED BY <2>1, LeastSubset
<1>2. IsFiniteSet(T) /\ T \in SUBSET S /\ InOrder(T, R)
  BY FS_Subset, OrderOfSubset
<1>3. T # {}
  <2>1. Sorts(<<>>, {}, R)
    BY FS_EmptySet DEF Sorts
  <2> QED BY <2>1
<1>4. PICK m \in T : \A x \in T \ {m} : <<x, m>> \in R
  BY <1>2, <1>3, LastInOrder
<1> DEFINE U == T \ {m}
           n == Cardinality(T)
<1>5. PICK s : Sorts(s, U, R)
  BY <1>1
<1>6. n \in Nat /\ Cardinality(U) = n - 1 /\ n - 1 \in Nat
  <2>1. IsFiniteSet(U) /\ Cardinality(U) = n - 1
    BY <1>2, FS_RemoveElement
  <2>2. n \in Nat /\ Cardinality(U) \in Nat
    BY <1>2, <2>1, FS_CardinalityType
  <2> QED BY <2>1, <2>2
<1> DEFINE t == [i \in 1 .. n |-> IF i = n THEN m ELSE s[i]]
<1>7. s \in [1 .. n - 1 -> U] /\ DOMAIN s = 1 .. n - 1
  BY <1>5, <1>6 DEF Sorts
<1>8. \A i \in 1 .. n - 1 : t[i] = s[i] /\ s[i] \in U
  BY <1>6, <1>7
<1>9. t[n] = m /\ DOMAIN t = 1 .. n /\ n \in 1 .. n
  BY <1>6
<1>10. t \in [1 .. n -> T]
  BY <1>6, <1>7
<1> HIDE DEF t, n
<1>11. \A i, j \in 1 .. n : i < j => t[i] # t[j] /\ <<t[i], t[j]>> \in R
  <2> SUFFICES ASSUME NEW i \in 1 .. n, NEW j \in 1 .. n, i < j
               PROVE  t[i] # t[j] /\ <<t[i], t[j]>> \in R
    OBVIOUS
  <2>1. i \in 1 .. n - 1
    BY <1>6
  <2>2. CASE j = n
    BY <1>4, <1>8, <1>9, <2>1, <2>2
  <2>3. CASE j # n
    <3>1. j \in 1 .. n - 1
      BY <1>6, <2>3
    <3> QED BY <1>5, <1>7, <1>8, <2>1, <3>1 DEF Sorts
  <2> QED BY <2>2, <2>3
<1>12. ASSUME NEW x \in T PROVE \E i \in 1 .. n : t[i] = x
  <2>1. CASE x = m
    BY <1>9, <2>1
  <2>2. CASE x # m
    <3>1. PICK i \in 1 .. n - 1 : s[i] = x
      BY <1>5, <1>7, <2>2 DEF Sorts
    <3>2. i \in 1 .. n
      BY <1>6
    <3> QED BY <1>8, <3>1, <3>2
  <2> QED BY <2>1, <2>2
<1>13. Sorts(t, T, R)
  BY <1>9, <1>10, <1>11, <1>12 DEF Sorts, n
<1> QED BY <1>13

\* There are n numbers from 1 to n.
LEMMA FirstPlaces ==
    ASSUME NEW n \in Nat
    PROVE  IsFiniteSet(1 .. n) /\ Cardinality(1 .. n) = n
<1>1. \A a, b \in Int : IsFiniteSet(a .. b) /\ Cardinality(a .. b) = IF a > b THEN 0 ELSE b - a + 1
  BY FS_Interval
<1>2. IsFiniteSet(1 .. n) /\ Cardinality(1 .. n) = IF 1 > n THEN 0 ELSE n - 1 + 1
  BY <1>1
<1> QED BY <1>2

\* The elements of a set in a row: each has one place.
LEMMA EachHasAPlace ==
    ASSUME NEW S, IsFiniteSet(S), NEW s \in SetToSeqs(S)
    PROVE  /\ s \in Seq(S) /\ Cardinality(S) \in Nat
           /\ Len(s) = Cardinality(S) /\ DOMAIN s = 1 .. Cardinality(S)
           /\ \A i \in DOMAIN s : s[i] \in S
           /\ \A i, j \in DOMAIN s : s[i] = s[j] => i = j
           /\ \A x \in S : \E i \in DOMAIN s : s[i] = x
<1> DEFINE n == Cardinality(S)
<1>1. n \in Nat
  BY FS_CardinalityType
<1>2. s \in [1 .. n -> S] /\ \A i, j \in 1 .. n : i # j => s[i] # s[j]
  BY DEF SetToSeqs
<1>3. s \in Injection(1 .. n, S)
  BY <1>2 DEF Injection, IsInjective
<1>4. IsFiniteSet(1 .. n) /\ Cardinality(1 .. n) = n
  <2> HIDE DEF n
  <2> QED BY <1>1, FirstPlaces
<1>5. s \in Surjection(1 .. n, S)
  <2> DEFINE D == 1 .. n
  <2>1. s \in Injection(D, S) /\ IsFiniteSet(D) /\ Cardinality(D) = Cardinality(S)
    BY <1>3, <1>4
  <2> HIDE DEF D
  <2>2. s \in Surjection(D, S)
    BY <2>1, FS_Injection
  <2> QED BY <2>2 DEF D
<1>6. \A x \in S : \E i \in 1 .. n : s[i] = x
  BY <1>5 DEF Surjection
<1>7. DOMAIN s = 1 .. n /\ Len(s) = n /\ s \in Seq(S)
  BY <1>1, <1>2
<1> QED BY <1>1, <1>2, <1>6, <1>7

-----------------------------------------------------------------------------
(* Sums.                                                                   *)

\* A function of what MapThenSumSet computes for the subsets of S, with the weights w.
IsSum(g, S, w) ==
    g = [s \in SUBSET S |->
            IF s = {} THEN 0
            ELSE w[CHOOSE x \in s : TRUE] + g[s \ {CHOOSE x \in s : TRUE}]]

\* As many units for each element as it weighs: their number is the sum.
Units(S, w) == {p \in S \X Nat : p[2] < w[p[1]]}
Sum(S, w) == Cardinality(Units(S, w))

\* The units of a sum are finitely many.
LEMMA UnitsAreFinite ==
    ASSUME NEW S, IsFiniteSet(S), NEW w \in [S -> Nat]
    PROVE  IsFiniteSet(Units(S, w))
<1> DEFINE of == [x \in S |-> {x} \X (0 .. w[x] - 1)]
           T == {of[x] : x \in S}
<1>1. ASSUME NEW x \in S PROVE IsFiniteSet(of[x])
  <2>1. IsFiniteSet(0 .. w[x] - 1)
    BY FS_Interval
  <2>2. IsFiniteSet({x} \X (0 .. w[x] - 1))
    BY <2>1, FS_Product, FS_Singleton
  <2> QED BY <2>2
<1>2. of \in Surjection(S, T)
  BY DEF Surjection
<1>3. IsFiniteSet(T)
  BY <1>2, FS_Surjection
<1>4. IsFiniteSet(UNION T)
  BY <1>1, <1>3, FS_UNION
<1>5. Units(S, w) \subseteq UNION T
  BY DEF Units
<1> QED BY <1>4, <1>5, FS_Subset

\* The sum over a subset, and for greater weights.
LEMMA SumGrows ==
    ASSUME NEW S, IsFiniteSet(S), NEW w \in [S -> Nat],
           NEW T \in SUBSET S, NEW v \in [T -> Nat], \A x \in T : v[x] <= w[x]
    PROVE  Sum(T, v) <= Sum(S, w)
<1>1. Units(T, v) \subseteq Units(S, w)
  BY DEF Units
<1> QED BY <1>1, UnitsAreFinite, FS_Subset DEF Sum

\* A sum of natural numbers is one.
LEMMA SumIsNatural ==
    ASSUME NEW S, IsFiniteSet(S), NEW w \in [S -> Nat]
    PROVE  Sum(S, w) \in Nat
  BY UnitsAreFinite, FS_CardinalityType DEF Sum

\* Two parts.
LEMMA SumOfParts ==
    ASSUME NEW S, IsFiniteSet(S), NEW w \in [S -> Nat], NEW T \in SUBSET S
    PROVE  Sum(S, w) = Sum(T, w) + Sum(S \ T, w)
<1>1. /\ Units(S, w) = Units(T, w) \union Units(S \ T, w)
      /\ Units(T, w) \intersect Units(S \ T, w) = {}
  BY DEF Units
<1>2. IsFiniteSet(Units(S, w))
  BY UnitsAreFinite
<1>3. IsFiniteSet(Units(T, w)) /\ IsFiniteSet(Units(S \ T, w))
  BY <1>1, <1>2, FS_Subset
<1>4. Cardinality(Units(T, w)) \in Nat /\ Cardinality(Units(S \ T, w)) \in Nat
  BY <1>3, FS_CardinalityType
<1> DEFINE A == Units(T, w)
           B == Units(S \ T, w)
<1>5. Cardinality(A \union B) = Cardinality(A) + Cardinality(B) - Cardinality(A \intersect B)
  BY <1>3, FS_Union
<1> QED BY <1>1, <1>4, <1>5, FS_EmptySet DEF Sum

\* The sum over one element is its weight.
LEMMA SumOfOne ==
    ASSUME NEW S, NEW w \in [S -> Nat], NEW x \in S
    PROVE  Sum({x}, w) = w[x]
<1> DEFINE f == [p \in Units({x}, w) |-> p[2] + 1]
<1>1. f \in Bijection(Units({x}, w), 1 .. w[x])
  <2>1. \A p \in Units({x}, w) : p = <<x, p[2]>> /\ p[2] \in Nat /\ p[2] < w[x]
    BY DEF Units
  <2> HIDE DEF Sum
  <2>2. f \in [Units({x}, w) -> 1 .. w[x]]
    <3>1. ASSUME NEW p \in Units({x}, w) PROVE p[2] + 1 \in 1 .. w[x]
      <4> DEFINE k == p[2]
      <4>1. k \in Nat /\ k < w[x] /\ w[x] \in Nat
        BY <2>1
      <4> HIDE DEF k
      <4>2. k + 1 \in 1 .. w[x]
        BY <4>1
      <4> QED BY <4>2 DEF k
    <3> QED BY <3>1
  <2>4. ASSUME NEW p \in Units({x}, w), NEW q \in Units({x}, w), f[p] = f[q] PROVE p = q
    <3>1. p[2] + 1 = q[2] + 1
      BY <2>4
    <3> QED BY <2>1, <3>1
  <2>3. ASSUME NEW n \in 1 .. w[x] PROVE \E p \in Units({x}, w) : f[p] = n
    <3>1. <<x, n - 1>> \in Units({x}, w)
      BY DEF Units
    <3> QED BY <3>1
  <2> HIDE DEF f
  <2> QED BY <2>2, <2>3, <2>4 DEF Bijection, Surjection, Injection, IsInjective
<1>2. IsFiniteSet(1 .. w[x]) /\ Cardinality(1 .. w[x]) = w[x]
  BY FS_Interval
<1>3. IsFiniteSet(Units({x}, w))
  BY <1>1, <1>2, FS_Injection DEF Bijection
<1>4. ExistsBijection(Units({x}, w), 1 .. w[x])
  BY <1>1 DEF ExistsBijection
<1> QED BY <1>2, <1>3, <1>4, FS_Bijection DEF Sum

\* The sum over no element is 0.
LEMMA SumOfNone == ASSUME NEW w PROVE Sum({}, w) = 0
<1>1. Units({}, w) = {}
  BY DEF Units
<1> QED BY <1>1, FS_EmptySet DEF Sum

\* An element adds its weight to the sum of the others.
LEMMA SumTakesOne ==
    ASSUME NEW S, IsFiniteSet(S), NEW w \in [S -> Nat], NEW x \in S
    PROVE  Sum(S, w) = w[x] + Sum(S \ {x}, w)
<1>1. Sum(S, w) = Sum({x}, w) + Sum(S \ {x}, w)
  BY SumOfParts
<1> QED BY <1>1, SumOfOne

\* Only the weights of the elements count.
LEMMA SumOfSame ==
    ASSUME NEW S, NEW v, NEW w, \A x \in S : v[x] = w[x]
    PROVE  Sum(S, v) = Sum(S, w)
<1>1. Units(S, v) = Units(S, w)
  BY DEF Units
<1> QED BY <1>1 DEF Sum

\* The sum of a part is that of its own weights.
LEMMA PartIsNatural ==
    ASSUME NEW S, IsFiniteSet(S), NEW w \in [S -> Nat], NEW T \in SUBSET S
    PROVE  IsFiniteSet(T) /\ Sum(T, w) \in Nat
<1> DEFINE v == [y \in T |-> w[y]]
<1>1. v \in [T -> Nat] /\ \A y \in T : v[y] = w[y]
  OBVIOUS
<1>2. IsFiniteSet(T)
  BY FS_Subset
<1> HIDE DEF v
<1>3. Sum(T, v) \in Nat /\ Sum(T, v) = Sum(T, w)
  BY <1>1, <1>2, SumIsNatural, SumOfSame
<1> QED BY <1>2, <1>3

\* The parts of a part.
LEMMA PartsOfPart ==
    ASSUME NEW S, IsFiniteSet(S), NEW w \in [S -> Nat], NEW T \in SUBSET S, NEW U \in SUBSET T
    PROVE  Sum(T, w) = Sum(U, w) + Sum(T \ U, w)
<1> DEFINE v == [y \in T |-> w[y]]
<1>1. v \in [T -> Nat] /\ \A y \in T : v[y] = w[y]
  OBVIOUS
<1>2. IsFiniteSet(T)
  BY FS_Subset
<1> HIDE DEF v
<1>3. Sum(T, v) = Sum(U, v) + Sum(T \ U, v)
  BY <1>1, <1>2, SumOfParts
<1>4. Sum(T, v) = Sum(T, w) /\ Sum(U, v) = Sum(U, w) /\ Sum(T \ U, v) = Sum(T \ U, w)
  BY <1>1, SumOfSame
<1> QED BY <1>3, <1>4

\* One element of a part, and the others.
LEMMA SumOfTaken ==
    ASSUME NEW S, IsFiniteSet(S), NEW w \in [S -> Nat], NEW T \in SUBSET S, NEW x \in T
    PROVE  Sum(T, w) = w[x] + Sum(T \ {x}, w)
<1>1. Sum(T, w) = Sum({x}, w) + Sum(T \ {x}, w)
  BY PartsOfPart
<1> QED BY <1>1, SumOfOne

\* A sum of multiples.
LEMMA SumOfMultiples ==
    ASSUME NEW S, IsFiniteSet(S), NEW w \in [S -> Nat], NEW k \in Nat,
           NEW v \in [S -> Nat], \A x \in S : v[x] = k * w[x]
    PROVE  Sum(S, v) = k * Sum(S, w)
<1> DEFINE B == {T \in SUBSET S : Sum(T, v) # k * Sum(T, w)}
<1>1. SUFFICES ASSUME B # {} PROVE FALSE
  OBVIOUS
<1>2. PICK T \in B : \A U \in B : U \subseteq T => U = T
  <2>1. B \in SUBSET SUBSET S
    OBVIOUS
  <2> HIDE DEF B
  <2> QED BY <1>1, <2>1, LeastSubset
<1>3. T \in SUBSET S /\ Sum(T, v) # k * Sum(T, w)
  OBVIOUS
<1>4. T # {}
  <2>1. ASSUME T = {} PROVE FALSE
    <3>1. Sum(T, v) = 0 /\ Sum(T, w) = 0
      BY <2>1, SumOfNone
    <3>2. k * 0 = 0
      OBVIOUS
    <3>3. Sum(T, v) = k * Sum(T, w)
      BY <3>1, <3>2
    <3> QED BY <1>3, <3>3
  <2> QED BY <2>1
<1>5. PICK x \in T : TRUE
  BY <1>4
<1> DEFINE U == T \ {x}
<1>6. Sum(U, v) = k * Sum(U, w)
  BY <1>2, <1>3, <1>5
<1>7. IsFiniteSet(T)
  BY <1>3, FS_Subset
<1>8. Sum(T, v) = v[x] + Sum(U, v) /\ Sum(T, w) = w[x] + Sum(U, w)
  BY <1>3, <1>7, SumOfTaken
<1>9. Sum(U, w) \in Nat /\ w[x] \in Nat
  <2> DEFINE u == [y \in U |-> w[y]]
  <2>1. u \in [U -> Nat] /\ \A y \in U : u[y] = w[y]
    BY <1>3
  <2>2. IsFiniteSet(U)
    BY <1>7, FS_Subset
  <2> HIDE DEF u, U
  <2>3. Sum(U, u) \in Nat /\ Sum(U, u) = Sum(U, w)
    BY <2>1, <2>2, SumIsNatural, SumOfSame
  <2> QED BY <1>3, <2>3
<1> DEFINE p == Sum(U, w)
           q == w[x]
<1>10. v[x] = k * q
  BY <1>3
<1> HIDE DEF p, q, U
<1>11. k * (q + p) = k * q + k * p
  BY <1>9 DEF p, q
<1>12. Sum(T, v) = k * q + k * p /\ Sum(T, w) = q + p
  BY <1>6, <1>8, <1>10 DEF p, q
<1> QED BY <1>3, <1>11, <1>12

\* A sum taken group by group is no more than what bounds each group.
LEMMA SumByGroups ==
    ASSUME NEW S, IsFiniteSet(S), NEW w \in [S -> Nat], NEW L, IsFiniteSet(L),
           NEW m \in [S -> L], NEW u \in [L -> Nat],
           \A l \in L : Sum({x \in S : m[x] = l}, w) <= u[l]
    PROVE  Sum(S, w) <= Sum(L, u)
<1> DEFINE of(T) == {x \in S : m[x] \in T}
           B == {T \in SUBSET L : ~(Sum(of(T), w) <= Sum(T, u))}
<1>1. ASSUME B # {} PROVE FALSE
  <2>1. PICK T \in B : \A U \in B : U \subseteq T => U = T
    <3>1. B \in SUBSET SUBSET L
      OBVIOUS
    <3> HIDE DEF B
    <3> QED BY <1>1, <3>1, LeastSubset
  <2>2. T \in SUBSET L /\ ~(Sum(of(T), w) <= Sum(T, u))
    OBVIOUS
  <2>3. T # {}
    <3>1. ASSUME T = {} PROVE FALSE
      <4>1. of({}) = {}
        OBVIOUS
      <4> HIDE DEF of
      <4>2. Sum({}, w) = 0 /\ Sum({}, u) = 0
        BY SumOfNone
      <4> QED BY <2>2, <3>1, <4>1, <4>2
    <3> QED BY <3>1
  <2>4. PICK t \in T : TRUE
    BY <2>3
  <2> DEFINE U == T \ {t}
  <2>5. Sum(of(U), w) <= Sum(U, u)
    BY <2>1, <2>2, <2>4
  <2>6. IsFiniteSet(T) /\ IsFiniteSet(U) /\ U \in SUBSET L
    BY <2>2, FS_Subset
  <2>7. Sum(T, u) = u[t] + Sum(U, u) /\ Sum(U, u) \in Nat /\ u[t] \in Nat
    <3>1. Sum(T, u) = u[t] + Sum(U, u)
      BY <2>2, <2>6, SumOfTaken
    <3>2. Sum(U, u) \in Nat
      BY <2>6, PartIsNatural
    <3> QED BY <2>2, <3>1, <3>2
  <2> DEFINE C == {x \in S : m[x] = t}
  <2>8. Sum(of(T), w) = Sum(of(U), w) + Sum(C, w)
    <3>1. of(T) \in SUBSET S /\ C \in SUBSET of(T) /\ of(U) = of(T) \ C
      BY <2>2
    <3> HIDE DEF of, C, U
    <3>2. Sum(of(T), w) = Sum(C, w) + Sum(of(T) \ C, w)
      BY <3>1, PartsOfPart
    <3>3. Sum(C, w) \in Nat /\ Sum(of(T) \ C, w) \in Nat
      BY <3>1, PartIsNatural
    <3>4. \A a, b, c \in Nat : a = b + c => a = c + b
      OBVIOUS
    <3>5. Sum(of(T), w) = Sum(C, w) + Sum(of(U), w)
      BY <3>1, <3>2
    <3> QED BY <3>1, <3>3, <3>5
  <2>9. Sum(C, w) <= u[t]
    BY <2>2
  <2>10. Sum(C, w) \in Nat /\ Sum(of(U), w) \in Nat
    <3>1. C \in SUBSET S /\ of(U) \in SUBSET S
      OBVIOUS
    <3> HIDE DEF C, of
    <3> QED BY <3>1, PartIsNatural
  <2> HIDE DEF C, of, U
  <2> QED BY <2>2, <2>5, <2>7, <2>8, <2>9, <2>10
<1>2. L \notin B
  BY <1>1
<1>3. of(L) = S
  OBVIOUS
<1>4. Sum(of(L), w) <= Sum(L, u)
  BY <1>2
<1> QED BY <1>3, <1>4

\* The function that MapThenSumSet chooses exists, and gives the sum.
LEMMA SumIsDefined ==
    ASSUME NEW S, IsFiniteSet(S), NEW w \in [S -> Nat]
    PROVE  /\ \E g : IsSum(g, S, w)
           /\ \A g : IsSum(g, S, w) => g[S] = Sum(S, w)
<1> DEFINE first(s) == CHOOSE x \in s : TRUE
<1>0. \A s \in SUBSET S : s # {} => first(s) \in s
  OBVIOUS
<1>1. ASSUME NEW T \in SUBSET S, T # {}
      PROVE  Sum(T, w) = w[first(T)] + Sum(T \ {first(T)}, w)
  <2>1. IsFiniteSet(T) /\ first(T) \in T
    BY <1>0, <1>1, FS_Subset
  <2> DEFINE v == [x \in T |-> w[x]]
  <2>2. v \in [T -> Nat]
    OBVIOUS
  <2>3. \A U \in SUBSET T : Units(U, v) = Units(U, w)
    BY DEF Units
  <2>4. v[first(T)] = w[first(T)]
    BY <2>1
  <2> HIDE DEF v, first
  <2>5. Sum(T, v) = v[first(T)] + Sum(T \ {first(T)}, v)
    BY <2>1, <2>2, SumTakesOne
  <2> QED BY <2>3, <2>4, <2>5 DEF Sum
<1>2. \E g : IsSum(g, S, w)
  <2> DEFINE g == [s \in SUBSET S |-> Sum(s, w)]
  <2>1. ASSUME NEW s \in SUBSET S
        PROVE  g[s] = IF s = {} THEN 0 ELSE w[first(s)] + g[s \ {first(s)}]
    BY <1>1, SumOfNone
  <2>2. IsSum(g, S, w)
    BY <2>1 DEF IsSum
  <2> QED BY <2>2
<1>3. ASSUME NEW g, IsSum(g, S, w) PROVE g[S] = Sum(S, w)
  <2> DEFINE B == {T \in SUBSET S : g[T] # Sum(T, w)}
  <2>1. SUFFICES ASSUME B # {} PROVE FALSE
    OBVIOUS
  <2>2. PICK T \in B : \A U \in B : U \subseteq T => U = T
    <3>1. B \in SUBSET SUBSET S
      OBVIOUS
    <3> HIDE DEF B
    <3> QED BY <2>1, <3>1, LeastSubset
  <2>3. g[T] = IF T = {} THEN 0 ELSE w[first(T)] + g[T \ {first(T)}]
    BY <1>3 DEF IsSum
  <2>4. T # {}
    BY <2>3, SumOfNone
  <2>5. T \ {first(T)} # T /\ T \ {first(T)} \in SUBSET S
    BY <1>0, <2>4
  <2>6. g[T \ {first(T)}] = Sum(T \ {first(T)}, w)
    BY <2>2, <2>5
  <2> QED BY <1>1, <2>3, <2>4, <2>6
<1> QED BY <1>2, <1>3

-----------------------------------------------------------------------------
(* Sequences, their folds and their flattening.                            *)

\* A set of numbers that has 0 and each one's successor has all.
LEMMA NaturalsAll ==
    ASSUME NEW G \in SUBSET Nat, 0 \in G, \A n \in G : n + 1 \in G, NEW n \in Nat
    PROVE  n \in G
<1> DEFINE B == (0 .. n) \ G
<1> SUFFICES ASSUME n \notin G PROVE FALSE
  OBVIOUS
<1>1. B \in SUBSET Int /\ B # {} /\ B \subseteq 0 .. n /\ \A i \in 0 .. n : i \in B \/ i \in G
  OBVIOUS
<1>2. IsFiniteSet(0 .. n)
  BY FS_Interval
<1>3. \A i \in B : i \notin G
  OBVIOUS
<1> HIDE DEF B
<1>4. IsFiniteSet(B)
  BY <1>1, <1>2, FS_Subset
<1>5. PICK m \in B : \A j \in B : m <= j
  BY <1>1, <1>4, FirstNumber
<1>6. m \in 0 .. n /\ m \notin G /\ m # 0
  BY <1>1, <1>3
<1>7. m - 1 \in 0 .. n /\ m - 1 \notin B
  BY <1>5, <1>6
<1>8. m - 1 \in G
  BY <1>1, <1>7
<1>9. (m - 1) + 1 \in G
  BY <1>8
<1> QED BY <1>6, <1>9

\* A set of sequences that has the empty one and what can be appended has all.
LEMMA SequencesAll ==
    ASSUME NEW D, NEW G \in SUBSET Seq(D), <<>> \in G,
           \A s \in G : \A x \in D : Append(s, x) \in G, NEW s \in Seq(D)
    PROVE  s \in G
<1> DEFINE N == {n \in Nat : \A t \in Seq(D) : Len(t) = n => t \in G}
<1>1. 0 \in N
  BY EmptySeq
<1>2. ASSUME NEW n \in N PROVE n + 1 \in N
  <2>1. n \in Nat /\ \A t \in Seq(D) : Len(t) = n => t \in G
    OBVIOUS
  <2>2. ASSUME NEW t \in Seq(D), Len(t) = n + 1 PROVE t \in G
    <3>1. t # <<>>
      BY <2>1, <2>2, EmptySeq
    <3>2. PICK u \in Seq(D), x \in D : t = Append(u, x)
      BY <3>1, SequenceEmptyOrAppend
    <3>3. Len(u) \in Nat /\ Len(t) = Len(u) + 1
      BY <3>2, AppendProperties, LenProperties
    <3>4. Len(u) = n
      BY <2>1, <2>2, <3>3
    <3> QED BY <2>1, <3>2, <3>4
  <2> QED BY <2>1, <2>2
<1>3. N \in SUBSET Nat /\ Len(s) \in Nat
  BY LenProperties
<1>4. Len(s) \in N
  <2> HIDE DEF N
  <2> QED BY <1>1, <1>2, <1>3, NaturalsAll
<1> QED BY <1>4

\* A fold, step by step: what there is after each element.
Steps(O, base, s, n, h) ==
    h[0] = base /\ \A i \in 1 .. n : h[i] = O[<<h[i - 1], s[i]>>]

IsRun(O, base, s, h) == DOMAIN h = 0 .. Len(s) /\ Steps(O, base, s, Len(s), h)

FoldOf(O, base, s) == (CHOOSE h : IsRun(O, base, s, h))[Len(s)]

\* There is such a run.
LEMMA RunExists ==
    ASSUME NEW V, NEW D, NEW O \in [V \X D -> V], NEW base \in V, NEW s \in Seq(D)
    PROVE  \E h \in [0 .. Len(s) -> V] : IsRun(O, base, s, h)
<1> DEFINE G == {t \in Seq(D) : \E h \in [0 .. Len(t) -> V] : IsRun(O, base, t, h)}
<1>1. <<>> \in G
  <2>1. [i \in 0 .. 0 |-> base] \in [0 .. 0 -> V]
    OBVIOUS
  <2>2. <<>> \in Seq(D) /\ Len(<<>>) = 0
    BY EmptySeq
  <2>3. IsRun(O, base, <<>>, [i \in 0 .. 0 |-> base])
    BY <2>2 DEF IsRun, Steps
  <2> QED BY <2>1, <2>2, <2>3
<1>2. ASSUME NEW t \in G, NEW x \in D PROVE Append(t, x) \in G
  <2>1. t \in Seq(D)
    OBVIOUS
  <2>2. PICK h \in [0 .. Len(t) -> V] : IsRun(O, base, t, h)
    OBVIOUS
  <2>3. PICK n \in Nat : n = Len(t)
    BY <2>1, LenProperties
  <2>4. PICK u : u = Append(t, x)
    OBVIOUS
  <2>5. u \in Seq(D) /\ Len(u) = n + 1 /\ u[n + 1] = x /\ \A i \in 1 .. n : u[i] = t[i]
    BY <2>1, <2>3, <2>4, AppendProperties
  <2> DEFINE k == [i \in 0 .. n + 1 |-> IF i = n + 1 THEN O[<<h[n], x>>] ELSE h[i]]
  <2>6. h \in [0 .. n -> V] /\ h[n] \in V
    BY <2>2, <2>3
  <2>7. O[<<h[n], x>>] \in V
    BY <2>6
  <2>8. k \in [0 .. n + 1 -> V]
    <3>1. ASSUME NEW i \in 0 .. n + 1, i # n + 1 PROVE h[i] \in V
      <4>1. i \in 0 .. n
        BY <3>1
      <4> QED BY <2>6, <4>1
    <3> QED BY <2>7, <3>1
  <2>9. IsRun(O, base, u, k)
    <3>1. k[0] = base
      BY <2>2 DEF IsRun, Steps
    <3>2. ASSUME NEW i \in 1 .. n + 1 PROVE k[i] = O[<<k[i - 1], u[i]>>]
      <4>1. CASE i = n + 1
        <5>1. n \in 0 .. n + 1 /\ n # n + 1 /\ i - 1 = n /\ n + 1 \in 0 .. n + 1
          BY <4>1
        <5>2. k[n] = h[n] /\ k[n + 1] = O[<<h[n], x>>]
          BY <5>1
        <5> QED BY <2>5, <4>1, <5>1, <5>2
      <4>2. CASE i # n + 1
        <5>1. i \in 1 .. n /\ i - 1 \in 0 .. n /\ i - 1 # n + 1 /\ i \in 0 .. n + 1
              /\ i - 1 \in 0 .. n + 1
          BY <4>2
        <5>2. k[i] = h[i] /\ k[i - 1] = h[i - 1] /\ u[i] = t[i]
          BY <2>5, <4>2, <5>1
        <5>3. h[i] = O[<<h[i - 1], t[i]>>]
          BY <2>2, <2>3, <5>1 DEF IsRun, Steps
        <5> QED BY <5>2, <5>3
      <4> QED BY <4>1, <4>2
    <3>3. DOMAIN k = 0 .. n + 1
      OBVIOUS
    <3> HIDE DEF k
    <3> QED BY <2>5, <3>1, <3>2, <3>3 DEF IsRun, Steps
  <2> HIDE DEF k
  <2> QED BY <2>4, <2>5, <2>8, <2>9
<1>3. G \in SUBSET Seq(D)
  OBVIOUS
<1>4. s \in G
  <2> HIDE DEF G
  <2> QED BY <1>1, <1>2, <1>3, SequencesAll
<1> QED BY <1>4

\* What is run in the same way is the same.
LEMMA RunUnique ==
    ASSUME NEW O, NEW base, NEW n \in Nat, NEW h, NEW k, NEW s,
           Steps(O, base, s, n, h), Steps(O, base, s, n, k)
    PROVE  h[n] = k[n]
<1> DEFINE G == {i \in Nat : i <= n => h[i] = k[i]}
<1>1. 0 \in G
  BY DEF Steps
<1>2. ASSUME NEW i \in G PROVE i + 1 \in G
  <2>1. i \in Nat
    OBVIOUS
  <2>2. ASSUME i + 1 <= n PROVE h[i + 1] = k[i + 1]
    <3>1. i + 1 \in 1 .. n /\ i <= n /\ (i + 1) - 1 = i
      BY <2>1, <2>2
    <3>2. h[i] = k[i]
      BY <3>1
    <3>3. h[i + 1] = O[<<h[(i + 1) - 1], s[i + 1]>>]
      BY <3>1 DEF Steps
    <3>4. k[i + 1] = O[<<k[(i + 1) - 1], s[i + 1]>>]
      BY <3>1 DEF Steps
    <3> QED BY <3>1, <3>2, <3>3, <3>4
  <2> QED BY <2>1, <2>2
<1>3. n \in G
  <2>1. G \in SUBSET Nat
    OBVIOUS
  <2> HIDE DEF G
  <2> QED BY <1>1, <1>2, <2>1, NaturalsAll
<1> QED BY <1>3

\* A fold over nothing, and over one element more.
Folds(O, base, V, D) == O \in [V \X D -> V] /\ base \in V

\* A fold, element by element.
LEMMA FoldSteps ==
    ASSUME NEW V, NEW D, NEW O, NEW base, Folds(O, base, V, D)
    PROVE  /\ FoldOf(O, base, <<>>) = base
           /\ \A s \in Seq(D) : FoldOf(O, base, s) \in V
           /\ \A s \in Seq(D), x \in D :
                 FoldOf(O, base, Append(s, x)) = O[<<FoldOf(O, base, s), x>>]
<1> USE DEF Folds
<1>1. ASSUME NEW s \in Seq(D)
      PROVE  /\ IsRun(O, base, s, CHOOSE h : IsRun(O, base, s, h))
             /\ FoldOf(O, base, s) \in V
  <2>1. PICK h \in [0 .. Len(s) -> V] : IsRun(O, base, s, h)
    BY RunExists
  <2>2. IsRun(O, base, s, CHOOSE k : IsRun(O, base, s, k))
    BY <2>1
  <2>3. PICK k : k = (CHOOSE z : IsRun(O, base, s, z))
    OBVIOUS
  <2>4. PICK n \in Nat : n = Len(s)
    BY LenProperties
  <2>5. h[n] = k[n]
    BY <2>1, <2>2, <2>3, <2>4, RunUnique DEF IsRun
  <2>6. h[n] \in V
    BY <2>1, <2>4
  <2> QED BY <2>2, <2>3, <2>4, <2>5, <2>6 DEF FoldOf
<1>2. FoldOf(O, base, <<>>) = base
  <2>1. <<>> \in Seq(D) /\ Len(<<>>) = 0
    BY EmptySeq
  <2> QED BY <1>1, <2>1 DEF IsRun, Steps, FoldOf
<1>3. ASSUME NEW s \in Seq(D), NEW x \in D
      PROVE  FoldOf(O, base, Append(s, x)) = O[<<FoldOf(O, base, s), x>>]
  <2>1. PICK u : u = Append(s, x)
    OBVIOUS
  <2>2. PICK n \in Nat : n = Len(s)
    BY LenProperties
  <2>3. u \in Seq(D) /\ Len(u) = n + 1 /\ u[n + 1] = x /\ \A i \in 1 .. n : u[i] = s[i]
    BY <2>1, <2>2, AppendProperties
  <2>4. PICK h : h = (CHOOSE z : IsRun(O, base, s, z))
    OBVIOUS
  <2>5. PICK k : k = (CHOOSE z : IsRun(O, base, u, z))
    OBVIOUS
  <2>6. IsRun(O, base, s, h) /\ IsRun(O, base, u, k)
    BY <1>1, <2>3, <2>4, <2>5
  <2>7. /\ h[0] = base /\ \A i \in 1 .. n : h[i] = O[<<h[i - 1], s[i]>>]
        /\ k[0] = base /\ \A i \in 1 .. n + 1 : k[i] = O[<<k[i - 1], u[i]>>]
    BY <2>2, <2>3, <2>6 DEF IsRun, Steps
  <2>8. \A i \in 1 .. n : k[i] = O[<<k[i - 1], s[i]>>]
    <3> SUFFICES ASSUME NEW i \in 1 .. n PROVE k[i] = O[<<k[i - 1], s[i]>>]
      OBVIOUS
    <3>1. i \in 1 .. n + 1
      OBVIOUS
    <3> QED BY <2>3, <2>7, <3>1
  <2>9. h[n] = k[n]
    <3>1. Steps(O, base, s, n, h) /\ Steps(O, base, s, n, k)
      BY <2>7, <2>8 DEF Steps
    <3> QED BY <3>1, RunUnique
  <2>10. k[n + 1] = O[<<k[n], x>>]
    <3>1. n + 1 \in 1 .. n + 1 /\ (n + 1) - 1 = n
      OBVIOUS
    <3>2. k[n + 1] = O[<<k[(n + 1) - 1], u[n + 1]>>]
      BY <2>7, <3>1
    <3> QED BY <2>3, <3>1, <3>2
  <2>11. FoldOf(O, base, s) = h[n] /\ FoldOf(O, base, u) = k[n + 1]
    BY <2>2, <2>3, <2>4, <2>5 DEF FoldOf
  <2> QED BY <2>1, <2>9, <2>10, <2>11
<1> QED BY <1>1, <1>2, <1>3

\* FoldLeft goes through a table of the sets of positions.
Tabled(g, O, base, s, S) ==
    \A T \in SUBSET S :
        g[T] = IF T = {} THEN base ELSE O[<<g[T \ {Max(T)}], s[Max(T)]>>]

\* The greatest of some positions, known by what it is.
LEMMA GreatestIs ==
    ASSUME NEW T \in SUBSET Int, NEW m \in T, \A j \in T : m >= j
    PROVE  Max(T) = m
<1>1. \A x \in T : (\A j \in T : x >= j) => x = m
  <2> SUFFICES ASSUME NEW x \in T, \A j \in T : x >= j PROVE x = m
    OBVIOUS
  <2>1. x >= m /\ m >= x /\ x \in Int /\ m \in Int
    OBVIOUS
  <2> QED BY <2>1
<1> QED BY <1>1 DEF Max

\* The greatest of some positions of a sequence.
LEMMA LastPosition ==
    ASSUME NEW D, NEW s \in Seq(D), NEW T \in SUBSET DOMAIN s, T # {}
    PROVE  Max(T) \in T /\ \A j \in T : Max(T) >= j
<1>1. PICK n \in Nat : DOMAIN s = 1 .. n
  BY LenProperties
<1>2. IsFiniteSet(1 .. n)
  BY FS_Interval
<1>3. IsFiniteSet(T)
  BY <1>1, <1>2, FS_Subset
<1>4. T \in SUBSET Int
  BY <1>1
<1> QED BY <1>3, <1>4, LastNumber

\* A function from sets of positions tabulates a fold, as FoldLeft does.
LEMMA TableExists ==
    ASSUME NEW V, NEW D, NEW O, NEW base, Folds(O, base, V, D), NEW s \in Seq(D)
    PROVE  \E g \in [SUBSET DOMAIN s -> V] : Tabled(g, O, base, s, DOMAIN s)
<1> USE DEF Folds
<1> DEFINE S == DOMAIN s
           B == {U \in SUBSET S : ~ \E g \in [SUBSET U -> V] : Tabled(g, O, base, s, U)}
<1>1. PICK n \in Nat : S = 1 .. n /\ \A i \in S : s[i] \in D
  BY LenProperties
<1>2. IsFiniteSet(S)
  BY <1>1, FS_Interval
<1>3. SUFFICES ASSUME B # {} PROVE FALSE
  OBVIOUS
<1>4. PICK U \in B : \A W \in B : W \subseteq U => W = U
  <2>1. B \in SUBSET SUBSET S
    OBVIOUS
  <2> HIDE DEF B, S
  <2> QED BY <1>2, <1>3, <2>1, LeastSubset
<1>5. U \in SUBSET S /\ ~ \E g \in [SUBSET U -> V] : Tabled(g, O, base, s, U)
  OBVIOUS
<1>6. U # {}
  <2>1. ASSUME U = {} PROVE FALSE
    <3> DEFINE g == [T \in SUBSET {} |-> base]
    <3>1. g \in [SUBSET {} -> V]
      OBVIOUS
    <3>2. Tabled(g, O, base, s, {})
      BY DEF Tabled
    <3> HIDE DEF g
    <3> QED BY <1>5, <2>1, <3>1, <3>2
  <2> QED BY <2>1
<1>7. PICK m \in U : \A j \in U : m >= j
  <2>1. U \in SUBSET Int
    BY <1>1, <1>5
  <2>2. IsFiniteSet(U)
    BY <1>2, <1>5, FS_Subset
  <2> QED BY <1>6, <2>1, <2>2, LastNumber
<1> DEFINE W == U \ {m}
<1>8. PICK f \in [SUBSET W -> V] : Tabled(f, O, base, s, W)
  <2>1. W \in SUBSET S /\ W \subseteq U /\ W # U
    BY <1>5, <1>7
  <2>2. W \notin B
    <3> HIDE DEF B, W
    <3> QED BY <1>4, <2>1
  <2> HIDE DEF W
  <2> QED BY <2>1, <2>2
<1> DEFINE g == [T \in SUBSET U |-> IF m \in T THEN O[<<f[T \ {m}], s[m]>>] ELSE f[T]]
<1>9. ASSUME NEW T \in SUBSET U, m \in T
      PROVE  T \ {m} \in SUBSET W /\ f[T \ {m}] \in V /\ O[<<f[T \ {m}], s[m]>>] \in V
  <2>1. T \ {m} \in SUBSET W
    OBVIOUS
  <2>2. f[T \ {m}] \in V
    BY <1>8, <2>1
  <2>3. s[m] \in D
    BY <1>1, <1>5, <1>7
  <2> QED BY <2>1, <2>2, <2>3
<1>10. ASSUME NEW T \in SUBSET U, m \notin T PROVE T \in SUBSET W /\ f[T] \in V
  <2>1. T \in SUBSET W
    BY <1>10
  <2> QED BY <1>8, <2>1
<1>11. g \in [SUBSET U -> V]
  BY <1>9, <1>10
<1>12. ASSUME NEW T \in SUBSET U
       PROVE  g[T] = IF T = {} THEN base ELSE O[<<g[T \ {Max(T)}], s[Max(T)]>>]
  <2>1. CASE m \in T
    <3>1. Max(T) = m
      <4>1. T \in SUBSET Int /\ \A j \in T : m >= j
        BY <1>1, <1>5, <1>7
      <4> QED BY <2>1, <4>1, GreatestIs
    <3>2. T \ {m} \in SUBSET U /\ m \notin T \ {m}
      OBVIOUS
    <3>3. g[T \ {m}] = f[T \ {m}] /\ g[T] = O[<<f[T \ {m}], s[m]>>]
      BY <2>1, <3>2
    <3> HIDE DEF g
    <3> QED BY <2>1, <3>1, <3>3
  <2>2. CASE m \notin T /\ T # {}
    <3>1. T \in SUBSET W /\ T \ {Max(T)} \in SUBSET U /\ m \notin T \ {Max(T)}
      BY <2>2
    <3>2. f[T] = O[<<f[T \ {Max(T)}], s[Max(T)]>>]
      BY <1>8, <2>2, <3>1 DEF Tabled
    <3>3. g[T] = f[T] /\ g[T \ {Max(T)}] = f[T \ {Max(T)}]
      BY <2>2, <3>1
    <3> HIDE DEF g
    <3> QED BY <2>2, <3>2, <3>3
  <2>3. CASE T = {}
    <3>1. g[T] = f[T] /\ T \in SUBSET W
      BY <2>3
    <3>2. f[T] = base
      BY <1>8, <2>3, <3>1 DEF Tabled
    <3> QED BY <2>3, <3>1, <3>2
  <2> QED BY <2>1, <2>2, <2>3
<1>13. Tabled(g, O, base, s, U)
  <2> HIDE DEF g
  <2> QED BY <1>12 DEF Tabled
<1> HIDE DEF g
<1> QED BY <1>5, <1>11, <1>13

\* What the table has for all positions is the fold.
Follows(g, O, base, V, s) ==
    /\ g[{}] = base
    /\ \A T \in SUBSET DOMAIN s : T # {} /\ g[T \ {Max(T)}] \in V =>
           g[T] = O[<<g[T \ {Max(T)}], s[Max(T)]>>]

\* Whatever follows the table is the fold.
LEMMA TableIsFold ==
    ASSUME NEW V, NEW D, NEW O, NEW base, Folds(O, base, V, D), NEW s \in Seq(D), NEW g,
           Follows(g, O, base, V, s)
    PROVE  g[DOMAIN s] = FoldOf(O, base, s)
<1> USE DEF Follows, Folds
<1>1. PICK n \in Nat : n = Len(s) /\ DOMAIN s = 1 .. n /\ \A i \in 1 .. n : s[i] \in D
  BY LenProperties
<1>2. ASSUME NEW i \in 1 .. n
      PROVE  /\ Max(1 .. i) = i /\ (1 .. i) \ {i} = 1 .. i - 1
             /\ 1 .. i \in SUBSET DOMAIN s /\ 1 .. i # {}
  <2>1. 1 .. i \in SUBSET Int /\ i \in 1 .. i /\ \A j \in 1 .. i : i >= j
    OBVIOUS
  <2>2. Max(1 .. i) = i
    BY <2>1, GreatestIs
  <2>3. (1 .. i) \ {i} = 1 .. i - 1
    OBVIOUS
  <2>4. 1 .. i \in SUBSET DOMAIN s
    BY <1>1
  <2> QED BY <2>1, <2>2, <2>3, <2>4
<1>3. ASSUME NEW i \in 1 .. n, g[1 .. i - 1] \in V
      PROVE  g[1 .. i] = O[<<g[1 .. i - 1], s[i]>>] /\ g[1 .. i] \in V
  <2>1. PICK T : T = 1 .. i
    OBVIOUS
  <2>2. T \in SUBSET DOMAIN s /\ T # {} /\ Max(T) = i /\ T \ {i} = 1 .. i - 1
    BY <1>2, <2>1
  <2>3. g[T] = O[<<g[T \ {Max(T)}], s[Max(T)]>>]
    BY <1>3, <2>2
  <2>4. g[T] = O[<<g[1 .. i - 1], s[i]>>]
    BY <2>2, <2>3
  <2> QED BY <1>1, <1>3, <2>1, <2>4
<1> DEFINE G == {i \in Nat : i <= n => g[1 .. i] \in V}
<1>4. ASSUME NEW i \in Nat, i <= n PROVE g[1 .. i] \in V
  <2>1. 0 \in G
    <3>1. 1 .. 0 = {}
      OBVIOUS
    <3> QED BY <3>1
  <2>2. ASSUME NEW j \in G PROVE j + 1 \in G
    <3>1. j \in Nat /\ (j <= n => g[1 .. j] \in V)
      OBVIOUS
    <3>2. ASSUME j + 1 <= n PROVE g[1 .. j + 1] \in V
      <4>1. j + 1 \in 1 .. n /\ (j + 1) - 1 = j /\ j <= n
        BY <3>1, <3>2
      <4>2. g[1 .. (j + 1) - 1] \in V
        BY <3>1, <4>1
      <4> QED BY <1>3, <4>1, <4>2
    <3> QED BY <3>1, <3>2
  <2>3. G \in SUBSET Nat
    OBVIOUS
  <2>4. i \in G
    <3> HIDE DEF G
    <3> QED BY <2>1, <2>2, <2>3, NaturalsAll
  <2> QED BY <1>4, <2>4
<1> DEFINE h == [i \in 0 .. n |-> g[1 .. i]]
<1>5. IsRun(O, base, s, h)
  <2>1. h[0] = base
    <3>1. 1 .. 0 = {} /\ 0 \in 0 .. n
      OBVIOUS
    <3> QED BY <3>1
  <2>2. ASSUME NEW i \in 1 .. n PROVE h[i] = O[<<h[i - 1], s[i]>>]
    <3>1. i - 1 \in Nat /\ i - 1 <= n /\ i \in 0 .. n /\ i - 1 \in 0 .. n
      OBVIOUS
    <3>2. g[1 .. i - 1] \in V
      BY <1>4, <3>1
    <3>3. h[i] = g[1 .. i] /\ h[i - 1] = g[1 .. i - 1]
      BY <3>1
    <3> QED BY <1>3, <3>2, <3>3
  <2>3. DOMAIN h = 0 .. n
    OBVIOUS
  <2> HIDE DEF h
  <2> QED BY <1>1, <2>1, <2>2, <2>3 DEF IsRun, Steps
<1>6. PICK k : k = (CHOOSE z : IsRun(O, base, s, z))
  OBVIOUS
<1>7. h[n] = g[1 .. n]
  OBVIOUS
<1> HIDE DEF h
<1>8. IsRun(O, base, s, k)
  BY <1>5, <1>6
<1>9. h[n] = k[n]
  BY <1>1, <1>5, <1>8, RunUnique DEF IsRun
<1> QED BY <1>1, <1>6, <1>7, <1>9 DEF FoldOf

\* Flattening, one sequence more.
LEMMA FlattenSteps ==
    ASSUME NEW D
    PROVE  /\ FlattenSeq(<<>>) = <<>>
           /\ \A ss \in Seq(Seq(D)) : FlattenSeq(ss) \in Seq(D)
           /\ \A ss \in Seq(Seq(D)), t \in Seq(D) :
                 FlattenSeq(Append(ss, t)) = FlattenSeq(ss) \o t
<1> DEFINE V == Seq(D)
           O == [p \in V \X V |-> p[1] \o p[2]]
<1>1. O \in [V \X V -> V] /\ \A a, b \in V : O[<<a, b>>] = a \o b
  <2>1. \A a, b \in V : a \o b \in V
    BY ConcatProperties
  <2> HIDE DEF V
  <2> QED BY <2>1
<1>2. <<>> \in V
  BY EmptySeq
<1>8. Folds(O, <<>>, V, V)
  BY <1>1, <1>2 DEF Folds
<1>3. ASSUME NEW ss \in Seq(V) PROVE FlattenSeq(ss) = FoldOf(O, <<>>, ss)
  <2> DEFINE n == Len(ss)
             F(g) == g = [i \in 1 .. n |-> IF i = 1 THEN ss[i] ELSE g[i - 1] \o ss[i]]
  <2>1. n \in Nat /\ \A i \in 1 .. n : ss[i] \in V
    BY LenProperties
  <2>2. CASE n = 0
    <3>1. ss = <<>>
      BY <2>2, EmptySeq
    <3>2. FlattenSeq(ss) = <<>>
      BY <2>2, <3>1 DEF FlattenSeq
    <3>3. FoldOf(O, <<>>, <<>>) = <<>>
      <4> HIDE DEF O, V
      <4> QED BY <1>8, FoldSteps
    <3> QED BY <3>1, <3>2, <3>3
  <2>3. CASE n # 0
    <3>1. FlattenSeq(ss) = (CHOOSE g : F(g))[n]
      BY <2>3 DEF FlattenSeq
    <3> HIDE DEF O, V
    <3>2. PICK h \in [0 .. n -> V] : IsRun(O, <<>>, ss, h)
      BY <1>1, <1>2, RunExists
    <3>3. \A i \in 1 .. n : h[i - 1] \in V /\ ss[i] \in V
      BY <2>1, <3>2
    <3>4. h[0] = <<>> /\ \A i \in 1 .. n : h[i] = O[<<h[i - 1], ss[i]>>]
      BY <3>2 DEF IsRun, Steps
    <3>5. \A i \in 1 .. n : h[i] = h[i - 1] \o ss[i]
      BY <1>1, <3>3, <3>4
    <3>6. ASSUME 1 \in 1 .. n PROVE h[1] = ss[1]
      <4>1. h[1] = h[1 - 1] \o ss[1] /\ 1 - 1 = 0
        BY <3>5, <3>6
      <4>2. h[1] = <<>> \o ss[1]
        BY <3>4, <4>1
      <4>3. ss[1] \in Seq(D)
        BY <2>1, <3>6 DEF V
      <4> QED BY <4>2, <4>3, ConcatEmptySeq
    <3> DEFINE f == [i \in 1 .. n |-> h[i]]
    <3>7. F(f)
      <4>1. ASSUME NEW i \in 1 .. n PROVE f[i] = IF i = 1 THEN ss[i] ELSE f[i - 1] \o ss[i]
        <5>1. CASE i = 1
          BY <3>6, <5>1
        <5>2. CASE i # 1
          <6>1. i - 1 \in 1 .. n
            BY <2>1, <5>2
          <6>2. f[i] = h[i] /\ f[i - 1] = h[i - 1]
            BY <6>1
          <6> HIDE DEF f
          <6> QED BY <3>5, <5>2, <6>2
        <5> QED BY <5>1, <5>2
      <4>2. f = [i \in 1 .. n |-> f[i]]
        OBVIOUS
      <4> HIDE DEF f
      <4> QED BY <4>1, <4>2
    <3> HIDE DEF f
    <3>8. PICK g : g = (CHOOSE z : F(z))
      OBVIOUS
    <3>9. F(g)
      <4> HIDE DEF F
      <4> QED BY <3>7, <3>8
    <3>10. \A i \in 1 .. n : g[i] = IF i = 1 THEN ss[i] ELSE g[i - 1] \o ss[i]
      BY <3>9
    <3> HIDE DEF F
    <3> DEFINE G == {i \in Nat : i \in 1 .. n => g[i] = h[i]}
    <3>11. 0 \in G
      OBVIOUS
    <3>12. ASSUME NEW i \in G PROVE i + 1 \in G
      <4>1. i \in Nat
        OBVIOUS
      <4>2. ASSUME i + 1 \in 1 .. n PROVE g[i + 1] = h[i + 1]
        <5>1. CASE i = 0
          BY <3>6, <3>10, <4>2, <5>1
        <5>2. CASE i # 0
          <6>1. i \in 1 .. n /\ (i + 1) - 1 = i /\ i + 1 # 1
            BY <2>1, <4>1, <4>2, <5>2
          <6>2. g[i] = h[i]
            BY <6>1
          <6>3. g[i + 1] = g[i] \o ss[i + 1]
            BY <3>10, <4>2, <6>1
          <6>4. h[i + 1] = h[i] \o ss[i + 1]
            BY <3>5, <4>2, <6>1
          <6> QED BY <6>2, <6>3, <6>4
        <5> QED BY <5>1, <5>2
      <4> QED BY <4>1, <4>2
    <3>13. n \in G
      <4>1. G \in SUBSET Nat
        OBVIOUS
      <4> HIDE DEF G
      <4> QED BY <2>1, <3>11, <3>12, <4>1, NaturalsAll
    <3>14. g[n] = h[n]
      BY <2>1, <2>3, <3>13
    <3>15. PICK k : k = (CHOOSE z : IsRun(O, <<>>, ss, z))
      OBVIOUS
    <3>16. IsRun(O, <<>>, ss, k)
      BY <3>2, <3>15
    <3>17. h[n] = k[n]
      <4>1. Steps(O, <<>>, ss, n, h) /\ Steps(O, <<>>, ss, n, k)
        BY <3>2, <3>16 DEF IsRun
      <4> HIDE DEF n
      <4> QED BY <2>1, <4>1, RunUnique
    <3> QED BY <3>1, <3>8, <3>14, <3>15, <3>17 DEF FoldOf
  <2> QED BY <2>2, <2>3
<1>4. /\ FoldOf(O, <<>>, <<>>) = <<>>
      /\ \A s \in Seq(V) : FoldOf(O, <<>>, s) \in V
      /\ \A s \in Seq(V), x \in V : FoldOf(O, <<>>, Append(s, x)) = O[<<FoldOf(O, <<>>, s), x>>]
  <2> HIDE DEF O, V
  <2> QED BY <1>8, FoldSteps
<1>5. FlattenSeq(<<>>) = <<>>
  <2>1. <<>> \in Seq(V)
    BY EmptySeq
  <2> HIDE DEF O, V
  <2> QED BY <1>3, <1>4, <2>1
<1>6. ASSUME NEW ss \in Seq(V) PROVE FlattenSeq(ss) \in V
  <2> HIDE DEF O, V
  <2> QED BY <1>3, <1>4
<1>7. ASSUME NEW ss \in Seq(V), NEW t \in V PROVE FlattenSeq(Append(ss, t)) = FlattenSeq(ss) \o t
  <2>1. Append(ss, t) \in Seq(V)
    BY AppendProperties
  <2> HIDE DEF O, V
  <2>2. FoldOf(O, <<>>, Append(ss, t)) = O[<<FoldOf(O, <<>>, ss), t>>]
    BY <1>4
  <2>3. FoldOf(O, <<>>, ss) \in V
    BY <1>4
  <2> QED BY <1>1, <1>3, <2>1, <2>2, <2>3
<1> QED BY <1>5, <1>6, <1>7

\* What is in a sequence.
LEMMA ToSetSteps ==
    ASSUME NEW D
    PROVE  /\ ToSet(<<>>) = {}
           /\ \A s \in Seq(D) : ToSet(s) \in SUBSET D
           /\ \A s \in Seq(D), x \in D : ToSet(Append(s, x)) = ToSet(s) \union {x}
           /\ \A s, t \in Seq(D) : ToSet(s \o t) = ToSet(s) \union ToSet(t)
<1>1. ToSet(<<>>) = {}
  BY DEF ToSet
<1>2. ASSUME NEW s \in Seq(D) PROVE ToSet(s) = Range(s) /\ ToSet(s) \in SUBSET D
  BY LenProperties DEF ToSet, Range
<1>3. ASSUME NEW s \in Seq(D), NEW t \in Seq(D) PROVE ToSet(s \o t) = ToSet(s) \union ToSet(t)
  <2>1. s \o t \in Seq(D)
    BY ConcatProperties
  <2>2. Range(s \o t) = Range(s) \union Range(t)
    BY RangeConcatenation
  <2> QED BY <1>2, <2>1, <2>2
<1>4. ASSUME NEW s \in Seq(D), NEW x \in D PROVE ToSet(Append(s, x)) = ToSet(s) \union {x}
  <2>1. PICK n \in Nat : n = Len(s) /\ DOMAIN s = 1 .. n
    BY LenProperties
  <2>2. PICK u : u = Append(s, x)
    OBVIOUS
  <2>3. u \in Seq(D) /\ Len(u) = n + 1 /\ u[n + 1] = x /\ \A i \in 1 .. n : u[i] = s[i]
    BY <2>1, <2>2, AppendProperties
  <2>4. DOMAIN u = 1 .. n + 1
    BY <2>3, LenProperties
  <2>5. \A i \in 1 .. n + 1 : i \in 1 .. n \/ i = n + 1
    BY <2>1
  <2>6. \A i \in 1 .. n : i \in 1 .. n + 1
    BY <2>1
  <2>7. n + 1 \in 1 .. n + 1
    BY <2>1
  <2> QED BY <2>1, <2>2, <2>3, <2>4, <2>5, <2>6, <2>7 DEF ToSet
<1> QED BY <1>1, <1>2, <1>3, <1>4

\* A function from the first numbers is a sequence.
LEMMA TupleIsSeq ==
    ASSUME NEW D, NEW n \in Nat, NEW v \in [1 .. n -> D]
    PROVE  v \in Seq(D) /\ Len(v) = n
OBVIOUS

\* Elements of a part, in sequence.
LEMMA SeqOfPart ==
    ASSUME NEW B, NEW A \in SUBSET B
    PROVE  Seq(A) \in SUBSET Seq(B)
<1> SUFFICES ASSUME NEW s \in Seq(A) PROVE s \in Seq(B)
  OBVIOUS
<1>1. PICK n \in Nat : n = Len(s) /\ DOMAIN s = 1 .. n /\ \A i \in 1 .. n : s[i] \in A
  BY LenProperties
<1>2. s = [i \in 1 .. n |-> s[i]]
  BY <1>1
<1>3. s \in [1 .. n -> B]
  BY <1>1, <1>2
<1> QED BY <1>3, TupleIsSeq

\* Sequences put together in either order.
LEMMA ConcatAssociates ==
    ASSUME NEW D
    PROVE  \A a, b, c \in Seq(D) : (a \o b) \o c = a \o (b \o c) /\ a \o b \in Seq(D)
BY ConcatAssociative, ConcatProperties

\* To append is to concatenate a sequence of one.
LEMMA AppendLast ==
    ASSUME NEW D
    PROVE  /\ \A a \in Seq(D), x \in D : Append(a, x) = a \o <<x>> /\ Append(a, x) \in Seq(D)
           /\ \A a, b \in Seq(D), x \in D : a \o Append(b, x) = Append(a \o b, x)
<1>1. ASSUME NEW a \in Seq(D), NEW x \in D
      PROVE  Append(a, x) = a \o <<x>> /\ Append(a, x) \in Seq(D)
  BY AppendIsConcat, AppendProperties
<1>2. ASSUME NEW a \in Seq(D), NEW b \in Seq(D), NEW x \in D
      PROVE  a \o Append(b, x) = Append(a \o b, x)
  <2>1. PICK e : e = <<x>>
    OBVIOUS
  <2>2. e \in Seq(D)
    BY <2>1
  <2>3. (a \o b) \o e = a \o (b \o e) /\ a \o b \in Seq(D)
    BY <2>2, ConcatAssociates
  <2>4. Append(b, x) = b \o e
    BY <1>1, <2>1
  <2>5. Append(a \o b, x) = (a \o b) \o e
    BY <1>1, <2>1, <2>3
  <2> QED BY <2>3, <2>4, <2>5
<1> QED BY <1>1, <1>2

\* What each element gives, one after the other.
Mapped(f, s) == FlattenSeq([i \in DOMAIN s |-> f[s[i]]])

Maps(f, R, D) == \A x \in R : f[x] \in Seq(D)

\* The concatenated values of a sequence, element by element.
LEMMA MappedSteps ==
    ASSUME NEW R, NEW D, NEW f, Maps(f, R, D)
    PROVE  /\ Mapped(f, <<>>) = <<>>
           /\ \A s \in Seq(R) : Mapped(f, s) \in Seq(D)
           /\ \A s \in Seq(R), x \in R : Mapped(f, Append(s, x)) = Mapped(f, s) \o f[x]
<1> USE DEF Maps
<1>1. Mapped(f, <<>>) = <<>>
  <2>1. [i \in DOMAIN <<>> |-> f[<<>>[i]]] = <<>>
    OBVIOUS
  <2> QED BY <2>1, FlattenSteps DEF Mapped
<1>2. ASSUME NEW s \in Seq(R)
      PROVE  [i \in DOMAIN s |-> f[s[i]]] \in Seq(Seq(D)) /\ Mapped(f, s) \in Seq(D)
  <2>1. PICK n \in Nat : n = Len(s) /\ DOMAIN s = 1 .. n /\ \A i \in 1 .. n : s[i] \in R
    BY LenProperties
  <2>2. PICK v : v = [i \in DOMAIN s |-> f[s[i]]]
    OBVIOUS
  <2>3. v \in [1 .. n -> Seq(D)]
    BY <2>1, <2>2
  <2>4. v \in Seq(Seq(D))
    BY <2>3, TupleIsSeq
  <2> QED BY <2>2, <2>4, FlattenSteps DEF Mapped
<1>3. ASSUME NEW s \in Seq(R), NEW x \in R
      PROVE  Mapped(f, Append(s, x)) = Mapped(f, s) \o f[x]
  <2>1. PICK n \in Nat : n = Len(s) /\ DOMAIN s = 1 .. n /\ \A i \in 1 .. n : s[i] \in R
    BY LenProperties
  <2>2. PICK u : u = Append(s, x)
    OBVIOUS
  <2>3. u \in Seq(R) /\ Len(u) = n + 1 /\ u[n + 1] = x /\ \A i \in 1 .. n : u[i] = s[i]
    BY <2>1, <2>2, AppendProperties
  <2>4. DOMAIN u = 1 .. n + 1
    BY <2>3, LenProperties
  <2>5. PICK v, w : v = [i \in DOMAIN s |-> f[s[i]]] /\ w = [i \in DOMAIN u |-> f[u[i]]]
    OBVIOUS
  <2>6. v \in Seq(Seq(D)) /\ w \in Seq(Seq(D)) /\ f[x] \in Seq(D)
    BY <1>2, <2>3, <2>5
  <2>7. w = Append(v, f[x])
    <3>1. PICK z : z = Append(v, f[x])
      OBVIOUS
    <3>2. DOMAIN v = 1 .. n /\ Len(v) = n /\ DOMAIN w = 1 .. n + 1 /\ Len(w) = n + 1
      BY <2>1, <2>4, <2>5, <2>6, LenProperties
    <3>3. z \in Seq(Seq(D)) /\ Len(z) = n + 1 /\ z[n + 1] = f[x] /\ \A i \in 1 .. n : z[i] = v[i]
      BY <2>6, <3>1, <3>2, AppendProperties
    <3>4. ASSUME NEW i \in 1 .. n + 1 PROVE w[i] = z[i]
      <4>1. CASE i = n + 1
        BY <2>3, <2>4, <2>5, <3>3, <4>1
      <4>2. CASE i # n + 1
        <5>1. i \in 1 .. n
          BY <2>1, <4>2
        <5> QED BY <2>1, <2>3, <2>4, <2>5, <3>3, <5>1
      <4> QED BY <4>1, <4>2
    <3> QED BY <2>6, <3>1, <3>2, <3>3, <3>4, SeqEqual
  <2>8. FlattenSeq(Append(v, f[x])) = FlattenSeq(v) \o f[x]
    BY <2>6, FlattenSteps
  <2> QED BY <2>2, <2>5, <2>7, <2>8 DEF Mapped
<1> QED BY <1>1, <1>2, <1>3

\* Of two sequences, one after the other.
LEMMA MappedConcat ==
    ASSUME NEW R, NEW D, NEW f, Maps(f, R, D)
    PROVE  \A s, t \in Seq(R) : Mapped(f, s \o t) = Mapped(f, s) \o Mapped(f, t)
<1> SUFFICES ASSUME NEW s \in Seq(R), NEW t \in Seq(R)
             PROVE  Mapped(f, s \o t) = Mapped(f, s) \o Mapped(f, t)
  OBVIOUS
<1> DEFINE G == {u \in Seq(R) : Mapped(f, s \o u) = Mapped(f, s) \o Mapped(f, u)}
<1>1. /\ \A u \in Seq(R) : Mapped(f, u) \in Seq(D)
      /\ \A u \in Seq(R), x \in R : Mapped(f, Append(u, x)) = Mapped(f, u) \o f[x]
  BY MappedSteps
<1>2. <<>> \in G
  <2>1. Mapped(f, <<>>) = <<>>
    BY MappedSteps
  <2>2. s \o <<>> = s /\ Mapped(f, s) \o <<>> = Mapped(f, s) /\ <<>> \in Seq(R)
    BY <1>1, ConcatEmptySeq, EmptySeq
  <2> QED BY <2>1, <2>2
<1>3. ASSUME NEW u \in G, NEW x \in R PROVE Append(u, x) \in G
  <2>1. u \in Seq(R) /\ Mapped(f, s \o u) = Mapped(f, s) \o Mapped(f, u)
    OBVIOUS
  <2>2. s \o Append(u, x) = Append(s \o u, x) /\ Append(u, x) \in Seq(R)
    BY <2>1, AppendLast
  <2>3. s \o u \in Seq(R)
    BY <2>1, ConcatProperties
  <2>4. Mapped(f, Append(s \o u, x)) = Mapped(f, s \o u) \o f[x]
    BY <1>1, <2>3
  <2>5. Mapped(f, Append(u, x)) = Mapped(f, u) \o f[x]
    BY <1>1, <2>1
  <2>6. PICK a, b, c : a = Mapped(f, s) /\ b = Mapped(f, u) /\ c = f[x]
    OBVIOUS
  <2>7. a \in Seq(D) /\ b \in Seq(D) /\ c \in Seq(D)
    BY <1>1, <2>1, <2>6 DEF Maps
  <2>8. (a \o b) \o c = a \o (b \o c)
    BY <2>7, ConcatAssociates
  <2> QED BY <2>1, <2>2, <2>4, <2>5, <2>6, <2>8
<1>4. t \in G
  <2>1. G \in SUBSET Seq(R)
    OBVIOUS
  <2> HIDE DEF G
  <2> QED BY <1>2, <1>3, <2>1, SequencesAll
<1> QED BY <1>4

\* One map after another.
LEMMA MappedMapped ==
    ASSUME NEW R, NEW D, NEW E, NEW f, NEW g, Maps(f, R, D), Maps(g, D, E),
           NEW h, Maps(h, R, E), \A x \in R : h[x] = Mapped(g, f[x])
    PROVE  \A s \in Seq(R) : Mapped(g, Mapped(f, s)) = Mapped(h, s)
<1> DEFINE G == {s \in Seq(R) : Mapped(g, Mapped(f, s)) = Mapped(h, s)}
<1>1. \A x \in R : f[x] \in Seq(D)
  BY DEF Maps
<1>2. /\ \A t \in Seq(D) : Mapped(g, t) \in Seq(E)
      /\ \A t, u \in Seq(D) : Mapped(g, t \o u) = Mapped(g, t) \o Mapped(g, u)
  BY MappedSteps, MappedConcat
<1>3. \A s \in Seq(R), x \in R : Mapped(h, Append(s, x)) = Mapped(h, s) \o h[x]
  BY MappedSteps
<1>4. <<>> \in G
  <2>1. Mapped(f, <<>>) = <<>> /\ Mapped(g, <<>>) = <<>>
    BY MappedSteps
  <2>2. Mapped(h, <<>>) = <<>>
    BY MappedSteps
  <2> QED BY <2>1, <2>2, EmptySeq
<1>5. ASSUME NEW s \in G, NEW x \in R PROVE Append(s, x) \in G
  <2>1. s \in Seq(R) /\ Mapped(g, Mapped(f, s)) = Mapped(h, s)
    OBVIOUS
  <2>2. Mapped(f, Append(s, x)) = Mapped(f, s) \o f[x] /\ Mapped(f, s) \in Seq(D)
    BY <2>1, MappedSteps
  <2>3. Mapped(g, Mapped(f, s) \o f[x]) = Mapped(g, Mapped(f, s)) \o Mapped(g, f[x])
    BY <1>1, <1>2, <2>2
  <2>4. Mapped(h, Append(s, x)) = Mapped(h, s) \o h[x]
    BY <1>3, <2>1
  <2>5. h[x] = Mapped(g, f[x])
    OBVIOUS
  <2>6. Append(s, x) \in Seq(R)
    BY <2>1, AppendProperties
  <2> QED BY <2>1, <2>2, <2>3, <2>4, <2>5, <2>6
<1>6. ASSUME NEW s \in Seq(R) PROVE s \in G
  <2>1. G \in SUBSET Seq(R)
    OBVIOUS
  <2> HIDE DEF G
  <2> QED BY <1>4, <1>5, <2>1, SequencesAll
<1> QED BY <1>6

\* What a map gives is what it gives for an element.
LEMMA MappedRange ==
    ASSUME NEW R, NEW D, NEW f, Maps(f, R, D)
    PROVE  \A s \in Seq(R) : ToSet(Mapped(f, s)) = UNION {ToSet(f[x]) : x \in ToSet(s)}
<1> DEFINE G == {t \in Seq(R) : ToSet(Mapped(f, t)) = UNION {ToSet(f[x]) : x \in ToSet(t)}}
<1>1. <<>> \in G
  <2>1. Mapped(f, <<>>) = <<>>
    BY MappedSteps
  <2>2. ToSet(<<>>) = {} /\ <<>> \in Seq(R)
    BY ToSetSteps, EmptySeq
  <2> QED BY <2>1, <2>2
<1>2. ASSUME NEW t \in G, NEW x \in R PROVE Append(t, x) \in G
  <2>1. t \in Seq(R) /\ ToSet(Mapped(f, t)) = UNION {ToSet(f[y]) : y \in ToSet(t)}
    OBVIOUS
  <2>2. Mapped(f, Append(t, x)) = Mapped(f, t) \o f[x] /\ Mapped(f, t) \in Seq(D)
    BY <2>1, MappedSteps
  <2>3. f[x] \in Seq(D)
    BY DEF Maps
  <2>4. ToSet(Mapped(f, t) \o f[x]) = ToSet(Mapped(f, t)) \union ToSet(f[x])
    BY <2>2, <2>3, ToSetSteps
  <2>5. ToSet(Append(t, x)) = ToSet(t) \union {x}
    BY <2>1, ToSetSteps
  <2>6. UNION {ToSet(f[y]) : y \in ToSet(t) \union {x}}
          = (UNION {ToSet(f[y]) : y \in ToSet(t)}) \union ToSet(f[x])
    OBVIOUS
  <2>7. Append(t, x) \in Seq(R)
    BY <2>1, AppendProperties
  <2> QED BY <2>1, <2>2, <2>4, <2>5, <2>6, <2>7
<1>3. ASSUME NEW s \in Seq(R) PROVE s \in G
  <2>1. G \in SUBSET Seq(R)
    OBVIOUS
  <2> HIDE DEF G
  <2> QED BY <1>1, <1>2, <2>1, SequencesAll
<1> QED BY <1>3

\* A sequence of sequences, flattened, is what the identity gives.
LEMMA FlattenIsMapped ==
    ASSUME NEW R, NEW f, f = [u \in Seq(R) |-> u]
    PROVE  /\ Maps(f, Seq(R), R)
           /\ \A s \in Seq(Seq(R)) : FlattenSeq(s) = Mapped(f, s)
<1>1. ASSUME NEW s \in Seq(Seq(R)) PROVE FlattenSeq(s) = Mapped(f, s)
  <2>1. \A i \in DOMAIN s : s[i] \in Seq(R)
    BY LenProperties
  <2>2. s = [i \in DOMAIN s |-> s[i]]
    BY LenProperties
  <2>3. s = [i \in DOMAIN s |-> f[s[i]]]
    BY <2>1, <2>2
  <2> QED BY <2>3 DEF Mapped
<1> QED BY <1>1 DEF Maps

=============================================================================
