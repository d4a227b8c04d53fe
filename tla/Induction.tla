------------------------------ MODULE Induction ------------------------------
(***************************************************************************)
(* Induction in the form the proofs use it: a set of naturals that is not  *)
(* empty has a least element.  The library states induction for operators; *)
(* here it is derived for sets from well-foundedness, and with it what the  *)
(* library's sum over a finite set computes.                               *)
(***************************************************************************)
EXTENDS Functions, FiniteSetTheorems, WellFoundedInduction, TLAPS

\* A set of naturals has a least element.
LEMMA LeastNatural ==
  ASSUME NEW S \in SUBSET Nat, S # {}
  PROVE  \E n \in S : \A m \in S : n <= m
<1> DEFINE R == OpToRel(<, Nat)
<1>1. IsWellFoundedOn(R, Nat)
  BY NatLessThanWellFounded
<1>2. R = {ss \in Nat \X Nat : ss[1] < ss[2]}
  BY DEF OpToRel
<1>3. \A x, y \in Nat : y < x => <<y, x>> \in R
  BY <1>2
<1> HIDE DEF R
<1>4. PICK x \in S : \A y \in S : ~ (<<y, x>> \in R)
  BY <1>1, WFMin, Zenon
<1>5. ASSUME NEW m \in S PROVE x <= m
  <2>1. ~(m < x)
    BY <1>3, <1>4
  <2>. QED
    BY <2>1
<1>. QED
  BY <1>4, <1>5

\* What holds of 0 and of the successor of whatever it holds of, holds of all.
LEMMA SetInduction ==
  ASSUME NEW T \in SUBSET Nat, 0 \in T, \A n \in T : n + 1 \in T
  PROVE  T = Nat
<1> SUFFICES ASSUME NEW k \in Nat \ T PROVE FALSE
  OBVIOUS
<1>1. PICK n \in Nat \ T : \A m \in Nat \ T : n <= m
  BY LeastNatural
<1>2. n # 0 /\ n - 1 \in Nat /\ n - 1 \in T
  BY <1>1
<1>. QED
  BY <1>1, <1>2

\* A set of naturals with an upper bound has a greatest element.
LEMMA GreatestNatural ==
  ASSUME NEW S \in SUBSET Nat, S # {}, NEW k \in Nat, \A n \in S : n <= k
  PROVE  \E n \in S : \A m \in S : m <= n
<1> DEFINE T == {k - n : n \in S}
<1>1. T \in SUBSET Nat /\ T # {}
  <2>1. ASSUME NEW n \in S PROVE k - n \in Nat
    BY DEF T
  <2>. QED
    BY <2>1
<1>2. PICK d \in T : \A e \in T : d <= e
  BY <1>1, LeastNatural
<1>3. PICK n \in S : d = k - n
  BY <1>2
<1>4. ASSUME NEW m \in S PROVE m <= n
  <2>1. d <= k - m
    BY <1>2
  <2>. QED
    BY <1>3, <2>1
<1>. QED
  BY <1>4

\* A family of subsets of a finite set has a minimal one.
LEMMA MinimalSubset ==
  ASSUME NEW S, IsFiniteSet(S), NEW F \in SUBSET SUBSET S, F # {}
  PROVE  \E T \in F : \A x \in T : T \ {x} \notin F
<1> DEFINE Sizes == {Cardinality(T) : T \in F}
<1>1. \A T \in F : IsFiniteSet(T) /\ Cardinality(T) \in Nat
  BY FS_Subset, FS_CardinalityType
<1>2. PICK n \in Sizes : \A m \in Sizes : n <= m
  <2>1. Sizes \in SUBSET Nat /\ Sizes # {}
    BY <1>1
  <2> HIDE DEF Sizes
  <2>. QED
    BY <2>1, LeastNatural
<1>3. PICK T \in F : Cardinality(T) = n
  BY <1>2
<1>4. ASSUME NEW x \in T, T \ {x} \in F PROVE FALSE
  <2>1. Cardinality(T \ {x}) = Cardinality(T) - 1
    BY <1>1, FS_RemoveElement
  <2>2. n <= Cardinality(T \ {x})
    BY <1>2, <1>4
  <2>. QED
    BY <1>1, <1>3, <2>1, <2>2
<1>. QED
  BY <1>4

\* A family of subsets of a finite set that has the empty set and grows by
\* single elements is the family of all its subsets.
LEMMA SubsetInduction ==
  ASSUME NEW S, IsFiniteSet(S), NEW F \in SUBSET SUBSET S,
         {} \in F, \A T \in F : \A x \in S \ T : T \cup {x} \in F
  PROVE  F = SUBSET S
<1> SUFFICES ASSUME (SUBSET S) \ F # {} PROVE FALSE
  OBVIOUS
<1>1. PICK T \in (SUBSET S) \ F : \A x \in T : T \ {x} \notin (SUBSET S) \ F
  BY MinimalSubset
<1>2. PICK x \in S : x \in T
  <2>1. T # {}
    BY <1>1
  <2>. QED
    BY <2>1
<1>3. T \ {x} \in F /\ x \in S \ (T \ {x}) /\ (T \ {x}) \cup {x} = T
  BY <1>1, <1>2
<1>4. T \in F
  BY <1>3
<1>. QED
  BY <1>4

\* The values of a function that a sum over a finite set adds.
Summable(f, S) == IsFiniteSet(S) /\ \A x \in S : f[x] \in Int

\* A sum over S that does not depend on the order of its summands.
Additive(G, f, S) ==
  /\ G \in [SUBSET S -> Int]
  /\ G[{}] = 0
  /\ \A T \in SUBSET S : \A x \in T : G[T] = f[x] + G[T \ {x}]

\* There is a sum of integers over the subsets of a finite set that does not
\* depend on the order of its summands.
LEMMA SumExists ==
  ASSUME NEW S, NEW f, Summable(f, S)
  PROVE  \E G : Additive(G, f, S)
<1>0. IsFiniteSet(S) /\ \A x \in S : f[x] \in Int
  BY DEF Summable
<1> DEFINE F == {U \in SUBSET S : \E G : Additive(G, f, U)}
<1>1. {} \in F
  <2> DEFINE G == [T \in SUBSET {} |-> 0]
  <2>1. Additive(G, f, {})
    BY DEF Additive
  <2>. QED
    BY <2>1
<1>2. ASSUME NEW U \in F, NEW y \in S \ U PROVE U \cup {y} \in F
  <2>1. PICK G0 : Additive(G0, f, U)
    OBVIOUS
  <2> DEFINE V == U \cup {y}
             G == [T \in SUBSET V |-> IF y \in T THEN f[y] + G0[T \ {y}] ELSE G0[T]]
  <2>2. \A T \in SUBSET V : T \ {y} \in SUBSET U /\ (y \notin T => T \in SUBSET U)
    OBVIOUS
  <2>3. G \in [SUBSET V -> Int] /\ G[{}] = 0
    BY <1>0, <2>1, <2>2 DEF Additive
  <2>4. ASSUME NEW T \in SUBSET V, NEW x \in T PROVE G[T] = f[x] + G[T \ {x}]
    <3>0. T \ {x} \in SUBSET V /\ f[x] \in Int /\ f[y] \in Int
      BY <1>0
    <3>1. CASE x = y
      BY <3>0, <3>1
    <3>2. CASE x # y /\ y \notin T
      <4>1. G[T] = G0[T] /\ G[T \ {x}] = G0[T \ {x}] /\ T \in SUBSET U
        BY <3>2, <3>0
      <4>. QED
        BY <4>1, <2>1 DEF Additive
    <3>3. CASE x # y /\ y \in T
      <4>1. G[T] = f[y] + G0[T \ {y}] /\ G[T \ {x}] = f[y] + G0[(T \ {x}) \ {y}]
        BY <3>3, <3>0
      <4>2. (T \ {x}) \ {y} = (T \ {y}) \ {x} /\ x \in T \ {y} /\ T \ {y} \in SUBSET U
        BY <3>3
      <4>3. G0[T \ {y}] = f[x] + G0[(T \ {y}) \ {x}]
        BY <4>2, <2>1 DEF Additive
      <4>4. G0[(T \ {y}) \ {x}] \in Int
        BY <4>2, <2>1 DEF Additive
      <4>5. f[x] \in Int /\ f[y] \in Int
        BY <3>0
      <4> HIDE DEF G, V
      <4>6. G[T \ {x}] = f[y] + G0[(T \ {y}) \ {x}]
        BY <4>1, <4>2
      <4>7. G[T] = f[y] + (f[x] + G0[(T \ {y}) \ {x}])
        BY <4>1, <4>3
      <4>8. \A a, b, c \in Int : a + (b + c) = b + (a + c)
        OBVIOUS
      <4>. QED
        BY <4>4, <4>5, <4>6, <4>7, <4>8
    <3>. QED
      BY <3>1, <3>2, <3>3
  <2> HIDE DEF G
  <2>5. Additive(G, f, V)
    BY <2>3, <2>4 DEF Additive
  <2>. QED
    BY <2>5
<1>3. F = SUBSET S
  <2>1. F \in SUBSET SUBSET S
    OBVIOUS
  <2> HIDE DEF F
  <2>. QED
    BY <1>0, <1>1, <1>2, <2>1, SubsetInduction
<1>4. S \in F
  BY <1>3
<1>. QED
  BY <1>4

\* The sum that the library computes is that one.
LEMMA SumIsThat ==
  ASSUME NEW S, IsFiniteSet(S), NEW f, NEW G, Additive(G, f, S)
  PROVE  SumFunctionOnSet(f, S) = G[S]
<1>0. /\ G \in [SUBSET S -> Int] /\ G[{}] = 0
      /\ \A T \in SUBSET S : \A x \in T : G[T] = f[x] + G[T \ {x}]
  BY DEF Additive
<1> DEFINE Iter(h) == h = [s \in SUBSET S |-> IF s = {} THEN 0
                             ELSE f[CHOOSE x \in s : TRUE] + h[s \ {CHOOSE x \in s : TRUE}]]
           h == CHOOSE h : Iter(h)
<1>1. SumFunctionOnSet(f, S) = h[S]
  BY DEF SumFunctionOnSet, FoldFunctionOnSet, MapThenFoldSet
<1>2. \A s \in SUBSET S : s # {} => (CHOOSE x \in s : TRUE) \in s
  OBVIOUS
<1>3. Iter(G)
  BY <1>0, <1>2
<1>4. Iter(h)
  <2> HIDE DEF Iter
  <2>. QED
    BY <1>3
<1> HIDE DEF h
<1> DEFINE F == {T \in SUBSET S : h[T] # G[T]}
<1>5. ASSUME F # {} PROVE FALSE
  <2>1. PICK T \in F : \A x \in T : T \ {x} \notin F
    BY <1>5, MinimalSubset
  <2> DEFINE x == CHOOSE x \in T : TRUE
  <2>2. T # {}
    BY <1>0, <2>1, <1>4
  <2>3. x \in T
    BY <2>2
  <2>4. h[T] = f[x] + h[T \ {x}]
    BY <1>4, <2>2
  <2>5. h[T \ {x}] = G[T \ {x}]
    BY <2>1, <2>3
  <2>6. G[T] = f[x] + G[T \ {x}]
    BY <1>0, <2>3
  <2>. QED
    BY <2>4, <2>5, <2>6
<1>. QED
  BY <1>1, <1>5

\* A sum over a finite set is an integer and may give up any summand.
LEMMA SumStep ==
  ASSUME NEW S, NEW f, Summable(f, S)
  PROVE  /\ SumFunctionOnSet(f, {}) = 0
         /\ \A T \in SUBSET S :
              /\ SumFunctionOnSet(f, T) \in Int
              /\ \A x \in T : SumFunctionOnSet(f, T) = f[x] + SumFunctionOnSet(f, T \ {x})
<1>0. IsFiniteSet(S) /\ \A x \in S : f[x] \in Int
  BY DEF Summable
<1>1. PICK G : Additive(G, f, S)
  BY SumExists
<1>2. ASSUME NEW T \in SUBSET S PROVE SumFunctionOnSet(f, T) = G[T]
  <2> DEFINE H == [U \in SUBSET T |-> G[U]]
  <2>1. IsFiniteSet(T)
    BY <1>0, FS_Subset
  <2>2. Additive(H, f, T) /\ H[T] = G[T]
    BY <1>1 DEF Additive
  <2> HIDE DEF H
  <2>3. SumFunctionOnSet(f, T) = H[T]
    BY <2>1, <2>2, SumIsThat
  <2>. QED
    BY <2>2, <2>3
<1>3. \A T \in SUBSET S : \A x \in T : T \ {x} \in SUBSET S
  OBVIOUS
<1>. QED
  BY <1>1, <1>2, <1>3 DEF Additive

\* A sum is the sum over a part and the sum over the rest.
LEMMA SumSplit ==
  ASSUME NEW S, NEW f, Summable(f, S), NEW U \in SUBSET S
  PROVE  SumFunctionOnSet(f, S) = SumFunctionOnSet(f, U) + SumFunctionOnSet(f, S \ U)
<1> DEFINE Sum(T) == SumFunctionOnSet(f, T)
           F == {T \in SUBSET S : Sum(S) = Sum(T) + Sum(S \ T)}
<1>0. IsFiniteSet(S) /\ \A x \in S : f[x] \in Int
  BY DEF Summable
<1>1. /\ Sum({}) = 0
      /\ \A T \in SUBSET S : Sum(T) \in Int /\ \A x \in T : Sum(T) = f[x] + Sum(T \ {x})
  BY SumStep
<1> HIDE DEF Sum
<1>2. {} \in F
  <2>1. S \ {} = S
    OBVIOUS
  <2>. QED
    BY <1>1, <2>1
<1>3. ASSUME NEW T \in F, NEW x \in S \ T PROVE T \cup {x} \in F
  <2>1. Sum(T \cup {x}) = f[x] + Sum(T)
    <3>1. (T \cup {x}) \ {x} = T /\ T \cup {x} \in SUBSET S
      OBVIOUS
    <3>. QED
      BY <3>1, <1>1
  <2>2. Sum(S \ T) = f[x] + Sum(S \ (T \cup {x}))
    <3>1. (S \ T) \ {x} = S \ (T \cup {x})
      OBVIOUS
    <3>. QED
      BY <3>1, <1>1
  <2>3. Sum(T) \in Int /\ Sum(S \ (T \cup {x})) \in Int /\ f[x] \in Int
    BY <1>0, <1>1
  <2>4. Sum(S) = Sum(T) + Sum(S \ T)
    OBVIOUS
  <2>5. \A a, b, c \in Int : a + (b + c) = (b + a) + c
    OBVIOUS
  <2>6. Sum(S) = Sum(T \cup {x}) + Sum(S \ (T \cup {x}))
    BY <2>1, <2>2, <2>3, <2>4, <2>5
  <2>. QED
    BY <2>6
<1>4. F = SUBSET S
  <2>1. F \in SUBSET SUBSET S
    OBVIOUS
  <2> HIDE DEF F
  <2>. QED
    BY <1>0, <1>2, <1>3, <2>1, SubsetInduction
<1>. QED
  BY <1>4 DEF Sum

\* A sum grows with its summands.
LEMMA SumMonotone ==
  ASSUME NEW S, NEW f, Summable(f, S), NEW g, Summable(g, S),
         \A x \in S : f[x] <= g[x]
  PROVE  SumFunctionOnSet(f, S) <= SumFunctionOnSet(g, S)
<1> DEFINE SumF(T) == SumFunctionOnSet(f, T)
           SumG(T) == SumFunctionOnSet(g, T)
           F == {T \in SUBSET S : SumF(T) <= SumG(T)}
<1>0. IsFiniteSet(S) /\ \A x \in S : f[x] \in Int /\ g[x] \in Int
  BY DEF Summable
<1>1. /\ SumF({}) = 0 /\ SumG({}) = 0
      /\ \A T \in SUBSET S : SumF(T) \in Int /\ \A x \in T : SumF(T) = f[x] + SumF(T \ {x})
      /\ \A T \in SUBSET S : SumG(T) \in Int /\ \A x \in T : SumG(T) = g[x] + SumG(T \ {x})
  BY SumStep
<1> HIDE DEF SumF, SumG
<1>2. {} \in F
  BY <1>1
<1>3. ASSUME NEW T \in F, NEW x \in S \ T PROVE T \cup {x} \in F
  <2>1. (T \cup {x}) \ {x} = T /\ T \cup {x} \in SUBSET S
    OBVIOUS
  <2>2. SumF(T \cup {x}) = f[x] + SumF(T) /\ SumG(T \cup {x}) = g[x] + SumG(T)
    BY <2>1, <1>1
  <2>3. SumF(T) \in Int /\ SumG(T) \in Int /\ SumF(T) <= SumG(T)
    BY <1>1
  <2>. QED
    BY <1>0, <2>1, <2>2, <2>3
<1>4. F = SUBSET S
  <2>1. F \in SUBSET SUBSET S
    OBVIOUS
  <2> HIDE DEF F
  <2>. QED
    BY <1>0, <1>2, <1>3, <2>1, SubsetInduction
<1>. QED
  BY <1>4 DEF SumF, SumG

\* Nothing negative is summed up to something negative.
LEMMA SumNonNegative ==
  ASSUME NEW S, NEW f, Summable(f, S), \A x \in S : 0 <= f[x]
  PROVE  0 <= SumFunctionOnSet(f, S)
<1> DEFINE Sum(T) == SumFunctionOnSet(f, T)
           F == {T \in SUBSET S : 0 <= Sum(T)}
<1>0. IsFiniteSet(S) /\ \A x \in S : f[x] \in Int
  BY DEF Summable
<1>1. /\ Sum({}) = 0
      /\ \A T \in SUBSET S : Sum(T) \in Int /\ \A x \in T : Sum(T) = f[x] + Sum(T \ {x})
  BY SumStep
<1> HIDE DEF Sum
<1>2. {} \in F
  BY <1>1
<1>3. ASSUME NEW T \in F, NEW x \in S \ T PROVE T \cup {x} \in F
  <2>1. (T \cup {x}) \ {x} = T /\ T \cup {x} \in SUBSET S
    OBVIOUS
  <2>2. Sum(T \cup {x}) = f[x] + Sum(T) /\ Sum(T) \in Int /\ 0 <= Sum(T)
    BY <2>1, <1>1
  <2>. QED
    BY <1>0, <2>1, <2>2
<1>4. F = SUBSET S
  <2>1. F \in SUBSET SUBSET S
    OBVIOUS
  <2> HIDE DEF F
  <2>. QED
    BY <1>0, <1>2, <1>3, <2>1, SubsetInduction
<1>. QED
  BY <1>4 DEF Sum

\* The members of a finite set, counted by the part they belong to.
LEMMA PartsSum ==
  ASSUME NEW S, IsFiniteSet(S), NEW K, IsFiniteSet(K), NEW part, \A k \in K : part[k] \in S
  PROVE  Cardinality(K) =
           SumFunctionOnSet([b \in S |-> Cardinality({k \in K : part[k] = b})], S)
<1> DEFINE c == [b \in S |-> Cardinality({k \in K : part[k] = b})]
           In(T) == {k \in K : part[k] \in T}
           F == {T \in SUBSET S : Cardinality(In(T)) = SumFunctionOnSet(c, T)}
<1>1. Summable(c, S)
  <2>1. ASSUME NEW b \in S PROVE Cardinality({k \in K : part[k] = b}) \in Int
    <3>1. {k \in K : part[k] = b} \in SUBSET K
      OBVIOUS
    <3>. QED
      BY <3>1, FS_Subset, FS_CardinalityType
  <2>. QED
    BY <2>1 DEF Summable
<1>2. /\ SumFunctionOnSet(c, {}) = 0
      /\ \A T \in SUBSET S :
           /\ SumFunctionOnSet(c, T) \in Int
           /\ \A x \in T : SumFunctionOnSet(c, T) = c[x] + SumFunctionOnSet(c, T \ {x})
  <2> HIDE DEF c
  <2>. QED
    BY <1>1, SumStep
<1>3. {} \in F
  <2>1. In({}) = {}
    OBVIOUS
  <2>. QED
    BY <1>2, <2>1, FS_EmptySet
<1>4. ASSUME NEW T \in F, NEW x \in S \ T PROVE T \cup {x} \in F
  <2>1. (T \cup {x}) \ {x} = T /\ T \cup {x} \in SUBSET S
    OBVIOUS
  <2>2. SumFunctionOnSet(c, T \cup {x}) = c[x] + SumFunctionOnSet(c, T)
    <3> HIDE DEF c
    <3>. QED
      BY <2>1, <1>2
  <2> DEFINE X == {k \in K : part[k] = x}
  <2>3. In(T \cup {x}) = In(T) \cup X /\ In(T) \cap X = {}
    OBVIOUS
  <2>4. IsFiniteSet(In(T)) /\ IsFiniteSet(X)
    <3>1. In(T) \in SUBSET K /\ X \in SUBSET K
      OBVIOUS
    <3>. QED
      BY <3>1, FS_Subset
  <2>5. Cardinality(In(T) \cup X) = Cardinality(In(T)) + Cardinality(X)
    <3>1. Cardinality(In(T)) \in Nat /\ Cardinality(X) \in Nat /\ Cardinality({}) = 0
      BY <2>4, FS_EmptySet, FS_CardinalityType
    <3> HIDE DEF In, X
    <3>2. Cardinality(In(T) \cup X) = Cardinality(In(T)) + Cardinality(X) - Cardinality(In(T) \cap X)
      BY <2>4, FS_Union
    <3>3. Cardinality(In(T) \cap X) = 0
      BY <2>3, <3>1
    <3>4. \A m, n \in Nat : m + n - 0 = m + n
      OBVIOUS
    <3>. QED
      BY <3>1, <3>2, <3>3, <3>4
  <2>6. c[x] = Cardinality(X)
    OBVIOUS
  <2>7. Cardinality(In(T)) = SumFunctionOnSet(c, T)
    OBVIOUS
  <2>8. Cardinality(In(T)) \in Int /\ Cardinality(X) \in Int
    BY <2>4, FS_CardinalityType
  <2>9. Cardinality(In(T \cup {x})) = SumFunctionOnSet(c, T \cup {x})
    <3> HIDE DEF In, X, c
    <3>1. \A m, n \in Int : m + n = n + m
      OBVIOUS
    <3>. QED
      BY <2>2, <2>3, <2>5, <2>6, <2>7, <2>8, <3>1
  <2>. QED
    BY <2>1, <2>9
<1>5. F = SUBSET S
  <2>1. F \in SUBSET SUBSET S
    OBVIOUS
  <2> HIDE DEF F
  <2>. QED
    BY <1>3, <1>4, <2>1, SubsetInduction
<1>6. S \in F
  BY <1>5
<1>7. In(S) = K
  OBVIOUS
<1>. QED
  BY <1>6, <1>7

\* No summand exceeds a sum in which nothing is negative.
LEMMA SumCovers ==
  ASSUME NEW S, NEW f, Summable(f, S), \A x \in S : 0 <= f[x], NEW x \in S
  PROVE  f[x] <= SumFunctionOnSet(f, S)
<1>1. S \in SUBSET S /\ S \ {x} \in SUBSET S
  OBVIOUS
<1>2. /\ SumFunctionOnSet(f, S) = f[x] + SumFunctionOnSet(f, S \ {x})
      /\ SumFunctionOnSet(f, S \ {x}) \in Int /\ f[x] \in Int
  BY <1>1, SumStep DEF Summable
<1>3. Summable(f, S \ {x}) /\ \A y \in S \ {x} : 0 <= f[y]
  BY <1>1, FS_Subset DEF Summable
<1>4. 0 <= SumFunctionOnSet(f, S \ {x})
  BY <1>3, SumNonNegative
<1>. QED
  BY <1>2, <1>4

-----------------------------------------------------------------------------
(* Finite sets.                                                            *)

\* What a function makes of a finite set is finite.
LEMMA ImageFinite ==
  ASSUME NEW S, IsFiniteSet(S), NEW f
  PROVE  IsFiniteSet({f[x] : x \in S})
<1> DEFINE T == {f[x] : x \in S}
           g == [x \in S |-> f[x]]
<1>1. g \in Surjection(S, T)
  BY DEF Surjection
<1> HIDE DEF T, g
<1>2. IsFiniteSet(T)
  BY <1>1, FS_Surjection
<1>. QED
  BY <1>2 DEF T

\* Finitely many numbers have a bound.
LEMMA FiniteBounded ==
  ASSUME NEW S \in SUBSET Nat, IsFiniteSet(S)
  PROVE  \E k \in Nat : \A x \in S : x <= k
<1> DEFINE F == {T \in SUBSET S : \E k \in Nat : \A x \in T : x <= k}
<1>1. {} \in F
  BY 0 \in Nat
<1>2. ASSUME NEW T \in F, NEW x \in S \ T PROVE T \cup {x} \in F
  <2>1. PICK k \in Nat : \A y \in T : y <= k
    OBVIOUS
  <2>2. k + x \in Nat /\ \A y \in T \cup {x} : y <= k + x
    BY <2>1
  <2>3. T \cup {x} \in SUBSET S
    OBVIOUS
  <2>. QED
    BY <2>2, <2>3
<1>3. F = SUBSET S
  <2>1. F \in SUBSET SUBSET S
    OBVIOUS
  <2> HIDE DEF F
  <2>. QED
    BY <1>1, <1>2, <2>1, SubsetInduction
<1>4. S \in F
  BY <1>3
<1>. QED
  BY <1>4

\* A finite set has finitely many sequences up to some length.
LEMMA SequencesFinite ==
  ASSUME NEW S, IsFiniteSet(S), NEW n \in Nat
  PROVE  IsFiniteSet(UNION {[1 .. m -> S] : m \in 0 .. n})
<1> DEFINE T == {m \in Nat : IsFiniteSet([1 .. m -> S])}
<1>1. 0 \in T
  <2> DEFINE e == [x \in {} |-> x]
  <2>1. 1 .. 0 = {}
    OBVIOUS
  <2>2. ASSUME NEW s \in [{} -> S] PROVE s = e
    <3>1. s = [x \in {} |-> s[x]]
      OBVIOUS
    <3>. QED
      BY <3>1
  <2>3. [{} -> S] \in SUBSET {e}
    BY <2>2
  <2>4. IsFiniteSet({e})
    BY FS_Singleton
  <2> HIDE DEF e
  <2>5. IsFiniteSet([1 .. 0 -> S])
    BY <2>1, <2>3, <2>4, FS_Subset
  <2>. QED
    BY <2>5
<1>2. ASSUME NEW m \in T PROVE m + 1 \in T
  <2> DEFINE P == [1 .. m -> S] \X S
             G == [p \in P |-> [j \in 1 .. m + 1 |-> IF j = m + 1 THEN p[2] ELSE p[1][j]]]
             I == {G[p] : p \in P}
  <2>1. IsFiniteSet(P)
    BY FS_Product
  <2>2. IsFiniteSet(I)
    <3> HIDE DEF P, G
    <3>. QED
      BY <2>1, ImageFinite
  <2>3. ASSUME NEW s \in [1 .. m + 1 -> S] PROVE s \in I
    <3> DEFINE q == <<[j \in 1 .. m |-> s[j]], s[m + 1]>>
    <3>1. \A j \in 1 .. m + 1 : j = m + 1 \/ j \in 1 .. m
      OBVIOUS
    <3>2. m + 1 \in 1 .. m + 1 /\ \A j \in 1 .. m : j \in 1 .. m + 1
      OBVIOUS
    <3>3. q \in P
      BY <3>2
    <3>4. G[q] = [j \in 1 .. m + 1 |-> s[j]]
      <4>1. G[q] = [j \in 1 .. m + 1 |-> IF j = m + 1 THEN s[m + 1] ELSE [k \in 1 .. m |-> s[k]][j]]
        <5>1. q[1] = [k \in 1 .. m |-> s[k]] /\ q[2] = s[m + 1]
          OBVIOUS
        <5> HIDE DEF q
        <5>2. G[q] = [j \in 1 .. m + 1 |-> IF j = m + 1 THEN q[2] ELSE q[1][j]]
          BY <3>3
        <5>. QED
          BY <5>1, <5>2
      <4>2. \A j \in 1 .. m + 1 : (IF j = m + 1 THEN s[m + 1] ELSE [k \in 1 .. m |-> s[k]][j]) = s[j]
        BY <3>1
      <4>. QED
        BY <4>1, <4>2
    <3>5. s = [j \in 1 .. m + 1 |-> s[j]]
      OBVIOUS
    <3>. QED
      BY <3>3, <3>4, <3>5
  <2>4. [1 .. m + 1 -> S] \in SUBSET I
    BY <2>3
  <2>5. IsFiniteSet([1 .. m + 1 -> S])
    <3> HIDE DEF I
    <3>. QED
      BY <2>2, <2>4, FS_Subset
  <2>. QED
    BY <2>5
<1>3. T = Nat
  <2>1. T \in SUBSET Nat
    OBVIOUS
  <2> HIDE DEF T
  <2>. QED
    BY <1>1, <1>2, <2>1, SetInduction
<1> DEFINE All == {[1 .. m -> S] : m \in 0 .. n}
<1>4. IsFiniteSet(All)
  <2> DEFINE f == [m \in 0 .. n |-> [1 .. m -> S]]
  <2>1. All = {f[m] : m \in 0 .. n}
    OBVIOUS
  <2>2. IsFiniteSet(0 .. n)
    BY FS_Interval
  <2> HIDE DEF f
  <2>3. IsFiniteSet({f[m] : m \in 0 .. n})
    BY <2>2, ImageFinite
  <2>. QED
    BY <2>1, <2>3
<1>5. \A U \in All : IsFiniteSet(U)
  BY <1>3
<1> HIDE DEF All
<1>6. IsFiniteSet(UNION All)
  BY <1>4, <1>5, FS_UNION
<1>. QED
  BY <1>6 DEF All
=============================================================================
