------------------------- MODULE StorageMaps_proofs -------------------------
(***************************************************************************)
(* Facts about storage maps, extrema of small sets and sums over finite    *)
(* sets that the proofs of the pallets share.                              *)
(***************************************************************************)
EXTENDS StorageMaps, FiniteSetTheorems, SequenceTheorems, WellFoundedInduction, TLAPS

-----------------------------------------------------------------------------
(* Storage maps.                                                           *)

\* Inserting into a storage map keeps its key and value types.
LEMMA InsertType ==
  ASSUME NEW S, NEW T, NEW f, IsPartialFunction(f, S, T), NEW k \in S, NEW v \in T
  PROVE  /\ IsPartialFunction(Insert(f, k, v), S, T)
         /\ DOMAIN Insert(f, k, v) = DOMAIN f \cup {k}
         /\ Insert(f, k, v)[k] = v
         /\ \A x \in DOMAIN f \ {k} : Insert(f, k, v)[x] = f[x]
BY DEF IsPartialFunction, Insert

\* Removing from a storage map keeps its key and value types.
LEMMA WithoutType ==
  ASSUME NEW S, NEW T, NEW f, IsPartialFunction(f, S, T), NEW k
  PROVE  /\ IsPartialFunction(Without(f, k), S, T)
         /\ DOMAIN Without(f, k) = DOMAIN f \ {k}
         /\ \A x \in DOMAIN f \ {k} : Without(f, k)[x] = f[x]
BY DEF IsPartialFunction, Without

\* So does removing several keys at once.
LEMMA WithoutAllType ==
  ASSUME NEW S, NEW T, NEW f, IsPartialFunction(f, S, T), NEW K
  PROVE  /\ IsPartialFunction(WithoutAll(f, K), S, T)
         /\ DOMAIN WithoutAll(f, K) = DOMAIN f \ K
         /\ \A x \in DOMAIN f \ K : WithoutAll(f, K)[x] = f[x]
BY DEF IsPartialFunction, WithoutAll

\* A storage map is a map with any larger key and value types.
LEMMA PartialFunctionWider ==
  ASSUME NEW S, NEW T, NEW f, IsPartialFunction(f, S, T),
         NEW SS, S \subseteq SS, NEW TT, T \subseteq TT
  PROVE  IsPartialFunction(f, SS, TT)
BY DEF IsPartialFunction

\* The empty map has every type.
LEMMA EmptyMapType ==
  ASSUME NEW S, NEW T
  PROVE  IsPartialFunction(<<>>, S, T) /\ DOMAIN <<>> = {}
BY DEF IsPartialFunction

-----------------------------------------------------------------------------
(* Minima and maxima (saturating arithmetic, first keys of a map).         *)

\* The smaller of two integers.
LEMMA MinOfTwo == ASSUME NEW a \in Int, NEW b \in Int
                  PROVE  Min({a, b}) = IF a <= b THEN a ELSE b
<1>1. \E x \in {a, b} : \A y \in {a, b} : x <= y
  OBVIOUS
<1>2. Min({a, b}) \in {a, b} /\ \A y \in {a, b} : Min({a, b}) <= y
  BY <1>1 DEF Min
<1> QED BY <1>2

\* The larger of two integers.
LEMMA MaxOfTwo == ASSUME NEW a \in Int, NEW b \in Int
                  PROVE  Max({a, b}) = IF a >= b THEN a ELSE b
<1>1. \E x \in {a, b} : \A y \in {a, b} : x >= y
  OBVIOUS
<1>2. Max({a, b}) \in {a, b} /\ \A y \in {a, b} : Max({a, b}) >= y
  BY <1>1 DEF Max
<1> QED BY <1>2

\* Every non-empty set of naturals has a least element.
LEMMA MinExists ==
  ASSUME NEW T \in SUBSET Nat, T # {}
  PROVE  Min(T) \in T /\ \A y \in T : Min(T) <= y
<1>1. PICK x \in T : \A y \in T : ~(<<y, x>> \in OpToRel(<, Nat))
  BY NatLessThanWellFounded, WFMin
<1>2. \A y \in T : ~(y < x)
  BY <1>1 DEF OpToRel
<1>3. \A y \in T : x <= y
  BY <1>2
<1> QED BY <1>3 DEF Min

-----------------------------------------------------------------------------
(* Induction over finite sets, as a statement about a set of sets.         *)

\* A family of subsets of a finite S that contains {} and is closed under
\* adding one element contains S.
LEMMA FiniteInduction ==
  ASSUME NEW S, IsFiniteSet(S), NEW Good \in SUBSET SUBSET S, {} \in Good,
         \A T \in Good, x \in S : x \notin T => T \cup {x} \in Good
  PROVE  S \in Good
<1> DEFINE Bad == (SUBSET S) \ Good
<1>1. SUFFICES ASSUME Bad # {} PROVE FALSE
  OBVIOUS
<1>2. IsWellFoundedOn(StrictSubsetOrdering(S), SUBSET S)
  BY FS_StrictSubsetOrderingWellFounded, FS_FiniteSubsetsOfFinite
<1>3. Bad \subseteq SUBSET S
  OBVIOUS
<1> HIDE DEF Bad
<1>4. PICK B \in Bad : \A A \in Bad : ~(<<A, B>> \in StrictSubsetOrdering(S))
  BY <1>1, <1>2, <1>3, WFMin
<1> USE DEF Bad
<1>5. PICK x \in B : TRUE
  BY <1>4
<1>6. B \ {x} \in SUBSET S /\ B \in SUBSET S /\ B \ {x} # B
  BY <1>4, <1>5
<1>7. <<B \ {x}, B>> \in StrictSubsetOrdering(S)
  BY <1>6 DEF StrictSubsetOrdering
<1>8. B \ {x} \in Good
  BY <1>4, <1>6, <1>7
<1>9. (B \ {x}) \cup {x} = B /\ x \in S
  BY <1>5, <1>6
<1> QED BY <1>4, <1>8, <1>9

\* A finite non-empty set of integers has a greatest element.
LEMMA MaxExists ==
  ASSUME NEW S \in SUBSET Int, IsFiniteSet(S), S # {}
  PROVE  Max(S) \in S /\ \A y \in S : Max(S) >= y
<1> DEFINE Good == {T \in SUBSET S : T # {} => \E x \in T : \A y \in T : x >= y}
<1>1. {} \in Good
  OBVIOUS
<1>2. ASSUME NEW T \in Good, NEW x \in S, x \notin T
      PROVE  T \cup {x} \in Good
  <2>1. CASE T = {}
    BY <2>1
  <2>2. CASE T # {}
    <3>1. PICK m \in T : \A y \in T : m >= y
      BY <2>2
    <3>2. m \in Int /\ x \in Int /\ T \subseteq Int
      BY <3>1
    <3>3. CASE m >= x
      BY <3>1, <3>2, <3>3
    <3>4. CASE ~(m >= x)
      <4>1. \A y \in T \cup {x} : x >= y
        BY <3>1, <3>2, <3>4
      <4> QED BY <4>1
    <3> QED BY <3>3, <3>4
  <2> QED BY <2>1, <2>2
<1>3. S \in Good
  <2> HIDE DEF Good
  <2>1. Good \in SUBSET SUBSET S
    BY DEF Good
  <2> QED BY <1>1, <1>2, <2>1, FiniteInduction
<1> QED BY <1>3 DEF Max

-----------------------------------------------------------------------------
(* Sums over finite sets.  The sum of f over S counts a set of pairs, and  *)
(* so inherits what is known about cardinalities.                          *)

\* A sum as a cardinality: f[x] units for each x of S.
UnitsOf(S, f) == UNION {{x} \X (1..f[x]) : x \in S}
\* The sum of f over S.
Total(S, f) == Cardinality(UnitsOf(S, f))

\* Adding an element to the set adds its value to the sum.
LEMMA UnitsStep ==
  ASSUME NEW T, NEW f, NEW x, f[x] \in Nat, IsFiniteSet(UnitsOf(T, f)), x \notin T
  PROVE  /\ IsFiniteSet(UnitsOf(T \cup {x}, f))
         /\ Total(T \cup {x}, f) = Total(T, f) + f[x]
<1> DEFINE new == {x} \X (1..f[x])
<1>1. IsFiniteSet(1..f[x]) /\ Cardinality(1..f[x]) = f[x]
  BY FS_Interval
<1>2. IsFiniteSet(new) /\ Cardinality(new) = f[x]
  <2>1. IsFiniteSet({x}) /\ Cardinality({x}) = 1
    BY FS_Singleton
  <2>2. IsFiniteSet(new) /\ Cardinality(new) = Cardinality({x}) * Cardinality(1..f[x])
    BY <1>1, <2>1, FS_Product
  <2> QED BY <1>1, <2>1, <2>2
<1>3. UnitsOf(T \cup {x}, f) = UnitsOf(T, f) \cup new
  BY DEF UnitsOf
<1>4. UnitsOf(T, f) \cap new = {}
  BY DEF UnitsOf
<1> HIDE DEF new
<1>5. Cardinality(UnitsOf(T, f) \cap new) = 0
  BY <1>4, FS_EmptySet
<1>6. Cardinality(UnitsOf(T, f)) \in Nat
  BY FS_CardinalityType
<1>7. /\ IsFiniteSet(UnitsOf(T, f) \cup new)
      /\ Cardinality(UnitsOf(T, f) \cup new) = Cardinality(UnitsOf(T, f))
           + Cardinality(new) - Cardinality(UnitsOf(T, f) \cap new)
  BY <1>2, FS_Union
<1>8. Cardinality(UnitsOf(T, f) \cup new) = Cardinality(UnitsOf(T, f)) + f[x]
  BY <1>2, <1>5, <1>6, <1>7
<1> QED BY <1>3, <1>7, <1>8 DEF Total

\* A sum of naturals over a finite set is a natural.
LEMMA TotalType ==
  ASSUME NEW S, IsFiniteSet(S), NEW f, \A x \in S : f[x] \in Nat
  PROVE  IsFiniteSet(UnitsOf(S, f)) /\ Total(S, f) \in Nat
<1> DEFINE Good == {T \in SUBSET S : IsFiniteSet(UnitsOf(T, f))}
<1>1. UnitsOf({}, f) = {}
  BY DEF UnitsOf
<1>2. {} \in Good
  BY <1>1, FS_EmptySet
<1>3. \A T \in Good, x \in S : x \notin T => T \cup {x} \in Good
  BY UnitsStep
<1>4. S \in Good
  <2>1. Good \in SUBSET SUBSET S
    OBVIOUS
  <2> HIDE DEF Good
  <2> QED BY <1>2, <1>3, <2>1, FiniteInduction
<1> QED BY <1>4, FS_CardinalityType DEF Total

\* The empty sum, and the sum over one more element.
LEMMA TotalStep ==
  ASSUME NEW f
  PROVE  /\ Total({}, f) = 0
         /\ \A S : \A x \in S : IsFiniteSet(S) /\ (\A y \in S : f[y] \in Nat)
              => Total(S, f) = f[x] + Total(S \ {x}, f)
<1>1. Total({}, f) = 0
  BY FS_EmptySet DEF Total, UnitsOf
<1>2. ASSUME NEW S, NEW x \in S, IsFiniteSet(S), \A y \in S : f[y] \in Nat
      PROVE  Total(S, f) = f[x] + Total(S \ {x}, f)
  <2>1. IsFiniteSet(S \ {x})
    BY <1>2, FS_RemoveElement
  <2>2. IsFiniteSet(UnitsOf(S \ {x}, f)) /\ Total(S \ {x}, f) \in Nat
    BY <1>2, <2>1, TotalType
  <2>3. Total((S \ {x}) \cup {x}, f) = Total(S \ {x}, f) + f[x]
    BY <1>2, <2>2, UnitsStep
  <2>4. (S \ {x}) \cup {x} = S
    BY <1>2
  <2>5. Total(S, f) = Total(S \ {x}, f) + f[x] /\ f[x] \in Nat
    BY <1>2, <2>3, <2>4, Zenon
  <2> QED BY <2>2, <2>5
<1> QED BY <1>1, <1>2

\* Sums of equal values are equal.
LEMMA TotalSame ==
  ASSUME NEW S, NEW f, NEW g, \A x \in S : f[x] = g[x]
  PROVE  Total(S, f) = Total(S, g)
<1>1. UnitsOf(S, f) = UnitsOf(S, g)
  BY DEF UnitsOf
<1> QED BY <1>1 DEF Total

\* Changing one value changes the sum by as much.
LEMMA TotalUpdate ==
  ASSUME NEW S, IsFiniteSet(S), NEW f, NEW g, NEW x \in S,
         \A y \in S : f[y] \in Nat /\ g[y] \in Nat,
         \A y \in S \ {x} : f[y] = g[y]
  PROVE  Total(S, g) = Total(S, f) - f[x] + g[x]
<1>1. Total(S, f) = f[x] + Total(S \ {x}, f)
  BY TotalStep
<1>2. Total(S, g) = g[x] + Total(S \ {x}, g)
  BY TotalStep
<1>3. Total(S \ {x}, f) = Total(S \ {x}, g)
  BY TotalSame
<1>4. IsFiniteSet(S \ {x})
  BY FS_RemoveElement
<1>5. Total(S \ {x}, f) \in Nat /\ Total(S \ {x}, g) \in Nat
  BY <1>4, TotalType
<1> QED BY <1>1, <1>2, <1>3, <1>5

\* Every summand is at most the sum.
LEMMA TotalBound ==
  ASSUME NEW S, IsFiniteSet(S), NEW f, \A y \in S : f[y] \in Nat, NEW x \in S
  PROVE  f[x] <= Total(S, f)
<1>1. Total(S, f) = f[x] + Total(S \ {x}, f)
  BY TotalStep
<1>2. IsFiniteSet(S \ {x})
  BY FS_RemoveElement
<1>3. Total(S \ {x}, f) \in Nat
  BY <1>2, TotalType
<1> QED BY <1>1, <1>3

\* A sum of zeroes is zero.
LEMMA TotalZero ==
  ASSUME NEW S, NEW f, \A x \in S : f[x] = 0
  PROVE  Total(S, f) = 0
<1>1. UnitsOf(S, f) = {}
  BY DEF UnitsOf
<1> QED BY <1>1, FS_EmptySet DEF Total

\* If every f[x] is at most the share b/a of g[x], so is the sum.
LEMMA TotalScaled ==
  ASSUME NEW S, IsFiniteSet(S), NEW f, NEW g, NEW a \in Nat, NEW b \in Nat,
         \A x \in S : f[x] \in Nat /\ g[x] \in Nat /\ f[x] * a <= g[x] * b
  PROVE  Total(S, f) * a <= Total(S, g) * b
<1> DEFINE Good == {T \in SUBSET S : Total(T, f) * a <= Total(T, g) * b}
<1>1. {} \in Good
  BY TotalStep
<1>2. ASSUME NEW T \in Good, NEW x \in S, x \notin T
      PROVE  T \cup {x} \in Good
  <2>1. T \in SUBSET S /\ IsFiniteSet(T)
    BY FS_Subset
  <2>2. IsFiniteSet(UnitsOf(T, f)) /\ IsFiniteSet(UnitsOf(T, g))
        /\ Total(T, f) \in Nat /\ Total(T, g) \in Nat
    BY <2>1, TotalType
  <2>3. /\ Total(T \cup {x}, f) = Total(T, f) + f[x]
        /\ Total(T \cup {x}, g) = Total(T, g) + g[x]
    BY <1>2, <2>2, UnitsStep
  <2>4. Total(T, f) * a <= Total(T, g) * b
    OBVIOUS
  <2>5. \A m, n, p, q \in Nat : m * a <= n * b /\ p * a <= q * b
                               => (m + p) * a <= (n + q) * b
    <3> SUFFICES ASSUME NEW m \in Nat, NEW n \in Nat, NEW p \in Nat, NEW q \in Nat,
                        m * a <= n * b, p * a <= q * b
                 PROVE  (m + p) * a <= (n + q) * b
      OBVIOUS
    <3>1. (m + p) * a = m * a + p * a /\ (n + q) * b = n * b + q * b
      OBVIOUS
    <3>2. m * a \in Nat /\ n * b \in Nat /\ p * a \in Nat /\ q * b \in Nat
      OBVIOUS
    <3> QED BY <3>1, <3>2
  <2> QED BY <2>2, <2>3, <2>4, <2>5
<1>3. S \in Good
  <2>1. Good \in SUBSET SUBSET S
    OBVIOUS
  <2> HIDE DEF Good
  <2> QED BY <1>1, <1>2, <2>1, FiniteInduction
<1> QED BY <1>3

\* The sum over two disjoint sets.
LEMMA TotalUnion ==
  ASSUME NEW S, IsFiniteSet(S), NEW T, IsFiniteSet(T), S \cap T = {},
         NEW f, \A x \in S \cup T : f[x] \in Nat
  PROVE  Total(S \cup T, f) = Total(S, f) + Total(T, f)
<1>1. /\ IsFiniteSet(UnitsOf(S, f)) /\ Total(S, f) \in Nat
      /\ IsFiniteSet(UnitsOf(T, f)) /\ Total(T, f) \in Nat
  BY TotalType
<1>2. UnitsOf(S \cup T, f) = UnitsOf(S, f) \cup UnitsOf(T, f)
  BY DEF UnitsOf
<1>3. UnitsOf(S, f) \cap UnitsOf(T, f) = {}
  BY DEF UnitsOf
<1>4. Cardinality(UnitsOf(S, f) \cap UnitsOf(T, f)) = 0
  BY <1>3, FS_EmptySet
<1>5. Cardinality(UnitsOf(S, f) \cup UnitsOf(T, f))
        = Cardinality(UnitsOf(S, f)) + Cardinality(UnitsOf(T, f))
            - Cardinality(UnitsOf(S, f) \cap UnitsOf(T, f))
  BY <1>1, FS_Union
<1>6. Cardinality(UnitsOf(S, f) \cup UnitsOf(T, f))
        = Cardinality(UnitsOf(S, f)) + Cardinality(UnitsOf(T, f))
  BY ONLY <1>1, <1>4, <1>5 DEF Total
<1> QED BY <1>2, <1>6, Zenon DEF Total

\* Taking a subset out of the set takes its sum out of the sum.
LEMMA TotalDifference ==
  ASSUME NEW S, IsFiniteSet(S), NEW T \in SUBSET S,
         NEW f, \A x \in S : f[x] \in Nat
  PROVE  /\ IsFiniteSet(T) /\ IsFiniteSet(S \ T)
         /\ Total(S \ T, f) = Total(S, f) - Total(T, f)
         /\ Total(S \ T, f) \in Nat /\ Total(T, f) \in Nat /\ Total(S, f) \in Nat
         /\ Total(T, f) <= Total(S, f)
<1>1. IsFiniteSet(T) /\ IsFiniteSet(S \ T)
  BY FS_Subset, FS_Difference
<1>2. Total(T, f) \in Nat /\ Total(S \ T, f) \in Nat /\ Total(S, f) \in Nat
  BY <1>1, TotalType
<1>3. (S \ T) \cup T = S /\ (S \ T) \cap T = {}
  OBVIOUS
<1>4. Total((S \ T) \cup T, f) = Total(S \ T, f) + Total(T, f)
  <2>1. \A x \in (S \ T) \cup T : f[x] \in Nat
    OBVIOUS
  <2> QED BY <1>1, <1>3, <2>1, TotalUnion
<1> QED BY <1>1, <1>2, <1>3, <1>4

\* A sum of equal summands.
LEMMA TotalConstant ==
  ASSUME NEW S, IsFiniteSet(S), NEW a \in Nat, NEW f, \A x \in S : f[x] = a
  PROVE  Total(S, f) = Cardinality(S) * a
<1>1. UnitsOf(S, f) = S \X (1..a)
  BY DEF UnitsOf
<1>2. IsFiniteSet(1..a) /\ Cardinality(1..a) = a
  BY FS_Interval
<1>3. Cardinality(S \X (1..a)) = Cardinality(S) * Cardinality(1..a)
  BY <1>2, FS_Product
<1> QED BY <1>1, <1>2, <1>3 DEF Total

\* A common factor of the summands is a factor of the sum.
LEMMA TotalTimes ==
  ASSUME NEW S, IsFiniteSet(S), NEW a \in Nat, NEW f, NEW g,
         \A x \in S : f[x] \in Nat /\ g[x] \in Nat /\ f[x] = g[x] * a
  PROVE  Total(S, f) = Total(S, g) * a
<1>1. Total(S, f) \in Nat /\ Total(S, g) \in Nat
  BY TotalType
<1>2. Total(S, f) * 1 <= Total(S, g) * a
  <2>1. \A x \in S : f[x] \in Nat /\ g[x] \in Nat /\ f[x] * 1 <= g[x] * a
    OBVIOUS
  <2> QED BY <2>1, TotalScaled
<1>3. Total(S, g) * a <= Total(S, f) * 1
  <2>1. \A x \in S : f[x] \in Nat /\ g[x] \in Nat /\ g[x] * a <= f[x] * 1
    OBVIOUS
  <2> QED BY <2>1, TotalScaled
<1>4. \A m, n, k \in Nat : m * 1 <= n * k /\ n * k <= m * 1 => m = n * k
  <2> SUFFICES ASSUME NEW m \in Nat, NEW n \in Nat, NEW k \in Nat, m * 1 <= n * k, n * k <= m * 1
               PROVE  m = n * k
    OBVIOUS
  <2>1. PICK p \in Nat : p = n * k
    OBVIOUS
  <2> QED BY <2>1
<1> QED BY <1>1, <1>2, <1>3, <1>4

\* A sum does not depend on how its summands are named.
LEMMA TotalReindex ==
  ASSUME NEW S, IsFiniteSet(S), NEW f, NEW g, NEW h,
         \A x, y \in S : h[x] = h[y] => x = y,
         \A x \in S : g[x] = f[h[x]] /\ g[x] \in Nat
  PROVE  Total(S, g) = Total({h[x] : x \in S}, f)
<1> DEFINE image(T) == {h[x] : x \in T}
           Good == {T \in SUBSET S : /\ IsFiniteSet(UnitsOf(T, g))
                                     /\ IsFiniteSet(UnitsOf(image(T), f))
                                     /\ Total(T, g) = Total(image(T), f)}
<1>1. {} \in Good
  <2>1. image({}) = {} /\ UnitsOf({}, g) = {} /\ UnitsOf({}, f) = {}
    BY DEF UnitsOf
  <2> QED BY <2>1, FS_EmptySet, TotalStep
<1>2. ASSUME NEW T \in Good, NEW x \in S, x \notin T
      PROVE  T \cup {x} \in Good
  <2>1. /\ T \in SUBSET S /\ IsFiniteSet(UnitsOf(T, g)) /\ IsFiniteSet(UnitsOf(image(T), f))
        /\ Total(T, g) = Total(image(T), f)
    OBVIOUS
  <2>2. image(T \cup {x}) = image(T) \cup {h[x]} /\ h[x] \notin image(T)
    BY <1>2
  <2>3. g[x] = f[h[x]] /\ g[x] \in Nat /\ f[h[x]] \in Nat
    OBVIOUS
  <2> HIDE DEF image
  <2>4. IsFiniteSet(UnitsOf(T \cup {x}, g)) /\ Total(T \cup {x}, g) = Total(T, g) + g[x]
    BY <1>2, <2>1, <2>3, UnitsStep
  <2>5. /\ IsFiniteSet(UnitsOf(image(T) \cup {h[x]}, f))
        /\ Total(image(T) \cup {h[x]}, f) = Total(image(T), f) + f[h[x]]
    BY <2>1, <2>2, <2>3, UnitsStep
  <2> QED BY <2>1, <2>2, <2>3, <2>4, <2>5
<1>3. S \in Good
  <2>1. Good \in SUBSET SUBSET S
    OBVIOUS
  <2> HIDE DEF Good
  <2> QED BY <1>1, <1>2, <2>1, FiniteInduction
<1> QED BY <1>3

\* g is the list f of n naturals without its element at i.
OneOut(n, i, f, g) ==
  /\ \A j \in 1..n : f[j] \in Nat
  /\ \A j \in 1..(n - 1) : g[j] = IF j < i THEN f[j] ELSE f[j + 1]

\* Taking one element out of a list takes its value out of the sum.
LEMMA TotalRemoveAt ==
  ASSUME NEW n \in Nat, NEW i \in 1..n, NEW f, NEW g, OneOut(n, i, f, g)
  PROVE  Total(1..n, f) = f[i] + Total(1..(n - 1), g)
<1> USE DEF OneOut
<1> DEFINE h == [j \in 1..(n - 1) |-> IF j < i THEN j ELSE j + 1]
<1>1. IsFiniteSet(1..n) /\ IsFiniteSet(1..(n - 1))
  BY FS_Interval
<1>2. Total(1..n, f) = f[i] + Total((1..n) \ {i}, f)
  BY <1>1, TotalStep
<1>3. {h[j] : j \in 1..(n - 1)} = (1..n) \ {i}
  <2>1. ASSUME NEW k \in (1..n) \ {i}
        PROVE  \E j \in 1..(n - 1) : h[j] = k
    <3>1. CASE k < i
      <4>1. k \in 1..(n - 1) /\ h[k] = k
        BY <2>1, <3>1
      <4> QED BY <4>1
    <3>2. CASE ~(k < i)
      <4>1. k - 1 \in 1..(n - 1) /\ h[k - 1] = k
        BY <2>1, <3>2
      <4> QED BY <4>1
    <3> QED BY <3>1, <3>2
  <2>2. \A j \in 1..(n - 1) : h[j] \in (1..n) \ {i}
    OBVIOUS
  <2> HIDE DEF h
  <2> QED BY <2>1, <2>2
<1>4. \A x, y \in 1..(n - 1) : h[x] = h[y] => x = y
  OBVIOUS
<1>5. \A j \in 1..(n - 1) : g[j] = f[h[j]] /\ g[j] \in Nat
  OBVIOUS
<1> HIDE DEF h
<1>6. Total(1..(n - 1), g) = Total({h[j] : j \in 1..(n - 1)}, f)
  <2> DEFINE S == 1..(n - 1)
  <2>1. IsFiniteSet(S) /\ (\A x, y \in S : h[x] = h[y] => x = y)
        /\ \A j \in S : g[j] = f[h[j]] /\ g[j] \in Nat
    BY <1>1, <1>4, <1>5
  <2> HIDE DEF S
  <2>2. Total(S, g) = Total({h[j] : j \in S}, f)
    BY <2>1, TotalReindex
  <2> QED BY <2>2 DEF S
<1> QED BY <1>2, <1>3, <1>6, Zenon

\* An element is picked from the set it is picked from.
LEMMA Picked == \A S : \A s \in SUBSET S : s # {} => (CHOOSE x \in s : TRUE) \in S
OBVIOUS

\* The recursion behind the community modules' folds over a set.
SumsUp(iter, S, f) ==
  iter = [s \in SUBSET S |->
            IF s = {} THEN 0
            ELSE f[CHOOSE x \in s : TRUE] + iter[s \ {CHOOSE x \in s : TRUE}]]

\* It has exactly one solution, the sum.
LEMMA SumsUpUnique ==
  ASSUME NEW S, IsFiniteSet(S), NEW f, \A x \in S : f[x] \in Nat
  PROVE  /\ \E iter : SumsUp(iter, S, f)
         /\ \A iter : SumsUp(iter, S, f) => iter[S] = Total(S, f)
<1> DEFINE total == [s \in SUBSET S |-> Total(s, f)]
           pick(s) == CHOOSE x \in s : TRUE
<1>1. \A s \in SUBSET S : s # {} => pick(s) \in s
  OBVIOUS
<1>2. \A s \in SUBSET S : IsFiniteSet(s)
  BY FS_Subset
<1>3. ASSUME NEW s \in SUBSET S
      PROVE  Total(s, f) = IF s = {} THEN 0 ELSE f[pick(s)] + Total(s \ {pick(s)}, f)
  <2> HIDE DEF pick
  <2> QED BY <1>1, <1>2, TotalStep
<1>4. SumsUp(total, S, f)
  <2>1. \A s \in SUBSET S : s \ {pick(s)} \in SUBSET S
    OBVIOUS
  <2>2. \A s \in SUBSET S : total[s \ {pick(s)}] = Total(s \ {pick(s)}, f)
    BY <2>1
  <2>3. \A s \in SUBSET S :
          Total(s, f) = IF s = {} THEN 0 ELSE f[pick(s)] + total[s \ {pick(s)}]
    BY <1>3, <2>2
  <2> QED BY <2>3 DEF SumsUp
<1>5. ASSUME NEW iter, SumsUp(iter, S, f)
      PROVE  iter[S] = Total(S, f)
  <2> DEFINE Bad == {s \in SUBSET S : iter[s] # Total(s, f)}
  <2>1. SUFFICES ASSUME Bad # {} PROVE FALSE
    OBVIOUS
  <2>2. IsWellFoundedOn(StrictSubsetOrdering(S), SUBSET S)
    BY FS_StrictSubsetOrderingWellFounded, FS_FiniteSubsetsOfFinite
  <2>3. PICK B \in Bad : \A A \in Bad : ~(<<A, B>> \in StrictSubsetOrdering(S))
    <3>1. Bad \subseteq SUBSET S
      OBVIOUS
    <3> HIDE DEF Bad
    <3> QED BY <2>1, <2>2, <3>1, WFMin
  <2>4. B \in SUBSET S /\ iter[B] # Total(B, f)
    BY <2>3
  <2>5. iter[B] = IF B = {} THEN 0 ELSE f[pick(B)] + iter[B \ {pick(B)}]
    BY <1>5, <2>4 DEF SumsUp
  <2>6. Total(B, f) = IF B = {} THEN 0 ELSE f[pick(B)] + Total(B \ {pick(B)}, f)
    BY <1>3, <2>4
  <2>7. B # {} /\ iter[B \ {pick(B)}] # Total(B \ {pick(B)}, f)
    BY <2>4, <2>5, <2>6
  <2>8. pick(B) \in B /\ B \ {pick(B)} \in SUBSET S
    BY <1>1, <2>4, <2>7
  <2> HIDE DEF pick
  <2>9. B \ {pick(B)} \in Bad
    BY <2>7, <2>8
  <2>10. <<B \ {pick(B)}, B>> \in StrictSubsetOrdering(S)
    BY <2>4, <2>8 DEF StrictSubsetOrdering
  <2> QED BY <2>3, <2>9, <2>10
<1> QED BY <1>4, <1>5

-----------------------------------------------------------------------------
(* Powers of two.  They count the subsets of a set.                        *)

\* The subsets of a set of n elements.
LEMMA PowerCounts ==
  ASSUME NEW S, IsFiniteSet(S), NEW n \in Nat, Cardinality(S) = n
  PROVE  IsFiniteSet(SUBSET S) /\ Cardinality(SUBSET S) = 2 ^ n /\ 2 ^ n \in Nat
<1>1. IsFiniteSet(SUBSET S) /\ Cardinality(SUBSET S) = 2 ^ Cardinality(S)
  BY FS_SUBSET
<1>2. Cardinality(SUBSET S) \in Nat
  BY <1>1, FS_CardinalityType
<1> QED BY <1>1, <1>2

\* A power of two is a natural number.
LEMMA PowerType == \A n \in Nat : 2 ^ n \in Nat
<1> SUFFICES ASSUME NEW n \in Nat PROVE 2 ^ n \in Nat
  OBVIOUS
<1>1. IsFiniteSet(1..n) /\ Cardinality(1..n) = n
  BY FS_Interval
<1> QED BY <1>1, PowerCounts

\* A subset of the disjoint union of S and T is a subset of S and one of T.
LEMMA PowerSum ==
  ASSUME NEW m \in Nat, NEW n \in Nat
  PROVE  2 ^ (m + n) = 2 ^ m * 2 ^ n
<1> DEFINE S == 1..m
           T == (m + 1)..(m + n)
           f == [p \in (SUBSET S) \X (SUBSET T) |-> p[1] \cup p[2]]
<1>1. IsFiniteSet(S) /\ Cardinality(S) = m /\ IsFiniteSet(T) /\ Cardinality(T) = n
  BY FS_Interval
<1>0. PICK s \in Nat : s = m + n
  OBVIOUS
<1>2. IsFiniteSet(1..s) /\ Cardinality(1..s) = s
  BY FS_Interval
<1>3. S \cup T = 1..s /\ S \cap T = {}
  BY <1>0
<1> HIDE DEF S, T
<1>4. f \in Bijection((SUBSET S) \X (SUBSET T), SUBSET (S \cup T))
  <2>1. f \in [(SUBSET S) \X (SUBSET T) -> SUBSET (S \cup T)]
    OBVIOUS
  <2>2. \A p, q \in (SUBSET S) \X (SUBSET T) : f[p] = f[q] => p = q
    <3> SUFFICES ASSUME NEW p \in (SUBSET S) \X (SUBSET T), NEW q \in (SUBSET S) \X (SUBSET T),
                        p[1] \cup p[2] = q[1] \cup q[2]
                 PROVE  p = q
      OBVIOUS
    <3>1. p[1] = q[1] /\ p[2] = q[2]
      BY <1>3
    <3> QED BY <3>1
  <2>3. \A R \in SUBSET (S \cup T) : \E p \in (SUBSET S) \X (SUBSET T) : f[p] = R
    <3> SUFFICES ASSUME NEW R \in SUBSET (S \cup T)
                 PROVE  \E p \in (SUBSET S) \X (SUBSET T) : f[p] = R
      OBVIOUS
    <3>1. <<R \cap S, R \cap T>> \in (SUBSET S) \X (SUBSET T)
      OBVIOUS
    <3>2. f[<<R \cap S, R \cap T>>] = R
      BY <3>1
    <3> QED BY <3>1, <3>2
  <2> HIDE DEF f
  <2> QED BY <2>1, <2>2, <2>3 DEF Bijection, Injection, Surjection, IsInjective
<1>5. ExistsBijection((SUBSET S) \X (SUBSET T), SUBSET (S \cup T))
  BY <1>4 DEF ExistsBijection
<1>6. /\ IsFiniteSet(SUBSET S) /\ Cardinality(SUBSET S) = 2 ^ m
      /\ IsFiniteSet(SUBSET T) /\ Cardinality(SUBSET T) = 2 ^ n
  BY <1>1, PowerCounts
<1>7. /\ IsFiniteSet((SUBSET S) \X (SUBSET T))
      /\ Cardinality((SUBSET S) \X (SUBSET T)) = 2 ^ m * 2 ^ n
  BY <1>6, FS_Product
<1>8. Cardinality(SUBSET (S \cup T)) = 2 ^ m * 2 ^ n
  BY <1>5, <1>7, FS_Bijection
<1>9. Cardinality(SUBSET (1..s)) = 2 ^ s
  BY <1>2, PowerCounts
<1> QED BY <1>0, <1>3, <1>8, <1>9

-----------------------------------------------------------------------------
(* Pages that are numbered modulo n.                                       *)

\* How far page k lies ahead of page s, counted across the wrap.
Ahead(k, s, n) == IF k >= s THEN k - s ELSE k - s + n

\* It is the distance modulo n.
LEMMA WrapDistance ==
  ASSUME NEW n \in Nat \ {0}, NEW k \in 0..(n - 1), NEW s \in 0..(n - 1)
  PROVE  (k - s) % n = Ahead(k, s, n) /\ Ahead(k, s, n) \in 0..(n - 1)
<1>1. CASE k >= s
  <2>1. k - s \in 0..(n - 1)
    BY <1>1
  <2>2. (k - s) % n = k - s
    BY <2>1
  <2> QED BY <1>1, <2>1, <2>2 DEF Ahead
<1>2. CASE ~(k >= s)
  <2>1. k - s \in Int /\ k - s < 0 /\ -n <= k - s /\ k - s + n \in 0..(n - 1)
    BY <1>2
  <2>2. (k - s) % n = k - s + n
    BY <2>1
  <2> QED BY <1>2, <2>1, <2>2 DEF Ahead
<1> QED BY <1>1, <1>2

\* The page after page k.
LEMMA WrapNext ==
  ASSUME NEW n \in Nat \ {0}, NEW k \in 0..(n - 1)
  PROVE  /\ (k + 1) % n = IF k + 1 = n THEN 0 ELSE k + 1
         /\ (k + 1) % n \in 0..(n - 1)
<1>1. (k + 1) % n = IF k + 1 = n THEN 0 ELSE k + 1
  OBVIOUS
<1> QED BY <1>1

\* Unless it is page s, the page after page w lies one further ahead.
LEMMA WrapGrows ==
  ASSUME NEW n \in Nat \ {0}, NEW s \in 0..(n - 1), NEW w \in 0..(n - 1),
         (w + 1) % n # s
  PROVE  Ahead((w + 1) % n, s, n) = Ahead(w, s, n) + 1
<1>1. PICK x \in 0..(n - 1) : /\ x = (w + 1) % n
                            /\ x = IF w + 1 = n THEN 0 ELSE w + 1
  BY WrapNext
<1>2. CASE w + 1 = n
  BY <1>1, <1>2 DEF Ahead
<1>3. CASE w + 1 # n
  BY <1>1, <1>3 DEF Ahead
<1> QED BY <1>2, <1>3

\* Every page but s lies one less ahead of the page after s.
LEMMA WrapShrinks ==
  ASSUME NEW n \in Nat \ {0}, NEW s \in 0..(n - 1), NEW k \in 0..(n - 1), k # s
  PROVE  Ahead(k, (s + 1) % n, n) = Ahead(k, s, n) - 1
<1>1. CASE s + 1 = n
  BY <1>1, WrapNext DEF Ahead
<1>2. CASE s + 1 # n
  BY <1>2, WrapNext DEF Ahead
<1> QED BY <1>1, <1>2

-----------------------------------------------------------------------------
(* Lists.                                                                  *)

\* c is a followed by b.
IsConcat(S, a, b, c) ==
  /\ c \in Seq(S) /\ Len(c) = Len(a) + Len(b)
  /\ \A i \in 1..Len(a) : c[i] = a[i]
  /\ \A i \in 1..Len(b) : c[Len(a) + i] = b[i]

\* The elements of a concatenation.
LEMMA ConcatElements ==
  ASSUME NEW S, NEW a \in Seq(S), NEW b \in Seq(S)
  PROVE  IsConcat(S, a, b, a \o b)
<1>1. Len(a) \in Nat /\ Len(b) \in Nat
  BY LenProperties
<1>2. /\ a \o b \in Seq(S) /\ Len(a \o b) = Len(a) + Len(b)
      /\ \A i \in 1..(Len(a) + Len(b)) :
           (a \o b)[i] = IF i <= Len(a) THEN a[i] ELSE b[i - Len(a)]
  BY ConcatProperties
<1>3. ASSUME NEW i \in 1..Len(a) PROVE (a \o b)[i] = a[i]
  <2>1. i \in 1..(Len(a) + Len(b)) /\ i <= Len(a)
    BY <1>1
  <2> QED BY <1>2, <2>1, Zenon
<1>4. ASSUME NEW i \in 1..Len(b) PROVE (a \o b)[Len(a) + i] = b[i]
  <2>1. Len(a) + i \in 1..(Len(a) + Len(b)) /\ ~(Len(a) + i <= Len(a)) /\ (Len(a) + i) - Len(a) = i
    BY <1>1
  <2>2. (a \o b)[Len(a) + i] = IF Len(a) + i <= Len(a) THEN a[Len(a) + i] ELSE b[(Len(a) + i) - Len(a)]
    BY <1>2, <2>1, Zenon
  <2> QED BY <2>1, <2>2, Zenon
<1> QED BY <1>2, <1>3, <1>4 DEF IsConcat

\* What is in a list.
LEMMA ListRange ==
  ASSUME NEW S, NEW s \in Seq(S)
  PROVE  /\ DOMAIN s = 1..Len(s) /\ Len(s) \in Nat /\ Range(s) \subseteq S
         /\ \A x : x \in Range(s) <=> \E i \in 1..Len(s) : s[i] = x
         /\ IsInjective(s) <=> \A i, j \in 1..Len(s) : s[i] = s[j] => i = j
BY DEF Range, IsInjective

\* A list with one more element.
LEMMA AppendRange ==
  ASSUME NEW S, NEW s \in Seq(S), NEW x \in S, IsInjective(s), x \notin Range(s)
  PROVE  /\ Append(s, x) \in Seq(S) /\ IsInjective(Append(s, x))
         /\ Range(Append(s, x)) = Range(s) \cup {x}
<1> DEFINE t == Append(s, x)
<1>1. /\ t \in Seq(S) /\ Len(s) \in Nat /\ Len(t) = Len(s) + 1 /\ t[Len(s) + 1] = x
      /\ \A i \in 1..Len(s) : t[i] = s[i]
  OBVIOUS
<1> HIDE DEF t
<1>2. \A y : y \in Range(t) <=> y = x \/ \E i \in 1..Len(s) : s[i] = y
  BY <1>1, ListRange
<1>3. \A i, j \in 1..Len(t) : t[i] = t[j] => i = j
  <2>1. \A i \in 1..Len(s) : s[i] # x
    BY ListRange
  <2>2. \A i, j \in 1..Len(s) : s[i] = s[j] => i = j
    BY ListRange
  <2>3. \A i \in 1..Len(t) : i \in 1..Len(s) \/ i = Len(s) + 1
    BY <1>1
  <2> QED BY <1>1, <2>1, <2>2, <2>3
<1>4. \A y : y \in Range(t) <=> y \in Range(s) \cup {x}
  BY <1>2, ListRange
<1>5. IsInjective(t)
  BY <1>1, <1>3, ListRange
<1> QED BY <1>1, <1>4, <1>5 DEF t

\* The elements of a list that is made of two.
LEMMA PartsRange ==
  ASSUME NEW S, NEW a \in Seq(S), NEW b \in Seq(S), NEW c, IsConcat(S, a, b, c)
  PROVE  /\ Range(c) = Range(a) \cup Range(b)
         /\ IsInjective(c)
              <=> IsInjective(a) /\ IsInjective(b) /\ Range(a) \cap Range(b) = {}
<1>1. /\ c \in Seq(S) /\ Len(a) \in Nat /\ Len(b) \in Nat /\ Len(c) = Len(a) + Len(b)
      /\ \A i \in 1..Len(a) : c[i] = a[i]
      /\ \A i \in 1..Len(b) : c[Len(a) + i] = b[i]
  BY DEF IsConcat
<1>2. PICK m \in Nat, n \in Nat : m = Len(a) /\ n = Len(b) /\ Len(c) = m + n
  BY <1>1
<1>3. /\ \A i \in 1..m : c[i] = a[i]
      /\ \A i \in 1..n : c[m + i] = b[i]
  BY <1>1, <1>2
<1>4. \A i \in 1..(m + n) : i \in 1..m \/ \E j \in 1..n : i = m + j
  <2> TAKE i \in 1..(m + n)
  <2>1. CASE i > m
    <3>1. i - m \in 1..n /\ i = m + (i - m)
      BY <2>1
    <3> QED BY <3>1
  <2>2. CASE ~(i > m)
    BY <2>2
  <2> QED BY <2>1, <2>2
<1>5. /\ \A i \in 1..m : i \in 1..(m + n) /\ \A j \in 1..n : i # m + j
      /\ \A j \in 1..n : m + j \in 1..(m + n)
      /\ \A i, j \in 1..n : m + i = m + j => i = j
  OBVIOUS
<1>6. /\ \A x : x \in Range(a) <=> \E i \in 1..m : a[i] = x
      /\ \A x : x \in Range(b) <=> \E i \in 1..n : b[i] = x
      /\ \A x : x \in Range(c) <=> \E i \in 1..(m + n) : c[i] = x
  BY <1>1, <1>2, ListRange
<1>7. /\ IsInjective(a) <=> \A i, j \in 1..m : a[i] = a[j] => i = j
      /\ IsInjective(b) <=> \A i, j \in 1..n : b[i] = b[j] => i = j
      /\ IsInjective(c) <=> \A i, j \in 1..(m + n) : c[i] = c[j] => i = j
  <2>1. IsInjective(a) <=> \A i, j \in 1..m : a[i] = a[j] => i = j
    BY <1>2, ListRange
  <2>2. IsInjective(b) <=> \A i, j \in 1..n : b[i] = b[j] => i = j
    BY <1>2, ListRange
  <2>3. IsInjective(c) <=> \A i, j \in 1..(m + n) : c[i] = c[j] => i = j
    <3>1. IsInjective(c) <=> \A i, j \in 1..Len(c) : c[i] = c[j] => i = j
      BY <1>1, ListRange
    <3> QED BY <1>2, <3>1
  <2> QED BY <2>1, <2>2, <2>3
<1>8. Range(c) = Range(a) \cup Range(b)
  <2>1. ASSUME NEW x \in Range(c) PROVE x \in Range(a) \cup Range(b)
    <3>1. PICK i \in 1..(m + n) : c[i] = x
      BY <1>6
    <3>2. CASE i \in 1..m
      <4>1. a[i] = x
        BY <1>3, <3>1, <3>2
      <4> QED BY <1>6, <3>2, <4>1
    <3>3. CASE \E j \in 1..n : i = m + j
      <4>1. PICK j \in 1..n : i = m + j
        BY <3>3
      <4>2. b[j] = x
        BY <1>3, <3>1, <4>1
      <4> QED BY <1>6, <4>2
    <3> QED BY <1>4, <3>2, <3>3
  <2>2. ASSUME NEW x \in Range(a) PROVE x \in Range(c)
    <3>1. PICK i \in 1..m : a[i] = x
      BY <1>6
    <3> QED BY <1>3, <1>5, <1>6, <3>1
  <2>3. ASSUME NEW x \in Range(b) PROVE x \in Range(c)
    <3>1. PICK i \in 1..n : b[i] = x
      BY <1>6
    <3> QED BY <1>3, <1>5, <1>6, <3>1
  <2> QED BY <2>1, <2>2, <2>3
<1>9. ASSUME IsInjective(c)
      PROVE  IsInjective(a) /\ IsInjective(b) /\ Range(a) \cap Range(b) = {}
  <2>1. \A i, j \in 1..(m + n) : c[i] = c[j] => i = j
    BY <1>7, <1>9
  <2>2. IsInjective(a)
    <3>1. \A i, j \in 1..m : a[i] = a[j] => i = j
      BY <1>3, <1>5, <2>1
    <3> QED BY <1>7, <3>1
  <2>3. IsInjective(b)
    <3>1. ASSUME NEW i \in 1..n, NEW j \in 1..n, b[i] = b[j] PROVE i = j
      <4>1. m + i \in 1..(m + n) /\ m + j \in 1..(m + n) /\ c[m + i] = c[m + j]
        BY <1>3, <1>5, <3>1
      <4>2. m + i = m + j
        BY <2>1, <4>1
      <4> QED BY <1>5, <4>2
    <3> QED BY <1>7, <3>1
  <2>4. ASSUME NEW x \in Range(a), x \in Range(b) PROVE FALSE
    <3>1. PICK i \in 1..m : a[i] = x
      BY <1>6
    <3>2. PICK j \in 1..n : b[j] = x
      BY <1>6, <2>4
    <3>3. i \in 1..(m + n) /\ m + j \in 1..(m + n) /\ c[i] = c[m + j] /\ i # m + j
      BY <1>3, <1>5, <3>1, <3>2
    <3> QED BY <2>1, <3>3
  <2> QED BY <2>2, <2>3, <2>4
<1>10. ASSUME IsInjective(a), IsInjective(b), Range(a) \cap Range(b) = {}
       PROVE  IsInjective(c)
  <2>1. \A i \in 1..m, j \in 1..n : a[i] # b[j]
    BY <1>6, <1>10
  <2>2. ASSUME NEW i \in 1..(m + n), NEW j \in 1..(m + n), c[i] = c[j]
        PROVE  i = j
    <3>1. CASE i \in 1..m /\ j \in 1..m
      BY <1>3, <1>7, <1>10, <2>2, <3>1
    <3>2. CASE i \in 1..m /\ \E l \in 1..n : j = m + l
      <4>1. PICK l \in 1..n : j = m + l
        BY <3>2
      <4>2. a[i] = b[l]
        BY <1>3, <2>2, <3>2, <4>1
      <4> QED BY <2>1, <3>2, <4>2
    <3>3. CASE j \in 1..m /\ \E l \in 1..n : i = m + l
      <4>1. PICK l \in 1..n : i = m + l
        BY <3>3
      <4>2. a[j] = b[l]
        BY <1>3, <2>2, <3>3, <4>1
      <4> QED BY <2>1, <3>3, <4>2
    <3>4. CASE (\E l \in 1..n : i = m + l) /\ (\E l \in 1..n : j = m + l)
      <4>1. PICK k \in 1..n, l \in 1..n : i = m + k /\ j = m + l
        BY <3>4
      <4>2. b[k] = b[l]
        BY <1>3, <2>2, <4>1
      <4>3. k = l
        BY <1>7, <1>10, <4>2
      <4> QED BY <4>1, <4>3
    <3> QED BY <1>4, <3>1, <3>2, <3>3, <3>4
  <2> QED BY <1>7, <2>2
<1> QED BY <1>8, <1>9, <1>10

\* A list cut in two behind its n-th element.
LEMMA CutElements ==
  ASSUME NEW S, NEW s \in Seq(S), NEW n \in 0..Len(s)
  PROVE  /\ SubSeq(s, 1, n) \in Seq(S) /\ Len(SubSeq(s, 1, n)) = n
         /\ SubSeq(s, n + 1, Len(s)) \in Seq(S)
         /\ Len(SubSeq(s, n + 1, Len(s))) = Len(s) - n
         /\ IsConcat(S, SubSeq(s, 1, n), SubSeq(s, n + 1, Len(s)), s)
<1>1. /\ SubSeq(s, 1, n) \in Seq(S) /\ Len(SubSeq(s, 1, n)) = n
      /\ \A i \in 1..n : SubSeq(s, 1, n)[i] = s[i]
  OBVIOUS
<1>2. /\ SubSeq(s, n + 1, Len(s)) \in Seq(S)
      /\ Len(SubSeq(s, n + 1, Len(s))) = Len(s) - n
      /\ \A i \in 1..(Len(s) - n) : SubSeq(s, n + 1, Len(s))[i] = s[n + i]
  OBVIOUS
<1>3. Len(s) \in Nat /\ n \in Nat /\ Len(s) = n + (Len(s) - n)
  OBVIOUS
<1> QED BY <1>1, <1>2, <1>3 DEF IsConcat

\* A list without one of its elements.
LEMMA RemoveFirstRange ==
  ASSUME NEW S, NEW s \in Seq(S), IsInjective(s), NEW x \in Range(s)
  PROVE  /\ RemoveFirst(s, x) \in Seq(S) /\ IsInjective(RemoveFirst(s, x))
         /\ Range(RemoveFirst(s, x)) = Range(s) \ {x}
<1>1. \E i \in 1..Len(s) : s[i] = x
  BY ListRange
<1> DEFINE I == {i \in 1..Len(s) : s[i] = x}
<1>2. PICK m \in 1..Len(s) : s[m] = x /\ m = Min(I)
  <2>1. I \in SUBSET Nat /\ I # {}
    BY <1>1
  <2> QED BY <2>1, MinExists
<1>3. SelectInSeq(s, LAMBDA v : v = x) = m
  BY <1>1, <1>2 DEF SelectInSeq
<1> HIDE DEF I
<1>4. RemoveFirst(s, x) = SubSeq(s, 1, m - 1) \o SubSeq(s, m + 1, Len(s))
  BY <1>1, <1>3 DEF RemoveFirst, RemoveAt
<1>5. PICK l \in 0..Len(s) : l = m - 1 /\ l + 1 = m
  OBVIOUS
<1>6. PICK a \in Seq(S), b \in Seq(S) : a = SubSeq(s, 1, l) /\ b = SubSeq(s, m + 1, Len(s))
  <2>1. SubSeq(s, 1, l) \in Seq(S)
    BY CutElements
  <2>2. m \in 0..Len(s)
    OBVIOUS
  <2>3. SubSeq(s, m + 1, Len(s)) \in Seq(S)
    BY <2>2, CutElements
  <2> QED BY <2>1, <2>3
<1>7. PICK c \in Seq(S) : IsConcat(S, a, c, s) /\ IsConcat(S, <<x>>, b, c)
  <2>1. x \in S /\ <<x>> \in Seq(S) /\ Len(<<x>>) = 1 /\ <<x>>[1] = x
    BY <1>2
  <2>2. /\ IsConcat(S, <<x>>, b, <<x>> \o b)
    BY <2>1, ConcatElements
  <2>3. PICK c : c = <<x>> \o b /\ IsConcat(S, <<x>>, b, c)
    BY <2>2
  <2>4. /\ Len(a) = l /\ \A i \in 1..l : a[i] = s[i]
    BY <1>6, CutElements DEF IsConcat
  <2>5. Len(b) = Len(s) - m /\ \A i \in 1..(Len(s) - m) : b[i] = s[m + i]
    <3>1. m \in 0..Len(s)
      OBVIOUS
    <3> QED BY <1>6, <3>1, CutElements DEF IsConcat
  <2>6. /\ c \in Seq(S) /\ Len(c) = 1 + Len(b) /\ c[1] = x
        /\ \A i \in 1..Len(b) : c[1 + i] = b[i]
    BY <2>1, <2>3 DEF IsConcat
  <2>7. \A i \in 1..Len(c) : c[i] = s[l + i]
    <3> TAKE i \in 1..Len(c)
    <3>1. CASE i = 1
      BY <1>2, <1>5, <2>6, <3>1
    <3>2. CASE i # 1
      <4>1. PICK j \in 1..Len(b) : i = 1 + j
        <5>1. i - 1 \in 1..Len(b) /\ i = 1 + (i - 1)
          BY <2>5, <2>6, <3>2
        <5> QED BY <5>1
      <4>2. c[i] = b[j] /\ b[j] = s[m + j] /\ m + j = l + i
        <5>1. j \in 1..(Len(s) - m) /\ j \in Int /\ l \in Int
          BY <2>5
        <5>2. c[1 + j] = b[j] /\ b[j] = s[m + j]
          BY <2>5, <2>6, <5>1
        <5>3. m + j = l + i
          BY <1>5, <4>1, <5>1
        <5> QED BY <4>1, <5>2, <5>3
      <4> QED BY <4>2
    <3> QED BY <3>1, <3>2
  <2>8. Len(s) = Len(a) + Len(c)
    BY <1>5, <2>4, <2>5, <2>6
  <2>9. IsConcat(S, a, c, s)
    BY <2>4, <2>7, <2>8 DEF IsConcat
  <2> QED BY <2>3, <2>6, <2>9
<1>8. /\ Range(s) = Range(a) \cup Range(c) /\ Range(a) \cap Range(c) = {}
      /\ IsInjective(a) /\ IsInjective(c)
  <2>1. /\ Range(s) = Range(a) \cup Range(c)
        /\ IsInjective(s)
             <=> IsInjective(a) /\ IsInjective(c) /\ Range(a) \cap Range(c) = {}
    <3>1. IsConcat(S, a, c, s)
      BY <1>7
    <3> QED BY ONLY <3>1, PartsRange
  <2> QED BY <2>1, Zenon
<1>9. <<x>> \in Seq(S) /\ Range(<<x>>) = {x}
  <2>1. x \in S
    BY <1>2
  <2> QED BY <2>1 DEF Range
<1>10. /\ Range(c) = {x} \cup Range(b) /\ {x} \cap Range(b) = {} /\ IsInjective(b)
  <2>1. /\ Range(c) = Range(<<x>>) \cup Range(b)
        /\ IsInjective(c)
             <=> IsInjective(<<x>>) /\ IsInjective(b) /\ Range(<<x>>) \cap Range(b) = {}
    <3>1. IsConcat(S, <<x>>, b, c) /\ <<x>> \in Seq(S)
      BY <1>7, <1>9
    <3>2. PICK e \in Seq(S) : e = <<x>>
      BY <3>1
    <3>3. IsConcat(S, e, b, c)
      BY <3>1, <3>2, Zenon
    <3>4. /\ Range(c) = Range(e) \cup Range(b)
          /\ IsInjective(c)
               <=> IsInjective(e) /\ IsInjective(b) /\ Range(e) \cap Range(b) = {}
      BY ONLY <3>3, PartsRange
    <3> QED BY <3>2, <3>4, Zenon
  <2> QED BY <1>8, <1>9, <2>1, Zenon
<1>11. PICK d : d = a \o b
  OBVIOUS
<1>12. IsConcat(S, a, b, d)
  BY <1>11, ConcatElements
<1>13. d \in Seq(S) /\ Range(d) = Range(s) \ {x} /\ IsInjective(d)
  <2>1. d \in Seq(S) /\ Range(d) = Range(a) \cup Range(b)
    BY <1>12, PartsRange DEF IsConcat
  <2>2. Range(a) \cap Range(b) = {}
    BY <1>8, <1>10
  <2>3. IsInjective(d)
    BY <1>8, <1>10, <1>12, <2>2, PartsRange
  <2> QED BY <1>8, <1>10, <2>1, <2>3
<1>14. RemoveFirst(s, x) = d
  BY <1>4, <1>5, <1>6, <1>11
<1> QED BY <1>13, <1>14

\* The list without its last element.
LEMMA FrontElements ==
  ASSUME NEW S, NEW r \in Seq(S), r # <<>>
  PROVE  /\ Len(r) \in Nat \ {0} /\ Front(r) \in Seq(S) /\ Len(Front(r)) = Len(r) - 1
         /\ \A i \in 1..(Len(r) - 1) : Front(r)[i] = r[i]
<1>1. Len(r) \in Nat \ {0}
  BY EmptySeq, LenProperties
<1> DEFINE n == Len(r)
           f == SubSeq(r, 1, n - 1)
<1>2. n - 1 \in Int /\ 1 \in Int /\ \A i \in 1..(n - 1) : r[i] \in S
  BY <1>1, ElementOfSeq
<1>3. f \in Seq(S) /\ Len(f) = n - 1 /\ \A i \in 1..(n - 1) : f[i] = r[i]
  <2>1. /\ f \in Seq(S)
        /\ Len(f) = IF 1 <= n - 1 THEN (n - 1) - 1 + 1 ELSE 0
        /\ \A i \in 1..((n - 1) - 1 + 1) : f[i] = r[1 + i - 1]
    <3> HIDE DEF n
    <3> QED BY <1>2, SubSeqProperties
  <2> HIDE DEF f, n
  <2>2. n \in Nat \ {0}
    BY <1>1 DEF n
  <2>3. (n - 1) - 1 + 1 = n - 1 /\ \A i \in 1..(n - 1) : 1 + i - 1 = i
    BY <2>2
  <2>4. Len(f) = n - 1
    BY <2>1, <2>2
  <2> QED BY <2>1, <2>3, <2>4, Zenon
<1> HIDE DEF f
<1>4. Front(r) = f
  BY DEF Front, f
<1> QED BY <1>1, <1>3, <1>4

\* A list whose last element is replaced, and more appended.
LEMMA ReplaceLast ==
  ASSUME NEW S, NEW r \in Seq(S), r # <<>>, NEW x \in S, NEW q \in Seq(S)
  PROVE  /\ Len(r) \in Nat \ {0}
         /\ Front(r) \o <<x>> \o q \in Seq(S)
         /\ Len(Front(r) \o <<x>> \o q) = Len(r) + Len(q)
         /\ (Front(r) \o <<x>> \o q)[Len(r)] = x
         /\ \A i \in 1..(Len(r) - 1) : (Front(r) \o <<x>> \o q)[i] = r[i]
         /\ \A i \in 1..Len(q) : (Front(r) \o <<x>> \o q)[Len(r) + i] = q[i]
<1> DEFINE n == Len(r)
           f == Front(r)
           y == <<x>>
           a == f \o y
           s == a \o q
<1>1. n \in Nat \ {0} /\ Len(q) \in Nat
  BY FrontElements, LenProperties
<1>2. f \in Seq(S) /\ Len(f) = n - 1 /\ \A i \in 1..(n - 1) : f[i] = r[i]
  BY FrontElements
<1>3. y \in Seq(S) /\ Len(y) = 1 /\ y[1] = x
  OBVIOUS
<1> HIDE DEF f, n, y
<1>4. /\ a \in Seq(S) /\ Len(a) = Len(f) + Len(y)
      /\ \A i \in 1..Len(f) : a[i] = f[i]
      /\ \A i \in 1..Len(y) : a[Len(f) + i] = y[i]
  <2>1. f \in Seq(S) /\ y \in Seq(S)
    BY <1>2, <1>3
  <2>2. IsConcat(S, f, y, a)
    BY <2>1, ConcatElements
  <2> QED BY <2>2 DEF IsConcat
<1>5. Len(f) + 1 = n /\ Len(f) = n - 1 /\ 1 \in 1..Len(y) /\ Len(f) + Len(y) = n
  BY <1>1, <1>2, <1>3
<1> HIDE DEF a
<1>6. a[n] = x /\ Len(a) = n /\ \A i \in 1..(n - 1) : a[i] = r[i]
  <2>1. a[Len(f) + 1] = y[1]
    BY <1>4, <1>5, Zenon
  <2>2. a[n] = x
    BY <1>3, <1>5, <2>1, Zenon
  <2>3. \A i \in 1..(n - 1) : a[i] = r[i]
    BY <1>2, <1>4, <1>5, Zenon
  <2> QED BY <1>4, <1>5, <2>2, <2>3
<1>7. /\ s \in Seq(S) /\ Len(s) = Len(a) + Len(q)
      /\ \A i \in 1..Len(a) : s[i] = a[i]
      /\ \A i \in 1..Len(q) : s[Len(a) + i] = q[i]
  <2>1. a \in Seq(S) /\ q \in Seq(S)
    BY <1>4
  <2>2. IsConcat(S, a, q, s)
    BY <2>1, ConcatElements
  <2> QED BY <2>2 DEF IsConcat
<1> HIDE DEF s
<1>8. n \in 1..Len(a) /\ \A i \in 1..(n - 1) : i \in 1..Len(a)
  BY <1>1, <1>6
<1>9. s[n] = x /\ Len(s) = n + Len(q)
  BY <1>6, <1>7, <1>8, Zenon
<1>10. \A i \in 1..(n - 1) : s[i] = r[i]
  BY <1>6, <1>7, <1>8, Zenon
<1>11. \A i \in 1..Len(q) : s[n + i] = q[i]
  BY <1>6, <1>7, Zenon
<1> QED BY <1>1, <1>7, <1>9, <1>10, <1>11 DEF n, s, a, f, y

\* The recursion behind the community modules' flattening of a list of lists,
\* up to the k-th list.
FlattenUpTo(f, seqs, k) ==
  f = [i \in 1..k |-> IF i = 1 THEN seqs[i] ELSE f[i - 1] \o seqs[i]]

\* It has a solution, and every solution is made of lists.
LEMMA FlattenExists ==
  ASSUME NEW S, NEW n \in Nat, NEW seqs, \A i \in 1..n : seqs[i] \in Seq(S)
  PROVE  /\ \E f : FlattenUpTo(f, seqs, n)
         /\ \A f : FlattenUpTo(f, seqs, n) => \A i \in 1..n : f[i] \in Seq(S)
<1>1. \E f : FlattenUpTo(f, seqs, n)
  <2> DEFINE Bad == {k \in Nat : ~\E f : FlattenUpTo(f, seqs, k)}
  <2>1. SUFFICES ASSUME Bad # {} PROVE FALSE
    BY <2>1
  <2>2. PICK k \in Nat : k \in Bad /\ \A j \in Bad : k <= j
    <3>1. Bad \in SUBSET Nat
      OBVIOUS
    <3> HIDE DEF Bad
    <3> QED BY <2>1, <3>1, MinExists
  <2>3. ~\E f : FlattenUpTo(f, seqs, k)
    BY <2>2
  <2>4. k # 0
    <3>1. FlattenUpTo([i \in 1..0 |-> 0], seqs, 0)
      BY DEF FlattenUpTo
    <3> QED BY <2>3, <3>1
  <2>5. k - 1 \in Nat /\ ~(k <= k - 1)
    BY <2>2, <2>4
  <2>6. PICK f : FlattenUpTo(f, seqs, k - 1)
    BY <2>2, <2>5
  <2> DEFINE g == [i \in 1..k |-> IF i = 1 THEN seqs[i] ELSE f[i - 1] \o seqs[i]]
  <2>7. \A i \in 1..k : g[i] = IF i = 1 THEN seqs[i] ELSE f[i - 1] \o seqs[i]
    OBVIOUS
  <2>8. \A i \in 1..(k - 1) : f[i] = IF i = 1 THEN seqs[i] ELSE f[i - 1] \o seqs[i]
    BY <2>6 DEF FlattenUpTo
  <2>9. \A i \in 1..k : i # 1 => i - 1 \in 1..(k - 1)
    BY <2>2
  <2>10. \A i \in 1..(k - 1) : i \in 1..k
    BY <2>2
  <2>11. \A i \in 1..(k - 1) : g[i] = f[i]
    <3> HIDE DEF g
    <3> QED BY <2>7, <2>8, <2>10, Zenon
  <2>12. g = [i \in 1..k |-> IF i = 1 THEN seqs[i] ELSE g[i - 1] \o seqs[i]]
    <3>1. \A i \in 1..k : (IF i = 1 THEN seqs[i] ELSE f[i - 1] \o seqs[i])
                             = (IF i = 1 THEN seqs[i] ELSE g[i - 1] \o seqs[i])
      <4> HIDE DEF g
      <4> QED BY <2>9, <2>11, Zenon
    <3> QED BY <3>1, Zenon
  <2> QED BY <2>3, <2>12 DEF FlattenUpTo
<1>2. ASSUME NEW f, FlattenUpTo(f, seqs, n) PROVE \A i \in 1..n : f[i] \in Seq(S)
  <2> DEFINE Bad == {i \in 1..n : f[i] \notin Seq(S)}
  <2>1. SUFFICES ASSUME Bad # {} PROVE FALSE
    OBVIOUS
  <2>2. PICK i \in 1..n : i \in Bad /\ \A j \in Bad : i <= j
    <3>1. Bad \in SUBSET Nat
      OBVIOUS
    <3>2. \A i \in Bad : i \in 1..n
      OBVIOUS
    <3> HIDE DEF Bad
    <3> QED BY <2>1, <3>1, <3>2, MinExists
  <2>3. f[i] = IF i = 1 THEN seqs[i] ELSE f[i - 1] \o seqs[i]
    BY <1>2 DEF FlattenUpTo
  <2>4. i # 1
    BY <2>2, <2>3
  <2>5. i - 1 \in 1..n /\ ~(i <= i - 1)
    BY <2>2, <2>4
  <2>6. f[i - 1] \in Seq(S)
    BY <2>2, <2>5
  <2>7. f[i - 1] \o seqs[i] \in Seq(S)
    BY <2>2, <2>6, ConcatProperties
  <2> QED BY <2>2, <2>3, <2>4, <2>7
<1> QED BY <1>1, <1>2

\* Flattening lists of messages gives a list of messages.
LEMMA FlattenType ==
  ASSUME NEW S, NEW n \in Nat, NEW seqs \in [1..n -> Seq(S)]
  PROVE  FlattenSeq(seqs) \in Seq(S)
<1>1. seqs \in Seq(Seq(S)) /\ Len(seqs) = n
  OBVIOUS
<1>2. CASE n = 0
  <2>1. seqs = <<>>
    BY <1>1, <1>2
  <2> QED BY <1>1, <1>2, <2>1 DEF FlattenSeq
<1>3. CASE n # 0
  <2> DEFINE c == CHOOSE f : FlattenUpTo(f, seqs, n)
  <2>1. FlattenUpTo(c, seqs, n)
    <3>1. \E f : FlattenUpTo(f, seqs, n)
      BY FlattenExists
    <3> QED BY <3>1
  <2>2. FlattenSeq(seqs) = c[n]
    BY <1>1, <1>3 DEF FlattenSeq, FlattenUpTo
  <2> HIDE DEF c
  <2>3. n \in 1..n
    BY <1>3
  <2> QED BY <2>1, <2>2, <2>3, FlattenExists
<1> QED BY <1>2, <1>3

\* A finite set of naturals has a k-th member for every k up to its size.
LEMMA RankExists ==
  ASSUME NEW T \in SUBSET Nat, IsFiniteSet(T), NEW n \in 1..Cardinality(T)
  PROVE  \E i \in T : Cardinality({j \in T : j <= i}) = n
<1> DEFINE UpTo(i) == {j \in T : j <= i}
           Bad == {k \in 1..Cardinality(T) : ~\E i \in T : Cardinality(UpTo(i)) = k}
<1>1. SUFFICES ASSUME Bad # {} PROVE FALSE
  OBVIOUS
<1>2. Cardinality(T) \in Nat
  BY FS_CardinalityType
<1>3. PICK k \in Nat : k \in Bad /\ \A l \in Bad : k <= l
  <2>1. Bad \in SUBSET Nat
    BY <1>2
  <2> HIDE DEF Bad
  <2> QED BY <1>1, <2>1, MinExists
<1>4. k \in 1..Cardinality(T) /\ ~\E i \in T : Cardinality(UpTo(i)) = k
  BY <1>3
<1>5. \A i \in T : IsFiniteSet(UpTo(i)) /\ Cardinality(UpTo(i)) \in Nat
  BY FS_Subset, FS_CardinalityType
\* The members below the one looked for.
<1>6. \E low \in SUBSET T : /\ IsFiniteSet(low) /\ Cardinality(low) = k - 1
                            /\ \A i \in low, j \in T \ low : i < j
  <2>1. CASE k = 1
    <3>1. IsFiniteSet({}) /\ Cardinality({}) = k - 1
      BY <2>1, FS_EmptySet
    <3> QED BY <3>1
  <2>2. CASE k # 1
    <3>1. k - 1 \in 1..Cardinality(T) /\ ~(k <= k - 1)
      BY <1>2, <1>4, <2>2
    <3>2. PICK i \in T : Cardinality(UpTo(i)) = k - 1
      BY <1>3, <3>1
    <3>3. \A x \in UpTo(i), y \in T \ UpTo(i) : x < y
      OBVIOUS
    <3> QED BY <1>5, <3>2, <3>3
  <2> QED BY <2>1, <2>2
<1>7. PICK low \in SUBSET T : /\ IsFiniteSet(low) /\ Cardinality(low) = k - 1
                              /\ \A i \in low, j \in T \ low : i < j
  BY <1>6
<1>8. T \ low # {}
  <2>1. SUFFICES ASSUME T = low PROVE FALSE
    OBVIOUS
  <2> QED BY <1>2, <1>4, <1>7, <2>1
<1>9. PICK m \in T \ low : \A j \in T \ low : m <= j
  <2>1. T \ low \in SUBSET Nat
    OBVIOUS
  <2> QED BY <1>8, <2>1, MinExists
<1>10. UpTo(m) = low \cup {m}
  <2>1. \A x, y \in T : x \in Nat /\ y \in Nat /\ (x <= y <=> ~(y < x))
    OBVIOUS
  <2>2. \A x, y \in T : x <= y /\ y <= x => x = y
    OBVIOUS
  <2>3. ASSUME NEW x \in T PROVE x <= m <=> x \in low \cup {m}
    <3>1. CASE x \in low
      <4>1. x < m
        BY <1>7, <1>9, <3>1
      <4> QED BY <1>9, <2>1, <3>1, <4>1
    <3>2. CASE x \notin low
      BY <1>9, <2>1, <2>2, <3>2
    <3> QED BY <3>1, <3>2
  <2> QED BY <1>9, <2>3
<1>11. Cardinality(UpTo(m)) = k
  <2>1. Cardinality(low \cup {m}) = Cardinality(low) + 1
    BY <1>7, <1>9, FS_AddElement
  <2>2. PICK card : card = Cardinality(low)
    OBVIOUS
  <2>3. card = k - 1 /\ k \in Nat
    BY <1>7, <2>2
  <2>4. card + 1 = k
    BY <2>3
  <2> HIDE DEF UpTo
  <2> QED BY <1>10, <2>1, <2>2, <2>4
<1> QED BY <1>4, <1>9, <1>11

\* The members of a finite set of naturals are numbered in their order.
Rank(T, i) == Cardinality({j \in T : j < i})

\* Ranks are different and lie below the cardinality.
LEMMA RankFacts ==
  ASSUME NEW T \in SUBSET Nat, IsFiniteSet(T)
  PROVE  /\ Cardinality(T) \in Nat
         /\ \A i \in T : Rank(T, i) \in 0..(Cardinality(T) - 1)
         /\ \A i, j \in T : Rank(T, i) = Rank(T, j) => i = j
         /\ \A n \in 1..Cardinality(T) : \E i \in T : Rank(T, i) = n - 1
<1>1. Cardinality(T) \in Nat /\ \A i \in T : i \in Nat
  BY FS_CardinalityType
<1>2. ASSUME NEW i \in T
      PROVE  /\ IsFiniteSet({j \in T : j <= i}) /\ Rank(T, i) \in Nat
             /\ Cardinality({j \in T : j <= i}) = Rank(T, i) + 1
             /\ Cardinality({j \in T : j <= i}) <= Cardinality(T)
  <2> DEFINE A == {j \in T : j < i}
             B == {j \in T : j <= i}
  <2>1. A \in SUBSET T /\ B \in SUBSET T
    OBVIOUS
  <2>2. IsFiniteSet(A) /\ IsFiniteSet(B) /\ Cardinality(B) <= Cardinality(T)
    BY <2>1, FS_Subset
  <2>3. B = A \cup {i} /\ i \notin A
    <3>1. i \in Nat /\ \A j \in T : j \in Nat
      BY <1>1
    <3>2. \A j \in T : j <= i <=> j < i \/ j = i
      BY <3>1
    <3>3. ~(i < i)
      BY <3>1
    <3> QED BY <3>2, <3>3
  <2> HIDE DEF A, B
  <2>4. Cardinality(A \cup {i}) = Cardinality(A) + 1 /\ Cardinality(A) \in Nat
    BY <2>2, <2>3, FS_AddElement, FS_CardinalityType
  <2> QED BY <2>2, <2>3, <2>4 DEF A, B, Rank
<1>3. ASSUME NEW i \in T PROVE Rank(T, i) \in 0..(Cardinality(T) - 1)
  <2>1. Rank(T, i) \in Nat /\ Rank(T, i) + 1 <= Cardinality(T)
    BY <1>2
  <2> QED BY <1>1, <2>1
<1>4. ASSUME NEW i \in T, NEW j \in T, i < j PROVE Rank(T, i) < Rank(T, j)
  <2> DEFINE A == {l \in T : l <= i}
             B == {l \in T : l < j}
  <2>1. A \in SUBSET B /\ B \in SUBSET T
    <3>1. \A l \in T : l <= i => l < j
      BY <1>1, <1>4
    <3> QED BY <3>1
  <2>2. IsFiniteSet(B)
    BY <2>1, FS_Subset
  <2>3. Cardinality(A) <= Cardinality(B)
    BY <2>1, <2>2, FS_Subset
  <2>4. Cardinality(A) = Rank(T, i) + 1 /\ Cardinality(B) = Rank(T, j)
    BY <1>2 DEF Rank
  <2>5. Rank(T, i) \in Nat /\ Rank(T, j) \in Nat
    BY <1>2
  <2> HIDE DEF A, B
  <2> QED BY <2>3, <2>4, <2>5
<1>5. ASSUME NEW i \in T, NEW j \in T, Rank(T, i) = Rank(T, j) PROVE i = j
  <2>1. ~(i < j) /\ ~(j < i)
    <3>1. PICK n \in Nat : n = Rank(T, i)
      BY <1>2
    <3>2. ~(n < n)
      OBVIOUS
    <3> QED BY <1>4, <1>5, <3>1, <3>2
  <2> QED BY <1>1, <2>1
<1>6. ASSUME NEW n \in 1..Cardinality(T) PROVE \E i \in T : Rank(T, i) = n - 1
  <2>1. PICK i \in T : Cardinality({j \in T : j <= i}) = n
    BY RankExists
  <2> QED BY <1>2, <2>1
<1> QED BY <1>1, <1>3, <1>5, <1>6
==============================================================================
