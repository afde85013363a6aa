----------------------------- MODULE Words_proofs -----------------------------
(***************************************************************************)
(* What recursive definitions compute: powers of two, sums and products    *)
(* over a finite set, the bits of a number.                                *)
(*                                                                         *)
(* Induction is on sets: a set of numbers that has 0, and the successor of *)
(* each of its members, has all of Nat (NaturalsInduct).                   *)
(***************************************************************************)
EXTENDS Words, WellFoundedInduction, FiniteSetTheorems, TLAPS

LEMMA LeastNumber ==
  ASSUME NEW T, T \subseteq Nat, T # {}
  PROVE  \E x \in T : \A y \in T : x <= y
<1> DEFINE R == OpToRel(<, Nat)
<1>1. IsWellFoundedOn(R, Nat)
  BY NatLessThanWellFounded
<1> HIDE DEF R
<1>2. PICK x \in T : \A y \in T : <<y, x>> \notin R
  BY <1>1, WFMin
<1>3. ASSUME NEW y \in T, y < x PROVE FALSE
  <2>1. <<y, x>> \in R
    BY <1>3 DEF R, OpToRel
  <2> QED
    BY <1>2, <2>1
<1> QED
  BY <1>2, <1>3

LEMMA NaturalsInduct ==
  ASSUME NEW S, 0 \in S, \A n \in Nat : n \in S => n + 1 \in S
  PROVE  \A n \in Nat : n \in S
<1> DEFINE T == Nat \ S
<1> SUFFICES ASSUME T # {} PROVE FALSE
  OBVIOUS
<1>1. T \subseteq Nat
  OBVIOUS
<1>2. PICK x \in T : \A y \in T : x <= y
  <2> HIDE DEF T
  <2> QED
    BY <1>1, LeastNumber
<1>3. x \in Nat /\ x # 0 /\ x - 1 \in Nat /\ x - 1 \in S
  BY <1>2
<1> QED
  BY <1>2, <1>3

(***************************************************************************)
(* A family of subsets of a finite set has all of them if it has each one  *)
(* that it has all the next smaller ones of.                               *)
(***************************************************************************)
LEMMA SubsetsInduct ==
  ASSUME NEW D, IsFiniteSet(D), NEW F,
         \A s \in SUBSET D : (\A x \in s : s \ {x} \in F) => s \in F
  PROVE  \A s \in SUBSET D : s \in F
<1> DEFINE P == {n \in Nat : \A s \in SUBSET D : Cardinality(s) = n => s \in F}
<1>1. \A s \in SUBSET D : IsFiniteSet(s) /\ Cardinality(s) \in Nat
  BY FS_Subset, FS_CardinalityType
<1>2. 0 \in P
  <2> SUFFICES ASSUME NEW s \in SUBSET D, Cardinality(s) = 0 PROVE s \in F
    OBVIOUS
  <2>1. s = {}
    BY <1>1, FS_EmptySet
  <2> QED
    BY <2>1
<1>3. ASSUME NEW n \in Nat, n \in P PROVE n + 1 \in P
  <2> SUFFICES ASSUME NEW s \in SUBSET D, Cardinality(s) = n + 1 PROVE s \in F
    OBVIOUS
  <2>1. ASSUME NEW x \in s PROVE s \ {x} \in F
    <3>1. Cardinality(s \ {x}) = n
      BY <1>1, FS_RemoveElement
    <3> QED
      BY <1>3, <3>1
  <2> QED
    BY <2>1
<1> HIDE DEF P
<1>4. \A n \in Nat : n \in P
  BY <1>2, <1>3, NaturalsInduct
<1> QED
  BY <1>1, <1>4 DEF P

-----------------------------------------------------------------------------

(***************************************************************************)
(* A value and a step from each to the next one give a sequence of values. *)
(***************************************************************************)
Iterates(g, T, a, h) ==
  g \in [Nat -> T] /\ g[0] = a /\ \A n \in Nat : g[n + 1] = h[n][g[n]]

LEMMA Recursion ==
  ASSUME NEW T, NEW a \in T, NEW h \in [Nat -> [T -> T]]
  PROVE  \E g : Iterates(g, T, a, h)
<1> DEFINE Upto(n, g) == /\ g \in [0..n -> T] /\ g[0] = a
                         /\ \A i \in 0..n - 1 : g[i + 1] = h[i][g[i]]
           P == {n \in Nat : \E g : Upto(n, g)}
<1>1. \A n \in Nat : n \in P
  <2>1. 0 \in P
    <3>1. Upto(0, [i \in 0..0 |-> a])
      OBVIOUS
    <3> QED
      BY <3>1
  <2>2. ASSUME NEW n \in Nat, n \in P PROVE n + 1 \in P
    <3>1. PICK g : Upto(n, g)
      BY <2>2
    <3> DEFINE k == [i \in 0..n + 1 |-> IF i = n + 1 THEN h[n][g[n]] ELSE g[i]]
    <3>2. h[n][g[n]] \in T
      BY <3>1
    <3>3. k \in [0..n + 1 -> T] /\ k[0] = a
      BY <3>1, <3>2
    <3>4. ASSUME NEW i \in 0..n PROVE k[i + 1] = h[i][k[i]]
      BY <3>1
    <3> HIDE DEF k
    <3>5. Upto(n + 1, k)
      <4>1. 0..(n + 1) - 1 = 0..n
        OBVIOUS
      <4> QED
        BY <3>3, <3>4, <4>1
    <3> HIDE DEF Upto
    <3> QED
      BY <3>5
  <2> HIDE DEF P
  <2> QED
    BY <2>1, <2>2, NaturalsInduct
<1>2. ASSUME NEW m \in Nat, NEW g, Upto(m, g), NEW n \in Nat, NEW k, Upto(n, k)
      PROVE  \A i \in Nat : i <= m /\ i <= n => g[i] = k[i]
  <2> DEFINE Q == {i \in Nat : i <= m /\ i <= n => g[i] = k[i]}
  <2>1. 0 \in Q
    BY <1>2
  <2>2. ASSUME NEW i \in Nat, i \in Q PROVE i + 1 \in Q
    <3> SUFFICES ASSUME i + 1 <= m, i + 1 <= n PROVE g[i + 1] = k[i + 1]
      OBVIOUS
    <3>1. i \in 0..m - 1 /\ i \in 0..n - 1 /\ g[i] = k[i]
      BY <2>2
    <3> QED
      BY <1>2, <3>1
  <2>3. \A i \in Nat : i \in Q
    <3> HIDE DEF Q
    <3> QED
      BY <2>1, <2>2, NaturalsInduct
  <2> QED
    BY <2>3
<1> DEFINE f(n) == CHOOSE g : Upto(n, g)
           g == [n \in Nat |-> f(n)[n]]
<1>3. ASSUME NEW n \in Nat PROVE Upto(n, f(n))
  BY <1>1
<1> HIDE DEF f
<1>4. g \in [Nat -> T] /\ g[0] = a
  BY <1>3
<1>5. ASSUME NEW n \in Nat PROVE g[n + 1] = h[n][g[n]]
  <2>1. f(n + 1)[n] = f(n)[n]
    <3>1. Upto(n, f(n)) /\ Upto(n + 1, f(n + 1))
      BY <1>3
    <3> HIDE DEF Upto
    <3> QED
      BY <3>1, <1>2
  <2>2. f(n + 1)[n + 1] = h[n][f(n + 1)[n]]
    BY <1>3
  <2> QED
    BY <2>1, <2>2
<1> HIDE DEF g
<1>6. Iterates(g, T, a, h)
  BY <1>4, <1>5 DEF Iterates
<1> QED
  BY <1>6

LEMMA PowersOfTwo ==
  /\ Pow2 \in [Nat -> Nat \ {0}] /\ Pow2[0] = 1
  /\ \A n \in Nat : Pow2[n + 1] = 2 * Pow2[n]
<1> DEFINE T == Nat \ {0}
           h == [n \in Nat |-> [x \in T |-> 2 * x]]
<1>1. PICK g : g \in [Nat -> T] /\ g[0] = 1 /\ \A n \in Nat : g[n + 1] = 2 * g[n]
  <2>1. h \in [Nat -> [T -> T]] /\ 1 \in T
    OBVIOUS
  <2>2. \A n \in Nat : \A x \in T : h[n][x] = 2 * x
    OBVIOUS
  <2> HIDE DEF h, T
  <2>3. PICK g : Iterates(g, T, 1, h)
    BY <2>1, Recursion
  <2> QED
    BY <2>2, <2>3 DEF Iterates
<1>2. ASSUME NEW n \in Nat PROVE g[n] = IF n = 0 THEN 1 ELSE 2 * g[n - 1]
  <2>1. CASE n # 0
    <3>1. n - 1 \in Nat /\ (n - 1) + 1 = n
      BY <2>1
    <3>2. g[n] = 2 * g[n - 1]
      BY <1>1, <3>1
    <3> QED
      BY <2>1, <3>1, <3>2
  <2> QED
    BY <1>1, <2>1
<1>3. g = [n \in Nat |-> IF n = 0 THEN 1 ELSE 2 * g[n - 1]]
  BY <1>1, <1>2
<1>4. Pow2 = [n \in Nat |-> IF n = 0 THEN 1 ELSE 2 * Pow2[n - 1]]
  BY <1>3 DEF Pow2
<1>5. Pow2[0] = 1 /\ \A n \in Nat : Pow2[n + 1] = 2 * Pow2[n]
  BY <1>4
<1> DEFINE P == {n \in Nat : Pow2[n] \in Nat \ {0}}
<1>6. \A n \in Nat : n \in P
  <2>1. 0 \in P /\ \A n \in Nat : n \in P => n + 1 \in P
    BY <1>5
  <2> HIDE DEF P
  <2> QED
    BY <2>1, NaturalsInduct
<1> QED
  BY <1>4, <1>5, <1>6

-----------------------------------------------------------------------------

First(s) == CHOOSE x \in s : TRUE

(***************************************************************************)
(* A value, and a step for each element, give a value for each subset of a *)
(* finite set: g folds them.                                               *)
(***************************************************************************)
FoldsOver(g, T, D, a, h) ==
  /\ g \in [SUBSET D -> T]
  /\ g[{}] = a
  /\ \A s \in SUBSET D : s # {} => g[s] = h[First(s)][g[s \ {First(s)}]]

\* The values of the subsets of n elements are those after n rounds.
LEMMA Folding ==
  ASSUME NEW D, IsFiniteSet(D), NEW T, NEW a \in T, NEW h \in [D -> [T -> T]]
  PROVE  \E g : FoldsOver(g, T, D, a, h)
<1> DEFINE V == [SUBSET D -> T]
           Again(v) == [s \in SUBSET D |-> IF s = {} THEN a
                                           ELSE h[First(s)][v[s \ {First(s)}]]]
           step == [n \in Nat |-> [v \in V |-> Again(v)]]
           start == [s \in SUBSET D |-> a]
<1>1. \A s \in SUBSET D : s # {} => First(s) \in s
  BY DEF First
<1>2. \A v \in V : Again(v) \in V
  BY <1>1
<1>3. step \in [Nat -> [V -> V]] /\ start \in V
  BY <1>2
<1>4. PICK r : Iterates(r, V, start, step)
  <2> HIDE DEF V, step, start
  <2> QED
    BY <1>3, Recursion
<1>5. \A n \in Nat : r[n] \in V /\ r[n + 1] = Again(r[n])
  BY <1>4 DEF Iterates
<1> DEFINE g == [s \in SUBSET D |-> r[Cardinality(s)][s]]
<1>6. \A s \in SUBSET D : IsFiniteSet(s) /\ Cardinality(s) \in Nat
  BY FS_Subset, FS_CardinalityType
<1>7. g \in [SUBSET D -> T]
  BY <1>5, <1>6
<1>8. g[{}] = a
  <2>1. Cardinality({}) = 0 /\ r[0] = start
    BY <1>4, FS_EmptySet DEF Iterates
  <2> QED
    BY <2>1
<1>9. ASSUME NEW s \in SUBSET D, s # {}
      PROVE  g[s] = h[First(s)][g[s \ {First(s)}]]
  <2> DEFINE t == s \ {First(s)}
             n == Cardinality(t)
  <2>1. t \in SUBSET D /\ n \in Nat /\ Cardinality(s) = n + 1
    <3>1. Cardinality(t) = Cardinality(s) - 1
      BY <1>1, <1>6, <1>9, FS_RemoveElement
    <3> QED
      BY <1>6, <3>1
  <2>2. r[n + 1] = Again(r[n])
    BY <1>5, <2>1
  <2>3. g[s] = r[n + 1][s] /\ g[t] = r[n][t]
    BY <2>1
  <2> QED
    BY <1>9, <2>2, <2>3
<1> HIDE DEF g
<1>10. FoldsOver(g, T, D, a, h)
  BY <1>7, <1>8, <1>9 DEF FoldsOver
<1> QED
  BY <1>10

(***************************************************************************)
(* g has the sums of f over the subsets of D, in whatever order one adds.  *)
(***************************************************************************)
Sums(g, D, f) ==
  /\ g \in [SUBSET D -> Int]
  /\ g[{}] = 0
  /\ \A s \in SUBSET D : \A y \in s : g[s] = f[y] + g[s \ {y}]

LEMMA SumFolds ==
  ASSUME NEW D, IsFiniteSet(D), NEW f \in [D -> Int]
  PROVE  \E g : Sums(g, D, f) /\ SumFunction(f) = g[D]
<1> DEFINE h == [x \in D |-> [n \in Int |-> f[x] + n]]
           R(g) == g = [s \in SUBSET D |-> IF s = {} THEN 0
                          ELSE f[CHOOSE x \in s : TRUE] + g[s \ {CHOOSE x \in s : TRUE}]]
<1>1. SumFunction(f) = (CHOOSE g : R(g))[D]
  BY DEF SumFunction, SumFunctionOnSet, FoldFunctionOnSet, MapThenFoldSet
<1>2. \A s \in SUBSET D : s # {} => First(s) \in s
  BY DEF First
<1>3. \E g : R(g)
  <2>1. h \in [D -> [Int -> Int]] /\ 0 \in Int
    OBVIOUS
  <2>2. PICK g : FoldsOver(g, Int, D, 0, h)
    <3> HIDE DEF h, R
    <3> QED
      BY <2>1, Folding
  <2>3. ASSUME NEW s \in SUBSET D, s # {} PROVE g[s] = f[First(s)] + g[s \ {First(s)}]
    BY <1>2, <2>2, <2>3 DEF FoldsOver
  <2>4. R(g)
    BY <2>2, <2>3 DEF FoldsOver, First
  <2> HIDE DEF R
  <2> QED
    BY <2>4
<1> DEFINE k == CHOOSE g : R(g)
<1>4. R(k)
  <2> HIDE DEF R
  <2> QED
    BY <1>3
<1> HIDE DEF k
<1>5. ASSUME NEW s \in SUBSET D, s # {} PROVE k[s] = f[First(s)] + k[s \ {First(s)}]
  BY <1>4, <1>5 DEF First
<1>6. \A s \in SUBSET D : k[s] \in Int
  <2> DEFINE F == {s \in SUBSET D : k[s] \in Int}
  <2>1. ASSUME NEW s \in SUBSET D, \A x \in s : s \ {x} \in F PROVE s \in F
    BY <1>2, <1>4, <1>5, <2>1
  <2> HIDE DEF F
  <2>2. \A s \in SUBSET D : s \in F
    BY <2>1, SubsetsInduct
  <2> QED
    BY <2>2 DEF F
<1>7. k \in [SUBSET D -> Int] /\ k[{}] = 0
  BY <1>4, <1>6
<1> DEFINE F == {s \in SUBSET D : \A y \in s : k[s] = f[y] + k[s \ {y}]}
<1>8. ASSUME NEW s \in SUBSET D, \A x \in s : s \ {x} \in F PROVE s \in F
  <2> SUFFICES ASSUME NEW y \in s PROVE k[s] = f[y] + k[s \ {y}]
    OBVIOUS
  <2> DEFINE x == First(s)
  <2>1. x \in s /\ k[s] = f[x] + k[s \ {x}]
    BY <1>2, <1>5
  <2>2. CASE y # x
    <3> HIDE DEF x
    <3> DEFINE t == (s \ {x}) \ {y}
    <3>1. k[s \ {x}] = f[y] + k[t]
      BY <1>8, <2>1, <2>2
    <3>2. k[s \ {y}] = f[x] + k[t]
      <4>1. t = (s \ {y}) \ {x}
        OBVIOUS
      <4> QED
        BY <1>8, <2>1, <2>2, <4>1
    <3>3. f[x] \in Int /\ f[y] \in Int /\ k[t] \in Int
      BY <1>6, <2>1
    <3> HIDE DEF F, t
    <3> QED
      BY <2>1, <3>1, <3>2, <3>3
  <2> QED
    BY <2>1, <2>2
<1>9. \A s \in SUBSET D : s \in F
  <2> HIDE DEF F
  <2> QED
    BY <1>8, SubsetsInduct
<1>10. Sums(k, D, f)
  BY <1>7, <1>9 DEF Sums
<1> QED
  BY <1>1, <1>10 DEF k

LEMMA Exchange == \A a, b, c \in Int : a * (b * c) = b * (a * c)
OBVIOUS

(***************************************************************************)
(* And their products, in whatever order one multiplies.                   *)
(***************************************************************************)
Products(g, D, f) ==
  /\ g \in [SUBSET D -> Int]
  /\ g[{}] = 1
  /\ \A s \in SUBSET D : \A y \in s : g[s] = f[y] * g[s \ {y}]

LEMMA ProductFolds ==
  ASSUME NEW D, IsFiniteSet(D), NEW f \in [D -> Int]
  PROVE  \E g : Products(g, D, f) /\ Product(f) = g[D]
<1> DEFINE h == [x \in D |-> [n \in Int |-> f[x] * n]]
           R(g) == g = [s \in SUBSET D |-> IF s = {} THEN 1
                          ELSE f[CHOOSE x \in s : TRUE] * g[s \ {CHOOSE x \in s : TRUE}]]
<1>1. Product(f) = (CHOOSE g : R(g))[D]
  BY DEF Product, FoldFunction, FoldFunctionOnSet, MapThenFoldSet
<1>2. \A s \in SUBSET D : s # {} => First(s) \in s
  BY DEF First
<1>3. \E g : R(g)
  <2>1. h \in [D -> [Int -> Int]] /\ 1 \in Int
    OBVIOUS
  <2>2. PICK g : FoldsOver(g, Int, D, 1, h)
    <3> HIDE DEF h, R
    <3> QED
      BY <2>1, Folding
  <2>3. ASSUME NEW s \in SUBSET D, s # {} PROVE g[s] = f[First(s)] * g[s \ {First(s)}]
    BY <1>2, <2>2, <2>3 DEF FoldsOver
  <2>4. R(g)
    BY <2>2, <2>3 DEF FoldsOver, First
  <2> HIDE DEF R
  <2> QED
    BY <2>4
<1> DEFINE k == CHOOSE g : R(g)
<1>4. R(k)
  <2> HIDE DEF R
  <2> QED
    BY <1>3
<1> HIDE DEF k
<1>5. ASSUME NEW s \in SUBSET D, s # {} PROVE k[s] = f[First(s)] * k[s \ {First(s)}]
  BY <1>4, <1>5 DEF First
<1>6. \A s \in SUBSET D : k[s] \in Int
  <2> DEFINE F == {s \in SUBSET D : k[s] \in Int}
  <2>1. ASSUME NEW s \in SUBSET D, \A x \in s : s \ {x} \in F PROVE s \in F
    BY <1>2, <1>4, <1>5, <2>1
  <2> HIDE DEF F
  <2>2. \A s \in SUBSET D : s \in F
    BY <2>1, SubsetsInduct
  <2> QED
    BY <2>2 DEF F
<1>7. k \in [SUBSET D -> Int] /\ k[{}] = 1
  BY <1>4, <1>6
<1> DEFINE F == {s \in SUBSET D : \A y \in s : k[s] = f[y] * k[s \ {y}]}
<1>8. ASSUME NEW s \in SUBSET D, \A x \in s : s \ {x} \in F PROVE s \in F
  <2> SUFFICES ASSUME NEW y \in s PROVE k[s] = f[y] * k[s \ {y}]
    OBVIOUS
  <2> DEFINE x == First(s)
  <2>1. x \in s /\ k[s] = f[x] * k[s \ {x}]
    BY <1>2, <1>5
  <2>2. CASE y # x
    <3> HIDE DEF x
    <3> DEFINE t == (s \ {x}) \ {y}
    <3>1. k[s \ {x}] = f[y] * k[t]
      BY <1>8, <2>1, <2>2
    <3>2. k[s \ {y}] = f[x] * k[t]
      <4>1. t = (s \ {y}) \ {x}
        OBVIOUS
      <4> QED
        BY <1>8, <2>1, <2>2, <4>1
    <3>3. f[x] \in Int /\ f[y] \in Int /\ k[t] \in Int
      BY <1>6, <2>1
    <3>4. f[x] * (f[y] * k[t]) = f[y] * (f[x] * k[t])
      BY <3>3, Exchange
    <3> HIDE DEF F, t
    <3> QED
      BY <2>1, <3>1, <3>2, <3>4
  <2> QED
    BY <2>1, <2>2
<1>9. \A s \in SUBSET D : s \in F
  <2> HIDE DEF F
  <2> QED
    BY <1>8, SubsetsInduct
<1>10. Products(k, D, f)
  BY <1>7, <1>9 DEF Products
<1> QED
  BY <1>1, <1>10 DEF k

LEMMA ProductInt ==
  ASSUME NEW D, IsFiniteSet(D), NEW f \in [D -> Int]
  PROVE  Product(f) \in Int
<1>1. PICK g : Products(g, D, f) /\ Product(f) = g[D]
  BY ProductFolds
<1> QED
  BY <1>1 DEF Products

LEMMA SumInt ==
  ASSUME NEW D, IsFiniteSet(D), NEW f \in [D -> Int]
  PROVE  SumFunction(f) \in Int
<1>1. PICK g : Sums(g, D, f) /\ SumFunction(f) = g[D]
  BY SumFolds
<1> QED
  BY <1>1 DEF Sums

LEMMA SumEmpty == ASSUME NEW f \in [{} -> Int] PROVE SumFunction(f) = 0
<1>1. PICK g : Sums(g, {}, f) /\ SumFunction(f) = g[{}]
  BY SumFolds, FS_EmptySet
<1> QED
  BY <1>1 DEF Sums

(***************************************************************************)
(* One function has the sums over all parts of D, and one the products:    *)
(* two disjoint parts have the sum, or product, of theirs.                 *)
(***************************************************************************)
LEMMA SumParts ==
  ASSUME NEW D, IsFiniteSet(D), NEW f \in [D -> Int], NEW g, Sums(g, D, f), NEW s \in SUBSET D
  PROVE  SumFunction([x \in s |-> f[x]]) = g[s]
<1> DEFINE e == [x \in s |-> f[x]]
<1>1. IsFiniteSet(s) /\ e \in [s -> Int] /\ \A x \in s : e[x] = f[x]
  BY FS_Subset
<1> HIDE DEF e
<1>2. PICK k : Sums(k, s, e) /\ SumFunction(e) = k[s]
  BY <1>1, SumFolds
<1> DEFINE F == {t \in SUBSET s : k[t] = g[t]}
<1>3. ASSUME NEW t \in SUBSET s, \A x \in t : t \ {x} \in F PROVE t \in F
  <2>1. CASE t = {}
    BY <1>2, <2>1 DEF Sums
  <2>2. CASE t # {}
    <3> PICK y \in t : TRUE
      BY <2>2
    <3>1. g[t] = f[y] + g[t \ {y}] /\ k[t] = e[y] + k[t \ {y}]
      BY <1>2 DEF Sums
    <3> QED
      BY <1>1, <1>3, <3>1
  <2> QED
    BY <2>1, <2>2
<1> HIDE DEF F
<1>4. \A t \in SUBSET s : t \in F
  BY <1>1, <1>3, SubsetsInduct
<1> QED
  BY <1>2, <1>4 DEF F, e

LEMMA SumUnion ==
  ASSUME NEW D, IsFiniteSet(D), NEW f \in [D -> Int], NEW g, Sums(g, D, f),
         NEW s \in SUBSET D, NEW t \in SUBSET s
  PROVE  g[s] = g[t] + g[s \ t]
<1> DEFINE E == s \ t
           F == {u \in SUBSET E : g[t \cup u] = g[t] + g[u]}
<1>1. IsFiniteSet(E) /\ \A u \in SUBSET E : t \cup u \in SUBSET D /\ u \in SUBSET D
  BY FS_Subset
<1>2. g[t] \in Int /\ \A u \in SUBSET E : g[u] \in Int
  BY <1>1 DEF Sums
<1>3. ASSUME NEW u \in SUBSET E, \A x \in u : u \ {x} \in F PROVE u \in F
  <2>1. CASE u = {}
    <3>1. t \cup u = t /\ g[u] = 0
      BY <2>1 DEF Sums
    <3>2. g[t \cup u] = g[t] + g[u]
      <4> DEFINE a == g[t]
      <4>1. a \in Int /\ g[t \cup u] = a
        BY <1>2, <3>1
      <4> HIDE DEF a
      <4>2. a + 0 = a
        BY <4>1
      <4> QED
        BY <3>1, <4>1, <4>2 DEF a
    <3> QED
      BY <3>2
  <2>2. CASE u # {}
    <3> PICK y \in u : TRUE
      BY <2>2
    <3>1. (t \cup u) \ {y} = t \cup (u \ {y}) /\ y \in t \cup u
      OBVIOUS
    <3>2. g[t \cup u] = f[y] + g[t \cup (u \ {y})] /\ g[u] = f[y] + g[u \ {y}]
      BY <1>1, <3>1 DEF Sums
    <3>3. g[t \cup (u \ {y})] = g[t] + g[u \ {y}] /\ g[u \ {y}] \in Int /\ f[y] \in Int
      BY <1>2, <1>3
    <3> QED
      BY <1>2, <3>2, <3>3
  <2> QED
    BY <2>1, <2>2
<1>4. E \in F
  <2>1. \A u \in SUBSET E : u \in F
    <3> HIDE DEF E, F
    <3> QED
      BY <1>1, <1>3, SubsetsInduct
  <2> QED
    BY <2>1
<1>5. t \cup E = s
  OBVIOUS
<1> QED
  BY <1>4, <1>5

LEMMA ProductParts ==
  ASSUME NEW D, IsFiniteSet(D), NEW f \in [D -> Int], NEW g, Products(g, D, f), NEW s \in SUBSET D,
         NEW e \in [s -> Int], \A x \in s : e[x] = f[x]
  PROVE  Product(e) = g[s]
<1>1. IsFiniteSet(s) /\ e \in [s -> Int] /\ \A x \in s : e[x] = f[x]
  BY FS_Subset
<1>2. PICK k : Products(k, s, e) /\ Product(e) = k[s]
  BY <1>1, ProductFolds
<1> DEFINE F == {t \in SUBSET s : k[t] = g[t]}
<1>3. ASSUME NEW t \in SUBSET s, \A x \in t : t \ {x} \in F PROVE t \in F
  <2>1. CASE t = {}
    BY <1>2, <2>1 DEF Products
  <2>2. CASE t # {}
    <3> PICK y \in t : TRUE
      BY <2>2
    <3>1. g[t] = f[y] * g[t \ {y}] /\ k[t] = e[y] * k[t \ {y}]
      BY <1>2 DEF Products
    <3> QED
      BY <1>1, <1>3, <3>1
  <2> QED
    BY <2>1, <2>2
<1> HIDE DEF F
<1>4. \A t \in SUBSET s : t \in F
  BY <1>1, <1>3, SubsetsInduct
<1> QED
  BY <1>2, <1>4 DEF F

LEMMA ProductUnion ==
  ASSUME NEW D, IsFiniteSet(D), NEW f \in [D -> Int], NEW g, Products(g, D, f),
         NEW s \in SUBSET D, NEW t \in SUBSET s
  PROVE  g[s] = g[t] * g[s \ t]
<1> DEFINE E == s \ t
           F == {u \in SUBSET E : g[t \cup u] = g[t] * g[u]}
<1>1. IsFiniteSet(E) /\ \A u \in SUBSET E : t \cup u \in SUBSET D /\ u \in SUBSET D
  BY FS_Subset
<1>2. g[t] \in Int /\ \A u \in SUBSET E : g[u] \in Int
  BY <1>1 DEF Products
<1>3. ASSUME NEW u \in SUBSET E, \A x \in u : u \ {x} \in F PROVE u \in F
  <2>1. CASE u = {}
    <3>1. t \cup u = t /\ g[u] = 1
      BY <2>1 DEF Products
    <3>2. g[t \cup u] = g[t] * g[u]
      <4> DEFINE a == g[t]
      <4>1. a \in Int /\ g[t \cup u] = a
        BY <1>2, <3>1
      <4> HIDE DEF a
      <4>2. a * 1 = a
        BY <4>1
      <4> QED
        BY <3>1, <4>1, <4>2 DEF a
    <3> QED
      BY <3>2
  <2>2. CASE u # {}
    <3> PICK y \in u : TRUE
      BY <2>2
    <3>1. (t \cup u) \ {y} = t \cup (u \ {y}) /\ y \in t \cup u
      OBVIOUS
    <3>2. g[t \cup u] = f[y] * g[t \cup (u \ {y})] /\ g[u] = f[y] * g[u \ {y}]
      BY <1>1, <3>1 DEF Products
    <3>3. g[t \cup (u \ {y})] = g[t] * g[u \ {y}] /\ g[u \ {y}] \in Int /\ f[y] \in Int
      BY <1>2, <1>3
    <3> DEFINE a == g[t]
               b == f[y]
               c == g[u \ {y}]
    <3>4. b * (a * c) = a * (b * c)
      <4>1. a \in Int /\ b \in Int /\ c \in Int
        BY <1>2, <3>3
      <4> HIDE DEF a, b, c
      <4> QED
        BY <4>1, Exchange
    <3> QED
      BY <3>2, <3>3, <3>4
  <2> QED
    BY <2>1, <2>2
<1>4. E \in F
  <2>1. \A u \in SUBSET E : u \in F
    <3> HIDE DEF E, F
    <3> QED
      BY <1>1, <1>3, SubsetsInduct
  <2> QED
    BY <2>1
<1>5. t \cup E = s
  OBVIOUS
<1> QED
  BY <1>4, <1>5

(***************************************************************************)
(* A sum is an element and the sum over the others.                        *)
(***************************************************************************)
LEMMA SumSplit ==
  ASSUME NEW D, IsFiniteSet(D), NEW f \in [D -> Int], NEW y \in D,
         NEW e \in [D \ {y} -> Int], \A x \in D \ {y} : e[x] = f[x]
  PROVE  SumFunction(f) = f[y] + SumFunction(e)
<1>1. PICK g : Sums(g, D, f) /\ SumFunction(f) = g[D]
  BY SumFolds
<1> DEFINE E == D \ {y}
<1>2. E \in SUBSET D /\ e = [x \in E |-> f[x]]
  OBVIOUS
<1>3. SumFunction(e) = g[E]
  <2> HIDE DEF E
  <2> QED
    BY <1>1, <1>2, SumParts
<1>4. g[D] = f[y] + g[E]
  BY <1>1 DEF Sums
<1> QED
  BY <1>1, <1>3, <1>4

LEMMA SumNat ==
  ASSUME NEW D, IsFiniteSet(D), NEW f \in [D -> Nat]
  PROVE  SumFunction(f) \in Nat
<1>1. f \in [D -> Int]
  OBVIOUS
<1>2. PICK g : Sums(g, D, f) /\ SumFunction(f) = g[D]
  BY <1>1, SumFolds
<1> DEFINE F == {s \in SUBSET D : g[s] \in Nat}
<1>3. ASSUME NEW s \in SUBSET D, \A x \in s : s \ {x} \in F PROVE s \in F
  <2>1. CASE s = {}
    BY <1>2, <2>1 DEF Sums
  <2>2. CASE s # {}
    <3> PICK y \in s : TRUE
      BY <2>2
    <3>1. g[s] = f[y] + g[s \ {y}] /\ f[y] \in Nat /\ g[s \ {y}] \in Nat
      BY <1>2, <1>3 DEF Sums
    <3> QED
      BY <3>1
  <2> QED
    BY <2>1, <2>2
<1> HIDE DEF F
<1>4. D \in F
  BY <1>3, SubsetsInduct
<1> QED
  BY <1>2, <1>4 DEF F

-----------------------------------------------------------------------------

LEMMA Division ==
  ASSUME NEW a \in Int, NEW d \in Nat \ {0}
  PROVE  /\ a \div d \in Int /\ a % d \in 0..d - 1
         /\ a = d * (a \div d) + (a % d)
OBVIOUS

LEMMA DivisionUnique ==
  ASSUME NEW a \in Int, NEW d \in Nat \ {0}, NEW q \in Int, NEW r \in 0..d - 1, a = d * q + r
  PROVE  a \div d = q /\ a % d = r
OBVIOUS

LEMMA SameModulo ==
  ASSUME NEW b \in Int, NEW d \in Nat \ {0}, NEW q \in Int
  PROVE  (b + d * q) % d = b % d
<1> DEFINE m == b \div d
           r == b % d
           n == m + q
           a == b + d * q
<1>1. m \in Int /\ r \in 0..d - 1 /\ b = d * m + r
  BY Division
<1>2. n \in Int /\ a \in Int /\ a = d * n + r
  <2> HIDE DEF m, r
  <2>1. d * m + d * q = d * (m + q)
    BY <1>1
  <2> QED
    BY <1>1, <2>1
<1> HIDE DEF r, n, a
<1>3. a % d = r
  BY <1>1, <1>2, DivisionUnique
<1> QED
  BY <1>3 DEF a, r

\* A sum modulo d is the same when a summand is taken modulo d first.
LEMMA AddModulo ==
  ASSUME NEW a \in Int, NEW b \in Int, NEW d \in Nat \ {0}
  PROVE  ((a % d) + b) % d = (a + b) % d
<1> DEFINE m == a \div d
           r == a % d
           v == r + b
<1>1. m \in Int /\ r \in Int /\ a = d * m + r
  BY Division
<1>2. a + b = v + d * m /\ v \in Int
  <2> HIDE DEF m, r
  <2> QED
    BY <1>1
<1> HIDE DEF v
<1>3. (v + d * m) % d = v % d
  BY <1>1, <1>2, SameModulo
<1> QED
  BY <1>2, <1>3 DEF v

\* And so is a product with a factor taken modulo d.
LEMMA MultiplyModulo ==
  ASSUME NEW a \in Int, NEW b \in Int, NEW d \in Nat \ {0}
  PROVE  (b * (a % d)) % d = (b * a) % d
<1> DEFINE m == a \div d
           r == a % d
           v == b * r
           q == b * m
<1>1. m \in Int /\ r \in Int /\ a = d * m + r
  BY Division
<1>2. b * a = v + d * q /\ v \in Int /\ q \in Int
  <2> HIDE DEF m, r
  <2>1. b * (d * m + r) = b * (d * m) + b * r /\ b * (d * m) = d * (b * m)
    BY <1>1
  <2> QED
    BY <1>1, <2>1
<1> HIDE DEF v, q
<1>3. (v + d * q) % d = v % d
  BY <1>2, SameModulo
<1> QED
  BY <1>2, <1>3 DEF v

\* A power of two is an even multiple of each smaller one.
LEMMA PowersDivide ==
  ASSUME NEW i \in Nat, NEW j \in Nat, i < j
  PROVE  \E q \in Nat : Pow2[j] = Pow2[i] * (2 * q)
<1> DEFINE P == {k \in Nat : \E q \in Nat \ {0} : Pow2[i + k] = Pow2[i] * q}
<1>1. 0 \in P
  BY PowersOfTwo
<1>2. ASSUME NEW k \in Nat, k \in P PROVE k + 1 \in P
  <2> PICK q \in Nat \ {0} : Pow2[i + k] = Pow2[i] * q
    BY <1>2
  <2>1. Pow2[i + (k + 1)] = 2 * Pow2[i + k]
    <3> DEFINE n == i + k
    <3>1. n \in Nat /\ i + (k + 1) = n + 1
      OBVIOUS
    <3> HIDE DEF n
    <3>2. Pow2[n + 1] = 2 * Pow2[n]
      BY <3>1, PowersOfTwo
    <3> QED
      BY <3>1, <3>2 DEF n
  <2>2. Pow2[i] \in Nat /\ 2 * (Pow2[i] * q) = Pow2[i] * (2 * q)
    BY PowersOfTwo
  <2>3. 2 * q \in Nat \ {0} /\ Pow2[i + (k + 1)] = Pow2[i] * (2 * q)
    BY <2>1, <2>2
  <2> QED
    BY <2>3
<1>3. \A k \in Nat : k \in P
  <2> HIDE DEF P
  <2> QED
    BY <1>1, <1>2, NaturalsInduct
<1>4. j - i - 1 \in Nat /\ i + (j - i - 1) = j - 1
  OBVIOUS
<1> PICK q \in Nat \ {0} : Pow2[j - 1] = Pow2[i] * q
  BY <1>3, <1>4
<1>5. j - 1 \in Nat /\ (j - 1) + 1 = j
  OBVIOUS
<1>6. Pow2[j] = 2 * Pow2[j - 1]
  BY <1>5, PowersOfTwo
<1>7. Pow2[i] \in Nat /\ 2 * (Pow2[i] * q) = Pow2[i] * (2 * q)
  BY PowersOfTwo
<1> QED
  BY <1>6, <1>7

-----------------------------------------------------------------------------

LEMMA PowersSplit ==
  ASSUME NEW S, IsFiniteSet(S), \A i \in S : Pow2[i] \in Int, NEW j \in S
  PROVE  Number(S) = Pow2[j] + Number(S \ {j})
<1> DEFINE f == [i \in S |-> Pow2[i]]
           e == [i \in S \ {j} |-> Pow2[i]]
<1>1. f \in [S -> Int] /\ e \in [S \ {j} -> Int]
  OBVIOUS
<1>2. f[j] = Pow2[j] /\ \A x \in S \ {j} : e[x] = f[x]
  OBVIOUS
<1> HIDE DEF f, e
<1>3. SumFunction(f) = f[j] + SumFunction(e)
  BY <1>1, <1>2, SumSplit
<1> QED
  BY <1>2, <1>3 DEF f, e, Number

LEMMA NumberSplit ==
  ASSUME NEW w \in Nat, NEW S \in SUBSET (0..w - 1), NEW j \in S
  PROVE  Number(S) = Pow2[j] + Number(S \ {j})
<1>1. IsFiniteSet(S)
  <2>1. IsFiniteSet(0..w - 1)
    BY FS_Interval
  <2> QED
    BY <2>1, FS_Subset
<1>2. \A i \in S : Pow2[i] \in Int
  BY PowersOfTwo
<1> QED
  BY <1>1, <1>2, PowersSplit

LEMMA NumberEmpty == Number({}) = 0
BY SumEmpty DEF Number

LEMMA BitRange == ASSUME NEW v \in Int, NEW j \in Nat PROVE Bit(v, j) \in {0, 1}
<1>1. v \div Pow2[j] \in Int
  BY PowersOfTwo, Division
<1> DEFINE q == v \div Pow2[j]
<1> HIDE DEF q
<1>2. q \in Int => q % 2 \in {0, 1}
  OBVIOUS
<1> QED
  BY <1>1, <1>2 DEF q, Bit

\* The bits of a power of two on top of a smaller number.
LEMMA TopBit ==
  ASSUME NEW w \in Nat, NEW n \in 0..Pow2[w] - 1
  PROVE  /\ Bit(n, w) = 0 /\ Bit(Pow2[w] + n, w) = 1
         /\ \A j \in 0..w - 1 : Bit(Pow2[w] + n, j) = Bit(n, j)
<1>1. Pow2[w] \in Nat \ {0}
  BY PowersOfTwo
<1>2. Bit(n, w) = 0
  <2>1. n \div Pow2[w] = 0
    BY <1>1
  <2> QED
    BY <2>1 DEF Bit
<1>3. Bit(Pow2[w] + n, w) = 1
  <2>1. (Pow2[w] + n) \div Pow2[w] = 1
    BY <1>1
  <2> QED
    BY <2>1 DEF Bit
<1>4. ASSUME NEW j \in 0..w - 1 PROVE Bit(Pow2[w] + n, j) = Bit(n, j)
  <2> PICK q \in Nat : Pow2[w] = Pow2[j] * (2 * q)
    <3>1. j \in Nat /\ j < w
      OBVIOUS
    <3> QED
      BY <3>1, PowersDivide
  <2> DEFINE d == Pow2[j]
             m == n \div d
             r == n % d
  <2>1. d \in Nat \ {0}
    BY PowersOfTwo
  <2>2. m \in Int /\ r \in 0..d - 1 /\ n = d * m + r
    <3>1. n \in Int
      BY <1>1
    <3> HIDE DEF d
    <3> QED
      BY <2>1, <3>1, Division
  <2>3. (d * (2 * q) + n) \div d = m + 2 * q
    <3> HIDE DEF d, m, r
    <3>1. d * (2 * q) + n = d * (m + 2 * q) + r
      BY <2>1, <2>2
    <3> DEFINE a == d * (2 * q) + n
               k == m + 2 * q
    <3>2. a \in Int /\ k \in Int /\ a = d * k + r
      BY <1>1, <2>1, <2>2, <3>1
    <3> HIDE DEF a, k
    <3>3. a \div d = k
      BY <2>1, <2>2, <3>2, DivisionUnique
    <3> QED
      BY <3>3 DEF a, k
  <2>4. (m + 2 * q) % 2 = m % 2
    <3> HIDE DEF m
    <3> QED
      BY <2>2
  <2> QED
    BY <2>3, <2>4 DEF Bit
<1> QED
  BY <1>2, <1>3, <1>4

(***************************************************************************)
(* A number of w bits is less than the w-th power of two, and has the ones *)
(* that it is made of.                                                     *)
(***************************************************************************)
LEMMA NumberBits ==
  ASSUME NEW w \in Nat, NEW S \in SUBSET (0..w - 1)
  PROVE  /\ Number(S) \in 0..Pow2[w] - 1
         /\ \A j \in 0..w - 1 : Bit(Number(S), j) = IF j \in S THEN 1 ELSE 0
<1> DEFINE Bits(k, s) == /\ Number(s) \in 0..Pow2[k] - 1
                         /\ \A j \in 0..k - 1 : Bit(Number(s), j) = IF j \in s THEN 1 ELSE 0
           P == {k \in Nat : \A s \in SUBSET (0..k - 1) : Bits(k, s)}
<1>1. 0 \in P
  <2> SUFFICES ASSUME NEW s \in SUBSET (0..0 - 1) PROVE Bits(0, s)
    OBVIOUS
  <2>1. s = {} /\ 0..0 - 1 = {}
    OBVIOUS
  <2> QED
    BY <2>1, NumberEmpty, PowersOfTwo
<1>2. ASSUME NEW k \in Nat, k \in P PROVE k + 1 \in P
  <2> SUFFICES ASSUME NEW s \in SUBSET (0..k) PROVE Bits(k + 1, s)
    OBVIOUS
  <2> DEFINE t == s \ {k}
             n == Number(t)
  <2>1. t \in SUBSET (0..k - 1)
    OBVIOUS
  <2>2. Bits(k, t)
    BY <1>2, <2>1
  <2>3. Pow2[k] \in Nat \ {0} /\ Pow2[k + 1] = 2 * Pow2[k]
    BY PowersOfTwo
  <2>4. /\ Bit(n, k) = 0 /\ Bit(Pow2[k] + n, k) = 1
        /\ \A j \in 0..k - 1 : Bit(Pow2[k] + n, j) = Bit(n, j)
    BY <2>2, TopBit
  <2>5. CASE k \in s
    <3>1. Number(s) = Pow2[k] + n
      <4>1. k + 1 \in Nat /\ s \in SUBSET (0..(k + 1) - 1)
        OBVIOUS
      <4> QED
        BY <2>5, <4>1, NumberSplit
    <3>2. Number(s) \in 0..Pow2[k + 1] - 1
      <4> HIDE DEF n
      <4> QED
        BY <2>2, <2>3, <3>1 DEF n
    <3>3. ASSUME NEW j \in 0..k PROVE Bit(Number(s), j) = IF j \in s THEN 1 ELSE 0
      <4>1. CASE j = k
        BY <2>4, <2>5, <3>1, <4>1
      <4>2. CASE j # k
        <5>1. j \in 0..k - 1
          BY <4>2
        <5> QED
          BY <2>2, <2>4, <3>1, <4>2, <5>1
      <4> QED
        BY <4>1, <4>2
    <3> QED
      BY <3>2, <3>3
  <2>6. CASE k \notin s
    <3>1. t = s
      BY <2>6
    <3>2. Number(s) \in 0..Pow2[k + 1] - 1
      BY <2>2, <2>3, <3>1
    <3>3. ASSUME NEW j \in 0..k PROVE Bit(Number(s), j) = IF j \in s THEN 1 ELSE 0
      <4>1. CASE j = k
        BY <2>4, <2>6, <3>1, <4>1
      <4>2. CASE j # k
        BY <2>2, <3>1, <4>2
      <4> QED
        BY <4>1, <4>2
    <3> QED
      BY <3>2, <3>3
  <2> QED
    BY <2>5, <2>6
<1>3. w \in P
  <2> HIDE DEF P
  <2> QED
    BY <1>1, <1>2, NaturalsInduct
<1> QED
  BY <1>3

\* A number of w bits is made of its ones.
LEMMA BitsNumber ==
  ASSUME NEW w \in Nat, NEW v \in 0..Pow2[w] - 1
  PROVE  Number({j \in 0..w - 1 : Bit(v, j) = 1}) = v
<1> DEFINE Ones(k, n) == {j \in 0..k - 1 : Bit(n, j) = 1}
           P == {k \in Nat : \A n \in 0..Pow2[k] - 1 : Number(Ones(k, n)) = n}
<1>1. 0 \in P
  <2>1. \A n : Ones(0, n) = {}
    OBVIOUS
  <2> QED
    BY <2>1, NumberEmpty, PowersOfTwo
<1>2. ASSUME NEW k \in Nat, k \in P PROVE k + 1 \in P
  <2> SUFFICES ASSUME NEW n \in 0..Pow2[k + 1] - 1 PROVE Number(Ones(k + 1, n)) = n
    OBVIOUS
  <2>1. Pow2[k] \in Nat \ {0} /\ Pow2[k + 1] = 2 * Pow2[k]
    BY PowersOfTwo
  <2>2. CASE n < Pow2[k]
    <3>1. n \in 0..Pow2[k] - 1
      BY <2>1, <2>2
    <3>2. Bit(n, k) = 0
      BY <3>1, TopBit
    <3>3. Ones(k + 1, n) = Ones(k, n)
      BY <3>2
    <3> QED
      BY <1>2, <3>1, <3>3
  <2>3. CASE n >= Pow2[k]
    <3> DEFINE m == n - Pow2[k]
    <3>1. m \in 0..Pow2[k] - 1 /\ n = Pow2[k] + m
      BY <2>1, <2>3
    <3> HIDE DEF m
    <3>2. Bit(n, k) = 1 /\ \A j \in 0..k - 1 : Bit(n, j) = Bit(m, j)
      BY <3>1, TopBit
    <3> DEFINE S == Ones(k + 1, n)
    <3>3. S \ {k} = Ones(k, m) /\ k \in S /\ S \in SUBSET (0..(k + 1) - 1) /\ k + 1 \in Nat
      BY <3>2
    <3> HIDE DEF S
    <3>4. Number(S) = Pow2[k] + Number(S \ {k})
      BY <3>3, NumberSplit
    <3>5. Number(S) = n
      BY <1>2, <3>1, <3>3, <3>4
    <3> QED
      BY <3>5 DEF S
  <2> QED
    BY <2>1, <2>2, <2>3
<1> HIDE DEF P
<1>3. w \in P
  BY <1>1, <1>2, NaturalsInduct
<1> QED
  BY <1>3 DEF P

\* The number with all of w ones.
LEMMA NumberFull == ASSUME NEW w \in Nat PROVE Number(0..w - 1) = Pow2[w] - 1
<1> DEFINE P == {k \in Nat : Number(0..k - 1) = Pow2[k] - 1}
<1>1. 0 \in P
  <2>1. 0..0 - 1 = {}
    OBVIOUS
  <2> QED
    BY <2>1, NumberEmpty, PowersOfTwo
<1>2. ASSUME NEW k \in Nat, k \in P PROVE k + 1 \in P
  <2> DEFINE s == 0..(k + 1) - 1
  <2>1. s \ {k} = 0..k - 1 /\ k \in s /\ k + 1 \in Nat /\ s \in SUBSET (0..(k + 1) - 1)
    OBVIOUS
  <2>2. Number(s) = Pow2[k] + Number(0..k - 1)
    <3> HIDE DEF s
    <3>1. Number(s) = Pow2[k] + Number(s \ {k})
      BY <2>1, NumberSplit
    <3> QED
      BY <2>1, <3>1
  <2> QED
    BY <1>2, <2>2, PowersOfTwo
<1> HIDE DEF P
<1>3. w \in P
  BY <1>1, <1>2, NaturalsInduct
<1> QED
  BY <1>3 DEF P

=============================================================================
