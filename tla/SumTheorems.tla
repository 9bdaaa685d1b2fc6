----------------------------- MODULE SumTheorems ------------------------------
(***************************************************************************)
(* Sums of integers over a finite set, as SumFunction of the community     *)
(* modules defines them: what the sum is when one summand changes, is      *)
(* added or is left out, and how two sums compare.                         *)
(***************************************************************************)
EXTENDS Integers, Functions, FiniteSetTheorems, WellFoundedInduction, TLAPS

Below == {p \in Nat \X Nat : p[1] < p[2]}

LEMMA LeastOf ==
  ASSUME NEW T \in SUBSET Nat, T # {}
  PROVE  \E x \in T : \A y \in T : x <= y
  <1>1. IsWellFoundedOn(Below, Nat)
    BY NatLessThanWellFounded, Zenon DEF OpToRel, Below
  <1>2. PICK x \in T : \A y \in T : <<y, x>> \notin Below
    BY <1>1, WFMin, Zenon
  <1>3. \A y \in T : <<y, x>> \in Below \/ x <= y
    <2> SUFFICES ASSUME NEW y \in T, y < x PROVE <<y, x>> \in Below
      OBVIOUS
    <2>1. <<y, x>> \in Nat \X Nat /\ <<y, x>>[1] < <<y, x>>[2]
      OBVIOUS
    <2>2. QED
      BY <2>1 DEF Below
  <1>4. QED
    BY <1>2, <1>3

-----------------------------------------------------------------------------
\* The element that a sum takes first, and the recursion of the sum over the
\* subsets of up to n elements.
First(s) == CHOOSE x \in s : TRUE
UpTo(S, n) == {s \in SUBSET S : Cardinality(s) <= n}
Adds(h, f, D) == \A s \in D : h[s] = IF s = {} THEN 0 ELSE f[First(s)] + h[s \ {First(s)}]

LEMMA FirstIn == ASSUME NEW s, s # {} PROVE First(s) \in s
  BY DEF First

LEMMA Smaller ==
  ASSUME NEW S, IsFiniteSet(S), NEW s \in SUBSET S, NEW x \in s
  PROVE  /\ IsFiniteSet(s) /\ Cardinality(s) \in Nat \ {0}
         /\ s \ {x} \in SUBSET S /\ Cardinality(s \ {x}) = Cardinality(s) - 1
  BY FS_Subset, FS_RemoveElement, FS_CardinalityType, FS_EmptySet

\* A table of sums for the subsets of up to n elements extends by one element.
LEMMA TableGrows ==
  ASSUME NEW S, IsFiniteSet(S), NEW f \in [S -> Int], NEW n \in Nat,
         NEW h \in [UpTo(S, n) -> Int], Adds(h, f, UpTo(S, n))
  PROVE  \E g \in [UpTo(S, n + 1) -> Int] : Adds(g, f, UpTo(S, n + 1))
  <1>1. PICK g : g = [s \in UpTo(S, n + 1) |->
                        IF s = {} THEN 0 ELSE f[First(s)] + h[s \ {First(s)}]]
    OBVIOUS
  <1>2. ASSUME NEW s \in UpTo(S, n + 1), s # {}
        PROVE  /\ First(s) \in S /\ s \ {First(s)} \in UpTo(S, n)
               /\ s \ {First(s)} \in UpTo(S, n + 1)
    <2>1. s \in SUBSET S /\ Cardinality(s) <= n + 1 /\ First(s) \in s
      BY <1>2, FirstIn DEF UpTo
    <2>2. /\ Cardinality(s) \in Nat \ {0} /\ s \ {First(s)} \in SUBSET S
          /\ Cardinality(s \ {First(s)}) = Cardinality(s) - 1
      BY <2>1, Smaller
    <2>3. QED
      BY <2>1, <2>2 DEF UpTo
  <1>3. g \in [UpTo(S, n + 1) -> Int]
    BY <1>1, <1>2
  <1>4. ASSUME NEW s \in UpTo(S, n) PROVE s \in UpTo(S, n + 1) /\ g[s] = h[s]
    <2>1. Cardinality(s) \in Nat /\ s \in SUBSET S /\ Cardinality(s) <= n
      BY FS_Subset, FS_CardinalityType DEF UpTo
    <2>2. s \in UpTo(S, n + 1)
      BY <2>1 DEF UpTo
    <2>3. QED
      BY <1>1, <2>2 DEF Adds
  <1>5. Adds(g, f, UpTo(S, n + 1))
    <2>1. SUFFICES ASSUME NEW s \in UpTo(S, n + 1)
                   PROVE  g[s] = IF s = {} THEN 0 ELSE f[First(s)] + g[s \ {First(s)}]
      BY DEF Adds
    <2>2. CASE s = {}
      BY <1>1, <2>2
    <2>3. CASE s # {}
      BY <1>1, <1>2, <1>4, <2>3
    <2>4. QED
      BY <2>2, <2>3
  <1>6. QED
    BY <1>3, <1>5

LEMMA TableOf ==
  ASSUME NEW S, IsFiniteSet(S), NEW f \in [S -> Int], NEW n \in Nat
  PROVE  \E h \in [UpTo(S, n) -> Int] : Adds(h, f, UpTo(S, n))
  <1> DEFINE Has(k) == \E h \in [UpTo(S, k) -> Int] : Adds(h, f, UpTo(S, k))
  <1>1. Has(0)
    <2>1. ASSUME NEW s \in UpTo(S, 0) PROVE s = {}
      <3>1. s \in SUBSET S /\ Cardinality(s) <= 0 /\ IsFiniteSet(s)
        BY FS_Subset DEF UpTo
      <3>2. Cardinality(s) = 0
        BY <3>1, FS_CardinalityType
      <3>3. QED
        BY <3>1, <3>2, FS_EmptySet
    <2>2. PICK h : h = [s \in UpTo(S, 0) |-> 0]
      OBVIOUS
    <2>3. h \in [UpTo(S, 0) -> Int] /\ Adds(h, f, UpTo(S, 0))
      BY <2>1, <2>2 DEF Adds
    <2>4. QED
      BY <2>3
  <1>2. ASSUME NEW k \in Nat, Has(k) PROVE Has(k + 1)
    BY <1>2, TableGrows
  <1> HIDE DEF Has
  <1>3. ASSUME NEW k \in Nat, ~Has(k) PROVE FALSE
    <2> DEFINE T == {i \in Nat : ~Has(i)}
    <2>1. PICK x \in T : \A y \in T : x <= y
      BY <1>3, LeastOf
    <2>2. x \in Nat \ {0} /\ ~Has(x)
      BY <1>1, <2>1
    <2>3. x - 1 \in Nat /\ x - 1 < x /\ (x - 1) + 1 = x
      BY <2>2
    <2>4. Has(x - 1)
      BY <2>1, <2>3
    <2>5. QED
      BY <1>2, <2>2, <2>3, <2>4
  <1>4. Has(n)
    BY <1>3
  <1>5. QED
    BY <1>4 DEF Has

\* Induction over the subsets of a finite set, for a set P of them.
LEMMA SubsetInduction ==
  ASSUME NEW S, IsFiniteSet(S), NEW P, {} \in P,
         \A s \in SUBSET S : s # {} /\ (\A x \in s : s \ {x} \in P) => s \in P
  PROVE  \A s \in SUBSET S : s \in P
  <1> SUFFICES ASSUME NEW bad \in SUBSET S, bad \notin P PROVE FALSE
    OBVIOUS
  <1> DEFINE T == {n \in Nat : \E s \in SUBSET S : s \notin P /\ Cardinality(s) = n}
  <1>1. \A s \in SUBSET S : IsFiniteSet(s) /\ Cardinality(s) \in Nat
    BY FS_Subset, FS_CardinalityType
  <1>2. Cardinality(bad) \in T
    BY <1>1
  <1>3. PICK n \in T : \A m \in T : n <= m
    BY <1>2, LeastOf
  <1>4. PICK s \in SUBSET S : s \notin P /\ Cardinality(s) = n
    BY <1>3
  <1>5. ASSUME NEW x \in s PROVE s \ {x} \in P
    <2>1. s \ {x} \in SUBSET S /\ Cardinality(s \ {x}) = n - 1 /\ n - 1 \in Nat /\ n - 1 < n
      BY <1>4, Smaller
    <2>2. n - 1 \notin T
      BY <1>3, <2>1
    <2>3. QED
      BY <2>1, <2>2
  <1>6. QED
    BY <1>4, <1>5

\* A table of sums gives the same sum whichever element is taken first.
IsTable(h, f, S) ==
  /\ h \in [SUBSET S -> Int] /\ h[{}] = 0
  /\ \A s \in SUBSET S : \A y \in s : h[s] = f[y] + h[s \ {y}]

LEMMA AnyFirst ==
  ASSUME NEW S, IsFiniteSet(S), NEW f \in [S -> Int],
         NEW h \in [SUBSET S -> Int], Adds(h, f, SUBSET S)
  PROVE  IsTable(h, f, S)
  <1> DEFINE P == {s \in SUBSET S : \A y \in s : h[s] = f[y] + h[s \ {y}]}
  <1>1. {} \in P
    OBVIOUS
  <1>2. ASSUME NEW s \in SUBSET S, s # {}, \A x \in s : s \ {x} \in P PROVE s \in P
    <2>1. PICK x : x = First(s)
      OBVIOUS
    <2>2. x \in s /\ h[s] = f[x] + h[s \ {x}]
      BY <1>2, <2>1, FirstIn DEF Adds
    <2>3. ASSUME NEW y \in s, y # x PROVE h[s] = f[y] + h[s \ {y}]
      <3>1. h[s \ {x}] = f[y] + h[(s \ {x}) \ {y}]
        BY <1>2, <2>2, <2>3
      <3>2. h[s \ {y}] = f[x] + h[(s \ {y}) \ {x}]
        BY <1>2, <2>2, <2>3
      <3>3. (s \ {x}) \ {y} = (s \ {y}) \ {x}
        OBVIOUS
      <3>4. PICK a, b, c \in Int : a = f[x] /\ b = f[y] /\ c = h[(s \ {x}) \ {y}]
        <4>1. x \in S /\ y \in S /\ (s \ {x}) \ {y} \in SUBSET S
          BY <2>2
        <4>2. f[x] \in Int /\ f[y] \in Int /\ h[(s \ {x}) \ {y}] \in Int
          BY <4>1
        <4>3. QED
          BY <4>2
      <3>5. h[s] = a + (b + c) /\ h[s \ {y}] = a + c
        BY <2>2, <3>1, <3>2, <3>3, <3>4
      <3>6. QED
        BY <3>4, <3>5
    <2>4. QED
      BY <2>2, <2>3
  <1>3. \A s \in SUBSET S : s \in P
    <2> HIDE DEF P
    <2>1. QED
      BY <1>1, <1>2, SubsetInduction
  <1>4. QED
    BY <1>3 DEF Adds, IsTable

LEMMA SumIsTabled ==
  ASSUME NEW S, IsFiniteSet(S), NEW f \in [S -> Int]
  PROVE  \E h : IsTable(h, f, S) /\ SumFunction(f) = h[S]
  <1>1. UpTo(S, Cardinality(S)) = SUBSET S /\ Cardinality(S) \in Nat
    BY FS_Subset, FS_CardinalityType DEF UpTo
  <1>2. PICK g \in [SUBSET S -> Int] : Adds(g, f, SUBSET S)
    <2>1. PICK n \in Nat : n = Cardinality(S)
      BY <1>1
    <2>2. \E g \in [UpTo(S, n) -> Int] : Adds(g, f, UpTo(S, n))
      BY TableOf
    <2>3. UpTo(S, n) = SUBSET S
      BY <1>1, <2>1
    <2>4. QED
      BY <2>2, <2>3
  <1> DEFINE Iter(k) == k = [s \in SUBSET S |->
                               IF s = {} THEN 0
                               ELSE f[CHOOSE x \in s : TRUE] + k[s \ {CHOOSE x \in s : TRUE}]]
  <1>3. Iter(g)
    BY <1>2 DEF Adds, First
  <1>4. PICK h : h = CHOOSE k : Iter(k)
    OBVIOUS
  <1>5. Iter(h)
    <2> HIDE DEF Iter
    <2>1. QED
      BY <1>3, <1>4, Zenon
  <1>6. SumFunction(f) = h[S]
    BY <1>4 DEF SumFunction, SumFunctionOnSet, FoldFunctionOnSet, MapThenFoldSet
  <1>7. \A s \in SUBSET S : h[s] = g[s]
    <2> DEFINE P == {s \in SUBSET S : h[s] = g[s]}
    <2>1. {} \in P
      BY <1>3, <1>5
    <2>2. ASSUME NEW s \in SUBSET S, s # {}, \A x \in s : s \ {x} \in P PROVE s \in P
      <3>1. PICK x \in s : x = First(s)
        BY <2>2, FirstIn
      <3>2. g[s] = f[x] + g[s \ {x}] /\ h[s] = f[x] + h[s \ {x}]
        BY <1>3, <1>5, <2>2, <3>1 DEF First
      <3>3. h[s \ {x}] = g[s \ {x}]
        BY <2>2
      <3>4. QED
        BY <3>2, <3>3
    <2>3. \A s \in SUBSET S : s \in P
      <3> HIDE DEF P
      <3>1. QED
        BY <2>1, <2>2, SubsetInduction
    <2>4. QED
      BY <2>3
  <1>8. h \in [SUBSET S -> Int] /\ Adds(h, f, SUBSET S)
    BY <1>2, <1>5, <1>7 DEF Adds
  <1>9. QED
    BY <1>6, <1>8, AnyFirst

\* Tables of functions that agree on a set agree on it.
LEMMA TablesAgree ==
  ASSUME NEW S, IsFiniteSet(S), NEW T, NEW U, S \subseteq T, S \subseteq U,
         NEW f, NEW g, \A x \in S : f[x] = g[x],
         NEW h, IsTable(h, f, T), NEW k, IsTable(k, g, U)
  PROVE  h[S] = k[S]
  <1> DEFINE P == {s \in SUBSET S : h[s] = k[s]}
  <1>1. {} \in P
    BY DEF IsTable
  <1>2. ASSUME NEW s \in SUBSET S, s # {}, \A x \in s : s \ {x} \in P PROVE s \in P
    <2>1. PICK x \in s : TRUE
      BY <1>2
    <2>2. h[s] = f[x] + h[s \ {x}] /\ k[s] = g[x] + k[s \ {x}]
      BY DEF IsTable
    <2>3. QED
      BY <1>2, <2>1, <2>2
  <1>3. \A s \in SUBSET S : s \in P
    <2> HIDE DEF P
    <2>1. QED
      BY <1>1, <1>2, SubsetInduction
  <1>4. QED
    BY <1>3

-----------------------------------------------------------------------------
LEMMA SumType ==
  ASSUME NEW S, IsFiniteSet(S), NEW f \in [S -> Int]
  PROVE  SumFunction(f) \in Int
  <1>1. PICK h : IsTable(h, f, S) /\ SumFunction(f) = h[S]
    BY SumIsTabled
  <1>2. QED
    BY <1>1 DEF IsTable

\* A sum is one summand and the sum of the others.
LEMMA SumSplit ==
  ASSUME NEW S, IsFiniteSet(S), NEW f \in [S -> Int], NEW x \in S
  PROVE  SumFunction(f) = f[x] + SumFunction([y \in S \ {x} |-> f[y]])
  <1> DEFINE R == S \ {x}
             g == [y \in R |-> f[y]]
  <1>1. IsFiniteSet(R) /\ R \subseteq S /\ g \in [R -> Int]
    BY FS_Subset
  <1>2. PICK h : IsTable(h, f, S) /\ SumFunction(f) = h[S]
    BY SumIsTabled
  <1>3. PICK k : IsTable(k, g, R) /\ SumFunction(g) = k[R]
    <2> HIDE DEF g, R
    <2>1. QED
      BY <1>1, SumIsTabled
  <1>4. h[R] = k[R]
    <2>1. \A y \in R : f[y] = g[y]
      OBVIOUS
    <2> HIDE DEF g, R
    <2>2. QED
      BY <1>1, <1>2, <1>3, <2>1, TablesAgree
  <1>5. h[S] = f[x] + h[R]
    BY <1>2 DEF IsTable
  <1>6. QED
    BY <1>2, <1>3, <1>4, <1>5

LEMMA SumEmpty == ASSUME NEW f \in [{} -> Int] PROVE SumFunction(f) = 0
  <1>1. IsFiniteSet({})
    BY FS_EmptySet
  <1>2. PICK h : IsTable(h, f, {}) /\ SumFunction(f) = h[{}]
    BY <1>1, SumIsTabled
  <1>3. QED
    BY <1>2 DEF IsTable

\* One summand changes.
LEMMA SumChange ==
  ASSUME NEW S, IsFiniteSet(S), NEW f \in [S -> Int], NEW g \in [S -> Int], NEW x \in S,
         \A y \in S \ {x} : g[y] = f[y]
  PROVE  SumFunction(g) = SumFunction(f) + (g[x] - f[x])
  <1>1. PICK r : r = [y \in S \ {x} |-> f[y]]
    OBVIOUS
  <1>2. r = [y \in S \ {x} |-> g[y]]
    BY <1>1
  <1>3. SumFunction(f) = f[x] + SumFunction(r)
    BY <1>1, SumSplit
  <1>4. SumFunction(g) = g[x] + SumFunction(r)
    BY <1>2, SumSplit
  <1>5. IsFiniteSet(S \ {x}) /\ r \in [S \ {x} -> Int]
    BY <1>1, FS_Subset
  <1>6. SumFunction(r) \in Int /\ f[x] \in Int /\ g[x] \in Int
    BY <1>5, SumType
  <1>7. QED
    BY <1>3, <1>4, <1>6

\* One summand is added.
LEMMA SumAdd ==
  ASSUME NEW S, IsFiniteSet(S), NEW f \in [S -> Int], NEW x, x \notin S,
         NEW g \in [S \cup {x} -> Int], \A y \in S : g[y] = f[y]
  PROVE  SumFunction(g) = SumFunction(f) + g[x]
  <1>1. IsFiniteSet(S \cup {x}) /\ (S \cup {x}) \ {x} = S
    BY FS_AddElement
  <1>2. f = [y \in (S \cup {x}) \ {x} |-> g[y]]
    BY <1>1
  <1>3. SumFunction(g) = g[x] + SumFunction(f)
    <2>1. PICK T : T = S \cup {x}
      OBVIOUS
    <2>2. IsFiniteSet(T) /\ g \in [T -> Int] /\ x \in T /\ f = [y \in T \ {x} |-> g[y]]
      BY <1>1, <1>2, <2>1
    <2>3. QED
      BY <2>2, SumSplit
  <1>4. SumFunction(f) \in Int /\ g[x] \in Int
    BY SumType
  <1>5. QED
    BY <1>3, <1>4

\* A sum of smaller terms is smaller; k is a unit in which the terms of one of
\* the sums are counted.
LEMMA SumCompare ==
  ASSUME NEW S, IsFiniteSet(S), NEW f \in [S -> Int], NEW g \in [S -> Int], NEW k \in Nat,
         \A x \in S : g[x] <= k * f[x]
  PROVE  SumFunction(g) <= k * SumFunction(f)
  <1>1. PICK h : IsTable(h, f, S) /\ SumFunction(f) = h[S]
    BY SumIsTabled
  <1>2. PICK i : IsTable(i, g, S) /\ SumFunction(g) = i[S]
    BY SumIsTabled
  <1> DEFINE P == {s \in SUBSET S : i[s] <= k * h[s]}
  <1>3. {} \in P
    BY <1>1, <1>2 DEF IsTable
  <1>4. ASSUME NEW s \in SUBSET S, s # {}, \A x \in s : s \ {x} \in P PROVE s \in P
    <2>1. PICK x \in s : TRUE
      BY <1>4
    <2>2. h[s] = f[x] + h[s \ {x}] /\ i[s] = g[x] + i[s \ {x}]
      BY <1>1, <1>2 DEF IsTable
    <2>3. /\ i[s \ {x}] <= k * h[s \ {x}] /\ g[x] <= k * f[x]
          /\ i[s \ {x}] \in Int /\ h[s \ {x}] \in Int /\ f[x] \in Int /\ g[x] \in Int
      BY <1>1, <1>2, <1>4 DEF IsTable
    <2>4. \A a, b, c, d \in Int : a <= k * b /\ c <= k * d => a + c <= k * (b + d)
      OBVIOUS
    <2>5. g[x] + i[s \ {x}] <= k * (f[x] + h[s \ {x}])
      BY <2>3, <2>4
    <2>6. QED
      BY <2>2, <2>5
  <1>5. \A s \in SUBSET S : s \in P
    <2> HIDE DEF P
    <2>1. QED
      BY <1>3, <1>4, SubsetInduction
  <1>6. QED
    BY <1>1, <1>2, <1>5

LEMMA SumZero ==
  ASSUME NEW S, IsFiniteSet(S), NEW f \in [S -> Int], \A x \in S : f[x] = 0
  PROVE  SumFunction(f) = 0
  <1>1. PICK n \in Int : n = SumFunction(f)
    BY SumType
  <1>2. n <= 0 * n
    <2>1. \A x \in S : f[x] <= 0 * f[x]
      OBVIOUS
    <2>2. QED
      BY <1>1, <2>1, SumCompare
  <1>3. n <= 2 * n
    <2>1. \A x \in S : f[x] <= 2 * f[x]
      OBVIOUS
    <2>2. QED
      BY <1>1, <2>1, SumCompare
  <1>4. QED
    BY <1>1, <1>2, <1>3

\* No summand of natural numbers is above their sum.
LEMMA SumNatural ==
  ASSUME NEW S, IsFiniteSet(S), NEW f \in [S -> Nat]
  PROVE  SumFunction(f) \in Nat
  <1>1. PICK z : z = [x \in S |-> 0]
    OBVIOUS
  <1>2. z \in [S -> Int] /\ f \in [S -> Int] /\ (\A x \in S : z[x] = 0) /\ \A x \in S : z[x] <= 1 * f[x]
    BY <1>1
  <1>3. SumFunction(z) = 0 /\ SumFunction(z) <= 1 * SumFunction(f) /\ SumFunction(f) \in Int
    BY <1>2, SumZero, SumCompare, SumType
  <1>4. QED
    BY <1>3

LEMMA SumCovers ==
  ASSUME NEW S, IsFiniteSet(S), NEW f \in [S -> Nat], NEW x \in S
  PROVE  f[x] <= SumFunction(f)
  <1>1. PICK r : r = [y \in S \ {x} |-> f[y]]
    OBVIOUS
  <1>2. r \in [S \ {x} -> Nat] /\ IsFiniteSet(S \ {x}) /\ f \in [S -> Int]
    BY <1>1, FS_Subset
  <1>3. SumFunction(f) = f[x] + SumFunction(r)
    BY <1>1, <1>2, SumSplit
  <1>4. SumFunction(r) \in Nat
    BY <1>2, SumNatural
  <1>5. QED
    BY <1>3, <1>4

\* A sum has at most as many summands as there are elements.
LEMMA SumBounded ==
  ASSUME NEW S, IsFiniteSet(S), NEW f \in [S -> Int], NEW c \in Nat, \A x \in S : f[x] <= c
  PROVE  SumFunction(f) <= c * Cardinality(S)
  <1>1. PICK g : g = [x \in S |-> 1]
    OBVIOUS
  <1>2. g \in [S -> Int] /\ \A x \in S : g[x] = 1 /\ f[x] <= c * g[x]
    BY <1>1
  <1>3. PICK h : IsTable(h, g, S) /\ SumFunction(g) = h[S]
    BY <1>2, SumIsTabled
  <1> DEFINE P == {s \in SUBSET S : h[s] = Cardinality(s)}
  <1>4. {} \in P
    BY <1>3, FS_EmptySet DEF IsTable
  <1>5. ASSUME NEW s \in SUBSET S, s # {}, \A x \in s : s \ {x} \in P PROVE s \in P
    <2>1. PICK x \in s : TRUE
      BY <1>5
    <2>2. h[s] = g[x] + h[s \ {x}] /\ g[x] = 1
      BY <1>2, <1>3 DEF IsTable
    <2>3. h[s \ {x}] = Cardinality(s \ {x})
      BY <1>5
    <2>4. Cardinality(s) \in Nat \ {0} /\ Cardinality(s \ {x}) = Cardinality(s) - 1
      BY Smaller
    <2>5. QED
      BY <2>2, <2>3, <2>4
  <1>6. \A s \in SUBSET S : s \in P
    <2> HIDE DEF P
    <2>1. QED
      BY <1>4, <1>5, SubsetInduction
  <1>7. SumFunction(g) = Cardinality(S)
    BY <1>3, <1>6
  <1>8. SumFunction(f) <= c * SumFunction(g)
    BY <1>2, SumCompare
  <1>9. QED
    BY <1>7, <1>8

\* The most of a finite set of naturals.
LEMMA MaxOfFinite ==
  ASSUME NEW S \in SUBSET Nat, IsFiniteSet(S)
  PROVE  \E m \in Nat : \A x \in S : x <= m
  <1>1. PICK f : f = [x \in S |-> x]
    OBVIOUS
  <1>2. f \in [S -> Nat] /\ \A x \in S : f[x] = x
    BY <1>1
  <1>3. SumFunction(f) \in Nat /\ \A x \in S : f[x] <= SumFunction(f)
    BY <1>2, SumNatural, SumCovers
  <1>4. QED
    BY <1>2, <1>3

LEMMA SumMonotone ==
  ASSUME NEW S, IsFiniteSet(S), NEW f \in [S -> Int], NEW g \in [S -> Int],
         \A x \in S : g[x] <= f[x]
  PROVE  SumFunction(g) <= SumFunction(f)
  <1>1. \A x \in S : g[x] <= 1 * f[x]
    OBVIOUS
  <1>2. SumFunction(g) <= 1 * SumFunction(f) /\ SumFunction(f) \in Int
    BY <1>1, SumCompare, SumType
  <1>3. QED
    BY <1>2

\* A sequence of summands gets one more.
LEMMA SumExtends ==
  ASSUME NEW n \in Nat, NEW f \in [1 .. n -> Int], NEW g \in [1 .. (n + 1) -> Int],
         \A i \in 1 .. n : g[i] = f[i]
  PROVE  SumFunction(g) = SumFunction(f) + g[n + 1]
  <1>1. IsFiniteSet(1 .. (n + 1)) /\ n + 1 \in 1 .. (n + 1) /\ IsFiniteSet(1 .. n)
    BY FS_Interval
  <1>2. SumFunction(g) = g[n + 1] + SumFunction([i \in (1 .. (n + 1)) \ {n + 1} |-> g[i]])
    <2>1. PICK S, x : S = 1 .. (n + 1) /\ x = n + 1
      OBVIOUS
    <2>2. IsFiniteSet(S) /\ x \in S /\ g \in [S -> Int]
      BY <1>1, <2>1
    <2>3. SumFunction(g) = g[x] + SumFunction([i \in S \ {x} |-> g[i]])
      BY <2>2, SumSplit, Zenon
    <2>4. QED
      BY <2>1, <2>3
  <1>3. [i \in (1 .. (n + 1)) \ {n + 1} |-> g[i]] = f
    <2>1. (1 .. (n + 1)) \ {n + 1} = 1 .. n
      OBVIOUS
    <2>2. [i \in 1 .. n |-> g[i]] = [i \in 1 .. n |-> f[i]]
      OBVIOUS
    <2>3. f = [i \in 1 .. n |-> f[i]]
      OBVIOUS
    <2>4. QED
      BY <2>1, <2>2, <2>3
  <1>4. SumFunction(f) \in Int /\ g[n + 1] \in Int
    BY <1>1, SumType
  <1>5. QED
    BY <1>2, <1>3, <1>4

LEMMA MaxIsMember ==
  ASSUME NEW S \in SUBSET Nat, IsFiniteSet(S), S # {}
  PROVE  \E m \in S : \A x \in S : x <= m
  <1> DEFINE T == {n \in Nat : \A x \in S : x <= n}
  <1>1. T # {} /\ T \in SUBSET Nat
    BY MaxOfFinite
  <1>2. PICK m \in T : \A n \in T : m <= n
    BY <1>1, LeastOf
  <1>3. m \in Nat /\ \A x \in S : x <= m
    OBVIOUS
  <1>4. ASSUME m \notin S PROVE FALSE
    <2>1. \A x \in S : x \in Nat /\ x <= m - 1
      BY <1>3, <1>4
    <2>2. m - 1 \in Nat
      <3>1. PICK x \in S : TRUE
        OBVIOUS
      <3>2. x \in Nat /\ x <= m - 1
        BY <2>1
      <3>3. QED
        BY <1>3, <3>2
    <2>3. m - 1 \in T
      BY <2>1, <2>2
    <2>4. m <= m - 1
      BY <1>2, <2>3
    <2>5. QED
      BY <1>3, <2>4
  <1>5. QED
    BY <1>3, <1>4
=============================================================================
