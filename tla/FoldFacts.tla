------------------------------ MODULE FoldFacts ------------------------------
(***************************************************************************)
(* Facts about least elements and about sums over finite sets, which the   *)
(* proofs about the models' folds rest on.  Induction is by the least      *)
(* counterexample: a nonempty set of naturals has a least element, which   *)
(* is a fact without an operator parameter, so every backend can use it.   *)
(***************************************************************************)
EXTENDS FiniteSetsExt, FiniteSetTheorems, WellFoundedInduction, NaturalsInduction, TLAPS

\* A nonempty set of naturals has a least element.
LEMMA LeastNatural ==
  ASSUME NEW T \in SUBSET Nat, T # {}
  PROVE  \E n \in T : \A m \in T : n <= m
<1>1. PICK n \in T : \A m \in T : <<m, n>> \notin OpToRel(<, Nat)
  BY WFMin, NatLessThanWellFounded
<1>2. \A m \in T : ~(m < n)
  BY <1>1 DEF OpToRel
<1> QED BY <1>2

\* Min and Max of the community modules are what they are called.
LEMMA MinIs ==
  ASSUME NEW T \in SUBSET Nat, T # {}
  PROVE  Min(T) \in T /\ \A m \in T : Min(T) <= m
<1>1. \E n \in T : \A m \in T : n <= m
  BY LeastNatural
<1> QED BY <1>1 DEF Min

\* The least of integers that are bounded below.
LEMMA MinFrom ==
  ASSUME NEW T \in SUBSET Int, T # {}, NEW B \in Int, \A m \in T : B <= m
  PROVE  Min(T) \in T /\ \A m \in T : Min(T) <= m
<1> DEFINE above == {m - B : m \in T}
<1>1. above \in SUBSET Nat /\ above # {}
  <2>1. \A m \in T : m \in Int /\ m - B \in Nat
    OBVIOUS
  <2> QED BY <2>1
<1>2. PICK n \in above : \A m \in above : n <= m
  BY <1>1, LeastNatural
<1>3. PICK t \in T : n = t - B
  OBVIOUS
<1>4. ASSUME NEW m \in T PROVE t <= m
  <2>1. m - B \in above /\ t \in Int /\ m \in Int
    OBVIOUS
  <2> HIDE DEF above
  <2>2. t - B <= m - B
    BY <1>2, <1>3, <2>1
  <2> QED BY <2>1, <2>2
<1> QED BY <1>3, <1>4 DEF Min

LEMMA MaxIs ==
  ASSUME NEW N \in Nat, NEW T \in SUBSET (0..N), T # {}
  PROVE  Max(T) \in T /\ \A m \in T : Max(T) >= m
<1> DEFINE below == {N - m : m \in T}
<1>1. below \in SUBSET Nat /\ below # {}
  <2>1. \A m \in T : m \in Nat /\ N - m \in Nat
    OBVIOUS
  <2> QED BY <2>1
<1>2. PICK n \in below : \A m \in below : n <= m
  BY <1>1, LeastNatural
<1>3. PICK t \in T : n = N - t
  OBVIOUS
<1>4. \A m \in T : t >= m
  BY <1>2, <1>3
<1> QED BY <1>3, <1>4 DEF Max

-----------------------------------------------------------------------------
(* Sums over finite sets. *)

\* The element of s that the community modules' folds take first.
Pick(s) == CHOOSE x \in s : TRUE

\* g is the sum of f over each subset of S, taken in the order of MapThenSumSet.
Sums(g, f, S) ==
  g = [s \in SUBSET S |-> IF s = {} THEN 0 ELSE f[Pick(s)] + g[s \ {Pick(s)}]]

\* It is one of them.
LEMMA PickIn == ASSUME NEW s, s # {} PROVE Pick(s) \in s
BY DEF Pick

\* Such a function exists: at the least number of elements where there were none, one
\* more turn of the equation makes one.
LEMMA SumsExist ==
  ASSUME NEW S, IsFiniteSet(S), NEW f
  PROVE  \E g : Sums(g, f, S)
<1> DEFINE Small(n) == {s \in SUBSET S : Cardinality(s) <= n}
           Turn(h, n) == [s \in Small(n) |-> IF s = {} THEN 0 ELSE f[Pick(s)] + h[s \ {Pick(s)}]]
           Bad == {n \in Nat : ~ \E h : h = Turn(h, n)}
<1>0. \A s \in SUBSET S :
        IsFiniteSet(s) /\ Cardinality(s) \in Nat /\ Cardinality(s) <= Cardinality(S)
  BY FS_Subset, FS_CardinalityType
<1>1. Bad = {}
  <2>1. SUFFICES ASSUME NEW n \in Bad, \A m \in Bad : n <= m PROVE FALSE
    BY LeastNatural
  <2>2. CASE n = 0
    <3>1. Small(0) = {{}}
      BY <1>0, FS_EmptySet
    <3> DEFINE h == [s \in Small(0) |-> 0]
    <3>2. h = Turn(h, 0)
      BY <3>1
    <3> QED BY <2>2, <3>2
  <2>3. CASE n # 0
    <3>0. n \in Nat
      OBVIOUS
    <3>1. n - 1 \in Nat /\ n - 1 \notin Bad
      <4> HIDE DEF Bad
      <4> QED BY <2>1, <2>3, <3>0
    <3>2. PICK h : h = Turn(h, n - 1)
      <4> HIDE DEF Turn
      <4> QED BY <3>1
    <3> DEFINE k == Turn(h, n)
    <3>3. ASSUME NEW s \in Small(n), s # {}
          PROVE  s \ {Pick(s)} \in Small(n - 1) /\ s \ {Pick(s)} \in Small(n)
      <4>1. Cardinality(s \ {Pick(s)}) = Cardinality(s) - 1
        BY <3>3, <1>0, PickIn, FS_RemoveElement
      <4> QED BY <4>1, <1>0
    <3>4. ASSUME NEW s \in Small(n - 1)
          PROVE  k[s] = h[s]
      <4>1. s \in Small(n)
        BY <1>0
      <4>2. h[s] = IF s = {} THEN 0 ELSE f[Pick(s)] + h[s \ {Pick(s)}]
        BY <3>2
      <4> QED BY <4>1, <4>2
    <3>5. ASSUME NEW s \in Small(n)
          PROVE k[s] = IF s = {} THEN 0 ELSE f[Pick(s)] + k[s \ {Pick(s)}]
      BY <3>3, <3>4, <3>5
    <3>6. k = Turn(k, n)
      BY <3>5
    <3> QED BY <3>6
  <2> QED BY <2>2, <2>3
<1>2. PICK g : g = Turn(g, Cardinality(S))
  BY <1>1, <1>0
<1>3. Small(Cardinality(S)) = SUBSET S
  BY <1>0
<1>4. Sums(g, f, S)
  BY <1>2, <1>3 DEF Sums
<1> QED BY <1>4

\* It is the only one, and does not depend on the set whose subsets it is given for.
LEMMA SumsUnique ==
  ASSUME NEW S, IsFiniteSet(S), NEW T \in SUBSET S, NEW f, NEW g, NEW h,
         Sums(g, f, S), Sums(h, f, T)
  PROVE  \A s \in SUBSET T : g[s] = h[s]
<1> DEFINE Bad == {Cardinality(s) : s \in {t \in SUBSET T : g[t] # h[t]}}
<1>0. \A s \in SUBSET T : IsFiniteSet(s) /\ Cardinality(s) \in Nat /\ s \in SUBSET S
  BY FS_Subset, FS_CardinalityType
<1>1. SUFFICES ASSUME Bad # {} PROVE FALSE
  OBVIOUS
<1>2. PICK s \in SUBSET T :
        g[s] # h[s] /\ \A t \in SUBSET T : g[t] # h[t] => Cardinality(s) <= Cardinality(t)
  <2>1. Bad \in SUBSET Nat
    BY <1>0
  <2>2. PICK n \in Bad : \A m \in Bad : n <= m
    BY <2>1, <1>1, LeastNatural
  <2> QED BY <2>2
<1>3. s # {}
  BY <1>2, <1>0 DEF Sums
<1>4. Cardinality(s \ {Pick(s)}) = Cardinality(s) - 1 /\ s \ {Pick(s)} \in SUBSET T
  BY <1>0, <1>3, PickIn, FS_RemoveElement
<1>5. g[s \ {Pick(s)}] = h[s \ {Pick(s)}]
  BY <1>2, <1>4, <1>0
<1>6. g[s] = f[Pick(s)] + g[s \ {Pick(s)}]
  BY <1>3, <1>0 DEF Sums
<1>7. h[s] = f[Pick(s)] + h[s \ {Pick(s)}]
  BY <1>3, <1>0 DEF Sums
<1> QED BY <1>2, <1>5, <1>6, <1>7

\* The sum of f over S, as the models write it.
SumOver(f, S) == MapThenSumSet(LAMBDA k : f[k], S)

\* A total is the value at S of any function of its subsets that Sums describes.
LEMMA SumOverIs ==
  ASSUME NEW S, IsFiniteSet(S), NEW f, NEW T \in SUBSET S, NEW g, Sums(g, f, S)
  PROVE  SumOver(f, T) = g[T]
<1> DEFINE h == CHOOSE h : Sums(h, f, T)
<1>1. SumOver(f, T) = h[T]
  BY DEF SumOver, MapThenSumSet, MapThenFoldSet, Sums, Pick
<1>2. Sums(h, f, T)
  BY SumsExist, FS_Subset
<1> QED BY <1>1, <1>2, SumsUnique

\* The order of the elements does not matter: a sum is any one of its terms and the rest.
LEMMA SumsRemove ==
  ASSUME NEW S, IsFiniteSet(S), NEW f \in [S -> Int], NEW g, Sums(g, f, S)
  PROVE  \A s \in SUBSET S : g[s] \in Int /\ \A x \in s : g[s] = f[x] + g[s \ {x}]
<1> DEFINE Good(s) == g[s] \in Int /\ \A x \in s : g[s] = f[x] + g[s \ {x}]
           Bad == {Cardinality(s) : s \in {t \in SUBSET S : ~ Good(t)}}
<1>0. \A s \in SUBSET S : IsFiniteSet(s) /\ Cardinality(s) \in Nat
  BY FS_Subset, FS_CardinalityType
<1>1. SUFFICES ASSUME Bad # {} PROVE FALSE
  OBVIOUS
<1>2. PICK s \in SUBSET S :
        ~ Good(s) /\ \A t \in SUBSET S : ~ Good(t) => Cardinality(s) <= Cardinality(t)
  <2>1. Bad \in SUBSET Nat
    BY <1>0
  <2>2. PICK n \in Bad : \A m \in Bad : n <= m
    BY <2>1, <1>1, LeastNatural
  <2> QED BY <2>2
<1>3. ASSUME NEW t \in SUBSET S, NEW x \in t
      PROVE  t \ {x} \in SUBSET S /\ Cardinality(t \ {x}) = Cardinality(t) - 1
  BY <1>0, FS_RemoveElement
<1>4. s # {}
  BY <1>2 DEF Sums
<1> DEFINE p == Pick(s)
<1>5. p \in s
  BY <1>4, PickIn
<1>6. g[s] = f[p] + g[s \ {p}]
  BY <1>4 DEF Sums
<1>7. ASSUME NEW t \in SUBSET S, Cardinality(t) < Cardinality(s) PROVE Good(t)
  <2> HIDE DEF Good
  <2> QED BY <1>0, <1>2, <1>7
<1>8. Good(s \ {p})
  <2> HIDE DEF Good
  <2> QED BY <1>0, <1>3, <1>5, <1>7
<1>9. ASSUME NEW x \in s, x # p PROVE g[s] = f[x] + g[s \ {x}]
  <2> DEFINE rest == (s \ {p}) \ {x}
  <2>1. g[s \ {p}] = f[x] + g[rest]
    BY <1>8, <1>9
  <2>2. Good(s \ {x}) /\ Good(rest)
    <3> HIDE DEF Good
    <3>1. x \in s \ {p} /\ s \ {p} \in SUBSET S /\ s \ {x} \in SUBSET S /\ rest \in SUBSET S
      BY <1>9
    <3>2. Cardinality(rest) = Cardinality(s) - 2 /\ Cardinality(s \ {x}) = Cardinality(s) - 1
      <4>1. /\ Cardinality(s \ {p}) = Cardinality(s) - 1
            /\ Cardinality(s \ {x}) = Cardinality(s) - 1
        BY <1>3, <1>5
      <4>2. Cardinality(rest) = Cardinality(s \ {p}) - 1
        BY <1>3, <3>1
      <4> HIDE DEF rest, p
      <4> QED BY <1>0, <4>1, <4>2
    <3> QED BY <1>0, <1>7, <3>1, <3>2
  <2>3. (s \ {x}) \ {p} = rest /\ p \in s \ {x}
    BY <1>5, <1>9
  <2>4. g[s \ {x}] = f[p] + g[rest]
    BY <2>2, <2>3
  <2>5. f[p] \in Int /\ f[x] \in Int /\ g[rest] \in Int
    BY <1>5, <2>2
  <2> HIDE DEF rest, p
  <2> QED BY <1>6, <2>1, <2>4, <2>5
<1>10. g[s] \in Int
  <2>1. f[p] \in Int /\ g[s \ {p}] \in Int
    BY <1>5, <1>8
  <2> HIDE DEF p
  <2> QED BY <1>6, <2>1
<1>11. \A x \in s : g[s] = f[x] + g[s \ {x}]
  <2> HIDE DEF p
  <2> QED BY <1>6, <1>9
<1> QED BY <1>2, <1>10, <1>11

\* Of sums: none of no terms, one more term, one term less, and terms that are equal.
LEMMA SumOverEmpty == ASSUME NEW f PROVE SumOver(f, {}) = 0
<1>1. PICK g : Sums(g, f, {})
  BY SumsExist, FS_EmptySet
<1>2. SumOver(f, {}) = g[{}]
  BY <1>1, SumOverIs, FS_EmptySet
<1> QED BY <1>1, <1>2 DEF Sums

LEMMA SumOverRemove ==
  ASSUME NEW S, NEW T \in SUBSET S, IsFiniteSet(T), NEW f \in [S -> Int]
  PROVE  SumOver(f, T) \in Int /\ \A x \in T : SumOver(f, T) = f[x] + SumOver(f, T \ {x})
<1> DEFINE h == [x \in T |-> f[x]]
<1>1. PICK g : Sums(g, h, T)
  BY SumsExist
<1>2. Sums(g, f, T)
  BY <1>1, PickIn DEF Sums
<1>3. \A s \in SUBSET T : g[s] = SumOver(f, s)
  BY <1>2, SumOverIs
<1> QED BY <1>1, <1>3, SumsRemove

LEMMA SumOverSame ==
  ASSUME NEW S, IsFiniteSet(S), NEW f, NEW h, \A x \in S : f[x] = h[x]
  PROVE  SumOver(f, S) = SumOver(h, S)
<1>1. PICK g : Sums(g, h, S)
  BY SumsExist
<1>2. Sums(g, f, S)
  BY <1>1, PickIn DEF Sums
<1> QED BY <1>1, <1>2, SumOverIs

LEMMA SumOverAdd ==
  ASSUME NEW S, NEW T \in SUBSET S, IsFiniteSet(T), NEW f \in [S -> Int], NEW x \in S \ T
  PROVE  SumOver(f, T \cup {x}) = f[x] + SumOver(f, T)
<1>1. (T \cup {x}) \ {x} = T /\ T \cup {x} \in SUBSET S
  OBVIOUS
<1>2. IsFiniteSet(T \cup {x})
  BY FS_AddElement
<1> QED BY <1>1, <1>2, SumOverRemove

\* One term is taken out of the sum.
LEMMA SumOverLess ==
  ASSUME NEW S, NEW f \in [S -> Int], NEW s \in SUBSET S, IsFiniteSet(s), NEW x \in s
  PROVE  SumOver(f, s) = f[x] + SumOver(f, s \ {x})
BY SumOverRemove

\* Terms of at least d give a sum of at least d for each.
LEMMA SumOverAtLeast ==
  ASSUME NEW S, IsFiniteSet(S), NEW f \in [S -> Int], NEW d \in Int, \A x \in S : f[x] >= d
  PROVE  SumOver(f, S) >= Cardinality(S) * d
<1> DEFINE Good(s) == SumOver(f, s) >= Cardinality(s) * d
           Bad == {Cardinality(s) : s \in {t \in SUBSET S : ~ Good(t)}}
<1>1. \A s \in SUBSET S : IsFiniteSet(s) /\ Cardinality(s) \in Nat
  BY FS_Subset, FS_CardinalityType
<1>2. SUFFICES ASSUME Bad # {} PROVE FALSE
  <2>1. S \in SUBSET S
    OBVIOUS
  <2> QED BY <2>1
<1>3. Bad \in SUBSET Nat
  BY <1>1
<1>4. PICK n \in Bad : \A m \in Bad : n <= m
  BY <1>2, <1>3, LeastNatural
<1>5. PICK s \in SUBSET S : ~ Good(s) /\ n = Cardinality(s)
  BY <1>4
<1>6. CASE s = {}
  <2>1. SumOver(f, s) = 0 /\ Cardinality(s) = 0
    BY <1>6, SumOverEmpty, FS_EmptySet
  <2> QED BY <1>5, <2>1
<1>7. CASE s # {}
  <2>1. PICK x \in s : TRUE
    BY <1>7
  <2> DEFINE r == s \ {x}
  <2>2. r \in SUBSET S /\ Cardinality(r) = Cardinality(s) - 1
    BY <1>1, <2>1, FS_RemoveElement
  <2>3. SumOver(f, s) = f[x] + SumOver(f, r)
    <3>1. IsFiniteSet(s)
      BY <1>1
    <3> QED BY <2>1, <3>1, SumOverLess
  <2>4. Good(r)
    <3>1. ~ (n <= Cardinality(r))
      BY <1>1, <1>5, <2>2
    <3> QED BY <1>4, <2>2, <3>1
  <2>5. SumOver(f, r) \in Int /\ f[x] \in Int /\ f[x] >= d /\ Cardinality(s) \in Nat
    BY <1>1, <2>1, <2>2, SumOverRemove
  <2>6. \A k, a, b \in Int : b >= (k - 1) * d /\ a >= d => a + b >= k * d
    <3>1. \A k \in Int : k * d = (k - 1) * d + d /\ (k - 1) * d \in Int
      OBVIOUS
    <3> QED BY <3>1
  <2> HIDE DEF r
  <2>7. Good(s)
    BY <2>2, <2>3, <2>4, <2>5, <2>6
  <2> QED BY <1>5, <2>7
<1> QED BY <1>6, <1>7

-----------------------------------------------------------------------------
(* Folds along 1..N, the last element first as FoldLeft takes them. *)

\* The last of them, and those before it.
LEMMA LastIs ==
  ASSUME NEW k \in Nat \ {0}
  PROVE  Max(1..k) = k /\ (1..k) \ {k} = 1..(k - 1)
<1>1. 1..k \in SUBSET (0..k) /\ k \in 1..k
  OBVIOUS
<1>2. Max(1..k) \in 1..k /\ Max(1..k) >= k
  BY <1>1, MaxIs
<1> QED BY <1>2

\* g is what the fold makes of each set of them.
Folds(g, N, base, step) ==
  \A s \in SUBSET (1..N) : g[s] = IF s = {} THEN base ELSE step[<<g[s \ {Max(s)}], Max(s)>>]

\* The number of the last element of s, 0 for none.
Highest(s) == IF s = {} THEN 0 ELSE Max(s)

\* It is one of them, and n when that is.
LEMMA HighestIs ==
  ASSUME NEW n \in Nat, NEW s \in SUBSET (1..n)
  PROVE  /\ Highest(s) \in 0..n
         /\ n \in s => Highest(s) = n
         /\ s # {} => Highest(s) = Max(s) /\ Max(s) \in s
<1>1. s \in SUBSET (0..n) /\ \A x \in s : x \in 1..n /\ x \in Int /\ x <= n
  OBVIOUS
<1>2. CASE s = {}
  BY <1>2 DEF Highest
<1>3. CASE s # {}
  <2>1. Max(s) \in s /\ \A m \in s : Max(s) >= m
    BY <1>1, <1>3, MaxIs
  <2>2. Highest(s) = Max(s)
    BY <1>3 DEF Highest
  <2>3. ASSUME n \in s PROVE Max(s) = n
    <3>1. Max(s) \in Int /\ Max(s) <= n /\ Max(s) >= n
      BY <1>1, <2>1, <2>3
    <3> QED BY <3>1
  <2>4. Max(s) \in 0..n
    BY <1>1, <2>1
  <2> QED BY <2>1, <2>2, <2>3, <2>4
<1> QED BY <1>2, <1>3

\* A fold whose step at each element leads from the sets of the elements before it to the
\* set of that element.
LEMMA FoldExistsAlong ==
  ASSUME NEW N \in Nat, NEW A, NEW base \in A[0], NEW step,
         \A k \in 1..N : \A j \in 0..(k - 1) : \A x \in A[j] : step[<<x, k>>] \in A[k]
  PROVE  \E g : /\ Folds(g, N, base, step)
                /\ \A s \in SUBSET (1..N) : g[s] \in A[Highest(s)]
<1> DEFINE Good(g, n) == /\ Folds(g, n, base, step)
                         /\ \A s \in SUBSET (1..n) : g[s] \in A[Highest(s)]
           Bad == {n \in 0..N : ~ \E g : Good(g, n)}
<1>1. SUFFICES ASSUME Bad # {} PROVE FALSE
  <2>1. N \in 0..N
    OBVIOUS
  <2> QED BY <2>1
<1>2. PICK n \in Bad : \A m \in Bad : n <= m
  <2>1. Bad \in SUBSET Nat
    OBVIOUS
  <2> HIDE DEF Bad
  <2> QED BY <1>1, <2>1, LeastNatural
<1>3. n \in 0..N /\ ~ \E g : Good(g, n)
  BY <1>2
<1>4. n # 0
  <2>1. CASE n = 0
    <3> DEFINE g == [s \in SUBSET (1..0) |-> base]
    <3>1. SUBSET (1..0) = {{}} /\ Highest({}) = 0
      BY DEF Highest
    <3>2. Good(g, 0)
      BY <3>1 DEF Folds
    <3> QED BY <1>3, <2>1, <3>2
  <2> QED BY <2>1
<1>5. n \in Nat \ {0} /\ n - 1 \in 0..N /\ n \in 1..N /\ n \in Nat /\ n - 1 \in Nat
  BY <1>3, <1>4
<1>6. PICK h : Good(h, n - 1)
  <2>1. n - 1 \notin Bad
    <3> HIDE DEF Bad
    <3> QED BY <1>2, <1>5
  <2> HIDE DEF Good
  <2> QED BY <1>5, <2>1
<1> DEFINE g == [s \in SUBSET (1..n) |-> IF n \in s THEN step[<<h[s \ {n}], n>>] ELSE h[s]]
<1>7. ASSUME NEW s \in SUBSET (1..n)
      PROVE  /\ n \in s => s \ {n} \in SUBSET (1..(n - 1)) /\ Max(s) = n /\ Highest(s) = n
             /\ n \notin s => s \in SUBSET (1..(n - 1))
  <2>1. n \in s => s # {}
    OBVIOUS
  <2>2. \A x \in s : x # n => x \in 1..(n - 1)
    BY <1>5
  <2> QED BY <1>5, <2>1, <2>2, HighestIs
<1>8. ASSUME NEW s \in SUBSET (1..n)
      PROVE  g[s] \in A[Highest(s)]
  <2>1. CASE n \in s
    <3>1. g[s] = step[<<h[s \ {n}], n>>]
      BY <2>1
    <3>2. s \ {n} \in SUBSET (1..(n - 1)) /\ Highest(s) = n
      BY <1>7, <2>1
    <3>3. Highest(s \ {n}) \in 0..(n - 1) /\ h[s \ {n}] \in A[Highest(s \ {n})]
      BY <1>5, <1>6, <3>2, HighestIs
    <3> HIDE DEF g
    <3> QED BY <1>5, <3>1, <3>2, <3>3
  <2>2. CASE n \notin s
    BY <1>6, <1>7, <2>2
  <2> QED BY <2>1, <2>2
<1>9. ASSUME NEW s \in SUBSET (1..n)
      PROVE  g[s] = IF s = {} THEN base ELSE step[<<g[s \ {Max(s)}], Max(s)>>]
  <2>1. \A t \in SUBSET (1..(n - 1)) : t \in SUBSET (1..n) /\ n \notin t /\ g[t] = h[t]
    <3>1. \A x \in 1..(n - 1) : x \in 1..n /\ x # n
      BY <1>5
    <3> QED BY <3>1
  <2>2. CASE n \in s
    <3>1. g[s] = step[<<h[s \ {n}], n>>]
      BY <2>2
    <3> HIDE DEF g
    <3> QED BY <1>7, <2>1, <2>2, <3>1
  <2>3. CASE n \notin s
    <3>1. s \in SUBSET (1..(n - 1))
      BY <1>7, <2>3
    <3>2. h[s] = IF s = {} THEN base ELSE step[<<h[s \ {Max(s)}], Max(s)>>]
      BY <1>6, <3>1 DEF Folds
    <3>3. s \ {Max(s)} \in SUBSET (1..(n - 1))
      BY <3>1
    <3> HIDE DEF g
    <3> QED BY <2>1, <3>1, <3>2, <3>3
  <2> QED BY <2>2, <2>3
<1> HIDE DEF g
<1>10. Folds(g, n, base, step)
  BY <1>9 DEF Folds
<1> QED BY <1>3, <1>8, <1>10

\* Every step that stays in A has its fold.
LEMMA FoldExists ==
  ASSUME NEW N \in Nat, NEW A, NEW base \in A, NEW step \in [A \X (1..N) -> A]
  PROVE  \E g \in [SUBSET (1..N) -> A] : Folds(g, N, base, step)
<1> DEFINE B == [k \in 0..N |-> A]
<1>1. \A k \in 0..N : B[k] = A
  OBVIOUS
<1>2. 0 \in 0..N /\ \A k \in 1..N : k \in 0..N /\ \A j \in 0..(k - 1) : j \in 0..N
  OBVIOUS
<1> HIDE DEF B
<1>3. PICK h : /\ Folds(h, N, base, step)
               /\ \A s \in SUBSET (1..N) : h[s] \in B[Highest(s)]
  <2>1. base \in B[0]
    BY <1>1, <1>2
  <2>2. \A k \in 1..N : \A j \in 0..(k - 1) : \A x \in B[j] : step[<<x, k>>] \in B[k]
    BY <1>1, <1>2
  <2> QED BY <2>1, <2>2, FoldExistsAlong
<1> DEFINE g == [s \in SUBSET (1..N) |-> h[s]]
<1>4. g \in [SUBSET (1..N) -> A]
  BY <1>1, <1>3, HighestIs
<1>5. Folds(g, N, base, step)
  BY <1>3 DEF Folds
<1> QED BY <1>4, <1>5

\* The fold of 1..k is in A[k] when the one of nothing is in A[0] and each step leads there.
LEMMA FoldReaches ==
  ASSUME NEW N \in Nat, NEW A, NEW h, h[1..0] \in A[0],
         \A k \in 1..N : h[1..(k - 1)] \in A[k - 1] => h[1..k] \in A[k]
  PROVE  h[1..N] \in A[N]
<1> DEFINE Bad == {k \in 0..N : h[1..k] \notin A[k]}
<1>1. SUFFICES ASSUME Bad # {} PROVE FALSE
  <2>1. N \in 0..N
    OBVIOUS
  <2> QED BY <2>1
<1>2. PICK k \in Bad : \A m \in Bad : k <= m
  <2>1. Bad \in SUBSET Nat
    OBVIOUS
  <2> HIDE DEF Bad
  <2> QED BY <1>1, <2>1, LeastNatural
<1>3. k \in 0..N /\ h[1..k] \notin A[k] /\ k # 0
  BY <1>2
<1>4. k - 1 \in 0..N /\ k \in 1..N /\ ~ (k <= k - 1)
  BY <1>3
<1>5. k - 1 \notin Bad
  <2> HIDE DEF Bad
  <2> QED BY <1>2, <1>4
<1> QED BY <1>3, <1>4, <1>5

\* One that stays in the same set.
LEMMA FoldStays ==
  ASSUME NEW N \in Nat, NEW A, NEW h, h[1..0] \in A,
         \A k \in 1..N : h[1..(k - 1)] \in A => h[1..k] \in A
  PROVE  h[1..N] \in A
<1> DEFINE B == [k \in 0..N |-> A]
<1>1. \A k \in 0..N : B[k] = A
  OBVIOUS
<1>2. 0 \in 0..N /\ N \in 0..N /\ \A k \in 1..N : k \in 0..N /\ k - 1 \in 0..N
  OBVIOUS
<1> HIDE DEF B
<1>3. h[1..0] \in B[0] /\ \A k \in 1..N : h[1..(k - 1)] \in B[k - 1] => h[1..k] \in B[k]
  BY <1>1, <1>2
<1> QED BY <1>1, <1>2, <1>3, FoldReaches

-----------------------------------------------------------------------------
(* Tables of folds, and the chains they go through.                        *)

\* Two chains whose steps agree are equal at the end.
LEMMA ChainsAgree ==
  ASSUME NEW N \in Nat, NEW u, NEW v, u[0] = v[0],
         \A k \in 1..N : u[k - 1] = v[k - 1] => u[k] = v[k]
  PROVE  u[N] = v[N]
<1> DEFINE Bad == {k \in 0..N : u[k] # v[k]}
<1>1. SUFFICES ASSUME Bad # {} PROVE FALSE
  <2>1. N \in 0..N
    OBVIOUS
  <2> QED BY <2>1
<1>2. PICK k \in Bad : \A m \in Bad : k <= m
  <2>1. Bad \in SUBSET Nat
    OBVIOUS
  <2> HIDE DEF Bad
  <2> QED BY <1>1, <2>1, LeastNatural
<1>3. k \in 0..N /\ u[k] # v[k] /\ k # 0
  BY <1>2
<1>4. k - 1 \in 0..N /\ k \in 1..N /\ ~ (k <= k - 1)
  BY <1>3
<1>5. k - 1 \notin Bad
  <2> HIDE DEF Bad
  <2> QED BY <1>2, <1>4
<1> QED BY <1>3, <1>4, <1>5

\* The table of a fold, and that its steps stay within A.
StepsWithin(N, A, h, s) ==
  /\ Max(s) \in 1..N
  /\ \E j \in 0..(Max(s) - 1) : h[s \ {Max(s)}] \in A[j]

\* A table of a fold whose k-th step leads from any A[j] before it into A[k].
LEMMA FoldTable ==
  ASSUME NEW N \in Nat, NEW A, NEW base \in A[0], NEW step,
         \A k \in 1..N : \A j \in 0..(k - 1) : \A x \in A[j] : step[<<x, k>>] \in A[k]
  PROVE  \E h : /\ h = [s \in SUBSET (1..N) |->
                          IF s = {} THEN base ELSE step[<<h[s \ {Max(s)}], Max(s)>>]]
                /\ \A s \in SUBSET (1..N) : s # {} => StepsWithin(N, A, h, s)
<1>1. PICK g : /\ Folds(g, N, base, step)
               /\ \A s \in SUBSET (1..N) : g[s] \in A[Highest(s)]
  BY FoldExistsAlong
<1> DEFINE h == [s \in SUBSET (1..N) |-> g[s]]
<1>2. \A s \in SUBSET (1..N) : h[s] = g[s] /\ s \ {Max(s)} \in SUBSET (1..N)
  OBVIOUS
<1>3. h = [s \in SUBSET (1..N) |-> IF s = {} THEN base ELSE step[<<h[s \ {Max(s)}], Max(s)>>]]
  BY <1>1, <1>2 DEF Folds
<1> HIDE DEF h
<1>4. ASSUME NEW s \in SUBSET (1..N), s # {} PROVE StepsWithin(N, A, h, s)
  <2>1. Max(s) \in 1..N /\ s \ {Max(s)} \in SUBSET (1..(Max(s) - 1))
    <3>1. s \in SUBSET (0..N)
      OBVIOUS
    <3>2. Max(s) \in s /\ \A m \in s : Max(s) >= m
      BY <1>4, <3>1, MaxIs
    <3>3. \A m \in s : m \in 1..N
      OBVIOUS
    <3>4. \A a \in 1..N, m \in 1..N : a >= m => m = a \/ m \in 1..(a - 1)
      OBVIOUS
    <3> QED BY <3>2, <3>3, <3>4
  <2>2. Highest(s \ {Max(s)}) \in 0..(Max(s) - 1)
    <3>1. Max(s) - 1 \in Nat
      BY <2>1
    <3> QED BY <2>1, <3>1, HighestIs
  <2>3. h[s \ {Max(s)}] \in A[Highest(s \ {Max(s)})]
    BY <1>1, <1>2
  <2> QED BY <2>1, <2>2, <2>3 DEF StepsWithin
<1> QED BY <1>3, <1>4

\* What holds along a chain.
LEMMA ChainReaches ==
  ASSUME NEW N \in Nat, NEW A, NEW v, v[0] \in A[0],
         \A k \in 1..N : v[k - 1] \in A[k - 1] => v[k] \in A[k]
  PROVE  \A k \in 0..N : v[k] \in A[k]
<1> DEFINE Bad == {k \in 0..N : v[k] \notin A[k]}
<1>1. SUFFICES ASSUME Bad # {} PROVE FALSE
  OBVIOUS
<1>2. PICK k \in Bad : \A m \in Bad : k <= m
  <2>1. Bad \in SUBSET Nat
    OBVIOUS
  <2> HIDE DEF Bad
  <2> QED BY <1>1, <2>1, LeastNatural
<1>3. k \in 0..N /\ v[k] \notin A[k] /\ k # 0
  BY <1>2
<1>4. k - 1 \in 0..N /\ k \in 1..N /\ ~ (k <= k - 1)
  BY <1>3
<1>5. k - 1 \notin Bad
  <2> HIDE DEF Bad
  <2> QED BY <1>2, <1>4
<1> QED BY <1>3, <1>4, <1>5

\* The table of a fold along the indices 1..N, where the fold takes them from a list.
LEMMA IndexIs ==
  ASSUME NEW N \in Nat, NEW s \in SUBSET (1..N), s # {}
  PROVE  [i \in 1..N |-> i][Max(s)] = Max(s) /\ s \ {Max(s)} \in SUBSET (1..N)
<1>1. Max(s) \in s
  BY HighestIs
<1>2. Max(s) \in 1..N
  BY <1>1
<1> QED BY <1>2

\* The sets 1..k in a table.
LEMMA FirstOnes ==
  ASSUME NEW N \in Nat, NEW k \in 1..N
  PROVE  /\ 1..k \in SUBSET (1..N) /\ 1..k # {} /\ Max(1..k) = k /\ (1..k) \ {k} = 1..(k - 1)
         /\ 1..(k - 1) \in SUBSET (1..N)
<1>1. k \in Nat \ {0} /\ k \in 1..k /\ (\A i \in 1..k : i \in 1..N)
      /\ (\A i \in 1..(k - 1) : i \in 1..N)
  OBVIOUS
<1>2. Max(1..k) = k /\ (1..k) \ {k} = 1..(k - 1)
  BY <1>1, LastIs
<1> QED BY <1>1, <1>2
=============================================================================
