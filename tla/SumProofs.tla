------------------------------ MODULE SumProofs ------------------------------
(***************************************************************************)
(* Induction on the natural numbers, and what the sum of a function over a *)
(* finite set (SumFunction of the community modules) is.                   *)
(***************************************************************************)
EXTENDS Integers, FiniteSets, Functions, FiniteSetTheorems,
        WellFoundedInduction, TLAPS

\* A nonempty set of natural numbers has a least element.
LEMMA LeastNumber ==
    ASSUME NEW T \in SUBSET Nat, T # {}
    PROVE  \E n \in T : \A m \in T : n <= m
<1> DEFINE R == {ss \in Nat \X Nat : ss[1] < ss[2]}
<1>1. IsWellFoundedOn(R, Nat)
  BY NatLessThanWellFounded DEF OpToRel
<1>2. \A m, n \in Nat : m < n => <<m, n>> \in R
  OBVIOUS
<1> HIDE DEF R
<1>3. PICK n \in T : \A m \in T : <<m, n>> \notin R
  BY <1>1, WFMin
<1>4. \A m \in T : ~(m < n)
  BY <1>2, <1>3
<1> QED
  BY <1>4

\* Induction, stated of a set of numbers.
LEMMA InductiveSet ==
    ASSUME NEW S \in SUBSET Nat, 0 \in S, \A n \in S : n + 1 \in S
    PROVE  S = Nat
<1> SUFFICES ASSUME Nat \ S # {} PROVE FALSE
  OBVIOUS
<1>1. PICK n \in Nat \ S : \A m \in Nat \ S : n <= m
  BY LeastNumber
<1>2. n # 0 /\ n - 1 \in Nat
  BY <1>1
<1>3. n - 1 \in S
  BY <1>1, <1>2
<1>4. (n - 1) + 1 \in S
  BY <1>3
<1> QED
  BY <1>1, <1>2, <1>4

-----------------------------------------------------------------------------
(* The recursion behind SumFunction.                                       *)

Some(s) == CHOOSE x \in s : TRUE
Rest(s) == s \ {Some(s)}

\* What h is for s, by what it is for smaller sets.
Adds(h, f, s) == h[s] = IF s = {} THEN 0 ELSE f[Some(s)] + h[Rest(s)]

IsSum(h, f, S) ==
    h = [s \in SUBSET S |-> IF s = {} THEN 0 ELSE f[Some(s)] + h[Rest(s)]]

LEMMA RestSmaller ==
    ASSUME NEW s, IsFiniteSet(s), s # {}
    PROVE  /\ Some(s) \in s
           /\ Rest(s) \subseteq s
           /\ IsFiniteSet(Rest(s))
           /\ Cardinality(s) \in Nat \ {0}
           /\ Cardinality(Rest(s)) = Cardinality(s) - 1
<1>1. Some(s) \in s
  BY DEF Some
<1>2. Cardinality(s) \in Nat
  BY FS_CardinalityType
<1>3. Cardinality(s) # 0
  BY FS_EmptySet
<1>4. IsFiniteSet(Rest(s)) /\ Cardinality(Rest(s)) = Cardinality(s) - 1
  BY <1>1, FS_RemoveElement DEF Rest
<1> QED
  BY <1>1, <1>2, <1>3, <1>4 DEF Rest

\* The recursion has a solution.
LEMMA SumExists ==
    ASSUME NEW S, IsFiniteSet(S), NEW f \in [S -> Int]
    PROVE  \E h \in [SUBSET S -> Int] : IsSum(h, f, S)
<1> DEFINE Upto(n) == {s \in SUBSET S : Cardinality(s) <= n}
           N == {n \in Nat : \E h \in [Upto(n) -> Int] :
                                \A s \in Upto(n) : Adds(h, f, s)}
<1>1. \A s \in SUBSET S : IsFiniteSet(s) /\ Cardinality(s) \in Nat
  BY FS_Subset, FS_CardinalityType
<1>2. \A n \in Nat : \A s \in Upto(n + 1) : s # {} =>
        Some(s) \in S /\ Rest(s) \in Upto(n)
  BY <1>1, RestSmaller
<1>3. {} \in Upto(0) /\ \A s \in Upto(0) : s = {}
  BY <1>1, FS_EmptySet
<1>4. 0 \in N
  <2> DEFINE h == [s \in Upto(0) |-> 0]
  <2>1. h \in [Upto(0) -> Int] /\ \A s \in Upto(0) : h[s] = 0 /\ s = {}
    BY <1>3
  <2> HIDE DEF h, Upto
  <2> QED
    BY <2>1 DEF Adds
<1>5. ASSUME NEW n \in N PROVE n + 1 \in N
  <2>1. PICK h \in [Upto(n) -> Int] : \A s \in Upto(n) : Adds(h, f, s)
    BY <1>5
  <2>2. Upto(n) \subseteq Upto(n + 1)
    BY <1>1
  <2> DEFINE g == [s \in Upto(n + 1) |->
                     IF s = {} THEN 0 ELSE f[Some(s)] + h[Rest(s)]]
  <2>3. n \in Nat /\ n + 1 \in Nat /\ {} \in Upto(n)
    BY <1>1, FS_EmptySet
  <2> HIDE DEF Upto, N
  <2>4. g \in [Upto(n + 1) -> Int]
    BY <1>2, <2>3
  <2>5. \A s \in Upto(n) : g[s] = h[s]
    BY <2>1, <2>2 DEF Adds
  <2>6. \A s \in Upto(n + 1) : Adds(g, f, s)
    <3>1. ASSUME NEW s \in Upto(n + 1) PROVE Adds(g, f, s)
      <4>1. g[s] = IF s = {} THEN 0 ELSE f[Some(s)] + h[Rest(s)]
        OBVIOUS
      <4>2. s # {} => h[Rest(s)] = g[Rest(s)]
        BY <1>2, <2>3, <2>5
      <4> HIDE DEF g
      <4> QED
        BY <4>1, <4>2 DEF Adds
    <3> QED
      BY <3>1
  <2> HIDE DEF g
  <2> QED
    BY <2>3, <2>4, <2>6 DEF N
<1>6. N = Nat
  <2>1. N \in SUBSET Nat
    OBVIOUS
  <2> HIDE DEF N
  <2> QED
    BY <1>4, <1>5, <2>1, InductiveSet
<1>7. Cardinality(S) \in N /\ Upto(Cardinality(S)) = SUBSET S
  <2>1. Cardinality(S) \in Nat
    BY FS_CardinalityType
  <2>2. \A s \in SUBSET S : Cardinality(s) <= Cardinality(S)
    BY FS_Subset
  <2> HIDE DEF N
  <2> QED
    BY <1>6, <2>1, <2>2
<1>8. PICK h \in [SUBSET S -> Int] : \A s \in SUBSET S : Adds(h, f, s)
  BY <1>7
<1> QED
  BY <1>8 DEF IsSum, Adds

\* It depends on what is summed alone.
LEMMA SumUnique ==
    ASSUME NEW S, NEW f, NEW h, IsSum(h, f, S),
           NEW T, NEW e, NEW g, IsSum(g, e, T),
           NEW U, U \subseteq S, U \subseteq T, IsFiniteSet(U),
           \A x \in U : f[x] = e[x]
    PROVE  h[U] = g[U]
<1> DEFINE N == {n \in Nat : \A s \in SUBSET U : Cardinality(s) = n => h[s] = g[s]}
<1>1. \A s \in SUBSET U : IsFiniteSet(s) /\ Cardinality(s) \in Nat
  BY FS_Subset, FS_CardinalityType
<1>2. ASSUME NEW s \in SUBSET U PROVE Adds(h, f, s) /\ Adds(g, e, s)
  <2>1. s \in SUBSET S /\ s \in SUBSET T
    OBVIOUS
  <2> QED
    BY <2>1 DEF IsSum, Adds
<1>3. 0 \in N
  BY <1>1, <1>2, FS_EmptySet DEF Adds
<1>4. ASSUME NEW n \in N PROVE n + 1 \in N
  <2>1. ASSUME NEW s \in SUBSET U, Cardinality(s) = n + 1 PROVE h[s] = g[s]
    <3>1. s # {}
      BY <1>1, <2>1, FS_EmptySet
    <3>2. Some(s) \in U /\ Rest(s) \in SUBSET U /\ Cardinality(Rest(s)) = n
      BY <1>1, <2>1, <3>1, RestSmaller
    <3>3. h[Rest(s)] = g[Rest(s)]
      BY <3>2
    <3> QED
      BY <1>2, <3>1, <3>2, <3>3 DEF Adds
  <2> QED
    BY <2>1
<1>5. N = Nat
  <2>1. N \in SUBSET Nat
    OBVIOUS
  <2> HIDE DEF N
  <2> QED
    BY <1>3, <1>4, <2>1, InductiveSet
<1>6. Cardinality(U) \in N
  <2> HIDE DEF N
  <2> QED
    BY <1>1, <1>5
<1> QED
  BY <1>6

Removes(h, f, S) ==
    \A s \in SUBSET S : \A x \in s : h[s] = f[x] + h[s \ {x}]

\* The order in which elements are added does not matter.
LEMMA SumRemove ==
    ASSUME NEW S, IsFiniteSet(S), NEW f \in [S -> Int],
           NEW h \in [SUBSET S -> Int], IsSum(h, f, S)
    PROVE  Removes(h, f, S)
<1> DEFINE N == {n \in Nat : \A s \in SUBSET S : Cardinality(s) = n =>
                               \A x \in s : h[s] = f[x] + h[s \ {x}]}
<1>1. \A s \in SUBSET S : /\ IsFiniteSet(s) /\ Cardinality(s) \in Nat
                          /\ Adds(h, f, s) /\ h[s] \in Int
  BY FS_Subset, FS_CardinalityType DEF IsSum, Adds
<1>2. 0 \in N
  BY <1>1, FS_EmptySet
<1>3. ASSUME NEW n \in N PROVE n + 1 \in N
  <2>1. ASSUME NEW s \in SUBSET S, Cardinality(s) = n + 1, NEW x \in s
        PROVE  h[s] = f[x] + h[s \ {x}]
    <3> DEFINE y == Some(s)
    <3>1. y \in s /\ Rest(s) \in SUBSET S /\ Cardinality(Rest(s)) = n
      BY <1>1, <2>1, RestSmaller
    <3>2. h[s] = f[y] + h[s \ {y}]
      BY <1>1 DEF Adds, Rest
    <3>3. CASE x = y
      BY <3>2, <3>3
    <3>4. CASE x # y
      <4>1. s \ {x} \in SUBSET S /\ Cardinality(s \ {x}) = n
        <5>1. Cardinality(s \ {x}) = Cardinality(s) - 1
          BY <1>1, FS_RemoveElement
        <5> QED
          BY <2>1, <5>1
      <4>2. h[s \ {x}] = f[y] + h[(s \ {x}) \ {y}]
        BY <3>1, <3>4, <4>1
      <4>3. h[s \ {y}] = f[x] + h[(s \ {y}) \ {x}]
        BY <3>1, <3>4 DEF Rest
      <4>4. (s \ {x}) \ {y} = (s \ {y}) \ {x} /\ (s \ {x}) \ {y} \in SUBSET S
        OBVIOUS
      <4>5. h[(s \ {x}) \ {y}] \in Int /\ f[x] \in Int /\ f[y] \in Int
        BY <1>1, <3>1, <4>4
      <4>6. h[s] = f[y] + (f[x] + h[(s \ {x}) \ {y}])
        BY <3>2, <4>3, <4>4
      <4> HIDE DEF y
      <4> QED
        BY <4>2, <4>5, <4>6
    <3> QED
      BY <3>3, <3>4
  <2> QED
    BY <2>1
<1>4. N = Nat
  <2>1. N \in SUBSET Nat
    OBVIOUS
  <2> HIDE DEF N
  <2> QED
    BY <1>2, <1>3, <2>1, InductiveSet
<1>5. ASSUME NEW s \in SUBSET S, NEW x \in s PROVE h[s] = f[x] + h[s \ {x}]
  <2>1. Cardinality(s) \in N
    <3> HIDE DEF N
    <3> QED
      BY <1>1, <1>4
  <2> QED
    BY <2>1
<1> QED
  BY <1>5 DEF Removes

-----------------------------------------------------------------------------
(* SumFunction.                                                            *)

LEMMA SumFunctionIs ==
    ASSUME NEW S, IsFiniteSet(S), NEW f \in [S -> Int]
    PROVE  \E h \in [SUBSET S -> Int] : IsSum(h, f, S) /\ SumFunction(f) = h[S]
<1> DEFINE h == CHOOSE i : IsSum(i, f, S)
<1>1. IsSum(h, f, S)
  BY SumExists
<1>2. SumFunction(f) = h[S]
  BY DEF SumFunction, SumFunctionOnSet, FoldFunctionOnSet, MapThenFoldSet, IsSum, Some, Rest
<1>3. h \in [SUBSET S -> Int]
  <2>1. PICK g \in [SUBSET S -> Int] : IsSum(g, f, S)
    BY SumExists
  <2> HIDE DEF h
  <2>2. \A s \in SUBSET S : h[s] = g[s]
    BY <1>1, <2>1, SumUnique, FS_Subset
  <2>3. h = [s \in SUBSET S |-> h[s]]
    BY <1>1 DEF IsSum
  <2> QED
    BY <2>2, <2>3
<1> QED
  BY <1>1, <1>2, <1>3

LEMMA SumType ==
    ASSUME NEW S, IsFiniteSet(S), NEW f \in [S -> Int]
    PROVE  SumFunction(f) \in Int
<1>1. PICK h \in [SUBSET S -> Int] : SumFunction(f) = h[S]
  BY SumFunctionIs
<1>2. S \in SUBSET S
  OBVIOUS
<1> QED
  BY <1>1, <1>2

LEMMA SumEmpty ==
    ASSUME NEW f \in [{} -> Int]
    PROVE  SumFunction(f) = 0
<1>1. PICK h : IsSum(h, f, {}) /\ SumFunction(f) = h[{}]
  BY SumFunctionIs, FS_EmptySet
<1> QED
  BY <1>1 DEF IsSum

\* The sum of f is its value for x and the sum of e.
IsSplit(f, x, e) == SumFunction(f) = f[x] + SumFunction(e)

\* One value taken out of a sum.
LEMMA SumSplit ==
    ASSUME NEW S, IsFiniteSet(S), NEW f \in [S -> Int], NEW x \in S,
           NEW e \in [S \ {x} -> Int], \A y \in S \ {x} : e[y] = f[y]
    PROVE  IsSplit(f, x, e)
<1> DEFINE T == S \ {x}
<1>1. IsFiniteSet(T) /\ T \subseteq S /\ e \in [T -> Int]
  BY FS_Subset
<1>2. PICK h \in [SUBSET S -> Int] : IsSum(h, f, S) /\ SumFunction(f) = h[S]
  BY SumFunctionIs
<1>3. PICK g \in [SUBSET T -> Int] : IsSum(g, e, T) /\ SumFunction(e) = g[T]
  BY <1>1, SumFunctionIs
<1>4. \A y \in T : f[y] = e[y]
  OBVIOUS
<1>5. h[S] = f[x] + h[T]
  <2>1. Removes(h, f, S)
    BY <1>2, SumRemove
  <2> QED
    BY <2>1 DEF Removes
<1> HIDE DEF T
<1>6. h[T] = g[T]
  BY <1>1, <1>2, <1>3, <1>4, SumUnique
<1> QED
  BY <1>2, <1>3, <1>5, <1>6 DEF T, IsSplit

\* A sum of zeros.
LEMMA SumZero ==
    ASSUME NEW S, IsFiniteSet(S), NEW f \in [S -> Int], \A x \in S : f[x] = 0
    PROVE  SumFunction(f) = 0
<1>1. PICK h \in [SUBSET S -> Int] : IsSum(h, f, S) /\ SumFunction(f) = h[S]
  BY SumFunctionIs
<1> DEFINE N == {n \in Nat : \A s \in SUBSET S : Cardinality(s) = n => h[s] = 0}
<1>2. \A s \in SUBSET S : IsFiniteSet(s) /\ Cardinality(s) \in Nat /\ Adds(h, f, s)
  BY <1>1, FS_Subset, FS_CardinalityType DEF IsSum, Adds
<1>3. 0 \in N
  BY <1>2, FS_EmptySet DEF Adds
<1>4. ASSUME NEW n \in N PROVE n + 1 \in N
  <2>1. ASSUME NEW s \in SUBSET S, Cardinality(s) = n + 1 PROVE h[s] = 0
    <3>1. s # {}
      BY <1>2, <2>1, FS_EmptySet
    <3>2. Some(s) \in S /\ Rest(s) \in SUBSET S /\ Cardinality(Rest(s)) = n
      BY <1>2, <2>1, <3>1, RestSmaller
    <3> QED
      BY <1>2, <3>1, <3>2 DEF Adds
  <2> QED
    BY <2>1
<1>5. N = Nat
  <2>1. N \in SUBSET Nat
    OBVIOUS
  <2> HIDE DEF N
  <2> QED
    BY <1>3, <1>4, <2>1, InductiveSet
<1>6. Cardinality(S) \in N
  <2> HIDE DEF N
  <2> QED
    BY <1>2, <1>5
<1> QED
  BY <1>1, <1>6

\* A sum in which one value changes.
LEMMA SumChange ==
    ASSUME NEW S, IsFiniteSet(S), NEW f \in [S -> Int], NEW g \in [S -> Int],
           NEW x \in S, \A y \in S \ {x} : f[y] = g[y]
    PROVE  SumFunction(g) = SumFunction(f) + (g[x] - f[x])
<1> DEFINE e == [y \in S \ {x} |-> f[y]]
<1>1. e \in [S \ {x} -> Int] /\ \A y \in S \ {x} : e[y] = f[y] /\ e[y] = g[y]
  OBVIOUS
<1>2. IsFiniteSet(S \ {x})
  BY FS_Subset
<1>3. f[x] \in Int /\ g[x] \in Int
  OBVIOUS
<1> HIDE DEF e
<1>4. IsSplit(f, x, e)
  BY <1>1, SumSplit
<1>6. IsSplit(g, x, e)
  BY <1>1, SumSplit
<1>5. SumFunction(e) \in Int
  BY <1>1, <1>2, SumType
<1> QED
  BY <1>3, <1>4, <1>5, <1>6 DEF IsSplit

\* The sum of a sequence, from the sum of all but its last.
LEMMA SumSequence ==
    ASSUME NEW n \in Nat \ {0}, NEW f \in [1..n -> Int],
           NEW e \in [1..n - 1 -> Int], \A k \in 1..n - 1 : e[k] = f[k]
    PROVE  SumFunction(f) = SumFunction(e) + f[n]
<1>1. (1..n) \ {n} = 1..n - 1 /\ n \in 1..n
  OBVIOUS
<1>2. IsFiniteSet(1..n) /\ IsFiniteSet(1..n - 1)
  BY FS_Interval
<1>3. SumFunction(e) \in Int
  BY <1>2, SumType
<1>4. IsSplit(f, n, e)
  <2> DEFINE S == 1..n
  <2>1. /\ IsFiniteSet(S) /\ f \in [S -> Int] /\ n \in S
        /\ e \in [S \ {n} -> Int] /\ \A k \in S \ {n} : e[k] = f[k]
    BY <1>1, <1>2
  <2> HIDE DEF S
  <2> QED
    BY <2>1, SumSplit
<1>5. f[n] \in Int
  BY <1>1
<1> QED
  BY <1>3, <1>4, <1>5 DEF IsSplit

\* A sum of one value.
LEMMA SumSingle ==
    ASSUME NEW x, NEW f \in [{x} -> Int]
    PROVE  SumFunction(f) = f[x]
<1> DEFINE e == [y \in {} |-> 0]
<1>1. /\ IsFiniteSet({x}) /\ x \in {x} /\ e \in [{x} \ {x} -> Int] /\ e \in [{} -> Int]
      /\ \A y \in {x} \ {x} : e[y] = f[y]
  BY FS_Singleton
<1>2. f[x] \in Int
  OBVIOUS
<1> HIDE DEF e
<1>3. IsSplit(f, x, e)
  BY <1>1, SumSplit
<1>4. SumFunction(e) = 0
  BY <1>1, SumEmpty
<1> QED
  BY <1>2, <1>3, <1>4 DEF IsSplit

-----------------------------------------------------------------------------
(* The sums of the beginnings of a sequence.                               *)

\* h[k] is the sum of the first k values of f, for k up to n.
Accumulates(h, f, n) ==
    h[0] = 0 /\ \A k \in 1..n : h[k] = h[k - 1] + f[k]

LEMMA PrefixSums ==
    ASSUME NEW n \in Nat, NEW f \in [1..n -> Int]
    PROVE  \E h \in [0..n -> Int] :
             /\ Accumulates(h, f, n)
             /\ \A k \in 0..n : h[k] = SumFunction([j \in 1..k |-> f[j]])
<1> DEFINE p(k) == [j \in 1..k |-> f[j]]
           h == [k \in 0..n |-> SumFunction(p(k))]
<1>1. \A k \in 0..n : p(k) \in [1..k -> Int]
  OBVIOUS
<1>2. ASSUME NEW k \in 0..n PROVE h[k] = SumFunction(p(k)) /\ SumFunction(p(k)) \in Int
  <2>1. p(k) \in [1..k -> Int] /\ IsFiniteSet(1..k)
    BY FS_Interval
  <2> HIDE DEF p
  <2> QED
    BY <2>1, SumType
<1>3. h[0] = 0
  <2>1. p(0) \in [{} -> Int] /\ 0 \in 0..n
    OBVIOUS
  <2> HIDE DEF p
  <2> QED
    BY <1>2, <2>1, SumEmpty
<1>4. ASSUME NEW k \in 1..n PROVE h[k] = h[k - 1] + f[k]
  <2> DEFINE a == p(k)
             b == p(k - 1)
  <2>1. /\ k \in Nat \ {0} /\ a \in [1..k -> Int] /\ b \in [1..k - 1 -> Int]
        /\ \A j \in 1..k - 1 : b[j] = a[j]
        /\ a[k] = f[k] /\ k \in 0..n /\ k - 1 \in 0..n
    OBVIOUS
  <2>2. h[k] = SumFunction(a) /\ h[k - 1] = SumFunction(b)
    BY <1>2, <2>1
  <2> HIDE DEF a, b, h
  <2>3. SumFunction(a) = SumFunction(b) + a[k]
    BY <2>1, SumSequence
  <2> QED
    BY <2>1, <2>2, <2>3
<1>5. h \in [0..n -> Int]
  BY <1>2
<1>6. Accumulates(h, f, n)
  BY <1>3, <1>4 DEF Accumulates
<1>7. \A k \in 0..n : h[k] = SumFunction(p(k))
  BY <1>2
<1> HIDE DEF h
<1> QED
  BY <1>5, <1>6, <1>7
=============================================================================
