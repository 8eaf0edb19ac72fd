--------------------------------- MODULE Sums ---------------------------------
(***************************************************************************)
(* Lemmas that several proofs use.                                         *)
(*                                                                         *)
(* Induction: the library states it for operators, which the provers do    *)
(* not instantiate; LeastNatural and NaturalInduction state it for sets    *)
(* and follow from the well-foundedness of < alone.  RecursionExists says  *)
(* that a recursive function has a solution.                               *)
(*                                                                         *)
(* Sums over finite sets: MapThenSumSet adds up in an order that CHOOSE    *)
(* fixes, and what it adds up to does not depend on it.                    *)
(*                                                                         *)
(* Products, quotients, and the length of a function on 1..k.              *)
(***************************************************************************)
EXTENDS Integers, FiniteSets, FiniteSetsExt, FiniteSetTheorems, SequenceTheorems,
        WellFoundedInduction, TLAPS

\* A set of natural numbers that is not empty has a least element.
LEMMA LeastNatural ==
    ASSUME NEW T, T \subseteq Nat, T # {}
    PROVE  \E x \in T : \A y \in T : x <= y
  <1>1. PICK x \in T : \A y \in T : ~(<<y, x>> \in OpToRel(<, Nat))
    BY WFMin, NatLessThanWellFounded, Zenon
  <1>2. ASSUME NEW y \in T, y < x PROVE <<y, x>> \in OpToRel(<, Nat)
    BY <1>2, Zenon DEF OpToRel
  <1>3. \A y \in T : ~(y < x)
    BY <1>1, <1>2, Zenon
  <1>4. x \in Nat /\ \A y \in T : y \in Nat
    OBVIOUS
  <1> QED
    BY <1>3, <1>4

\* A set that holds 0 and with each number the next holds all.
LEMMA NaturalInduction ==
    ASSUME NEW S, 0 \in S, \A n \in Nat : n \in S => n + 1 \in S
    PROVE  Nat \subseteq S
  <1> SUFFICES ASSUME Nat \ S # {} PROVE FALSE
    OBVIOUS
  <1>1. PICK x \in Nat \ S : \A y \in Nat \ S : x <= y
    BY LeastNatural
  <1>2. x # 0 /\ x - 1 \in Nat /\ x - 1 \notin Nat \ S
    BY <1>1
  <1> QED
    BY <1>2

\* f has the first value a and the given steps from each value to the next.
Recursion(f, T, a, step) ==
    f \in [Nat -> T] /\ f[0] = a /\ \A n \in Nat : f[n + 1] = step[n][f[n]]

\* A function on the naturals may be defined by its first value and its steps.
LEMMA RecursionExists ==
    ASSUME NEW T, NEW a \in T, NEW step \in [Nat -> [T -> T]]
    PROVE  \E f : Recursion(f, T, a, step)
  <1> DEFINE Upto(f, n) == /\ f \in [0..n -> T]
                           /\ f[0] = a
                           /\ \A i \in 0..(n - 1) : f[i + 1] = step[i][f[i]]
             N == {n \in Nat : \E f : Upto(f, n)}
  <1>1. Nat \subseteq N
    <2>1. 0 \in N
      <3> DEFINE f == [i \in 0..0 |-> a]
      <3>1. Upto(f, 0)
        OBVIOUS
      <3> HIDE DEF f, Upto
      <3> QED
        BY <3>1
    <2>2. ASSUME NEW n \in Nat, n \in N PROVE n + 1 \in N
      <3>1. PICK f : Upto(f, n)
        BY <2>2
      <3> DEFINE g == [i \in 0..(n + 1) |-> IF i = n + 1 THEN step[n][f[n]] ELSE f[i]]
      <3>2. step[n][f[n]] \in T
        BY <3>1
      <3>3. Upto(g, n + 1)
        BY <3>1, <3>2
      <3> HIDE DEF g, Upto
      <3> QED
        BY <3>3
    <2> HIDE DEF N
    <2> QED
      BY <2>1, <2>2, NaturalInduction
  <1>2. ASSUME NEW m \in Nat, NEW n \in Nat, m <= n, NEW f, NEW g, Upto(f, m), Upto(g, n)
        PROVE  f[m] = g[m]
    <2> DEFINE M == {i \in Nat : i <= m => f[i] = g[i]}
    <2>1. 0 \in M
      BY <1>2
    <2>2. ASSUME NEW i \in Nat, i \in M PROVE i + 1 \in M
      BY <1>2, <2>2
    <2> HIDE DEF M
    <2>3. m \in M
      BY <2>1, <2>2, NaturalInduction
    <2> QED
      BY <2>3 DEF M
  <1> DEFINE g(n) == CHOOSE f : Upto(f, n)
             h == [n \in Nat |-> g(n)[n]]
  <1> HIDE DEF Upto
  <1>3. \A n \in Nat : Upto(g(n), n)
    BY <1>1
  <1> HIDE DEF g
  <1>4. h \in [Nat -> T] /\ h[0] = a
    BY <1>3 DEF Upto
  <1>5. ASSUME NEW n \in Nat PROVE h[n + 1] = step[n][h[n]]
    <2>1. g(n + 1)[n + 1] = step[n][g(n + 1)[n]]
      BY <1>3 DEF Upto
    <2>2. Upto(g(n + 1), n + 1) /\ Upto(g(n), n)
      BY <1>3
    <2>3. g(n)[n] = g(n + 1)[n]
      BY <1>2, <2>2
    <2> QED
      BY <2>1, <2>3
  <1> HIDE DEF h
  <1>6. Recursion(h, T, a, step)
    BY <1>4, <1>5 DEF Recursion
  <1> QED
    BY <1>6

-----------------------------------------------------------------------------
\* The element that folds take from a set first.
Pick(s) == CHOOSE x \in s : TRUE

\* The sum of w over S.
Sum(w, S) == MapThenSumSet(LAMBDA x : w[x], S)

\* The partial sums of a fold over S.
Partial(w, S, g) ==
    g = [s \in SUBSET S |-> IF s = {} THEN 0 ELSE w[Pick(s)] + g[s \ {Pick(s)}]]

\* It is an element.
LEMMA PickIn == ASSUME NEW s, s # {} PROVE Pick(s) \in s
  BY Zenon DEF Pick

\* The fold is the partial sums at S.
LEMMA SumIsPartial ==
    ASSUME NEW w, NEW S, NEW g, Partial(w, S, g), \A h : Partial(w, S, h) => h = g
    PROVE  Sum(w, S) = g[S]
  BY Zenon DEF Sum, MapThenSumSet, MapThenFoldSet, Pick, Partial

\* There are partial sums for a finite set: by induction on the size of subsets.
LEMMA PartialExists ==
    ASSUME NEW S, IsFiniteSet(S), NEW w, \A x \in S : w[x] \in Int
    PROVE  \E g \in [SUBSET S -> Int] : Partial(w, S, g)
  <1> DEFINE Small(n) == {s \in SUBSET S : Cardinality(s) <= n}
             Good(n, g) == \A s \in Small(n) :
                              g[s] = IF s = {} THEN 0 ELSE w[Pick(s)] + g[s \ {Pick(s)}]
             N == {n \in Nat : \E g \in [SUBSET S -> Int] : Good(n, g)}
  <1>1. ASSUME NEW s \in SUBSET S
        PROVE  IsFiniteSet(s) /\ Cardinality(s) \in Nat
    BY FS_Subset, FS_CardinalityType
  <1>2. ASSUME NEW s \in SUBSET S, s # {}
        PROVE  /\ Pick(s) \in S
               /\ s \ {Pick(s)} \in SUBSET S
               /\ Cardinality(s \ {Pick(s)}) = Cardinality(s) - 1
    BY <1>1, <1>2, PickIn, FS_RemoveElement
  <1>3. 0 \in N
    <2> DEFINE g == [s \in SUBSET S |-> 0]
    <2>1. g \in [SUBSET S -> Int]
      OBVIOUS
    <2>2. \A s \in Small(0) : s = {}
      BY <1>1, FS_EmptySet
    <2>3. Good(0, g)
      BY <2>2
    <2> HIDE DEF g, Good
    <2> QED
      BY <2>1, <2>3
  <1>4. ASSUME NEW n \in Nat, n \in N PROVE n + 1 \in N
    <2>1. PICK g \in [SUBSET S -> Int] : Good(n, g)
      BY <1>4
    <2> DEFINE h == [s \in SUBSET S |-> IF s = {} THEN 0 ELSE w[Pick(s)] + g[s \ {Pick(s)}]]
    <2>2. h \in [SUBSET S -> Int]
      <3> SUFFICES ASSUME NEW s \in SUBSET S, s # {}
                   PROVE  w[Pick(s)] + g[s \ {Pick(s)}] \in Int
        OBVIOUS
      <3>1. w[Pick(s)] \in Int /\ g[s \ {Pick(s)}] \in Int
        BY <1>2
      <3> QED
        BY <3>1
    <2>3. ASSUME NEW s \in Small(n) PROVE h[s] = g[s]
      BY <2>1, <2>3
    <2>4. ASSUME NEW s \in Small(n + 1), s # {} PROVE s \ {Pick(s)} \in Small(n)
      <3>1. Cardinality(s \ {Pick(s)}) = Cardinality(s) - 1 /\ Cardinality(s) \in Nat
        BY <1>1, <1>2, <2>4
      <3>2. Cardinality(s) <= n + 1
        BY <2>4
      <3> QED
        BY <1>2, <2>4, <3>1, <3>2
    <2>5. Good(n + 1, h)
      BY <2>3, <2>4
    <2> HIDE DEF h, Good
    <2> QED
      BY <2>2, <2>5
  <1>5. Cardinality(S) \in N
    <2> HIDE DEF N
    <2>1. Nat \subseteq N
      BY <1>3, <1>4, NaturalInduction
    <2> QED
      BY <2>1, FS_CardinalityType
  <1>6. PICK g \in [SUBSET S -> Int] : Good(Cardinality(S), g)
    BY <1>5
  <1>7. Small(Cardinality(S)) = SUBSET S
    BY FS_Subset
  <1>8. \A s \in SUBSET S : g[s] = IF s = {} THEN 0 ELSE w[Pick(s)] + g[s \ {Pick(s)}]
    BY <1>6, <1>7
  <1> QED
    BY <1>8 DEF Partial

\* Partial sums over a set and over a larger one agree on the subsets.
LEMMA PartialUnique ==
    ASSUME NEW S, NEW R, IsFiniteSet(S), R \subseteq S, NEW v, NEW w, \A x \in R : v[x] = w[x],
           NEW g, NEW h, Partial(v, S, g), Partial(w, R, h)
    PROVE  \A s \in SUBSET R : g[s] = h[s]
  <1> DEFINE N == {n \in Nat : \A s \in SUBSET R : Cardinality(s) = n => g[s] = h[s]}
  <1>1. ASSUME NEW s \in SUBSET R
        PROVE  IsFiniteSet(s) /\ Cardinality(s) \in Nat
    BY FS_Subset, FS_CardinalityType
  <1>2. ASSUME NEW s \in SUBSET R, s # {}
        PROVE  /\ Pick(s) \in R
               /\ s \ {Pick(s)} \in SUBSET R
               /\ Cardinality(s \ {Pick(s)}) = Cardinality(s) - 1
    BY <1>1, <1>2, PickIn, FS_RemoveElement
  <1>3. ASSUME NEW s \in SUBSET R
        PROVE  /\ g[s] = IF s = {} THEN 0 ELSE v[Pick(s)] + g[s \ {Pick(s)}]
               /\ h[s] = IF s = {} THEN 0 ELSE w[Pick(s)] + h[s \ {Pick(s)}]
    <2>1. s \in SUBSET S
      OBVIOUS
    <2> QED
      BY <2>1 DEF Partial
  <1>4. 0 \in N
    BY <1>1, <1>3, FS_EmptySet
  <1>5. ASSUME NEW n \in Nat, n \in N PROVE n + 1 \in N
    <2> SUFFICES ASSUME NEW s \in SUBSET R, Cardinality(s) = n + 1 PROVE g[s] = h[s]
      OBVIOUS
    <2>1. s # {}
      BY FS_EmptySet
    <2>2. Cardinality(s \ {Pick(s)}) = n
      BY <1>2, <2>1
    <2>3. g[s \ {Pick(s)}] = h[s \ {Pick(s)}]
      BY <1>2, <1>5, <2>1, <2>2
    <2> QED
      BY <1>2, <1>3, <2>1, <2>3
  <1>6. Nat \subseteq N
    <2> HIDE DEF N
    <2> QED
      BY <1>4, <1>5, NaturalInduction
  <1> QED
    BY <1>1, <1>6

\* There is one function of partial sums.
LEMMA PartialsEqual ==
    ASSUME NEW S, IsFiniteSet(S), NEW w, \A x \in S : w[x] \in Int,
           NEW g, NEW h, Partial(w, S, g), Partial(w, S, h)
    PROVE  h = g
  <1>1. \A s \in SUBSET S : g[s] = h[s]
    BY PartialUnique
  <1>2. /\ h = [s \in SUBSET S |-> h[s]]
        /\ g = [s \in SUBSET S |-> g[s]]
    BY DEF Partial
  <1> QED
    BY <1>1, <1>2

\* The sum is the partial sum, whichever fold it is part of.
LEMMA SumOfPartial ==
    ASSUME NEW S, IsFiniteSet(S), NEW w, \A x \in S : w[x] \in Int, NEW g, Partial(w, S, g)
    PROVE  Sum(w, S) = g[S]
  BY PartialsEqual, SumIsPartial, Zenon

\* Sums of integers are integers.
LEMMA SumType ==
    ASSUME NEW S, IsFiniteSet(S), NEW w, \A x \in S : w[x] \in Int
    PROVE  Sum(w, S) \in Int
  <1>1. PICK g \in [SUBSET S -> Int] : Partial(w, S, g)
    BY PartialExists
  <1>2. Sum(w, S) = g[S]
    BY <1>1, SumOfPartial
  <1> QED
    BY <1>2

\* The sum over no elements.
LEMMA SumEmpty ==
    ASSUME NEW w PROVE Sum(w, {}) = 0
  <1>1. IsFiniteSet({})
    BY FS_EmptySet
  <1>2. PICK g : Partial(w, {}, g)
    BY <1>1, PartialExists
  <1>3. g[{}] = 0
    BY <1>2 DEF Partial
  <1> QED
    BY <1>1, <1>2, <1>3, SumOfPartial

\* Only the terms of the set matter.
LEMMA SumAgrees ==
    ASSUME NEW S, IsFiniteSet(S), NEW v, NEW w, \A x \in S : v[x] \in Int /\ v[x] = w[x]
    PROVE  Sum(v, S) = Sum(w, S)
  <1>1. PICK g : Partial(v, S, g)
    BY PartialExists
  <1>2. PICK h : Partial(w, S, h)
    BY PartialExists
  <1>3. \A s \in SUBSET S : g[s] = h[s]
    BY <1>1, <1>2, PartialUnique
  <1> QED
    BY <1>1, <1>2, <1>3, SumOfPartial

\* The fold takes the picked element first.
LEMMA SumPick ==
    ASSUME NEW S, IsFiniteSet(S), S # {}, NEW w, \A x \in S : w[x] \in Int
    PROVE  Sum(w, S) = w[Pick(S)] + Sum(w, S \ {Pick(S)})
  <1> DEFINE R == S \ {Pick(S)}
  <1>1. IsFiniteSet(R)
    BY FS_RemoveElement
  <1>2. PICK g : Partial(w, S, g)
    BY PartialExists
  <1>3. PICK h : Partial(w, R, h)
    BY <1>1, PartialExists
  <1>4. g[R] = h[R]
    BY <1>2, <1>3, PartialUnique
  <1>5. Sum(w, S) = g[S] /\ Sum(w, R) = h[R]
    BY <1>1, <1>2, <1>3, SumOfPartial
  <1>6. g[S] = w[Pick(S)] + g[R]
    BY <1>2 DEF Partial
  <1> QED
    BY <1>4, <1>5, <1>6

\* Any element may come first: by induction on the size of the set.
LEMMA SumRemove ==
    ASSUME NEW S, IsFiniteSet(S), NEW w, \A x \in S : w[x] \in Int, NEW e \in S
    PROVE  Sum(w, S) = w[e] + Sum(w, S \ {e})
  <1> DEFINE N == {n \in Nat : \A s \in SUBSET S : Cardinality(s) = n =>
                                 \A x \in s : Sum(w, s) = w[x] + Sum(w, s \ {x})}
  <1>1. ASSUME NEW s \in SUBSET S
        PROVE  /\ IsFiniteSet(s) /\ Cardinality(s) \in Nat
               /\ Sum(w, s) \in Int
               /\ \A x \in s : w[x] \in Int
    BY FS_Subset, FS_CardinalityType, SumType
  <1>2. ASSUME NEW s \in SUBSET S, NEW x \in s
        PROVE  s \ {x} \in SUBSET S /\ Cardinality(s \ {x}) = Cardinality(s) - 1
    BY <1>1, <1>2, FS_RemoveElement
  <1>3. 0 \in N
    BY <1>1, FS_EmptySet
  <1>4. ASSUME NEW n \in Nat, n \in N PROVE n + 1 \in N
    <2> SUFFICES ASSUME NEW s \in SUBSET S, Cardinality(s) = n + 1, NEW x \in s
                 PROVE  Sum(w, s) = w[x] + Sum(w, s \ {x})
      OBVIOUS
    <2> DEFINE c == Pick(s)
               both == s \ {c, x}
    <2>1. c \in s
      BY PickIn
    <2> HIDE DEF c
    <2>2. Sum(w, s) = w[c] + Sum(w, s \ {c})
      BY <1>1, SumPick DEF c
    <2>3. CASE c = x
      BY <2>2, <2>3
    <2>4. CASE c # x
      <3>1. both = (s \ {c}) \ {x} /\ both = (s \ {x}) \ {c}
        OBVIOUS
      <3>2. Cardinality(s \ {c}) = n /\ Cardinality(s \ {x}) = n
        BY <1>1, <1>2, <2>1
      <3> HIDE DEF both
      <3>3. Sum(w, s \ {c}) = w[x] + Sum(w, both)
        BY <1>2, <1>4, <2>1, <2>4, <3>1, <3>2
      <3>4. Sum(w, s \ {x}) = w[c] + Sum(w, both)
        BY <1>2, <1>4, <2>1, <2>4, <3>1, <3>2
      <3>5. w[c] \in Int /\ w[x] \in Int /\ Sum(w, both) \in Int
        BY <1>1, <2>1 DEF both
      <3> QED
        BY <2>2, <3>3, <3>4, <3>5
    <2> QED
      BY <2>3, <2>4
  <1>5. Nat \subseteq N
    <2> HIDE DEF N
    <2> QED
      BY <1>3, <1>4, NaturalInduction
  <1>6. Cardinality(S) \in N
    BY <1>1, <1>5
  <1> QED
    BY <1>6

\* A new element adds its term.
LEMMA SumAdd ==
    ASSUME NEW S, IsFiniteSet(S), NEW e, e \notin S, NEW w, \A x \in S \cup {e} : w[x] \in Int
    PROVE  Sum(w, S \cup {e}) = w[e] + Sum(w, S)
  <1>1. IsFiniteSet(S \cup {e}) /\ (S \cup {e}) \ {e} = S
    BY FS_AddElement
  <1> QED
    BY <1>1, SumRemove

\* Changing one term changes the sum by the difference.
LEMMA SumChange ==
    ASSUME NEW S, IsFiniteSet(S), NEW e \in S, NEW v, NEW w,
           \A x \in S : v[x] \in Int /\ w[x] \in Int, \A x \in S \ {e} : v[x] = w[x]
    PROVE  Sum(w, S) = Sum(v, S) + w[e] - v[e]
  <1>1. IsFiniteSet(S \ {e})
    BY FS_RemoveElement
  <1>2. Sum(v, S \ {e}) = Sum(w, S \ {e}) /\ Sum(v, S \ {e}) \in Int
    BY <1>1, SumAgrees, SumType
  <1>3. Sum(v, S) = v[e] + Sum(v, S \ {e}) /\ Sum(w, S) = w[e] + Sum(w, S \ {e})
    BY SumRemove
  <1> QED
    BY <1>2, <1>3

\* A sum of zeros.
LEMMA SumZero ==
    ASSUME NEW S, IsFiniteSet(S), NEW w, \A x \in S : w[x] = 0
    PROVE  Sum(w, S) = 0
  <1> DEFINE z == [s \in SUBSET S |-> 0]
             v == [x \in S |-> 0]
  <1>1. Partial(v, S, z)
    <2> SUFFICES ASSUME NEW s \in SUBSET S, s # {} PROVE v[Pick(s)] + z[s \ {Pick(s)}] = 0
      BY DEF Partial
    <2> QED
      BY PickIn
  <1>2. Sum(v, S) = 0
    BY <1>1, SumOfPartial
  <1> QED
    BY <1>2, SumAgrees

-----------------------------------------------------------------------------
\* A function on 1..k is a sequence of length k.
LEMMA SequenceLength ==
    ASSUME NEW k \in Nat, NEW s, s = [i \in 1..k |-> s[i]]
    PROVE  Len(s) = k /\ DOMAIN s = 1..k
  <1> DEFINE S == {s[i] : i \in 1..k}
  <1>1. s \in [1..k -> S]
    OBVIOUS
  <1> HIDE DEF S
  <1>2. s \in Seq(S)
    BY <1>1, SeqDef
  <1>3. Len(s) \in Nat /\ DOMAIN s = 1..Len(s) /\ DOMAIN s = 1..k
    BY <1>1, <1>2, LenProperties
  <1> QED
    BY <1>3

\* Multiplication is monotonic.
LEMMA MulMono ==
    ASSUME NEW a \in Nat, NEW b \in Nat, NEW m \in Nat, a <= b
    PROVE  a * m <= b * m
  <1>1. PICK e \in Nat : b = a + e
    BY b - a \in Nat
  <1>2. (a + e) * m = a * m + e * m /\ e * m \in Nat /\ a * m \in Nat
    OBVIOUS
  <1> QED
    BY <1>1, <1>2

\* What the quotient is ...
LEMMA DivIs ==
    ASSUME NEW a \in Nat, NEW m \in Nat, m >= 1
    PROVE  a \div m \in Nat /\ (a \div m) * m <= a /\ a < (a \div m + 1) * m
  <1>1. a \div m \in Nat
    OBVIOUS
  <1>2. m * (a \div m) <= a
    OBVIOUS
  <1>3. a < m * (a \div m + 1)
    OBVIOUS
  <1> DEFINE k == a \div m
  <1> HIDE DEF k
  <1>4. k \in Nat /\ m * k <= a /\ a < m * (k + 1)
    BY <1>1, <1>2, <1>3 DEF k
  <1>5. m * k = k * m /\ m * (k + 1) = (k + 1) * m
    BY <1>4
  <1>6. k \in Nat /\ k * m <= a /\ a < (k + 1) * m
    BY <1>4, <1>5
  <1> QED
    BY <1>6 DEF k

\* ... and that nothing else is.
LEMMA DivUnique ==
    ASSUME NEW a \in Nat, NEW m \in Nat, m >= 1, NEW q \in Nat, q * m <= a, a < (q + 1) * m
    PROVE  a \div m = q
  <1> DEFINE k == a \div m
  <1>1. k \in Nat /\ k * m <= a /\ a < (k + 1) * m
    BY DivIs
  <1> HIDE DEF k
  <1>2. ~(k < q)
    <2> SUFFICES ASSUME k < q PROVE FALSE
      OBVIOUS
    <2>1. (k + 1) * m <= q * m
      BY <1>1, MulMono
    <2> QED
      BY <1>1, <2>1
  <1>3. ~(q < k)
    <2> SUFFICES ASSUME q < k PROVE FALSE
      OBVIOUS
    <2>1. (q + 1) * m <= k * m
      BY <1>1, MulMono
    <2> QED
      BY <1>1, <2>1
  <1> QED
    BY <1>1, <1>2, <1>3 DEF k
===============================================================================
