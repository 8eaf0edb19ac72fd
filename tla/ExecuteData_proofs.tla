-------------------------- MODULE ExecuteData_proofs --------------------------
(***************************************************************************)
(* Proofs about ExecuteData, for payloads and verifier sets of every size. *)
(***************************************************************************)
EXTENDS ExecuteData, Sums, TLAPS

\* A power of two is a number and half the next one: a set with one element more
\* has twice as many subsets.
LEMMA PowerStep ==
    ASSUME NEW n \in Nat
    PROVE  2^n \in Nat /\ 2^(n + 1) = 2 * 2^n
  <1> DEFINE S == 1..n
             T == 1..(n + 1)
             A == SUBSET S
             B == {s \cup {n + 1} : s \in SUBSET S}
             f == [s \in A |-> s \cup {n + 1}]
  <1>1. IsFiniteSet(S) /\ Cardinality(S) = n /\ IsFiniteSet(T) /\ Cardinality(T) = n + 1
    BY FS_Interval
  <1>2. /\ IsFiniteSet(A) /\ Cardinality(A) = 2^n
        /\ Cardinality(SUBSET T) = 2^(n + 1)
    BY <1>1, FS_SUBSET
  <1>3. f \in Bijection(A, B)
    <2>1. f \in [A -> B]
      OBVIOUS
    <2>2. ASSUME NEW a \in A, NEW b \in A, f[a] = f[b] PROVE a = b
      <3>1. n + 1 \notin a /\ n + 1 \notin b
        OBVIOUS
      <3> QED
        BY <2>2, <3>1
    <2>3. \A t \in B : \E s \in A : f[s] = t
      OBVIOUS
    <2> QED
      BY <2>1, <2>2, <2>3 DEF Bijection, Injection, Surjection, IsInjective
  <1>4. IsFiniteSet(B) /\ Cardinality(B) = 2^n
    BY <1>2, <1>3, FS_Bijection DEF ExistsBijection
  <1>5. SUBSET T = A \cup B
    <2>1. ASSUME NEW t \in SUBSET T, n + 1 \in t PROVE t \in B
      <3>1. t \ {n + 1} \in SUBSET S /\ t = (t \ {n + 1}) \cup {n + 1}
        BY <2>1
      <3> QED
        BY <3>1
    <2>2. ASSUME NEW t \in SUBSET T, n + 1 \notin t PROVE t \in A
      BY <2>2
    <2>3. S \subseteq T /\ n + 1 \in T
      OBVIOUS
    <2>4. A \subseteq SUBSET T
      BY <2>3
    <2>5. ASSUME NEW s \in SUBSET S PROVE s \cup {n + 1} \in SUBSET T
      BY <2>3
    <2> HIDE DEF S, T
    <2>6. ASSUME NEW x \in SUBSET T PROVE x \in A \cup B
      BY <2>1, <2>2
    <2>7. ASSUME NEW x \in A PROVE x \in SUBSET T
      BY <2>4
    <2>8. ASSUME NEW x \in B PROVE x \in SUBSET T
      BY <2>5
    <2> HIDE DEF A, B
    <2> QED
      BY <2>6, <2>7, <2>8
  <1>6. A \cap B = {}
    OBVIOUS
  <1> HIDE DEF A, B
  <1>7. Cardinality(A \cup B) = Cardinality(A) + Cardinality(B) - Cardinality(A \cap B)
    BY <1>2, <1>4, FS_Union
  <1>8. Cardinality(A) \in Nat /\ Cardinality(A \cap B) = 0
    BY <1>2, <1>6, FS_CardinalityType, FS_EmptySet
  <1> DEFINE p == 2^n
             q == 2^(n + 1)
  <1>9. Cardinality(A) = p /\ Cardinality(B) = p /\ Cardinality(A \cup B) = q
    BY <1>2, <1>4, <1>5
  <1> HIDE DEF p, q
  <1>10. p \in Nat /\ q = 2 * p
    BY <1>7, <1>8, <1>9
  <1> QED
    BY <1>10 DEF p, q

\* Powers of two are positive and outgrow their exponents.
LEMMA PowerGrows == \A n \in Nat : 2^n \in Nat /\ 2^n >= 1 /\ n <= 2^n
  <1> DEFINE S == {n \in Nat : 2^n \in Nat /\ 2^n >= 1 /\ n <= 2^n}
  <1>1. 0 \in S
    OBVIOUS
  <1>2. ASSUME NEW n \in Nat, n \in S PROVE n + 1 \in S
    <2> DEFINE p == 2^n
               q == 2^(n + 1)
    <2>1. p \in Nat /\ p >= 1 /\ n <= p
      BY <1>2
    <2>2. q = 2 * p
      BY PowerStep
    <2> HIDE DEF p, q
    <2>3. q \in Nat /\ q >= 1 /\ n + 1 <= q
      BY <2>1, <2>2
    <2> QED
      BY <2>3 DEF q
  <1> HIDE DEF S
  <1>3. Nat \subseteq S
    BY <1>1, <1>2, NaturalInduction
  <1> QED
    BY <1>3 DEF S

\* The depth of a tree with a leaf is positive, and the tree has room for the leaves.
LEMMA Depth ==
    ASSUME NEW size \in Nat, size > 0
    PROVE  TreeDepth(size) \in Nat \ {0} /\ size <= 2^TreeDepth(size)
  <1>1. CASE size = 1
    <2>1. TreeDepth(size) = 1
      BY <1>1 DEF TreeDepth
    <2>2. 2^1 = 2 * 2^0
      BY PowerStep
    <2>3. size <= 2^1
      BY <1>1, <2>2
    <2> QED
      BY <2>1, <2>3
  <1>2. CASE size > 1
    <2> DEFINE T == {d \in Nat : size <= 2^d}
    <2>1. size \in T
      BY PowerGrows
    <2> HIDE DEF T
    <2>2. PICK d \in T : \A e \in T : d <= e
      BY <2>1, LeastNatural DEF T
    <2>3. d \in Nat /\ size <= 2^d /\ d <= size
      BY <2>1, <2>2 DEF T
    <2>4. d # 0
      <3>1. 2^0 = 1
        OBVIOUS
      <3> SUFFICES ASSUME d = 0 PROVE size <= 2^0
        BY <1>2, <3>1
      <3> QED
        BY <2>3
    <2>5. d - 1 \in Nat /\ d - 1 \notin T
      BY <2>2, <2>3, <2>4
    <2>6. 2^(d - 1) < size
      BY <2>5, PowerGrows DEF T
    <2>7. \E e \in 1..size : 2^(e - 1) < size /\ size <= 2^e
      <3>1. d \in 1..size
        BY <2>3, <2>4
      <3> QED
        BY <3>1, <2>3, <2>6
    <2>8. TreeDepth(size) = CHOOSE e \in 1..size : 2^(e - 1) < size /\ size <= 2^e
      BY <1>2 DEF TreeDepth
    <2>9. TreeDepth(size) \in 1..size /\ size <= 2^TreeDepth(size)
      BY <2>7, <2>8
    <2> QED
      BY <2>9
  <1> QED
    BY <1>1, <1>2

-----------------------------------------------------------------------------
\* InOrder lists exactly the elements of a finite set of numbers.
LEMMA InOrderLists ==
    ASSUME NEW S, IsFiniteSet(S), S \subseteq Nat
    PROVE  /\ Cardinality(S) \in Nat
           /\ InOrder(S) \in [1..Cardinality(S) -> S]
           /\ \A k \in S : \E i \in 1..Cardinality(S) : InOrder(S)[i] = k
           /\ \A i \in 1..Cardinality(S) : Cardinality({j \in S : j < InOrder(S)[i]}) = i - 1
  <1> DEFINE N == Cardinality(S)
             Below(k) == {j \in S : j < k}
             rank == [k \in S |-> Cardinality(Below(k)) + 1]
  <1>1. N \in Nat
    BY FS_CardinalityType
  <1>2. ASSUME NEW k \in S
        PROVE  IsFiniteSet(Below(k)) /\ Cardinality(Below(k)) \in Nat /\ Cardinality(Below(k)) < N
    <2>1. IsFiniteSet(Below(k)) /\ Cardinality(Below(k)) <= N /\ (N = Cardinality(Below(k)) => S = Below(k))
      <3>1. Below(k) \in SUBSET S
        OBVIOUS
      <3> HIDE DEF Below
      <3> QED
        BY <3>1, FS_Subset
    <2>2. k \notin Below(k)
      OBVIOUS
    <2>3. Cardinality(Below(k)) \in Nat
      BY <2>1, FS_CardinalityType
    <2> QED
      BY <1>1, <2>1, <2>2, <2>3
  <1>3. ASSUME NEW j \in S, NEW k \in S, j < k
        PROVE  Cardinality(Below(j)) < Cardinality(Below(k))
    <2>1. Below(j) \in SUBSET Below(k) /\ j \in Below(k) /\ j \notin Below(j)
      <3>1. j \in Nat /\ k \in Nat /\ \A x \in S : x \in Nat
        OBVIOUS
      <3>2. \A x \in S : x < j => x < k
        BY <1>3, <3>1
      <3>3. j \in Below(k)
        BY <1>3
      <3>4. j \notin Below(j)
        BY <3>1
      <3>5. Below(j) \subseteq Below(k)
        BY <3>2
      <3> QED
        BY <3>3, <3>4, <3>5
    <2> HIDE DEF Below
    <2>2. /\ Cardinality(Below(j)) <= Cardinality(Below(k))
          /\ Cardinality(Below(k)) = Cardinality(Below(j)) => Below(k) = Below(j)
      BY <1>2, <2>1, FS_Subset
    <2> QED
      BY <1>2, <2>1, <2>2
  <1>4. ASSUME NEW j \in S, NEW k \in S, Cardinality(Below(j)) = Cardinality(Below(k))
        PROVE  j = k
    <2>1. j \in Nat /\ k \in Nat
      OBVIOUS
    <2> HIDE DEF Below
    <2>2. ~(j < k) /\ ~(k < j)
      BY <1>2, <1>3, <1>4
    <2> QED
      BY <2>1, <2>2
  <1>5. rank \in Injection(S, 1..N)
    <2>1. rank \in [S -> 1..N]
      <3> HIDE DEF Below
      <3> QED
        BY <1>1, <1>2
    <2>2. ASSUME NEW j \in S, NEW k \in S, rank[j] = rank[k] PROVE j = k
      <3> HIDE DEF Below
      <3> QED
        BY <1>2, <1>4, <2>2
    <2> HIDE DEF rank
    <2> QED
      BY <2>1, <2>2 DEF Injection, IsInjective
  <1>6. \A i \in 1..N : \E k \in S : Cardinality(Below(k)) = i - 1
    <2>1. IsFiniteSet(1..N) /\ Cardinality(1..N) = N
      BY <1>1, FS_Interval
    <2>2. rank \in Surjection(S, 1..N)
      <3> HIDE DEF rank
      <3> QED
        BY <1>5, <2>1, FS_Injection
    <2>3. \A i \in 1..N : \E k \in S : rank[k] = i
      <3> HIDE DEF rank
      <3> QED
        BY <2>2 DEF Surjection
    <2> HIDE DEF Below
    <2> QED
      BY <1>1, <1>2, <2>3
  <1>7. InOrder(S) = [i \in 1..N |-> CHOOSE k \in S : Cardinality(Below(k)) = i - 1]
    BY DEF InOrder
  <1> HIDE DEF N, Below, rank
  <1>8. ASSUME NEW i \in 1..N
        PROVE  InOrder(S)[i] \in S /\ Cardinality(Below(InOrder(S)[i])) = i - 1
    BY <1>6, <1>7
  <1>9. InOrder(S) \in [1..N -> S]
    BY <1>7, <1>8
  <1>10. ASSUME NEW k \in S PROVE \E i \in 1..N : InOrder(S)[i] = k
    <2> DEFINE i == Cardinality(Below(k)) + 1
    <2>1. i \in 1..N /\ Cardinality(Below(k)) = i - 1
      BY <1>1, <1>2
    <2> HIDE DEF i
    <2>2. Cardinality(Below(InOrder(S)[i])) = Cardinality(Below(k)) /\ InOrder(S)[i] \in S
      BY <1>8, <2>1
    <2>3. InOrder(S)[i] = k
      BY <1>4, <2>2
    <2> QED
      BY <2>1, <2>3
  <1> QED
    BY <1>1, <1>8, <1>9, <1>10 DEF N, Below

-----------------------------------------------------------------------------
\* The layers that MerkleTree computes.
IsTree(leaves, tree) ==
    /\ tree[0] = [i \in 1..Len(leaves) |-> LeafHash(leaves[i])]
    /\ \A h \in 1..TreeDepth(Len(leaves)) : tree[h] = ParentLayer(tree[h - 1])

\* The recursion in MerkleTree has a solution, and MerkleTree is one.
LEMMA MerkleTreeIsTree ==
    ASSUME NEW leaves, Len(leaves) \in Nat \ {0}
    PROVE  IsTree(leaves, MerkleTree(leaves))
  <1> DEFINE D == TreeDepth(Len(leaves))
             base == [i \in 1..Len(leaves) |-> LeafHash(leaves[i])]
             Solves(f) == f = [h \in 0..D |-> IF h = 0 THEN base ELSE ParentLayer(f[h - 1])]
             N == {n \in Nat : \E f : /\ f[0] = base
                                      /\ \A h \in 1..n : f[h] = ParentLayer(f[h - 1])}
  <1>1. D \in Nat
    BY Depth
  <1>2. 0 \in N
    <2> HIDE DEF base
    <2> DEFINE f == [h \in {0} |-> base]
    <2>1. f[0] = base /\ \A h \in 1..0 : f[h] = ParentLayer(f[h - 1])
      OBVIOUS
    <2> QED
      BY <2>1
  <1>3. ASSUME NEW n \in Nat, n \in N PROVE n + 1 \in N
    <2> HIDE DEF base
    <2>1. PICK f : f[0] = base /\ \A h \in 1..n : f[h] = ParentLayer(f[h - 1])
      BY <1>3
    <2> DEFINE g == [h \in 0..(n + 1) |-> IF h = n + 1 THEN ParentLayer(f[n]) ELSE f[h]]
    <2>2. g[0] = base
      BY <2>1
    <2>3. ASSUME NEW h \in 1..(n + 1) PROVE g[h] = ParentLayer(g[h - 1])
      BY <2>1
    <2> HIDE DEF g
    <2> QED
      BY <2>2, <2>3
  <1>4. \E f : Solves(f)
    <2> HIDE DEF N
    <2>1. D \in N
      BY <1>1, <1>2, <1>3, NaturalInduction
    <2> HIDE DEF base, D
    <2>2. PICK f : f[0] = base /\ \A h \in 1..D : f[h] = ParentLayer(f[h - 1])
      BY <2>1 DEF N
    <2> DEFINE g == [h \in 0..D |-> f[h]]
    <2>3. ASSUME NEW h \in 0..D
          PROVE  g[h] = IF h = 0 THEN base ELSE ParentLayer(g[h - 1])
      BY <1>1, <2>2
    <2>4. g = [h \in 0..D |-> g[h]]
      OBVIOUS
    <2> HIDE DEF g
    <2>5. g = [h \in 0..D |-> IF h = 0 THEN base ELSE ParentLayer(g[h - 1])]
      BY <2>3, <2>4
    <2> QED
      BY <2>5
  <1>5. Solves(MerkleTree(leaves))
    BY <1>4, Zenon DEF MerkleTree
  <1> DEFINE T == MerkleTree(leaves)
  <1> HIDE DEF T
  <1>6. T = [h \in 0..D |-> IF h = 0 THEN base ELSE ParentLayer(T[h - 1])]
    BY <1>5 DEF T
  <1> HIDE DEF D, base
  <1>7. T[0] = base /\ \A h \in 1..D : T[h] = ParentLayer(T[h - 1])
    BY <1>1, <1>6
  <1> QED
    BY <1>7 DEF IsTree, T, D, base

\* Half as many parents, rounded up.
LEMMA ParentCount ==
    ASSUME NEW layer, Len(layer) \in Nat \ {0}
    PROVE  /\ Len(ParentLayer(layer)) = (Len(layer) + 1) \div 2
           /\ DOMAIN ParentLayer(layer) = 1..((Len(layer) + 1) \div 2)
           /\ (Len(layer) + 1) \div 2 \in Nat \ {0}
  <1> DEFINE k == (Len(layer) + 1) \div 2
             P == ParentLayer(layer)
  <1>1. k \in Nat \ {0}
    OBVIOUS
  <1>2. P = [i \in 1..k |-> P[i]]
    BY DEF ParentLayer
  <1> HIDE DEF k, P
  <1>3. Len(P) = k /\ DOMAIN P = 1..k
    BY <1>1, <1>2, SequenceLength
  <1> QED
    BY <1>1, <1>3 DEF k, P

\* Every layer has a node, and a layer has room for as many as the depth says.
LEMMA LayerSizes ==
    ASSUME NEW leaves, Len(leaves) \in Nat \ {0}, NEW tree, IsTree(leaves, tree)
    PROVE  \A h \in 0..TreeDepth(Len(leaves)) :
              /\ Len(tree[h]) \in Nat \ {0}
              /\ DOMAIN tree[h] = 1..Len(tree[h])
              /\ Len(tree[h]) <= 2^(TreeDepth(Len(leaves)) - h)
  <1> DEFINE D == TreeDepth(Len(leaves))
             Fits(h) == /\ Len(tree[h]) \in Nat \ {0}
                        /\ DOMAIN tree[h] = 1..Len(tree[h])
                        /\ Len(tree[h]) <= 2^(D - h)
             N == {h \in Nat : h <= D => Fits(h)}
  <1>1. D \in Nat /\ Len(leaves) <= 2^D
    BY Depth
  <1>2. tree[0] = [i \in 1..Len(leaves) |-> tree[0][i]]
    BY DEF IsTree
  <1>3. \A h \in 1..D : tree[h] = ParentLayer(tree[h - 1])
    BY DEF IsTree
  <1> HIDE DEF D
  <1>4. 0 \in N
    <2>1. Len(tree[0]) = Len(leaves) /\ DOMAIN tree[0] = 1..Len(leaves)
      BY <1>2, SequenceLength
    <2>2. D - 0 = D
      BY <1>1
    <2> QED
      BY <1>1, <2>1, <2>2
  <1>5. ASSUME NEW h \in Nat, h \in N PROVE h + 1 \in N
    <2> SUFFICES ASSUME h + 1 <= D PROVE Fits(h + 1)
      OBVIOUS
    <2>1. Fits(h)
      BY <1>1, <1>5
    <2>2. tree[h + 1] = ParentLayer(tree[h])
      BY <1>1, <1>3
    <2>3. /\ Len(tree[h + 1]) = (Len(tree[h]) + 1) \div 2
          /\ DOMAIN tree[h + 1] = 1..Len(tree[h + 1])
          /\ Len(tree[h + 1]) \in Nat \ {0}
      BY <2>1, <2>2, ParentCount
    <2>4. D - h - 1 \in Nat /\ D - (h + 1) = D - h - 1 /\ (D - h - 1) + 1 = D - h
      BY <1>1
    <2> DEFINE p == 2^(D - h - 1)
               q == 2^(D - h)
    <2>5. p \in Nat /\ q = 2 * p
      BY <2>4, PowerStep
    <2>6. Len(tree[h]) <= q /\ Len(tree[h]) \in Nat
      BY <2>1
    <2> DEFINE a == Len(tree[h])
    <2> HIDE DEF p, q, a
    <2>7. a <= q /\ a \in Nat /\ Len(tree[h + 1]) = (a + 1) \div 2
      BY <2>3, <2>6 DEF a
    <2>8. Len(tree[h + 1]) <= p
      BY <2>5, <2>7
    <2> QED
      BY <2>3, <2>4, <2>8 DEF p
  <1> HIDE DEF N
  <1>6. Nat \subseteq N
    BY <1>4, <1>5, NaturalInduction
  <1>7. ASSUME NEW h \in 0..D PROVE Fits(h)
    BY <1>1, <1>6 DEF N
  <1> QED
    BY <1>7 DEF D

-----------------------------------------------------------------------------
\* What Climb computes.
IsClimb(position, hash, size, proof, climb) ==
    /\ climb[0] = [known |-> TRUE, hash |-> hash, rest |-> proof]
    /\ \A h \in 1..TreeDepth(size) : climb[h] = ClimbStep(position, size, h - 1, climb[h - 1])

\* The recursion in Climb has a solution, and Climb is one.
LEMMA ClimbIsClimb ==
    ASSUME NEW position, NEW hash, NEW size \in Nat \ {0}, NEW proof
    PROVE  IsClimb(position, hash, size, proof, Climb(position, hash, size, proof))
  <1> DEFINE D == TreeDepth(size)
             base == [known |-> TRUE, hash |-> hash, rest |-> proof]
             Solves(f) == f = [h \in 0..D |-> IF h = 0 THEN base ELSE ClimbStep(position, size, h - 1, f[h - 1])]
             N == {n \in Nat : \E f : /\ f[0] = base
                                      /\ \A h \in 1..n : f[h] = ClimbStep(position, size, h - 1, f[h - 1])}
  <1>1. D \in Nat
    BY Depth
  <1>2. 0 \in N
    <2> HIDE DEF base
    <2> DEFINE f == [h \in {0} |-> base]
    <2>1. f[0] = base /\ \A h \in 1..0 : f[h] = ClimbStep(position, size, h - 1, f[h - 1])
      OBVIOUS
    <2> QED
      BY <2>1
  <1>3. ASSUME NEW n \in Nat, n \in N PROVE n + 1 \in N
    <2> HIDE DEF base
    <2>1. PICK f : f[0] = base /\ \A h \in 1..n : f[h] = ClimbStep(position, size, h - 1, f[h - 1])
      BY <1>3
    <2> DEFINE g == [h \in 0..(n + 1) |-> IF h = n + 1 THEN ClimbStep(position, size, n, f[n]) ELSE f[h]]
    <2>2. g[0] = base
      BY <2>1
    <2>3. ASSUME NEW h \in 1..(n + 1) PROVE g[h] = ClimbStep(position, size, h - 1, g[h - 1])
      BY <2>1
    <2> HIDE DEF g
    <2> QED
      BY <2>2, <2>3
  <1>4. \E f : Solves(f)
    <2> HIDE DEF N
    <2>1. D \in N
      BY <1>1, <1>2, <1>3, NaturalInduction
    <2> HIDE DEF base, D
    <2>2. PICK f : f[0] = base /\ \A h \in 1..D : f[h] = ClimbStep(position, size, h - 1, f[h - 1])
      BY <2>1 DEF N
    <2> DEFINE g == [h \in 0..D |-> f[h]]
    <2>3. ASSUME NEW h \in 0..D
          PROVE  g[h] = IF h = 0 THEN base ELSE ClimbStep(position, size, h - 1, g[h - 1])
      BY <1>1, <2>2
    <2>4. g = [h \in 0..D |-> g[h]]
      OBVIOUS
    <2> HIDE DEF g
    <2>5. g = [h \in 0..D |-> IF h = 0 THEN base ELSE ClimbStep(position, size, h - 1, g[h - 1])]
      BY <2>3, <2>4
    <2> QED
      BY <2>5
  <1>5. Solves(Climb(position, hash, size, proof))
    BY <1>4, Zenon DEF Climb
  <1> DEFINE T == Climb(position, hash, size, proof)
  <1> HIDE DEF T
  <1>6. T = [h \in 0..D |-> IF h = 0 THEN base ELSE ClimbStep(position, size, h - 1, T[h - 1])]
    BY <1>5 DEF T
  <1> HIDE DEF D, base
  <1>7. T[0] = base /\ \A h \in 1..D : T[h] = ClimbStep(position, size, h - 1, T[h - 1])
    BY <1>1, <1>6
  <1> QED
    BY <1>7 DEF IsClimb, T, D, base

\* The hash of a leaf is not the hash of a node, and hashes tell what was hashed.
LEMMA HashesAreFree ==
    /\ \A a, b, c : LeafHash(a) # ConcatAndHash(b, c)
    /\ \A a, b : LeafHash(a) = LeafHash(b) => a = b
    /\ \A a, b, c, d : ConcatAndHash(a, b) = ConcatAndHash(c, d) => a = c /\ b = d
  <1>1. ASSUME NEW a, NEW b, NEW c PROVE LeafHash(a) # ConcatAndHash(b, c)
    <2>1. DOMAIN [leaf |-> a] = {"leaf"} /\ DOMAIN [left |-> b, right |-> c] = {"left", "right"}
      OBVIOUS
    <2> QED
      BY <2>1 DEF LeafHash, ConcatAndHash
  <1>2. ASSUME NEW a, NEW b, LeafHash(a) = LeafHash(b) PROVE a = b
    <2>1. [leaf |-> a].leaf = a /\ [leaf |-> b].leaf = b
      OBVIOUS
    <2> QED
      BY <1>2, <2>1 DEF LeafHash
  <1>3. ASSUME NEW a, NEW b, NEW c, NEW d, ConcatAndHash(a, b) = ConcatAndHash(c, d)
        PROVE  a = c /\ b = d
    <2>1. /\ [left |-> a, right |-> b].left = a /\ [left |-> a, right |-> b].right = b
          /\ [left |-> c, right |-> d].left = c /\ [left |-> c, right |-> d].right = d
      OBVIOUS
    <2> QED
      BY <1>3, <2>1 DEF ConcatAndHash
  <1> QED
    BY <1>1, <1>2, <1>3

\* A parent joins two hashes of the layer below, its own child one of them.
LEMMA ParentOf ==
    ASSUME NEW layer, Len(layer) \in Nat \ {0}, NEW i \in 1..((Len(layer) + 1) \div 2)
    PROVE  \E j \in 1..Len(layer), k \in 1..Len(layer) :
              /\ ParentLayer(layer)[i] = ConcatAndHash(layer[j], layer[k])
              /\ j = 2 * i - 1 /\ k = IF 2 * i <= Len(layer) THEN 2 * i ELSE 2 * i - 1
  <1> DEFINE n == Len(layer)
             j == 2 * i - 1
             k == IF 2 * i <= n THEN 2 * i ELSE 2 * i - 1
  <1>1. j \in 1..n /\ k \in 1..n
    OBVIOUS
  <1>2. ParentLayer(layer)[i] = ConcatAndHash(layer[j], layer[k])
    BY DEF ParentLayer
  <1> QED
    BY <1>1, <1>2

\* A hash that is known at a height was known below, and is a node over the one below.
LEMMA ClimbUp ==
    ASSUME NEW position, NEW size, NEW h, NEW c, ClimbStep(position, size, h, c).known
    PROVE  /\ c.known
           /\ \E other : \/ ClimbStep(position, size, h, c).hash = ConcatAndHash(c.hash, other)
                         \/ ClimbStep(position, size, h, c).hash = ConcatAndHash(other, c.hash)
  <1>1. CASE Alone(position, size, h)
    <2>1. ClimbStep(position, size, h, c)
            = [known |-> c.known, hash |-> ConcatAndHash(c.hash, c.hash), rest |-> c.rest]
      BY <1>1 DEF ClimbStep
    <2> QED
      BY <2>1
  <1>2. CASE ~Alone(position, size, h) /\ c.rest = <<>>
    <2>1. ClimbStep(position, size, h, c) = [known |-> FALSE, hash |-> c.hash, rest |-> <<>>]
      BY <1>2 DEF ClimbStep
    <2> QED
      BY <2>1
  <1>3. CASE ~Alone(position, size, h) /\ c.rest # <<>>
    <2> DEFINE H == Join(position, h, c.hash, Head(c.rest))
               R == Tail(c.rest)
    <2>1. ClimbStep(position, size, h, c) = [known |-> c.known, hash |-> H, rest |-> R]
      BY <1>3 DEF ClimbStep
    <2>2. H = ConcatAndHash(c.hash, Head(c.rest)) \/ H = ConcatAndHash(Head(c.rest), c.hash)
      BY DEF Join
    <2> HIDE DEF H, R
    <2> QED
      BY <2>1, <2>2
  <1> QED
    BY <1>1, <1>2, <1>3

\* Whatever position, size and hashes a relayer claims, a leaf that proves against
\* the root of a tree is one of its leaves.  Going down from the root, the hashes
\* of the proof are nodes of the tree; a leaf's hash is met in both at once.
LEMMA VerifiedIsLeaf ==
    ASSUME NEW leaves, Len(leaves) \in Nat \ {0}, NEW leaf, NEW position, NEW size \in Nat, NEW proof,
           Verify(Root(MerkleTree(leaves)), position, LeafHash(leaf), size, proof)
    PROVE  \E i \in 1..Len(leaves) : leaf = leaves[i]
  <1> DEFINE tree == MerkleTree(leaves)
             c == Climb(position, LeafHash(leaf), size, proof)
             d == TreeDepth(Len(leaves))
             D == TreeDepth(size)
             At(j) == /\ c[D - j].known
                      /\ \E i \in 1..Len(tree[d - j]) : c[D - j].hash = tree[d - j][i]
             N == {j \in Nat : j <= d /\ j <= D => At(j)}
  <1>1. /\ size > 0
        /\ c[D].known
        /\ c[D].hash = tree[TreeDepth(Len(tree[0]))][1]
    BY Zenon DEF Verify, Root
  <1>2. d \in Nat \ {0} /\ D \in Nat \ {0}
    BY <1>1, Depth
  <1>3. IsTree(leaves, tree)
    BY MerkleTreeIsTree
  <1>4. \A h \in 0..d : Len(tree[h]) \in Nat \ {0}
    <2> HIDE DEF tree
    <2> QED
      BY <1>3, LayerSizes
  <1>5. IsClimb(position, LeafHash(leaf), size, proof, c)
    BY <1>1, ClimbIsClimb
  <1> HIDE DEF tree, c
  <1>6. c[0].hash = LeafHash(leaf) /\ \A h \in 1..D : c[h] = ClimbStep(position, size, h - 1, c[h - 1])
    BY <1>5 DEF IsClimb
  <1>7. Len(tree[0]) = Len(leaves) /\ \A i \in 1..Len(leaves) : tree[0][i] = LeafHash(leaves[i])
    <2>1. tree[0] = [i \in 1..Len(leaves) |-> tree[0][i]]
      BY <1>3 DEF IsTree
    <2>2. \A i \in 1..Len(leaves) : tree[0][i] = LeafHash(leaves[i])
      BY <1>3 DEF IsTree
    <2> QED
      BY <2>1, <2>2, SequenceLength
  <1>8. \A h \in 1..d : tree[h] = ParentLayer(tree[h - 1])
    BY <1>3 DEF IsTree
  <1> HIDE DEF d, D
  <1>9. 0 \in N
    <2>1. D - 0 = D /\ d - 0 = d /\ d \in 0..d
      BY <1>2
    <2>2. TreeDepth(Len(tree[0])) = d
      BY <1>7 DEF d
    <2>3. 1 \in 1..Len(tree[d])
      BY <1>4, <2>1
    <2>4. At(0)
      BY <1>1, <2>1, <2>2, <2>3
    <2> QED
      BY <2>4
  <1>10. ASSUME NEW h \in 1..d, NEW i \in 1..Len(tree[h])
         PROVE  \E j \in 1..Len(tree[h - 1]), k \in 1..Len(tree[h - 1]) :
                   tree[h][i] = ConcatAndHash(tree[h - 1][j], tree[h - 1][k])
    <2> DEFINE layer == tree[h - 1]
    <2>1. h - 1 \in 0..d
      BY <1>2
    <2>2. Len(layer) \in Nat \ {0} /\ tree[h] = ParentLayer(layer)
      BY <1>4, <1>8, <2>1
    <2> HIDE DEF layer
    <2>3. i \in 1..((Len(layer) + 1) \div 2)
      BY <2>2, ParentCount
    <2>4. \E j \in 1..Len(layer), k \in 1..Len(layer) :
             ParentLayer(layer)[i] = ConcatAndHash(layer[j], layer[k])
      BY <2>2, <2>3, ParentOf
    <2> QED
      BY <2>2, <2>4 DEF layer
  <1>11. ASSUME NEW h \in 1..D, c[h].known
         PROVE  /\ c[h - 1].known
                /\ \E other : \/ c[h].hash = ConcatAndHash(c[h - 1].hash, other)
                              \/ c[h].hash = ConcatAndHash(other, c[h - 1].hash)
    <2>1. c[h] = ClimbStep(position, size, h - 1, c[h - 1])
      BY <1>6
    <2>2. ClimbStep(position, size, h - 1, c[h - 1]).known
      BY <1>11, <2>1
    <2> QED
      BY <2>1, <2>2, ClimbUp
  <1>12. ASSUME NEW j \in Nat, j \in N PROVE j + 1 \in N
    <2> SUFFICES ASSUME j + 1 <= d, j + 1 <= D PROVE At(j + 1)
      OBVIOUS
    <2> DEFINE h == D - j
               g == d - j
    <2>1. /\ h \in 1..D /\ g \in 1..d
          /\ D - (j + 1) = h - 1 /\ d - (j + 1) = g - 1 /\ j <= d /\ j <= D
      BY <1>2
    <2>2. At(j)
      BY <1>12, <2>1
    <2>3. c[h].known
      BY <2>2
    <2>4. PICK i \in 1..Len(tree[g]) : c[h].hash = tree[g][i]
      BY <2>2
    <2> HIDE DEF h, g
    <2>5. PICK other : \/ c[h].hash = ConcatAndHash(c[h - 1].hash, other)
                       \/ c[h].hash = ConcatAndHash(other, c[h - 1].hash)
      BY <1>11, <2>1, <2>3
    <2>6. PICK a \in 1..Len(tree[g - 1]), b \in 1..Len(tree[g - 1]) :
             tree[g][i] = ConcatAndHash(tree[g - 1][a], tree[g - 1][b])
      BY <1>10, <2>1
    <2>7. c[h - 1].hash = tree[g - 1][a] \/ c[h - 1].hash = tree[g - 1][b]
      BY <2>4, <2>5, <2>6, HashesAreFree
    <2>8. c[h - 1].known
      BY <1>11, <2>1, <2>3
    <2> QED
      BY <2>1, <2>7, <2>8
  <1>13. Nat \subseteq N
    <2> HIDE DEF N
    <2> QED
      BY <1>9, <1>12, NaturalInduction
  <1>14. ~(D < d)
    <2> SUFFICES ASSUME D < d PROVE FALSE
      OBVIOUS
    <2>1. D \in N
      BY <1>2, <1>13
    <2>2. At(D) /\ D - D = 0 /\ d - D \in 1..d
      BY <1>2, <2>1
    <2> DEFINE g == d - D
    <2>3. PICK i \in 1..Len(tree[g]) : LeafHash(leaf) = tree[g][i]
      BY <1>6, <2>2
    <2>4. g \in 1..d
      BY <2>2
    <2> HIDE DEF g
    <2>5. PICK a \in 1..Len(tree[g - 1]), b \in 1..Len(tree[g - 1]) :
             tree[g][i] = ConcatAndHash(tree[g - 1][a], tree[g - 1][b])
      BY <1>10, <2>4
    <2> QED
      BY <2>3, <2>5, HashesAreFree
  <1>15. At(d)
    <2>1. d \in N
      BY <1>2, <1>13
    <2> QED
      BY <1>2, <1>14, <2>1
  <1>16. PICK i \in 1..Len(leaves) : c[D - d].hash = LeafHash(leaves[i])
    <2>1. d - d = 0
      BY <1>2
    <2> QED
      BY <1>7, <1>15, <2>1
  <1>17. ~(d < D)
    <2> SUFFICES ASSUME d < D PROVE FALSE
      OBVIOUS
    <2>1. D - d \in 1..D
      BY <1>2
    <2>2. c[D - d].known
      BY <1>15
    <2> DEFINE h == D - d
    <2> HIDE DEF h
    <2>3. PICK other : \/ c[h].hash = ConcatAndHash(c[h - 1].hash, other)
                       \/ c[h].hash = ConcatAndHash(other, c[h - 1].hash)
      BY <1>11, <2>1, <2>2 DEF h
    <2> QED
      BY <1>16, <2>3, HashesAreFree DEF h
  <1>18. D - d = 0
    BY <1>2, <1>14, <1>17
  <1> QED
    BY <1>6, <1>16, <1>18, HashesAreFree

-----------------------------------------------------------------------------
\* The leaf of a message: what MessageLeaves holds at a place.
MessageLeaf(messages, domain, i) ==
    [message |-> messages[i], position |-> i - 1, set_size |-> Len(messages),
     domain_separator |-> domain]

\* The i-th message of a batch is in the i-th leaf.
LEMMA MessageLeavesShape ==
    ASSUME NEW messages, Len(messages) \in Nat, NEW domain
    PROVE  /\ Len(MessageLeaves(messages, domain)) = Len(messages)
           /\ DOMAIN MessageLeaves(messages, domain) = 1..Len(messages)
           /\ \A i \in 1..Len(messages) :
                 MessageLeaves(messages, domain)[i] = MessageLeaf(messages, domain, i)
  <1> DEFINE L == MessageLeaves(messages, domain)
             n == Len(messages)
  <1>1. L = [i \in 1..n |-> L[i]]
    BY DEF MessageLeaves
  <1>2. \A i \in 1..n : L[i] = MessageLeaf(messages, domain, i)
    BY DEF MessageLeaves, MessageLeaf
  <1> HIDE DEF L, n
  <1>3. Len(L) = n /\ DOMAIN L = 1..n
    BY <1>1, SequenceLength DEF n
  <1> QED
    BY <1>2, <1>3 DEF L, n

\* The leaf of a member with its key: what VerifierLeaves holds at a place.
VerifierLeaf(set, domain, i) ==
    [nonce |-> set.nonce, quorum |-> set.quorum, signer_pubkey |-> InOrder(DOMAIN set.signers)[i],
     signer_weight |-> set.signers[InOrder(DOMAIN set.signers)[i]], position |-> i - 1,
     set_size |-> Cardinality(DOMAIN set.signers), domain_separator |-> domain]

\* The i-th member of a verifier set is in the i-th leaf.
LEMMA VerifierLeavesShape ==
    ASSUME NEW set, IsVerifierSet(set), NEW domain
    PROVE  /\ Cardinality(DOMAIN set.signers) \in Nat
           /\ Len(VerifierLeaves(set, domain)) = Cardinality(DOMAIN set.signers)
           /\ DOMAIN VerifierLeaves(set, domain) = 1..Cardinality(DOMAIN set.signers)
           /\ \A i \in 1..Cardinality(DOMAIN set.signers) :
                 VerifierLeaves(set, domain)[i] = VerifierLeaf(set, domain, i)
  <1> DEFINE L == VerifierLeaves(set, domain)
             K == DOMAIN set.signers
             keys == InOrder(K)
             n == Cardinality(K)
  <1>1. IsFiniteSet(K) /\ K \subseteq Nat
    BY ExecuteDataAssumption DEF IsVerifierSet
  <1>2. n \in Nat /\ keys \in [1..n -> K]
    BY <1>1, InOrderLists
  <1>3. Len(keys) = n
    <2>1. keys = [i \in 1..n |-> keys[i]]
      BY <1>2
    <2> HIDE DEF keys, n
    <2> QED
      BY <1>2, <2>1, SequenceLength
  <1>4. L = [i \in 1..Len(keys) |-> L[i]]
    BY DEF VerifierLeaves
  <1>5. \A i \in 1..n : L[i] = VerifierLeaf(set, domain, i)
    <2> SUFFICES ASSUME NEW i \in 1..n PROVE L[i] = VerifierLeaf(set, domain, i)
      OBVIOUS
    <2>1. i \in 1..Len(keys)
      BY <1>3
    <2>2. L[i] = [nonce |-> set.nonce, quorum |-> set.quorum, signer_pubkey |-> keys[i],
                  signer_weight |-> set.signers[keys[i]], position |-> i - 1,
                  set_size |-> Len(keys), domain_separator |-> domain]
      BY <2>1, Zenon DEF VerifierLeaves
    <2> QED
      BY <1>3, <2>2 DEF VerifierLeaf
  <1> HIDE DEF L, keys, n
  <1>6. L = [i \in 1..n |-> L[i]]
    BY <1>3, <1>4
  <1>7. Len(L) = n /\ DOMAIN L = 1..n
    BY <1>2, <1>6, SequenceLength
  <1> QED
    BY <1>2, <1>5, <1>7 DEF L, n

\* A payload's leaves are a sequence, and its root the root of their tree.
LEMMA PayloadLeavesShape ==
    ASSUME NEW p \in Payloads, NEW domain
    PROVE  /\ Len(PayloadLeaves(p, domain)) \in Nat
           /\ DOMAIN PayloadLeaves(p, domain) = 1..Len(PayloadLeaves(p, domain))
           /\ HashPayload(p, domain) = Root(MerkleTree(PayloadLeaves(p, domain)))
  <1>1. CASE IsBatch(p)
    <2>1. p.messages \in Seq(Messages) /\ Len(p.messages) \in Nat
      BY <1>1, ExecuteDataAssumption
    <2>2. /\ PayloadLeaves(p, domain) = MessageLeaves(p.messages, domain)
          /\ HashPayload(p, domain) = Root(MerkleTree(MessageLeaves(p.messages, domain)))
      BY <1>1 DEF PayloadLeaves, HashPayload
    <2> QED
      BY <2>1, <2>2, MessageLeavesShape
  <1>2. CASE ~IsBatch(p)
    <2>1. IsVerifierSet(p.verifier_set)
      BY <1>2, ExecuteDataAssumption
    <2>2. /\ PayloadLeaves(p, domain) = VerifierLeaves(p.verifier_set, domain)
          /\ HashPayload(p, domain) = Root(MerkleTree(VerifierLeaves(p.verifier_set, domain)))
      BY <1>2 DEF PayloadLeaves, HashPayload, VerifierSetHash
    <2> QED
      BY <2>1, <2>2, VerifierLeavesShape
  <1> QED
    BY <1>1, <1>2

-----------------------------------------------------------------------------
\* What encode was called with and can be merklized.
SourceInv ==
    /\ source.verifier_set \in VerifierSets
    /\ source.signers \in SUBSET VerifierKeys
    /\ source.domain_separator \in DomainSeparators
    /\ source.payload \in Payloads
    /\ Merklizable(VerifierLeaves(source.verifier_set, source.domain_separator))
    /\ Merklizable(PayloadLeaves(source.payload, source.domain_separator))

\* The execute data is the one encode makes of its arguments.
DataInv ==
    /\ data.encoded
    /\ data.signing_verifier_set_merkle_root =
          VerifierSetHash(source.verifier_set, source.domain_separator)
    /\ data.signing_verifier_set_leaves =
          SigningVerifierSetInfos(source.verifier_set, source.signers, source.domain_separator,
                                  source.payload)
    /\ data.payload_merkle_root = HashPayload(source.payload, source.domain_separator)
    /\ data.payload_items = MerklizedPayload(source.payload, source.domain_separator)

NothingYet == data = NoData /\ accepted = {} /\ counted = {}

\* The inductive invariant: nothing is accepted before there is execute data, and
\* afterwards the data stays what encode made of its arguments.
IInv == \/ NothingYet
        \/ SourceInv /\ DataInv /\ AcceptedWereEncoded /\ CountedAsIntended

\* NoData is not execute data.
LEMMA NotEncoded == NothingYet => ~data.encoded
  <1>1. [encoded |-> FALSE].encoded = FALSE
    OBVIOUS
  <1> QED
    BY <1>1 DEF NothingYet, NoData

\* The set that signs and what can be merklized, unfolded.
LEMMA SigningLeaves ==
    ASSUME SourceInv
    PROVE  /\ IsVerifierSet(source.verifier_set)
           /\ Len(VerifierLeaves(source.verifier_set, source.domain_separator)) \in Nat \ {0}
           /\ Len(PayloadLeaves(source.payload, source.domain_separator)) \in Nat \ {0}
  <1>1. IsVerifierSet(source.verifier_set)
    BY ExecuteDataAssumption DEF SourceInv
  <1>2. \A n \in 1..U16Max : n \in Nat \ {0}
    BY ExecuteDataAssumption
  <1> QED
    BY <1>1, <1>2 DEF SourceInv, Merklizable

\* A claimed verifier leaf claims a number as the size of its tree.
LEMMA ClaimedSize ==
    ASSUME NEW leaf \in ClaimedVerifierLeaves
    PROVE  leaf.set_size \in Nat
  <1> DEFINE Leaves == UNION {Range(VerifierLeaves(v, d)) : v \in VerifierSets, d \in DomainSeparators}
  <1>1. PICK l \in Leaves, p \in 0..U16Max, n \in 0..U16Max :
             leaf = PlacedAt(l, p, n)
    <2>1. ClaimedVerifierLeaves = {PlacedAt(l, p, n) : l \in Leaves, p \in 0..U16Max, n \in 0..U16Max}
      BY DEF ClaimedVerifierLeaves
    <2> HIDE DEF Leaves
    <2> QED
      BY <2>1
  <1>2. PICK v \in VerifierSets, d \in DomainSeparators : l \in Range(VerifierLeaves(v, d))
    OBVIOUS
  <1>3. n \in Nat
    BY ExecuteDataAssumption
  <1>4. IsVerifierSet(v)
    BY ExecuteDataAssumption
  <1>5. PICK i \in 1..Cardinality(DOMAIN v.signers) : l = VerifierLeaf(v, d, i)
    BY <1>2, <1>4, VerifierLeavesShape DEF Range
  <1>6. "set_size" \in DOMAIN l
    BY <1>5 DEF VerifierLeaf
  <1>7. leaf.set_size = n
    BY <1>1, <1>6 DEF PlacedAt
  <1> QED
    BY <1>3, <1>7

\* A message leaf that the gateway accepts is a leaf of the batch; a rotation has none.
LEMMA AcceptedLeaf ==
    ASSUME SourceInv, DataInv, NEW leaf \in ClaimedMessageLeaves, NEW proof,
           MessageIsAccepted(leaf, proof)
    PROVE  /\ IsBatch(source.payload)
           /\ leaf \in Range(PayloadLeaves(source.payload, source.domain_separator))
  <1> DEFINE p == source.payload
             d == source.domain_separator
             L == PayloadLeaves(p, d)
  <1>1. p \in Payloads /\ Len(L) \in Nat \ {0}
    BY SigningLeaves DEF SourceInv
  <1>2. leaf.set_size \in Nat /\ "message" \in DOMAIN leaf
    BY ExecuteDataAssumption DEF ClaimedMessageLeaves
  <1>3. Verify(Root(MerkleTree(L)), leaf.position, LeafHash(leaf), leaf.set_size, proof)
    <2>1. data.payload_merkle_root = Root(MerkleTree(L))
      BY <1>1, PayloadLeavesShape DEF DataInv
    <2> QED
      BY <2>1 DEF MessageIsAccepted
  <1>4. DOMAIN L = 1..Len(L)
    BY <1>1, PayloadLeavesShape
  <1> HIDE DEF L
  <1>5. PICK i \in 1..Len(L) : leaf = L[i]
    BY <1>1, <1>2, <1>3, VerifiedIsLeaf
  <1>6. leaf \in Range(L)
    BY <1>4, <1>5 DEF Range
  <1>7. IsBatch(p)
    <2> SUFFICES ASSUME ~IsBatch(p) PROVE FALSE
      OBVIOUS
    <2> DEFINE v == p.verifier_set
    <2>1. IsVerifierSet(v) /\ L = VerifierLeaves(v, d)
      BY <1>1, ExecuteDataAssumption DEF L, PayloadLeaves
    <2> HIDE DEF v
    <2>2. leaf = VerifierLeaf(v, d, i)
      BY <1>5, <2>1, VerifierLeavesShape
    <2>3. "message" \notin DOMAIN leaf
      BY <2>2 DEF VerifierLeaf
    <2> QED
      BY <1>2, <2>3
  <1> QED
    BY <1>6, <1>7 DEF L

\* A signature that the gateway accepts comes with the leaf of a member of the set
\* and is counted for the kind of payload that was signed.
LEMMA CountedLeaf ==
    ASSUME SourceInv, DataInv, NEW leaf \in ClaimedVerifierLeaves, NEW proof, NEW type, NEW key,
           SignatureIsAccepted(leaf, proof, type,
                               Signature(key, source.payload, source.domain_separator))
    PROVE  /\ leaf \in Range(VerifierLeaves(source.verifier_set, source.domain_separator))
           /\ type = PayloadTypeOf(source.payload)
  <1> DEFINE v == source.verifier_set
             d == source.domain_separator
             L == VerifierLeaves(v, d)
             t == PayloadTypeOf(source.payload)
             r == HashPayload(source.payload, d)
             s == Signature(key, source.payload, d)
  <1>1. IsVerifierSet(v) /\ Len(L) \in Nat \ {0}
    BY SigningLeaves
  <1>2. Verify(Root(MerkleTree(L)), leaf.position, LeafHash(leaf), leaf.set_size, proof)
    BY DEF SignatureIsAccepted, DataInv, VerifierSetHash
  <1>3. DOMAIN L = 1..Len(L)
    BY <1>1, VerifierLeavesShape
  <1>4. s.digest = PrefixedMessageHash(type, r)
    BY DEF SignatureIsAccepted, DataInv
  <1>5. s.digest = PrefixedMessageHash(t, r)
    BY DEF Signature
  <1>6. leaf.set_size \in Nat
    BY ClaimedSize
  <1> HIDE DEF L, t, r, s
  <1>7. PICK i \in 1..Len(L) : leaf = L[i]
    BY <1>1, <1>2, <1>6, VerifiedIsLeaf
  <1>8. leaf \in Range(L)
    BY <1>3, <1>7 DEF Range
  <1>9. type = t
    <2>1. [payload_type |-> type, offchain |-> r].payload_type = type
      OBVIOUS
    <2>2. [payload_type |-> t, offchain |-> r].payload_type = t
      OBVIOUS
    <2> QED
      BY <1>4, <1>5, <2>1, <2>2 DEF PrefixedMessageHash
  <1> QED
    BY <1>8, <1>9 DEF L, t

\* The inductive invariant holds of every behaviour.
THEOREM ExecuteDataInvariant == Spec => []IInv
  <1>1. Init => IInv
    BY DEF Init, IInv, NothingYet
  <1>2. IInv /\ [Next]_vars => IInv'
    <2> SUFFICES ASSUME IInv, [Next]_vars PROVE IInv'
      OBVIOUS
    <2>1. ASSUME NEW set \in VerifierSets, NEW signers \in SUBSET VerifierKeys,
                 NEW domain \in DomainSeparators, NEW payload \in Payloads,
                 Encode(set, signers, domain, payload)
          PROVE  IInv'
      <3>1. NothingYet
        <4>1. data = NoData
          BY <2>1 DEF Encode
        <4>2. ~data.encoded
          BY <4>1 DEF NoData
        <4> QED
          BY <4>2 DEF IInv, DataInv
      <3>2. accepted' = {} /\ counted' = {}
        BY <2>1, <3>1 DEF NothingYet, Encode
      <3>3. /\ source'.verifier_set = set /\ source'.signers = signers
            /\ source'.domain_separator = domain /\ source'.payload = payload
        BY <2>1 DEF Encode
      <3>4. SourceInv'
        BY <2>1, <3>3 DEF SourceInv, Encode
      <3>5. DataInv'
        <4> DEFINE r == VerifierSetHash(set, domain)
                   l == SigningVerifierSetInfos(set, signers, domain, payload)
                   q == HashPayload(payload, domain)
                   i == MerklizedPayload(payload, domain)
        <4>1. data' = [encoded |-> TRUE, signing_verifier_set_merkle_root |-> r,
                       signing_verifier_set_leaves |-> l, payload_merkle_root |-> q,
                       payload_items |-> i]
          BY <2>1 DEF Encode
        <4> HIDE DEF r, l, q, i
        <4>2. /\ data'.encoded /\ data'.signing_verifier_set_merkle_root = r
              /\ data'.signing_verifier_set_leaves = l
              /\ data'.payload_merkle_root = q /\ data'.payload_items = i
          BY <4>1
        <4> QED
          BY <3>3, <4>2 DEF DataInv, r, l, q, i
      <3>6. AcceptedWereEncoded' /\ CountedAsIntended'
        BY <3>2 DEF AcceptedWereEncoded, CountedAsIntended
      <3> QED
        BY <3>4, <3>5, <3>6 DEF IInv
    <2>2. ASSUME NEW leaf \in ClaimedMessageLeaves, NEW proof, ApproveMessage(leaf, proof)
          PROVE  IInv'
      <3>1. SourceInv /\ DataInv /\ AcceptedWereEncoded /\ CountedAsIntended
        BY <2>2, NotEncoded DEF IInv, ApproveMessage
      <3>2. /\ IsBatch(source.payload)
            /\ leaf \in Range(PayloadLeaves(source.payload, source.domain_separator))
        BY <2>2, <3>1, AcceptedLeaf DEF ApproveMessage
      <3>3. accepted' = accepted \cup {leaf} /\ UNCHANGED <<source, data, counted>>
        BY <2>2 DEF ApproveMessage
      <3>4. SourceInv' /\ DataInv' /\ CountedAsIntended'
        BY <3>1, <3>3 DEF SourceInv, DataInv, CountedAsIntended
      <3>5. AcceptedWereEncoded'
        BY <3>1, <3>2, <3>3 DEF AcceptedWereEncoded
      <3> QED
        BY <3>4, <3>5 DEF IInv
    <2>3. ASSUME NEW leaf \in ClaimedVerifierLeaves, NEW proof, NEW type, NEW key,
                 VerifySignature(leaf, proof, type,
                                 Signature(key, source.payload, source.domain_separator))
          PROVE  IInv'
      <3>1. SourceInv /\ DataInv /\ AcceptedWereEncoded /\ CountedAsIntended
        BY <2>3, NotEncoded DEF IInv, VerifySignature
      <3>2. /\ leaf \in Range(VerifierLeaves(source.verifier_set, source.domain_separator))
            /\ type = PayloadTypeOf(source.payload)
        BY <2>3, <3>1, CountedLeaf DEF VerifySignature
      <3> DEFINE c == [leaf |-> leaf, payload_type |-> type]
      <3>3. counted' = counted \cup {c} /\ UNCHANGED <<source, data, accepted>>
        BY <2>3 DEF VerifySignature
      <3>4. c.leaf = leaf /\ c.payload_type = type
        OBVIOUS
      <3> HIDE DEF c
      <3>5. SourceInv' /\ DataInv'
        BY <3>1, <3>3 DEF SourceInv, DataInv
      <3>6. CountedAsIntended'
        BY <3>1, <3>2, <3>3, <3>4 DEF CountedAsIntended
      <3>7. AcceptedWereEncoded'
        BY <3>1, <3>2, <3>3, <3>4 DEF AcceptedWereEncoded
      <3> QED
        BY <3>5, <3>6, <3>7 DEF IInv
    <2>4. CASE UNCHANGED vars
      BY <2>4 DEF vars, IInv, NothingYet, SourceInv, DataInv, AcceptedWereEncoded, CountedAsIntended
    <2>5. CASE Present
      <3>1. \/ \E leaf \in ClaimedMessageLeaves : \E proof : ApproveMessage(leaf, proof)
            \/ \E leaf \in ClaimedVerifierLeaves : \E proof, type, key :
                  VerifySignature(leaf, proof, type,
                                  Signature(key, source.payload, source.domain_separator))
        BY <2>5 DEF Present
      <3> QED
        BY <2>2, <2>3, <3>1
    <2> QED
      BY <2>1, <2>4, <2>5 DEF Next
  <1> QED
    BY <1>1, <1>2, PTL DEF Spec

\* Whatever leaves and proofs relayers make up for trees of any size, the gateway
\* takes only leaves of the batch and of the verifier set that were encoded.
THEOREM OnlyEncodedAccepted == Spec => []AcceptedWereEncoded
  <1>1. IInv => AcceptedWereEncoded
    BY NotEncoded DEF IInv, AcceptedWereEncoded
  <1> QED
    BY <1>1, ExecuteDataInvariant, PTL

\* A signature counts only towards the kind of payload that was signed.
THEOREM SignaturesKeepIntent == Spec => []CountedAsIntended
  <1>1. IInv => CountedAsIntended
    BY DEF IInv, NothingYet, CountedAsIntended
  <1> QED
    BY <1>1, ExecuteDataInvariant, PTL

-----------------------------------------------------------------------------
\* A tree of depth d over the leaves L, layer by layer.
Layered(L, T, d) ==
    /\ d \in Nat \ {0}
    /\ Root(T) = T[d][1]
    /\ Len(T[0]) = Len(L)
    /\ \A i \in 1..Len(L) : T[0][i] = LeafHash(L[i])
    /\ \A h \in 0..d : Len(T[h]) \in Nat \ {0}
    /\ Len(T[d]) = 1
    /\ \A h \in 1..d : T[h] = ParentLayer(T[h - 1])

\* That is what MerkleTree makes.
LEMMA TreeFacts ==
    ASSUME NEW L, Len(L) \in Nat \ {0}
    PROVE  Layered(L, MerkleTree(L), TreeDepth(Len(L)))
  <1> DEFINE T == MerkleTree(L)
             d == TreeDepth(Len(L))
  <1>1. d \in Nat \ {0}
    BY Depth
  <1>2. IsTree(L, T)
    BY MerkleTreeIsTree
  <1> HIDE DEF T
  <1>3. \A h \in 0..d : Len(T[h]) \in Nat \ {0} /\ Len(T[h]) <= 2^(d - h)
    BY <1>2, LayerSizes
  <1>4. Len(T[0]) = Len(L) /\ \A i \in 1..Len(L) : T[0][i] = LeafHash(L[i])
    <2>1. T[0] = [i \in 1..Len(L) |-> T[0][i]]
      BY <1>2 DEF IsTree
    <2>2. \A i \in 1..Len(L) : T[0][i] = LeafHash(L[i])
      BY <1>2 DEF IsTree
    <2> QED
      BY <2>1, <2>2, SequenceLength
  <1>5. \A h \in 1..d : T[h] = ParentLayer(T[h - 1])
    BY <1>2 DEF IsTree
  <1>6. Root(T) = T[d][1]
    BY <1>4 DEF Root
  <1> HIDE DEF d
  <1>7. Len(T[d]) = 1
    <2>1. d \in 0..d /\ d - d = 0
      BY <1>1
    <2>2. 2^0 = 1
      OBVIOUS
    <2>3. Len(T[d]) <= 2^(d - d) /\ Len(T[d]) \in Nat \ {0}
      BY <1>3, <2>1
    <2> DEFINE n == Len(T[d])
    <2>4. n <= 1 /\ n \in Nat \ {0}
      BY <2>1, <2>2, <2>3
    <2> HIDE DEF n
    <2>5. n = 1
      BY <2>4
    <2> QED
      BY <2>5 DEF n
  <1> QED
    BY <1>1, <1>3, <1>4, <1>5, <1>6, <1>7 DEF Layered, T, d

\* Every hash of a layer is under a parent.
LEMMA ChildOf ==
    ASSUME NEW layer, Len(layer) \in Nat \ {0}, NEW i \in 1..Len(layer)
    PROVE  \E q \in 1..((Len(layer) + 1) \div 2) : \E other :
              \/ ParentLayer(layer)[q] = ConcatAndHash(layer[i], other)
              \/ ParentLayer(layer)[q] = ConcatAndHash(other, layer[i])
  <1> DEFINE n == Len(layer)
             q == (i + 1) \div 2
  <1>1. q \in 1..((n + 1) \div 2)
    OBVIOUS
  <1>2. PICK j \in 1..n, k \in 1..n :
           /\ ParentLayer(layer)[q] = ConcatAndHash(layer[j], layer[k])
           /\ j = 2 * q - 1 /\ k = IF 2 * q <= n THEN 2 * q ELSE 2 * q - 1
    BY <1>1, ParentOf
  <1>3. i = j \/ i = k
    BY <1>2
  <1> HIDE DEF q
  <1> QED
    BY <1>1, <1>2, <1>3

\* The first leaves and the depths of trees with the same root agree: going down
\* on the left, both trees come to a leaf at once.
LEMMA SameFirstLeaf ==
    ASSUME NEW L, Len(L) \in Nat \ {0}, NEW M, Len(M) \in Nat \ {0},
           Root(MerkleTree(L)) = Root(MerkleTree(M)),
           TreeDepth(Len(L)) <= TreeDepth(Len(M))
    PROVE  TreeDepth(Len(L)) = TreeDepth(Len(M)) /\ L[1] = M[1]
  <1> DEFINE T == MerkleTree(L)
             U == MerkleTree(M)
             d == TreeDepth(Len(L))
             e == TreeDepth(Len(M))
             N == {j \in Nat : j <= d => T[d - j][1] = U[e - j][1]}
  <1>1. Layered(L, T, d) /\ Layered(M, U, e)
    BY TreeFacts
  <1> HIDE DEF T, U
  <1>2. d \in Nat \ {0} /\ e \in Nat \ {0}
    BY <1>1 DEF Layered
  <1>3. T[d][1] = U[e][1] /\ d <= e
    BY <1>1 DEF Layered, T, U
  <1> HIDE DEF d, e
  <1>4. ASSUME NEW layer, Len(layer) \in Nat \ {0}
        PROVE  \E k \in 1..Len(layer) : ParentLayer(layer)[1] = ConcatAndHash(layer[1], layer[k])
    <2>1. 1 \in 1..((Len(layer) + 1) \div 2) /\ 2 * 1 - 1 = 1
      BY <1>4
    <2> QED
      BY <1>4, <2>1, ParentOf
  <1>5. ASSUME NEW h \in 1..d PROVE \E x : T[h][1] = ConcatAndHash(T[h - 1][1], x)
    <2>1. h - 1 \in 0..d
      BY <1>2
    <2>2. T[h] = ParentLayer(T[h - 1]) /\ Len(T[h - 1]) \in Nat \ {0}
      BY <1>1, <2>1 DEF Layered
    <2> QED
      BY <1>4, <2>2
  <1>6. ASSUME NEW h \in 1..e PROVE \E x : U[h][1] = ConcatAndHash(U[h - 1][1], x)
    <2>1. h - 1 \in 0..e
      BY <1>2
    <2>2. U[h] = ParentLayer(U[h - 1]) /\ Len(U[h - 1]) \in Nat \ {0}
      BY <1>1, <2>1 DEF Layered
    <2> QED
      BY <1>4, <2>2
  <1>7. 0 \in N
    <2>1. d - 0 = d /\ e - 0 = e
      BY <1>2
    <2> QED
      BY <1>3, <2>1
  <1>8. ASSUME NEW j \in Nat, j \in N PROVE j + 1 \in N
    <2> SUFFICES ASSUME j + 1 <= d PROVE T[d - (j + 1)][1] = U[e - (j + 1)][1]
      OBVIOUS
    <2> DEFINE g == d - j
               h == e - j
    <2>1. g \in 1..d /\ h \in 1..e /\ d - (j + 1) = g - 1 /\ e - (j + 1) = h - 1 /\ j <= d
      BY <1>2, <1>3
    <2>2. T[g][1] = U[h][1]
      BY <1>8, <2>1
    <2> HIDE DEF g, h
    <2>3. PICK x : T[g][1] = ConcatAndHash(T[g - 1][1], x)
      BY <1>5, <2>1
    <2>4. PICK y : U[h][1] = ConcatAndHash(U[h - 1][1], y)
      BY <1>6, <2>1
    <2>5. T[g - 1][1] = U[h - 1][1]
      <3>1. ConcatAndHash(T[g - 1][1], x) = ConcatAndHash(U[h - 1][1], y)
        BY <2>2, <2>3, <2>4
      <3> QED
        BY <3>1, HashesAreFree
    <2> QED
      BY <2>1, <2>5
  <1>9. d \in N
    <2> HIDE DEF N
    <2> QED
      BY <1>2, <1>7, <1>8, NaturalInduction
  <1>10. T[0][1] = U[e - d][1] /\ 1 \in 1..Len(L) /\ 1 \in 1..Len(M)
    <2>1. d - d = 0 /\ d <= d
      BY <1>2
    <2> QED
      BY <1>9, <2>1
  <1>11. d = e
    <2> SUFFICES ASSUME d # e PROVE FALSE
      OBVIOUS
    <2> DEFINE h == e - d
    <2>1. h \in 1..e
      BY <1>2, <1>3
    <2>2. T[0][1] = U[h][1]
      BY <1>10
    <2> HIDE DEF h
    <2>3. PICK y : U[h][1] = ConcatAndHash(U[h - 1][1], y)
      BY <1>6, <2>1
    <2>4. T[0][1] = LeafHash(L[1])
      BY <1>1, <1>10 DEF Layered
    <2> QED
      BY <2>2, <2>3, <2>4, HashesAreFree
  <1>12. LeafHash(L[1]) = LeafHash(M[1])
    <2>1. e - d = 0
      BY <1>2, <1>11
    <2>2. T[0][1] = LeafHash(L[1]) /\ U[0][1] = LeafHash(M[1])
      BY <1>1, <1>10 DEF Layered
    <2> QED
      BY <1>10, <2>1, <2>2
  <1> QED
    BY <1>11, <1>12, HashesAreFree DEF d, e

\* Leaves that say where they are and how many there are.
Placed(L) ==
    /\ Len(L) \in Nat \ {0}
    /\ \A i \in 1..Len(L) : L[i].position = i - 1 /\ L[i].set_size = Len(L)

\* Trees of the same depth with the same root have the same hashes: each hash of
\* one, from the root down, is one of the other's.
LEMMA SameHashes ==
    ASSUME NEW L, Len(L) \in Nat \ {0}, NEW M, Len(M) \in Nat \ {0},
           Root(MerkleTree(L)) = Root(MerkleTree(M)),
           TreeDepth(Len(L)) = TreeDepth(Len(M)),
           NEW i \in 1..Len(M)
    PROVE  \E k \in 1..Len(L) : M[i] = L[k]
  <1> DEFINE T == MerkleTree(L)
             U == MerkleTree(M)
             d == TreeDepth(Len(L))
             In(h) == \A a \in 1..Len(U[h]) : \E b \in 1..Len(T[h]) : U[h][a] = T[h][b]
             N == {j \in Nat : j <= d => In(d - j)}
  <1>1. Layered(L, T, d) /\ Layered(M, U, d)
    BY TreeFacts
  <1> HIDE DEF T, U
  <1>2. d \in Nat \ {0}
    BY <1>1 DEF Layered
  <1>3. T[d][1] = U[d][1] /\ Len(U[d]) = 1 /\ Len(T[d]) = 1
    BY <1>1 DEF Layered, T, U
  <1> HIDE DEF d
  <1>4. 0 \in N
    <2>1. d - 0 = d
      BY <1>2
    <2>2. \A a \in 1..1 : a = 1
      OBVIOUS
    <2> QED
      BY <1>3, <2>1, <2>2
  <1>5. ASSUME NEW j \in Nat, j \in N PROVE j + 1 \in N
    <2> SUFFICES ASSUME j + 1 <= d PROVE In(d - (j + 1))
      OBVIOUS
    <2> DEFINE h == d - j
               l == h - 1
    <2>1. h \in 1..d /\ l \in 0..d /\ d - (j + 1) = l /\ j <= d
      BY <1>2
    <2>2. In(h)
      BY <1>5, <2>1
    <2>3. /\ T[h] = ParentLayer(T[l]) /\ Len(T[l]) \in Nat \ {0}
          /\ U[h] = ParentLayer(U[l]) /\ Len(U[l]) \in Nat \ {0}
      BY <1>1, <2>1 DEF Layered
    <2> HIDE DEF h, l
    <2>4. ASSUME NEW a \in 1..Len(U[l]) PROVE \E b \in 1..Len(T[l]) : U[l][a] = T[l][b]
      <3>1. PICK q \in 1..((Len(U[l]) + 1) \div 2) : \E other :
               \/ U[h][q] = ConcatAndHash(U[l][a], other)
               \/ U[h][q] = ConcatAndHash(other, U[l][a])
        <4> DEFINE layer == U[l]
        <4>1. Len(layer) \in Nat \ {0} /\ a \in 1..Len(layer) /\ U[h] = ParentLayer(layer)
          BY <2>3
        <4> HIDE DEF layer
        <4>2. \E q \in 1..((Len(layer) + 1) \div 2) : \E other :
                 \/ ParentLayer(layer)[q] = ConcatAndHash(layer[a], other)
                 \/ ParentLayer(layer)[q] = ConcatAndHash(other, layer[a])
          BY <4>1, ChildOf
        <4> QED
          BY <4>1, <4>2 DEF layer
      <3>2. PICK other : \/ U[h][q] = ConcatAndHash(U[l][a], other)
                         \/ U[h][q] = ConcatAndHash(other, U[l][a])
        BY <3>1
      <3>3. q \in 1..Len(U[h])
        BY <2>3, <3>1, ParentCount
      <3>4. PICK r \in 1..Len(T[h]) : U[h][q] = T[h][r]
        BY <2>2, <3>3
      <3>5. r \in 1..((Len(T[l]) + 1) \div 2)
        BY <2>3, ParentCount
      <3>6. PICK x \in 1..Len(T[l]), y \in 1..Len(T[l]) : T[h][r] = ConcatAndHash(T[l][x], T[l][y])
        <4> DEFINE layer == T[l]
        <4>1. /\ Len(layer) \in Nat \ {0} /\ T[h] = ParentLayer(layer)
              /\ r \in 1..((Len(layer) + 1) \div 2)
          BY <2>3, <3>5
        <4> HIDE DEF layer
        <4>2. \E x \in 1..Len(layer), y \in 1..Len(layer) :
                 ParentLayer(layer)[r] = ConcatAndHash(layer[x], layer[y])
          BY <4>1, ParentOf
        <4> QED
          BY <4>1, <4>2 DEF layer
      <3>7. U[l][a] = T[l][x] \/ U[l][a] = T[l][y]
        BY <3>2, <3>4, <3>6, HashesAreFree
      <3> QED
        BY <3>7
    <2> QED
      BY <2>1, <2>4
  <1>6. In(0)
    <2>1. d \in N
      <3> HIDE DEF N
      <3> QED
        BY <1>2, <1>4, <1>5, NaturalInduction
    <2>2. d - d = 0 /\ d <= d
      BY <1>2
    <2> QED
      BY <2>1, <2>2
  <1>7. PICK k \in 1..Len(L) : U[0][i] = T[0][k]
    BY <1>1, <1>6 DEF Layered
  <1>8. U[0][i] = LeafHash(M[i]) /\ T[0][k] = LeafHash(L[k])
    BY <1>1 DEF Layered
  <1> QED
    BY <1>7, <1>8, HashesAreFree

\* A root stands for one sequence of leaves.
LEMMA RootNamesLeaves ==
    ASSUME NEW L, Placed(L), NEW M, Placed(M), Root(MerkleTree(L)) = Root(MerkleTree(M))
    PROVE  Len(L) = Len(M) /\ \A i \in 1..Len(L) : L[i] = M[i]
  <1>1. Len(L) \in Nat \ {0} /\ Len(M) \in Nat \ {0}
    BY DEF Placed
  <1>2. TreeDepth(Len(L)) \in Nat /\ TreeDepth(Len(M)) \in Nat
    BY <1>1, Depth
  <1>3. TreeDepth(Len(L)) <= TreeDepth(Len(M)) \/ TreeDepth(Len(M)) <= TreeDepth(Len(L))
    BY <1>2
  <1>4. TreeDepth(Len(L)) = TreeDepth(Len(M)) /\ L[1] = M[1]
    BY <1>1, <1>3, SameFirstLeaf
  <1>5. 1 \in 1..Len(L) /\ 1 \in 1..Len(M)
    BY <1>1
  <1>6. Len(L) = Len(M)
    BY <1>4, <1>5 DEF Placed
  <1>7. ASSUME NEW i \in 1..Len(L) PROVE L[i] = M[i]
    <2>1. i \in 1..Len(M)
      BY <1>6
    <2>2. PICK k \in 1..Len(L) : M[i] = L[k]
      BY <1>1, <1>4, <2>1, SameHashes
    <2>3. M[i].position = i - 1 /\ L[k].position = k - 1
      BY <2>1 DEF Placed
    <2>4. i = k
      BY <1>1, <2>2, <2>3
    <2> QED
      BY <2>2, <2>4
  <1> QED
    BY <1>6, <1>7

\* The leaves of a payload say where they are.
LEMMA PayloadPlaced ==
    ASSUME NEW p \in Payloads, NEW d, Merklizable(PayloadLeaves(p, d))
    PROVE  Placed(PayloadLeaves(p, d))
  <1> DEFINE L == PayloadLeaves(p, d)
  <1>1. Len(L) \in Nat \ {0}
    <2>1. \A n \in 1..U16Max : n \in Nat \ {0}
      BY ExecuteDataAssumption
    <2> QED
      BY <2>1 DEF Merklizable
  <1>2. ASSUME NEW i \in 1..Len(L) PROVE L[i].position = i - 1 /\ L[i].set_size = Len(L)
    <2>1. CASE IsBatch(p)
      <3>1. Len(p.messages) \in Nat
        BY <2>1, ExecuteDataAssumption
      <3>2. L = MessageLeaves(p.messages, d)
        BY <2>1 DEF PayloadLeaves
      <3>3. Len(L) = Len(p.messages) /\ L[i] = MessageLeaf(p.messages, d, i)
        BY <3>1, <3>2, MessageLeavesShape
      <3> HIDE DEF L
      <3> QED
        BY <3>3 DEF MessageLeaf
    <2>2. CASE ~IsBatch(p)
      <3> DEFINE v == p.verifier_set
      <3>1. IsVerifierSet(v)
        BY <2>2, ExecuteDataAssumption
      <3>2. L = VerifierLeaves(v, d)
        BY <2>2 DEF PayloadLeaves
      <3> HIDE DEF v, L
      <3>3. Len(L) = Cardinality(DOMAIN v.signers) /\ L[i] = VerifierLeaf(v, d, i)
        BY <3>1, <3>2, VerifierLeavesShape
      <3> QED
        BY <3>3 DEF VerifierLeaf
    <2> QED
      BY <2>1, <2>2
  <1> QED
    BY <1>1, <1>2 DEF Placed

\* As many members in both sets, with the same leaves.
SameLeaves(v, d, w, e) ==
    /\ Cardinality(DOMAIN v.signers) = Cardinality(DOMAIN w.signers)
    /\ \A i \in 1..Cardinality(DOMAIN v.signers) : VerifierLeaf(v, d, i) = VerifierLeaf(w, e, i)

\* Verifier sets with the same leaves are the same.
LEMMA LeavesNameSet ==
    ASSUME NEW v, IsVerifierSet(v), NEW w, IsVerifierSet(w), NEW d, NEW e,
           DOMAIN v.signers # {}, SameLeaves(v, d, w, e)
    PROVE  v = w /\ d = e
  <1> DEFINE K == DOMAIN v.signers
             J == DOMAIN w.signers
             n == Cardinality(K)
  <1>1. IsFiniteSet(K) /\ K \subseteq Nat /\ IsFiniteSet(J) /\ J \subseteq Nat
    BY ExecuteDataAssumption DEF IsVerifierSet
  <1>2. ASSUME NEW i \in 1..n
        PROVE  /\ v.nonce = w.nonce /\ v.quorum = w.quorum /\ d = e
               /\ InOrder(K)[i] = InOrder(J)[i]
               /\ v.signers[InOrder(K)[i]] = w.signers[InOrder(J)[i]]
    <2> DEFINE x == VerifierLeaf(v, d, i)
               y == VerifierLeaf(w, e, i)
    <2>1. x = y
      BY <1>2 DEF SameLeaves
    <2>2. /\ x.nonce = v.nonce /\ x.quorum = v.quorum /\ x.domain_separator = d
          /\ x.signer_pubkey = InOrder(K)[i] /\ x.signer_weight = v.signers[InOrder(K)[i]]
      BY DEF VerifierLeaf
    <2>3. /\ y.nonce = w.nonce /\ y.quorum = w.quorum /\ y.domain_separator = e
          /\ y.signer_pubkey = InOrder(J)[i] /\ y.signer_weight = w.signers[InOrder(J)[i]]
      BY DEF VerifierLeaf
    <2> HIDE DEF x, y
    <2> QED
      BY <2>1, <2>2, <2>3
  <1> HIDE DEF K, J
  <1>3. /\ n \in Nat /\ InOrder(K) \in [1..n -> K]
        /\ \A k \in K : \E i \in 1..n : InOrder(K)[i] = k
    BY <1>1, InOrderLists
  <1>4. /\ InOrder(J) \in [1..n -> J]
        /\ \A k \in J : \E i \in 1..n : InOrder(J)[i] = k
    <2>1. n = Cardinality(J)
      BY DEF SameLeaves, K, J
    <2> QED
      BY <1>1, <2>1, InOrderLists
  <1> HIDE DEF n
  <1>5. ASSUME NEW k \in K PROVE k \in J /\ v.signers[k] = w.signers[k]
    <2>1. PICK i \in 1..n : InOrder(K)[i] = k
      BY <1>3
    <2> QED
      BY <1>2, <1>4, <2>1
  <1>6. ASSUME NEW k \in J PROVE k \in K
    <2>1. PICK i \in 1..n : InOrder(J)[i] = k
      BY <1>4
    <2> QED
      BY <1>2, <1>3, <2>1
  <1>7. K = J
    BY <1>5, <1>6
  <1>8. v.signers = w.signers
    <2>1. v.signers = [k \in K |-> v.signers[k]] /\ w.signers = [k \in J |-> w.signers[k]]
      BY DEF IsVerifierSet, K, J
    <2> QED
      BY <1>5, <1>7, <2>1
  <1>9. v.nonce = w.nonce /\ v.quorum = w.quorum /\ d = e
    <2>1. PICK k \in K : TRUE
      BY DEF K
    <2>2. PICK i \in 1..n : InOrder(K)[i] = k
      BY <1>3, <2>1
    <2> QED
      BY <1>2
  <1> QED
    BY <1>8, <1>9 DEF IsVerifierSet

\* Payloads with the same leaves are the same.
LEMMA LeavesNamePayload ==
    ASSUME NEW p \in Payloads, NEW q \in Payloads, NEW d, NEW e,
           Len(PayloadLeaves(p, d)) \in Nat \ {0},
           Len(PayloadLeaves(p, d)) = Len(PayloadLeaves(q, e)),
           \A i \in 1..Len(PayloadLeaves(p, d)) : PayloadLeaves(p, d)[i] = PayloadLeaves(q, e)[i]
    PROVE  p = q /\ d = e
  <1> DEFINE L == PayloadLeaves(p, d)
             M == PayloadLeaves(q, e)
  <1>1. 1 \in 1..Len(L) /\ L[1] = M[1]
    OBVIOUS
  <1>2. ASSUME NEW r \in Payloads, NEW f, IsBatch(r)
        PROVE  /\ r = [messages |-> r.messages] /\ r.messages \in Seq(Messages)
               /\ Len(PayloadLeaves(r, f)) = Len(r.messages)
               /\ \A i \in 1..Len(r.messages) : PayloadLeaves(r, f)[i] = MessageLeaf(r.messages, f, i)
    <2>1. r = [messages |-> r.messages] /\ r.messages \in Seq(Messages)
      BY <1>2, ExecuteDataAssumption
    <2>2. PayloadLeaves(r, f) = MessageLeaves(r.messages, f) /\ Len(r.messages) \in Nat
      BY <1>2, <2>1 DEF PayloadLeaves
    <2> QED
      BY <2>1, <2>2, MessageLeavesShape
  <1>3. ASSUME NEW r \in Payloads, NEW f, ~IsBatch(r)
        PROVE  /\ r = [verifier_set |-> r.verifier_set] /\ IsVerifierSet(r.verifier_set)
               /\ Len(PayloadLeaves(r, f)) = Cardinality(DOMAIN r.verifier_set.signers)
               /\ \A i \in 1..Cardinality(DOMAIN r.verifier_set.signers) :
                     PayloadLeaves(r, f)[i] = VerifierLeaf(r.verifier_set, f, i)
    <2>1. r = [verifier_set |-> r.verifier_set] /\ IsVerifierSet(r.verifier_set)
      BY <1>3, ExecuteDataAssumption
    <2>2. PayloadLeaves(r, f) = VerifierLeaves(r.verifier_set, f)
      BY <1>3 DEF PayloadLeaves
    <2> QED
      BY <2>1, <2>2, VerifierLeavesShape
  <1>4. ASSUME NEW r \in Payloads, NEW f, IsBatch(r), 1 \in 1..Len(PayloadLeaves(r, f))
        PROVE  "message" \in DOMAIN PayloadLeaves(r, f)[1]
    <2>1. PayloadLeaves(r, f)[1] = MessageLeaf(r.messages, f, 1)
      BY <1>2, <1>4
    <2> QED
      BY <2>1 DEF MessageLeaf
  <1>5. ASSUME NEW r \in Payloads, NEW f, ~IsBatch(r), 1 \in 1..Len(PayloadLeaves(r, f))
        PROVE  "message" \notin DOMAIN PayloadLeaves(r, f)[1]
    <2>1. PayloadLeaves(r, f)[1] = VerifierLeaf(r.verifier_set, f, 1)
      BY <1>3, <1>5
    <2> QED
      BY <2>1 DEF VerifierLeaf
  <1>6. IsBatch(p) <=> IsBatch(q)
    BY <1>1, <1>4, <1>5
  <1>7. CASE IsBatch(p)
    <2> DEFINE s == p.messages
               t == q.messages
    <2>1. /\ p = [messages |-> s] /\ q = [messages |-> t] /\ s \in Seq(Messages) /\ t \in Seq(Messages)
          /\ Len(L) = Len(s) /\ Len(M) = Len(t)
      BY <1>2, <1>6, <1>7
    <2>2. ASSUME NEW i \in 1..Len(s) PROVE s[i] = t[i] /\ d = e
      <3>1. L[i] = M[i]
        BY <2>1
      <3>2. L[i] = MessageLeaf(s, d, i)
        BY <1>2, <1>7
      <3>3. M[i] = MessageLeaf(t, e, i)
        <4>1. IsBatch(q) /\ i \in 1..Len(t)
          BY <1>6, <1>7, <2>1
        <4> QED
          BY <1>2, <4>1
      <3> HIDE DEF L, M, s, t
      <3>4. L[i].message = s[i] /\ L[i].domain_separator = d
        BY <3>2 DEF MessageLeaf
      <3>5. M[i].message = t[i] /\ M[i].domain_separator = e
        BY <3>3 DEF MessageLeaf
      <3> QED
        BY <3>1, <3>4, <3>5
    <2> HIDE DEF s, t
    <2>3. s = t
      BY <2>1, <2>2, SeqEqual
    <2> QED
      BY <1>1, <2>1, <2>2, <2>3
  <1>8. CASE ~IsBatch(p)
    <2> DEFINE v == p.verifier_set
               w == q.verifier_set
               n == Cardinality(DOMAIN v.signers)
    <2>1. /\ p = [verifier_set |-> v] /\ q = [verifier_set |-> w]
          /\ IsVerifierSet(v) /\ IsVerifierSet(w)
          /\ Len(L) = n /\ Len(M) = Cardinality(DOMAIN w.signers)
      BY <1>3, <1>6, <1>8
    <2>2. n = Cardinality(DOMAIN w.signers) /\ n \in Nat \ {0}
      BY <2>1
    <2>3. ASSUME NEW i \in 1..n PROVE VerifierLeaf(v, d, i) = VerifierLeaf(w, e, i)
      <3>1. L[i] = M[i]
        BY <2>1
      <3>2. L[i] = VerifierLeaf(v, d, i)
        BY <1>3, <1>8
      <3>3. M[i] = VerifierLeaf(w, e, i)
        <4>1. ~IsBatch(q) /\ i \in 1..Cardinality(DOMAIN w.signers)
          BY <1>6, <1>8, <2>2
        <4> QED
          BY <1>3, <4>1
      <3> QED
        BY <3>1, <3>2, <3>3
    <2> HIDE DEF v, w
    <2>4. DOMAIN v.signers # {}
      BY <2>2, FS_EmptySet
    <2>5. v = w /\ d = e
      <3>1. IsVerifierSet(v) /\ IsVerifierSet(w)
        BY <2>1
      <3>2. SameLeaves(v, d, w, e)
        BY <2>2, <2>3 DEF SameLeaves
      <3> QED
        BY <2>4, <3>1, <3>2, LeavesNameSet
    <2> QED
      BY <2>1, <2>5
  <1> QED
    BY <1>7, <1>8

\* A signed root stands for one batch or one verifier set, and for one gateway,
\* among payloads of any size.
THEOREM RootsNameOnePayload == Spec => []RootNamesOnePayload
  <1>1. ASSUME IInv PROVE RootNamesOnePayload
    <2> SUFFICES ASSUME data.encoded, NEW p \in Payloads, NEW d \in DomainSeparators,
                        Merklizable(PayloadLeaves(p, d)),
                        HashPayload(p, d) = data.payload_merkle_root
                 PROVE  p = source.payload /\ d = source.domain_separator
      BY DEF RootNamesOnePayload
    <2>1. SourceInv /\ DataInv
      BY <1>1, NotEncoded DEF IInv
    <2> DEFINE q == source.payload
               e == source.domain_separator
               L == PayloadLeaves(p, d)
               M == PayloadLeaves(q, e)
    <2>2. q \in Payloads /\ Merklizable(M)
      BY <2>1 DEF SourceInv
    <2>3. Root(MerkleTree(L)) = Root(MerkleTree(M))
      BY <2>1, <2>2, PayloadLeavesShape DEF DataInv
    <2>4. Placed(L) /\ Placed(M)
      BY <2>2, PayloadPlaced
    <2> HIDE DEF q, e
    <2>5. Len(L) = Len(M) /\ \A i \in 1..Len(L) : L[i] = M[i]
      <3> HIDE DEF L, M
      <3> QED
        BY <2>3, <2>4, RootNamesLeaves
    <2>6. Len(L) \in Nat \ {0}
      BY <2>4 DEF Placed
    <2>7. p = q /\ d = e
      BY <2>2, <2>5, <2>6, LeavesNamePayload
    <2> QED
      BY <2>7 DEF q, e
  <1> QED
    BY <1>1, ExecuteDataInvariant, PTL

-----------------------------------------------------------------------------
\* The index of a parent is half the index.
LEMMA HalfIndex ==
    ASSUME NEW a \in Nat, NEW p \in Nat, p >= 1
    PROVE  (a \div p) \div 2 = a \div (2 * p)
  <1> DEFINE x == a \div p
             y == x \div 2
  <1>1. x \in Nat /\ x * p <= a /\ a < (x + 1) * p
    BY DivIs
  <1> HIDE DEF x
  <1>2. y \in Nat /\ 2 * y <= x /\ x + 1 <= 2 * (y + 1)
    BY <1>1
  <1> HIDE DEF y
  <1>3. (2 * y) * p <= x * p /\ (x + 1) * p <= (2 * (y + 1)) * p
    BY <1>1, <1>2, MulMono
  <1>4. (2 * y) * p = y * (2 * p) /\ (2 * (y + 1)) * p = (y + 1) * (2 * p)
    BY <1>2
  <1>5. x * p \in Nat /\ (x + 1) * p \in Nat /\ y * (2 * p) \in Nat /\ (y + 1) * (2 * p) \in Nat
    BY <1>1, <1>2
  <1>6. y * (2 * p) <= a /\ a < (y + 1) * (2 * p)
    <2> DEFINE u == x * p
               v == (x + 1) * p
               s == y * (2 * p)
               t == (y + 1) * (2 * p)
    <2>1. s <= u /\ u <= a /\ a < v /\ v <= t /\ u \in Nat /\ v \in Nat /\ s \in Nat /\ t \in Nat
      BY <1>1, <1>3, <1>4, <1>5
    <2> HIDE DEF u, v, s, t
    <2>2. s <= a /\ a < t
      BY <2>1
    <2> QED
      BY <2>2 DEF s, t
  <1>7. a \div (2 * p) = y
    BY <1>2, <1>6, DivUnique
  <1> QED
    BY <1>7 DEF x, y

\* The width of the layer above is half the width, rounded up.
LEMMA HalfWidth ==
    ASSUME NEW n \in Nat, NEW p \in Nat, p >= 1
    PROVE  ((n + p - 1) \div p + 1) \div 2 = (n + 2 * p - 1) \div (2 * p)
  <1> DEFINE a == n + p - 1
             b == n + 2 * p - 1
             x == a \div p
  <1>1. a \in Nat /\ b \in Nat /\ b = a + p
    OBVIOUS
  <1> HIDE DEF a, b
  <1>2. x \in Nat /\ x * p <= a /\ a < (x + 1) * p
    BY <1>1, DivIs
  <1> HIDE DEF x
  <1>3. (x + 1) * p = x * p + p /\ (x + 1 + 1) * p = (x + 1) * p + p /\ x * p \in Nat /\ (x + 1) * p \in Nat
    BY <1>2
  <1>4. (x + 1) * p <= b /\ b < (x + 1 + 1) * p
    BY <1>1, <1>2, <1>3
  <1>5. b \div p = x + 1
    BY <1>1, <1>2, <1>4, DivUnique
  <1>6. (b \div p) \div 2 = b \div (2 * p)
    BY <1>1, HalfIndex
  <1>7. (x + 1) \div 2 = b \div (2 * p)
    BY <1>5, <1>6
  <1> QED
    BY <1>7 DEF x, a, b

\* Where the path from a position passes: half the index, under half the nodes.
LEMMA PathUp ==
    ASSUME NEW L, NEW T, NEW d, Layered(L, T, d), Len(L) \in Nat \ {0},
           NEW position \in 0..(Len(L) - 1)
    PROVE  \A h \in 0..d : /\ Len(T[h]) = (Len(L) + 2^h - 1) \div 2^h
                           /\ Index(position, h) \in 0..(Len(T[h]) - 1)
                           /\ h < d => Index(position, h + 1) = Index(position, h) \div 2
  <1> DEFINE n == Len(L)
             Wide(h) == Len(T[h]) = (n + 2^h - 1) \div 2^h
             Under(h) == Index(position, h) \in 0..(Len(T[h]) - 1)
             N == {h \in Nat : h <= d => Wide(h) /\ Under(h)}
  <1>1. d \in Nat /\ \A h \in 0..d : Len(T[h]) \in Nat \ {0}
    BY DEF Layered
  <1>2. position \in Nat
    OBVIOUS
  <1>3. ASSUME NEW h \in Nat PROVE Index(position, h + 1) = Index(position, h) \div 2
    <2> DEFINE p == 2^h
               q == 2^(h + 1)
    <2>1. p \in Nat /\ p >= 1 /\ q = 2 * p
      BY PowerStep, PowerGrows
    <2> HIDE DEF p, q
    <2>2. (position \div p) \div 2 = position \div q
      BY <1>2, <2>1, HalfIndex
    <2> QED
      BY <2>2 DEF Index, p, q
  <1>4. 0 \in N
    <2>1. 2^0 = 1
      OBVIOUS
    <2>2. Len(T[0]) = n
      BY DEF Layered
    <2>3. (n + 1 - 1) \div 1 = n /\ position \div 1 = position
      BY <1>2
    <2>4. Wide(0)
      BY <2>1, <2>2, <2>3
    <2>5. Under(0)
      BY <2>1, <2>2, <2>3 DEF Index
    <2> QED
      BY <2>4, <2>5
  <1>5. ASSUME NEW h \in Nat, h \in N PROVE h + 1 \in N
    <2> SUFFICES ASSUME h + 1 <= d PROVE Wide(h + 1) /\ Under(h + 1)
      OBVIOUS
    <2>1. Wide(h) /\ Under(h) /\ h \in 0..d
      BY <1>1, <1>5
    <2> DEFINE p == 2^h
               q == 2^(h + 1)
               a == Len(T[h])
               b == Len(T[h + 1])
               x == Index(position, h)
               y == Index(position, h + 1)
    <2>2. p \in Nat /\ p >= 1 /\ q = 2 * p
      BY PowerStep, PowerGrows
    <2>3. a \in Nat \ {0}
      BY <1>1, <2>1
    <2>4. b = (a + 1) \div 2
      <3>1. h + 1 \in 1..d /\ (h + 1) - 1 = h
        BY <1>1
      <3>2. T[h + 1] = ParentLayer(T[h])
        BY <3>1 DEF Layered
      <3> QED
        BY <2>3, <3>2, ParentCount
    <2>5. a = (n + p - 1) \div p
      BY <2>1
    <2>6. x \in 0..(a - 1) /\ y = x \div 2
      BY <1>3, <2>1
    <2> HIDE DEF p, q, a, b, x, y
    <2>7. b = (n + q - 1) \div q
      <3>1. ((n + p - 1) \div p + 1) \div 2 = (n + 2 * p - 1) \div (2 * p)
        BY <2>2, HalfWidth
      <3> QED
        BY <2>2, <2>4, <2>5, <3>1
    <2>8. y \in 0..(b - 1)
      BY <2>3, <2>4, <2>6
    <2> QED
      BY <2>7, <2>8 DEF q, b, y
  <1>6. Nat \subseteq N
    <2> HIDE DEF N
    <2> QED
      BY <1>4, <1>5, NaturalInduction
  <1>7. ASSUME NEW h \in 0..d PROVE Wide(h) /\ Under(h) /\ (h < d => Index(position, h + 1) = Index(position, h) \div 2)
    <2>1. h \in Nat /\ h \in N
      BY <1>1, <1>6
    <2> QED
      BY <1>3, <2>1
  <1> QED
    BY <1>7

\* What Proof collects.
IsProof(tree, position, d, siblings) ==
    /\ siblings[d] = <<>>
    /\ \A h \in 0..(d - 1) : siblings[h] = Sibling(tree, position, h) \o siblings[h + 1]

\* The recursion in Proof has a solution, and Proof is its value at the leaf.
LEMMA ProofIsProof ==
    ASSUME NEW tree, NEW position, NEW d \in Nat, d = TreeDepth(Len(tree[0]))
    PROVE  \E s : IsProof(tree, position, d, s) /\ Proof(tree, position) = s[0]
  <1> DEFINE Solves(f) == f = [h \in 0..d |-> IF h = d THEN <<>>
                                              ELSE Sibling(tree, position, h) \o f[h + 1]]
             Good(j, f) == /\ f[d] = <<>>
                           /\ \A h \in 0..(d - 1) : d - j <= h =>
                                 f[h] = Sibling(tree, position, h) \o f[h + 1]
             N == {j \in Nat : \E f : Good(j, f)}
             s == CHOOSE f : Solves(f)
  <1>1. 0 \in N
    <2> DEFINE f == [h \in 0..d |-> <<>>]
    <2>1. f[d] = <<>> /\ \A h \in 0..(d - 1) : ~(d - 0 <= h)
      OBVIOUS
    <2> HIDE DEF f
    <2>2. Good(0, f)
      BY <2>1
    <2> QED
      BY <2>2
  <1>2. ASSUME NEW j \in Nat, j \in N PROVE j + 1 \in N
    <2>1. PICK f : Good(j, f)
      BY <1>2
    <2> DEFINE g == [h \in 0..d |-> IF h = d - (j + 1) THEN Sibling(tree, position, h) \o f[h + 1]
                                    ELSE f[h]]
    <2>2. g[d] = <<>>
      BY <2>1
    <2>3. ASSUME NEW h \in 0..(d - 1), d - (j + 1) <= h
          PROVE  g[h] = Sibling(tree, position, h) \o g[h + 1]
      <3>1. h \in 0..d /\ h + 1 \in 0..d /\ h + 1 # d - (j + 1)
        BY <2>3
      <3>2. g[h + 1] = f[h + 1]
        BY <3>1
      <3>3. CASE h = d - (j + 1)
        BY <3>1, <3>2, <3>3
      <3>4. CASE h # d - (j + 1)
        <4>1. d - j <= h /\ g[h] = f[h]
          BY <2>3, <3>1, <3>4
        <4> QED
          BY <2>1, <3>2, <4>1
      <3> QED
        BY <3>3, <3>4
    <2> HIDE DEF g
    <2>4. Good(j + 1, g)
      BY <2>2, <2>3
    <2> QED
      BY <2>4
  <1>3. \E f : Solves(f)
    <2>1. d \in N
      <3> HIDE DEF N
      <3> QED
        BY <1>1, <1>2, NaturalInduction
    <2>2. PICK f : Good(d, f)
      BY <2>1
    <2> DEFINE g == [h \in 0..d |-> f[h]]
    <2>3. ASSUME NEW h \in 0..d
          PROVE  g[h] = IF h = d THEN <<>> ELSE Sibling(tree, position, h) \o g[h + 1]
      <3>1. CASE h = d
        BY <2>2, <3>1
      <3>2. CASE h # d
        <4>1. h \in 0..(d - 1) /\ d - d <= h /\ h + 1 \in 0..d
          BY <3>2
        <4> QED
          BY <2>2, <3>2, <4>1
      <3> QED
        BY <3>1, <3>2
    <2>4. g = [h \in 0..d |-> g[h]]
      OBVIOUS
    <2> HIDE DEF g
    <2>5. g = [h \in 0..d |-> IF h = d THEN <<>> ELSE Sibling(tree, position, h) \o g[h + 1]]
      BY <2>3, <2>4
    <2> QED
      BY <2>5
  <1>4. Solves(s)
    BY <1>3, Zenon
  <1>5. Proof(tree, position) = s[0]
    BY Zenon DEF Proof
  <1> HIDE DEF s
  <1>6. s[d] = <<>>
    BY <1>4
  <1>7. ASSUME NEW h \in 0..(d - 1) PROVE s[h] = Sibling(tree, position, h) \o s[h + 1]
    <2>1. h \in 0..d /\ h # d
      OBVIOUS
    <2> QED
      BY <1>4, <2>1
  <1> QED
    BY <1>5, <1>6, <1>7 DEF IsProof

\* A list that starts with x.
LEMMA Consed ==
    ASSUME NEW S, NEW x \in S, NEW s \in Seq(S)
    PROVE  /\ <<x>> \o s \in Seq(S) /\ <<x>> \o s # <<>>
           /\ Head(<<x>> \o s) = x /\ Tail(<<x>> \o s) = s
  OBVIOUS

\* The hashes left for a proof are a sequence.
LEMMA SiblingsType ==
    ASSUME NEW L, NEW T, NEW d, Layered(L, T, d), Len(L) \in Nat \ {0},
           NEW position \in 0..(Len(L) - 1), NEW s, IsProof(T, position, d, s)
    PROVE  \E S : \A h \in 0..d : /\ s[h] \in Seq(S)
                                  /\ \A i \in 1..Len(T[h]) : T[h][i] \in S
  <1> DEFINE S == UNION {{T[h][i] : i \in 1..Len(T[h])} : h \in 0..d}
             N == {j \in Nat : j <= d => s[d - j] \in Seq(S)}
  <1>1. d \in Nat /\ \A h \in 0..d : Len(T[h]) \in Nat \ {0}
    BY DEF Layered
  <1>2. ASSUME NEW h \in 0..d, NEW i \in 1..Len(T[h]) PROVE T[h][i] \in S
    OBVIOUS
  <1> HIDE DEF S
  <1>3. 0 \in N
    <2>1. d - 0 = d /\ s[d] = <<>>
      BY <1>1 DEF IsProof
    <2>2. <<>> \in Seq(S)
      BY EmptySeq
    <2> QED
      BY <2>1, <2>2
  <1>4. ASSUME NEW j \in Nat, j \in N PROVE j + 1 \in N
    <2> SUFFICES ASSUME j + 1 <= d PROVE s[d - (j + 1)] \in Seq(S)
      OBVIOUS
    <2> DEFINE h == d - (j + 1)
               k == SiblingIndex(position, h)
    <2>1. h \in 0..(d - 1) /\ h \in 0..d /\ h + 1 = d - j /\ j <= d
      BY <1>1
    <2>2. s[h + 1] \in Seq(S)
      BY <1>4, <2>1
    <2>3. s[h] = Sibling(T, position, h) \o s[h + 1]
      BY <2>1 DEF IsProof
    <2> HIDE DEF h
    <2>4. Index(position, h) \in Nat
      <3>1. Index(position, h) \in 0..(Len(T[h]) - 1)
        BY <2>1, PathUp
      <3> QED
        BY <1>1, <2>1, <3>1
    <2>5. k \in Nat
      BY <2>4 DEF SiblingIndex
    <2> HIDE DEF k
    <2>6. Sibling(T, position, h) \in Seq(S)
      <3>1. CASE k < Len(T[h])
        <4>1. k + 1 \in 1..Len(T[h])
          BY <1>1, <2>1, <2>5, <3>1
        <4>2. T[h][k + 1] \in S
          BY <1>2, <2>1, <4>1
        <4>3. Sibling(T, position, h) = <<T[h][k + 1]>>
          BY <3>1 DEF Sibling, k
        <4> QED
          BY <4>2, <4>3
      <3>2. CASE ~(k < Len(T[h]))
        <4>1. Sibling(T, position, h) = <<>>
          BY <3>2 DEF Sibling, k
        <4> QED
          BY <4>1
      <3> QED
        BY <3>1, <3>2
    <2>7. s[h] \in Seq(S)
      BY <2>2, <2>3, <2>6
    <2> QED
      BY <2>7 DEF h
  <1>5. Nat \subseteq N
    <2> HIDE DEF N
    <2> QED
      BY <1>3, <1>4, NaturalInduction
  <1>6. ASSUME NEW h \in 0..d PROVE s[h] \in Seq(S)
    <2>1. d - h \in Nat /\ d - h <= d /\ d - (d - h) = h
      BY <1>1
    <2>2. d - h \in N
      BY <1>5, <2>1
    <2> QED
      BY <2>1, <2>2
  <1> QED
    BY <1>2, <1>6

\* One step up the path: with a sibling taken from the proof, or with itself.
LEMMA ClimbsPath ==
    ASSUME NEW L, NEW T, NEW d, Layered(L, T, d), Len(L) \in Nat \ {0},
           NEW position \in 0..(Len(L) - 1), NEW s, IsProof(T, position, d, s),
           NEW h \in 0..(d - 1)
    PROVE  ClimbStep(position, Len(L), h,
                     [known |-> TRUE, hash |-> T[h][Index(position, h) + 1], rest |-> s[h]])
             = [known |-> TRUE, hash |-> T[h + 1][Index(position, h + 1) + 1], rest |-> s[h + 1]]
  <1> DEFINE n == Len(L)
             x == Index(position, h)
             y == Index(position, h + 1)
             w == Len(T[h])
             own == T[h][x + 1]
             c == [known |-> TRUE, hash |-> own, rest |-> s[h]]
             k == SiblingIndex(position, h)
             above == T[h + 1][y + 1]
  <1>1. d \in Nat /\ h \in 0..d /\ h + 1 \in 1..d /\ (h + 1) - 1 = h /\ h < d
    BY DEF Layered
  <1>2. w \in Nat \ {0} /\ T[h + 1] = ParentLayer(T[h])
    BY <1>1 DEF Layered
  <1>3. /\ w = (n + 2^h - 1) \div 2^h
        /\ x \in 0..(w - 1)
        /\ y = x \div 2
    BY <1>1, PathUp
  <1>4. Alone(position, n, h) <=> w % 2 = 1 /\ x = w - 1
    BY <1>3 DEF Alone
  <1>5. k = IF x % 2 = 0 THEN x + 1 ELSE x - 1
    BY DEF SiblingIndex
  <1>6. s[h] = Sibling(T, position, h) \o s[h + 1]
    BY DEF IsProof
  <1>7. PICK S : /\ s[h + 1] \in Seq(S)
                 /\ \A i \in 1..w : T[h][i] \in S
    <2>1. h + 1 \in 0..d
      BY <1>1
    <2> QED
      BY <1>1, <2>1, SiblingsType
  <1>8. PICK a \in 1..w, b \in 1..w :
           /\ above = ConcatAndHash(T[h][a], T[h][b])
           /\ a = 2 * (y + 1) - 1 /\ b = IF 2 * (y + 1) <= w THEN 2 * (y + 1) ELSE 2 * (y + 1) - 1
    <2> DEFINE layer == T[h]
               i == y + 1
    <2>1. i \in 1..((Len(layer) + 1) \div 2) /\ Len(layer) \in Nat \ {0}
      <3>1. x \in 0..(w - 1) /\ y = x \div 2 /\ w \in Nat \ {0}
        BY <1>2, <1>3
      <3> HIDE DEF x, y, w
      <3>2. y + 1 \in 1..((w + 1) \div 2)
        BY <3>1
      <3> QED
        BY <3>1, <3>2 DEF w
    <2>2. T[h + 1] = ParentLayer(layer)
      BY <1>2
    <2> HIDE DEF layer, i
    <2>3. \E a \in 1..Len(layer), b \in 1..Len(layer) :
             /\ ParentLayer(layer)[i] = ConcatAndHash(layer[a], layer[b])
             /\ a = 2 * i - 1 /\ b = IF 2 * i <= Len(layer) THEN 2 * i ELSE 2 * i - 1
      BY <2>1, ParentOf
    <2> QED
      BY <2>2, <2>3 DEF layer, i
  <1>9. c.known = TRUE /\ c.hash = own /\ c.rest = s[h]
    OBVIOUS
  <1> HIDE DEF x, y, w, own, c, k, above
  <1>10. x \in Nat /\ x < w /\ y = x \div 2 /\ w \in Nat
    BY <1>2, <1>3
  <1>11. a = 2 * (y + 1) - 1 /\ b = IF 2 * (y + 1) <= w THEN 2 * (y + 1) ELSE 2 * (y + 1) - 1
    BY <1>8
  <1>12. ASSUME w % 2 = 1, x = w - 1
         PROVE  ClimbStep(position, n, h, c) = [known |-> TRUE, hash |-> above, rest |-> s[h + 1]]
    <2>1. a = x + 1 /\ b = x + 1 /\ ~(k < w)
      BY <1>5, <1>10, <1>11, <1>12
    <2>2. above = ConcatAndHash(own, own)
      BY <1>8, <2>1 DEF own
    <2>3. Sibling(T, position, h) = <<>>
      BY <2>1 DEF Sibling, k, w
    <2>4. s[h] = s[h + 1]
      BY <1>6, <1>7, <2>3, ConcatEmptySeq
    <2>5. ClimbStep(position, n, h, c)
            = [known |-> c.known, hash |-> ConcatAndHash(c.hash, c.hash), rest |-> c.rest]
      BY <1>4, <1>12 DEF ClimbStep
    <2> QED
      BY <1>9, <2>2, <2>4, <2>5
  <1>13. ASSUME ~(w % 2 = 1 /\ x = w - 1)
         PROVE  ClimbStep(position, n, h, c) = [known |-> TRUE, hash |-> above, rest |-> s[h + 1]]
    <2> DEFINE other == T[h][k + 1]
    <2>1. k < w /\ k + 1 \in 1..w
      BY <1>2, <1>5, <1>10, <1>13
    <2>2. Sibling(T, position, h) = <<other>>
      BY <2>1 DEF Sibling, k, w
    <2>3. other \in S
      BY <1>7, <2>1
    <2>4. s[h] # <<>> /\ Head(s[h]) = other /\ Tail(s[h]) = s[h + 1]
      <3> HIDE DEF other
      <3> QED
        BY <1>6, <1>7, <2>2, <2>3, Consed, SMTT(30)
    <2>5. above = IF x % 2 = 0 THEN ConcatAndHash(own, other) ELSE ConcatAndHash(other, own)
      <3>1. CASE x % 2 = 0
        <4>1. a = x + 1 /\ b = k + 1
          BY <1>5, <1>10, <1>11, <1>13, <3>1
        <4> QED
          BY <1>8, <3>1, <4>1 DEF own
      <3>2. CASE x % 2 # 0
        <4>1. a = k + 1 /\ b = x + 1
          BY <1>5, <1>10, <1>11, <3>2
        <4> QED
          BY <1>8, <3>2, <4>1 DEF own
      <3> QED
        BY <3>1, <3>2
    <2> HIDE DEF other
    <2>6. Join(position, h, own, other) = above
      BY <2>5 DEF Join, x
    <2>7. ClimbStep(position, n, h, c)
            = [known |-> c.known, hash |-> Join(position, h, c.hash, Head(c.rest)), rest |-> Tail(c.rest)]
      BY <1>4, <1>9, <1>13, <2>4 DEF ClimbStep
    <2> QED
      BY <1>9, <2>4, <2>6, <2>7
  <1>14. ClimbStep(position, n, h, c) = [known |-> TRUE, hash |-> above, rest |-> s[h + 1]]
    BY <1>12, <1>13
  <1> QED
    BY <1>14 DEF c, own, x, y, above

\* The proof that the tree makes for a leaf verifies.
LEMMA ProofVerifies ==
    ASSUME NEW L, Len(L) \in Nat \ {0}, NEW i \in 1..Len(L)
    PROVE  Verify(Root(MerkleTree(L)), i - 1, LeafHash(L[i]), Len(L), Proof(MerkleTree(L), i - 1))
  <1> DEFINE T == MerkleTree(L)
             n == Len(L)
             d == TreeDepth(n)
             position == i - 1
             P == Proof(T, position)
             c == Climb(position, LeafHash(L[i]), n, P)
  <1>1. Layered(L, T, d)
    BY TreeFacts
  <1>2. position \in 0..(n - 1) /\ n > 0
    OBVIOUS
  <1>3. IsClimb(position, LeafHash(L[i]), n, P, c)
    BY ClimbIsClimb
  <1> HIDE DEF T, c
  <1>4. d \in Nat \ {0} /\ d = TreeDepth(Len(T[0]))
    BY <1>1 DEF Layered
  <1>5. PICK s : IsProof(T, position, d, s) /\ P = s[0]
    BY <1>4, ProofIsProof
  <1> DEFINE On(h) == c[h] = [known |-> TRUE, hash |-> T[h][Index(position, h) + 1], rest |-> s[h]]
             N == {h \in Nat : h <= d => On(h)}
  <1>6. /\ c[0] = [known |-> TRUE, hash |-> LeafHash(L[i]), rest |-> P]
        /\ \A h \in 1..d : c[h] = ClimbStep(position, n, h - 1, c[h - 1])
    BY <1>3 DEF IsClimb
  <1>7. 0 \in N
    <2>1. 2^0 = 1
      OBVIOUS
    <2>2. position \div 1 = position /\ position + 1 = i
      BY <1>2
    <2>3. Index(position, 0) + 1 = i
      BY <2>1, <2>2 DEF Index
    <2>4. T[0][i] = LeafHash(L[i])
      BY <1>1 DEF Layered
    <2>5. On(0)
      BY <1>5, <1>6, <2>3, <2>4
    <2> QED
      BY <2>5
  <1> HIDE DEF d, position, P
  <1>8. ASSUME NEW h \in Nat, h \in N PROVE h + 1 \in N
    <2> SUFFICES ASSUME h + 1 <= d PROVE On(h + 1)
      OBVIOUS
    <2>1. h \in 0..(d - 1) /\ h + 1 \in 1..d /\ (h + 1) - 1 = h /\ h <= d
      BY <1>4
    <2>2. On(h)
      BY <1>8, <2>1
    <2>3. c[h + 1] = ClimbStep(position, n, h, c[h])
      BY <1>6, <2>1
    <2>4. ClimbStep(position, n, h, [known |-> TRUE, hash |-> T[h][Index(position, h) + 1], rest |-> s[h]])
            = [known |-> TRUE, hash |-> T[h + 1][Index(position, h + 1) + 1], rest |-> s[h + 1]]
      BY <1>1, <1>2, <1>5, <2>1, ClimbsPath
    <2> QED
      BY <2>2, <2>3, <2>4
  <1>9. On(d)
    <2>1. d \in N
      <3> HIDE DEF N
      <3> QED
        BY <1>4, <1>7, <1>8, NaturalInduction
    <2>2. d <= d
      BY <1>4
    <2> QED
      BY <2>1, <2>2
  <1>10. Index(position, d) = 0
    <2>1. d \in 0..d
      BY <1>4
    <2>2. Index(position, d) \in 0..(Len(T[d]) - 1)
      BY <1>1, <1>2, <2>1, PathUp
    <2>3. Len(T[d]) = 1
      BY <1>1 DEF Layered
    <2> QED
      BY <2>2, <2>3
  <1>11. c[d].known /\ c[d].hash = Root(T)
    <2>1. c[d] = [known |-> TRUE, hash |-> T[d][1], rest |-> s[d]]
      BY <1>9, <1>10
    <2>2. Root(T) = T[d][1]
      BY <1>1 DEF Layered
    <2> QED
      BY <2>1, <2>2
  <1> QED
    BY <1>2, <1>11, Zenon DEF Verify, c, d, P, position, T

\* What encode puts beside each message of a batch.
LEMMA BatchItems ==
    ASSUME NEW p \in Payloads, NEW e, Len(PayloadLeaves(p, e)) \in Nat \ {0},
           NEW i \in DOMAIN MerklizedPayload(p, e)
    PROVE  /\ IsBatch(p)
           /\ i \in 1..Len(PayloadLeaves(p, e))
           /\ MerklizedPayload(p, e)[i].leaf = PayloadLeaves(p, e)[i]
           /\ MerklizedPayload(p, e)[i].proof
                = Proof(MerkleTree(PayloadLeaves(p, e)), PayloadLeaves(p, e)[i].position)
  <1> DEFINE L == PayloadLeaves(p, e)
             T == MerkleTree(L)
  <1>1. IsBatch(p)
    BY DEF MerklizedPayload
  <1>2. MerklizedPayload(p, e) =
           [j \in 1..Len(L) |-> [leaf |-> L[j], proof |-> Proof(T, L[j].position)]]
    BY <1>1, Zenon DEF MerklizedPayload
  <1> HIDE DEF L, T
  <1>3. i \in 1..Len(L)
    BY <1>2
  <1>4. MerklizedPayload(p, e)[i] = [leaf |-> L[i], proof |-> Proof(T, L[i].position)]
    BY <1>2, <1>3
  <1>5. /\ MerklizedPayload(p, e)[i].leaf = L[i]
        /\ MerklizedPayload(p, e)[i].proof = Proof(T, L[i].position)
    BY <1>4
  <1> QED
    BY <1>1, <1>3, <1>5 DEF L, T

\* M holds the leaves of L whose members are among the signers, and no others.
Selects(M, L, signers) ==
    /\ \A j \in 1..Len(M) : \E i \in 1..Len(L) : M[j] = L[i] /\ L[i].signer_pubkey \in signers
    /\ \A i \in 1..Len(L) : L[i].signer_pubkey \in signers => \E j \in 1..Len(M) : M[j] = L[i]

\* Those are the signed leaves.
LEMMA SignedLeavesShape ==
    ASSUME NEW set, IsVerifierSet(set), NEW signers, NEW domain
    PROVE  Selects(SignedLeaves(set, signers, domain), VerifierLeaves(set, domain), signers)
  <1> DEFINE L == VerifierLeaves(set, domain)
             M == SignedLeaves(set, signers, domain)
             Q == {i \in 1..Len(L) : L[i].signer_pubkey \in signers}
             q == InOrder(Q)
             n == Cardinality(Q)
  <1>1. Len(L) \in Nat
    BY VerifierLeavesShape
  <1>2. IsFiniteSet(Q) /\ Q \subseteq Nat
    <2>1. IsFiniteSet(1..Len(L))
      BY <1>1, FS_Interval
    <2>2. Q \in SUBSET (1..Len(L))
      OBVIOUS
    <2>3. Q \subseteq Nat
      BY <1>1
    <2> HIDE DEF Q
    <2> QED
      BY <2>1, <2>2, <2>3, FS_Subset
  <1>3. M = [j \in 1..Len(q) |-> L[q[j]]]
    BY Zenon DEF SignedLeaves
  <1> HIDE DEF L, M
  <1>4. ASSUME NEW i \in Q PROVE i \in 1..Len(L) /\ L[i].signer_pubkey \in signers
    OBVIOUS
  <1>5. ASSUME NEW i \in 1..Len(L), L[i].signer_pubkey \in signers PROVE i \in Q
    BY <1>5
  <1> HIDE DEF Q
  <1>6. /\ n \in Nat /\ q \in [1..n -> Q]
        /\ \A i \in Q : \E j \in 1..n : q[j] = i
    BY <1>2, InOrderLists
  <1> HIDE DEF q, n
  <1>7. Len(q) = n
    <2>1. q = [j \in 1..n |-> q[j]]
      BY <1>6
    <2> QED
      BY <1>6, <2>1, SequenceLength
  <1>8. Len(M) = n /\ \A j \in 1..n : M[j] = L[q[j]]
    <2>1. M = [j \in 1..n |-> M[j]]
      BY <1>3, <1>7
    <2>2. \A j \in 1..n : M[j] = L[q[j]]
      BY <1>3, <1>7
    <2> QED
      BY <1>6, <2>1, <2>2, SequenceLength
  <1>9. ASSUME NEW j \in 1..Len(M)
        PROVE  \E i \in 1..Len(L) : M[j] = L[i] /\ L[i].signer_pubkey \in signers
    <2>1. q[j] \in Q /\ M[j] = L[q[j]]
      BY <1>6, <1>8
    <2> QED
      BY <1>4, <2>1
  <1>10. ASSUME NEW i \in 1..Len(L), L[i].signer_pubkey \in signers
         PROVE  \E j \in 1..Len(M) : M[j] = L[i]
    <2>1. PICK j \in 1..n : q[j] = i
      BY <1>5, <1>6, <1>10
    <2> QED
      BY <1>8, <2>1
  <1> QED
    BY <1>9, <1>10 DEF Selects, L, M

\* What encode produces, for payloads and sets of any size, passes the gateway's
\* checks, except the signatures of the members that have no slot, which all fail.
THEOREM EncodedAccepted == Spec => []EncodedIsAccepted
  <1>1. ASSUME SourceInv, DataInv, source.domain_separator = DomainSeparator,
               NEW i \in DOMAIN data.payload_items
        PROVE  MessageIsAccepted(data.payload_items[i].leaf, data.payload_items[i].proof)
    <2> DEFINE p == source.payload
               e == source.domain_separator
               L == PayloadLeaves(p, e)
               leaf == data.payload_items[i].leaf
               proof == data.payload_items[i].proof
    <2>1. p \in Payloads /\ Len(L) \in Nat \ {0} /\ Placed(L)
      BY <1>1, SigningLeaves, PayloadPlaced DEF SourceInv
    <2>2. /\ IsBatch(p) /\ i \in 1..Len(L) /\ leaf = L[i]
          /\ proof = Proof(MerkleTree(L), L[i].position)
      BY <1>1, <2>1, BatchItems DEF DataInv
    <2>3. L[i].position = i - 1 /\ L[i].set_size = Len(L)
      BY <2>1, <2>2 DEF Placed
    <2>4. L[i].domain_separator = e
      <3>1. Len(p.messages) \in Nat /\ L = MessageLeaves(p.messages, e)
        BY <2>1, <2>2, ExecuteDataAssumption DEF PayloadLeaves
      <3>2. L[i] = MessageLeaf(p.messages, e, i)
        BY <2>2, <3>1, MessageLeavesShape
      <3> HIDE DEF L
      <3> QED
        BY <3>2 DEF MessageLeaf
    <2>5. data.payload_merkle_root = Root(MerkleTree(L))
      BY <1>1, <2>1, PayloadLeavesShape DEF DataInv
    <2> HIDE DEF L, leaf, proof
    <2>6. Verify(Root(MerkleTree(L)), i - 1, LeafHash(L[i]), Len(L), Proof(MerkleTree(L), i - 1))
      BY <2>1, <2>2, ProofVerifies
    <2>7. /\ leaf.domain_separator = DomainSeparator
          /\ Verify(data.payload_merkle_root, leaf.position, LeafHash(leaf), leaf.set_size, proof)
      BY <1>1, <2>2, <2>3, <2>4, <2>5, <2>6
    <2> QED
      BY <2>7 DEF MessageIsAccepted, leaf, proof
  <1>2. ASSUME SourceInv, DataInv
        PROVE  /\ {info.leaf.signer_pubkey : info \in Range(data.signing_verifier_set_leaves)}
                    = source.signers \cap DOMAIN source.verifier_set.signers
               /\ \A info \in Range(data.signing_verifier_set_leaves) :
                     SignatureIsAccepted(info.leaf, info.merkle_proof, info.payload_type, info.signature)
                     <=> HasSlot(source.verifier_set, info.leaf.signer_pubkey)
    <2> DEFINE v == source.verifier_set
               e == source.domain_separator
               p == source.payload
               K == DOMAIN v.signers
               L == VerifierLeaves(v, e)
               M == SignedLeaves(v, source.signers, e)
               T == MerkleTree(L)
               Info(leaf) == [leaf |-> leaf, payload_type |-> PayloadTypeOf(p),
                              merkle_proof |-> Proof(T, leaf.position),
                              signature |-> Signature(leaf.signer_pubkey, p, e)]
               infos == data.signing_verifier_set_leaves
    <2>1. IsVerifierSet(v) /\ Len(L) \in Nat \ {0}
      BY <1>2, SigningLeaves
    <2>2. infos = [j \in 1..Len(M) |-> Info(M[j])]
      BY <1>2, Zenon DEF DataInv, SigningVerifierSetInfos
    <2>3. Selects(M, L, source.signers)
      BY <2>1, SignedLeavesShape
    <2>4. Len(L) = Cardinality(K) /\ \A i \in 1..Len(L) : L[i] = VerifierLeaf(v, e, i)
      BY <2>1, VerifierLeavesShape
    <2>5. /\ InOrder(K) \in [1..Len(L) -> K]
          /\ \A k \in K : \E i \in 1..Len(L) : InOrder(K)[i] = k
          /\ \A i \in 1..Len(L) : Cardinality({k \in K : k < InOrder(K)[i]}) = i - 1
      <3>1. IsFiniteSet(K) /\ K \subseteq Nat
        BY <2>1, ExecuteDataAssumption DEF IsVerifierSet
      <3> QED
        BY <2>4, <3>1, InOrderLists
    <2>6. ASSUME NEW i \in 1..Len(L)
          PROVE  /\ L[i].signer_pubkey = InOrder(K)[i] /\ L[i].position = i - 1
                 /\ L[i].set_size = Len(L)
      <3>1. L[i] = VerifierLeaf(v, e, i)
        BY <2>4
      <3> HIDE DEF L
      <3> QED
        BY <2>4, <3>1 DEF VerifierLeaf
    <2>7. /\ data.signing_verifier_set_merkle_root = Root(T)
          /\ data.payload_merkle_root = HashPayload(p, e)
      BY <1>2 DEF DataInv, VerifierSetHash
    <2>8. ASSUME NEW x
          PROVE  /\ Info(x).leaf = x /\ Info(x).payload_type = PayloadTypeOf(p)
                 /\ Info(x).merkle_proof = Proof(T, x.position)
                 /\ Info(x).signature = Signature(x.signer_pubkey, p, e)
      OBVIOUS
    <2> HIDE DEF Info
    <2>9. Range(infos) = {Info(M[j]) : j \in 1..Len(M)}
      <3> HIDE DEF infos, M
      <3> QED
        BY <2>2 DEF Range
    <2> HIDE DEF infos, M, L, T, K
    <2>10. {info.leaf.signer_pubkey : info \in Range(infos)} = source.signers \cap K
      <3>1. ASSUME NEW info \in Range(infos) PROVE info.leaf.signer_pubkey \in source.signers \cap K
        <4>1. PICK j \in 1..Len(M) : info = Info(M[j])
          BY <2>9
        <4>2. PICK i \in 1..Len(L) : M[j] = L[i] /\ L[i].signer_pubkey \in source.signers
          BY <2>3 DEF Selects
        <4>3. info.leaf = L[i]
          BY <2>8, <4>1, <4>2
        <4>4. L[i].signer_pubkey \in K
          BY <2>5, <2>6
        <4> QED
          BY <4>2, <4>3, <4>4
      <3>2. ASSUME NEW k \in source.signers \cap K
            PROVE  \E info \in Range(infos) : info.leaf.signer_pubkey = k
        <4>1. PICK i \in 1..Len(L) : InOrder(K)[i] = k
          BY <2>5
        <4>2. L[i].signer_pubkey = k
          BY <2>6, <4>1
        <4>3. PICK j \in 1..Len(M) : M[j] = L[i]
          BY <2>3, <4>2 DEF Selects
        <4>4. Info(M[j]) \in Range(infos) /\ Info(M[j]).leaf = L[i]
          BY <2>8, <2>9, <4>3
        <4> QED
          BY <4>2, <4>4
      <3> QED
        BY <3>1, <3>2
    <2>11. ASSUME NEW info \in Range(infos)
           PROVE  SignatureIsAccepted(info.leaf, info.merkle_proof, info.payload_type, info.signature)
                  <=> HasSlot(v, info.leaf.signer_pubkey)
      <3>1. PICK j \in 1..Len(M) : info = Info(M[j])
        BY <2>9
      <3>2. PICK i \in 1..Len(L) : M[j] = L[i]
        BY <2>3 DEF Selects
      <3> DEFINE x == L[i]
      <3>3. /\ info.leaf = x /\ info.payload_type = PayloadTypeOf(p)
            /\ info.merkle_proof = Proof(T, x.position)
            /\ info.signature = Signature(x.signer_pubkey, p, e)
        BY <2>8, <3>1, <3>2
      <3>4. x.position = i - 1 /\ x.set_size = Len(L)
        BY <2>6
      <3>5. Verify(Root(T), i - 1, LeafHash(x), Len(L), Proof(T, i - 1))
        BY <2>1, ProofVerifies DEF T
      <3> HIDE DEF x
      <3>6. Verify(data.signing_verifier_set_merkle_root, info.leaf.position, LeafHash(info.leaf),
                   info.leaf.set_size, info.merkle_proof)
        BY <2>7, <3>3, <3>4, <3>5
      <3>7. /\ Signature(x.signer_pubkey, p, e).signer = x.signer_pubkey
            /\ Signature(x.signer_pubkey, p, e).digest
                 = PrefixedMessageHash(PayloadTypeOf(p), HashPayload(p, e))
        BY DEF Signature
      <3>8. Cardinality({k \in K : k < x.signer_pubkey}) = x.position
        BY <2>5, <2>6, <3>4 DEF x
      <3>9. HasSlot(v, info.leaf.signer_pubkey) <=> info.leaf.position < SlotCount
        BY <3>3, <3>8 DEF HasSlot, K
      <3> QED
        BY <2>7, <3>3, <3>6, <3>7, <3>9 DEF SignatureIsAccepted
    <2> QED
      BY <2>10, <2>11 DEF infos, K
  <1>3. IInv => EncodedIsAccepted
    <2> SUFFICES ASSUME IInv, data.encoded PROVE EncodedIsAccepted
      BY DEF EncodedIsAccepted
    <2>1. SourceInv /\ DataInv
      BY NotEncoded DEF IInv
    <2> QED
      BY <1>1, <1>2, <2>1, Zenon DEF EncodedIsAccepted
  <1> QED
    BY <1>3, ExecuteDataInvariant, PTL

=============================================================================
