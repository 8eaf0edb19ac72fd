---------------------------- MODULE Payload_proofs ----------------------------
(***************************************************************************)
(* Proofs about Payload, for every width of bytes, lengths and words, and  *)
(* payloads with any number of bytes and accounts.                         *)
(***************************************************************************)
EXTENDS Payload, Sums, TLAPS

-----------------------------------------------------------------------------
(***************************************************************************)
(* Numbers and their bytes.                                                *)
(***************************************************************************)

\* Quotient and rest by the base, and that nothing else is.
LEMMA Digits ==
    ASSUME NEW n \in Nat
    PROVE  /\ n \div Base \in Nat /\ n % Base \in Byte
           /\ (n \div Base) * Base + (n % Base) = n
  <1>1. n \div Base \in Nat /\ n % Base \in 0..(Base - 1)
    BY WidthsAssumption
  <1>2. n = Base * (n \div Base) + (n % Base)
    BY WidthsAssumption
  <1>3. Base * (n \div Base) = (n \div Base) * Base
    BY <1>1, WidthsAssumption
  <1> QED
    BY <1>1, <1>2, <1>3 DEF Byte

LEMMA DigitsUnique ==
    ASSUME NEW q \in Nat, NEW r \in Byte
    PROVE  /\ q * Base + r \in Nat
           /\ (q * Base + r) \div Base = q
           /\ (q * Base + r) % Base = r
  BY WidthsAssumption DEF Byte

\* The recursion in Shifted has a solution.
LEMMA ShiftedIs ==
    ASSUME NEW n \in Nat
    PROVE  /\ Shifted(n) \in [Nat -> Nat]
           /\ Shifted(n)[0] = n
           /\ \A i \in Nat : Shifted(n)[i + 1] = Shifted(n)[i] \div Base
  <1> DEFINE Solves(f) == f = [i \in Nat |-> IF i = 0 THEN n ELSE f[i - 1] \div Base]
             step == [i \in Nat |-> [q \in Nat |-> q \div Base]]
  <1>1. step \in [Nat -> [Nat -> Nat]]
    BY Digits
  <1>2. PICK f : Recursion(f, Nat, n, step)
    <2> HIDE DEF step
    <2> QED
      BY <1>1, RecursionExists
  <1>3. ASSUME NEW i \in Nat PROVE f[i] = IF i = 0 THEN n ELSE f[i - 1] \div Base
    <2>1. CASE i = 0
      BY <1>2, <2>1 DEF Recursion
    <2>2. CASE i # 0
      <3>1. i - 1 \in Nat /\ f[i - 1] \in Nat /\ (i - 1) + 1 = i
        BY <1>2, <2>2 DEF Recursion
      <3> QED
        BY <1>2, <2>2, <3>1 DEF Recursion
    <2> QED
      BY <2>1, <2>2
  <1>4. Solves(f)
    <2>1. f = [i \in Nat |-> f[i]]
      BY <1>2 DEF Recursion
    <2> QED
      BY <1>3, <2>1
  <1>5. Solves(Shifted(n))
    BY <1>4, Zenon DEF Shifted
  <1> DEFINE g == Shifted(n)
  <1> HIDE DEF g
  <1>6. g = [i \in Nat |-> IF i = 0 THEN n ELSE g[i - 1] \div Base]
    BY <1>5 DEF g
  <1>7. g[0] = n /\ \A i \in Nat : g[i + 1] = g[i] \div Base
    BY <1>6
  <1> DEFINE N == {i \in Nat : g[i] \in Nat}
  <1>8. 0 \in N /\ \A i \in Nat : i \in N => i + 1 \in N
    BY <1>7, Digits
  <1>9. Nat \subseteq N
    <2> HIDE DEF N
    <2> QED
      BY <1>8, NaturalInduction
  <1>10. g \in [Nat -> Nat]
    BY <1>6, <1>9
  <1> QED
    BY <1>7, <1>10 DEF g

\* What FromBig computes from the left.
IsValue(bytes, v) ==
    /\ v \in [0..Len(bytes) -> Nat]
    /\ v[0] = 0
    /\ \A i \in 1..Len(bytes) : v[i] = v[i - 1] * Base + bytes[i]
    /\ FromBig(bytes) = v[Len(bytes)]

\* The recursion in FromBig has a solution.
LEMMA FromBigIs ==
    ASSUME NEW bytes \in Seq(Byte)
    PROVE  \E v : IsValue(bytes, v)
  <1> DEFINE n == Len(bytes)
             Solves(v) == v = [i \in 0..n |-> IF i = 0 THEN 0 ELSE v[i - 1] * Base + bytes[i]]
             step == [i \in Nat |-> [q \in Nat |->
                        IF i + 1 \in 1..n THEN q * Base + bytes[i + 1] ELSE q]]
             v == CHOOSE v : Solves(v)
  <1>1. n \in Nat /\ \A i \in 1..n : bytes[i] \in Byte
    BY ElementOfSeq, LenProperties
  <1>2. step \in [Nat -> [Nat -> Nat]]
    <2> SUFFICES ASSUME NEW i \in Nat, NEW q \in Nat, i + 1 \in 1..n
                 PROVE  q * Base + bytes[i + 1] \in Nat
      OBVIOUS
    <2>1. bytes[i + 1] \in Byte
      BY <1>1
    <2> QED
      BY <2>1, DigitsUnique
  <1>3. PICK f : Recursion(f, Nat, 0, step)
    <2> HIDE DEF step
    <2> QED
      BY <1>2, RecursionExists
  <1>4. ASSUME NEW i \in 1..n PROVE f[i] = f[i - 1] * Base + bytes[i]
    <2>1. i - 1 \in Nat /\ (i - 1) + 1 = i /\ f[i - 1] \in Nat
      BY <1>1, <1>3 DEF Recursion
    <2> HIDE DEF n
    <2> QED
      BY <1>1, <1>3, <2>1 DEF Recursion
  <1> DEFINE g == [i \in 0..n |-> f[i]]
  <1>5. g \in [0..n -> Nat] /\ g[0] = 0 /\ \A i \in 1..n : g[i] = g[i - 1] * Base + bytes[i]
    BY <1>1, <1>3, <1>4 DEF Recursion
  <1> HIDE DEF g
  <1>6. Solves(g)
    <2> HIDE DEF n
    <2>1. ASSUME NEW i \in 0..n PROVE g[i] = IF i = 0 THEN 0 ELSE g[i - 1] * Base + bytes[i]
      BY <1>1, <1>5
    <2>2. g = [i \in 0..n |-> g[i]]
      BY <1>5
    <2> QED
      BY <2>1, <2>2
  <1>7. Solves(v)
    BY <1>6, Zenon
  <1>8. FromBig(bytes) = v[n]
    BY Zenon DEF FromBig
  <1> HIDE DEF v
  <1>9. v = [i \in 0..n |-> IF i = 0 THEN 0 ELSE v[i - 1] * Base + bytes[i]]
    BY <1>7
  <1>10. v[0] = 0 /\ \A i \in 1..n : v[i] = v[i - 1] * Base + bytes[i]
    <2> HIDE DEF n, step
    <2>1. \A i \in 0..n : v[i] = IF i = 0 THEN 0 ELSE v[i - 1] * Base + bytes[i]
      BY <1>9, Zenon
    <2> QED
      BY <1>1, <2>1
  <1> DEFINE N == {i \in Nat : i <= n => v[i] \in Nat}
  <1>11. 0 \in N
    BY <1>10
  <1>12. ASSUME NEW i \in Nat, i \in N PROVE i + 1 \in N
    <2> SUFFICES ASSUME i + 1 <= n PROVE v[i + 1] \in Nat
      OBVIOUS
    <2>1. i + 1 \in 1..n /\ v[i] \in Nat /\ (i + 1) - 1 = i
      BY <1>1, <1>12
    <2>2. v[i + 1] = v[i] * Base + bytes[i + 1] /\ bytes[i + 1] \in Byte
      BY <1>1, <1>10, <2>1
    <2> QED
      BY <2>1, <2>2, DigitsUnique
  <1>13. Nat \subseteq N
    <2> HIDE DEF N
    <2> QED
      BY <1>11, <1>12, NaturalInduction
  <1>14. v \in [0..n -> Nat]
    <2>1. \A i \in 0..n : v[i] \in Nat
      BY <1>1, <1>13
    <2> HIDE DEF n
    <2> QED
      BY <1>9, <2>1
  <1> QED
    BY <1>8, <1>10, <1>14 DEF IsValue

\* A number is written in as many bytes as asked for.
LEMMA LittleIs ==
    ASSUME NEW n \in Nat, NEW w \in Nat
    PROVE  /\ Little(n, w) \in Seq(Byte) /\ Len(Little(n, w)) = w
           /\ \A i \in 1..w : Little(n, w)[i] = Shifted(n)[i - 1] % Base
  <1> DEFINE s == Little(n, w)
  <1>1. s = [i \in 1..w |-> Shifted(n)[i - 1] % Base]
    BY DEF Little
  <1>2. ASSUME NEW i \in 1..w PROVE Shifted(n)[i - 1] % Base \in Byte
    <2>1. Shifted(n)[i - 1] \in Nat
      BY ShiftedIs
    <2> QED
      BY <2>1, Digits
  <1> HIDE DEF s
  <1>3. s \in [1..w -> Byte]
    BY <1>1, <1>2
  <1>4. s \in Seq(Byte)
    BY <1>3, SeqDef
  <1>5. s = [i \in 1..w |-> s[i]]
    BY <1>3
  <1>6. Len(s) = w
    BY <1>5, SequenceLength
  <1> QED
    BY <1>1, <1>4, <1>6 DEF s

\* A sequence from its end.
LEMMA ReverseIs ==
    ASSUME NEW S, NEW s \in Seq(S)
    PROVE  /\ Reverse(s) \in Seq(S) /\ Len(Reverse(s)) = Len(s)
           /\ \A i \in 1..Len(s) : Reverse(s)[i] = s[Len(s) + 1 - i]
  <1> DEFINE t == Reverse(s)
             n == Len(s)
  <1>1. n \in Nat /\ \A i \in 1..n : s[i] \in S
    BY LenProperties, ElementOfSeq
  <1>2. t = [i \in 1..n |-> s[(n - i) + 1]]
    BY DEF Reverse
  <1> HIDE DEF t, n
  <1>3. ASSUME NEW i \in 1..n PROVE (n - i) + 1 = n + 1 - i /\ n + 1 - i \in 1..n
    BY <1>1
  <1>4. t \in [1..n -> S] /\ \A i \in 1..n : t[i] = s[n + 1 - i]
    BY <1>1, <1>2, <1>3
  <1>5. t \in Seq(S)
    BY <1>1, <1>4, SeqDef
  <1>6. t = [i \in 1..n |-> t[i]]
    BY <1>4
  <1>7. Len(t) = n
    BY <1>1, <1>6, SequenceLength
  <1> QED
    BY <1>4, <1>5, <1>7 DEF t, n

\* The bytes of a number, highest first.
LEMMA BigIs ==
    ASSUME NEW n \in Nat, NEW w \in Nat
    PROVE  /\ Big(n, w) \in Seq(Byte) /\ Len(Big(n, w)) = w
           /\ \A i \in 1..w : Big(n, w)[i] = Shifted(n)[w - i] % Base
  <1> DEFINE s == Little(n, w)
  <1>1. s \in Seq(Byte) /\ Len(s) = w /\ \A i \in 1..w : s[i] = Shifted(n)[i - 1] % Base
    BY LittleIs
  <1>2. Big(n, w) = Reverse(s)
    BY DEF Big
  <1> HIDE DEF s
  <1>3. Reverse(s) \in Seq(Byte) /\ Len(Reverse(s)) = w
        /\ \A i \in 1..w : Reverse(s)[i] = s[w + 1 - i]
    BY <1>1, ReverseIs
  <1>4. ASSUME NEW i \in 1..w PROVE Reverse(s)[i] = Shifted(n)[w - i] % Base
    <2>1. w + 1 - i \in 1..w /\ (w + 1 - i) - 1 = w - i
      OBVIOUS
    <2> QED
      BY <1>1, <1>3, <2>1
  <1> QED
    BY <1>2, <1>3, <1>4

\* A number that fits is read back from its bytes: from the left, the value read so
\* far is the number without the bytes to come.
LEMMA BigReadsBack ==
    ASSUME NEW n \in Nat, NEW w \in Nat, Fits(n, w)
    PROVE  FromBig(Big(n, w)) = n
  <1> DEFINE s == Big(n, w)
             q == Shifted(n)
  <1>1. s \in Seq(Byte) /\ Len(s) = w /\ \A i \in 1..w : s[i] = q[w - i] % Base
    BY BigIs
  <1>2. q \in [Nat -> Nat] /\ q[0] = n /\ (\A i \in Nat : q[i + 1] = q[i] \div Base)
    BY ShiftedIs
  <1>3. q[w] = 0
    BY DEF Fits
  <1> HIDE DEF s, q
  <1>4. PICK v : IsValue(s, v)
    BY <1>1, FromBigIs
  <1>5. /\ v \in [0..w -> Nat] /\ v[0] = 0
        /\ \A i \in 1..w : v[i] = v[i - 1] * Base + s[i]
        /\ FromBig(s) = v[w]
    BY <1>1, <1>4 DEF IsValue
  <1> DEFINE N == {i \in Nat : i <= w => v[i] = q[w - i]}
  <1>6. 0 \in N
    BY <1>3, <1>5
  <1>7. ASSUME NEW i \in Nat, i \in N PROVE i + 1 \in N
    <2> SUFFICES ASSUME i + 1 <= w PROVE v[i + 1] = q[w - (i + 1)]
      OBVIOUS
    <2> DEFINE j == w - (i + 1)
    <2>1. j \in Nat /\ w - i = j + 1 /\ i + 1 \in 1..w /\ (i + 1) - 1 = i
      OBVIOUS
    <2>2. v[i] = q[j + 1] /\ q[j + 1] = q[j] \div Base /\ q[j] \in Nat
      BY <1>2, <1>7, <2>1
    <2>3. v[i + 1] = v[i] * Base + s[i + 1] /\ s[i + 1] = q[j] % Base
      BY <1>1, <1>5, <2>1
    <2>4. v[i + 1] = (q[j] \div Base) * Base + (q[j] % Base)
      BY <2>2, <2>3
    <2> QED
      BY <2>2, <2>4, Digits
  <1>8. w \in N
    <2> HIDE DEF N
    <2> QED
      BY <1>6, <1>7, NaturalInduction
  <1>9. v[w] = q[0]
    BY <1>8
  <1> QED
    BY <1>2, <1>5, <1>9 DEF s

LEMMA LittleReadsBack ==
    ASSUME NEW n \in Nat, NEW w \in Nat, Fits(n, w)
    PROVE  FromLittle(Little(n, w)) = n
  BY BigReadsBack DEF FromLittle, Big

\* Bytes are the bytes of the number they are read as.
LEMMA LittleWritesBack ==
    ASSUME NEW bytes \in Seq(Byte)
    PROVE  /\ FromLittle(bytes) \in Nat
           /\ Little(FromLittle(bytes), Len(bytes)) = bytes
  <1> DEFINE w == Len(bytes)
             s == Reverse(bytes)
             n == FromLittle(bytes)
  <1>1. /\ w \in Nat /\ s \in Seq(Byte) /\ Len(s) = w
        /\ \A i \in 1..w : s[i] = bytes[w + 1 - i] /\ bytes[i] \in Byte
    BY ReverseIs, LenProperties, ElementOfSeq
  <1>2. PICK v : IsValue(s, v)
    BY <1>1, FromBigIs
  <1>3. /\ v \in [0..w -> Nat] /\ v[0] = 0
        /\ \A i \in 1..w : v[i] = v[i - 1] * Base + s[i]
        /\ n = v[w]
    BY <1>1, <1>2 DEF IsValue, FromLittle
  <1> HIDE DEF w, s, n
  <1>4. n \in Nat
    BY <1>1, <1>3
  <1>5. ASSUME NEW i \in 1..w
        PROVE  v[i - 1] \in Nat /\ v[i] \div Base = v[i - 1] /\ v[i] % Base = s[i]
    <2>1. v[i - 1] \in Nat /\ s[i] \in Byte /\ v[i] = v[i - 1] * Base + s[i]
      BY <1>1, <1>3
    <2> QED
      BY <2>1, DigitsUnique
  <1> DEFINE q == Shifted(n)
             N == {i \in Nat : i <= w => q[i] = v[w - i]}
  <1>6. q[0] = n /\ \A i \in Nat : q[i + 1] = q[i] \div Base
    BY <1>4, ShiftedIs
  <1> HIDE DEF q
  <1>7. 0 \in N
    BY <1>1, <1>3, <1>6
  <1>8. ASSUME NEW i \in Nat, i \in N PROVE i + 1 \in N
    <2> SUFFICES ASSUME i + 1 <= w PROVE q[i + 1] = v[w - (i + 1)]
      OBVIOUS
    <2>1. w - i \in 1..w /\ (w - i) - 1 = w - (i + 1)
      BY <1>1
    <2>2. q[i] = v[w - i] /\ q[i + 1] = q[i] \div Base
      BY <1>1, <1>6, <1>8
    <2> QED
      BY <1>5, <2>1, <2>2
  <1>9. Nat \subseteq N
    <2> HIDE DEF N
    <2> QED
      BY <1>7, <1>8, NaturalInduction
  <1> DEFINE l == Little(n, w)
  <1>10. l \in Seq(Byte) /\ Len(l) = w /\ \A i \in 1..w : l[i] = q[i - 1] % Base
    BY <1>1, <1>4, LittleIs DEF q
  <1> HIDE DEF l
  <1>11. ASSUME NEW i \in 1..w PROVE l[i] = bytes[i]
    <2> DEFINE j == w + 1 - i
    <2>1. j \in 1..w /\ w - (i - 1) = j /\ w + 1 - j = i /\ i - 1 \in Nat /\ i - 1 <= w
      BY <1>1
    <2>2. i - 1 \in N
      BY <1>9, <2>1
    <2>3. q[i - 1] = v[j]
      BY <2>1, <2>2
    <2>4. v[j] % Base = s[j] /\ s[j] = bytes[w + 1 - j]
      BY <1>1, <1>5, <2>1
    <2> QED
      BY <1>10, <2>1, <2>3, <2>4
  <1>12. l = bytes
    BY <1>1, <1>10, <1>11, SeqEqual DEF w
  <1> QED
    BY <1>4, <1>12 DEF l, n, w

\* Less fits where more does.
LEMMA LessFits ==
    ASSUME NEW m \in Nat, NEW n \in Nat, NEW w \in Nat, m <= n, Fits(n, w)
    PROVE  Fits(m, w)
  <1> DEFINE p == Shifted(m)
             q == Shifted(n)
             N == {i \in Nat : p[i] <= q[i]}
  <1>1. p \in [Nat -> Nat] /\ p[0] = m /\ (\A i \in Nat : p[i + 1] = p[i] \div Base)
    BY ShiftedIs
  <1>2. q \in [Nat -> Nat] /\ q[0] = n /\ (\A i \in Nat : q[i + 1] = q[i] \div Base)
    BY ShiftedIs
  <1> HIDE DEF p, q
  <1>3. 0 \in N
    BY <1>1, <1>2
  <1>4. ASSUME NEW i \in Nat, i \in N PROVE i + 1 \in N
    <2> DEFINE a == p[i]
               b == q[i]
    <2>1. a \in Nat /\ b \in Nat /\ a <= b
      BY <1>1, <1>2, <1>4
    <2> HIDE DEF a, b
    <2>2. a \div Base <= b \div Base
      <3>1. /\ a \div Base \in Nat /\ (a \div Base) * Base <= a
            /\ b \div Base \in Nat /\ b < (b \div Base + 1) * Base
        BY <2>1, WidthsAssumption, DivIs
      <3> DEFINE c == a \div Base
                 d == b \div Base
      <3> HIDE DEF c, d
      <3>2. c \in Nat /\ d \in Nat /\ c * Base <= a /\ b < (d + 1) * Base
        BY <3>1 DEF c, d
      <3>3. ASSUME d < c PROVE FALSE
        <4>1. (d + 1) * Base <= c * Base
          BY <3>2, <3>3, WidthsAssumption, MulMono
        <4> QED
          BY <2>1, <3>2, <4>1, WidthsAssumption
      <3> QED
        BY <3>2, <3>3 DEF c, d
    <2> QED
      BY <1>1, <1>2, <2>2 DEF a, b
  <1>5. w \in N
    <2> HIDE DEF N
    <2> QED
      BY <1>3, <1>4, NaturalInduction
  <1>6. q[w] = 0 /\ p[w] \in Nat
    BY <1>1 DEF Fits, q
  <1> QED
    BY <1>5, <1>6 DEF Fits, p

\* One byte is enough for zero and one.
LEMMA BitFits ==
    ASSUME NEW b \in {0, 1}, NEW w \in Nat \ {0}
    PROVE  Fits(b, w)
  <1> DEFINE q == Shifted(b)
             N == {i \in Nat : q[i + 1] = 0}
  <1> b \in Nat
    OBVIOUS
  <1>1. q[0] = b /\ (\A i \in Nat : q[i + 1] = q[i] \div Base)
    BY ShiftedIs
  <1> HIDE DEF q
  <1>2. 0 * Base + b = b /\ b \in Byte /\ 0 * Base + 0 = 0 /\ 0 \in Byte
    BY WidthsAssumption DEF Byte
  <1>3. b \div Base = 0 /\ 0 \div Base = 0
    <2>1. b \in Byte /\ 0 \in Byte
      BY <1>2
    <2>2. (0 * Base + b) \div Base = 0 /\ (0 * Base + 0) \div Base = 0
      BY <2>1, DigitsUnique
    <2> QED
      BY <1>2, <2>2
  <1>4. 0 \in N /\ \A i \in Nat : i \in N => i + 1 \in N
    BY <1>1, <1>3
  <1>5. w - 1 \in N
    <2> HIDE DEF N
    <2> QED
      BY <1>4, NaturalInduction
  <1> QED
    BY <1>5 DEF Fits, q

-----------------------------------------------------------------------------
(***************************************************************************)
(* Pieces of a string of bytes.                                            *)
(***************************************************************************)

\* The piece is in the data behind the first bytes, offset of them.
Holds(data, offset, piece) ==
    /\ offset + Len(piece) <= Len(data)
    /\ \A i \in 1..Len(piece) : data[offset + i] = piece[i]

\* What is cut out is a piece.
LEMMA Cut ==
    ASSUME NEW data \in Seq(Byte), NEW offset \in Nat, NEW n \in Nat, offset + n <= Len(data)
    PROVE  /\ SubSeq(data, offset + 1, offset + n) \in Seq(Byte)
           /\ Len(SubSeq(data, offset + 1, offset + n)) = n
           /\ Holds(data, offset, SubSeq(data, offset + 1, offset + n))
  <1> DEFINE cut == SubSeq(data, offset + 1, offset + n)
  <1>1. Len(data) \in Nat /\ offset + 1 \in Int /\ offset + n \in Int
    BY LenProperties
  <1>2. \A i \in (offset + 1)..(offset + n) : data[i] \in Byte
    BY <1>1, ElementOfSeq
  <1>3. /\ cut \in Seq(Byte)
        /\ Len(cut) = IF offset + 1 <= offset + n THEN (offset + n) - (offset + 1) + 1 ELSE 0
        /\ \A i \in 1..((offset + n) - (offset + 1) + 1) : cut[i] = data[(offset + 1) + i - 1]
    BY <1>1, <1>2, SubSeqProperties
  <1> HIDE DEF cut
  <1>4. Len(cut) = n
    BY <1>3
  <1>5. ASSUME NEW i \in 1..n PROVE data[offset + i] = cut[i]
    <2>1. i \in 1..((offset + n) - (offset + 1) + 1) /\ (offset + 1) + i - 1 = offset + i
      OBVIOUS
    <2> QED
      BY <1>3, <2>1
  <1>6. Holds(data, offset, cut)
    BY <1>4, <1>5 DEF Holds
  <1> QED
    BY <1>3, <1>4, <1>6 DEF cut

\* Cutting out a piece gives the piece.
LEMMA CutPiece ==
    ASSUME NEW data \in Seq(Byte), NEW piece \in Seq(Byte), NEW offset \in Nat,
           Holds(data, offset, piece)
    PROVE  SubSeq(data, offset + 1, offset + Len(piece)) = piece
  <1> DEFINE n == Len(piece)
             cut == SubSeq(data, offset + 1, offset + n)
  <1>1. n \in Nat /\ offset + n <= Len(data) /\ \A i \in 1..n : data[offset + i] = piece[i]
    BY LenProperties DEF Holds
  <1>2. cut \in Seq(Byte) /\ Len(cut) = n /\ Holds(data, offset, cut)
    BY <1>1, Cut
  <1> HIDE DEF cut
  <1>3. \A i \in 1..n : cut[i] = piece[i]
    BY <1>1, <1>2 DEF Holds
  <1>4. cut = piece
    BY <1>2, <1>3, SeqEqual
  <1> QED
    BY <1>4 DEF cut

\* A string is a piece of itself,
LEMMA HoldsSelf ==
    ASSUME NEW s \in Seq(Byte)
    PROVE  Holds(s, 0, s)
  BY LenProperties DEF Holds

\* a piece of its beginning
LEMMA HoldsLeft ==
    ASSUME NEW s \in Seq(Byte), NEW t \in Seq(Byte), NEW piece \in Seq(Byte),
           NEW offset \in Nat, Holds(s, offset, piece)
    PROVE  Holds(s \o t, offset, piece)
  <1>1. Len(s) \in Nat /\ Len(t) \in Nat /\ Len(piece) \in Nat
    BY LenProperties
  <1>2. /\ Len(s \o t) = Len(s) + Len(t)
        /\ \A i \in 1..Len(s) + Len(t) :
              (s \o t)[i] = IF i <= Len(s) THEN s[i] ELSE t[i - Len(s)]
    BY ConcatProperties
  <1>3. ASSUME NEW i \in 1..Len(piece) PROVE (s \o t)[offset + i] = piece[i]
    <2>1. offset + i \in 1..Len(s) + Len(t) /\ offset + i <= Len(s)
      BY <1>1 DEF Holds
    <2> QED
      BY <1>2, <2>1 DEF Holds
  <1> QED
    BY <1>1, <1>2, <1>3 DEF Holds

\* and a piece of its end are pieces of it,
LEMMA HoldsRight ==
    ASSUME NEW s \in Seq(Byte), NEW t \in Seq(Byte), NEW piece \in Seq(Byte),
           NEW offset \in Nat, Holds(t, offset, piece)
    PROVE  Holds(s \o t, Len(s) + offset, piece)
  <1>1. Len(s) \in Nat /\ Len(t) \in Nat /\ Len(piece) \in Nat
    BY LenProperties
  <1>2. /\ Len(s \o t) = Len(s) + Len(t)
        /\ \A i \in 1..Len(s) + Len(t) :
              (s \o t)[i] = IF i <= Len(s) THEN s[i] ELSE t[i - Len(s)]
    BY ConcatProperties
  <1>3. ASSUME NEW i \in 1..Len(piece) PROVE (s \o t)[Len(s) + offset + i] = piece[i]
    <2> DEFINE j == Len(s) + offset + i
    <2>1. j \in 1..Len(s) + Len(t) /\ ~(j <= Len(s)) /\ j - Len(s) = offset + i
      BY <1>1 DEF Holds
    <2>2. (s \o t)[j] = t[j - Len(s)]
      BY <1>2, <2>1
    <2> QED
      BY <2>1, <2>2 DEF Holds
  <1> QED
    BY <1>1, <1>2, <1>3 DEF Holds

\* and so is a piece of a piece.
LEMMA HoldsWithin ==
    ASSUME NEW s \in Seq(Byte), NEW piece \in Seq(Byte), NEW part \in Seq(Byte),
           NEW offset \in Nat, NEW inner \in Nat,
           Holds(s, offset, piece), Holds(piece, inner, part)
    PROVE  Holds(s, offset + inner, part)
  <1>1. Len(s) \in Nat /\ Len(part) \in Nat /\ Len(piece) \in Nat
    BY LenProperties
  <1>2. ASSUME NEW i \in 1..Len(part) PROVE s[offset + inner + i] = part[i]
    <2>1. inner + i \in 1..Len(piece) /\ offset + (inner + i) = offset + inner + i
      BY <1>1 DEF Holds
    <2> QED
      BY <2>1 DEF Holds
  <1> QED
    BY <1>1, <1>2 DEF Holds

\* The pieces of a string put together from two,
LEMMA Joined ==
    ASSUME NEW s \in Seq(Byte), NEW t \in Seq(Byte)
    PROVE  /\ s \o t \in Seq(Byte) /\ Len(s \o t) = Len(s) + Len(t)
           /\ Holds(s \o t, 0, s) /\ Holds(s \o t, Len(s), t)
  <1>1. s \o t \in Seq(Byte) /\ Len(s \o t) = Len(s) + Len(t) /\ Len(s) \in Nat
    BY ConcatProperties, LenProperties
  <1>2. Holds(s \o t, 0, s)
    BY HoldsSelf, HoldsLeft
  <1>3. Holds(s \o t, Len(s) + 0, t)
    BY HoldsSelf, HoldsRight
  <1>4. Len(s) + 0 = Len(s)
    BY <1>1
  <1> QED
    BY <1>1, <1>2, <1>3, <1>4, Zenon

\* and from three.
LEMMA JoinedThree ==
    ASSUME NEW s \in Seq(Byte), NEW t \in Seq(Byte), NEW u \in Seq(Byte)
    PROVE  /\ s \o t \o u \in Seq(Byte) /\ Len(s \o t \o u) = Len(s) + Len(t) + Len(u)
           /\ Holds(s \o t \o u, 0, s) /\ Holds(s \o t \o u, Len(s), t)
           /\ Holds(s \o t \o u, Len(s) + Len(t), u)
  <1> DEFINE v == s \o t
  <1>1. v \in Seq(Byte) /\ Len(v) = Len(s) + Len(t) /\ Holds(v, 0, s) /\ Holds(v, Len(s), t)
        /\ Len(s) \in Nat
    BY Joined, LenProperties
  <1> HIDE DEF v
  <1>2. v \o u \in Seq(Byte) /\ Len(v \o u) = Len(v) + Len(u) /\ Holds(v \o u, Len(v), u)
    BY <1>1, Joined
  <1>3. Holds(v \o u, 0, s) /\ Holds(v \o u, Len(s), t)
    BY <1>1, HoldsLeft
  <1> QED
    BY <1>1, <1>2, <1>3, Zenon DEF v

\* Two strings that hold the same three pieces and nothing else are equal.
LEMMA SamePieces ==
    ASSUME NEW data \in Seq(Byte), NEW other \in Seq(Byte),
           NEW s \in Seq(Byte), NEW t \in Seq(Byte), NEW u \in Seq(Byte),
           Len(data) = Len(s) + Len(t) + Len(u), Len(other) = Len(data),
           Holds(data, 0, s), Holds(data, Len(s), t), Holds(data, Len(s) + Len(t), u),
           Holds(other, 0, s), Holds(other, Len(s), t), Holds(other, Len(s) + Len(t), u)
    PROVE  data = other
  <1> DEFINE k == Len(s)
             m == Len(t)
             n == Len(u)
  <1>1. k \in Nat /\ m \in Nat /\ n \in Nat
    BY LenProperties
  <1>2. /\ \A i \in 1..k : data[0 + i] = s[i] /\ other[0 + i] = s[i]
        /\ \A i \in 1..m : data[k + i] = t[i] /\ other[k + i] = t[i]
        /\ \A i \in 1..n : data[k + m + i] = u[i] /\ other[k + m + i] = u[i]
    BY DEF Holds
  <1>3. Len(data) = k + m + n
    OBVIOUS
  <1> HIDE DEF k, m, n
  <1>4. ASSUME NEW i \in 1..Len(data) PROVE data[i] = other[i]
    <2>1. CASE i \in 1..k
      <3>1. 0 + i = i
        BY <2>1
      <3> QED
        BY <1>2, <2>1, <3>1
    <2>2. CASE i \in (k + 1)..(k + m)
      <3>1. i - k \in 1..m /\ k + (i - k) = i
        BY <1>1, <2>2
      <3> QED
        BY <1>2, <3>1
    <2>3. CASE i \in (k + m + 1)..(k + m + n)
      <3>1. i - (k + m) \in 1..n /\ k + m + (i - (k + m)) = i
        BY <1>1, <2>3
      <3> QED
        BY <1>2, <3>1
    <2> QED
      BY <1>1, <1>3, <2>1, <2>2, <2>3
  <1> QED
    BY <1>4, SeqEqual

\* What FlattenSeq joins, up to each of the parts.
IsJoin(seqs, f) ==
    /\ f[1] = seqs[1]
    /\ \A i \in 2..Len(seqs) : f[i] = f[i - 1] \o seqs[i]
    /\ FlattenSeq(seqs) = f[Len(seqs)]

\* The recursion in FlattenSeq has a solution.
LEMMA FlattenIsJoin ==
    ASSUME NEW seqs \in Seq(Seq(Byte)), seqs # <<>>
    PROVE  \E f : IsJoin(seqs, f)
  <1> DEFINE n == Len(seqs)
             T == Seq(Byte)
             Solves(f) == f = [i \in 1..n |-> IF i = 1 THEN seqs[i] ELSE f[i - 1] \o seqs[i]]
             step == [i \in Nat |-> [x \in T |->
                        IF i + 2 \in 1..n THEN x \o seqs[i + 2] ELSE x]]
             v == CHOOSE f : Solves(f)
  <1>1. n \in Nat \ {0} /\ \A i \in 1..n : seqs[i] \in T
    BY EmptySeq, ElementOfSeq
  <1>2. step \in [Nat -> [T -> T]]
    <2> SUFFICES ASSUME NEW i \in Nat, NEW x \in T, i + 2 \in 1..n
                 PROVE  x \o seqs[i + 2] \in T
      OBVIOUS
    <2> QED
      BY <1>1, ConcatProperties
  <1>3. PICK f : Recursion(f, T, seqs[1], step)
    <2> HIDE DEF step, T
    <2>1. seqs[1] \in T
      BY <1>1
    <2> QED
      BY <1>2, <2>1, RecursionExists
  <1> DEFINE g == [i \in 1..n |-> f[i - 1]]
  <1>4. ASSUME NEW i \in 1..n PROVE g[i] = IF i = 1 THEN seqs[i] ELSE g[i - 1] \o seqs[i]
    <2> HIDE DEF T
    <2>1. CASE i = 1
      BY <1>1, <1>3, <2>1 DEF Recursion
    <2>2. CASE i # 1
      <3>1. i - 2 \in Nat /\ (i - 2) + 1 = i - 1 /\ (i - 2) + 2 = i /\ i - 1 \in 1..n
        BY <1>1, <2>2
      <3>2. f[i - 1] = step[i - 2][f[i - 2]] /\ f[i - 2] \in T
        BY <1>3, <3>1 DEF Recursion
      <3>3. f[i - 1] = f[i - 2] \o seqs[i]
        BY <3>1, <3>2
      <3>4. g[i] = f[i - 1] /\ g[i - 1] = f[i - 2]
        <4>1. (i - 1) - 1 = i - 2
          BY <3>1
        <4> QED
          BY <3>1, <4>1
      <3> QED
        BY <2>2, <3>3, <3>4, Zenon
    <2> QED
      BY <2>1, <2>2
  <1>5. g = [i \in 1..n |-> g[i]]
    OBVIOUS
  <1> HIDE DEF g, step, T
  <1>6. Solves(g)
    BY <1>4, <1>5
  <1>7. Solves(v)
    BY <1>6, Zenon
  <1>8. FlattenSeq(seqs) = v[n]
    <2>1. n # 0
      BY <1>1
    <2> QED
      BY <2>1, Zenon DEF FlattenSeq
  <1> HIDE DEF v
  <1>9. \A i \in 1..n : v[i] = IF i = 1 THEN seqs[i] ELSE v[i - 1] \o seqs[i]
    <2> HIDE DEF n
    <2> QED
      BY <1>7, Zenon
  <1>10. v[1] = seqs[1] /\ \A i \in 2..n : v[i] = v[i - 1] \o seqs[i]
    <2>1. 1 \in 1..n /\ \A i \in 2..n : i \in 1..n /\ i # 1
      BY <1>1
    <2> HIDE DEF n
    <2> QED
      BY <1>9, <2>1, Zenon
  <1> QED
    BY <1>8, <1>10 DEF IsJoin

\* Parts of one size, joined, are found at multiples of the size.
LEMMA FlattenIs ==
    ASSUME NEW size \in Nat, NEW seqs \in Seq(Seq(Byte)),
           \A i \in 1..Len(seqs) : Len(seqs[i]) = size
    PROVE  /\ FlattenSeq(seqs) \in Seq(Byte)
           /\ Len(FlattenSeq(seqs)) = Len(seqs) * size
           /\ \A i \in 1..Len(seqs) : Holds(FlattenSeq(seqs), (i - 1) * size, seqs[i])
  <1> DEFINE n == Len(seqs)
  <1>1. n \in Nat /\ \A i \in 1..n : seqs[i] \in Seq(Byte)
    BY LenProperties, ElementOfSeq
  <1>2. CASE seqs = <<>>
    <2>1. FlattenSeq(seqs) = <<>> /\ Len(seqs) = 0
      BY <1>2, EmptySeq DEF FlattenSeq
    <2>2. <<>> \in Seq(Byte) /\ Len(<<>>) = 0
      BY EmptySeq
    <2> QED
      BY <2>1, <2>2
  <1>3. CASE seqs # <<>>
    <2>1. PICK f : IsJoin(seqs, f)
      BY <1>3, FlattenIsJoin
    <2>2. /\ f[1] = seqs[1] /\ \A i \in 2..n : f[i] = f[i - 1] \o seqs[i]
          /\ FlattenSeq(seqs) = f[n]
      BY <2>1 DEF IsJoin
    <2>3. n \in Nat \ {0}
      BY <1>3, EmptySeq
    <2> DEFINE Good(i) == /\ f[i] \in Seq(Byte)
                          /\ Len(f[i]) = i * size
                          /\ \A k \in 1..i : Holds(f[i], (k - 1) * size, seqs[k])
               N == {i \in Nat : i + 1 <= n => Good(i + 1)}
    <2>4. 0 \in N
      <3>1. seqs[1] \in Seq(Byte) /\ Len(seqs[1]) = 1 * size
        BY <1>1, <2>3
      <3>2. Holds(seqs[1], 0, seqs[1]) /\ (1 - 1) * size = 0
        BY <3>1, HoldsSelf
      <3>3. Good(1)
        <4>1. \A k \in 1..1 : k = 1
          OBVIOUS
        <4> QED
          BY <2>2, <3>1, <3>2, <4>1
      <3> HIDE DEF Good
      <3> QED
        BY <3>3
    <2>5. ASSUME NEW i \in Nat, i \in N PROVE i + 1 \in N
      <3> SUFFICES ASSUME i + 2 <= n PROVE Good(i + 2)
        OBVIOUS
      <3> DEFINE s == f[i + 1]
                 t == seqs[i + 2]
                 j == i + 1
      <3>1. i + 2 \in 2..n /\ (i + 2) - 1 = i + 1 /\ i + 2 \in 1..n
        BY <1>1
      <3>2. f[i + 2] = s \o t /\ t \in Seq(Byte) /\ Len(t) = size
        BY <1>1, <2>2, <3>1
      <3>3. /\ s \in Seq(Byte) /\ Len(s) = j * size
            /\ \A k \in 1..j : Holds(s, (k - 1) * size, seqs[k])
        BY <2>5
      <3> HIDE DEF s, t
      <3>4. s \o t \in Seq(Byte) /\ Len(s \o t) = Len(s) + Len(t)
        <4>1. s \in Seq(Byte) /\ t \in Seq(Byte)
          BY <3>2, <3>3
        <4> QED
          BY <4>1, ConcatProperties
      <3>5. j * size + size = (i + 2) * size /\ j * size \in Nat /\ j * size + 0 = j * size
            /\ (i + 2) - 1 = j
        OBVIOUS
      <3>6. ASSUME NEW k \in 1..(i + 2) PROVE Holds(s \o t, (k - 1) * size, seqs[k])
        <4>1. CASE k = i + 2
          <5>1. Holds(s \o t, Len(s) + 0, t)
            BY <3>2, <3>3, HoldsSelf, HoldsRight
          <5> QED
            BY <3>3, <3>5, <4>1, <5>1 DEF t
        <4>2. CASE k # i + 2
          <5>1. k \in 1..j /\ (k - 1) * size \in Nat /\ k \in 1..n
            BY <4>2, <1>1
          <5>2. seqs[k] \in Seq(Byte) /\ Holds(s, (k - 1) * size, seqs[k])
            BY <1>1, <3>3, <5>1
          <5> QED
            BY <3>2, <3>3, <5>1, <5>2, HoldsLeft
        <4> QED
          BY <4>1, <4>2
      <3> QED
        BY <3>2, <3>3, <3>4, <3>5, <3>6
    <2>6. n - 1 \in N
      <3> HIDE DEF N
      <3>1. Nat \subseteq N
        BY <2>4, <2>5, NaturalInduction
      <3> QED
        BY <2>3, <3>1
    <2>7. Good(n)
      <3>1. (n - 1) + 1 = n /\ n <= n
        BY <1>1
      <3> HIDE DEF n, Good
      <3> QED
        BY <2>6, <3>1
    <2> QED
      BY <2>2, <2>7
  <1> QED
    BY <1>2, <1>3

-----------------------------------------------------------------------------
(***************************************************************************)
(* Borsh.                                                                  *)
(***************************************************************************)

\* An account is its key and its flags, and they are read back.
LEMMA AccountReadsBack ==
    ASSUME NEW a \in Account
    PROVE  /\ EncodeAccount(a) \in Seq(Byte) /\ Len(EncodeAccount(a)) = AccountSize
           /\ ValidFlags(EncodeAccount(a)[AccountSize])
           /\ DecodeAccount(EncodeAccount(a)) = a
  <1> DEFINE key == a.pubkey
             flags == EncodeFlags(a)
             e == EncodeAccount(a)
  <1>1. key \in [1..WordBytes -> Byte] /\ a.is_signer \in BOOLEAN /\ a.is_writable \in BOOLEAN
        /\ a = [pubkey |-> key, is_signer |-> a.is_signer, is_writable |-> a.is_writable]
    BY DEF Account
  <1>2. WordBytes \in Nat /\ key \in Seq(Byte) /\ Len(key) = WordBytes
    <2>1. WordBytes \in Nat /\ key = [i \in 1..WordBytes |-> key[i]]
      BY <1>1, WidthsAssumption
    <2> QED
      BY <1>1, <2>1, SeqDef, SequenceLength
  <1>3. flags \in 0..3 /\ flags \in Byte /\ ((flags % 2 = 1) <=> a.is_signer)
        /\ ((flags \div 2 = 1) <=> a.is_writable)
    BY <1>1, WidthsAssumption DEF EncodeFlags, Bit, Byte
  <1>4. (flags % 2 = 1) = a.is_signer /\ (flags \div 2 = 1) = a.is_writable
    BY <1>1, <1>3
  <1> HIDE DEF key, flags
  <1>5. e = Append(key, flags)
    BY DEF EncodeAccount, key, flags
  <1> HIDE DEF e
  <1>6. /\ e \in Seq(Byte) /\ Len(e) = WordBytes + 1
        /\ \A i \in 1..WordBytes : e[i] = key[i]
        /\ e[WordBytes + 1] = flags
    BY <1>2, <1>3, <1>5, AppendProperties
  <1>7. Holds(e, 0, key)
    BY <1>2, <1>6 DEF Holds
  <1>8. SubSeq(e, 1, WordBytes) = key
    <2>1. SubSeq(e, 0 + 1, 0 + Len(key)) = key
      BY <1>2, <1>6, <1>7, CutPiece
    <2> QED
      BY <1>2, <2>1
  <1>9. DecodeAccount(e) = [pubkey |-> key, is_signer |-> a.is_signer,
                            is_writable |-> a.is_writable]
    BY <1>4, <1>6, <1>8, Zenon DEF DecodeAccount
  <1> QED
    BY <1>1, <1>3, <1>6, <1>9 DEF e, ValidFlags, AccountSize, key

\* Bytes with valid flags are the bytes of the account they are read as.
LEMMA AccountWritesBack ==
    ASSUME NEW e \in Seq(Byte), Len(e) = AccountSize, ValidFlags(e[AccountSize])
    PROVE  DecodeAccount(e) \in Account /\ EncodeAccount(DecodeAccount(e)) = e
  <1> DEFINE key == SubSeq(e, 1, WordBytes)
             flags == e[AccountSize]
             a == DecodeAccount(e)
  <1>1. WordBytes \in Nat /\ AccountSize = WordBytes + 1 /\ 1 \in Int /\ WordBytes \in Int
    BY WidthsAssumption DEF AccountSize
  <1>2. \A i \in 1..AccountSize : e[i] \in Byte
    BY ElementOfSeq
  <1>3. \A i \in 1..WordBytes : e[i] \in Byte
    BY <1>1, <1>2
  <1>4. /\ key \in Seq(Byte) /\ Len(key) = WordBytes
        /\ \A i \in 1..WordBytes : key[i] = e[i]
    <2>1. /\ key \in Seq(Byte)
          /\ Len(key) = IF 1 <= WordBytes THEN WordBytes - 1 + 1 ELSE 0
          /\ \A i \in 1..(WordBytes - 1 + 1) : key[i] = e[1 + i - 1]
      BY <1>1, <1>3, SubSeqProperties
    <2> HIDE DEF key
    <2>2. ASSUME NEW i \in 1..WordBytes PROVE key[i] = e[i]
      <3>1. i \in 1..(WordBytes - 1 + 1) /\ 1 + i - 1 = i
        BY <1>1
      <3> QED
        BY <2>1, <3>1
    <2> QED
      BY <1>1, <2>1, <2>2
  <1>5. flags \in 0..3
    BY <1>1, <1>2, WidthsAssumption DEF ValidFlags, Byte
  <1>6. a = [pubkey |-> key, is_signer |-> flags % 2 = 1, is_writable |-> flags \div 2 = 1]
    BY DEF DecodeAccount, AccountSize
  <1> HIDE DEF key, flags, a
  <1>7. key \in [1..WordBytes -> Byte]
    <2>1. key \in [1..Len(key) -> Byte]
      BY <1>4, LenProperties
    <2> QED
      BY <1>4, <2>1
  <1>8. a.pubkey = key /\ a.is_signer = (flags % 2 = 1) /\ a.is_writable = (flags \div 2 = 1)
    BY <1>6
  <1>9. a \in Account
    <2>1. (flags % 2 = 1) \in BOOLEAN /\ (flags \div 2 = 1) \in BOOLEAN
      OBVIOUS
    <2> QED
      BY <1>6, <1>7, <2>1, Zenon DEF Account
  <1>10. EncodeFlags(a) = flags
    <2>1. EncodeFlags(a) = (IF flags % 2 = 1 THEN 1 ELSE 0) + 2 * (IF flags \div 2 = 1 THEN 1 ELSE 0)
      BY <1>8, Zenon DEF EncodeFlags, Bit
    <2>2. flags = (IF flags % 2 = 1 THEN 1 ELSE 0) + 2 * (IF flags \div 2 = 1 THEN 1 ELSE 0)
      BY <1>5
    <2> QED
      BY <2>1, <2>2
  <1>11. flags \in Byte
    BY <1>1, <1>2 DEF flags
  <1> DEFINE f == Append(key, flags)
  <1>12. /\ f \in Seq(Byte) /\ Len(f) = WordBytes + 1
         /\ \A i \in 1..WordBytes : f[i] = key[i]
         /\ f[WordBytes + 1] = flags
    BY <1>4, <1>11, AppendProperties
  <1>13. EncodeAccount(a) = f
    BY <1>8, <1>10 DEF EncodeAccount
  <1> HIDE DEF f
  <1>14. ASSUME NEW i \in 1..Len(f) PROVE f[i] = e[i]
    <2>1. CASE i = WordBytes + 1
      BY <1>1, <1>12, <2>1 DEF flags
    <2>2. CASE i # WordBytes + 1
      <3>1. i \in 1..WordBytes
        BY <1>1, <1>12, <2>2
      <3> QED
        BY <1>4, <1>12, <3>1
    <2> QED
      BY <2>1, <2>2
  <1>15. f = e
    BY <1>1, <1>12, <1>14, SeqEqual
  <1> QED
    BY <1>9, <1>13, <1>15 DEF a

\* The entries that EncodeAccounts joins.
LEMMA EntriesAre ==
    ASSUME NEW accounts \in Seq(Account), NEW seqs,
           seqs = [i \in 1..Len(accounts) |-> EncodeAccount(accounts[i])]
    PROVE  /\ seqs \in Seq(Seq(Byte)) /\ Len(seqs) = Len(accounts)
           /\ \A i \in 1..Len(accounts) : /\ seqs[i] = EncodeAccount(accounts[i])
                                          /\ Len(seqs[i]) = AccountSize
                                          /\ accounts[i] \in Account
  <1> DEFINE n == Len(accounts)
             T == Seq(Byte)
  <1>1. n \in Nat /\ \A i \in 1..n : accounts[i] \in Account
    BY LenProperties, ElementOfSeq
  <1>2. \A i \in 1..n : EncodeAccount(accounts[i]) \in T /\ Len(EncodeAccount(accounts[i])) = AccountSize
    BY <1>1, AccountReadsBack
  <1> HIDE DEF n, T
  <1>3. seqs = [i \in 1..n |-> EncodeAccount(accounts[i])]
    BY DEF n
  <1>4. seqs \in [1..n -> T] /\ \A i \in 1..n : seqs[i] = EncodeAccount(accounts[i])
    BY <1>2, <1>3
  <1>5. seqs \in Seq(T)
    BY <1>1, <1>4, SeqDef
  <1>6. seqs = [i \in 1..n |-> seqs[i]]
    BY <1>4
  <1>7. Len(seqs) = n
    BY <1>1, <1>6, SequenceLength
  <1> QED
    BY <1>1, <1>2, <1>4, <1>5, <1>7 DEF n, T

\* A place in a list of entries is a place in one of the entries.
LEMMA PlaceInEntry ==
    ASSUME NEW n \in Nat, NEW size \in Nat, size >= 1, NEW m \in 1..(n * size)
    PROVE  \E i \in 1..n, j \in 1..size : m = (i - 1) * size + j
  <1> DEFINE q == (m - 1) \div size
  <1>1. m - 1 \in Nat /\ n * size \in Nat
    OBVIOUS
  <1>2. q \in Nat /\ q * size <= m - 1 /\ m - 1 < (q + 1) * size
    BY <1>1, DivIs
  <1> HIDE DEF q
  <1>3. (q + 1) * size = q * size + size /\ q * size \in Nat
    BY <1>2
  <1>4. q < n
    <2> SUFFICES ASSUME n <= q PROVE FALSE
      BY <1>2
    <2>1. n * size <= q * size
      BY <1>2, MulMono
    <2> QED
      BY <1>1, <1>2, <1>3, <2>1
  <1> DEFINE i == q + 1
             j == m - q * size
  <1>5. i \in 1..n /\ i - 1 = q
    BY <1>2, <1>4
  <1>6. j \in 1..size /\ m = q * size + j
    BY <1>1, <1>2, <1>3
  <1> HIDE DEF i, j
  <1>7. m = (i - 1) * size + j
    BY <1>5, <1>6
  <1> QED
    BY <1>5, <1>6, <1>7

\* A list of accounts is read back.
LEMMA AccountsReadBack ==
    ASSUME NEW accounts \in Seq(Account), Fits(Len(accounts), LenBytes)
    PROVE  /\ EncodeAccounts(accounts) \in Seq(Byte)
           /\ DecodeAccounts(EncodeAccounts(accounts)) = {accounts}
  <1> DEFINE n == Len(accounts)
             seqs == [i \in 1..n |-> EncodeAccount(accounts[i])]
             l == Little(n, LenBytes)
             f == FlattenSeq(seqs)
             bytes == EncodeAccounts(accounts)
  <1>1. n \in Nat /\ LenBytes \in Nat /\ AccountSize \in Nat
    BY LenProperties, WidthsAssumption DEF AccountSize
  <1>2. l \in Seq(Byte) /\ Len(l) = LenBytes /\ FromLittle(l) = n
    BY <1>1, LittleIs, LittleReadsBack
  <1>3. /\ seqs \in Seq(Seq(Byte)) /\ Len(seqs) = n
        /\ \A i \in 1..n : /\ seqs[i] = EncodeAccount(accounts[i])
                           /\ Len(seqs[i]) = AccountSize
                           /\ accounts[i] \in Account
    BY EntriesAre
  <1> HIDE DEF seqs, l
  <1>4. f \in Seq(Byte) /\ Len(f) = n * AccountSize
        /\ \A i \in 1..n : Holds(f, (i - 1) * AccountSize, seqs[i])
    BY <1>1, <1>3, FlattenIs
  <1> HIDE DEF f
  <1>5. bytes = l \o f
    BY DEF EncodeAccounts, f, l, seqs
  <1> HIDE DEF bytes
  <1>6. bytes \in Seq(Byte) /\ Len(bytes) = LenBytes + n * AccountSize
    BY <1>2, <1>4, <1>5, ConcatProperties
  <1>7. SubSeq(bytes, 1, LenBytes) = l
    <2>1. Holds(bytes, 0, l)
      BY <1>2, <1>4, <1>5, HoldsSelf, HoldsLeft
    <2>2. SubSeq(bytes, 0 + 1, 0 + Len(l)) = l
      BY <1>2, <1>6, <2>1, CutPiece
    <2> QED
      BY <1>1, <1>2, <2>2
  <1>8. ASSUME NEW i \in 1..n PROVE Entry(bytes, i) = EncodeAccount(accounts[i])
    <2> DEFINE o == (i - 1) * AccountSize
    <2>1. o \in Nat /\ o + AccountSize = i * AccountSize
      BY <1>1
    <2>2. seqs[i] \in Seq(Byte) /\ Len(seqs[i]) = AccountSize /\ Holds(f, o, seqs[i])
      BY <1>3, <1>4, AccountReadsBack
    <2> HIDE DEF o
    <2>3. Holds(bytes, LenBytes + o, seqs[i])
      BY <1>2, <1>4, <1>5, <2>1, <2>2, HoldsRight
    <2>4. SubSeq(bytes, (LenBytes + o) + 1, (LenBytes + o) + Len(seqs[i])) = seqs[i]
      <3> DEFINE q == LenBytes + o
      <3>1. q \in Nat /\ Holds(bytes, q, seqs[i])
        BY <1>1, <2>1, <2>3
      <3> HIDE DEF q
      <3>2. SubSeq(bytes, q + 1, q + Len(seqs[i])) = seqs[i]
        BY <1>6, <2>2, <3>1, CutPiece
      <3> QED
        BY <3>2 DEF q
    <2>5. (LenBytes + o) + Len(seqs[i]) = LenBytes + i * AccountSize
      BY <1>1, <2>1, <2>2
    <2> QED
      BY <1>3, <2>4, <2>5 DEF Entry, o
  <1>9. \A i \in 1..n : ValidFlags(Entry(bytes, i)[AccountSize])
                        /\ DecodeAccount(Entry(bytes, i)) = accounts[i]
    BY <1>3, <1>8, AccountReadsBack
  <1>10. Len(bytes) >= LenBytes
    <2>1. n * AccountSize \in Nat
      BY <1>1
    <2> QED
      BY <1>1, <1>6, <2>1
  <1>11. DecodeAccounts(bytes) = {[i \in 1..n |-> DecodeAccount(Entry(bytes, i))]}
    <2> HIDE DEF n
    <2> QED
      BY <1>2, <1>6, <1>7, <1>9, <1>10, Zenon DEF DecodeAccounts
  <1>12. [i \in 1..n |-> DecodeAccount(Entry(bytes, i))] = accounts
    <2>1. accounts = [i \in 1..n |-> accounts[i]]
      BY LenProperties
    <2> HIDE DEF n
    <2>2. \A i \in 1..n : DecodeAccount(Entry(bytes, i)) = accounts[i]
      BY <1>9, Zenon
    <2>3. [i \in 1..n |-> DecodeAccount(Entry(bytes, i))] = [i \in 1..n |-> accounts[i]]
      BY <2>2, Zenon
    <2> QED
      BY <2>1, <2>3, Zenon
  <1> QED
    BY <1>6, <1>11, <1>12 DEF bytes

\* Bytes that are read as a list of accounts are the bytes of that list.
LEMMA AccountsWriteBack ==
    ASSUME NEW bytes \in Seq(Byte), NEW accounts \in DecodeAccounts(bytes)
    PROVE  accounts \in Seq(Account) /\ EncodeAccounts(accounts) = bytes
  <1> DEFINE l == SubSeq(bytes, 1, LenBytes)
             n == FromLittle(l)
             size == AccountSize
  <1>1. LenBytes \in Nat /\ size \in Nat /\ size >= 1 /\ Len(bytes) \in Nat
    BY WidthsAssumption, LenProperties DEF AccountSize
  <1>2. /\ Len(bytes) >= LenBytes
        /\ Len(bytes) = LenBytes + n * size
        /\ \A i \in 1..n : ValidFlags(Entry(bytes, i)[size])
        /\ accounts = [i \in 1..n |-> DecodeAccount(Entry(bytes, i))]
    BY Zenon DEF DecodeAccounts
  <1>3. \A i \in 1..Len(bytes) : bytes[i] \in Byte
    BY ElementOfSeq
  <1>4. l \in Seq(Byte) /\ Len(l) = LenBytes /\ \A i \in 1..LenBytes : l[i] = bytes[i]
    <2> DEFINE c == SubSeq(bytes, 0 + 1, 0 + LenBytes)
    <2>1. c \in Seq(Byte) /\ Len(c) = LenBytes /\ Holds(bytes, 0, c)
      <3>1. 0 \in Nat /\ LenBytes \in Nat /\ 0 + LenBytes <= Len(bytes)
        BY <1>1, <1>2
      <3> QED
        BY <3>1, Cut
    <2>2. c = l
      BY <1>1
    <2> HIDE DEF c
    <2> QED
      BY <1>1, <2>1, <2>2 DEF Holds
  <1> HIDE DEF l
  <1>5. n \in Nat /\ Little(n, LenBytes) = l
    BY <1>4, LittleWritesBack
  <1> HIDE DEF n, size
  <1>6. ASSUME NEW i \in 1..n
        PROVE  /\ Entry(bytes, i) \in Seq(Byte) /\ Len(Entry(bytes, i)) = size
               /\ \A j \in 1..size : Entry(bytes, i)[j] = bytes[LenBytes + ((i - 1) * size + j)]
    <2> DEFINE q == LenBytes + (i - 1) * size
               e == SubSeq(bytes, q + 1, q + size)
    <2>1. (i - 1) * size \in Nat /\ (i - 1) * size + size = i * size /\ i * size <= n * size
      BY <1>1, <1>5, MulMono
    <2>2. q \in Nat /\ q + size <= Len(bytes) /\ q + size = LenBytes + i * size
          /\ \A j \in 1..size : q + j = LenBytes + ((i - 1) * size + j)
      <3>1. Len(bytes) = LenBytes + n * size /\ n * size \in Nat /\ i * size \in Nat
        BY <1>1, <1>2, <1>5
      <3> QED
        BY <1>1, <2>1, <3>1
    <2>3. Entry(bytes, i) = e
      BY <2>2 DEF Entry, size
    <2> HIDE DEF q
    <2>4. e \in Seq(Byte) /\ Len(e) = size /\ Holds(bytes, q, e)
      BY <1>1, <2>2, Cut
    <2> HIDE DEF e
    <2>5. \A j \in 1..size : e[j] = bytes[q + j]
      BY <2>4 DEF Holds
    <2> QED
      BY <2>2, <2>3, <2>4, <2>5
  <1>7. ASSUME NEW i \in 1..n
        PROVE  /\ DecodeAccount(Entry(bytes, i)) \in Account
               /\ EncodeAccount(DecodeAccount(Entry(bytes, i))) = Entry(bytes, i)
    BY <1>2, <1>6, AccountWritesBack DEF size
  <1>8. accounts \in Seq(Account) /\ Len(accounts) = n
    <2>1. accounts \in [1..n -> Account]
      BY <1>2, <1>7, Zenon
    <2>2. accounts = [i \in 1..n |-> accounts[i]]
      BY <2>1, Zenon
    <2>3. accounts \in Seq(Account)
      BY <1>5, <2>1, SeqDef
    <2>4. Len(accounts) = n
      BY <1>5, <2>2, SequenceLength
    <2> QED
      BY <2>3, <2>4
  <1> DEFINE seqs == [i \in 1..Len(accounts) |-> EncodeAccount(accounts[i])]
             f == FlattenSeq(seqs)
  <1>9. /\ seqs \in Seq(Seq(Byte)) /\ Len(seqs) = n
        /\ \A i \in 1..n : seqs[i] = EncodeAccount(accounts[i]) /\ Len(seqs[i]) = size
    BY <1>8, EntriesAre DEF size
  <1> HIDE DEF seqs
  <1>10. /\ f \in Seq(Byte) /\ Len(f) = n * size
         /\ \A i \in 1..n : Holds(f, (i - 1) * size, seqs[i])
    BY <1>1, <1>9, FlattenIs
  <1> HIDE DEF f
  <1>11. ASSUME NEW m \in 1..(n * size) PROVE f[m] = bytes[LenBytes + m]
    <2>1. PICK i \in 1..n, j \in 1..size : m = (i - 1) * size + j
      BY <1>1, <1>5, PlaceInEntry
    <2>2. seqs[i] = Entry(bytes, i)
      BY <1>2, <1>7, <1>9
    <2>3. f[(i - 1) * size + j] = seqs[i][j]
      BY <1>9, <1>10 DEF Holds
    <2> QED
      BY <1>6, <2>1, <2>2, <2>3
  <1> DEFINE b == l \o f
  <1>12. /\ b \in Seq(Byte) /\ Len(b) = LenBytes + n * size
         /\ \A i \in 1..LenBytes + n * size : b[i] = IF i <= LenBytes THEN l[i] ELSE f[i - LenBytes]
    <2>1. /\ b \in Seq(Byte) /\ Len(b) = Len(l) + Len(f)
          /\ \A i \in 1..Len(l) + Len(f) : b[i] = IF i <= Len(l) THEN l[i] ELSE f[i - Len(l)]
      BY <1>4, <1>10, ConcatProperties
    <2> HIDE DEF b
    <2> QED
      BY <1>4, <1>10, <2>1
  <1>13. EncodeAccounts(accounts) = b
    BY <1>5, <1>8 DEF EncodeAccounts, f, seqs
  <1> HIDE DEF b
  <1>14. ASSUME NEW i \in 1..Len(b) PROVE b[i] = bytes[i]
    <2>1. n * size \in Nat
      BY <1>1, <1>5
    <2>2. CASE i <= LenBytes
      BY <1>1, <1>4, <1>12, <2>1, <2>2
    <2>3. CASE ~(i <= LenBytes)
      <3>1. i - LenBytes \in 1..(n * size) /\ LenBytes + (i - LenBytes) = i
        BY <1>1, <1>12, <2>1, <2>3
      <3>2. b[i] = f[i - LenBytes]
        BY <1>12, <2>3
      <3> QED
        BY <1>11, <3>1, <3>2
    <2> QED
      BY <2>2, <2>3
  <1>15. b = bytes
    BY <1>2, <1>12, <1>14, SeqEqual
  <1> QED
    BY <1>8, <1>13, <1>15

\* Borsh bytes are read back.
LEMMA BorshReadsBack ==
    ASSUME NEW payload \in Seq(Byte), NEW accounts \in Seq(Account), NEW p,
           p = [scheme |-> "Borsh", payload |-> payload, accounts |-> accounts],
           Fits(Len(payload), LenBytes), Fits(Len(accounts), LenBytes)
    PROVE  EncodeBorsh(p) \in Seq(Byte) /\ DecodeBorsh(EncodeBorsh(p)) = {p}
  <1> DEFINE n == Len(payload)
             l == Little(n, LenBytes)
             a == EncodeAccounts(accounts)
             data == l \o payload \o a
  <1>1. n \in Nat /\ LenBytes \in Nat
    BY LenProperties, WidthsAssumption
  <1>2. l \in Seq(Byte) /\ Len(l) = LenBytes /\ FromLittle(l) = n
    BY <1>1, LittleIs, LittleReadsBack
  <1>3. a \in Seq(Byte) /\ DecodeAccounts(a) = {accounts}
    BY AccountsReadBack
  <1>4. EncodeBorsh(p) = data
    BY Zenon DEF EncodeBorsh
  <1> HIDE DEF l, a
  <1>5. /\ data \in Seq(Byte) /\ Len(data) = Len(l) + Len(payload) + Len(a)
        /\ Holds(data, 0, l) /\ Holds(data, Len(l), payload)
        /\ Holds(data, Len(l) + Len(payload), a)
    BY <1>2, <1>3, JoinedThree
  <1> HIDE DEF data
  <1>6. SubSeq(data, 1, LenBytes) = l
    <2>1. SubSeq(data, 0 + 1, 0 + Len(l)) = l
      BY <1>2, <1>5, CutPiece
    <2> QED
      BY <1>1, <1>2, <2>1
  <1>7. SubSeq(data, LenBytes + 1, LenBytes + n) = payload
    BY <1>1, <1>2, <1>5, CutPiece
  <1>8. SubSeq(data, LenBytes + n + 1, Len(data)) = a
    <2> DEFINE q == LenBytes + n
    <2>1. q \in Nat /\ Holds(data, q, a) /\ Len(data) = q + Len(a)
      BY <1>1, <1>2, <1>5
    <2> HIDE DEF q
    <2>2. SubSeq(data, q + 1, q + Len(a)) = a
      BY <1>3, <1>5, <2>1, CutPiece
    <2> QED
      BY <2>1, <2>2, Zenon DEF q
  <1>9. Len(data) >= LenBytes /\ LenBytes + n <= Len(data)
    <2>1. Len(a) \in Nat
      BY <1>3, LenProperties
    <2> QED
      BY <1>1, <1>2, <1>5, <2>1
  <1>10. DecodeBorsh(data) = {[scheme |-> "Borsh", payload |-> payload, accounts |-> x] :
                                x \in {accounts}}
    <2> HIDE DEF n
    <2> QED
      BY <1>2, <1>3, <1>6, <1>7, <1>8, <1>9, Zenon DEF DecodeBorsh
  <1>11. DecodeBorsh(data) = {p}
    BY <1>10, Zenon
  <1> QED
    BY <1>4, <1>5, <1>11, Zenon

\* Borsh bytes that can be read are the bytes of what they are read as.
LEMMA BorshWritesBack ==
    ASSUME NEW data \in Seq(Byte), NEW p \in DecodeBorsh(data)
    PROVE  p.scheme = "Borsh" /\ EncodeBorsh(p) = data
  <1> DEFINE l == SubSeq(data, 1, LenBytes)
             n == FromLittle(l)
             payload == SubSeq(data, LenBytes + 1, LenBytes + n)
             rest == SubSeq(data, LenBytes + n + 1, Len(data))
  <1>1. LenBytes \in Nat /\ Len(data) \in Nat
    BY WidthsAssumption, LenProperties
  <1>2. Len(data) >= LenBytes /\ LenBytes + n <= Len(data)
    BY Zenon DEF DecodeBorsh
  <1>3. PICK accounts \in DecodeAccounts(rest) :
           p = [scheme |-> "Borsh", payload |-> payload, accounts |-> accounts]
    BY <1>2, Zenon DEF DecodeBorsh
  <1>4. l \in Seq(Byte) /\ Len(l) = LenBytes /\ Holds(data, 0, l)
    <2> DEFINE c == SubSeq(data, 0 + 1, 0 + LenBytes)
    <2>1. c \in Seq(Byte) /\ Len(c) = LenBytes /\ Holds(data, 0, c)
      <3>1. 0 \in Nat /\ LenBytes \in Nat /\ 0 + LenBytes <= Len(data)
        BY <1>1, <1>2
      <3> QED
        BY <3>1, Cut
    <2>2. c = l
      BY <1>1
    <2> QED
      BY <2>1, <2>2, Zenon
  <1> HIDE DEF l
  <1>5. n \in Nat /\ Little(n, LenBytes) = l
    BY <1>4, LittleWritesBack
  <1> HIDE DEF n
  <1>6. payload \in Seq(Byte) /\ Len(payload) = n /\ Holds(data, LenBytes, payload)
    BY <1>1, <1>2, <1>5, Cut
  <1>7. rest \in Seq(Byte) /\ Len(rest) = Len(data) - (LenBytes + n)
        /\ Holds(data, LenBytes + n, rest)
    <2> DEFINE q == LenBytes + n
               k == Len(data) - q
               c == SubSeq(data, q + 1, q + k)
    <2>1. q \in Nat /\ k \in Nat /\ q + k = Len(data)
      BY <1>1, <1>2, <1>5
    <2>2. c = rest
      BY <2>1, Zenon
    <2> HIDE DEF q, k
    <2>3. q + k <= Len(data)
      BY <1>1, <2>1
    <2>4. c \in Seq(Byte) /\ Len(c) = k /\ Holds(data, q, c)
      BY <2>1, <2>3, Cut
    <2> QED
      BY <2>2, <2>4, Zenon DEF q, k
  <1> HIDE DEF payload, rest
  <1>8. EncodeAccounts(accounts) = rest
    BY <1>3, <1>7, AccountsWriteBack
  <1>9. p.scheme = "Borsh" /\ p.payload = payload /\ p.accounts = accounts
    BY <1>3
  <1> DEFINE other == l \o payload \o rest
  <1>10. EncodeBorsh(p) = other
    BY <1>5, <1>6, <1>8, <1>9, Zenon DEF EncodeBorsh
  <1>11. /\ other \in Seq(Byte) /\ Len(other) = Len(l) + Len(payload) + Len(rest)
         /\ Holds(other, 0, l) /\ Holds(other, Len(l), payload)
         /\ Holds(other, Len(l) + Len(payload), rest)
    BY <1>4, <1>6, <1>7, JoinedThree
  <1> HIDE DEF other
  <1>12. Len(data) = Len(l) + Len(payload) + Len(rest) /\ Len(other) = Len(data)
    BY <1>1, <1>4, <1>5, <1>6, <1>7, <1>11
  <1>13. Holds(data, Len(l), payload) /\ Holds(data, Len(l) + Len(payload), rest)
    BY <1>4, <1>6, <1>7, Zenon
  <1>14. data = other
    BY <1>4, <1>6, <1>7, <1>11, <1>12, <1>13, SamePieces
  <1> QED
    BY <1>9, <1>10, <1>14, Zenon

-----------------------------------------------------------------------------
(***************************************************************************)
(* ABI.                                                                    *)
(***************************************************************************)

\* A word that is held is read as its number.
LEMMA WordReadsBack ==
    ASSUME NEW data \in Seq(Byte), NEW offset \in Nat, NEW n \in Nat,
           Fits(n, WordBytes), Holds(data, offset, Word(n))
    PROVE  WordAt(data, offset) = n
  <1> DEFINE w == Word(n)
  <1>1. WordBytes \in Nat
    BY WidthsAssumption
  <1>2. w \in Seq(Byte) /\ Len(w) = WordBytes /\ FromBig(w) = n
    BY <1>1, BigIs, BigReadsBack DEF Word
  <1> HIDE DEF w
  <1>3. Holds(data, offset, w)
    BY DEF w
  <1>4. SubSeq(data, offset + 1, offset + Len(w)) = w
    BY <1>2, <1>3, CutPiece
  <1> QED
    BY <1>2, <1>4, Zenon DEF WordAt

\* A word has the width of a word.
LEMMA WordIs ==
    ASSUME NEW n \in Nat
    PROVE  Word(n) \in Seq(Byte) /\ Len(Word(n)) = WordBytes
  BY WidthsAssumption, BigIs DEF Word

\* The three words of an account, and what they are read as.
LEMMA EntryReadsBack ==
    ASSUME NEW a \in Account
    PROVE  /\ EncodeEntry(a) \in Seq(Byte) /\ Len(EncodeEntry(a)) = 3 * WordBytes
           /\ \A data \in Seq(Byte), offset \in Nat : Holds(data, offset, EncodeEntry(a)) =>
                 ValidEntry(data, offset) /\ DecodeEntry(data, offset) = a
  <1> DEFINE key == a.pubkey
             s == Bit(a.is_signer)
             w == Bit(a.is_writable)
             e == EncodeEntry(a)
  <1>1. key \in [1..WordBytes -> Byte] /\ a.is_signer \in BOOLEAN /\ a.is_writable \in BOOLEAN
        /\ a = [pubkey |-> key, is_signer |-> a.is_signer, is_writable |-> a.is_writable]
    BY DEF Account
  <1>2. WordBytes \in Nat /\ key \in Seq(Byte) /\ Len(key) = WordBytes
    <2>1. WordBytes \in Nat /\ key = [i \in 1..WordBytes |-> key[i]]
      BY <1>1, WidthsAssumption
    <2> QED
      BY <1>1, <2>1, SeqDef, SequenceLength
  <1>3. s \in {0, 1} /\ w \in {0, 1} /\ s \in Nat /\ w \in Nat
    BY <1>1 DEF Bit
  <1>4. (s = 1) = a.is_signer /\ (w = 1) = a.is_writable
    BY <1>1 DEF Bit
  <1>5. Fits(s, WordBytes) /\ Fits(w, WordBytes)
    BY <1>3, BitFits, WidthsAssumption
  <1>6. /\ Word(s) \in Seq(Byte) /\ Len(Word(s)) = WordBytes
        /\ Word(w) \in Seq(Byte) /\ Len(Word(w)) = WordBytes
    BY <1>3, WordIs
  <1>7. e = key \o Word(s) \o Word(w)
    BY DEF EncodeEntry
  <1> HIDE DEF key, s, w, e
  <1>8. /\ e \in Seq(Byte) /\ Len(e) = Len(key) + Len(Word(s)) + Len(Word(w))
        /\ Holds(e, 0, key) /\ Holds(e, Len(key), Word(s))
        /\ Holds(e, Len(key) + Len(Word(s)), Word(w))
    BY <1>2, <1>6, <1>7, JoinedThree
  <1>9. Len(e) = 3 * WordBytes /\ Holds(e, WordBytes, Word(s)) /\ Holds(e, 2 * WordBytes, Word(w))
    <2>1. WordBytes + WordBytes = 2 * WordBytes
      BY <1>2
    <2>2. Len(e) = 3 * WordBytes
      BY <1>2, <1>6, <1>8
    <2> QED
      BY <1>2, <1>6, <1>8, <2>1, <2>2, Zenon
  <1>10. ASSUME NEW data \in Seq(Byte), NEW offset \in Nat, Holds(data, offset, e)
         PROVE  ValidEntry(data, offset) /\ DecodeEntry(data, offset) = a
    <2>1. WordBytes \in Nat /\ 2 * WordBytes \in Nat /\ 0 \in Nat
          /\ offset + WordBytes \in Nat /\ offset + 2 * WordBytes \in Nat /\ offset + 0 = offset
      BY <1>2
    <2>2. Holds(data, offset + 0, key)
      BY <1>2, <1>8, <1>10, HoldsWithin
    <2>3. Holds(data, offset + WordBytes, Word(s))
      BY <1>2, <1>6, <1>8, <1>9, <1>10, HoldsWithin
    <2>4. Holds(data, offset + 2 * WordBytes, Word(w))
      <3> DEFINE inner == 2 * WordBytes
      <3>1. inner \in Nat /\ Holds(e, inner, Word(w))
        BY <1>9, <2>1, Zenon
      <3> HIDE DEF inner
      <3>2. Holds(data, offset + inner, Word(w))
        BY <1>6, <1>8, <1>10, <3>1, HoldsWithin
      <3> QED
        BY <3>2, Zenon DEF inner
    <2>5. SubSeq(data, offset + 1, offset + WordBytes) = key
      <3>1. Holds(data, offset, key)
        BY <2>1, <2>2, Zenon
      <3>2. SubSeq(data, offset + 1, offset + Len(key)) = key
        BY <1>2, <3>1, CutPiece
      <3> QED
        BY <1>2, <3>2, Zenon
    <2>6. WordAt(data, offset + WordBytes) = s
      BY <1>3, <1>5, <2>1, <2>3, WordReadsBack
    <2>7. WordAt(data, offset + 2 * WordBytes) = w
      BY <1>3, <1>5, <2>1, <2>4, WordReadsBack
    <2>8. IsBool(s) /\ IsBool(w)
      BY <1>3 DEF IsBool
    <2>9. ValidEntry(data, offset)
      BY <2>6, <2>7, <2>8, Zenon DEF ValidEntry
    <2>10. DecodeEntry(data, offset) = [pubkey |-> key, is_signer |-> s = 1, is_writable |-> w = 1]
      BY <2>5, <2>6, <2>7, Zenon DEF DecodeEntry
    <2>11. DecodeEntry(data, offset) = a
      BY <1>1, <1>4, <2>10, Zenon
    <2> QED
      BY <2>9, <2>11
  <1> QED
    BY <1>8, <1>9, <1>10 DEF e

\* The table: the number of accounts, then their entries.
LEMMA TableIs ==
    ASSUME NEW accounts \in Seq(Account)
    PROVE  /\ EncodeTable(accounts) \in Seq(Byte)
           /\ Len(EncodeTable(accounts)) = WordBytes + Len(accounts) * (3 * WordBytes)
           /\ Holds(EncodeTable(accounts), 0, Word(Len(accounts)))
           /\ \A i \in 1..Len(accounts) :
                 Holds(EncodeTable(accounts), WordBytes + (i - 1) * (3 * WordBytes),
                       EncodeEntry(accounts[i]))
  <1> DEFINE n == Len(accounts)
             size == 3 * WordBytes
             T == Seq(Byte)
             seqs == [i \in 1..n |-> EncodeEntry(accounts[i])]
             f == FlattenSeq(seqs)
             w == Word(n)
  <1>1. n \in Nat /\ WordBytes \in Nat /\ size \in Nat /\ \A i \in 1..n : accounts[i] \in Account
    BY LenProperties, ElementOfSeq, WidthsAssumption
  <1>2. \A i \in 1..n : EncodeEntry(accounts[i]) \in T /\ Len(EncodeEntry(accounts[i])) = size
    BY <1>1, EntryReadsBack
  <1>3. w \in Seq(Byte) /\ Len(w) = WordBytes
    BY <1>1, WordIs
  <1>4. EncodeTable(accounts) = w \o f
    BY Zenon DEF EncodeTable
  <1> HIDE DEF n, T, size, w
  <1>5. /\ seqs \in [1..n -> T]
        /\ \A i \in 1..n : seqs[i] = EncodeEntry(accounts[i])
    BY <1>2
  <1>6. seqs = [i \in 1..n |-> seqs[i]]
    BY <1>5, Zenon
  <1>7. seqs \in Seq(T)
    BY <1>1, <1>5, SeqDef
  <1> HIDE DEF seqs
  <1>8. Len(seqs) = n
    BY <1>1, <1>6, SequenceLength
  <1>9. /\ f \in Seq(Byte) /\ Len(f) = n * size
        /\ \A i \in 1..n : Holds(f, (i - 1) * size, seqs[i])
    <2>1. \A i \in 1..n : Len(seqs[i]) = size
      BY <1>2, <1>5
    <2> QED
      BY <1>1, <1>7, <1>8, <2>1, FlattenIs DEF T
  <1> HIDE DEF f
  <1>10. w \o f \in Seq(Byte) /\ Len(w \o f) = Len(w) + Len(f) /\ Holds(w \o f, 0, w)
    BY <1>3, <1>9, Joined
  <1>11. ASSUME NEW i \in 1..n
         PROVE  Holds(w \o f, WordBytes + (i - 1) * size, EncodeEntry(accounts[i]))
    <2> DEFINE o == (i - 1) * size
    <2>1. o \in Nat
      BY <1>1
    <2>2. seqs[i] \in Seq(Byte) /\ Holds(f, o, seqs[i])
      BY <1>2, <1>5, <1>9 DEF T
    <2> HIDE DEF o
    <2>3. Holds(w \o f, Len(w) + o, seqs[i])
      BY <1>3, <1>9, <2>1, <2>2, HoldsRight
    <2> QED
      BY <1>3, <1>5, <2>3, Zenon DEF o
  <1> QED
    BY <1>3, <1>4, <1>9, <1>10, <1>11, Zenon DEF n, size, w

\* Whole words for a number of bytes.
LEMMA PaddedIs ==
    ASSUME NEW n \in Nat
    PROVE  Padded(n) \in Nat /\ n <= Padded(n)
  <1> DEFINE q == (n + WordBytes - 1) \div WordBytes
  <1>1. WordBytes \in Nat /\ WordBytes >= 1 /\ n + WordBytes - 1 \in Nat
    BY WidthsAssumption
  <1>2. q \in Nat /\ n + WordBytes - 1 < (q + 1) * WordBytes
    BY <1>1, DivIs
  <1>3. Padded(n) = q * WordBytes
    BY DEF Padded
  <1> HIDE DEF q
  <1>4. (q + 1) * WordBytes = q * WordBytes + WordBytes /\ q * WordBytes \in Nat
    BY <1>1, <1>2
  <1> QED
    BY <1>1, <1>2, <1>3, <1>4

\* The slice: the number of bytes, the bytes, and zeros up to a whole word.
LEMMA SliceIs ==
    ASSUME NEW payload \in Seq(Byte), NEW n, n = Len(payload)
    PROVE  /\ EncodeSlice(payload) \in Seq(Byte)
           /\ Len(EncodeSlice(payload)) = WordBytes + Padded(n)
           /\ Holds(EncodeSlice(payload), 0, Word(n))
           /\ Holds(EncodeSlice(payload), WordBytes, payload)
           /\ \A i \in (WordBytes + n + 1)..(WordBytes + Padded(n)) : EncodeSlice(payload)[i] = 0
  <1> DEFINE m == Padded(n) - n
             zeros == [i \in 1..m |-> 0]
             w == Word(n)
             s == w \o payload \o zeros
  <1>1. n \in Nat /\ WordBytes \in Nat /\ Padded(n) \in Nat /\ m \in Nat
    BY LenProperties, WidthsAssumption, PaddedIs
  <1>2. w \in Seq(Byte) /\ Len(w) = WordBytes
    BY <1>1, WordIs
  <1>3. EncodeSlice(payload) = s
    BY Zenon DEF EncodeSlice
  <1>4. n + m = Padded(n)
    BY <1>1
  <1> HIDE DEF m
  <1>5. zeros \in [1..m -> Byte] /\ \A i \in 1..m : zeros[i] = 0
    BY WidthsAssumption DEF Byte
  <1>6. zeros = [i \in 1..m |-> zeros[i]]
    BY <1>5, Zenon
  <1>7. zeros \in Seq(Byte)
    BY <1>1, <1>5, SeqDef
  <1> HIDE DEF zeros, w
  <1>8. Len(zeros) = m
    BY <1>1, <1>6, SequenceLength
  <1>9. /\ s \in Seq(Byte) /\ Len(s) = Len(w) + Len(payload) + Len(zeros)
        /\ Holds(s, 0, w) /\ Holds(s, Len(w), payload)
        /\ Holds(s, Len(w) + Len(payload), zeros)
    BY <1>2, <1>7, JoinedThree
  <1> HIDE DEF s
  <1>10. Len(s) = WordBytes + Padded(n)
    BY <1>1, <1>2, <1>4, <1>8, <1>9
  <1>11. ASSUME NEW i \in (WordBytes + n + 1)..(WordBytes + Padded(n)) PROVE s[i] = 0
    <2> DEFINE j == i - (WordBytes + n)
    <2>1. j \in 1..m /\ WordBytes + n + j = i
      BY <1>1, <1>4
    <2> HIDE DEF j
    <2>2. s[WordBytes + n + j] = zeros[j]
      BY <1>2, <1>8, <1>9, <2>1 DEF Holds
    <2> QED
      BY <1>5, <2>1, <2>2
  <1> QED
    BY <1>2, <1>3, <1>9, <1>10, <1>11, Zenon DEF w

\* The words DecodeAbi follows, in data it does not refuse.
Follows(data, start, length, table, count) ==
    /\ WordAt(data, 0) = start /\ WordAt(data, start) = length
    /\ WordAt(data, WordBytes) = table /\ WordAt(data, table) = count
    /\ 0 + 2 * WordBytes <= Len(data)
    /\ start + WordBytes <= Len(data)
    /\ start + WordBytes + Padded(length) <= Len(data)
    /\ \A i \in (start + WordBytes + length + 1)..(start + WordBytes + Padded(length)) :
          data[i] = 0
    /\ table + WordBytes <= Len(data)
    /\ table + WordBytes + (1 - 1) * (3 * WordBytes) + count * (3 * WordBytes) <= Len(data)
    /\ \A i \in 1..count : ValidEntry(data, table + WordBytes + (i - 1) * (3 * WordBytes))

\* What DecodeAbi returns, given those words.
LEMMA AbiDecodes ==
    ASSUME NEW data, NEW start, NEW length, NEW table, NEW count,
           Follows(data, start, length, table, count)
    PROVE  DecodeAbi(data) =
             {[scheme |-> "AbiEncoding",
               payload |-> SubSeq(data, start + WordBytes + 1, start + WordBytes + length),
               accounts |-> [i \in 1..count |->
                               DecodeEntry(data, table + WordBytes + (i - 1) * (3 * WordBytes))]]}
  BY Zenon DEF DecodeAbi, Follows

\* ABI bytes are read back.
LEMMA AbiReadsBack ==
    ASSUME NEW payload \in Seq(Byte), NEW accounts \in Seq(Account), NEW p,
           p = [scheme |-> "AbiEncoding", payload |-> payload, accounts |-> accounts],
           Fits(Len(EncodeAbi(p)), WordBytes)
    PROVE  EncodeAbi(p) \in Seq(Byte) /\ DecodeAbi(EncodeAbi(p)) = {p}
  <1> DEFINE n == Len(payload)
             m == Len(accounts)
             slice == EncodeSlice(payload)
             list == EncodeTable(accounts)
             start == 2 * WordBytes
             table == 2 * WordBytes + Len(slice)
             head == Word(start) \o Word(table) \o slice
             data == head \o list
             size == 3 * WordBytes
  <1>1. n \in Nat /\ m \in Nat /\ WordBytes \in Nat /\ WordBytes >= 1 /\ start \in Nat
        /\ size \in Nat /\ size >= 1
    BY LenProperties, WidthsAssumption
  <1>2. Padded(n) \in Nat /\ n <= Padded(n)
    BY <1>1, PaddedIs
  <1>3. /\ slice \in Seq(Byte) /\ Len(slice) = WordBytes + Padded(n)
        /\ Holds(slice, 0, Word(n)) /\ Holds(slice, WordBytes, payload)
        /\ \A i \in (WordBytes + n + 1)..(WordBytes + Padded(n)) : slice[i] = 0
    BY SliceIs
  <1>4. /\ list \in Seq(Byte) /\ Len(list) = WordBytes + m * size
        /\ Holds(list, 0, Word(m))
        /\ \A i \in 1..m : Holds(list, WordBytes + (i - 1) * size, EncodeEntry(accounts[i]))
    BY TableIs
  <1>5. EncodeAbi(p) = data
    BY Zenon DEF EncodeAbi
  <1>6. table \in Nat /\ table = start + WordBytes + Padded(n)
    BY <1>1, <1>2, <1>3
  <1> HIDE DEF slice, list, size
  <1>7. /\ Word(start) \in Seq(Byte) /\ Len(Word(start)) = WordBytes
        /\ Word(table) \in Seq(Byte) /\ Len(Word(table)) = WordBytes
        /\ Word(n) \in Seq(Byte) /\ Len(Word(n)) = WordBytes
        /\ Word(m) \in Seq(Byte) /\ Len(Word(m)) = WordBytes
    BY <1>1, <1>6, WordIs
  <1>8. WordBytes + WordBytes = start
    BY <1>1
  <1> HIDE DEF start, table
  <1>9. /\ head \in Seq(Byte) /\ Len(head) = table
        /\ Holds(head, 0, Word(start)) /\ Holds(head, WordBytes, Word(table))
        /\ Holds(head, start, slice)
    <2>1. /\ head \in Seq(Byte) /\ Len(head) = Len(Word(start)) + Len(Word(table)) + Len(slice)
          /\ Holds(head, 0, Word(start)) /\ Holds(head, Len(Word(start)), Word(table))
          /\ Holds(head, Len(Word(start)) + Len(Word(table)), slice)
      BY <1>3, <1>7, JoinedThree
    <2>2. Len(head) = table
      BY <1>7, <1>8, <2>1, Zenon DEF table, start
    <2> QED
      BY <1>7, <1>8, <2>1, <2>2, Zenon
  <1> HIDE DEF head
  <1>10. /\ data \in Seq(Byte) /\ Len(data) = table + Len(list)
         /\ Holds(data, 0, Word(start)) /\ Holds(data, WordBytes, Word(table))
         /\ Holds(data, start, slice) /\ Holds(data, table, list)
    <2>1. data \in Seq(Byte) /\ Len(data) = Len(head) + Len(list) /\ Holds(data, Len(head), list)
      BY <1>4, <1>9, Joined
    <2>2. Holds(data, 0, Word(start))
      BY <1>4, <1>7, <1>9, HoldsLeft
    <2>3. Holds(data, WordBytes, Word(table))
      BY <1>1, <1>4, <1>7, <1>9, HoldsLeft
    <2>4. Holds(data, start, slice)
      BY <1>1, <1>3, <1>4, <1>9, HoldsLeft
    <2> QED
      BY <1>9, <2>1, <2>2, <2>3, <2>4, Zenon
  <1> HIDE DEF data
  <1> DEFINE total == Len(data)
  <1>11. total \in Nat /\ Fits(total, WordBytes)
    BY <1>5, <1>10, LenProperties
  <1>12. total = start + WordBytes + Padded(n) + WordBytes + m * size /\ m * size \in Nat
         /\ m <= m * size
    <2>1. m * size \in Nat
      BY <1>1
    <2>2. m * 1 <= m * size /\ m * 1 = m
      <3>1. 1 * m <= size * m
        BY <1>1, MulMono
      <3>2. 1 * m = m * 1 /\ size * m = m * size /\ m * 1 = m
        BY <1>1
      <3> QED
        BY <3>1, <3>2
    <2>3. total = start + WordBytes + Padded(n) + WordBytes + m * size
      BY <1>1, <1>2, <1>4, <1>6, <1>10, <2>1
    <2> QED
      BY <2>1, <2>2, <2>3
  <1> HIDE DEF total
  <1>13. /\ start <= total /\ table <= total /\ n <= total /\ m <= total
         /\ 0 + start <= total /\ start + WordBytes <= total
         /\ start + WordBytes + Padded(n) <= total /\ table + WordBytes <= total
         /\ table + WordBytes + m * size <= total
    BY <1>1, <1>2, <1>6, <1>12
  <1>14. Fits(start, WordBytes) /\ Fits(table, WordBytes) /\ Fits(n, WordBytes) /\ Fits(m, WordBytes)
    BY <1>1, <1>6, <1>11, <1>13, LessFits
  <1>15. WordAt(data, 0) = start /\ WordAt(data, WordBytes) = table
    BY <1>1, <1>6, <1>10, <1>14, WordReadsBack
  <1>16. WordAt(data, start) = n
    <2>1. Holds(data, start + 0, Word(n)) /\ start + 0 = start
      BY <1>1, <1>3, <1>7, <1>10, HoldsWithin
    <2>2. Holds(data, start, Word(n))
      BY <2>1, Zenon
    <2> QED
      BY <1>1, <1>10, <1>14, <2>2, WordReadsBack
  <1>17. WordAt(data, table) = m
    <2>1. Holds(data, table + 0, Word(m)) /\ table + 0 = table
      BY <1>4, <1>6, <1>7, <1>10, HoldsWithin
    <2>2. Holds(data, table, Word(m))
      BY <2>1, Zenon
    <2> QED
      BY <1>1, <1>6, <1>10, <1>14, <2>2, WordReadsBack
  <1>18. SubSeq(data, start + WordBytes + 1, start + WordBytes + n) = payload
    <2> DEFINE q == start + WordBytes
    <2>1. q \in Nat /\ Holds(data, q, payload)
      BY <1>1, <1>3, <1>10, HoldsWithin
    <2> HIDE DEF q
    <2>2. SubSeq(data, q + 1, q + Len(payload)) = payload
      BY <1>10, <2>1, CutPiece
    <2> QED
      BY <2>2, Zenon DEF q
  <1>19. ASSUME NEW i \in (start + WordBytes + n + 1)..(start + WordBytes + Padded(n))
         PROVE  data[i] = 0
    <2> DEFINE j == i - start
    <2>1. j \in (WordBytes + n + 1)..(WordBytes + Padded(n)) /\ start + j = i
          /\ j \in 1..Len(slice)
      BY <1>1, <1>2, <1>3
    <2> HIDE DEF j
    <2>2. data[start + j] = slice[j]
      BY <1>10, <2>1 DEF Holds
    <2> QED
      BY <1>3, <2>1, <2>2
  <1>20. ASSUME NEW i \in 1..m
         PROVE  /\ ValidEntry(data, table + WordBytes + (i - 1) * size)
                /\ DecodeEntry(data, table + WordBytes + (i - 1) * size) = accounts[i]
    <2> DEFINE o == WordBytes + (i - 1) * size
               e == EncodeEntry(accounts[i])
               q == table + o
    <2>1. accounts[i] \in Account
      BY ElementOfSeq
    <2>2. o \in Nat /\ q \in Nat /\ q = table + WordBytes + (i - 1) * size
      <3> DEFINE x == (i - 1) * size
      <3>1. x \in Nat
        BY <1>1
      <3> HIDE DEF x
      <3>2. WordBytes \in Nat /\ table \in Nat
        BY <1>1, <1>6, Zenon
      <3>3. WordBytes + x \in Nat /\ table + (WordBytes + x) \in Nat
            /\ table + (WordBytes + x) = table + WordBytes + x
        BY <3>1, <3>2
      <3> QED
        BY <3>3, Zenon DEF x
    <2>3. e \in Seq(Byte) /\ Holds(list, o, e)
      BY <1>4, <2>1, EntryReadsBack
    <2> HIDE DEF o, e
    <2>4. Holds(data, q, e)
      BY <1>4, <1>6, <1>10, <2>2, <2>3, HoldsWithin
    <2> HIDE DEF q
    <2>5. ValidEntry(data, q) /\ DecodeEntry(data, q) = accounts[i]
      BY <1>10, <2>1, <2>2, <2>4, EntryReadsBack DEF e
    <2> QED
      BY <2>2, <2>5, Zenon
  <1> DEFINE At(i) == table + WordBytes + (i - 1) * size
  <1>21. table + WordBytes + (1 - 1) * size + m * size <= total
    <2>1. (1 - 1) * size = 0 /\ table + WordBytes + 0 = table + WordBytes
      BY <1>1, <1>6
    <2> QED
      BY <1>13, <2>1, Zenon
  <1>22. DecodeAbi(data) = {[scheme |-> "AbiEncoding", payload |-> payload,
                             accounts |-> [i \in 1..m |-> DecodeEntry(data, At(i))]]}
    <2> DEFINE result == [scheme |-> "AbiEncoding",
                          payload |-> SubSeq(data, start + WordBytes + 1, start + WordBytes + n),
                          accounts |-> [i \in 1..m |-> DecodeEntry(data, At(i))]]
    <2>1. \A i \in 1..m : ValidEntry(data, table + WordBytes + (i - 1) * size)
      BY <1>20, Zenon
    <2>2. \A i \in (start + WordBytes + n + 1)..(start + WordBytes + Padded(n)) : data[i] = 0
      BY <1>19, Zenon
    <2>3. 0 + 2 * WordBytes <= Len(data)
      BY <1>13, Zenon DEF start, total
    <2>4. DecodeAbi(data) = {result}
      <3> HIDE DEF n, m
      <3>1. Follows(data, start, n, table, m)
        BY <1>13, <1>15, <1>16, <1>17, <1>21, <2>1, <2>2, <2>3, Zenon DEF Follows, size, total
      <3> QED
        BY <3>1, AbiDecodes, Zenon DEF size
    <2> QED
      BY <1>18, <2>4, Zenon
  <1>23. [i \in 1..m |-> DecodeEntry(data, At(i))] = accounts
    <2>1. accounts = [i \in 1..m |-> accounts[i]]
      BY LenProperties
    <2> HIDE DEF m
    <2>2. \A i \in 1..m : DecodeEntry(data, At(i)) = accounts[i]
      BY <1>20, Zenon
    <2>3. [i \in 1..m |-> DecodeEntry(data, At(i))] = [i \in 1..m |-> accounts[i]]
      BY <2>2, Zenon
    <2> QED
      BY <2>1, <2>3, Zenon
  <1>24. DecodeAbi(data) = {p}
    BY <1>22, <1>23, Zenon
  <1> QED
    BY <1>5, <1>10, <1>24, Zenon

-----------------------------------------------------------------------------
(***************************************************************************)
(* Both schemes behind their first byte.                                   *)
(***************************************************************************)

\* A byte in front of a string.
LEMMA FirstByte ==
    ASSUME NEW b \in Byte, NEW data \in Seq(Byte)
    PROVE  /\ <<b>> \o data \in Seq(Byte) /\ <<b>> \o data # <<>>
           /\ (<<b>> \o data)[1] = b /\ Tail(<<b>> \o data) = data
  <1> DEFINE one == <<b>>
             s == one \o data
             t == Tail(s)
  <1>1. one \in Seq(Byte) /\ Len(one) = 1 /\ one[1] = b /\ Len(data) \in Nat
    BY LenProperties
  <1> HIDE DEF one
  <1>2. s \in Seq(Byte) /\ Len(s) = Len(one) + Len(data)
        /\ Holds(s, 0, one) /\ Holds(s, Len(one), data)
    BY <1>1, Joined
  <1> HIDE DEF s
  <1>3. Len(s) = 1 + Len(data) /\ s[1] = b /\ \A i \in 1..Len(data) : s[1 + i] = data[i]
    <2>1. s[0 + 1] = one[1]
      BY <1>1, <1>2 DEF Holds
    <2> QED
      BY <1>1, <1>2, <2>1 DEF Holds
  <1>4. s # <<>>
    BY <1>1, <1>3, EmptySeq
  <1>5. t \in Seq(Byte) /\ Len(t) = Len(s) - 1 /\ \A i \in 1..Len(t) : t[i] = s[i + 1]
    BY <1>2, <1>4, HeadTailProperties
  <1> HIDE DEF t
  <1>6. Len(t) = Len(data) /\ \A i \in 1..Len(t) : t[i] = data[i]
    BY <1>1, <1>3, <1>5
  <1>7. t = data
    BY <1>5, <1>6, SeqEqual
  <1> QED
    BY <1>2, <1>3, <1>4, <1>7 DEF one, s, t

\* The first byte chooses the scheme.
LEMMA DecodeIs ==
    ASSUME NEW bytes
    PROVE  /\ bytes = <<>> => Decode(bytes) = {}
           /\ bytes # <<>> /\ bytes[1] = 0 => Decode(bytes) = DecodeBorsh(Tail(bytes))
           /\ bytes # <<>> /\ bytes[1] = 1 => Decode(bytes) = DecodeAbi(Tail(bytes))
           /\ \A p \in Decode(bytes) :
                 \/ bytes # <<>> /\ bytes[1] = 0 /\ p \in DecodeBorsh(Tail(bytes))
                 \/ bytes # <<>> /\ bytes[1] = 1 /\ p \in DecodeAbi(Tail(bytes))
  <1>1. SchemeByte("Borsh") = 0 /\ SchemeByte("AbiEncoding") = 1 /\ 0 # 1
        /\ "AbiEncoding" # "Borsh"
    BY DEF SchemeByte
  <1> DEFINE Chosen == {t \in Schemes : bytes # <<>> /\ bytes[1] = SchemeByte(t)}
             Reading(s) == IF s = "Borsh" THEN DecodeBorsh(Tail(bytes)) ELSE DecodeAbi(Tail(bytes))
  <1>2. Decode(bytes) = UNION {Reading(s) : s \in Chosen}
    BY Zenon DEF Decode
  <1>3. \A s \in Chosen : bytes # <<>> /\ bytes[1] = SchemeByte(s) /\ s \in {"Borsh", "AbiEncoding"}
    BY Zenon DEF Schemes
  <1>4. bytes = <<>> => Chosen = {}
    BY <1>3, Zenon
  <1>5. bytes # <<>> /\ bytes[1] = 0 => Chosen = {"Borsh"}
    BY <1>1, Zenon DEF Schemes
  <1>6. bytes # <<>> /\ bytes[1] = 1 => Chosen = {"AbiEncoding"}
    BY <1>1, Zenon DEF Schemes
  <1>7. Reading("Borsh") = DecodeBorsh(Tail(bytes)) /\ Reading("AbiEncoding") = DecodeAbi(Tail(bytes))
    BY <1>1, Zenon
  <1> HIDE DEF Chosen, Reading
  <1>8. ASSUME NEW p \in Decode(bytes)
        PROVE  \/ bytes # <<>> /\ bytes[1] = 0 /\ p \in DecodeBorsh(Tail(bytes))
               \/ bytes # <<>> /\ bytes[1] = 1 /\ p \in DecodeAbi(Tail(bytes))
    <2>1. PICK s \in Chosen : p \in Reading(s)
      BY <1>2, <1>8, Zenon
    <2> QED
      BY <1>1, <1>3, <1>7, <2>1, Zenon
  <1> QED
    BY <1>2, <1>4, <1>5, <1>6, <1>7, <1>8, Zenon

\* A payload that can be encoded is read back.
LEMMA EncodeReadsBack ==
    ASSUME NEW p \in Composed, Encodable(p)
    PROVE  Encode(p) \in Seq(Byte) /\ Encode(p) # <<>> /\ Decode(Encode(p)) = {p}
  <1> DEFINE payload == p.payload
             accounts == p.accounts
  <1>1. p \in [scheme : Schemes, payload : Seq(Byte), accounts : Seq(Account)]
    BY PayloadTypes, Zenon
  <1>2. p.scheme \in Schemes /\ payload \in Seq(Byte) /\ accounts \in Seq(Account)
        /\ p = [scheme |-> p.scheme, payload |-> payload, accounts |-> accounts]
    BY <1>1
  <1>3. 0 \in Byte /\ 1 \in Byte
    BY WidthsAssumption DEF Byte
  <1>4. CASE p.scheme = "Borsh"
    <2>1. Fits(Len(payload), LenBytes) /\ Fits(Len(accounts), LenBytes)
      BY <1>4, Zenon DEF Encodable
    <2>2. p = [scheme |-> "Borsh", payload |-> payload, accounts |-> accounts]
      BY <1>2, <1>4, Zenon
    <2> HIDE DEF payload, accounts
    <2>3. EncodeBorsh(p) \in Seq(Byte) /\ DecodeBorsh(EncodeBorsh(p)) = {p}
      BY <1>2, <2>1, <2>2, BorshReadsBack
    <2>4. Encode(p) = <<0>> \o EncodeBorsh(p)
      BY <1>4, Zenon DEF Encode, SchemeByte
    <2> DEFINE bytes == <<0>> \o EncodeBorsh(p)
    <2>5. bytes \in Seq(Byte) /\ bytes # <<>> /\ bytes[1] = 0 /\ Tail(bytes) = EncodeBorsh(p)
      BY <1>3, <2>3, FirstByte
    <2> HIDE DEF bytes
    <2>6. Decode(bytes) = {p}
      BY <2>3, <2>5, DecodeIs, Zenon
    <2> QED
      BY <2>4, <2>5, <2>6, Zenon DEF bytes
  <1>5. CASE p.scheme = "AbiEncoding"
    <2>1. Fits(Len(EncodeAbi(p)), WordBytes)
      BY <1>5, WordsAreWide, Zenon
    <2>2. p = [scheme |-> "AbiEncoding", payload |-> payload, accounts |-> accounts]
      BY <1>2, <1>5, Zenon
    <2> HIDE DEF payload, accounts
    <2>3. EncodeAbi(p) \in Seq(Byte) /\ DecodeAbi(EncodeAbi(p)) = {p}
      BY <1>2, <2>1, <2>2, AbiReadsBack
    <2>4. Encode(p) = <<1>> \o EncodeAbi(p)
      <3>1. p.scheme # "Borsh"
        BY <1>5
      <3> QED
        BY <3>1, Zenon DEF Encode, SchemeByte
    <2> DEFINE bytes == <<1>> \o EncodeAbi(p)
    <2>5. bytes \in Seq(Byte) /\ bytes # <<>> /\ bytes[1] = 1 /\ Tail(bytes) = EncodeAbi(p)
      BY <1>3, <2>3, FirstByte
    <2> HIDE DEF bytes
    <2>6. Decode(bytes) = {p}
      BY <2>3, <2>5, DecodeIs, Zenon
    <2> QED
      BY <2>4, <2>5, <2>6, Zenon DEF bytes
  <1> QED
    BY <1>2, <1>4, <1>5, Zenon DEF Schemes

\* Bytes read as a Borsh payload are the encoding of that payload.
LEMMA EncodeWritesBack ==
    ASSUME NEW bytes \in Seq(Byte), NEW p \in Decode(bytes), p.scheme = "Borsh"
    PROVE  Encode(p) = bytes
  <1> DEFINE data == Tail(bytes)
             other == <<0>> \o data
  <1>1. bytes # <<>> /\ bytes[1] = 0 /\ p \in DecodeBorsh(data)
    <2>1. \A q \in DecodeAbi(data) : q.scheme = "AbiEncoding"
      BY DEF DecodeAbi
    <2>2. "AbiEncoding" # "Borsh"
      OBVIOUS
    <2> QED
      BY <2>1, <2>2, DecodeIs, Zenon
  <1>2. data \in Seq(Byte) /\ Len(data) = Len(bytes) - 1 /\ Len(bytes) \in Nat
        /\ \A i \in 1..Len(data) : data[i] = bytes[i + 1]
    BY <1>1, HeadTailProperties, LenProperties
  <1> HIDE DEF data
  <1>3. EncodeBorsh(p) = data
    BY <1>1, <1>2, BorshWritesBack
  <1>4. Encode(p) = other
    BY <1>3, Zenon DEF Encode, SchemeByte
  <1> DEFINE one == <<0>>
  <1>5. one \in Seq(Byte) /\ Len(one) = 1 /\ one[1] = 0
    BY WidthsAssumption DEF Byte
  <1> HIDE DEF one
  <1>6. other = one \o data
    BY Zenon DEF one
  <1> HIDE DEF other
  <1>7. other \in Seq(Byte) /\ Len(other) = 1 + Len(data) /\ Holds(other, 0, one) /\ Holds(other, 1, data)
    <2>1. /\ one \o data \in Seq(Byte) /\ Len(one \o data) = Len(one) + Len(data)
          /\ Holds(one \o data, 0, one) /\ Holds(one \o data, Len(one), data)
      BY <1>2, <1>5, Joined
    <2> QED
      BY <1>5, <1>6, <2>1, Zenon
  <1>8. Len(other) = Len(bytes)
    BY <1>2, <1>7
  <1>9. ASSUME NEW i \in 1..Len(other) PROVE other[i] = bytes[i]
    <2>1. CASE i = 1
      <3>1. other[0 + 1] = one[1]
        BY <1>5, <1>7 DEF Holds
      <3> QED
        BY <1>1, <1>5, <2>1, <3>1
    <2>2. CASE i # 1
      <3>1. i - 1 \in 1..Len(data) /\ 1 + (i - 1) = i /\ (i - 1) + 1 = i
        BY <1>2, <1>8, <2>2
      <3>2. other[1 + (i - 1)] = data[i - 1] /\ data[i - 1] = bytes[(i - 1) + 1]
        BY <1>2, <1>7, <3>1 DEF Holds
      <3> QED
        BY <3>1, <3>2
    <2> QED
      BY <2>1, <2>2
  <1>10. other = bytes
    BY <1>7, <1>8, <1>9, SeqEqual
  <1> QED
    BY <1>4, <1>10

-----------------------------------------------------------------------------
(***************************************************************************)
(* The bytes signed for, what was composed and what was read.              *)
(***************************************************************************)

\* What was composed, if anything was, is what the wire carries.
WireCarriesSent ==
    \/ sent = {}
    \/ \E p \in Composed : Encodable(p) /\ sent = {p} /\ wire = Encode(p)

\* The inductive invariant: the wire holds bytes, they are those of what was
\* composed, what was read was read from them, and what was validated is all that
\* can be read.
IInv ==
    /\ wire \in Seq(Byte)
    /\ WireCarriesSent
    /\ read \subseteq Decode(wire)
    /\ \A p \in validated : Decode(wire) = {p}

\* Bytes are read in one way or not at all.
LEMMA DecodesAtMostOne ==
    ASSUME NEW bytes \in Seq(Byte), NEW p \in Decode(bytes)
    PROVE  Decode(bytes) = {p}
  <1> DEFINE AtMostOne(S) == \A q, r \in S : q = r
  <1>1. ASSUME NEW data PROVE AtMostOne(DecodeAccounts(data))
    BY Zenon DEF DecodeAccounts
  <1>2. ASSUME NEW data PROVE AtMostOne(DecodeBorsh(data))
    <2> DEFINE length == FromLittle(SubSeq(data, 1, LenBytes))
               fits == Len(data) >= LenBytes /\ LenBytes + length <= Len(data)
               lists == DecodeAccounts(SubSeq(data, LenBytes + length + 1, Len(data)))
               Of(a) == [scheme |-> "Borsh",
                         payload |-> SubSeq(data, LenBytes + 1, LenBytes + length), accounts |-> a]
    <2>1. DecodeBorsh(data) = IF fits THEN {Of(a) : a \in lists} ELSE {}
      BY Zenon DEF DecodeBorsh
    <2>2. AtMostOne(lists)
      BY <1>1
    <2> HIDE DEF lists, Of, fits
    <2> QED
      BY <2>1, <2>2, Zenon
  <1>3. ASSUME NEW data PROVE AtMostOne(DecodeAbi(data))
    BY Zenon DEF DecodeAbi
  <1> DEFINE data == Tail(bytes)
  <1>4. Decode(bytes) = DecodeBorsh(data) \/ Decode(bytes) = DecodeAbi(data)
    BY DecodeIs, Zenon
  <1>5. AtMostOne(DecodeBorsh(data)) /\ AtMostOne(DecodeAbi(data))
    BY <1>2, <1>3
  <1>6. AtMostOne(Decode(bytes))
    BY <1>4, <1>5, Zenon
  <1> QED
    BY <1>6, Zenon

\* Nothing is composed, read or validated while there are no bytes.
LEMMA EmptyWire ==
    ASSUME IInv, wire = <<>>
    PROVE  sent = {} /\ read = {} /\ validated = {}
  <1>1. sent = {}
    BY EncodeReadsBack, Zenon DEF IInv, WireCarriesSent
  <1>2. read = {}
    BY DecodeIs, Zenon DEF IInv
  <1>3. validated = {}
    BY DecodeIs DEF IInv
  <1> QED
    BY <1>1, <1>2, <1>3

\* Nothing is composed or read at first.
LEMMA InitIInv == Init => IInv
  <1> SUFFICES ASSUME Init PROVE IInv
    OBVIOUS
  <1>1. <<>> \in Seq(Byte)
    BY EmptySeq
  <1> QED
    BY <1>1, Zenon DEF Init, IInv, WireCarriesSent

\* A step composes into, or fills, a wire without bytes, or reads what it holds.
LEMMA NextIInv == IInv /\ [Next]_vars => IInv'
  <1> SUFFICES ASSUME IInv, [Next]_vars PROVE IInv'
    OBVIOUS
  <1>1. ASSUME NEW p \in Composed, wire = <<>>, Compose(p) PROVE IInv'
    <2>1. Encodable(p) /\ sent' = {p} /\ wire' = Encode(p) /\ read' = read /\ validated' = validated
      BY <1>1, Zenon DEF Compose
    <2>2. Encode(p) \in Seq(Byte)
      BY <2>1, EncodeReadsBack
    <2>3. wire' \in Seq(Byte)
      BY <2>1, <2>2, Zenon
    <2>4. WireCarriesSent'
      BY <2>1, Zenon DEF WireCarriesSent
    <2>5. read' \subseteq Decode(wire)'
      BY <1>1, <2>1, EmptyWire, Zenon
    <2>6. validated' = {}
      BY <1>1, <2>1, EmptyWire, Zenon
    <2> QED
      BY <2>3, <2>4, <2>5, <2>6, Zenon DEF IInv
  <1>2. ASSUME NEW bytes \in Arriving, wire = <<>>, Arrive(bytes) PROVE IInv'
    <2>1. wire' = bytes /\ sent' = sent /\ read' = read /\ validated' = validated
      BY <1>2, Zenon DEF Arrive
    <2>2. bytes \in Seq(Byte)
      BY PayloadTypes, Zenon
    <2>3. sent' = {} /\ read' = {} /\ validated' = {}
      BY <1>2, <2>1, EmptyWire, Zenon
    <2> QED
      BY <2>1, <2>2, <2>3, Zenon DEF IInv, WireCarriesSent
  <1>3. CASE Read
    <2>1. read' = Decode(wire) /\ sent' = sent /\ wire' = wire /\ validated' = validated
      BY <1>3, Zenon DEF Read
    <2> QED
      BY <2>1, Zenon DEF IInv, WireCarriesSent
  <1>4. CASE UNCHANGED vars
    <2>1. read' = read /\ sent' = sent /\ wire' = wire /\ validated' = validated
      BY <1>4 DEF vars
    <2> QED
      BY <2>1, Zenon DEF IInv, WireCarriesSent
  <1>5. ASSUME NEW p \in Presented \cup read, Validate(p) PROVE IInv'
    <2>1. /\ Encodable(p) /\ Encode(p) = wire
          /\ validated' = {p} /\ read' = read /\ sent' = sent /\ wire' = wire
      BY <1>5, Zenon DEF Validate
    <2>2. Decode(wire) = {p}
      <3>1. CASE p \in Presented
        <4>1. p \in Composed
          BY <3>1, PayloadTypes, Zenon
        <4> QED
          BY <2>1, <4>1, EncodeReadsBack
      <3>2. CASE p \in read
        BY <3>2, DecodesAtMostOne, Zenon DEF IInv
      <3> QED
        BY <3>1, <3>2, Zenon
    <2> QED
      BY <2>1, <2>2, Zenon DEF IInv, WireCarriesSent
  <1> QED
    BY <1>1, <1>2, <1>3, <1>4, <1>5, Zenon DEF Next, Send

\* The wire always carries what was composed, and what was read was read from it.
THEOREM PayloadInvariant == Spec => []IInv
  BY InitIInv, NextIInv, PTL DEF Spec

\* What a sender composes can be read and is read as composed, whatever the
\* payload bytes, the accounts and the scheme (AxelarMessagePayload::decode
\* undoes encode).
THEOREM ReadsAsSent == Spec => []ReadAsSent
  <1>1. IInv => ReadAsSent
    <2> SUFFICES ASSUME IInv, sent # {} PROVE read \subseteq sent /\ Decode(wire) # {}
      BY Zenon DEF ReadAsSent
    <2>1. PICK p \in Composed : Encodable(p) /\ sent = {p} /\ wire = Encode(p)
      BY Zenon DEF IInv, WireCarriesSent
    <2>2. Decode(wire) = {p}
      BY <2>1, EncodeReadsBack
    <2> QED
      BY <2>1, <2>2, Zenon DEF IInv
  <1> QED
    BY <1>1, PayloadInvariant, PTL

\* A program that compares hashes runs with the payload and the accounts that the
\* signed bytes are read as, and with no others (validate_message rebuilds the
\* payload from the transaction's accounts).
THEOREM ValidatedSigned == Spec => []ValidatedIsSigned
  <1>1. IInv => ValidatedIsSigned
    <2> SUFFICES ASSUME IInv, NEW p \in validated
                 PROVE  Decode(wire) = {p} /\ (sent # {} => p \in sent)
      BY Zenon DEF ValidatedIsSigned
    <2>1. Decode(wire) = {p}
      BY Zenon DEF IInv
    <2>2. ASSUME sent # {} PROVE p \in sent
      <3>1. PICK q \in Composed : Encodable(q) /\ sent = {q} /\ wire = Encode(q)
        BY <2>2, Zenon DEF IInv, WireCarriesSent
      <3>2. Decode(wire) = {q}
        BY <3>1, EncodeReadsBack
      <3> QED
        BY <2>1, <3>1, <3>2, Zenon
    <2> QED
      BY <2>1, <2>2, Zenon
  <1> QED
    BY <1>1, PayloadInvariant, PTL

\* Borsh bytes that decode_borsh accepts, whoever wrote them, are the only
\* encoding of the payload they are read as.
THEOREM BorshCanonical == Spec => []BorshIsCanonical
  <1>1. IInv => BorshIsCanonical
    <2> SUFFICES ASSUME IInv, NEW p \in read, p.scheme = "Borsh" PROVE Encode(p) = wire
      BY Zenon DEF BorshIsCanonical
    <2>1. wire \in Seq(Byte) /\ p \in Decode(wire)
      BY Zenon DEF IInv
    <2> QED
      BY <2>1, EncodeWritesBack
  <1> QED
    BY <1>1, PayloadInvariant, PTL

\* No two payloads are the same bytes, across both schemes: the hash that the
\* verifiers sign stands for one payload with one list of accounts.
THEOREM EncodingIsInjective ==
    ASSUME NEW p \in Composed, NEW q \in Composed, Encodable(p), Encodable(q),
           Encode(p) = Encode(q)
    PROVE  p = q
  <1>1. Decode(Encode(p)) = {p} /\ Decode(Encode(q)) = {q}
    BY EncodeReadsBack
  <1> QED
    BY <1>1, Zenon
===============================================================================
