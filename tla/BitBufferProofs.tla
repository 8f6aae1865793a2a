---------------------------- MODULE BitBufferProofs ---------------------------
(***************************************************************************)
(* Proofs about BitBuffer, for bytes and words of any widths, buffers of   *)
(* any length and any ranges of non symmetric values.  The first sections  *)
(* hold what the proofs of the other components need too: induction on the *)
(* natural numbers, recursive functions, division and powers of two.       *)
(***************************************************************************)
EXTENDS BitBuffer, FiniteSetTheorems, WellFoundedInduction, TLAPS

-----------------------------------------------------------------------------
(* Induction.                                                              *)

\* A set of natural numbers has a least element: otherwise the intervals up
\* to its elements would get smaller for ever.
LEMMA LeastElement ==
  ASSUME NEW T, T \subseteq Nat, T # {}
  PROVE  \E x \in T : \A y \in T : x <= y
<1> DEFINE U == {0 .. x : x \in T}
<1>1. IsWellFoundedOn(StrictSubsetOrdering(Nat), FiniteSubsetsOf(Nat))
  BY FS_StrictSubsetOrderingWellFounded
<1>2. ASSUME NEW x \in T PROVE 0 .. x \in FiniteSubsetsOf(Nat)
  <2>1. IsFiniteSet(0 .. x)
    BY FS_Interval
  <2> QED
    BY <2>1 DEF FiniteSubsetsOf
<1>3. U \subseteq FiniteSubsetsOf(Nat) /\ U # {}
  BY <1>2
<1> HIDE DEF U
<1>4. PICK s \in U : \A u \in U : ~ (<<u, s>> \in StrictSubsetOrdering(Nat))
  BY <1>1, <1>3, WFMin
<1>5. PICK x \in T : s = 0 .. x
  BY DEF U
<1>6. ASSUME NEW y \in T, y < x PROVE FALSE
  <2>1. 0 .. y \in U
    BY DEF U
  <2>2. 0 .. y \subseteq 0 .. x /\ 0 .. y # 0 .. x
    BY <1>6
  <2>3. <<0 .. y, 0 .. x>> \in StrictSubsetOrdering(Nat)
    BY <2>2 DEF StrictSubsetOrdering
  <2> QED
    BY <2>1, <2>3, <1>4, <1>5
<1> QED
  BY <1>6

\* Induction up to k.
LEMMA UpTo ==
  ASSUME NEW k \in Nat, NEW S, 0 \in S,
         \A i \in 1 .. k : i - 1 \in S => i \in S
  PROVE  0 .. k \subseteq S
<1> DEFINE T == (0 .. k) \ S
<1> SUFFICES ASSUME T # {} PROVE FALSE
  OBVIOUS
<1>0. T \subseteq Nat
  OBVIOUS
<1>1. PICK x \in T : \A y \in T : x <= y
  BY <1>0, LeastElement
<1>2. x \in 1 .. k
  BY <1>1
<1>3. x - 1 \in S
  BY <1>1, <1>2
<1> QED
  BY <1>1, <1>2, <1>3

-----------------------------------------------------------------------------
(* Recursion, division and powers of two.                                  *)

\* v starts with a, and F gives each of its values from the one before.
Solves(v, n, V, a, F) ==
  /\ v \in [0 .. n -> V]
  /\ v[0] = a
  /\ \A i \in 1 .. n : v[i] = F[<<i, v[i - 1]>>]

\* What a recursive function on 0 .. n is to satisfy has a solution.
LEMMA Recursion ==
  ASSUME NEW n \in Nat, NEW V, NEW a \in V, NEW F \in [(1 .. n) \X V -> V]
  PROVE  \E v : Solves(v, n, V, a, F)
<1> DEFINE Can == {m \in 0 .. n : \E v : Solves(v, m, V, a, F)}
<1>1. 0 \in Can
  <2>1. Solves([i \in 0 .. 0 |-> a], 0, V, a, F)
    BY DEF Solves
  <2>2. 0 \in 0 .. n
    OBVIOUS
  <2> QED
    BY <2>1, <2>2
<1>2. ASSUME NEW m \in 1 .. n, m - 1 \in Can PROVE m \in Can
  <2>1. PICK u : Solves(u, m - 1, V, a, F)
    BY <1>2
  <2>2. m - 1 \in 0 .. (m - 1) /\ u[m - 1] \in V
    BY <2>1 DEF Solves
  <2> DEFINE v == [i \in 0 .. m |->
                     IF i = m THEN F[<<m, u[m - 1]>>] ELSE u[i]]
  <2>3. F[<<m, u[m - 1]>>] \in V
    BY <2>2
  <2>4. \A i \in 0 .. (m - 1) : i \in 0 .. m /\ i # m /\ v[i] = u[i]
    OBVIOUS
  <2>5. v \in [0 .. m -> V]
    BY <2>1, <2>3 DEF Solves
  <2>6. v[0] = a
    BY <2>1, <2>4 DEF Solves
  <2>7. ASSUME NEW i \in 1 .. m PROVE v[i] = F[<<i, v[i - 1]>>]
    <3>1. i - 1 \in 0 .. (m - 1)
      OBVIOUS
    <3>2. v[i - 1] = u[i - 1]
      BY <2>4, <3>1
    <3>3. CASE i = m
      BY <3>2, <3>3
    <3>4. CASE i # m
      <4>1. i \in 1 .. (m - 1) /\ i \in 0 .. (m - 1)
        BY <3>4
      <4>2. u[i] = F[<<i, u[i - 1]>>]
        BY <2>1, <4>1 DEF Solves
      <4> QED
        BY <2>4, <3>2, <4>1, <4>2
    <3> QED
      BY <3>3, <3>4
  <2> HIDE DEF v
  <2>8. Solves(v, m, V, a, F)
    BY <2>5, <2>6, <2>7 DEF Solves
  <2> QED
    BY <2>8
<1> HIDE DEF Can
<1>3. 0 .. n \subseteq Can
  BY <1>1, <1>2, UpTo
<1> QED
  BY <1>3 DEF Can

\* A solution is determined by its first value and its steps.
LEMMA SameSolution ==
  ASSUME NEW k \in Nat, NEW u, NEW v, u[0] = v[0],
         \A i \in 1 .. k : u[i - 1] = v[i - 1] => u[i] = v[i]
  PROVE  \A i \in 0 .. k : u[i] = v[i]
<1> DEFINE Same == {i \in 0 .. k : u[i] = v[i]}
<1>1. 0 \in Same
  OBVIOUS
<1>2. ASSUME NEW i \in 1 .. k, i - 1 \in Same PROVE i \in Same
  BY <1>2
<1> HIDE DEF Same
<1>3. 0 .. k \subseteq Same
  BY <1>1, <1>2, UpTo
<1> QED
  BY <1>3 DEF Same

\* The powers of two exist: those up to each n do, and they agree.
LEMMA PowersExist ==
  \E p : p = [n \in Nat |-> IF n = 0 THEN 1 ELSE 2 * p[n - 1]]
<1> DEFINE Is(v, n) == /\ v \in [0 .. n -> Int]
                       /\ v[0] = 1
                       /\ \A i \in 1 .. n : v[i] = 2 * v[i - 1]
           To(n) == CHOOSE v : Is(v, n)
           p == [n \in Nat |-> To(n)[n]]
<1>1. ASSUME NEW n \in Nat PROVE Is(To(n), n)
  <2> DEFINE F == [x \in (1 .. n) \X Int |-> 2 * x[2]]
  <2>1. F \in [(1 .. n) \X Int -> Int]
    OBVIOUS
  <2>2. \A i \in 1 .. n, y \in Int : F[<<i, y>>] = 2 * y
    OBVIOUS
  <2> HIDE DEF F
  <2>3. PICK v : Solves(v, n, Int, 1, F)
    <3>1. 1 \in Int
      OBVIOUS
    <3>2. \A a \in Int : \E v : Solves(v, n, Int, a, F)
      BY <2>1, Recursion, Zenon
    <3> QED
      BY <3>1, <3>2
  <2>4. ASSUME NEW i \in 1 .. n PROVE v[i] = 2 * v[i - 1]
    <3>1. v[i - 1] \in Int
      BY <2>3 DEF Solves
    <3> QED
      BY <2>2, <2>3, <3>1 DEF Solves
  <2>5. Is(v, n)
    BY <2>3, <2>4 DEF Solves
  <2> HIDE DEF Is
  <2> QED
    BY <2>5
<1> HIDE DEF To
<1>2. To(0)[0] = 1
  BY <1>1
<1>3. ASSUME NEW n \in Nat, n # 0 PROVE To(n)[n] = 2 * To(n - 1)[n - 1]
  <2>1. n - 1 \in Nat /\ n \in 1 .. n /\ n - 1 \in 0 .. (n - 1)
    BY <1>3
  <2>2. Is(To(n), n) /\ Is(To(n - 1), n - 1)
    BY <1>1, <2>1
  <2>3. \A i \in 1 .. (n - 1) : i \in 1 .. n
    OBVIOUS
  <2>4. \A i \in 1 .. (n - 1) :
          To(n)[i - 1] = To(n - 1)[i - 1] => To(n)[i] = To(n - 1)[i]
    BY <2>2, <2>3
  <2>5. To(n)[0] = To(n - 1)[0]
    BY <2>2
  <2> HIDE DEF Is
  <2>6. \A i \in 0 .. (n - 1) : To(n)[i] = To(n - 1)[i]
    BY <2>1, <2>4, <2>5, SameSolution
  <2>7. To(n)[n] = 2 * To(n)[n - 1]
    BY <2>1, <2>2 DEF Is
  <2> QED
    BY <2>1, <2>6, <2>7
<1>4. ASSUME NEW n \in Nat PROVE p[n] = IF n = 0 THEN 1 ELSE 2 * p[n - 1]
  BY <1>2, <1>3
<1>5. p = [n \in Nat |-> IF n = 0 THEN 1 ELSE 2 * p[n - 1]]
  BY <1>4
<1> QED
  BY <1>5

\* The equations of Pow2.
LEMMA PowIs ==
  /\ Pow2[0] = 1
  /\ \A n \in Nat : n # 0 => Pow2[n] = 2 * Pow2[n - 1]
<1> DEFINE f == CHOOSE p : p
             = [n \in Nat |-> IF n = 0 THEN 1 ELSE 2 * p[n - 1]]
<1>1. f = [n \in Nat |-> IF n = 0 THEN 1 ELSE 2 * f[n - 1]]
  BY PowersExist
<1>2. Pow2 = f
  BY DEF Pow2
<1> HIDE DEF f
<1> QED
  BY <1>1, <1>2

\* Powers of two are positive.
LEMMA PowNat ==
  ASSUME NEW n \in Nat
  PROVE  Pow2[n] \in Nat /\ Pow2[n] >= 1
<1> DEFINE Good == {i \in 0 .. n : Pow2[i] \in Nat /\ Pow2[i] >= 1}
<1>1. 0 \in Good
  BY PowIs
<1>2. ASSUME NEW i \in 1 .. n, i - 1 \in Good PROVE i \in Good
  <2>1. Pow2[i] = 2 * Pow2[i - 1]
    BY PowIs
  <2> QED
    BY <1>2, <2>1
<1> HIDE DEF Good
<1>3. 0 .. n \subseteq Good
  BY <1>1, <1>2, UpTo
<1> QED
  BY <1>3 DEF Good

\* Each is half the next.
LEMMA PowNext ==
  ASSUME NEW n \in Nat
  PROVE  Pow2[n + 1] = 2 * Pow2[n]
BY PowIs

\* The power of a sum.
LEMMA PowSum ==
  ASSUME NEW m \in Nat, NEW n \in Nat
  PROVE  Pow2[m + n] = Pow2[m] * Pow2[n]
<1> DEFINE Good == {i \in 0 .. n : Pow2[m + i] = Pow2[m] * Pow2[i]}
<1>1. 0 \in Good
  BY PowIs, PowNat
<1>2. ASSUME NEW i \in 1 .. n, i - 1 \in Good PROVE i \in Good
  <2>1. Pow2[i] = 2 * Pow2[i - 1] /\ Pow2[m + i] = 2 * Pow2[m + i - 1]
    BY PowIs
  <2>2. Pow2[m + i - 1] = Pow2[m] * Pow2[i - 1]
    BY <1>2
  <2>3. Pow2[m] \in Nat /\ Pow2[i - 1] \in Nat
    BY PowNat
  <2> QED
    BY <2>1, <2>2, <2>3
<1> HIDE DEF Good
<1>3. 0 .. n \subseteq Good
  BY <1>1, <1>2, UpTo
<1> QED
  BY <1>3 DEF Good

\* A product of positive numbers is no less than either.
LEMMA ProductGrows ==
  ASSUME NEW a \in Nat, NEW k \in Int, k >= 1
  PROVE  a * k >= a
OBVIOUS

\* A quotient and a remainder that fit are those of the division.
LEMMA DivisionIs ==
  ASSUME NEW n \in Nat \ {0}, NEW q \in Int, NEW r \in 0 .. (n - 1)
  PROVE  (n * q + r) \div n = q /\ (n * q + r) % n = r
<1> DEFINE x == n * q + r
           p == x \div n
           m == x % n
<1>1. x \in Int
  OBVIOUS
<1>2. p \in Int /\ m \in 0 .. (n - 1) /\ x = n * p + m
  BY <1>1
<1>3. n * (p - q) = r - m
  <2> HIDE DEF p, m
  <2>1. n * p + m = n * q + r
    BY <1>2
  <2> QED
    BY <1>2, <2>1
<1> HIDE DEF p, m, x
<1>4. ~(p - q >= 1)
  BY <1>2, <1>3, ProductGrows
<1>5. ~(q - p >= 1)
  <2>1. n * (q - p) = m - r
    BY <1>2, <1>3
  <2> QED
    BY <1>2, <2>1, ProductGrows
<1>6. p = q
  BY <1>2, <1>4, <1>5
<1>7. m = r
  BY <1>2, <1>3, <1>6
<1> QED
  BY <1>6, <1>7 DEF p, m, x

\* The quotient and the remainder of a division.
LEMMA DivMod ==
  ASSUME NEW n \in Nat \ {0}, NEW x \in Int
  PROVE  /\ x \div n \in Int /\ (x % n) \in 0 .. (n - 1)
         /\ x = (n * (x \div n)) + (x % n)
OBVIOUS

\* A number that is in range is its own remainder.
LEMMA ModOf ==
  ASSUME NEW n \in Nat \ {0}, NEW x \in 0 .. (n - 1)
  PROVE  x % n = x
<1>1. x = n * 0 + x
  OBVIOUS
<1> QED
  BY <1>1, DivisionIs

\* Powers of two grow.
LEMMA PowGrows ==
  ASSUME NEW m \in Nat, NEW n \in Nat, m <= n
  PROVE  /\ Pow2[m] <= Pow2[n]
         /\ m < n => 2 * Pow2[m] <= Pow2[n]
<1>1. n - m \in Nat /\ m + (n - m) = n
  OBVIOUS
<1>2. Pow2[n] = Pow2[m] * Pow2[n - m]
  BY <1>1, PowSum
<1>3. Pow2[m] \in Nat /\ Pow2[n - m] \in Nat /\ Pow2[n - m] >= 1
  BY <1>1, PowNat
<1>4. CASE m < n
  <2>1. n - m - 1 \in Nat /\ n - m # 0
    BY <1>4
  <2>2. Pow2[n - m] = 2 * Pow2[n - m - 1]
    BY <1>1, <2>1, PowIs
  <2>3. Pow2[n - m - 1] \in Nat /\ Pow2[n - m - 1] >= 1
    BY <2>1, PowNat
  <2>4. Pow2[n] = (2 * Pow2[m]) * Pow2[n - m - 1]
    BY <1>2, <1>3, <2>2, <2>3
  <2> DEFINE a == 2 * Pow2[m]
             k == Pow2[n - m - 1]
  <2>5. a \in Nat /\ k \in Int /\ k >= 1 /\ Pow2[n] = a * k
    BY <1>3, <2>3, <2>4
  <2> HIDE DEF a, k
  <2>6. Pow2[n] >= a
    BY <2>5, ProductGrows
  <2> QED
    BY <1>3, <2>5, <2>6 DEF a
<1>5. CASE m = n
  BY <1>3, <1>5
<1> QED
  BY <1>4, <1>5
-----------------------------------------------------------------------------
(* Bit buffers: the bits and the numbers that they spell.                  *)

\* The widths are positive, and a word has at least two bytes.
LEMMA BitSizes ==
  ASSUME BitBufferAssumption
  PROVE  /\ ByteBits \in Nat /\ ByteBits >= 1
         /\ WordBits \in Nat /\ WordBits >= 2 * ByteBits
         /\ ByteCount \in Nat /\ ByteCount >= 1
         /\ Size \in Nat /\ Size = ByteCount * ByteBits
BY DEF BitBufferAssumption, Size

\* The bytes of the object are bytes.
IsBytes(b) == b.bytes \in [0 .. (ByteCount - 1) -> Byte]

\* A bit of the buffer has a byte and a place in it.
LEMMA PlaceOf ==
  ASSUME BitBufferAssumption,
         NEW i \in 0 .. (ByteCount - 1), NEW j \in 0 .. (ByteBits - 1)
  PROVE  /\ i * ByteBits + j \in 0 .. (Size - 1)
         /\ (i * ByteBits + j) \div ByteBits = i
         /\ (i * ByteBits + j) % ByteBits = j
<1>sizes. /\ ByteBits \in Nat /\ ByteBits >= 1
          /\ WordBits \in Nat /\ WordBits >= 2 * ByteBits
          /\ ByteCount \in Nat /\ ByteCount >= 1
          /\ Size \in Nat /\ Size = ByteCount * ByteBits
  BY BitSizes
<1> USE <1>sizes
<1>1. i * ByteBits + j = ByteBits * i + j
  OBVIOUS
<1>2. /\ (i * ByteBits + j) \div ByteBits = i
      /\ (i * ByteBits + j) % ByteBits = j
  BY <1>1, DivisionIs
<1>3. i * ByteBits \in Nat /\ i * ByteBits + j >= 0
  OBVIOUS
<1>4. (ByteCount - 1 - i) * ByteBits >= 0
  OBVIOUS
<1>5. ByteCount * ByteBits - ByteBits - i * ByteBits >= 0
  BY <1>4
<1>6. i * ByteBits + j <= Size - 1
  BY <1>3, <1>5
<1> QED
  BY <1>2, <1>3, <1>6

\* The byte and the place in it of a bit of the buffer.
LEMMA PlaceIn ==
  ASSUME BitBufferAssumption,
         NEW p \in 0 .. (Size - 1)
  PROVE  /\ p \div ByteBits \in 0 .. (ByteCount - 1)
         /\ p % ByteBits \in 0 .. (ByteBits - 1)
         /\ p = (p \div ByteBits) * ByteBits + (p % ByteBits)
<1>sizes. /\ ByteBits \in Nat /\ ByteBits >= 1
          /\ WordBits \in Nat /\ WordBits >= 2 * ByteBits
          /\ ByteCount \in Nat /\ ByteCount >= 1
          /\ Size \in Nat /\ Size = ByteCount * ByteBits
  BY BitSizes
<1> USE <1>sizes
<1> DEFINE q == p \div ByteBits
           r == p % ByteBits
<1>1. q \in Int /\ r \in 0 .. (ByteBits - 1) /\ p = (ByteBits * q) + r
  BY DivMod
<1> HIDE DEF q, r
<1>2. q >= 0
  <2>1. CASE q <= -1
    <3>1. ByteBits * (-q) >= ByteBits
      BY <1>1, <2>1, ProductGrows
    <3>2. ByteBits * (-q) = -(ByteBits * q)
      BY <1>1
    <3> QED
      BY <1>1, <3>1, <3>2
  <2> QED
    BY <1>1, <2>1
<1>3. q <= ByteCount - 1
  <2>1. CASE q >= ByteCount
    <3>1. ByteBits * q = ByteBits * ByteCount + ByteBits * (q - ByteCount)
      BY <1>1
    <3>2. ByteBits * (q - ByteCount) >= 0
      BY <1>1, <2>1
    <3> QED
      BY <1>1, <3>1, <3>2
  <2> QED
    BY <1>1, <2>1
<1>4. ByteBits * q = q * ByteBits
  BY <1>1
<1> QED
  BY <1>1, <1>2, <1>3, <1>4 DEF q, r

\* The bytes are numbers of ByteBits bits.
LEMMA ByteIs ==
  ASSUME BitBufferAssumption,
         NEW b, IsBytes(b), NEW i \in 0 .. (ByteCount - 1)
  PROVE  /\ b.bytes[i] \in Nat
         /\ b.bytes[i] < Pow2[ByteBits]
<1>1. b.bytes[i] \in Byte
  BY DEF IsBytes
<1>2. Pow2[ByteBits] \in Nat
  BY BitSizes, PowNat
<1> QED
  BY <1>1, <1>2 DEF Byte

\* A bit is zero or one.
LEMMA BitIs ==
  ASSUME BitBufferAssumption,
         NEW b, IsBytes(b), NEW p \in 0 .. (Size - 1)
  PROVE  BitAt(b, p) \in {0, 1}
<1> DEFINE i == p \div ByteBits
           j == p % ByteBits
           d == Pow2[ByteBits - 1 - j]
           x == b.bytes[i]
<1>1. i \in 0 .. (ByteCount - 1) /\ j \in 0 .. (ByteBits - 1)
  BY PlaceIn
<1>2. d \in Nat /\ d >= 1
  BY <1>1, BitSizes, PowNat
<1>3. x \in Int
  BY <1>1, ByteIs
<1>4. BitAt(b, p) = (x \div d) % 2
  BY DEF BitAt
<1> HIDE DEF d, x
<1>5. x \div d \in Int
  BY <1>2, <1>3, DivMod
<1> QED
  BY <1>4, <1>5

\* v has the numbers that the first bits after p spell.
Spells(v, b, p, n) ==
  /\ v[0] = 0
  /\ \A i \in 0 .. n : v[i] \in Int
  /\ \A i \in 1 .. n : v[i] = 2 * v[i - 1] + BitAt(b, p + i - 1)

\* What Number computes, bit by bit.
LEMMA NumberSolves ==
  ASSUME BitBufferAssumption,
         NEW b, IsBytes(b), NEW p \in Nat, NEW n \in Nat, p + n <= Size
  PROVE  \E v : Number(b, p, n) = v[n] /\ Spells(v, b, p, n)
<1>sizes. /\ ByteBits \in Nat /\ ByteBits >= 1
          /\ WordBits \in Nat /\ WordBits >= 2 * ByteBits
          /\ ByteCount \in Nat /\ ByteCount >= 1
          /\ Size \in Nat /\ Size = ByteCount * ByteBits
  BY BitSizes
<1> USE <1>sizes
<1> DEFINE F == [x \in (1 .. n) \X Int |-> 2 * x[2] + BitAt(b, p + x[1] - 1)]
           G(v) == [i \in 0 .. n |-> IF i = 0 THEN 0
                                     ELSE 2 * v[i - 1] + BitAt(b, p + i - 1)]
<1>1. \A i \in 1 .. n : BitAt(b, p + i - 1) \in Int
  BY BitIs
<1>2. F \in [(1 .. n) \X Int -> Int]
  BY <1>1
<1>3. \A i \in 1 .. n, y \in Int : F[<<i, y>>] = 2 * y + BitAt(b, p + i - 1)
  OBVIOUS
<1> HIDE DEF F
<1>4. PICK u : Solves(u, n, Int, 0, F)
  <2>1. 0 \in Int
    OBVIOUS
  <2>2. \A a \in Int : \E v : Solves(v, n, Int, a, F)
    BY <1>2, Recursion, Zenon
  <2> QED
    BY <2>1, <2>2
<1>5. u = G(u)
  <2>1. ASSUME NEW i \in 1 .. n
        PROVE  u[i] = 2 * u[i - 1] + BitAt(b, p + i - 1)
    <3>1. u[i - 1] \in Int /\ u[i] = F[<<i, u[i - 1]>>]
      <4>1. /\ u \in [0 .. n -> Int]
            /\ \A k \in 1 .. n : u[k] = F[<<k, u[k - 1]>>]
        BY <1>4, SMTT(30) DEF Solves
      <4>2. i - 1 \in 0 .. n
        OBVIOUS
      <4>3. u[i - 1] \in Int
        BY <4>1, <4>2, Zenon
      <4>4. u[i] = F[<<i, u[i - 1]>>]
        BY <4>1, Zenon
      <4> QED
        BY <4>3, <4>4
    <3> QED
      BY <1>3, <3>1
  <2>2. u \in [0 .. n -> Int] /\ u[0] = 0
    BY <1>4 DEF Solves
  <2>3. ASSUME NEW i \in 0 .. n PROVE u[i] = G(u)[i]
    <3>1. CASE i = 0
      BY <2>2, <3>1
    <3>2. CASE i # 0
      <4>1. i \in 1 .. n
        BY <3>2
      <4> QED
        BY <2>1, <3>2, <4>1
    <3> QED
      BY <3>1, <3>2
  <2>4. u = [i \in 0 .. n |-> u[i]]
    BY <2>2
  <2>5. G(u) = [i \in 0 .. n |-> G(u)[i]]
    OBVIOUS
  <2> HIDE DEF G
  <2> QED
    BY <2>3, <2>4, <2>5, Zenon
<1> DEFINE v == CHOOSE g : g = G(g)
<1>6. v = G(v)
  <2> HIDE DEF G
  <2> QED
    BY <1>5
<1>7. Number(b, p, n) = v[n]
  BY DEF Number
<1> HIDE DEF v
<1>8. ASSUME NEW i \in 1 .. n PROVE v[i] = 2 * v[i - 1] + BitAt(b, p + i - 1)
  BY <1>6
<1>9. v[0] = 0
  BY <1>6
<1> DEFINE Good == {i \in 0 .. n : v[i] \in Int}
<1>10. 0 \in Good
  BY <1>9
<1>11. ASSUME NEW i \in 1 .. n, i - 1 \in Good PROVE i \in Good
  BY <1>1, <1>8, <1>11
<1> HIDE DEF Good
<1>12. 0 .. n \subseteq Good
  BY <1>10, <1>11, UpTo
<1>13. \A i \in 0 .. n : v[i] \in Int
  BY <1>12 DEF Good
<1> HIDE DEF G
<1> QED
  BY <1>7, <1>8, <1>9, <1>13 DEF Spells

\* No bits spell zero; one more bit doubles the number and adds itself.
LEMMA NumberIs ==
  ASSUME BitBufferAssumption,
         NEW b, IsBytes(b), NEW p \in Nat, NEW n \in Nat, p + n <= Size
  PROVE  /\ Number(b, p, 0) = 0 /\ Number(b, p, n) \in Int
         /\ n # 0 => /\ Number(b, p, n)
                          = 2 * Number(b, p, n - 1) + BitAt(b, p + n - 1)
                     /\ BitAt(b, p + n - 1) \in {0, 1}
<1> USE BitSizes
<1>1. Number(b, p, 0) = 0
  <2>1. p + 0 <= Size /\ 0 \in Nat
    OBVIOUS
  <2>2. PICK v : Number(b, p, 0) = v[0] /\ Spells(v, b, p, 0)
    BY <2>1, NumberSolves
  <2> QED
    BY <2>2 DEF Spells
<1>2. PICK v : Number(b, p, n) = v[n] /\ Spells(v, b, p, n)
  BY NumberSolves
<1>3. ASSUME n # 0
      PROVE  Number(b, p, n) = 2 * Number(b, p, n - 1) + BitAt(b, p + n - 1)
  <2>1. n - 1 \in Nat /\ p + (n - 1) <= Size
    BY <1>3
  <2>2. PICK u : Number(b, p, n - 1) = u[n - 1] /\ Spells(u, b, p, n - 1)
    BY <2>1, NumberSolves
  <2>3. \A i \in 1 .. (n - 1) : u[i - 1] = v[i - 1] => u[i] = v[i]
    BY <1>2, <2>2 DEF Spells
  <2>4. \A i \in 0 .. (n - 1) : u[i] = v[i]
    <3>1. u[0] = v[0]
      BY <1>2, <2>2 DEF Spells
    <3> QED
      BY <2>1, <2>3, <3>1, SameSolution
  <2>5. v[n] = 2 * v[n - 1] + BitAt(b, p + n - 1)
    BY <1>2, <1>3 DEF Spells
  <2> QED
    BY <1>2, <2>1, <2>2, <2>4, <2>5
<1>4. n # 0 => BitAt(b, p + n - 1) \in {0, 1}
  BY BitIs
<1> QED
  BY <1>1, <1>2, <1>3, <1>4 DEF Spells

\* n bits spell a number of n bits.
LEMMA NumberBounds ==
  ASSUME BitBufferAssumption,
         NEW b, IsBytes(b), NEW p \in Nat, NEW n \in Nat, p + n <= Size
  PROVE  Number(b, p, n) \in Nat /\ Number(b, p, n) < Pow2[n]
<1> DEFINE Good == {i \in 0 .. n : /\ Number(b, p, i) \in Nat
                                   /\ Number(b, p, i) < Pow2[i]}
<1>0. \A i \in 0 .. n : i \in Nat /\ p + i <= Size
  BY BitSizes
<1>1. 0 \in Good
  <2>1. 0 \in 0 .. n /\ p + 0 <= Size
    BY <1>0
  <2>2. Number(b, p, 0) = 0
    BY <2>1, NumberIs
  <2>3. Pow2[0] = 1
    BY PowIs
  <2> QED
    BY <2>1, <2>2, <2>3
<1>2. ASSUME NEW i \in 1 .. n, i - 1 \in Good PROVE i \in Good
  <2>1. /\ Number(b, p, i) = 2 * Number(b, p, i - 1) + BitAt(b, p + i - 1)
        /\ BitAt(b, p + i - 1) \in {0, 1}
    <3>1. i \in Nat /\ p + i <= Size /\ i # 0
      BY <1>0
    <3> QED
      BY <3>1, NumberIs
  <2>2. Pow2[i] = 2 * Pow2[i - 1] /\ Pow2[i - 1] \in Nat
    BY PowIs, PowNat
  <2> QED
    BY <1>2, <2>1, <2>2
<1> HIDE DEF Good
<1>3. 0 .. n \subseteq Good
  BY <1>1, <1>2, UpTo
<1> QED
  BY <1>3 DEF Good

\* A number is spelled in two parts.
LEMMA NumberSplits ==
  ASSUME BitBufferAssumption,
         NEW b, IsBytes(b), NEW p \in Nat, NEW m \in Nat, NEW n \in Nat,
         p + m + n <= Size
  PROVE  Number(b, p, m + n) = Number(b, p, m) * Pow2[n] + Number(b, p + m, n)
<1> DEFINE A == Number(b, p, m)
           Good == {i \in 0 .. n : Number(b, p, m + i)
                                     = A * Pow2[i] + Number(b, p + m, i)}
<1>0. \A i \in 0 .. n : /\ i \in Nat /\ p + (m + i) <= Size
                        /\ (p + m) + i <= Size /\ m + i \in Nat
                        /\ p + m \in Nat
  BY BitSizes
<1>1. A \in Int
  BY <1>0, BitSizes, NumberBounds
<1>2. 0 \in Good
  <2>1. Number(b, p + m, 0) = 0
    <3>1. 0 \in 0 .. n /\ p + m \in Nat /\ (p + m) + 0 <= Size
      BY <1>0
    <3> QED
      BY <3>1, NumberIs
  <2>2. Pow2[0] = 1 /\ m + 0 = m
    BY PowIs
  <2> QED
    BY <1>1, <2>1, <2>2
<1>3. ASSUME NEW i \in 1 .. n, i - 1 \in Good PROVE i \in Good
  <2> DEFINE B == Number(b, p + m, i - 1)
             x == BitAt(b, p + m + i - 1)
             P == Pow2[i - 1]
  <2>1. Number(b, p, m + i) = 2 * Number(b, p, m + i - 1) + x
    <3> DEFINE k == m + i
    <3>1. /\ k \in Nat /\ p + k <= Size /\ k # 0
          /\ p + k - 1 = p + m + i - 1 /\ k - 1 = m + i - 1
      BY <1>0
    <3> HIDE DEF k
    <3>2. Number(b, p, k) = 2 * Number(b, p, k - 1) + BitAt(b, p + k - 1)
      BY <3>1, NumberIs
    <3> QED
      BY <3>1, <3>2 DEF k
  <2>2. Number(b, p + m, i) = 2 * B + x /\ x \in Int /\ B \in Int
    <3> DEFINE o == p + m
    <3>1. /\ i \in Nat /\ i - 1 \in Nat /\ i # 0 /\ o \in Nat
          /\ o + i <= Size /\ o + (i - 1) <= Size
          /\ o + i - 1 = p + m + i - 1
      BY <1>0, BitSizes
    <3> HIDE DEF o
    <3>2. /\ Number(b, o, i) = 2 * Number(b, o, i - 1) + BitAt(b, o + i - 1)
          /\ BitAt(b, o + i - 1) \in {0, 1}
      BY <3>1, NumberIs
    <3>3. Number(b, o, i - 1) \in Int
      BY <3>1, NumberIs
    <3> QED
      BY <3>1, <3>2, <3>3 DEF o
  <2>3. Pow2[i] = 2 * P /\ P \in Int
    BY PowIs, PowNat
  <2>4. Number(b, p, m + i - 1) = A * P + B
    BY <1>3
  <2> HIDE DEF A, B, x, P
  <2>5. 2 * (A * P + B) + x = A * (2 * P) + (2 * B + x)
    BY <1>1, <2>2, <2>3
  <2> QED
    BY <2>1, <2>2, <2>3, <2>4, <2>5 DEF A, B, x, P
<1> HIDE DEF Good
<1>4. 0 .. n \subseteq Good
  BY <1>2, <1>3, UpTo
<1> QED
  BY <1>4 DEF Good

\* There are n bits from p on.
Within(p, n) == p \in Nat /\ n \in Nat /\ p + n <= Size

\* A number q with the n bits of r behind it.
Joined(q, n, r) == q * Pow2[n] + r

\* l bits are m bits and the n behind them.
Parted(l, m, n) == m \in Nat /\ n \in Nat /\ l = m + n

\* There is one way to split it.
LEMMA SplitIs ==
  ASSUME BitBufferAssumption,
         NEW b, IsBytes(b), NEW p, NEW m, NEW n,
         NEW l, Parted(l, m, n), Within(p, l),
         NEW o, Parted(o, p, m),
         NEW q \in Int, NEW r \in Int, 0 <= r, r < Pow2[n],
         Number(b, p, l) = Joined(q, n, r)
  PROVE  Number(b, p, m) = q /\ Number(b, o, n) = r
<1> DEFINE P == Pow2[n]
           A == Number(b, p, m)
           B == Number(b, p + m, n)
<1>0. /\ p \in Nat /\ m \in Nat /\ n \in Nat
      /\ l = m + n /\ o = p + m /\ p + m + n <= Size
  BY DEF Parted, Within
<1>1. P \in Nat \ {0}
  BY <1>0, PowNat
<1>2. A \in Int
  BY <1>0, BitSizes, NumberBounds
<1>3. B \in 0 .. (P - 1)
  <2>1. p + m \in Nat
    BY <1>0
  <2> QED
    BY <1>0, <1>1, <2>1, BitSizes, NumberBounds
<1>4. A * P + B = q * P + r
  BY <1>0, NumberSplits DEF Joined
<1>5. r \in 0 .. (P - 1)
  BY <1>1
<1> HIDE DEF P, A, B
<1>6. P * A + B = P * q + r
  BY <1>1, <1>2, <1>3, <1>4
<1>7. A = (P * A + B) \div P /\ B = (P * A + B) % P
  BY <1>1, <1>2, <1>3, DivisionIs
<1>8. q = (P * q + r) \div P /\ r = (P * q + r) % P
  BY <1>1, <1>5, DivisionIs
<1> QED
  BY <1>0, <1>6, <1>7, <1>8 DEF A, B

\* Buffers that spell the same number spell the same parts.
LEMMA SameParts ==
  ASSUME BitBufferAssumption,
         NEW b, IsBytes(b), NEW c, IsBytes(c),
         NEW p, NEW m, NEW n,
         NEW l, Parted(l, m, n), Within(p, l),
         NEW o, Parted(o, p, m),
         Number(b, p, l) = Number(c, p, l)
  PROVE  /\ Number(b, p, m) = Number(c, p, m)
         /\ Number(b, o, n) = Number(c, o, n)
<1> DEFINE q == Number(b, p, m)
           r == Number(b, p + m, n)
<1>0. /\ p \in Nat /\ m \in Nat /\ n \in Nat
      /\ l = m + n /\ o = p + m /\ p + m + n <= Size
  BY DEF Parted, Within
<1>1. q \in Int /\ r \in Int /\ 0 <= r /\ r < Pow2[n]
  <2>1. p + m \in Nat /\ p + m <= Size
    BY <1>0, BitSizes
  <2> QED
    BY <1>0, <2>1, NumberBounds
<1>2. Number(c, p, l) = Joined(q, n, r)
  BY <1>0, NumberSplits DEF Joined
<1> HIDE DEF q, r
<1>3. Number(c, p, m) = q /\ Number(c, o, n) = r
  BY <1>1, <1>2, SplitIs
<1> QED
  BY <1>0, <1>3 DEF q, r

\* Halving a quotient doubles its divisor.
LEMMA HalfQuotient ==
  ASSUME NEW x \in Int, NEW d \in Nat, d >= 1
  PROVE  x \div d = 2 * (x \div (2 * d)) + ((x \div d) % 2)
<1> DEFINE q == x \div d
           r == x % d
           h == q \div 2
           t == q % 2
<1>1. q \in Int /\ r \in 0 .. (d - 1) /\ x = d * q + r
  BY DivMod
<1>2. h \in Int /\ t \in 0 .. 1 /\ q = 2 * h + t
  BY <1>1, DivMod
<1> HIDE DEF q, r, h, t
<1>3. x = (2 * d) * h + (d * t + r)
  BY <1>1, <1>2
<1>4. d * t + r \in 0 .. ((2 * d) - 1)
  <2>1. t = 0 \/ t = 1
    BY <1>2
  <2> QED
    BY <1>1, <2>1
<1>5. 2 * d \in Nat \ {0}
  OBVIOUS
<1>6. x \div (2 * d) = h
  BY <1>2, <1>3, <1>4, <1>5, DivisionIs
<1> QED
  BY <1>2, <1>6 DEF q, t

\* The bits of a byte spell the byte.
LEMMA NumberOfByte ==
  ASSUME BitBufferAssumption,
         NEW b, IsBytes(b), NEW i \in 0 .. (ByteCount - 1)
  PROVE  Number(b, i * ByteBits, ByteBits) = b.bytes[i]
<1> USE BitSizes
<1> DEFINE x == b.bytes[i]
           p == i * ByteBits
           Good == {k \in 0 .. ByteBits :
                      Number(b, p, k) = x \div Pow2[ByteBits - k]}
<1>1. x \in Int /\ 0 <= x /\ x < Pow2[ByteBits]
  BY ByteIs
<1>2. p \in Nat /\ p + ByteBits <= Size
  <2>1. ByteBits - 1 \in 0 .. (ByteBits - 1)
    OBVIOUS
  <2>2. i * ByteBits + (ByteBits - 1) \in 0 .. (Size - 1)
    BY <2>1, PlaceOf
  <2> QED
    BY <2>2
<1>3. 0 \in Good
  <2>1. Number(b, p, 0) = 0
    BY <1>2, NumberIs
  <2>2. Pow2[ByteBits] \in Nat \ {0}
    BY PowNat
  <2>3. x = Pow2[ByteBits] * 0 + x /\ x \in 0 .. (Pow2[ByteBits] - 1)
    BY <1>1, <2>2
  <2> HIDE DEF x, p
  <2>4. x \div Pow2[ByteBits] = 0
    BY <2>2, <2>3, DivisionIs
  <2> QED
    BY <2>1, <2>4
<1>4. ASSUME NEW k \in 1 .. ByteBits, k - 1 \in Good PROVE k \in Good
  <2> DEFINE d == Pow2[ByteBits - k]
  <2>1. d \in Nat /\ d >= 1
    BY PowNat
  <2>2. Pow2[ByteBits - (k - 1)] = 2 * d
    BY PowIs
  <2>3. k - 1 \in 0 .. (ByteBits - 1)
    OBVIOUS
  <2>4. /\ (p + k - 1) \div ByteBits = i
        /\ (p + k - 1) % ByteBits = k - 1
    <3>1. p + k - 1 = i * ByteBits + (k - 1)
      BY <1>2
    <3> QED
      BY <2>3, <3>1, PlaceOf
  <2>5. BitAt(b, p + k - 1) = (x \div d) % 2
    <3>1. ByteBits - 1 - (k - 1) = ByteBits - k
      OBVIOUS
    <3> QED
      BY <2>4, <3>1 DEF BitAt
  <2>6. Number(b, p, k) = 2 * Number(b, p, k - 1) + BitAt(b, p + k - 1)
    <3>1. k \in Nat /\ p + k <= Size /\ k # 0
      BY <1>2
    <3> HIDE DEF p
    <3> QED
      BY <1>2, <3>1, NumberIs
  <2>7. Number(b, p, k - 1) = x \div (2 * d)
    BY <1>4, <2>2
  <2> HIDE DEF x, d, p
  <2>8. x \div d = 2 * (x \div (2 * d)) + ((x \div d) % 2)
    BY <1>1, <2>1, HalfQuotient
  <2> QED
    BY <2>5, <2>6, <2>7, <2>8 DEF d
<1> HIDE DEF Good
<1>5. 0 .. ByteBits \subseteq Good
  BY <1>3, <1>4, UpTo
<1>6. Number(b, p, ByteBits) = x \div Pow2[0]
  BY <1>5 DEF Good
<1> QED
  BY <1>1, <1>6, PowIs

\* They have the same bits.
LEMMA SameBits ==
  ASSUME BitBufferAssumption,
         NEW b, IsBytes(b), NEW c, IsBytes(c),
         NEW p \in Nat, NEW n \in Nat, p + n <= Size,
         Number(b, p, n) = Number(c, p, n), NEW j \in 0 .. (n - 1)
  PROVE  BitAt(b, p + j) = BitAt(c, p + j)
<1> DEFINE k == n - j
           o == p + j
<1>1. /\ j \in Nat /\ k \in Nat /\ n = j + k /\ p + j + k <= Size
      /\ o \in Nat /\ o + 1 + (k - 1) <= Size /\ k - 1 \in Nat
      /\ k = 1 + (k - 1) /\ 1 \in Nat
      /\ o \in 0 .. (Size - 1) /\ o + 1 <= Size
  BY BitSizes
<1> HIDE DEF k
<1>2. Number(b, p, j) = Number(c, p, j) /\ Number(b, o, k) = Number(c, o, k)
  <2>1. Parted(n, j, k) /\ Within(p, n) /\ Parted(o, p, j)
    BY <1>1 DEF o, Parted, Within
  <2> HIDE DEF o
  <2> QED
    BY <2>1, SameParts
<1> HIDE DEF o
<1>3. Number(b, o, 1) = Number(c, o, 1)
  <2> DEFINE m == k - 1
  <2>1. Parted(k, 1, m) /\ Within(o, k)
    BY <1>1 DEF Parted, Within
  <2> DEFINE h == o + 1
  <2>2. h \in Nat /\ Parted(h, o, 1)
    BY <1>1 DEF Parted
  <2> HIDE DEF m, h
  <2>3. Number(b, o, 1) = Number(c, o, 1) /\ Number(b, h, m) = Number(c, h, m)
    BY <1>1, <1>2, <2>1, <2>2, SameParts
  <2> QED
    BY <2>3
<1>4. ASSUME NEW d, IsBytes(d) PROVE Number(d, o, 1) = BitAt(d, o)
  <2>1. Number(d, o, 1) = 2 * Number(d, o, 1 - 1) + BitAt(d, o + 1 - 1)
    BY <1>1, <1>4, NumberIs
  <2>2. 1 - 1 = 0 /\ o + 1 - 1 = o
    BY <1>1
  <2>3. Number(d, o, 0) = 0 /\ BitAt(d, o) \in {0, 1}
    BY <1>1, <1>4, NumberIs, BitIs
  <2> QED
    BY <2>1, <2>2, <2>3
<1> QED
  BY <1>3, <1>4 DEF o

-----------------------------------------------------------------------------
(* The cursor.                                                             *)

\* The object is one, with its cursor at most behind the last bit.
IsBuffer(b) == b \in Buffers /\ RemainingBitCount(b) >= 0

\* The cursor is at most behind the last bit.
LEMMA BufferIs ==
  ASSUME BitBufferAssumption,
         NEW b, IsBuffer(b)
  PROVE  /\ IsBytes(b)
         /\ b.byte_offset_ \in 0 .. ByteCount
         /\ b.bit_offset_ \in 0 .. (ByteBits - 1)
         /\ Position(b) \in 0 .. Size
         /\ RemainingBitCount(b) = Size - Position(b)
         /\ Position(b) < Size => b.byte_offset_ < ByteCount
         /\ b = [bytes |-> b.bytes, byte_offset_ |-> b.byte_offset_,
                 bit_offset_ |-> b.bit_offset_]
<1> DEFINE at == b.byte_offset_
           o == b.bit_offset_
<1>1. /\ IsBytes(b) /\ at \in 0 .. ByteCount /\ o \in 0 .. (ByteBits - 1)
      /\ b = [bytes |-> b.bytes, byte_offset_ |-> b.byte_offset_,
              bit_offset_ |-> b.bit_offset_]
  BY DEF IsBuffer, Buffers, IsBytes
<1>2. (ByteCount - at) * ByteBits - o >= 0
  BY DEF IsBuffer, RemainingBitCount
<1> HIDE DEF at, o
<1>3. at * ByteBits \in Nat
  BY <1>1, BitSizes
<1>4. (ByteCount - at) * ByteBits = ByteCount * ByteBits - at * ByteBits
  BY <1>1, BitSizes
<1>5. Position(b) = at * ByteBits + o
  BY DEF Position, at, o
<1>6. RemainingBitCount(b) = (ByteCount - at) * ByteBits - o
  BY DEF RemainingBitCount, at, o
<1>7. Position(b) < Size => at # ByteCount
  BY <1>1, <1>3, <1>5, BitSizes
<1> QED
  BY <1>1, <1>2, <1>3, <1>4, <1>5, <1>6, <1>7, BitSizes DEF at, o

Cursor(bytes, i, j) ==
  [bytes |-> bytes, byte_offset_ |-> i, bit_offset_ |-> j]

\* The position of a bit in a byte.
Place(i, j) == i * ByteBits + j

\* A place in the buffer is where the cursor can be.
LEMMA CursorAt ==
  ASSUME BitBufferAssumption,
         NEW bytes \in [0 .. (ByteCount - 1) -> Byte],
         NEW i \in Nat, NEW j \in 0 .. (ByteBits - 1),
         Place(i, j) <= Size
  PROVE  LET b == Cursor(bytes, i, j)
         IN  IsBuffer(b) /\ Position(b) = Place(i, j)
<1> DEFINE b == Cursor(bytes, i, j)
<1>sizes. /\ ByteBits \in Nat /\ ByteBits >= 1
          /\ WordBits \in Nat /\ WordBits >= 2 * ByteBits
          /\ ByteCount \in Nat /\ ByteCount >= 1
          /\ Size \in Nat /\ Size = ByteCount * ByteBits
  BY BitSizes
<1> USE <1>sizes DEF Cursor, Place
<1>1. i <= ByteCount
  <2>1. CASE i >= ByteCount + 1
    <3>1. (i - ByteCount) * ByteBits >= ByteBits
      <4>1. ByteBits * (i - ByteCount) >= ByteBits
        BY <2>1, ProductGrows
      <4> QED
        BY <4>1
    <3>2. (i - ByteCount) * ByteBits = i * ByteBits - ByteCount * ByteBits
      OBVIOUS
    <3>3. i * ByteBits \in Nat
      OBVIOUS
    <3> QED
      BY <3>1, <3>2, <3>3
  <2> QED
    BY <2>1
<1>2. b \in Buffers
  BY <1>1 DEF Buffers
<1>3. RemainingBitCount(b) >= 0
  <2>1. (ByteCount - i) * ByteBits = ByteCount * ByteBits - i * ByteBits
    BY <1>1
  <2>2. i * ByteBits \in Nat
    OBVIOUS
  <2> QED
    BY <2>1, <2>2 DEF RemainingBitCount
<1> QED
  BY <1>2, <1>3 DEF IsBuffer, Position

\* The offsets of a cursor follow from its position.
LEMMA OffsetsOf ==
  ASSUME BitBufferAssumption,
         NEW b, IsBuffer(b)
  PROVE  /\ b.byte_offset_ = Position(b) \div ByteBits
         /\ b.bit_offset_ = Position(b) % ByteBits
<1> DEFINE at == b.byte_offset_
           o == b.bit_offset_
<1>1. at \in Int /\ o \in 0 .. (ByteBits - 1)
  BY BufferIs
<1>2. Position(b) = at * ByteBits + o
  BY DEF Position
<1> HIDE DEF at, o
<1>3. Position(b) = ByteBits * at + o /\ ByteBits \in Nat \ {0}
  BY <1>1, <1>2, BitSizes
<1>4. (ByteBits * at + o) \div ByteBits = at
          /\ (ByteBits * at + o) % ByteBits = o
  BY <1>1, <1>3, DivisionIs
<1> QED
  BY <1>3, <1>4 DEF at, o

\* The bytes and the position determine the object.
LEMMA SameCursor ==
  ASSUME BitBufferAssumption,
         NEW b, IsBuffer(b), NEW c, IsBuffer(c),
         b.bytes = c.bytes, Position(b) = Position(c)
  PROVE  b = c
BY BufferIs, OffsetsOf

\* A record is its fields.
LEMMA FieldsOf ==
  ASSUME NEW S, NEW T, NEW U,
         NEW b \in [bytes : S, byte_offset_ : T, bit_offset_ : U]
  PROVE  b = [bytes |-> b.bytes, byte_offset_ |-> b.byte_offset_,
              bit_offset_ |-> b.bit_offset_]
OBVIOUS

\* Two of the fields change.
LEMMA MovedIs ==
  ASSUME NEW b \in Buffers, NEW i, NEW j
  PROVE  [b EXCEPT !.byte_offset_ = i, !.bit_offset_ = j]
           = [bytes |-> b.bytes, byte_offset_ |-> i, bit_offset_ |-> j]
<1> DEFINE S == [0 .. (ByteCount - 1) -> Byte]
           T == (0 .. ByteCount) \cup {i}
           U == (0 .. (ByteBits - 1)) \cup {j}
           c == [b EXCEPT !.byte_offset_ = i, !.bit_offset_ = j]
<1>1. b \in [bytes : S, byte_offset_ : T, bit_offset_ : U] /\ i \in T
          /\ j \in U
  BY DEF Buffers
<1> HIDE DEF S, T, U
<1>2. c \in [bytes : S, byte_offset_ : T, bit_offset_ : U]
  BY <1>1
<1>3. c.bytes = b.bytes /\ c.byte_offset_ = i /\ c.bit_offset_ = j
  BY <1>1
<1> HIDE DEF c
<1> QED
  BY <1>2, <1>3, FieldsOf DEF c

\* ConsumeBits steps over bits that are there.
LEMMA ConsumeIs ==
  ASSUME BitBufferAssumption,
         NEW b, IsBuffer(b), NEW n \in Nat
  PROVE  LET r == ConsumeBits(b, n)
         IN  IF Position(b) + n <= Size
               THEN /\ r.ok /\ r.val = 0 /\ IsBuffer(r.buf)
                    /\ r.buf.bytes = b.bytes
                    /\ Position(r.buf) = Position(b) + n
               ELSE r = Fail(b)
<1> USE BitSizes
<1> DEFINE at == b.byte_offset_
           o == b.bit_offset_
           q == (o + n) \div ByteBits
           k == (o + n) % ByteBits
           c == [b EXCEPT !.byte_offset_
               = @ + (b.bit_offset_ + n) \div ByteBits,
                          !.bit_offset_ = (@ + n) % ByteBits]
<1>1. /\ IsBytes(b) /\ at \in Nat /\ o \in 0 .. (ByteBits - 1)
      /\ Position(b) \in Nat
      /\ RemainingBitCount(b) = Size - Position(b)
      /\ b = [bytes |-> b.bytes, byte_offset_ |-> at, bit_offset_ |-> o]
  BY BufferIs
<1>2. CASE Position(b) + n > Size
  BY <1>1, <1>2 DEF ConsumeBits
<1>3. CASE Position(b) + n <= Size
  <2>1. ConsumeBits(b, n) = Done(0, c)
    BY <1>1, <1>3 DEF ConsumeBits
  <2>2. o + n \in Nat
    BY <1>1
  <2>3. q \in Int /\ k \in 0 .. (ByteBits - 1) /\ o + n = (ByteBits * q) + k
    <3> DEFINE x == o + n
    <3>1. ByteBits \in Nat \ {0} /\ x \in Int
      BY <2>2
    <3> HIDE DEF x
    <3>2. /\ x \div ByteBits \in Int /\ (x % ByteBits) \in 0 .. (ByteBits - 1)
          /\ x = (ByteBits * (x \div ByteBits)) + (x % ByteBits)
      BY <3>1, DivMod
    <3> QED
      BY <3>2 DEF x
  <2>4. c = Cursor(b.bytes, at + q, k)
    BY MovedIs DEF IsBuffer, Cursor
  <2>5. Position(b) = at * ByteBits + o
    BY DEF Position
  <2> HIDE DEF at, o, q, k, c
  <2>6. q >= 0
    <3>1. CASE q <= -1
      <4>1. ByteBits * (-q) >= ByteBits
        BY <2>3, <3>1, ProductGrows
      <4>2. ByteBits * (-q) = -(ByteBits * q)
        BY <2>3
      <4> QED
        BY <2>2, <2>3, <4>1, <4>2
    <3> QED
      BY <2>3, <3>1
  <2>7. Place(at + q, k) = Position(b) + n
    <3>1. (at + q) * ByteBits + k = at * ByteBits + (ByteBits * q + k)
      BY <1>1, <2>3
    <3> QED
      BY <1>1, <2>3, <2>5, <3>1 DEF Place
  <2>8. IsBuffer(c) /\ Position(c) = Position(b) + n
    <3>1. at + q \in Nat /\ Position(b) + n \in Nat
      BY <1>1, <2>3, <2>6
    <3>2. b.bytes \in [0 .. (ByteCount - 1) -> Byte]
      BY <1>1 DEF IsBytes
    <3> QED
      BY <1>3, <2>3, <2>4, <2>7, <3>1, <3>2, CursorAt
  <2> QED
    BY <1>3, <2>1, <2>4, <2>8 DEF Done, Cursor
<1> QED
  BY <1>1, <1>2, <1>3

\* Seek goes back to where a cursor of the buffer was.
LEMMA SeekIs ==
  ASSUME BitBufferAssumption,
         NEW b, IsBuffer(b), NEW c, IsBuffer(c)
  PROVE  LET r == Seek(c, b.byte_offset_, b.bit_offset_)
         IN  /\ r.ok /\ IsBuffer(r.buf) /\ r.buf.bytes = c.bytes
             /\ Position(r.buf) = Position(b)
<1> DEFINE at == b.byte_offset_
           o == b.bit_offset_
           d == Cursor(c.bytes, at, o)
<1>1. /\ at \in Nat /\ at <= ByteCount /\ o \in 0 .. (ByteBits - 1)
      /\ Position(b) \in 0 .. Size
  BY BufferIs, BitSizes
<1>2. /\ IsBytes(c)
      /\ c = [bytes |-> c.bytes, byte_offset_ |-> c.byte_offset_,
              bit_offset_ |-> c.bit_offset_]
  BY BufferIs
<1>3. Position(b) = Place(at, o)
  BY DEF Position, Place
<1>4. ~(at = ByteCount /\ o > 0)
  <2> HIDE DEF at, o
  <2> QED
    BY <1>1, <1>3, BitSizes DEF Place
<1>5. ~(at > ByteCount) /\ ~(o > ByteBits - 1)
  BY <1>1, BitSizes
<1>6. Seek(c, at, o) = Done(0, [c EXCEPT !.byte_offset_ = at,
                                         !.bit_offset_ = o])
  BY <1>4, <1>5 DEF Seek
<1>7. [c EXCEPT !.byte_offset_ = at, !.bit_offset_ = o] = d
  BY MovedIs DEF IsBuffer, Cursor
<1>8. IsBuffer(d) /\ Position(d) = Position(b)
  <2>1. Position(b) \in Nat /\ Position(b) <= Size
            /\ c.bytes \in [0 .. (ByteCount - 1) -> Byte]
    BY <1>1, <1>2, <1>3, BitSizes DEF IsBytes
  <2> HIDE DEF at, o, d
  <2> QED
    BY <1>1, <1>3, <2>1, CursorAt DEF d
<1>9. d.bytes = c.bytes
  BY DEF Cursor
<1>10. Seek(c, at, o) = Done(0, d)
  BY <1>6, <1>7
<1> HIDE DEF d
<1> QED
  BY <1>8, <1>9, <1>10 DEF Done

-----------------------------------------------------------------------------
(* Reading.                                                                *)

\* The parts of a byte: the bits before off, the cnt bits there, the rest.
LEMMA BytePart ==
  ASSUME BitBufferAssumption,
         NEW b, IsBytes(b), NEW i \in 0 .. (ByteCount - 1),
         NEW off \in Nat, NEW cnt \in Nat, off + cnt <= ByteBits
  PROVE  LET p == i * ByteBits
             below == ByteBits - off - cnt
             A == Number(b, p, off)
             V == Number(b, p + off, cnt)
             L == Number(b, p + off + cnt, below)
             R == Number(b, p + off, ByteBits - off)
         IN  /\ A \in Nat /\ V \in Nat /\ L \in Nat /\ R \in Nat
             /\ A < Pow2[off] /\ V < Pow2[cnt] /\ L < Pow2[below]
             /\ R < Pow2[ByteBits - off]
             /\ R = V * Pow2[below] + L
             /\ b.bytes[i] = A * Pow2[ByteBits - off] + R
<1> DEFINE p == i * ByteBits
           below == ByteBits - off - cnt
           o == p + off
           m == ByteBits - off
<1>1. p \in Nat /\ p + ByteBits <= Size
  <2>1. ByteBits - 1 \in 0 .. (ByteBits - 1)
    BY BitSizes
  <2>2. i * ByteBits + (ByteBits - 1) \in 0 .. (Size - 1)
    BY <2>1, PlaceOf
  <2>3. i * ByteBits \in Nat
    BY BitSizes
  <2> QED
    BY <2>2, <2>3, BitSizes
<1> HIDE DEF p
<1>2. /\ below \in Nat /\ o \in Nat /\ m \in Nat /\ m = cnt + below
      /\ o + cnt + below <= Size /\ o + cnt \in Nat /\ o + cnt <= Size
      /\ o + m <= Size /\ p + off + m <= Size /\ off + m = ByteBits
      /\ p + off <= Size
  BY <1>1, BitSizes
<1> HIDE DEF below, o, m
<1>3. /\ Number(b, p, off) \in Nat /\ Number(b, p, off) < Pow2[off]
      /\ Number(b, o, cnt) \in Nat /\ Number(b, o, cnt) < Pow2[cnt]
      /\ Number(b, o, m) \in Nat /\ Number(b, o, m) < Pow2[m]
      /\ Number(b, o + cnt, below) \in Nat
      /\ Number(b, o + cnt, below) < Pow2[below]
  BY <1>1, <1>2, NumberBounds
<1>4. Number(b, o, cnt + below)
        = Number(b, o, cnt) * Pow2[below] + Number(b, o + cnt, below)
  BY <1>2, NumberSplits
<1>5. Number(b, p, off + m)
          = Number(b, p, off) * Pow2[m] + Number(b, p + off, m)
  BY <1>1, <1>2, NumberSplits
<1>6. Number(b, p, ByteBits) = b.bytes[i]
  BY NumberOfByte DEF p
<1> QED
  BY <1>2, <1>3, <1>4, <1>5, <1>6 DEF p, below, o, m

\* The low bits of a byte.
LEMMA LowestIs ==
  ASSUME BitBufferAssumption,
         NEW b, IsBytes(b), NEW i \in 0 .. (ByteCount - 1),
         NEW off \in 0 .. ByteBits
  PROVE  LowestBits(b.bytes[i], ByteBits - off)
           = Number(b, i * ByteBits + off, ByteBits - off)
<1> DEFINE P == Pow2[ByteBits - off]
           A == Number(b, i * ByteBits, off)
           R == Number(b, i * ByteBits + off, ByteBits - off)
<1>1. /\ A \in Nat /\ R \in Nat /\ R < P /\ b.bytes[i] = A * P + R
  <2>1. off \in Nat /\ 0 \in Nat /\ off + 0 <= ByteBits
    BY BitSizes
  <2> QED
    BY <2>1, BytePart
<1>2. P \in Nat \ {0}
  BY BitSizes, PowNat
<1>3. LowestBits(b.bytes[i], ByteBits - off) = b.bytes[i] % P
  BY DEF LowestBits
<1> HIDE DEF A, R, P
<1>4. b.bytes[i] = P * A + R
  BY <1>1, <1>2
<1>6. A \in Int /\ R \in 0 .. (P - 1)
  BY <1>1, <1>2
<1>5. (P * A + R) % P = R
  BY <1>2, <1>6, DivisionIs
<1> QED
  BY <1>3, <1>4, <1>5 DEF R

\* The bits at off, after the bits before them have been masked.
LEMMA HighestIs ==
  ASSUME BitBufferAssumption,
         NEW b, IsBytes(b), NEW i \in 0 .. (ByteCount - 1),
         NEW off \in Nat, NEW cnt \in Nat, off + cnt <= ByteBits
  PROVE  HighestBits(Number(b, i * ByteBits + off, ByteBits - off), off + cnt)
           = Number(b, i * ByteBits + off, cnt)
<1> DEFINE below == ByteBits - off - cnt
           P == Pow2[below]
           V == Number(b, i * ByteBits + off, cnt)
           L == Number(b, i * ByteBits + off + cnt, below)
           R == Number(b, i * ByteBits + off, ByteBits - off)
<1>1. /\ V \in Nat /\ L \in Nat /\ L < P /\ R \in Nat
      /\ R < Pow2[ByteBits - off] /\ R = V * P + L
  BY BytePart
<1>2. /\ below \in Nat /\ ByteBits - off \in Nat /\ ByteBits \in Nat
      /\ ByteBits - off <= ByteBits /\ ByteBits - (off + cnt) = below
  BY BitSizes
<1>3. P \in Nat \ {0}
  BY <1>2, PowNat
<1>4. UInt8(R) = R
  <2>1. /\ Pow2[ByteBits - off] <= Pow2[ByteBits]
        /\ Pow2[ByteBits - off] \in Nat /\ Pow2[ByteBits] \in Nat
        /\ Pow2[ByteBits] >= 1
    BY <1>2, PowGrows, PowNat
  <2> DEFINE W == Pow2[ByteBits]
  <2> HIDE DEF R
  <2>2. R \in 0 .. (W - 1) /\ W \in Nat \ {0}
    BY <1>1, <2>1
  <2> HIDE DEF W
  <2>3. R % W = R
    BY <2>2, ModOf
  <2> QED
    BY <2>3 DEF UInt8, W
<1>5. HighestBits(R, off + cnt) = R \div P
  BY <1>2, <1>4 DEF HighestBits
<1> HIDE DEF V, L, P, R
<1>6. R = P * V + L
  BY <1>1, <1>3
<1>8. V \in Int /\ L \in 0 .. (P - 1)
  BY <1>1, <1>3
<1>7. (P * V + L) \div P = V
  BY <1>3, <1>8, DivisionIs
<1> QED
  BY <1>5, <1>6, <1>7 DEF R, V

\* A number of m bits can be shifted by n in a uint32_t that has both.
LEMMA ShiftFits ==
  ASSUME BitBufferAssumption,
         NEW m \in Nat, NEW n \in Nat, m + n <= WordBits,
         NEW a \in Nat, a < Pow2[m]
  PROVE  UInt32(a * Pow2[n]) = a * Pow2[n]
<1> DEFINE P == Pow2[m]
           Q == Pow2[n]
           W == Pow2[WordBits]
<1>1. P \in Nat /\ Q \in Nat /\ Q >= 1 /\ W \in Nat /\ W >= 1
  BY BitSizes, PowNat
<1>2. P * Q <= W
  <2>1. Pow2[m + n] = P * Q
    BY PowSum
  <2>2. m + n \in Nat /\ WordBits \in Nat
    BY BitSizes
  <2>3. Pow2[m + n] <= W
    BY <2>2, PowGrows
  <2> QED
    BY <2>1, <2>3
<1> HIDE DEF P, Q, W
<1>3. a * Q < P * Q
  <2>1. Q * (P - a) >= Q
    BY <1>1, ProductGrows DEF P
  <2>2. Q * (P - a) = P * Q - a * Q
    BY <1>1
  <2>3. a * Q \in Int /\ P * Q \in Int
    BY <1>1
  <2> QED
    BY <1>1, <2>1, <2>2, <2>3
<1>4. a * Q \in Nat /\ P * Q \in Nat
  BY <1>1
<1> DEFINE x == a * Q
<1>5. x \in 0 .. (W - 1) /\ W \in Nat \ {0}
  BY <1>1, <1>2, <1>3, <1>4
<1> HIDE DEF x
<1>6. x % W = x
  BY <1>5, ModOf
<1> QED
  BY <1>6 DEF UInt32, Q, W, x

\* What PeekBits has after the whole bytes.
AfterBytes(b, at, first, whole) ==
  LET bits[i \in 0..whole] ==
        IF i = 0 THEN first
        ELSE UInt32(bits[i - 1] * Pow2[ByteBits]) + b.bytes[at + i]
  IN bits[whole]

\* The whole bytes that PeekBits puts behind the first bits, one by one.
LEMMA WholeBytes ==
  ASSUME BitBufferAssumption,
         NEW b, IsBytes(b), NEW at \in 0 .. (ByteCount - 1),
         NEW off \in 0 .. (ByteBits - 1), NEW whole \in Nat,
         ByteBits - off + whole * ByteBits <= WordBits,
         at + whole <= ByteCount - 1,
         NEW p, p = at * ByteBits + off, NEW rem, rem = ByteBits - off,
         NEW first, first = Number(b, p, rem)
  PROVE  AfterBytes(b, at, first, whole) = Number(b, p, rem + whole * ByteBits)
<1> USE BitSizes
<1> DEFINE N(i) == Number(b, p, rem + i * ByteBits)
           G(v) == [i \in 0..whole |->
                      IF i = 0 THEN first
                      ELSE UInt32(v[i - 1] * Pow2[ByteBits]) + b.bytes[at + i]]
           w == [i \in 0..whole |-> N(i)]
           bits == CHOOSE v : v = G(v)
<1>1. ASSUME NEW i \in 0 .. whole
      PROVE  /\ i \in Nat /\ i * ByteBits \in Nat
             /\ p + rem = (at + 1) * ByteBits
             /\ p \in Nat /\ rem \in 1 .. ByteBits
             /\ rem + i * ByteBits \in Nat
             /\ p + (rem + i * ByteBits) = (at + i + 1) * ByteBits
             /\ p + (rem + i * ByteBits) <= Size
             /\ rem + i * ByteBits <= WordBits
             /\ at + i \in 0 .. (ByteCount - 1)
  <2>1. i * ByteBits \in Nat /\ at * ByteBits \in Nat
    OBVIOUS
  <2>2. (at + i + 1) * ByteBits = at * ByteBits + i * ByteBits + ByteBits
    OBVIOUS
  <2>3. (at + 1) * ByteBits = at * ByteBits + ByteBits
    OBVIOUS
  <2>4. (ByteCount - 1 - at - i) * ByteBits >= 0
    OBVIOUS
  <2>5. (ByteCount - 1 - at - i) * ByteBits
          = ByteCount * ByteBits - ByteBits - at * ByteBits - i * ByteBits
    OBVIOUS
  <2>6. (whole - i) * ByteBits >= 0
    OBVIOUS
  <2>7. (whole - i) * ByteBits = whole * ByteBits - i * ByteBits
    OBVIOUS
  <2>8. whole * ByteBits \in Nat
    OBVIOUS
  <2>9. ByteCount * ByteBits \in Nat
    OBVIOUS
  <2> QED
    BY <2>1, <2>2, <2>3, <2>4, <2>5, <2>6, <2>7, <2>8, <2>9
<1>2. ASSUME NEW i \in 1 .. whole
      PROVE  N(i) = UInt32(N(i - 1) * Pow2[ByteBits]) + b.bytes[at + i]
  <2> DEFINE m == rem + (i - 1) * ByteBits
             o == p + m
  <2>1. /\ i - 1 \in 0 .. whole /\ i \in 0 .. whole
        /\ rem + i * ByteBits = m + ByteBits
    <3>1. i * ByteBits = (i - 1) * ByteBits + ByteBits
      OBVIOUS
    <3>2. (i - 1) * ByteBits \in Nat
      OBVIOUS
    <3> QED
      BY <3>1, <3>2
  <2>2. /\ m \in Nat /\ p \in Nat /\ p + m <= Size
        /\ o = (at + (i - 1) + 1) * ByteBits
        /\ at + i \in 0 .. (ByteCount - 1)
        /\ p + (rem + i * ByteBits) <= Size
        /\ rem + i * ByteBits <= WordBits
    BY <1>1, <2>1
  <2>3. at + (i - 1) + 1 = at + i
    OBVIOUS
  <2>4. Number(b, o, ByteBits) = b.bytes[at + i]
    BY <2>2, <2>3, NumberOfByte
  <2>5. N(i) = Number(b, p, m + ByteBits) /\ N(i - 1) = Number(b, p, m)
    BY <2>1
  <2>6. p + m + ByteBits <= Size /\ m + ByteBits <= WordBits
    BY <2>1, <2>2
  <2> HIDE DEF m, N
  <2>7. Number(b, p, m + ByteBits)
          = Number(b, p, m) * Pow2[ByteBits] + Number(b, p + m, ByteBits)
    BY <2>2, <2>6, NumberSplits, SMTT(20)
  <2>8. Number(b, p, m) \in Nat /\ Number(b, p, m) < Pow2[m]
    <3>1. m \in Nat /\ p \in Nat /\ p + m <= Size
      BY <2>2
    <3> QED
      BY <3>1, NumberBounds
  <2>9. UInt32(Number(b, p, m) * Pow2[ByteBits])
          = Number(b, p, m) * Pow2[ByteBits]
    BY <2>2, <2>6, <2>8, ShiftFits
  <2> QED
    BY <2>4, <2>5, <2>7, <2>9
<1>3. N(0) = Number(b, p, rem)
  <2>1. rem + 0 * ByteBits = rem
    OBVIOUS
  <2> QED
    BY <2>1
<1> HIDE DEF N
<1>4. w = G(w)
  <2>1. ASSUME NEW i \in 0 .. whole
        PROVE  w[i] = IF i = 0 THEN first
                      ELSE UInt32(w[i - 1] * Pow2[ByteBits]) + b.bytes[at + i]
    <3>1. CASE i = 0
      BY <1>3, <3>1
    <3>2. CASE i # 0
      <4>1. i \in 1 .. whole /\ i - 1 \in 0 .. whole
        BY <3>2
      <4>2. w[i] = N(i) /\ w[i - 1] = N(i - 1)
        BY <4>1
      <4> QED
        BY <1>2, <3>2, <4>1, <4>2
    <3> QED
      BY <3>1, <3>2
  <2> QED
    BY <2>1
<1>5. bits = G(bits)
  <2> HIDE DEF G, w
  <2> QED
    BY <1>4
<1> HIDE DEF bits
<1> DEFINE Same == {i \in 0 .. whole : bits[i] = w[i]}
<1>6. 0 \in Same
  <2>1. 0 \in 0 .. whole
    OBVIOUS
  <2>2. bits[0] = first
    BY <1>5, <2>1
  <2>3. w[0] = first
    BY <1>4, <2>1
  <2> QED
    BY <2>1, <2>2, <2>3
<1>7. ASSUME NEW i \in 1 .. whole, i - 1 \in Same
      PROVE  i \in Same
  <2>1. i \in 0 .. whole /\ i # 0
    OBVIOUS
  <2>2. bits[i] = UInt32(bits[i - 1] * Pow2[ByteBits]) + b.bytes[at + i]
    BY <1>5, <2>1
  <2>3. w[i] = UInt32(w[i - 1] * Pow2[ByteBits]) + b.bytes[at + i]
    BY <1>4, <2>1
  <2>4. bits[i - 1] = w[i - 1]
    BY <1>7
  <2> QED
    BY <2>1, <2>2, <2>3, <2>4
<1> HIDE DEF Same
<1>8. 0 .. whole \subseteq Same
  BY <1>6, <1>7, UpTo
<1>9. bits[whole] = N(whole)
  BY <1>8 DEF Same
<1> QED
  BY <1>9 DEF bits, N, AfterBytes

\* PeekBits returns what the next bits spell.
LEMMA PeekIs ==
  ASSUME BitBufferAssumption,
         NEW b, IsBuffer(b), NEW n \in 1 .. WordBits, Position(b) + n <= Size
  PROVE  PeekValue(b, n) = Number(b, Position(b), n)
<1> USE BitSizes
<1> DEFINE at == b.byte_offset_
           off == b.bit_offset_
           p == Position(b)
           rem == ByteBits - off
           count == n - rem
           whole == count \div ByteBits
           left == count % ByteBits
           first == LowestBits(b.bytes[at], rem)
           bits == [i \in 0..whole |-> 0]
<1>1. /\ IsBytes(b) /\ at \in 0 .. (ByteCount - 1)
           /\ off \in 0 .. (ByteBits - 1)
      /\ p \in Nat /\ p + n <= Size /\ rem \in 1 .. ByteBits
  BY BufferIs
<1>2. p = at * ByteBits + off
  BY DEF Position
<1>3. first = Number(b, p, rem)
  <2>1. off \in 0 .. ByteBits
    BY <1>1
  <2> QED
    BY <1>1, <1>2, <2>1, LowestIs
<1>4. CASE n < rem
  <2>1. off \in Nat /\ n \in Nat /\ off + n <= ByteBits
    BY <1>1, <1>4
  <2>2. HighestBits(Number(b, p, rem), off + n) = Number(b, p, n)
    <3>1. HighestBits(Number(b, at * ByteBits + off, ByteBits - off), off + n)
            = Number(b, at * ByteBits + off, n)
      <4> HIDE DEF at, off
      <4> QED
        BY <1>1, <2>1, HighestIs
    <3> QED
      BY <1>2, <3>1
  <2> QED
    BY <1>3, <1>4, <2>2 DEF PeekValue
<1>5. CASE n >= rem
  <2> DEFINE m == rem + whole * ByteBits
  <2>1. /\ whole \in Int /\ left \in 0 .. (ByteBits - 1)
        /\ count = (ByteBits * whole) + left
    <3>1. ByteBits \in Nat \ {0} /\ count \in Int
      BY <1>1
    <3> HIDE DEF count
    <3> QED
      BY <3>1, DivMod
  <2>2. count \in Nat
    BY <1>1, <1>5
  <2> HIDE DEF whole, left, count
  <2>3. whole \in Nat
    <3>1. CASE whole <= -1
      <4>1. ByteBits * (-whole) >= ByteBits
        BY <2>1, <3>1, ProductGrows
      <4>2. ByteBits * (-whole) = -(ByteBits * whole)
        BY <2>1
      <4> QED
        BY <2>1, <2>2, <4>1, <4>2
    <3> QED
      BY <2>1, <3>1
  <2>4. whole * ByteBits \in Nat /\ whole * ByteBits = ByteBits * whole
    BY <2>3
  <2>5. n = m + left /\ m <= n /\ m \in Nat
    <3>1. n = rem + count
      BY <1>1 DEF count
    <3> HIDE DEF rem
    <3> QED
      BY <1>1, <2>1, <2>4, <3>1
  <2>6. p + m = (at + whole + 1) * ByteBits
    <3>1. (at + whole + 1) * ByteBits
            = at * ByteBits + whole * ByteBits + ByteBits
      BY <1>1, <2>3
    <3>2. at * ByteBits \in Nat
      BY <1>1
    <3> HIDE DEF at, off, p
    <3> QED
      BY <1>1, <1>2, <2>4, <3>1, <3>2
  <2>7. at + whole <= ByteCount - 1
    <3>1. CASE at + whole >= ByteCount
      <4> DEFINE x == at + whole + 1
      <4>1. x - ByteCount >= 1 /\ x \in Nat
        BY <1>1, <2>3, <3>1
      <4>2. p + m = x * ByteBits /\ p + m <= Size
        BY <1>1, <2>5, <2>6
      <4> HIDE DEF x, m, p
      <4>3. ByteBits * (x - ByteCount) >= ByteBits
        BY <4>1, ProductGrows
      <4>4. ByteBits * (x - ByteCount) = x * ByteBits - ByteCount * ByteBits
        BY <4>1
      <4>5. x * ByteBits \in Nat /\ ByteCount * ByteBits \in Nat
        BY <4>1
      <4> QED
        BY <4>2, <4>3, <4>4, <4>5
    <3> QED
      BY <1>1, <2>3, <3>1
  <2> DEFINE B == AfterBytes(b, at, first, whole)
  <2>8. B = Number(b, p, m)
    <3>1. ByteBits - off + whole * ByteBits <= WordBits
      BY <2>5
    <3>2. rem = ByteBits - off
      OBVIOUS
    <3> HIDE DEF at, off, p, rem, first, m
    <3>3. B = Number(b, p, rem + whole * ByteBits)
      BY <1>1, <1>2, <1>3, <2>3, <2>7, <3>1, <3>2, WholeBytes
    <3> QED
      BY <3>3 DEF m
  <2>9. PeekValue(b, n)
          = IF left = 0 THEN B
            ELSE UInt32(B * Pow2[left])
                   + HighestBits(b.bytes[at + whole + 1], left)
    <3>1. ~(n < rem)
      BY <1>1, <1>5
    <3> QED
      BY <3>1 DEF PeekValue, AfterBytes, whole, left, count
  <2> HIDE DEF B
  <2>10. CASE left = 0
    <3>1. n = m
      BY <2>5, <2>10
    <3> QED
      BY <2>8, <2>9, <2>10, <3>1
  <2>11. CASE left # 0
    <3> DEFINE i == at + whole + 1
    <3>1. i \in 0 .. (ByteCount - 1)
      <4>1. CASE i >= ByteCount
        <5>1. i = ByteCount
          BY <1>1, <2>3, <2>7, <4>1
        <5>2. p + m = Size
          BY <2>6, <5>1
        <5> HIDE DEF p, m
        <5> QED
          BY <1>1, <2>1, <2>5, <2>11, <5>2
      <4> QED
        BY <1>1, <2>3, <4>1
    <3>2. p + m = i * ByteBits
      BY <2>6
    <3>3. Number(b, i * ByteBits, ByteBits) = b.bytes[i]
      BY <1>1, <3>1, NumberOfByte
    <3>4. HighestBits(b.bytes[i], left) = Number(b, i * ByteBits, left)
      <4> DEFINE z == 0
      <4>1. /\ z \in Nat /\ left \in Nat /\ z + left <= ByteBits
            /\ i * ByteBits + z = i * ByteBits
            /\ ByteBits - z = ByteBits /\ z + left = left
        BY <2>1, <3>1
      <4> HIDE DEF z, i
      <4>2. HighestBits(Number(b, i * ByteBits + z, ByteBits - z), z + left)
              = Number(b, i * ByteBits + z, left)
        BY <1>1, <3>1, <4>1, HighestIs
      <4> QED
        BY <3>3, <4>1, <4>2
    <3> HIDE DEF i
    <3>5. /\ Number(b, p, m + left)
               = Number(b, p, m) * Pow2[left] + Number(b, p + m, left)
          /\ Number(b, p, m) \in Nat /\ Number(b, p, m) < Pow2[m]
      <4>1. p + m + left <= Size /\ p + m <= Size /\ left \in Nat
        BY <1>1, <2>1, <2>5
      <4> HIDE DEF p, m
      <4> QED
        BY <1>1, <2>5, <4>1, NumberSplits, NumberBounds
    <3>6. UInt32(Number(b, p, m) * Pow2[left]) = Number(b, p, m) * Pow2[left]
      <4>1. m + left <= WordBits /\ left \in Nat
        BY <2>1, <2>5
      <4> HIDE DEF p, m
      <4> QED
        BY <2>5, <3>5, <4>1, ShiftFits
    <3>7. b.bytes[at + whole + 1] = b.bytes[i]
      BY DEF i
    <3> QED
      BY <2>5, <2>8, <2>9, <2>11, <3>2, <3>4, <3>5, <3>6, <3>7
  <2> QED
    BY <2>10, <2>11
<1> QED
  BY <1>1, <1>4, <1>5

\* What is read: that it succeeds, the value, and where the cursor goes.
Returns(r, b, v, p) ==
  /\ r.ok /\ r.val = v
  /\ IsBuffer(r.buf) /\ r.buf.bytes = b.bytes /\ Position(r.buf) = p

\* Reading bits gives the number they spell and steps over them.
LEMMA ReadBitsIs ==
  ASSUME BitBufferAssumption,
         NEW b, IsBuffer(b), NEW n \in Nat, n # 0
  PROVE  IF n <= WordBits /\ Position(b) + n <= Size
           THEN Returns(ReadBits(b, n), b, Number(b, Position(b), n),
                        Position(b) + n)
           ELSE ReadBits(b, n) = Fail(b)
<1> USE BitSizes
<1>1. Position(b) \in Nat /\ RemainingBitCount(b) = Size - Position(b)
  BY BufferIs
<1>2. CASE n <= WordBits /\ Position(b) + n <= Size
  <2>1. PeekBits(b, n) = Done(PeekValue(b, n), b)
    BY <1>1, <1>2 DEF PeekBits
  <2>2. ReadBits(b, n) = Done(PeekValue(b, n), ConsumeBits(b, n).buf)
    BY <2>1 DEF ReadBits, Done
  <2>3. PeekValue(b, n) = Number(b, Position(b), n)
    <3>1. n \in 1 .. WordBits
      BY <1>2
    <3> QED
      BY <1>2, <3>1, PeekIs
  <2>4. LET r == ConsumeBits(b, n)
        IN  /\ IsBuffer(r.buf) /\ r.buf.bytes = b.bytes
            /\ Position(r.buf) = Position(b) + n
    BY <1>2, ConsumeIs
  <2> QED
    BY <1>2, <2>2, <2>3, <2>4 DEF Returns, Done
<1>3. CASE ~(n <= WordBits /\ Position(b) + n <= Size)
  <2>1. PeekBits(b, n) = Fail(b)
    BY <1>1, <1>3 DEF PeekBits
  <2> QED
    BY <1>3, <2>1 DEF ReadBits, Fail
<1> QED
  BY <1>2, <1>3

\* The bits, and what they spell, are those of the bytes.
LEMMA SameNumber ==
  ASSUME BitBufferAssumption,
         NEW b, IsBytes(b), NEW c, IsBytes(c), b.bytes = c.bytes,
         NEW p \in Nat, NEW n \in Nat, p + n <= Size
  PROVE  Number(b, p, n) = Number(c, p, n)
<1> DEFINE Good == {i \in 0 .. n : Number(b, p, i) = Number(c, p, i)}
<1>0. \A i \in 0 .. n : i \in Nat /\ p + i <= Size
  BY BitSizes
<1>1. 0 \in Good
  <2>1. /\ Number(b, p, 0) = 0 /\ Number(b, p, n) \in Int
        /\ Number(c, p, 0) = 0 /\ Number(c, p, n) \in Int
    BY NumberIs
  <2> QED
    BY <2>1
<1>2. ASSUME NEW i \in 1 .. n, i - 1 \in Good PROVE i \in Good
  <2>1. i \in Nat /\ p + i <= Size /\ i # 0
    BY <1>0
  <2>2. /\ Number(b, p, i) = 2 * Number(b, p, i - 1) + BitAt(b, p + i - 1)
        /\ Number(c, p, i) = 2 * Number(c, p, i - 1) + BitAt(c, p + i - 1)
    BY <2>1, NumberIs
  <2>3. BitAt(b, p + i - 1) = BitAt(c, p + i - 1)
    BY DEF BitAt
  <2> QED
    BY <1>2, <2>2, <2>3
<1> HIDE DEF Good
<1>3. 0 .. n \subseteq Good
  BY <1>1, <1>2, UpTo
<1> QED
  BY <1>3 DEF Good

\* Bits that are zero spell zero.
LEMMA ZerosSpell ==
  ASSUME BitBufferAssumption,
         NEW b, IsBytes(b), NEW p \in Nat, NEW n \in Nat, p + n <= Size,
         \A i \in p .. (p + n - 1) : BitAt(b, i) = 0
  PROVE  Number(b, p, n) = 0
<1> DEFINE Good == {i \in 0 .. n : Number(b, p, i) = 0}
<1>0. \A i \in 0 .. n : i \in Nat /\ p + i <= Size
  BY BitSizes
<1>1. 0 \in Good
  <2>1. Number(b, p, 0) = 0 /\ Number(b, p, n) \in Int
    BY NumberIs
  <2> QED
    BY <2>1
<1>2. ASSUME NEW i \in 1 .. n, i - 1 \in Good PROVE i \in Good
  <2>1. i \in Nat /\ p + i <= Size /\ i # 0 /\ p + i - 1 \in p .. (p + n - 1)
    BY <1>0
  <2>2. Number(b, p, i) = 2 * Number(b, p, i - 1) + BitAt(b, p + i - 1)
    BY <2>1, NumberIs
  <2> QED
    BY <1>2, <2>1, <2>2
<1> HIDE DEF Good
<1>3. 0 .. n \subseteq Good
  BY <1>1, <1>2, UpTo
<1> QED
  BY <1>3 DEF Good

\* The first bit is the most significant.
LEMMA FirstBit ==
  ASSUME BitBufferAssumption,
         NEW b, IsBytes(b), NEW p \in Nat, NEW n \in Nat, n # 0, p + n <= Size
  PROVE  /\ BitAt(b, p) = 0 => Number(b, p, n) < Pow2[n - 1]
         /\ BitAt(b, p) = 1 => Number(b, p, n) >= Pow2[n - 1]
         /\ BitAt(b, p) \in {0, 1}
<1> DEFINE m == n - 1
           x == Number(b, p + 1, m)
           i == 1
<1>1. /\ m \in Nat /\ p + i + m <= Size /\ i + m = n /\ p + i <= Size
      /\ p + 1 \in Nat /\ p + 1 + m <= Size /\ i \in Nat /\ i # 0
      /\ p + i - 1 = p /\ p \in 0 .. (Size - 1)
  BY BitSizes
<1>2. x \in Nat /\ x < Pow2[m]
  BY <1>1, NumberBounds
<1> HIDE DEF m, x, i
<1>3. Number(b, p, i + m) = Number(b, p, i) * Pow2[m] + Number(b, p + i, m)
  BY <1>1, NumberSplits
<1>4. Number(b, p, i) = 2 * Number(b, p, i - 1) + BitAt(b, p + i - 1)
  BY <1>1, NumberIs
<1>5. Number(b, p, i - 1) = 0
  <2>1. i - 1 = 0
    BY DEF i
  <2>2. Number(b, p, 0) = 0
    BY <1>1, NumberIs
  <2> QED
    BY <2>1, <2>2
<1>6. BitAt(b, p) \in {0, 1} /\ Pow2[m] \in Nat
  BY <1>1, BitIs, PowNat
<1>7. Number(b, p, n) = BitAt(b, p) * Pow2[m] + x
  BY <1>1, <1>3, <1>4, <1>5, <1>6 DEF i, x
<1>8. BitAt(b, p) = 0 => Number(b, p, n) < Pow2[m]
  BY <1>2, <1>6, <1>7
<1>9. BitAt(b, p) = 1 => Number(b, p, n) >= Pow2[m]
  BY <1>2, <1>6, <1>7
<1> QED
  BY <1>6, <1>8, <1>9 DEF m

\* Bits that spell zero are zero.
LEMMA ZeroBits ==
  ASSUME BitBufferAssumption,
         NEW b, IsBytes(b), NEW p \in Nat, NEW n \in Nat, p + n <= Size,
         Number(b, p, n) = 0, NEW j \in 0 .. (n - 1)
  PROVE  BitAt(b, p + j) = 0
<1> DEFINE k == n - j
           o == p + j
<1>1. /\ j \in Nat /\ k \in Nat /\ k # 0 /\ j + k = n /\ p + j + k <= Size
      /\ o \in Nat /\ o + k <= Size /\ p + j <= Size /\ k - 1 \in Nat
  BY BitSizes
<1> HIDE DEF k
<1>2. Number(b, p, j + k) = Number(b, p, j) * Pow2[k] + Number(b, p + j, k)
  BY <1>1, NumberSplits
<1>3. /\ Number(b, p, j) \in Nat /\ Number(b, o, k) \in Nat
  BY <1>1, NumberBounds
<1>4. Pow2[k] \in Nat /\ Pow2[k - 1] \in Nat /\ Pow2[k - 1] >= 1
  BY <1>1, PowNat
<1> HIDE DEF o
<1>5. Number(b, o, k) = 0
  <2>1. Number(b, p, j) * Pow2[k] \in Nat
    BY <1>3, <1>4
  <2> QED
    BY <1>1, <1>2, <1>3, <2>1 DEF o
<1>6. /\ BitAt(b, o) = 1 => Number(b, o, k) >= Pow2[k - 1]
      /\ BitAt(b, o) \in {0, 1}
  BY <1>1, FirstBit
<1> QED
  BY <1>4, <1>5, <1>6 DEF o

-----------------------------------------------------------------------------
(* The zeros before a Golomb code.                                         *)

\* The buffers with the bytes of b and a cursor that is not behind the end.
Moved(b) == {c \in Buffers : RemainingBitCount(c) >= 0 /\ c.bytes = b.bytes}

\* The object after a zero, if one comes next.
AfterZero(c) == IF PeekBits(c, 1).val = 0 THEN ConsumeBits(c, 1).buf ELSE c

\* One step of AfterZeros.
LEMMA AfterZeroIs ==
  ASSUME BitBufferAssumption,
         NEW b, IsBuffer(b)
  PROVE  /\ IsBuffer(AfterZero(b)) /\ AfterZero(b).bytes = b.bytes
         /\ IF Position(b) < Size /\ BitAt(b, Position(b)) = 0
              THEN Position(AfterZero(b)) = Position(b) + 1
              ELSE AfterZero(b) = b
<1> USE BitSizes
<1> DEFINE p == Position(b)
           n == 1
<1>1. /\ p \in Nat /\ p <= Size /\ RemainingBitCount(b) = Size - p
           /\ IsBytes(b)
  BY BufferIs
<1>2. CASE p < Size
  <2>1. /\ n \in 1 .. WordBits /\ p + n <= Size /\ n \in Nat /\ n # 0
        /\ n - 1 = 0 /\ p + n - 1 = p /\ p \in 0 .. (Size - 1)
    BY <1>1, <1>2
  <2> HIDE DEF n
  <2>2. PeekBits(b, n) = Done(PeekValue(b, n), b)
    BY <1>1, <2>1 DEF PeekBits
  <2>3. PeekValue(b, n) = Number(b, p, n)
    BY <2>1, PeekIs
  <2> HIDE DEF p
  <2>4. Number(b, p, n) = BitAt(b, p) /\ BitAt(b, p) \in {0, 1}
    <3>1. /\ Number(b, p, n) = 2 * Number(b, p, n - 1) + BitAt(b, p + n - 1)
          /\ Number(b, p, 0) = 0
      BY <1>1, <2>1, NumberIs
    <3>2. BitAt(b, p) \in {0, 1}
      BY <1>1, <2>1, BitIs
    <3> QED
      BY <2>1, <3>1, <3>2
  <2>5. AfterZero(b) = IF BitAt(b, p) = 0 THEN ConsumeBits(b, n).buf ELSE b
    BY <2>2, <2>3, <2>4 DEF AfterZero, Done, n, p
  <2>6. LET r == ConsumeBits(b, n)
        IN  /\ IsBuffer(r.buf) /\ r.buf.bytes = b.bytes
            /\ Position(r.buf) = Position(b) + n
    BY <2>1, ConsumeIs DEF p
  <2> QED
    BY <1>2, <2>5, <2>6 DEF n, p
<1>3. CASE p = Size
  <2>1. PeekBits(b, 1) = Fail(b)
    BY <1>1, <1>3 DEF PeekBits
  <2>2. AfterZero(b) = b
    BY <2>1 DEF AfterZero, Fail, Failed
  <2> QED
    BY <1>3, <2>2
<1> QED
  BY <1>1, <1>2, <1>3

\* Between p and q all bits are zero.
ZerosTo(b, p, q) == q \in Nat /\ p <= q
    /\ \A i \in p .. (q - 1) : BitAt(b, i) = 0

\* AfterZeros goes to the next bit that is one, or to the end.
LEMMA AfterZerosIs ==
  ASSUME BitBufferAssumption,
         NEW b, IsBuffer(b)
  PROVE  LET c == AfterZeros(b)
         IN  /\ IsBuffer(c) /\ c.bytes = b.bytes
             /\ ZerosTo(b, Position(b), Position(c))
             /\ Position(c) < Size => BitAt(b, Position(c)) = 1
<1> USE BitSizes
<1> DEFINE n == RemainingBitCount(b)
           p == Position(b)
           V == Moved(b)
           F == [x \in (1 .. n) \X V |-> AfterZero(x[2])]
           G(v) == [i \in 0 .. n |->
                      IF i = 0 THEN b
                      ELSE IF PeekBits(v[i - 1], 1).val = 0
                        THEN ConsumeBits(v[i - 1], 1).buf
                        ELSE v[i - 1]]
           at == CHOOSE v : v = G(v)
<1>1. IsBytes(b) /\ n \in Nat /\ p \in Nat /\ p <= Size /\ n = Size - p
  BY BufferIs
<1>2. \A c : c \in V <=> IsBuffer(c) /\ c.bytes = b.bytes
  BY DEF Moved, IsBuffer
<1>3. b \in V
  BY <1>2
<1>4. \A c \in V : AfterZero(c) \in V
  BY <1>2, AfterZeroIs
<1>5. F \in [(1 .. n) \X V -> V]
  BY <1>4
<1>6. \A i \in 1 .. n, c \in V : F[<<i, c>>] = AfterZero(c)
  OBVIOUS
<1> HIDE DEF F, n, V
<1>7. PICK u : Solves(u, n, V, b, F)
  BY <1>1, <1>3, <1>5, Recursion
<1>8. u = G(u)
  <2>1. ASSUME NEW i \in 1 .. n PROVE u[i] = AfterZero(u[i - 1])
    <3>0. i \in 1 .. n /\ i - 1 \in 0 .. n
      BY <1>1
    <3>2. \A k \in 1 .. n : u[k] = F[<<k, u[k - 1]>>]
      BY <1>7 DEF Solves
    <3>3. \A k \in 0 .. n : u[k] \in V
      BY <1>7 DEF Solves
    <3>1. u[i - 1] \in V /\ u[i] = F[<<i, u[i - 1]>>]
      BY <3>0, <3>2, <3>3
    <3> QED
      BY <1>6, <3>1
  <2> QED
    BY <1>7, <2>1 DEF Solves, AfterZero
<1>9. at = G(at)
  <2> HIDE DEF G
  <2> QED
    BY <1>8
<1>10. AfterZeros(b) = at[n]
  BY DEF AfterZeros, n
<1> HIDE DEF at
<1>11. at[0] = b
  BY <1>1, <1>9
<1>12. ASSUME NEW i \in 1 .. n PROVE at[i] = AfterZero(at[i - 1])
  BY <1>1, <1>9 DEF AfterZero
<1> HIDE DEF G, p
\* After i steps: the bit reached is one, or all i bits were zero.
<1> DEFINE Good == {i \in 0 .. n :
                      /\ at[i] \in V /\ ZerosTo(b, p, Position(at[i]))
                      /\ \/ Position(at[i]) = p + i
                         \/ /\ Position(at[i]) < Size
                            /\ BitAt(b, Position(at[i])) = 1}
<1>13. 0 \in Good
  BY <1>1, <1>3, <1>11 DEF ZerosTo, p
<1>14. ASSUME NEW i \in 1 .. n, i - 1 \in Good PROVE i \in Good
  <2> DEFINE c == at[i - 1]
             d == at[i]
             q == Position(c)
  <2>1. /\ c \in V /\ ZerosTo(b, p, q)
        /\ q = p + (i - 1) \/ (q < Size /\ BitAt(b, q) = 1)
    BY <1>14
  <2>2. /\ IsBuffer(c) /\ IsBytes(c) /\ c.bytes = b.bytes /\ q \in Nat
        /\ q <= Size /\ d = AfterZero(c)
    BY <1>2, <1>12, <2>1, BufferIs
  <2> HIDE DEF c, d
  <2>3. /\ d \in V
        /\ IF q < Size /\ BitAt(c, q) = 0 THEN Position(d) = q + 1 ELSE d = c
    BY <1>2, <2>2, AfterZeroIs
  <2>4. BitAt(c, q) = BitAt(b, q)
    BY <2>2 DEF BitAt
  <2> HIDE DEF q
  <2>5. CASE q < Size /\ BitAt(b, q) = 0
    <3>1. Position(d) = q + 1 /\ q = p + (i - 1)
      BY <2>1, <2>3, <2>4, <2>5
    <3>2. ZerosTo(b, p, q + 1)
      BY <1>1, <2>1, <2>2, <2>5 DEF ZerosTo
    <3>3. q + 1 = p + i
      BY <1>1, <3>1
    <3> QED
      BY <2>3, <3>1, <3>2, <3>3 DEF d
  <2>6. CASE ~(q < Size /\ BitAt(b, q) = 0)
    <3>1. d = c
      BY <2>3, <2>4, <2>6
    <3>2. ASSUME q = p + (i - 1)
          PROVE  q < Size /\ BitAt(b, q) = 1
      <4>1. q < Size /\ q \in 0 .. (Size - 1)
        BY <1>1, <2>2, <3>2
      <4>2. BitAt(b, q) \in {0, 1}
        BY <1>1, <4>1, BitIs
      <4>3. BitAt(b, q) # 0
        BY <2>6, <4>1
      <4> QED
        BY <4>1, <4>2, <4>3
    <3>3. q < Size /\ BitAt(b, q) = 1
      BY <2>1, <3>2
    <3> QED
      BY <2>1, <2>3, <3>1, <3>3 DEF d, q
  <2> QED
    BY <2>5, <2>6
<1> HIDE DEF Good
<1>15. 0 .. n \subseteq Good
  BY <1>1, <1>13, <1>14, UpTo
<1>16. n \in Good
  BY <1>1, <1>15
<1>17. p + n = Size
  BY <1>1
<1> QED
  BY <1>2, <1>10, <1>16, <1>17 DEF Good, p

-----------------------------------------------------------------------------
(* How many bits a number has.                                             *)

\* n bits hold the number, and one bit less does not.
HasBits(val, n) == val < Pow2[n] /\ (n = 0 \/ val >= Pow2[n - 1])

\* A number has one size.
LEMMA OneSize ==
  ASSUME NEW val \in Nat, NEW m \in Nat, NEW n \in Nat,
         HasBits(val, m), HasBits(val, n)
  PROVE  m = n
<1>1. ASSUME NEW i \in Nat, NEW j \in Nat, HasBits(val, i), HasBits(val, j)
      PROVE  ~(i < j)
  <2>1. SUFFICES ASSUME i < j PROVE FALSE
    OBVIOUS
  <2>2. j - 1 \in Nat /\ i <= j - 1 /\ j # 0
    BY <2>1
  <2>3. Pow2[i] <= Pow2[j - 1]
    BY <2>2, PowGrows
  <2>4. val >= Pow2[j - 1] /\ val < Pow2[i]
    BY <1>1, <2>2 DEF HasBits
  <2>5. Pow2[i] \in Nat /\ Pow2[j - 1] \in Nat
    BY <2>2, PowNat
  <2> QED
    BY <2>3, <2>4, <2>5
<1>2. ~(m < n) /\ ~(n < m)
  BY <1>1
<1> QED
  BY <1>2

\* CountBits gives the size of a number that fits in a uint64_t.
LEMMA CountBitsIs ==
  ASSUME BitBufferAssumption,
         NEW val \in Nat, val < Pow2[2 * WordBits]
  PROVE  CountBits(val) \in 0 .. (2 * WordBits) /\ HasBits(val, CountBits(val))
<1> USE BitSizes
<1> DEFINE T == {n \in Nat : val < Pow2[n]}
           w == 2 * WordBits
<1>1. w \in T /\ T \subseteq Nat
  OBVIOUS
<1> HIDE DEF T
<1>2. PICK x \in T : \A y \in T : x <= y
  BY <1>1, LeastElement
<1>3. x \in 0 .. w /\ val < Pow2[x]
  BY <1>1, <1>2 DEF T
<1>4. x = 0 \/ val >= Pow2[x - 1]
  <2>1. CASE x # 0
    <3>1. x - 1 \in Nat /\ ~(x <= x - 1)
      BY <1>3, <2>1
    <3>2. ~(val < Pow2[x - 1])
      BY <1>2, <3>1 DEF T
    <3>3. Pow2[x - 1] \in Nat
      BY <3>1, PowNat
    <3> QED
      BY <3>2, <3>3
  <2> QED
    BY <2>1
<1>5. HasBits(val, x)
  BY <1>3, <1>4 DEF HasBits
<1>6. CountBits(val) = CHOOSE n \in 0 .. w : HasBits(val, n)
  BY DEF CountBits, HasBits
<1> QED
  BY <1>3, <1>5, <1>6

\* A number that fits in a uint32_t.
LEMMA CountBitsOf ==
  ASSUME BitBufferAssumption,
         NEW x \in Nat, x < Pow2[WordBits]
  PROVE  /\ CountBits(x) \in 0 .. WordBits /\ HasBits(x, CountBits(x))
         /\ x # 0 => CountBits(x) # 0
         /\ \A n \in Nat : HasBits(x, n) => CountBits(x) = n
<1> USE BitSizes
<1> DEFINE c == CountBits(x)
           w == 2 * WordBits
<1>1. WordBits \in Nat /\ w \in Nat /\ WordBits <= w
  OBVIOUS
<1> HIDE DEF w
<1>2. /\ Pow2[WordBits] <= Pow2[w]
      /\ Pow2[WordBits] \in Nat /\ Pow2[w] \in Nat
  BY <1>1, PowGrows, PowNat
<1>3. x < Pow2[w]
  BY <1>2
<1>4. c \in 0 .. w /\ HasBits(x, c)
  BY <1>3, CountBitsIs DEF w
<1>5. c \in Nat
  BY <1>1, <1>4
<1> HIDE DEF c
<1>6. \A n \in Nat : HasBits(x, n) => c = n
  BY <1>4, <1>5, OneSize
<1>7. c <= WordBits
  <2>1. CASE c > WordBits
    <3>1. c - 1 \in Nat /\ c # 0 /\ WordBits <= c - 1
      BY <1>5, <2>1
    <3>2. Pow2[WordBits] <= Pow2[c - 1] /\ Pow2[c - 1] \in Nat
      BY <3>1, PowGrows, PowNat
    <3>3. x >= Pow2[c - 1]
      BY <1>4, <3>1 DEF HasBits
    <3> QED
      BY <1>2, <3>2, <3>3
  <2> QED
    BY <1>5, <2>1
<1>8. x # 0 => c # 0
  <2>1. HasBits(x, 0) => x = 0
    BY PowIs DEF HasBits
  <2> QED
    BY <1>4, <2>1
<1> QED
  BY <1>4, <1>5, <1>6, <1>7, <1>8 DEF c

-----------------------------------------------------------------------------
(* The codes: what is read is what is spelled.                             *)

\* The next n bits are there and spell x, which fits in a uint32_t.
Word(b, n, x) ==
  /\ Position(b) + n <= Size
  /\ x < Pow2[WordBits]
  /\ Number(b, Position(b), n) = x

\* The bits of a Golomb word: zeros for all bits but one, then the bits.
GolombLength(x) == 2 * CountBits(x) - 1

\* A Golomb code has its first one bit in its middle.
LEMMA GolombWord ==
  ASSUME BitBufferAssumption,
         NEW b, IsBuffer(b), NEW x \in Nat, x # 0,
         Word(b, GolombLength(x), x)
  PROVE  LET q == Position(AfterZeros(b))
             n == q - Position(b) + 1
         IN  /\ CountBits(x) = n /\ n \in Nat /\ n # 0
             /\ n <= WordBits /\ q + n <= Size /\ Number(b, q, n) = x
<1>sizes. /\ ByteBits \in Nat /\ ByteBits >= 1
          /\ WordBits \in Nat /\ WordBits >= 2 * ByteBits
          /\ ByteCount \in Nat /\ ByteCount >= 1
          /\ Size \in Nat /\ Size = ByteCount * ByteBits
  BY BitSizes
<1> USE <1>sizes
<1> DEFINE p == Position(b)
           q == Position(AfterZeros(b))
           k == CountBits(x)
           m == k - 1
           l == GolombLength(x)
           o == p + m
<1>1. /\ IsBytes(b) /\ p \in Nat /\ p <= Size
      /\ q \in Nat /\ q <= Size /\ p <= q
      /\ \A i \in p .. (q - 1) : BitAt(b, i) = 0
      /\ q < Size => BitAt(b, q) = 1
  BY BufferIs, AfterZerosIs DEF ZerosTo
<1>2. p + l <= Size /\ x < Pow2[WordBits] /\ Number(b, p, l) = x
  BY DEF Word
<1>3. k \in 0 .. WordBits /\ k # 0 /\ HasBits(x, k)
  BY <1>2, CountBitsOf
<1>4. l = m + k /\ m \in Nat /\ k \in Nat /\ o \in Nat /\ o = p + m
          /\ o + k <= Size
  BY <1>1, <1>2, <1>3 DEF GolombLength
<1>5. x < Pow2[k] /\ x >= Pow2[m]
  BY <1>3 DEF HasBits
<1> HIDE DEF p, q, l, k, m, o
<1>6. Number(b, p, m) = 0 /\ Number(b, o, k) = x
  <2>1. Parted(l, m, k) /\ Within(p, l) /\ Parted(o, p, m)
    BY <1>1, <1>2, <1>4 DEF Parted, Within
  <2> DEFINE z == 0
  <2>2. z \in Int /\ Number(b, p, l) = Joined(z, k, x)
    <3>1. Pow2[k] \in Nat
      BY <1>4, PowNat
    <3> QED
      BY <1>2, <3>1 DEF Joined
  <2> HIDE DEF z
  <2>3. Number(b, p, m) = z /\ Number(b, o, k) = x
    <3>1. x \in Int /\ 0 <= x
      OBVIOUS
    <3> QED
      BY <1>1, <1>5, <2>1, <2>2, <3>1, SplitIs
  <2> QED
    BY <2>3 DEF z
<1>7. BitAt(b, o) = 1
  <2>1. /\ BitAt(b, o) = 0 => Number(b, o, k) < Pow2[k - 1]
        /\ BitAt(b, o) \in {0, 1}
    BY <1>1, <1>3, <1>4, FirstBit
  <2>2. Pow2[m] \in Nat /\ m = k - 1
    BY <1>4, PowNat DEF m
  <2> QED
    BY <1>5, <1>6, <2>1, <2>2
<1>8. ~(o < q)
  <2>1. ASSUME o < q PROVE FALSE
    <3>1. o \in p .. (q - 1)
      BY <1>1, <1>4, <2>1
    <3> QED
      BY <1>1, <1>7, <3>1
  <2> QED
    BY <2>1
<1>9. ~(q < o)
  <2>1. ASSUME q < o PROVE FALSE
    <3> DEFINE j == q - p
    <3>1. j \in 0 .. (m - 1) /\ p + j = q /\ p + m <= Size
      BY <1>1, <1>4, <2>1
    <3> HIDE DEF j
    <3>2. BitAt(b, p + j) = 0
      BY <1>1, <1>4, <1>6, <3>1, ZeroBits
    <3>3. BitAt(b, q) = 1
      BY <1>1, <1>4, <2>1
    <3> QED
      BY <3>1, <3>2, <3>3
  <2> QED
    BY <2>1
<1>10. q = o
  BY <1>1, <1>4, <1>8, <1>9
<1>11. q - p + 1 = k
  BY <1>1, <1>4, <1>10 DEF m
<1> QED
  BY <1>3, <1>4, <1>6, <1>10, <1>11 DEF p, q, k

\* The value of a Golomb code is the only one that is spelled.
LEMMA GolombIs ==
  ASSUME BitBufferAssumption,
         NEW b, IsBuffer(b)
  PROVE  LET r == ReadExponentialGolomb(b)
         IN  \/ /\ r.val \in Nat
                /\ Returns(r, b, r.val, Position(b) + GolombLength(r.val + 1))
                /\ Word(b, GolombLength(r.val + 1), r.val + 1)
                /\ \A x \in Nat : x # 0 /\ Word(b, GolombLength(x), x)
                                    => x = r.val + 1
             \/ /\ r = Fail(b)
                /\ \A x \in Nat : x # 0 => ~Word(b, GolombLength(x), x)
<1> USE BitSizes
<1> DEFINE c == AfterZeros(b)
           p == Position(b)
           q == Position(c)
           z == q - p
           n == z + 1
           value == ReadBits(c, n)
           N == Number(b, q, n)
<1>1. /\ IsBytes(b) /\ p \in Nat /\ p <= Size /\ IsBuffer(c) /\ IsBytes(c)
      /\ q \in Nat /\ q <= Size /\ p <= q /\ c.bytes = b.bytes
      /\ \A i \in p .. (q - 1) : BitAt(b, i) = 0
      /\ q < Size => BitAt(b, q) = 1
  BY BufferIs, AfterZerosIs DEF ZerosTo
<1>2. z \in Nat /\ n \in Nat /\ n # 0 /\ p + z = q /\ n - 1 = z
  BY <1>1
<1>3. RemainingBitCount(b) - RemainingBitCount(c) + 1 = n
  <2>1. /\ RemainingBitCount(b) = Size - p /\ RemainingBitCount(c) = Size - q
    BY <1>1, BufferIs
  <2> HIDE DEF p, q
  <2> QED
    BY <1>1, <2>1
<1>4. ReadExponentialGolomb(b)
        = IF n > WordBits \/ ~value.ok
          THEN Fail(Seek(c, b.byte_offset_, b.bit_offset_).buf)
          ELSE Done(value.val - 1, value.buf)
  BY <1>3 DEF ReadExponentialGolomb
<1>5. IF n <= WordBits /\ q + n <= Size
        THEN Returns(value, c, Number(c, q, n), q + n)
        ELSE value = Fail(c)
  <2> HIDE DEF c, n
  <2> QED
    BY <1>1, <1>2, ReadBitsIs
<1>6. CASE n <= WordBits /\ q + n <= Size
  <2>1. value.ok /\ value.val = N /\ IsBuffer(value.buf)
        /\ value.buf.bytes = b.bytes /\ Position(value.buf) = q + n
    <3>1. Number(c, q, n) = N
      <4> HIDE DEF c, q, n
      <4> QED
        BY <1>1, <1>2, <1>6, SameNumber
    <3> QED
      BY <1>1, <1>5, <1>6, <3>1 DEF Returns
  <2>2. ReadExponentialGolomb(b) = Done(N - 1, value.buf)
    BY <1>2, <1>4, <1>6, <2>1
  <2> HIDE DEF value
  <2>3. q < Size /\ BitAt(b, q) = 1
    BY <1>1, <1>2, <1>6
  <2>4. N \in Nat /\ N < Pow2[n] /\ N >= Pow2[z]
    <3>1. /\ N \in Nat /\ N < Pow2[n]
          /\ BitAt(b, q) = 1 => N >= Pow2[n - 1]
      <4> HIDE DEF q, n
      <4> QED
        BY <1>1, <1>2, <1>6, NumberBounds, FirstBit
    <3> QED
      BY <1>2, <2>3, <3>1
  <2>5. Pow2[z] \in Nat /\ Pow2[z] >= 1 /\ Pow2[n] \in Nat
        /\ Pow2[WordBits] \in Nat /\ Pow2[n] <= Pow2[WordBits]
    <3> HIDE DEF n, z
    <3> QED
      BY <1>2, <1>6, PowNat, PowGrows
  <2>6. N # 0 /\ N < Pow2[WordBits] /\ HasBits(N, n)
    <3> HIDE DEF N, n, z
    <3> QED
      BY <1>2, <2>4, <2>5 DEF HasBits
  <2>7. CountBits(N) = n
    <3> HIDE DEF N, n
    <3> QED
      BY <1>2, <2>4, <2>6, CountBitsOf
  <2>8. Number(b, p, z + n) = N
    <3>1. Number(b, p, z) = 0
      <4>1. p + z <= Size /\ \A i \in p .. (p + z - 1) : BitAt(b, i) = 0
        BY <1>1, <1>2
      <4> HIDE DEF p, z
      <4> QED
        BY <1>1, <1>2, <4>1, ZerosSpell
    <3>2. Number(b, p, z + n) = Number(b, p, z) * Pow2[n] + Number(b, p + z, n)
      <4>1. p \in Nat /\ z \in Nat /\ n \in Nat /\ p + z + n <= Size
        BY <1>1, <1>2, <1>6
      <4> HIDE DEF p, z, n
      <4> QED
        BY <1>1, <4>1, NumberSplits
    <3> HIDE DEF p, q, z, n
    <3> QED
      BY <1>2, <2>4, <2>5, <3>1, <3>2
  <2>9. GolombLength(N) = z + n
    BY <1>2, <2>7 DEF GolombLength
  <2> DEFINE l == GolombLength(N)
  <2>15. p + l <= Size /\ p + l = q + n
    BY <1>1, <1>2, <1>6, <2>9
  <2>10. Word(b, GolombLength(N), N)
    <3>1. Number(b, p, l) = N
      BY <2>8, <2>9
    <3> HIDE DEF N
    <3> QED
      BY <2>6, <2>15, <3>1 DEF Word
  <2>11. ASSUME NEW x \in Nat, x # 0, Word(b, GolombLength(x), x)
         PROVE  x = N
    <3>1. Number(b, q, n) = x
      BY <2>11, GolombWord
    <3> QED
      BY <3>1
  <2> DEFINE r == ReadExponentialGolomb(b)
  <2>12. r.val + 1 = N /\ r.val \in Nat
    <3>1. r.val = N - 1
      BY <2>2 DEF Done
    <3> HIDE DEF N, r
    <3> QED
      BY <2>4, <2>6, <3>1
  <2>13. Position(value.buf) = p + GolombLength(N)
    BY <2>1, <2>15
  <2> HIDE DEF N
  <2>14. Returns(r, b, r.val, p + GolombLength(N))
    BY <2>1, <2>2, <2>13 DEF Done, Returns
  <2> HIDE DEF r, p
  <2> QED
    BY <2>10, <2>11, <2>12, <2>14 DEF r, p
<1>7. CASE ~(n <= WordBits /\ q + n <= Size)
  <2>1. value = Fail(c)
    BY <1>5, <1>7
  <2>2. ReadExponentialGolomb(b)
          = Fail(Seek(c, b.byte_offset_, b.bit_offset_).buf)
    BY <1>4, <2>1 DEF Fail
  <2>3. Seek(c, b.byte_offset_, b.bit_offset_).buf = b
    <3> DEFINE d == Seek(c, b.byte_offset_, b.bit_offset_).buf
    <3>1. IsBuffer(d) /\ d.bytes = b.bytes /\ Position(d) = Position(b)
      BY <1>1, SeekIs
    <3> HIDE DEF d
    <3>2. d = b
      BY <3>1, SameCursor
    <3> QED
      BY <3>2 DEF d
  <2>4. ASSUME NEW x \in Nat, x # 0, Word(b, GolombLength(x), x)
        PROVE  FALSE
    <3>1. n <= WordBits /\ q + n <= Size
      BY <2>4, GolombWord
    <3> QED
      BY <1>7, <3>1
  <2> QED
    BY <2>2, <2>3, <2>4
<1> QED
  BY <1>6, <1>7

\* What a read promises, and where it leaves the cursor.
Answers(b, code, r) ==
  /\ IsBuffer(r.buf)
  /\ IF r.ok
       THEN /\ Spelled(b, code) = {r.val}
            /\ r.buf.bytes = b.bytes
            /\ Position(r.buf) = Position(b) + CodeLength(code, r.val)
       ELSE /\ Spelled(b, code) = {}
            /\ code[1] # "nonsymmetric" => r.buf = b

\* The word of a value comes next.
NextIs(b, code, v) == Word(b, CodeLength(code, v), CodeWord(code, v))

\* A read that returns the only value whose word comes next.
LEMMA AnswersValue ==
  ASSUME NEW b, NEW code, NEW r, NEW v \in Values(code),
         Returns(r, b, v, Position(b) + CodeLength(code, v)),
         NextIs(b, code, v),
         \A x \in Values(code) : NextIs(b, code, x) => x = v
  PROVE  Answers(b, code, r)
<1>1. Spelled(b, code) = {v}
  BY DEF Spelled, NextIs, Word
<1> QED
  BY <1>1 DEF Answers, Returns

\* A read that fails where no word comes next.
LEMMA AnswersNone ==
  ASSUME NEW b, NEW code, NEW r, ~r.ok, IsBuffer(r.buf),
         code[1] # "nonsymmetric" => r.buf = b,
         \A x \in Values(code) : ~NextIs(b, code, x)
  PROVE  Answers(b, code, r)
<1>1. Spelled(b, code) = {}
  BY DEF Spelled, NextIs, Word
<1> QED
  BY <1>1 DEF Answers

\* The codes there are.
LEMMA CodesAre ==
  ASSUME BitBufferAssumption,
         NEW code \in Codes
  PROVE  \/ \E w \in 1 .. WordBits : code = <<"bits", w>>
         \/ \E n \in NumValues : code = <<"nonsymmetric", n>>
         \/ code = <<"golomb", 0>>
         \/ code = <<"signed", 0>>
<1>1. ByteBits \in 1 .. WordBits /\ 2 * ByteBits \in 1 .. WordBits
      /\ WordBits \in 1 .. WordBits
  BY BitSizes
<1>2. Widths \subseteq 1 .. WordBits
  BY <1>1 DEF Widths, UIntWidths
<1> QED
  BY <1>2 DEF Codes

\* What the code of a fixed width stands for.
LEMMA BitsCode ==
  ASSUME NEW w, NEW b, NEW v
  PROVE  LET code == <<"bits", w>>
         IN  /\ Values(code) = 0 .. (Pow2[w] - 1)
             /\ Read(b, code) = ReadBits(b, w)
             /\ Write(b, code, v) = WriteBits(b, v, w)
             /\ CodeLength(code, v) = w /\ CodeWord(code, v) = v
BY DEF Values, Read, Write, CodeLength, CodeWord

\* What a non symmetric code stands for.
LEMMA NonSymmetricCode ==
  ASSUME NEW n, NEW b, NEW v
  PROVE  LET code == <<"nonsymmetric", n>>
         IN  /\ Values(code) = 0 .. (n - 1)
             /\ Read(b, code) = ReadNonSymmetric(b, n)
             /\ Write(b, code, v) = WriteNonSymmetric(b, v, n)
             /\ CodeLength(code, v)
                  = IF v < Pow2[CountBits(n)] - n THEN CountBits(n) - 1
                    ELSE CountBits(n)
             /\ CodeWord(code, v)
                  = IF v < Pow2[CountBits(n)] - n THEN v
                    ELSE v + Pow2[CountBits(n)] - n
BY DEF Values, Read, Write, CodeLength, CodeWord

\* What the exponential Golomb code stands for.
LEMMA GolombCode ==
  ASSUME NEW b, NEW v
  PROVE  LET code == <<"golomb", 0>>
         IN  /\ Values(code) = 0 .. UInt32Max
             /\ Read(b, code) = ReadExponentialGolomb(b)
             /\ Write(b, code, v) = WriteExponentialGolomb(b, v)
             /\ CodeLength(code, v) = GolombLength(v + 1)
             /\ CodeWord(code, v) = v + 1
             /\ code[1] # "nonsymmetric"
BY DEF Values, Read, Write, CodeLength, CodeWord, GolombLength

\* The word of a signed Golomb value.
SignedWord(v) == IF v > 0 THEN 2 * v ELSE 1 - 2 * v

\* What the signed exponential Golomb code stands for.
LEMMA SignedCode ==
  ASSUME NEW b, NEW v
  PROVE  LET code == <<"signed", 0>>
         IN  /\ Values(code) = Int32Min .. (-Int32Min - 1)
             /\ Read(b, code) = ReadSignedExponentialGolomb(b)
             /\ Write(b, code, v) = WriteSignedExponentialGolomb(b, v)
             /\ CodeLength(code, v) = GolombLength(SignedWord(v))
             /\ CodeWord(code, v) = SignedWord(v)
             /\ code[1] # "nonsymmetric"
BY DEF Values, Read, Write, CodeLength, CodeWord, GolombLength, SignedWord

\* Reading a fixed width answers for every number of that width.
LEMMA BitsAnswer ==
  ASSUME BitBufferAssumption,
         NEW b, IsBuffer(b), NEW w \in 1 .. WordBits
  PROVE  Answers(b, <<"bits", w>>, Read(b, <<"bits", w>>))
<1> DEFINE code == <<"bits", w>>
           r == Read(b, code)
           p == Position(b)
           N == Number(b, p, w)
<1>1. /\ w \in Nat /\ w # 0 /\ w <= WordBits /\ p \in Nat
      /\ IsBytes(b) /\ WordBits \in Nat
  BY BitSizes, BufferIs
<1>2. /\ Values(code) = 0 .. (Pow2[w] - 1) /\ r = ReadBits(b, w)
      /\ \A v : NextIs(b, code, v) <=> Word(b, w, v)
  BY BitsCode DEF NextIs
<1>3. code[1] # "nonsymmetric"
  OBVIOUS
<1> HIDE DEF code
<1>4. IF w <= WordBits /\ p + w <= Size
        THEN Returns(r, b, N, p + w) ELSE r = Fail(b)
  BY <1>1, <1>2, ReadBitsIs
<1>5. CASE p + w <= Size
  <2>1. N \in Nat /\ N < Pow2[w] /\ Pow2[w] \in Nat
    <3> HIDE DEF p
    <3> QED
      BY <1>1, <1>5, NumberBounds, PowNat
  <2>2. Pow2[w] <= Pow2[WordBits] /\ Pow2[WordBits] \in Nat
    BY <1>1, PowGrows, PowNat
  <2>3. Word(b, w, N)
    BY <1>5, <2>1, <2>2 DEF Word
  <2>4. \A v : Word(b, w, v) => v = N
    BY DEF Word
  <2>5. N \in Values(code)
    BY <1>2, <2>1
  <2>6. CodeLength(code, N) = w
    BY BitsCode DEF code
  <2> HIDE DEF r, N
  <2> QED
    BY <1>1, <1>2, <1>4, <1>5, <2>3, <2>4, <2>5, <2>6, AnswersValue DEF r, code
<1>6. CASE ~(p + w <= Size)
  <2>1. r = Fail(b)
    BY <1>4, <1>6
  <2>2. \A v : ~NextIs(b, code, v)
    BY <1>2, <1>6 DEF Word
  <2> HIDE DEF r
  <2>3. ~r.ok /\ r.buf = b
    BY <2>1 DEF Fail
  <2>4. Answers(b, code, r)
    BY <2>2, <2>3, AnswersNone
  <2> QED
    BY <2>4 DEF r, code
<1> QED
  BY <1>5, <1>6

\* Reading a Golomb code answers with the number after its zeros.
LEMMA GolombAnswers ==
  ASSUME BitBufferAssumption,
         NEW b, IsBuffer(b)
  PROVE  Answers(b, <<"golomb", 0>>, Read(b, <<"golomb", 0>>))
<1> DEFINE code == <<"golomb", 0>>
           r == Read(b, code)
<1>1. /\ Values(code) = 0 .. UInt32Max /\ r = ReadExponentialGolomb(b)
      /\ \A v : NextIs(b, code, v) <=> Word(b, GolombLength(v + 1), v + 1)
      /\ \A v : CodeLength(code, v) = GolombLength(v + 1)
      /\ code[1] # "nonsymmetric"
  BY GolombCode DEF NextIs
<1>2. Pow2[WordBits] \in Nat
  BY BitSizes, PowNat
<1> HIDE DEF code, r
<1>3. CASE /\ r.val \in Nat
           /\ Returns(r, b, r.val, Position(b) + GolombLength(r.val + 1))
           /\ Word(b, GolombLength(r.val + 1), r.val + 1)
           /\ \A x \in Nat : x # 0 /\ Word(b, GolombLength(x), x)
                               => x = r.val + 1
  <2>1. r.val \in Values(code)
    BY <1>1, <1>2, <1>3 DEF Word, UInt32Max
  <2>2. ASSUME NEW v \in Values(code), NextIs(b, code, v) PROVE v = r.val
    <3>1. v \in Nat /\ v + 1 \in Nat /\ v + 1 # 0
      BY <1>1, <1>2 DEF UInt32Max
    <3>2. v + 1 = r.val + 1
      BY <1>1, <1>3, <2>2, <3>1
    <3> QED
      BY <1>3, <3>1, <3>2
  <2>3. NextIs(b, code, r.val)
    BY <1>1, <1>3
  <2>4. Returns(r, b, r.val, Position(b) + CodeLength(code, r.val))
    BY <1>1, <1>3
  <2>5. Answers(b, code, r)
    BY <2>1, <2>2, <2>3, <2>4, AnswersValue
  <2> QED
    BY <2>5 DEF code, r
<1>4. CASE r = Fail(b) /\ \A x \in Nat : x # 0 => ~Word(b, GolombLength(x), x)
  <2>1. ASSUME NEW v \in Values(code) PROVE ~NextIs(b, code, v)
    <3>1. v + 1 \in Nat /\ v + 1 # 0
      BY <1>1, <1>2 DEF UInt32Max
    <3> QED
      BY <1>1, <1>4, <3>1
  <2>2. ~r.ok /\ r.buf = b
    BY <1>4 DEF Fail
  <2>3. Answers(b, code, r)
    BY <2>1, <2>2, AnswersNone
  <2> QED
    BY <2>3 DEF code, r
<1> QED
  BY <1>1, <1>3, <1>4, GolombIs

\* The sizes of the signed values: half of those of a uint32_t.
LEMMA SignedSizes ==
  ASSUME BitBufferAssumption
  PROVE  LET H == Pow2[WordBits - 1]
         IN  /\ H \in Nat /\ H >= 2 /\ Pow2[WordBits] = 2 * H /\ Int32Min = -H
             /\ UInt32Max = 2 * H - 1
<1>1. WordBits \in Nat /\ WordBits # 0 /\ WordBits - 1 \in Nat
      /\ WordBits - 1 # 0 /\ WordBits - 1 - 1 \in Nat
  BY BitSizes
<1>2. /\ Pow2[WordBits] = 2 * Pow2[WordBits - 1]
      /\ Pow2[WordBits - 1] = 2 * Pow2[WordBits - 1 - 1]
  BY <1>1, PowIs
<1>3. /\ Pow2[WordBits - 1] \in Nat
      /\ Pow2[WordBits - 1 - 1] \in Nat /\ Pow2[WordBits - 1 - 1] >= 1
  BY <1>1, PowNat
<1> QED
  BY <1>2, <1>3 DEF Int32Min, UInt32Max

\* The signed value that a word stands for.
SignedOf(x) ==
  IF (x - 1) % 2 = 0 THEN -((x - 1) \div 2) ELSE UInt32(x) \div 2

\* Signed values and the words that are not zero are one to one.
LEMMA SignedWordIs ==
  ASSUME BitBufferAssumption
  PROVE  /\ \A v \in Int : SignedWord(v) \in Nat /\ SignedWord(v) # 0
         /\ \A v, w \in Int : SignedWord(v) = SignedWord(w) => v = w
         /\ \A x \in Nat : x # 0 /\ x < Pow2[WordBits] =>
              /\ SignedOf(x) \in Int32Min .. (-Int32Min - 1)
              /\ SignedWord(SignedOf(x)) = x
<1>1. \A v \in Int : SignedWord(v) \in Nat /\ SignedWord(v) # 0
  BY DEF SignedWord
<1>2. \A v, w \in Int : SignedWord(v) = SignedWord(w) => v = w
  BY DEF SignedWord
<1> DEFINE H == Pow2[WordBits - 1]
<1>3. /\ H \in Nat /\ H >= 2 /\ Pow2[WordBits] = 2 * H /\ Int32Min = -H
  BY SignedSizes
<1> HIDE DEF H
<1>4. ASSUME NEW x \in Nat, x # 0, x < Pow2[WordBits]
      PROVE  /\ SignedOf(x) \in Int32Min .. (-Int32Min - 1)
             /\ SignedWord(SignedOf(x)) = x
  <2> DEFINE P == Pow2[WordBits]
  <2>1. P \in Nat \ {0} /\ x \in 0 .. (P - 1)
    BY <1>3, <1>4
  <2> HIDE DEF P
  <2>2. x % P = x
    BY <2>1, ModOf
  <2>3. UInt32(x) = x
    BY <2>2 DEF UInt32, P
  <2>4. x < 2 * H
    BY <1>3, <1>4
  <2>5. CASE (x - 1) % 2 = 0
    <3>1. SignedOf(x) = -((x - 1) \div 2)
      BY <2>5 DEF SignedOf
    <3>2. PICK k \in Nat : x - 1 = 2 * k
      <4>1. x - 1 \in Nat
        BY <1>4
      <4>2. x - 1 = 2 * ((x - 1) \div 2) /\ (x - 1) \div 2 \in Nat
        BY <2>5, <4>1
      <4> QED
        BY <4>2
    <3>3. SignedOf(x) = -k
      BY <3>1, <3>2
    <3>4. k < H
      BY <1>3, <2>4, <3>2
    <3> QED
      BY <1>3, <3>2, <3>3, <3>4 DEF SignedWord
  <2>6. CASE ~((x - 1) % 2 = 0)
    <3>1. SignedOf(x) = x \div 2
      BY <2>3, <2>6 DEF SignedOf
    <3>2. PICK k \in Nat : x = 2 * k /\ k # 0
      BY <1>4, <2>6
    <3>3. SignedOf(x) = k
      BY <3>1, <3>2
    <3>4. k < H
      BY <1>3, <2>4, <3>2
    <3> QED
      BY <1>3, <3>2, <3>3, <3>4 DEF SignedWord
  <2> QED
    BY <2>5, <2>6
<1> QED
  BY <1>1, <1>2, <1>4

\* Reading a signed Golomb code answers with the value of its word.
LEMMA SignedAnswers ==
  ASSUME BitBufferAssumption,
         NEW b, IsBuffer(b)
  PROVE  Answers(b, <<"signed", 0>>, Read(b, <<"signed", 0>>))
<1> DEFINE code == <<"signed", 0>>
           r == Read(b, code)
           u == ReadExponentialGolomb(b)
           x == u.val + 1
           v == SignedOf(x)
<1>1. /\ Values(code) = Int32Min .. (-Int32Min - 1)
      /\ r = ReadSignedExponentialGolomb(b)
      /\ \A w : NextIs(b, code, w)
                  <=> Word(b, GolombLength(SignedWord(w)), SignedWord(w))
      /\ \A w : CodeLength(code, w) = GolombLength(SignedWord(w))
      /\ code[1] # "nonsymmetric"
  BY SignedCode DEF NextIs
<1>2. Values(code) \subseteq Int
  <2>1. Int32Min \in Int
    BY SignedSizes
  <2> QED
    BY <1>1, <2>1
<1> HIDE DEF code, r, u
<1>3. CASE /\ u.val \in Nat
           /\ Returns(u, b, u.val, Position(b) + GolombLength(u.val + 1))
           /\ Word(b, GolombLength(u.val + 1), u.val + 1)
           /\ \A y \in Nat : y # 0 /\ Word(b, GolombLength(y), y)
                               => y = u.val + 1
  <2>1. x \in Nat /\ x # 0 /\ x < Pow2[WordBits] /\ x - 1 = u.val
    BY <1>3 DEF Word
  <2>2. /\ v \in Int32Min .. (-Int32Min - 1) /\ SignedWord(v) = x
    <3> HIDE DEF x
    <3> QED
      BY <2>1, SignedWordIs
  <2>3. r = Done(v, u.buf)
    BY <1>1, <1>3, <2>1 DEF ReadSignedExponentialGolomb, Returns, SignedOf, u
  <2> HIDE DEF v, x
  <2>4. r.val = v /\ r.ok /\ r.buf = u.buf
    BY <2>3 DEF Done
  <2>5. Returns(r, b, v, Position(b) + CodeLength(code, v))
    <3>1. CodeLength(code, v) = GolombLength(x)
      BY <1>1, <2>2
    <3> QED
      BY <1>3, <2>4, <3>1 DEF Returns, x
  <2>6. v \in Values(code) /\ NextIs(b, code, v)
    BY <1>1, <1>3, <2>2 DEF x
  <2>7. ASSUME NEW w \in Values(code), NextIs(b, code, w) PROVE w = v
    <3>1. /\ w \in Int /\ v \in Int
          /\ SignedWord(w) \in Nat /\ SignedWord(w) # 0
      BY <1>2, <2>6, SignedWordIs
    <3>2. SignedWord(w) = x
      BY <1>1, <1>3, <2>7, <3>1 DEF x
    <3> QED
      BY <2>2, <3>1, <3>2, SignedWordIs
  <2>8. Answers(b, code, r)
    BY <2>5, <2>6, <2>7, AnswersValue
  <2> QED
    BY <2>8 DEF code, r
<1>4. CASE u = Fail(b) /\ \A y \in Nat : y # 0 => ~Word(b, GolombLength(y), y)
  <2>1. r = u
    BY <1>1, <1>4 DEF ReadSignedExponentialGolomb, Fail, u
  <2>2. ASSUME NEW w \in Values(code) PROVE ~NextIs(b, code, w)
    <3>1. SignedWord(w) \in Nat /\ SignedWord(w) # 0
      BY <1>2, SignedWordIs
    <3> QED
      BY <1>1, <1>4, <3>1
  <2>3. ~r.ok /\ r.buf = b
    BY <1>4, <2>1 DEF Fail
  <2>4. Answers(b, code, r)
    BY <2>2, <2>3, AnswersNone
  <2> QED
    BY <2>4 DEF code, r
<1> QED
  BY <1>3, <1>4, GolombIs DEF u

\* The sizes of the two codes of a non symmetric value.
LEMMA NonSymmetricSizes ==
  ASSUME BitBufferAssumption,
         NEW num \in NumValues
  PROVE  LET c == CountBits(num)
             H == Pow2[c - 1]
             m == Pow2[c] - num
         IN  /\ num \in Nat /\ num >= 2 /\ c \in 2 .. WordBits
             /\ H \in Nat /\ Pow2[c] = 2 * H /\ H <= num /\ num < 2 * H
             /\ m \in 1 .. H /\ 2 * H <= Pow2[WordBits]
             /\ Pow2[WordBits] \in Nat
<1>sizes. /\ ByteBits \in Nat /\ ByteBits >= 1
          /\ WordBits \in Nat /\ WordBits >= 2 * ByteBits
          /\ ByteCount \in Nat /\ ByteCount >= 1
          /\ Size \in Nat /\ Size = ByteCount * ByteBits
  BY BitSizes
<1> USE <1>sizes
<1> DEFINE c == CountBits(num)
           W == Pow2[WordBits - 1]
<1>1. W \in Nat /\ Pow2[WordBits] = 2 * W /\ W >= 2
  BY SignedSizes
<1>2. num \in Nat /\ num >= 2 /\ num <= W
  BY <1>1 DEF BitBufferAssumption
<1> HIDE DEF W
<1>3. num < Pow2[WordBits]
  BY <1>1, <1>2
<1>4. /\ c \in 0 .. WordBits /\ HasBits(num, c) /\ c # 0
  BY <1>2, <1>3, CountBitsOf
<1> HIDE DEF c
<1>5. c # 1
  <2>1. Pow2[0] = 1 /\ Pow2[1] = 2 * Pow2[1 - 1]
    BY PowIs
  <2>2. HasBits(num, 1) => num < 2
    BY <2>1 DEF HasBits
  <2> QED
    BY <1>2, <1>4, <2>2
<1>6. c \in Nat /\ c - 1 \in Nat /\ c <= WordBits
  BY <1>4
<1>7. Pow2[c - 1] \in Nat /\ Pow2[c] = 2 * Pow2[c - 1]
  BY <1>4, <1>6, PowIs, PowNat
<1>8. Pow2[c] <= Pow2[WordBits]
  BY <1>6, PowGrows
<1>9. num < Pow2[c] /\ num >= Pow2[c - 1]
  BY <1>4 DEF HasBits
<1> QED
  BY <1>1, <1>2, <1>4, <1>5, <1>7, <1>8, <1>9 DEF c

\* A number that is no more than its divisor below zero.
LEMMA ModBelow ==
  ASSUME NEW n \in Nat \ {0}, NEW x \in Int, x + n >= 0, x < 0
  PROVE  x % n = x + n
<1>1. x = n * (-1) + (x + n) /\ x + n \in 0 .. (n - 1)
  OBVIOUS
<1> QED
  BY <1>1, DivisionIs

\* The limit of the short words, or one that is as good: with as many values
\* as a word can count all words are short, whatever the shift gives.
LEMMA MinBitsValues ==
  ASSUME BitBufferAssumption,
         NEW num \in NumValues
  PROVE  LET c == CountBits(num)
             H == Pow2[c - 1]
             m == Pow2[c] - num
             k == NumMinBitsValues(num)
         IN  k = m \/ (num = H /\ m = H /\ k \in Int /\ k >= H)
<1> USE BitSizes
<1> DEFINE c == CountBits(num)
           H == Pow2[c - 1]
           m == Pow2[c] - num
           k == NumMinBitsValues(num)
           P == Pow2[WordBits]
<1>1. /\ num \in Nat /\ num >= 2 /\ c \in 2 .. WordBits
      /\ H \in Nat /\ Pow2[c] = 2 * H /\ H <= num /\ num < 2 * H
      /\ m \in 1 .. H /\ 2 * H <= P /\ P \in Nat
  BY NonSymmetricSizes
<1>2. k = ((IF c < WordBits THEN Pow2[c] ELSE Overshift) - num) % P
  BY DEF NumMinBitsValues, UInt32
<1>3. num <= Pow2[WordBits - 1] /\ Overshift \in {0, 1}
  BY DEF BitBufferAssumption
<1>4. P \in Nat \ {0} /\ m = Pow2[c] - num /\ H = Pow2[c - 1]
      /\ P = Pow2[WordBits]
  BY <1>1
<1> HIDE DEF k, m, H, P, c
<1>5. ASSUME c < WordBits PROVE k = m
  <2>1. m \in 0 .. (P - 1)
    BY <1>1
  <2>2. k = m % P
    BY <1>2, <1>4, <1>5
  <2>3. m % P = m
    BY <1>4, <2>1, ModOf
  <2> QED
    BY <2>2, <2>3
<1>6. ASSUME ~(c < WordBits)
      PROVE  num = H /\ m = H /\ k \in Int /\ k >= H
  <2>1. c = WordBits
    BY <1>1, <1>6
  <2>2. H = Pow2[WordBits - 1] /\ P = 2 * H
    BY <1>1, <1>4, <2>1
  <2>3. num = H /\ m = H
    BY <1>1, <1>3, <1>4, <2>2
  <2> DEFINE x == Overshift - num
  <2>4. x \in Int /\ x + P >= 0 /\ x < 0 /\ x + P >= H /\ x + P \in Int
    <3>1. H \in Nat /\ H >= 2
      BY <1>1, <2>3
    <3>2. Overshift \in 0 .. 1 /\ x = Overshift - H
      BY <1>3, <2>3
    <3>3. P = 2 * H
      BY <2>2
    <3> HIDE DEF x
    <3>4. x \in Int /\ x < 0
      BY <3>1, <3>2
    <3>5. x + P = Overshift + H
      BY <3>1, <3>2, <3>3
    <3>6. Overshift + H \in Int /\ Overshift + H >= H
      BY <3>1, <3>2
    <3> QED
      BY <3>1, <3>4, <3>5, <3>6
  <2>5. k = x % P
    BY <1>2, <1>6
  <2> HIDE DEF x
  <2>7. x % P = x + P
    BY <1>4, <2>4, ModBelow
  <2>6. k = x + P
    BY <2>5, <2>7
  <2> QED
    BY <2>3, <2>4, <2>6
<1>7. k = m \/ (num = H /\ m = H /\ k \in Int /\ k >= H)
  BY <1>5, <1>6
<1> QED
  BY <1>7 DEF k, m, H, c

\* Reading a non symmetric code answers with its short or long word.
LEMMA NonSymmetricAnswers ==
  ASSUME BitBufferAssumption,
         NEW b, IsBuffer(b), NEW num \in NumValues
  PROVE  LET code == <<"nonsymmetric", num>>
         IN  Answers(b, code, Read(b, code))
<1> USE BitSizes
<1> DEFINE code == <<"nonsymmetric", num>>
           r == Read(b, code)
           c == CountBits(num)
           H == Pow2[c - 1]
           m == Pow2[c] - num
           p == Position(b)
           n == c - 1
           short == ReadBits(b, n)
           extra == ReadBits(short.buf, 1)
           s == Number(b, p, n)
           T == Number(b, p, c)
<1>1. /\ num \in Nat /\ num >= 2 /\ c \in 2 .. WordBits
      /\ H \in Nat /\ Pow2[c] = 2 * H /\ H <= num /\ num < 2 * H
      /\ m \in 1 .. H /\ 2 * H <= Pow2[WordBits] /\ Pow2[WordBits] \in Nat
  BY NonSymmetricSizes
<1>2. /\ Values(code) = 0 .. (num - 1) /\ r = ReadNonSymmetric(b, num)
      /\ \A v : CodeLength(code, v) = IF v < m THEN n ELSE c
      /\ \A v : CodeWord(code, v) = IF v < m THEN v ELSE v + Pow2[c] - num
  BY NonSymmetricCode
<1>3. /\ n \in Nat /\ n # 0 /\ n <= WordBits /\ c \in Nat /\ c # 0 /\ c = n + 1
      /\ IsBytes(b) /\ p \in Nat /\ p <= Size
  BY <1>1, BufferIs
<1>4. ASSUME NEW v \in Values(code)
      PROVE  /\ v \in Nat
             /\ v < m => (NextIs(b, code, v) <=> Word(b, n, v))
             /\ v >= m => (NextIs(b, code, v) <=> Word(b, c, v + m))
  <2>1. v \in Nat
    BY <1>1, <1>2
  <2>2. v + Pow2[c] - num = v + m
    BY <1>1, <2>1
  <2>3. m \in Nat
    BY <1>1
  <2> HIDE DEF m, n, c, code
  <2> QED
    BY <1>2, <2>1, <2>2, <2>3 DEF NextIs
<1>6. IF p + n <= Size THEN Returns(short, b, s, p + n)
                       ELSE short = Fail(b)
  <2> HIDE DEF n
  <2> QED
    BY <1>3, ReadBitsIs
<1>5. r = IF ~short.ok \/ short.val < m THEN short
          ELSE IF ~extra.ok THEN extra
          ELSE Done(UInt32(short.val * 2 + extra.val - m), extra.buf)
  <2> DEFINE k == NumMinBitsValues(num)
  <2>1. r = IF ~short.ok \/ short.val < k THEN short
            ELSE IF ~extra.ok THEN extra
            ELSE Done(UInt32(short.val * 2 + extra.val - k), extra.buf)
    BY <1>2 DEF ReadNonSymmetric
  <2>2. k = m \/ (num = H /\ m = H /\ k \in Int /\ k >= H)
    BY MinBitsValues
  <2>3. ASSUME short.ok PROVE short.val \in Nat /\ short.val < H
    <3>1. p + n <= Size
      BY <1>6, <2>3 DEF Fail
    <3>2. short.val = s
      BY <1>6, <3>1 DEF Returns
    <3> QED
      BY <1>3, <3>1, <3>2, NumberBounds
  <2> HIDE DEF k, m, H, short, extra, r
  <2>4. CASE k = m
    BY <2>1, <2>4
  <2>5. CASE m = H /\ k \in Int /\ k >= H /\ short.ok
    <3>1. short.val < m /\ short.val < k
      BY <1>1, <2>3, <2>5
    <3> QED
      BY <2>1, <3>1
  <2>6. CASE ~short.ok
    BY <2>1, <2>6
  <2> QED
    BY <2>2, <2>4, <2>5, <2>6
<1> HIDE DEF code, r, m, c, n, p
<1>7. CASE ~(p + n <= Size)
  <2>1. r = Fail(b)
    BY <1>5, <1>6, <1>7 DEF Fail
  <2>2. ASSUME NEW v \in Values(code) PROVE ~NextIs(b, code, v)
    <3>1. ~(p + c <= Size)
      BY <1>3, <1>7
    <3>2. ~Word(b, n, v) /\ ~Word(b, c, v + m)
      BY <1>7, <3>1 DEF Word, p
    <3>3. v < m \/ v >= m
      BY <1>1, <1>4
    <3> QED
      BY <1>4, <3>2, <3>3
  <2>3. ~r.ok /\ r.buf = b
    BY <2>1 DEF Fail
  <2>4. Answers(b, code, r)
    BY <2>2, <2>3, AnswersNone
  <2> QED
    BY <2>4 DEF code, r
<1>8. CASE p + n <= Size
  <2>1. /\ short.ok /\ short.val = s /\ IsBuffer(short.buf)
        /\ short.buf.bytes = b.bytes /\ Position(short.buf) = p + n
    BY <1>6, <1>8 DEF Returns
  <2>2. s \in Nat /\ s < H
    BY <1>3, <1>8, NumberBounds DEF n
  <2>3. ASSUME p + c <= Size
        PROVE  /\ T = 2 * s + BitAt(b, p + n) /\ BitAt(b, p + n) \in {0, 1}
               /\ T \in Nat /\ T < 2 * H
    <3>1. c - 1 = n /\ p + c - 1 = p + n
      BY <1>3
    <3>2. /\ T = 2 * Number(b, p, c - 1) + BitAt(b, p + c - 1)
          /\ BitAt(b, p + c - 1) \in {0, 1}
      BY <1>3, <2>3, NumberIs
    <3>3. T \in Nat /\ T < Pow2[c]
      BY <1>3, <2>3, NumberBounds
    <3> QED
      BY <1>1, <3>1, <3>2, <3>3
  <2> HIDE DEF short, extra, s, T, H
  <2>4. CASE s < m
    <3>1. r = short
      BY <1>5, <2>1, <2>4
    <3>2. s \in Values(code)
      BY <1>1, <1>2, <2>2
    <3>3. Word(b, n, s)
      BY <1>1, <1>8, <2>2 DEF Word, s, p
    <3>4. NextIs(b, code, s)
      BY <1>4, <2>4, <3>2, <3>3
    <3>5. Returns(r, b, s, Position(b) + CodeLength(code, s))
      BY <1>2, <2>1, <2>4, <3>1 DEF Returns, p
    <3>6. ASSUME NEW v \in Values(code), NextIs(b, code, v) PROVE v = s
      <4>1. CASE v < m
        BY <1>4, <3>6, <4>1 DEF Word, s, p
      <4>2. CASE v >= m
        <5>1. Word(b, c, v + m)
          BY <1>4, <3>6, <4>2
        <5>2. p + c <= Size /\ T = v + m
          BY <5>1 DEF Word, p, T
        <5>3. T = 2 * s + BitAt(b, p + n) /\ BitAt(b, p + n) \in {0, 1}
          BY <2>3, <5>2
        <5> QED
          BY <1>1, <1>4, <2>2, <2>4, <4>2, <5>2, <5>3
      <4>3. v < m \/ v >= m
        BY <1>1, <1>4
      <4> QED
        BY <4>1, <4>2, <4>3
    <3>7. Answers(b, code, r)
      BY <3>2, <3>4, <3>5, <3>6, AnswersValue
    <3> QED
      BY <3>7 DEF code, r
  <2>5. CASE ~(s < m) /\ ~(p + c <= Size)
    <3>1. extra = Fail(short.buf)
      <4> DEFINE i == 1
      <4>1. i \in Nat /\ i # 0 /\ ~(Position(short.buf) + i <= Size)
        BY <1>3, <2>1, <2>5
      <4>2. extra = ReadBits(short.buf, i)
        BY DEF extra
      <4> HIDE DEF i
      <4> QED
        BY <2>1, <4>1, <4>2, ReadBitsIs
    <3>2. ~r.ok /\ r.buf = short.buf
      BY <1>5, <2>1, <2>5, <3>1 DEF Fail
    <3>3. ASSUME NEW v \in Values(code) PROVE ~NextIs(b, code, v)
      <4>1. CASE v < m
        <5>1. Word(b, n, v) => v = s
          BY DEF Word, s, p
        <5> QED
          BY <1>4, <2>5, <4>1, <5>1
      <4>2. CASE v >= m
        <5>1. ~Word(b, c, v + m)
          BY <2>5 DEF Word, p
        <5> QED
          BY <1>4, <4>2, <5>1
      <4>3. v < m \/ v >= m
        BY <1>1, <1>4
      <4> QED
        BY <4>1, <4>2, <4>3
    <3>4. code[1] = "nonsymmetric"
      BY DEF code
    <3>5. Answers(b, code, r)
      BY <2>1, <3>2, <3>3, <3>4, AnswersNone
    <3> QED
      BY <3>5 DEF code, r
  <2>6. CASE ~(s < m) /\ p + c <= Size
    <3> DEFINE x == T - m
    <3>1. /\ T = 2 * s + BitAt(b, p + n) /\ BitAt(b, p + n) \in {0, 1}
          /\ T \in Nat /\ T < 2 * H
      BY <2>3, <2>6
    <3>2. /\ extra.ok /\ extra.val = BitAt(b, p + n) /\ IsBuffer(extra.buf)
          /\ extra.buf.bytes = b.bytes /\ Position(extra.buf) = p + c
      <4> DEFINE i == 1
                 d == short.buf
                 o == p + n
      <4>1. /\ i \in Nat /\ i # 0 /\ i <= WordBits /\ o + i <= Size
            /\ o + i = p + c /\ o \in Nat /\ i - 1 = 0 /\ o + i - 1 = o
            /\ o \in 0 .. (Size - 1)
        BY <1>3, <2>6
      <4>2. extra = ReadBits(d, i) /\ IsBuffer(d) /\ Position(d) = o
            /\ d.bytes = b.bytes
        BY <2>1 DEF extra
      <4>5. IsBytes(d)
        BY <4>2, BufferIs
      <4> HIDE DEF i, d, o
      <4>3. Returns(extra, d, Number(d, o, i), o + i)
        BY <4>1, <4>2, ReadBitsIs
      <4>4. Number(d, o, i) = BitAt(b, o)
        <5>1. /\ Number(d, o, i)
                   = 2 * Number(d, o, i - 1) + BitAt(d, o + i - 1)
              /\ Number(d, o, 0) = 0
          BY <4>1, <4>5, NumberIs
        <5>2. BitAt(d, o) = BitAt(b, o)
          BY <4>2 DEF BitAt
        <5>3. BitAt(d, o) \in {0, 1}
          BY <4>1, <4>5, BitIs
        <5> QED
          BY <4>1, <5>1, <5>2, <5>3
      <4> QED
        BY <4>1, <4>2, <4>3, <4>4 DEF Returns, o
    <3>3. s * 2 + BitAt(b, p + n) - m = x /\ x \in Nat /\ x >= m
          /\ x <= num - 1 /\ x + m = T /\ x < Pow2[WordBits]
      <4>1. s >= m /\ m \in Nat /\ m >= 1
        BY <1>1, <2>2, <2>6
      <4>2. x >= m /\ x \in Nat
        BY <2>2, <3>1, <4>1
      <4>3. Pow2[c] = 2 * H /\ m = 2 * H - num
        BY <1>1 DEF m, H
      <4> QED
        BY <1>1, <2>2, <3>1, <4>1, <4>2, <4>3
    <3>4. UInt32(x) = x
      <4> DEFINE P == Pow2[WordBits]
      <4> HIDE DEF x
      <4>1. P \in Nat \ {0} /\ x \in 0 .. (P - 1)
        BY <1>1, <3>3
      <4> HIDE DEF P
      <4>2. x % P = x
        BY <4>1, ModOf
      <4> QED
        BY <4>2 DEF UInt32, P
    <3>5. r = Done(x, extra.buf)
      BY <1>5, <2>1, <2>6, <3>2, <3>3, <3>4
    <3> HIDE DEF x
    <3>6. x \in Values(code) /\ CodeLength(code, x) = c
      <4>1. ~(x < m)
        BY <1>1, <3>3
      <4> QED
        BY <1>1, <1>2, <3>3, <4>1
    <3>7. Word(b, c, x + m)
      BY <1>1, <2>6, <3>1, <3>3 DEF Word, p, T
    <3>8. NextIs(b, code, x)
      BY <1>4, <3>3, <3>6, <3>7
    <3>9. Returns(r, b, x, Position(b) + CodeLength(code, x))
      BY <3>2, <3>5, <3>6 DEF Returns, Done, p
    <3>10. ASSUME NEW v \in Values(code), NextIs(b, code, v) PROVE v = x
      <4>1. CASE v < m
        <5>1. Word(b, n, v)
          BY <1>4, <3>10, <4>1
        <5>2. v = s
          BY <5>1 DEF Word, s, p
        <5> QED
          BY <2>6, <4>1, <5>2
      <4>2. CASE v >= m
        <5>1. Word(b, c, v + m)
          BY <1>4, <3>10, <4>2
        <5>2. T = v + m
          BY <5>1 DEF Word, p, T
        <5> QED
          BY <1>1, <1>4, <3>3, <5>2
      <4>3. v < m \/ v >= m
        BY <1>1, <1>4
      <4> QED
        BY <4>1, <4>2, <4>3
    <3>11. Answers(b, code, r)
      BY <3>6, <3>8, <3>9, <3>10, AnswersValue
    <3> QED
      BY <3>11 DEF code, r
  <2> QED
    BY <2>4, <2>5, <2>6
<1> QED
  BY <1>7, <1>8

\* Every read returns what is spelled.
LEMMA ReadAnswers ==
  ASSUME BitBufferAssumption,
         NEW b, IsBuffer(b), NEW code \in Codes
  PROVE  Answers(b, code, Read(b, code))
BY CodesAre, BitsAnswer, NonSymmetricAnswers, GolombAnswers, SignedAnswers

-----------------------------------------------------------------------------
(* Writing: the number is taken from its top, byte by byte.                *)

\* The quotient and the remainder of a natural number.
LEMMA DivNat ==
  ASSUME NEW n \in Nat \ {0}, NEW x \in Nat
  PROVE  /\ x \div n \in Nat /\ (x % n) \in 0 .. (n - 1)
         /\ x = (x \div n) * n + (x % n)
         /\ \A m \in Nat : x < m * n => x \div n < m
<1> DEFINE q == x \div n
           r == x % n
<1>1. q \in Int /\ r \in 0 .. (n - 1) /\ x = (n * q) + r
  BY DivMod
<1> HIDE DEF q, r
<1>2. q >= 0
  <2>1. CASE q <= -1
    <3>1. n * (-q) >= n
      BY <1>1, <2>1, ProductGrows
    <3>2. n * (-q) = -(n * q)
      BY <1>1
    <3> QED
      BY <1>1, <3>1, <3>2
  <2> QED
    BY <1>1, <2>1
<1>3. ASSUME NEW m \in Nat, x < m * n PROVE q < m
  <2>1. CASE q >= m
    <3>1. n * (q - m) \in Nat
      BY <1>1, <2>1
    <3>2. n * (q - m) = n * q - m * n
      BY <1>1
    <3>3. n * q \in Int /\ m * n \in Int
      BY <1>1
    <3> QED
      BY <1>1, <1>3, <3>1, <3>2, <3>3
  <2> QED
    BY <1>1, <2>1
<1>4. x = q * n + r
  BY <1>1
<1> QED
  BY <1>1, <1>2, <1>3, <1>4 DEF q, r

\* The first k of the n bits of a number, and the ones behind them.
Taken(val, n, k) == val \div Pow2[n - k]
Remains(val, n, k) == val % Pow2[n - k]

\* k is at most n.
UpToBits(k, n) == k \in Nat /\ n \in Nat /\ k <= n

\* A number is what is taken from its top and what remains.
LEMMA TakenIs ==
  ASSUME NEW n, NEW k, UpToBits(k, n), NEW val \in Nat, val < Pow2[n]
  PROVE  /\ Taken(val, n, k) \in Nat /\ Taken(val, n, k) < Pow2[k]
         /\ Remains(val, n, k) \in Nat /\ Remains(val, n, k) < Pow2[n - k]
         /\ val = Taken(val, n, k) * Pow2[n - k] + Remains(val, n, k)
<1> DEFINE P == Pow2[n - k]
<1>1. k \in Nat /\ n \in Nat /\ n - k \in Nat /\ k + (n - k) = n
  BY DEF UpToBits
<1>2. P \in Nat \ {0} /\ Pow2[k] \in Nat
  BY <1>1, PowNat
<1>3. val < Pow2[k] * P
  BY <1>1, PowSum
<1> HIDE DEF P
<1>4. /\ val \div P \in Nat /\ (val % P) \in 0 .. (P - 1)
      /\ val = (val \div P) * P + (val % P) /\ val \div P < Pow2[k]
  BY <1>2, <1>3, DivNat
<1> QED
  BY <1>2, <1>4 DEF P, Taken, Remains

\* k bits and j bits more.
LEMMA TakeMore ==
  ASSUME NEW n, NEW k, NEW j \in Nat, NEW l, Parted(l, k, j), UpToBits(l, n),
         NEW val \in Nat, val < Pow2[n]
  PROVE  /\ Taken(val, n, l) = Taken(val, n, k) * Pow2[j]
                                 + Taken(Remains(val, n, k), n - k, j)
         /\ Taken(Remains(val, n, k), n - k, j) < Pow2[j]
         /\ Taken(Remains(val, n, k), n - k, j) \in Nat
<1> DEFINE m == n - k
           d == Taken(val, n, k)
           r == Remains(val, n, k)
           e == Taken(r, m, j)
           s == Remains(r, m, j)
           P == Pow2[n - l]
           J == Pow2[j]
<1>1. /\ k \in Nat /\ l = k + j /\ n \in Nat /\ UpToBits(k, n) /\ m \in Nat
      /\ UpToBits(j, m) /\ m - j = n - l /\ n - l \in Nat /\ m = j + (n - l)
  BY DEF Parted, UpToBits
<1>2. /\ d \in Nat /\ r \in Nat /\ r < Pow2[m] /\ val = d * Pow2[m] + r
  BY <1>1, TakenIs
<1> HIDE DEF d, r
<1>3. /\ e \in Nat /\ e < J /\ s \in Nat /\ s < P /\ r = e * P + s
  <2> HIDE DEF m
  <2>1. /\ e \in Nat /\ e < J /\ s \in Nat /\ s < Pow2[m - j]
        /\ r = e * Pow2[m - j] + s
    BY <1>1, <1>2, TakenIs
  <2> QED
    BY <1>1, <2>1
<1>4. Pow2[m] = J * P
  <2> DEFINE i == n - l
  <2>1. i \in Nat /\ m = j + i
    BY <1>1
  <2> HIDE DEF i, m
  <2>2. Pow2[j + i] = Pow2[j] * Pow2[i]
    BY <2>1, PowSum
  <2> QED
    BY <2>1, <2>2 DEF i
<1>5. J \in Nat /\ P \in Nat \ {0}
  BY <1>1, PowNat
<1>6. Taken(val, n, l) = val \div P
  BY DEF Taken
<1> HIDE DEF m, e, s, P, J
<1> DEFINE q == d * J + e
<1>7. val = P * q + s
  <2>1. d * (J * P) = P * (d * J) /\ P * q = P * (d * J) + e * P
    BY <1>2, <1>3, <1>5
  <2> HIDE DEF q
  <2>2. val = d * (J * P) + (e * P + s)
    BY <1>2, <1>3, <1>4
  <2>3. d * (J * P) \in Int /\ e * P \in Int
    BY <1>2, <1>3, <1>5
  <2> QED
    BY <1>3, <2>1, <2>2, <2>3
<1>8. q \in Int /\ s \in 0 .. (P - 1)
  BY <1>2, <1>3, <1>5
<1> HIDE DEF q
<1>9. (P * q + s) \div P = q
  BY <1>5, <1>8, DivisionIs
<1> QED
  BY <1>3, <1>6, <1>7, <1>9 DEF q, d, e, r, m, J

\* A number of m bits at the top of a uint64_t.
Top(r, m) == r * Pow2[2 * WordBits - m]

\* Powers of two are not zero.
LEMMA PowPositive ==
  ASSUME NEW n \in Nat
  PROVE  Pow2[n] \in Nat \ {0}
BY PowNat

\* Dividing twice is dividing by the product.
LEMMA DivDiv ==
  ASSUME NEW x \in Nat, NEW a \in Nat \ {0}, NEW c \in Nat \ {0}
  PROVE  /\ (x \div a) \div c = x \div (a * c)
         /\ (x * a) \div (a * c) = x \div c
<1> DEFINE q == x \div a
           r == x % a
           h == q \div c
           t == q % c
           g == x \div c
           s == x % c
           n == a * c
<1>1. q \in Nat /\ r \in 0 .. (a - 1) /\ x = q * a + r
  BY DivNat
<1>2. h \in Nat /\ t \in 0 .. (c - 1) /\ q = h * c + t
  BY <1>1, DivNat
<1>3. g \in Nat /\ s \in 0 .. (c - 1) /\ x = g * c + s
  BY DivNat
<1>4. n \in Nat \ {0}
  OBVIOUS
<1> HIDE DEF q, r, h, t, g, s
<1>5. x \div n = h
  <2> DEFINE y == t * a + r
  <2>1. x = n * h + y
    <3>1. (h * c + t) * a + r = a * c * h + (t * a + r)
      BY <1>1, <1>2
    <3> QED
      BY <1>1, <1>2, <3>1
  <2>2. y \in 0 .. (n - 1)
    <3>1. (c - 1 - t) * a \in Nat
      BY <1>2
    <3>2. (c - 1 - t) * a = a * c - a - t * a
      BY <1>2
    <3>3. t * a \in Nat /\ a * c \in Nat
      BY <1>2
    <3> QED
      BY <1>1, <3>1, <3>2, <3>3
  <2> HIDE DEF y, n
  <2>3. (n * h + y) \div n = h
    BY <1>2, <1>4, <2>2, DivisionIs
  <2> QED
    BY <2>1, <2>3
<1>6. (x * a) \div n = g
  <2> DEFINE y == s * a
  <2>1. x * a = n * g + y
    <3>1. (g * c + s) * a = a * c * g + s * a
      BY <1>3
    <3> QED
      BY <1>3, <3>1
  <2>2. y \in 0 .. (n - 1)
    <3>1. (c - 1 - s) * a \in Nat
      BY <1>3
    <3>2. (c - 1 - s) * a = a * c - a - s * a
      BY <1>3
    <3>3. s * a \in Nat /\ a * c \in Nat
      BY <1>3
    <3> QED
      BY <1>3, <3>1, <3>2, <3>3
  <2> HIDE DEF y, n
  <2>3. (n * g + y) \div n = g
    BY <1>3, <1>4, <2>2, DivisionIs
  <2> QED
    BY <2>1, <2>3
<1> QED
  BY <1>5, <1>6 DEF h, q, g

\* At the top it fits.
LEMMA TopFits ==
  ASSUME NEW m, UpToBits(m, 2 * WordBits), NEW r \in Nat, r < Pow2[m]
  PROVE  Top(r, m) \in 0 .. (Pow2[2 * WordBits] - 1)
<1> DEFINE w == 2 * WordBits
           k == w - m
           P == Pow2[m]
           Q == Pow2[k]
<1>1. m \in Nat /\ k \in Nat /\ m + k = w /\ w \in Nat
  BY DEF UpToBits
<1>2. P \in Nat /\ Q \in Nat /\ Q >= 1
  <2> HIDE DEF k
  <2> QED
    BY <1>1, PowNat
<1>3. Pow2[w] = P * Q
  <2> HIDE DEF k, w
  <2>1. Pow2[m + k] = Pow2[m] * Pow2[k]
    BY <1>1, PowSum
  <2> QED
    BY <1>1, <2>1
<1>4. Top(r, m) = r * Q
  BY DEF Top
<1> HIDE DEF w, k, Q
<1>5. r < P
  OBVIOUS
<1> HIDE DEF P
<1>6. (P - 1 - r) * Q \in Nat /\ r * Q \in Nat /\ P * Q \in Nat
  BY <1>2, <1>5
<1>7. (P - 1 - r) * Q = P * Q - Q - r * Q
  BY <1>2
<1>8. r * Q \in 0 .. (P * Q - 1)
  BY <1>2, <1>6, <1>7
<1> QED
  BY <1>3, <1>4, <1>8 DEF w

\* Shifted, what has been taken is lost and what remains is at the top.
LEMMA ShiftTop ==
  ASSUME NEW n, NEW k, UpToBits(k, n), UpToBits(n, 2 * WordBits),
         NEW val \in Nat, val < Pow2[n]
  PROVE  UInt64(Top(val, n) * Pow2[k]) = Top(Remains(val, n, k), n - k)
<1> DEFINE w == 2 * WordBits
           m == n - k
           f == w - n
           d == Taken(val, n, k)
           r == Remains(val, n, k)
           W == Pow2[w]
           F == Pow2[f]
           K == Pow2[k]
           M == Pow2[m]
<1>1. /\ k \in Nat /\ n \in Nat /\ m \in Nat /\ f \in Nat /\ w \in Nat
      /\ w = n + f /\ n = k + m /\ w - m = k + f /\ k + f \in Nat
      /\ UpToBits(m, w)
  BY DEF UpToBits
<1>2. d \in Nat /\ r \in Nat /\ r < M /\ val = d * M + r
  BY TakenIs
<1> HIDE DEF d, r, m, f, w
<1>3. F \in Nat /\ K \in Nat /\ M \in Nat /\ W \in Nat \ {0}
  BY <1>1, PowNat
<1>4. W = K * M * F
  <2>1. Pow2[n + f] = Pow2[n] * Pow2[f] /\ Pow2[k + m] = Pow2[k] * Pow2[m]
    BY <1>1, PowSum
  <2> QED
    BY <1>1, <2>1
<1>5. Pow2[w - m] = K * F
  <2>1. Pow2[k + f] = Pow2[k] * Pow2[f]
    BY <1>1, PowSum
  <2> QED
    BY <1>1, <2>1
<1>6. Top(val, n) = val * F /\ Top(r, m) = r * (K * F)
  BY <1>5 DEF Top, w, f
<1>7. Top(r, m) \in 0 .. (W - 1)
  BY <1>1, <1>2, TopFits DEF w
<1>8. UInt64(Top(val, n) * K) = (Top(val, n) * K) % W
  BY DEF UInt64, w
<1> HIDE DEF F, K, M, W
<1> DEFINE y == r * (K * F)
<1>9. Top(val, n) * K = W * d + y
  <2>1. ((d * M + r) * F) * K = K * M * F * d + r * (K * F)
    BY <1>2, <1>3
  <2> QED
    BY <1>2, <1>4, <1>6, <2>1
<1>10. y \in 0 .. (W - 1)
  BY <1>6, <1>7
<1> HIDE DEF y
<1>11. (W * d + y) % W = y
  BY <1>2, <1>3, <1>10, DivisionIs
<1> QED
  BY <1>6, <1>8, <1>9, <1>11 DEF y, r, m, K

\* All bits of a number, and none of them.
LEMMA TakenAll ==
  ASSUME NEW n \in Nat, NEW val \in Nat, val < Pow2[n]
  PROVE  Taken(val, n, n) = val /\ Remains(val, n, 0) = val
<1>1. n - n = 0 /\ n - 0 = n /\ Pow2[0] = 1
  BY PowIs
<1>2. val \div 1 = val
  OBVIOUS
<1> DEFINE P == Pow2[n]
<1>3. P \in Nat /\ val < P
  BY PowNat
<1> HIDE DEF P
<1>4. P \in Nat \ {0} /\ val \in 0 .. (P - 1)
  BY <1>3
<1>5. val % P = val
  BY <1>4, ModOf
<1> QED
  BY <1>1, <1>2, <1>5 DEF Taken, Remains, P

\* The byte at the top: the first bits, or all of them and zeros.
LEMMA HighTop ==
  ASSUME BitBufferAssumption,
         NEW m, UpToBits(m, 2 * WordBits), NEW r \in Nat, r < Pow2[m]
  PROVE  /\ m >= ByteBits => HighestByte(Top(r, m)) = Taken(r, m, ByteBits)
         /\ m < ByteBits => HighestByte(Top(r, m)) = r * Pow2[ByteBits - m]
<1> USE BitSizes
<1> DEFINE w == 2 * WordBits
           h == w - ByteBits
           f == w - m
<1>1. m \in Nat /\ w \in Nat /\ h \in Nat /\ f \in Nat
  BY DEF UpToBits
<1>2. HighestByte(Top(r, m)) = (r * Pow2[f]) \div Pow2[h]
  BY DEF HighestByte, Top
<1>3. Pow2[f] \in Nat \ {0} /\ Pow2[h] \in Nat \ {0}
  <2> HIDE DEF f, h
  <2> QED
    BY <1>1, PowNat
<1>4. ASSUME m >= ByteBits
      PROVE  HighestByte(Top(r, m)) = Taken(r, m, ByteBits)
  <2> DEFINE g == m - ByteBits
  <2>1. g \in Nat /\ h = f + g
    BY <1>1, <1>4
  <2> HIDE DEF f, h, g
  <2>2. Pow2[f + g] = Pow2[f] * Pow2[g] /\ Pow2[g] \in Nat \ {0}
    BY <1>1, <2>1, PowSum, PowPositive
  <2>3. (r * Pow2[f]) \div (Pow2[f] * Pow2[g]) = r \div Pow2[g]
    BY <1>3, <2>2, DivDiv
  <2> QED
    BY <1>2, <2>1, <2>2, <2>3 DEF Taken, g
<1>5. ASSUME m < ByteBits
      PROVE  HighestByte(Top(r, m)) = r * Pow2[ByteBits - m]
  <2> DEFINE g == ByteBits - m
             H == Pow2[h]
             x == r * Pow2[g]
  <2>1. g \in Nat /\ f = h + g
    BY <1>1, <1>5
  <2> HIDE DEF f, h, g
  <2>2. Pow2[h + g] = Pow2[h] * Pow2[g] /\ Pow2[g] \in Nat
    BY <1>1, <2>1, PowSum, PowNat
  <2>3. x \in Int
    BY <2>2
  <2>4. r * Pow2[f] = H * x + 0
    BY <1>3, <2>1, <2>2
  <2>5. 0 \in 0 .. (H - 1) /\ H \in Nat \ {0}
    BY <1>3
  <2> HIDE DEF H, x
  <2>6. (H * x + 0) \div H = x
    BY <2>3, <2>5, DivisionIs
  <2> QED
    BY <1>2, <2>4, <2>6 DEF H, x, g
<1> QED
  BY <1>4, <1>5

\* That byte, shifted to where the first bits go in the current byte.
LEMMA HighTopFrom ==
  ASSUME BitBufferAssumption,
         NEW m, UpToBits(m, 2 * WordBits), NEW r \in Nat, r < Pow2[m],
         NEW off \in 0 .. (ByteBits - 1),
         NEW cnt, cnt = IF m < ByteBits - off THEN m ELSE ByteBits - off
  PROVE  HighestByte(Top(r, m)) \div Pow2[off]
           = Taken(r, m, cnt) * Pow2[ByteBits - off - cnt]
<1> USE BitSizes
<1> DEFINE S == HighestByte(Top(r, m))
           O == Pow2[off]
<1>1. m \in Nat /\ off \in Nat /\ m \in Int
  BY DEF UpToBits
<1>2. O \in Nat \ {0}
  BY <1>1, PowNat
<1>3. /\ m >= ByteBits => S = Taken(r, m, ByteBits)
      /\ m < ByteBits => S = r * Pow2[ByteBits - m]
  BY HighTop
<1> HIDE DEF S, O
<1>4. CASE m < ByteBits - off
  <2> DEFINE g == ByteBits - off - m
             x == r * Pow2[g]
  <2>1. g \in Nat /\ ByteBits - m = off + g /\ cnt = m /\ m < ByteBits
        /\ ByteBits - off - cnt = g
    BY <1>1, <1>4
  <2>2. Taken(r, m, cnt) = r
    BY <1>1, <2>1, TakenAll
  <2> HIDE DEF g
  <2>3. Pow2[off + g] = O * Pow2[g] /\ Pow2[g] \in Nat
    BY <1>1, <2>1, PowSum, PowNat DEF O
  <2>4. S = r * (O * Pow2[g])
    BY <1>3, <2>1, <2>3
  <2>5. S = O * x + 0 /\ x \in Int /\ 0 \in 0 .. (O - 1)
    BY <1>2, <2>3, <2>4
  <2> HIDE DEF x
  <2>6. (O * x + 0) \div O = x
    BY <1>2, <2>5, DivisionIs
  <2>7. S \div O = x
    BY <2>5, <2>6
  <2> QED
    BY <2>1, <2>2, <2>7 DEF S, O, x
<1>5. CASE m >= ByteBits - off
  <2>1. cnt = ByteBits - off /\ ByteBits - off - cnt = 0 /\ m - cnt \in Nat
        /\ m - cnt = m - ByteBits + off
    BY <1>1, <1>5
  <2>2. Pow2[ByteBits - off - cnt] = 1
    BY <2>1, PowIs
  <2> DEFINE G == Pow2[m - cnt]
  <2>3. G \in Nat \ {0}
    BY <2>1, PowNat
  <2>4. Taken(r, m, cnt) = r \div G
    BY DEF Taken
  <2>5. r \div G \in Int
    <3> HIDE DEF G
    <3> QED
      BY <2>3, DivNat
  <2>6. S \div O = r \div G
    <3>1. CASE m >= ByteBits
      <4> DEFINE e == m - ByteBits
      <4>1. e \in Nat /\ m - cnt = e + off
        BY <1>1, <2>1, <3>1
      <4>2. S = r \div Pow2[e]
        BY <1>3, <3>1 DEF Taken
      <4> HIDE DEF e
      <4>3. Pow2[e + off] = Pow2[e] * O /\ Pow2[e] \in Nat \ {0}
        BY <1>1, <4>1, PowSum, PowPositive DEF O
      <4>4. (r \div Pow2[e]) \div O = r \div (Pow2[e] * O)
        BY <1>2, <4>3, DivDiv
      <4> QED
        BY <4>1, <4>2, <4>3, <4>4
    <3>2. CASE m < ByteBits
      <4> DEFINE e == ByteBits - m
                 i == m - cnt
      <4>1. e \in Nat /\ i \in Nat /\ off = e + i
        BY <1>1, <2>1, <3>2
      <4>2. S = r * Pow2[e]
        BY <1>3, <3>2
      <4> HIDE DEF e, i
      <4>3. /\ Pow2[e + i] = Pow2[e] * Pow2[i] /\ Pow2[e] \in Nat \ {0}
            /\ Pow2[i] \in Nat \ {0}
        BY <4>1, PowSum, PowPositive
      <4>4. (r * Pow2[e]) \div (Pow2[e] * Pow2[i]) = r \div Pow2[i]
        BY <4>3, DivDiv
      <4> QED
        BY <4>1, <4>2, <4>3, <4>4 DEF O, i
    <3> QED
      BY <1>1, <3>1, <3>2
  <2> HIDE DEF G
  <2> QED
    BY <2>2, <2>4, <2>5, <2>6 DEF S, O
<1> QED
  BY <1>1, <1>4, <1>5

-----------------------------------------------------------------------------
(* Writing a part of a byte.                                               *)

\* A quotient and a remainder are determined by their number.
LEMMA SameDivision ==
  ASSUME NEW n \in Nat \ {0}, NEW q \in Int, NEW h \in Int,
         NEW r \in 0 .. (n - 1), NEW s \in 0 .. (n - 1),
         q * n + r = h * n + s
  PROVE  q = h /\ r = s
<1>1. n * q + r = n * h + s
  OBVIOUS
<1>2. /\ (n * q + r) \div n = q /\ (n * q + r) % n = r
      /\ (n * h + s) \div n = h /\ (n * h + s) % n = s
  BY DivisionIs
<1> QED
  BY <1>1, <1>2

\* V in the middle of a byte, between the bits of A and those of L.
Between(A, V, L, off, cnt) ==
  A * Pow2[ByteBits - off] + (V * Pow2[ByteBits - off - cnt] + L)

\* off bits, cnt bits and the rest of a byte.
ByteParts(off, cnt) == off \in Nat /\ cnt \in Nat /\ off + cnt <= ByteBits

\* The parts are within bounds.
IsPart(A, V, L, off, cnt) ==
  /\ A \in Nat /\ A < Pow2[off] /\ V \in Nat /\ V < Pow2[cnt]
  /\ L \in Nat /\ L < Pow2[ByteBits - off - cnt]

\* A byte of three parts within their bounds is a byte.
LEMMA BetweenIs ==
  ASSUME BitBufferAssumption,
         NEW off, NEW cnt, ByteParts(off, cnt),
         NEW A, NEW V, NEW L, IsPart(A, V, L, off, cnt)
  PROVE  /\ Between(A, V, L, off, cnt) \in Byte
         /\ V * Pow2[ByteBits - off - cnt] + L
              \in 0 .. (Pow2[ByteBits - off] - 1)
<1> USE BitSizes
<1> DEFINE e == ByteBits - off - cnt
           m == ByteBits - off
           O == Pow2[off]
           C == Pow2[cnt]
           E == Pow2[e]
           M == Pow2[m]
           R == V * E + L
<1>1. /\ off \in Nat /\ cnt \in Nat /\ e \in Nat /\ m \in Nat /\ m = cnt + e
      /\ ByteBits = off + m
  BY DEF ByteParts
<1> HIDE DEF e, m
<1>2. O \in Nat /\ C \in Nat /\ E \in Nat /\ E >= 1 /\ M \in Nat
  BY <1>1, PowNat
<1>3. M = C * E
  <2>1. Pow2[cnt + e] = Pow2[cnt] * Pow2[e]
    BY <1>1, PowSum
  <2> QED
    BY <1>1, <2>1
<1>4. Pow2[ByteBits] = O * M
  <2>1. Pow2[off + m] = Pow2[off] * Pow2[m]
    BY <1>1, PowSum
  <2> QED
    BY <1>1, <2>1
<1>5. A \in Nat /\ A < O /\ V \in Nat /\ V < C /\ L \in Nat /\ L < E
  BY DEF IsPart, e
<1> HIDE DEF O, C, E, M
<1>6. R \in 0 .. (M - 1)
  <2>1. (C - 1 - V) * E \in Nat /\ V * E \in Nat /\ C * E \in Nat
    BY <1>2, <1>5
  <2>2. (C - 1 - V) * E = C * E - E - V * E
    BY <1>2, <1>5
  <2> QED
    BY <1>2, <1>3, <1>5, <2>1, <2>2
<1>7. A * M + R \in 0 .. (O * M - 1)
  <2> HIDE DEF R
  <2>1. (O - 1 - A) * M \in Nat /\ A * M \in Nat /\ O * M \in Nat
    BY <1>2, <1>5
  <2>2. (O - 1 - A) * M = O * M - M - A * M
    BY <1>2, <1>5
  <2> QED
    BY <1>2, <1>5, <1>6, <2>1, <2>2
<1> QED
  BY <1>4, <1>6, <1>7 DEF Between, Byte, R, E, M, e, m

\* Where the parts of byte i are.
PartAt(i, off) == i * ByteBits + off

\* The parts of a byte.
LEMMA PartsAre ==
  ASSUME BitBufferAssumption,
         NEW b, IsBytes(b), NEW i \in 0 .. (ByteCount - 1),
         NEW off, NEW cnt, ByteParts(off, cnt)
  PROVE  LET A == Number(b, PartAt(i, 0), off)
             V == Number(b, PartAt(i, off), cnt)
             L == Number(b, PartAt(i, off + cnt), ByteBits - off - cnt)
         IN  /\ IsPart(A, V, L, off, cnt)
             /\ b.bytes[i] = Between(A, V, L, off, cnt)
             /\ LowestBits(b.bytes[i], ByteBits - off)
                  = V * Pow2[ByteBits - off - cnt] + L
             /\ LowestBits(b.bytes[i], ByteBits - off - cnt) = L
<1> USE BitSizes
<1> DEFINE p == i * ByteBits
<1>1. /\ off \in Nat /\ cnt \in Nat /\ off + cnt <= ByteBits
      /\ off \in 0 .. ByteBits /\ off + cnt \in 0 .. ByteBits
      /\ p \in Nat /\ p + 0 = p /\ p + (off + cnt) = p + off + cnt
      /\ ByteBits - (off + cnt) = ByteBits - off - cnt
  BY DEF ByteParts
<1> DEFINE below == ByteBits - off - cnt
           A == Number(b, p, off)
           V == Number(b, p + off, cnt)
           L == Number(b, p + off + cnt, below)
           R == Number(b, p + off, ByteBits - off)
<1>2. /\ A \in Nat /\ V \in Nat /\ L \in Nat /\ R \in Nat
      /\ A < Pow2[off] /\ V < Pow2[cnt] /\ L < Pow2[below]
      /\ R < Pow2[ByteBits - off]
      /\ R = V * Pow2[below] + L
      /\ b.bytes[i] = A * Pow2[ByteBits - off] + R
  BY <1>1, BytePart
<1>3. LowestBits(b.bytes[i], ByteBits - off) = R
  BY <1>1, LowestIs
<1>4. LowestBits(b.bytes[i], below) = L
  <2> DEFINE o == off + cnt
  <2>1. o \in 0 .. ByteBits /\ p + o = p + off + cnt /\ ByteBits - o = below
    BY <1>1
  <2> HIDE DEF o, below
  <2>2. LowestBits(b.bytes[i], ByteBits - o)
          = Number(b, i * ByteBits + o, ByteBits - o)
    BY <2>1, LowestIs
  <2> QED
    BY <2>1, <2>2 DEF below
<1>5. PartAt(i, 0) = p /\ PartAt(i, off) = p + off
      /\ PartAt(i, off + cnt) = p + off + cnt
  BY <1>1 DEF PartAt
<1> HIDE DEF A, V, L, R, p
<1> QED
  BY <1>2, <1>3, <1>4, <1>5 DEF IsPart, Between, A, V, L, R, p

\* What is between in a byte of a buffer is what the byte spells.
LEMMA BetweenSpells ==
  ASSUME BitBufferAssumption,
         NEW b, IsBytes(b), NEW i \in 0 .. (ByteCount - 1),
         NEW off, NEW cnt, ByteParts(off, cnt),
         NEW A, NEW V, NEW L, IsPart(A, V, L, off, cnt),
         b.bytes[i] = Between(A, V, L, off, cnt)
  PROVE  /\ Number(b, PartAt(i, 0), off) = A
         /\ Number(b, PartAt(i, off), cnt) = V
         /\ Number(b, PartAt(i, off + cnt), ByteBits - off - cnt) = L
<1> DEFINE A1 == Number(b, PartAt(i, 0), off)
           V1 == Number(b, PartAt(i, off), cnt)
           L1 == Number(b, PartAt(i, off + cnt), ByteBits - off - cnt)
           E == Pow2[ByteBits - off - cnt]
           M == Pow2[ByteBits - off]
<1>1. /\ IsPart(A1, V1, L1, off, cnt)
      /\ b.bytes[i] = Between(A1, V1, L1, off, cnt)
  BY PartsAre
<1> HIDE DEF A1, V1, L1
<1>2. V * E + L \in 0 .. (M - 1) /\ V1 * E + L1 \in 0 .. (M - 1)
  BY <1>1, BetweenIs
<1>3. E \in Nat \ {0} /\ M \in Nat \ {0}
  <2> DEFINE e == ByteBits - off - cnt
             m == ByteBits - off
  <2>1. e \in Nat /\ m \in Nat
    BY BitSizes DEF ByteParts
  <2> HIDE DEF e, m
  <2>2. Pow2[e] \in Nat \ {0} /\ Pow2[m] \in Nat \ {0}
    BY <2>1, PowPositive
  <2> QED
    BY <2>2 DEF e, m
<1>4. A * M + (V * E + L) = A1 * M + (V1 * E + L1)
  BY <1>1 DEF Between
<1>5. /\ A \in Int /\ A1 \in Int /\ V \in Int /\ V1 \in Int
      /\ L \in 0 .. (E - 1) /\ L1 \in 0 .. (E - 1)
  BY <1>1, <1>3 DEF IsPart
<1> HIDE DEF E, M
<1> DEFINE R == V * E + L
           R1 == V1 * E + L1
<1>6. R \in 0 .. (M - 1) /\ R1 \in 0 .. (M - 1) /\ A * M + R = A1 * M + R1
  BY <1>2, <1>4
<1> HIDE DEF R, R1
<1>7. A = A1 /\ R = R1
  BY <1>3, <1>5, <1>6, SameDivision
<1>8. V * E + L = V1 * E + L1
  BY <1>7 DEF R, R1
<1>9. V = V1 /\ L = L1
  BY <1>3, <1>5, <1>8, SameDivision
<1> QED
  BY <1>7, <1>9 DEF A1, V1, L1

\* WritePartialByte puts V between what was there.
LEMMA PartialIs ==
  ASSUME BitBufferAssumption,
         NEW b, IsBytes(b), NEW i \in 0 .. (ByteCount - 1),
         NEW off, NEW cnt, ByteParts(off, cnt),
         NEW V \in Nat, V < Pow2[cnt], NEW source,
         source \div Pow2[off] = V * Pow2[ByteBits - off - cnt]
  PROVE  LET A == Number(b, PartAt(i, 0), off)
             L == Number(b, PartAt(i, off + cnt), ByteBits - off - cnt)
             y == WritePartialByte(source, cnt, b.bytes[i], off)
         IN  /\ IsPart(A, V, L, off, cnt)
             /\ y = Between(A, V, L, off, cnt) /\ y \in Byte
<1> DEFINE A == Number(b, PartAt(i, 0), off)
           U == Number(b, PartAt(i, off), cnt)
           L == Number(b, PartAt(i, off + cnt), ByteBits - off - cnt)
           y == WritePartialByte(source, cnt, b.bytes[i], off)
           E == Pow2[ByteBits - off - cnt]
           M == Pow2[ByteBits - off]
           x == b.bytes[i]
<1>1. /\ IsPart(A, U, L, off, cnt) /\ x = Between(A, U, L, off, cnt)
      /\ LowestBits(x, ByteBits - off) = U * E + L
      /\ LowestBits(x, ByteBits - off - cnt) = L
  BY PartsAre
<1>2. off \in Nat /\ cnt \in Nat
      /\ ByteBits - off - cnt + cnt = ByteBits - off
  BY BitSizes DEF ByteParts
<1>3. y = (x - LowestBits(x, ByteBits - off))
            + LowestBits(x, ByteBits - off - cnt) + V * E
  BY <1>2 DEF WritePartialByte
<1>4. E \in Nat /\ M \in Nat
  <2> DEFINE e == ByteBits - off - cnt
             m == ByteBits - off
  <2>1. e \in Nat /\ m \in Nat
    BY BitSizes DEF ByteParts
  <2> HIDE DEF e, m
  <2>2. Pow2[e] \in Nat /\ Pow2[m] \in Nat
    BY <2>1, PowNat
  <2> QED
    BY <2>2 DEF e, m
<1> HIDE DEF A, U, L, x, y
<1>5. IsPart(A, V, L, off, cnt)
  BY <1>1 DEF IsPart
<1>6. A \in Nat /\ U \in Nat /\ L \in Nat
  BY <1>1 DEF IsPart
<1>7. x = A * M + (U * E + L)
  BY <1>1 DEF Between
<1>8. y = A * M + (V * E + L)
  <2> HIDE DEF E, M
  <2>1. A * M \in Int /\ U * E \in Int /\ V * E \in Int
    BY <1>4, <1>6
  <2> QED
    BY <1>1, <1>3, <1>6, <1>7, <2>1
<1>9. y = Between(A, V, L, off, cnt)
  BY <1>8 DEF Between
<1>10. y \in Byte
  BY <1>5, <1>9, BetweenIs
<1> QED
  BY <1>5, <1>9, <1>10 DEF A, L, y, x

-----------------------------------------------------------------------------
(* Writing into the buffer.                                                *)

\* The bits for the current byte, the whole bytes and the bits left.
InFirst(b, n) ==
  IF n < ByteBits - b.bit_offset_ THEN n ELSE ByteBits - b.bit_offset_
Whole(b, n) == (n - InFirst(b, n)) \div ByteBits
Left(b, n) == (n - InFirst(b, n)) % ByteBits

Shifted(b, val, n, i) ==
  UInt64(UInt64(val * Pow2[2 * WordBits - n])
           * Pow2[InFirst(b, n) + i * ByteBits])

\* The byte that WriteBits leaves at i.
NewByte(b, val, n, i) ==
  LET at == b.byte_offset_
      whole == Whole(b, n)
      left == Left(b, n)
      top == UInt64(val * Pow2[2 * WordBits - n])
  IN  CASE i = at -> WritePartialByte(HighestByte(top), InFirst(b, n),
                                      b.bytes[i], b.bit_offset_)
        [] i \in (at + 1)..(at + whole) ->
             HighestByte(Shifted(b, val, n, i - at - 1))
        [] i = at + whole + 1 /\ left > 0 ->
             WritePartialByte(HighestByte(Shifted(b, val, n, whole)), left,
                              b.bytes[i], 0)
        [] OTHER -> b.bytes[i]

\* The object with the bytes written, the cursor not moved yet.
WithBytes(b, val, n) ==
  [b EXCEPT !.bytes = [i \in DOMAIN @ |-> NewByte(b, val, n, i)]]

\* WriteBits in the parts that the following lemmas name.
LEMMA WriteBitsIs ==
  ASSUME NEW b, NEW val, NEW n
  PROVE  WriteBits(b, val, n)
           = IF n > RemainingBitCount(b) THEN Fail(b)
             ELSE ConsumeBits(WithBytes(b, val, n), n)
BY DEF WriteBits, WithBytes, NewByte, Shifted, Whole, Left, InFirst

\* There is room for n bits, and they fit in a uint64_t.
Room(b, n) ==
  /\ IsBuffer(b) /\ n \in Nat /\ n # 0 /\ UpToBits(n, 2 * WordBits)
  /\ Position(b) + n <= Size

\* The bits before, in and behind the whole bytes that are written.
LEMMA LayoutIs ==
  ASSUME BitBufferAssumption,
         NEW b, NEW n, Room(b, n)
  PROVE  LET at == b.byte_offset_
             off == b.bit_offset_
             f == InFirst(b, n)
             h == Whole(b, n)
             l == Left(b, n)
         IN  /\ IsBytes(b)
             /\ at \in 0 .. (ByteCount - 1) /\ off \in 0 .. (ByteBits - 1)
             /\ Position(b) \in Nat /\ Position(b) = at * ByteBits + off
             /\ f \in Nat /\ h \in Nat /\ l \in 0 .. (ByteBits - 1)
             /\ n = f + h * ByteBits + l /\ h * ByteBits \in Nat
             /\ ByteParts(off, f)
             /\ \/ off + f = ByteBits
                \/ h = 0 /\ l = 0
             /\ at + h <= ByteCount - 1
             /\ l > 0 => at + h + 1 <= ByteCount - 1
<1>sizes. /\ ByteBits \in Nat /\ ByteBits >= 1
          /\ WordBits \in Nat /\ WordBits >= 2 * ByteBits
          /\ ByteCount \in Nat /\ ByteCount >= 1
          /\ Size \in Nat /\ Size = ByteCount * ByteBits
  BY BitSizes
<1> USE <1>sizes
<1> DEFINE at == b.byte_offset_
           off == b.bit_offset_
           f == InFirst(b, n)
           h == Whole(b, n)
           l == Left(b, n)
           p == Position(b)
<1>1. /\ n \in Nat /\ n # 0 /\ p + n <= Size /\ IsBuffer(b)
  BY DEF Room
<1>2. /\ IsBytes(b) /\ at \in 0 .. (ByteCount - 1)
           /\ off \in 0 .. (ByteBits - 1)
      /\ p \in Nat
  BY <1>1, BufferIs
<1>3. p = at * ByteBits + off
  BY DEF Position
<1>4. f = IF n < ByteBits - off THEN n ELSE ByteBits - off
  BY DEF InFirst
<1> HIDE DEF at, off, p, f
<1>5. f \in Nat /\ n - f \in Nat /\ off + f <= ByteBits /\ off \in Nat
  BY <1>1, <1>2, <1>4
<1>6. h \in Nat /\ l \in 0 .. (ByteBits - 1) /\ n - f = h * ByteBits + l
  <2> DEFINE x == n - f
  <2>1. h = x \div ByteBits /\ l = x % ByteBits
    BY DEF Whole, Left, f
  <2> HIDE DEF x, h, l
  <2>2. x \in Nat /\ ByteBits \in Nat \ {0}
    BY <1>5 DEF x
  <2>3. /\ x \div ByteBits \in Nat /\ (x % ByteBits) \in 0 .. (ByteBits - 1)
        /\ x = (x \div ByteBits) * ByteBits + (x % ByteBits)
    BY <2>2, DivNat
  <2> QED
    BY <2>1, <2>3 DEF x
<1> HIDE DEF h, l
<1>7. h * ByteBits \in Nat
  BY <1>6
<1>8. n = f + h * ByteBits + l
  BY <1>1, <1>5, <1>6, <1>7
<1>9. CASE off + f = ByteBits
  <2>1. p + n = (at + h + 1) * ByteBits + l
    <3>1. (at + h + 1) * ByteBits = at * ByteBits + h * ByteBits + ByteBits
      BY <1>2, <1>6
    <3>2. at * ByteBits \in Nat
      BY <1>2
    <3> QED
      BY <1>2, <1>3, <1>5, <1>6, <1>7, <1>8, <1>9, <3>1, <3>2
  <2>2. at + h <= ByteCount - 1 /\ (l > 0 => at + h + 1 <= ByteCount - 1)
    <3> DEFINE x == at + h + 1
    <3>1. x \in Nat /\ x * ByteBits + l <= ByteCount * ByteBits
      BY <1>1, <1>2, <1>6, <2>1
    <3> HIDE DEF x
    <3>2. (x - ByteCount) * ByteBits = x * ByteBits - ByteCount * ByteBits
          /\ x * ByteBits \in Nat /\ ByteCount * ByteBits \in Nat
      BY <3>1
    <3>3. ASSUME x >= ByteCount + 1 PROVE FALSE
      <4>1. ByteBits * (x - ByteCount) >= ByteBits
        BY <3>1, <3>3, ProductGrows
      <4>2. ByteBits * (x - ByteCount) = (x - ByteCount) * ByteBits
        BY <3>1
      <4> QED
        BY <1>6, <3>1, <3>2, <4>1, <4>2
    <3>4. ASSUME x = ByteCount, l > 0 PROVE FALSE
      BY <1>6, <3>1, <3>2, <3>4
    <3>5. x <= ByteCount /\ (l > 0 => x <= ByteCount - 1)
      BY <1>6, <3>1, <3>3, <3>4
    <3> QED
      BY <1>2, <1>6, <3>5 DEF x
  <2> QED
    BY <1>2, <1>3, <1>5, <1>6, <1>7, <1>8, <1>9, <2>2
       DEF ByteParts, at, off, f, h, l, p
<1>10. CASE off + f # ByteBits
  <2>1. f = n
    BY <1>1, <1>2, <1>4, <1>10
  <2>2. h * ByteBits + l = 0
    BY <1>1, <1>6, <2>1
  <2>3. h = 0 /\ l = 0
    <3>1. CASE h >= 1
      <4>1. ByteBits * h >= ByteBits
        BY <1>6, <3>1, ProductGrows
      <4>2. ByteBits * h = h * ByteBits
        BY <1>6
      <4> QED
        BY <1>6, <2>2, <4>1, <4>2
    <3>2. CASE h = 0
      BY <1>6, <2>2, <3>2
    <3> QED
      BY <1>6, <3>1, <3>2
  <2> QED
    BY <1>2, <1>3, <1>5, <1>6, <1>7, <1>8, <2>3
       DEF ByteParts, at, off, f, h, l, p
<1> QED
  BY <1>9, <1>10

\* The number fits in n bits.
Fits(val, n) == val \in Nat /\ val < Pow2[n]

\* At the top: the number itself, and after some bytes what remains of it.
LEMMA ShiftedIs ==
  ASSUME BitBufferAssumption,
         NEW b, NEW n, Room(b, n), NEW val, Fits(val, n)
  PROVE  /\ UInt64(val * Pow2[2 * WordBits - n]) = Top(val, n)
         /\ \A i \in Nat : \A k \in Nat :
              k = InFirst(b, n) + i * ByteBits /\ k <= n =>
                Shifted(b, val, n, i) = Top(Remains(val, n, k), n - k)
<1> DEFINE W == Pow2[2 * WordBits]
           x == Top(val, n)
<1>1. /\ UpToBits(n, 2 * WordBits) /\ n \in Nat /\ val \in Nat /\ val < Pow2[n]
  BY DEF Room, Fits
<1>2. x \in 0 .. (W - 1)
  BY <1>1, TopFits
<1>3. W \in Nat \ {0}
  <2> DEFINE w == 2 * WordBits
  <2>1. w \in Nat
    BY BitSizes
  <2> HIDE DEF w
  <2>2. Pow2[w] \in Nat \ {0}
    BY <2>1, PowPositive
  <2> QED
    BY <2>2 DEF w
<1>4. x = val * Pow2[2 * WordBits - n] /\ UInt64(x) = x % W
  BY DEF Top, UInt64
<1> HIDE DEF W, x
<1>5. x % W = x
  BY <1>2, <1>3, ModOf
<1>6. UInt64(val * Pow2[2 * WordBits - n]) = Top(val, n)
  BY <1>4, <1>5 DEF x
<1>7. ASSUME NEW i \in Nat, NEW k \in Nat,
             k = InFirst(b, n) + i * ByteBits, k <= n
      PROVE  Shifted(b, val, n, i) = Top(Remains(val, n, k), n - k)
  <2>1. Shifted(b, val, n, i) = UInt64(Top(val, n) * Pow2[k])
    BY <1>6, <1>7 DEF Shifted
  <2>2. UpToBits(k, n)
    BY <1>1, <1>7 DEF UpToBits
  <2> QED
    BY <1>1, <2>1, <2>2, ShiftTop
<1> QED
  BY <1>6, <1>7

\* The current byte gets the first bits.
LEMMA FirstByte ==
  ASSUME BitBufferAssumption,
         NEW b, NEW n, Room(b, n), NEW val, Fits(val, n)
  PROVE  LET at == b.byte_offset_
             off == b.bit_offset_
             f == InFirst(b, n)
             A == Number(b, PartAt(at, 0), off)
             L == Number(b, PartAt(at, off + f), ByteBits - off - f)
             V == Taken(val, n, f)
         IN  /\ IsPart(A, V, L, off, f)
             /\ NewByte(b, val, n, at) = Between(A, V, L, off, f)
             /\ NewByte(b, val, n, at) \in Byte
<1> DEFINE at == b.byte_offset_
           off == b.bit_offset_
           f == InFirst(b, n)
           V == Taken(val, n, f)
           source == HighestByte(Top(val, n))
<1>1. /\ IsBytes(b) /\ at \in 0 .. (ByteCount - 1)
           /\ off \in 0 .. (ByteBits - 1)
      /\ f \in Nat /\ f <= n /\ ByteParts(off, f)
  BY LayoutIs
<1>2. /\ n \in Nat /\ val \in Nat /\ val < Pow2[n] /\ UpToBits(n, 2 * WordBits)
  BY DEF Room, Fits
<1>3. NewByte(b, val, n, at) = WritePartialByte(source, f, b.bytes[at], off)
  <2>1. UInt64(val * Pow2[2 * WordBits - n]) = Top(val, n)
    BY ShiftedIs
  <2>2. /\ at \in Nat /\ ~(at \in (at + 1) .. (at + Whole(b, n)))
        /\ ~(at = at + Whole(b, n) + 1)
    BY <1>1, LayoutIs
  <2> QED
    BY <2>1, <2>2 DEF NewByte
<1>4. f = IF n < ByteBits - off THEN n ELSE ByteBits - off
  BY DEF InFirst
<1> HIDE DEF at, off, f
<1>5. source \div Pow2[off] = V * Pow2[ByteBits - off - f]
  BY <1>1, <1>2, <1>4, HighTopFrom
<1>6. V \in Nat /\ V < Pow2[f]
  <2>1. UpToBits(f, n)
    BY <1>1, <1>2 DEF UpToBits
  <2> QED
    BY <1>2, <2>1, TakenIs
<1> HIDE DEF V, source
<1>7. LET A == Number(b, PartAt(at, 0), off)
          L == Number(b, PartAt(at, off + f), ByteBits - off - f)
          y == WritePartialByte(source, f, b.bytes[at], off)
      IN  /\ IsPart(A, V, L, off, f)
          /\ y = Between(A, V, L, off, f) /\ y \in Byte
  BY <1>1, <1>5, <1>6, PartialIs
<1> QED
  BY <1>3, <1>7 DEF at, off, f, V

\* Each whole byte gets the next bits.
LEMMA WholeByte ==
  ASSUME BitBufferAssumption,
         NEW b, NEW n, Room(b, n), NEW val, Fits(val, n),
         NEW j \in 0 .. (Whole(b, n) - 1),
         NEW k, k = InFirst(b, n) + j * ByteBits
  PROVE  /\ NewByte(b, val, n, b.byte_offset_ + 1 + j)
              = Taken(Remains(val, n, k), n - k, ByteBits)
         /\ NewByte(b, val, n, b.byte_offset_ + 1 + j) \in Byte
         /\ Taken(val, n, k + ByteBits)
              = Taken(val, n, k) * Pow2[ByteBits]
                  + Taken(Remains(val, n, k), n - k, ByteBits)
<1> USE BitSizes
<1> DEFINE at == b.byte_offset_
           f == InFirst(b, n)
           h == Whole(b, n)
           l == Left(b, n)
           r == Remains(val, n, k)
           m == n - k
           i == at + 1 + j
<1>1. /\ at \in 0 .. (ByteCount - 1) /\ f \in Nat /\ h \in Nat
      /\ l \in 0 .. (ByteBits - 1) /\ n = f + h * ByteBits + l
  BY LayoutIs
<1>2. /\ n \in Nat /\ val \in Nat /\ val < Pow2[n] /\ UpToBits(n, 2 * WordBits)
  BY DEF Room, Fits
<1> HIDE DEF at, f, h, l
<1>3. k \in Nat /\ k + ByteBits <= n
  <2>1. (h - 1 - j) * ByteBits \in Nat /\ j * ByteBits \in Nat
        /\ h * ByteBits \in Nat
    BY <1>1 DEF h
  <2>2. (h - 1 - j) * ByteBits = h * ByteBits - ByteBits - j * ByteBits
    BY <1>1
  <2>3. k = f + j * ByteBits
    BY DEF f
  <2> QED
    BY <1>1, <2>1, <2>2, <2>3
<1>4. NewByte(b, val, n, i) = HighestByte(Shifted(b, val, n, j))
  <2>1. /\ i # at /\ i \in (at + 1) .. (at + h) /\ i - at - 1 = j
        /\ i # at + h + 1 /\ at \in Nat /\ i \in Nat
    BY <1>1 DEF h
  <2> HIDE DEF i
  <2> QED
    BY <2>1 DEF NewByte, at, h
<1>5. Shifted(b, val, n, j) = Top(r, m)
  <2>1. j \in Nat /\ k <= n
    BY <1>1, <1>2, <1>3
  <2> QED
    BY <1>3, <2>1, ShiftedIs
<1>6. /\ UpToBits(k, n) /\ m \in Nat /\ m >= ByteBits
      /\ UpToBits(m, 2 * WordBits)
  BY <1>2, <1>3 DEF UpToBits
<1>7. r \in Nat /\ r < Pow2[m]
  BY <1>2, <1>6, TakenIs
<1> HIDE DEF r, m
<1>8. HighestByte(Top(r, m)) = Taken(r, m, ByteBits)
  BY <1>6, <1>7, HighTop
<1> DEFINE o == k + ByteBits
<1>9. Parted(o, k, ByteBits) /\ UpToBits(o, n)
  BY <1>2, <1>3 DEF Parted, UpToBits
<1> HIDE DEF o
<1>10. /\ Taken(val, n, o) = Taken(val, n, k) * Pow2[ByteBits]
                               + Taken(r, m, ByteBits)
       /\ Taken(r, m, ByteBits) < Pow2[ByteBits]
       /\ Taken(r, m, ByteBits) \in Nat
  BY <1>2, <1>9, TakeMore DEF r, m
<1>11. Taken(r, m, ByteBits) \in Byte
  <2>1. Pow2[ByteBits] \in Nat
    BY PowNat
  <2> QED
    BY <1>10, <2>1 DEF Byte
<1> QED
  BY <1>4, <1>5, <1>8, <1>10, <1>11 DEF r, m, o, i, at

\* The last byte gets the bits left, at its top.
LEMMA LastByte ==
  ASSUME BitBufferAssumption,
         NEW b, NEW n, Room(b, n), NEW val, Fits(val, n), Left(b, n) > 0
  PROVE  LET i == b.byte_offset_ + Whole(b, n) + 1
             l == Left(b, n)
             A == Number(b, PartAt(i, 0), 0)
             L == Number(b, PartAt(i, 0 + l), ByteBits - 0 - l)
             V == Remains(val, n, n - l)
         IN  /\ IsPart(A, V, L, 0, l) /\ ByteParts(0, l)
             /\ NewByte(b, val, n, i) = Between(A, V, L, 0, l)
             /\ NewByte(b, val, n, i) \in Byte
             /\ val = Taken(val, n, n - l) * Pow2[l] + V
<1>sizes. /\ ByteBits \in Nat /\ ByteBits >= 1
          /\ WordBits \in Nat /\ WordBits >= 2 * ByteBits
          /\ ByteCount \in Nat /\ ByteCount >= 1
          /\ Size \in Nat /\ Size = ByteCount * ByteBits
  BY BitSizes
<1> USE <1>sizes
<1> DEFINE at == b.byte_offset_
           f == InFirst(b, n)
           h == Whole(b, n)
           l == Left(b, n)
           k == n - l
           V == Remains(val, n, k)
           i == at + h + 1
           z == 0
           source == HighestByte(Top(V, l))
<1>1. /\ IsBytes(b) /\ at \in 0 .. (ByteCount - 1) /\ f \in Nat /\ h \in Nat
      /\ l \in 0 .. (ByteBits - 1) /\ n = f + h * ByteBits + l
      /\ h * ByteBits \in Nat /\ at + h + 1 <= ByteCount - 1
  BY LayoutIs
<1>2. /\ n \in Nat /\ val \in Nat /\ val < Pow2[n] /\ UpToBits(n, 2 * WordBits)
  BY DEF Room, Fits
<1> HIDE DEF at, f, h, l
<1>3. /\ k \in Nat /\ k = f + h * ByteBits /\ k <= n /\ n - k = l
      /\ UpToBits(k, n) /\ UpToBits(l, 2 * WordBits) /\ l \in Nat
           /\ l < ByteBits
  BY <1>1, <1>2 DEF UpToBits
<1>4. NewByte(b, val, n, i)
        = WritePartialByte(HighestByte(Shifted(b, val, n, h)), l, b.bytes[i],
          0)
  <2>1. /\ i # at /\ ~(i \in (at + 1) .. (at + h)) /\ i = at + h + 1 /\ l > 0
    BY <1>1 DEF l
  <2> HIDE DEF i
  <2> QED
    BY <2>1 DEF NewByte, at, h, l
<1>5. Shifted(b, val, n, h) = Top(V, l)
  BY <1>1, <1>3, ShiftedIs DEF f
<1>6. V \in Nat /\ V < Pow2[l] /\ val = Taken(val, n, k) * Pow2[l] + V
  <2> HIDE DEF k
  <2>1. /\ Remains(val, n, k) \in Nat /\ Remains(val, n, k) < Pow2[n - k]
        /\ val = Taken(val, n, k) * Pow2[n - k] + Remains(val, n, k)
    BY <1>2, <1>3, TakenIs
  <2> QED
    BY <1>3, <2>1
<1> HIDE DEF V
<1>7. source = V * Pow2[ByteBits - l]
  BY <1>3, <1>6, HighTop
<1>8. source \div Pow2[z] = V * Pow2[ByteBits - z - l]
  <2>1. Pow2[z] = 1 /\ ByteBits - z - l = ByteBits - l /\ ByteBits - l \in Nat
    BY <1>3, PowIs
  <2> DEFINE e == ByteBits - l
  <2> HIDE DEF e
  <2>2. Pow2[e] \in Nat
    BY <2>1, PowNat DEF e
  <2>3. V * Pow2[e] \in Int
    BY <1>6, <2>2
  <2>4. (V * Pow2[e]) \div 1 = V * Pow2[e]
    <3> DEFINE y == V * Pow2[e]
    <3> HIDE DEF y
    <3>1. y \div 1 = y
      BY <2>3 DEF y
    <3> QED
      BY <3>1 DEF y
  <2> QED
    BY <1>7, <2>1, <2>4 DEF e
<1>9. ByteParts(z, l) /\ i \in 0 .. (ByteCount - 1)
  BY <1>1, <1>3 DEF ByteParts
<1>10. NewByte(b, val, n, i) = WritePartialByte(source, l, b.bytes[i], z)
  BY <1>4, <1>5
<1> HIDE DEF source, z, i, k
<1>11. LET A == Number(b, PartAt(i, 0), z)
           L == Number(b, PartAt(i, z + l), ByteBits - z - l)
       IN  /\ IsPart(A, V, L, z, l)
           /\ NewByte(b, val, n, i) = Between(A, V, L, z, l)
           /\ NewByte(b, val, n, i) \in Byte
  BY <1>1, <1>6, <1>8, <1>9, <1>10, PartialIs
<1> QED
  BY <1>6, <1>9, <1>11 DEF V, i, z, k, at, h, l

\* All other bytes stay.
LEMMA OtherByte ==
  ASSUME BitBufferAssumption,
         NEW b, NEW n, Room(b, n), NEW val, NEW i \in 0 .. (ByteCount - 1),
         ~(i \in b.byte_offset_ .. (b.byte_offset_ + Whole(b, n))),
         ~(i = b.byte_offset_ + Whole(b, n) + 1 /\ Left(b, n) > 0)
  PROVE  NewByte(b, val, n, i) = b.bytes[i]
<1> DEFINE at == b.byte_offset_
           h == Whole(b, n)
<1>1. at \in Nat /\ h \in Nat
  BY LayoutIs
<1>2. i # at /\ ~(i \in (at + 1) .. (at + h))
  BY <1>1
<1> QED
  BY <1>2 DEF NewByte

\* Writing the bytes leaves a buffer and its cursor.
LEMMA WithBytesIs ==
  ASSUME BitBufferAssumption,
         NEW b, NEW n, Room(b, n), NEW val, Fits(val, n)
  PROVE  LET c == WithBytes(b, val, n)
         IN  /\ IsBuffer(c) /\ IsBytes(c)
             /\ c.byte_offset_ = b.byte_offset_
                  /\ c.bit_offset_ = b.bit_offset_
             /\ Position(c) = Position(b)
             /\ \A i \in 0 .. (ByteCount - 1) : c.bytes[i]
                  = NewByte(b, val, n, i)
<1> DEFINE at == b.byte_offset_
           h == Whole(b, n)
           l == Left(b, n)
           bytes == [i \in 0 .. (ByteCount - 1) |-> NewByte(b, val, n, i)]
           c == WithBytes(b, val, n)
<1>1. /\ IsBytes(b) /\ at \in 0 .. (ByteCount - 1) /\ h \in Nat
      /\ l \in 0 .. (ByteBits - 1) /\ IsBuffer(b)
  BY LayoutIs DEF Room
<1>2. ASSUME NEW i \in 0 .. (ByteCount - 1)
      PROVE NewByte(b, val, n, i) \in Byte
  <2>1. CASE i = at
    BY <2>1, FirstByte
  <2>2. CASE i \in (at + 1) .. (at + h)
    <3> DEFINE j == i - at - 1
    <3>1. j \in 0 .. (h - 1) /\ at + 1 + j = i
      BY <1>1, <2>2
    <3> HIDE DEF j
    <3>2. NewByte(b, val, n, at + 1 + j) \in Byte
      BY <3>1, WholeByte
    <3> QED
      BY <3>1, <3>2
  <2>3. CASE i = at + h + 1 /\ l > 0
    BY <2>3, LastByte
  <2>4. CASE ~(i \in at .. (at + h)) /\ ~(i = at + h + 1 /\ l > 0)
    <3>1. NewByte(b, val, n, i) = b.bytes[i]
      BY <2>4, OtherByte
    <3> QED
      BY <1>1, <3>1 DEF IsBytes
  <2>5. \/ i = at \/ i \in (at + 1) .. (at + h) \/ (i = at + h + 1 /\ l > 0)
        \/ ~(i \in at .. (at + h)) /\ ~(i = at + h + 1 /\ l > 0)
    BY <1>1
  <2> QED
    BY <2>1, <2>2, <2>3, <2>4, <2>5
<1> HIDE DEF at, h, l
<1>3. bytes \in [0 .. (ByteCount - 1) -> Byte]
  BY <1>2
<1>4. b \in Buffers /\ RemainingBitCount(b) >= 0
  BY <1>1 DEF IsBuffer
<1>5. c = [b EXCEPT !.bytes = bytes]
  <2>1. DOMAIN b.bytes = 0 .. (ByteCount - 1)
    BY <1>1 DEF IsBytes
  <2> QED
    BY <2>1 DEF WithBytes
<1>6. \A i \in 0 .. (ByteCount - 1) : bytes[i] = NewByte(b, val, n, i)
  OBVIOUS
<1> HIDE DEF bytes, c
<1>7. /\ c \in Buffers /\ c.bytes = bytes
      /\ c.byte_offset_ = b.byte_offset_ /\ c.bit_offset_ = b.bit_offset_
  BY <1>3, <1>4, <1>5 DEF Buffers
<1>8. RemainingBitCount(c) >= 0 /\ Position(c) = Position(b)
  BY <1>4, <1>7 DEF RemainingBitCount, Position
<1>9. IsBuffer(c) /\ IsBytes(c)
  BY <1>3, <1>7, <1>8 DEF IsBuffer, IsBytes
<1> QED
  BY <1>6, <1>7, <1>8, <1>9 DEF c

\* The bits written spell the number.
LEMMA WrittenSpells ==
  ASSUME BitBufferAssumption,
         NEW b, NEW n, Room(b, n), NEW val, Fits(val, n)
  PROVE  Number(WithBytes(b, val, n), Position(b), n) = val
<1> USE BitSizes
<1> DEFINE at == b.byte_offset_
           off == b.bit_offset_
           f == InFirst(b, n)
           h == Whole(b, n)
           l == Left(b, n)
           p == Position(b)
           c == WithBytes(b, val, n)
           To(j) == f + j * ByteBits
           Good == {j \in 0 .. h : Number(c, p, To(j)) = Taken(val, n, To(j))}
<1>1. /\ at \in 0 .. (ByteCount - 1) /\ off \in 0 .. (ByteBits - 1)
      /\ p \in Nat /\ p = at * ByteBits + off
      /\ f \in Nat /\ h \in Nat /\ l \in 0 .. (ByteBits - 1)
      /\ n = f + h * ByteBits + l /\ h * ByteBits \in Nat
      /\ ByteParts(off, f) /\ (off + f = ByteBits \/ (h = 0 /\ l = 0))
      /\ at + h <= ByteCount - 1 /\ (l > 0 => at + h + 1 <= ByteCount - 1)
  BY LayoutIs
<1>2. /\ n \in Nat /\ val \in Nat /\ val < Pow2[n] /\ p + n <= Size
  BY DEF Room, Fits
<1>3. /\ IsBytes(c)
      /\ \A i \in 0 .. (ByteCount - 1) : c.bytes[i] = NewByte(b, val, n, i)
  BY WithBytesIs
<1>4. 0 \in Good
  <2> DEFINE A == Number(b, PartAt(at, 0), off)
             L == Number(b, PartAt(at, off + f), ByteBits - off - f)
             V == Taken(val, n, f)
  <2>1. /\ IsPart(A, V, L, off, f)
        /\ c.bytes[at] = Between(A, V, L, off, f)
    BY <1>1, <1>3, FirstByte
  <2> HIDE DEF at, off, f, A, L, V, c
  <2>2. Number(c, PartAt(at, off), f) = V
    BY <1>1, <1>3, <2>1, BetweenSpells
  <2>3. PartAt(at, off) = p
    BY <1>1 DEF PartAt
  <2>4. To(0) = f
    BY <1>1
  <2> QED
    BY <1>1, <2>2, <2>3, <2>4 DEF V
<1> HIDE DEF at, off, f, h, l, p, c
<1>5. ASSUME NEW i \in 1 .. h, i - 1 \in Good PROVE i \in Good
  <2> DEFINE j == i - 1
             k == To(j)
             a == at + 1 + j
  <2>1. /\ j \in 0 .. (h - 1) /\ j \in Nat /\ a \in 0 .. (ByteCount - 1)
    BY <1>1
  <2>2. /\ k \in Nat /\ To(i) = k + ByteBits /\ k + ByteBits <= n
    <3>1. /\ j * ByteBits \in Nat /\ i * ByteBits = j * ByteBits + ByteBits
      BY <2>1
    <3>2. (h - i) * ByteBits \in Nat
      BY <1>1
    <3>3. (h - i) * ByteBits = h * ByteBits - i * ByteBits
      BY <1>1
    <3> QED
      BY <1>1, <3>1, <3>2, <3>3
  <2>3. p + k = a * ByteBits
    <3>1. off + f = ByteBits
      BY <1>1, <2>1
    <3>2. a * ByteBits = at * ByteBits + ByteBits + j * ByteBits
      BY <1>1, <2>1
    <3>3. at * ByteBits \in Nat /\ j * ByteBits \in Nat
      BY <1>1, <2>1
    <3> QED
      BY <1>1, <3>1, <3>2, <3>3
  <2>4. Number(c, p, k) = Taken(val, n, k)
    BY <1>5
  <2>5. k = f + j * ByteBits
    OBVIOUS
  <2>6. p \in Nat /\ p + k + ByteBits <= Size
    BY <1>1, <1>2, <2>2
  <2> HIDE DEF j, To
  <2>7. /\ NewByte(b, val, n, a) = Taken(Remains(val, n, k), n - k, ByteBits)
        /\ Taken(val, n, k + ByteBits)
             = Taken(val, n, k) * Pow2[ByteBits]
                 + Taken(Remains(val, n, k), n - k, ByteBits)
    BY <2>1, <2>5, WholeByte DEF at, h, f
  <2> HIDE DEF k, a
  <2>8. Number(c, a * ByteBits, ByteBits) = NewByte(b, val, n, a)
    BY <1>3, <2>1, NumberOfByte
  <2>9. Number(c, p, k + ByteBits)
          = Number(c, p, k) * Pow2[ByteBits] + Number(c, p + k, ByteBits)
    BY <1>3, <2>2, <2>6, NumberSplits
  <2>10. Number(c, p, To(i)) = Taken(val, n, To(i))
    BY <2>2, <2>3, <2>4, <2>7, <2>8, <2>9
  <2>11. i \in 0 .. h
    BY <1>1
  <2> QED
    BY <2>10, <2>11
<1> HIDE DEF Good
<1>6. 0 .. h \subseteq Good
  BY <1>1, <1>4, <1>5, UpTo
<1> DEFINE k == To(h)
<1>7. Number(c, p, k) = Taken(val, n, k)
  <2>1. h \in Good
    BY <1>1, <1>6
  <2> QED
    BY <2>1 DEF Good
<1>8. k \in Nat /\ n = k + l
  BY <1>1
<1>9. CASE l = 0
  <2>1. k = n
    BY <1>8, <1>9
  <2> QED
    BY <1>2, <1>7, <2>1, TakenAll DEF c, p
<1>10. CASE l > 0
  <2> DEFINE i == at + h + 1
             z == 0
             A == Number(b, PartAt(i, 0), z)
             L == Number(b, PartAt(i, z + l), ByteBits - z - l)
             V == Remains(val, n, n - l)
  <2>1. /\ IsPart(A, V, L, z, l) /\ ByteParts(z, l)
        /\ NewByte(b, val, n, i) = Between(A, V, L, z, l)
        /\ val = Taken(val, n, n - l) * Pow2[l] + V
    BY <1>10, LastByte DEF at, h, l
  <2>2. i \in 0 .. (ByteCount - 1)
    BY <1>1, <1>10
  <2>3. p + k = PartAt(i, z) /\ n - l = k
    <3>1. i * ByteBits = at * ByteBits + h * ByteBits + ByteBits
      BY <1>1
    <3>2. at * ByteBits \in Nat
      BY <1>1
    <3> QED
      BY <1>1, <1>10, <3>1, <3>2 DEF PartAt
  <2> HIDE DEF i, A, L, z, k, V
  <2>4. Number(c, PartAt(i, z), l) = V
    BY <1>3, <2>1, <2>2, BetweenSpells
  <2>5. Number(c, p, k + l) = Number(c, p, k) * Pow2[l] + Number(c, p + k, l)
    <3>1. p \in Nat /\ k \in Nat /\ l \in Nat /\ p + k + l <= Size
      BY <1>1, <1>2, <1>8
    <3> QED
      BY <1>3, <3>1, NumberSplits
  <2>6. Number(c, p, n) = val
    BY <1>7, <1>8, <2>1, <2>3, <2>4, <2>5
  <2> QED
    BY <2>6 DEF c, p
<1> QED
  BY <1>1, <1>9, <1>10

\* The j-th bit of a byte is one of the m from the o-th on.
InPart(j, o, m) ==
  o \in 0 .. ByteBits /\ m \in Nat /\ o + m <= ByteBits
      /\ j \in o .. (o + m - 1)

\* Bits that spell the same in both buffers are the same.
LEMMA BitOfPart ==
  ASSUME BitBufferAssumption,
         NEW b, IsBytes(b), NEW c, IsBytes(c),
         NEW i \in 0 .. (ByteCount - 1), NEW o, NEW m, NEW j, InPart(j, o, m),
         Number(b, PartAt(i, o), m) = Number(c, PartAt(i, o), m)
  PROVE  BitAt(b, PartAt(i, j)) = BitAt(c, PartAt(i, j))
<1> USE BitSizes
<1>0. o \in 0 .. ByteBits /\ m \in Nat /\ o + m <= ByteBits
          /\ j \in o .. (o + m - 1)
  BY DEF InPart
<1> DEFINE p == PartAt(i, o)
           k == j - o
<1>1. p = i * ByteBits + o /\ i * ByteBits \in Nat
  BY <1>0 DEF PartAt
<1>2. (i + 1) * ByteBits <= Size
          /\ (i + 1) * ByteBits = i * ByteBits + ByteBits
  <2>1. (ByteCount - 1 - i) * ByteBits \in Nat
    OBVIOUS
  <2>2. (ByteCount - 1 - i) * ByteBits
          = ByteCount * ByteBits - ByteBits - i * ByteBits
    OBVIOUS
  <2>3. (i + 1) * ByteBits = i * ByteBits + ByteBits
    OBVIOUS
  <2> QED
    BY <1>1, <2>1, <2>2, <2>3
<1>3. p \in Nat /\ p + m <= Size /\ k \in 0 .. (m - 1) /\ p + k = PartAt(i, j)
  BY <1>0, <1>1, <1>2 DEF PartAt
<1> HIDE DEF p, k
<1>4. BitAt(b, p + k) = BitAt(c, p + k)
  BY <1>0, <1>3, SameBits DEF p
<1> QED
  BY <1>3, <1>4

\* The bits around the ones written stay.
LEMMA BitsKept ==
  ASSUME BitBufferAssumption,
         NEW b, NEW n, Room(b, n), NEW val, Fits(val, n),
         NEW q \in 0 .. (Size - 1), q < Position(b) \/ q >= Position(b) + n
  PROVE  BitAt(WithBytes(b, val, n), q) = BitAt(b, q)
<1> USE BitSizes
<1> DEFINE at == b.byte_offset_
           off == b.bit_offset_
           f == InFirst(b, n)
           h == Whole(b, n)
           l == Left(b, n)
           p == Position(b)
           c == WithBytes(b, val, n)
           i == q \div ByteBits
           j == q % ByteBits
<1>1. /\ at \in 0 .. (ByteCount - 1) /\ off \in 0 .. (ByteBits - 1)
      /\ p \in Nat /\ p = at * ByteBits + off
      /\ f \in Nat /\ h \in Nat /\ l \in 0 .. (ByteBits - 1)
      /\ n = f + h * ByteBits + l /\ h * ByteBits \in Nat
      /\ ByteParts(off, f) /\ (off + f = ByteBits \/ (h = 0 /\ l = 0))
      /\ at + h <= ByteCount - 1 /\ (l > 0 => at + h + 1 <= ByteCount - 1)
      /\ IsBytes(b)
  BY LayoutIs
<1>2. /\ n \in Nat /\ p + n <= Size /\ (q < p \/ q >= p + n)
  BY DEF Room
<1>3. /\ IsBytes(c)
      /\ \A k \in 0 .. (ByteCount - 1) : c.bytes[k] = NewByte(b, val, n, k)
  BY WithBytesIs
<1>4. /\ i \in 0 .. (ByteCount - 1) /\ j \in 0 .. (ByteBits - 1)
      /\ q = i * ByteBits + j
  BY PlaceIn
<1>5. \A d : BitAt(d, q) = (d.bytes[i] \div Pow2[ByteBits - 1 - j]) % 2
  BY DEF BitAt
<1> HIDE DEF at, off, f, h, l, p, c, i, j
<1>12. q = PartAt(i, j)
  BY <1>4 DEF PartAt
<1>6. i * ByteBits \in Nat /\ at * ByteBits \in Nat
  BY <1>1, <1>4
<1>7. CASE i = at
  <2> DEFINE A == Number(b, PartAt(at, 0), off)
             L == Number(b, PartAt(at, off + f), ByteBits - off - f)
             V == Taken(val, n, f)
  <2>1. /\ IsPart(A, V, L, off, f)
        /\ c.bytes[at] = Between(A, V, L, off, f)
    BY <1>1, <1>3, FirstByte DEF at, off, f
  <2> HIDE DEF A, L, V
  <2>2. /\ Number(c, PartAt(at, 0), off) = A
        /\ Number(c, PartAt(at, off + f), ByteBits - off - f) = L
    BY <1>1, <1>3, <2>1, BetweenSpells
  <2>3. CASE j < off
    <3> DEFINE z == 0
    <3>1. InPart(j, z, off)
      BY <1>1, <1>4, <2>3 DEF InPart
    <3>2. Number(c, PartAt(at, z), off) = Number(b, PartAt(at, z), off)
      BY <2>2 DEF A
    <3> HIDE DEF z
    <3>3. BitAt(c, PartAt(at, j)) = BitAt(b, PartAt(at, j))
      BY <1>1, <1>3, <3>1, <3>2, BitOfPart
    <3> QED
      BY <1>7, <1>12, <3>3 DEF c
  <2>4. CASE j >= off
    <3> DEFINE o == off + f
               m == ByteBits - off - f
    <3>1. q >= p + n
      BY <1>1, <1>2, <1>4, <1>6, <1>7, <2>4
    <3>2. InPart(j, o, m)
      <4>1. j >= off + f
        BY <1>1, <1>4, <1>6, <1>7, <3>1
      <4> QED
        BY <1>1, <1>4, <4>1 DEF ByteParts, InPart
    <3>3. Number(c, PartAt(at, o), m) = Number(b, PartAt(at, o), m)
      BY <2>2 DEF L
    <3> HIDE DEF o, m
    <3>4. BitAt(c, PartAt(at, j)) = BitAt(b, PartAt(at, j))
      BY <1>1, <1>3, <3>2, <3>3, BitOfPart
    <3> QED
      BY <1>7, <1>12, <3>4 DEF c
  <2> QED
    BY <1>1, <1>4, <2>3, <2>4
<1>8. CASE i \in (at + 1) .. (at + h)
  <2>1. q >= p
    <3>1. (i - at - 1) * ByteBits \in Nat
      BY <1>1, <1>8
    <3>2. (i - at - 1) * ByteBits = i * ByteBits - at * ByteBits - ByteBits
      BY <1>1, <1>8
    <3> QED
      BY <1>1, <1>4, <1>6, <3>1, <3>2
  <2>2. q >= p + n
    BY <1>1, <1>2, <1>4, <2>1
  <2>3. off + f = ByteBits
    BY <1>1, <1>8
  <2>4. (at + h - i) * ByteBits \in Nat
    BY <1>1, <1>8
  <2>5. (at + h - i) * ByteBits = at * ByteBits + h * ByteBits - i * ByteBits
    BY <1>1, <1>8
  <2> QED
    BY <1>1, <1>4, <1>6, <2>2, <2>3, <2>4, <2>5
<1>9. CASE i = at + h + 1 /\ l > 0
  <2> DEFINE z == 0
             A == Number(b, PartAt(i, 0), z)
             L == Number(b, PartAt(i, z + l), ByteBits - z - l)
             V == Remains(val, n, n - l)
             m == ByteBits - z - l
             o == z + l
  <2>1. /\ IsPart(A, V, L, z, l) /\ ByteParts(z, l)
        /\ NewByte(b, val, n, i) = Between(A, V, L, z, l)
    BY <1>9, LastByte DEF at, h, l
  <2>2. c.bytes[i] = Between(A, V, L, z, l)
    BY <1>3, <1>4, <2>1
  <2>3. i * ByteBits = at * ByteBits + h * ByteBits + ByteBits
    BY <1>1, <1>9
  <2>4. off + f = ByteBits
    BY <1>1, <1>9
  <2>5. q >= p + n
    BY <1>1, <1>2, <1>4, <1>6, <2>3, <2>4
  <2>6. j >= l
    BY <1>1, <1>4, <1>6, <2>3, <2>4, <2>5
  <2>7. InPart(j, o, m)
    BY <1>1, <1>4, <2>6 DEF InPart
  <2> HIDE DEF z, A, L, V
  <2>8. Number(c, PartAt(i, o), m) = L
    BY <1>3, <1>4, <2>1, <2>2, BetweenSpells
  <2>9. Number(b, PartAt(i, o), m) = L
    BY DEF L
  <2> HIDE DEF o, m
  <2>10. BitAt(c, PartAt(i, j)) = BitAt(b, PartAt(i, j))
    BY <1>1, <1>3, <1>4, <2>7, <2>8, <2>9, BitOfPart
  <2> QED
    BY <1>12, <2>10 DEF c
<1>10. CASE ~(i \in at .. (at + h)) /\ ~(i = at + h + 1 /\ l > 0)
  <2>1. NewByte(b, val, n, i) = b.bytes[i]
    BY <1>4, <1>10, OtherByte DEF at, h, l
  <2>2. c.bytes[i] = b.bytes[i]
    BY <1>3, <1>4, <2>1
  <2> QED
    BY <1>5, <2>2 DEF c
<1>11. \/ i = at \/ i \in (at + 1) .. (at + h) \/ (i = at + h + 1 /\ l > 0)
       \/ (~(i \in at .. (at + h)) /\ ~(i = at + h + 1 /\ l > 0))
  BY <1>1, <1>4
<1> QED
  BY <1>7, <1>8, <1>9, <1>10, <1>11

\* What a write promises.
Writes(w, b, n, x) ==
  /\ w.ok /\ IsBuffer(w.buf) /\ Position(w.buf) = Position(b) + n
  /\ Number(w.buf, Position(b), n) = x
  /\ \A q \in 0 .. (Size - 1) :
       q < Position(b) \/ q >= Position(b) + n => BitAt(w.buf, q) = BitAt(b, q)

\* WriteBits writes the bits of the number or nothing at all.
LEMMA WriteBitsWrites ==
  ASSUME BitBufferAssumption,
         NEW b, IsBuffer(b), NEW n, n \in Nat, n # 0,
         UpToBits(n, 2 * WordBits), NEW val, Fits(val, n)
  PROVE  IF Position(b) + n <= Size
           THEN Writes(WriteBits(b, val, n), b, n, val)
           ELSE WriteBits(b, val, n) = Fail(b)
<1> DEFINE p == Position(b)
           c == WithBytes(b, val, n)
           w == WriteBits(b, val, n)
<1>1. /\ RemainingBitCount(b) = Size - p /\ p \in Nat /\ p <= Size
           /\ Size \in Nat
  BY BufferIs, BitSizes
<1>2. CASE p + n <= Size
  <2>1. Room(b, n)
    BY <1>2 DEF Room
  <2>2. w = ConsumeBits(c, n)
    BY <1>1, <1>2, WriteBitsIs
  <2>3. /\ IsBuffer(c) /\ IsBytes(c) /\ Position(c) = p
    BY <2>1, WithBytesIs
  <2>4. Number(c, p, n) = val
    BY <2>1, WrittenSpells
  <2>5. \A q \in 0 .. (Size - 1) :
          q < p \/ q >= p + n => BitAt(c, q) = BitAt(b, q)
    BY <2>1, BitsKept
  <2> HIDE DEF c, w
  <2>6. /\ w.ok /\ IsBuffer(w.buf) /\ w.buf.bytes = c.bytes
        /\ Position(w.buf) = p + n
    BY <1>2, <2>2, <2>3, ConsumeIs
  <2>7. IsBytes(w.buf)
    BY <2>6, BufferIs
  <2>8. Number(w.buf, p, n) = Number(c, p, n)
    BY <1>1, <1>2, <2>3, <2>6, <2>7, SameNumber
  <2>9. \A q : BitAt(w.buf, q) = BitAt(c, q)
    BY <2>6 DEF BitAt
  <2> QED
    BY <1>2, <2>4, <2>5, <2>6, <2>8, <2>9 DEF Writes, w
<1>3. CASE ~(p + n <= Size)
  BY <1>1, <1>3, WriteBitsIs
<1> QED
  BY <1>2, <1>3

-----------------------------------------------------------------------------
(* The codes: what is written is the word of the value.                    *)

\* A word that can be written with n bits.
Writable(n, x) ==
  n \in Nat /\ n # 0 /\ UpToBits(n, 2 * WordBits) /\ Fits(x, n)

\* The word of a Golomb value can be written.
LEMMA GolombWritable ==
  ASSUME BitBufferAssumption,
         NEW x \in Nat, x # 0, x < Pow2[WordBits]
  PROVE  /\ Writable(GolombLength(x), x)
         /\ \A b : WriteExponentialGolomb(b, x - 1)
                     = WriteBits(b, x, GolombLength(x))
<1> DEFINE c == CountBits(x)
           n == GolombLength(x)
<1>1. c \in 0 .. WordBits /\ c # 0 /\ HasBits(x, c) /\ WordBits \in Nat
  BY CountBitsOf, BitSizes
<1>2. n = 2 * c - 1
  BY DEF GolombLength
<1>3. ASSUME NEW b
      PROVE  WriteExponentialGolomb(b, x - 1) = WriteBits(b, x, n)
  <2>1. Pow2[WordBits] \in Nat
    BY <1>1, PowNat
  <2>2. x - 1 # UInt32Max /\ x - 1 + 1 = x
    BY <2>1 DEF UInt32Max
  <2>3. CountBits(x - 1 + 1) * 2 - 1 = n
    BY <1>1, <2>2 DEF GolombLength
  <2> HIDE DEF n
  <2> QED
    BY <2>2, <2>3 DEF WriteExponentialGolomb
<1> HIDE DEF c, n
<1>4. n \in Nat /\ n # 0 /\ UpToBits(n, 2 * WordBits) /\ c \in Nat /\ c <= n
  BY <1>1, <1>2 DEF UpToBits
<1>5. x < Pow2[c] /\ Pow2[c] <= Pow2[n]
  BY <1>1, <1>4, PowGrows DEF HasBits
<1>6. Pow2[c] \in Nat /\ Pow2[n] \in Nat
  BY <1>4, PowNat
<1>7. Fits(x, n)
  BY <1>5, <1>6 DEF Fits
<1> QED
  BY <1>3, <1>4, <1>7 DEF Writable, n

\* Every write is that of the word of the value, or fails.
WritesWord(b, code, val) ==
  IF Encodable(code, val)
    THEN /\ Writable(CodeLength(code, val), CodeWord(code, val))
         /\ Write(b, code, val)
              = WriteBits(b, CodeWord(code, val), CodeLength(code, val))
    ELSE Write(b, code, val) = Fail(b)

\* What is written for a fixed width is the number.
LEMMA BitsWrite ==
  ASSUME BitBufferAssumption,
         NEW b, NEW w \in 1 .. WordBits, NEW val \in Values(<<"bits", w>>)
  PROVE  WritesWord(b, <<"bits", w>>, val)
<1> DEFINE code == <<"bits", w>>
<1>1. /\ Values(code) = 0 .. (Pow2[w] - 1)
      /\ Write(b, code, val) = WriteBits(b, val, w)
      /\ CodeLength(code, val) = w /\ CodeWord(code, val) = val
  BY BitsCode
<1>2. /\ w \in Nat /\ w # 0 /\ w <= WordBits /\ WordBits \in Nat
      /\ UpToBits(w, 2 * WordBits)
  BY BitSizes DEF UpToBits
<1>3. /\ Pow2[w] \in Nat /\ Pow2[WordBits] \in Nat
      /\ Pow2[w] <= Pow2[WordBits]
  BY <1>2, PowNat, PowGrows
<1> HIDE DEF code
<1>4. val \in Values(code)
  BY DEF code
<1>5. Fits(val, w) /\ Encodable(code, val)
  BY <1>1, <1>3, <1>4 DEF Fits, Encodable
<1>6. WritesWord(b, code, val)
  BY <1>1, <1>2, <1>5 DEF WritesWord, Writable
<1> QED
  BY <1>6 DEF code

\* What is written for a Golomb value is its word.
LEMMA GolombWrite ==
  ASSUME BitBufferAssumption,
         NEW b, NEW val \in Values(<<"golomb", 0>>)
  PROVE  WritesWord(b, <<"golomb", 0>>, val)
<1> DEFINE code == <<"golomb", 0>>
           x == val + 1
           P == Pow2[WordBits]
<1>1. /\ Values(code) = 0 .. UInt32Max
      /\ Write(b, code, val) = WriteExponentialGolomb(b, val)
      /\ CodeLength(code, val) = GolombLength(x)
      /\ CodeWord(code, val) = x
  BY GolombCode
<1>2. P \in Nat /\ UInt32Max = P - 1
  BY BitSizes, PowNat DEF UInt32Max
<1>3. val \in 0 .. UInt32Max
  BY <1>1
<1>4. x \in Nat /\ x # 0 /\ x - 1 = val /\ (x < P <=> val # UInt32Max)
  BY <1>2, <1>3
<1>5. Encodable(code, val) <=> x < P
  BY <1>1 DEF Encodable
<1> HIDE DEF code, x, P
<1>6. CASE x < P
  <2>1. /\ Writable(GolombLength(x), x)
        /\ WriteExponentialGolomb(b, x - 1) = WriteBits(b, x, GolombLength(x))
    BY <1>4, <1>6, GolombWritable DEF P
  <2>2. WritesWord(b, code, val)
    BY <1>1, <1>4, <1>5, <1>6, <2>1 DEF WritesWord
  <2> QED
    BY <2>2 DEF code
<1>7. CASE ~(x < P)
  <2>1. WriteExponentialGolomb(b, val) = Fail(b)
    BY <1>4, <1>7 DEF WriteExponentialGolomb
  <2>2. WritesWord(b, code, val)
    BY <1>1, <1>5, <1>7, <2>1 DEF WritesWord
  <2> QED
    BY <2>2 DEF code
<1> QED
  BY <1>6, <1>7

\* What is written for a signed Golomb value is its word.
LEMMA SignedWrite ==
  ASSUME BitBufferAssumption,
         NEW b, NEW val \in Values(<<"signed", 0>>)
  PROVE  WritesWord(b, <<"signed", 0>>, val)
<1> DEFINE code == <<"signed", 0>>
           x == SignedWord(val)
           P == Pow2[WordBits]
           H == Pow2[WordBits - 1]
<1>1. /\ Values(code) = Int32Min .. (-Int32Min - 1)
      /\ Write(b, code, val) = WriteSignedExponentialGolomb(b, val)
      /\ CodeLength(code, val) = GolombLength(x)
      /\ CodeWord(code, val) = x
  BY SignedCode
<1>2. /\ H \in Nat /\ H >= 2 /\ P = 2 * H /\ Int32Min = -H
      /\ UInt32Max = 2 * H - 1
  BY SignedSizes
<1> HIDE DEF P, H
<1>3. val \in (-H) .. (H - 1)
  BY <1>1, <1>2
<1>4. x = IF val > 0 THEN 2 * val ELSE 1 - 2 * val
  BY DEF SignedWord
<1>5. Encodable(code, val) <=> x < P
  BY <1>1 DEF Encodable, P
<1> HIDE DEF code, x
<1>6. ASSUME NEW y \in 0 .. (P - 1) PROVE UInt32(y) = y
  <2>1. P \in Nat \ {0}
    BY <1>2
  <2>2. y % P = y
    BY <2>1, ModOf
  <2> QED
    BY <2>2 DEF UInt32, P
<1>7. x \in Nat /\ x # 0 /\ (x < P <=> val # Int32Min)
  BY <1>2, <1>3, <1>4
<1>8. CASE val # Int32Min
  <2>1. WriteSignedExponentialGolomb(b, val) = WriteExponentialGolomb(b, x - 1)
    <3>1. CASE val = 0
      <4>1. x - 1 = 0
        BY <1>4, <3>1
      <4>2. ~(val > 0) /\ val # Int32Min
        BY <1>2, <3>1
      <4>3. WriteSignedExponentialGolomb(b, val) = WriteExponentialGolomb(b, 0)
        BY <3>1, <4>2, Zenon DEF WriteSignedExponentialGolomb
      <4> QED
        BY <4>1, <4>3
    <3>2. CASE val > 0
      <4>1. val * 2 \in 0 .. (P - 1) /\ val * 2 = x
        BY <1>2, <1>3, <1>4, <3>2
      <4>2. UInt32(val * 2) - 1 = x - 1
        BY <1>6, <4>1
      <4>3. val # 0 /\ val # Int32Min
        BY <1>2, <1>3, <3>2
      <4> QED
        BY <3>2, <4>2, <4>3 DEF WriteSignedExponentialGolomb
    <3>3. CASE val < 0
      <4>1. -val * 2 \in 0 .. (P - 1) /\ -val * 2 = x - 1
        BY <1>2, <1>3, <1>4, <1>8, <3>3
      <4>2. UInt32(-val * 2) = x - 1
        BY <1>6, <4>1
      <4>3. ~(val > 0) /\ val # 0
        BY <1>2, <1>3, <3>3
      <4> QED
        BY <1>8, <4>2, <4>3 DEF WriteSignedExponentialGolomb
    <3> QED
      BY <1>2, <1>3, <3>1, <3>2, <3>3
  <2>2. x < P
    BY <1>7, <1>8
  <2>3. /\ Writable(GolombLength(x), x)
        /\ WriteExponentialGolomb(b, x - 1) = WriteBits(b, x, GolombLength(x))
    BY <1>7, <2>2, GolombWritable DEF P
  <2>4. WritesWord(b, code, val)
    BY <1>1, <1>5, <2>1, <2>2, <2>3 DEF WritesWord
  <2> QED
    BY <2>4 DEF code
<1>9. CASE val = Int32Min
  <2>1. val # 0 /\ ~(val > 0)
    BY <1>2, <1>9
  <2>2. WriteSignedExponentialGolomb(b, val) = Fail(b)
    BY <1>9, <2>1 DEF WriteSignedExponentialGolomb
  <2>3. WritesWord(b, code, val)
    BY <1>1, <1>5, <1>7, <1>9, <2>2 DEF WritesWord
  <2> QED
    BY <2>3 DEF code
<1> QED
  BY <1>8, <1>9

\* What is written for a non symmetric value is its word.
LEMMA NonSymmetricWrite ==
  ASSUME BitBufferAssumption,
         NEW b, NEW num \in NumValues,
           NEW val \in Values(<<"nonsymmetric", num>>)
  PROVE  WritesWord(b, <<"nonsymmetric", num>>, val)
<1> DEFINE code == <<"nonsymmetric", num>>
           c == CountBits(num)
           H == Pow2[c - 1]
           m == Pow2[c] - num
           n == c - 1
<1>1. /\ num \in Nat /\ num >= 2 /\ c \in 2 .. WordBits
      /\ H \in Nat /\ Pow2[c] = 2 * H /\ H <= num /\ num < 2 * H
      /\ m \in 1 .. H /\ 2 * H <= Pow2[WordBits] /\ Pow2[WordBits] \in Nat
  BY NonSymmetricSizes
<1>2. /\ Values(code) = 0 .. (num - 1)
      /\ Write(b, code, val) = WriteNonSymmetric(b, val, num)
      /\ CodeLength(code, val) = IF val < m THEN n ELSE c
      /\ CodeWord(code, val) = IF val < m THEN val ELSE val + Pow2[c] - num
  BY NonSymmetricCode
<1>4. val \in 0 .. (num - 1)
  BY <1>2
<1>3. WriteNonSymmetric(b, val, num)
        = IF val < m THEN WriteBits(b, val, n) ELSE WriteBits(b, val + m, c)
  <2> DEFINE k == NumMinBitsValues(num)
  <2>1. WriteNonSymmetric(b, val, num)
          = IF val < k THEN WriteBits(b, val, n) ELSE WriteBits(b, val + k, c)
    BY DEF WriteNonSymmetric
  <2>2. k = m \/ (num = H /\ m = H /\ k \in Int /\ k >= H)
    BY MinBitsValues
  <2> HIDE DEF k, m, H
  <2>3. CASE k = m
    BY <2>1, <2>3
  <2>4. CASE num = H /\ m = H /\ k \in Int /\ k >= H
    <3>1. val < m /\ val < k
      BY <1>1, <1>4, <2>4
    <3> QED
      BY <2>1, <3>1
  <2> QED
    BY <2>2, <2>3, <2>4
<1>5. val + Pow2[c] - num = val + m /\ m = 2 * H - num
  BY <1>1, <1>4
<1>6. /\ n \in Nat /\ n # 0 /\ c \in Nat /\ c # 0
      /\ UpToBits(n, 2 * WordBits) /\ UpToBits(c, 2 * WordBits)
  BY <1>1, BitSizes DEF UpToBits
<1>7. Pow2[n] = H
  OBVIOUS
<1> HIDE DEF code, c, H, m, n
<1>8. CASE val < m
  <2>1. Fits(val, n) /\ val < Pow2[WordBits]
    BY <1>1, <1>4, <1>7, <1>8 DEF Fits
  <2>2. WritesWord(b, code, val)
    BY <1>2, <1>3, <1>6, <1>8, <2>1 DEF WritesWord, Writable, Encodable
  <2> QED
    BY <2>2 DEF code
<1>9. CASE ~(val < m)
  <2>1. Fits(val + m, c) /\ val + m < Pow2[WordBits]
    BY <1>1, <1>4, <1>5 DEF Fits
  <2>2. WritesWord(b, code, val)
    BY <1>2, <1>3, <1>5, <1>6, <1>9, <2>1 DEF WritesWord, Writable, Encodable
  <2> QED
    BY <2>2 DEF code
<1> QED
  BY <1>8, <1>9

\* What is written for a value is its word, in every code.
LEMMA WriteIs ==
  ASSUME BitBufferAssumption,
         NEW b, NEW code \in Codes, NEW val \in Values(code)
  PROVE  WritesWord(b, code, val)
BY CodesAre, BitsWrite, NonSymmetricWrite, GolombWrite, SignedWrite

-----------------------------------------------------------------------------
(* The invariant.                                                          *)

\* What the two properties say of a buffer, whichever it is.
ReadsSpelled(b) ==
  \A code \in Codes :
    LET r == Read(b, code)
    IN IF r.ok
         THEN /\ Spelled(b, code) = {r.val}
              /\ r.buf.bytes = b.bytes
              /\ Position(r.buf) = Position(b) + CodeLength(code, r.val)
         ELSE /\ Spelled(b, code) = {}
              /\ code[1] # "nonsymmetric" => r.buf = b

\* Reading a word from any buffer gives what it spells.
LEMMA EveryRead ==
  ASSUME BitBufferAssumption,
         NEW b, IsBuffer(b)
  PROVE  ReadsSpelled(b)
<1> SUFFICES ASSUME NEW code \in Codes
             PROVE  LET r == Read(b, code)
                    IN IF r.ok
                         THEN /\ Spelled(b, code) = {r.val}
                              /\ r.buf.bytes = b.bytes
                              /\ Position(r.buf)
                                   = Position(b) + CodeLength(code, r.val)
                         ELSE /\ Spelled(b, code) = {}
                              /\ code[1] # "nonsymmetric" => r.buf = b
  BY DEF ReadsSpelled
<1>1. Answers(b, code, Read(b, code))
  BY ReadAnswers
<1> QED
  BY <1>1 DEF Answers

\* What WrittenIsRead says of one value in one buffer.
ReadBack(b, code, val) ==
  LET w == Write(b, code, val)
      end == Position(b) + CodeLength(code, val)
      r == Read(Seek(w.buf, b.byte_offset_, b.bit_offset_).buf, code)
  IN /\ code[1] = "nonsymmetric" =>
          SizeNonSymmetricBits(val, code[2]) = CodeLength(code, val)
     /\ IF Encodable(code, val) /\ end <= Size
        THEN /\ w.ok /\ r.ok /\ r.val = val
             /\ Position(w.buf) = end
             /\ \A p \in (0..(Size - 1)) \ (Position(b)..(end - 1)) :
                  BitAt(w.buf, p) = BitAt(b, p)
        ELSE ~w.ok /\ w.buf = b

\* A write leaves a buffer behind.
LEMMA WriteKeeps ==
  ASSUME BitBufferAssumption,
         NEW b, IsBuffer(b), NEW code \in Codes, NEW val \in Values(code)
  PROVE  IsBuffer(Write(b, code, val).buf)
<1> DEFINE n == CodeLength(code, val)
           x == CodeWord(code, val)
           w == Write(b, code, val)
<1>1. WritesWord(b, code, val)
  BY WriteIs
<1>2. Fail(b).buf = b
  BY DEF Fail
<1>3. CASE Encodable(code, val)
  <2>1. Writable(n, x) /\ w = WriteBits(b, x, n)
    BY <1>1, <1>3 DEF WritesWord
  <2>2. n \in Nat /\ n # 0 /\ UpToBits(n, 2 * WordBits) /\ Fits(x, n)
    BY <2>1 DEF Writable
  <2>3. IF Position(b) + n <= Size THEN Writes(w, b, n, x) ELSE w = Fail(b)
    BY <2>1, <2>2, WriteBitsWrites
  <2> QED
    BY <2>3, <1>2 DEF Writes
<1>4. CASE ~Encodable(code, val)
  <2>1. w = Fail(b)
    BY <1>1, <1>4 DEF WritesWord
  <2> QED
    BY <2>1, <1>2
<1> QED
  BY <1>3, <1>4

\* The length of a non symmetric value is the one that is told.
LEMMA SizeIsLength ==
  ASSUME BitBufferAssumption,
         NEW code \in Codes, NEW val \in Values(code),
         code[1] = "nonsymmetric"
  PROVE  SizeNonSymmetricBits(val, code[2]) = CodeLength(code, val)
<1>1. PICK num \in NumValues : code = <<"nonsymmetric", num>>
  BY CodesAre
<1> DEFINE c == CountBits(num)
           H == Pow2[c - 1]
           m == Pow2[c] - num
           k == NumMinBitsValues(num)
<1>2. /\ num \in Nat /\ H \in Nat /\ m \in 1 .. H
  BY NonSymmetricSizes
<1>3. /\ val \in 0 .. (num - 1)
      /\ CodeLength(code, val) = IF val < m THEN c - 1 ELSE c
  BY <1>1, NonSymmetricCode
<1>4. SizeNonSymmetricBits(val, code[2]) = IF val < k THEN c - 1 ELSE c
  BY <1>1 DEF SizeNonSymmetricBits
<1>5. k = m \/ (num = H /\ m = H /\ k \in Int /\ k >= H)
  BY MinBitsValues
<1> HIDE DEF c, H, m, k
<1> QED
  BY <1>2, <1>3, <1>4, <1>5

\* A value that is written into any buffer is read from it again.
LEMMA EveryWrite ==
  ASSUME BitBufferAssumption,
         NEW b, IsBuffer(b), NEW code \in Codes, NEW val \in Values(code)
  PROVE  ReadBack(b, code, val)
<1> DEFINE n == CodeLength(code, val)
           x == CodeWord(code, val)
           w == Write(b, code, val)
           p == Position(b)
           end == p + n
           d == Seek(w.buf, b.byte_offset_, b.bit_offset_).buf
           r == Read(d, code)
<1>1. WritesWord(b, code, val)
  BY WriteIs
<1>2. Fail(b).buf = b /\ ~Fail(b).ok
  BY DEF Fail
<1>3. p \in Nat /\ p <= Size /\ IsBytes(b)
  BY BufferIs, BitSizes
<1>6. code[1] = "nonsymmetric" =>
        SizeNonSymmetricBits(val, code[2]) = CodeLength(code, val)
  BY SizeIsLength
<1>4. CASE Encodable(code, val) /\ end <= Size
  <2>1. Writable(n, x) /\ w = WriteBits(b, x, n)
    BY <1>1, <1>4 DEF WritesWord
  <2>2. n \in Nat /\ n # 0 /\ UpToBits(n, 2 * WordBits) /\ Fits(x, n)
    BY <2>1 DEF Writable
  <2>3. IF p + n <= Size THEN Writes(w, b, n, x) ELSE w = Fail(b)
    BY <2>1, <2>2, WriteBitsWrites
  <2>4. Writes(w, b, n, x)
    BY <2>3, <1>4
  <2>5. IsBuffer(w.buf) /\ Position(w.buf) = end /\ w.ok
    BY <2>4 DEF Writes
  <2>6. IsBuffer(d) /\ d.bytes = w.buf.bytes /\ Position(d) = p
    BY <2>5, SeekIs
  <2>7. IsBytes(d) /\ IsBytes(w.buf)
    BY <2>5, <2>6, BufferIs
  <2>8. Number(d, p, n) = Number(w.buf, p, n)
    BY <2>2, <2>6, <2>7, <1>3, <1>4, SameNumber
  <2>9. Number(d, p, n) = x
    BY <2>4, <2>8 DEF Writes
  <2>10. val \in Spelled(d, code)
    BY <2>6, <2>9, <1>4 DEF Spelled, Encodable
  <2>11. Answers(d, code, r)
    BY <2>6, ReadAnswers
  <2>12. r.ok /\ r.val = val
    BY <2>10, <2>11 DEF Answers
  <2>13. ASSUME NEW q \in (0 .. (Size - 1)) \ (p .. (end - 1))
         PROVE  BitAt(w.buf, q) = BitAt(b, q)
    <3>1. q \in 0 .. (Size - 1) /\ (q < p \/ q >= p + n)
      BY <1>3, <2>2
    <3> QED
      BY <3>1, <2>4 DEF Writes
  <2> QED
    BY <1>4, <1>6, <2>5, <2>12, <2>13 DEF ReadBack
<1>5. CASE ~(Encodable(code, val) /\ end <= Size)
  <2>1. w = Fail(b)
    <3>1. CASE ~Encodable(code, val)
      BY <1>1, <3>1 DEF WritesWord
    <3>2. CASE Encodable(code, val)
      <4>1. Writable(n, x) /\ w = WriteBits(b, x, n)
        BY <1>1, <3>2 DEF WritesWord
      <4>2. n \in Nat /\ n # 0 /\ UpToBits(n, 2 * WordBits) /\ Fits(x, n)
        BY <4>1 DEF Writable
      <4>3. IF p + n <= Size THEN Writes(w, b, n, x) ELSE w = Fail(b)
        BY <4>1, <4>2, WriteBitsWrites
      <4> QED
        BY <1>5, <3>2, <4>3
    <3> QED
      BY <3>1, <3>2
  <2> QED
    BY <1>5, <1>6, <2>1, <1>2 DEF ReadBack
<1> QED
  BY <1>4, <1>5

\* A cursor that is put anywhere stays in the buffer.
LEMMA SeekKeeps ==
  ASSUME BitBufferAssumption,
         NEW b, IsBuffer(b), NEW i \in Nat, NEW j \in Nat
  PROVE  IsBuffer(Seek(b, i, j).buf)
<1> DEFINE c == [b EXCEPT !.byte_offset_ = i, !.bit_offset_ = j]
<1>1. b \in Buffers /\ ByteCount \in Nat /\ ByteBits \in Nat \ {0}
  BY BitSizes DEF IsBuffer
<1>2. CASE \/ i > ByteCount
           \/ j > ByteBits - 1
           \/ i = ByteCount /\ j > 0
  BY <1>2 DEF Seek, Fail
<1>3. CASE ~(\/ i > ByteCount
             \/ j > ByteBits - 1
             \/ i = ByteCount /\ j > 0)
  <2>1. Seek(b, i, j).buf = c
    BY <1>3 DEF Seek, Done
  <2>2. c \in Buffers /\ c.byte_offset_ = i /\ c.bit_offset_ = j
    <3>1. i \in 0 .. ByteCount /\ j \in 0 .. (ByteBits - 1)
      BY <1>1, <1>3
    <3> HIDE <1>3
    <3> QED
      BY <1>1, <3>1 DEF Buffers
  <2>3. (ByteCount - i) * ByteBits - j >= 0
    <3>1. CASE i = ByteCount
      BY <1>1, <1>3, <3>1
    <3>2. CASE i # ByteCount
      <4>1. PICK k \in Nat : ByteCount - i = k + 1
        <5>1. ByteCount - i - 1 \in Nat
                  /\ ByteCount - i = (ByteCount - i - 1) + 1
          BY <1>1, <1>3, <3>2
        <5> QED
          BY <5>1
      <4>2. (k + 1) * ByteBits = k * ByteBits + ByteBits
                /\ k * ByteBits \in Nat
        BY <1>1
      <4>3. j <= ByteBits - 1
        BY <1>1, <1>3
      <4> QED
        BY <1>1, <4>1, <4>2, <4>3
    <3> QED
      BY <3>1, <3>2
  <2> QED
    BY <2>1, <2>2, <2>3 DEF IsBuffer, RemainingBitCount
<1> QED
  BY <1>2, <1>3

\* The object of the start: zeros, and the cursor before the first bit.
LEMMA FreshIs ==
  ASSUME BitBufferAssumption,
         NEW b, b = [bytes |-> [i \in 0..(ByteCount - 1) |-> 0],
                     byte_offset_ |-> 0, bit_offset_ |-> 0]
  PROVE  IsBuffer(b)
<1>1. ByteCount \in Nat /\ ByteBits \in Nat \ {0}
  BY BitSizes
<1>2. Pow2[ByteBits] \in Nat \ {0}
  BY <1>1, PowPositive
<1>3. 0 \in Byte /\ 0 \in 0 .. ByteCount /\ 0 \in 0 .. (ByteBits - 1)
  BY <1>1, <1>2 DEF Byte
<1>4. b \in Buffers
  BY <1>3 DEF Buffers
<1>5. ByteCount * ByteBits \in Nat
  BY <1>1
<1>6. RemainingBitCount(b) = ByteCount * ByteBits
  BY <1>1, <1>5 DEF RemainingBitCount
<1> QED
  BY <1>4, <1>5, <1>6 DEF IsBuffer

\* A step over bits or bytes stays in the buffer.
LEMMA ConsumeKeeps ==
  ASSUME BitBufferAssumption,
         NEW b, IsBuffer(b), NEW n \in Nat
  PROVE  IsBuffer(ConsumeBits(b, n).buf)
BY ConsumeIs DEF Fail

\* Every call leaves a buffer behind.
LEMMA CallsKeep ==
  ASSUME BitBufferAssumption,
         IsBuffer(buf), Next PROVE IsBuffer(buf')
<1>1. ASSUME NEW code \in Codes, ReadValue(code) PROVE IsBuffer(buf')
  <2>1. Answers(buf, code, Read(buf, code))
    BY ReadAnswers
  <2> QED
    BY <1>1, <2>1 DEF Answers, ReadValue
<1>2. ASSUME NEW code \in Codes, NEW val \in Values(code),
             WriteValue(code, val)
      PROVE  IsBuffer(buf')
  BY <1>2, WriteKeeps DEF WriteValue
<1>3. ASSUME NEW n \in 0 .. (ByteBits + 1), buf' = ConsumeBits(buf, n).buf
      PROVE  IsBuffer(buf')
  <2>1. n \in Nat
    BY BitSizes
  <2> QED
    BY <1>3, <2>1, ConsumeKeeps
<1>4. ASSUME NEW n \in 0 .. ByteCount, buf' = ConsumeBytes(buf, n).buf
      PROVE  IsBuffer(buf')
  <2>1. n * ByteBits \in Nat
    BY BitSizes
  <2> QED
    BY <1>4, <2>1, ConsumeKeeps DEF ConsumeBytes
<1>5. ASSUME NEW i \in 0 .. (ByteCount + 1), NEW j \in 0 .. ByteBits,
             buf' = Seek(buf, i, j).buf
      PROVE  IsBuffer(buf')
  <2>1. i \in Nat /\ j \in Nat
    BY BitSizes
  <2> QED
    BY <1>5, <2>1, SeekKeeps
<1> QED
  BY <1>1, <1>2, <1>3, <1>4, <1>5 DEF Next

\* The calls of BitBuffer and BitBufferWriter, in any order: the cursor
\* stays in the buffer; a read returns the value whose code word comes next,
\* or fails and moves nothing; and what is written is read again, with no
\* bit changed around it.
THEOREM BitsAreKept ==
  ASSUME BitBufferAssumption
  PROVE  Spec => [](TypeOK /\ ReadsWhatIsSpelled /\ WrittenIsRead)
<1>1. Init => IsBuffer(buf)
  BY FreshIs DEF Init
<1>2. IsBuffer(buf) /\ [Next]_buf => IsBuffer(buf)'
  <2>1. ASSUME IsBuffer(buf), [Next]_buf PROVE IsBuffer(buf')
    <3>1. CASE Next
      BY <2>1, <3>1, CallsKeep
    <3>2. CASE buf' = buf
      BY <2>1, <3>2
    <3> QED
      BY <2>1, <3>1, <3>2
  <2> QED
    BY <2>1 DEF IsBuffer, RemainingBitCount
<1>3. IsBuffer(buf) => TypeOK /\ ReadsWhatIsSpelled /\ WrittenIsRead
  <2> SUFFICES ASSUME IsBuffer(buf)
               PROVE  TypeOK /\ ReadsWhatIsSpelled /\ WrittenIsRead
    OBVIOUS
  <2>1. TypeOK
    BY DEF TypeOK, IsBuffer
  <2>2. ReadsWhatIsSpelled
    BY EveryRead DEF ReadsSpelled, ReadsWhatIsSpelled
  <2>3. \A code \in Codes : \A val \in Values(code) : ReadBack(buf, code, val)
    BY EveryWrite
  <2>4. WrittenIsRead
    BY <2>3 DEF ReadBack, WrittenIsRead
  <2> QED
    BY <2>1, <2>2, <2>4
<1> QED
  BY <1>1, <1>2, <1>3, PTL DEF Spec

===============================================================================
