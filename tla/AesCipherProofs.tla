--------------------------- MODULE AesCipherProofs ---------------------------
(***************************************************************************)
(* Proofs about AesCipher, for every secret, block and text: what one key  *)
(* seals another opens, round by round back; GHASH is a sum of products;   *)
(* the block cipher implements FIPS 197.                                   *)
(***************************************************************************)
EXTENDS AesCipher, FiniteSetTheorems, SequenceTheorems, WellFoundedInduction, TLAPS

-----------------------------------------------------------------------------
(* Induction and recursion over the natural numbers, without operators as   *)
(* parameters: a set of numbers takes the place of the predicate, a         *)
(* function that of the step.                                               *)

\* Every set of natural numbers that is not empty has a least one.
LEMMA LeastNumber ==
    ASSUME NEW T, T \subseteq Nat, T # {}
    PROVE  \E n \in T : \A m \in T : n <= m
<1> DEFINE R == {p \in Nat \X Nat : p[1] < p[2]}
<1>1. IsWellFoundedOn(R, Nat)
  <2>1. OpToRel(<, Nat) = R
    BY DEF OpToRel
  <2> QED
    BY <2>1, NatLessThanWellFounded
<1>2. PICK n \in T : \A m \in T : <<m, n>> \notin R
  <2> HIDE DEF R
  <2> QED
    BY <1>1, WFMin, Zenon
<1>3. ASSUME NEW m \in T PROVE n <= m
  <2>1. m \in Nat /\ n \in Nat
    OBVIOUS
  <2>2. ~(<<m, n>>[1] < <<m, n>>[2])
    BY <1>2, <2>1
  <2> QED
    BY <2>1, <2>2
<1> QED
  BY <1>3

\* Induction: a set with 0 that has n + 1 with n has every number.
LEMMA InductionOnNat ==
    ASSUME NEW T, 0 \in T, \A n \in Nat : n \in T => n + 1 \in T
    PROVE  \A n \in Nat : n \in T
<1> SUFFICES ASSUME Nat \ T # {} PROVE FALSE
  OBVIOUS
<1>1. PICK n \in Nat \ T : \A m \in Nat \ T : n <= m
  BY LeastNumber
<1>2. n - 1 \in Nat /\ n = (n - 1) + 1
  BY <1>1
<1>3. n - 1 \in T
  BY <1>1, <1>2
<1> QED
  BY <1>1, <1>2, <1>3

\* The same as far as some number.
LEMMA InductionUpTo ==
    ASSUME NEW last \in Nat, NEW T, 0 \in T,
           \A n \in 0..(last - 1) : n \in T => n + 1 \in T
    PROVE  \A n \in 0..last : n \in T
<1> DEFINE U == {n \in Nat : n <= last => n \in T}
<1>1. 0 \in U
  OBVIOUS
<1>2. \A n \in Nat : n \in U => n + 1 \in U
  OBVIOUS
<1> HIDE DEF U
<1>3. \A n \in Nat : n \in U
  BY <1>1, <1>2, InductionOnNat
<1> QED
  BY <1>3 DEF U

\* What a function defined by recursion from a as far as last is.
IsRecursion(f, last, a, F) ==
    f[0] = a /\ \A n \in 1..last : f[n] = F[<<n, f[n - 1]>>]

\* A function may be defined by recursion as far as some number.
LEMMA RecursiveFunction ==
    ASSUME NEW last \in Nat, NEW U, NEW a \in U, NEW F \in [(1..last) \X U -> U]
    PROVE  \E f \in [0..last -> U] : IsRecursion(f, last, a, F)
<1> DEFINE Good(f, m) == /\ f[0] = a
                        /\ \A n \in 1..m : f[n] = F[<<n, f[n - 1]>>]
           T == {m \in 0..last : \E f \in [0..m -> U] : Good(f, m)}
<1>1. 0 \in T
  <2> DEFINE f == [n \in 0..0 |-> a]
  <2>1. f \in [0..0 -> U] /\ f[0] = a
    OBVIOUS
  <2>2. Good(f, 0)
    BY <2>1
  <2> HIDE DEF f, Good
  <2> QED
    BY <2>1, <2>2
<1>2. ASSUME NEW m \in 0..(last - 1), m \in T PROVE m + 1 \in T
  <2>1. PICK f \in [0..m -> U] : Good(f, m)
    BY <1>2
  <2> DEFINE g == [n \in 0..(m + 1) |-> IF n = m + 1 THEN F[<<n, f[m]>>] ELSE f[n]]
  <2>2. F[<<m + 1, f[m]>>] \in U
    OBVIOUS
  <2>3. g \in [0..(m + 1) -> U] /\ g[0] = a
    BY <2>1, <2>2
  <2>4. ASSUME NEW n \in 1..(m + 1)
        PROVE  g[n] = F[<<n, g[n - 1]>>]
    <3>1. CASE n = m + 1
      <4>1. n - 1 = m /\ m \in 0..(m + 1) /\ m # m + 1
        BY <3>1
      <4>2. g[n - 1] = f[m] /\ g[n] = F[<<n, f[m]>>]
        BY <3>1, <4>1
      <4> QED
        BY <4>2
    <3>2. CASE n # m + 1
      <4>1. n \in 1..m /\ n - 1 \in 0..(m + 1) /\ n - 1 # m + 1
        BY <3>2
      <4>2. g[n] = f[n] /\ f[n] = F[<<n, f[n - 1]>>]
        BY <2>1, <3>2, <4>1
      <4>3. g[n - 1] = f[n - 1]
        BY <4>1
      <4> QED
        BY <4>2, <4>3
    <3> QED
      BY <3>1, <3>2
  <2>5. Good(g, m + 1)
    BY <2>3, <2>4
  <2> HIDE DEF g, Good
  <2> QED
    BY <2>3, <2>5
<1> HIDE DEF T
<1>3. \A m \in 0..last : m \in T
  BY <1>1, <1>2, InductionUpTo
<1>4. last \in T
  BY <1>3
<1> QED
  BY <1>4 DEF T, Good, IsRecursion

-----------------------------------------------------------------------------
(* The exclusive or of bytes                                                *)

\* The weights of the bits of a byte
Weights == {1, 2, 4, 8, 16, 32, 64, 128}

BitOf(x, n) == (x \div n) % 2

LEMMA BitIsBit ==
    ASSUME NEW x \in Byte, NEW n \in Weights
    PROVE  BitOf(x, n) \in {0, 1}
<1>1. x \div n \in Int
  BY DEF Weights, Byte
<1> QED
  BY <1>1 DEF BitOf

\* A byte is the sum of its bits.
LEMMA ByteOfBits ==
    ASSUME NEW x \in Byte
    PROVE  x = BitOf(x, 1) + 2 * BitOf(x, 2) + 4 * BitOf(x, 4) + 8 * BitOf(x, 8)
               + 16 * BitOf(x, 16) + 32 * BitOf(x, 32) + 64 * BitOf(x, 64)
               + 128 * BitOf(x, 128)
<1> DEFINE q2 == x \div 2
           q4 == x \div 4
           q8 == x \div 8
           q16 == x \div 16
<1>1. x = BitOf(x, 1) + 2 * q2 /\ q2 = BitOf(x, 2) + 2 * q4
  BY DEF Byte, BitOf
<1>2. q4 = BitOf(x, 4) + 2 * q8 /\ q8 = BitOf(x, 8) + 2 * q16
  BY DEF Byte, BitOf
<1>3. q16 = BitOf(x, 16) + 2 * BitOf(x, 32) + 4 * BitOf(x, 64) + 8 * BitOf(x, 128)
  BY DEF Byte, BitOf
<1>4. q2 \in Int /\ q4 \in Int /\ q8 \in Int /\ q16 \in Int
  BY DEF Byte
<1>5. \A n \in Weights : BitOf(x, n) \in Int
  BY BitIsBit
<1> HIDE DEF q2, q4, q8, q16
<1> QED
  BY <1>1, <1>2, <1>3, <1>4, <1>5 DEF Weights

\* Bytes with the same bits are the same byte.
LEMMA SameBits ==
    ASSUME NEW a \in Byte, NEW b \in Byte, \A n \in Weights : BitOf(a, n) = BitOf(b, n)
    PROVE  a = b
BY ByteOfBits DEF Weights

\* The exclusive or of two bytes is a byte, with the sums of their bits.
LEMMA XorBits ==
    ASSUME NEW a \in Byte, NEW b \in Byte
    PROVE  /\ XorTable[a][b] \in Byte
           /\ \A n \in Weights : BitOf(XorTable[a][b], n) = (BitOf(a, n) + BitOf(b, n)) % 2
<1> DEFINE s(n) == (a \div n + b \div n) % 2
           x == XorTable[a][b]
<1>1. x = s(1) * 1 + s(2) * 2 + s(4) * 4 + s(8) * 8 + s(16) * 16 + s(32) * 32
          + s(64) * 64 + s(128) * 128
  BY Zenon DEF XorTable
<1>2. \A n \in Weights : s(n) \in {0, 1} /\ s(n) = (BitOf(a, n) + BitOf(b, n)) % 2
  <2> SUFFICES ASSUME NEW n \in Weights
               PROVE  s(n) \in {0, 1} /\ s(n) = (BitOf(a, n) + BitOf(b, n)) % 2
    OBVIOUS
  <2>1. a \div n \in Int /\ b \div n \in Int
    BY DEF Weights, Byte
  <2> QED
    BY <2>1 DEF BitOf
<1> HIDE DEF s, x
<1>3. x \in Byte
  BY <1>1, <1>2 DEF Byte, Weights
<1>4. ASSUME NEW n \in Weights PROVE BitOf(x, n) = s(n)
  <2> DEFINE t1 == s(1)
             t2 == s(2)
             t4 == s(4)
             t8 == s(8)
             t16 == s(16)
             t32 == s(32)
             t64 == s(64)
             t128 == s(128)
  <2>1. /\ x = t1 + 2 * t2 + 4 * t4 + 8 * t8 + 16 * t16 + 32 * t32 + 64 * t64 + 128 * t128
        /\ t1 \in 0..1 /\ t2 \in 0..1 /\ t4 \in 0..1 /\ t8 \in 0..1
        /\ t16 \in 0..1 /\ t32 \in 0..1 /\ t64 \in 0..1 /\ t128 \in 0..1
    BY <1>1, <1>2 DEF Weights
  <2> HIDE DEF t1, t2, t4, t8, t16, t32, t64, t128
  <2>2. x \div 1 = t1 + 2 * t2 + 4 * t4 + 8 * t8 + 16 * t16 + 32 * t32 + 64 * t64 + 128 * t128
    BY <2>1
  <2>3. x \div 2 = t2 + 2 * t4 + 4 * t8 + 8 * t16 + 16 * t32 + 32 * t64 + 64 * t128
    BY <2>1
  <2>4. x \div 4 = t4 + 2 * t8 + 4 * t16 + 8 * t32 + 16 * t64 + 32 * t128
    BY <2>1
  <2>5. x \div 8 = t8 + 2 * t16 + 4 * t32 + 8 * t64 + 16 * t128
    BY <2>1
  <2>6. x \div 16 = t16 + 2 * t32 + 4 * t64 + 8 * t128
    BY <2>1
  <2>7. x \div 32 = t32 + 2 * t64 + 4 * t128
    BY <2>1
  <2>8. x \div 64 = t64 + 2 * t128
    BY <2>1
  <2>9. x \div 128 = t128
    BY <2>1
  <2>10. /\ (x \div 1) % 2 = t1 /\ (x \div 2) % 2 = t2 /\ (x \div 4) % 2 = t4 /\ (x \div 8) % 2 = t8
         /\ (x \div 16) % 2 = t16 /\ (x \div 32) % 2 = t32 /\ (x \div 64) % 2 = t64 /\ (x \div 128) % 2 = t128
    BY <2>1, <2>2, <2>3, <2>4, <2>5, <2>6, <2>7, <2>8, <2>9
  <2> QED
    BY <2>10 DEF Weights, BitOf, t1, t2, t4, t8, t16, t32, t64, t128
<1> QED
  BY <1>2, <1>3, <1>4 DEF x

LEMMA PlusType ==
    ASSUME NEW a \in Byte, NEW b \in Byte
    PROVE  /\ Plus(a, b) \in Byte
           /\ \A n \in Weights : BitOf(Plus(a, b), n) = (BitOf(a, n) + BitOf(b, n)) % 2
BY XorBits, Zenon DEF Plus

LEMMA PlusCommutes ==
    ASSUME NEW a \in Byte, NEW b \in Byte
    PROVE  Plus(a, b) = Plus(b, a)
<1>1. \A n \in Weights : BitOf(Plus(a, b), n) = BitOf(Plus(b, a), n)
  BY PlusType, BitIsBit
<1> QED
  BY <1>1, PlusType, SameBits

LEMMA PlusAssociates ==
    ASSUME NEW a \in Byte, NEW b \in Byte, NEW c \in Byte
    PROVE  Plus(Plus(a, b), c) = Plus(a, Plus(b, c))
<1> DEFINE ab == Plus(a, b)
           bc == Plus(b, c)
<1>1. /\ ab \in Byte /\ bc \in Byte
      /\ \A n \in Weights : /\ BitOf(ab, n) = (BitOf(a, n) + BitOf(b, n)) % 2
                            /\ BitOf(bc, n) = (BitOf(b, n) + BitOf(c, n)) % 2
  BY PlusType
<1> HIDE DEF ab, bc
<1>2. \A n \in Weights : BitOf(a, n) \in {0, 1} /\ BitOf(b, n) \in {0, 1} /\ BitOf(c, n) \in {0, 1}
  BY BitIsBit
<1>3. \A n \in Weights : (BitOf(ab, n) + BitOf(c, n)) % 2 = (BitOf(a, n) + BitOf(bc, n)) % 2
  BY <1>1, <1>2
<1>4. /\ Plus(ab, c) \in Byte /\ Plus(a, bc) \in Byte
      /\ \A n \in Weights : BitOf(Plus(ab, c), n) = BitOf(Plus(a, bc), n)
  BY <1>1, <1>3, PlusType
<1>5. Plus(ab, c) = Plus(a, bc)
  BY <1>4, SameBits
<1> QED
  BY <1>5 DEF ab, bc

LEMMA PlusZero ==
    ASSUME NEW a \in Byte
    PROVE  Plus(a, 0) = a /\ Plus(0, a) = a /\ Plus(a, a) = 0
<1>1. 0 \in Byte
  BY DEF Byte
<1>2. \A n \in Weights : BitOf(a, n) \in {0, 1} /\ BitOf(0, n) = 0
  <2>1. /\ BitOf(0, 1) = 0 /\ BitOf(0, 2) = 0 /\ BitOf(0, 4) = 0 /\ BitOf(0, 8) = 0
        /\ BitOf(0, 16) = 0 /\ BitOf(0, 32) = 0 /\ BitOf(0, 64) = 0 /\ BitOf(0, 128) = 0
    BY DEF BitOf
  <2> QED
    BY <2>1, BitIsBit DEF Weights
<1>3. Plus(a, 0) = a
  BY <1>1, <1>2, PlusType, SameBits
<1>4. Plus(a, a) = 0
  BY <1>1, <1>2, PlusType, SameBits
<1> QED
  BY <1>1, <1>3, <1>4, PlusCommutes

\* What is added twice is gone.
LEMMA PlusTwice ==
    ASSUME NEW a \in Byte, NEW b \in Byte
    PROVE  Plus(Plus(a, b), b) = a
BY PlusAssociates, PlusZero

-----------------------------------------------------------------------------
(* Mixing columns                                                           *)

\* Two sums of two, added up the other way
LEMMA SumsSwap ==
    ASSUME NEW a \in Byte, NEW b \in Byte, NEW c \in Byte, NEW d \in Byte
    PROVE  Plus(Plus(a, b), Plus(c, d)) = Plus(Plus(a, c), Plus(b, d))
<1> DEFINE ab == Plus(a, b)
           ac == Plus(a, c)
<1>1. ab \in Byte /\ ac \in Byte
  BY PlusType
<1>2. Plus(ab, c) = Plus(ac, b)
  <2>1. Plus(ab, c) = Plus(a, Plus(b, c))
    BY PlusAssociates, Zenon
  <2>2. Plus(ac, b) = Plus(a, Plus(c, b))
    BY PlusAssociates, Zenon
  <2>3. Plus(b, c) = Plus(c, b)
    BY PlusCommutes, Zenon
  <2> QED
    BY <2>1, <2>2, <2>3, Zenon
<1> HIDE DEF ab, ac
<1>3. Plus(Plus(ab, c), d) = Plus(ab, Plus(c, d))
  BY <1>1, PlusAssociates
<1>4. Plus(Plus(ac, b), d) = Plus(ac, Plus(b, d))
  BY <1>1, PlusAssociates
<1>5. Plus(ab, Plus(c, d)) = Plus(ac, Plus(b, d))
  BY <1>2, <1>3, <1>4, Zenon
<1> QED
  BY <1>5 DEF ab, ac

LEMMA Sum4Type ==
    ASSUME NEW a \in Byte, NEW b \in Byte, NEW c \in Byte, NEW d \in Byte
    PROVE  Sum4(a, b, c, d) \in Byte
<1>1. Plus(a, b) \in Byte /\ Plus(c, d) \in Byte
  BY PlusType
<1>2. Plus(Plus(a, b), Plus(c, d)) \in Byte
  BY <1>1, PlusType
<1> QED
  BY <1>2 DEF Sum4, Plus

LEMMA Sum4Is ==
    ASSUME NEW a, NEW b, NEW c, NEW d
    PROVE  Sum4(a, b, c, d) = Plus(Plus(a, b), Plus(c, d))
BY DEF Sum4, Plus

LEMMA Sum4Rotates ==
    ASSUME NEW a \in Byte, NEW b \in Byte, NEW c \in Byte, NEW d \in Byte
    PROVE  Sum4(a, b, c, d) = Sum4(b, c, d, a)
<1>1. Plus(a, b) = Plus(b, a) /\ Plus(c, d) \in Byte /\ Plus(d, a) = Plus(a, d)
  BY PlusCommutes, PlusType
<1>2. Plus(Plus(b, a), Plus(c, d)) = Plus(Plus(b, c), Plus(a, d))
  BY SumsSwap
<1> QED
  BY <1>1, <1>2, Sum4Is

\* The sum of two sums of four, added up in pairs
LEMMA SumOfSums ==
    ASSUME NEW p \in Word, NEW q \in Word
    PROVE  Plus(Sum4(p[1], p[2], p[3], p[4]), Sum4(q[1], q[2], q[3], q[4]))
           = Sum4(Plus(p[1], q[1]), Plus(p[2], q[2]), Plus(p[3], q[3]), Plus(p[4], q[4]))
<1>1. /\ p[1] \in Byte /\ p[2] \in Byte /\ p[3] \in Byte /\ p[4] \in Byte
      /\ q[1] \in Byte /\ q[2] \in Byte /\ q[3] \in Byte /\ q[4] \in Byte
  BY DEF Word
<1> DEFINE p12 == Plus(p[1], p[2])
           p34 == Plus(p[3], p[4])
           q12 == Plus(q[1], q[2])
           q34 == Plus(q[3], q[4])
<1>2. p12 \in Byte /\ p34 \in Byte /\ q12 \in Byte /\ q34 \in Byte
  BY <1>1, PlusType
<1>3. Plus(Plus(p[1], q[1]), Plus(p[2], q[2])) = Plus(p12, q12)
  BY <1>1, SumsSwap
<1>4. Plus(Plus(p[3], q[3]), Plus(p[4], q[4])) = Plus(p34, q34)
  BY <1>1, SumsSwap
<1> HIDE DEF p12, p34, q12, q34
<1>5. Plus(Plus(p12, q12), Plus(p34, q34)) = Plus(Plus(p12, p34), Plus(q12, q34))
  BY <1>2, SumsSwap
<1>6. Sum4(Plus(p[1], q[1]), Plus(p[2], q[2]), Plus(p[3], q[3]), Plus(p[4], q[4]))
      = Plus(Plus(p12, q12), Plus(p34, q34))
  BY <1>3, <1>4, Sum4Is
<1>7. /\ Sum4(p[1], p[2], p[3], p[4]) = Plus(p12, p34)
      /\ Sum4(q[1], q[2], q[3], q[4]) = Plus(q12, q34)
  BY Sum4Is DEF p12, p34, q12, q34
<1> QED
  BY <1>5, <1>6, <1>7

\* Four sums of four, added up the other way
LEMMA SumsTransposed ==
    ASSUME NEW p \in Word, NEW q \in Word, NEW r \in Word, NEW s \in Word
    PROVE  Sum4(Sum4(p[1], p[2], p[3], p[4]), Sum4(q[1], q[2], q[3], q[4]),
                Sum4(r[1], r[2], r[3], r[4]), Sum4(s[1], s[2], s[3], s[4]))
           = Sum4(Sum4(p[1], q[1], r[1], s[1]), Sum4(p[2], q[2], r[2], s[2]),
                  Sum4(p[3], q[3], r[3], s[3]), Sum4(p[4], q[4], r[4], s[4]))
<1> DEFINE u == [i \in 1..4 |-> Plus(p[i], q[i])]
           v == [i \in 1..4 |-> Plus(r[i], s[i])]
<1>1. \A i \in 1..4 : p[i] \in Byte /\ q[i] \in Byte /\ r[i] \in Byte /\ s[i] \in Byte
  BY DEF Word
<1>2. u \in Word /\ v \in Word
  BY <1>1, PlusType DEF Word
<1>3. \A i \in 1..4 : u[i] = Plus(p[i], q[i]) /\ v[i] = Plus(r[i], s[i])
  OBVIOUS
<1> HIDE DEF u, v
<1>4. \A i \in 1..4 : Plus(u[i], v[i]) = Sum4(p[i], q[i], r[i], s[i])
  BY <1>3, Sum4Is
<1>5. /\ Plus(Sum4(p[1], p[2], p[3], p[4]), Sum4(q[1], q[2], q[3], q[4]))
         = Sum4(u[1], u[2], u[3], u[4])
      /\ Plus(Sum4(r[1], r[2], r[3], r[4]), Sum4(s[1], s[2], s[3], s[4]))
         = Sum4(v[1], v[2], v[3], v[4])
  BY <1>3, SumOfSums
<1>6. Plus(Sum4(u[1], u[2], u[3], u[4]), Sum4(v[1], v[2], v[3], v[4]))
      = Sum4(Plus(u[1], v[1]), Plus(u[2], v[2]), Plus(u[3], v[3]), Plus(u[4], v[4]))
  BY <1>2, SumOfSums
<1> QED
  BY <1>4, <1>5, <1>6, Sum4Is

\* A table that is linear may be applied before a sum or after it.
IsLinear(g) ==
    /\ g \in [Byte -> Byte]
    /\ \A x, y \in Byte : g[Plus(x, y)] = Plus(g[x], g[y])

LEMMA SumOfTable ==
    ASSUME NEW g, IsLinear(g), NEW w \in Word
    PROVE  g[Sum4(w[1], w[2], w[3], w[4])] = Sum4(g[w[1]], g[w[2]], g[w[3]], g[w[4]])
<1> DEFINE a == w[1]
           b == w[2]
           c == w[3]
           d == w[4]
<1>1. a \in Byte /\ b \in Byte /\ c \in Byte /\ d \in Byte
  BY DEF Word
<1> HIDE DEF a, b, c, d
<1>2. Plus(a, b) \in Byte /\ Plus(c, d) \in Byte
  BY <1>1, PlusType
<1>3. g[Plus(a, b)] = Plus(g[a], g[b]) /\ g[Plus(c, d)] = Plus(g[c], g[d])
  BY <1>1 DEF IsLinear
<1>4. g[Plus(Plus(a, b), Plus(c, d))] = Plus(g[Plus(a, b)], g[Plus(c, d)])
  BY <1>2 DEF IsLinear
<1> QED
  BY <1>3, <1>4, Sum4Is DEF a, b, c, d

\* A column moved up by one row
Turned(a) == <<a[2], a[3], a[4], a[1]>>

\* The first byte of a column mixed, and of one mixed back
MixedTop(a) == Sum4(gm_2[a[1]], gm_3[a[2]], a[3], a[4])
UnmixedTop(a) == Sum4(gm_E[a[1]], gm_B[a[2]], gm_D[a[3]], gm_9[a[4]])

MixedColumn(a) ==
    <<MixedTop(a), MixedTop(Turned(a)), MixedTop(Turned(Turned(a))),
      MixedTop(Turned(Turned(Turned(a))))>>
UnmixedColumn(a) ==
    <<UnmixedTop(a), UnmixedTop(Turned(a)), UnmixedTop(Turned(Turned(a))),
      UnmixedTop(Turned(Turned(Turned(a))))>>

LEMMA LinearTables ==
    /\ \A x \in Byte : gm_2[x] \in Byte /\ gm_3[x] \in Byte
    /\ IsLinear(gm_9) /\ IsLinear(gm_B) /\ IsLinear(gm_D) /\ IsLinear(gm_E)
    /\ \A x \in Byte :
          /\ Sum4(gm_E[gm_2[x]], gm_B[x], gm_D[x], gm_9[gm_3[x]]) = x
          /\ Sum4(gm_E[gm_3[x]], gm_B[gm_2[x]], gm_D[x], gm_9[x]) = 0
          /\ Sum4(gm_E[x], gm_B[gm_3[x]], gm_D[gm_2[x]], gm_9[x]) = 0
          /\ Sum4(gm_E[x], gm_B[x], gm_D[gm_3[x]], gm_9[gm_2[x]]) = 0
<1>1. ColumnsTrue
  BY TablesAssumption
<1>2. \A x \in Byte : /\ gm_2[x] \in Byte /\ gm_3[x] \in Byte
  BY <1>1 DEF ColumnsTrue
<1>3. \A g \in {gm_9, gm_B, gm_D, gm_E} : IsLinear(g)
  BY <1>1, Zenon DEF ColumnsTrue, Plus, IsLinear
<1>4. ASSUME NEW x \in Byte
      PROVE  /\ Sum4(gm_E[gm_2[x]], gm_B[x], gm_D[x], gm_9[gm_3[x]]) = x
             /\ Sum4(gm_E[gm_3[x]], gm_B[gm_2[x]], gm_D[x], gm_9[x]) = 0
             /\ Sum4(gm_E[x], gm_B[gm_3[x]], gm_D[gm_2[x]], gm_9[x]) = 0
             /\ Sum4(gm_E[x], gm_B[x], gm_D[gm_3[x]], gm_9[gm_2[x]]) = 0
  BY <1>1, Zenon DEF ColumnsTrue, Sum4
<1> QED
  BY <1>2, <1>3, <1>4

\* The top of a column comes back.
LEMMA TopComesBack ==
    ASSUME NEW a \in Word
    PROVE  UnmixedTop(MixedColumn(a)) = a[1]
<1> DEFINE c == MixedColumn(a)
           a1 == a[1]
           a2 == a[2]
           a3 == a[3]
           a4 == a[4]
<1>1. a1 \in Byte /\ a2 \in Byte /\ a3 \in Byte /\ a4 \in Byte
  BY DEF Word
<1>2. /\ c[1] = Sum4(gm_2[a1], gm_3[a2], a3, a4)
      /\ c[2] = Sum4(gm_2[a2], gm_3[a3], a4, a1)
      /\ c[3] = Sum4(gm_2[a3], gm_3[a4], a1, a2)
      /\ c[4] = Sum4(gm_2[a4], gm_3[a1], a2, a3)
  BY DEF MixedColumn, MixedTop, Turned
<1> HIDE DEF a1, a2, a3, a4, c
<1>3. /\ gm_2[a1] \in Byte /\ gm_2[a2] \in Byte /\ gm_2[a3] \in Byte /\ gm_2[a4] \in Byte
      /\ gm_3[a1] \in Byte /\ gm_3[a2] \in Byte /\ gm_3[a3] \in Byte /\ gm_3[a4] \in Byte
  BY <1>1, LinearTables
<1>4. /\ c[2] = Sum4(a1, gm_2[a2], gm_3[a3], a4)
      /\ c[3] = Sum4(a1, a2, gm_2[a3], gm_3[a4])
      /\ c[4] = Sum4(gm_3[a1], a2, a3, gm_2[a4])
  <2>1. c[2] = Sum4(a1, gm_2[a2], gm_3[a3], a4)
    BY <1>1, <1>2, <1>3, Sum4Rotates
  <2>2. Sum4(gm_2[a3], gm_3[a4], a1, a2) = Sum4(gm_3[a4], a1, a2, gm_2[a3])
    BY <1>1, <1>3, Sum4Rotates
  <2>3. Sum4(gm_3[a4], a1, a2, gm_2[a3]) = Sum4(a1, a2, gm_2[a3], gm_3[a4])
    BY <1>1, <1>3, Sum4Rotates
  <2>4. c[4] = Sum4(gm_3[a1], a2, a3, gm_2[a4])
    BY <1>1, <1>2, <1>3, Sum4Rotates
  <2> QED
    BY <1>2, <2>1, <2>2, <2>3, <2>4
<1>5. IsLinear(gm_9) /\ IsLinear(gm_B) /\ IsLinear(gm_D) /\ IsLinear(gm_E)
  BY LinearTables, Zenon
<1>6. gm_E[c[1]] = Sum4(gm_E[gm_2[a1]], gm_E[gm_3[a2]], gm_E[a3], gm_E[a4])
  <2> DEFINE w == <<gm_2[a1], gm_3[a2], a3, a4>>
  <2>1. w \in Word /\ c[1] = Sum4(w[1], w[2], w[3], w[4])
    BY <1>1, <1>2, <1>3 DEF Word
  <2>2. w[1] = gm_2[a1] /\ w[2] = gm_3[a2] /\ w[3] = a3 /\ w[4] = a4
    OBVIOUS
  <2> HIDE DEF w
  <2>3. gm_E[c[1]] = Sum4(gm_E[w[1]], gm_E[w[2]], gm_E[w[3]], gm_E[w[4]])
    BY <1>5, <2>1, SumOfTable
  <2> QED
    BY <2>2, <2>3
<1>7. gm_B[c[2]] = Sum4(gm_B[a1], gm_B[gm_2[a2]], gm_B[gm_3[a3]], gm_B[a4])
  <2> DEFINE w == <<a1, gm_2[a2], gm_3[a3], a4>>
  <2>1. w \in Word /\ c[2] = Sum4(w[1], w[2], w[3], w[4])
    BY <1>1, <1>3, <1>4 DEF Word
  <2>2. w[1] = a1 /\ w[2] = gm_2[a2] /\ w[3] = gm_3[a3] /\ w[4] = a4
    OBVIOUS
  <2> HIDE DEF w
  <2>3. gm_B[c[2]] = Sum4(gm_B[w[1]], gm_B[w[2]], gm_B[w[3]], gm_B[w[4]])
    BY <1>5, <2>1, SumOfTable
  <2> QED
    BY <2>2, <2>3
<1>8. gm_D[c[3]] = Sum4(gm_D[a1], gm_D[a2], gm_D[gm_2[a3]], gm_D[gm_3[a4]])
  <2> DEFINE w == <<a1, a2, gm_2[a3], gm_3[a4]>>
  <2>1. w \in Word /\ c[3] = Sum4(w[1], w[2], w[3], w[4])
    BY <1>1, <1>3, <1>4 DEF Word
  <2>2. w[1] = a1 /\ w[2] = a2 /\ w[3] = gm_2[a3] /\ w[4] = gm_3[a4]
    OBVIOUS
  <2> HIDE DEF w
  <2>3. gm_D[c[3]] = Sum4(gm_D[w[1]], gm_D[w[2]], gm_D[w[3]], gm_D[w[4]])
    BY <1>5, <2>1, SumOfTable
  <2> QED
    BY <2>2, <2>3
<1>9. gm_9[c[4]] = Sum4(gm_9[gm_3[a1]], gm_9[a2], gm_9[a3], gm_9[gm_2[a4]])
  <2> DEFINE w == <<gm_3[a1], a2, a3, gm_2[a4]>>
  <2>1. w \in Word /\ c[4] = Sum4(w[1], w[2], w[3], w[4])
    BY <1>1, <1>3, <1>4 DEF Word
  <2>2. w[1] = gm_3[a1] /\ w[2] = a2 /\ w[3] = a3 /\ w[4] = gm_2[a4]
    OBVIOUS
  <2> HIDE DEF w
  <2>3. gm_9[c[4]] = Sum4(gm_9[w[1]], gm_9[w[2]], gm_9[w[3]], gm_9[w[4]])
    BY <1>5, <2>1, SumOfTable
  <2> QED
    BY <2>2, <2>3
<1> DEFINE p == <<gm_E[gm_2[a1]], gm_E[gm_3[a2]], gm_E[a3], gm_E[a4]>>
           q == <<gm_B[a1], gm_B[gm_2[a2]], gm_B[gm_3[a3]], gm_B[a4]>>
           r == <<gm_D[a1], gm_D[a2], gm_D[gm_2[a3]], gm_D[gm_3[a4]]>>
           s == <<gm_9[gm_3[a1]], gm_9[a2], gm_9[a3], gm_9[gm_2[a4]]>>
<1>10. p \in Word /\ q \in Word /\ r \in Word /\ s \in Word
  <2>1. \A x \in Byte : gm_E[x] \in Byte /\ gm_B[x] \in Byte /\ gm_D[x] \in Byte /\ gm_9[x] \in Byte
    BY LinearTables DEF IsLinear
  <2> QED
    BY <1>1, <1>3, <2>1 DEF Word
<1>11. /\ Sum4(p[1], q[1], r[1], s[1]) = a1
       /\ Sum4(p[2], q[2], r[2], s[2]) = 0
       /\ Sum4(p[3], q[3], r[3], s[3]) = 0
       /\ Sum4(p[4], q[4], r[4], s[4]) = 0
  BY <1>1, LinearTables
<1>12. Sum4(a1, 0, 0, 0) = a1
  <2>1. 0 \in Byte /\ Plus(a1, 0) = a1 /\ Plus(0, 0) = 0
    BY <1>1, PlusZero DEF Byte
  <2> QED
    BY <2>1, Sum4Is
<1>13. UnmixedTop(c) = Sum4(Sum4(p[1], p[2], p[3], p[4]), Sum4(q[1], q[2], q[3], q[4]),
                            Sum4(r[1], r[2], r[3], r[4]), Sum4(s[1], s[2], s[3], s[4]))
  BY <1>6, <1>7, <1>8, <1>9 DEF UnmixedTop
<1> HIDE DEF p, q, r, s
<1>14. UnmixedTop(c) = Sum4(a1, 0, 0, 0)
  BY <1>10, <1>11, <1>13, SumsTransposed
<1> QED
  BY <1>12, <1>14 DEF c, a1

LEMMA TurnedType ==
    ASSUME NEW a \in Word
    PROVE  /\ Turned(a) \in Word
           /\ Turned(a)[1] = a[2] /\ Turned(a)[2] = a[3]
           /\ Turned(a)[3] = a[4] /\ Turned(a)[4] = a[1]
BY DEF Turned, Word

LEMMA FourTurns ==
    ASSUME NEW a \in Word
    PROVE  Turned(Turned(Turned(Turned(a)))) = a
<1>1. Turned(Turned(Turned(Turned(a)))) = <<a[1], a[2], a[3], a[4]>>
  BY DEF Turned
<1> QED
  BY <1>1 DEF Word

LEMMA MixedColumnType ==
    ASSUME NEW a \in Word
    PROVE  MixedColumn(a) \in Word /\ UnmixedColumn(a) \in Word
<1>1. ASSUME NEW b \in Word PROVE MixedTop(b) \in Byte /\ UnmixedTop(b) \in Byte
  <2>1. b[1] \in Byte /\ b[2] \in Byte /\ b[3] \in Byte /\ b[4] \in Byte
    BY DEF Word
  <2>2. \A x \in Byte : /\ gm_2[x] \in Byte /\ gm_3[x] \in Byte
                        /\ gm_E[x] \in Byte /\ gm_B[x] \in Byte
                        /\ gm_D[x] \in Byte /\ gm_9[x] \in Byte
    BY LinearTables DEF IsLinear
  <2> QED
    BY <2>1, <2>2, Sum4Type DEF MixedTop, UnmixedTop
<1>2. Turned(a) \in Word /\ Turned(Turned(a)) \in Word /\ Turned(Turned(Turned(a))) \in Word
  BY TurnedType
<1> DEFINE b == Turned(a)
           c == Turned(Turned(a))
           d == Turned(Turned(Turned(a)))
<1>3. /\ MixedColumn(a) = <<MixedTop(a), MixedTop(b), MixedTop(c), MixedTop(d)>>
      /\ UnmixedColumn(a) = <<UnmixedTop(a), UnmixedTop(b), UnmixedTop(c), UnmixedTop(d)>>
  BY DEF MixedColumn, UnmixedColumn
<1> HIDE DEF b, c, d
<1>4. b \in Word /\ c \in Word /\ d \in Word
  BY <1>2 DEF b, c, d
<1> QED
  BY <1>1, <1>3, <1>4 DEF Word

\* A column that is turned is mixed to the turned column.
LEMMA MixedTurned ==
    ASSUME NEW a \in Word
    PROVE  Turned(MixedColumn(a)) = MixedColumn(Turned(a))
BY FourTurns DEF MixedColumn, Turned

LEMMA UnmixedMixed ==
    ASSUME NEW a \in Word
    PROVE  UnmixedColumn(MixedColumn(a)) = a
<1> DEFINE b == Turned(a)
           c == Turned(b)
           d == Turned(c)
<1>1. b \in Word /\ c \in Word /\ d \in Word
  BY TurnedType
<1>2. b[1] = a[2] /\ c[1] = a[3] /\ d[1] = a[4]
  BY DEF Turned
<1> HIDE DEF b, c, d
<1>3. /\ Turned(MixedColumn(a)) = MixedColumn(b)
      /\ Turned(MixedColumn(b)) = MixedColumn(c)
      /\ Turned(MixedColumn(c)) = MixedColumn(d)
  BY <1>1, MixedTurned DEF b, c, d
<1>4. UnmixedColumn(MixedColumn(a)) = <<UnmixedTop(MixedColumn(a)), UnmixedTop(MixedColumn(b)),
                                        UnmixedTop(MixedColumn(c)), UnmixedTop(MixedColumn(d))>>
  BY <1>3 DEF UnmixedColumn
<1>5. UnmixedColumn(MixedColumn(a)) = <<a[1], a[2], a[3], a[4]>>
  BY <1>1, <1>2, <1>4, TopComesBack
<1> QED
  BY <1>5 DEF Word

-----------------------------------------------------------------------------
(* The steps of a round and what undoes them                                *)

\* Rows and columns of a block
LEMMA Places ==
    ASSUME NEW i \in 1..16
    PROVE  /\ (i - 1) \div 4 \in 0..3 /\ (i - 1) % 4 \in 0..3
           /\ i = 4 * ((i - 1) \div 4) + ((i - 1) % 4) + 1
           /\ \A r, c \in 0..3 : i = 4 * r + c + 1 => (i - 1) \div 4 = r /\ (i - 1) % 4 = c
OBVIOUS

\* Column i of a block
ColumnOf(m, i) == [j \in 1..4 |-> m[4 * (j - 1) + i]]

LEMMA ColumnOfType ==
    ASSUME NEW m \in Block, NEW i \in 1..4
    PROVE  ColumnOf(m, i) \in Word
<1>1. \A j \in 1..4 : 4 * (j - 1) + i \in 1..16
  OBVIOUS
<1> QED
  BY <1>1 DEF ColumnOf, Block, Word

\* Blocks with the same columns are the same block.
LEMMA SameColumns ==
    ASSUME NEW m \in Block, NEW n \in Block,
           \A i \in 1..4 : \A j \in 1..4 : m[4 * (j - 1) + i] = n[4 * (j - 1) + i]
    PROVE  m = n
<1>1. ASSUME NEW i \in 1..16 PROVE m[i] = n[i]
  <2>1. /\ ((i - 1) % 4) + 1 \in 1..4 /\ ((i - 1) \div 4) + 1 \in 1..4
        /\ 4 * ((((i - 1) \div 4) + 1) - 1) + (((i - 1) % 4) + 1) = i
    OBVIOUS
  <2> QED
    BY <2>1
<1> QED
  BY <1>1 DEF Block

\* What the code does to each column, as turns of one sum
LEMMA MixIs ==
    ASSUME NEW m \in Block
    PROVE  /\ mixcolumns(m) = [i \in 1..16 |->
                 MixedColumn(ColumnOf(m, ((i - 1) % 4) + 1))[((i - 1) \div 4) + 1]]
           /\ invmixcolumns(m) = [i \in 1..16 |->
                 UnmixedColumn(ColumnOf(m, ((i - 1) % 4) + 1))[((i - 1) \div 4) + 1]]
<1> DEFINE forth(a) == << Sum4(gm_2[a[1]], gm_3[a[2]], a[3], a[4]),
                          Sum4(a[1], gm_2[a[2]], gm_3[a[3]], a[4]),
                          Sum4(a[1], a[2], gm_2[a[3]], gm_3[a[4]]),
                          Sum4(gm_3[a[1]], a[2], a[3], gm_2[a[4]]) >>
           back(a) == << Sum4(gm_E[a[1]], gm_B[a[2]], gm_D[a[3]], gm_9[a[4]]),
                         Sum4(gm_9[a[1]], gm_E[a[2]], gm_B[a[3]], gm_D[a[4]]),
                         Sum4(gm_D[a[1]], gm_9[a[2]], gm_E[a[3]], gm_B[a[4]]),
                         Sum4(gm_B[a[1]], gm_D[a[2]], gm_9[a[3]], gm_E[a[4]]) >>
<1>1. ASSUME NEW a \in Word PROVE forth(a) = MixedColumn(a) /\ back(a) = UnmixedColumn(a)
  <2> DEFINE a1 == a[1]
             a2 == a[2]
             a3 == a[3]
             a4 == a[4]
  <2>1. a1 \in Byte /\ a2 \in Byte /\ a3 \in Byte /\ a4 \in Byte
    BY DEF Word
  <2>2. /\ MixedColumn(a) = << Sum4(gm_2[a1], gm_3[a2], a3, a4),
                               Sum4(gm_2[a2], gm_3[a3], a4, a1),
                               Sum4(gm_2[a3], gm_3[a4], a1, a2),
                               Sum4(gm_2[a4], gm_3[a1], a2, a3) >>
        /\ UnmixedColumn(a) = << Sum4(gm_E[a1], gm_B[a2], gm_D[a3], gm_9[a4]),
                                 Sum4(gm_E[a2], gm_B[a3], gm_D[a4], gm_9[a1]),
                                 Sum4(gm_E[a3], gm_B[a4], gm_D[a1], gm_9[a2]),
                                 Sum4(gm_E[a4], gm_B[a1], gm_D[a2], gm_9[a3]) >>
    BY DEF MixedColumn, MixedTop, UnmixedColumn, UnmixedTop, Turned
  <2> HIDE DEF a1, a2, a3, a4
  <2>3. \A x \in Byte : /\ gm_2[x] \in Byte /\ gm_3[x] \in Byte
                        /\ gm_E[x] \in Byte /\ gm_B[x] \in Byte
                        /\ gm_D[x] \in Byte /\ gm_9[x] \in Byte
    BY LinearTables DEF IsLinear
  <2>4. \A w, x, y, z \in Byte : /\ Sum4(w, x, y, z) = Sum4(x, y, z, w)
                                 /\ Sum4(w, x, y, z) = Sum4(y, z, w, x)
                                 /\ Sum4(w, x, y, z) = Sum4(z, w, x, y)
    BY Sum4Rotates
  <2>5. ASSUME NEW w \in Word
        PROVE  /\ Sum4(w[2], w[3], w[4], w[1]) = Sum4(w[1], w[2], w[3], w[4])
               /\ Sum4(w[3], w[4], w[1], w[2]) = Sum4(w[1], w[2], w[3], w[4])
               /\ Sum4(w[4], w[1], w[2], w[3]) = Sum4(w[1], w[2], w[3], w[4])
    <3>1. w[1] \in Byte /\ w[2] \in Byte /\ w[3] \in Byte /\ w[4] \in Byte
      BY DEF Word
    <3> QED
      BY <2>4, <3>1
  <2> DEFINE p == <<a1, gm_2[a2], gm_3[a3], a4>>
             q == <<a1, a2, gm_2[a3], gm_3[a4]>>
             r == <<gm_3[a1], a2, a3, gm_2[a4]>>
             s == <<gm_9[a1], gm_E[a2], gm_B[a3], gm_D[a4]>>
             t == <<gm_D[a1], gm_9[a2], gm_E[a3], gm_B[a4]>>
             u == <<gm_B[a1], gm_D[a2], gm_9[a3], gm_E[a4]>>
  <2>6. p \in Word /\ q \in Word /\ r \in Word /\ s \in Word /\ t \in Word /\ u \in Word
    BY <2>1, <2>3 DEF Word
  <2>7. /\ Sum4(p[2], p[3], p[4], p[1]) = Sum4(p[1], p[2], p[3], p[4])
        /\ Sum4(q[3], q[4], q[1], q[2]) = Sum4(q[1], q[2], q[3], q[4])
        /\ Sum4(r[4], r[1], r[2], r[3]) = Sum4(r[1], r[2], r[3], r[4])
        /\ Sum4(s[2], s[3], s[4], s[1]) = Sum4(s[1], s[2], s[3], s[4])
        /\ Sum4(t[3], t[4], t[1], t[2]) = Sum4(t[1], t[2], t[3], t[4])
        /\ Sum4(u[4], u[1], u[2], u[3]) = Sum4(u[1], u[2], u[3], u[4])
    <3> HIDE DEF p, q, r, s, t, u
    <3> QED
      BY <2>5, <2>6
  <2> QED
    BY <2>2, <2>7 DEF a1, a2, a3, a4
<1>2. \A i \in 1..4 : ColumnOf(m, i) \in Word
  BY ColumnOfType
<1> HIDE DEF forth, back
<1>3. /\ mixcolumns(m) = EachColumn(m, forth)
      /\ invmixcolumns(m) = EachColumn(m, back)
  BY DEF mixcolumns, invmixcolumns, forth, back
<1>4. /\ mixcolumns(m) = [i \in 1..16 |->
             [k \in 1..4 |-> forth(ColumnOf(m, k))][((i - 1) % 4) + 1][((i - 1) \div 4) + 1]]
      /\ invmixcolumns(m) = [i \in 1..16 |->
             [k \in 1..4 |-> back(ColumnOf(m, k))][((i - 1) % 4) + 1][((i - 1) \div 4) + 1]]
  BY <1>3, Zenon DEF EachColumn, ColumnOf
<1>5. \A i \in 1..16 : ((i - 1) % 4) + 1 \in 1..4
  OBVIOUS
<1> QED
  BY <1>1, <1>2, <1>4, <1>5

LEMMA MixUndone ==
    ASSUME NEW m \in Block
    PROVE  /\ mixcolumns(m) \in Block /\ invmixcolumns(m) \in Block
           /\ invmixcolumns(mixcolumns(m)) = m
<1>1. \A i \in 1..16 : ((i - 1) % 4) + 1 \in 1..4 /\ ((i - 1) \div 4) + 1 \in 1..4
  OBVIOUS
<1>2. \A i \in 1..4 : MixedColumn(ColumnOf(m, i)) \in Word /\ UnmixedColumn(ColumnOf(m, i)) \in Word
  BY ColumnOfType, MixedColumnType
<1>3. mixcolumns(m) \in Block /\ invmixcolumns(m) \in Block
  BY <1>1, <1>2, MixIs DEF Block, Word
<1> DEFINE n == mixcolumns(m)
<1>4. ASSUME NEW i \in 1..4 PROVE ColumnOf(n, i) = MixedColumn(ColumnOf(m, i))
  <2>1. ASSUME NEW j \in 1..4
        PROVE  n[4 * (j - 1) + i] = MixedColumn(ColumnOf(m, i))[j]
    <3>1. /\ 4 * (j - 1) + i \in 1..16
          /\ ((4 * (j - 1) + i - 1) % 4) + 1 = i
          /\ ((4 * (j - 1) + i - 1) \div 4) + 1 = j
      OBVIOUS
    <3> QED
      BY <3>1, MixIs
  <2> QED
    BY <1>2, <2>1 DEF ColumnOf, Word
<1> HIDE DEF n
<1>5. ASSUME NEW i \in 1..4, NEW j \in 1..4
      PROVE  invmixcolumns(n)[4 * (j - 1) + i] = m[4 * (j - 1) + i]
  <2>1. /\ 4 * (j - 1) + i \in 1..16
        /\ ((4 * (j - 1) + i - 1) % 4) + 1 = i
        /\ ((4 * (j - 1) + i - 1) \div 4) + 1 = j
    OBVIOUS
  <2>2. n \in Block
    BY <1>3 DEF n
  <2>3. invmixcolumns(n)[4 * (j - 1) + i] = UnmixedColumn(ColumnOf(n, i))[j]
    BY <2>1, <2>2, MixIs
  <2>4. UnmixedColumn(ColumnOf(n, i)) = ColumnOf(m, i)
    BY <1>4, ColumnOfType, UnmixedMixed
  <2> QED
    BY <2>3, <2>4 DEF ColumnOf
<1>6. invmixcolumns(n) \in Block
  <2>1. n \in Block
    BY <1>3 DEF n
  <2>2. \A i \in 1..4 : UnmixedColumn(ColumnOf(n, i)) \in Word
    BY <2>1, ColumnOfType, MixedColumnType
  <2> QED
    BY <1>1, <2>1, <2>2, MixIs DEF Block, Word
<1>7. invmixcolumns(n) = m
  BY <1>5, <1>6, SameColumns
<1> QED
  BY <1>3, <1>7 DEF n

LEMMA BoxesUndone ==
    /\ \A x \in Byte : aes_s_box[x] \in Byte /\ aes_inv_s_box[x] \in Byte
    /\ \A x \in Byte : aes_inv_s_box[aes_s_box[x]] = x
    /\ \A i \in 0..10 : aes_rcon[i] \in Byte
BY TablesAssumption DEF BoxesTrue

LEMMA SubbytesType ==
    ASSUME NEW m \in Block
    PROVE  subbytes(m) \in Block /\ invsubbytes(m) \in Block
BY BoxesUndone DEF subbytes, invsubbytes, Block

LEMMA RowsType ==
    ASSUME NEW m \in Block
    PROVE  shiftrows(m) \in Block /\ invshiftrows(m) \in Block
<1>1. ASSUME NEW i \in 1..16, NEW x \in Int
      PROVE  4 * ((i - 1) \div 4) + ((i - 1 + x) % 4) + 1 \in 1..16
  BY Places
<1>2. \A i \in 1..16 : ((i - 1) \div 4) + 1 \in 1..4
  OBVIOUS
<1> DEFINE there == <<0, 1, 2, 3>>
           back == <<0, 3, 2, 1>>
<1>3. \A r \in 1..4 : there[r] \in Int /\ back[r] \in Int
  OBVIOUS
<1> HIDE DEF there, back
<1>4. Rotated(m, there) \in Block /\ Rotated(m, back) \in Block
  BY <1>1, <1>2, <1>3 DEF Rotated, Block
<1> QED
  BY <1>4 DEF shiftrows, invshiftrows, there, back

\* The rotations of the rows, row by row
LEMMA RowsAre ==
    ASSUME NEW m \in Block, NEW i \in 1..16
    PROVE  /\ i \in 1..4 => shiftrows(m)[i] = m[i] /\ invshiftrows(m)[i] = m[i]
           /\ i \in 5..7 => shiftrows(m)[i] = m[i + 1]
           /\ i = 8 => shiftrows(m)[i] = m[5]
           /\ i \in 9..10 => shiftrows(m)[i] = m[i + 2] /\ invshiftrows(m)[i] = m[i + 2]
           /\ i \in 11..12 => shiftrows(m)[i] = m[i - 2] /\ invshiftrows(m)[i] = m[i - 2]
           /\ i = 13 => shiftrows(m)[i] = m[16]
           /\ i \in 14..16 => shiftrows(m)[i] = m[i - 1]
           /\ i = 5 => invshiftrows(m)[i] = m[8]
           /\ i \in 6..8 => invshiftrows(m)[i] = m[i - 1]
           /\ i \in 13..15 => invshiftrows(m)[i] = m[i + 1]
           /\ i = 16 => invshiftrows(m)[i] = m[13]
<1> DEFINE r == (i - 1) \div 4
           there == <<0, 1, 2, 3>>
           back == <<0, 3, 2, 1>>
<1>1. /\ shiftrows(m)[i] = m[4 * r + ((i - 1 + there[r + 1]) % 4) + 1]
      /\ invshiftrows(m)[i] = m[4 * r + ((i - 1 + back[r + 1]) % 4) + 1]
  BY DEF shiftrows, invshiftrows, Rotated
<1>2. CASE i \in 1..4
  <2>1. r = 0 /\ there[1] = 0 /\ back[1] = 0 /\ (i - 1) % 4 = i - 1
    BY <1>2
  <2> QED
    BY <1>1, <1>2, <2>1
<1>3. CASE i \in 5..8
  <2>1. r = 1 /\ there[2] = 1 /\ back[2] = 3
    BY <1>3
  <2>2. /\ i # 8 => (i - 1 + 1) % 4 = i - 4
        /\ i = 8 => (i - 1 + 1) % 4 = 0
        /\ i # 5 => (i - 1 + 3) % 4 = i - 6
        /\ i = 5 => (i - 1 + 3) % 4 = 3
    BY <1>3
  <2> QED
    BY <1>1, <1>3, <2>1, <2>2
<1>4. CASE i \in 9..12
  <2>1. r = 2 /\ there[3] = 2 /\ back[3] = 2
    BY <1>4
  <2>2. /\ i \in 9..10 => (i - 1 + 2) % 4 = i - 7
        /\ i \in 11..12 => (i - 1 + 2) % 4 = i - 11
    BY <1>4
  <2> QED
    BY <1>1, <1>4, <2>1, <2>2
<1>5. CASE i \in 13..16
  <2>1. r = 3 /\ there[4] = 3 /\ back[4] = 1
    BY <1>5
  <2>2. /\ i = 13 => (i - 1 + 3) % 4 = 3
        /\ i # 13 => (i - 1 + 3) % 4 = i - 14
        /\ i # 16 => (i - 1 + 1) % 4 = i - 12
        /\ i = 16 => (i - 1 + 1) % 4 = 0
    BY <1>5
  <2> QED
    BY <1>1, <1>5, <2>1, <2>2
<1> QED
  BY <1>2, <1>3, <1>4, <1>5

\* Blocks are the same where all their bytes are.
LEMMA SameBlock ==
    ASSUME NEW m \in Block, NEW n \in Block, \A i \in 1..16 : m[i] = n[i]
    PROVE  m = n
BY DEF Block

LEMMA RowsUndone ==
    ASSUME NEW m \in Block
    PROVE  invshiftrows(shiftrows(m)) = m
<1> DEFINE n == shiftrows(m)
<1>1. n \in Block /\ invshiftrows(n) \in Block
  BY RowsType
<1>2. ASSUME NEW i \in 1..16 PROVE invshiftrows(n)[i] = m[i]
  <2> HIDE DEF n
  <2>1. CASE i \in 1..4
    <3>1. invshiftrows(n)[i] = n[i]
      BY <1>1, <2>1, RowsAre
    <3> QED
      BY <2>1, <3>1, RowsAre DEF n
  <2>2. CASE i = 5
    <3>1. invshiftrows(n)[i] = n[8] /\ 8 \in 1..16
      BY <1>1, <2>2, RowsAre
    <3> QED
      BY <2>2, <3>1, RowsAre DEF n
  <2>3. CASE i \in 6..8
    <3>1. invshiftrows(n)[i] = n[i - 1] /\ i - 1 \in 1..16 /\ i - 1 \in 5..7
      BY <1>1, <2>3, RowsAre
    <3>2. n[i - 1] = m[(i - 1) + 1]
      BY <3>1, RowsAre DEF n
    <3> QED
      BY <3>1, <3>2
  <2>4. CASE i \in 9..10
    <3>1. invshiftrows(n)[i] = n[i + 2] /\ i + 2 \in 1..16 /\ i + 2 \in 11..12
      BY <1>1, <2>4, RowsAre
    <3>2. n[i + 2] = m[(i + 2) - 2]
      BY <3>1, RowsAre DEF n
    <3> QED
      BY <3>1, <3>2
  <2>5. CASE i \in 11..12
    <3>1. invshiftrows(n)[i] = n[i - 2] /\ i - 2 \in 1..16 /\ i - 2 \in 9..10
      BY <1>1, <2>5, RowsAre
    <3>2. n[i - 2] = m[(i - 2) + 2]
      BY <3>1, RowsAre DEF n
    <3> QED
      BY <3>1, <3>2
  <2>6. CASE i \in 13..15
    <3>1. invshiftrows(n)[i] = n[i + 1] /\ i + 1 \in 1..16 /\ i + 1 \in 14..16
      BY <1>1, <2>6, RowsAre
    <3>2. n[i + 1] = m[(i + 1) - 1]
      BY <3>1, RowsAre DEF n
    <3> QED
      BY <3>1, <3>2
  <2>7. CASE i = 16
    <3>1. invshiftrows(n)[i] = n[13] /\ 13 \in 1..16
      BY <1>1, <2>7, RowsAre
    <3> QED
      BY <2>7, <3>1, RowsAre DEF n
  <2> QED
    BY <2>1, <2>2, <2>3, <2>4, <2>5, <2>6, <2>7
<1> QED
  BY <1>1, <1>2, SameBlock

\* subbytes and shiftrows are undone in either order.
LEMMA SubstitutionUndone ==
    ASSUME NEW m \in Block
    PROVE  /\ invsubbytes(invshiftrows(shiftrows(subbytes(m)))) = m
           /\ invshiftrows(invsubbytes(shiftrows(subbytes(m)))) = m
<1>1. ASSUME NEW n \in Block PROVE invsubbytes(subbytes(n)) = n
  <2>1. \A i \in 1..16 : n[i] \in Byte
    BY DEF Block
  <2>2. \A i \in 1..16 : invsubbytes(subbytes(n))[i] = n[i]
    BY <2>1, BoxesUndone DEF subbytes, invsubbytes
  <2> QED
    BY <2>2, SubbytesType, SameBlock
<1>2. subbytes(m) \in Block
  BY SubbytesType
<1>3. invshiftrows(shiftrows(subbytes(m))) = subbytes(m)
  BY <1>2, RowsUndone
<1>4. invsubbytes(shiftrows(subbytes(m))) = shiftrows(m)
  <2> DEFINE n == shiftrows(subbytes(m))
  <2>1. n \in Block /\ invsubbytes(n) \in Block /\ shiftrows(m) \in Block
    BY <1>2, RowsType, SubbytesType
  <2>2. ASSUME NEW i \in 1..16 PROVE invsubbytes(n)[i] = shiftrows(m)[i]
    <3> DEFINE k == IF i \in 1..4 THEN i
                    ELSE IF i \in 5..7 THEN i + 1
                    ELSE IF i = 8 THEN 5
                    ELSE IF i \in 9..10 THEN i + 2
                    ELSE IF i \in 11..12 THEN i - 2
                    ELSE IF i = 13 THEN 16
                    ELSE i - 1
    <3>1. k \in 1..16
      OBVIOUS
    <3>2. shiftrows(m)[i] = m[k] /\ n[i] = subbytes(m)[k]
      <4>1. /\ i \in 1..4 \/ i \in 5..7 \/ i = 8 \/ i \in 9..10 \/ i \in 11..12 \/ i = 13 \/ i \in 14..16
        OBVIOUS
      <4> QED
        BY <1>2, <4>1, RowsAre
    <3> HIDE DEF k, n
    <3>3. m[k] \in Byte
      BY <3>1 DEF Block
    <3>4. invsubbytes(n)[i] = aes_inv_s_box[n[i]] /\ subbytes(m)[k] = aes_s_box[m[k]]
      BY <3>1 DEF invsubbytes, subbytes
    <3> QED
      BY <3>2, <3>3, <3>4, BoxesUndone
  <2> QED
    BY <2>1, <2>2, SameBlock
<1> QED
  BY <1>1, <1>3, <1>4, RowsUndone

LEMMA MatrixUndone ==
    ASSUME NEW b \in Block
    PROVE  char2matrix(b) \in Block /\ char2matrix(char2matrix(b)) = b
<1>1. \A i \in 1..16 : 4 * ((i - 1) % 4) + ((i - 1) \div 4) + 1 \in 1..16
  OBVIOUS
<1>2. char2matrix(b) \in Block
  BY <1>1 DEF char2matrix, Block
<1>3. ASSUME NEW c \in Block PROVE char2matrix(c) \in Block
  BY <1>1, <1>3 DEF char2matrix, Block
<1>4. ASSUME NEW i \in 1..16 PROVE char2matrix(char2matrix(b))[i] = b[i]
  <2> DEFINE k == 4 * ((i - 1) % 4) + ((i - 1) \div 4) + 1
  <2>1. k \in 1..16 /\ 4 * ((k - 1) % 4) + ((k - 1) \div 4) + 1 = i
    OBVIOUS
  <2>2. char2matrix(char2matrix(b))[i] = char2matrix(b)[k]
    BY DEF char2matrix
  <2> HIDE DEF k
  <2>3. char2matrix(b)[k] = b[4 * ((k - 1) % 4) + ((k - 1) \div 4) + 1]
    BY <2>1 DEF char2matrix
  <2> QED
    BY <2>1, <2>2, <2>3
<1> QED
  BY <1>2, <1>3, <1>4, SameBlock

-----------------------------------------------------------------------------
(* Round keys                                                               *)

LEMMA Sizes ==
    ASSUME type \in {4, 6, 8}
    PROVE  /\ Round = type + 6 /\ Round \in {10, 12, 14}
           /\ arrayLength = 4 * Round + 4
BY DEF Round, arrayLength

\* A schedule with all its words
IsSchedule(e) == e \in Seq(Word) /\ Len(e) = arrayLength

LEMMA RoundKeyType ==
    ASSUME type \in {4, 6, 8}, NEW m \in Block, NEW e, IsSchedule(e), NEW j \in 0..Round
    PROVE  /\ addroundkey(m, e, j) \in Block
           /\ addroundkey(addroundkey(m, e, j), e, j) = m
<1> DEFINE k(i) == e[4 * j + ((i - 1) % 4) + 1][((i - 1) \div 4) + 1]
<1>1. ASSUME NEW i \in 1..16 PROVE k(i) \in Byte
  <2>1. /\ 4 * j + ((i - 1) % 4) + 1 \in 1..arrayLength
        /\ ((i - 1) \div 4) + 1 \in 1..4
    BY Sizes
  <2>2. e[4 * j + ((i - 1) % 4) + 1] \in Word
    BY <2>1 DEF IsSchedule
  <2> QED
    BY <2>1, <2>2 DEF Word
<1>2. \A n : addroundkey(n, e, j) = [i \in 1..16 |-> Plus(n[i], k(i))]
  BY Zenon DEF addroundkey, Plus
<1> HIDE DEF k
<1>3. \A n \in Block : addroundkey(n, e, j) \in Block
  BY <1>1, <1>2, PlusType DEF Block
<1>4. ASSUME NEW i \in 1..16 PROVE addroundkey(addroundkey(m, e, j), e, j)[i] = m[i]
  <2>1. addroundkey(addroundkey(m, e, j), e, j)[i] = Plus(Plus(m[i], k(i)), k(i))
    BY <1>2
  <2>2. m[i] \in Byte
    BY DEF Block
  <2> QED
    BY <1>1, <2>1, <2>2, PlusTwice
<1> QED
  BY <1>3, <1>4, SameBlock

LEMMA ReversedIs ==
    ASSUME type \in {4, 6, 8}, NEW e, IsSchedule(e)
    PROVE  /\ IsSchedule(Reversed(e))
           /\ \A j \in 0..Round, c \in 1..4 : Reversed(e)[4 * j + c] = e[4 * (Round - j) + c]
<1>1. Len(e) = 4 * Round + 4 /\ Round \in Nat
  BY Sizes DEF IsSchedule
<1> DEFINE n == Len(e)
           at(i) == n - 4 * ((i - 1) \div 4) - 4 + ((i - 1) % 4) + 1
<1>2. Reversed(e) = [i \in 1..n |-> e[at(i)]]
  BY DEF Reversed
<1>3. ASSUME NEW i \in 1..n PROVE at(i) \in 1..n
  BY <1>1
<1>4. \A i \in 1..n : e[i] \in Word
  BY DEF IsSchedule
<1>5. ASSUME NEW j \in 0..Round, NEW c \in 1..4
      PROVE  4 * j + c \in 1..n /\ at(4 * j + c) = 4 * (Round - j) + c
  <2>1. (4 * j + c - 1) \div 4 = j /\ (4 * j + c - 1) % 4 = c - 1
    BY <1>1
  <2> QED
    BY <1>1, <2>1
<1>6. n \in Nat
  BY <1>1
<1> HIDE DEF at, n
<1>7. Reversed(e) \in [1..n -> Word]
  BY <1>2, <1>3, <1>4
<1>8. Reversed(e) \in Seq(Word) /\ Len(Reversed(e)) = n
  BY <1>2, <1>6, <1>7
<1>9. n = arrayLength
  BY DEF n, IsSchedule
<1> QED
  BY <1>2, <1>5, <1>8, <1>9 DEF IsSchedule

\* The reversed schedule adds the same round keys, the last one first.
LEMMA ReversedAdds ==
    ASSUME type \in {4, 6, 8}, NEW m \in Block, NEW e, IsSchedule(e), NEW j \in 0..Round
    PROVE  addroundkey(m, Reversed(e), j) = addroundkey(m, e, Round - j)
<1>1. \A i \in 1..16 : ((i - 1) % 4) + 1 \in 1..4
  OBVIOUS
<1>2. Round \in Int
  BY Sizes
<1>3. ASSUME NEW i \in 1..16
      PROVE  Reversed(e)[4 * j + ((i - 1) % 4) + 1] = e[4 * (Round - j) + ((i - 1) % 4) + 1]
  <2> DEFINE c == ((i - 1) % 4) + 1
  <2>1. c \in 1..4 /\ 4 * j + ((i - 1) % 4) + 1 = 4 * j + c
        /\ 4 * (Round - j) + ((i - 1) % 4) + 1 = 4 * (Round - j) + c
    BY <1>2
  <2> HIDE DEF c
  <2>2. Reversed(e)[4 * j + c] = e[4 * (Round - j) + c]
    BY <2>1, ReversedIs
  <2> QED
    BY <2>1, <2>2
<1> QED
  BY <1>3 DEF addroundkey

-----------------------------------------------------------------------------
(* Key schedules                                                            *)

LEMMA WordIsSequence ==
    ASSUME NEW v \in Word
    PROVE  Len(v) = 4 /\ \A i \in 1..4 : v[i] \in Byte
BY DEF Word

LEMMA XoredType ==
    ASSUME NEW v \in Word, NEW u \in Word
    PROVE  /\ Xored(v, u) \in Word
           /\ Xored(v, u) = [i \in 1..4 |-> Plus(v[i], u[i])]
<1>1. Xored(v, u) = [i \in 1..4 |-> Plus(v[i], u[i])]
  BY WordIsSequence DEF Xored, Plus
<1> QED
  BY <1>1, WordIsSequence, PlusType DEF Word

\* The word that follows the first i of e
WordAfter(e, i) ==
    LET temp == IF i % type = 0 THEN Xored(mix(e[i]), <<aes_rcon[i \div type], 0, 0, 0>>)
                ELSE IF type > 6 /\ i % type = 4 THEN subword(e[i])
                ELSE e[i]
    IN  Xored(e[i - type + 1], temp)

LEMMA NextKeyIs ==
    ASSUME NEW e
    PROVE  NextKey(e) = WordAfter(e, Len(e))
BY DEF NextKey, WordAfter

LEMMA SubwordType ==
    ASSUME NEW v \in Word
    PROVE  subword(v) \in Word /\ mix(v) \in Word
<1>1. ASSUME NEW u \in Word PROVE subword(u) \in Word
  BY BoxesUndone, WordIsSequence DEF subword, Word
<1>2. <<v[2], v[3], v[4], v[1]>> \in Word
  BY DEF Word
<1> QED
  BY <1>1, <1>2 DEF mix

LEMMA RconType ==
    ASSUME type \in {4, 6, 8}, NEW i \in type..(arrayLength - 1)
    PROVE  /\ i \div type \in 1..10
           /\ <<aes_rcon[i \div type], 0, 0, 0>> \in Word
<1>1. i \div type \in 1..10
  <2>1. CASE type = 4
    <3>1. i \in 4..43
      BY <2>1, Sizes
    <3> QED
      BY <2>1, <3>1
  <2>2. CASE type = 6
    <3>1. i \in 6..51
      BY <2>2, Sizes
    <3> QED
      BY <2>2, <3>1
  <2>3. CASE type = 8
    <3>1. i \in 8..59
      BY <2>3, Sizes
    <3> QED
      BY <2>3, <3>1
  <2> QED
    BY <2>1, <2>2, <2>3
<1>2. aes_rcon[i \div type] \in Byte
  <2> DEFINE j == i \div type
  <2>1. j \in 0..10
    BY <1>1
  <2> HIDE DEF j
  <2>2. aes_rcon[j] \in Byte
    BY <2>1, BoxesUndone
  <2> QED
    BY <2>2 DEF j
<1>3. 0 \in Byte
  BY DEF Byte
<1> QED
  BY <1>1, <1>2, <1>3 DEF Word

LEMMA WordAfterType ==
    ASSUME type \in {4, 6, 8}, NEW i \in type..(arrayLength - 1), NEW e,
           e[i] \in Word, e[i - type + 1] \in Word
    PROVE  WordAfter(e, i) \in Word
BY RconType, SubwordType, XoredType DEF WordAfter

\* Equal words are followed by equal words.
LEMMA WordAfterSame ==
    ASSUME NEW e, NEW f, NEW i \in Int, type \in Int,
           e[i] = f[i], e[i - type + 1] = f[i - type + 1]
    PROVE  WordAfter(e, i) = WordAfter(f, i)
BY DEF WordAfter

\* The words a key begins with
FirstWords(tail) == Words(Taken(secret, 4 * type, tail))

LEMMA FirstWordsType ==
    ASSUME type \in {4, 6, 8}, secret \in Seq(Byte), NEW tail \in Byte
    PROVE  FirstWords(tail) \in Seq(Word) /\ Len(FirstWords(tail)) = type
<1> DEFINE bytes == Taken(secret, 4 * type, tail)
<1>1. bytes \in [1..4 * type -> Byte] /\ Len(bytes) = 4 * type
  BY DEF Taken
<1>2. (4 * type) \div 4 = type
  OBVIOUS
<1> HIDE DEF bytes
<1>3. Words(bytes) = [i \in 1..type |-> [j \in 1..4 |-> bytes[4 * (i - 1) + j]]]
  BY <1>1, <1>2 DEF Words
<1>4. \A i \in 1..type, j \in 1..4 : 4 * (i - 1) + j \in 1..4 * type
  OBVIOUS
<1>5. \A i \in 1..type : [j \in 1..4 |-> bytes[4 * (i - 1) + j]] \in Word
  BY <1>1, <1>4 DEF Word
<1>6. Words(bytes) \in Seq(Word) /\ Len(Words(bytes)) = type
  BY <1>3, <1>5
<1> QED
  BY <1>6 DEF FirstWords, bytes

\* What lies beyond a key that is long enough does not matter.
LEMMA LongKey ==
    ASSUME type \in {4, 6, 8}, secret \in Seq(Byte), Len(secret) >= 4 * type, NEW tail
    PROVE  FirstWords(tail) = FirstWords(0)
<1>1. Taken(secret, 4 * type, tail) = Taken(secret, 4 * type, 0)
  BY DEF Taken
<1> QED
  BY <1>1 DEF FirstWords

-----------------------------------------------------------------------------
(* The invariant                                                            *)

\* A key begins with the bytes it is made from and goes on by WordAfter.
KeyRight(s) ==
    LET e == keys[s].e
        d == keys[s].d
    IN  /\ e = <<>> => d = <<>>
        /\ e # <<>> =>
              /\ type <= Len(e)
              /\ s \notin unwritten => \A i \in 1..type : e[i] = FirstWords(0)[i]
              /\ \A i \in type..(Len(e) - 1) : e[i + 1] = WordAfter(e, i)
        /\ d # <<>> => IsSchedule(e) /\ d = Reversed(e)

KeysRight ==
    /\ \A s \in Side : KeyRight(s)
    /\ stage # "keys" => \A s \in Side : Usable(s)

\* The matrix after round j, from what was before it
Encrypted(m, e, j) ==
    addroundkey(IF j < Round THEN mixcolumns(shiftrows(subbytes(m)))
                ELSE shiftrows(subbytes(m)), e, j)

\* The trace is that of an encryption, and where its matrix stands.
TraceRight ==
    stage # "keys" =>
        /\ IF stage = "encrypting" THEN done < Round /\ Len(trace) = done + 1
           ELSE Len(trace) = Round + 1
        /\ stage \in {"encrypting", "sealed"} => matrix4x4 = trace[Len(trace)]
        /\ \A j \in 1..(Len(trace) - 1) :
              trace[j + 1] = Encrypted(trace[j], keys["sealer"].e, j)

\* Where a decryption with an equal key stands.
WayBack ==
    keys["sealer"].e = keys["opener"].e =>
        /\ stage = "decrypting" =>
              done < Round /\ matrix4x4 = shiftrows(subbytes(trace[Round - done]))
        /\ stage = "opened" => addroundkey(matrix4x4, keys["sealer"].e, 0) = trace[1]

Inv == TypeOK /\ KeysRight /\ TraceRight /\ WayBack

LEMMA ZeroBlock == Zeros(16) \in Block
BY DEF Zeros, Block, Byte

LEMMA InitInv == Init => Inv
<1> SUFFICES ASSUME Init PROVE Inv
  OBVIOUS
<1>1. type \in {4, 6, 8} /\ Round \in {10, 12, 14} /\ arrayLength \in Nat
  BY Sizes DEF Init
<1>2. TypeOK
  BY <1>1, ZeroBlock DEF Init, TypeOK, Keys, Usable
<1>3. KeysRight
  BY DEF Init, KeysRight, KeyRight
<1>4. TraceRight /\ WayBack
  BY DEF Init, TraceRight, WayBack
<1> QED
  BY <1>2, <1>3, <1>4 DEF Inv

-----------------------------------------------------------------------------
(* Types                                                                    *)

\* Both parts of one key
LEMMA OneKey ==
    ASSUME keys \in [Side -> Keys], NEW s \in Side, NEW x
    PROVE  /\ [keys EXCEPT ![s].e = x] = [keys EXCEPT ![s] = [e |-> x, d |-> keys[s].d]]
           /\ [keys EXCEPT ![s].d = x] = [keys EXCEPT ![s] = [e |-> keys[s].e, d |-> x]]
<1> DEFINE k == keys[s]
<1>1. k \in Keys
  OBVIOUS
<1>2. /\ [k EXCEPT !.e = x] = [e |-> x, d |-> k.d]
      /\ [k EXCEPT !.d = x] = [e |-> k.e, d |-> x]
  <2> HIDE DEF k
  <2> QED
    BY <1>1 DEF Keys
<1>3. /\ [keys EXCEPT ![s].e = x] = [keys EXCEPT ![s] = [k EXCEPT !.e = x]]
      /\ [keys EXCEPT ![s].d = x] = [keys EXCEPT ![s] = [k EXCEPT !.d = x]]
  OBVIOUS
<1> QED
  BY <1>2, <1>3

\* A step of a constructor changes one key only.
LEMMA KeyTyped ==
    ASSUME Inv, NEW s \in Side, NEW e \in Seq(Word), NEW d \in Seq(Word),
           Len(e) <= arrayLength, d # <<>> => Len(d) = arrayLength,
           keys' = [keys EXCEPT ![s] = [e |-> e, d |-> d]],
           UNCHANGED <<secret, type, cipher, ghash>>, unwritten' \subseteq Side
    PROVE  TypeOK'
<1>1. /\ Round' = Round /\ arrayLength' = arrayLength
  BY DEF Round, arrayLength
<1>2. keys' \in [Side -> Keys]
  BY DEF Inv, TypeOK, Keys
<1>3. \A t \in Side : /\ Len(keys'[t].e) <= arrayLength
                      /\ keys'[t].d # <<>> => Len(keys'[t].d) = arrayLength
  BY DEF Inv, TypeOK, Usable
<1> QED
  BY <1>1, <1>2, <1>3 DEF Inv, TypeOK, Usable, cipher, ghash

LEMMA BlockTyped ==
    ASSUME TypeOK, UNCHANGED <<secret, type, keys, unwritten, ghash>>,
           stage' \in {"encrypting", "sealed", "decrypting", "opened"},
           input' \in Block, matrix4x4' \in Block, done' \in 0..Round,
           trace' \in Seq(Block)
    PROVE  TypeOK'
<1>1. Round' = Round /\ arrayLength' = arrayLength
  BY DEF Round, arrayLength
<1> QED
  BY <1>1 DEF TypeOK, Usable, ghash

-----------------------------------------------------------------------------
(* The constructors keep the invariant                                      *)

LEMMA ConstructKeepsInv ==
    ASSUME Inv, NEW s \in Side, NEW tail \in Byte,
           Construct(s, Taken(secret, 4 * type, tail)),
           unwritten' \in SUBSET Side, unwritten \subseteq unwritten',
           s \notin unwritten' => FirstWords(tail) = FirstWords(0)
    PROVE  Inv'
<1> DEFINE e == FirstWords(tail)
<1>1. /\ stage = "keys" /\ keys[s].e = <<>>
      /\ keys' = [keys EXCEPT ![s].e = e]
      /\ UNCHANGED <<secret, type, cipher, ghash>>
  BY DEF Construct, FirstWords
<1>2. type \in {4, 6, 8} /\ secret \in Seq(Byte) /\ keys \in [Side -> Keys]
  BY InputsAssumption DEF Inv, TypeOK
<1>3. e \in Seq(Word) /\ Len(e) = type
  BY <1>2, FirstWordsType
<1> HIDE DEF e
<1>4. keys[s].d = <<>>
  BY <1>1 DEF Inv, KeysRight, KeyRight
<1>5. keys' = [keys EXCEPT ![s] = [e |-> e, d |-> <<>>]]
  <2>1. keys' = [keys EXCEPT ![s] = [e |-> e, d |-> keys[s].d]]
    BY <1>1, <1>2, OneKey
  <2> QED
    BY <1>4, <2>1, Zenon
<1>6. TypeOK'
  <2>1. Len(e) <= arrayLength /\ <<>> \in Seq(Word)
    BY <1>2, <1>3, Sizes
  <2> QED
    BY <1>1, <1>3, <1>5, <2>1, KeyTyped
<1>7. \A t \in Side : t # s => keys'[t] = keys[t]
  BY <1>1, <1>2
<1>8. keys'[s].e = e /\ keys'[s].d = <<>>
  BY <1>2, <1>5
<1>9. \A x : FirstWords(x)' = FirstWords(x)
  BY <1>1 DEF FirstWords, Taken, Words
<1>10. \A f, i : WordAfter(f, i)' = WordAfter(f, i)
  BY <1>1 DEF WordAfter
<1>11. ASSUME NEW t \in Side PROVE KeyRight(t)'
  <2>1. CASE t = s
    <3>1. e # <<>>
      BY <1>2, <1>3
    <3>2. s \notin unwritten' => \A i \in 1..type : e[i] = FirstWords(0)[i]
      BY DEF e
    <3> QED
      BY <1>1, <1>2, <1>3, <1>8, <1>9, <2>1, <3>1, <3>2 DEF KeyRight
  <2>2. CASE t # s
    <3>1. KeyRight(t)
      BY DEF Inv, KeysRight
    <3>2. arrayLength' = arrayLength /\ \A f : Reversed(f)' = Reversed(f)
      BY <1>1 DEF arrayLength, Round, Reversed
    <3>3. keys[t]' = keys[t] /\ type' = type
      BY <1>1, <1>7, <2>2
    <3>4. t \notin unwritten' => t \notin unwritten
      OBVIOUS
    <3> QED
      BY <1>9, <1>10, <3>1, <3>2, <3>3, <3>4 DEF KeyRight, IsSchedule
  <2> QED
    BY <2>1, <2>2
<1>12. KeysRight' /\ TraceRight' /\ WayBack'
  BY <1>1, <1>11 DEF KeysRight, TraceRight, WayBack, cipher
<1> QED
  BY <1>6, <1>12 DEF Inv

LEMMA ExpandKeepsInv ==
    ASSUME Inv, NEW s \in Side, ExpandKey(s)
    PROVE  Inv'
<1> DEFINE e == keys[s].e
           w == NextKey(e)
           n == Len(e)
           f == Append(e, w)
<1>1. /\ e # <<>> /\ keys[s].d = <<>> /\ Len(e) < arrayLength
      /\ keys' = [keys EXCEPT ![s].e = f]
      /\ UNCHANGED <<secret, type, unwritten, cipher, ghash>>
  BY DEF ExpandKey, InConstructor
<1>2. type \in {4, 6, 8} /\ keys \in [Side -> Keys] /\ KeyRight(s)
  BY DEF Inv, TypeOK, KeysRight
<1>3. /\ e \in Seq(Word) /\ n \in type..(arrayLength - 1)
      /\ \A i \in type..(n - 1) : e[i + 1] = WordAfter(e, i)
      /\ s \notin unwritten => \A i \in 1..type : e[i] = FirstWords(0)[i]
  <2>1. e \in Seq(Word)
    BY <1>2 DEF Keys
  <2> QED
    BY <1>1, <1>2, <2>1, Sizes DEF KeyRight
<1>4. w = WordAfter(e, n)
  BY NextKeyIs
<1>5. w \in Word
  <2>1. e[n] \in Word /\ e[n - type + 1] \in Word
    BY <1>2, <1>3
  <2> QED
    BY <1>2, <1>3, <1>4, <2>1, WordAfterType
<1> HIDE DEF e, w, n
<1>6. /\ f \in Seq(Word) /\ Len(f) = n + 1 /\ f # <<>>
      /\ \A i \in 1..n : f[i] = e[i]
      /\ f[n + 1] = w
  BY <1>3, <1>5 DEF n
<1> HIDE DEF f
<1>7. keys' = [keys EXCEPT ![s] = [e |-> f, d |-> <<>>]]
  <2>1. keys' = [keys EXCEPT ![s] = [e |-> f, d |-> keys[s].d]]
    BY <1>1, <1>2, OneKey
  <2> QED
    BY <1>1, <2>1, Zenon
<1>8. TypeOK'
  <2>1. Len(f) <= arrayLength /\ <<>> \in Seq(Word)
    BY <1>2, <1>3, <1>6, Sizes
  <2>2. unwritten' \subseteq Side
    BY <1>1 DEF Inv, TypeOK
  <2> QED
    BY <1>1, <1>6, <1>7, <2>1, <2>2, KeyTyped
<1>9. \A t \in Side : t # s => keys'[t] = keys[t]
  BY <1>1, <1>2
<1>10. keys'[s].e = f /\ keys'[s].d = <<>>
  BY <1>2, <1>7
<1>11. /\ \A x : FirstWords(x)' = FirstWords(x)
       /\ \A g, i : WordAfter(g, i)' = WordAfter(g, i)
  BY <1>1 DEF FirstWords, Taken, Words, WordAfter
<1>12. ASSUME NEW t \in Side PROVE KeyRight(t)'
  <2>1. CASE t = s
    <3>1. ASSUME NEW i \in type..n PROVE f[i + 1] = WordAfter(f, i)
      <4>1. i \in 1..n /\ i - type + 1 \in 1..n
        BY <1>2, <1>3
      <4>2. WordAfter(f, i) = WordAfter(e, i)
        BY <1>2, <1>6, <4>1, WordAfterSame
      <4>3. CASE i = n
        BY <1>4, <1>6, <4>2, <4>3
      <4>4. CASE i # n
        <5>1. i \in type..(n - 1) /\ i + 1 \in 1..n
          BY <1>2, <1>3, <4>1, <4>4
        <5> QED
          BY <1>3, <1>6, <4>2, <5>1
      <4> QED
        BY <4>3, <4>4
    <3>2. type <= n + 1 /\ (n + 1) - 1 = n
      BY <1>2, <1>3
    <3>3. s \notin unwritten => \A i \in 1..type : f[i] = FirstWords(0)[i]
      BY <1>2, <1>3, <1>6
    <3>4. /\ f # <<>> /\ Len(f) = n + 1
          /\ \A i \in type..(Len(f) - 1) : f[i + 1] = WordAfter(f, i)
      BY <1>6, <3>1, <3>2
    <3> QED
      BY <1>1, <1>10, <1>11, <2>1, <3>2, <3>3, <3>4 DEF KeyRight
  <2>2. CASE t # s
    <3>1. KeyRight(t)
      BY DEF Inv, KeysRight
    <3>2. arrayLength' = arrayLength /\ \A g : Reversed(g)' = Reversed(g)
      BY <1>1 DEF arrayLength, Round, Reversed
    <3>3. keys[t]' = keys[t] /\ type' = type /\ unwritten' = unwritten
      BY <1>1, <1>9, <2>2
    <3> QED
      BY <1>11, <3>1, <3>2, <3>3 DEF KeyRight, IsSchedule
  <2> QED
    BY <2>1, <2>2
<1>13. stage = "keys"
  BY <1>1 DEF Inv, KeysRight, Usable, e
<1>14. KeysRight' /\ TraceRight' /\ WayBack'
  BY <1>1, <1>12, <1>13 DEF KeysRight, TraceRight, WayBack, cipher
<1> QED
  BY <1>8, <1>14 DEF Inv

LEMMA ReverseKeepsInv ==
    ASSUME Inv, NEW s \in Side, ReverseKey(s)
    PROVE  Inv'
<1> DEFINE e == keys[s].e
           d == Reversed(e)
<1>1. /\ e # <<>> /\ keys[s].d = <<>> /\ Len(e) = arrayLength
      /\ keys' = [keys EXCEPT ![s].d = d]
      /\ UNCHANGED <<secret, type, unwritten, cipher, ghash>>
  BY DEF ReverseKey, InConstructor
<1>2. type \in {4, 6, 8} /\ keys \in [Side -> Keys] /\ KeyRight(s)
  BY DEF Inv, TypeOK, KeysRight
<1>3. IsSchedule(e) /\ IsSchedule(d)
  <2>1. IsSchedule(e)
    BY <1>1, <1>2 DEF Keys, IsSchedule
  <2> QED
    BY <1>2, <2>1, ReversedIs
<1> HIDE DEF e, d
<1>4. keys' = [keys EXCEPT ![s] = [e |-> e, d |-> d]]
  BY <1>1, <1>2, OneKey DEF e
<1>5. TypeOK'
  <2>1. unwritten' \subseteq Side
    BY <1>1 DEF Inv, TypeOK
  <2>2. e \in Seq(Word) /\ d \in Seq(Word) /\ Len(e) <= arrayLength /\ Len(d) = arrayLength
    BY <1>2, <1>3, Sizes DEF IsSchedule
  <2> QED
    BY <1>1, <1>4, <2>1, <2>2, KeyTyped
<1>6. \A t \in Side : t # s => keys'[t] = keys[t]
  BY <1>1, <1>2
<1>7. keys'[s].e = e /\ keys'[s].d = d
  BY <1>2, <1>4
<1>8. /\ \A x : FirstWords(x)' = FirstWords(x)
      /\ \A g, i : WordAfter(g, i)' = WordAfter(g, i)
      /\ arrayLength' = arrayLength /\ \A g : Reversed(g)' = Reversed(g)
  BY <1>1 DEF FirstWords, Taken, Words, WordAfter, arrayLength, Round, Reversed
<1>9. ASSUME NEW t \in Side PROVE KeyRight(t)'
  <2>1. KeyRight(t)
    BY DEF Inv, KeysRight
  <2>2. keys'[t].e = keys[t].e
    BY <1>6, <1>7 DEF e
  <2>3. keys'[t].d = keys[t].d \/ (t = s /\ keys'[t].d = d)
    BY <1>6, <1>7
  <2>4. t = s => IsSchedule(keys[t].e) /\ d = Reversed(keys[t].e) /\ keys[t].e # <<>>
    BY <1>1, <1>3 DEF e, d
  <2> QED
    BY <1>1, <1>8, <2>1, <2>2, <2>3, <2>4 DEF KeyRight, IsSchedule
<1>10. stage = "keys"
  BY <1>1 DEF Inv, KeysRight, Usable
<1>11. KeysRight' /\ TraceRight' /\ WayBack'
  BY <1>1, <1>9, <1>10 DEF KeysRight, TraceRight, WayBack, cipher
<1> QED
  BY <1>5, <1>11 DEF Inv

LEMMA KeyStepKeepsInv ==
    ASSUME Inv, NEW s \in Side, KeyStep(s)
    PROVE  Inv'
<1>1. type \in {4, 6, 8} /\ secret \in Seq(Byte) /\ unwritten \in SUBSET Side /\ 0 \in Byte
  BY InputsAssumption DEF Inv, TypeOK, Byte
<1>2. CASE FromLength(s)
  BY <1>1, <1>2, ConstructKeepsInv DEF FromLength
<1>3. CASE FromPointer(s)
  BY <1>1, <1>3, ConstructKeepsInv DEF FromPointer
<1>4. ASSUME NEW tail \in Tails, FromBtring(s, tail) PROVE Inv'
  <2>1. tail \in Byte
    BY InputsAssumption
  <2>2. Construct(s, Taken(secret, 4 * type, tail))
    BY <1>4 DEF FromBtring
  <2>3. /\ unwritten' \in SUBSET Side /\ unwritten \subseteq unwritten'
        /\ s \notin unwritten' => FirstWords(tail) = FirstWords(0)
    BY <1>1, <1>4, LongKey DEF FromBtring
  <2> QED
    BY <2>1, <2>2, <2>3, ConstructKeepsInv
<1> QED
  BY <1>2, <1>3, <1>4, ExpandKeepsInv, ReverseKeepsInv DEF KeyStep

-----------------------------------------------------------------------------
(* Encryption and decryption keep the invariant                             *)

\* What stays while the keys do.
LEMMA KeysStay ==
    ASSUME Inv, UNCHANGED <<secret, type, keys, unwritten>>, stage # "keys" \/ \A s \in Side : Usable(s)
    PROVE  /\ KeysRight' /\ \A s \in Side : IsSchedule(keys[s].e) /\ IsSchedule(keys[s].d)
                                          /\ keys[s].d = Reversed(keys[s].e)
           /\ type \in {4, 6, 8} /\ Round' = Round
<1>1. /\ \A x : FirstWords(x)' = FirstWords(x)
      /\ \A g, i : WordAfter(g, i)' = WordAfter(g, i)
      /\ arrayLength' = arrayLength /\ \A g : Reversed(g)' = Reversed(g)
      /\ Round' = Round
  BY DEF FirstWords, Taken, Words, WordAfter, arrayLength, Round, Reversed
<1>2. \A s \in Side : KeyRight(s)
  BY DEF Inv, KeysRight
<1>3. \A s \in Side : Usable(s)
  BY DEF Inv, KeysRight
<1>4. \A s \in Side : KeyRight(s)' /\ Usable(s)'
  BY <1>1, <1>2, <1>3 DEF KeyRight, IsSchedule, Usable
<1>5. type \in {4, 6, 8}
  BY DEF Inv, TypeOK
<1>6. \A s \in Side : IsSchedule(keys[s].e) /\ IsSchedule(keys[s].d) /\ keys[s].d = Reversed(keys[s].e)
  BY <1>2, <1>3, <1>5, ReversedIs DEF KeyRight, Usable
<1> QED
  BY <1>1, <1>4, <1>5, <1>6 DEF KeysRight

LEMMA EncryptBeginsKeepsInv ==
    ASSUME Inv, NEW b \in Blocks, EncryptBegins(b)
    PROVE  Inv'
<1> DEFINE m == addroundkey(char2matrix(b), keys["sealer"].e, 0)
<1>1. /\ \A s \in Side : Usable(s)
      /\ stage' = "encrypting" /\ input' = b /\ matrix4x4' = m /\ done' = 0 /\ trace' = <<m>>
      /\ UNCHANGED <<secret, type, keys, unwritten, ghash>>
  BY DEF EncryptBegins
<1>2. "sealer" \in Side
  BY DEF Side
<1>3. KeysRight' /\ IsSchedule(keys["sealer"].e) /\ type \in {4, 6, 8} /\ Round' = Round
  BY <1>1, <1>2, KeysStay
<1>4. Round \in {10, 12, 14}
  BY <1>3, Sizes
<1>5. b \in Block /\ char2matrix(b) \in Block
  BY InputsAssumption, MatrixUndone
<1>6. m \in Block
  BY <1>3, <1>4, <1>5, RoundKeyType
<1> HIDE DEF m
<1>7. TypeOK'
  <2>1. TypeOK /\ <<m>> \in Seq(Block) /\ 0 \in 0..Round
    BY <1>4, <1>6 DEF Inv
  <2> QED
    BY <1>1, <1>5, <1>6, <2>1, BlockTyped
<1>8. TraceRight' /\ WayBack'
  BY <1>1, <1>3, <1>4 DEF TraceRight, WayBack
<1> QED
  BY <1>3, <1>7, <1>8 DEF Inv

LEMMA StepTypes ==
    ASSUME NEW m \in Block
    PROVE  /\ shiftrows(subbytes(m)) \in Block
           /\ mixcolumns(shiftrows(subbytes(m))) \in Block
           /\ invsubbytes(invshiftrows(m)) \in Block
           /\ invshiftrows(invsubbytes(m)) \in Block
<1>1. subbytes(m) \in Block /\ invsubbytes(m) \in Block /\ invshiftrows(m) \in Block
  BY SubbytesType, RowsType
<1>2. shiftrows(subbytes(m)) \in Block /\ invsubbytes(invshiftrows(m)) \in Block
      /\ invshiftrows(invsubbytes(m)) \in Block
  BY <1>1, SubbytesType, RowsType
<1> QED
  BY <1>2, MixUndone

LEMMA EncryptStepKeepsInv ==
    ASSUME Inv, EncryptRound \/ EncryptEnds
    PROVE  Inv'
<1> DEFINE e == keys["sealer"].e
           m == Encrypted(matrix4x4, e, done + 1)
           n == done + 1
<1>1. /\ stage = "encrypting" /\ n <= Round
      /\ stage' = IF n < Round THEN "encrypting" ELSE "sealed"
      /\ matrix4x4' = m /\ done' = n /\ trace' = Append(trace, m)
      /\ UNCHANGED <<secret, type, keys, unwritten, input, ghash>>
  <2>1. TypeOK /\ type \in {4, 6, 8}
    BY DEF Inv, TypeOK
  <2>2. Round \in {10, 12, 14} /\ done \in 0..Round
    BY <2>1, Sizes DEF TypeOK
  <2>3. CASE EncryptRound
    BY <2>2, <2>3 DEF EncryptRound, EncryptStep, Encrypted
  <2>4. CASE EncryptEnds
    BY <2>2, <2>4 DEF EncryptEnds, EncryptStep, Encrypted
  <2> QED
    BY <2>3, <2>4
<1>2. "sealer" \in Side
  BY DEF Side
<1>3. KeysRight' /\ IsSchedule(e) /\ type \in {4, 6, 8} /\ Round' = Round
  BY <1>1, <1>2, KeysStay
<1>4. /\ Round \in {10, 12, 14} /\ done \in Nat /\ n \in 1..Round
      /\ matrix4x4 \in Block /\ trace \in Seq(Block)
  BY <1>1, <1>3, Sizes DEF Inv, TypeOK
<1>5. /\ Len(trace) = n /\ matrix4x4 = trace[n]
      /\ \A j \in 1..(n - 1) : trace[j + 1] = Encrypted(trace[j], e, j)
  BY <1>1, <1>4 DEF Inv, TraceRight
<1>6. m \in Block
  <2>1. n \in 0..Round
    BY <1>4
  <2> QED
    BY <1>3, <1>4, <2>1, StepTypes, RoundKeyType DEF Encrypted
<1>7. m = Encrypted(trace[n], e, n)
  BY <1>5
<1> HIDE DEF m, n, e
<1>8. TypeOK'
  <2>1. TypeOK /\ Append(trace, m) \in Seq(Block) /\ n \in 0..Round /\ input \in Block
    BY <1>4, <1>6 DEF Inv, TypeOK
  <2> QED
    BY <1>1, <1>6, <2>1, BlockTyped
<1>9. /\ Len(trace') = n + 1 /\ trace'[n + 1] = m
      /\ \A j \in 1..n : trace'[j] = trace[j]
  BY <1>1, <1>4, <1>5, <1>6
<1>10. \A g, h, j : Encrypted(g, h, j)' = Encrypted(g, h, j)
  BY <1>3 DEF Encrypted
<1>11. ASSUME NEW j \in 1..n PROVE trace'[j + 1] = Encrypted(trace'[j], e, j)
  <2>1. CASE j = n
    BY <1>4, <1>7, <1>9, <2>1
  <2>2. CASE j # n
    <3>1. j \in 1..(n - 1) /\ j + 1 \in 1..n
      BY <1>4, <2>2
    <3> QED
      BY <1>5, <1>9, <3>1
  <2> QED
    BY <2>1, <2>2
<1>12. keys' = keys /\ e = keys["sealer"].e
  BY <1>1 DEF e
<1>13. (n + 1) - 1 = n
  BY <1>4
<1>14. TraceRight'
  <2>1. ASSUME NEW j \in 1..(Len(trace') - 1)
        PROVE  (trace[j + 1] = Encrypted(trace[j], keys["sealer"].e, j))'
    <3>1. j \in 1..n
      BY <1>9, <1>13
    <3>2. trace'[j + 1] = Encrypted(trace'[j], e, j)
      BY <1>11, <3>1
    <3>3. keys'["sealer"].e = e
      BY <1>12
    <3> QED
      BY <1>3, <3>2, <3>3 DEF Encrypted
  <2>2. stage' \in {"encrypting", "sealed"} /\ matrix4x4' = trace'[Len(trace')]
    BY <1>1, <1>9
  <2>3. IF stage' = "encrypting" THEN done' < Round' /\ Len(trace') = done' + 1
        ELSE Len(trace') = Round' + 1
    BY <1>1, <1>3, <1>4, <1>9
  <2> QED
    BY <1>12, <2>1, <2>2, <2>3 DEF TraceRight
<1>15. WayBack'
  BY <1>1 DEF WayBack
<1> QED
  BY <1>3, <1>8, <1>14, <1>15 DEF Inv

\* What does not touch the trace leaves it right.
LEMMA TraceStays ==
    ASSUME Inv, UNCHANGED <<type, keys, trace>>, stage # "keys", stage # "encrypting",
           stage' \in {"decrypting", "opened", "hashing"}
    PROVE  TraceRight'
<1>1. Round' = Round
  BY DEF Round
<1>2. /\ Len(trace') = Round' + 1
      /\ \A j \in 1..(Len(trace) - 1) : trace[j + 1] = Encrypted(trace[j], keys["sealer"].e, j)
  BY <1>1 DEF Inv, TraceRight
<1>3. ASSUME NEW j \in 1..(Len(trace') - 1)
      PROVE  (trace[j + 1] = Encrypted(trace[j], keys["sealer"].e, j))'
  BY <1>1, <1>2 DEF Encrypted
<1> QED
  BY <1>2, <1>3 DEF TraceRight

LEMMA DecryptBeginsKeepsInv ==
    ASSUME Inv, DecryptBegins
    PROVE  Inv'
<1> DEFINE e == keys["sealer"].e
           f == keys["opener"].e
           d == keys["opener"].d
           m == addroundkey(char2matrix(char2matrix(matrix4x4)), d, 0)
<1>1. /\ stage = "sealed" /\ stage' = "decrypting"
      /\ input' = char2matrix(matrix4x4) /\ matrix4x4' = m /\ done' = 0
      /\ UNCHANGED <<secret, type, keys, unwritten, trace, ghash>>
  BY DEF DecryptBegins
<1>2. "sealer" \in Side /\ "opener" \in Side
  BY DEF Side
<1>3. /\ KeysRight' /\ IsSchedule(e) /\ IsSchedule(f) /\ IsSchedule(d) /\ d = Reversed(f)
      /\ type \in {4, 6, 8} /\ Round' = Round
  BY <1>1, <1>2, KeysStay
<1>4. Round \in {10, 12, 14}
  BY <1>3, Sizes
<1>5. matrix4x4 \in Block /\ trace \in Seq(Block)
  BY DEF Inv, TypeOK
<1>6. /\ char2matrix(matrix4x4) \in Block
      /\ m = addroundkey(matrix4x4, d, 0) /\ m \in Block
  BY <1>3, <1>4, <1>5, MatrixUndone, RoundKeyType
<1>7. /\ Len(trace) = Round + 1 /\ matrix4x4 = trace[Round + 1]
      /\ trace[Round + 1] = Encrypted(trace[Round], e, Round)
  BY <1>1, <1>4 DEF Inv, TraceRight
<1> HIDE DEF e, f, d, m
<1>8. TypeOK'
  <2>1. TypeOK /\ 0 \in 0..Round
    BY <1>4 DEF Inv
  <2> QED
    BY <1>1, <1>5, <1>6, <2>1, BlockTyped
<1>9. TraceRight'
  BY <1>1, TraceStays
<1>10. ASSUME e = f PROVE m = shiftrows(subbytes(trace[Round]))
  <2> DEFINE t == trace[Round]
             x == shiftrows(subbytes(t))
  <2>1. t \in Block
    BY <1>4, <1>5, <1>7
  <2> HIDE DEF t
  <2>2. x \in Block
    BY <2>1, StepTypes
  <2> HIDE DEF x
  <2>3. matrix4x4 = addroundkey(x, e, Round)
    BY <1>4, <1>7 DEF Encrypted, t, x
  <2>4. m = addroundkey(matrix4x4, e, Round)
    <3>1. 0 \in 0..Round /\ Round - 0 = Round
      BY <1>4
    <3> QED
      BY <1>3, <1>5, <1>6, <1>10, <3>1, ReversedAdds
  <2>5. Round \in 0..Round
    BY <1>4
  <2>6. m = x
    BY <1>3, <2>2, <2>3, <2>4, <2>5, RoundKeyType
  <2> QED
    BY <2>6 DEF x, t
<1>11. WayBack'
  <2>1. Round - 0 = Round /\ 0 < Round
    BY <1>4
  <2> QED
    BY <1>1, <1>3, <1>10, <2>1 DEF WayBack, e, f
<1> QED
  BY <1>3, <1>8, <1>9, <1>11 DEF Inv

LEMMA DecryptStepKeepsInv ==
    ASSUME Inv, DecryptRound \/ DecryptEnds
    PROVE  Inv'
<1> DEFINE e == keys["sealer"].e
           f == keys["opener"].e
           d == keys["opener"].d
           n == done + 1
<1>1. /\ stage = "decrypting" /\ stage' \in {"decrypting", "opened"}
      /\ done' = n
      /\ UNCHANGED <<secret, type, keys, unwritten, input, trace, ghash>>
  BY DEF DecryptRound, DecryptEnds
<1>2. "sealer" \in Side /\ "opener" \in Side
  BY DEF Side
<1>3. /\ KeysRight' /\ IsSchedule(e) /\ IsSchedule(f) /\ IsSchedule(d) /\ d = Reversed(f)
      /\ type \in {4, 6, 8} /\ Round' = Round
  BY <1>1, <1>2, KeysStay
<1>4. Round \in {10, 12, 14} /\ done \in Nat
  BY <1>3, Sizes DEF Inv, TypeOK
<1>5. matrix4x4 \in Block /\ trace \in Seq(Block) /\ input \in Block /\ TypeOK
  BY DEF Inv, TypeOK
<1>6. /\ Len(trace) = Round + 1
      /\ \A j \in 1..Round : trace[j + 1] = Encrypted(trace[j], e, j)
  BY <1>1, <1>4 DEF Inv, TraceRight
<1>7. e = f => done < Round /\ matrix4x4 = shiftrows(subbytes(trace[Round - done]))
  BY <1>1 DEF Inv, WayBack
<1>8. TraceRight'
  BY <1>1, TraceStays
<1> HIDE DEF e, f, d, n
<1>9. CASE DecryptRound
  <2> DEFINE x == invsubbytes(invshiftrows(matrix4x4))
             m == invmixcolumns(addroundkey(x, d, n))
  <2>1. n < Round /\ stage' = "decrypting" /\ matrix4x4' = m
    BY <1>1, <1>9 DEF DecryptRound, d, n
  <2>2. n \in 1..(Round - 1)
    BY <1>4, <2>1 DEF n
  <2>3. x \in Block
    BY <1>5, StepTypes
  <2>4. m \in Block
    <3>1. n \in 0..Round
      BY <1>4, <2>2
    <3> QED
      BY <1>3, <2>3, <3>1, RoundKeyType, MixUndone
  <2>5. ASSUME e = f PROVE m = shiftrows(subbytes(trace[Round - n]))
    <3> DEFINE j == Round - n
               t == trace[j]
               y == shiftrows(subbytes(t))
               z == mixcolumns(y)
    <3>1. j \in 1..Round /\ j < Round /\ j \in 0..Round /\ Round - done = j + 1 /\ n \in 0..Round
      BY <1>4, <2>2 DEF n
    <3>2. t \in Block /\ trace[j + 1] \in Block
      BY <1>4, <1>5, <1>6, <3>1
    <3>3. trace[j + 1] = addroundkey(z, e, j)
      BY <1>6, <3>1 DEF Encrypted
    <3>4. x = trace[j + 1]
      BY <1>7, <2>5, <3>1, <3>2, SubstitutionUndone
    <3>5. y \in Block /\ z \in Block
      BY <3>2, StepTypes
    <3> HIDE DEF j, x, y, z, t
    <3>6. addroundkey(x, d, n) = addroundkey(x, e, j)
      BY <1>3, <2>3, <2>5, <3>1, ReversedAdds DEF j
    <3>7. addroundkey(x, d, n) = z
      BY <1>3, <3>1, <3>3, <3>4, <3>5, <3>6, RoundKeyType
    <3>8. m = y
      BY <3>5, <3>7, MixUndone DEF z
    <3> QED
      BY <3>8 DEF y, t, j
  <2> HIDE DEF m, x
  <2>6. TypeOK'
    <3>1. n \in 0..Round
      BY <1>4, <2>2
    <3> QED
      BY <1>1, <1>5, <2>1, <2>4, <3>1, BlockTyped
  <2>7. WayBack'
    BY <1>1, <1>3, <2>1, <2>5 DEF WayBack, e, f
  <2> QED
    BY <1>3, <1>8, <2>6, <2>7 DEF Inv
<1>10. CASE DecryptEnds
  <2> DEFINE x == invshiftrows(invsubbytes(matrix4x4))
             m == addroundkey(x, d, n)
  <2>1. n = Round /\ stage' = "opened" /\ matrix4x4' = m
    BY <1>1, <1>10 DEF DecryptEnds, d, n
  <2>2. x \in Block
    BY <1>5, StepTypes
  <2>3. n \in 0..Round /\ 0 \in 0..Round /\ Round - n = 0 /\ Round - done = 1
    BY <1>4, <2>1 DEF n
  <2>4. m \in Block
    BY <1>3, <2>2, <2>3, RoundKeyType
  <2>5. ASSUME e = f PROVE addroundkey(m, e, 0) = trace[1]
    <3>1. trace[1] \in Block
      BY <1>4, <1>5, <1>6
    <3>2. x = trace[1]
      BY <1>7, <2>3, <2>5, <3>1, SubstitutionUndone
    <3> HIDE DEF x
    <3>3. m = addroundkey(x, e, 0)
      BY <1>3, <2>2, <2>3, <2>5, ReversedAdds
    <3> QED
      BY <1>3, <2>2, <2>3, <3>2, <3>3, RoundKeyType
  <2> HIDE DEF m, x
  <2>6. TypeOK'
    BY <1>1, <1>5, <2>1, <2>3, <2>4, BlockTyped
  <2>7. WayBack'
    BY <1>1, <1>3, <2>1, <2>5 DEF WayBack, e, f
  <2> QED
    BY <1>3, <1>8, <2>6, <2>7 DEF Inv
<1> QED
  BY <1>9, <1>10

-----------------------------------------------------------------------------
(* Equal keys                                                               *)

\* Schedules that begin with the same words and go on by WordAfter are equal.
LEMMA SameSchedules ==
    ASSUME type \in {4, 6, 8}, NEW e, NEW f, IsSchedule(e), IsSchedule(f),
           \A i \in 1..type : e[i] = f[i],
           \A i \in type..(arrayLength - 1) : e[i + 1] = WordAfter(e, i),
           \A i \in type..(arrayLength - 1) : f[i + 1] = WordAfter(f, i)
    PROVE  e = f
<1> DEFINE n == arrayLength
           T == {k \in 0..n : \A i \in 1..k : e[i] = f[i]}
<1>1. n \in Nat /\ type \in 1..n
  BY Sizes
<1>2. 0 \in T
  BY <1>1
<1>3. ASSUME NEW k \in 0..(n - 1), k \in T PROVE k + 1 \in T
  <2>1. e[k + 1] = f[k + 1]
    <3>1. CASE k + 1 <= type
      BY <1>1, <3>1
    <3>2. CASE k + 1 > type
      <4>1. k \in type..(n - 1) /\ k \in 1..k /\ k - type + 1 \in 1..k
        BY <1>1, <3>2
      <4>2. e[k] = f[k] /\ e[k - type + 1] = f[k - type + 1]
        BY <1>3, <4>1
      <4>3. WordAfter(e, k) = WordAfter(f, k)
        BY <4>1, <4>2, WordAfterSame
      <4> QED
        BY <4>1, <4>3
    <3> QED
      BY <1>1, <3>1, <3>2
  <2>2. \A i \in 1..k : e[i] = f[i]
    BY <1>3
  <2>3. k + 1 \in 0..n /\ \A i \in 1..(k + 1) : i \in 1..k \/ i = k + 1
    BY <1>1
  <2> QED
    BY <2>1, <2>2, <2>3
<1>4. \A k \in 0..n : k \in T
  <2> HIDE DEF T, n
  <2> QED
    BY <1>1, <1>2, <1>3, InductionUpTo
<1>5. \A i \in 1..n : e[i] = f[i]
  BY <1>1, <1>4
<1> QED
  BY <1>5 DEF IsSchedule

\* Keys of written bytes alone are equal: both are made from secret.
LEMMA EqualKeys ==
    ASSUME Inv, stage # "keys", unwritten = {}
    PROVE  keys["sealer"].e = keys["opener"].e
<1> DEFINE e == keys["sealer"].e
           f == keys["opener"].e
<1>1. "sealer" \in Side /\ "opener" \in Side
  BY DEF Side
<1>2. \A s \in Side : KeyRight(s) /\ Usable(s)
  BY DEF Inv, KeysRight
<1>3. \A s \in Side :
         /\ IsSchedule(keys[s].e)
         /\ \A i \in 1..type : keys[s].e[i] = FirstWords(0)[i]
         /\ \A i \in type..(Len(keys[s].e) - 1) : keys[s].e[i + 1] = WordAfter(keys[s].e, i)
  BY <1>2 DEF KeyRight, Usable
<1>4. type \in {4, 6, 8}
  BY DEF Inv, TypeOK
<1>5. /\ IsSchedule(e) /\ IsSchedule(f)
      /\ \A i \in 1..type : e[i] = f[i]
      /\ \A i \in type..(Len(e) - 1) : e[i + 1] = WordAfter(e, i)
      /\ \A i \in type..(Len(f) - 1) : f[i + 1] = WordAfter(f, i)
  BY <1>1, <1>3
<1> HIDE DEF e, f
<1>6. Len(e) = arrayLength /\ Len(f) = arrayLength
  BY <1>5 DEF IsSchedule
<1>7. e = f
  BY <1>4, <1>5, <1>6, SameSchedules
<1> QED
  BY <1>7 DEF e, f

-----------------------------------------------------------------------------
(* Polynomials over GF(2), as sets of exponents; those of a block are Bit   *)

Bit == 0..127

\* Membership in a sum; all that is needed of xor_128block from here on.
LEMMA InSum ==
    ASSUME NEW P, NEW Q, NEW n
    PROVE  n \in xor_128block(P, Q) <=> ~(n \in P <=> n \in Q)
BY DEF xor_128block

LEMMA SumOf ==
    ASSUME NEW P, NEW Q, NEW R, NEW U, P \subseteq U, Q \subseteq U
    PROVE  /\ xor_128block(P, Q) \subseteq U
           /\ xor_128block(P, Q) = xor_128block(Q, P)
           /\ xor_128block(P, {}) = P /\ xor_128block({}, P) = P
           /\ xor_128block(P, P) = {}
           /\ xor_128block(xor_128block(P, Q), R) = xor_128block(P, xor_128block(Q, R))
BY DEF xor_128block

\* Four summands change places.
LEMMA SumsCross ==
    ASSUME NEW P, NEW Q, NEW R, NEW U
    PROVE  xor_128block(xor_128block(P, Q), xor_128block(R, U))
           = xor_128block(xor_128block(P, R), xor_128block(Q, U))
BY DEF xor_128block

\* Sums are equal when they have the same members.
LEMMA SameSet ==
    ASSUME NEW P \in SUBSET Bit, NEW Q \in SUBSET Bit, \A n \in Bit : n \in P <=> n \in Q
    PROVE  P = Q
OBVIOUS

\* NextV is the product with x.
LEMMA InNextV ==
    ASSUME NEW v \in SUBSET Bit, NEW n \in Bit
    PROVE  n \in NextV(v) <=> ~((n - 1 \in v) <=> (127 \in v /\ n \in {0, 1, 2, 7}))
<1>1. n \in shift_right_block(v) <=> n - 1 \in v
  BY DEF shift_right_block, Bit
<1> QED
  BY <1>1, InSum DEF NextV, Bit

LEMMA NextVType ==
    ASSUME NEW v \in SUBSET Bit
    PROVE  NextV(v) \in SUBSET Bit
<1>1. shift_right_block(v) \subseteq Bit /\ {0, 1, 2, 7} \subseteq Bit
  BY DEF shift_right_block, Bit
<1> QED
  BY <1>1, SumOf DEF NextV

LEMMA NextVOfSum ==
    ASSUME NEW v \in SUBSET Bit, NEW w \in SUBSET Bit
    PROVE  NextV(xor_128block(v, w)) = xor_128block(NextV(v), NextV(w))
<1>1. xor_128block(v, w) \in SUBSET Bit
  BY SumOf
<1>2. NextV(v) \subseteq Bit /\ NextV(w) \subseteq Bit /\ NextV(xor_128block(v, w)) \subseteq Bit
  BY <1>1, NextVType
<1>3. xor_128block(NextV(v), NextV(w)) \subseteq Bit
  BY <1>2, SumOf
<1>4. ASSUME NEW n \in Bit
      PROVE  n \in NextV(xor_128block(v, w)) <=> n \in xor_128block(NextV(v), NextV(w))
  <2>1. n \in NextV(xor_128block(v, w)) <=>
           ~((n - 1 \in xor_128block(v, w)) <=> (127 \in xor_128block(v, w) /\ n \in {0, 1, 2, 7}))
    BY <1>1, InNextV
  <2>2. /\ n - 1 \in xor_128block(v, w) <=> ~(n - 1 \in v <=> n - 1 \in w)
        /\ 127 \in xor_128block(v, w) <=> ~(127 \in v <=> 127 \in w)
        /\ n \in xor_128block(NextV(v), NextV(w)) <=> ~(n \in NextV(v) <=> n \in NextV(w))
    BY InSum
  <2> QED
    BY <2>1, <2>2, InNextV
<1> QED
  BY <1>2, <1>3, <1>4, SameSet

LEMMA NextVOfNone == NextV({}) = {}
BY DEF NextV, shift_right_block

\* y, y times x, y times x^2 and so on
PowersOf(y) ==
    CHOOSE v \in [0..128 -> SUBSET Bit] :
        v[0] = y /\ \A k \in 0..127 : v[k + 1] = NextV(v[k])

LEMMA PowersAre ==
    ASSUME NEW y \in SUBSET Bit
    PROVE  /\ PowersOf(y) \in [0..128 -> SUBSET Bit]
           /\ PowersOf(y)[0] = y
           /\ \A k \in 0..127 : PowersOf(y)[k + 1] = NextV(PowersOf(y)[k])
<1> DEFINE U == SUBSET Bit
           F == [p \in (1..128) \X U |-> NextV(p[2])]
<1>1. F \in [(1..128) \X U -> U] /\ 128 \in Nat /\ y \in U
  BY NextVType
<1>2. \A n \in 1..128, v \in U : F[<<n, v>>] = NextV(v)
  OBVIOUS
<1> HIDE DEF F, U
<1>3. PICK f \in [0..128 -> U] : IsRecursion(f, 128, y, F)
  BY <1>1, RecursiveFunction
<1>4. f[0] = y /\ \A n \in 1..128 : f[n] = F[<<n, f[n - 1]>>]
  BY <1>3 DEF IsRecursion
<1>5. ASSUME NEW k \in 0..127 PROVE f[k + 1] = NextV(f[k])
  <2>1. k + 1 \in 1..128 /\ (k + 1) - 1 = k /\ f[k] \in U
    OBVIOUS
  <2>2. f[k + 1] = F[<<k + 1, f[k]>>]
    BY <1>4, <2>1
  <2> QED
    BY <1>2, <2>1, <2>2
<1>6. \E v \in [0..128 -> SUBSET Bit] : v[0] = y /\ \A k \in 0..127 : v[k + 1] = NextV(v[k])
  BY <1>4, <1>5 DEF U
<1> QED
  BY <1>6 DEF PowersOf

\* The sum of the powers of y whose number is in x, as far as it is made
PartsOf(x, y) ==
    CHOOSE z \in [0..128 -> SUBSET Bit] :
        z[0] = {} /\ \A k \in 0..127 :
            z[k + 1] = IF k \in x THEN xor_128block(z[k], PowersOf(y)[k]) ELSE z[k]

LEMMA PartsAre ==
    ASSUME NEW x, NEW y \in SUBSET Bit
    PROVE  /\ PartsOf(x, y) \in [0..128 -> SUBSET Bit]
           /\ PartsOf(x, y)[0] = {}
           /\ \A k \in 0..127 : PartsOf(x, y)[k + 1] =
                 IF k \in x THEN xor_128block(PartsOf(x, y)[k], PowersOf(y)[k])
                 ELSE PartsOf(x, y)[k]
<1> DEFINE U == SUBSET Bit
           v == PowersOf(y)
           F == [p \in (1..128) \X U |->
                    IF p[1] - 1 \in x THEN xor_128block(p[2], v[p[1] - 1]) ELSE p[2]]
<1>1. F \in [(1..128) \X U -> U]
  <2>1. ASSUME NEW n \in 1..128, NEW z \in U PROVE xor_128block(z, v[n - 1]) \in U
    <3>1. n - 1 \in 0..128
      OBVIOUS
    <3>2. v[n - 1] \in U
      BY <3>1, PowersAre
    <3> QED
      BY <3>2, SumOf
  <2> HIDE DEF v, U
  <2> QED
    BY <2>1
<1>2. \A n \in 1..128, z \in U :
         F[<<n, z>>] = IF n - 1 \in x THEN xor_128block(z, v[n - 1]) ELSE z
  OBVIOUS
<1>3. {} \in U /\ 128 \in Nat
  OBVIOUS
<1> HIDE DEF F, U, v
<1>4. PICK f \in [0..128 -> U] : IsRecursion(f, 128, {}, F)
  BY <1>1, <1>3, RecursiveFunction
<1>5. f[0] = {} /\ \A n \in 1..128 : f[n] = F[<<n, f[n - 1]>>]
  BY <1>4 DEF IsRecursion
<1>6. ASSUME NEW k \in 0..127
      PROVE  f[k + 1] = IF k \in x THEN xor_128block(f[k], v[k]) ELSE f[k]
  <2>1. k + 1 \in 1..128 /\ (k + 1) - 1 = k /\ f[k] \in U
    OBVIOUS
  <2>2. f[k + 1] = F[<<k + 1, f[k]>>]
    BY <1>5, <2>1
  <2> QED
    BY <1>2, <2>1, <2>2
<1>7. \E z \in [0..128 -> SUBSET Bit] :
        z[0] = {} /\ \A k \in 0..127 :
            z[k + 1] = IF k \in x THEN xor_128block(z[k], PowersOf(y)[k]) ELSE z[k]
  BY <1>5, <1>6 DEF U, v
<1> QED
  BY <1>7 DEF PartsOf

\* The product of two blocks
Product(x, y) == PartsOf(x, y)[128]
LEMMA ProductType ==
    ASSUME NEW x, NEW y \in SUBSET Bit
    PROVE  Product(x, y) \in SUBSET Bit
BY PartsAre DEF Product

LEMMA PowersOfSum ==
    ASSUME NEW a \in SUBSET Bit, NEW b \in SUBSET Bit, NEW n \in 0..128
    PROVE  PowersOf(xor_128block(a, b))[n] = xor_128block(PowersOf(a)[n], PowersOf(b)[n])
<1> DEFINE c == xor_128block(a, b)
           T == {k \in 0..128 : PowersOf(c)[k] = xor_128block(PowersOf(a)[k], PowersOf(b)[k])}
<1>1. c \in SUBSET Bit
  BY SumOf
<1>2. 0 \in T
  BY <1>1, PowersAre
<1> HIDE DEF c
<1>3. ASSUME NEW k \in 0..127, k \in T PROVE k + 1 \in T
  <2>1. PowersOf(c)[k] = xor_128block(PowersOf(a)[k], PowersOf(b)[k])
    BY <1>3
  <2>2. /\ PowersOf(c)[k + 1] = NextV(PowersOf(c)[k])
        /\ PowersOf(a)[k + 1] = NextV(PowersOf(a)[k])
        /\ PowersOf(b)[k + 1] = NextV(PowersOf(b)[k])
    BY <1>1, PowersAre
  <2>3. PowersOf(a)[k] \in SUBSET Bit /\ PowersOf(b)[k] \in SUBSET Bit
    BY PowersAre
  <2>4. PowersOf(c)[k + 1] = xor_128block(PowersOf(a)[k + 1], PowersOf(b)[k + 1])
    BY <2>1, <2>2, <2>3, NextVOfSum
  <2> QED
    BY <2>4
<1>4. \A k \in 0..128 : k \in T
  <2> HIDE DEF T
  <2> QED
    BY <1>2, <1>3, InductionUpTo
<1> QED
  BY <1>4 DEF c

LEMMA PowersOfNext ==
    ASSUME NEW a \in SUBSET Bit, NEW n \in 0..128
    PROVE  PowersOf(NextV(a))[n] = NextV(PowersOf(a)[n])
<1> DEFINE c == NextV(a)
           T == {k \in 0..128 : PowersOf(c)[k] = NextV(PowersOf(a)[k])}
<1>1. c \in SUBSET Bit
  BY NextVType
<1>2. 0 \in T
  BY <1>1, PowersAre
<1> HIDE DEF c
<1>3. ASSUME NEW k \in 0..127, k \in T PROVE k + 1 \in T
  <2>1. PowersOf(c)[k] = NextV(PowersOf(a)[k])
    BY <1>3
  <2>2. /\ PowersOf(c)[k + 1] = NextV(PowersOf(c)[k])
        /\ PowersOf(a)[k + 1] = NextV(PowersOf(a)[k])
    BY <1>1, PowersAre
  <2> QED
    BY <2>1, <2>2
<1>4. \A k \in 0..128 : k \in T
  <2> HIDE DEF T
  <2> QED
    BY <1>2, <1>3, InductionUpTo
<1> QED
  BY <1>4 DEF c

\* Products are linear in y.
LEMMA PartsOfSum ==
    ASSUME NEW x, NEW a \in SUBSET Bit, NEW b \in SUBSET Bit, NEW n \in 0..128
    PROVE  PartsOf(x, xor_128block(a, b))[n] = xor_128block(PartsOf(x, a)[n], PartsOf(x, b)[n])
<1> DEFINE c == xor_128block(a, b)
           T == {k \in 0..128 : PartsOf(x, c)[k] = xor_128block(PartsOf(x, a)[k], PartsOf(x, b)[k])}
<1>1. c \in SUBSET Bit
  BY SumOf
<1>2. \A k \in 0..128 : PowersOf(c)[k] = xor_128block(PowersOf(a)[k], PowersOf(b)[k])
  BY PowersOfSum
<1> HIDE DEF c
<1>3. 0 \in T
  <2>1. xor_128block({}, {}) = {}
    BY DEF xor_128block
  <2>2. PartsOf(x, c)[0] = {} /\ PartsOf(x, a)[0] = {} /\ PartsOf(x, b)[0] = {}
    BY <1>1, PartsAre
  <2> QED
    BY <2>1, <2>2
<1>4. ASSUME NEW k \in 0..127, k \in T PROVE k + 1 \in T
  <2>1. PartsOf(x, c)[k] = xor_128block(PartsOf(x, a)[k], PartsOf(x, b)[k])
    BY <1>4
  <2>2. PartsOf(x, c)[k + 1] = xor_128block(PartsOf(x, a)[k + 1], PartsOf(x, b)[k + 1])
    <3>1. CASE k \in x
      <4>1. /\ PartsOf(x, c)[k + 1] = xor_128block(PartsOf(x, c)[k], PowersOf(c)[k])
            /\ PartsOf(x, a)[k + 1] = xor_128block(PartsOf(x, a)[k], PowersOf(a)[k])
            /\ PartsOf(x, b)[k + 1] = xor_128block(PartsOf(x, b)[k], PowersOf(b)[k])
        BY <1>1, <3>1, PartsAre
      <4>2. PowersOf(c)[k] = xor_128block(PowersOf(a)[k], PowersOf(b)[k])
        BY <1>2
      <4> QED
        BY <2>1, <4>1, <4>2, SumsCross
    <3>2. CASE k \notin x
      BY <1>1, <2>1, <3>2, PartsAre
    <3> QED
      BY <3>1, <3>2
  <2> QED
    BY <2>2
<1>5. \A k \in 0..128 : k \in T
  <2> HIDE DEF T
  <2> QED
    BY <1>3, <1>4, InductionUpTo
<1> QED
  BY <1>5 DEF c

\* Multiplying y by x beforehand or afterwards is the same.
LEMMA PartsOfNext ==
    ASSUME NEW x, NEW a \in SUBSET Bit, NEW n \in 0..128
    PROVE  PartsOf(x, NextV(a))[n] = NextV(PartsOf(x, a)[n])
<1> DEFINE c == NextV(a)
           T == {k \in 0..128 : PartsOf(x, c)[k] = NextV(PartsOf(x, a)[k])}
<1>1. c \in SUBSET Bit
  BY NextVType
<1>2. \A k \in 0..128 : PowersOf(c)[k] = NextV(PowersOf(a)[k])
  BY PowersOfNext
<1> HIDE DEF c
<1>3. 0 \in T
  <2>1. PartsOf(x, c)[0] = {} /\ PartsOf(x, a)[0] = {}
    BY <1>1, PartsAre
  <2> QED
    BY <2>1, NextVOfNone
<1>4. ASSUME NEW k \in 0..127, k \in T PROVE k + 1 \in T
  <2>1. PartsOf(x, c)[k] = NextV(PartsOf(x, a)[k])
    BY <1>4
  <2>2. PartsOf(x, c)[k + 1] = NextV(PartsOf(x, a)[k + 1])
    <3>1. CASE k \in x
      <4>1. /\ PartsOf(x, c)[k + 1] = xor_128block(PartsOf(x, c)[k], PowersOf(c)[k])
            /\ PartsOf(x, a)[k + 1] = xor_128block(PartsOf(x, a)[k], PowersOf(a)[k])
        BY <1>1, <3>1, PartsAre
      <4>2. PowersOf(c)[k] = NextV(PowersOf(a)[k])
        BY <1>2
      <4>3. PartsOf(x, a)[k] \in SUBSET Bit /\ PowersOf(a)[k] \in SUBSET Bit
        BY PartsAre, PowersAre
      <4> QED
        BY <2>1, <4>1, <4>2, <4>3, NextVOfSum
    <3>2. CASE k \notin x
      BY <1>1, <2>1, <3>2, PartsAre
    <3> QED
      BY <3>1, <3>2
  <2> QED
    BY <2>2
<1>5. \A k \in 0..128 : k \in T
  <2> HIDE DEF T
  <2> QED
    BY <1>3, <1>4, InductionUpTo
<1> QED
  BY <1>5 DEF c

LEMMA ProductOfPowers ==
    ASSUME NEW x, NEW a \in SUBSET Bit, NEW n \in 0..128
    PROVE  Product(x, PowersOf(a)[n]) = PowersOf(Product(x, a))[n]
<1> DEFINE c == Product(x, a)
           T == {k \in 0..128 : Product(x, PowersOf(a)[k]) = PowersOf(c)[k]}
<1>1. c \in SUBSET Bit
  BY ProductType
<1>2. 0 \in T
  BY <1>1, PowersAre
<1>3. ASSUME NEW k \in 0..127, k \in T PROVE k + 1 \in T
  <2> HIDE DEF c
  <2>1. Product(x, PowersOf(a)[k]) = PowersOf(c)[k]
    BY <1>3
  <2>2. /\ PowersOf(c)[k + 1] = NextV(PowersOf(c)[k])
        /\ PowersOf(a)[k + 1] = NextV(PowersOf(a)[k])
        /\ PowersOf(a)[k] \in SUBSET Bit
    BY <1>1, PowersAre
  <2>3. Product(x, NextV(PowersOf(a)[k])) = NextV(Product(x, PowersOf(a)[k]))
    BY <2>2, PartsOfNext DEF Product
  <2> QED
    BY <2>1, <2>2, <2>3
<1>4. \A k \in 0..128 : k \in T
  <2> HIDE DEF T
  <2> QED
    BY <1>2, <1>3, InductionUpTo
<1> QED
  BY <1>4

\* Factors change places.
LEMMA ProductsSwap ==
    ASSUME NEW a, NEW b, NEW c \in SUBSET Bit
    PROVE  Product(a, Product(b, c)) = Product(b, Product(a, c))
<1> DEFINE d == Product(b, c)
           T == {k \in 0..128 : Product(b, PartsOf(a, c)[k]) = PartsOf(a, d)[k]}
<1>1. d \in SUBSET Bit
  BY ProductType
<1>2. 0 \in T
  <2>1. Product(b, {}) = {}
    <3>1. Product(b, xor_128block({}, {})) = xor_128block(Product(b, {}), Product(b, {}))
      BY PartsOfSum DEF Product
    <3>2. xor_128block({}, {}) = {} /\ xor_128block(Product(b, {}), Product(b, {})) = {}
      BY DEF xor_128block
    <3> QED
      BY <3>1, <3>2
  <2>2. PartsOf(a, c)[0] = {} /\ PartsOf(a, d)[0] = {}
    BY <1>1, PartsAre
  <2> HIDE DEF d
  <2> QED
    BY <2>1, <2>2
<1>3. ASSUME NEW k \in 0..127, k \in T PROVE k + 1 \in T
  <2>1. \A m \in 0..128 : Product(b, PowersOf(c)[m]) = PowersOf(d)[m]
    BY ProductOfPowers
  <2> HIDE DEF d
  <2>2. Product(b, PartsOf(a, c)[k]) = PartsOf(a, d)[k]
    BY <1>3
  <2>3. Product(b, PartsOf(a, c)[k + 1]) = PartsOf(a, d)[k + 1]
    <3>1. CASE k \in a
      <4>1. /\ PartsOf(a, c)[k + 1] = xor_128block(PartsOf(a, c)[k], PowersOf(c)[k])
            /\ PartsOf(a, d)[k + 1] = xor_128block(PartsOf(a, d)[k], PowersOf(d)[k])
        BY <1>1, <3>1, PartsAre
      <4>2. PartsOf(a, c)[k] \in SUBSET Bit /\ PowersOf(c)[k] \in SUBSET Bit
        BY PartsAre, PowersAre
      <4>3. Product(b, xor_128block(PartsOf(a, c)[k], PowersOf(c)[k]))
            = xor_128block(Product(b, PartsOf(a, c)[k]), Product(b, PowersOf(c)[k]))
        BY <4>2, PartsOfSum DEF Product
      <4>4. Product(b, PowersOf(c)[k]) = PowersOf(d)[k]
        BY <2>1
      <4> QED
        BY <2>2, <4>1, <4>3, <4>4
    <3>2. CASE k \notin a
      BY <1>1, <2>2, <3>2, PartsAre
    <3> QED
      BY <3>1, <3>2
  <2> QED
    BY <2>3
<1>4. \A k \in 0..128 : k \in T
  <2> HIDE DEF T
  <2> QED
    BY <1>2, <1>3, InductionUpTo
<1>5. Product(b, PartsOf(a, c)[128]) = PartsOf(a, d)[128]
  <2>1. 128 \in 0..128
    OBVIOUS
  <2> HIDE DEF d
  <2> QED
    BY <1>4, <2>1
<1> QED
  BY <1>5 DEF Product

\* The block {0} is the one.
LEMMA ProductWithOne ==
    ASSUME NEW a \in SUBSET Bit
    PROVE  Product(a, {0}) = a
<1> DEFINE below(k) == {i \in a : i < k}
           T == {k \in 0..128 : /\ k < 128 => PowersOf({0})[k] = {k}
                                /\ PartsOf(a, {0})[k] = below(k)}
<1>1. {0} \in SUBSET Bit /\ a \subseteq 0..127
  BY DEF Bit
<1>2. below(0) = {} /\ below(128) = a
  <2>1. \A i \in Bit : /\ ~(i < 0) /\ i < 128
                       /\ i \in below(0) <=> i \in {}
                       /\ i \in below(128) <=> i \in a
    BY DEF Bit
  <2>2. below(0) \in SUBSET Bit /\ below(128) \in SUBSET Bit
    OBVIOUS
  <2> HIDE DEF below
  <2>3. below(128) = a
    BY <2>1, <2>2, SameSet
  <2> QED
    BY <2>1, <2>2, <2>3
<1>3. ASSUME NEW k \in 0..127
      PROVE  below(k + 1) = IF k \in a THEN xor_128block(below(k), {k}) ELSE below(k)
  <2>1. \A i \in Bit : /\ i \in below(k + 1) <=> i \in a /\ (i < k \/ i = k)
                       /\ i \in below(k) <=> i \in a /\ i < k
                       /\ i \in {k} <=> i = k
                       /\ i = k => ~(i < k)
    BY DEF Bit
  <2>2. \A i \in Bit : i \in xor_128block(below(k), {k}) <=> ~(i \in below(k) <=> i \in {k})
    BY InSum
  <2>3. below(k) \in SUBSET Bit /\ below(k + 1) \in SUBSET Bit /\ {k} \in SUBSET Bit
    BY DEF Bit
  <2> HIDE DEF below
  <2>4. xor_128block(below(k), {k}) \in SUBSET Bit
    BY <2>3, SumOf
  <2>5. CASE k \in a
    <3>1. \A i \in Bit : i \in below(k + 1) <=> i \in xor_128block(below(k), {k})
      BY <2>1, <2>2, <2>5
    <3> QED
      BY <2>3, <2>4, <2>5, <3>1, SameSet
  <2>6. CASE k \notin a
    <3>1. \A i \in Bit : i \in below(k + 1) <=> i \in below(k)
      BY <2>1, <2>6
    <3> QED
      BY <2>3, <2>6, <3>1, SameSet
  <2> QED
    BY <2>5, <2>6
<1> HIDE DEF below
<1>4. 0 \in T
  <2>1. PowersOf({0})[0] = {0} /\ PartsOf(a, {0})[0] = {}
    BY <1>1, PowersAre, PartsAre
  <2> QED
    BY <1>2, <2>1
<1>5. ASSUME NEW k \in 0..127, k \in T PROVE k + 1 \in T
  <2>1. PowersOf({0})[k] = {k} /\ PartsOf(a, {0})[k] = below(k)
    BY <1>5
  <2>2. PowersOf({0})[k + 1] = NextV({k})
    <3>1. PowersOf({0})[k + 1] = NextV(PowersOf({0})[k])
      BY <1>1, PowersAre
    <3> QED
      BY <2>1, <3>1
  <2>3. k + 1 < 128 => NextV({k}) = {k + 1}
    <3> SUFFICES ASSUME k + 1 < 128 PROVE NextV({k}) = {k + 1}
      OBVIOUS
    <3>1. {k} \ {127} = {k}
      OBVIOUS
    <3>2. shift_right_block({k}) = {k + 1}
      BY <3>1 DEF shift_right_block
    <3> QED
      BY <3>1, <3>2 DEF NextV
  <2>4. PartsOf(a, {0})[k + 1] = below(k + 1)
    <3>1. PartsOf(a, {0})[k + 1] =
            IF k \in a THEN xor_128block(PartsOf(a, {0})[k], PowersOf({0})[k])
            ELSE PartsOf(a, {0})[k]
      BY <1>1, PartsAre
    <3> QED
      BY <1>3, <2>1, <3>1
  <2> QED
    BY <2>2, <2>3, <2>4
<1>6. \A k \in 0..128 : k \in T
  <2> HIDE DEF T
  <2> QED
    BY <1>4, <1>5, InductionUpTo
<1>7. PartsOf(a, {0})[128] = below(128)
  BY <1>6
<1> QED
  BY <1>2, <1>7 DEF Product

LEMMA ProductCommutes ==
    ASSUME NEW p \in SUBSET Bit, NEW q \in SUBSET Bit
    PROVE  Product(p, q) = Product(q, p)
<1>1. {0} \in SUBSET Bit
  BY DEF Bit
<1>2. Product(p, Product(q, {0})) = Product(q, Product(p, {0}))
  BY <1>1, ProductsSwap
<1> QED
  BY <1>2, ProductWithOne

LEMMA ProductAssociates ==
    ASSUME NEW a \in SUBSET Bit, NEW b \in SUBSET Bit, NEW c \in SUBSET Bit
    PROVE  Product(Product(a, b), c) = Product(a, Product(b, c))
<1>1. Product(a, b) \in SUBSET Bit
  BY ProductType
<1>2. Product(Product(a, b), c) = Product(c, Product(a, b))
  BY <1>1, ProductCommutes
<1>3. Product(c, Product(a, b)) = Product(a, Product(c, b))
  BY ProductsSwap
<1>4. Product(c, b) = Product(b, c)
  BY ProductCommutes
<1> QED
  BY <1>2, <1>3, <1>4

LEMMA ProductOfSum ==
    ASSUME NEW a \in SUBSET Bit, NEW b \in SUBSET Bit, NEW c \in SUBSET Bit
    PROVE  Product(xor_128block(a, b), c) = xor_128block(Product(a, c), Product(b, c))
<1>1. xor_128block(a, b) \in SUBSET Bit
  BY SumOf
<1>2. Product(c, xor_128block(a, b)) = xor_128block(Product(c, a), Product(c, b))
  BY PartsOfSum DEF Product
<1>3. /\ Product(xor_128block(a, b), c) = Product(c, xor_128block(a, b))
      /\ Product(c, a) = Product(a, c) /\ Product(c, b) = Product(b, c)
  BY <1>1, ProductCommutes
<1> QED
  BY <1>2, <1>3
-----------------------------------------------------------------------------
(* The definition: products of polynomials, reduced                         *)

\* Coefficient n of a folded polynomial
InFolded(Z, n) ==
    ~( ~( ~(n \in Z /\ n < 128 <=> n + 128 \in Z) <=> (n >= 1 /\ n + 127 \in Z) )
       <=> ~( (n >= 2 /\ n + 126 \in Z) <=> (n >= 7 /\ n + 121 \in Z) ) )

LEMMA FoldedIs ==
    ASSUME NEW Z \in SUBSET Nat
    PROVE  Folded(Z) \in SUBSET Nat /\ \A n \in Nat : n \in Folded(Z) <=> InFolded(Z, n)
<1> DEFINE high == {k - 128 : k \in Z \ 0..127}
           times(i) == {k + i : k \in high}
           low == Z \cap 0..127
<1>1. \A k : k \in high <=> k \in Nat /\ k + 128 \in Z
  <2>1. ASSUME NEW k, k \in high PROVE k \in Nat /\ k + 128 \in Z
    <3>1. PICK j \in Z \ 0..127 : k = j - 128
      BY <2>1
    <3> QED
      BY <3>1
  <2>2. ASSUME NEW k \in Nat, k + 128 \in Z PROVE k \in high
    <3>1. k + 128 \in Z \ 0..127 /\ (k + 128) - 128 = k
      BY <2>2
    <3> QED
      BY <3>1
  <2> QED
    BY <2>1, <2>2
<1> HIDE DEF high
<1>2. ASSUME NEW i \in Nat, NEW n \in Nat
      PROVE  n \in times(i) <=> n >= i /\ (n - i) + 128 \in Z
  <2>1. ASSUME n \in times(i) PROVE n >= i /\ (n - i) + 128 \in Z
    <3>1. PICK k \in high : n = k + i
      BY <2>1
    <3>2. k \in Nat /\ k + 128 \in Z
      BY <1>1
    <3>3. n - i = k /\ n >= i
      BY <3>1, <3>2
    <3> QED
      BY <3>2, <3>3
  <2>2. ASSUME n >= i, (n - i) + 128 \in Z PROVE n \in times(i)
    <3>1. n - i \in Nat /\ n = (n - i) + i
      BY <2>2
    <3>2. n - i \in high
      BY <1>1, <2>2, <3>1
    <3> QED
      BY <3>1, <3>2
  <2> QED
    BY <2>1, <2>2
<1>3. \A i \in Nat : times(i) \subseteq Nat
  <2> SUFFICES ASSUME NEW i \in Nat, NEW k \in high PROVE k + i \in Nat
    OBVIOUS
  <2> QED
    BY <1>1
<1>4. low \subseteq Nat /\ \A n \in Nat : n \in low <=> n \in Z /\ n < 128
  OBVIOUS
<1>5. Folded(Z) = xor_128block(xor_128block(xor_128block(low, times(0)), times(1)),
                               xor_128block(times(2), times(7)))
  BY Zenon DEF Folded, low, times, high
<1> HIDE DEF times, low
<1>6. Folded(Z) \subseteq Nat
  <2>1. \A P, Q : P \subseteq Nat /\ Q \subseteq Nat => xor_128block(P, Q) \subseteq Nat
    BY DEF xor_128block
  <2>2. /\ times(0) \subseteq Nat /\ times(1) \subseteq Nat
        /\ times(2) \subseteq Nat /\ times(7) \subseteq Nat
    BY <1>3
  <2> QED
    BY <1>4, <1>5, <2>1, <2>2
<1>7. ASSUME NEW n \in Nat PROVE n \in Folded(Z) <=> InFolded(Z, n)
  <2>1. /\ n \in times(0) <=> n + 128 \in Z
        /\ n \in times(1) <=> n >= 1 /\ n + 127 \in Z
        /\ n \in times(2) <=> n >= 2 /\ n + 126 \in Z
        /\ n \in times(7) <=> n >= 7 /\ n + 121 \in Z
    <3>1. /\ n >= 0 /\ (n - 0) + 128 = n + 128 /\ (n - 1) + 128 = n + 127
          /\ (n - 2) + 128 = n + 126 /\ (n - 7) + 128 = n + 121
      OBVIOUS
    <3> QED
      BY <1>2, <3>1
  <2>2. n \in Folded(Z) <=>
          ~( ~( ~(n \in low <=> n \in times(0)) <=> n \in times(1) )
             <=> ~( n \in times(2) <=> n \in times(7) ) )
    BY <1>5, InSum
  <2> QED
    BY <1>4, <2>1, <2>2 DEF InFolded
<1> QED
  BY <1>6, <1>7

LEMMA SameNumbers ==
    ASSUME NEW P \in SUBSET Nat, NEW Q \in SUBSET Nat, \A n \in Nat : n \in P <=> n \in Q
    PROVE  P = Q
OBVIOUS

LEMMA FoldedOfSum ==
    ASSUME NEW Y \in SUBSET Nat, NEW Z \in SUBSET Nat
    PROVE  /\ xor_128block(Y, Z) \in SUBSET Nat
           /\ Folded(xor_128block(Y, Z)) = xor_128block(Folded(Y), Folded(Z))
<1> DEFINE X == xor_128block(Y, Z)
<1>1. X \in SUBSET Nat
  BY SumOf
<1>2. \A n : n \in X <=> ~(n \in Y <=> n \in Z)
  BY InSum
<1> HIDE DEF X
<1>3. Folded(X) \in SUBSET Nat /\ Folded(Y) \in SUBSET Nat /\ Folded(Z) \in SUBSET Nat
  BY <1>1, FoldedIs
<1>4. xor_128block(Folded(Y), Folded(Z)) \in SUBSET Nat
  BY <1>3, SumOf
<1>5. ASSUME NEW n \in Nat
      PROVE  n \in Folded(X) <=> n \in xor_128block(Folded(Y), Folded(Z))
  <2>1. /\ n \in Folded(X) <=> InFolded(X, n)
        /\ n \in Folded(Y) <=> InFolded(Y, n)
        /\ n \in Folded(Z) <=> InFolded(Z, n)
    BY <1>1, FoldedIs
  <2>2. InFolded(X, n) <=> ~(InFolded(Y, n) <=> InFolded(Z, n))
    BY <1>2 DEF InFolded
  <2> QED
    BY <2>1, <2>2, InSum
<1>6. Folded(X) = xor_128block(Folded(Y), Folded(Z))
  BY <1>3, <1>4, <1>5, SameNumbers
<1> QED
  BY <1>1, <1>6 DEF X

\* Every exponent one higher
Raised(Z) == {k + 1 : k \in Z}

LEMMA InRaised ==
    ASSUME NEW Z \in SUBSET Nat
    PROVE  Raised(Z) \in SUBSET Nat /\ \A n \in Nat : n \in Raised(Z) <=> n >= 1 /\ n - 1 \in Z
BY DEF Raised

\* What folds away
Modulus == {0, 1, 2, 7, 128}

\* Raising before folding is raising after it, but for the modulus.
LEMMA FoldedRaised ==
    ASSUME NEW Z \in SUBSET Nat
    PROVE  Folded(Raised(Z)) = IF 127 \in Z THEN xor_128block(Raised(Folded(Z)), Modulus)
                               ELSE Raised(Folded(Z))
<1> DEFINE Y == Raised(Z)
           F == Folded(Z)
           G == Raised(F)
<1>1. Y \in SUBSET Nat /\ F \in SUBSET Nat /\ G \in SUBSET Nat
  BY InRaised, FoldedIs
<1>2. Folded(Y) \in SUBSET Nat /\ Modulus \in SUBSET Nat
  BY <1>1, FoldedIs DEF Modulus
<1>3. ASSUME NEW n \in Nat
      PROVE  n \in Folded(Y) <=> ~(n \in G <=> (127 \in Z /\ n \in Modulus))
  <2>1. n \in Folded(Y) <=> InFolded(Y, n)
    BY <1>1, FoldedIs
  <2>2. n \in G <=> n >= 1 /\ n - 1 \in F
    BY <1>1, InRaised
  <2>3. n >= 1 => (n - 1 \in F <=> InFolded(Z, n - 1))
    BY FoldedIs
  <2>4. \A m \in Nat : m \in Y <=> m >= 1 /\ m - 1 \in Z
    BY InRaised
  <2>5. n \in Modulus <=> n = 0 \/ n = 1 \/ n = 2 \/ n = 7 \/ n = 128
    BY DEF Modulus
  <2> HIDE DEF Y, F, G
  <2>6. /\ n \in Y <=> n >= 1 /\ n - 1 \in Z
        /\ n + 128 \in Y <=> n + 127 \in Z
        /\ n + 127 \in Y <=> n + 126 \in Z
        /\ n + 126 \in Y <=> n + 125 \in Z
        /\ n + 121 \in Y <=> n + 120 \in Z
    <3>1. /\ n + 128 \in Nat /\ n + 128 >= 1 /\ n + 128 - 1 = n + 127
          /\ n + 127 \in Nat /\ n + 127 >= 1 /\ n + 127 - 1 = n + 126
          /\ n + 126 \in Nat /\ n + 126 >= 1 /\ n + 126 - 1 = n + 125
          /\ n + 121 \in Nat /\ n + 121 >= 1 /\ n + 121 - 1 = n + 120
      OBVIOUS
    <3> QED
      BY <2>4, <3>1
  <2>7. /\ n - 1 + 128 = n + 127 /\ n - 1 + 127 = n + 126
        /\ n - 1 + 126 = n + 125 /\ n - 1 + 121 = n + 120
    OBVIOUS
  <2>8. CASE n = 0
    BY <2>1, <2>2, <2>5, <2>6, <2>8 DEF InFolded
  <2>9. CASE n >= 1 /\ n \notin {1, 2, 7, 128}
    BY <2>1, <2>2, <2>3, <2>5, <2>6, <2>7, <2>9 DEF InFolded
  <2>10. CASE n \in {1, 2, 7, 128}
    BY <2>1, <2>2, <2>3, <2>5, <2>6, <2>7, <2>10 DEF InFolded
  <2> QED
    BY <2>8, <2>9, <2>10
<1> HIDE DEF Y, F, G
<1>4. CASE 127 \in Z
  <2>1. xor_128block(G, Modulus) \in SUBSET Nat
    BY <1>1, <1>2, SumOf
  <2>2. \A n \in Nat : n \in Folded(Y) <=> n \in xor_128block(G, Modulus)
    BY <1>3, <1>4, InSum
  <2>3. Folded(Y) = xor_128block(G, Modulus)
    BY <1>2, <2>1, <2>2, SameNumbers
  <2> QED
    BY <1>4, <2>3 DEF G, Y, F
<1>5. CASE 127 \notin Z
  <2>1. \A n \in Nat : n \in Folded(Y) <=> n \in G
    BY <1>3, <1>5
  <2>2. Folded(Y) = G
    BY <1>1, <1>2, <2>1, SameNumbers
  <2> QED
    BY <1>5, <2>2 DEF G, Y, F
<1> QED
  BY <1>4, <1>5

LEMMA ModulusFolds == Folded(Modulus) = {}
<1>1. Modulus \in SUBSET Nat
  BY DEF Modulus
<1>2. \A n : n \in Modulus <=> n = 0 \/ n = 1 \/ n = 2 \/ n = 7 \/ n = 128
  BY DEF Modulus
<1>3. \A n \in Nat : ~InFolded(Modulus, n)
  BY <1>2 DEF InFolded
<1>4. Folded(Modulus) \in SUBSET Nat /\ \A n \in Nat : n \in Folded(Modulus) <=> n \in {}
  BY <1>1, <1>3, FoldedIs
<1> QED
  BY <1>4, SameNumbers
LEMMA FoldedBounds ==
    /\ \A Z \in SUBSET 0..254 : Folded(Z) \in SUBSET 0..133
    /\ \A Z \in SUBSET 0..133 : Folded(Z) \in SUBSET Bit /\ (127 \in Folded(Z) <=> 127 \in Z)
<1>1. ASSUME NEW Z \in SUBSET 0..254 PROVE Folded(Z) \in SUBSET 0..133
  <2>1. Z \in SUBSET Nat
    OBVIOUS
  <2>2. ASSUME NEW n \in Nat, n > 133 PROVE ~InFolded(Z, n)
    <3>1. /\ ~(n < 128) /\ n + 128 \notin Z /\ n + 127 \notin Z
          /\ n + 126 \notin Z /\ n + 121 \notin Z
      BY <2>2
    <3> QED
      BY <3>1 DEF InFolded
  <2>3. \A n \in Nat : ~(n > 133) => n \in 0..133
    OBVIOUS
  <2>4. Folded(Z) \in SUBSET Nat /\ \A n \in Nat : n \in Folded(Z) <=> InFolded(Z, n)
    BY <2>1, FoldedIs
  <2>5. ASSUME NEW n \in Folded(Z) PROVE n \in 0..133
    <3>1. n \in Nat /\ InFolded(Z, n)
      BY <2>4
    <3>2. ~(n > 133)
      BY <2>2, <3>1
    <3> QED
      BY <2>3, <3>1, <3>2
  <2> QED
    BY <2>5
<1>2. ASSUME NEW Z \in SUBSET 0..133
      PROVE  Folded(Z) \in SUBSET Bit /\ (127 \in Folded(Z) <=> 127 \in Z)
  <2>1. Z \in SUBSET Nat
    OBVIOUS
  <2>2. ASSUME NEW n \in Nat, n > 127 PROVE ~InFolded(Z, n)
    <3>1. /\ ~(n < 128) /\ n + 128 \notin Z /\ n + 127 \notin Z
          /\ n + 126 \notin Z /\ n + 121 \notin Z
      BY <2>2
    <3> QED
      BY <3>1 DEF InFolded
  <2>3. \A n \in Nat : ~(n > 127) => n \in Bit
    BY DEF Bit
  <2>4. InFolded(Z, 127) <=> 127 \in Z
    <3>1. 127 + 128 \notin Z /\ 127 + 127 \notin Z /\ 127 + 126 \notin Z /\ 127 + 121 \notin Z
      OBVIOUS
    <3> QED
      BY <3>1 DEF InFolded
  <2>5. Folded(Z) \in SUBSET Nat /\ \A n \in Nat : n \in Folded(Z) <=> InFolded(Z, n)
    BY <2>1, FoldedIs
  <2>6. ASSUME NEW n \in Folded(Z) PROVE n \in Bit
    <3>1. n \in Nat /\ InFolded(Z, n)
      BY <2>5
    <3>2. ~(n > 127)
      BY <2>2, <3>1
    <3> QED
      BY <2>3, <3>1, <3>2
  <2>7. 127 \in Folded(Z) <=> InFolded(Z, 127)
    <3>1. 127 \in Nat
      OBVIOUS
    <3> QED
      BY <2>5, <3>1
  <2> QED
    BY <2>4, <2>6, <2>7
<1> QED
  BY <1>1, <1>2

Reduced(Z) == Folded(Folded(Z))

\* Of a block, raising and folding once is the step NextV.
LEMMA FoldedNext ==
    ASSUME NEW W \in SUBSET Bit
    PROVE  NextV(W) = IF 127 \in W THEN xor_128block(Raised(W), Modulus) ELSE Raised(W)
<1>1. W \in SUBSET Nat /\ Modulus \in SUBSET Nat
  BY DEF Bit, Modulus
<1>2. Raised(W) \in SUBSET Nat /\ \A n \in Nat : n \in Raised(W) <=> n >= 1 /\ n - 1 \in W
  BY <1>1, InRaised
<1>3. NextV(W) \in SUBSET Bit /\ NextV(W) \in SUBSET Nat
  BY NextVType DEF Bit
<1>4. ASSUME NEW n \in Nat
      PROVE  n \in NextV(W) <=> ~(n \in Raised(W) <=> (127 \in W /\ n \in Modulus))
  <2>1. n \in Modulus <=> n \in {0, 1, 2, 7, 128}
    BY DEF Modulus
  <2>2. CASE n \in Bit
    <3>1. n \in NextV(W) <=> ~((n - 1 \in W) <=> (127 \in W /\ n \in {0, 1, 2, 7}))
      BY <2>2, InNextV
    <3>2. n # 128 /\ (n - 1 \in W => n >= 1)
      BY <2>2 DEF Bit
    <3> QED
      BY <1>2, <2>1, <3>1, <3>2
  <2>3. CASE n \notin Bit
    <3>1. n \notin NextV(W) /\ n >= 128 /\ n \notin {0, 1, 2, 7}
      BY <1>3, <2>3 DEF Bit
    <3>2. n - 1 \in W <=> 127 \in W /\ n = 128
      BY <3>1 DEF Bit
    <3> QED
      BY <1>2, <2>1, <3>1, <3>2
  <2> QED
    BY <2>2, <2>3
<1>5. CASE 127 \in W
  <2>1. xor_128block(Raised(W), Modulus) \in SUBSET Nat
    BY <1>1, <1>2, SumOf
  <2>2. \A n \in Nat : n \in NextV(W) <=> n \in xor_128block(Raised(W), Modulus)
    BY <1>4, <1>5, InSum
  <2>3. NextV(W) = xor_128block(Raised(W), Modulus)
    BY <1>3, <2>1, <2>2, SameNumbers
  <2> QED
    BY <1>5, <2>3
<1>6. CASE 127 \notin W
  <2>1. \A n \in Nat : n \in NextV(W) <=> n \in Raised(W)
    BY <1>4, <1>6
  <2>2. NextV(W) = Raised(W)
    BY <1>2, <1>3, <2>1, SameNumbers
  <2> QED
    BY <1>6, <2>2
<1> QED
  BY <1>5, <1>6

LEMMA ReducedRaised ==
    ASSUME NEW Z \in SUBSET 0..254
    PROVE  Reduced(Z) \in SUBSET Bit /\ Reduced(Raised(Z)) = NextV(Reduced(Z))
<1> DEFINE Y == Folded(Z)
           W == Folded(Y)
<1>1. Z \in SUBSET Nat /\ Y \in SUBSET 0..133 /\ Y \in SUBSET Nat
  BY FoldedBounds
<1> HIDE DEF Y
<1>2. W \in SUBSET Bit /\ (127 \in W <=> 127 \in Y)
  BY <1>1, FoldedBounds
<1>3. Folded(Raised(Y)) = NextV(W)
  <2>1. Folded(Raised(Y)) = IF 127 \in Y THEN xor_128block(Raised(W), Modulus) ELSE Raised(W)
    BY <1>1, FoldedRaised
  <2> HIDE DEF W
  <2>2. NextV(W) = IF 127 \in W THEN xor_128block(Raised(W), Modulus) ELSE Raised(W)
    BY <1>2, FoldedNext
  <2> QED
    BY <1>2, <2>1, <2>2
<1>4. Folded(Folded(Raised(Z))) = Folded(Raised(Y))
  <2>1. Folded(Raised(Z)) = IF 127 \in Z THEN xor_128block(Raised(Y), Modulus) ELSE Raised(Y)
    BY <1>1, FoldedRaised DEF Y
  <2>2. Folded(xor_128block(Raised(Y), Modulus)) = Folded(Raised(Y))
    <3>1. Raised(Y) \in SUBSET Nat /\ Modulus \in SUBSET Nat /\ Folded(Raised(Y)) \in SUBSET Nat
      BY <1>1, InRaised, FoldedIs DEF Modulus
    <3>2. Folded(xor_128block(Raised(Y), Modulus)) = xor_128block(Folded(Raised(Y)), {})
      BY <3>1, FoldedOfSum, ModulusFolds
    <3>3. xor_128block(Folded(Raised(Y)), {}) = Folded(Raised(Y))
      BY DEF xor_128block
    <3> QED
      BY <3>2, <3>3
  <2> QED
    BY <2>1, <2>2
<1> QED
  BY <1>2, <1>3, <1>4 DEF Reduced, Y

LEMMA ReducedOfSum ==
    ASSUME NEW Y \in SUBSET Nat, NEW Z \in SUBSET Nat
    PROVE  Reduced(xor_128block(Y, Z)) = xor_128block(Reduced(Y), Reduced(Z))
<1>1. Folded(Y) \in SUBSET Nat /\ Folded(Z) \in SUBSET Nat
  BY FoldedIs
<1> QED
  BY <1>1, FoldedOfSum DEF Reduced

\* A block need not be reduced.
LEMMA ReducedBlock ==
    ASSUME NEW y \in SUBSET Bit
    PROVE  Reduced(y) = y
<1>1. ASSUME NEW z \in SUBSET Bit PROVE Folded(z) = z
  <2>1. z \in SUBSET Nat /\ z \in SUBSET 0..133
    BY DEF Bit
  <2>2. Folded(z) \in SUBSET Bit
    BY <2>1, FoldedBounds
  <2>3. ASSUME NEW n \in Bit PROVE n \in Folded(z) <=> n \in z
    <3>1. n \in Nat /\ n < 128 /\ n + 128 \notin z
      BY DEF Bit
    <3>2. n >= 1 => n + 127 \notin z
      BY DEF Bit
    <3>3. n >= 2 => n + 126 \notin z
      BY DEF Bit
    <3>4. n >= 7 => n + 121 \notin z
      BY DEF Bit
    <3>5. InFolded(z, n) <=> n \in z
      BY <3>1, <3>2, <3>3, <3>4 DEF InFolded
    <3> QED
      BY <2>1, <3>1, <3>5, FoldedIs
  <2> QED
    BY <2>2, <2>3, SameSet
<1> QED
  BY <1>1 DEF Reduced
\* Q times the power k of x, not reduced
Shifted(Q, k) == {k + j : j \in Q}

LEMMA ShiftedReduced ==
    ASSUME NEW Q \in SUBSET Bit, NEW n \in Bit
    PROVE  Shifted(Q, n) \in SUBSET 0..254 /\ Reduced(Shifted(Q, n)) = PowersOf(Q)[n]
<1> DEFINE T == {k \in 0..127 : Reduced(Shifted(Q, k)) = PowersOf(Q)[k]}
<1>1. \A k \in 0..127 : Shifted(Q, k) \in SUBSET 0..254
  BY DEF Shifted, Bit
<1>2. 0 \in T
  <2>1. Shifted(Q, 0) = Q
    <3>1. \A j \in Q : 0 + j = j
      BY DEF Bit
    <3>2. Shifted(Q, 0) \subseteq Q /\ Q \subseteq Shifted(Q, 0)
      BY <3>1 DEF Shifted
    <3> QED
      BY <3>2
  <2>2. Reduced(Q) = Q /\ PowersOf(Q)[0] = Q
    BY ReducedBlock, PowersAre
  <2> QED
    BY <2>1, <2>2
<1>3. ASSUME NEW k \in 0..126, k \in T PROVE k + 1 \in T
  <2>1. Shifted(Q, k + 1) = Raised(Shifted(Q, k))
    <3>1. \A j \in Q : (k + j) + 1 = (k + 1) + j
      BY DEF Bit
    <3> QED
      BY <3>1 DEF Shifted, Raised
  <2>2. Reduced(Shifted(Q, k)) = PowersOf(Q)[k] /\ Shifted(Q, k) \in SUBSET 0..254
    BY <1>1, <1>3
  <2>3. Reduced(Raised(Shifted(Q, k))) = NextV(Reduced(Shifted(Q, k)))
    BY <2>2, ReducedRaised
  <2>4. k \in 0..127 /\ PowersOf(Q)[k + 1] = NextV(PowersOf(Q)[k])
    BY PowersAre
  <2>5. Reduced(Shifted(Q, k + 1)) = PowersOf(Q)[k + 1]
    BY <2>1, <2>2, <2>3, <2>4
  <2> QED
    BY <2>5
<1>4. \A k \in 0..127 : k \in T
  <2>1. 127 \in Nat /\ 127 - 1 = 126
    OBVIOUS
  <2> HIDE DEF T
  <2> QED
    BY <1>2, <1>3, <2>1, InductionUpTo
<1> QED
  BY <1>1, <1>4 DEF Bit

\* One more exponent of P adds one more shifted Q.
LEMMA UnreducedGrows ==
    ASSUME NEW P \in SUBSET Bit, NEW p \in Bit, p \notin P, NEW Q \in SUBSET Bit
    PROVE  Unreduced(P \cup {p}, Q) = xor_128block(Unreduced(P, Q), Shifted(Q, p))
<1>1. Unreduced(P \cup {p}, Q) \in SUBSET Nat /\ Unreduced(P, Q) \in SUBSET Nat
  BY DEF Unreduced
<1>2. Shifted(Q, p) \in SUBSET 0..254
  BY ShiftedReduced
<1>3. xor_128block(Unreduced(P, Q), Shifted(Q, p)) \in SUBSET Nat
  BY <1>1, <1>2 DEF xor_128block
<1>4. ASSUME NEW k \in 0..254
      PROVE  k \in Unreduced(P \cup {p}, Q) <=> ~(k \in Unreduced(P, Q) <=> k \in Shifted(Q, p))
  <2> DEFINE A == {i \in P : k - i \in Q}
             B == {i \in P \cup {p} : k - i \in Q}
  <2>1. k \in Shifted(Q, p) <=> k - p \in Q
    BY DEF Shifted, Bit
  <2>2. IsFiniteSet(A) /\ p \notin A
    <3>1. A \in SUBSET Bit /\ p \notin A
      OBVIOUS
    <3>2. IsFiniteSet(Bit)
      <4>1. 0 \in Int /\ 127 \in Int
        OBVIOUS
      <4> QED
        BY <4>1, FS_Interval, Zenon DEF Bit
    <3> HIDE DEF A
    <3> QED
      BY <3>1, <3>2, FS_Subset, Zenon
  <2>3. /\ k \in Unreduced(P, Q) <=> Cardinality(A) % 2 = 1
        /\ k \in Unreduced(P \cup {p}, Q) <=> Cardinality(B) % 2 = 1
    BY DEF Unreduced
  <2>4. k - p \in Q => B = A \cup {p}
    OBVIOUS
  <2>5. k - p \notin Q => B = A
    OBVIOUS
  <2> HIDE DEF A, B
  <2>6. Cardinality(A) \in Nat /\ Cardinality(A \cup {p}) = Cardinality(A) + 1
    BY <2>2, FS_CardinalityType, FS_AddElement
  <2>7. Cardinality(A \cup {p}) % 2 = 1 <=> ~(Cardinality(A) % 2 = 1)
    BY <2>6
  <2>8. CASE k - p \in Q
    BY <2>1, <2>3, <2>4, <2>7, <2>8
  <2>9. CASE k - p \notin Q
    BY <2>1, <2>3, <2>5, <2>9
  <2> QED
    BY <2>8, <2>9
<1>5. ASSUME NEW k \in Nat
      PROVE  k \in Unreduced(P \cup {p}, Q) <=> k \in xor_128block(Unreduced(P, Q), Shifted(Q, p))
  <2>1. k \notin 0..254 => k \notin Unreduced(P \cup {p}, Q) /\ k \notin Unreduced(P, Q)
    BY DEF Unreduced
  <2> QED
    BY <1>2, <1>4, <2>1, InSum
<1> QED
  BY <1>1, <1>3, <1>5, SameNumbers

\* The definition gives the product.
LEMMA PolyTimesIs ==
    ASSUME NEW x \in SUBSET Bit, NEW y \in SUBSET Bit
    PROVE  PolyTimes(x, y) = Product(x, y)
<1> DEFINE below(k) == {i \in x : i < k}
           T == {k \in 0..128 : Reduced(Unreduced(below(k), y)) = PartsOf(x, y)[k]}
<1>1. \A k \in 0..128 : below(k) \in SUBSET Bit
  OBVIOUS
<1>2. below(0) = {} /\ below(128) = x
  <2>1. \A i \in Bit : ~(i < 0) /\ i < 128
    BY DEF Bit
  <2>2. \A i \in Bit : i \in below(128) <=> i \in x
    BY <2>1
  <2>3. \A i \in Bit : i \in below(0) <=> i \in {}
    BY <2>1
  <2>4. below(0) \in SUBSET Bit /\ below(128) \in SUBSET Bit
    OBVIOUS
  <2> HIDE DEF below
  <2>5. below(128) = x
    BY <2>2, <2>4, SameSet
  <2>6. below(0) = {}
    BY <2>3, <2>4
  <2> QED
    BY <2>5, <2>6
<1>3. ASSUME NEW k \in 0..127
      PROVE  k \notin below(k) /\ below(k + 1) = IF k \in x THEN below(k) \cup {k} ELSE below(k)
  <2>1. ASSUME NEW i \in Bit PROVE i < k + 1 <=> i < k \/ i = k
    BY DEF Bit
  <2>2. \A i : i \in below(k + 1) <=> i \in x /\ (i < k \/ i = k)
    BY <2>1
  <2>3. k \notin below(k)
    OBVIOUS
  <2> QED
    BY <2>2, <2>3
<1> HIDE DEF below
<1>4. 0 \in T
  <2>1. Unreduced({}, y) = {}
    <3>1. ASSUME NEW k PROVE {i \in {} : k - i \in y} = {}
      OBVIOUS
    <3>2. Cardinality({}) = 0
      BY FS_EmptySet
    <3> QED
      BY <3>1, <3>2 DEF Unreduced
  <2>2. Reduced({}) = {}
    BY ReducedBlock
  <2>3. PartsOf(x, y)[0] = {}
    BY PartsAre
  <2> QED
    BY <1>2, <2>1, <2>2, <2>3
<1>5. ASSUME NEW k \in 0..127, k \in T PROVE k + 1 \in T
  <2>1. Reduced(Unreduced(below(k), y)) = PartsOf(x, y)[k]
    BY <1>5
  <2>2. PartsOf(x, y)[k + 1] = IF k \in x THEN xor_128block(PartsOf(x, y)[k], PowersOf(y)[k])
                               ELSE PartsOf(x, y)[k]
    BY PartsAre
  <2>3. Reduced(Unreduced(below(k + 1), y)) = PartsOf(x, y)[k + 1]
    <3>1. CASE k \in x
      <4>1. below(k) \in SUBSET Bit /\ k \in Bit /\ k \notin below(k)
        BY <1>1, <1>3 DEF Bit
      <4>2. Unreduced(below(k + 1), y) = xor_128block(Unreduced(below(k), y), Shifted(y, k))
        BY <1>3, <3>1, <4>1, UnreducedGrows
      <4>3. Unreduced(below(k), y) \in SUBSET Nat
        BY DEF Unreduced
      <4>4. Shifted(y, k) \in SUBSET Nat /\ Reduced(Shifted(y, k)) = PowersOf(y)[k]
        <5>1. Shifted(y, k) \in SUBSET 0..254 /\ Reduced(Shifted(y, k)) = PowersOf(y)[k]
          BY <4>1, ShiftedReduced
        <5> QED
          BY <5>1
      <4> QED
        BY <2>1, <2>2, <3>1, <4>2, <4>3, <4>4, ReducedOfSum
    <3>2. CASE k \notin x
      BY <1>3, <2>1, <2>2, <3>2
    <3> QED
      BY <3>1, <3>2
  <2> QED
    BY <2>3
<1>6. \A k \in 0..128 : k \in T
  <2> HIDE DEF T
  <2> QED
    BY <1>4, <1>5, InductionUpTo
<1>7. Reduced(Unreduced(below(128), y)) = PartsOf(x, y)[128]
  BY <1>6
<1> QED
  BY <1>2, <1>7 DEF PolyTimes, Reduced, Product
-----------------------------------------------------------------------------
(* The loops of the code                                                    *)

\* z and v after the first k bits of x
LoopAt(x, y, k) == [z |-> PartsOf(x, y)[k], v |-> PowersOf(y)[k]]

\* One turn of the inner loop, at bit k
Turn(x, k, last) ==
    [z |-> IF k \in x THEN xor_128block(last.z, last.v) ELSE last.z, v |-> NextV(last.v)]

LEMMA LoopTurns ==
    ASSUME NEW x, NEW y \in SUBSET Bit, NEW k \in 0..127
    PROVE  LoopAt(x, y, k + 1) = Turn(x, k, LoopAt(x, y, k))
<1>1. PowersOf(y)[k + 1] = NextV(PowersOf(y)[k])
  BY PowersAre
<1>2. PartsOf(x, y)[k + 1] = IF k \in x THEN xor_128block(PartsOf(x, y)[k], PowersOf(y)[k])
                             ELSE PartsOf(x, y)[k]
  BY PartsAre
<1> QED
  BY <1>1, <1>2 DEF LoopAt, Turn

\* The inner loop from zv on
InnerLoop(x, first, zv) ==
    CHOOSE loop : loop = [j \in 0..8 |-> IF j = 0 THEN zv ELSE Turn(x, first + j - 1, loop[j - 1])]

LEMMA EightBitsAre ==
    ASSUME NEW x, NEW y \in SUBSET Bit, NEW first \in 0..120
    PROVE  EightBits(x, first, LoopAt(x, y, first)) = LoopAt(x, y, first + 8)
<1> DEFINE zv == LoopAt(x, y, first)
           Good(loop) == loop = [j \in 0..8 |->
                            IF j = 0 THEN zv ELSE Turn(x, first + j - 1, loop[j - 1])]
           f == [j \in 0..8 |-> LoopAt(x, y, first + j)]
           g == InnerLoop(x, first, zv)
<1>1. EightBits(x, first, zv) = g[8]
  BY Zenon DEF EightBits, InnerLoop, Turn
<1>2. \A j \in 0..8 : f[j] = LoopAt(x, y, first + j)
  OBVIOUS
<1>3. first + 0 = first /\ f[0] = zv
  OBVIOUS
<1>4. ASSUME NEW j \in 1..8 PROVE f[j] = Turn(x, first + j - 1, f[j - 1])
  <2>1. /\ first + j - 1 \in 0..127 /\ (first + j - 1) + 1 = first + j
        /\ first + (j - 1) = first + j - 1 /\ j - 1 \in 0..8
    OBVIOUS
  <2>2. f[j - 1] = LoopAt(x, y, first + j - 1)
    BY <1>2, <2>1
  <2> HIDE DEF f
  <2>3. LoopAt(x, y, first + j) = Turn(x, first + j - 1, LoopAt(x, y, first + j - 1))
    BY <2>1, LoopTurns
  <2> QED
    BY <1>2, <2>2, <2>3
<1>5. Good(f)
  <2> DEFINE h == [j \in 0..8 |-> IF j = 0 THEN zv ELSE Turn(x, first + j - 1, f[j - 1])]
  <2>1. \A j \in 0..8 : f[j] = h[j]
    <3> HIDE DEF f, zv
    <3>1. \A j \in 0..8 : j = 0 \/ j \in 1..8
      OBVIOUS
    <3> QED
      BY <1>3, <1>4, <3>1
  <2>2. f = [j \in 0..8 |-> f[j]]
    OBVIOUS
  <2> HIDE DEF f, zv
  <2> QED
    BY <2>1, <2>2
<1>6. Good(g)
  <2>1. g = CHOOSE loop : Good(loop)
    BY Zenon DEF InnerLoop
  <2>2. Good(CHOOSE loop : Good(loop))
    <3> HIDE DEF Good, f, g
    <3> QED
      BY <1>5
  <2> HIDE DEF Good, g
  <2> QED
    BY <2>1, <2>2
<1> HIDE DEF zv, f
<1>7. g[0] = zv /\ \A j \in 1..8 : g[j] = Turn(x, first + j - 1, g[j - 1])
  <2> HIDE DEF g
  <2>1. \A j \in 0..8 : g[j] = IF j = 0 THEN zv ELSE Turn(x, first + j - 1, g[j - 1])
    BY <1>6
  <2>2. \A j \in 1..8 : j \in 0..8 /\ j # 0
    OBVIOUS
  <2> QED
    BY <2>1, <2>2
<1> HIDE DEF g, Good
<1>8. \A j \in 0..8 : g[j] = f[j]
  <2> DEFINE T == {j \in 0..8 : g[j] = f[j]}
  <2>1. 0 \in T
    BY <1>3, <1>7
  <2>2. ASSUME NEW j \in 0..7, j \in T PROVE j + 1 \in T
    <3>1. j + 1 \in 1..8 /\ (j + 1) - 1 = j
      OBVIOUS
    <3>2. g[j + 1] = Turn(x, first + (j + 1) - 1, g[(j + 1) - 1])
      BY <1>7, <3>1
    <3>3. f[j + 1] = Turn(x, first + (j + 1) - 1, f[(j + 1) - 1])
      BY <1>4, <3>1
    <3>4. g[j] = f[j]
      BY <2>2
    <3> QED
      BY <3>1, <3>2, <3>3, <3>4
  <2> HIDE DEF T
  <2>3. 8 \in Nat /\ 8 - 1 = 7
    OBVIOUS
  <2>4. \A j \in 0..8 : j \in T
    BY <2>1, <2>2, <2>3, InductionUpTo
  <2> QED
    BY <2>4 DEF T
<1>9. g[8] = f[8] /\ f[8] = LoopAt(x, y, first + 8)
  BY <1>2, <1>8
<1> QED
  BY <1>1, <1>9 DEF zv

\* The outer loop
OuterLoop(x, y) ==
    CHOOSE loop : loop = [i \in 0..16 |->
        IF i = 0 THEN [z |-> {}, v |-> y]
        ELSE CHOOSE zv \in {EightBits(x, 8 * (i - 1), last) : last \in {loop[i - 1]}} : TRUE]

\* The loops multiply.
LEMMA NumIsProduct ==
    ASSUME NEW x, NEW y \in SUBSET Bit
    PROVE  g_num128(x, y) = Product(x, y)
<1> DEFINE zv == [z |-> {}, v |-> y]
           Good(loop) == loop = [i \in 0..16 |->
              IF i = 0 THEN zv
              ELSE CHOOSE w \in {EightBits(x, 8 * (i - 1), last) : last \in {loop[i - 1]}} : TRUE]
           f == [i \in 0..16 |-> LoopAt(x, y, 8 * i)]
           g == OuterLoop(x, y)
<1>1. g_num128(x, y) = g[16].z
  BY Zenon DEF g_num128, OuterLoop
<1>2. ASSUME NEW i, NEW a
      PROVE  (CHOOSE w \in {EightBits(x, 8 * (i - 1), last) : last \in {a}} : TRUE)
             = EightBits(x, 8 * (i - 1), a)
  OBVIOUS
<1>3. \A i \in 0..16 : f[i] = LoopAt(x, y, 8 * i)
  OBVIOUS
<1>4. f[0] = zv
  <2>1. 8 * 0 = 0 /\ PartsOf(x, y)[0] = {} /\ PowersOf(y)[0] = y
    BY PartsAre, PowersAre
  <2> QED
    BY <1>3, <2>1 DEF LoopAt
<1>5. ASSUME NEW i \in 1..16 PROVE f[i] = EightBits(x, 8 * (i - 1), f[i - 1])
  <2>1. i - 1 \in 0..16 /\ 8 * (i - 1) \in 0..120 /\ 8 * (i - 1) + 8 = 8 * i
    OBVIOUS
  <2>2. f[i - 1] = LoopAt(x, y, 8 * (i - 1)) /\ f[i] = LoopAt(x, y, 8 * i)
    BY <1>3, <2>1
  <2> HIDE DEF f
  <2>3. EightBits(x, 8 * (i - 1), LoopAt(x, y, 8 * (i - 1))) = LoopAt(x, y, 8 * (i - 1) + 8)
    BY <2>1, EightBitsAre
  <2> QED
    BY <2>1, <2>2, <2>3
<1>6. Good(f)
  <2> DEFINE h == [i \in 0..16 |->
              IF i = 0 THEN zv
              ELSE CHOOSE w \in {EightBits(x, 8 * (i - 1), last) : last \in {f[i - 1]}} : TRUE]
  <2>1. ASSUME NEW i \in 0..16 PROVE f[i] = h[i]
    <3> HIDE DEF f, zv
    <3>1. CASE i = 0
      BY <1>4, <3>1
    <3>2. CASE i # 0
      <4>1. i \in 1..16
        BY <3>2
      <4>2. f[i] = EightBits(x, 8 * (i - 1), f[i - 1])
        BY <1>5, <4>1
      <4>3. h[i] = CHOOSE w \in {EightBits(x, 8 * (i - 1), last) : last \in {f[i - 1]}} : TRUE
        BY <3>2
      <4> HIDE DEF h
      <4> QED
        BY <1>2, <4>2, <4>3
    <3> QED
      BY <3>1, <3>2
  <2>2. f = [i \in 0..16 |-> f[i]] /\ h = [i \in 0..16 |-> h[i]]
    OBVIOUS
  <2>3. f = h
    <3> HIDE DEF f, h
    <3>1. [i \in 0..16 |-> f[i]] = [i \in 0..16 |-> h[i]]
      BY <2>1
    <3> QED
      BY <2>2, <3>1
  <2> HIDE DEF f, zv
  <2> QED
    BY <2>3, Zenon
<1>7. Good(g)
  <2>1. g = CHOOSE loop : Good(loop)
    BY Zenon DEF OuterLoop
  <2>2. Good(CHOOSE loop : Good(loop))
    <3> HIDE DEF Good, f, g
    <3> QED
      BY <1>6
  <2> HIDE DEF Good, g
  <2> QED
    BY <2>1, <2>2
<1> HIDE DEF zv, f
<1>8. g[0] = zv /\ \A i \in 1..16 : g[i] = EightBits(x, 8 * (i - 1), g[i - 1])
  <2> HIDE DEF g
  <2>1. ASSUME NEW i \in 0..16
        PROVE  g[i] = IF i = 0 THEN zv
                      ELSE CHOOSE w \in {EightBits(x, 8 * (i - 1), last) : last \in {g[i - 1]}} : TRUE
    BY <1>7, Zenon
  <2>2. \A i \in 1..16 : i \in 0..16 /\ i # 0
    OBVIOUS
  <2>3. ASSUME NEW i \in 1..16 PROVE g[i] = EightBits(x, 8 * (i - 1), g[i - 1])
    BY <1>2, <2>1, <2>2
  <2>4. g[0] = zv
    <3>1. 0 \in 0..16
      OBVIOUS
    <3> QED
      BY <2>1, <3>1
  <2> QED
    BY <2>3, <2>4
<1> HIDE DEF g, Good
<1>9. \A i \in 0..16 : g[i] = f[i]
  <2> DEFINE T == {i \in 0..16 : g[i] = f[i]}
  <2>1. 0 \in T
    BY <1>4, <1>8
  <2>2. ASSUME NEW i \in 0..15, i \in T PROVE i + 1 \in T
    <3>1. i + 1 \in 1..16 /\ (i + 1) - 1 = i
      OBVIOUS
    <3>2. g[i + 1] = EightBits(x, 8 * ((i + 1) - 1), g[(i + 1) - 1])
      BY <1>8, <3>1
    <3>3. f[i + 1] = EightBits(x, 8 * ((i + 1) - 1), f[(i + 1) - 1])
      BY <1>5, <3>1
    <3>4. g[i] = f[i]
      BY <2>2
    <3> QED
      BY <3>1, <3>2, <3>3, <3>4
  <2> HIDE DEF T
  <2>3. 16 \in Nat /\ 16 - 1 = 15
    OBVIOUS
  <2>4. \A i \in 0..16 : i \in T
    BY <2>1, <2>2, <2>3, InductionUpTo
  <2> QED
    BY <2>4 DEF T
<1>10. g[16] = f[16] /\ f[16] = LoopAt(x, y, 8 * 16) /\ 8 * 16 = 128
  BY <1>3, <1>9
<1> QED
  BY <1>1, <1>10 DEF Product, LoopAt

-----------------------------------------------------------------------------
(* The hash of a sequence of blocks                                         *)

LEMMA BitsType ==
    ASSUME NEW b
    PROVE  Bits(b) \in SUBSET Bit
BY DEF Bits, Bit

\* y[i] is the hash after i of the blocks bs, from s on.
Hashes(y, s, bs) ==
    /\ y[0] = s
    /\ \A i \in 1..Len(bs) : y[i] = Product(xor_128block(y[i - 1], Bits(bs[i])), H)

IsHash(y, s, bs) == y \in [0..Len(bs) -> SUBSET Bit] /\ Hashes(y, s, bs)

LEMMA HashExists ==
    ASSUME H \in SUBSET Bit, NEW s \in SUBSET Bit, NEW bs, Len(bs) \in Nat
    PROVE  \E y : IsHash(y, s, bs)
<1> DEFINE n == Len(bs)
           U == SUBSET Bit
           F == [p \in (1..n) \X U |-> Product(xor_128block(p[2], Bits(bs[p[1]])), H)]
<1>1. F \in [(1..n) \X U -> U] /\ s \in U
  BY ProductType
<1>2. \A i \in 1..n, v \in U : F[<<i, v>>] = Product(xor_128block(v, Bits(bs[i])), H)
  OBVIOUS
<1> HIDE DEF F, U
<1>3. PICK y \in [0..n -> U] : IsRecursion(y, n, s, F)
  BY <1>1, RecursiveFunction
<1>4. y[0] = s /\ \A i \in 1..n : y[i] = F[<<i, y[i - 1]>>]
  BY <1>3 DEF IsRecursion
<1>5. ASSUME NEW i \in 1..n PROVE y[i] = Product(xor_128block(y[i - 1], Bits(bs[i])), H)
  <2>1. i - 1 \in 0..n /\ y[i - 1] \in U
    OBVIOUS
  <2> QED
    BY <1>2, <1>4, <2>1
<1>6. IsHash(y, s, bs)
  BY <1>3, <1>4, <1>5 DEF IsHash, Hashes, U
<1> QED
  BY <1>6

LEMMA HashUnique ==
    ASSUME NEW s, NEW bs, Len(bs) \in Nat, NEW y, Hashes(y, s, bs), NEW z, Hashes(z, s, bs)
    PROVE  \A i \in 0..Len(bs) : z[i] = y[i]
<1> DEFINE n == Len(bs)
           T == {i \in 0..n : z[i] = y[i]}
<1>1. /\ y[0] = s /\ z[0] = s
      /\ \A i \in 1..n : y[i] = Product(xor_128block(y[i - 1], Bits(bs[i])), H)
      /\ \A i \in 1..n : z[i] = Product(xor_128block(z[i - 1], Bits(bs[i])), H)
  BY DEF Hashes
<1>2. 0 \in T
  BY <1>1
<1>3. ASSUME NEW i \in 0..(n - 1), i \in T PROVE i + 1 \in T
  <2>1. i + 1 \in 1..n /\ (i + 1) - 1 = i /\ z[i] = y[i]
    BY <1>3
  <2>2. y[i + 1] = Product(xor_128block(y[(i + 1) - 1], Bits(bs[i + 1])), H)
    BY <1>1, <2>1
  <2>3. z[i + 1] = Product(xor_128block(z[(i + 1) - 1], Bits(bs[i + 1])), H)
    BY <1>1, <2>1
  <2> QED
    BY <2>1, <2>2, <2>3
<1>4. \A i \in 0..n : i \in T
  <2> HIDE DEF T
  <2> QED
    BY <1>2, <1>3, InductionUpTo
<1> QED
  BY <1>4

\* The loop of ghash(), from s on
HashLoop(s, bs) ==
    CHOOSE y : y = [i \in 0..Len(bs) |->
        IF i = 0 THEN s
        ELSE CHOOSE z \in {g_num128(x, H) : x \in {xor_128block(y[i - 1], Bits(bs[i]))}} : TRUE]

LEMMA HashedIs ==
    ASSUME H \in SUBSET Bit, NEW s, NEW bs, Len(bs) \in Nat, NEW y, IsHash(y, s, bs)
    PROVE  Hashed(s, bs) = y[Len(bs)]
<1> DEFINE n == Len(bs)
           value(v, i) == CHOOSE z \in {g_num128(x, H) : x \in {xor_128block(v, Bits(bs[i]))}} : TRUE
           Good(f) == f = [i \in 0..n |-> IF i = 0 THEN s ELSE value(f[i - 1], i)]
           g == HashLoop(s, bs)
<1>1. Hashed(s, bs) = g[n]
  BY Zenon DEF Hashed, HashLoop
<1>2. ASSUME NEW v, NEW i PROVE value(v, i) = Product(xor_128block(v, Bits(bs[i])), H)
  <2>1. value(v, i) = g_num128(xor_128block(v, Bits(bs[i])), H)
    OBVIOUS
  <2> QED
    BY <2>1, NumIsProduct
<1> HIDE DEF value
<1>3. /\ y \in [0..n -> SUBSET Bit] /\ y[0] = s
      /\ \A i \in 1..n : y[i] = value(y[i - 1], i)
  BY <1>2 DEF IsHash, Hashes
<1>4. Good(y)
  <2> DEFINE h == [i \in 0..n |-> IF i = 0 THEN s ELSE value(y[i - 1], i)]
  <2>1. \A i \in 0..n : y[i] = h[i]
    <3>1. \A i \in 0..n : i = 0 \/ i \in 1..n
      OBVIOUS
    <3> QED
      BY <1>3, <3>1
  <2>2. y = [i \in 0..n |-> y[i]]
    BY <1>3
  <2>3. h = [i \in 0..n |-> h[i]]
    OBVIOUS
  <2>4. y = h
    <3> HIDE DEF h
    <3>1. [i \in 0..n |-> y[i]] = [i \in 0..n |-> h[i]]
      BY <2>1
    <3> QED
      BY <2>2, <2>3, <3>1
  <2> QED
    BY <2>4, Zenon
<1>5. Good(g)
  <2>1. g = CHOOSE f : Good(f)
    BY Zenon DEF HashLoop, value
  <2>2. Good(CHOOSE f : Good(f))
    <3> HIDE DEF Good, g
    <3> QED
      BY <1>4
  <2> HIDE DEF Good, g
  <2> QED
    BY <2>1, <2>2
<1>6. g[0] = s /\ \A i \in 1..n : g[i] = value(g[i - 1], i)
  <2> HIDE DEF g
  <2>1. ASSUME NEW i \in 0..n PROVE g[i] = IF i = 0 THEN s ELSE value(g[i - 1], i)
    BY <1>5, Zenon
  <2>2. 0 \in 0..n /\ \A i \in 1..n : i \in 0..n /\ i # 0
    OBVIOUS
  <2> QED
    BY <2>1, <2>2
<1> HIDE DEF g
<1>7. Hashes(g, s, bs)
  BY <1>2, <1>6 DEF Hashes
<1>8. \A i \in 0..n : g[i] = y[i]
  BY <1>7, HashUnique DEF IsHash
<1> QED
  BY <1>1, <1>8

\* Hashing goes on where it ended.
LEMMA HashedGoesOn ==
    ASSUME H \in SUBSET Bit, NEW s \in SUBSET Bit, NEW ps \in Seq(Block), NEW bs \in Seq(Block)
    PROVE  /\ Hashed(s, ps) \in SUBSET Bit
           /\ Hashed(Hashed(s, ps), bs) = Hashed(s, ps \o bs)
<1> DEFINE cs == ps \o bs
           m == Len(ps)
           n == Len(bs)
<1>1. /\ m \in Nat /\ n \in Nat /\ Len(cs) = m + n /\ Len(ps) = m /\ Len(bs) = n
      /\ \A i \in 1..m : cs[i] = ps[i]
      /\ \A i \in 1..n : cs[m + i] = bs[i]
  <2>1. m \in Nat /\ n \in Nat
    OBVIOUS
  <2>2. /\ Len(cs) = m + n
        /\ \A i \in 1..(m + n) : cs[i] = IF i <= m THEN ps[i] ELSE bs[i - m]
    BY ConcatProperties
  <2> HIDE DEF cs, m, n
  <2>3. \A i \in 1..m : i \in 1..(m + n) /\ i <= m
    BY <2>1
  <2>4. \A i \in 1..n : m + i \in 1..(m + n) /\ ~(m + i <= m) /\ (m + i) - m = i
    BY <2>1
  <2>5. \A i \in 1..m : cs[i] = ps[i]
    BY <2>2, <2>3
  <2>6. \A i \in 1..n : cs[m + i] = bs[i]
    BY <2>2, <2>4
  <2> QED
    BY <2>1, <2>2, <2>5, <2>6 DEF m, n
<1> HIDE DEF cs, m, n
<1>2. PICK y : IsHash(y, s, cs)
  <2>1. Len(cs) \in Nat
    BY <1>1
  <2> QED
    BY <2>1, HashExists
<1>3. PICK u : IsHash(u, s, ps)
  BY <1>1, HashExists
<1>4. Hashed(s, ps) = u[m] /\ u[m] \in SUBSET Bit /\ Hashed(s, cs) = y[m + n]
  <2>1. m \in 0..m /\ Len(cs) \in Nat
    BY <1>1
  <2>2. Hashed(s, ps) = u[m] /\ Hashed(s, cs) = y[m + n]
    BY <1>1, <1>2, <1>3, <2>1, HashedIs
  <2>3. u \in [0..m -> SUBSET Bit]
    BY <1>1, <1>3 DEF IsHash
  <2> QED
    BY <2>1, <2>2, <2>3
<1>5. PICK w : IsHash(w, u[m], bs)
  BY <1>1, <1>4, HashExists
<1>6. Hashed(u[m], bs) = w[n]
  BY <1>1, <1>5, HashedIs
<1>7. /\ y[0] = s
      /\ \A i \in 1..(m + n) : y[i] = Product(xor_128block(y[i - 1], Bits(cs[i])), H)
  BY <1>1, <1>2 DEF IsHash, Hashes
<1>8. \A i \in 0..m : y[i] = u[i]
  <2>1. ASSUME NEW i \in 1..m PROVE y[i] = Product(xor_128block(y[i - 1], Bits(ps[i])), H)
    <3>1. i \in 1..(m + n)
      BY <1>1
    <3>2. cs[i] = ps[i]
      BY <1>1
    <3> QED
      BY <1>7, <3>1, <3>2
  <2>2. Hashes(y, s, ps) /\ Hashes(u, s, ps) /\ Len(ps) \in Nat
    BY <1>1, <1>3, <1>7, <2>1 DEF Hashes, IsHash
  <2>3. \A i \in 0..Len(ps) : y[i] = u[i]
    <3> QED
      BY <2>2, HashUnique, SMTT(30)
  <2> QED
    BY <1>1, <2>3
<1>9. \A i \in 0..n : y[m + i] = w[i]
  <2> DEFINE q == [i \in 0..n |-> y[m + i]]
  <2>1. q[0] = u[m]
    <3>1. y[m] = u[m] /\ m + 0 = m
      BY <1>1, <1>8
    <3> QED
      BY <1>1, <3>1
  <2>2. ASSUME NEW i \in 1..n PROVE q[i] = Product(xor_128block(q[i - 1], Bits(bs[i])), H)
    <3>1. m + i \in 1..(m + n) /\ (m + i) - 1 = m + (i - 1) /\ i - 1 \in 0..n /\ i \in 0..n
      BY <1>1
    <3>2. q[i] = y[m + i] /\ q[i - 1] = y[(m + i) - 1] /\ cs[m + i] = bs[i]
      BY <1>1, <3>1
    <3> HIDE DEF q
    <3> QED
      BY <1>7, <3>1, <3>2
  <2>3. \A i \in 0..n : q[i] = y[m + i]
    OBVIOUS
  <2> HIDE DEF q
  <2>4. \A i \in 0..n : q[i] = w[i]
    <3>1. Hashes(q, u[m], bs)
      BY <1>1, <2>1, <2>2 DEF Hashes
    <3>2. Hashes(w, u[m], bs) /\ Len(bs) \in Nat
      BY <1>1, <1>5 DEF IsHash
    <3>3. \A i \in 0..Len(bs) : q[i] = w[i]
      BY <3>1, <3>2, HashUnique, SMTT(30)
    <3> QED
      BY <1>1, <3>3
  <2> QED
    BY <2>3, <2>4
<1>10. y[m + n] = w[n]
  BY <1>1, <1>9
<1> QED
  BY <1>4, <1>6, <1>10 DEF cs

\* The blocks of one piece are blocks.
LEMMA BlocksOfType ==
    ASSUME NEW x \in Seq(Byte)
    PROVE  BlocksOf(x) \in Seq(Block)
<1> DEFINE n == (Len(x) + 15) \div 16
           part(i) == SubSeq(x, 16 * (i - 1) + 1, Len(x))
<1>1. n \in Nat
  OBVIOUS
<1>2. ASSUME NEW i \in 1..n PROVE Taken(part(i), 16, 0) \in Block
  <2>1. 16 * (i - 1) + 1 \in 1..Len(x) /\ Len(x) \in Nat
    OBVIOUS
  <2>2. part(i) \in Seq(Byte)
    BY <2>1
  <2> HIDE DEF part
  <2>3. \A k \in 1..16 : k <= Len(part(i)) => part(i)[k] \in Byte
    BY <2>2
  <2>4. 0 \in Byte
    BY DEF Byte
  <2> QED
    BY <2>3, <2>4 DEF Taken, Block
<1>3. BlocksOf(x) = [i \in 1..n |-> Taken(part(i), 16, 0)]
  BY DEF BlocksOf
<1> HIDE DEF n, part
<1> QED
  BY <1>1, <1>2, <1>3

\* The blocks of the first i pieces
BlocksUpTo(ps) ==
    CHOOSE upTo : upTo = [i \in 0..Len(ps) |->
        IF i = 0 THEN <<>> ELSE upTo[i - 1] \o BlocksOf(ps[i])]

LEMMA BlocksUpToAre ==
    ASSUME NEW ps \in Seq(Seq(Byte))
    PROVE  /\ BlocksUpTo(ps) \in [0..Len(ps) -> Seq(Block)]
           /\ BlocksUpTo(ps)[0] = <<>>
           /\ \A i \in 1..Len(ps) : BlocksUpTo(ps)[i] = BlocksUpTo(ps)[i - 1] \o BlocksOf(ps[i])
<1> DEFINE n == Len(ps)
           U == Seq(Block)
           F == [p \in (1..n) \X U |-> p[2] \o BlocksOf(ps[p[1]])]
           Good(f) == f = [i \in 0..n |-> IF i = 0 THEN <<>> ELSE f[i - 1] \o BlocksOf(ps[i])]
           g == BlocksUpTo(ps)
<1>1. n \in Nat /\ \A i \in 1..n : ps[i] \in Seq(Byte)
  OBVIOUS
<1> HIDE DEF n
<1>2. \A i \in 1..n : BlocksOf(ps[i]) \in U
  BY <1>1, BlocksOfType
<1>3. F \in [(1..n) \X U -> U] /\ <<>> \in U
  <2>1. ASSUME NEW i \in 1..n, NEW v \in U PROVE v \o BlocksOf(ps[i]) \in U
    BY <1>2
  <2>2. <<>> \in U
    OBVIOUS
  <2> HIDE DEF U
  <2> QED
    BY <2>1, <2>2
<1>4. \A i \in 1..n, v \in U : F[<<i, v>>] = v \o BlocksOf(ps[i])
  OBVIOUS
<1> HIDE DEF F, U
<1>5. PICK f \in [0..n -> U] : IsRecursion(f, n, <<>>, F)
  BY <1>1, <1>3, RecursiveFunction
<1>6. f[0] = <<>> /\ \A i \in 1..n : f[i] = F[<<i, f[i - 1]>>]
  BY <1>5 DEF IsRecursion
<1>7. ASSUME NEW i \in 1..n PROVE f[i] = f[i - 1] \o BlocksOf(ps[i])
  <2>1. i - 1 \in 0..n /\ f[i - 1] \in U
    BY <1>1
  <2> QED
    BY <1>4, <1>6, <2>1
<1>8. Good(f)
  <2> DEFINE h == [i \in 0..n |-> IF i = 0 THEN <<>> ELSE f[i - 1] \o BlocksOf(ps[i])]
  <2>1. \A i \in 0..n : f[i] = h[i]
    <3>1. \A i \in 0..n : i = 0 \/ i \in 1..n
      BY <1>1
    <3> QED
      BY <1>6, <1>7, <3>1
  <2>2. f = [i \in 0..n |-> f[i]] /\ h = [i \in 0..n |-> h[i]]
    OBVIOUS
  <2>3. f = h
    <3> HIDE DEF h
    <3>1. [i \in 0..n |-> f[i]] = [i \in 0..n |-> h[i]]
      BY <2>1
    <3> QED
      BY <2>2, <3>1
  <2> QED
    BY <2>3, Zenon
<1>9. Good(g)
  <2>1. g = CHOOSE r : Good(r)
    BY Zenon DEF BlocksUpTo, n
  <2>2. Good(CHOOSE r : Good(r))
    <3> HIDE DEF Good, g
    <3> QED
      BY <1>8
  <2> HIDE DEF Good, g
  <2> QED
    BY <2>1, <2>2
<1>10. g[0] = <<>> /\ \A i \in 1..n : g[i] = g[i - 1] \o BlocksOf(ps[i])
  <2> HIDE DEF g
  <2>1. ASSUME NEW i \in 0..n PROVE g[i] = IF i = 0 THEN <<>> ELSE g[i - 1] \o BlocksOf(ps[i])
    BY <1>9, Zenon
  <2>2. 0 \in 0..n /\ \A i \in 1..n : i \in 0..n /\ i # 0
    BY <1>1
  <2> QED
    BY <2>1, <2>2
<1>11. \A i \in 0..n : g[i] = f[i]
  <2> DEFINE T == {i \in 0..n : g[i] = f[i]}
  <2> HIDE DEF g
  <2>1. 0 \in T
    BY <1>1, <1>6, <1>10
  <2>2. ASSUME NEW i \in 0..(n - 1), i \in T PROVE i + 1 \in T
    <3>1. i + 1 \in 1..n /\ (i + 1) - 1 = i /\ g[i] = f[i]
      BY <1>1, <2>2
    <3>2. g[i + 1] = g[(i + 1) - 1] \o BlocksOf(ps[i + 1])
      BY <1>10, <3>1
    <3>3. f[i + 1] = f[(i + 1) - 1] \o BlocksOf(ps[i + 1])
      BY <1>7, <3>1
    <3>4. i + 1 \in 0..n
      BY <1>1
    <3>5. g[i + 1] = f[i + 1]
      BY <3>1, <3>2, <3>3
    <3> QED
      BY <3>4, <3>5
  <2> HIDE DEF T
  <2>3. \A i \in 0..n : i \in T
    BY <1>1, <2>1, <2>2, InductionUpTo
  <2> QED
    BY <2>3 DEF T
<1>12. g \in [0..n -> U]
  <2>1. g = [i \in 0..n |-> IF i = 0 THEN <<>> ELSE g[i - 1] \o BlocksOf(ps[i])]
    BY <1>9, Zenon
  <2> DEFINE e(i) == IF i = 0 THEN <<>> ELSE g[i - 1] \o BlocksOf(ps[i])
  <2>2. \A i \in 0..n : e(i) = f[i]
    <3> HIDE DEF g
    <3>1. \A i \in 0..n : g[i] = e(i)
      BY <2>1
    <3> QED
      BY <1>11, <3>1
  <2>3. g = [i \in 0..n |-> e(i)]
    BY <2>1, Zenon
  <2> HIDE DEF g, e
  <2> QED
    BY <2>2, <2>3
<1> QED
  BY <1>10, <1>12 DEF n, U

\* Another piece appends its blocks.
LEMMA BlocksAppended ==
    ASSUME NEW ps \in Seq(Seq(Byte)), NEW x \in Seq(Byte)
    PROVE  /\ BlocksUpTo(ps)[Len(ps)] \in Seq(Block)
           /\ BlocksUpTo(Append(ps, x))[Len(ps) + 1] = BlocksUpTo(ps)[Len(ps)] \o BlocksOf(x)
<1> DEFINE n == Len(ps)
           qs == Append(ps, x)
           f == BlocksUpTo(ps)
           g == BlocksUpTo(qs)
           T == {i \in 0..n : g[i] = f[i]}
<1>1. /\ n \in Nat /\ qs \in Seq(Seq(Byte)) /\ Len(qs) = n + 1
      /\ qs[n + 1] = x /\ \A i \in 1..n : qs[i] = ps[i]
  OBVIOUS
<1>2. /\ f \in [0..n -> Seq(Block)] /\ f[0] = <<>>
      /\ \A i \in 1..n : f[i] = f[i - 1] \o BlocksOf(ps[i])
  BY BlocksUpToAre
<1>3. /\ g[0] = <<>>
      /\ \A i \in 1..(n + 1) : g[i] = g[i - 1] \o BlocksOf(qs[i])
  BY <1>1, BlocksUpToAre
<1> HIDE DEF n, qs, f, g
<1>4. 0 \in T
  BY <1>1, <1>2, <1>3
<1>5. ASSUME NEW i \in 0..(n - 1), i \in T PROVE i + 1 \in T
  <2>1. i + 1 \in 1..n /\ i + 1 \in 1..(n + 1) /\ (i + 1) - 1 = i /\ g[i] = f[i] /\ i + 1 \in 0..n
    BY <1>1, <1>5
  <2>2. f[i + 1] = f[(i + 1) - 1] \o BlocksOf(ps[i + 1])
    BY <1>2, <2>1
  <2>3. g[i + 1] = g[(i + 1) - 1] \o BlocksOf(qs[i + 1]) /\ qs[i + 1] = ps[i + 1]
    BY <1>1, <1>3, <2>1
  <2>4. g[i + 1] = f[i + 1]
    BY <2>1, <2>2, <2>3
  <2> QED
    BY <2>1, <2>4
<1>6. \A i \in 0..n : i \in T
  <2> HIDE DEF T
  <2> QED
    BY <1>1, <1>4, <1>5, InductionUpTo
<1>7. g[n] = f[n] /\ f[n] \in Seq(Block)
  BY <1>1, <1>2, <1>6
<1>8. g[n + 1] = g[n] \o BlocksOf(x)
  <2>1. n + 1 \in 1..(n + 1) /\ (n + 1) - 1 = n
    BY <1>1
  <2>2. g[n + 1] = g[(n + 1) - 1] \o BlocksOf(qs[n + 1])
    BY <1>3, <2>1
  <2> QED
    BY <1>1, <2>1, <2>2
<1> QED
  BY <1>7, <1>8 DEF n, qs, f, g

LEMMA AllBlocksAre == AllBlocks = BlocksUpTo(pieces)[Len(pieces)]
BY Zenon DEF AllBlocks, BlocksUpTo

-----------------------------------------------------------------------------
(* The hash by its definition                                               *)

\* H, H^2, H^3 and so on, as many as there are blocks
PowerLoop(n) ==
    CHOOSE power : power = [k \in 1..n |-> IF k = 1 THEN H ELSE PolyTimes(power[k - 1], H)]

LEMMA PowerLoopIs ==
    ASSUME H \in SUBSET Bit, NEW n \in Nat
    PROVE  \E e \in [0..n -> SUBSET Bit] :
              /\ e[0] = {0}
              /\ \A k \in 1..n : e[k] = Product(e[k - 1], H) /\ PowerLoop(n)[k] = e[k]
<1> DEFINE U == SUBSET Bit
           F == [p \in (1..n) \X U |-> Product(p[2], H)]
           value(v, k) == IF k = 1 THEN H ELSE PolyTimes(v, H)
           Good(f) == f = [k \in 1..n |-> value(f[k - 1], k)]
           g == PowerLoop(n)
<1>1. F \in [(1..n) \X U -> U] /\ {0} \in U
  BY ProductType DEF Bit
<1>2. \A k \in 1..n, v \in U : F[<<k, v>>] = Product(v, H)
  OBVIOUS
<1> HIDE DEF F
<1>3. PICK e \in [0..n -> U] : IsRecursion(e, n, {0}, F)
  <2> HIDE DEF U
  <2> QED
    BY <1>1, RecursiveFunction
<1>4. e[0] = {0} /\ \A k \in 1..n : e[k] = F[<<k, e[k - 1]>>]
  BY <1>3 DEF IsRecursion
<1>5. ASSUME NEW k \in 1..n
      PROVE  e[k] = Product(e[k - 1], H) /\ e[k] \in U /\ e[k - 1] \in U
  <2>1. k - 1 \in 0..n /\ k \in 0..n
    OBVIOUS
  <2>2. e[k - 1] \in U /\ e[k] \in U
    BY <2>1
  <2> HIDE DEF U
  <2> QED
    BY <1>2, <1>4, <2>2
<1>6. ASSUME NEW k \in 1..n PROVE e[k] = value(e[k - 1], k)
  <2>1. CASE k = 1
    <3>1. e[1] = Product({0}, H)
      <4>1. 1 - 1 = 0
        OBVIOUS
      <4> QED
        BY <1>4, <1>5, <2>1, <4>1
    <3>2. Product({0}, H) = H
      BY <1>1, ProductCommutes, ProductWithOne
    <3> QED
      BY <2>1, <3>1, <3>2
  <2>2. CASE k # 1
    <3>1. PolyTimes(e[k - 1], H) = Product(e[k - 1], H)
      BY <1>5, PolyTimesIs
    <3> QED
      BY <1>5, <2>2, <3>1
  <2> QED
    BY <2>1, <2>2
<1> DEFINE c == [k \in 1..n |-> e[k]]
<1>7. Good(c)
  <2> HIDE DEF value
  <2>1. ASSUME NEW k \in 1..n PROVE c[k] = value(c[k - 1], k)
    <3>1. CASE k = 1
      <4>1. value(c[k - 1], k) = value(e[k - 1], k)
        BY <3>1 DEF value
      <4> QED
        BY <1>6, <4>1
    <3>2. CASE k # 1
      <4>1. k - 1 \in 1..n
        BY <3>2
      <4>2. c[k - 1] = e[k - 1]
        BY <4>1
      <4> QED
        BY <1>6, <4>2
    <3> QED
      BY <3>1, <3>2
  <2> DEFINE h == [k \in 1..n |-> value(c[k - 1], k)]
  <2>2. c = [k \in 1..n |-> c[k]] /\ h = [k \in 1..n |-> h[k]]
    OBVIOUS
  <2>3. \A k \in 1..n : c[k] = h[k]
    BY <2>1
  <2>4. c = h
    <3> HIDE DEF c, h
    <3>1. [k \in 1..n |-> c[k]] = [k \in 1..n |-> h[k]]
      BY <2>3
    <3> QED
      BY <2>2, <3>1
  <2> HIDE DEF c
  <2> QED
    BY <2>4, Zenon
<1>8. Good(g)
  <2>1. g = CHOOSE f : Good(f)
    BY Zenon DEF PowerLoop
  <2>2. Good(CHOOSE f : Good(f))
    <3> HIDE DEF Good, g, c
    <3> QED
      BY <1>7
  <2> HIDE DEF Good, g
  <2> QED
    BY <2>1, <2>2
<1>9. ASSUME NEW k \in 1..n PROVE g[k] = value(g[k - 1], k)
  <2> HIDE DEF g, value
  <2> QED
    BY <1>8, Zenon
<1>10. \A k \in 1..n : g[k] = e[k]
  <2> DEFINE T == {k \in 0..n : k # 0 => g[k] = e[k]}
  <2> HIDE DEF g, U
  <2>1. 0 \in T
    OBVIOUS
  <2>2. ASSUME NEW k \in 0..(n - 1), k \in T PROVE k + 1 \in T
    <3>1. k + 1 \in 1..n /\ k + 1 \in 0..n /\ (k + 1) - 1 = k
      OBVIOUS
    <3>2. g[k + 1] = value(g[k], k + 1) /\ e[k + 1] = value(e[k], k + 1)
      <4> HIDE DEF value
      <4>1. g[k + 1] = value(g[(k + 1) - 1], k + 1) /\ e[k + 1] = value(e[(k + 1) - 1], k + 1)
        BY <1>6, <1>9, <3>1
      <4> QED
        BY <3>1, <4>1
    <3>3. g[k + 1] = e[k + 1]
      <4>1. CASE k = 0
        BY <3>2, <4>1
      <4>2. CASE k # 0
        <5>1. g[k] = e[k]
          BY <2>2, <4>2
        <5> HIDE DEF value
        <5> QED
          BY <3>2, <5>1
      <4> QED
        BY <4>1, <4>2
    <3> QED
      BY <3>1, <3>3
  <2> HIDE DEF T
  <2>3. \A k \in 0..n : k \in T
    BY <2>1, <2>2, InductionUpTo
  <2> USE DEF T
  <2>4. \A k \in 1..n : k \in 0..n /\ k # 0
    OBVIOUS
  <2> QED
    BY <2>3, <2>4
<1> QED
  BY <1>3, <1>4, <1>5, <1>10 DEF U

\* The blocks times their powers of H, summed up
SumLoop(bs) ==
    CHOOSE sum : sum = [n \in 0..Len(bs) |->
        IF n = 0 THEN {}
        ELSE xor_128block(sum[n - 1],
                          PolyTimes(Bits(bs[n]), PowerLoop(Len(bs))[Len(bs) - n + 1]))]

\* One multiplication a block is as good as a power for each.
LEMMA SumIsHash ==
    ASSUME H \in SUBSET Bit, NEW bs \in Seq(Block)
    PROVE  SumLoop(bs)[Len(bs)] = Hashed({}, bs)
<1> DEFINE n == Len(bs)
<1>1. n \in Nat /\ {} \in SUBSET Bit
  OBVIOUS
<1>2. PICK e \in [0..n -> SUBSET Bit] :
         /\ e[0] = {0}
         /\ \A k \in 1..n : e[k] = Product(e[k - 1], H) /\ PowerLoop(n)[k] = e[k]
  <2> HIDE DEF n
  <2> QED
    BY <1>1, PowerLoopIs
<1>3. PICK y : IsHash(y, {}, bs)
  BY <1>1, HashExists
<1>4. /\ y \in [0..n -> SUBSET Bit] /\ y[0] = {}
      /\ \A i \in 1..n : y[i] = Product(xor_128block(y[i - 1], Bits(bs[i])), H)
      /\ Hashed({}, bs) = y[n]
  BY <1>1, <1>3, HashedIs DEF IsHash, Hashes
<1> DEFINE term(k) == PolyTimes(Bits(bs[k]), PowerLoop(n)[n - k + 1])
           Good(f) == f = [k \in 0..n |-> IF k = 0 THEN {} ELSE xor_128block(f[k - 1], term(k))]
           f == [k \in 0..n |-> Product(y[k], e[n - k])]
           g == SumLoop(bs)
<1>5. g = CHOOSE r : Good(r)
  BY Zenon DEF SumLoop
<1> HIDE DEF n, g
<1>6. \A k \in 0..n : f[k] = Product(y[k], e[n - k])
  OBVIOUS
<1>7. f[0] = {}
  <2>1. n - 0 = n /\ n \in 0..n /\ 0 \in 0..n
    BY <1>1
  <2>2. e[n] \in SUBSET Bit
    BY <1>2, <2>1
  <2>3. Product({}, e[n]) = {}
    <3>1. Product(e[n], {}) = {}
      <4>1. PartsOf(e[n], xor_128block({}, {}))[128]
            = xor_128block(PartsOf(e[n], {})[128], PartsOf(e[n], {})[128])
        BY PartsOfSum
      <4>2. xor_128block({}, {}) = {} /\ \A P : xor_128block(P, P) = {}
        BY DEF xor_128block
      <4> QED
        BY <4>1, <4>2 DEF Product
    <3>2. {} \in SUBSET Bit
      OBVIOUS
    <3> QED
      BY <2>2, <3>1, <3>2, ProductCommutes
  <2> HIDE DEF f
  <2> QED
    BY <1>4, <1>6, <2>1, <2>3
<1>8. ASSUME NEW k \in 1..n PROVE f[k] = xor_128block(f[k - 1], term(k))
  <2> DEFINE a == y[k - 1]
             b == Bits(bs[k])
             q == e[n - k]
  <2>1. /\ k - 1 \in 0..n /\ k \in 0..n /\ n - k \in 0..n
        /\ n - k + 1 \in 1..n /\ n - (k - 1) = n - k + 1 /\ (n - k + 1) - 1 = n - k
    BY <1>1
  <2>2. a \in SUBSET Bit /\ b \in SUBSET Bit /\ q \in SUBSET Bit /\ e[n - k + 1] \in SUBSET Bit
    <3>1. n - k + 1 \in 0..n
      BY <1>1
    <3> QED
      BY <1>2, <1>4, <2>1, <3>1, BitsType
  <2>3. e[n - k + 1] = Product(q, H) /\ PowerLoop(n)[n - k + 1] = e[n - k + 1]
    BY <1>2, <2>1
  <2>4. y[k] = Product(xor_128block(a, b), H)
    BY <1>4
  <2>5. f[k] = Product(y[k], q) /\ f[k - 1] = Product(a, e[n - k + 1])
    BY <1>6, <2>1
  <2> HIDE DEF a, b, q, f
  <2>6. term(k) = Product(b, e[n - k + 1])
    <3>1. term(k) = PolyTimes(b, e[n - k + 1])
      BY <2>3 DEF b
    <3> HIDE DEF term
    <3> QED
      BY <2>2, <3>1, PolyTimesIs
  <2> HIDE DEF term
  <2>7. e[n - k + 1] = Product(H, q)
    BY <2>2, <2>3, ProductCommutes
  <2>8. xor_128block(a, b) \in SUBSET Bit
    BY <2>2, SumOf
  <2>9. Product(y[k], q) = Product(xor_128block(a, b), Product(H, q))
    <3> DEFINE x == xor_128block(a, b)
    <3>1. x \in SUBSET Bit
      BY <2>8
    <3> HIDE DEF x
    <3>2. Product(Product(x, H), q) = Product(x, Product(H, q))
      BY <2>2, <3>1, ProductAssociates
    <3> QED
      BY <2>4, <3>2 DEF x
  <2>10. Product(xor_128block(a, b), e[n - k + 1])
         = xor_128block(Product(a, e[n - k + 1]), Product(b, e[n - k + 1]))
    <3> DEFINE r == e[n - k + 1]
    <3>1. r \in SUBSET Bit
      BY <2>2
    <3> HIDE DEF r
    <3>2. Product(xor_128block(a, b), r) = xor_128block(Product(a, r), Product(b, r))
      BY <2>2, <3>1, ProductOfSum
    <3> QED
      BY <3>2 DEF r
  <2> QED
    BY <2>5, <2>6, <2>7, <2>9, <2>10
<1> HIDE DEF term
<1>9. Good(f)
  <2> DEFINE h == [k \in 0..n |-> IF k = 0 THEN {} ELSE xor_128block(f[k - 1], term(k))]
  <2>1. \A k \in 0..n : f[k] = h[k]
    <3> HIDE DEF f
    <3>1. \A k \in 0..n : k = 0 \/ k \in 1..n
      BY <1>1
    <3> QED
      BY <1>7, <1>8, <3>1
  <2>2. f = [k \in 0..n |-> f[k]] /\ h = [k \in 0..n |-> h[k]]
    OBVIOUS
  <2>3. f = h
    <3> HIDE DEF f, h
    <3>1. [k \in 0..n |-> f[k]] = [k \in 0..n |-> h[k]]
      BY <2>1
    <3> QED
      BY <2>2, <3>1
  <2> HIDE DEF f
  <2> QED
    BY <2>3, Zenon
<1>10. Good(g)
  <2>1. Good(CHOOSE r : Good(r))
    <3> HIDE DEF Good, f
    <3> QED
      BY <1>9
  <2> HIDE DEF Good
  <2> QED
    BY <1>5, <2>1
<1>11. ASSUME NEW k \in 0..n PROVE g[k] = IF k = 0 THEN {} ELSE xor_128block(g[k - 1], term(k))
  BY <1>10, Zenon
<1> HIDE DEF f, Good
<1>12. \A k \in 0..n : g[k] = f[k]
  <2> DEFINE T == {k \in 0..n : g[k] = f[k]}
  <2>1. 0 \in T
    <3>1. 0 \in 0..n
      BY <1>1
    <3>2. g[0] = {}
      BY <1>11, <3>1
    <3> QED
      BY <1>7, <3>1, <3>2
  <2>2. ASSUME NEW k \in 0..(n - 1), k \in T PROVE k + 1 \in T
    <3>1. /\ k + 1 \in 1..n /\ k + 1 \in 0..n /\ k + 1 # 0 /\ (k + 1) - 1 = k
      BY <1>1
    <3>2. g[k + 1] = xor_128block(g[(k + 1) - 1], term(k + 1))
      BY <1>11, <3>1
    <3>3. f[k + 1] = xor_128block(f[(k + 1) - 1], term(k + 1))
      BY <1>8, <3>1
    <3>4. g[k] = f[k]
      BY <2>2
    <3>5. g[k + 1] = f[k + 1]
      BY <3>1, <3>2, <3>3, <3>4
    <3> QED
      BY <3>1, <3>5
  <2> HIDE DEF T
  <2>3. \A k \in 0..n : k \in T
    BY <1>1, <2>1, <2>2, InductionUpTo
  <2> QED
    BY <2>3 DEF T
<1>13. f[n] = y[n]
  <2>1. n \in 0..n /\ n - n = 0
    BY <1>1
  <2>2. f[n] = Product(y[n], {0}) /\ y[n] \in SUBSET Bit
    BY <1>2, <1>4, <1>6, <2>1
  <2> QED
    BY <2>2, ProductWithOne
<1>14. g[n] = y[n]
  <2>1. n \in 0..n
    BY <1>1
  <2> QED
    BY <1>12, <1>13, <2>1
<1> QED
  BY <1>4, <1>14 DEF n, g

\* What the definition says of the hash is that it hashes all the blocks.
LEMMA HashIsSumIs ==
    ASSUME H \in SUBSET Bit, pieces \in Seq(Seq(Byte)), S = Hashed({}, AllBlocks)
    PROVE  HashIsSum
<1>1. AllBlocks \in Seq(Block)
  <2>1. Len(pieces) \in 0..Len(pieces)
    OBVIOUS
  <2> QED
    BY <2>1, AllBlocksAre, BlocksUpToAre
<1>2. S = SumLoop(AllBlocks)[Len(AllBlocks)]
  BY <1>1, SumIsHash
<1> QED
  BY <1>2, Zenon DEF HashIsSum, SumLoop, PowerLoop
-----------------------------------------------------------------------------
(* The hash in a run                                                        *)

\* S is the hash of all the blocks of all the pieces.
HashRight == stage = "hashing" => S = Hashed({}, AllBlocks)

LEMMA HashTyped ==
    ASSUME TypeOK, UNCHANGED <<secret, type, keys, unwritten, input, matrix4x4, done, trace>>,
           stage' = "hashing", H' \in SUBSET Bit, S' \in SUBSET Bit, pieces' \in Seq(Pieces)
    PROVE  TypeOK'
<1>1. Round' = Round /\ arrayLength' = arrayLength
  BY DEF Round, arrayLength
<1> QED
  BY <1>1 DEF TypeOK, Usable, Bit

\* What the hash is made of.
LEMMA PiecesType ==
    ASSUME TypeOK
    PROVE  /\ H \in SUBSET Bit /\ S \in SUBSET Bit
           /\ pieces \in Seq(Pieces) /\ pieces \in Seq(Seq(Byte))
<1>1. pieces \in Seq(Pieces) /\ Pieces \subseteq Seq(Byte)
  BY InputsAssumption DEF TypeOK
<1>2. pieces \in Seq(Seq(Byte))
  BY <1>1
<1> QED
  BY <1>1, <1>2 DEF TypeOK, Bit

\* Of no blocks, the hash is where it began.
LEMMA HashedNothing == H \in SUBSET Bit => Hashed({}, <<>>) = {}
<1> SUFFICES ASSUME H \in SUBSET Bit PROVE Hashed({}, <<>>) = {}
  OBVIOUS
<1>1. Len(<<>>) = 0 /\ {} \in SUBSET Bit
  OBVIOUS
<1>2. PICK y : IsHash(y, {}, <<>>)
  BY <1>1, HashExists
<1>3. Hashed({}, <<>>) = y[Len(<<>>)]
  BY <1>1, <1>2, HashedIs
<1> QED
  BY <1>1, <1>2, <1>3 DEF IsHash, Hashes

LEMMA HashBeginsKeepsInv ==
    ASSUME Inv, HashBegins
    PROVE  Inv' /\ HashRight'
<1>1. /\ stage = "sealed" /\ stage' = "hashing"
      /\ H' = Bits(char2matrix(matrix4x4)) /\ S' = {} /\ pieces' = <<>>
      /\ UNCHANGED <<secret, type, keys, unwritten, input, matrix4x4, done, trace>>
  BY DEF HashBegins
<1>2. H' \in SUBSET Bit /\ S' \in SUBSET Bit /\ pieces' \in Seq(Pieces)
  BY <1>1, BitsType
<1>3. TypeOK'
  BY <1>1, <1>2, HashTyped DEF Inv
<1>4. KeysRight'
  BY <1>1, KeysStay
<1>5. TraceRight'
  BY <1>1, TraceStays
<1>6. WayBack'
  BY <1>1 DEF WayBack
<1>7. AllBlocks' = <<>>
  <2>1. Len(pieces') = 0 /\ pieces' \in Seq(Seq(Byte))
    BY <1>1
  <2>2. AllBlocks' = BlocksUpTo(pieces')[Len(pieces')]
    BY Zenon DEF AllBlocks, BlocksUpTo
  <2>3. BlocksUpTo(pieces')[0] = <<>>
    BY <2>1, BlocksUpToAre
  <2> QED
    BY <2>1, <2>2, <2>3
<1>8. HashRight'
  <2>1. (H \in SUBSET Bit)' => (Hashed({}, <<>>) = {})'
    BY HashedNothing, PTL
  <2>2. Hashed({}, <<>>)' = {}
    BY <1>2, <2>1
  <2>3. Hashed({}, AllBlocks)' = Hashed({}, <<>>)'
    BY <1>7 DEF Hashed
  <2> QED
    BY <1>1, <2>2, <2>3 DEF HashRight
<1> QED
  BY <1>3, <1>4, <1>5, <1>6, <1>8 DEF Inv

LEMMA HashKeepsInv ==
    ASSUME Inv, HashRight, NEW x \in Pieces, Hash(x)
    PROVE  Inv' /\ HashRight'
<1> DEFINE bs == AllBlocks
           cs == BlocksOf(x)
<1>1. /\ stage = "hashing" /\ stage' = "hashing"
      /\ S' = Hashed(S, cs) /\ pieces' = Append(pieces, x)
      /\ UNCHANGED <<secret, type, keys, unwritten, input, matrix4x4, done, trace, H>>
  BY DEF Hash, cipher
<1>2. /\ H \in SUBSET Bit /\ S \in SUBSET Bit
      /\ pieces \in Seq(Pieces) /\ pieces \in Seq(Seq(Byte)) /\ x \in Seq(Byte)
  BY InputsAssumption, PiecesType DEF Inv
<1>3. cs \in Seq(Block)
  BY <1>2, BlocksOfType
<1>4. bs \in Seq(Block) /\ AllBlocks' = bs \o cs
  <2>1. bs = BlocksUpTo(pieces)[Len(pieces)]
    BY AllBlocksAre
  <2>2. AllBlocks' = BlocksUpTo(pieces')[Len(pieces')]
    BY Zenon DEF AllBlocks, BlocksUpTo
  <2>3. Len(pieces') = Len(pieces) + 1
    BY <1>1, <1>2
  <2> HIDE DEF bs, cs
  <2>4. bs \in Seq(Block) /\ BlocksUpTo(Append(pieces, x))[Len(pieces) + 1] = bs \o cs
    BY <1>2, <2>1, BlocksAppended DEF cs
  <2> QED
    BY <1>1, <2>2, <2>3, <2>4
<1>5. S = Hashed({}, bs)
  BY <1>1 DEF HashRight
<1> HIDE DEF bs, cs
<1>6. S' \in SUBSET Bit /\ S' = Hashed({}, bs \o cs)
  <2>1. {} \in SUBSET Bit
    OBVIOUS
  <2>2. Hashed(Hashed({}, bs), cs) = Hashed({}, bs \o cs)
    BY <1>2, <1>3, <1>4, <2>1, HashedGoesOn
  <2>3. Hashed(S, cs) \in SUBSET Bit
    BY <1>2, <1>3, HashedGoesOn
  <2> QED
    BY <1>1, <1>5, <2>2, <2>3
<1>7. TypeOK'
  <2>1. pieces' \in Seq(Pieces)
    BY <1>1, <1>2
  <2> QED
    BY <1>1, <1>2, <1>6, <2>1, HashTyped DEF Inv
<1>8. KeysRight'
  BY <1>1, KeysStay
<1>9. TraceRight'
  BY <1>1, TraceStays
<1>10. WayBack'
  BY <1>1 DEF WayBack
<1>11. HashRight'
  <2>1. \A v : Hashed({}, v)' = Hashed({}, v)
    BY <1>1 DEF Hashed
  <2> QED
    BY <1>4, <1>6, <2>1 DEF HashRight
<1> QED
  BY <1>7, <1>8, <1>9, <1>10, <1>11 DEF Inv

-----------------------------------------------------------------------------
(* The theorems                                                             *)

LEMMA NextKeepsInv ==
    ASSUME Inv, HashRight, [Next]_vars
    PROVE  Inv' /\ HashRight'
<1>1. CASE \E s \in Side : KeyStep(s)
  <2>1. stage' = "keys"
    BY <1>1 DEF KeyStep, FromLength, FromPointer, FromBtring, Construct, ExpandKey, ReverseKey,
                InConstructor, Inv, KeysRight, Usable, cipher
  <2> QED
    BY <1>1, <2>1, KeyStepKeepsInv DEF HashRight
<1>2. CASE \E b \in Blocks : EncryptBegins(b)
  BY <1>2, EncryptBeginsKeepsInv DEF HashRight, EncryptBegins
<1>3. CASE EncryptRound \/ EncryptEnds
  BY <1>3, EncryptStepKeepsInv DEF HashRight, EncryptRound, EncryptEnds
<1>4. CASE DecryptBegins
  BY <1>4, DecryptBeginsKeepsInv DEF HashRight, DecryptBegins
<1>5. CASE DecryptRound \/ DecryptEnds
  BY <1>5, DecryptStepKeepsInv DEF HashRight, DecryptRound, DecryptEnds
<1>6. CASE HashBegins
  BY <1>6, HashBeginsKeepsInv
<1>7. CASE \E x \in Pieces : Hash(x)
  BY <1>7, HashKeepsInv
<1>8. CASE UNCHANGED vars
  <2>1. UNCHANGED <<secret, type, keys, unwritten, stage, input, matrix4x4, done, trace, H, S, pieces>>
    BY <1>8 DEF vars, cipher, ghash
  <2>2. TypeOK'
    <3>1. Round' = Round /\ arrayLength' = arrayLength
      BY <2>1 DEF Round, arrayLength
    <3> QED
      BY <2>1, <3>1 DEF Inv, TypeOK, Usable
  <2>3. KeysRight'
    <3>1. /\ \A x : FirstWords(x)' = FirstWords(x)
          /\ \A g, i : WordAfter(g, i)' = WordAfter(g, i)
          /\ arrayLength' = arrayLength /\ \A g : Reversed(g)' = Reversed(g)
      BY <2>1 DEF FirstWords, Taken, Words, WordAfter, arrayLength, Round, Reversed
    <3>2. \A s \in Side : KeyRight(s)
      BY DEF Inv, KeysRight
    <3>3. \A s \in Side : KeyRight(s)'
      BY <2>1, <3>1, <3>2 DEF KeyRight, IsSchedule
    <3>4. stage' # "keys" => \A s \in Side : Usable(s)'
      BY <2>1 DEF Inv, KeysRight, Usable
    <3> QED
      BY <3>3, <3>4 DEF KeysRight
  <2>4. TraceRight' /\ WayBack'
    <3>1. TraceRight /\ WayBack
      BY DEF Inv
    <3>2. Round' = Round
      BY <2>1 DEF Round
    <3>3. \A m, e, j : Encrypted(m, e, j)' = Encrypted(m, e, j)
      BY <3>2 DEF Encrypted
    <3>4. TraceRight'
      BY <2>1, <3>1, <3>2, <3>3 DEF TraceRight
    <3>5. WayBack'
      BY <2>1, <3>1, <3>2 DEF WayBack
    <3> QED
      BY <3>4, <3>5
  <2>5. HashRight'
    <3>1. AllBlocks' = AllBlocks
      BY <2>1 DEF AllBlocks
    <3>2. \A v : Hashed({}, v)' = Hashed({}, v)
      BY <2>1 DEF Hashed
    <3> QED
      BY <2>1, <3>1, <3>2 DEF HashRight
  <2> QED
    BY <2>2, <2>3, <2>4, <2>5 DEF Inv
<1> QED
  BY <1>1, <1>2, <1>3, <1>4, <1>5, <1>6, <1>7, <1>8 DEF Next, Finished

\* Keys, trace and hash are right in every state that a run reaches.
THEOREM Invariant == Spec => [](Inv /\ HashRight)
<1>1. Init => Inv /\ HashRight
  <2>1. Init => HashRight
    BY DEF Init, HashRight
  <2> QED
    BY <2>1, InitInv
<1>2. Inv /\ HashRight /\ [Next]_vars => (Inv /\ HashRight)'
  BY NextKeepsInv
<1> QED
  BY <1>1, <1>2, PTL DEF Spec

(***************************************************************************)
(* The block and both schedules keep their sizes, and with equal keys      *)
(* decrypt_block goes back the way encrypt_block came, half a round after  *)
(* the other, whatever the block and the key (aes.cpp:318-357).            *)
(***************************************************************************)
THEOREM BlocksGoBack == Spec => []RoundsUndone
<1>1. Inv => RoundsUndone
  BY DEF Inv, RoundsUndone, WayBack, DecryptRetraces
<1> QED
  BY <1>1, Invariant, PTL

(***************************************************************************)
(* Two keys made from the same bytes, whichever of the three constructors  *)
(* of AesKey made each, open what the other has sealed, provided that no   *)
(* btring was too short for its key (aes.cpp:5-118).                       *)
(***************************************************************************)
THEOREM SealedIsOpened == Spec => []OpensAgain
<1>1. Inv => OpensAgain
  BY EqualKeys DEF Inv, WayBack, OpensAgain
<1> QED
  BY <1>1, Invariant, PTL

(***************************************************************************)
(* ghash(), one bit and one call after the other, is the sum of the blocks *)
(* times powers of H, as polynomials modulo x^128 + x^7 + x^2 + x + 1,     *)
(* for every H and all texts (aes.h:56-118, aes.cpp:372-445).              *)
(***************************************************************************)
THEOREM HashIsPolynomial == Spec => []HashIsSum
<1>1. Inv /\ HashRight => HashIsSum
  <2> SUFFICES ASSUME Inv, HashRight, stage = "hashing" PROVE HashIsSum
    BY Zenon DEF HashIsSum
  <2>1. H \in SUBSET Bit /\ pieces \in Seq(Seq(Byte))
    BY PiecesType DEF Inv
  <2>2. S = Hashed({}, AllBlocks)
    BY DEF HashRight
  <2> QED
    BY <2>1, <2>2, HashIsSumIs
<1> QED
  BY <1>1, Invariant, PTL

-----------------------------------------------------------------------------
(* The state of FIPS 197: byte 4 * c + r + 1 is row r of column c           *)

\* The order of the two middle summands and the last one does not matter.
LEMMA Sum4Swaps ==
    ASSUME NEW a \in Byte, NEW b \in Byte, NEW c \in Byte, NEW d \in Byte
    PROVE  Sum4(a, b, c, d) = Sum4(a, d, c, b)
<1>1. Sum4(a, b, c, d) = Plus(Plus(a, b), Plus(c, d))
  BY Sum4Is
<1>2. Sum4(a, d, c, b) = Plus(Plus(a, d), Plus(c, b))
  BY Sum4Is
<1>3. Plus(Plus(a, b), Plus(d, c)) = Plus(Plus(a, d), Plus(b, c))
  BY SumsSwap
<1>4. Plus(d, c) = Plus(c, d) /\ Plus(b, c) = Plus(c, b)
  BY PlusCommutes
<1> QED
  BY <1>1, <1>2, <1>3, <1>4, Zenon

\* The matrix is the state with rows and columns exchanged.
LEMMA StateAt ==
    ASSUME NEW m, NEW r \in 0..3, NEW c \in 0..3
    PROVE  char2matrix(m)[4 * c + r + 1] = m[4 * r + c + 1]
<1> DEFINE i == 4 * c + r + 1
<1>1. i \in 1..16 /\ 4 * ((i - 1) % 4) + ((i - 1) \div 4) + 1 = 4 * r + c + 1
  OBVIOUS
<1>2. char2matrix(m)[i] = m[4 * ((i - 1) % 4) + ((i - 1) \div 4) + 1]
  <2> HIDE DEF i
  <2> QED
    BY <1>1 DEF char2matrix
<1> QED
  BY <1>1, <1>2

\* Where a byte of the state is.
LEMMA Coordinates ==
    ASSUME NEW r \in 0..3, NEW c \in 0..3
    PROVE  /\ 4 * c + r + 1 \in 1..16
           /\ Standard!Row(4 * c + r + 1) = r /\ Standard!Col(4 * c + r + 1) = c
<1>1. 4 * c + r + 1 \in 1..16 /\ (4 * c + r + 1 - 1) % 4 = r /\ (4 * c + r + 1 - 1) \div 4 = c
  OBVIOUS
<1> QED
  BY <1>1 DEF Standard!Row, Standard!Col

\* States are equal when all their rows and columns are.
LEMMA SameState ==
    ASSUME NEW f, NEW g, f = [i \in 1..16 |-> f[i]], g = [i \in 1..16 |-> g[i]],
           \A r, c \in 0..3 : f[4 * c + r + 1] = g[4 * c + r + 1]
    PROVE  f = g
<1>1. ASSUME NEW i \in 1..16 PROVE f[i] = g[i]
  <2>1. /\ (i - 1) % 4 \in 0..3 /\ (i - 1) \div 4 \in 0..3
        /\ 4 * ((i - 1) \div 4) + ((i - 1) % 4) + 1 = i
    OBVIOUS
  <2> DEFINE r == (i - 1) % 4
             c == (i - 1) \div 4
  <2>2. r \in 0..3 /\ c \in 0..3 /\ 4 * c + r + 1 = i
    BY <2>1
  <2> HIDE DEF r, c
  <2>3. f[4 * c + r + 1] = g[4 * c + r + 1]
    BY <2>2
  <2> QED
    BY <2>2, <2>3
<1>2. [i \in 1..16 |-> f[i]] = [i \in 1..16 |-> g[i]]
  BY <1>1
<1> QED
  BY <1>2

LEMMA StandardBoxes ==
    ASSUME NEW m
    PROVE  /\ Standard!SubBytes(char2matrix(m)) = char2matrix(subbytes(m))
           /\ Standard!InvSubBytes(char2matrix(m)) = char2matrix(invsubbytes(m))
<1>1. SBox = aes_s_box /\ InvSBox = aes_inv_s_box
  BY StandardAssumption DEF TablesStandard
<1>2. \A i \in 1..16 : 4 * ((i - 1) % 4) + ((i - 1) \div 4) + 1 \in 1..16
  OBVIOUS
<1>3. /\ Standard!SubBytes(char2matrix(m)) = [i \in 1..16 |-> aes_s_box[char2matrix(m)[i]]]
      /\ Standard!InvSubBytes(char2matrix(m)) = [i \in 1..16 |-> aes_inv_s_box[char2matrix(m)[i]]]
  BY <1>1 DEF Standard!SubBytes, Standard!InvSubBytes
<1> QED
  BY <1>2, <1>3 DEF char2matrix, subbytes, invsubbytes

LEMMA StandardRows ==
    ASSUME NEW m
    PROVE  /\ Standard!ShiftRows(char2matrix(m)) = char2matrix(shiftrows(m))
           /\ Standard!InvShiftRows(char2matrix(m)) = char2matrix(invshiftrows(m))
<1> DEFINE s == char2matrix(m)
<1>1. ASSUME NEW r \in 0..3, NEW c \in 0..3
      PROVE  /\ Standard!ShiftRows(s)[4 * c + r + 1] = m[4 * r + ((c + r) % 4) + 1]
             /\ Standard!InvShiftRows(s)[4 * c + r + 1] = m[4 * r + ((c - r) % 4) + 1]
  <2>1. (c + r) % 4 \in 0..3 /\ (c - r) % 4 \in 0..3
    OBVIOUS
  <2>2. s[4 * ((c + r) % 4) + r + 1] = m[4 * r + ((c + r) % 4) + 1]
    BY <2>1, StateAt
  <2>3. s[4 * ((c - r) % 4) + r + 1] = m[4 * r + ((c - r) % 4) + 1]
    BY <2>1, StateAt
  <2> HIDE DEF s
  <2> DEFINE i == 4 * c + r + 1
  <2>4. i \in 1..16 /\ Standard!Row(i) = r /\ Standard!Col(i) = c
    BY Coordinates
  <2> HIDE DEF i
  <2>5. /\ Standard!ShiftRows(s)[i] = s[4 * ((c + r) % 4) + r + 1]
        /\ Standard!InvShiftRows(s)[i] = s[4 * ((c - r) % 4) + r + 1]
    BY <2>4 DEF Standard!ShiftRows, Standard!InvShiftRows, Standard!At
  <2> QED
    BY <2>2, <2>3, <2>5 DEF i
<1>2. ASSUME NEW r \in 0..3, NEW c \in 0..3
      PROVE  /\ shiftrows(m)[4 * r + c + 1] = m[4 * r + ((c + r) % 4) + 1]
             /\ invshiftrows(m)[4 * r + c + 1] = m[4 * r + ((c - r) % 4) + 1]
  <2> DEFINE k == 4 * r + c + 1
             there == <<0, 1, 2, 3>>
             back == <<0, 3, 2, 1>>
  <2>1. /\ k \in 1..16 /\ (k - 1) \div 4 = r
        /\ (k - 1 + there[r + 1]) % 4 = (c + r) % 4
        /\ (k - 1 + back[r + 1]) % 4 = (c - r) % 4
    <3>1. r = 0 \/ r = 1 \/ r = 2 \/ r = 3
      OBVIOUS
    <3> QED
      BY <3>1
  <2> HIDE DEF k, there, back
  <2>2. /\ shiftrows(m)[k] = m[4 * ((k - 1) \div 4) + ((k - 1 + there[((k - 1) \div 4) + 1]) % 4) + 1]
        /\ invshiftrows(m)[k] = m[4 * ((k - 1) \div 4) + ((k - 1 + back[((k - 1) \div 4) + 1]) % 4) + 1]
    BY <2>1 DEF shiftrows, invshiftrows, Rotated, there, back
  <2> QED
    BY <2>1, <2>2 DEF k
<1>3. \A r, c \in 0..3 :
         /\ Standard!ShiftRows(s)[4 * c + r + 1] = char2matrix(shiftrows(m))[4 * c + r + 1]
         /\ Standard!InvShiftRows(s)[4 * c + r + 1] = char2matrix(invshiftrows(m))[4 * c + r + 1]
  BY <1>1, <1>2, StateAt
<1> HIDE DEF s
<1> DEFINE a == Standard!ShiftRows(s)
           b == Standard!InvShiftRows(s)
           p == char2matrix(shiftrows(m))
           q == char2matrix(invshiftrows(m))
<1>4. /\ a = [i \in 1..16 |-> a[i]] /\ b = [i \in 1..16 |-> b[i]]
      /\ p = [i \in 1..16 |-> p[i]] /\ q = [i \in 1..16 |-> q[i]]
  BY DEF Standard!ShiftRows, Standard!InvShiftRows, char2matrix
<1>5. \A r, c \in 0..3 : a[4 * c + r + 1] = p[4 * c + r + 1] /\ b[4 * c + r + 1] = q[4 * c + r + 1]
  BY <1>3
<1> HIDE DEF a, b, p, q
<1>6. a = p
  BY <1>4, <1>5, SameState
<1>7. b = q
  BY <1>4, <1>5, SameState
<1> QED
  BY <1>6, <1>7 DEF a, b, p, q, s

\* The bytes of a mixed column, one by one
LEMMA MixedBytes ==
    ASSUME NEW a, NEW r \in 1..4, NEW x, NEW y, NEW z, NEW t,
           r = 1 => x = a[1] /\ y = a[4] /\ z = a[3] /\ t = a[2],
           r = 2 => x = a[2] /\ y = a[1] /\ z = a[4] /\ t = a[3],
           r = 3 => x = a[3] /\ y = a[2] /\ z = a[1] /\ t = a[4],
           r = 4 => x = a[4] /\ y = a[3] /\ z = a[2] /\ t = a[1]
    PROVE  /\ MixedColumn(a)[r] = Sum4(gm_2[x], gm_3[t], z, y)
           /\ UnmixedColumn(a)[r] = Sum4(gm_E[x], gm_B[t], gm_D[z], gm_9[y])
<1> DEFINE b == Turned(a)
           c == Turned(b)
           d == Turned(c)
<1>1. /\ b[1] = a[2] /\ b[2] = a[3] /\ b[3] = a[4] /\ b[4] = a[1]
      /\ \A v : /\ Turned(v)[1] = v[2] /\ Turned(v)[2] = v[3]
                /\ Turned(v)[3] = v[4] /\ Turned(v)[4] = v[1]
  BY DEF Turned
<1> HIDE DEF b
<1>2. c[1] = a[3] /\ c[2] = a[4] /\ c[3] = a[1] /\ c[4] = a[2]
  BY <1>1
<1> HIDE DEF c
<1>3. d[1] = a[4] /\ d[2] = a[1] /\ d[3] = a[2] /\ d[4] = a[3]
  BY <1>1, <1>2
<1> HIDE DEF d
<1>4. /\ MixedColumn(a)[1] = MixedTop(a) /\ MixedColumn(a)[2] = MixedTop(b)
      /\ MixedColumn(a)[3] = MixedTop(c) /\ MixedColumn(a)[4] = MixedTop(d)
  BY DEF MixedColumn, b, c, d
<1>5. /\ UnmixedColumn(a)[1] = UnmixedTop(a) /\ UnmixedColumn(a)[2] = UnmixedTop(b)
      /\ UnmixedColumn(a)[3] = UnmixedTop(c) /\ UnmixedColumn(a)[4] = UnmixedTop(d)
  BY DEF UnmixedColumn, b, c, d
<1>6. r = 1 \/ r = 2 \/ r = 3 \/ r = 4
  OBVIOUS
<1> QED
  BY <1>1, <1>2, <1>3, <1>4, <1>5, <1>6 DEF MixedTop, UnmixedTop

LEMMA StandardColumns ==
    ASSUME NEW m \in Block
    PROVE  /\ Standard!MixColumns(char2matrix(m)) = char2matrix(mixcolumns(m))
           /\ Standard!InvMixColumns(char2matrix(m)) = char2matrix(invmixcolumns(m))
<1> DEFINE s == char2matrix(m)
<1>1. /\ \A x \in Byte : Multiples[1][x] = x
      /\ Multiples[2] = gm_2 /\ Multiples[3] = gm_3 /\ Multiples[9] = gm_9
      /\ Multiples[11] = gm_B /\ Multiples[13] = gm_D /\ Multiples[14] = gm_E
  BY StandardAssumption DEF TablesStandard
<1>2. ASSUME NEW r \in 0..3, NEW c \in 0..3
      PROVE  /\ Standard!MixColumns(s)[4 * c + r + 1] = mixcolumns(m)[4 * r + c + 1]
             /\ Standard!InvMixColumns(s)[4 * c + r + 1] = invmixcolumns(m)[4 * r + c + 1]
  <2> DEFINE a == ColumnOf(m, c + 1)
             x == a[r + 1]
             y == a[((r - 1) % 4) + 1]
             z == a[((r - 2) % 4) + 1]
             t == a[((r - 3) % 4) + 1]
             i == 4 * c + r + 1
             k == 4 * r + c + 1
  <2>1. a \in Word /\ x \in Byte /\ y \in Byte /\ z \in Byte /\ t \in Byte
    <3>1. c + 1 \in 1..4
      OBVIOUS
    <3>2. a \in Word
      BY <3>1, ColumnOfType
    <3> HIDE DEF a
    <3>3. /\ r + 1 \in 1..4 /\ ((r - 1) % 4) + 1 \in 1..4
          /\ ((r - 2) % 4) + 1 \in 1..4 /\ ((r - 3) % 4) + 1 \in 1..4
      OBVIOUS
    <3> QED
      BY <3>2, <3>3 DEF Word
  <2>2. ASSUME NEW q \in 0..3 PROVE s[4 * c + q + 1] = a[q + 1]
    <3>1. s[4 * c + q + 1] = m[4 * q + c + 1]
      BY StateAt
    <3>2. q + 1 \in 1..4 /\ 4 * ((q + 1) - 1) + (c + 1) = 4 * q + c + 1
      OBVIOUS
    <3>3. a[q + 1] = m[4 * ((q + 1) - 1) + (c + 1)]
      BY <3>2 DEF ColumnOf
    <3> QED
      BY <3>1, <3>2, <3>3
  <2>3. /\ s[4 * c + ((r - 0) % 4) + 1] = x /\ s[4 * c + ((r - 1) % 4) + 1] = y
        /\ s[4 * c + ((r - 2) % 4) + 1] = z /\ s[4 * c + ((r - 3) % 4) + 1] = t
    <3>1. /\ (r - 0) % 4 = r /\ (r - 1) % 4 \in 0..3 /\ (r - 2) % 4 \in 0..3 /\ (r - 3) % 4 \in 0..3
      OBVIOUS
    <3> HIDE DEF a, s
    <3> QED
      BY <2>2, <3>1
  <2>4. i \in 1..16 /\ Standard!Row(i) = r /\ Standard!Col(i) = c
    BY Coordinates
  <2>5. /\ k \in 1..16 /\ ((k - 1) % 4) + 1 = c + 1 /\ ((k - 1) \div 4) + 1 = r + 1
    OBVIOUS
  <2>6. mixcolumns(m)[k] = MixedColumn(a)[r + 1] /\ invmixcolumns(m)[k] = UnmixedColumn(a)[r + 1]
    <3> HIDE DEF k
    <3>1. /\ mixcolumns(m)[k] = MixedColumn(ColumnOf(m, ((k - 1) % 4) + 1))[((k - 1) \div 4) + 1]
          /\ invmixcolumns(m)[k] = UnmixedColumn(ColumnOf(m, ((k - 1) % 4) + 1))[((k - 1) \div 4) + 1]
      BY <2>5, MixIs
    <3> QED
      BY <2>5, <3>1
  <2>7. /\ MixedColumn(a)[r + 1] = Sum4(gm_2[x], gm_3[t], z, y)
        /\ UnmixedColumn(a)[r + 1] = Sum4(gm_E[x], gm_B[t], gm_D[z], gm_9[y])
    <3> HIDE DEF a
    <3>1. /\ r = 0 => x = a[1] /\ y = a[4] /\ z = a[3] /\ t = a[2]
          /\ r = 1 => x = a[2] /\ y = a[1] /\ z = a[4] /\ t = a[3]
          /\ r = 2 => x = a[3] /\ y = a[2] /\ z = a[1] /\ t = a[4]
          /\ r = 3 => x = a[4] /\ y = a[3] /\ z = a[2] /\ t = a[1]
      OBVIOUS
    <3> HIDE DEF x, y, z, t
    <3>2. r + 1 \in 1..4
      OBVIOUS
    <3> QED
      BY <3>1, <3>2, MixedBytes
  <2> HIDE DEF a, x, y, z, t, i, k, s
  <2>8. Standard!MixColumns(s)[i] = Sum4(gm_2[x], y, z, gm_3[t])
    <3>1. Standard!MixColumns(s)[i]
          = Plus(Plus(Multiples[2][x], Multiples[1][y]), Plus(Multiples[1][z], Multiples[3][t]))
      <4> DEFINE p == <<2, 1, 1, 3>>
      <4>1. p[0 + 1] = 2 /\ p[1 + 1] = 1 /\ p[2 + 1] = 1 /\ p[3 + 1] = 3
        OBVIOUS
      <4> HIDE DEF p
      <4>2. Standard!MixColumns(s)[i]
            = Plus(Plus(Multiples[p[0 + 1]][x], Multiples[p[1 + 1]][y]),
                   Plus(Multiples[p[2 + 1]][z], Multiples[p[3 + 1]][t]))
        BY <2>3, <2>4 DEF Standard!MixColumns, Standard!Mixed, Standard!At, p
      <4> QED
        BY <4>1, <4>2, Zenon
    <3> QED
      BY <1>1, <2>1, <3>1, Sum4Is
  <2>9. Standard!InvMixColumns(s)[i] = Sum4(gm_E[x], gm_9[y], gm_D[z], gm_B[t])
    <3>1. Standard!InvMixColumns(s)[i]
          = Plus(Plus(Multiples[14][x], Multiples[9][y]), Plus(Multiples[13][z], Multiples[11][t]))
      <4> DEFINE p == <<14, 9, 13, 11>>
      <4>1. p[0 + 1] = 14 /\ p[1 + 1] = 9 /\ p[2 + 1] = 13 /\ p[3 + 1] = 11
        OBVIOUS
      <4> HIDE DEF p
      <4>2. Standard!InvMixColumns(s)[i]
            = Plus(Plus(Multiples[p[0 + 1]][x], Multiples[p[1 + 1]][y]),
                   Plus(Multiples[p[2 + 1]][z], Multiples[p[3 + 1]][t]))
        BY <2>3, <2>4 DEF Standard!InvMixColumns, Standard!Mixed, Standard!At, p
      <4> QED
        BY <4>1, <4>2, Zenon
    <3> QED
      BY <1>1, <3>1, Sum4Is
  <2>10. Sum4(gm_2[x], y, z, gm_3[t]) = Sum4(gm_2[x], gm_3[t], z, y)
    BY <2>1, LinearTables, Sum4Swaps
  <2>11. Sum4(gm_E[x], gm_9[y], gm_D[z], gm_B[t]) = Sum4(gm_E[x], gm_B[t], gm_D[z], gm_9[y])
    BY <2>1, LinearTables, Sum4Swaps DEF IsLinear
  <2> QED
    BY <2>6, <2>7, <2>8, <2>9, <2>10, <2>11 DEF i, k
<1>3. \A r, c \in 0..3 :
         /\ Standard!MixColumns(s)[4 * c + r + 1] = char2matrix(mixcolumns(m))[4 * c + r + 1]
         /\ Standard!InvMixColumns(s)[4 * c + r + 1] = char2matrix(invmixcolumns(m))[4 * c + r + 1]
  BY <1>2, StateAt
<1> HIDE DEF s
<1> DEFINE a == Standard!MixColumns(s)
           b == Standard!InvMixColumns(s)
           p == char2matrix(mixcolumns(m))
           q == char2matrix(invmixcolumns(m))
<1>4. /\ a = [i \in 1..16 |-> a[i]] /\ b = [i \in 1..16 |-> b[i]]
      /\ p = [i \in 1..16 |-> p[i]] /\ q = [i \in 1..16 |-> q[i]]
  BY DEF Standard!MixColumns, Standard!InvMixColumns, Standard!Mixed, char2matrix
<1>5. \A r, c \in 0..3 : a[4 * c + r + 1] = p[4 * c + r + 1] /\ b[4 * c + r + 1] = q[4 * c + r + 1]
  BY <1>3
<1> HIDE DEF a, b, p, q
<1>6. a = p
  BY <1>4, <1>5, SameState
<1>7. b = q
  BY <1>4, <1>5, SameState
<1> QED
  BY <1>6, <1>7 DEF a, b, p, q, s

LEMMA StandardRoundKey ==
    ASSUME NEW m, NEW e, NEW j
    PROVE  Standard!AddRoundKey(char2matrix(m), e, j) = char2matrix(addroundkey(m, e, j))
<1> DEFINE s == char2matrix(m)
<1>1. ASSUME NEW r \in 0..3, NEW c \in 0..3
      PROVE  Standard!AddRoundKey(s, e, j)[4 * c + r + 1] = addroundkey(m, e, j)[4 * r + c + 1]
  <2> DEFINE i == 4 * c + r + 1
             k == 4 * r + c + 1
  <2>1. i \in 1..16 /\ Standard!Row(i) = r /\ Standard!Col(i) = c
    BY Coordinates
  <2>2. k \in 1..16 /\ (k - 1) % 4 = c /\ (k - 1) \div 4 = r
    OBVIOUS
  <2>3. s[i] = m[k]
    BY StateAt
  <2> HIDE DEF i, k, s
  <2>4. Standard!AddRoundKey(s, e, j)[i] = XorTable[s[i]][e[4 * j + c + 1][r + 1]]
    BY <2>1 DEF Standard!AddRoundKey, Plus
  <2>5. addroundkey(m, e, j)[k] = XorTable[m[k]][e[4 * j + c + 1][r + 1]]
    BY <2>2 DEF addroundkey
  <2> QED
    BY <2>3, <2>4, <2>5 DEF i, k
<1> HIDE DEF s
<1> DEFINE a == Standard!AddRoundKey(s, e, j)
           p == char2matrix(addroundkey(m, e, j))
<1>2. a = [i \in 1..16 |-> a[i]] /\ p = [i \in 1..16 |-> p[i]]
  BY DEF Standard!AddRoundKey, char2matrix
<1>3. \A r, c \in 0..3 : a[4 * c + r + 1] = p[4 * c + r + 1]
  BY <1>1, StateAt
<1> HIDE DEF a, p
<1>4. a = p
  BY <1>2, <1>3, SameState
<1> QED
  BY <1>4 DEF a, p, s

\* NextKey is the standard's next word.
LEMMA StandardWord ==
    ASSUME type \in {4, 6, 8}, NEW e \in Seq(Word), type <= Len(e), Len(e) < arrayLength
    PROVE  Standard!NextWord(e) = NextKey(e)
<1> DEFINE i == Len(e)
<1>1. i \in type..(arrayLength - 1) /\ i \in 1..i /\ i - type + 1 \in 1..i
  BY Sizes
<1>2. e[i] \in Word /\ e[i - type + 1] \in Word
  BY <1>1
<1>3. ASSUME NEW v \in Word, NEW u PROVE Standard!WordSum(v, u) = Xored(v, u)
  <2>1. Len(v) = 4
    BY WordIsSequence
  <2> QED
    BY <2>1 DEF Standard!WordSum, Plus, Xored
<1>4. ASSUME NEW v \in Word
      PROVE  /\ Standard!SubWord(v) = subword(v)
             /\ Standard!SubWord(Standard!RotWord(v)) = mix(v)
  BY StandardAssumption DEF TablesStandard, Standard!SubWord, Standard!RotWord, subword, mix
<1>5. i \div type \in 1..10 /\ Standard!Rcon(i \div type) = <<aes_rcon[i \div type], 0, 0, 0>>
  BY <1>1, RconType, StandardAssumption DEF TablesStandard
<1>6. mix(e[i]) \in Word
  BY <1>2, SubwordType
<1>7. Standard!WordSum(Standard!SubWord(Standard!RotWord(e[i])), Standard!Rcon(i \div type))
      = Xored(mix(e[i]), <<aes_rcon[i \div type], 0, 0, 0>>)
  BY <1>2, <1>3, <1>4, <1>5, <1>6
<1>8. Standard!SubWord(e[i]) = subword(e[i])
  BY <1>2, <1>4
<1>9. \A u : Standard!WordSum(e[i - type + 1], u) = Xored(e[i - type + 1], u)
  BY <1>2, <1>3
<1> QED
  BY <1>7, <1>8, <1>9 DEF Standard!NextWord, NextKey

-----------------------------------------------------------------------------
(* Steps of the code are steps of FIPS 197                                  *)

\* The variables of the standard, as Standard has them
Schedules == [s \in Side |-> keys[s].e]
Doing == CASE stage \in {"encrypting", "sealed", "hashing"} -> "cipher"
           [] stage \in {"decrypting", "opened"} -> "inverse"
           [] OTHER -> "nothing"
State == char2matrix(matrix4x4)

\* Words, blocks and zeros are the same on both sides.
LEMMA StandardBytes ==
    Standard!Word = Word /\ Standard!Block = Block /\ Standard!Zeros(16) = Zeros(16)
BY DEF Standard!Word, Standard!Block, Standard!Byte, Standard!Zeros, Word, Block, Byte, Zeros

LEMMA DoingIs ==
    /\ stage \in {"encrypting", "sealed", "hashing"} => Doing = "cipher"
    /\ stage \in {"decrypting", "opened"} => Doing = "inverse"
    /\ stage = "keys" => Doing = "nothing"
BY DEF Doing

\* What the standard calls complete is a key with all its words.
LEMMA CompleteIs ==
    ASSUME type \in {4, 6, 8}, NEW s \in Side
    PROVE  /\ Standard!Complete(s) <=> Len(keys[s].e) = arrayLength
           /\ Standard!Nr = Round
BY Sizes DEF Standard!Complete, Standard!Nr

LEMMA StandardInit == Init => Standard!Init
<1> SUFFICES ASSUME Init PROVE Standard!Init
  OBVIOUS
<1>1. char2matrix(Zeros(16)) = Zeros(16)
  BY DEF char2matrix, Zeros
<1>2. Schedules = [s \in Side |-> <<>>]
  BY DEF Init, Schedules
<1>3. Doing = "nothing"
  BY DoingIs DEF Init
<1>4. /\ type \in {4, 6, 8} /\ input = Zeros(16) /\ done = 0 /\ State = Zeros(16)
  BY <1>1 DEF Init, State
<1> QED
  BY <1>2, <1>3, <1>4, StandardBytes DEF Standard!Init, Schedules, Doing, State

\* A step of a constructor leaves all but the schedules alone.
LEMMA OnlySchedules ==
    ASSUME UNCHANGED <<type, cipher>>
    PROVE  UNCHANGED <<type, Doing, input, State, done>>
BY DEF cipher, Doing, State

\* What becomes of the schedules when one is written.
LEMMA OneSchedule ==
    ASSUME keys \in [Side -> Keys], NEW s \in Side, NEW x, keys' = [keys EXCEPT ![s].e = x]
    PROVE  /\ Schedules[s] = keys[s].e /\ Schedules'[s] = x
           /\ Schedules' = [Schedules EXCEPT ![s] = x]
<1>1. keys' = [keys EXCEPT ![s] = [e |-> x, d |-> keys[s].d]]
  BY OneKey
<1>2. \A t \in Side : keys'[t].e = IF t = s THEN x ELSE keys[t].e
  BY <1>1
<1>3. Schedules' = [t \in Side |-> IF t = s THEN x ELSE keys[t].e]
  BY <1>2 DEF Schedules
<1> QED
  BY <1>3 DEF Schedules

LEMMA ConstructIsKey ==
    ASSUME Inv, NEW s \in Side, NEW tail \in Byte, Construct(s, Taken(secret, 4 * type, tail))
    PROVE  Standard!Key(s)
<1> DEFINE e == FirstWords(tail)
<1>1. /\ keys[s].e = <<>> /\ keys' = [keys EXCEPT ![s].e = e] /\ UNCHANGED <<type, cipher>>
  BY DEF Construct, FirstWords
<1>2. type \in {4, 6, 8} /\ secret \in Seq(Byte) /\ keys \in [Side -> Keys]
  BY InputsAssumption DEF Inv, TypeOK
<1>3. e \in Seq(Word) /\ Len(e) = type
  BY <1>2, FirstWordsType
<1> HIDE DEF e
<1>4. Schedules[s] = <<>> /\ Schedules'[s] = e /\ Schedules' = [Schedules EXCEPT ![s] = e]
  BY <1>1, <1>2, OneSchedule
<1>5. \A i \in 1..type : e[i] \in Word
  BY <1>3
<1>6. UNCHANGED <<type, Doing, input, State, done>>
  BY <1>1, OnlySchedules
<1> QED
  BY <1>3, <1>4, <1>5, <1>6, StandardBytes DEF Standard!Key, Schedules, Doing, State

LEMMA ExpandIsExtend ==
    ASSUME Inv, NEW s \in Side, ExpandKey(s)
    PROVE  Standard!Extend(s)
<1> DEFINE e == keys[s].e
<1>1. /\ e # <<>> /\ Len(e) < arrayLength
      /\ keys' = [keys EXCEPT ![s].e = Append(e, NextKey(e))] /\ UNCHANGED <<type, cipher>>
  BY DEF ExpandKey, InConstructor
<1>2. type \in {4, 6, 8} /\ keys \in [Side -> Keys] /\ KeyRight(s)
  BY DEF Inv, TypeOK, KeysRight
<1>3. e \in Seq(Word) /\ type <= Len(e)
  BY <1>1, <1>2 DEF KeyRight, Keys
<1>4. Standard!NextWord(e) = NextKey(e)
  BY <1>1, <1>2, <1>3, StandardWord
<1>5. Schedules[s] = e /\ Schedules' = [Schedules EXCEPT ![s] = Append(e, NextKey(e))]
  BY <1>1, <1>2, OneSchedule
<1>6. ~Standard!Complete(s)
  BY <1>1, <1>2, <1>3, CompleteIs, Sizes
<1>7. UNCHANGED <<type, Doing, input, State, done>>
  BY <1>1, OnlySchedules
<1> HIDE DEF e
<1>8. Schedules[s] # <<>>
      /\ Schedules' = [Schedules EXCEPT ![s] = Append(Schedules[s], Standard!NextWord(Schedules[s]))]
  BY <1>1, <1>4, <1>5
<1> QED
  BY <1>6, <1>7, <1>8 DEF Standard!Extend, Schedules, Doing, State

LEMMA ReverseIsNothing ==
    ASSUME Inv, NEW s \in Side, ReverseKey(s)
    PROVE  UNCHANGED <<type, Schedules, Doing, input, State, done>>
<1>1. keys' = [keys EXCEPT ![s].d = Reversed(keys[s].e)] /\ UNCHANGED <<type, cipher>>
  BY DEF ReverseKey
<1>2. keys \in [Side -> Keys]
  BY DEF Inv, TypeOK
<1>3. keys' = [keys EXCEPT ![s] = [e |-> keys[s].e, d |-> Reversed(keys[s].e)]]
  BY <1>1, <1>2, OneKey
<1>4. \A t \in Side : keys'[t].e = keys[t].e
  BY <1>2, <1>3
<1>5. Schedules' = Schedules
  BY <1>4 DEF Schedules
<1> QED
  BY <1>1, <1>5, OnlySchedules

LEMMA SchedulesStay ==
    ASSUME UNCHANGED keys
    PROVE  Schedules' = Schedules
BY DEF Schedules

LEMMA EncryptBeginsIsBegin ==
    ASSUME Inv, NEW b \in Blocks, EncryptBegins(b)
    PROVE  Standard!Begin("sealer", "cipher", 0)
<1> DEFINE e == keys["sealer"].e
<1>1. /\ \A s \in Side : Usable(s)
      /\ stage' = "encrypting" /\ input' = b
      /\ matrix4x4' = addroundkey(char2matrix(b), e, 0)
      /\ done' = 0 /\ UNCHANGED <<secret, type, keys, unwritten>>
  BY DEF EncryptBegins
<1>2. "sealer" \in Side /\ type \in {4, 6, 8} /\ b \in Block
  BY InputsAssumption DEF Side, Inv, TypeOK
<1>3. IsSchedule(e)
  BY <1>1, <1>2, KeysStay
<1>4. Standard!Complete("sealer")
  BY <1>2, <1>3, CompleteIs DEF IsSchedule
<1>5. Schedules' = Schedules /\ Schedules["sealer"] = e
  BY <1>1, <1>2, SchedulesStay DEF Schedules
<1>6. State' = Standard!AddRoundKey(b, e, 0)
  <2> HIDE DEF e
  <2>1. State' = char2matrix(addroundkey(char2matrix(b), e, 0))
    BY <1>1 DEF State
  <2>2. char2matrix(char2matrix(b)) = b
    BY <1>2, MatrixUndone
  <2>3. Standard!AddRoundKey(char2matrix(char2matrix(b)), e, 0)
        = char2matrix(addroundkey(char2matrix(b), e, 0))
    BY StandardRoundKey
  <2> QED
    BY <2>1, <2>2, <2>3
<1>7. Doing' = "cipher"
  BY <1>1 DEF Doing
<1> HIDE DEF e
<1>8. State' = Standard!AddRoundKey(input', Schedules["sealer"], 0)
  BY <1>1, <1>5, <1>6
<1> QED
  BY <1>1, <1>2, <1>4, <1>5, <1>7, <1>8, StandardBytes DEF Standard!Begin, Schedules, Doing, State

LEMMA EncryptStepIsRound ==
    ASSUME Inv, EncryptRound \/ EncryptEnds
    PROVE  Standard!CipherRound("sealer")
<1> DEFINE e == keys["sealer"].e
           m == matrix4x4
           t == shiftrows(subbytes(m))
           u == IF done + 1 < Round THEN mixcolumns(t) ELSE t
<1>1. /\ stage = "encrypting" /\ stage' \in {"encrypting", "sealed"}
      /\ done + 1 <= Round /\ done' = done + 1
      /\ matrix4x4' = addroundkey(u, e, done + 1)
      /\ UNCHANGED <<type, keys, input>>
  <2>1. Round \in Nat /\ done \in Nat
    BY Sizes DEF Inv, TypeOK
  <2> QED
    BY <2>1 DEF EncryptRound, EncryptEnds, EncryptStep
<1>2. "sealer" \in Side /\ type \in {4, 6, 8} /\ m \in Block /\ done \in 0..Round
  BY DEF Side, Inv, TypeOK
<1>3. Standard!Nr = Round /\ Round \in Nat
  BY <1>2, CompleteIs, Sizes
<1>4. Standard!ShiftRows(Standard!SubBytes(State)) = char2matrix(t)
  BY StandardBoxes, StandardRows DEF State
<1>5. Standard!MixColumns(char2matrix(t)) = char2matrix(mixcolumns(t))
  BY <1>2, StepTypes, StandardColumns
<1> HIDE DEF e, m, t
<1>6. State' = Standard!AddRoundKey(char2matrix(u), e, done + 1)
  BY <1>1, StandardRoundKey DEF State
<1>7. char2matrix(u) = IF done' < Round THEN Standard!MixColumns(char2matrix(t)) ELSE char2matrix(t)
  BY <1>1, <1>5
<1> HIDE DEF u
<1>8. Schedules' = Schedules /\ Schedules["sealer"] = e
  BY <1>1, <1>2, SchedulesStay DEF Schedules, e
<1>9. Doing = "cipher" /\ Doing' = "cipher"
  BY <1>1 DEF Doing
<1>10. done < Round
  BY <1>1, <1>2, <1>3
<1>11. State' = Standard!AddRoundKey(
           IF done' < Standard!Nr
             THEN Standard!MixColumns(Standard!ShiftRows(Standard!SubBytes(State)))
             ELSE Standard!ShiftRows(Standard!SubBytes(State)), Schedules["sealer"], done')
  BY <1>1, <1>3, <1>4, <1>6, <1>7, <1>8, Zenon
<1> QED
  BY <1>1, <1>3, <1>8, <1>9, <1>10, <1>11 DEF Standard!CipherRound, Schedules, Doing, State

LEMMA DecryptBeginsIsBegin ==
    ASSUME Inv, DecryptBegins
    PROVE  Standard!Begin("opener", "inverse", Standard!Nr)
<1> DEFINE e == keys["opener"].e
           d == keys["opener"].d
           b == char2matrix(matrix4x4)
<1>1. /\ stage = "sealed" /\ stage' = "decrypting" /\ input' = b
      /\ matrix4x4' = addroundkey(char2matrix(b), d, 0)
      /\ done' = 0 /\ UNCHANGED <<secret, type, keys, unwritten>>
  BY DEF DecryptBegins
<1>2. "opener" \in Side /\ type \in {4, 6, 8} /\ matrix4x4 \in Block
  BY DEF Side, Inv, TypeOK
<1>3. IsSchedule(e) /\ d = Reversed(e)
  BY <1>1, <1>2, KeysStay
<1>4. Standard!Complete("opener") /\ Standard!Nr = Round /\ 0 \in 0..Round /\ Round - 0 = Round
  BY <1>2, <1>3, CompleteIs, Sizes DEF IsSchedule
<1>5. Schedules' = Schedules /\ Schedules["opener"] = e
  BY <1>1, <1>2, SchedulesStay DEF Schedules
<1>6. b \in Block /\ char2matrix(b) \in Block /\ char2matrix(char2matrix(b)) = b
  BY <1>2, MatrixUndone
<1> HIDE DEF e, d, b
<1>7. addroundkey(char2matrix(b), d, 0) = addroundkey(char2matrix(b), e, Round)
  BY <1>2, <1>3, <1>4, <1>6, ReversedAdds
<1>8. State' = Standard!AddRoundKey(b, e, Round)
  <2>1. State' = char2matrix(addroundkey(char2matrix(b), e, Round))
    BY <1>1, <1>7 DEF State
  <2>2. Standard!AddRoundKey(char2matrix(char2matrix(b)), e, Round)
        = char2matrix(addroundkey(char2matrix(b), e, Round))
    BY StandardRoundKey
  <2> QED
    BY <1>6, <2>1, <2>2
<1>9. Doing' = "inverse"
  BY <1>1 DEF Doing
<1>10. State' = Standard!AddRoundKey(input', Schedules["opener"], Standard!Nr)
  BY <1>1, <1>4, <1>5, <1>8
<1> QED
  BY <1>1, <1>4, <1>5, <1>6, <1>9, <1>10, StandardBytes DEF Standard!Begin, Schedules, Doing, State

\* Bytes are substituted before their rows are shifted or after.
LEMMA SubstitutionMoves ==
    ASSUME NEW m \in Block
    PROVE  invshiftrows(invsubbytes(m)) = invsubbytes(invshiftrows(m))
<1> DEFINE p(i) == 4 * ((i - 1) \div 4) + ((i - 1 + <<0, 3, 2, 1>>[((i - 1) \div 4) + 1]) % 4) + 1
<1>1. ASSUME NEW i \in 1..16 PROVE p(i) \in 1..16
  <2> DEFINE by == <<0, 3, 2, 1>>
             r == (i - 1) \div 4
  <2>1. r \in 0..3 /\ \A k \in 1..4 : by[k] \in Int
    OBVIOUS
  <2> HIDE DEF by, r
  <2>2. by[r + 1] \in Int
    BY <2>1
  <2>3. (i - 1 + by[r + 1]) % 4 \in 0..3
    BY <2>2
  <2> QED
    BY <2>1, <2>3 DEF by, r
<1>2. \A n : invshiftrows(n) = [i \in 1..16 |-> n[p(i)]]
  BY DEF invshiftrows, Rotated
<1> HIDE DEF p
<1> QED
  BY <1>1, <1>2 DEF invsubbytes

LEMMA DecryptStepIsRound ==
    ASSUME Inv, DecryptRound \/ DecryptEnds
    PROVE  Standard!InverseRound("opener")
<1> DEFINE e == keys["opener"].e
           d == keys["opener"].d
           m == matrix4x4
           t == invsubbytes(invshiftrows(m))
           j == Round - (done + 1)
           u == addroundkey(t, e, j)
<1>1. "opener" \in Side /\ type \in {4, 6, 8} /\ m \in Block /\ done \in 0..Round
  BY DEF Side, Inv, TypeOK
<1>2. Standard!Nr = Round /\ Round \in Nat
  BY <1>1, CompleteIs, Sizes
<1>3. /\ stage = "decrypting" /\ stage' \in {"decrypting", "opened"}
      /\ done + 1 <= Round /\ done' = done + 1
      /\ UNCHANGED <<secret, type, keys, unwritten, input>>
  BY <1>1, <1>2 DEF DecryptRound, DecryptEnds
<1>4. IsSchedule(e) /\ d = Reversed(e)
  BY <1>1, <1>3, KeysStay
<1>5. t \in Block /\ invshiftrows(invsubbytes(m)) = t
  BY <1>1, StepTypes, SubstitutionMoves
<1> HIDE DEF t
<1>6. addroundkey(t, d, done + 1) = u /\ u \in Block
  <2>1. done + 1 \in 0..Round /\ j \in 0..Round
    BY <1>1, <1>2, <1>3
  <2> QED
    BY <1>1, <1>4, <1>5, <2>1, ReversedAdds, RoundKeyType
<1>7. matrix4x4' = IF done' < Round THEN invmixcolumns(u) ELSE u
  <2>1. CASE DecryptRound
    <3>1. done + 1 < Round /\ matrix4x4' = invmixcolumns(addroundkey(t, d, done + 1))
      BY <2>1 DEF DecryptRound, t
    <3> QED
      BY <1>3, <1>6, <3>1
  <2>2. CASE DecryptEnds
    <3>1. done + 1 = Round /\ matrix4x4' = addroundkey(t, d, done + 1)
      BY <1>5, <2>2 DEF DecryptEnds
    <3> QED
      BY <1>2, <1>3, <1>6, <3>1
  <2> QED
    BY <2>1, <2>2
<1>8. Standard!InvSubBytes(Standard!InvShiftRows(State)) = char2matrix(t)
  BY StandardBoxes, StandardRows DEF State, t
<1>9. Standard!AddRoundKey(char2matrix(t), e, j) = char2matrix(u)
  BY StandardRoundKey
<1>10. Standard!InvMixColumns(char2matrix(u)) = char2matrix(invmixcolumns(u))
  BY <1>6, StandardColumns
<1>11. Round - done' = j
  BY <1>3
<1> HIDE DEF e, d, m, j, u
<1>12. State' = IF done' < Round THEN Standard!InvMixColumns(char2matrix(u)) ELSE char2matrix(u)
  BY <1>7, <1>10 DEF State
<1>13. Schedules' = Schedules /\ Schedules["opener"] = e
  BY <1>1, <1>3, SchedulesStay DEF Schedules, e
<1>14. Doing = "inverse" /\ Doing' = "inverse"
  BY <1>3 DEF Doing
<1>15. done < Round
  BY <1>1, <1>2, <1>3
<1>16. char2matrix(u) = Standard!AddRoundKey(
           Standard!InvSubBytes(Standard!InvShiftRows(State)), Schedules["opener"], Standard!Nr - done')
  BY <1>2, <1>8, <1>9, <1>11, <1>13
<1>17. State' = LET v == Standard!AddRoundKey(
                      Standard!InvSubBytes(Standard!InvShiftRows(State)), Schedules["opener"],
                      Standard!Nr - done')
                IN  IF done' < Standard!Nr THEN Standard!InvMixColumns(v) ELSE v
  BY <1>2, <1>12, <1>16
<1> QED
  BY <1>2, <1>3, <1>13, <1>14, <1>15, <1>17 DEF Standard!InverseRound, Schedules, Doing, State

LEMMA HashIsNothing ==
    ASSUME HashBegins \/ \E x \in Pieces : Hash(x)
    PROVE  UNCHANGED <<type, Schedules, Doing, input, State, done>>
<1>1. /\ UNCHANGED <<type, keys, input, matrix4x4, done>>
      /\ stage \in {"sealed", "hashing"} /\ stage' = "hashing"
  BY DEF HashBegins, Hash, cipher
<1> QED
  BY <1>1 DEF Schedules, Doing, State

LEMMA NextIsStandard ==
    ASSUME Inv, [Next]_vars
    PROVE  [Standard!Next]_<<type, Schedules, Doing, input, State, done>>
<1>1. "sealer" \in Side /\ "opener" \in Side
  BY DEF Side
<1>2. ASSUME NEW s \in Side, KeyStep(s)
      PROVE  Standard!Next \/ UNCHANGED <<type, Schedules, Doing, input, State, done>>
  <2>1. Tails \subseteq Byte /\ 0 \in Byte
    BY InputsAssumption DEF Byte
  <2>2. CASE FromLength(s) \/ FromPointer(s) \/ \E tail \in Tails : FromBtring(s, tail)
    <3>1. \E tail \in Byte : Construct(s, Taken(secret, 4 * type, tail))
      BY <2>1, <2>2 DEF FromLength, FromPointer, FromBtring
    <3>2. Standard!Key(s)
      BY <3>1, ConstructIsKey
    <3> QED
      BY <3>2 DEF Standard!Next
  <2>3. CASE ExpandKey(s)
    <3>1. Standard!Extend(s)
      BY <2>3, ExpandIsExtend
    <3> QED
      BY <3>1 DEF Standard!Next
  <2>4. CASE ReverseKey(s)
    BY <2>4, ReverseIsNothing
  <2> QED
    BY <1>2, <2>2, <2>3, <2>4 DEF KeyStep
<1>3. CASE \E b \in Blocks : EncryptBegins(b)
  <2>1. Standard!Begin("sealer", "cipher", 0)
    BY <1>3, EncryptBeginsIsBegin
  <2> QED
    BY <1>1, <2>1 DEF Standard!Next
<1>4. CASE EncryptRound \/ EncryptEnds
  <2>1. Standard!CipherRound("sealer")
    BY <1>4, EncryptStepIsRound
  <2> QED
    BY <1>1, <2>1 DEF Standard!Next
<1>5. CASE DecryptBegins
  <2>1. Standard!Begin("opener", "inverse", Standard!Nr)
    BY <1>5, DecryptBeginsIsBegin
  <2> QED
    BY <1>1, <2>1 DEF Standard!Next
<1>6. CASE DecryptRound \/ DecryptEnds
  <2>1. Standard!InverseRound("opener")
    BY <1>6, DecryptStepIsRound
  <2> QED
    BY <1>1, <2>1 DEF Standard!Next
<1>7. CASE HashBegins \/ \E x \in Pieces : Hash(x)
  BY <1>7, HashIsNothing
<1>8. CASE UNCHANGED vars
  BY <1>8 DEF vars, cipher, Schedules, Doing, State
<1> QED
  BY <1>2, <1>3, <1>4, <1>5, <1>6, <1>7, <1>8 DEF Next, Finished

(***************************************************************************)
(* The block cipher of the code is that of FIPS 197: each word of a        *)
(* schedule, each round of encrypt_block and of decrypt_block is a step of *)
(* the standard, for every key size, key and block (aes.cpp:5-370).        *)
(***************************************************************************)
THEOREM CipherImplementsFips197 == Spec => ImplementsFips197
<1>1. Inv /\ [Next]_vars => [Standard!Next]_<<type, Schedules, Doing, input, State, done>>
  BY NextIsStandard
<1>2. Init => Standard!Init
  BY StandardInit
<1> QED
  BY <1>1, <1>2, Invariant, PTL DEF Spec, ImplementsFips197, Standard!Spec, Schedules, Doing, State
==============================================================================
