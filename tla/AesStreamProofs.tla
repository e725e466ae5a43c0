--------------------------- MODULE AesStreamProofs ---------------------------
(***************************************************************************)
(* Proofs about AesStream, for every block size, cipher, text and number   *)
(* of messages: counters are numbers, input may be cut anywhere, end()     *)
(* returns what the mode defines, and decryption undoes encryption.        *)
(***************************************************************************)
EXTENDS AesStream, SequenceTheorems, WellFoundedInduction, TLAPS

-----------------------------------------------------------------------------
(* Induction and recursion over the natural numbers, without operators as   *)
(* parameters: a set of numbers takes the place of the predicate, a         *)
(* function that of the step.                                               *)

\* Every set of natural numbers that is not empty has a least one.
LEMMA LeastNumber ==
    ASSUME NEW T, T \subseteq Nat, T # {}
    PROVE  \E n \in T : \A m \in T : n <= m
<1> DEFINE R == {p \in Nat \X Nat : p[1] < p[2]}
<1>1. IsWellFoundedOn(R, Nat)
  <2>1. OpToRel(<, Nat) = R
    BY DEF OpToRel
  <2> QED
    BY <2>1, NatLessThanWellFounded
<1>2. PICK n \in T : \A m \in T : <<m, n>> \notin R
  <2> HIDE DEF R
  <2> QED
    BY <1>1, WFMin, Zenon
<1>3. ASSUME NEW m \in T PROVE n <= m
  <2>1. m \in Nat /\ n \in Nat
    OBVIOUS
  <2>2. ~(<<m, n>>[1] < <<m, n>>[2])
    BY <1>2, <2>1
  <2> QED
    BY <2>1, <2>2
<1> QED
  BY <1>3

\* Induction: a set with 0 that has n + 1 with n has every number.
LEMMA InductionOnNat ==
    ASSUME NEW T, 0 \in T, \A n \in Nat : n \in T => n + 1 \in T
    PROVE  \A n \in Nat : n \in T
<1> SUFFICES ASSUME Nat \ T # {} PROVE FALSE
  OBVIOUS
<1>1. PICK n \in Nat \ T : \A m \in Nat \ T : n <= m
  BY LeastNumber
<1>2. n - 1 \in Nat /\ n = (n - 1) + 1
  BY <1>1
<1>3. n - 1 \in T
  BY <1>1, <1>2
<1> QED
  BY <1>1, <1>2, <1>3

\* The same as far as some number.
LEMMA InductionUpTo ==
    ASSUME NEW last \in Nat, NEW T, 0 \in T,
           \A n \in 0..(last - 1) : n \in T => n + 1 \in T
    PROVE  \A n \in 0..last : n \in T
<1> DEFINE U == {n \in Nat : n <= last => n \in T}
<1>1. 0 \in U
  OBVIOUS
<1>2. \A n \in Nat : n \in U => n + 1 \in U
  OBVIOUS
<1> HIDE DEF U
<1>3. \A n \in Nat : n \in U
  BY <1>1, <1>2, InductionOnNat
<1> QED
  BY <1>3 DEF U

\* What a function defined by recursion from a as far as last is.
IsRecursion(f, last, a, F) ==
    f[0] = a /\ \A n \in 1..last : f[n] = F[<<n, f[n - 1]>>]

\* A function may be defined by recursion as far as some number.
LEMMA RecursiveFunction ==
    ASSUME NEW last \in Nat, NEW S, NEW a \in S, NEW F \in [(1..last) \X S -> S]
    PROVE  \E f \in [0..last -> S] : IsRecursion(f, last, a, F)
<1> DEFINE Good(f, m) == /\ f[0] = a
                        /\ \A n \in 1..m : f[n] = F[<<n, f[n - 1]>>]
           T == {m \in 0..last : \E f \in [0..m -> S] : Good(f, m)}
<1>1. 0 \in T
  <2> DEFINE f == [n \in 0..0 |-> a]
  <2>1. f \in [0..0 -> S] /\ f[0] = a
    OBVIOUS
  <2>2. Good(f, 0)
    BY <2>1
  <2> HIDE DEF f, Good
  <2> QED
    BY <2>1, <2>2
<1>2. ASSUME NEW m \in 0..(last - 1), m \in T PROVE m + 1 \in T
  <2>1. PICK f \in [0..m -> S] : Good(f, m)
    BY <1>2
  <2> DEFINE g == [n \in 0..(m + 1) |-> IF n = m + 1 THEN F[<<n, f[m]>>] ELSE f[n]]
  <2>2. F[<<m + 1, f[m]>>] \in S
    OBVIOUS
  <2>3. g \in [0..(m + 1) -> S] /\ g[0] = a
    BY <2>1, <2>2
  <2>4. ASSUME NEW n \in 1..(m + 1)
        PROVE  g[n] = F[<<n, g[n - 1]>>]
    <3>1. CASE n = m + 1
      <4>1. n - 1 = m /\ m \in 0..(m + 1) /\ m # m + 1
        BY <3>1
      <4>2. g[n - 1] = f[m] /\ g[n] = F[<<n, f[m]>>]
        BY <3>1, <4>1
      <4> QED
        BY <4>2
    <3>2. CASE n # m + 1
      <4>1. n \in 1..m /\ n - 1 \in 0..(m + 1) /\ n - 1 # m + 1
        BY <3>2
      <4>2. g[n] = f[n] /\ f[n] = F[<<n, f[n - 1]>>]
        BY <2>1, <3>2, <4>1
      <4>3. g[n - 1] = f[n - 1]
        BY <4>1
      <4> QED
        BY <4>2, <4>3
    <3> QED
      BY <3>1, <3>2
  <2>5. Good(g, m + 1)
    BY <2>3, <2>4
  <2> HIDE DEF g, Good
  <2> QED
    BY <2>3, <2>5
<1> HIDE DEF T
<1>3. \A m \in 0..last : m \in T
  BY <1>1, <1>2, InductionUpTo
<1>4. last \in T
  BY <1>3
<1> QED
  BY <1>4 DEF T, Good, IsRecursion

-----------------------------------------------------------------------------
(* Quotients by a number that is not given: what the SMT solver needs of    *)
(* products and division in small steps.                                    *)

LEMMA ProductGrows ==
    ASSUME NEW a \in Int, NEW b \in Int, NEW c \in Nat, a <= b
    PROVE  a * c \in Int /\ b * c \in Int /\ a * c <= b * c
<1>1. b = a + (b - a) /\ b - a \in Nat
  OBVIOUS
<1>2. b * c = a * c + (b - a) * c
  OBVIOUS
<1>3. (b - a) * c \in Nat
  BY <1>1
<1> QED
  BY <1>2, <1>3

LEMMA QuotientIs ==
    ASSUME NEW c \in Nat \ {0}, NEW q \in Int, NEW r \in 0..(c - 1)
    PROVE  /\ (q * c + r) \div c = q
           /\ (q * c + r) % c = r
<1> DEFINE x == q * c + r
           p == x \div c
           s == x % c
<1>1. x \in Int /\ p \in Int /\ s \in 0..(c - 1) /\ x = c * p + s
  OBVIOUS
<1>2. c * p = p * c /\ p * c \in Int /\ q * c \in Int
  BY <1>1
<1> HIDE DEF p, s
<1>3. ~(p < q)
  <2> SUFFICES ASSUME p < q PROVE FALSE
    OBVIOUS
  <2>1. (p + 1) * c <= q * c
    BY <1>1, ProductGrows
  <2>2. (p + 1) * c = p * c + c
    BY <1>1
  <2> QED
    BY <1>1, <1>2, <2>1, <2>2
<1>4. ~(q < p)
  <2> SUFFICES ASSUME q < p PROVE FALSE
    OBVIOUS
  <2>1. (q + 1) * c <= p * c
    BY <1>1, ProductGrows
  <2>2. (q + 1) * c = q * c + c
    OBVIOUS
  <2> QED
    BY <1>1, <1>2, <2>1, <2>2
<1>5. p = q
  BY <1>1, <1>3, <1>4
<1>6. s = r
  BY <1>1, <1>2, <1>5
<1> QED
  BY <1>5, <1>6 DEF p, s

\* Dividing twice is dividing by the product.
LEMMA QuotientTwice ==
    ASSUME NEW a \in Nat \ {0}, NEW b \in Nat \ {0}, NEW x \in Nat
    PROVE  /\ a * b \in Nat \ {0}
           /\ x \div (a * b) = (x \div a) \div b
           /\ x % (a * b) = ((x \div a) % b) * a + (x % a)
<1> DEFINE q == x \div a
           r == x % a
           p == q \div b
           s == q % b
<1>1. q \in Nat /\ r \in 0..(a - 1) /\ x = a * q + r
  OBVIOUS
<1>2. p \in Nat /\ s \in 0..(b - 1) /\ q = b * p + s
  BY <1>1
<1> HIDE DEF q, r, p, s
<1>3. a * b \in Nat \ {0}
  OBVIOUS
<1>4. x = p * (a * b) + (s * a + r)
  <2>1. a * q = a * (b * p) + a * s
    BY <1>1, <1>2
  <2>2. a * (b * p) = p * (a * b) /\ a * s = s * a
    BY <1>1, <1>2
  <2> QED
    BY <1>1, <1>2, <2>1, <2>2
<1>5. s * a + r \in 0..(a * b - 1)
  <2>1. s * a <= (b - 1) * a /\ (b - 1) * a = a * b - a
    BY <1>2, ProductGrows
  <2>2. s * a \in Nat
    BY <1>2
  <2> QED
    BY <1>1, <1>2, <1>3, <2>1, <2>2
<1>6. x \div (a * b) = p /\ x % (a * b) = s * a + r
  <2> DEFINE c == a * b
             t == s * a + r
  <2> HIDE DEF c, t
  <2>1. c \in Nat \ {0} /\ t \in 0..(c - 1) /\ x = p * c + t
    BY <1>3, <1>4, <1>5 DEF c, t
  <2>2. x \div c = p /\ x % c = t
    BY <1>2, <2>1, QuotientIs
  <2> QED
    BY <2>2 DEF c, t
<1>7. /\ x \div (a * b) = (x \div a) \div b
      /\ x % (a * b) = ((x \div a) % b) * a + (x % a)
  <2> USE DEF p, s, q, r
  <2> QED
    BY <1>6
<1> QED
  BY <1>3, <1>7

-----------------------------------------------------------------------------

\* A block has two bytes at least, and a byte counts further than two blocks.
LEMMA Sizes ==
    /\ BlockSize \in Nat \ {0, 1} /\ IvSize \in 1..(BlockSize - 1)
    /\ ByteBase \in Nat /\ ByteBase > 2 /\ ByteBase > 2 * BlockSize
    /\ 0 \in Byte /\ 1 \in Byte /\ Byte \subseteq Nat
    /\ \A b \in Nat : b \in Byte <=> b < ByteBase
BY CipherAssumption DEF Byte

\* What follows an IV in its block is the counter, some bytes of it.
LEMMA CounterBytes == \E m \in Nat \ {0} : m = BlockSize - IvSize /\ BlockSize = IvSize + m
<1> DEFINE m == BlockSize - IvSize
<1>1. m \in Nat \ {0} /\ BlockSize = IvSize + m
  BY Sizes
<1> QED
  BY <1>1

\* A function on 1..n is a sequence.
LEMMA SeqOfFunction ==
    ASSUME NEW S, NEW n \in Nat, NEW f \in [1..n -> S]
    PROVE  f \in Seq(S) /\ Len(f) = n /\ DOMAIN f = 1..n
OBVIOUS

-----------------------------------------------------------------------------
(* Counters are numbers.  What CounterAt computes with, by name.            *)

Values(iv) ==
    CHOOSE value : value = [k \in 0..Len(iv) |->
        IF k = 0 THEN 0 ELSE value[k - 1] * ByteBase + iv[k]]

Weights(len) ==
    CHOOSE weight : weight = [k \in 0..len |->
        IF k = 0 THEN 1 ELSE weight[k - 1] * ByteBase]

\* CounterAt by the names of its numbers.
LEMMA CounterIs ==
    ASSUME NEW iv, NEW n
    PROVE  CounterAt(iv, n) =
             [i \in DOMAIN iv |->
                 ((Values(iv)[Len(iv)] + n) \div Weights(Len(iv))[Len(iv) - i]) % ByteBase]
BY DEF CounterAt, Values, Weights

\* The weights are the powers of ByteBase.
LEMMA WeightsAre ==
    ASSUME NEW len \in Nat
    PROVE  /\ Weights(len) \in [0..len -> Nat \ {0}]
           /\ Weights(len)[0] = 1
           /\ \A k \in 1..len : Weights(len)[k] = Weights(len)[k - 1] * ByteBase
<1> DEFINE S == Nat \ {0}
           Good(f) == f = [k \in 0..len |-> IF k = 0 THEN 1 ELSE f[k - 1] * ByteBase]
<1>1. ByteBase \in Nat \ {0} /\ 1 \in S
  BY Sizes
<1>2. PICK F \in [(1..len) \X S -> S] : \A k \in 1..len, v \in S : F[<<k, v>>] = v * ByteBase
  <2> DEFINE F == [p \in (1..len) \X S |-> p[2] * ByteBase]
  <2>1. \A v \in S : v * ByteBase \in S
    BY <1>1
  <2>2. F \in [(1..len) \X S -> S]
    BY <2>1
  <2>3. \A k \in 1..len, v \in S : F[<<k, v>>] = v * ByteBase
    OBVIOUS
  <2> QED
    BY <2>2, <2>3
<1>3. PICK f \in [0..len -> S] : f[0] = 1 /\ \A k \in 1..len : f[k] = F[<<k, f[k - 1]>>]
  <2> HIDE DEF S
  <2>1. \A a \in S : \E f \in [0..len -> S] : IsRecursion(f, len, a, F)
    BY <1>2, RecursiveFunction
  <2> QED
    BY <1>1, <2>1 DEF IsRecursion
<1>4. \A k \in 1..len : F[<<k, f[k - 1]>>] = f[k - 1] * ByteBase
  <2>1. \A k \in 1..len : f[k - 1] \in S
    BY <1>3
  <2> QED
    BY <1>2, <2>1
<1>5. \A k \in 0..len : f[k] = IF k = 0 THEN 1 ELSE f[k - 1] * ByteBase
  <2>1. \A k \in 0..len : k = 0 \/ k \in 1..len
    OBVIOUS
  <2> QED
    BY <1>3, <1>4, <2>1
<1>6. Good(f)
  BY <1>3, <1>5
<1>7. Good(Weights(len))
  BY <1>6 DEF Weights
<1> DEFINE w == Weights(len)
<1> HIDE DEF w
<1>8. /\ DOMAIN w = 0..len
      /\ \A k \in 0..len : w[k] = IF k = 0 THEN 1 ELSE w[k - 1] * ByteBase
  BY <1>7 DEF w
<1>9. \A k \in 0..len : k \in {j \in 0..len : w[j] \in S}
  <2> DEFINE T == {j \in 0..len : w[j] \in S}
  <2>1. 0 \in T
    BY <1>8
  <2>2. ASSUME NEW k \in 0..(len - 1), k \in T PROVE k + 1 \in T
    <3>1. k + 1 \in 0..len /\ k + 1 # 0 /\ (k + 1) - 1 = k
      OBVIOUS
    <3>2. w[k + 1] = w[k] * ByteBase
      BY <1>8, <3>1
    <3> QED
      BY <1>1, <2>2, <3>1, <3>2
  <2> HIDE DEF T
  <2>3. \A k \in 0..len : k \in T
    BY <2>1, <2>2, InductionUpTo
  <2> QED
    BY <2>3 DEF T
<1>10. w = [k \in 0..len |-> w[k]]
  <2>1. w = [k \in 0..len |-> IF k = 0 THEN 1 ELSE w[k - 1] * ByteBase]
    BY <1>7 DEF w
  <2> QED
    BY <1>8, <2>1
<1>11. w \in [0..len -> S] /\ w[0] = 1 /\ \A k \in 1..len : w[k] = w[k - 1] * ByteBase
  <2>1. \A k \in 1..len : k \in 0..len /\ k # 0
    OBVIOUS
  <2>2. 0 \in 0..len
    OBVIOUS
  <2> QED
    BY <1>8, <1>9, <1>10, <2>1, <2>2
<1> QED
  BY <1>11 DEF w

\* The values are those of the digits read so far.
LEMMA ValuesAre ==
    ASSUME NEW iv \in Seq(Byte)
    PROVE  /\ Values(iv) \in [0..Len(iv) -> Nat]
           /\ Values(iv)[0] = 0
           /\ \A k \in 1..Len(iv) : Values(iv)[k] = Values(iv)[k - 1] * ByteBase + iv[k]
<1>1. PICK len \in Nat : len = Len(iv)
  OBVIOUS
<1> DEFINE Good(f) == f = [k \in 0..len |-> IF k = 0 THEN 0 ELSE f[k - 1] * ByteBase + iv[k]]
<1>2. ByteBase \in Nat \ {0} /\ 0 \in Nat /\ \A k \in 1..len : iv[k] \in Nat
  <2>1. \A k \in 1..len : iv[k] \in Byte
    BY <1>1
  <2>2. Byte \subseteq Nat /\ ByteBase \in Nat \ {0}
    BY Sizes
  <2> QED
    BY <2>1, <2>2
<1>3. PICK F \in [(1..len) \X Nat -> Nat] :
        \A k \in 1..len, v \in Nat : F[<<k, v>>] = v * ByteBase + iv[k]
  <2> DEFINE F == [p \in (1..len) \X Nat |-> p[2] * ByteBase + iv[p[1]]]
  <2>1. \A v \in Nat, b \in Nat : v * ByteBase + b \in Nat
    BY <1>2
  <2>2. F \in [(1..len) \X Nat -> Nat]
    BY <1>2, <2>1
  <2>3. \A k \in 1..len, v \in Nat : F[<<k, v>>] = v * ByteBase + iv[k]
    OBVIOUS
  <2> QED
    BY <2>2, <2>3
<1>4. PICK f \in [0..len -> Nat] : f[0] = 0 /\ \A k \in 1..len : f[k] = F[<<k, f[k - 1]>>]
  <2>1. \A a \in Nat : \E f \in [0..len -> Nat] : IsRecursion(f, len, a, F)
    BY <1>3, RecursiveFunction
  <2> QED
    BY <1>2, <2>1 DEF IsRecursion
<1>5. \A k \in 1..len : F[<<k, f[k - 1]>>] = f[k - 1] * ByteBase + iv[k]
  <2>1. \A k \in 1..len : f[k - 1] \in Nat
    BY <1>4
  <2> QED
    BY <1>3, <2>1
<1>6. \A k \in 0..len : f[k] = IF k = 0 THEN 0 ELSE f[k - 1] * ByteBase + iv[k]
  <2>1. \A k \in 0..len : k = 0 \/ k \in 1..len
    OBVIOUS
  <2> QED
    BY <1>4, <1>5, <2>1
<1>7. Good(f)
  BY <1>4, <1>6
<1>8. Good(Values(iv))
  BY <1>7, <1>1 DEF Values
<1> DEFINE w == Values(iv)
<1> HIDE DEF w
<1>9. /\ DOMAIN w = 0..len
      /\ \A k \in 0..len : w[k] = IF k = 0 THEN 0 ELSE w[k - 1] * ByteBase + iv[k]
  BY <1>8 DEF w
<1>10. \A k \in 0..len : k \in {j \in 0..len : w[j] \in Nat}
  <2> DEFINE T == {j \in 0..len : w[j] \in Nat}
  <2>1. 0 \in T
    BY <1>9
  <2>2. ASSUME NEW k \in 0..(len - 1), k \in T PROVE k + 1 \in T
    <3>1. k + 1 \in 0..len /\ k + 1 # 0 /\ (k + 1) - 1 = k /\ k + 1 \in 1..len
      OBVIOUS
    <3>2. w[k + 1] = w[k] * ByteBase + iv[k + 1]
      BY <1>9, <3>1
    <3>3. iv[k + 1] \in Nat /\ w[k] \in Nat
      BY <1>2, <2>2, <3>1
    <3>4. w[k] * ByteBase \in Nat
      BY <1>2, <3>3
    <3> QED
      BY <3>1, <3>2, <3>3, <3>4
  <2> HIDE DEF T
  <2>3. \A k \in 0..len : k \in T
    BY <2>1, <2>2, InductionUpTo
  <2> QED
    BY <2>3 DEF T
<1>11. w = [k \in 0..len |-> w[k]]
  <2>1. w = [k \in 0..len |-> IF k = 0 THEN 0 ELSE w[k - 1] * ByteBase + iv[k]]
    BY <1>8 DEF w
  <2> QED
    BY <1>9, <2>1
<1>12. w \in [0..len -> Nat] /\ w[0] = 0
       /\ \A k \in 1..len : w[k] = w[k - 1] * ByteBase + iv[k]
  <2>1. \A k \in 1..len : k \in 0..len /\ k # 0
    OBVIOUS
  <2>2. 0 \in 0..len
    OBVIOUS
  <2> QED
    BY <1>9, <1>10, <1>11, <2>1, <2>2
<1> QED
  BY <1>1, <1>12 DEF w

-----------------------------------------------------------------------------
(* The digits of a number and of the next one.                              *)

Digit(x, len, k) == (x \div Weights(len)[k]) % ByteBase

\* All digits below the k-th are the last one.
Full(x, len, k) == \A m \in 0..(k - 1) : Digit(x, len, m) = ByteBase - 1

\* The digit behind the last one is 0, with a carry.
LEMMA NextDigit ==
    ASSUME NEW q \in Nat
    PROVE  /\ (q + 1) % ByteBase = ((q % ByteBase) + 1) % ByteBase
           /\ q % ByteBase \in Byte
           /\ (q + 1) \div ByteBase = IF q % ByteBase = ByteBase - 1
                                      THEN (q \div ByteBase) + 1 ELSE q \div ByteBase
<1>1. PICK b \in Nat \ {0} : b = ByteBase
  BY Sizes
<1>2. PICK p \in Nat, r \in 0..(b - 1) :
        q = p * b + r /\ q \div b = p /\ q % b = r
  <2> DEFINE p == q \div b
             r == q % b
  <2>1. p \in Nat /\ r \in 0..(b - 1) /\ q = b * p + r
    OBVIOUS
  <2> HIDE DEF p, r
  <2>2. q = p * b + r
    BY <2>1
  <2> QED
    BY <2>1, <2>2 DEF p, r
<1>3. b > 1 /\ 0..(b - 1) = Byte
  BY <1>1, Sizes DEF Byte
<1>4. CASE r = b - 1
  <2>1. q + 1 = (p + 1) * b + 0
    BY <1>2, <1>4
  <2>2. 0 \in 0..(b - 1) /\ p + 1 \in Int
    OBVIOUS
  <2>3. \A z \in 0..(b - 1) : ((p + 1) * b + z) \div b = p + 1 /\ ((p + 1) * b + z) % b = z
    BY <2>2, QuotientIs
  <2>4. (q + 1) \div b = p + 1 /\ (q + 1) % b = 0
    BY <2>1, <2>2, <2>3
  <2>5. r + 1 = 1 * b + 0
    BY <1>4
  <2>6. \A z \in 0..(b - 1) : (1 * b + z) % b = z
    BY QuotientIs
  <2>7. (r + 1) % b = 0
    BY <2>2, <2>5, <2>6
  <2> QED
    BY <1>1, <1>2, <1>3, <1>4, <2>4, <2>7
<1>5. CASE r # b - 1
  <2>1. r + 1 \in 0..(b - 1)
    BY <1>5
  <2>2. PICK t \in 0..(b - 1) : t = r + 1
    BY <2>1
  <2>3. (q + 1) \div b = p /\ (q + 1) % b = r + 1
    <3>1. q + 1 = p * b + t
      BY <1>2, <2>2
    <3>2. p \in Int
      OBVIOUS
    <3>3. (p * b + t) \div b = p /\ (p * b + t) % b = t
      BY <3>2, QuotientIs
    <3> QED
      BY <2>2, <3>1, <3>3
  <2>4. (r + 1) % b = r + 1
    BY <2>1
  <2> QED
    BY <1>1, <1>2, <1>3, <1>5, <2>3, <2>4
<1> QED
  BY <1>4, <1>5

\* The quotient by the next weight.
LEMMA NextQuotient ==
    ASSUME NEW len \in Nat, NEW k \in 0..(len - 1), NEW x \in Nat
    PROVE  /\ Weights(len)[k] \in Nat \ {0} /\ x \div Weights(len)[k] \in Nat
           /\ x \div Weights(len)[k + 1] = (x \div Weights(len)[k]) \div ByteBase
<1>1. /\ Weights(len) \in [0..len -> Nat \ {0}]
      /\ \A n \in 1..len : Weights(len)[n] = Weights(len)[n - 1] * ByteBase
  BY WeightsAre
<1>2. k \in 0..len /\ k + 1 \in 1..len /\ (k + 1) - 1 = k
  OBVIOUS
<1>3. PICK w \in Nat \ {0} : w = Weights(len)[k]
  BY <1>1, <1>2
<1>4. Weights(len)[k + 1] = w * ByteBase
  BY <1>1, <1>2, <1>3
<1>5. ByteBase \in Nat \ {0}
  BY Sizes
<1>6. x \div w \in Nat
  OBVIOUS
<1>7. x \div (w * ByteBase) = (x \div w) \div ByteBase
  BY <1>5, QuotientTwice
<1> QED
  BY <1>3, <1>4, <1>6, <1>7

\* Adding one carries to the k-th digit over digits that are all the last.
LEMMA Carry ==
    ASSUME NEW len \in Nat, NEW x \in Nat
    PROVE  \A k \in 0..len :
              (x + 1) \div Weights(len)[k] =
                  IF Full(x, len, k) THEN (x \div Weights(len)[k]) + 1
                  ELSE x \div Weights(len)[k]
<1> DEFINE w == Weights(len)
           P(k) == (x + 1) \div w[k] =
                      IF Full(x, len, k) THEN (x \div w[k]) + 1 ELSE x \div w[k]
           T == {k \in 0..len : P(k)}
<1>1. 0 \in T
  <2>1. w[0] = 1 /\ x \div 1 = x /\ (x + 1) \div 1 = x + 1
    BY WeightsAre
  <2>2. Full(x, len, 0)
    BY DEF Full
  <2>3. 0 \in 0..len
    OBVIOUS
  <2> QED
    BY <2>1, <2>2, <2>3
<1>2. ASSUME NEW k \in 0..(len - 1), k \in T PROVE k + 1 \in T
  <2>1. PICK q \in Nat : q = x \div w[k]
    BY NextQuotient
  <2>2. x \div w[k + 1] = q \div ByteBase
    BY <2>1, NextQuotient
  <2>3. (x + 1) \div w[k + 1] = ((x + 1) \div w[k]) \div ByteBase
    <3>1. x + 1 \in Nat
      OBVIOUS
    <3> QED
      BY <3>1, NextQuotient
  <2>4. Full(x, len, k + 1) <=> Full(x, len, k) /\ q % ByteBase = ByteBase - 1
    <3>1. \A m \in 0..((k + 1) - 1) : m \in 0..(k - 1) \/ m = k
      OBVIOUS
    <3>2. \A m \in 0..(k - 1) : m \in 0..((k + 1) - 1)
      OBVIOUS
    <3>3. k \in 0..((k + 1) - 1)
      OBVIOUS
    <3>4. Digit(x, len, k) = q % ByteBase
      BY <2>1 DEF Digit
    <3> QED
      BY <3>1, <3>2, <3>3, <3>4 DEF Full
  <2>5. (q + 1) \div ByteBase = IF q % ByteBase = ByteBase - 1
                                THEN (q \div ByteBase) + 1 ELSE q \div ByteBase
    BY NextDigit
  <2>6. (x + 1) \div w[k] = IF Full(x, len, k) THEN q + 1 ELSE q
    BY <1>2, <2>1
  <2>7. k + 1 \in 0..len
    OBVIOUS
  <2> HIDE DEF w
  <2> QED
    BY <2>2, <2>3, <2>4, <2>5, <2>6, <2>7
<1> HIDE DEF T
<1>3. \A k \in 0..len : k \in T
  BY <1>1, <1>2, InductionUpTo
<1> QED
  BY <1>3 DEF T

\* A counter has the bytes of its IV, which are the digits of the sum.
LEMMA CounterType ==
    ASSUME NEW iv \in Seq(Byte), NEW n \in Nat
    PROVE  /\ CounterAt(iv, n) \in Seq(Byte)
           /\ Len(CounterAt(iv, n)) = Len(iv)
           /\ \A i \in 1..Len(iv) :
                CounterAt(iv, n)[i] = Digit(Values(iv)[Len(iv)] + n, Len(iv), Len(iv) - i)
           /\ Values(iv)[Len(iv)] \in Nat
<1>1. PICK len \in Nat : len = Len(iv) /\ DOMAIN iv = 1..len
  OBVIOUS
<1>2. Values(iv)[len] \in Nat
  <2>1. len \in 0..len
    OBVIOUS
  <2> QED
    BY <1>1, <2>1, ValuesAre
<1> DEFINE x == Values(iv)[len] + n
<1>3. x \in Nat
  BY <1>2
<1>4. CounterAt(iv, n) = [i \in 1..len |-> Digit(x, len, len - i)]
  BY <1>1, CounterIs DEF Digit
<1> HIDE DEF x
<1>5. \A i \in 1..len : Digit(x, len, len - i) \in Byte
  <2> SUFFICES ASSUME NEW i \in 1..len PROVE Digit(x, len, len - i) \in Byte
    OBVIOUS
  <2>1. len - i \in 0..(len - 1)
    OBVIOUS
  <2>2. x \div Weights(len)[len - i] \in Nat
    BY <1>3, <2>1, NextQuotient
  <2> QED
    BY <2>2, NextDigit DEF Digit
<1>6. CounterAt(iv, n) \in [1..len -> Byte]
  BY <1>4, <1>5
<1>7. CounterAt(iv, n) \in Seq(Byte) /\ Len(CounterAt(iv, n)) = len
  BY <1>6, SeqOfFunction
<1> QED
  BY <1>1, <1>2, <1>4, <1>7 DEF x

\* No step, no change.
LEMMA CounterZero ==
    ASSUME NEW iv \in Seq(Byte)
    PROVE  CounterAt(iv, 0) = iv
<1>1. PICK len \in Nat : len = Len(iv) /\ DOMAIN iv = 1..len
  OBVIOUS
<1>2. PICK v \in [0..len -> Nat] :
        v = Values(iv) /\ v[0] = 0 /\ \A k \in 1..len : v[k] = v[k - 1] * ByteBase + iv[k]
  BY <1>1, ValuesAre
<1>3. ByteBase \in Nat \ {0} /\ Byte = 0..(ByteBase - 1)
  BY Sizes DEF Byte
<1>4. \A k \in 1..len : k - 1 \in 0..len /\ v[k - 1] \in Nat /\ iv[k] \in Byte
  BY <1>1
<1>5. \A k \in 1..len : v[k] \div ByteBase = v[k - 1] /\ v[k] % ByteBase = iv[k]
  <2> SUFFICES ASSUME NEW k \in 1..len
               PROVE  v[k] \div ByteBase = v[k - 1] /\ v[k] % ByteBase = iv[k]
    OBVIOUS
  <2>1. PICK b \in Nat \ {0} : b = ByteBase
    BY <1>3
  <2>2. PICK p \in Int, r \in 0..(b - 1) : p = v[k - 1] /\ r = iv[k]
    <3>1. v[k - 1] \in Int /\ iv[k] \in 0..(b - 1)
      <4>1. v[k - 1] \in Nat /\ iv[k] \in Byte
        BY <1>4
      <4> QED
        BY <1>3, <2>1, <4>1
    <3> QED
      BY <3>1
  <2>3. v[k] = p * b + r
    BY <1>2, <2>1, <2>2
  <2>4. (p * b + r) \div b = p /\ (p * b + r) % b = r
    BY QuotientIs
  <2> QED
    BY <2>1, <2>2, <2>3, <2>4
<1> DEFINE w == Weights(len)
           T == {k \in 0..len : v[len] \div w[k] = v[len - k]}
<1>6. \A k \in 0..len : k \in T
  <2>1. 0 \in T
    <3>1. w[0] = 1 /\ v[len] \in Nat /\ len - 0 = len /\ 0 \in 0..len
      <4>1. len \in 0..len
        OBVIOUS
      <4> QED
        BY <1>2, <4>1, WeightsAre
    <3>2. v[len] \div 1 = v[len]
      BY <3>1
    <3> QED
      BY <3>1, <3>2
  <2>2. ASSUME NEW k \in 0..(len - 1), k \in T PROVE k + 1 \in T
    <3>1. v[len] \in Nat /\ k + 1 \in 0..len
      OBVIOUS
    <3>2. v[len] \div w[k + 1] = (v[len] \div w[k]) \div ByteBase
      BY <3>1, NextQuotient
    <3>3. v[len] \div w[k] = v[len - k]
      BY <2>2
    <3>4. len - k \in 1..len /\ (len - k) - 1 = len - (k + 1)
      OBVIOUS
    <3>5. v[len - k] \div ByteBase = v[(len - k) - 1]
      BY <1>5, <3>4
    <3> QED
      BY <3>1, <3>2, <3>3, <3>4, <3>5
  <2> HIDE DEF T
  <2> QED
    BY <2>1, <2>2, InductionUpTo
<1>7. ASSUME NEW i \in 1..len PROVE CounterAt(iv, 0)[i] = iv[i]
  <2>1. 0 \in Nat /\ v[len] + 0 = v[len]
    OBVIOUS
  <2>2. \A n \in Nat : CounterAt(iv, n)[i] = Digit(v[len] + n, len, len - i)
    BY <1>1, <1>2, CounterType
  <2>3. len - i \in 0..len /\ len - (len - i) = i
    OBVIOUS
  <2>4. v[len] \div w[len - i] = v[i]
    BY <1>6, <2>3
  <2>5. CounterAt(iv, 0)[i] = v[i] % ByteBase
    BY <2>1, <2>2, <2>4 DEF Digit
  <2> QED
    BY <1>5, <2>5
<1>8. \A n \in Nat : CounterAt(iv, n) \in Seq(Byte) /\ Len(CounterAt(iv, n)) = len
  BY <1>1, CounterType
<1>9. CounterAt(iv, 0) \in Seq(Byte) /\ Len(CounterAt(iv, 0)) = len
  <2>1. 0 \in Nat
    OBVIOUS
  <2> QED
    BY <1>8, <2>1
<1> QED
  BY <1>1, <1>7, <1>9

\* Incrementing counts: the code's loop over the bytes from the last adds one.
LEMMA CounterNext ==
    ASSUME NEW iv \in Seq(Byte), NEW n \in Nat
    PROVE  Increment(CounterAt(iv, n)) = CounterAt(iv, n + 1)
<1>1. PICK len \in Nat : len = Len(iv)
  OBVIOUS
<1>2. PICK x \in Nat : x = Values(iv)[len] + n
  BY <1>1, CounterType
<1>3. PICK c \in Seq(Byte) :
        /\ c = CounterAt(iv, n) /\ Len(c) = len
        /\ \A i \in 1..len : c[i] = Digit(x, len, len - i)
  BY <1>1, <1>2, CounterType
<1>4. PICK d \in Seq(Byte) :
        /\ d = CounterAt(iv, n + 1) /\ Len(d) = len
        /\ \A i \in 1..len : d[i] = Digit(x + 1, len, len - i)
  <2>1. PICK v \in Nat : v = Values(iv)[len]
    BY <1>1, CounterType
  <2>2. PICK m \in Nat : m = n + 1
    <3>1. n + 1 \in Nat
      OBVIOUS
    <3> QED
      BY <3>1
  <2>3. v + m = x + 1
    <3>1. x = v + n
      BY <1>2, <2>1
    <3> QED
      BY <2>2, <3>1
  <2> QED
    BY <1>1, <2>1, <2>2, <2>3, CounterType
<1>5. ASSUME NEW i \in 1..len
      PROVE  d[i] = IF \A j \in (i + 1)..len : c[j] = ByteBase - 1
                    THEN (c[i] + 1) % ByteBase ELSE c[i]
  <2>1. len - i \in 0..(len - 1) /\ len - i \in 0..len
    OBVIOUS
  <2>2. PICK q \in Nat : q = x \div Weights(len)[len - i]
    BY <2>1, NextQuotient
  <2>3. (x + 1) \div Weights(len)[len - i] = IF Full(x, len, len - i) THEN q + 1 ELSE q
    BY <2>1, <2>2, Carry
  <2>4. Full(x, len, len - i) <=> \A j \in (i + 1)..len : c[j] = ByteBase - 1
    <3>1. ASSUME Full(x, len, len - i), NEW j \in (i + 1)..len
          PROVE  c[j] = ByteBase - 1
      <4>1. len - j \in 0..((len - i) - 1) /\ j \in 1..len
        OBVIOUS
      <4>2. Digit(x, len, len - j) = ByteBase - 1
        BY <3>1, <4>1 DEF Full
      <4> QED
        BY <1>3, <4>1, <4>2
    <3>2. ASSUME \A j \in (i + 1)..len : c[j] = ByteBase - 1, NEW m \in 0..((len - i) - 1)
          PROVE  Digit(x, len, m) = ByteBase - 1
      <4>1. len - m \in (i + 1)..len /\ len - m \in 1..len /\ len - (len - m) = m
        OBVIOUS
      <4>2. c[len - m] = Digit(x, len, m)
        BY <1>3, <4>1
      <4> QED
        BY <3>2, <4>1, <4>2
    <3> QED
      BY <3>1, <3>2 DEF Full
  <2>5. c[i] = q % ByteBase
    BY <1>3, <2>2 DEF Digit
  <2>6. d[i] = IF Full(x, len, len - i) THEN (q + 1) % ByteBase ELSE q % ByteBase
    BY <1>4, <2>3 DEF Digit
  <2>7. (q + 1) % ByteBase = ((q % ByteBase) + 1) % ByteBase
    BY NextDigit
  <2> QED
    BY <2>4, <2>5, <2>6, <2>7
<1>6. DOMAIN c = 1..len /\ DOMAIN d = 1..len
  BY <1>3, <1>4
<1>7. Increment(c) = [i \in 1..len |-> d[i]]
  <2>1. Increment(c) = [i \in 1..len |->
              IF \A j \in (i + 1)..len : c[j] = ByteBase - 1
              THEN (c[i] + 1) % ByteBase ELSE c[i]]
    BY <1>3, <1>6 DEF Increment
  <2> QED
    BY <1>5, <2>1
<1>8. Increment(c) = d
  <2>1. d = [i \in 1..len |-> d[i]]
    BY <1>4, <1>6
  <2> QED
    BY <1>7, <2>1
<1> QED
  BY <1>3, <1>4, <1>8

-----------------------------------------------------------------------------
(* The counter blocks of GCM.                                               *)

\* A run of zeros.
LEMMA ZerosAre ==
    ASSUME NEW n \in Nat
    PROVE  /\ Zeros(n) \in Seq(Byte) /\ Len(Zeros(n)) = n
           /\ \A i \in 1..n : Zeros(n)[i] = 0
<1>1. Zeros(n) \in [1..n -> Byte]
  BY Sizes DEF Zeros
<1> QED
  BY <1>1, SeqOfFunction DEF Zeros

GcmCounter(iv, n) == iv \o CounterAt(Zeros(BlockSize - IvSize), n)

\* The counter has the bytes behind the IV.
LEMMA CounterSize ==
    ASSUME NEW n \in Nat
    PROVE  /\ BlockSize - IvSize \in Nat \ {0}
           /\ CounterAt(Zeros(BlockSize - IvSize), n) \in Seq(Byte)
           /\ Len(CounterAt(Zeros(BlockSize - IvSize), n)) = BlockSize - IvSize
<1>1. BlockSize - IvSize \in Nat \ {0}
  BY Sizes
<1> DEFINE z == Zeros(BlockSize - IvSize)
<1>2. z \in Seq(Byte) /\ Len(z) = BlockSize - IvSize
  BY <1>1, ZerosAre
<1> HIDE DEF z
<1>3. CounterAt(z, n) \in Seq(Byte) /\ Len(CounterAt(z, n)) = Len(z)
  BY <1>2, CounterType
<1> QED
  BY <1>1, <1>2, <1>3 DEF z

\* A sequence of bytes as long as a block is one.
LEMMA BlockOfSeq ==
    ASSUME NEW s
    PROVE  s \in Block <=> s \in Seq(Byte) /\ Len(s) = BlockSize
<1>1. PICK n \in Nat : n = BlockSize
  BY Sizes
<1>2. s \in [1..n -> Byte] <=> s \in Seq(Byte) /\ Len(s) = n
  OBVIOUS
<1> QED
  BY <1>1, <1>2 DEF Block

\* A GCM IV is a sequence of IvSize bytes.
LEMMA IvOfSeq ==
    ASSUME NEW s
    PROVE  s \in [1..IvSize -> Byte] <=> s \in Seq(Byte) /\ Len(s) = IvSize
<1>1. PICK n \in Nat : n = IvSize
  BY Sizes
<1>2. s \in [1..n -> Byte] <=> s \in Seq(Byte) /\ Len(s) = n
  OBVIOUS
<1> QED
  BY <1>1, <1>2

\* Inc32 adds one to the counter and leaves the IV alone.
LEMMA GcmCounterNext ==
    ASSUME NEW iv \in [1..IvSize -> Byte], NEW n \in Nat
    PROVE  /\ GcmCounter(iv, n) \in Block
           /\ Inc32(GcmCounter(iv, n)) = GcmCounter(iv, n + 1)
<1>1. PICK k \in Nat : k = IvSize
  BY Sizes
<1>2. PICK m \in Nat \ {0} : m = BlockSize - IvSize /\ BlockSize = k + m
  BY <1>1, CounterBytes
<1>3. iv \in Seq(Byte) /\ Len(iv) = k
  BY <1>1, IvOfSeq
<1> DEFINE z == Zeros(m)
<1>4. z \in Seq(Byte)
  BY ZerosAre
<1> HIDE DEF z
<1>5. PICK c \in Seq(Byte) : c = CounterAt(z, n) /\ Len(c) = m
  BY <1>2, CounterSize DEF z
<1>6. Increment(c) = CounterAt(z, n + 1)
  BY <1>4, <1>5, CounterNext
<1>7. GcmCounter(iv, n) = iv \o c /\ GcmCounter(iv, n + 1) = iv \o Increment(c)
  BY <1>2, <1>5, <1>6 DEF GcmCounter, z
<1>8. iv \o c \in Seq(Byte) /\ Len(iv \o c) = k + m
  BY <1>3, <1>5
<1>9. SubSeq(iv \o c, 1, k) = iv
  BY <1>3, <1>5
<1>10. SubSeq(iv \o c, k + 1, k + m) = c
  BY <1>3, <1>5
<1>11. Inc32(iv \o c) = iv \o Increment(c)
  BY <1>1, <1>2, <1>9, <1>10 DEF Inc32
<1> QED
  BY <1>2, <1>7, <1>8, <1>11, BlockOfSeq

\* J0 of an IV counts one from its counter of zero.
LEMMA FirstCounter ==
    ASSUME NEW iv \in [1..IvSize -> Byte]
    PROVE  J0Begin(iv) = GcmCounter(iv, 1)
<1>1. PICK k \in Nat : k = IvSize
  BY Sizes
<1>2. PICK m \in Nat \ {0} : m = BlockSize - IvSize /\ BlockSize = k + m
  BY <1>1, CounterBytes
<1>3. iv \in Seq(Byte) /\ Len(iv) = k
  BY <1>1, IvOfSeq
<1> DEFINE z == Zeros(m)
<1>4. z \in Seq(Byte) /\ Len(z) = m /\ \A i \in 1..m : z[i] = 0
  BY ZerosAre
<1> HIDE DEF z
<1>5. Increment(z) = CounterAt(z, 1)
  <2>1. \A n \in Nat : n = 0 => Increment(CounterAt(z, n)) = CounterAt(z, n + 1)
    BY <1>4, CounterNext
  <2>2. CounterAt(z, 0) = z
    BY <1>4, CounterZero
  <2>3. 0 \in Nat /\ 0 + 1 = 1
    OBVIOUS
  <2> QED
    BY <2>1, <2>2, <2>3
<1>6. PICK d \in Seq(Byte) : d = CounterAt(z, 1) /\ Len(d) = m
  BY <1>2, CounterSize DEF z
<1>7. \A i \in 1..m : d[i] = IF i = m THEN 1 ELSE 0
  <2>1. DOMAIN z = 1..m
    BY <1>4
  <2>2. d = [i \in 1..m |-> IF \A j \in (i + 1)..m : z[j] = ByteBase - 1
                            THEN (z[i] + 1) % ByteBase ELSE z[i]]
    BY <1>4, <1>5, <1>6, <2>1 DEF Increment
  <2>3. ByteBase - 1 # 0 /\ \A y \in Nat : y = 0 => (y + 1) % ByteBase = 1
    BY Sizes
  <2>4. ASSUME NEW i \in 1..m, i # m PROVE d[i] = 0
    <3>1. m \in (i + 1)..m /\ m \in 1..m
      BY <2>4
    <3>2. z[m] # ByteBase - 1
      BY <1>4, <2>3, <3>1
    <3> QED
      BY <1>4, <2>2, <3>1, <3>2
  <2>5. d[m] = 1
    <3>1. \A j \in (m + 1)..m : FALSE
      OBVIOUS
    <3>2. m \in 1..m /\ z[m] = 0 /\ z[m] \in Nat
      BY <1>4
    <3>3. d[m] = (z[m] + 1) % ByteBase
      BY <2>2, <3>1, <3>2
    <3> QED
      BY <2>3, <3>2, <3>3
  <2> QED
    BY <2>4, <2>5
<1>8. J0Begin(iv) = [iv \o z EXCEPT ![k + m] = 1]
  BY <1>2 DEF J0Begin, z
<1>9. GcmCounter(iv, 1) = iv \o d
  BY <1>2, <1>6 DEF GcmCounter, z
<1>10. [iv \o z EXCEPT ![k + m] = 1] = iv \o d
  <2>1. /\ DOMAIN (iv \o z) = 1..(k + m) /\ DOMAIN (iv \o d) = 1..(k + m)
        /\ iv \o d \in Seq(Byte) /\ Len(iv \o d) = k + m
        /\ iv \o z \in Seq(Byte) /\ Len(iv \o z) = k + m
    BY <1>3, <1>4, <1>6
  <2>2. \A i \in 1..(k + m) : (iv \o z)[i] = IF i <= k THEN iv[i] ELSE z[i - k]
    BY <1>3, <1>4
  <2>3. \A i \in 1..(k + m) : (iv \o d)[i] = IF i <= k THEN iv[i] ELSE d[i - k]
    BY <1>3, <1>6
  <2> DEFINE a == iv \o z
             b == iv \o d
  <2> HIDE DEF a, b
  <2>4. \A i \in 1..(k + m) : b[i] = IF i = k + m THEN 1 ELSE a[i]
    <3> SUFFICES ASSUME NEW i \in 1..(k + m)
                 PROVE  b[i] = IF i = k + m THEN 1 ELSE a[i]
      OBVIOUS
    <3>1. CASE i <= k
      <4>1. i # k + m
        BY <3>1
      <4>2. a[i] = iv[i] /\ b[i] = iv[i]
        BY <2>2, <2>3, <3>1 DEF a, b
      <4> QED
        BY <4>1, <4>2
    <3>2. CASE i > k
      <4>1. i - k \in 1..m /\ (i - k = m <=> i = k + m) /\ ~(i <= k)
        BY <3>2
      <4>2. a[i] = z[i - k] /\ b[i] = d[i - k]
        BY <2>2, <2>3, <4>1 DEF a, b
      <4> QED
        BY <1>4, <1>7, <4>1, <4>2
    <3> QED
      BY <3>1, <3>2
  <2>5. DOMAIN a = 1..(k + m) /\ DOMAIN b = 1..(k + m) /\ b \in Seq(Byte)
    BY <2>1 DEF a, b
  <2>6. b = [i \in 1..(k + m) |-> b[i]]
    BY <2>5
  <2>7. [a EXCEPT ![k + m] = 1] = b
    BY <2>4, <2>5, <2>6
  <2> QED
    BY <2>7 DEF a, b
<1> QED
  BY <1>8, <1>9, <1>10

-----------------------------------------------------------------------------
(* Bytes and blocks.                                                        *)

Whole(n) == n * BlockSize
Place(i, j) == Whole(i - 1) + j

\* Whole blocks have a number of bytes.
LEMMA WholeNat ==
    ASSUME NEW m \in Nat
    PROVE  Whole(m) \in Nat
<1>1. PICK b \in Nat : b = BlockSize
  BY Sizes
<1>2. m * b \in Nat
  OBVIOUS
<1> QED
  BY <1>1, <1>2 DEF Whole

\* Blocks add up.
LEMMA WholeAdds ==
    ASSUME NEW m \in Int, NEW n \in Int
    PROVE  /\ Whole(m) \in Int /\ (m \in Nat => Whole(m) \in Nat)
           /\ Whole(m + n) = Whole(m) + Whole(n)
           /\ Whole(0) = 0 /\ Whole(1) = BlockSize
           /\ (m <= n => Whole(m) <= Whole(n))
<1>1. PICK b \in Nat \ {0} : b = BlockSize
  BY Sizes
<1>2. m * b \in Int /\ (m \in Nat => m * b \in Nat)
  OBVIOUS
<1>3. (m + n) * b = (m * b) + (n * b)
  OBVIOUS
<1>4. 0 * b = 0 /\ 1 * b = b
  OBVIOUS
<1>5. m <= n => m * b <= n * b
  BY ProductGrows
<1> QED
  BY <1>1, <1>2, <1>3, <1>4, <1>5 DEF Whole

\* How many blocks, and how many bytes behind them.
LEMMA WholeDivides ==
    ASSUME NEW n \in Nat, NEW r \in 0..(BlockSize - 1)
    PROVE  (Whole(n) + r) \div BlockSize = n /\ (Whole(n) + r) % BlockSize = r
<1>1. PICK b \in Nat \ {0} : b = BlockSize
  BY Sizes
<1>2. PICK q \in Int : q = n
  OBVIOUS
<1>3. PICK s \in 0..(b - 1) : s = r
  BY <1>1
<1>4. (q * b + s) \div b = q /\ (q * b + s) % b = s
  BY QuotientIs
<1> QED
  BY <1>1, <1>2, <1>3, <1>4 DEF Whole

\* The parts of a length.
LEMMA WholeAndRest ==
    ASSUME NEW len \in Nat
    PROVE  /\ len \div BlockSize \in Nat /\ len % BlockSize \in 0..(BlockSize - 1)
           /\ len = Whole(len \div BlockSize) + (len % BlockSize)
           /\ len - (len % BlockSize) = Whole(len \div BlockSize)
<1>1. PICK b \in Nat \ {0} : b = BlockSize
  BY Sizes
<1>2. PICK q \in Nat, r \in 0..(b - 1) : q = len \div b /\ r = len % b /\ len = (b * q) + r
  OBVIOUS
<1>3. b * q = q * b /\ q * b \in Nat
  OBVIOUS
<1>4. len = (q * b) + r /\ len - r = q * b
  BY <1>2, <1>3
<1> QED
  BY <1>1, <1>2, <1>4 DEF Whole

\* Each place belongs to one byte of one block.
LEMMA Places ==
    ASSUME NEW i \in Nat \ {0}, NEW j \in 1..BlockSize
    PROVE  /\ Place(i, j) \in Nat \ {0}
           /\ (Place(i, j) - 1) \div BlockSize = i - 1
           /\ (Place(i, j) - 1) % BlockSize = j - 1
<1>1. i - 1 \in Nat /\ j - 1 \in 0..(BlockSize - 1) /\ j \in Nat \ {0}
  BY Sizes
<1>2. PICK w \in Nat : w = Whole(i - 1)
  BY <1>1, WholeNat
<1>3. Place(i, j) = w + j /\ (w + j) - 1 = w + (j - 1) /\ w + j \in Nat \ {0}
  BY <1>1, <1>2 DEF Place
<1>4. (w + (j - 1)) \div BlockSize = i - 1 /\ (w + (j - 1)) % BlockSize = j - 1
  BY <1>1, <1>2, WholeDivides
<1> QED
  BY <1>3, <1>4

\* Places of the first n blocks, and of those behind them.
LEMMA PlacesWithin ==
    ASSUME NEW i \in Nat \ {0}, NEW j \in 1..BlockSize, NEW n \in Nat
    PROVE  /\ (Place(i, j) <= Whole(n) <=> i <= n)
           /\ Place(n + i, j) = Whole(n) + Place(i, j)
<1>1. i - 1 \in Nat /\ (n + i) - 1 = n + (i - 1) /\ j \in Nat \ {0} /\ j <= BlockSize
      /\ BlockSize \in Nat /\ i = (i - 1) + 1
  BY Sizes
<1>2. PICK w \in Nat : w = Whole(i - 1)
  BY <1>1, WholeNat
<1>3. PICK v \in Nat : v = Whole(n)
  BY WholeNat
<1>4. Place(i, j) = w + j
  BY <1>2 DEF Place
<1>5. Whole(i) = w + BlockSize
  <2>1. Whole((i - 1) + 1) = Whole(i - 1) + Whole(1) /\ Whole(1) = BlockSize
    <3>1. i - 1 \in Int /\ 1 \in Int
      BY <1>1
    <3>2. \A k \in Int : Whole((i - 1) + k) = Whole(i - 1) + Whole(k) /\ Whole(1) = BlockSize
      BY <3>1, WholeAdds
    <3> QED
      BY <3>1, <3>2
  <2> QED
    BY <1>1, <1>2, <2>1
<1>6. i <= n => w + BlockSize <= v
  BY <1>3, <1>5, WholeAdds
<1>7. i > n => v <= w
  <2>1. i > n => n <= i - 1 /\ i - 1 \in Int
    BY <1>1
  <2> QED
    BY <1>1, <1>2, <1>3, <2>1, WholeAdds
<1>8. Whole(n + (i - 1)) = v + w
  BY <1>1, <1>2, <1>3, WholeAdds
<1>9. Place(n + i, j) = (v + w) + j
  BY <1>1, <1>8 DEF Place
<1> QED
  BY <1>1, <1>3, <1>4, <1>6, <1>7, <1>9

\* Every place up to a whole block is one.
LEMMA PlaceOf ==
    ASSUME NEW n \in Nat, NEW p \in 1..Whole(n)
    PROVE  \E i \in 1..n, j \in 1..BlockSize : p = Place(i, j)
<1>1. PICK v \in Nat : v = Whole(n)
  BY WholeNat
<1>2. PICK m \in Nat : m = p - 1
  BY <1>1
<1>3. PICK q \in Nat, r \in 0..(BlockSize - 1) : m = Whole(q) + r
  BY <1>2, WholeAndRest
<1>4. BlockSize \in Nat /\ r + 1 \in 1..BlockSize /\ q + 1 \in Nat \ {0} /\ (q + 1) - 1 = q
  BY Sizes
<1>5. PICK w \in Nat : w = Whole(q)
  BY WholeNat
<1>6. p = w + (r + 1) /\ Place(q + 1, r + 1) = w + (r + 1)
  BY <1>1, <1>2, <1>3, <1>4, <1>5 DEF Place
<1>7. q + 1 <= n
  <2>1. p <= Whole(n)
    BY <1>1
  <2> QED
    BY <1>4, <1>6, <2>1, PlacesWithin
<1>8. q + 1 \in 1..n
  BY <1>7
<1> QED
  BY <1>4, <1>6, <1>8

-----------------------------------------------------------------------------
(* Concatenation and parts, as the proofs below use them.                   *)

\* What a concatenation holds, and where.
LEMMA ConcatIs ==
    ASSUME NEW S, NEW s \in Seq(S), NEW t \in Seq(S)
    PROVE  /\ s \o t \in Seq(S) /\ Len(s \o t) = Len(s) + Len(t)
           /\ \A i \in 1..Len(s) : (s \o t)[i] = s[i]
           /\ \A i \in 1..Len(t) : (s \o t)[Len(s) + i] = t[i]
           /\ SubSeq(s \o t, 1, Len(s)) = s
           /\ SubSeq(s \o t, Len(s) + 1, Len(s) + Len(t)) = t
<1>1. Len(s) \in Nat /\ Len(t) \in Nat
  OBVIOUS
<1>2. s \o t \in Seq(S) /\ Len(s \o t) = Len(s) + Len(t)
  OBVIOUS
<1>3. \A i \in 1..Len(s) : (s \o t)[i] = s[i]
  OBVIOUS
<1>4. \A i \in 1..Len(t) : (s \o t)[Len(s) + i] = t[i]
  OBVIOUS
<1>5. SubSeq(s \o t, 1, Len(s)) = s
  OBVIOUS
<1>6. SubSeq(s \o t, Len(s) + 1, Len(s) + Len(t)) = t
  OBVIOUS
<1> QED
  BY <1>2, <1>3, <1>4, <1>5, <1>6

\* What a part in the middle holds.
LEMMA PartIs ==
    ASSUME NEW S, NEW s \in Seq(S), NEW m \in Nat, NEW n \in Nat, m + n <= Len(s)
    PROVE  /\ SubSeq(s, m + 1, m + n) \in Seq(S) /\ Len(SubSeq(s, m + 1, m + n)) = n
           /\ \A i \in 1..n : SubSeq(s, m + 1, m + n)[i] = s[m + i]
<1>1. \A i \in (m + 1)..(m + n) : s[i] \in S
  BY ElementOfSeq
<1>2. SubSeq(s, m + 1, m + n) \in Seq(S)
  BY <1>1
<1>3. Len(SubSeq(s, m + 1, m + n)) = n
  OBVIOUS
<1>4. \A i \in 1..n : SubSeq(s, m + 1, m + n)[i] = s[m + i]
  OBVIOUS
<1> QED
  BY <1>2, <1>3, <1>4

\* What the front holds, and what is behind it.
LEMMA FrontIs ==
    ASSUME NEW S, NEW s \in Seq(S), NEW n \in 0..Len(s)
    PROVE  /\ SubSeq(s, 1, n) \in Seq(S) /\ Len(SubSeq(s, 1, n)) = n
           /\ \A i \in 1..n : SubSeq(s, 1, n)[i] = s[i]
           /\ SubSeq(s, n + 1, Len(s)) \in Seq(S)
           /\ Len(SubSeq(s, n + 1, Len(s))) = Len(s) - n
           /\ SubSeq(s, 1, n) \o SubSeq(s, n + 1, Len(s)) = s
<1>1. \A i \in 1..Len(s) : s[i] \in S
  BY ElementOfSeq
<1>2. SubSeq(s, 1, n) \in Seq(S) /\ Len(SubSeq(s, 1, n)) = n
  BY <1>1
<1>3. \A i \in 1..n : SubSeq(s, 1, n)[i] = s[i]
  OBVIOUS
<1>4. /\ SubSeq(s, n + 1, Len(s)) \in Seq(S)
      /\ Len(SubSeq(s, n + 1, Len(s))) = Len(s) - n
  BY <1>1
<1>5. SubSeq(s, 1, n) \o SubSeq(s, n + 1, Len(s)) = s
  <2>1. 1 \in 1..(Len(s) + 1) /\ n \in (1 - 1)..Len(s) /\ Len(s) \in n..Len(s)
    OBVIOUS
  <2>2. SubSeq(s, 1, n) \o SubSeq(s, n + 1, Len(s)) = SubSeq(s, 1, Len(s))
    BY <2>1, ConcatAdjacentSubSeq, Zenon
  <2> QED
    BY <2>2, SubSeqFull, Zenon
<1> QED
  BY <1>2, <1>3, <1>4, <1>5, Zenon

\* Blocks are their bytes.
LEMMA SameBlock ==
    ASSUME NEW a \in Block, NEW b \in Block, \A j \in 1..BlockSize : a[j] = b[j]
    PROVE  a = b
<1>1. a \in [1..BlockSize -> Byte] /\ b \in [1..BlockSize -> Byte]
  BY DEF Block
<1>2. a = [j \in 1..BlockSize |-> a[j]] /\ b = [j \in 1..BlockSize |-> b[j]]
  BY <1>1
<1>3. [j \in 1..BlockSize |-> a[j]] = [j \in 1..BlockSize |-> b[j]]
  OBVIOUS
<1> QED
  BY <1>2, <1>3

\* The bytes of some blocks, one behind the other.
Flat(bs) ==
    [p \in 1..Whole(Len(bs)) |->
        bs[((p - 1) \div BlockSize) + 1][((p - 1) % BlockSize) + 1]]

\* The bytes of the blocks, one block after the other.
LEMMA FlatIs ==
    ASSUME NEW bs \in Seq(Block)
    PROVE  /\ Flat(bs) \in Seq(Byte) /\ Len(Flat(bs)) = Whole(Len(bs))
           /\ \A i \in 1..Len(bs), j \in 1..BlockSize :
                Flat(bs)[Place(i, j)] = bs[i][j] /\ Place(i, j) \in 1..Whole(Len(bs))
<1>1. PICK n \in Nat : n = Len(bs)
  OBVIOUS
<1>2. PICK v \in Nat : v = Whole(n)
  BY WholeNat
<1>3. ASSUME NEW i \in 1..n, NEW j \in 1..BlockSize
      PROVE  /\ Flat(bs)[Place(i, j)] = bs[i][j] /\ Place(i, j) \in 1..v
             /\ bs[i][j] \in Byte
  <2>1. i \in Nat \ {0} /\ i <= n
    OBVIOUS
  <2>2. Place(i, j) \in 1..v
    <3>1. Place(i, j) \in Nat \ {0}
      BY <2>1, Places
    <3>2. Place(i, j) <= v
      BY <1>2, <2>1, PlacesWithin
    <3> QED
      BY <3>1, <3>2
  <2>3. (Place(i, j) - 1) \div BlockSize = i - 1 /\ (Place(i, j) - 1) % BlockSize = j - 1
    BY <2>1, Places
  <2>4. (i - 1) + 1 = i /\ (j - 1) + 1 = j
    BY Sizes
  <2>5. Flat(bs)[Place(i, j)] = bs[i][j]
    BY <1>1, <1>2, <2>2, <2>3, <2>4 DEF Flat
  <2>6. bs[i] \in Block
    BY <1>1
  <2> QED
    BY <2>2, <2>5, <2>6 DEF Block
<1>4. ASSUME NEW p \in 1..v
      PROVE  Flat(bs)[p] \in Byte
  <2>1. PICK i \in 1..n, j \in 1..BlockSize : p = Place(i, j)
    BY <1>2, PlaceOf
  <2> QED
    BY <1>3, <2>1
<1>5. Flat(bs) \in [1..v -> Byte]
  BY <1>1, <1>2, <1>4 DEF Flat
<1>6. Flat(bs) \in Seq(Byte) /\ Len(Flat(bs)) = v
  BY <1>5, SeqOfFunction
<1> QED
  BY <1>1, <1>2, <1>3, <1>6

\* Bytes that agree at the places of all blocks are the same.
LEMMA SamePlaces ==
    ASSUME NEW n \in Nat, NEW s \in Seq(Byte), NEW t \in Seq(Byte),
           Len(s) = Whole(n), Len(t) = Whole(n),
           \A i \in 1..n, j \in 1..BlockSize : s[Place(i, j)] = t[Place(i, j)]
    PROVE  s = t
<1>1. PICK v \in Nat : v = Whole(n)
  BY WholeNat
<1>2. ASSUME NEW p \in 1..v PROVE s[p] = t[p]
  BY <1>1, PlaceOf
<1>3. Len(s) = v /\ Len(t) = v
  BY <1>1
<1> HIDE <1>1
<1> QED
  BY <1>2, <1>3

\* Joining blocks joins their bytes.
LEMMA FlatConcat ==
    ASSUME NEW ps \in Seq(Block), NEW qs \in Seq(Block)
    PROVE  /\ ps \o qs \in Seq(Block) /\ Len(ps \o qs) = Len(ps) + Len(qs)
           /\ Flat(ps \o qs) = Flat(ps) \o Flat(qs)
<1> DEFINE m == Len(ps)
           n == Len(qs)
           cs == ps \o qs
           v == Whole(m)
           w == Whole(n)
           s == Flat(ps)
           t == Flat(qs)
           u == Flat(cs)
<1>1. m \in Nat /\ n \in Nat /\ m + n \in Nat
  OBVIOUS
<1>2. /\ cs \in Seq(Block) /\ Len(cs) = m + n
      /\ \A i \in 1..m : cs[i] = ps[i]
      /\ \A i \in 1..n : cs[m + i] = qs[i]
  BY ConcatIs
<1>3. v \in Nat /\ w \in Nat /\ Whole(m + n) = v + w
  <2> HIDE DEF m, n
  <2> QED
    <3>1. Whole(m) \in Nat /\ Whole(n) \in Nat
      BY <1>1, WholeNat
    <3>2. m \in Int /\ n \in Int
      BY <1>1
    <3>3. Whole(m + n) = Whole(m) + Whole(n)
      BY <3>2, WholeAdds
    <3> QED
      BY <3>1, <3>3
<1>4. /\ s \in Seq(Byte) /\ Len(s) = v
      /\ \A i \in 1..m, j \in 1..BlockSize :
            s[Place(i, j)] = ps[i][j] /\ Place(i, j) \in 1..v
  BY FlatIs
<1>5. /\ t \in Seq(Byte) /\ Len(t) = w
      /\ \A i \in 1..n, j \in 1..BlockSize :
            t[Place(i, j)] = qs[i][j] /\ Place(i, j) \in 1..w
  BY FlatIs
<1>6. /\ u \in Seq(Byte) /\ Len(u) = Whole(m + n)
      /\ \A i \in 1..(m + n), j \in 1..BlockSize : u[Place(i, j)] = cs[i][j]
  <2> HIDE DEF cs, m, n
  <2> QED
    BY <1>2, FlatIs
<1>7. /\ s \o t \in Seq(Byte) /\ Len(s \o t) = v + w
      /\ \A p \in 1..v : (s \o t)[p] = s[p]
      /\ \A p \in 1..w : (s \o t)[v + p] = t[p]
  <2> HIDE DEF s, t, v, w
  <2>0. s \in Seq(Byte) /\ t \in Seq(Byte)
    BY <1>4, <1>5
  <2>1. /\ s \o t \in Seq(Byte) /\ Len(s \o t) = Len(s) + Len(t)
        /\ \A p \in 1..Len(s) : (s \o t)[p] = s[p]
        /\ \A p \in 1..Len(t) : (s \o t)[Len(s) + p] = t[p]
    BY <2>0, ConcatIs
  <2> QED
    BY <1>4, <1>5, <2>1
<1> DEFINE st == s \o t
<1> HIDE DEF m, n, cs, v, w, s, t, u, st
<1>8. ASSUME NEW i \in 1..(m + n), NEW j \in 1..BlockSize
      PROVE  st[Place(i, j)] = u[Place(i, j)]
  <2>1. u[Place(i, j)] = cs[i][j]
    BY <1>6
  <2>2. CASE i <= m
    <3>1. i \in 1..m
      BY <1>1, <2>2
    <3>2. s[Place(i, j)] = ps[i][j] /\ Place(i, j) \in 1..v
      BY <1>4, <3>1
    <3>3. st[Place(i, j)] = s[Place(i, j)]
      BY <1>7, <3>2 DEF st
    <3> QED
      BY <1>2, <2>1, <3>1, <3>2, <3>3
  <2>3. CASE i > m
    <3>1. PICK k \in 1..n : i = m + k /\ k \in Nat \ {0}
      <4>1. i - m \in 1..n /\ i = m + (i - m) /\ i - m \in Nat \ {0}
        BY <1>1, <2>3
      <4> QED
        BY <4>1
    <3>2. Place(i, j) = v + Place(k, j)
      BY <1>1, <3>1, PlacesWithin DEF v
    <3>3. Place(k, j) \in 1..w /\ t[Place(k, j)] = qs[k][j]
      BY <1>5
    <3>4. st[v + Place(k, j)] = t[Place(k, j)]
      BY <1>7, <3>3 DEF st
    <3> QED
      BY <1>2, <2>1, <3>1, <3>2, <3>3, <3>4
  <2>4. i <= m \/ i > m
    BY <1>1
  <2> QED
    BY <2>2, <2>3, <2>4
<1>9. st = u
  <2> DEFINE k == m + n
  <2>1. k \in Nat /\ Len(u) = Whole(k) /\ Len(st) = Whole(k) /\ st \in Seq(Byte)
    BY <1>1, <1>3, <1>6, <1>7 DEF st
  <2>2. \A i \in 1..k, j \in 1..BlockSize : st[Place(i, j)] = u[Place(i, j)]
    BY <1>8
  <2> HIDE DEF k
  <2> QED
    BY <1>6, <2>1, <2>2, SamePlaces
<1>10. cs \in Seq(Block) /\ Len(cs) = m + n /\ u = s \o t
  BY <1>2, <1>9 DEF st
<1> QED
  BY <1>10 DEF m, n, cs, s, t, u

\* No blocks, and one.
LEMMA FlatFew ==
    /\ Flat(<<>>) = <<>>
    /\ \A b \in Block : <<b>> \in Seq(Block) /\ Flat(<<b>>) = b
<1>1. Flat(<<>>) = <<>>
  <2>1. <<>> \in Seq(Block) /\ Len(<<>>) = 0
    OBVIOUS
  <2>2. Whole(0) = 0
    <3>1. 0 \in Int
      OBVIOUS
    <3> QED
      BY <3>1, WholeAdds
  <2>3. Flat(<<>>) \in Seq(Byte) /\ Len(Flat(<<>>)) = 0
    BY <2>1, <2>2, FlatIs
  <2> QED
    BY <2>3
<1>2. ASSUME NEW b \in Block PROVE <<b>> \in Seq(Block) /\ Flat(<<b>>) = b
  <2> DEFINE bs == <<b>>
  <2>1. bs \in Seq(Block) /\ Len(bs) = 1 /\ bs[1] = b
    OBVIOUS
  <2>2. Whole(1) = BlockSize /\ Whole(0) = 0
    <3>1. 0 \in Int
      OBVIOUS
    <3> QED
      BY <3>1, WholeAdds
  <2>3. \A j \in 1..BlockSize : Place(1, j) = j
    BY <2>2, Sizes DEF Place
  <2> HIDE DEF bs
  <2>4. /\ Flat(bs) \in Seq(Byte) /\ Len(Flat(bs)) = BlockSize
        /\ \A j \in 1..BlockSize : Flat(bs)[Place(1, j)] = b[j]
    <3>1. 1 \in 1..Len(bs)
      BY <2>1
    <3> QED
      BY <2>1, <2>2, <3>1, FlatIs
  <2>5. b \in Seq(Byte) /\ Len(b) = BlockSize
    BY BlockOfSeq
  <2>6. \A j \in 1..BlockSize : Flat(bs)[j] = b[j]
    BY <2>3, <2>4
  <2>7. Flat(bs) = b
    BY <2>4, <2>5, <2>6
  <2> QED
    BY <2>1, <2>7 DEF bs
<1> QED
  BY <1>1, <1>2

\* A string of which the whole blocks are known.
LEMMA CutAt ==
    ASSUME NEW d \in Seq(Byte), NEW n \in Nat, NEW r \in 0..(BlockSize - 1),
           Len(d) = Whole(n) + r
    PROVE  /\ WholeLen(d) = Whole(n) /\ Whole(n) \in 0..Len(d)
           /\ Rest(d) = SubSeq(d, Whole(n) + 1, Len(d))
           /\ Blocks(d) \in Seq(Block) /\ Len(Blocks(d)) = n
           /\ \A i \in 1..n, j \in 1..BlockSize : Blocks(d)[i][j] = d[Place(i, j)]
<1> DEFINE v == Whole(n)
<1>1. v \in Nat /\ r \in Nat
  BY WholeNat, Sizes
<1>2. PICK b \in Nat \ {0, 1} : b = BlockSize
  BY Sizes
<1>3. (v + r) \div BlockSize = n /\ (v + r) % BlockSize = r
  BY WholeDivides
<1> HIDE DEF v
<1>4. Len(d) = v + r /\ WholeLen(d) = v /\ v \in 0..Len(d)
  BY <1>1, <1>3 DEF WholeLen, v
<1>5. Rest(d) = SubSeq(d, v + 1, Len(d))
  BY <1>4 DEF Rest
<1>6. ASSUME NEW i \in 1..n
      PROVE  /\ SubSeq(d, (i - 1) * BlockSize + 1, i * BlockSize) \in Block
             /\ \A j \in 1..BlockSize :
                  SubSeq(d, (i - 1) * BlockSize + 1, i * BlockSize)[j] = d[Place(i, j)]
  <2>1. PICK w \in Nat : w = Whole(i - 1)
    <3>1. i - 1 \in Nat
      OBVIOUS
    <3> QED
      BY <3>1, WholeNat
  <2>2. (i - 1) * BlockSize = w /\ i * BlockSize = w + b
    <3>1. i \in Int /\ (i - 1) * b + b = i * b
      OBVIOUS
    <3> QED
      BY <1>2, <2>1, <3>1 DEF Whole
  <2>3. \A j \in 1..b : Place(i, j) = w + j /\ w + j <= v
    <3> SUFFICES ASSUME NEW j \in 1..b PROVE Place(i, j) = w + j /\ w + j <= v
      OBVIOUS
    <3>1. Place(i, j) = w + j
      BY <2>1 DEF Place
    <3>2. i \in Nat \ {0} /\ i <= n
      OBVIOUS
    <3>3. Place(i, j) <= v
      BY <1>2, <3>2, PlacesWithin DEF v
    <3> QED
      BY <3>1, <3>3
  <2>4. w + b <= v
    <3>1. b \in 1..b
      OBVIOUS
    <3> QED
      BY <2>3, <3>1
  <2>5. w + b <= Len(d)
    BY <1>1, <1>4, <2>4
  <2>6. /\ SubSeq(d, w + 1, w + b) \in Seq(Byte) /\ Len(SubSeq(d, w + 1, w + b)) = b
        /\ \A j \in 1..b : SubSeq(d, w + 1, w + b)[j] = d[w + j]
    BY <2>5, PartIs
  <2>7. SubSeq(d, w + 1, w + b) \in Block
    BY <1>2, <2>6, BlockOfSeq
  <2> QED
    BY <1>2, <2>2, <2>3, <2>6, <2>7
<1>7. Blocks(d) = [i \in 1..n |-> SubSeq(d, (i - 1) * BlockSize + 1, i * BlockSize)]
  BY <1>3, <1>4 DEF Blocks
<1>8. Blocks(d) \in [1..n -> Block]
  BY <1>6, <1>7
<1>9. Blocks(d) \in Seq(Block) /\ Len(Blocks(d)) = n
  BY <1>8, SeqOfFunction
<1>10. \A i \in 1..n, j \in 1..BlockSize : Blocks(d)[i][j] = d[Place(i, j)]
  BY <1>6, <1>7
<1> QED
  BY <1>4, <1>5, <1>9, <1>10 DEF v

\* Cutting the bytes of blocks, with less than a block behind them, finds them.
LEMMA CutFlat ==
    ASSUME NEW bs \in Seq(Block), NEW rest \in Seq(Byte), Len(rest) < BlockSize
    PROVE  /\ Blocks(Flat(bs) \o rest) = bs
           /\ Rest(Flat(bs) \o rest) = rest
           /\ WholeLen(Flat(bs) \o rest) = Whole(Len(bs))
           /\ Flat(bs) \o rest \in Seq(Byte)
           /\ Len(Flat(bs) \o rest) = Whole(Len(bs)) + Len(rest)
           /\ SubSeq(Flat(bs) \o rest, 1, Whole(Len(bs))) = Flat(bs)
<1> DEFINE n == Len(bs)
           r == Len(rest)
           v == Whole(n)
           s == Flat(bs)
           d == s \o rest
<1>1. n \in Nat /\ r \in Nat /\ r \in 0..(BlockSize - 1) /\ BlockSize \in Nat
  BY Sizes
<1>2. v \in Nat
  BY <1>1, WholeNat
<1>3. /\ s \in Seq(Byte) /\ Len(s) = v
      /\ \A i \in 1..n, j \in 1..BlockSize :
            s[Place(i, j)] = bs[i][j] /\ Place(i, j) \in 1..v
  BY FlatIs
<1> HIDE DEF n, r, v, s
<1>4. /\ d \in Seq(Byte) /\ Len(d) = v + r
      /\ \A p \in 1..v : d[p] = s[p]
      /\ SubSeq(d, 1, v) = s /\ SubSeq(d, v + 1, v + r) = rest
  <2>0. s \in Seq(Byte)
    BY <1>3
  <2>1. /\ d \in Seq(Byte) /\ Len(d) = Len(s) + Len(rest)
        /\ \A p \in 1..Len(s) : d[p] = s[p]
        /\ SubSeq(d, 1, Len(s)) = s /\ SubSeq(d, Len(s) + 1, Len(s) + Len(rest)) = rest
    BY <2>0, ConcatIs
  <2> QED
    BY <1>3, <2>1 DEF r
<1> HIDE DEF d
<1>5. /\ WholeLen(d) = v /\ Rest(d) = SubSeq(d, v + 1, Len(d))
      /\ Blocks(d) \in Seq(Block) /\ Len(Blocks(d)) = n
      /\ \A i \in 1..n, j \in 1..BlockSize : Blocks(d)[i][j] = d[Place(i, j)]
  BY <1>1, <1>4, CutAt DEF v
<1>6. Rest(d) = rest
  BY <1>4, <1>5
<1>7. Blocks(d) = bs
  <2>1. ASSUME NEW i \in 1..n PROVE Blocks(d)[i] = bs[i]
    <3>1. Blocks(d)[i] \in Block /\ bs[i] \in Block
      BY <1>5 DEF n
    <3>2. \A j \in 1..BlockSize : Blocks(d)[i][j] = bs[i][j]
      BY <1>3, <1>4, <1>5
    <3> QED
      BY <3>1, <3>2, SameBlock
  <2>2. Len(bs) = n
    BY DEF n
  <2> QED
    BY <1>5, <2>1, <2>2
<1> QED
  BY <1>4, <1>5, <1>6, <1>7 DEF n, r, v, s, d

\* Whole blocks are cut where they were joined.
LEMMA BlocksOfFlat ==
    ASSUME NEW bs \in Seq(Block)
    PROVE  Flat(bs) \in Seq(Byte) /\ Blocks(Flat(bs)) = bs /\ Rest(Flat(bs)) = <<>>
<1>1. <<>> \in Seq(Byte) /\ Len(<<>>) < BlockSize
  BY Sizes
<1>2. Flat(bs) \in Seq(Byte)
  BY FlatIs
<1>3. Flat(bs) \o <<>> = Flat(bs)
  BY <1>2
<1>4. Blocks(Flat(bs) \o <<>>) = bs /\ Rest(Flat(bs) \o <<>>) = <<>>
  BY <1>1, CutFlat
<1> QED
  BY <1>2, <1>3, <1>4

\* No text, no blocks.
LEMMA NoBlocks == Blocks(<<>>) = <<>> /\ Rest(<<>>) = <<>>
<1>1. PICK bs \in Seq(Block) : bs = <<>>
  <2>1. <<>> \in Seq(Block)
    OBVIOUS
  <2> QED
    BY <2>1
<1>2. Flat(bs) = <<>>
  BY <1>1, FlatFew
<1>3. Blocks(Flat(bs)) = bs /\ Rest(Flat(bs)) = <<>>
  BY BlocksOfFlat
<1> QED
  BY <1>1, <1>2, <1>3

\* Every string is its blocks and a rest.
LEMMA FlatBlocks ==
    ASSUME NEW data \in Seq(Byte)
    PROVE  /\ Blocks(data) \in Seq(Block) /\ Rest(data) \in Seq(Byte)
           /\ Len(Rest(data)) < BlockSize /\ Len(Rest(data)) = Len(data) % BlockSize
           /\ data = Flat(Blocks(data)) \o Rest(data)
           /\ WholeLen(data) = Whole(Len(Blocks(data)))
           /\ SubSeq(data, 1, WholeLen(data)) = Flat(Blocks(data))
<1> DEFINE len == Len(data)
           n == len \div BlockSize
           r == len % BlockSize
           v == Whole(n)
           bs == Blocks(data)
           s == SubSeq(data, 1, v)
<1>1. len \in Nat
  OBVIOUS
<1>2. n \in Nat /\ r \in 0..(BlockSize - 1) /\ len = v + r
  <2> HIDE DEF len
  <2> QED
    BY <1>1, WholeAndRest
<1> HIDE DEF n, r
<1>3. v \in Nat /\ r \in Nat /\ r < BlockSize
  BY <1>2, WholeNat, Sizes
<1>4. /\ WholeLen(data) = v /\ v \in 0..len
      /\ Rest(data) = SubSeq(data, v + 1, len)
      /\ bs \in Seq(Block) /\ Len(bs) = n
      /\ \A i \in 1..n, j \in 1..BlockSize : bs[i][j] = data[Place(i, j)]
  BY <1>2, CutAt
<1> HIDE DEF v, bs
<1>5. /\ s \in Seq(Byte) /\ Len(s) = v
      /\ \A p \in 1..v : s[p] = data[p]
      /\ Rest(data) \in Seq(Byte) /\ Len(Rest(data)) = len - v
      /\ s \o Rest(data) = data
  <2> HIDE DEF len
  <2>1. len = Len(data)
    BY DEF len
  <2>2. SubSeq(data, 1, v) \in Seq(Byte) /\ Len(SubSeq(data, 1, v)) = v
        /\ (\A p \in 1..v : SubSeq(data, 1, v)[p] = data[p])
        /\ SubSeq(data, v + 1, Len(data)) \in Seq(Byte)
        /\ Len(SubSeq(data, v + 1, Len(data))) = Len(data) - v
        /\ SubSeq(data, 1, v) \o SubSeq(data, v + 1, Len(data)) = data
    BY <1>4, <2>1, FrontIs
  <2> QED
    BY <1>4, <2>1, <2>2
<1>6. Len(Rest(data)) = r
  BY <1>2, <1>3, <1>5
<1> HIDE DEF s
<1>7. s = Flat(bs)
  <2>1. /\ Flat(bs) \in Seq(Byte) /\ Len(Flat(bs)) = Whole(n)
        /\ \A i \in 1..n, j \in 1..BlockSize :
              Flat(bs)[Place(i, j)] = bs[i][j] /\ Place(i, j) \in 1..Whole(n)
    BY <1>4, FlatIs
  <2>2. ASSUME NEW i \in 1..n, NEW j \in 1..BlockSize
        PROVE  s[Place(i, j)] = Flat(bs)[Place(i, j)]
    <3>1. Place(i, j) \in 1..v /\ Flat(bs)[Place(i, j)] = bs[i][j]
      BY <2>1 DEF v
    <3> QED
      BY <1>4, <1>5, <3>1
  <2> QED
    BY <1>2, <1>5, <2>1, <2>2, SamePlaces DEF v
<1> QED
  BY <1>3, <1>4, <1>5, <1>6, <1>7 DEF s, bs, v, r, len

-----------------------------------------------------------------------------
(* Objects, and one block of each mode.                                     *)

ModeOK == mode \in {"ECB", "CBC", "CTR", "GCM"}

IvType == IF mode = "GCM" THEN [1..IvSize -> Byte] ELSE Block

Obj ==
    [buffer : Seq(Byte), result : Seq(Byte), iv : IvType, original : IvType,
     j0 : Block, absorbed : Seq(Block)]

\* The definition of the mode holds for each block.
Right(o, ins, outs, iv) == \A i \in 1..Len(ins) : RightBlock(o, ins, outs, iv, i)

\* What an object keeps for the next block.
Chained(o, s, ins, outs, iv) ==
    /\ mode = "CBC" /\ o = "enc" =>
          s.iv = IF Len(outs) = 0 THEN iv ELSE outs[Len(outs)]
    /\ mode = "CBC" /\ o = "dec" =>
          s.iv = IF Len(ins) = 0 THEN iv ELSE ins[Len(ins)]
    /\ mode = "CTR" => s.iv = CounterAt(iv, Len(ins))
    /\ mode = "GCM" =>
          /\ s.iv = iv /\ s.j0 = GcmCounter(iv, Len(ins) + 2)
          /\ s.absorbed = IF o = "enc" THEN outs ELSE ins

\* The blocks given and the blocks returned; sure: as the mode defines them.
Streamed(o, s, ins, outs, iv, sure) ==
    /\ ins \in Seq(Block) /\ outs \in Seq(Block) /\ Len(outs) = Len(ins)
    /\ s.result = Flat(outs)
    /\ sure => Right(o, ins, outs, iv) /\ Chained(o, s, ins, outs, iv)

\* Exclusive or undoes itself.
LEMMA XorIs ==
    ASSUME NEW a \in Block, NEW b \in Block
    PROVE  /\ XorBlock(a, b) \in Block
           /\ XorBlock(XorBlock(a, b), b) = a
           /\ XorBlock(a, b) = XorBlock(b, a)
           /\ \A i \in 1..BlockSize : XorBlock(a, b)[i] = XorByte[<<a[i], b[i]>>]
<1>1. \A i \in 1..BlockSize : a[i] \in Byte /\ b[i] \in Byte
  BY DEF Block
<1>2. \A x \in Byte, y \in Byte :
        /\ XorByte[<<x, y>>] \in Byte /\ XorByte[<<XorByte[<<x, y>>], y>>] = x
        /\ XorByte[<<x, y>>] = XorByte[<<y, x>>]
  BY XorAssumption
<1>3. \A i \in 1..BlockSize : XorBlock(a, b)[i] = XorByte[<<a[i], b[i]>>]
                              /\ XorBlock(b, a)[i] = XorByte[<<b[i], a[i]>>]
  BY DEF XorBlock
<1>4. XorBlock(a, b) \in Block /\ XorBlock(b, a) \in Block
  BY <1>1, <1>2 DEF XorBlock, Block
<1>5. XorBlock(XorBlock(a, b), b) \in Block
      /\ \A i \in 1..BlockSize : XorBlock(XorBlock(a, b), b)[i] = XorByte[<<XorBlock(a, b)[i], b[i]>>]
  <2> DEFINE c == XorBlock(a, b)
  <2>1. \A i \in 1..BlockSize : c[i] \in Byte
    BY <1>4 DEF Block
  <2> HIDE DEF c
  <2>2. XorBlock(c, b) \in Block /\ \A i \in 1..BlockSize : XorBlock(c, b)[i] = XorByte[<<c[i], b[i]>>]
    BY <1>1, <1>2, <2>1 DEF XorBlock, Block
  <2> QED
    BY <2>2 DEF c
<1>6. ASSUME NEW i \in 1..BlockSize PROVE XorBlock(XorBlock(a, b), b)[i] = a[i]
  <2>1. PICK x \in Byte : x = a[i]
    BY <1>1
  <2>2. PICK y \in Byte : y = b[i]
    BY <1>1
  <2>3. XorBlock(a, b)[i] = XorByte[<<x, y>>]
    BY <1>3, <2>1, <2>2
  <2>4. XorBlock(XorBlock(a, b), b)[i] = XorByte[<<XorByte[<<x, y>>], y>>]
    BY <1>5, <2>2, <2>3
  <2>5. XorByte[<<XorByte[<<x, y>>], y>>] = x
    BY <1>2
  <2> QED
    BY <2>1, <2>4, <2>5
<1>7. XorBlock(XorBlock(a, b), b) = a
  BY <1>5, <1>6, SameBlock
<1>8. XorBlock(a, b) = XorBlock(b, a)
  <2>1. ASSUME NEW i \in 1..BlockSize PROVE XorBlock(a, b)[i] = XorBlock(b, a)[i]
    <3>1. PICK x \in Byte, y \in Byte : x = a[i] /\ y = b[i]
      BY <1>1
    <3>2. XorByte[<<x, y>>] = XorByte[<<y, x>>]
      BY <1>2
    <3> QED
      BY <1>3, <1>4, <3>1, <3>2
  <2> QED
    BY <1>4, <2>1, SameBlock
<1> QED
  BY <1>3, <1>4, <1>7, <1>8

\* The cipher can be undone.
LEMMA CipherIs ==
    ASSUME NEW b \in Block
    PROVE  /\ Encrypt[b] \in Block
           /\ Decrypt[b] \in Block /\ Encrypt[Decrypt[b]] = b
<1>1. Encrypt[b] \in Block
  BY CipherAssumption
<1>2. \E p \in Block : Encrypt[p] = b
  BY CipherAssumption
<1>3. Decrypt[b] = CHOOSE p \in Block : Encrypt[p] = b
  BY DEF Decrypt
<1>4. Decrypt[b] \in Block /\ Encrypt[Decrypt[b]] = b
  BY <1>2, <1>3
<1> QED
  BY <1>1, <1>4

\* What is right of a block depends on it and the one before.
LEMMA RightLocal ==
    ASSUME NEW o, NEW a, NEW b, NEW c, NEW d, NEW iv, NEW i \in Nat \ {0},
           a[i] = c[i], b[i] = d[i],
           i # 1 => a[i - 1] = c[i - 1] /\ b[i - 1] = d[i - 1]
    PROVE  RightBlock(o, a, b, iv, i) <=> RightBlock(o, c, d, iv, i)
<1>1. CASE i = 1
  BY <1>1 DEF RightBlock
<1>2. CASE i # 1
  BY <1>2 DEF RightBlock
<1> QED
  BY <1>1, <1>2

\* One element more.
LEMMA AppendIs ==
    ASSUME NEW S, NEW s \in Seq(S), NEW e \in S
    PROVE  /\ Append(s, e) \in Seq(S) /\ Len(Append(s, e)) = Len(s) + 1
           /\ \A i \in 1..Len(s) : Append(s, e)[i] = s[i]
           /\ Append(s, e)[Len(s) + 1] = e
           /\ Append(s, e) = s \o <<e>>
OBVIOUS

\* A block more, if it is right and leaves the object as it must.
LEMMA OneBlockMore ==
    ASSUME NEW o, NEW s, NEW t, NEW ins, NEW outs, NEW iv, NEW sure,
           Streamed(o, s, ins, outs, iv, sure),
           NEW b \in Block, NEW y \in Block, t.result = s.result \o y,
           sure => /\ RightBlock(o, Append(ins, b), Append(outs, y), iv, Len(ins) + 1)
                   /\ Chained(o, t, Append(ins, b), Append(outs, y), iv)
    PROVE  Streamed(o, t, Append(ins, b), Append(outs, y), iv, sure)
<1> DEFINE in2 == Append(ins, b)
           out2 == Append(outs, y)
           n == Len(ins)
<1>1. ins \in Seq(Block) /\ outs \in Seq(Block) /\ Len(outs) = n /\ s.result = Flat(outs)
  BY DEF Streamed
<1>2. n \in Nat
  BY <1>1
<1>3. /\ in2 \in Seq(Block) /\ Len(in2) = n + 1
      /\ \A i \in 1..n : in2[i] = ins[i]
  BY <1>1, AppendIs
<1>4. /\ out2 \in Seq(Block) /\ Len(out2) = n + 1
      /\ \A i \in 1..n : out2[i] = outs[i]
      /\ out2 = outs \o <<y>>
  BY <1>1, AppendIs
<1>5. t.result = Flat(out2)
  <2>1. <<y>> \in Seq(Block) /\ Flat(<<y>>) = y
    BY FlatFew
  <2>2. Flat(outs \o <<y>>) = Flat(outs) \o Flat(<<y>>)
    BY <1>1, <2>1, FlatConcat
  <2> QED
    BY <1>1, <1>4, <2>1, <2>2
<1> HIDE DEF in2, out2, n
<1>6. ASSUME sure PROVE Right(o, in2, out2, iv)
  <2> SUFFICES ASSUME NEW i \in 1..(n + 1) PROVE RightBlock(o, in2, out2, iv, i)
    BY <1>3 DEF Right
  <2>1. CASE i = n + 1
    BY <1>6, <2>1 DEF in2, out2, n
  <2>2. CASE i # n + 1
    <3>1. i \in 1..n /\ i \in Nat \ {0} /\ (i # 1 => i - 1 \in 1..n)
      BY <1>2, <2>2
    <3>2. RightBlock(o, ins, outs, iv, i)
      BY <1>6, <3>1 DEF Streamed, Right, n
    <3>3. ins[i] = in2[i] /\ outs[i] = out2[i]
          /\ (i # 1 => ins[i - 1] = in2[i - 1] /\ outs[i - 1] = out2[i - 1])
      BY <1>3, <1>4, <3>1
    <3> QED
      BY <3>1, <3>2, <3>3, RightLocal
  <2> QED
    BY <2>1, <2>2
<1>7. ASSUME sure PROVE Chained(o, t, in2, out2, iv)
  BY <1>7 DEF in2, out2
<1>8. Streamed(o, t, in2, out2, iv, sure)
  BY <1>3, <1>4, <1>5, <1>6, <1>7 DEF Streamed
<1> QED
  BY <1>8 DEF in2, out2

\* The ends of a sequence with one element more.
LEMMA LastIs ==
    ASSUME NEW S, NEW s \in Seq(S), NEW e \in S
    PROVE  /\ Len(Append(s, e)) = Len(s) + 1 /\ Append(s, e)[Len(s) + 1] = e
           /\ Len(s) # 0 => Append(s, e)[Len(s)] = s[Len(s)] /\ s[Len(s)] \in S
<1>1. Len(s) \in Nat
  OBVIOUS
<1>2. Len(s) # 0 => Len(s) \in 1..Len(s)
  BY <1>1
<1> QED
  BY <1>2, AppendIs

\* What the object is after a block, in the fields that every mode has.
LEMMA ResultGrows ==
    ASSUME NEW s \in Obj, NEW y \in Block
    PROVE  s.result \o y \in Seq(Byte)
<1>1. s.result \in Seq(Byte) /\ y \in Seq(Byte)
  BY BlockOfSeq DEF Obj
<1> QED
  BY <1>1

\* An object after one more block.
Grown(o, s, t, b, ins, outs, iv, sure) ==
    /\ t \in Obj /\ t.buffer = s.buffer /\ t.original = s.original
    /\ \E y \in Block : Streamed(o, t, Append(ins, b), Append(outs, y), iv, sure)

\* ECB: each block for itself.
LEMMA EcbKeeps ==
    ASSUME mode = "ECB", NEW o \in Objects, NEW s \in Obj, NEW ins, NEW outs,
           NEW iv \in IvType, NEW sure \in BOOLEAN,
           Streamed(o, s, ins, outs, iv, sure), NEW b \in Block
    PROVE  Grown(o, s, EcbBlock(o, s, b), b, ins, outs, iv, sure)
<1> DEFINE y == IF o = "enc" THEN Encrypt[b] ELSE Decrypt[b]
           t == EcbBlock(o, s, b)
<1>1. y \in Block /\ (o = "enc" => y = Encrypt[b]) /\ (o = "dec" => Encrypt[y] = b)
  BY CipherIs
<1>2. s.result \o y \in Seq(Byte)
  BY <1>1, ResultGrows
<1>3. t = [s EXCEPT !.result = s.result \o y]
  BY DEF EcbBlock
<1> HIDE DEF y, t
<1>4. t \in Obj /\ t.buffer = s.buffer /\ t.original = s.original /\ t.result = s.result \o y
  BY <1>2, <1>3 DEF Obj
<1>5. ins \in Seq(Block) /\ outs \in Seq(Block) /\ Len(outs) = Len(ins)
  BY DEF Streamed
<1>6. Append(ins, b)[Len(ins) + 1] = b /\ Append(outs, y)[Len(ins) + 1] = y
  BY <1>1, <1>5, LastIs
<1>7. RightBlock(o, Append(ins, b), Append(outs, y), iv, Len(ins) + 1)
  BY <1>1, <1>6 DEF RightBlock, Objects
<1>8. Chained(o, t, Append(ins, b), Append(outs, y), iv)
  BY DEF Chained
<1>9. Streamed(o, t, Append(ins, b), Append(outs, y), iv, sure)
  BY <1>1, <1>4, <1>7, <1>8, OneBlockMore
<1> QED
  BY <1>1, <1>4, <1>9 DEF t, Grown

\* CBC encryption chains to the block it has written.
LEMMA CbcEncryptKeeps ==
    ASSUME mode = "CBC", NEW s \in Obj, NEW ins, NEW outs,
           NEW iv \in IvType, NEW sure \in BOOLEAN,
           Streamed("enc", s, ins, outs, iv, sure), NEW b \in Block
    PROVE  Grown("enc", s, CbcEncrypt(s, b), b, ins, outs, iv, sure)
<1> DEFINE y == Encrypt[XorBlock(b, s.iv)]
           t == CbcEncrypt(s, b)
<1>1. s.iv \in Block /\ IvType = Block
  BY DEF Obj, IvType
<1>2. y \in Block
  BY <1>1, XorIs, CipherIs
<1>3. s.result \o y \in Seq(Byte)
  BY <1>2, ResultGrows
<1>4. t = [s EXCEPT !.result = s.result \o y, !.iv = y]
  BY DEF CbcEncrypt
<1>5. y = Encrypt[XorBlock(b, s.iv)]
  OBVIOUS
<1> HIDE DEF y, t
<1>6. /\ t \in Obj /\ t.buffer = s.buffer /\ t.original = s.original
      /\ t.result = s.result \o y /\ t.iv = y
  BY <1>1, <1>2, <1>3, <1>4 DEF Obj
<1> DEFINE n == Len(ins)
           in2 == Append(ins, b)
           out2 == Append(outs, y)
<1>7. ins \in Seq(Block) /\ outs \in Seq(Block) /\ Len(outs) = n /\ n \in Nat
  BY DEF Streamed
<1>8. in2[n + 1] = b /\ out2[n + 1] = y /\ Len(out2) = n + 1
      /\ (n # 0 => out2[n] = outs[n])
  BY <1>2, <1>7, LastIs
<1>9. sure => s.iv = IF n = 0 THEN iv ELSE outs[n]
  BY <1>7 DEF Streamed, Chained
<1> HIDE DEF n, in2, out2
<1>10. sure => RightBlock("enc", in2, out2, iv, n + 1)
  <2>1. n + 1 = 1 <=> n = 0
    BY <1>7
  <2>2. (n + 1) - 1 = n
    BY <1>7
  <2>3. sure => s.iv = IF n + 1 = 1 THEN iv ELSE out2[(n + 1) - 1]
    BY <1>8, <1>9, <2>1, <2>2
  <2> QED
    BY <1>5, <1>8, <2>3 DEF RightBlock
<1>11. Chained("enc", t, in2, out2, iv)
  BY <1>6, <1>7, <1>8 DEF Chained
<1>12. Streamed("enc", t, in2, out2, iv, sure)
  BY <1>2, <1>6, <1>10, <1>11, OneBlockMore DEF n, in2, out2
<1> QED
  BY <1>2, <1>6, <1>12 DEF t, in2, out2, Grown

\* CBC decryption chains to the block it has read, unless that was overwritten.
LEMMA CbcDecryptKeeps ==
    ASSUME mode = "CBC", NEW s \in Obj, NEW ins, NEW outs,
           NEW iv \in IvType, NEW sure \in BOOLEAN,
           Streamed("dec", s, ins, outs, iv, sure), NEW b \in Block,
           NEW inplace \in BOOLEAN, sure => ~inplace
    PROVE  Grown("dec", s, CbcDecrypt(s, b, inplace), b, ins, outs, iv, sure)
<1> DEFINE y == XorBlock(Decrypt[b], s.iv)
           t == CbcDecrypt(s, b, inplace)
<1>1. s.iv \in Block /\ IvType = Block
  BY DEF Obj, IvType
<1>2. y \in Block /\ Encrypt[XorBlock(y, s.iv)] = b
  <2>1. Decrypt[b] \in Block /\ Encrypt[Decrypt[b]] = b
    BY CipherIs
  <2>2. y \in Block /\ XorBlock(y, s.iv) = Decrypt[b]
    BY <1>1, <2>1, XorIs
  <2> QED
    BY <2>1, <2>2
<1>3. s.result \o y \in Seq(Byte)
  BY <1>2, ResultGrows
<1>4. t = [s EXCEPT !.result = s.result \o y, !.iv = IF inplace THEN y ELSE b]
  BY DEF CbcDecrypt
<1> HIDE DEF y, t
<1>6. /\ t \in Obj /\ t.buffer = s.buffer /\ t.original = s.original
      /\ t.result = s.result \o y /\ (~inplace => t.iv = b)
  BY <1>1, <1>2, <1>3, <1>4 DEF Obj
<1> DEFINE n == Len(ins)
           in2 == Append(ins, b)
           out2 == Append(outs, y)
<1>7. ins \in Seq(Block) /\ outs \in Seq(Block) /\ Len(outs) = n /\ n \in Nat
  BY DEF Streamed
<1>8. in2[n + 1] = b /\ out2[n + 1] = y /\ Len(in2) = n + 1
      /\ (n # 0 => in2[n] = ins[n])
  BY <1>2, <1>7, LastIs
<1>9. sure => s.iv = IF n = 0 THEN iv ELSE ins[n]
  BY <1>7 DEF Streamed, Chained
<1> HIDE DEF n, in2, out2
<1>10. sure => RightBlock("dec", in2, out2, iv, n + 1)
  <2>1. n + 1 = 1 <=> n = 0
    BY <1>7
  <2>2. (n + 1) - 1 = n
    BY <1>7
  <2>3. sure => s.iv = IF n + 1 = 1 THEN iv ELSE in2[(n + 1) - 1]
    BY <1>8, <1>9, <2>1, <2>2
  <2> QED
    BY <1>2, <1>8, <2>3 DEF RightBlock
<1>11. sure => Chained("dec", t, in2, out2, iv)
  BY <1>6, <1>7, <1>8 DEF Chained
<1>12. Streamed("dec", t, in2, out2, iv, sure)
  BY <1>2, <1>6, <1>10, <1>11, OneBlockMore DEF n, in2, out2
<1> QED
  BY <1>2, <1>6, <1>12 DEF t, in2, out2, Grown

\* CTR: the counter is the number of blocks behind the IV.
LEMMA CtrKeeps ==
    ASSUME mode = "CTR", NEW o \in Objects, NEW s \in Obj, NEW ins, NEW outs,
           NEW iv \in IvType, NEW sure \in BOOLEAN,
           Streamed(o, s, ins, outs, iv, sure), NEW b \in Block
    PROVE  Grown(o, s, CtrBlock(s, b), b, ins, outs, iv, sure)
<1> DEFINE y == XorBlock(b, Encrypt[s.iv])
           t == CtrBlock(s, b)
<1>1. s.iv \in Block /\ IvType = Block /\ iv \in Block
  BY DEF Obj, IvType
<1>2. y \in Block
  BY <1>1, XorIs, CipherIs
<1>3. s.result \o y \in Seq(Byte)
  BY <1>2, ResultGrows
<1>4. t = [s EXCEPT !.result = s.result \o y, !.iv = Increment(s.iv)]
  BY DEF CtrBlock
<1>5. y = XorBlock(b, Encrypt[s.iv])
  OBVIOUS
<1>6. Increment(s.iv) \in Block
  <2>1. s.iv \in Seq(Byte) /\ Len(s.iv) = BlockSize
    BY <1>1, BlockOfSeq
  <2>2. CounterAt(s.iv, 0) = s.iv
    BY <2>1, CounterZero
  <2>3. \A k \in Nat : Increment(CounterAt(s.iv, k)) = CounterAt(s.iv, k + 1)
                       /\ CounterAt(s.iv, k) \in Seq(Byte) /\ Len(CounterAt(s.iv, k)) = BlockSize
    BY <2>1, CounterNext, CounterType
  <2>4. 0 \in Nat /\ 0 + 1 = 1 /\ 1 \in Nat
    OBVIOUS
  <2>5. Increment(s.iv) = CounterAt(s.iv, 1)
    BY <2>2, <2>3, <2>4
  <2>6. Increment(s.iv) \in Seq(Byte) /\ Len(Increment(s.iv)) = BlockSize
    BY <2>3, <2>4, <2>5
  <2> QED
    BY <2>6, BlockOfSeq
<1> HIDE DEF y, t
<1>7. /\ t \in Obj /\ t.buffer = s.buffer /\ t.original = s.original
      /\ t.result = s.result \o y /\ t.iv = Increment(s.iv)
  BY <1>1, <1>2, <1>3, <1>4, <1>6 DEF Obj
<1> DEFINE n == Len(ins)
           in2 == Append(ins, b)
           out2 == Append(outs, y)
<1>8. ins \in Seq(Block) /\ outs \in Seq(Block) /\ Len(outs) = n /\ n \in Nat
  BY DEF Streamed
<1>9. in2[n + 1] = b /\ out2[n + 1] = y /\ Len(in2) = n + 1
  BY <1>2, <1>8, LastIs
<1>10. sure => s.iv = CounterAt(iv, n)
  BY <1>8 DEF Streamed, Chained
<1> HIDE DEF n, in2, out2
<1>11. sure => RightBlock(o, in2, out2, iv, n + 1)
  <2>1. (n + 1) - 1 = n
    BY <1>8
  <2> QED
    BY <1>5, <1>9, <1>10, <2>1 DEF RightBlock
<1>12. sure => Chained(o, t, in2, out2, iv)
  <2>1. iv \in Seq(Byte)
    BY <1>1, BlockOfSeq
  <2>2. Increment(CounterAt(iv, n)) = CounterAt(iv, n + 1)
    BY <1>8, <2>1, CounterNext
  <2> QED
    BY <1>7, <1>9, <1>10, <2>2 DEF Chained
<1>13. Streamed(o, t, in2, out2, iv, sure)
  BY <1>2, <1>7, <1>11, <1>12, OneBlockMore DEF n, in2, out2
<1> QED
  BY <1>2, <1>7, <1>13 DEF t, in2, out2, Grown

\* GCM: the counter, and the blocks the tag is made of.
LEMMA GcmKeeps ==
    ASSUME mode = "GCM", NEW o \in Objects, NEW s \in Obj, NEW ins, NEW outs,
           NEW iv \in IvType, NEW sure \in BOOLEAN,
           Streamed(o, s, ins, outs, iv, sure), NEW b \in Block
    PROVE  Grown(o, s, GcmBlock(o, s, b), b, ins, outs, iv, sure)
<1> DEFINE y == XorBlock(Encrypt[s.j0], b)
           t == GcmBlock(o, s, b)
           h == IF o = "enc" THEN y ELSE b
<1>1. s.j0 \in Block /\ s.absorbed \in Seq(Block) /\ iv \in [1..IvSize -> Byte]
  BY DEF Obj, IvType
<1>2. y \in Block /\ y = XorBlock(b, Encrypt[s.j0]) /\ h \in Block
  BY <1>1, XorIs, CipherIs
<1>3. s.result \o y \in Seq(Byte) /\ Append(s.absorbed, h) \in Seq(Block)
  BY <1>1, <1>2, ResultGrows, AppendIs
<1>4. t = [s EXCEPT !.result = s.result \o y, !.j0 = Inc32(s.j0),
                    !.absorbed = Append(s.absorbed, h)]
  BY DEF GcmBlock
<1>5. Inc32(s.j0) \in Block
  <2>1. PICK k \in Nat : k = IvSize
    BY Sizes
  <2>2. PICK m \in Nat \ {0} : m = BlockSize - IvSize /\ BlockSize = k + m
    BY <2>1, CounterBytes
  <2>3. s.j0 \in Seq(Byte) /\ Len(s.j0) = k + m
    BY <1>1, <2>2, BlockOfSeq
  <2> DEFINE u == SubSeq(s.j0, 1, k)
             c == SubSeq(s.j0, k + 1, k + m)
  <2>4. u \in Seq(Byte) /\ Len(u) = k /\ c \in Seq(Byte) /\ Len(c) = m
    <3>1. k \in 0..Len(s.j0) /\ k + m <= Len(s.j0) /\ m \in Nat
      BY <2>3
    <3>2. u \in Seq(Byte) /\ Len(u) = k
      BY <2>3, <3>1, FrontIs
    <3>3. c \in Seq(Byte) /\ Len(c) = m
      BY <2>3, <3>1, PartIs
    <3> QED
      BY <3>2, <3>3
  <2>5. Inc32(s.j0) = u \o Increment(c)
    BY <2>1, <2>2 DEF Inc32
  <2> HIDE DEF u, c
  <2>6. Increment(c) \in Seq(Byte) /\ Len(Increment(c)) = m
    <3>1. CounterAt(c, 0) = c
      BY <2>4, CounterZero
    <3>2. \A i \in Nat : Increment(CounterAt(c, i)) = CounterAt(c, i + 1)
                         /\ CounterAt(c, i) \in Seq(Byte) /\ Len(CounterAt(c, i)) = m
      BY <2>4, CounterNext, CounterType
    <3>3. 0 \in Nat /\ 0 + 1 = 1 /\ 1 \in Nat
      OBVIOUS
    <3>4. Increment(c) = CounterAt(c, 1)
      BY <3>1, <3>2, <3>3
    <3> QED
      BY <3>2, <3>3, <3>4
  <2> DEFINE d == Increment(c)
  <2> HIDE DEF d
  <2>7. u \o d \in Seq(Byte) /\ Len(u \o d) = k + m
    <3>1. d \in Seq(Byte) /\ Len(d) = m
      BY <2>6 DEF d
    <3> QED
      BY <2>4, <3>1
  <2> QED
    BY <2>2, <2>5, <2>7, BlockOfSeq DEF d
<1>6. h = IF o = "enc" THEN y ELSE b
  OBVIOUS
<1> HIDE DEF y, t, h
<1>7. /\ t \in Obj /\ t.buffer = s.buffer /\ t.original = s.original
      /\ t.result = s.result \o y /\ t.iv = s.iv /\ t.j0 = Inc32(s.j0)
      /\ t.absorbed = Append(s.absorbed, h)
  BY <1>1, <1>3, <1>4, <1>5 DEF Obj
<1> DEFINE n == Len(ins)
           in2 == Append(ins, b)
           out2 == Append(outs, y)
<1>8. ins \in Seq(Block) /\ outs \in Seq(Block) /\ Len(outs) = n /\ n \in Nat
  BY DEF Streamed
<1>9. in2[n + 1] = b /\ out2[n + 1] = y /\ Len(in2) = n + 1
  BY <1>2, <1>8, LastIs
<1>10. sure => s.iv = iv /\ s.j0 = GcmCounter(iv, n + 2)
               /\ s.absorbed = IF o = "enc" THEN outs ELSE ins
  BY <1>8 DEF Streamed, Chained
<1>11. (o = "enc" => Append(outs, h) = out2) /\ (o # "enc" => Append(ins, h) = in2)
  BY <1>6
<1> HIDE DEF n, in2, out2
<1>12. sure => RightBlock(o, in2, out2, iv, n + 1)
  <2>1. (n + 1) + 1 = n + 2
    BY <1>8
  <2> QED
    BY <1>2, <1>9, <1>10, <2>1 DEF RightBlock, GcmCounter
<1>13. sure => Chained(o, t, in2, out2, iv)
  <2>1. PICK m \in Nat : m = n + 2 /\ m + 1 = (n + 1) + 2
    BY <1>8
  <2>2. Inc32(GcmCounter(iv, m)) = GcmCounter(iv, m + 1)
    BY <1>1, GcmCounterNext
  <2> QED
    BY <1>7, <1>9, <1>10, <1>11, <2>1, <2>2 DEF Chained
<1>14. Streamed(o, t, in2, out2, iv, sure)
  BY <1>2, <1>7, <1>12, <1>13, OneBlockMore DEF n, in2, out2
<1> QED
  BY <1>2, <1>7, <1>14 DEF t, in2, out2, Grown

\* One block, in whatever mode: the object stays one, and what it returned is
\* still what the mode says, where the code says it.
LEMMA HandleBlockKeeps ==
    ASSUME ModeOK, NEW o \in Objects, NEW s \in Obj, NEW ins, NEW outs,
           NEW iv \in IvType, NEW sure \in BOOLEAN,
           Streamed(o, s, ins, outs, iv, sure), NEW b \in Block,
           NEW inplace \in BOOLEAN,
           sure => ~(mode = "CBC" /\ o = "dec" /\ inplace)
    PROVE  Grown(o, s, HandleBlock(o, s, b, inplace), b, ins, outs, iv, sure)
<1>1. CASE mode = "ECB"
  <2>1. HandleBlock(o, s, b, inplace) = EcbBlock(o, s, b)
    BY <1>1 DEF HandleBlock
  <2> QED
    BY <1>1, <2>1, EcbKeeps
<1>2. CASE mode = "CBC" /\ o = "enc"
  <2>1. HandleBlock(o, s, b, inplace) = CbcEncrypt(s, b)
    BY <1>2 DEF HandleBlock
  <2> QED
    BY <1>2, <2>1, CbcEncryptKeeps
<1>3. CASE mode = "CBC" /\ o = "dec"
  <2>1. HandleBlock(o, s, b, inplace) = CbcDecrypt(s, b, inplace)
    BY <1>3 DEF HandleBlock
  <2> QED
    BY <1>3, <2>1, CbcDecryptKeeps
<1>4. CASE mode = "CTR"
  <2>1. HandleBlock(o, s, b, inplace) = CtrBlock(s, b)
    BY <1>4 DEF HandleBlock
  <2> QED
    BY <1>4, <2>1, CtrKeeps
<1>5. CASE mode = "GCM"
  <2>1. HandleBlock(o, s, b, inplace) = GcmBlock(o, s, b)
    BY <1>5 DEF HandleBlock
  <2> QED
    BY <1>5, <2>1, GcmKeeps
<1> QED
  BY <1>1, <1>2, <1>3, <1>4, <1>5 DEF ModeOK, Objects

-----------------------------------------------------------------------------
(* Block after block: handle().                                             *)

\* The objects after each block, by name.
Steps(o, s, blocks, inplace) ==
    CHOOSE done : done = [n \in 0..Len(blocks) |->
        IF n = 0 THEN s ELSE HandleBlock(o, done[n - 1], blocks[n], inplace)]

\* handle() by the names of its steps.
LEMMA HandleIs ==
    ASSUME NEW o, NEW s, NEW data, NEW inplace
    PROVE  Handle(o, s, data, inplace)
             = Steps(o, s, Blocks(data), inplace)[Len(Blocks(data))]
BY DEF Handle, Steps

\* Objects that have returned whole blocks, which is all of them.
Returning == {x \in Obj : \E outs \in Seq(Block) : x.result = Flat(outs)}

\* A block more leaves an object that has returned whole blocks.
LEMMA HandleBlockType ==
    ASSUME ModeOK, NEW o \in Objects, NEW s \in Returning, NEW b \in Block,
           NEW inplace \in BOOLEAN
    PROVE  HandleBlock(o, s, b, inplace) \in Returning
<1>1. PICK outs \in Seq(Block) : s.result = Flat(outs)
  BY DEF Returning
<1>2. s \in Obj /\ s.iv \in IvType
  BY DEF Returning, Obj
<1>3. PICK iv \in IvType : iv = s.iv
  BY <1>2
<1>4. PICK sure \in BOOLEAN : ~sure
  OBVIOUS
<1>5. Streamed(o, s, outs, outs, iv, sure)
  BY <1>1, <1>4 DEF Streamed
<1>6. Grown(o, s, HandleBlock(o, s, b, inplace), b, outs, outs, iv, sure)
  BY <1>2, <1>4, <1>5, HandleBlockKeeps
<1>7. PICK y \in Block : Streamed(o, HandleBlock(o, s, b, inplace), Append(outs, b),
                                  Append(outs, y), iv, sure)
  BY <1>6 DEF Grown
<1>8. /\ Append(outs, y) \in Seq(Block)
      /\ HandleBlock(o, s, b, inplace).result = Flat(Append(outs, y))
  BY <1>7 DEF Streamed
<1> QED
  BY <1>6, <1>8 DEF Grown, Returning

\* Each step handles one block.
LEMMA StepsAre ==
    ASSUME ModeOK, NEW o \in Objects, NEW s \in Returning,
           NEW blocks \in Seq(Block), NEW inplace \in BOOLEAN
    PROVE  /\ Steps(o, s, blocks, inplace)[0] = s
           /\ \A n \in 1..Len(blocks) :
                Steps(o, s, blocks, inplace)[n] =
                    HandleBlock(o, Steps(o, s, blocks, inplace)[n - 1], blocks[n], inplace)
<1>1. PICK len \in Nat : len = Len(blocks)
  OBVIOUS
<1> DEFINE Good(f) == f = [n \in 0..len |->
                IF n = 0 THEN s ELSE HandleBlock(o, f[n - 1], blocks[n], inplace)]
<1>2. PICK F \in [(1..len) \X Returning -> Returning] :
        \A k \in 1..len, v \in Returning : F[<<k, v>>] = HandleBlock(o, v, blocks[k], inplace)
  <2> DEFINE F == [p \in (1..len) \X Returning |-> HandleBlock(o, p[2], blocks[p[1]], inplace)]
  <2>1. \A k \in 1..len, v \in Returning : HandleBlock(o, v, blocks[k], inplace) \in Returning
    BY <1>1, HandleBlockType
  <2>2. F \in [(1..len) \X Returning -> Returning]
    BY <2>1
  <2>3. \A k \in 1..len, v \in Returning : F[<<k, v>>] = HandleBlock(o, v, blocks[k], inplace)
    OBVIOUS
  <2> QED
    BY <2>2, <2>3
<1>3. PICK f \in [0..len -> Returning] : IsRecursion(f, len, s, F)
  BY <1>2, RecursiveFunction
<1>4. f[0] = s /\ \A k \in 1..len : f[k] = HandleBlock(o, f[k - 1], blocks[k], inplace)
  <2>1. \A k \in 1..len : f[k - 1] \in Returning
    BY <1>3
  <2> QED
    BY <1>2, <1>3, <2>1 DEF IsRecursion
<1>5. \A k \in 0..len : f[k] = IF k = 0 THEN s ELSE HandleBlock(o, f[k - 1], blocks[k], inplace)
  <2>1. \A k \in 0..len : k = 0 \/ k \in 1..len
    OBVIOUS
  <2> QED
    BY <1>4, <2>1
<1>6. Good(f)
  BY <1>3, <1>5
<1>7. Good(Steps(o, s, blocks, inplace))
  BY <1>1, <1>6 DEF Steps
<1> DEFINE w == Steps(o, s, blocks, inplace)
<1> HIDE DEF w
<1>8. \A k \in 0..len : w[k] = IF k = 0 THEN s ELSE HandleBlock(o, w[k - 1], blocks[k], inplace)
  BY <1>7 DEF w
<1>9. w[0] = s /\ \A k \in 1..len : w[k] = HandleBlock(o, w[k - 1], blocks[k], inplace)
  <2>1. 0 \in 0..len /\ \A k \in 1..len : k \in 0..len /\ k # 0
    OBVIOUS
  <2> QED
    BY <1>8, <2>1
<1> QED
  BY <1>1, <1>9 DEF w

\* An object that was given some blocks more.
Handled(o, s, t, blocks, ins, iv, sure) ==
    /\ t \in Obj /\ t.buffer = s.buffer /\ t.original = s.original
    /\ \E outs : Streamed(o, t, ins \o blocks, outs, iv, sure)

\* However many blocks: what handle() has returned is what the mode says.
LEMMA HandleKeeps ==
    ASSUME ModeOK, NEW o \in Objects, NEW s \in Obj, NEW ins, NEW outs,
           NEW iv \in IvType, NEW sure \in BOOLEAN,
           Streamed(o, s, ins, outs, iv, sure), NEW data \in Seq(Byte),
           NEW inplace \in BOOLEAN,
           sure => ~(mode = "CBC" /\ o = "dec" /\ inplace)
    PROVE  Handled(o, s, Handle(o, s, data, inplace), Blocks(data), ins, iv, sure)
<1> DEFINE blocks == Blocks(data)
           len == Len(blocks)
           w == Steps(o, s, blocks, inplace)
           Good(n) == Handled(o, s, w[n], SubSeq(blocks, 1, n), ins, iv, sure)
           T == {n \in 0..len : Good(n)}
<1>1. blocks \in Seq(Block) /\ len \in Nat
  <2>1. blocks \in Seq(Block)
    BY FlatBlocks
  <2> QED
    BY <2>1
<1>2. ins \in Seq(Block) /\ outs \in Seq(Block) /\ s.result = Flat(outs)
  BY DEF Streamed
<1>3. s \in Returning
  BY <1>2 DEF Returning
<1> HIDE DEF blocks
<1>4. w[0] = s /\ \A n \in 1..len : w[n] = HandleBlock(o, w[n - 1], blocks[n], inplace)
  BY <1>1, <1>3, StepsAre
<1> HIDE DEF w
<1>5. 0 \in T
  <2>1. SubSeq(blocks, 1, 0) = <<>> /\ ins \o <<>> = ins
    BY <1>1, <1>2
  <2>2. Handled(o, s, s, <<>>, ins, iv, sure)
    BY <2>1 DEF Handled
  <2>3. Good(0)
    BY <1>4, <2>1, <2>2
  <2> HIDE DEF Good
  <2> QED
    BY <1>1, <2>3
<1>6. ASSUME NEW n \in 0..(len - 1), n \in T PROVE n + 1 \in T
  <2> DEFINE part == SubSeq(blocks, 1, n)
             part2 == SubSeq(blocks, 1, n + 1)
             b == blocks[n + 1]
  <2>1. n + 1 \in 1..len /\ (n + 1) - 1 = n /\ n \in 0..len /\ n + 1 \in 0..len
    BY <1>1
  <2>2. b \in Block
    BY <1>1, <2>1
  <2>3. part \in Seq(Block) /\ part2 = Append(part, b)
    <3> HIDE DEF len
    <3>1. part \in Seq(Block) /\ Len(part) = n /\ \A i \in 1..n : part[i] = blocks[i]
      BY <1>1, <2>1, FrontIs DEF len
    <3>2. part2 \in Seq(Block) /\ Len(part2) = n + 1
          /\ \A i \in 1..(n + 1) : part2[i] = blocks[i]
      BY <1>1, <2>1, FrontIs DEF len
    <3> HIDE DEF part, part2, b
    <3>3. Append(part, b) \in Seq(Block) /\ Len(Append(part, b)) = n + 1
          /\ (\A i \in 1..n : Append(part, b)[i] = part[i]) /\ Append(part, b)[n + 1] = b
      BY <2>2, <3>1, AppendIs
    <3>4. \A i \in 1..(n + 1) : Append(part, b)[i] = part2[i]
      <4>1. \A i \in 1..(n + 1) : i \in 1..n \/ i = n + 1
        OBVIOUS
      <4> QED
        BY <3>1, <3>2, <3>3, <4>1 DEF b
    <3> QED
      BY <3>1, <3>2, <3>3, <3>4
  <2>4. PICK ys : Streamed(o, w[n], ins \o part, ys, iv, sure)
    BY <1>6 DEF Handled
  <2>5. w[n] \in Obj /\ w[n].buffer = s.buffer /\ w[n].original = s.original
    BY <1>6 DEF Handled
  <2>6. w[n + 1] = HandleBlock(o, w[n], b, inplace)
    BY <1>4, <2>1
  <2> HIDE DEF part, part2, b
  <2>7. Grown(o, w[n], HandleBlock(o, w[n], b, inplace), b, ins \o part, ys, iv, sure)
    BY <2>2, <2>4, <2>5, HandleBlockKeeps
  <2>8. Append(ins \o part, b) = ins \o Append(part, b)
    <3>1. /\ Append(ins \o part, b) = (ins \o part) \o <<b>>
          /\ ins \o part \in Seq(Block)
      <4>1. ins \in Seq(Block) /\ part \in Seq(Block)
        BY <1>2, <2>3
      <4>2. ins \o part \in Seq(Block)
        BY <4>1, ConcatIs
      <4> QED
        BY <2>2, <4>2, AppendIs
    <3>2. Append(part, b) = part \o <<b>> /\ <<b>> \in Seq(Block)
      BY <2>2, <2>3, AppendIs
    <3>3. (ins \o part) \o <<b>> = ins \o (part \o <<b>>)
      <4>1. ins \in Seq(Block) /\ part \in Seq(Block) /\ <<b>> \in Seq(Block)
        BY <1>2, <2>3, <3>2
      <4> QED
        BY <4>1, ConcatAssociative, SMTT(20)
    <3> QED
      BY <3>1, <3>2, <3>3
  <2>9. Handled(o, s, w[n + 1], part2, ins, iv, sure)
    <3> DEFINE t == HandleBlock(o, w[n], b, inplace)
    <3> HIDE DEF t
    <3>1. PICK y \in Block : Streamed(o, t, Append(ins \o part, b), Append(ys, y), iv, sure)
      BY <2>7 DEF Grown, t
    <3>2. t \in Obj /\ t.buffer = s.buffer /\ t.original = s.original
      BY <2>5, <2>7 DEF Grown, t
    <3>3. Streamed(o, t, ins \o part2, Append(ys, y), iv, sure)
      BY <2>3, <2>8, <3>1
    <3>4. Handled(o, s, t, part2, ins, iv, sure)
      BY <3>2, <3>3 DEF Handled
    <3> QED
      BY <2>6, <3>4 DEF t
  <2>10. Good(n + 1)
    BY <2>9 DEF part2
  <2> HIDE DEF Good
  <2> QED
    BY <2>1, <2>10
<1> HIDE DEF T
<1>7. \A n \in 0..len : n \in T
  BY <1>1, <1>5, <1>6, InductionUpTo
<1>8. len \in T
  BY <1>1, <1>7
<1>9. Good(len) /\ SubSeq(blocks, 1, len) = blocks
  BY <1>1, <1>8 DEF T
<1>10. Handle(o, s, data, inplace) = w[len]
  BY HandleIs DEF w, blocks
<1> QED
  BY <1>9, <1>10 DEF blocks

-----------------------------------------------------------------------------
(* AesBuffer::add                                                           *)

\* What an object is that was given a text since iv was its IV.
Holding(o, s, text, iv, sure) ==
    /\ s \in Obj /\ text \in Seq(Byte) /\ s.buffer = Rest(text)
    /\ \E outs : Streamed(o, s, Blocks(text), outs, iv, sure)

\* What was streamed does not depend on the buffer or the original IV.
LEMMA StreamedSame ==
    ASSUME NEW o, NEW s, NEW t, NEW ins, NEW outs, NEW iv, NEW sure, NEW sure2,
           Streamed(o, s, ins, outs, iv, sure), sure2 => sure,
           t.result = s.result, t.iv = s.iv, t.j0 = s.j0, t.absorbed = s.absorbed
    PROVE  Streamed(o, t, ins, outs, iv, sure2)
BY DEF Streamed, Chained

\* Blocks go to the result and the rest into the buffer.
LEMMA AddToEmptyKeeps ==
    ASSUME ModeOK, NEW o \in Objects, NEW s \in Obj, NEW ins, NEW outs,
           NEW iv \in IvType, NEW sure \in BOOLEAN,
           Streamed(o, s, ins, outs, iv, sure), NEW data \in Seq(Byte)
    PROVE  /\ Holding(o, AddToEmpty(o, s, data), Flat(ins) \o data, iv, sure)
           /\ AddToEmpty(o, s, data).original = s.original
<1> DEFINE t == Handle(o, s, data, FALSE)
           u == AddToEmpty(o, s, data)
           bs == Blocks(data)
           rest == Rest(data)
<1>1. /\ bs \in Seq(Block) /\ rest \in Seq(Byte) /\ Len(rest) < BlockSize
      /\ data = Flat(bs) \o rest
  BY FlatBlocks
<1>2. ins \in Seq(Block)
  BY DEF Streamed
<1>3. Handled(o, s, t, bs, ins, iv, sure)
  <2>1. PICK no \in BOOLEAN : no = FALSE
    OBVIOUS
  <2>2. Handled(o, s, Handle(o, s, data, no), bs, ins, iv, sure)
    BY <2>1, HandleKeeps
  <2> QED
    BY <2>1, <2>2
<1>4. u = [t EXCEPT !.buffer = rest]
  BY DEF AddToEmpty
<1> HIDE DEF t, u, bs, rest
<1>5. PICK ys : Streamed(o, t, ins \o bs, ys, iv, sure)
  BY <1>3 DEF Handled
<1>6. t \in Obj /\ t.original = s.original
  BY <1>3 DEF Handled
<1>7. /\ u \in Obj /\ u.buffer = rest /\ u.original = s.original
      /\ u.result = t.result /\ u.iv = t.iv /\ u.j0 = t.j0 /\ u.absorbed = t.absorbed
  BY <1>1, <1>4, <1>6 DEF Obj
<1>8. Streamed(o, u, ins \o bs, ys, iv, sure)
  BY <1>5, <1>7, StreamedSame
<1>9. ins \o bs \in Seq(Block) /\ Flat(ins \o bs) = Flat(ins) \o Flat(bs)
  BY <1>1, <1>2, FlatConcat
<1>10. Flat(ins) \o data = Flat(ins \o bs) \o rest
  <2>1. Flat(ins) \in Seq(Byte) /\ Flat(bs) \in Seq(Byte)
    BY <1>1, <1>2, FlatIs
  <2>2. (Flat(ins) \o Flat(bs)) \o rest = Flat(ins) \o (Flat(bs) \o rest)
    BY <1>1, <2>1, ConcatAssociative
  <2> QED
    BY <1>1, <1>9, <2>2
<1>11. /\ Blocks(Flat(ins) \o data) = ins \o bs /\ Rest(Flat(ins) \o data) = rest
       /\ Flat(ins) \o data \in Seq(Byte)
  BY <1>1, <1>9, <1>10, CutFlat
<1>12. Holding(o, u, Flat(ins) \o data, iv, sure)
  BY <1>7, <1>8, <1>11 DEF Holding
<1> QED
  BY <1>7, <1>12 DEF u

\* Wherever the input is cut: add() goes on where the last one stopped.
LEMMA AddKeeps ==
    ASSUME ModeOK, NEW o \in Objects, NEW s, NEW text,
           NEW iv \in IvType, NEW sure \in BOOLEAN, NEW sure2 \in BOOLEAN,
           Holding(o, s, text, iv, sure), NEW data \in Seq(Byte),
           sure2 => sure /\ ~(mode = "CBC" /\ o = "dec" /\ s.buffer # <<>>)
    PROVE  /\ Holding(o, Add(o, s, data), text \o data, iv, sure2)
           /\ Add(o, s, data).original = s.original
<1> DEFINE bs == Blocks(text)
           rest == Rest(text)
           rent == BlockSize - Len(s.buffer)
<1>1. s \in Obj /\ text \in Seq(Byte) /\ s.buffer = rest
  BY DEF Holding
<1>2. /\ bs \in Seq(Block) /\ rest \in Seq(Byte) /\ Len(rest) < BlockSize
      /\ text = Flat(bs) \o rest /\ Flat(bs) \in Seq(Byte)
  <2>1. /\ bs \in Seq(Block) /\ rest \in Seq(Byte) /\ Len(rest) < BlockSize
        /\ text = Flat(bs) \o rest
    BY <1>1, FlatBlocks
  <2> HIDE DEF bs, rest
  <2> QED
    BY <2>1, FlatIs
<1>3. PICK outs : Streamed(o, s, bs, outs, iv, sure2)
  <2>1. PICK outs : Streamed(o, s, bs, outs, iv, sure)
    BY DEF Holding
  <2> HIDE DEF bs
  <2> QED
    BY <2>1, StreamedSame
<1>4. rent \in 1..BlockSize /\ BlockSize \in Nat \ {0} /\ Len(rest) \in Nat
  BY <1>1, <1>2, Sizes
<1> HIDE DEF bs, rest
<1>5. CASE s.buffer = <<>>
  <2>1. Add(o, s, data) = AddToEmpty(o, s, data)
    BY <1>5 DEF Add
  <2>2. /\ Holding(o, AddToEmpty(o, s, data), Flat(bs) \o data, iv, sure2)
        /\ AddToEmpty(o, s, data).original = s.original
    BY <1>1, <1>3, AddToEmptyKeeps
  <2>3. text = Flat(bs)
    BY <1>1, <1>2, <1>5
  <2> QED
    BY <2>1, <2>2, <2>3
<1>6. CASE s.buffer # <<>> /\ Len(data) < rent
  <2> DEFINE t == Add(o, s, data)
             more == rest \o data
  <2>1. t = [s EXCEPT !.buffer = more]
    BY <1>1, <1>6 DEF Add
  <2>2. more \in Seq(Byte) /\ Len(more) < BlockSize
    BY <1>1, <1>2, <1>4, <1>6
  <2>3. text \o data = Flat(bs) \o more
    <3>1. Flat(bs) \in Seq(Byte) /\ rest \in Seq(Byte) /\ data \in Seq(Byte)
      BY <1>2
    <3>2. (Flat(bs) \o rest) \o data = Flat(bs) \o (rest \o data)
      BY <3>1, ConcatAssociative
    <3> QED
      BY <1>2, <3>2
  <2> HIDE DEF t, more
  <2>4. /\ t \in Obj /\ t.buffer = more /\ t.original = s.original
        /\ t.result = s.result /\ t.iv = s.iv /\ t.j0 = s.j0 /\ t.absorbed = s.absorbed
    BY <1>1, <2>1, <2>2 DEF Obj
  <2>5. Streamed(o, t, bs, outs, iv, sure2)
    BY <1>3, <2>4, StreamedSame
  <2>6. /\ Blocks(text \o data) = bs /\ Rest(text \o data) = more /\ text \o data \in Seq(Byte)
    BY <1>2, <2>2, <2>3, CutFlat
  <2>7. Holding(o, t, text \o data, iv, sure2)
    BY <2>4, <2>5, <2>6 DEF Holding
  <2> QED
    BY <2>4, <2>7 DEF t
<1>7. CASE s.buffer # <<>> /\ ~(Len(data) < rent)
  <2> DEFINE d1 == SubSeq(data, 1, rent)
             d2 == SubSeq(data, rent + 1, Len(data))
             b == s.buffer \o d1
             empty == [s EXCEPT !.buffer = <<>>]
             t == Handle(o, empty, b, TRUE)
  <2>1. Add(o, s, data) = AddToEmpty(o, t, d2)
    BY <1>7 DEF Add
  <2>2. /\ d1 \in Seq(Byte) /\ Len(d1) = rent /\ d2 \in Seq(Byte) /\ d1 \o d2 = data
    <3>1. rent \in 0..Len(data)
      BY <1>4, <1>7
    <3> HIDE DEF rent
    <3> QED
      BY <3>1, FrontIs
  <2>3. rest \o d1 \in Seq(Byte) /\ Len(rest \o d1) = BlockSize
    <3> HIDE DEF d1
    <3>1. rest \o d1 \in Seq(Byte) /\ Len(rest \o d1) = Len(rest) + Len(d1)
      BY <1>2, <2>2, ConcatIs
    <3>2. Len(rest) + rent = BlockSize
      BY <1>1, <1>4
    <3> QED
      BY <2>2, <3>1, <3>2
  <2>4. b \in Block /\ b = rest \o d1
    BY <1>1, <2>3, BlockOfSeq
  <2> HIDE DEF d1, d2, b
  <2>5. /\ empty \in Obj /\ empty.original = s.original
        /\ empty.result = s.result /\ empty.iv = s.iv /\ empty.j0 = s.j0
        /\ empty.absorbed = s.absorbed
    <3>1. <<>> \in Seq(Byte)
      OBVIOUS
    <3> DEFINE none == <<>>
    <3>2. none \in Seq(Byte) /\ empty = [s EXCEPT !.buffer = none]
      BY <3>1
    <3> HIDE DEF none, empty
    <3> QED
      BY <1>1, <3>2 DEF Obj
  <2> HIDE DEF empty
  <2>6. Streamed(o, empty, bs, outs, iv, sure2)
    BY <1>3, <2>5, StreamedSame
  <2>7. Blocks(b) = <<b>> /\ b \in Seq(Byte) /\ <<b>> \in Seq(Block) /\ Flat(<<b>>) = b
    <3>1. b \in Seq(Byte) /\ Len(b) = BlockSize
      BY <2>4, BlockOfSeq
    <3>2. <<b>> \in Seq(Block) /\ Flat(<<b>>) = b
      BY <2>4, FlatFew
    <3>3. <<>> \in Seq(Byte) /\ Len(<<>>) < BlockSize /\ b \o <<>> = b
      BY <1>4, <3>1
    <3>4. Blocks(Flat(<<b>>) \o <<>>) = <<b>>
      BY <3>2, <3>3, CutFlat
    <3> QED
      BY <3>1, <3>2, <3>3, <3>4
  <2>8. Handled(o, empty, t, <<b>>, bs, iv, sure2)
    <3>1. PICK yes \in BOOLEAN : yes = TRUE
      OBVIOUS
    <3>2. sure2 => ~(mode = "CBC" /\ o = "dec" /\ yes)
      BY <1>7
    <3>3. Handled(o, empty, Handle(o, empty, b, yes), Blocks(b), bs, iv, sure2)
      BY <2>5, <2>6, <2>7, <3>2, HandleKeeps
    <3> QED
      BY <2>7, <3>1, <3>3
  <2> HIDE DEF t
  <2>9. PICK ys : Streamed(o, t, bs \o <<b>>, ys, iv, sure2)
    BY <2>8 DEF Handled
  <2>10. t \in Obj /\ t.original = s.original
    BY <2>5, <2>8 DEF Handled
  <2>11. /\ Holding(o, AddToEmpty(o, t, d2), Flat(bs \o <<b>>) \o d2, iv, sure2)
         /\ AddToEmpty(o, t, d2).original = t.original
    BY <2>2, <2>9, <2>10, AddToEmptyKeeps
  <2>12. Flat(bs \o <<b>>) \o d2 = text \o data
    <3>1. Flat(bs \o <<b>>) = Flat(bs) \o b
      BY <1>2, <2>7, FlatConcat
    <3>2. Flat(bs) \o (rest \o d1) = text \o d1
      <4>1. Flat(bs) \in Seq(Byte) /\ rest \in Seq(Byte) /\ d1 \in Seq(Byte)
        BY <1>2, <2>2
      <4>2. (Flat(bs) \o rest) \o d1 = Flat(bs) \o (rest \o d1)
        BY <4>1, ConcatAssociative
      <4> QED
        BY <1>2, <4>2
    <3>3. (text \o d1) \o d2 = text \o (d1 \o d2)
      <4>1. text \in Seq(Byte) /\ d1 \in Seq(Byte) /\ d2 \in Seq(Byte)
        BY <1>1, <2>2
      <4> QED
        BY <4>1, ConcatAssociative, SMTT(20)
    <3> QED
      BY <2>2, <2>4, <3>1, <3>2, <3>3
  <2> QED
    BY <2>1, <2>10, <2>11, <2>12
<1> QED
  BY <1>5, <1>6, <1>7

-----------------------------------------------------------------------------
(* A text filled up with zeros to whole blocks.                             *)

Pad(text) ==
    IF Rest(text) = <<>> THEN text ELSE text \o Zeros(BlockSize - Len(Rest(text)))

\* How many blocks a text needs.
Used(text) == (Len(text) + BlockSize - 1) \div BlockSize

\* A text and what fills it up to whole blocks: one block more.
LEMMA FillsUp ==
    ASSUME NEW text \in Seq(Byte), NEW fill \in Seq(Byte),
           Len(fill) = BlockSize - Len(Rest(text))
    PROVE  /\ Rest(text) \o fill \in Block
           /\ text \o fill \in Seq(Byte)
           /\ Blocks(text \o fill) = Append(Blocks(text), Rest(text) \o fill)
           /\ Len(Blocks(text \o fill)) = Len(Blocks(text)) + 1
           /\ text \o fill = Flat(Blocks(text \o fill))
<1> DEFINE bs == Blocks(text)
           rest == Rest(text)
           b == rest \o fill
           more == bs \o <<b>>
<1>1. /\ bs \in Seq(Block) /\ rest \in Seq(Byte) /\ text = Flat(bs) \o rest
  BY FlatBlocks
<1>2. BlockSize \in Nat
  BY Sizes
<1>3. Flat(bs) \in Seq(Byte)
  BY <1>1, FlatIs
<1>4. b \in Block
  <2>1. b \in Seq(Byte) /\ Len(b) = Len(rest) + Len(fill)
    <3>1. rest \in Seq(Byte) /\ fill \in Seq(Byte)
      BY <1>1
    <3> QED
      BY <3>1, ConcatIs
  <2>2. Len(rest) \in Nat /\ Len(fill) = BlockSize - Len(rest)
    BY <1>1
  <2> HIDE DEF rest, b
  <2>3. Len(b) = BlockSize
    BY <1>2, <2>1, <2>2
  <2> QED
    BY <2>1, <2>3, BlockOfSeq
<1>5. text \o fill = Flat(bs) \o b
  <2>1. (Flat(bs) \o rest) \o fill = Flat(bs) \o (rest \o fill)
    <3>1. Flat(bs) \in Seq(Byte) /\ rest \in Seq(Byte) /\ fill \in Seq(Byte)
      BY <1>1, <1>3
    <3> QED
      BY <3>1, ConcatAssociative, SMTT(20)
  <2> QED
    BY <1>1, <2>1
<1> HIDE DEF b
<1>6. /\ more \in Seq(Block) /\ Len(more) = Len(bs) + 1
      /\ Flat(more) = Flat(bs) \o b /\ more = Append(bs, b)
  <2>1. <<b>> \in Seq(Block) /\ Flat(<<b>>) = b /\ Len(<<b>>) = 1
    BY <1>4, FlatFew
  <2>2. /\ more \in Seq(Block) /\ Len(more) = Len(bs) + Len(<<b>>)
        /\ Flat(more) = Flat(bs) \o Flat(<<b>>)
    BY <1>1, <2>1, FlatConcat
  <2>3. more = Append(bs, b)
    BY <1>1, <1>4, AppendIs
  <2> QED
    BY <2>1, <2>2, <2>3
<1> HIDE DEF more
<1>7. text \o fill = Flat(more) /\ Flat(more) \in Seq(Byte)
  BY <1>5, <1>6, FlatIs
<1>8. Blocks(text \o fill) = more
  BY <1>6, <1>7, BlocksOfFlat
<1> QED
  BY <1>4, <1>6, <1>7, <1>8 DEF b

\* A filled up text has the blocks that Used says.
LEMMA PadIs ==
    ASSUME NEW text \in Seq(Byte)
    PROVE  /\ Pad(text) \in Seq(Byte) /\ Len(text) <= Len(Pad(text))
           /\ \A p \in 1..Len(text) : Pad(text)[p] = text[p]
           /\ Pad(text) = Flat(Blocks(Pad(text)))
           /\ Len(Blocks(Pad(text))) = Used(text)
           /\ Rest(text) = <<>> => Blocks(Pad(text)) = Blocks(text)
           /\ Rest(text) # <<>> =>
                /\ Rest(text) \o Zeros(BlockSize - Len(Rest(text))) \in Block
                /\ Blocks(Pad(text)) =
                      Append(Blocks(text), Rest(text) \o Zeros(BlockSize - Len(Rest(text))))
<1> DEFINE bs == Blocks(text)
           rest == Rest(text)
           r == Len(rest)
           n == Len(bs)
           v == Whole(n)
<1>1. /\ bs \in Seq(Block) /\ rest \in Seq(Byte) /\ r < BlockSize /\ r \in Nat
      /\ text = Flat(bs) \o rest
  <2>1. /\ bs \in Seq(Block) /\ rest \in Seq(Byte) /\ r < BlockSize
        /\ text = Flat(bs) \o rest
    BY FlatBlocks
  <2> QED
    BY <2>1
<1>2. BlockSize \in Nat \ {0, 1}
  BY Sizes
<1>3. Len(text) = v + r /\ v \in Nat /\ n \in Nat
  <2> HIDE DEF rest, bs
  <2>1. n \in Nat /\ v \in Nat
    BY <1>1, WholeNat
  <2>2. Len(Flat(bs) \o rest) = Whole(Len(bs)) + Len(rest)
    BY <1>1, CutFlat
  <2> QED
    BY <1>1, <2>1, <2>2
<1> HIDE DEF bs, rest, n, v
<1>4. CASE rest = <<>>
  <2>1. Pad(text) = text /\ text = Flat(bs)
    <3>1. Flat(bs) \in Seq(Byte)
      BY <1>1, FlatIs
    <3> QED
      BY <1>1, <1>4, <3>1 DEF Pad, rest
  <2>2. Used(text) = n
    <3>1. Len(text) + BlockSize - 1 = v + (BlockSize - 1)
      BY <1>2, <1>3, <1>4
    <3>2. PICK k \in 0..(BlockSize - 1) : k = BlockSize - 1
      BY <1>2
    <3>3. (v + k) \div BlockSize = n
      BY <1>3, WholeDivides DEF v
    <3> QED
      BY <3>1, <3>2, <3>3 DEF Used
  <2> QED
    BY <1>4, <2>1, <2>2 DEF bs, rest, n
<1>5. CASE rest # <<>>
  <2> DEFINE z == Zeros(BlockSize - r)
  <2>1. r \in 1..(BlockSize - 1) /\ BlockSize - r \in Nat
    BY <1>1, <1>2, <1>5
  <2>2. z \in Seq(Byte) /\ Len(z) = BlockSize - r
    BY <2>1, ZerosAre
  <2>3. Pad(text) = text \o z /\ z = Zeros(BlockSize - Len(Rest(text)))
    BY <1>5 DEF Pad, rest
  <2> HIDE DEF z
  <2>4. Len(z) = BlockSize - Len(Rest(text))
    BY <2>2 DEF rest
  <2>5. /\ Rest(text) \o z \in Block /\ text \o z \in Seq(Byte)
        /\ Blocks(text \o z) = Append(Blocks(text), Rest(text) \o z)
        /\ Len(Blocks(text \o z)) = n + 1
        /\ text \o z = Flat(Blocks(text \o z))
    BY <2>2, <2>4, FillsUp DEF bs, n
  <2>6. Used(text) = n + 1
    <3>1. PICK k \in 0..(BlockSize - 1) : k = r - 1
      BY <1>2, <2>1
    <3>2. Whole(n + 1) = v + BlockSize
      <4>1. n \in Int /\ 1 \in Int
        BY <1>3
      <4>2. \A m \in Int : Whole(n + m) = Whole(n) + Whole(m) /\ Whole(1) = BlockSize
        BY <4>1, WholeAdds
      <4> QED
        BY <4>1, <4>2 DEF v
    <3>3. Len(text) + BlockSize - 1 = Whole(n + 1) + k
      BY <1>1, <1>2, <1>3, <3>1, <3>2
    <3>4. (Whole(n + 1) + k) \div BlockSize = n + 1
      <4>1. n + 1 \in Nat
        BY <1>3
      <4> QED
        BY <4>1, WholeDivides
    <3> QED
      BY <3>3, <3>4 DEF Used
  <2>7. /\ Len(text \o z) = Len(text) + Len(z)
        /\ \A p \in 1..Len(text) : (text \o z)[p] = text[p]
    <3>1. text \in Seq(Byte) /\ z \in Seq(Byte)
      BY <2>2
    <3> QED
      BY <3>1, ConcatIs
  <2>8. Len(text) <= Len(text) + Len(z)
    BY <2>1, <2>2
  <2>9. Rest(text) # <<>>
    BY <1>5 DEF rest
  <2>10. /\ Pad(text) \in Seq(Byte) /\ Len(text) <= Len(Pad(text))
         /\ \A p \in 1..Len(text) : Pad(text)[p] = text[p]
    BY <2>3, <2>5, <2>7, <2>8
  <2>11. /\ Pad(text) = Flat(Blocks(Pad(text))) /\ Len(Blocks(Pad(text))) = Used(text)
         /\ Rest(text) \o Zeros(BlockSize - Len(Rest(text))) \in Block
         /\ Blocks(Pad(text)) =
               Append(Blocks(text), Rest(text) \o Zeros(BlockSize - Len(Rest(text))))
    BY <2>3, <2>5, <2>6
  <2> QED
    BY <2>9, <2>10, <2>11
<1> QED
  BY <1>4, <1>5

-----------------------------------------------------------------------------
(* end() in the counter modes.                                              *)

\* What came out is the front of the blocks of the filled up text.
StreamEnded(o, text, iv, out) ==
    \E outs \in Seq(Block) :
        /\ Len(outs) = Len(Blocks(Pad(text)))
        /\ Right(o, Blocks(Pad(text)), outs, iv)
        /\ out = SubSeq(Flat(outs), 1, Len(text))

GcmTag(o, text, iv, out) ==
    [absorbed |-> Blocks(Pad(IF o = "enc" THEN out ELSE text)), size |-> Len(out),
     mask |-> Encrypt[J0Begin(iv)]]

\* The front of a stream has the length of the text.
LEMMA StreamLength ==
    ASSUME NEW text \in Seq(Byte), NEW outs \in Seq(Block),
           Len(outs) = Len(Blocks(Pad(text)))
    PROVE  /\ Len(text) \in 0..Len(Flat(outs))
           /\ SubSeq(Flat(outs), 1, Len(text)) \in Seq(Byte)
           /\ Len(SubSeq(Flat(outs), 1, Len(text))) = Len(text)
           /\ \A p \in 1..Len(text) : SubSeq(Flat(outs), 1, Len(text))[p] = Flat(outs)[p]
<1> DEFINE bs == Blocks(Pad(text))
<1>1. /\ Pad(text) \in Seq(Byte) /\ Len(text) <= Len(Pad(text)) /\ Pad(text) = Flat(bs)
  BY PadIs
<1>2. bs \in Seq(Block)
  BY <1>1, FlatBlocks
<1> HIDE DEF bs
<1>3. Len(Flat(bs)) = Whole(Len(bs)) /\ Flat(outs) \in Seq(Byte) /\ Len(Flat(outs)) = Whole(Len(outs))
  BY <1>2, FlatIs
<1>4. Len(text) <= Len(Flat(outs))
  BY <1>1, <1>3 DEF bs
<1>5. Len(text) \in 0..Len(Flat(outs))
  BY <1>3, <1>4
<1> QED
  BY <1>3, <1>5, FrontIs

\* end() in CTR mode.
LEMMA EndCtrKeeps ==
    ASSUME mode = "CTR", NEW o \in Objects, NEW s, NEW text, NEW iv \in IvType,
           Holding(o, s, text, iv, TRUE)
    PROVE  /\ EndCtr(o, s).obj \in Obj
           /\ EndCtr(o, s).obj.original = CounterAt(iv, Used(text))
           /\ EndCtr(o, s).out \in Seq(Byte) /\ EndCtr(o, s).tag = NoTag
           /\ StreamEnded(o, text, iv, EndCtr(o, s).out)
<1> DEFINE left == Len(s.buffer)
           t == IF left = 0 THEN s ELSE Add(o, s, Zeros(BlockSize - left))
           len == Len(text)
<1>1. s \in Obj /\ text \in Seq(Byte) /\ s.buffer = Rest(text)
  BY DEF Holding
<1>2. s.buffer \in Seq(Byte) /\ left \in Nat /\ left < BlockSize
  <2>1. Rest(text) \in Seq(Byte) /\ Len(Rest(text)) < BlockSize
    BY <1>1, FlatBlocks
  <2> QED
    BY <1>1, <2>1
<1>3. Holding(o, t, Pad(text), iv, TRUE)
  <2>1. CASE left = 0
    <3>1. Rest(text) = <<>>
      BY <1>1, <1>2, <2>1
    <3>2. Pad(text) = text /\ t = s
      BY <2>1, <3>1 DEF Pad
    <3> QED
      BY <3>2
  <2>2. CASE left # 0
    <3>1. Rest(text) # <<>>
      BY <1>1, <2>2
    <3>2. BlockSize - left \in Nat
      BY <1>2, Sizes
    <3>3. Zeros(BlockSize - left) \in Seq(Byte)
      BY <3>2, ZerosAre
    <3>4. Pad(text) = text \o Zeros(BlockSize - left)
      BY <1>1, <3>1 DEF Pad
    <3>5. ModeOK
      BY DEF ModeOK
    <3> DEFINE z == Zeros(BlockSize - left)
    <3>6. t = Add(o, s, z) /\ Pad(text) = text \o z /\ z \in Seq(Byte)
      BY <2>2, <3>3, <3>4
    <3> HIDE DEF z, t
    <3>7. PICK yes \in BOOLEAN : yes = TRUE
      OBVIOUS
    <3>8. Holding(o, s, text, iv, yes)
      BY <3>7
    <3>9. yes => yes /\ ~(mode = "CBC" /\ o = "dec" /\ s.buffer # <<>>)
      OBVIOUS
    <3>10. Holding(o, Add(o, s, z), text \o z, iv, yes)
      BY <3>5, <3>6, <3>8, <3>9, AddKeeps
    <3> QED
      BY <3>6, <3>7, <3>10
  <2> QED
    BY <2>1, <2>2
<1>4. EndCtr(o, s) = [obj |-> [t EXCEPT !.original = t.iv],
                      out |-> SubSeq(t.result, 1, Len(s.result) + left), tag |-> NoTag]
  BY DEF EndCtr
<1>5. Len(s.result) + left = len
  <2>1. PICK ys : Streamed(o, s, Blocks(text), ys, iv, TRUE)
    BY DEF Holding
  <2>2. ys \in Seq(Block) /\ Len(ys) = Len(Blocks(text)) /\ s.result = Flat(ys)
    BY <2>1 DEF Streamed
  <2>3. Len(s.result) = Whole(Len(Blocks(text)))
    BY <2>2, FlatIs
  <2> DEFINE bs == Blocks(text)
             rest == Rest(text)
  <2>4. bs \in Seq(Block) /\ rest \in Seq(Byte) /\ Len(rest) < BlockSize /\ text = Flat(bs) \o rest
    BY <1>1, FlatBlocks
  <2> HIDE DEF bs, rest
  <2>5. Len(Flat(bs) \o rest) = Whole(Len(bs)) + Len(rest)
    BY <2>4, CutFlat
  <2> QED
    BY <1>1, <2>3, <2>4, <2>5 DEF bs, rest
<1> HIDE DEF t, left, len
<1>6. PICK outs : Streamed(o, t, Blocks(Pad(text)), outs, iv, TRUE)
  BY <1>3 DEF Holding
<1>7. /\ outs \in Seq(Block) /\ Len(outs) = Len(Blocks(Pad(text)))
      /\ t.result = Flat(outs) /\ Right(o, Blocks(Pad(text)), outs, iv)
      /\ t.iv = CounterAt(iv, Len(Blocks(Pad(text))))
  BY <1>6 DEF Streamed, Chained
<1>8. t \in Obj /\ t.iv \in IvType
  BY <1>3 DEF Holding, Obj
<1>9. t.iv = CounterAt(iv, Used(text))
  BY <1>1, <1>7, PadIs
<1> DEFINE u == [t EXCEPT !.original = t.iv]
           out == SubSeq(Flat(outs), 1, len)
<1>10. u \in Obj /\ u.original = t.iv
  BY <1>8 DEF Obj
<1>11. out \in Seq(Byte)
  BY <1>1, <1>7, StreamLength DEF len
<1>12. StreamEnded(o, text, iv, out)
  BY <1>7 DEF StreamEnded, len
<1>13. EndCtr(o, s).obj = u /\ EndCtr(o, s).out = out /\ EndCtr(o, s).tag = NoTag
  <2>1. EndCtr(o, s) = [obj |-> u, out |-> out, tag |-> NoTag]
    BY <1>4, <1>5, <1>7
  <2> HIDE DEF u, out
  <2> QED
    BY <2>1
<1> HIDE DEF u, out
<1> QED
  BY <1>9, <1>10, <1>11, <1>12, <1>13

\* The front of a concatenation that ends in its second part.
LEMMA FrontOfConcat ==
    ASSUME NEW S, NEW s \in Seq(S), NEW t \in Seq(S), NEW n \in 0..Len(t)
    PROVE  SubSeq(s \o t, 1, Len(s) + n) = s \o SubSeq(t, 1, n)
<1> DEFINE a == SubSeq(s \o t, 1, Len(s) + n)
           b == s \o SubSeq(t, 1, n)
           m == Len(s)
<1>1. m \in Nat /\ n \in Nat /\ n <= Len(t) /\ Len(t) \in Nat
  OBVIOUS
<1>2. /\ s \o t \in Seq(S) /\ Len(s \o t) = m + Len(t)
      /\ \A i \in 1..m : (s \o t)[i] = s[i]
      /\ \A i \in 1..Len(t) : (s \o t)[m + i] = t[i]
  BY ConcatIs
<1>3. m + n \in 0..Len(s \o t)
  BY <1>1, <1>2
<1>4. /\ a \in Seq(S) /\ Len(a) = m + n
      /\ \A i \in 1..(m + n) : a[i] = (s \o t)[i]
  BY <1>2, <1>3, FrontIs
<1>5. /\ SubSeq(t, 1, n) \in Seq(S) /\ Len(SubSeq(t, 1, n)) = n
      /\ \A i \in 1..n : SubSeq(t, 1, n)[i] = t[i]
  BY FrontIs
<1>6. /\ b \in Seq(S) /\ Len(b) = m + n
      /\ \A i \in 1..m : b[i] = s[i]
      /\ \A i \in 1..n : b[m + i] = SubSeq(t, 1, n)[i]
  <2> DEFINE f == SubSeq(t, 1, n)
  <2>1. f \in Seq(S) /\ Len(f) = n
    BY <1>5
  <2> HIDE DEF f
  <2>2. /\ s \o f \in Seq(S) /\ Len(s \o f) = Len(s) + Len(f)
        /\ \A i \in 1..Len(s) : (s \o f)[i] = s[i]
        /\ \A i \in 1..Len(f) : (s \o f)[Len(s) + i] = f[i]
    <3>1. s \in Seq(S) /\ f \in Seq(S)
      BY <2>1
    <3> QED
      BY <3>1, ConcatIs
  <2>3. b = s \o f
    BY DEF f
  <2>4. Len(b) = m + n
    BY <2>1, <2>2, <2>3
  <2> QED
    BY <2>1, <2>2, <2>3, <2>4 DEF f
<1> HIDE DEF a, b, m
<1>7. \A i \in 1..(m + n) : a[i] = b[i]
  <2> TAKE i \in 1..(m + n)
  <2>1. CASE i <= m
    <3>1. i \in 1..m
      BY <1>1, <2>1
    <3> QED
      BY <1>2, <1>4, <1>6, <3>1
  <2>2. CASE i > m
    <3>1. PICK k \in 1..n : i = m + k
      <4>1. i - m \in 1..n /\ i = m + (i - m)
        BY <1>1, <2>2
      <4> QED
        BY <4>1
    <3>2. k \in 1..Len(t)
      BY <1>1
    <3> QED
      BY <1>2, <1>4, <1>5, <1>6, <3>1, <3>2
  <2> QED
    BY <1>1, <2>1, <2>2
<1> QED
  BY <1>4, <1>6, <1>7 DEF a, b

\* The IV of the next message is the next number.
LEMMA NextIv ==
    ASSUME mode = "GCM", NEW iv \in IvType
    PROVE  Increment(iv) \in IvType /\ Increment(iv) = CounterAt(iv, 1)
<1>1. iv \in Seq(Byte) /\ Len(iv) = IvSize
  BY IvOfSeq DEF IvType
<1>2. PICK n \in Nat : n = 0
  OBVIOUS
<1>3. CounterAt(iv, n) = iv
  BY <1>1, <1>2, CounterZero
<1>4. Increment(CounterAt(iv, n)) = CounterAt(iv, n + 1)
  BY <1>1, CounterNext
<1>5. n + 1 \in Nat
  OBVIOUS
<1>6. CounterAt(iv, n + 1) \in Seq(Byte) /\ Len(CounterAt(iv, n + 1)) = Len(iv)
  BY <1>1, <1>5, CounterType
<1>7. Increment(iv) \in [1..IvSize -> Byte]
  BY <1>1, <1>3, <1>4, <1>6, IvOfSeq
<1>8. n + 1 = 1
  BY <1>2
<1> QED
  BY <1>3, <1>4, <1>7, <1>8 DEF IvType

\* end() in GCM mode.
LEMMA EndGcmKeeps ==
    ASSUME mode = "GCM", NEW o \in Objects, NEW s, NEW text, NEW iv \in IvType,
           Holding(o, s, text, iv, TRUE)
    PROVE  /\ EndGcm(o, s).obj \in Obj
           /\ EndGcm(o, s).obj.original = CounterAt(s.original, 1)
           /\ EndGcm(o, s).out \in Seq(Byte)
           /\ EndGcm(o, s).tag = GcmTag(o, text, iv, EndGcm(o, s).out)
           /\ StreamEnded(o, text, iv, EndGcm(o, s).out)
<1> DEFINE left == Len(s.buffer)
           in == s.buffer \o Zeros(BlockSize - left)
           y == XorBlock(Encrypt[s.j0], in)
           last == SubSeq(y, 1, left)
           out == IF left = 0 THEN s.result ELSE s.result \o last
           hash == IF o = "enc" THEN last \o Zeros(BlockSize - left) ELSE in
           hashed == IF left = 0 THEN s.absorbed ELSE Append(s.absorbed, hash)
           t == [s EXCEPT !.original = Increment(@)]
           bs == Blocks(text)
           e == EndGcm(o, s)
<1>1. /\ s \in Obj /\ text \in Seq(Byte) /\ s.buffer = Rest(text)
      /\ \E outs : Streamed(o, s, bs, outs, iv, TRUE)
  BY DEF Holding
<1>2. PICK outs : Streamed(o, s, bs, outs, iv, TRUE)
  BY <1>1
<1>3. /\ bs \in Seq(Block) /\ outs \in Seq(Block) /\ Len(outs) = Len(bs)
      /\ s.result = Flat(outs) /\ Right(o, bs, outs, iv)
      /\ s.iv = iv /\ s.absorbed = IF o = "enc" THEN outs ELSE bs
  BY <1>2 DEF Streamed, Chained
<1>4. /\ s.original \in IvType /\ s.j0 \in Block /\ s.result \in Seq(Byte)
  BY <1>1 DEF Obj
<1>5. t \in Obj /\ t.original = CounterAt(s.original, 1)
  <2>1. Increment(s.original) \in IvType /\ Increment(s.original) = CounterAt(s.original, 1)
    BY <1>4, NextIv
  <2> QED
    BY <1>1, <2>1 DEF Obj
<1>6. /\ e.obj = t /\ e.out = out
      /\ e.tag = [absorbed |-> hashed, size |-> Len(out), mask |-> Encrypt[J0Begin(s.iv)]]
  BY DEF EndGcm
<1>7. /\ Rest(text) \in Seq(Byte) /\ Len(Rest(text)) < BlockSize
      /\ text = Flat(bs) \o Rest(text)
  BY <1>1, FlatBlocks
<1>8. left \in Nat /\ left < BlockSize /\ BlockSize \in Nat
  BY <1>1, <1>7, Sizes
<1>9. Len(text) = Len(s.result) + left /\ Len(s.result) \in Nat
  <2>1. Len(Flat(bs)) = Whole(Len(bs)) /\ Len(Flat(outs)) = Whole(Len(outs)) /\ Flat(bs) \in Seq(Byte)
    BY <1>3, FlatIs
  <2>2. Len(Flat(bs) \o Rest(text)) = Len(Flat(bs)) + Len(Rest(text))
    BY <1>7, <2>1, ConcatIs
  <2> QED
    BY <1>1, <1>3, <1>4, <1>7, <2>1, <2>2
<1> DEFINE Goal == /\ out \in Seq(Byte) /\ StreamEnded(o, text, iv, out)
                   /\ hashed = Blocks(Pad(IF o = "enc" THEN out ELSE text))
<1>10. ASSUME left = 0 PROVE Goal
  <2>1. Rest(text) = <<>>
    BY <1>1, <1>7, <1>10
  <2>2. Pad(text) = text
    BY <2>1 DEF Pad
  <2>3. out = s.result /\ hashed = s.absorbed
    BY <1>10
  <2>4. SubSeq(Flat(outs), 1, Len(text)) = Flat(outs)
    <3>1. Len(text) = Len(Flat(outs)) /\ Flat(outs) \in Seq(Byte)
      BY <1>3, <1>4, <1>9, <1>10
    <3> QED
      BY <3>1
  <2>5. StreamEnded(o, text, iv, out)
    BY <1>3, <2>2, <2>3, <2>4 DEF StreamEnded
  <2>6. Pad(out) = out /\ Blocks(out) = outs
    <3>1. Blocks(Flat(outs)) = outs /\ Rest(Flat(outs)) = <<>>
      BY <1>3, BlocksOfFlat
    <3>2. out = Flat(outs)
      BY <1>3, <2>3
    <3> HIDE DEF out
    <3> QED
      BY <3>1, <3>2 DEF Pad
  <2>7. hashed = Blocks(Pad(IF o = "enc" THEN out ELSE text))
    <3> HIDE DEF out
    <3> QED
      BY <1>3, <2>2, <2>3, <2>6
  <2> QED
    BY <1>3, <1>4, <2>3, <2>5, <2>7
<1>11. ASSUME left # 0 PROVE Goal
  <2>1. Rest(text) # <<>>
    BY <1>1, <1>11
  <2>2. in \in Block /\ Blocks(Pad(text)) = Append(bs, in)
    BY <1>1, <2>1, PadIs
  <2>3. y \in Block
    <3>1. Encrypt[s.j0] \in Block
      BY <1>4, CipherIs
    <3> HIDE DEF in
    <3> QED
      BY <2>2, <3>1, XorIs
  <2> DEFINE u == GcmBlock(o, s, in)
  <2>4. u.result = s.result \o y
    BY <1>1 DEF GcmBlock, Obj
  <2>5. Grown(o, s, u, in, bs, outs, iv, TRUE)
    <3>1. PICK yes \in BOOLEAN : yes = TRUE
      OBVIOUS
    <3>2. Streamed(o, s, bs, outs, iv, yes)
      BY <1>2, <3>1
    <3>3. Grown(o, s, u, in, bs, outs, iv, yes)
      BY <1>1, <2>2, <3>2, GcmKeeps
    <3> QED
      BY <3>1, <3>3
  <2> HIDE DEF u
  <2>6. PICK y2 \in Block : Streamed(o, u, Append(bs, in), Append(outs, y2), iv, TRUE)
    BY <2>5 DEF Grown
  <2> DEFINE more == Append(outs, y2)
  <2>7. /\ more \in Seq(Block) /\ Len(more) = Len(Append(bs, in))
        /\ u.result = Flat(more) /\ Right(o, Append(bs, in), more, iv)
    BY <2>6 DEF Streamed
  <2>8. y \in Seq(Byte) /\ Len(y) = BlockSize
    BY <2>3, BlockOfSeq
  <2> HIDE DEF y, in
  <2>9. SubSeq(Flat(more), 1, Len(text)) = s.result \o last
    <3>1. left \in 0..Len(y)
      BY <1>8, <2>8
    <3>2. SubSeq(s.result \o y, 1, Len(s.result) + left) = s.result \o SubSeq(y, 1, left)
      BY <1>4, <2>8, <3>1, FrontOfConcat
    <3> QED
      BY <1>9, <2>4, <2>7, <3>2
  <2>10. last \in Seq(Byte) /\ Len(last) = left
    <3>1. left \in 0..Len(y)
      BY <1>8, <2>8
    <3> QED
      BY <2>8, <3>1, FrontIs
  <2> HIDE DEF last, more
  <2>11. out = Flat(outs) \o last /\ out \in Seq(Byte)
    <3>1. s.result \o last \in Seq(Byte)
      BY <1>4, <2>10, ConcatIs
    <3> QED
      BY <1>3, <1>11, <3>1
  <2>12. StreamEnded(o, text, iv, out)
    <3>1. out = SubSeq(Flat(more), 1, Len(text))
      BY <1>3, <2>9, <2>11
    <3> HIDE DEF out
    <3> QED
      BY <2>2, <2>7, <3>1 DEF StreamEnded
  <2>13. Blocks(Pad(out)) = Append(outs, last \o Zeros(BlockSize - left))
    <3>1. Len(last) < BlockSize
      BY <1>8, <2>10
    <3>2. Blocks(Flat(outs) \o last) = outs /\ Rest(Flat(outs) \o last) = last
      BY <1>3, <2>10, <3>1, CutFlat
    <3>3. last # <<>>
      BY <1>11, <2>10
    <3> HIDE DEF out, left
    <3>4. Rest(out) # <<>> /\ Blocks(out) = outs /\ Rest(out) = last
      BY <2>11, <3>2, <3>3
    <3>5. Blocks(Pad(out)) =
             Append(Blocks(out), Rest(out) \o Zeros(BlockSize - Len(Rest(out))))
      BY <2>11, <3>4, PadIs
    <3> QED
      BY <2>10, <3>4, <3>5
  <2>14. hashed = Append(s.absorbed, hash)
    BY <1>11
  <2>15. hashed = Blocks(Pad(IF o = "enc" THEN out ELSE text))
    <3>1. CASE o = "enc"
      <4>1. s.absorbed = outs /\ hash = last \o Zeros(BlockSize - left)
        BY <1>3, <3>1
      <4> HIDE DEF out, hashed, hash
      <4> QED
        BY <2>13, <2>14, <3>1, <4>1
    <3>2. CASE o # "enc"
      <4>1. s.absorbed = bs /\ hash = in
        BY <1>3, <3>2
      <4> HIDE DEF out, hashed, hash
      <4> QED
        BY <2>2, <2>14, <3>2, <4>1
    <3> QED
      BY <3>1, <3>2
  <2> QED
    BY <2>11, <2>12, <2>15
<1>12. Goal
  <2> HIDE DEF Goal
  <2> QED
    BY <1>10, <1>11
<1>13. e.tag = GcmTag(o, text, iv, out)
  <2> HIDE DEF out, hashed, e
  <2> QED
    BY <1>3, <1>6, <1>12 DEF GcmTag
<1> HIDE DEF e, t, out, hashed
<1> QED
  BY <1>5, <1>6, <1>12, <1>13 DEF e

-----------------------------------------------------------------------------
(* Padding, and end() in the block modes.                                   *)

PaddingOK == padding \in {"PKCS7", "ISO10126", "Zeros", "None"}

\* What padding adds, and what its last byte says.
LEMMA FillIs ==
    ASSUME PaddingOK, NEW len \in 0..(BlockSize - 1), NEW fill \in Fills(len)
    PROVE  /\ fill \in Seq(Byte)
           /\ padding = "None" => fill = <<>>
           /\ padding # "None" => Len(fill) = BlockSize - len
           /\ padding = "Zeros" => fill = Zeros(BlockSize - len)
           /\ padding \in {"PKCS7", "ISO10126"} => fill[BlockSize - len] = BlockSize - len
<1>1. PICK n \in Nat \ {0} : n = BlockSize - len
  <2>1. BlockSize - len \in Nat \ {0}
    BY Sizes
  <2> QED
    BY <2>1
<1>2. n \in Byte /\ Byte \subseteq Nat
  <2>1. n <= BlockSize /\ BlockSize \in Nat /\ ByteBase \in Nat /\ ByteBase > 2 * BlockSize
    BY <1>1, Sizes
  <2>2. n < ByteBase
    BY <2>1
  <2> QED
    BY <2>2, Sizes
<1>3. Fills(len) =
        CASE padding = "None"     -> {<<>>}
          [] padding = "PKCS7"    -> {[i \in 1..n |-> n]}
          [] padding = "ISO10126" -> {Append(r, n) : r \in [1..(n - 1) -> RandomBytes]}
          [] padding = "Zeros"    -> {Zeros(n)}
  BY <1>1 DEF Fills
<1>4. CASE padding = "None"
  BY <1>3, <1>4
<1>5. CASE padding = "Zeros"
  <2>1. fill = Zeros(n)
    BY <1>3, <1>5
  <2> QED
    BY <1>1, <1>5, <2>1, ZerosAre
<1>6. CASE padding = "PKCS7"
  <2>1. fill = [i \in 1..n |-> n]
    BY <1>3, <1>6
  <2>2. fill \in [1..n -> Byte] /\ fill[n] = n
    BY <1>2, <2>1
  <2>3. fill \in Seq(Byte) /\ Len(fill) = n
    BY <2>2, SeqOfFunction
  <2> QED
    BY <1>1, <1>6, <2>2, <2>3
<1>7. CASE padding = "ISO10126"
  <2>1. PICK r \in [1..(n - 1) -> RandomBytes] : fill = Append(r, n)
    BY <1>3, <1>7
  <2>2. r \in [1..(n - 1) -> Byte] /\ n - 1 \in Nat
    BY InputsAssumption
  <2>3. r \in Seq(Byte) /\ Len(r) = n - 1
    BY <2>2, SeqOfFunction
  <2>4. /\ Append(r, n) \in Seq(Byte) /\ Len(Append(r, n)) = Len(r) + 1
        /\ Append(r, n)[Len(r) + 1] = n
    BY <1>2, <2>3, AppendIs
  <2>5. Len(r) + 1 = n
    BY <2>3
  <2> QED
    BY <1>1, <1>7, <2>1, <2>4, <2>5
<1> QED
  BY <1>4, <1>5, <1>6, <1>7 DEF PaddingOK

\* What came out is the blocks of the text and its padding.
PaddedEnded(text, iv, out) ==
    \E fill \in Fills(Len(Rest(text))) : \E outs \in Seq(Block) :
        /\ Len(outs) = Len(Blocks(text \o fill))
        /\ Right("enc", Blocks(text \o fill), outs, iv)
        /\ out = Flat(outs)

\* end() of encryption in the block modes.
LEMMA EndPaddedKeeps ==
    ASSUME mode \in {"ECB", "CBC"}, PaddingOK, NEW s, NEW text, NEW iv \in IvType,
           Holding("enc", s, text, iv, TRUE), NEW fill \in Fills(Len(s.buffer))
    PROVE  /\ EndPadded(s, fill).obj \in Obj
           /\ EndPadded(s, fill).obj.original = s.original
           /\ EndPadded(s, fill).out \in Seq(Byte)
           /\ EndPadded(s, fill).tag = NoTag
           /\ PaddedEnded(text, iv, EndPadded(s, fill).out)
<1> DEFINE t == Add("enc", s, fill)
<1>1. s \in Obj /\ text \in Seq(Byte) /\ s.buffer = Rest(text)
  BY DEF Holding
<1>2. fill \in Seq(Byte) /\ fill \in Fills(Len(Rest(text)))
  <2>1. Rest(text) \in Seq(Byte) /\ Len(Rest(text)) < BlockSize
    BY <1>1, FlatBlocks
  <2>2. PICK len \in Nat : len = Len(Rest(text))
    BY <2>1
  <2>3. len \in 0..(BlockSize - 1)
    BY <2>1, <2>2, Sizes
  <2>4. fill \in Fills(len)
    BY <1>1, <2>2
  <2> QED
    BY <2>2, <2>3, <2>4, FillIs
<1>3. Holding("enc", t, text \o fill, iv, TRUE) /\ t.original = s.original
  <2>1. ModeOK
    BY DEF ModeOK
  <2>2. PICK o \in Objects : o = "enc"
    BY DEF Objects
  <2>3. PICK yes \in BOOLEAN : yes = TRUE
    OBVIOUS
  <2>4. Holding(o, s, text, iv, yes)
    BY <2>2, <2>3
  <2>5. yes => yes /\ ~(mode = "CBC" /\ o = "dec" /\ s.buffer # <<>>)
    BY <2>2
  <2>6. /\ Holding(o, Add(o, s, fill), text \o fill, iv, yes)
        /\ Add(o, s, fill).original = s.original
    BY <1>2, <2>1, <2>4, <2>5, AddKeeps
  <2> QED
    BY <2>2, <2>3, <2>6
<1>4. /\ EndPadded(s, fill).obj = t /\ EndPadded(s, fill).out = t.result
      /\ EndPadded(s, fill).tag = NoTag
  BY DEF EndPadded
<1> HIDE DEF t
<1>5. PICK outs : Streamed("enc", t, Blocks(text \o fill), outs, iv, TRUE)
  BY <1>3 DEF Holding
<1>6. /\ outs \in Seq(Block) /\ Len(outs) = Len(Blocks(text \o fill))
      /\ t.result = Flat(outs) /\ Right("enc", Blocks(text \o fill), outs, iv)
  BY <1>5 DEF Streamed
<1>7. PaddedEnded(text, iv, t.result)
  BY <1>2, <1>6 DEF PaddedEnded
<1>8. t \in Obj /\ t.result \in Seq(Byte)
  BY <1>3 DEF Holding, Obj
<1> QED
  BY <1>3, <1>4, <1>7, <1>8

\* What end() leaves of a result: removePadding and resize.
Unpad(str) ==
    Resize(str, Len(str) - (IF padding \in {"None", "Zeros"} THEN 0
                            ELSE RemovePadding(str[Len(str)])))

\* What came out is what is left of the blocks.
UnpaddedEnded(text, iv, out, sure) ==
    \E outs \in Seq(Block) :
        /\ Len(outs) = Len(Blocks(text))
        /\ sure => Right("dec", Blocks(text), outs, iv)
        /\ out = Unpad(Flat(outs))

\* Whatever the last byte says, bytes come out, some of them unset.
LEMMA UnpadType ==
    ASSUME PaddingOK, NEW str \in Seq(Byte),
           padding \in {"PKCS7", "ISO10126"} => Len(str) # 0
    PROVE  Unpad(str) \in Seq(Byte \cup {Unset})
<1>1. PICK pad : pad = IF padding \in {"None", "Zeros"} THEN 0
                       ELSE RemovePadding(str[Len(str)])
  OBVIOUS
<1>2. pad \in Int
  <2>1. CASE padding \in {"None", "Zeros"}
    BY <1>1, <2>1
  <2>2. CASE padding \notin {"None", "Zeros"}
    <3>1. padding \in {"PKCS7", "ISO10126"}
      BY <2>2 DEF PaddingOK
    <3>2. str[Len(str)] \in Byte
      BY <3>1
    <3>3. PICK b \in Nat : b = str[Len(str)]
      BY <3>2, Sizes
    <3>4. Char(b) \in Int
      BY Sizes DEF Char
    <3> QED
      BY <1>1, <2>2, <3>3, <3>4 DEF RemovePadding
  <2> QED
    BY <2>1, <2>2
<1>3. PICK len \in Int : len = Len(str) - pad
  BY <1>2
<1>4. Unpad(str) = [i \in 1..len |-> IF i <= Len(str) THEN str[i] ELSE Unset]
  BY <1>1, <1>3 DEF Unpad, Resize
<1>5. Unpad(str) \in [1..len -> Byte \cup {Unset}]
  <2>1. \A i \in 1..len : i <= Len(str) => str[i] \in Byte
    OBVIOUS
  <2> QED
    BY <1>4, <2>1
<1>6. CASE len \in Nat
  BY <1>5, <1>6, SeqOfFunction
<1>7. CASE len \notin Nat
  <2>1. PICK none \in Nat : none = 0
    OBVIOUS
  <2>2. 1..len = 1..none
    BY <1>7, <2>1
  <2>3. Unpad(str) \in [1..none -> Byte \cup {Unset}]
    BY <1>5, <2>2
  <2> QED
    BY <2>3, SeqOfFunction
<1> QED
  BY <1>6, <1>7

\* end() of decryption in the block modes.
LEMMA EndUnpaddedKeeps ==
    ASSUME mode \in {"ECB", "CBC"}, PaddingOK, NEW s, NEW text, NEW iv \in IvType,
           NEW sure \in BOOLEAN, Holding("dec", s, text, iv, sure),
           padding \in {"PKCS7", "ISO10126"} => Len(Blocks(text)) # 0
    PROVE  /\ EndUnpadded(s).obj \in Obj
           /\ EndUnpadded(s).obj.original = s.original
           /\ EndUnpadded(s).out \in Seq(Byte \cup {Unset})
           /\ EndUnpadded(s).tag = NoTag
           /\ UnpaddedEnded(text, iv, EndUnpadded(s).out, sure)
<1>1. s \in Obj
  BY DEF Holding
<1>2. PICK outs : Streamed("dec", s, Blocks(text), outs, iv, sure)
  BY DEF Holding
<1>3. /\ outs \in Seq(Block) /\ Len(outs) = Len(Blocks(text))
      /\ s.result = Flat(outs) /\ (sure => Right("dec", Blocks(text), outs, iv))
  BY <1>2 DEF Streamed
<1>4. EndUnpadded(s) = [obj |-> s, out |-> Unpad(s.result), tag |-> NoTag]
  BY DEF EndUnpadded, Unpad
<1>5. Flat(outs) \in Seq(Byte) /\ Len(Flat(outs)) = Whole(Len(outs))
  BY <1>3, FlatIs
<1>6. padding \in {"PKCS7", "ISO10126"} => Len(Flat(outs)) # 0
  <2>1. PICK n \in Nat : n = Len(outs)
    BY <1>3
  <2>2. n # 0 => Whole(n) # 0
    <3>1. \A m \in Int : m <= n => Whole(m) <= Whole(n) /\ Whole(1) = BlockSize
      BY <2>1, WholeAdds
    <3>2. n # 0 => Whole(1) <= Whole(n) /\ Whole(1) = BlockSize
      BY <2>1, <3>1
    <3>3. BlockSize > 0 /\ BlockSize \in Nat /\ Whole(n) \in Nat
      BY <2>1, Sizes, WholeNat
    <3> QED
      BY <3>2, <3>3
  <2> QED
    BY <1>3, <1>5, <2>1, <2>2
<1>7. Unpad(s.result) \in Seq(Byte \cup {Unset})
  BY <1>3, <1>5, <1>6, UnpadType
<1>8. UnpaddedEnded(text, iv, Unpad(s.result), sure)
  BY <1>3 DEF UnpaddedEnded
<1> QED
  BY <1>1, <1>4, <1>7, <1>8

-----------------------------------------------------------------------------
(* Decryption of what encryption returned.                                  *)

\* Blocks decrypted are the blocks encrypted: the cipher is injective.
LEMMA BlocksUndone ==
    ASSUME mode \in {"ECB", "CBC"}, NEW ins \in Seq(Block), NEW outs \in Seq(Block),
           NEW back \in Seq(Block), NEW iv \in IvType,
           Len(outs) = Len(ins), Len(back) = Len(outs),
           Right("enc", ins, outs, iv), Right("dec", outs, back, iv)
    PROVE  back = ins
<1>1. PICK n \in Nat : n = Len(ins)
  OBVIOUS
<1>2. ASSUME NEW i \in 1..n PROVE back[i] = ins[i]
  <2>1. ins[i] \in Block /\ outs[i] \in Block /\ back[i] \in Block
    BY <1>1
  <2>2. RightBlock("enc", ins, outs, iv, i) /\ RightBlock("dec", outs, back, iv, i)
    BY <1>1 DEF Right
  <2>3. CASE mode = "ECB"
    <3>1. outs[i] = Encrypt[ins[i]] /\ Encrypt[back[i]] = outs[i]
      BY <2>2, <2>3 DEF RightBlock
    <3> QED
      BY <2>1, <3>1, CipherAssumption
  <2>4. CASE mode = "CBC"
    <3>1. PICK c : c = IF i = 1 THEN iv ELSE outs[i - 1]
      OBVIOUS
    <3>2. c \in Block
      <4>1. CASE i = 1
        BY <2>4, <3>1, <4>1 DEF IvType
      <4>2. CASE i # 1
        <5>1. i - 1 \in 1..Len(outs)
          BY <1>1, <4>2
        <5> QED
          BY <3>1, <4>2, <5>1
      <4> QED
        BY <4>1, <4>2
    <3>3. /\ outs[i] = Encrypt[XorBlock(ins[i], c)]
          /\ Encrypt[XorBlock(back[i], c)] = outs[i]
      BY <2>2, <2>4, <3>1 DEF RightBlock
    <3> DEFINE x == XorBlock(ins[i], c)
               y == XorBlock(back[i], c)
    <3>4. x \in Block /\ XorBlock(x, c) = ins[i]
      BY <2>1, <3>2, XorIs
    <3>5. y \in Block /\ XorBlock(y, c) = back[i]
      BY <2>1, <3>2, XorIs
    <3>6. Encrypt[x] = Encrypt[y]
      BY <3>3
    <3> HIDE DEF x, y
    <3>7. x = y
      BY <3>4, <3>5, <3>6, CipherAssumption
    <3> QED
      BY <3>4, <3>5, <3>7
  <2> QED
    BY <2>3, <2>4
<1> QED
  BY <1>1, <1>2

\* resize to a length within the string cuts it.
LEMMA Cut ==
    ASSUME NEW str \in Seq(Byte), NEW len \in 0..Len(str)
    PROVE  Resize(str, len) = SubSeq(str, 1, len)
<1>1. PICK n \in Nat : n = len
  OBVIOUS
<1>2. \A i \in 1..n : i <= Len(str)
  BY <1>1
<1>3. Resize(str, n) = [i \in 1..n |-> str[i]]
  BY <1>2 DEF Resize
<1>4. SubSeq(str, 1, n) = [i \in 1..n |-> str[i]]
  BY <1>1
<1> QED
  BY <1>1, <1>3, <1>4

\* Without padding to remove, end() returns all blocks.
LEMMA NothingToRemove ==
    ASSUME padding \in {"None", "Zeros"}, NEW str \in Seq(Byte)
    PROVE  Unpad(str) = str
<1>1. Unpad(str) = Resize(str, Len(str))
  BY DEF Unpad
<1>2. Len(str) \in 0..Len(str)
  OBVIOUS
<1>3. Resize(str, Len(str)) = SubSeq(str, 1, Len(str))
  BY <1>2, Cut
<1> QED
  BY <1>1, <1>3

\* The last byte says how much was added: it is less than half of the values
\* of a byte, so it is read as it was written.
LEMMA FillRemoved ==
    ASSUME padding \in {"PKCS7", "ISO10126"}, NEW text \in Seq(Byte),
           NEW fill \in Seq(Byte), NEW n \in 1..BlockSize,
           Len(fill) = n, fill[n] = n
    PROVE  Unpad(text \o fill) = text
<1> DEFINE str == text \o fill
<1>1. n \in Nat /\ 2 * n < ByteBase /\ n <= BlockSize /\ BlockSize \in Nat /\ n # 0
  BY Sizes
<1>2. /\ str \in Seq(Byte) /\ Len(str) = Len(text) + n /\ str[Len(text) + n] = n
      /\ SubSeq(str, 1, Len(text)) = text
  <2>1. n \in 1..Len(fill)
    BY <1>1
  <2>2. \A s, t \in Seq(Byte) :
          /\ s \o t \in Seq(Byte) /\ Len(s \o t) = Len(s) + Len(t)
          /\ \A i \in 1..Len(t) : (s \o t)[Len(s) + i] = t[i]
          /\ SubSeq(s \o t, 1, Len(s)) = s
    BY ConcatIs
  <2> QED
    BY <2>1, <2>2
<1> HIDE DEF str
<1>3. Char(n) = n
  BY <1>1 DEF Char
<1>4. RemovePadding(n) = n
  BY <1>1, <1>3 DEF RemovePadding
<1>5. Len(text) \in 0..Len(str) /\ Len(str) - n = Len(text)
  BY <1>1, <1>2
<1>6. Unpad(str) = Resize(str, Len(text))
  BY <1>2, <1>4, <1>5 DEF Unpad
<1> QED
  BY <1>2, <1>5, <1>6, Cut DEF str

\* Block modes: what was encrypted comes out, without its padding.
LEMMA PaddedUndone ==
    ASSUME mode \in {"ECB", "CBC"}, PaddingOK, NEW text \in Seq(Byte), NEW cipher,
           NEW iv \in IvType, NEW iv2, mode = "ECB" \/ iv = iv2, NEW out,
           PaddedEnded(text, iv, cipher), UnpaddedEnded(cipher, iv2, out, TRUE)
    PROVE  out = Recovered(text)
<1> DEFINE rest == Rest(text)
           r == Len(rest)
<1>1. /\ rest \in Seq(Byte) /\ r \in Nat /\ r < BlockSize /\ r = Len(text) % BlockSize
      /\ SubSeq(text, 1, WholeLen(text)) = Flat(Blocks(text))
  BY FlatBlocks
<1>2. PICK fill \in Fills(Len(Rest(text))) : \E outs \in Seq(Block) :
        /\ Len(outs) = Len(Blocks(text \o fill))
        /\ Right("enc", Blocks(text \o fill), outs, iv)
        /\ cipher = Flat(outs)
  BY DEF PaddedEnded
<1>3. PICK len \in 0..(BlockSize - 1) : len = r
  BY <1>1, Sizes
<1>4. /\ fill \in Seq(Byte)
      /\ padding = "None" => fill = <<>>
      /\ padding # "None" => Len(fill) = BlockSize - len
      /\ padding = "Zeros" => fill = Zeros(BlockSize - len)
      /\ padding \in {"PKCS7", "ISO10126"} => fill[BlockSize - len] = BlockSize - len
  <2>1. fill \in Fills(len)
    BY <1>2, <1>3
  <2> QED
    BY <2>1, FillIs
<1> DEFINE bs == Blocks(text \o fill)
<1>5. bs \in Seq(Block)
  <2>1. text \in Seq(Byte) /\ fill \in Seq(Byte)
    BY <1>4
  <2>2. text \o fill \in Seq(Byte)
    BY <2>1, ConcatIs
  <2> QED
    BY <2>2, FlatBlocks
<1>6. PICK outs \in Seq(Block) : /\ Len(outs) = Len(bs) /\ Right("enc", bs, outs, iv)
                                 /\ cipher = Flat(outs)
  BY <1>2
<1>7. Blocks(cipher) = outs
  BY <1>6, BlocksOfFlat
<1>8. PICK back \in Seq(Block) : /\ Len(back) = Len(outs) /\ Right("dec", outs, back, iv2)
                                 /\ out = Unpad(Flat(back))
  BY <1>7 DEF UnpaddedEnded
<1> HIDE DEF bs
<1>9. Right("dec", outs, back, iv)
  BY <1>8 DEF Right, RightBlock
<1>10. out = Unpad(Flat(bs))
  <2>1. back = bs
    BY <1>5, <1>6, <1>8, <1>9, BlocksUndone
  <2> QED
    BY <1>8, <2>1
<1>11. Flat(bs) \in Seq(Byte)
  BY <1>5, FlatIs
<1>12. padding # "None" => Flat(bs) = text \o fill
  <2>1. padding # "None" => Len(fill) = BlockSize - Len(Rest(text))
    BY <1>3, <1>4
  <2> QED
    BY <1>4, <2>1, FillsUp DEF bs
<1>13. CASE padding = "None"
  <2>1. text \o fill = text
    BY <1>4, <1>13
  <2>2. Flat(bs) = SubSeq(text, 1, WholeLen(text))
    BY <1>1, <2>1 DEF bs
  <2>3. Unpad(Flat(bs)) = Flat(bs)
    BY <1>11, <1>13, NothingToRemove
  <2> QED
    BY <1>10, <1>13, <2>2, <2>3 DEF Recovered
<1>14. CASE padding = "Zeros"
  <2>1. Unpad(Flat(bs)) = Flat(bs)
    BY <1>11, <1>14, NothingToRemove
  <2>2. fill = Zeros(BlockSize - (Len(text) % BlockSize))
    BY <1>1, <1>3, <1>4, <1>14
  <2> QED
    BY <1>10, <1>12, <1>14, <2>1, <2>2 DEF Recovered
<1>15. CASE padding \in {"PKCS7", "ISO10126"}
  <2>1. PICK n \in 1..BlockSize : n = BlockSize - len
    <3>1. BlockSize \in Nat
      BY Sizes
    <3>2. BlockSize - len \in 1..BlockSize
      BY <3>1
    <3> QED
      BY <3>2
  <2>2. Len(fill) = n /\ fill[n] = n
    BY <1>4, <1>15, <2>1
  <2>3. Unpad(text \o fill) = text
    BY <1>4, <1>15, <2>2, FillRemoved
  <2> QED
    BY <1>10, <1>12, <1>15, <2>3 DEF Recovered
<1> QED
  BY <1>13, <1>14, <1>15 DEF PaddingOK

\* The byte of the key stream that meets the p-th byte of a text.
KeyByte(iv, p) ==
    LET i == ((p - 1) \div BlockSize) + 1
        counter == IF mode = "CTR" THEN CounterAt(iv, i - 1) ELSE GcmCounter(iv, i + 1)
    IN  Encrypt[counter][((p - 1) % BlockSize) + 1]

\* What comes out of the counter modes, byte by byte.
LEMMA StreamBytes ==
    ASSUME mode \in {"CTR", "GCM"}, NEW o, NEW text \in Seq(Byte),
           NEW iv \in IvType, NEW outs \in Seq(Block),
           Len(outs) = Len(Blocks(Pad(text))), Right(o, Blocks(Pad(text)), outs, iv)
    PROVE  \A p \in 1..Len(text) :
             /\ KeyByte(iv, p) \in Byte /\ text[p] \in Byte
             /\ Flat(outs)[p] = XorByte[<<text[p], KeyByte(iv, p)>>]
<1> DEFINE bs == Blocks(Pad(text))
<1>1. /\ Pad(text) \in Seq(Byte) /\ Len(text) <= Len(Pad(text)) /\ Pad(text) = Flat(bs)
      /\ \A p \in 1..Len(text) : Pad(text)[p] = text[p]
  BY PadIs
<1>2. bs \in Seq(Block)
  BY <1>1, FlatBlocks
<1>3. Right(o, bs, outs, iv) /\ Len(outs) = Len(bs)
  OBVIOUS
<1> HIDE DEF bs
<1>4. PICK n \in Nat : n = Len(bs)
  BY <1>2
<1>5. /\ Len(Pad(text)) = Whole(n)
      /\ \A i \in 1..n, j \in 1..BlockSize : Flat(bs)[Place(i, j)] = bs[i][j]
  BY <1>1, <1>2, <1>4, FlatIs
<1>6. \A i \in 1..n, j \in 1..BlockSize : Flat(outs)[Place(i, j)] = outs[i][j]
  BY <1>3, <1>4, FlatIs
<1> TAKE p \in 1..Len(text)
<1>7. p \in 1..Whole(n)
  <2>1. Whole(n) \in Nat
    BY <1>4, WholeNat
  <2>2. Len(text) <= Whole(n)
    BY <1>1, <1>5
  <2> QED
    BY <2>1, <2>2
<1>8. PICK i \in 1..n, j \in 1..BlockSize : p = Place(i, j)
  BY <1>7, PlaceOf
<1>9. i \in Nat \ {0} /\ (p - 1) \div BlockSize = i - 1 /\ (p - 1) % BlockSize = j - 1
  <2>1. i \in Nat \ {0}
    OBVIOUS
  <2>2. (Place(i, j) - 1) \div BlockSize = i - 1 /\ (Place(i, j) - 1) % BlockSize = j - 1
    BY <2>1, Places
  <2> QED
    BY <1>8, <2>1, <2>2
<1>10. PICK c : c = IF mode = "CTR" THEN CounterAt(iv, i - 1) ELSE GcmCounter(iv, i + 1)
  OBVIOUS
<1>11. c \in Block
  <2>1. CASE mode = "CTR"
    <3>1. iv \in Seq(Byte) /\ Len(iv) = BlockSize
      BY <2>1, BlockOfSeq DEF IvType
    <3>2. i - 1 \in Nat
      BY <1>9
    <3>3. CounterAt(iv, i - 1) \in Seq(Byte) /\ Len(CounterAt(iv, i - 1)) = Len(iv)
      BY <3>1, <3>2, CounterType
    <3> QED
      BY <1>10, <2>1, <3>1, <3>3, BlockOfSeq
  <2>2. CASE mode = "GCM"
    <3>1. i + 1 \in Nat /\ iv \in [1..IvSize -> Byte]
      BY <1>9, <2>2 DEF IvType
    <3>2. GcmCounter(iv, i + 1) \in Block
      BY <3>1, GcmCounterNext
    <3> QED
      BY <1>10, <2>2, <3>2
  <2> QED
    BY <2>1, <2>2
<1>12. outs[i] = XorBlock(bs[i], Encrypt[c])
  <2>1. RightBlock(o, bs, outs, iv, i)
    BY <1>3, <1>4 DEF Right
  <2> QED
    BY <1>10, <2>1 DEF RightBlock, GcmCounter
<1>13. Encrypt[c] \in Block /\ bs[i] \in Block
  BY <1>2, <1>4, <1>11, CipherIs
<1>14. outs[i][j] = XorByte[<<bs[i][j], Encrypt[c][j]>>]
  BY <1>12, <1>13, XorIs
<1>15. KeyByte(iv, p) = Encrypt[c][j]
  <2>1. ((p - 1) \div BlockSize) + 1 = i /\ ((p - 1) % BlockSize) + 1 = j
    BY <1>9
  <2> QED
    BY <1>10, <2>1 DEF KeyByte
<1>16. Encrypt[c][j] \in Byte /\ text[p] \in Byte
  <2>1. Encrypt[c] \in [1..BlockSize -> Byte]
    BY <1>13 DEF Block
  <2>2. Encrypt[c][j] \in Byte
    BY <2>1
  <2>3. text[p] \in Byte
    <3>1. text \in [1..Len(text) -> Byte]
      OBVIOUS
    <3> QED
      BY <3>1
  <2> QED
    BY <2>2, <2>3
<1>17. text[p] = bs[i][j] /\ Flat(outs)[p] = outs[i][j]
  BY <1>1, <1>5, <1>6, <1>8
<1> QED
  BY <1>14, <1>15, <1>16, <1>17

\* Counter modes: the same key stream twice.
LEMMA StreamUndone ==
    ASSUME mode \in {"CTR", "GCM"}, NEW text \in Seq(Byte), NEW cipher \in Seq(Byte),
           NEW iv \in IvType, NEW out,
           StreamEnded("enc", text, iv, cipher), StreamEnded("dec", cipher, iv, out)
    PROVE  out = text /\ Len(cipher) = Len(text)
<1>1. PICK outs \in Seq(Block) :
        /\ Len(outs) = Len(Blocks(Pad(text))) /\ Right("enc", Blocks(Pad(text)), outs, iv)
        /\ cipher = SubSeq(Flat(outs), 1, Len(text))
  BY DEF StreamEnded
<1>2. PICK back \in Seq(Block) :
        /\ Len(back) = Len(Blocks(Pad(cipher))) /\ Right("dec", Blocks(Pad(cipher)), back, iv)
        /\ out = SubSeq(Flat(back), 1, Len(cipher))
  BY DEF StreamEnded
<1>3. /\ Len(cipher) = Len(text)
      /\ \A p \in 1..Len(text) : cipher[p] = Flat(outs)[p]
  BY <1>1, StreamLength
<1>4. /\ out \in Seq(Byte) /\ Len(out) = Len(cipher)
      /\ \A p \in 1..Len(cipher) : out[p] = Flat(back)[p]
  BY <1>2, StreamLength
<1>5. \A p \in 1..Len(text) :
        /\ KeyByte(iv, p) \in Byte /\ text[p] \in Byte
        /\ Flat(outs)[p] = XorByte[<<text[p], KeyByte(iv, p)>>]
  BY <1>1, StreamBytes
<1>6. \A p \in 1..Len(cipher) : Flat(back)[p] = XorByte[<<cipher[p], KeyByte(iv, p)>>]
  BY <1>2, StreamBytes
<1>7. \A p \in 1..Len(text) : out[p] = text[p]
  <2> TAKE p \in 1..Len(text)
  <2>1. PICK a \in Byte, k \in Byte : a = text[p] /\ k = KeyByte(iv, p)
    BY <1>5
  <2>2. cipher[p] = XorByte[<<a, k>>] /\ out[p] = XorByte[<<cipher[p], k>>]
    BY <1>3, <1>4, <1>5, <1>6, <2>1
  <2>3. XorByte[<<XorByte[<<a, k>>], k>>] = a
    BY XorAssumption
  <2> QED
    BY <2>1, <2>2, <2>3
<1> QED
  BY <1>3, <1>4, <1>7

-----------------------------------------------------------------------------
(* What end() has returned, by mode.                                        *)

Ended(o, e) ==
    /\ mode \in {"CTR", "GCM"} =>
        /\ StreamEnded(o, e.text, e.iv, e.out)
        /\ e.tag = IF mode = "GCM" THEN GcmTag(o, e.text, e.iv, e.out) ELSE NoTag
    /\ mode \in {"ECB", "CBC"} =>
        /\ o = "enc" => PaddedEnded(e.text, e.iv, e.out)
        /\ o = "dec" => UnpaddedEnded(e.text, e.iv, e.out, mode # "CBC" \/ e.aligned)
        /\ e.tag = NoTag

\* Two messages of which the second is given what the first returned.
LEMMA EndedUndone ==
    ASSUME ModeOK, PaddingOK, NEW e, NEW d, Ended("enc", e), Ended("dec", d),
           e.text \in Seq(Byte), e.out \in Seq(Byte), e.iv \in IvType,
           d.text = e.out, mode # "CBC" \/ d.aligned, mode = "ECB" \/ e.iv = d.iv
    PROVE  d.out = Recovered(e.text) /\ d.tag = e.tag
<1>1. CASE mode \in {"ECB", "CBC"}
  <2>1. PaddedEnded(e.text, e.iv, e.out)
    BY <1>1 DEF Ended
  <2>2. UnpaddedEnded(e.out, d.iv, d.out, TRUE)
    BY <1>1 DEF Ended
  <2>3. d.out = Recovered(e.text)
    BY <1>1, <2>1, <2>2, PaddedUndone
  <2> QED
    BY <1>1, <2>3 DEF Ended
<1>2. CASE mode \in {"CTR", "GCM"}
  <2>1. d.iv = e.iv
    BY <1>2
  <2>2. StreamEnded("enc", e.text, e.iv, e.out) /\ StreamEnded("dec", e.out, e.iv, d.out)
    BY <1>2, <2>1 DEF Ended
  <2>3. d.out = e.text /\ Len(e.out) = Len(e.text)
    BY <1>2, <2>2, StreamUndone
  <2>4. d.out = Recovered(e.text)
    BY <1>2, <2>3 DEF Recovered
  <2>5. d.tag = e.tag
    BY <1>2, <2>1, <2>3 DEF Ended, GcmTag
  <2> QED
    BY <2>4, <2>5
<1> QED
  BY <1>1, <1>2 DEF ModeOK

-----------------------------------------------------------------------------
(* The inductive invariant.                                                 *)

\* The IV the objects start with, and the one that follows a message.
StartIV == IF mode = "GCM" THEN SubSeq(InitialIV, 1, IvSize) ELSE InitialIV
After(e) ==
    CASE mode = "CTR" -> CounterAt(e.iv, Used(e.text))
      [] mode = "GCM" -> CounterAt(e.iv, 1)
      [] OTHER        -> InitialIV
Following(es) == IF Len(es) = 0 THEN StartIV ELSE After(es[Len(es)])

Message ==
    [text : Seq(Byte), iv : IvType, aligned : BOOLEAN, moved : BOOLEAN,
     out : Seq(Byte \cup {Unset}), tag : Tags]

Sure(o, al) == mode # "CBC" \/ o = "enc" \/ al

\* The messages ended are as the mode has them, each under the IV that
\* follows the one before.
Messages(o, es) ==
    /\ \A k \in 1..Len(es) : Ended(o, es[k]) /\ (o = "enc" => es[k].out \in Seq(Byte))
    /\ \A k \in 2..Len(es) : ~es[k].moved => es[k].iv = After(es[k - 1])

\* An object holds what it was given since, under the IV that follows or the
\* one that was set.
Keeps(o, s, text, iv, al, mv, es) ==
    /\ Holding(o, s, text, iv, Sure(o, al))
    /\ s.original = Following(es)
    /\ mv => mode \in {"CBC", "CTR"}
    /\ ~mv => iv = s.original

Chosen ==
    /\ mode \in Modes /\ padding \in Paddings \cup {"None"}
    /\ mode \in {"CTR", "GCM"} => padding = "None"

\* The k-th message decrypted is the k-th result of encryption.
Replies(en) ==
    /\ Len(en["dec"]) <= Len(en["enc"])
    /\ \A k \in 1..Len(en["dec"]) : en["dec"][k].text = en["enc"][k].out

Typed(ob, fd, bg, al, mv, en) ==
    /\ ob \in [Objects -> Obj] /\ fd \in [Objects -> Seq(Byte)]
    /\ bg \in [Objects -> IvType] /\ al \in BOOLEAN
    /\ mv \in [Objects -> BOOLEAN] /\ en \in [Objects -> Seq(Message)]

InvOf(ob, fd, bg, al, mv, en) ==
    /\ Typed(ob, fd, bg, al, mv, en)
    /\ \A o \in Objects : /\ Keeps(o, ob[o], fd[o], bg[o], al, mv[o], en[o])
                          /\ Messages(o, en[o])
    /\ Replies(en)

Inv == Chosen /\ InvOf(obj, fed, begin, aligned, moved, ended)

\* The mode and the padding do not change, so neither does their meaning.
LEMMA SameModes ==
    ASSUME UNCHANGED <<mode, padding>>, Chosen,
           InvOf(obj', fed', begin', aligned', moved', ended')
    PROVE  Inv'
<1>1. mode' = mode /\ padding' = padding
  OBVIOUS
<1>2. Chosen'
  BY <1>1 DEF Chosen
<1>3. Typed(obj, fed, begin, aligned, moved, ended)'
  BY <1>1 DEF InvOf, Typed, Obj, Message, IvType
<1>4. Replies(ended)'
  BY <1>1 DEF InvOf, Replies
<1>5. ASSUME NEW o \in Objects
      PROVE  Keeps(o, obj[o], fed[o], begin[o], aligned, moved[o], ended[o])'
  <2>1. Keeps(o, obj'[o], fed'[o], begin'[o], aligned', moved'[o], ended'[o])
    BY DEF InvOf
  <2>2. PICK outs :
          Streamed(o, obj'[o], Blocks(fed'[o]), outs, begin'[o], Sure(o, aligned'))
    BY <2>1 DEF Keeps, Holding
  <2>3. Right(o, Blocks(fed[o]), outs, begin[o])'
          <=> Right(o, Blocks(fed'[o]), outs, begin'[o])
    BY <1>1 DEF Right, RightBlock
  <2>4. Streamed(o, obj[o], Blocks(fed[o]), outs, begin[o], Sure(o, aligned))'
    BY <1>1, <2>2, <2>3 DEF Streamed, Chained, Sure
  <2>5. Holding(o, obj[o], fed[o], begin[o], Sure(o, aligned))'
    BY <1>1, <2>1, <2>4 DEF Keeps, Holding, Obj, IvType
  <2>6. (/\ obj[o].original = Following(ended[o])
         /\ (moved[o] => mode \in {"CBC", "CTR"})
         /\ (~moved[o] => begin[o] = obj[o].original))'
    BY <1>1, <2>1 DEF Keeps, Following, StartIV, After
  <2> QED
    BY <2>5, <2>6 DEF Keeps
<1>6. ASSUME NEW o \in Objects
      PROVE  Messages(o, ended[o])'
  <2>1. Messages(o, ended'[o])
    BY DEF InvOf
  <2>2. \A k \in 2..Len(ended'[o]) :
            ~ended'[o][k].moved => ended'[o][k].iv = After(ended[o][k - 1])'
    BY <1>1, <2>1 DEF Messages, After
  <2>3. ASSUME NEW k \in 1..Len(ended'[o])
        PROVE  Ended(o, ended[o][k])' /\ (o = "enc" => ended'[o][k].out \in Seq(Byte))
    <3>1. Ended(o, ended'[o][k]) /\ (o = "enc" => ended'[o][k].out \in Seq(Byte))
      BY <2>1 DEF Messages
    <3>2. StreamEnded(o, ended[o][k].text, ended[o][k].iv, ended[o][k].out)'
            <=> StreamEnded(o, ended'[o][k].text, ended'[o][k].iv, ended'[o][k].out)
      BY <1>1 DEF StreamEnded, Right, RightBlock
    <3>3. PaddedEnded(ended[o][k].text, ended[o][k].iv, ended[o][k].out)'
            <=> PaddedEnded(ended'[o][k].text, ended'[o][k].iv, ended'[o][k].out)
      BY <1>1 DEF PaddedEnded, Right, RightBlock, Fills
    <3>4. UnpaddedEnded(ended[o][k].text, ended[o][k].iv, ended[o][k].out,
                        mode # "CBC" \/ ended[o][k].aligned)'
            <=> UnpaddedEnded(ended'[o][k].text, ended'[o][k].iv, ended'[o][k].out,
                        mode # "CBC" \/ ended'[o][k].aligned)
      BY <1>1 DEF UnpaddedEnded, Right, RightBlock, Unpad, RemovePadding
    <3> QED
      BY <1>1, <3>1, <3>2, <3>3, <3>4 DEF Ended, GcmTag
  <2> QED
    BY <2>1, <2>2, <2>3 DEF Messages
<1> QED
  BY <1>2, <1>3, <1>4, <1>5, <1>6 DEF Inv, InvOf

\* The modes and paddings are those of the library.
LEMMA ChosenModes ==
    ASSUME Chosen
    PROVE  ModeOK /\ PaddingOK
BY InputsAssumption DEF Chosen, ModeOK, PaddingOK

\* An object with nothing in it.
LEMMA Fresh ==
    ASSUME ModeOK, NEW o \in Objects, NEW s \in Obj, NEW sure \in BOOLEAN,
           s.buffer = <<>>, s.result = <<>>,
           mode = "GCM" => s.j0 = GcmCounter(s.iv, 2) /\ s.absorbed = <<>>
    PROVE  Holding(o, s, <<>>, s.iv, sure)
<1> DEFINE iv == s.iv
           none == <<>>
<1>1. none \in Seq(Byte) /\ none \in Seq(Block) /\ Len(none) = 0
  OBVIOUS
<1>2. Blocks(none) = none /\ Rest(none) = none
  BY NoBlocks
<1>3. Right(o, none, none, iv)
  BY <1>1 DEF Right
<1>4. mode = "CTR" => CounterAt(iv, Len(none)) = iv
  <2>1. ASSUME mode = "CTR" PROVE iv \in Seq(Byte)
    BY <2>1, BlockOfSeq DEF Obj, IvType
  <2>2. PICK n \in Nat : n = Len(none)
    BY <1>1
  <2>3. n = 0
    BY <1>1, <2>2
  <2>4. mode = "CTR" => CounterAt(iv, n) = iv
    BY <2>1, <2>3, CounterZero
  <2> QED
    BY <2>2, <2>4
<1>5. mode = "GCM" => s.j0 = GcmCounter(iv, Len(none) + 2)
  <2>1. Len(none) + 2 = 2
    BY <1>1
  <2> QED
    BY <2>1
<1>6. Chained(o, s, none, none, iv)
  BY <1>1, <1>4, <1>5 DEF Chained
<1>7. Streamed(o, s, Blocks(none), none, iv, sure)
  BY <1>1, <1>2, <1>3, <1>6, FlatFew DEF Streamed
<1> HIDE DEF iv, none
<1>8. Holding(o, s, none, iv, sure)
  BY <1>1, <1>2, <1>7 DEF Holding, none
<1> QED
  BY <1>8 DEF none, iv

\* A reset object is a fresh one under its original IV.
LEMMA ResetIs ==
    ASSUME ModeOK, NEW o \in Objects, NEW s \in Obj, NEW sure \in BOOLEAN
    PROVE  /\ ResetObj(s) \in Obj
           /\ ResetObj(s).iv = s.original /\ ResetObj(s).original = s.original
           /\ Holding(o, ResetObj(s), <<>>, s.original, sure)
<1> DEFINE t == ResetObj(s)
<1>1. /\ s.original \in IvType
      /\ DOMAIN s = {"buffer", "result", "iv", "original", "j0", "absorbed"}
  BY DEF Obj
<1>2. /\ t.buffer = <<>> /\ t.result = <<>> /\ t.absorbed = <<>>
      /\ t.iv = s.original /\ t.original = s.original
      /\ t.j0 = IF mode = "GCM" THEN Inc32(J0Begin(s.original)) ELSE s.j0
  BY <1>1 DEF ResetObj, Obj
<1>3. mode = "GCM" => t.j0 = GcmCounter(s.original, 2) /\ t.j0 \in Block
  <2> SUFFICES ASSUME mode = "GCM"
               PROVE  t.j0 = GcmCounter(s.original, 2) /\ t.j0 \in Block
    OBVIOUS
  <2>1. PICK iv \in [1..IvSize -> Byte] : iv = s.original
    BY <1>1 DEF IvType
  <2>2. PICK n \in Nat : n = 1
    OBVIOUS
  <2>3. J0Begin(iv) = GcmCounter(iv, n)
    BY <2>2, FirstCounter
  <2>4. Inc32(GcmCounter(iv, n)) = GcmCounter(iv, n + 1)
    BY GcmCounterNext
  <2>5. n + 1 \in Nat /\ n + 1 = 2
    BY <2>2
  <2>6. GcmCounter(iv, n + 1) \in Block
    BY <2>5, GcmCounterNext
  <2> QED
    BY <1>2, <2>1, <2>3, <2>4, <2>5, <2>6
<1>4. t \in Obj
  <2>1. t.j0 \in Block
    BY <1>2, <1>3 DEF Obj
  <2>2. PICK j \in Block : j = t.j0
    BY <2>1
  <2>3. t = [s EXCEPT !.buffer = <<>>, !.result = <<>>, !.absorbed = <<>>,
                      !.iv = s.original, !.j0 = j]
    BY <1>2, <2>2 DEF ResetObj
  <2> HIDE DEF t
  <2>4. <<>> \in Seq(Byte) /\ <<>> \in Seq(Block)
    OBVIOUS
  <2> QED
    BY <1>1, <2>3, <2>4 DEF Obj
<1> HIDE DEF t
<1>5. Holding(o, t, <<>>, t.iv, sure)
  BY <1>2, <1>3, <1>4, Fresh
<1> QED
  BY <1>2, <1>4, <1>5 DEF t

-----------------------------------------------------------------------------
(* end(), whatever the mode.                                                *)

\* The tag is one.
LEMMA TagTypes ==
    /\ NoTag \in Tags
    /\ \A o, text, iv, out :
          /\ mode = "GCM" /\ iv \in IvType /\ text \in Seq(Byte) /\ out \in Seq(Byte)
          => GcmTag(o, text, iv, out) \in Tags
<1>1. NoTag \in Tags
  <2>1. PICK b \in Nat : b = BlockSize
    BY Sizes
  <2>2. Zeros(b) \in Seq(Byte) /\ Len(Zeros(b)) = b
    BY ZerosAre
  <2>3. Zeros(BlockSize) \in Block
    BY <2>1, <2>2, BlockOfSeq
  <2>4. <<>> \in Seq(Block)
    OBVIOUS
  <2> HIDE DEF Zeros, Block
  <2> QED
    BY <2>3, <2>4 DEF NoTag, Tags
<1>2. ASSUME NEW o, NEW text \in Seq(Byte), NEW iv \in IvType, NEW out \in Seq(Byte),
             mode = "GCM"
      PROVE  GcmTag(o, text, iv, out) \in Tags
  <2>1. PICK x \in Seq(Byte) : x = IF o = "enc" THEN out ELSE text
    OBVIOUS
  <2>2. Pad(x) \in Seq(Byte)
    BY PadIs
  <2>3. Blocks(Pad(x)) \in Seq(Block)
    BY <2>2, FlatBlocks
  <2>4. J0Begin(iv) \in Block
    <3>1. iv \in [1..IvSize -> Byte]
      BY <1>2 DEF IvType
    <3>2. PICK n \in Nat : n = 1
      OBVIOUS
    <3>3. GcmCounter(iv, n) \in Block
      BY <3>1, GcmCounterNext
    <3> QED
      BY <3>1, <3>2, <3>3, FirstCounter
  <2>5. Encrypt[J0Begin(iv)] \in Block
    BY <2>4, CipherIs
  <2> QED
    BY <2>1, <2>3, <2>5 DEF GcmTag, Tags
<1> QED
  BY <1>1, <1>2

\* An encrypted message is never empty when padding marks its end.
LEMMA PaddedNotEmpty ==
    ASSUME padding \in {"PKCS7", "ISO10126"}, NEW text \in Seq(Byte), NEW iv, NEW out,
           PaddedEnded(text, iv, out)
    PROVE  Len(Blocks(out)) # 0
<1>1. PICK fill \in Fills(Len(Rest(text))), outs \in Seq(Block) :
        /\ Len(outs) = Len(Blocks(text \o fill)) /\ out = Flat(outs)
  BY DEF PaddedEnded
<1>2. Rest(text) \in Seq(Byte) /\ Len(Rest(text)) < BlockSize /\ Blocks(text) \in Seq(Block)
  BY FlatBlocks
<1>3. PICK len \in 0..(BlockSize - 1) : len = Len(Rest(text))
  BY <1>2, Sizes
<1>4. fill \in Seq(Byte) /\ Len(fill) = BlockSize - len
  <2>1. fill \in Fills(len) /\ PaddingOK
    BY <1>1, <1>3 DEF PaddingOK
  <2> QED
    BY <2>1, FillIs
<1>5. Len(Blocks(text \o fill)) = Len(Blocks(text)) + 1
  BY <1>3, <1>4, FillsUp
<1>6. Blocks(out) = outs
  BY <1>1, BlocksOfFlat
<1> QED
  BY <1>1, <1>2, <1>5, <1>6

\* The message recorded, and the IV left for the next one.
Recorded(text, iv, al, mv, e) ==
    [text |-> text, iv |-> iv, aligned |-> al, moved |-> mv,
     out |-> e.out, tag |-> e.tag]
Left(s, text, iv) ==
    CASE mode = "CTR" -> CounterAt(iv, Used(text))
      [] mode = "GCM" -> CounterAt(s.original, 1)
      [] OTHER        -> s.original

\* Decryption ends a message with a block in it when padding is removed.
NotEmpty(o, text) ==
    mode \in {"ECB", "CBC"} /\ o = "dec" /\ padding \in {"PKCS7", "ISO10126"} =>
        Len(Blocks(text)) # 0

\* What end() does to an object that holds a text.
EndsWith(o, s, text, iv, e, m) ==
    /\ e.obj \in Obj /\ m \in Message /\ Ended(o, m)
    /\ o = "enc" => m.out \in Seq(Byte)
    /\ e.obj.original = Left(s, text, iv)

\* end(), whatever the mode and the padding.
LEMMA EndKeeps ==
    ASSUME ModeOK, PaddingOK, NEW o \in Objects, NEW s, NEW text, NEW iv \in IvType,
           NEW al \in BOOLEAN, NEW mv \in BOOLEAN, NEW sure \in BOOLEAN,
           sure <=> Sure(o, al), Holding(o, s, text, iv, sure),
           NotEmpty(o, text), NEW e \in EndInput(o, s), NEW m,
           m = Recorded(text, iv, al, mv, e)
    PROVE  EndsWith(o, s, text, iv, e, m)
<1>1. text \in Seq(Byte) /\ s \in Obj
  BY DEF Holding
<1>2. /\ m.text = text /\ m.iv = iv /\ m.aligned = al /\ m.moved = mv
      /\ m.out = e.out /\ m.tag = e.tag
  BY DEF Recorded
<1>3. ASSUME e.out \in Seq(Byte \cup {Unset}), e.tag \in Tags PROVE m \in Message
  <2>1. PICK out, tag : out = e.out /\ tag = e.tag
    OBVIOUS
  <2> QED
    BY <1>1, <1>3, <2>1 DEF Message, Recorded
<1>4. \A out : out \in Seq(Byte) => out \in Seq(Byte \cup {Unset})
  OBVIOUS
<1>5. CASE mode = "CTR"
  <2>1. e = EndCtr(o, s) /\ Holding(o, s, text, iv, TRUE)
    <3>1. sure = TRUE
      BY <1>5 DEF Sure
    <3> QED
      BY <1>5, <3>1 DEF EndInput
  <2>2. /\ e.obj \in Obj /\ e.obj.original = CounterAt(iv, Used(text))
        /\ e.out \in Seq(Byte) /\ e.tag = NoTag /\ StreamEnded(o, text, iv, e.out)
    BY <1>5, <2>1, EndCtrKeeps
  <2>3. m \in Message
    BY <1>3, <1>4, <2>2, TagTypes
  <2>4. Ended(o, m)
    BY <1>2, <1>5, <2>2 DEF Ended
  <2> QED
    BY <1>2, <1>5, <2>2, <2>3, <2>4 DEF Left, EndsWith
<1>6. CASE mode = "GCM"
  <2>1. e = EndGcm(o, s) /\ Holding(o, s, text, iv, TRUE)
    <3>1. sure = TRUE
      BY <1>6 DEF Sure
    <3> QED
      BY <1>6, <3>1 DEF EndInput
  <2>2. /\ e.obj \in Obj /\ e.obj.original = CounterAt(s.original, 1)
        /\ e.out \in Seq(Byte) /\ e.tag = GcmTag(o, text, iv, e.out)
        /\ StreamEnded(o, text, iv, e.out)
    BY <1>6, <2>1, EndGcmKeeps
  <2>3. e.tag \in Tags
    BY <1>1, <1>6, <2>2, TagTypes
  <2>4. m \in Message
    BY <1>3, <1>4, <2>2, <2>3
  <2>5. Ended(o, m)
    BY <1>2, <1>6, <2>2 DEF Ended
  <2> QED
    BY <1>2, <1>6, <2>2, <2>4, <2>5 DEF Left, EndsWith
<1>7. CASE mode \in {"ECB", "CBC"} /\ o = "enc"
  <2>1. Holding("enc", s, text, iv, TRUE)
    <3>1. sure = TRUE
      BY <1>7 DEF Sure
    <3> QED
      BY <1>7, <3>1
  <2>2. PICK fill \in Fills(Len(s.buffer)) : e = EndPadded(s, fill)
    BY <1>7 DEF EndInput
  <2>3. /\ e.obj \in Obj /\ e.obj.original = s.original /\ e.out \in Seq(Byte)
        /\ e.tag = NoTag /\ PaddedEnded(text, iv, e.out)
    BY <1>7, <2>1, <2>2, EndPaddedKeeps
  <2>4. m \in Message
    BY <1>3, <1>4, <2>3, TagTypes
  <2>5. Ended(o, m)
    BY <1>2, <1>7, <2>3 DEF Ended
  <2> QED
    BY <1>2, <1>7, <2>3, <2>4, <2>5 DEF Left, EndsWith
<1>8. CASE mode \in {"ECB", "CBC"} /\ o = "dec"
  <2>1. e = EndUnpadded(s)
    BY <1>8 DEF EndInput
  <2>2. sure <=> (mode # "CBC" \/ al)
    BY <1>8 DEF Sure
  <2>3. Holding("dec", s, text, iv, sure)
    BY <1>8
  <2>4. /\ e.obj \in Obj /\ e.obj.original = s.original
        /\ e.out \in Seq(Byte \cup {Unset}) /\ e.tag = NoTag
        /\ UnpaddedEnded(text, iv, e.out, sure)
    BY <1>8, <2>1, <2>3, EndUnpaddedKeeps DEF NotEmpty
  <2>5. m \in Message
    BY <1>3, <2>4, TagTypes
  <2>6. Ended(o, m)
    <3>1. sure = (mode # "CBC" \/ al)
      BY <2>2
    <3> QED
      BY <1>2, <1>8, <2>4, <3>1 DEF Ended
  <2> QED
    BY <1>2, <1>8, <2>4, <2>5, <2>6 DEF Left, EndsWith
<1> QED
  BY <1>5, <1>6, <1>7, <1>8 DEF ModeOK, Objects

\* A message more.
LEMMA MessagesGrow ==
    ASSUME NEW o \in Objects, NEW es \in Seq(Message), Messages(o, es),
           NEW m \in Message, Ended(o, m), o = "enc" => m.out \in Seq(Byte),
           ~m.moved => m.iv = Following(es)
    PROVE  /\ Append(es, m) \in Seq(Message) /\ Messages(o, Append(es, m))
           /\ Following(Append(es, m)) = After(m)
<1> DEFINE more == Append(es, m)
<1>1. PICK n \in Nat : n = Len(es)
  OBVIOUS
<1>2. /\ more \in Seq(Message) /\ Len(more) = n + 1 /\ more[n + 1] = m
      /\ \A i \in 1..n : more[i] = es[i]
  <2>1. es \in Seq(Message) /\ m \in Message
    OBVIOUS
  <2>2. /\ more \in Seq(Message) /\ Len(more) = Len(es) + 1 /\ more[Len(es) + 1] = m
        /\ \A i \in 1..Len(es) : more[i] = es[i]
    BY <2>1, AppendIs
  <2> QED
    BY <1>1, <2>2
<1> HIDE DEF more
<1>3. \A k \in 1..Len(more) : Ended(o, more[k]) /\ (o = "enc" => more[k].out \in Seq(Byte))
  <2> TAKE k \in 1..Len(more)
  <2>1. CASE k = n + 1
    BY <1>2, <2>1
  <2>2. CASE k # n + 1
    <3>1. k \in 1..n /\ more[k] = es[k]
      BY <1>1, <1>2, <2>2
    <3> QED
      BY <1>1, <3>1 DEF Messages
  <2> QED
    BY <2>1, <2>2
<1>4. \A k \in 2..Len(more) : ~more[k].moved => more[k].iv = After(more[k - 1])
  <2> TAKE k \in 2..Len(more)
  <2>1. CASE k = n + 1
    <3>1. n # 0 /\ n \in 1..n /\ k - 1 = n
      BY <1>1, <2>1
    <3>2. Following(es) = After(es[n]) /\ more[k - 1] = es[n] /\ more[k] = m
      BY <1>1, <1>2, <2>1, <3>1 DEF Following
    <3> QED
      BY <3>2
  <2>2. CASE k # n + 1
    <3>1. k \in 2..n /\ k - 1 \in 1..n
      BY <1>1, <1>2, <2>2
    <3>2. more[k] = es[k] /\ more[k - 1] = es[k - 1]
      BY <1>2, <3>1
    <3> QED
      BY <1>1, <3>1, <3>2 DEF Messages
  <2> QED
    BY <2>1, <2>2
<1>5. Following(more) = After(m)
  BY <1>1, <1>2 DEF Following
<1> QED
  BY <1>2, <1>3, <1>4, <1>5 DEF Messages, more

\* A function on the objects with one value changed.
Changes(f, g, o, x) == g = [f EXCEPT ![o] = x]

\* A step changes one object; the other only sees aligned, and only the
\* decrypting one depends on it.
LEMMA OneChanges ==
    ASSUME NEW ob, NEW fd, NEW bg, NEW al, NEW mv, NEW en,
           NEW ob2, NEW fd2, NEW bg2, NEW al2 \in BOOLEAN, NEW mv2, NEW en2,
           InvOf(ob, fd, bg, al, mv, en), NEW o \in Objects,
           NEW s, NEW text, NEW iv \in IvType, NEW v \in BOOLEAN, NEW es \in Seq(Message),
           Changes(ob, ob2, o, s), Changes(fd, fd2, o, text), Changes(bg, bg2, o, iv),
           Changes(mv, mv2, o, v), Changes(en, en2, o, es),
           o = "enc" => al2 = al,
           Keeps(o, s, text, iv, al2, v, es), Messages(o, es), Replies(en2)
    PROVE  InvOf(ob2, fd2, bg2, al2, mv2, en2)
<1>1. Typed(ob, fd, bg, al, mv, en) /\ s \in Obj /\ text \in Seq(Byte)
  BY DEF InvOf, Keeps, Holding
<1>2. Typed(ob2, fd2, bg2, al2, mv2, en2)
  <2> HIDE DEF Obj, Message, IvType
  <2> QED
    BY <1>1 DEF Typed, Changes
<1>3. ASSUME NEW p \in Objects
      PROVE  Keeps(p, ob2[p], fd2[p], bg2[p], al2, mv2[p], en2[p]) /\ Messages(p, en2[p])
  <2>1. CASE p = o
    <3>1. /\ ob2[o] = s /\ fd2[o] = text /\ bg2[o] = iv /\ mv2[o] = v /\ en2[o] = es
      BY <1>1 DEF Typed, Changes
    <3> QED
      BY <2>1, <3>1
  <2>2. CASE p # o
    <3>1. /\ ob2[p] = ob[p] /\ fd2[p] = fd[p] /\ bg2[p] = bg[p] /\ mv2[p] = mv[p]
          /\ en2[p] = en[p]
      BY <1>1, <2>2 DEF Typed, Changes
    <3>2. Keeps(p, ob[p], fd[p], bg[p], al, mv[p], en[p]) /\ Messages(p, en[p])
      BY DEF InvOf
    <3>3. Sure(p, al2) => Sure(p, al)
      BY <2>2 DEF Sure, Objects
    <3>4. Holding(p, ob[p], fd[p], bg[p], Sure(p, al2))
      <4>1. PICK outs : Streamed(p, ob[p], Blocks(fd[p]), outs, bg[p], Sure(p, al))
        BY <3>2 DEF Keeps, Holding
      <4>2. Streamed(p, ob[p], Blocks(fd[p]), outs, bg[p], Sure(p, al2))
        BY <3>3, <4>1 DEF Streamed
      <4> QED
        BY <3>2, <4>2 DEF Keeps, Holding
    <3> QED
      BY <3>1, <3>2, <3>4 DEF Keeps
  <2> QED
    BY <2>1, <2>2
<1> QED
  BY <1>2, <1>3 DEF InvOf

\* The facts about one object that the steps need.
LEMMA InvIs ==
    ASSUME Inv, NEW o \in Objects
    PROVE  /\ ModeOK /\ PaddingOK /\ Chosen
           /\ Typed(obj, fed, begin, aligned, moved, ended)
           /\ InvOf(obj, fed, begin, aligned, moved, ended)
           /\ Keeps(o, obj[o], fed[o], begin[o], aligned, moved[o], ended[o])
           /\ Messages(o, ended[o]) /\ Replies(ended)
           /\ obj[o] \in Obj /\ fed[o] \in Seq(Byte) /\ begin[o] \in IvType
           /\ aligned \in BOOLEAN /\ moved[o] \in BOOLEAN /\ ended[o] \in Seq(Message)
<1>1. Chosen /\ InvOf(obj, fed, begin, aligned, moved, ended)
  BY DEF Inv
<1>2. Typed(obj, fed, begin, aligned, moved, ended)
  BY <1>1 DEF InvOf
<1>3. /\ obj[o] \in Obj /\ fed[o] \in Seq(Byte) /\ begin[o] \in IvType
      /\ aligned \in BOOLEAN /\ moved[o] \in BOOLEAN /\ ended[o] \in Seq(Message)
  BY <1>2 DEF Typed
<1> QED
  BY <1>1, <1>2, <1>3, ChosenModes DEF InvOf

-----------------------------------------------------------------------------
(* It holds at first.                                                       *)

\* The first state.
LEMMA InitKeeps ==
    ASSUME Init
    PROVE  Inv
<1>1. Chosen /\ ModeOK
  BY InputsAssumption DEF Init, Chosen, ModeOK
<1> DEFINE iv == StartIV
           s == [buffer |-> <<>>, result |-> <<>>, iv |-> iv, original |-> iv,
                 j0 |-> Zeros(BlockSize), absorbed |-> <<>>]
<1>2. iv \in IvType
  <2>1. CASE mode = "GCM"
    <3>1. InitialIV \in Seq(Byte) /\ Len(InitialIV) = BlockSize
      BY InputsAssumption, BlockOfSeq
    <3>2. PICK n \in Nat : n = IvSize
      BY Sizes
    <3>3. n \in 0..Len(InitialIV)
      BY <3>1, <3>2, Sizes
    <3>4. SubSeq(InitialIV, 1, n) \in Seq(Byte) /\ Len(SubSeq(InitialIV, 1, n)) = n
      BY <3>1, <3>3, FrontIs
    <3>5. SubSeq(InitialIV, 1, IvSize) \in [1..IvSize -> Byte]
      BY <3>2, <3>4, IvOfSeq
    <3> QED
      BY <2>1, <3>5 DEF StartIV, IvType
  <2>2. CASE mode # "GCM"
    BY <2>2, InputsAssumption DEF StartIV, IvType
  <2> QED
    BY <2>1, <2>2
<1>3. s \in Obj
  <2>1. PICK z \in Block : z = Zeros(BlockSize)
    <3>1. PICK b \in Nat : b = BlockSize
      BY Sizes
    <3>2. Zeros(b) \in Seq(Byte) /\ Len(Zeros(b)) = b
      BY ZerosAre
    <3> QED
      BY <3>1, <3>2, BlockOfSeq
  <2>2. <<>> \in Seq(Byte) /\ <<>> \in Seq(Block)
    OBVIOUS
  <2> HIDE DEF iv
  <2> QED
    BY <1>2, <2>1, <2>2 DEF Obj
<1> DEFINE t == ResetObj(s)
<1>4. /\ obj = [o \in Objects |-> t] /\ fed = [o \in Objects |-> <<>>]
      /\ begin = [o \in Objects |-> iv] /\ aligned = TRUE
      /\ moved = [o \in Objects |-> FALSE] /\ ended = [o \in Objects |-> <<>>]
  BY DEF Init, StartIV
<1>5. s.original = iv
  OBVIOUS
<1> HIDE DEF s, iv
<1>6. ASSUME NEW o \in Objects, NEW sure \in BOOLEAN
      PROVE  /\ t \in Obj /\ t.original = iv
             /\ Holding(o, t, <<>>, iv, sure)
  BY <1>1, <1>3, <1>5, ResetIs
<1> HIDE DEF t
<1>7. t \in Obj
  <2>1. PICK o \in Objects : TRUE
    BY DEF Objects
  <2>2. TRUE \in BOOLEAN
    OBVIOUS
  <2> QED
    BY <1>6, <2>1, <2>2
<1>8. <<>> \in Seq(Byte) /\ <<>> \in Seq(Message) /\ Len(<<>>) = 0
  OBVIOUS
<1>9. Typed(obj, fed, begin, aligned, moved, ended)
  BY <1>2, <1>4, <1>7, <1>8 DEF Typed
<1>10. Replies(ended)
  <2>1. ended["enc"] = <<>> /\ ended["dec"] = <<>>
    BY <1>4 DEF Objects
  <2> QED
    BY <1>8, <2>1 DEF Replies
<1>11. ASSUME NEW o \in Objects
       PROVE  /\ Keeps(o, obj[o], fed[o], begin[o], aligned, moved[o], ended[o])
              /\ Messages(o, ended[o])
  <2>1. /\ obj[o] = t /\ fed[o] = <<>> /\ begin[o] = iv /\ moved[o] = FALSE
        /\ ended[o] = <<>>
    BY <1>4
  <2>2. PICK sure \in BOOLEAN : sure = Sure(o, aligned)
    BY DEF Sure
  <2>3. Holding(o, t, <<>>, iv, Sure(o, aligned)) /\ t.original = iv
    BY <1>6, <2>2
  <2>4. Following(<<>>) = iv
    BY <1>8 DEF Following, iv
  <2>5. Messages(o, <<>>)
    BY <1>8 DEF Messages
  <2> QED
    BY <2>1, <2>3, <2>4, <2>5 DEF Keeps
<1>12. InvOf(obj, fed, begin, aligned, moved, ended)
  BY <1>9, <1>10, <1>11 DEF InvOf
<1> QED
  BY <1>1, <1>12 DEF Inv

-----------------------------------------------------------------------------
(* Every step keeps it.                                                     *)

\* Whatever is given to an object is bytes.
LEMMA InputsAre ==
    ASSUME Inv, NEW o \in Objects, NEW input \in Inputs(o)
    PROVE  /\ input \in Seq(Byte)
           /\ o = "dec" => \E k \in 1..Len(ended["enc"]) :
                /\ k = Len(ended["dec"]) + 1 /\ input = ended["enc"][k].out
                /\ ended["enc"][k].text \in Seq(Byte) /\ Ended("enc", ended["enc"][k])
<1>1. CASE o = "enc"
  BY <1>1, InputsAssumption DEF Inputs
<1>2. CASE o = "dec"
  <2>1. PICK k \in DOMAIN ended["enc"] \cap {Len(ended["dec"]) + 1} :
          input = ended["enc"][k].out
    BY <1>2 DEF Inputs
  <2>2. "enc" \in Objects
    BY DEF Objects
  <2>3. ended["enc"] \in Seq(Message) /\ Messages("enc", ended["enc"])
    BY <2>2, InvIs
  <2>4. k \in 1..Len(ended["enc"]) /\ k = Len(ended["dec"]) + 1
    BY <2>1, <2>3
  <2>5. Ended("enc", ended["enc"][k]) /\ ended["enc"][k].out \in Seq(Byte)
    BY <2>3, <2>4 DEF Messages
  <2>6. ended["enc"][k].text \in Seq(Byte)
    <3>1. ended["enc"][k] \in Message
      BY <2>3, <2>4
    <3> QED
      BY <3>1 DEF Message
  <2> QED
    BY <2>1, <2>4, <2>5, <2>6
<1> QED
  BY <1>1, <1>2 DEF Objects

\* A step of add().
LEMMA AddChunkKeeps ==
    ASSUME Inv, NEW o \in Objects, AddChunk(o)
    PROVE  Inv'
<1>1. PICK input \in Inputs(o) : \E n \in 1..Len(input) :
        LET chunk == SubSeq(input, Len(fed[o]) + 1, n)
        IN  /\ obj' = [obj EXCEPT ![o] = Add(o, @, chunk)]
            /\ fed' = [fed EXCEPT ![o] = @ \o chunk]
            /\ aligned' = (aligned /\ (o = "dec" => obj[o].buffer = <<>>))
            /\ UNCHANGED <<mode, padding, begin, moved, ended>>
  BY DEF AddChunk
<1>2. PICK n \in 1..Len(input) :
        LET chunk == SubSeq(input, Len(fed[o]) + 1, n)
        IN  /\ obj' = [obj EXCEPT ![o] = Add(o, @, chunk)]
            /\ fed' = [fed EXCEPT ![o] = @ \o chunk]
            /\ aligned' = (aligned /\ (o = "dec" => obj[o].buffer = <<>>))
            /\ UNCHANGED <<mode, padding, begin, moved, ended>>
  BY <1>1
<1> DEFINE s == obj[o]
           text == fed[o]
           iv == begin[o]
           chunk == SubSeq(input, Len(text) + 1, n)
           t == Add(o, s, chunk)
           al2 == aligned /\ (o = "dec" => s.buffer = <<>>)
<1>3. /\ obj' = [obj EXCEPT ![o] = t] /\ fed' = [fed EXCEPT ![o] = text \o chunk]
      /\ aligned' = al2 /\ mode' = mode /\ padding' = padding
      /\ begin' = begin /\ moved' = moved /\ ended' = ended
  BY <1>2
<1>4. /\ ModeOK /\ Chosen /\ InvOf(obj, fed, begin, aligned, moved, ended)
      /\ Typed(obj, fed, begin, aligned, moved, ended)
      /\ Keeps(o, s, text, iv, aligned, moved[o], ended[o])
      /\ Messages(o, ended[o]) /\ Replies(ended)
      /\ text \in Seq(Byte) /\ iv \in IvType /\ aligned \in BOOLEAN
      /\ moved[o] \in BOOLEAN /\ ended[o] \in Seq(Message)
  BY InvIs
<1>5. chunk \in Seq(Byte)
  <2>1. input \in Seq(Byte)
    BY InputsAre
  <2>2. PICK m \in Nat : m = Len(text)
    BY <1>4
  <2>3. \A i \in (m + 1)..n : input[i] \in Byte
    BY <2>1, <2>2
  <2> QED
    BY <2>1, <2>2, <2>3
<1>6. PICK sure \in BOOLEAN, sure2 \in BOOLEAN : sure = Sure(o, aligned) /\ sure2 = Sure(o, al2)
  BY DEF Sure
<1>7. sure2 => sure /\ ~(mode = "CBC" /\ o = "dec" /\ s.buffer # <<>>)
  BY <1>6 DEF Sure
<1>8. Holding(o, s, text, iv, sure)
  BY <1>4, <1>6 DEF Keeps
<1> HIDE DEF s, text, iv, chunk
<1>9. Holding(o, t, text \o chunk, iv, sure2) /\ t.original = s.original
  BY <1>4, <1>5, <1>7, <1>8, AddKeeps
<1> HIDE DEF t
<1>10. Keeps(o, t, text \o chunk, iv, al2, moved[o], ended[o])
  BY <1>4, <1>6, <1>9 DEF Keeps
<1>11. PICK al3 \in BOOLEAN, v \in BOOLEAN, es \in Seq(Message) :
         al3 = al2 /\ v = moved[o] /\ es = ended[o]
  BY <1>4
<1>12. o = "enc" => al3 = aligned
  BY <1>4, <1>11
<1> HIDE DEF al2
<1>13. /\ begin = [begin EXCEPT ![o] = iv] /\ moved = [moved EXCEPT ![o] = v]
       /\ ended = [ended EXCEPT ![o] = es]
  BY <1>4, <1>11 DEF Typed, iv
<1>14. /\ Changes(obj, obj', o, t) /\ Changes(fed, fed', o, text \o chunk)
       /\ Changes(begin, begin', o, iv) /\ Changes(moved, moved', o, v)
       /\ Changes(ended, ended', o, es) /\ aligned' = al3
  BY <1>3, <1>11, <1>13 DEF Changes, text
<1>15. InvOf(obj', fed', begin', aligned', moved', ended')
  <2>1. /\ InvOf(obj, fed, begin, aligned, moved, ended) /\ iv \in IvType
        /\ Keeps(o, t, text \o chunk, iv, al3, v, es) /\ Messages(o, es)
        /\ Replies(ended')
    BY <1>3, <1>4, <1>10, <1>11
  <2>2. InvOf(obj', fed', begin', al3, moved', ended')
    BY <1>12, <1>14, <2>1, OneChanges
  <2> QED
    BY <1>14, <2>2
<1> QED
  BY <1>3, <1>4, <1>15, SameModes

\* What follows an end or a reset.
LEMMA ResetKeeps ==
    ASSUME Inv, NEW o \in Objects, NEW s \in Obj, NEW es \in Seq(Message),
           s.original = Following(es), Messages(o, es),
           Replies([ended EXCEPT ![o] = es]),
           obj' = [obj EXCEPT ![o] = ResetObj(s)], fed' = [fed EXCEPT ![o] = <<>>],
           begin' = [begin EXCEPT ![o] = obj'[o].iv], aligned' = (o = "dec" \/ aligned),
           moved' = [moved EXCEPT ![o] = FALSE], ended' = [ended EXCEPT ![o] = es],
           mode' = mode, padding' = padding
    PROVE  Inv'
<1> DEFINE t == ResetObj(s)
           iv == s.original
           al2 == o = "dec" \/ aligned
<1>1. /\ ModeOK /\ Chosen /\ InvOf(obj, fed, begin, aligned, moved, ended)
      /\ Typed(obj, fed, begin, aligned, moved, ended) /\ aligned \in BOOLEAN
  BY InvIs
<1>2. PICK sure \in BOOLEAN : sure = Sure(o, al2)
  BY DEF Sure
<1>3. /\ t \in Obj /\ t.iv = iv /\ t.original = iv /\ Holding(o, t, <<>>, iv, sure)
  BY <1>1, ResetIs
<1>4. iv \in IvType
  BY DEF Obj
<1>5. PICK v \in BOOLEAN : v = FALSE
  OBVIOUS
<1>6. obj'[o].iv = iv
  <2>1. obj'[o] = t
    BY <1>1 DEF Typed
  <2> HIDE DEF t
  <2> QED
    BY <1>3, <2>1
<1> HIDE DEF t, iv
<1>7. Keeps(o, t, <<>>, iv, al2, v, es)
  <2>1. t.original = Following(es)
    BY <1>3 DEF iv
  <2> QED
    BY <1>2, <1>3, <1>5, <2>1 DEF Keeps
<1>8. PICK al3 \in BOOLEAN : al3 = al2 /\ (o = "enc" => al3 = aligned)
  BY <1>1
<1> HIDE DEF al2
<1>9. /\ Changes(obj, obj', o, t) /\ Changes(fed, fed', o, <<>>)
      /\ Changes(begin, begin', o, iv) /\ Changes(moved, moved', o, v)
      /\ Changes(ended, ended', o, es) /\ aligned' = al3
  BY <1>5, <1>6, <1>8 DEF Changes, t, al2
<1>10. InvOf(obj', fed', begin', aligned', moved', ended')
  <2>1. /\ InvOf(obj, fed, begin, aligned, moved, ended) /\ iv \in IvType
        /\ Keeps(o, t, <<>>, iv, al3, v, es) /\ Messages(o, es)
        /\ Replies(ended') /\ (o = "enc" => al3 = aligned)
    BY <1>1, <1>4, <1>7, <1>8
  <2>2. InvOf(obj', fed', begin', al3, moved', ended')
    BY <1>9, <2>1, OneChanges
  <2> QED
    BY <1>9, <2>2
<1> QED
  BY <1>1, <1>10, SameModes

\* A step of end().
LEMMA EndKeepsInv ==
    ASSUME Inv, NEW o \in Objects, End(o)
    PROVE  Inv'
<1> DEFINE x == obj[o]
           text == fed[o]
           iv == begin[o]
           old == ended[o]
<1>1. /\ ModeOK /\ PaddingOK /\ Typed(obj, fed, begin, aligned, moved, ended)
      /\ Keeps(o, x, text, iv, aligned, moved[o], old)
      /\ Messages(o, old) /\ Replies(ended)
      /\ text \in Seq(Byte) /\ iv \in IvType /\ aligned \in BOOLEAN
      /\ moved[o] \in BOOLEAN /\ old \in Seq(Message)
  BY InvIs
<1>2. PICK e \in EndInput(o, x) :
        /\ obj' = [obj EXCEPT ![o] = ResetObj(e.obj)]
        /\ ended' = [ended EXCEPT ![o] = Append(@,
                [text |-> text, iv |-> iv, aligned |-> aligned,
                 moved |-> moved[o], out |-> e.out, tag |-> e.tag])]
  BY DEF End
<1>3. /\ o = "enc" \/ text \in Inputs(o)
      /\ fed' = [fed EXCEPT ![o] = <<>>] /\ begin' = [begin EXCEPT ![o] = obj'[o].iv]
      /\ aligned' = (o = "dec" \/ aligned) /\ moved' = [moved EXCEPT ![o] = FALSE]
      /\ mode' = mode /\ padding' = padding
  BY DEF End
<1>a. PICK al \in BOOLEAN, mv \in BOOLEAN : al = aligned /\ mv = moved[o]
  BY <1>1
<1>4. PICK m : /\ al \in BOOLEAN /\ mv \in BOOLEAN /\ al = aligned /\ mv = moved[o]
               /\ m = Recorded(text, iv, al, mv, e)
  BY <1>a
<1> DEFINE es == Append(old, m)
<1>5. ended' = [ended EXCEPT ![o] = es]
  BY <1>2, <1>4 DEF Recorded
<1>6. NotEmpty(o, text)
  <2> SUFFICES ASSUME mode \in {"ECB", "CBC"}, o = "dec",
                      padding \in {"PKCS7", "ISO10126"}
               PROVE  Len(Blocks(text)) # 0
    BY DEF NotEmpty
  <2>1. PICK k \in 1..Len(ended["enc"]) :
          /\ text = ended["enc"][k].out /\ ended["enc"][k].text \in Seq(Byte)
          /\ Ended("enc", ended["enc"][k])
    BY <1>3, InputsAre
  <2>2. PaddedEnded(ended["enc"][k].text, ended["enc"][k].iv, text)
    BY <2>1 DEF Ended
  <2> QED
    BY <2>1, <2>2, PaddedNotEmpty
<1> HIDE DEF x, text, iv, old
<1>7. EndsWith(o, x, text, iv, e, m)
  <2>1. PICK sure \in BOOLEAN : (sure <=> Sure(o, al)) /\ Holding(o, x, text, iv, sure)
    <3>1. PICK sure \in BOOLEAN : sure = Sure(o, al)
      BY DEF Sure
    <3> QED
      BY <1>1, <1>4, <3>1 DEF Keeps
  <2>2. ModeOK /\ PaddingOK /\ iv \in IvType /\ e \in EndInput(o, x)
    BY <1>1, <1>2
  <2>3. m = Recorded(text, iv, al, mv, e)
    BY <1>4
  <2> QED
    BY <1>6, <2>1, <2>2, <2>3, EndKeeps
<1>8. m.text = text /\ m.iv = iv /\ m.moved = mv
  BY <1>4 DEF Recorded
<1>9. x.original = Following(old) /\ (mode = "GCM" => ~mv) /\ (~mv => iv = x.original)
  BY <1>1, <1>4 DEF Keeps
<1>10. e.obj.original = After(m)
  <2>1. mode \notin {"CTR", "GCM"} => x.original = InitialIV
    BY <1>9 DEF Following, StartIV, After
  <2> QED
    BY <1>7, <1>8, <1>9, <2>1 DEF After, Left, EndsWith
<1>11. es \in Seq(Message) /\ Messages(o, es) /\ Following(es) = After(m)
  <2>1. ~m.moved => m.iv = Following(old)
    BY <1>8, <1>9
  <2> QED
    BY <1>1, <1>7, <2>1, MessagesGrow DEF EndsWith
<1>12. Replies([ended EXCEPT ![o] = es])
  <2>1. /\ ended["enc"] \in Seq(Message) /\ ended["dec"] \in Seq(Message)
        /\ DOMAIN ended = Objects /\ "enc" \in Objects /\ "dec" \in Objects
    BY <1>1 DEF Typed, Objects
  <2>2. /\ Len(es) = Len(old) + 1 /\ es[Len(old) + 1] = m
        /\ \A i \in 1..Len(old) : es[i] = old[i]
    BY <1>1, <1>7, AppendIs DEF EndsWith
  <2> HIDE DEF es
  <2>3. CASE o = "enc"
    <3>1. /\ [ended EXCEPT ![o] = es]["enc"] = es
          /\ [ended EXCEPT ![o] = es]["dec"] = ended["dec"]
      BY <2>1, <2>3
    <3>2. /\ Len(ended["dec"]) <= Len(ended["enc"])
          /\ \A k \in 1..Len(ended["dec"]) : ended["dec"][k].text = ended["enc"][k].out
      BY <1>1 DEF Replies
    <3>3. old = ended["enc"]
      BY <2>3 DEF old
    <3>4. Len(ended["dec"]) <= Len(es)
      BY <2>1, <2>2, <3>2, <3>3
    <3>5. \A k \in 1..Len(ended["dec"]) : ended["dec"][k].text = es[k].out
      BY <2>1, <2>2, <3>2, <3>3
    <3> QED
      BY <3>1, <3>4, <3>5 DEF Replies
  <2>4. CASE o = "dec"
    <3>1. /\ [ended EXCEPT ![o] = es]["dec"] = es
          /\ [ended EXCEPT ![o] = es]["enc"] = ended["enc"]
      BY <2>1, <2>4
    <3>2. \A k \in 1..Len(ended["dec"]) : ended["dec"][k].text = ended["enc"][k].out
      BY <1>1 DEF Replies
    <3>3. old = ended["dec"]
      BY <2>4 DEF old
    <3>4. Len(old) + 1 \in 1..Len(ended["enc"]) /\ text = ended["enc"][Len(old) + 1].out
      <4>1. text \in Inputs(o)
        BY <1>3, <2>4 DEF text
      <4> QED
        BY <2>4, <3>3, <4>1, InputsAre
    <3>5. \A k \in 1..Len(es) : es[k].text = ended["enc"][k].out
      <4> TAKE k \in 1..Len(es)
      <4>1. CASE k = Len(old) + 1
        BY <1>8, <2>2, <3>4, <4>1
      <4>2. CASE k # Len(old) + 1
        <5>1. k \in 1..Len(old)
          BY <2>1, <2>2, <3>3, <4>2
        <5> QED
          BY <2>2, <3>2, <3>3, <5>1
      <4> QED
        BY <4>1, <4>2
    <3>6. Len(es) <= Len(ended["enc"])
      BY <2>2, <3>4
    <3> QED
      BY <3>1, <3>5, <3>6 DEF Replies
  <2> QED
    BY <2>3, <2>4 DEF Objects
<1> HIDE DEF es
<1>13. /\ e.obj \in Obj /\ es \in Seq(Message) /\ e.obj.original = Following(es)
       /\ Messages(o, es)
  BY <1>7, <1>10, <1>11 DEF EndsWith
<1> QED
  BY <1>2, <1>3, <1>5, <1>12, <1>13, ResetKeeps

\* A step of reset().
LEMMA ResetKeepsInv ==
    ASSUME Inv, NEW o \in Objects, Reset(o)
    PROVE  Inv'
<1>1. /\ Typed(obj, fed, begin, aligned, moved, ended)
      /\ Keeps(o, obj[o], fed[o], begin[o], aligned, moved[o], ended[o])
      /\ Messages(o, ended[o]) /\ Replies(ended) /\ obj[o] \in Obj
      /\ ended[o] \in Seq(Message)
  BY InvIs
<1>2. PICK x \in Obj, es \in Seq(Message) : x = obj[o] /\ es = ended[o]
  BY <1>1
<1>3. /\ obj' = [obj EXCEPT ![o] = ResetObj(x)] /\ fed' = [fed EXCEPT ![o] = <<>>]
      /\ begin' = [begin EXCEPT ![o] = obj'[o].iv] /\ aligned' = (o = "dec" \/ aligned)
      /\ moved' = [moved EXCEPT ![o] = FALSE]
      /\ ended' = ended /\ mode' = mode /\ padding' = padding
  BY <1>2 DEF Reset
<1>4. ended = [ended EXCEPT ![o] = es]
  BY <1>1, <1>2 DEF Typed
<1>5. x.original = Following(es) /\ Messages(o, es) /\ Replies([ended EXCEPT ![o] = es])
  BY <1>1, <1>2, <1>4 DEF Keeps
<1>6. ended' = [ended EXCEPT ![o] = es]
  BY <1>3, <1>4
<1> QED
  BY <1>3, <1>5, <1>6, ResetKeeps

\* A step of setIV or setCounter.
LEMMA SetIVKeeps ==
    ASSUME Inv, NEW o \in Objects, SetIV(o)
    PROVE  Inv'
<1>1. /\ ModeOK /\ Chosen /\ InvOf(obj, fed, begin, aligned, moved, ended)
      /\ Typed(obj, fed, begin, aligned, moved, ended)
      /\ Keeps(o, obj[o], fed[o], begin[o], aligned, moved[o], ended[o])
      /\ Messages(o, ended[o]) /\ Replies(ended) /\ obj[o] \in Obj
      /\ aligned \in BOOLEAN /\ ended[o] \in Seq(Message)
  BY InvIs
<1>2. PICK x \in Obj, es \in Seq(Message), al \in BOOLEAN, v \in BOOLEAN :
        x = obj[o] /\ es = ended[o] /\ al = aligned /\ v = TRUE
  BY <1>1
<1> DEFINE t == [x EXCEPT !.iv = OtherIV]
<1>3. /\ mode \in {"CBC", "CTR"} /\ fed[o] = <<>>
      /\ obj' = [obj EXCEPT ![o] = t] /\ begin' = [begin EXCEPT ![o] = OtherIV]
      /\ moved' = [moved EXCEPT ![o] = TRUE] /\ fed' = fed /\ aligned' = aligned
      /\ ended' = ended /\ mode' = mode /\ padding' = padding
  <2>1. [obj EXCEPT ![o].iv = OtherIV] = [obj EXCEPT ![o] = t]
    BY <1>2
  <2> QED
    BY <2>1 DEF SetIV
<1>4. OtherIV \in IvType
  BY <1>3, InputsAssumption DEF IvType
<1>5. t \in Obj /\ t.iv = OtherIV /\ t.original = x.original
  BY <1>4 DEF Obj
<1>6. x.buffer = <<>> /\ x.result = <<>>
  <2>1. PICK outs : Streamed(o, x, Blocks(<<>>), outs, begin[o], Sure(o, aligned))
    BY <1>1, <1>2, <1>3 DEF Keeps, Holding
  <2>2. Blocks(<<>>) = <<>> /\ Rest(<<>>) = <<>>
    BY NoBlocks
  <2>3. outs = <<>>
    BY <2>1, <2>2 DEF Streamed
  <2> QED
    BY <1>1, <1>2, <1>3, <2>1, <2>2, <2>3, FlatFew DEF Keeps, Holding, Streamed
<1>7. t.buffer = <<>> /\ t.result = <<>>
  BY <1>6 DEF Obj
<1> HIDE DEF t
<1>8. PICK sure \in BOOLEAN : sure = Sure(o, al)
  BY DEF Sure
<1>9. Holding(o, t, <<>>, OtherIV, sure)
  BY <1>1, <1>3, <1>5, <1>7, Fresh
<1>10. Keeps(o, t, <<>>, OtherIV, al, v, es)
  BY <1>1, <1>2, <1>3, <1>5, <1>8, <1>9 DEF Keeps
<1>11. /\ Changes(obj, obj', o, t) /\ Changes(fed, fed', o, <<>>)
       /\ Changes(begin, begin', o, OtherIV) /\ Changes(moved, moved', o, v)
       /\ Changes(ended, ended', o, es)
  BY <1>1, <1>2, <1>3 DEF Changes, Typed
<1>12. InvOf(obj', fed', begin', aligned', moved', ended')
  <2>1. /\ InvOf(obj, fed, begin, aligned, moved, ended) /\ Messages(o, es)
        /\ Replies(ended') /\ (o = "enc" => al = aligned) /\ aligned' = al
    BY <1>1, <1>2, <1>3
  <2>2. InvOf(obj', fed', begin', al, moved', ended')
    BY <1>4, <1>10, <1>11, <2>1, OneChanges
  <2> QED
    BY <2>1, <2>2
<1> QED
  BY <1>1, <1>3, <1>12, SameModes

\* No step.
LEMMA StutterKeeps ==
    ASSUME Inv, UNCHANGED vars
    PROVE  Inv'
<1>1. /\ mode' = mode /\ padding' = padding /\ obj' = obj /\ fed' = fed
      /\ begin' = begin /\ aligned' = aligned /\ moved' = moved /\ ended' = ended
  BY DEF vars
<1>2. Chosen /\ InvOf(obj, fed, begin, aligned, moved, ended)
  BY DEF Inv
<1>3. InvOf(obj', fed', begin', aligned', moved', ended')
  BY <1>1, <1>2
<1> QED
  BY <1>1, <1>2, <1>3, SameModes

\* The invariant holds in every reachable state.
LEMMA InvHolds == Spec => []Inv
<1>1. Init => Inv
  BY InitKeeps
<1>2. ASSUME Inv, [Next]_vars PROVE Inv'
  <2>1. ASSUME NEW o \in Objects, AddChunk(o) PROVE Inv'
    BY <1>2, <2>1, AddChunkKeeps
  <2>2. ASSUME NEW o \in Objects, End(o) PROVE Inv'
    BY <1>2, <2>2, EndKeepsInv
  <2>3. ASSUME NEW o \in Objects, Reset(o) PROVE Inv'
    BY <1>2, <2>3, ResetKeepsInv
  <2>4. ASSUME NEW o \in Objects, SetIV(o) PROVE Inv'
    BY <1>2, <2>4, SetIVKeeps
  <2>5. CASE UNCHANGED vars
    BY <1>2, <2>5, StutterKeeps
  <2> QED
    BY <1>2, <2>1, <2>2, <2>3, <2>4, <2>5 DEF Next
<1> QED
  BY <1>1, <1>2, PTL DEF Spec

-----------------------------------------------------------------------------
(* What the invariant says of the properties checked.                       *)

\* The IV of a mode is an IV.
LEMMA IvIsOne ==
    ASSUME NEW iv \in IvType
    PROVE  iv \in Iv
BY DEF IvType, Iv

\* The invariant implies the types.
LEMMA InvTypes ==
    ASSUME Inv
    PROVE  TypeOK
<1>1. Chosen
  BY DEF Inv
<1>2. aligned \in BOOLEAN
  <2>1. PICK o \in Objects : TRUE
    BY DEF Objects
  <2> QED
    BY <2>1, InvIs
<1>3. ASSUME NEW o \in Objects
      PROVE  /\ obj[o].buffer \in Seq(Byte) /\ Len(obj[o].buffer) < BlockSize
             /\ obj[o].result \in Seq(Byte)
             /\ obj[o].iv \in Iv /\ obj[o].original \in Iv
             /\ obj[o].j0 \in Block /\ obj[o].absorbed \in Seq(Block)
             /\ fed[o] \in Seq(Byte) /\ begin[o] \in Iv
             /\ moved[o] \in BOOLEAN
             /\ \A k \in DOMAIN ended[o] :
                 /\ ended[o][k].out \in Seq(Byte \cup {Unset})
                 /\ ended[o][k].tag \in Tags
  <2>1. /\ obj[o] \in Obj /\ fed[o] \in Seq(Byte) /\ begin[o] \in IvType
        /\ moved[o] \in BOOLEAN /\ ended[o] \in Seq(Message)
        /\ Keeps(o, obj[o], fed[o], begin[o], aligned, moved[o], ended[o])
    BY InvIs
  <2>2. /\ obj[o].buffer \in Seq(Byte) /\ obj[o].result \in Seq(Byte)
        /\ obj[o].iv \in IvType /\ obj[o].original \in IvType
        /\ obj[o].j0 \in Block /\ obj[o].absorbed \in Seq(Block)
    BY <2>1 DEF Obj
  <2>3. obj[o].iv \in Iv /\ obj[o].original \in Iv /\ begin[o] \in Iv
    BY <2>1, <2>2, IvIsOne
  <2>4. Len(obj[o].buffer) < BlockSize
    <3>1. obj[o].buffer = Rest(fed[o])
      BY <2>1 DEF Keeps, Holding
    <3> QED
      BY <2>1, <3>1, FlatBlocks
  <2>5. \A k \in DOMAIN ended[o] : ended[o][k] \in Message
    BY <2>1
  <2>6. \A k \in DOMAIN ended[o] : /\ ended[o][k].out \in Seq(Byte \cup {Unset})
                                   /\ ended[o][k].tag \in Tags
    BY <2>5 DEF Message
  <2> QED
    BY <2>1, <2>2, <2>3, <2>4, <2>6
<1> QED
  BY <1>1, <1>2, <1>3 DEF TypeOK, Chosen

\* The invariant says which IV follows.
LEMMA InvAdvances ==
    ASSUME Inv
    PROVE  IVAdvances
<1> SUFFICES ASSUME NEW o \in Objects, NEW k \in 2..Len(ended[o]), ~ended[o][k].moved
             PROVE  CASE mode = "CTR" -> ended[o][k].iv =
                            CounterAt(ended[o][k - 1].iv,
                                (Len(ended[o][k - 1].text) + BlockSize - 1) \div BlockSize)
                      [] mode = "GCM" -> ended[o][k].iv = CounterAt(ended[o][k - 1].iv, 1)
                      [] OTHER        -> ended[o][k].iv = InitialIV
  BY DEF IVAdvances
<1>1. ended[o][k].iv = After(ended[o][k - 1])
  BY InvIs DEF Messages
<1> QED
  BY <1>1 DEF After, Used

\* The invariant says what was returned so far.
LEMMA InvShows ==
    ASSUME Inv
    PROVE  CutsDoNotShow
<1> SUFFICES ASSUME NEW o \in Objects, mode # "CBC" \/ o = "enc" \/ aligned
             PROVE  /\ obj[o].buffer = Rest(fed[o])
                    /\ Len(obj[o].result) = WholeLen(fed[o])
                    /\ \A i \in DOMAIN Blocks(fed[o]) :
                         RightBlock(o, Blocks(fed[o]), Blocks(obj[o].result), begin[o], i)
  BY DEF CutsDoNotShow
<1> DEFINE s == obj[o]
           text == fed[o]
           iv == begin[o]
           bs == Blocks(text)
<1>1. Keeps(o, s, text, iv, aligned, moved[o], ended[o]) /\ text \in Seq(Byte)
  BY InvIs
<1>2. /\ s.buffer = Rest(text)
      /\ \E outs : Streamed(o, s, bs, outs, iv, Sure(o, aligned))
  BY <1>1 DEF Keeps, Holding
<1>3. PICK outs : Streamed(o, s, bs, outs, iv, Sure(o, aligned))
  BY <1>2
<1>4. /\ bs \in Seq(Block) /\ outs \in Seq(Block) /\ Len(outs) = Len(bs)
      /\ s.result = Flat(outs) /\ Right(o, bs, outs, iv)
  BY <1>3 DEF Streamed, Sure
<1>5. WholeLen(text) = Whole(Len(bs))
  BY <1>1, FlatBlocks
<1> HIDE DEF bs, s, text, iv
<1>6. Len(s.result) = Whole(Len(bs))
  BY <1>4, FlatIs
<1>7. Blocks(s.result) = outs
  BY <1>4, BlocksOfFlat
<1>8. \A i \in DOMAIN bs : RightBlock(o, bs, outs, iv, i)
  BY <1>4 DEF Right
<1> QED
  BY <1>2, <1>5, <1>6, <1>7, <1>8 DEF bs, s, text, iv

\* The invariant says what decryption returns.
LEMMA InvUndoes ==
    ASSUME Inv
    PROVE  RoundTrip
<1> SUFFICES ASSUME NEW k \in DOMAIN ended["dec"],
                    mode # "CBC" \/ ended["dec"][k].aligned,
                    mode = "ECB" \/ ended["enc"][k].iv = ended["dec"][k].iv
             PROVE  /\ ended["dec"][k].out = Recovered(ended["enc"][k].text)
                    /\ ended["dec"][k].tag = ended["enc"][k].tag
  BY DEF RoundTrip, Undoes
<1> DEFINE e == ended["enc"][k]
           d == ended["dec"][k]
<1>1. "enc" \in Objects /\ "dec" \in Objects
  BY DEF Objects
<1>2. /\ ended["enc"] \in Seq(Message) /\ Messages("enc", ended["enc"])
      /\ ModeOK /\ PaddingOK /\ Replies(ended)
  BY <1>1, InvIs
<1>3. ended["dec"] \in Seq(Message) /\ Messages("dec", ended["dec"])
  BY <1>1, InvIs
<1>4. k \in 1..Len(ended["dec"]) /\ k \in 1..Len(ended["enc"])
  BY <1>2, <1>3 DEF Replies
<1>5. d.text = e.out
  BY <1>2, <1>4 DEF Replies
<1>6. Ended("enc", e) /\ Ended("dec", d) /\ e.out \in Seq(Byte)
  BY <1>2, <1>3, <1>4 DEF Messages
<1>7. e.text \in Seq(Byte) /\ e.iv \in IvType
  <2>1. e \in Message
    BY <1>2, <1>4
  <2> HIDE DEF e
  <2> QED
    BY <2>1 DEF Message
<1>8. (mode # "CBC" \/ d.aligned) /\ (mode = "ECB" \/ e.iv = d.iv)
  OBVIOUS
<1> HIDE DEF e, d
<1>9. d.out = Recovered(e.text) /\ d.tag = e.tag
  BY <1>2, <1>5, <1>6, <1>7, <1>8, EndedUndone
<1> QED
  BY <1>9 DEF e, d

-----------------------------------------------------------------------------
(* The theorems.                                                            *)

\* The fields of every object keep their sizes, its buffer never holds a
\* whole block, and the IV of the next message is the one the mode says.
THEOREM StateIsKept == Spec => []KeepsItsState
<1>1. Inv => KeepsItsState
  BY InvTypes, InvAdvances DEF KeepsItsState
<1> QED
  BY <1>1, InvHolds, PTL

\* However the input is cut into calls of add, what was returned is what the
\* mode defines for the whole blocks given, and the rest is in the buffer.
THEOREM CutsAreHidden == Spec => []CutsDoNotShow
<1>1. Inv => CutsDoNotShow
  BY InvShows
<1> QED
  BY <1>1, InvHolds, PTL

\* Decryption gives back what was encrypted, with the tag of encryption, for
\* every mode, padding, text and way of cutting it.
THEOREM DecryptionUndoes == Spec => []RoundTrip
<1>1. Inv => RoundTrip
  BY InvUndoes
<1> QED
  BY <1>1, InvHolds, PTL
==============================================================================
