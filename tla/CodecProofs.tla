----------------------------- MODULE CodecProofs ----------------------------
(***************************************************************************)
(* Proofs about Codec: that decoding undoes encoding for byte strings of   *)
(* every length, when decoding leaves its strings, and that the digits are *)
(* those of RFC 4648.  One byte or block at a time it is arithmetic on its *)
(* bits; the rest is where each character of a text comes from.            *)
(***************************************************************************)
EXTENDS Codec, WellFoundedInduction, TLAPS

-----------------------------------------------------------------------------
(* Induction and recursion over the natural numbers, without operators as   *)
(* parameters: a set of numbers takes the place of the predicate, a         *)
(* function that of the step.                                               *)

\* Every set of natural numbers that is not empty has a least one.
LEMMA LeastNumber ==
    ASSUME NEW T, T \subseteq Nat, T # {}
    PROVE  \E n \in T : \A m \in T : n <= m
<1> DEFINE R == {p \in Nat \X Nat : p[1] < p[2]}
<1>1. IsWellFoundedOn(R, Nat)
  <2>1. OpToRel(<, Nat) = R
    BY DEF OpToRel
  <2> QED
    BY <2>1, NatLessThanWellFounded
<1>2. PICK n \in T : \A m \in T : <<m, n>> \notin R
  <2> HIDE DEF R
  <2> QED
    BY <1>1, WFMin, Zenon
<1>3. ASSUME NEW m \in T PROVE n <= m
  <2>1. m \in Nat /\ n \in Nat
    OBVIOUS
  <2>2. ~(<<m, n>>[1] < <<m, n>>[2])
    BY <1>2, <2>1
  <2> QED
    BY <2>1, <2>2
<1> QED
  BY <1>3

\* Induction: a set with 0 that has n + 1 with n has every number.
LEMMA InductionOnNat ==
    ASSUME NEW T, 0 \in T, \A n \in Nat : n \in T => n + 1 \in T
    PROVE  \A n \in Nat : n \in T
<1> SUFFICES ASSUME Nat \ T # {} PROVE FALSE
  OBVIOUS
<1>1. PICK n \in Nat \ T : \A m \in Nat \ T : n <= m
  BY LeastNumber
<1>2. n - 1 \in Nat /\ n = (n - 1) + 1
  BY <1>1
<1>3. n - 1 \in T
  BY <1>1, <1>2
<1> QED
  BY <1>1, <1>2, <1>3

\* The same as far as some number.
LEMMA InductionUpTo ==
    ASSUME NEW last \in Nat, NEW T, 0 \in T,
           \A n \in 0..(last - 1) : n \in T => n + 1 \in T
    PROVE  \A n \in 0..last : n \in T
<1> DEFINE U == {n \in Nat : n <= last => n \in T}
<1>1. 0 \in U
  OBVIOUS
<1>2. \A n \in Nat : n \in U => n + 1 \in U
  OBVIOUS
<1> HIDE DEF U
<1>3. \A n \in Nat : n \in U
  BY <1>1, <1>2, InductionOnNat
<1> QED
  BY <1>3 DEF U

\* What a function defined by recursion from a as far as last is.
IsRecursion(f, last, a, F) ==
    f[0] = a /\ \A n \in 1..last : f[n] = F[<<n, f[n - 1]>>]

\* A function may be defined by recursion as far as some number.
LEMMA RecursiveFunction ==
    ASSUME NEW last \in Nat, NEW S, NEW a \in S, NEW F \in [(1..last) \X S -> S]
    PROVE  \E f \in [0..last -> S] : IsRecursion(f, last, a, F)
<1> DEFINE Good(f, m) == /\ f[0] = a
                        /\ \A n \in 1..m : f[n] = F[<<n, f[n - 1]>>]
           T == {m \in 0..last : \E f \in [0..m -> S] : Good(f, m)}
<1>1. 0 \in T
  <2> DEFINE f == [n \in 0..0 |-> a]
  <2>1. f \in [0..0 -> S] /\ f[0] = a
    OBVIOUS
  <2>2. Good(f, 0)
    BY <2>1
  <2> HIDE DEF f, Good
  <2> QED
    BY <2>1, <2>2
<1>2. ASSUME NEW m \in 0..(last - 1), m \in T PROVE m + 1 \in T
  <2>1. PICK f \in [0..m -> S] : Good(f, m)
    BY <1>2
  <2> DEFINE g == [n \in 0..(m + 1) |-> IF n = m + 1 THEN F[<<n, f[m]>>] ELSE f[n]]
  <2>2. F[<<m + 1, f[m]>>] \in S
    OBVIOUS
  <2>3. g \in [0..(m + 1) -> S] /\ g[0] = a
    BY <2>1, <2>2
  <2>4. ASSUME NEW n \in 1..(m + 1)
        PROVE  g[n] = F[<<n, g[n - 1]>>]
    <3>1. CASE n = m + 1
      <4>1. n - 1 = m /\ m \in 0..(m + 1) /\ m # m + 1
        BY <3>1
      <4>2. g[n - 1] = f[m] /\ g[n] = F[<<n, f[m]>>]
        BY <3>1, <4>1
      <4> QED
        BY <4>2
    <3>2. CASE n # m + 1
      <4>1. n \in 1..m /\ n - 1 \in 0..(m + 1) /\ n - 1 # m + 1
        BY <3>2
      <4>2. g[n] = f[n] /\ f[n] = F[<<n, f[n - 1]>>]
        BY <2>1, <3>2, <4>1
      <4>3. g[n - 1] = f[n - 1]
        BY <4>1
      <4> QED
        BY <4>2, <4>3
    <3> QED
      BY <3>1, <3>2
  <2>5. Good(g, m + 1)
    BY <2>3, <2>4
  <2> HIDE DEF g, Good
  <2> QED
    BY <2>3, <2>5
<1> HIDE DEF T
<1>3. \A m \in 0..last : m \in T
  BY <1>1, <1>2, InductionUpTo
<1>4. last \in T
  BY <1>3
<1> QED
  BY <1>4 DEF T, Good, IsRecursion

-----------------------------------------------------------------------------
(* One digit, one block                                                     *)

LEMMA HexDigits ==
    ASSUME NEW x \in 0..15, NEW up \in BOOLEAN
    PROVE  /\ HEX_TRANS(x, up) \in Byte
           /\ STR_TRANS(HEX_TRANS(x, up)) = x
BY DEF HEX_TRANS, STR_TRANS, Byte

LEMMA Digits ==
    ASSUME NEW x \in 0..63, NEW safe \in BOOLEAN
    PROVE  /\ Character(x, safe) \in Byte
           /\ Character(x, safe) # Pad
           /\ Digit(Character(x, safe), safe) = x
<1>1. CASE x < 26
  <2>1. Character(x, safe) = x + 65 /\ x + 65 \in 65..90
    BY <1>1 DEF Character
  <2> QED
    BY <2>1 DEF Digit, Byte, Pad
<1>2. CASE 26 <= x /\ x < 52
  <2>1. Character(x, safe) = x + 71 /\ x + 71 \in 97..122
    BY <1>2 DEF Character
  <2> QED
    BY <2>1 DEF Digit, Byte, Pad
<1>3. CASE 52 <= x /\ x < 62
  <2>1. Character(x, safe) = x - 4 /\ x - 4 \in 48..57
    BY <1>3 DEF Character
  <2> QED
    BY <2>1 DEF Digit, Byte, Pad
<1>4. CASE x = 62
  <2>1. Character(x, safe) = IF safe THEN 45 ELSE 43
    BY <1>4 DEF Character
  <2> QED
    BY <1>4, <2>1 DEF Digit, Byte, Pad
<1>5. CASE x = 63
  <2>1. Character(x, safe) = IF safe THEN 95 ELSE 47
    BY <1>5 DEF Character
  <2> QED
    BY <1>5, <2>1 DEF Digit, Byte, Pad
<1> QED
  BY <1>1, <1>2, <1>3, <1>4, <1>5

LEMMA Blocks ==
    ASSUME NEW a \in Byte, NEW b \in Byte, NEW c \in Byte
    PROVE  LET e == enblock(a, b, c) IN
           /\ \A i \in 1..4 : e[i] \in 0..63
           /\ deblock(1, e[1], e[2]) = a
           /\ deblock(2, e[2], e[3]) = b
           /\ deblock(3, e[3], e[4]) = c
<1> DEFINE e1 == a \div 4
           e2 == (a * 16 + b \div 16) % 64
           e3 == (b * 4 + c \div 64) % 64
           e4 == c % 64
<1>1. /\ enblock(a, b, c)[1] = e1 /\ enblock(a, b, c)[2] = e2
      /\ enblock(a, b, c)[3] = e3 /\ enblock(a, b, c)[4] = e4
  BY DEF enblock
<1>2. e1 \in 0..63 /\ e2 \in 0..63 /\ e3 \in 0..63 /\ e4 \in 0..63
  BY DEF Byte
<1>3. (e1 * 4 + ((e2 \div 16) % 4)) % 256 = a
  <2> DEFINE p == a % 4
             q == b \div 16
  <2>1. e2 = 16 * p + q
    BY DEF Byte
  <2>2. p \in 0..3 /\ q \in 0..15 /\ a = 4 * e1 + p
    BY DEF Byte
  <2> HIDE DEF e1, e2, p, q
  <2>3. (e2 \div 16) % 4 = p
    BY <2>1, <2>2
  <2>4. (4 * e1 + p) % 256 = a
    BY <2>2 DEF Byte
  <2> QED
    BY <1>2, <2>2, <2>3, <2>4
<1>4. (e2 * 16 + e3 \div 4) % 256 = b
  <2> DEFINE p == a % 4
             q == b \div 16
             r == b % 16
             s == e3 \div 4
  <2>1. e2 = 16 * p + q
    BY DEF Byte
  <2>2. s = r
    BY DEF Byte
  <2>3. p \in 0..3 /\ q \in 0..15 /\ r \in 0..15 /\ b = 16 * q + r
    BY DEF Byte
  <2> HIDE DEF e2, p, q, r, s
  <2>4. e2 * 16 + s = 256 * p + b
    BY <2>1, <2>2, <2>3
  <2>5. (256 * p + b) % 256 = b
    BY <2>3 DEF Byte
  <2> QED
    BY <2>4, <2>5 DEF s
<1>5. (e3 * 64 + e4) % 256 = c
  BY DEF Byte
<1> HIDE DEF e1, e2, e3, e4
<1> QED
  BY <1>1, <1>2, <1>3, <1>4, <1>5 DEF deblock

-----------------------------------------------------------------------------
(* Whole strings                                                            *)

LEMMA Halves ==
    ASSUME NEW b \in Byte
    PROVE  /\ b \div 16 \in 0..15 /\ b % 16 \in 0..15
           /\ ((b \div 16) * 16 + (b % 16)) % 256 = b
BY DEF Byte

LEMMA Pairs ==
    ASSUME NEW n \in Nat, NEW i \in 1..n
    PROVE  /\ 2 * i - 1 \in 1..2 * n /\ 2 * i \in 1..2 * n
           /\ (2 * i - 1) % 2 = 1 /\ (2 * i) % 2 = 0
           /\ ((2 * i - 1) + 1) \div 2 = i /\ (2 * i + 1) \div 2 = i
OBVIOUS

LEMMA HexUndone ==
    ASSUME NEW m \in Seq(Byte), NEW up \in BOOLEAN
    PROVE  HexDecode(HexEncode(m, up)) = m
<1> DEFINE n == Len(m)
           t == HexEncode(m, up)
<1>1. n \in Nat /\ m = [i \in 1..n |-> m[i]] /\ \A i \in 1..n : m[i] \in Byte
  OBVIOUS
<1>2. t = [j \in 1..2 * n |->
             LET b == m[(j + 1) \div 2] IN
             HEX_TRANS(IF j % 2 = 1 THEN b \div 16 ELSE b % 16, up)]
  BY DEF HexEncode
<1> HIDE DEF n, t
<1>3. ASSUME NEW i \in 1..n
      PROVE  /\ STR_TRANS(t[2 * i - 1]) = m[i] \div 16
             /\ STR_TRANS(t[2 * i]) = m[i] % 16
  <2>1. /\ 2 * i - 1 \in 1..2 * n /\ 2 * i \in 1..2 * n
        /\ (2 * i - 1) % 2 = 1 /\ (2 * i) % 2 = 0
        /\ ((2 * i - 1) + 1) \div 2 = i /\ (2 * i + 1) \div 2 = i
    BY <1>1, Pairs
  <2>2. m[i] \in Byte /\ m[i] \div 16 \in 0..15 /\ m[i] % 16 \in 0..15
    BY <1>1, Halves
  <2>3. t[2 * i - 1] = HEX_TRANS(m[i] \div 16, up)
    BY <1>2, <2>1
  <2>4. t[2 * i] = HEX_TRANS(m[i] % 16, up)
    BY <1>2, <2>1
  <2> QED
    BY <2>2, <2>3, <2>4, HexDigits
<1>4. Len(t) = 2 * n
  BY <1>1, <1>2
<1>5. (2 * n + 1) \div 2 = n /\ \A i \in 1..n : 2 * i <= 2 * n
  BY <1>1
<1>6. HexDecode(t) =
        [i \in 1..n |-> (STR_TRANS(t[2 * i - 1]) * 16 + STR_TRANS(t[2 * i])) % 256]
  BY <1>4, <1>5 DEF HexDecode
<1>7. ASSUME NEW i \in 1..n
      PROVE  (STR_TRANS(t[2 * i - 1]) * 16 + STR_TRANS(t[2 * i])) % 256 = m[i]
  <2>1. m[i] \in Byte
    BY <1>1
  <2> QED
    BY <1>3, <2>1, Halves
<1>8. HexDecode(t) = m
  BY <1>1, <1>6, <1>7
<1> QED
  BY <1>8 DEF t

\* How many blocks n bytes make, and how many '=' end them.
LEMMA Counts ==
    ASSUME NEW n \in Nat \ {0}
    PROVE  LET B == (n + 2) \div 3
               p == (3 - (n % 3)) % 3
           IN  /\ B \in Nat \ {0} /\ B <= n /\ p \in 0..2
               /\ 3 * B - p = n
               /\ (B * 4) \div 4 = B /\ (B * 4) \div 4 - 1 = B - 1
OBVIOUS

\* Byte j is byte r of block k: the digits r and r + 1 of that block are
\* characters of the text before its padding.
LEMMA PlaceOfByte ==
    ASSUME NEW n \in Nat \ {0}, NEW j \in 1..n,
           NEW B \in Nat, NEW p \in 0..2, 3 * B - p = n
    PROVE  LET k == (j - 1) \div 3
               r == ((j - 1) % 3) + 1
           IN  /\ k \in 0..B - 1 /\ r \in 1..3 /\ j = 3 * k + r
               /\ 4 * k + r + 1 <= 4 * B - p
OBVIOUS

LEMMA PlaceOfCharacter ==
    ASSUME NEW k \in Nat, NEW r \in 1..4
    PROVE  /\ ((4 * k + r) - 1) \div 4 = k
           /\ (((4 * k + r) - 1) % 4) + 1 = r
OBVIOUS

LEMMA EncodedCharacters ==
    ASSUME NEW m \in Seq(Byte), NEW safe \in BOOLEAN,
           NEW k \in Nat, NEW r \in 1..4,
           4 * k + r <= 4 * ((Len(m) + 2) \div 3) - Padding(m)
    PROVE  Base64Encode(m, safe)[4 * k + r] =
             Character(enblock(ByteOrZero(m, 3 * k + 1), ByteOrZero(m, 3 * k + 2),
                               ByteOrZero(m, 3 * k + 3))[r], safe)
<1> DEFINE j == 4 * k + r
           B == (Len(m) + 2) \div 3
<1>1. B \in Nat /\ Padding(m) \in 0..2
  BY DEF Padding
<1>2. (j - 1) \div 4 = k /\ ((j - 1) % 4) + 1 = r
  BY PlaceOfCharacter
<1>3. j \in Nat /\ j >= 1 /\ j <= B * 4 /\ ~(j > B * 4 - Padding(m))
  BY <1>1
<1>4. k * 3 = 3 * k
  OBVIOUS
<1> HIDE DEF j, B
<1>5. Base64Encode(m, safe)[j] =
        Character(enblock(ByteOrZero(m, k * 3 + 1), ByteOrZero(m, k * 3 + 2),
                          ByteOrZero(m, k * 3 + 3))[r], safe)
  BY <1>1, <1>2, <1>3 DEF Base64Encode, B
<1> QED
  BY <1>4, <1>5 DEF j

LEMMA EncodedLength ==
    ASSUME NEW m \in Seq(Byte), NEW safe \in BOOLEAN
    PROVE  LET t == Base64Encode(m, safe)
               length == ((Len(m) + 2) \div 3) * 4
           IN  /\ Len(t) = length
               /\ \A j \in 1..length : j > length - Padding(m) => t[j] = Pad
<1> DEFINE length == ((Len(m) + 2) \div 3) * 4
<1>1. length \in Nat
  OBVIOUS
<1> HIDE DEF length
<1> QED
  BY <1>1 DEF Base64Encode, length

LEMMA BytesOrZero ==
    ASSUME NEW m \in Seq(Byte), NEW i \in Nat \ {0}
    PROVE  ByteOrZero(m, i) \in Byte /\ (i <= Len(m) => ByteOrZero(m, i) = m[i])
<1>1. Len(m) \in Nat /\ \A k \in 1..Len(m) : m[k] \in Byte
  OBVIOUS
<1>2. 0 \in Byte
  BY DEF Byte
<1> HIDE DEF Byte
<1> QED
  BY <1>1, <1>2 DEF ByteOrZero

LEMMA Base64Undone ==
    ASSUME NEW m \in Seq(Byte), NEW safe \in BOOLEAN,
           Len(m) = 0 \/ 2 * Len(m) + 4 < Word
    PROVE  Base64Decode(Base64Encode(m, safe), safe) = m
<1> DEFINE n == Len(m)
           t == Base64Encode(m, safe)
           B == (n + 2) \div 3
           p == Padding(m)
<1>1. n \in Nat /\ m = [i \in 1..n |-> m[i]] /\ \A i \in 1..n : m[i] \in Byte
  OBVIOUS
<1>2. CASE n = 0
  <2>1. m = <<>> /\ Padding(m) = 0 /\ (n + 2) \div 3 = 0
    BY <1>2 DEF Padding
  <2>2. t = <<>>
    BY <1>2, <2>1 DEF Base64Encode
  <2> HIDE DEF t
  <2>3. Base64Decode(t, safe) = <<>>
    BY <2>2 DEF Base64Decode
  <2> QED
    BY <2>1, <2>3 DEF t
<1>3. CASE n > 0
  <2>1. n \in Nat \ {0}
    BY <1>1, <1>3
  <2>2. /\ B \in Nat \ {0} /\ B <= n /\ p \in 0..2 /\ 3 * B - p = n
        /\ (B * 4) \div 4 = B
    BY <2>1, Counts DEF Padding
  <2>3. /\ Len(t) = B * 4
        /\ \A j \in 1..B * 4 : j > B * 4 - p => t[j] = Pad
    BY EncodedLength
  <2>4. \A k \in Nat, r \in 1..4 : 4 * k + r <= 4 * B - p =>
          t[4 * k + r] = Character(enblock(ByteOrZero(m, 3 * k + 1),
                                           ByteOrZero(m, 3 * k + 2),
                                           ByteOrZero(m, 3 * k + 3))[r], safe)
    BY EncodedCharacters
  <2> HIDE DEF n, t, B, p
  <2>5. Whole(Len(t)) = B - 1
    <3>1. B - 1 \in 0..Word - 1 /\ Word \in Nat
      BY <2>1, <2>2, GivenAssumption DEF n
    <3>2. (B - 1) % Word = B - 1
      BY <3>1
    <3> QED
      BY <2>2, <2>3, <3>2 DEF Whole
  <2>6. ASSUME NEW k \in 0..B - 1
        PROVE  BlockStart(t, k) = 4 * k
    BY <2>2, <2>3, <2>5 DEF BlockStart
  <2>7. ASSUME NEW k \in Nat, NEW r \in 1..4, 4 * k + r <= 4 * B - p
        PROVE  LET e == enblock(ByteOrZero(m, 3 * k + 1), ByteOrZero(m, 3 * k + 2),
                                ByteOrZero(m, 3 * k + 3))
               IN  Digit(t[4 * k + r], safe) = e[r] /\ e[r] \in 0..63
    <3> DEFINE e == enblock(ByteOrZero(m, 3 * k + 1), ByteOrZero(m, 3 * k + 2),
                            ByteOrZero(m, 3 * k + 3))
    <3>1. /\ ByteOrZero(m, 3 * k + 1) \in Byte /\ ByteOrZero(m, 3 * k + 2) \in Byte
          /\ ByteOrZero(m, 3 * k + 3) \in Byte
      BY BytesOrZero
    <3>2. e[r] \in 0..63
      <4>1. \A i \in 1..4 : e[i] \in 0..63
        BY <3>1, Blocks, Zenon
      <4> HIDE DEF e
      <4> QED
        BY <4>1, <2>7
    <3>3. t[4 * k + r] = Character(e[r], safe)
      BY <2>4, <2>7
    <3> HIDE DEF e
    <3>4. Digit(t[4 * k + r], safe) = e[r]
      BY <3>2, <3>3, Digits
    <3> QED
      BY <3>2, <3>4 DEF e
  <2>8. ASSUME NEW k \in Nat, NEW r \in 1..4, 4 * k + r <= 4 * B - p
         PROVE  t[4 * k + r] # Pad
    <3> DEFINE e == enblock(ByteOrZero(m, 3 * k + 1), ByteOrZero(m, 3 * k + 2),
                            ByteOrZero(m, 3 * k + 3))
    <3>1. e[r] \in 0..63
      BY <2>7, <2>8
    <3>2. t[4 * k + r] = Character(e[r], safe)
      BY <2>4, <2>8
    <3> HIDE DEF e
    <3> QED
      BY <3>1, <3>2, Digits
  <2>9. \A x \in 0..63 : x # Unknown
    <3>1. \A x \in 0..63 : x \in Byte
      BY DEF Byte
    <3> QED
      BY <3>1, GivenAssumption
  <2>10. Pads(t) = p
    <3>1. CASE p = 0
      <4>1. /\ 4 * (B - 1) + 4 = B * 4 /\ B - 1 \in Nat
            /\ 4 * (B - 1) + 4 <= 4 * B - p
        BY <2>2, <3>1
      <4>2. t[4 * (B - 1) + 4] # Pad
        BY <4>1, <2>8
      <4> QED
        BY <2>3, <4>1, <4>2, <3>1 DEF Pads
    <3>2. CASE p = 1
      <4>1. /\ 4 * (B - 1) + 3 = B * 4 - 1 /\ B - 1 \in Nat
            /\ 4 * (B - 1) + 3 <= 4 * B - p
        BY <2>2, <3>2
      <4>2. t[4 * (B - 1) + 3] # Pad
        BY <4>1, <2>8
      <4>3. t[B * 4] = Pad
        BY <2>2, <2>3, <3>2
      <4> QED
        BY <2>3, <3>2, <4>1, <4>2, <4>3 DEF Pads
    <3>3. CASE p = 2
      <4>1. t[B * 4] = Pad /\ t[B * 4 - 1] = Pad
        BY <2>2, <2>3, <3>3
      <4> QED
        BY <2>3, <3>3, <4>1 DEF Pads
    <3> QED
      BY <2>2, <3>1, <3>2, <3>3
  <2>11. t # <<>>
    BY <2>2, <2>3
  <2>12. (Len(t) \div 4) * 3 - Pads(t) = n
    BY <2>2, <2>3, <2>10
  <2> DEFINE byte(j) ==
        LET s == BlockStart(t, (j - 1) \div 3)
            r == ((j - 1) % 3) + 1
            x == Digit(t[s + r], safe)
            y == Digit(t[s + r + 1], safe)
        IN  IF Unknown \in {x, y} THEN Unknown ELSE deblock(r, x, y)
  <2>13. Base64Decode(t, safe) = [j \in 1..n |-> byte(j)]
    BY <2>11, <2>12 DEF Base64Decode
  <2>14. ASSUME NEW j \in 1..n PROVE byte(j) = m[j]
    <3> DEFINE k == (j - 1) \div 3
               r == ((j - 1) % 3) + 1
               e == enblock(ByteOrZero(m, 3 * k + 1), ByteOrZero(m, 3 * k + 2),
                            ByteOrZero(m, 3 * k + 3))
    <3>1. /\ k \in 0..B - 1 /\ r \in 1..3 /\ j = 3 * k + r
          /\ 4 * k + r + 1 <= 4 * B - p
      BY <2>1, <2>2, PlaceOfByte
    <3> HIDE DEF k, r
    <3>2. BlockStart(t, k) = 4 * k
      BY <2>6, <3>1
    <3>3. k \in Nat /\ r \in 1..4 /\ r + 1 \in 1..4 /\ 4 * k + r <= 4 * B - p
          /\ 4 * k + (r + 1) <= 4 * B - p /\ 4 * k + r + 1 = 4 * k + (r + 1)
      BY <2>2, <3>1
    <3>4. /\ Digit(t[4 * k + r], safe) = e[r] /\ e[r] \in 0..63
          /\ Digit(t[4 * k + r + 1], safe) = e[r + 1] /\ e[r + 1] \in 0..63
      BY <2>7, <3>3
    <3>5. Unknown \notin {e[r], e[r + 1]}
      BY <3>4, <2>9
    <3>6. /\ ByteOrZero(m, 3 * k + 1) \in Byte /\ ByteOrZero(m, 3 * k + 2) \in Byte
          /\ ByteOrZero(m, 3 * k + 3) \in Byte
      BY <3>3, BytesOrZero
    <3>7. deblock(r, e[r], e[r + 1]) = ByteOrZero(m, 3 * k + r)
      <4>1. CASE r = 1
        BY <3>6, <4>1, Blocks
      <4>2. CASE r = 2
        BY <3>6, <4>2, Blocks
      <4>3. CASE r = 3
        BY <3>6, <4>3, Blocks
      <4> QED
        BY <3>1, <4>1, <4>2, <4>3
    <3>8. ByteOrZero(m, 3 * k + r) = m[j]
      BY <3>1 DEF ByteOrZero, n
    <3> HIDE DEF e
    <3>9. byte(j) = deblock(r, e[r], e[r + 1])
      BY <3>2, <3>4, <3>5 DEF k, r
    <3> QED
      BY <3>7, <3>8, <3>9
  <2> HIDE DEF byte
  <2>15. Base64Decode(t, safe) = m
    BY <1>1, <2>13, <2>14 DEF n
  <2> QED
    BY <2>15 DEF t
<1> QED
  BY <1>1, <1>2, <1>3

-----------------------------------------------------------------------------
(* What becomes of sizes and types                                          *)

LEMMA HexEncoded ==
    ASSUME NEW m \in Seq(Byte), NEW up \in BOOLEAN
    PROVE  HexEncode(m, up) \in Seq(Byte) /\ Len(HexEncode(m, up)) = 2 * Len(m)
<1> DEFINE n == Len(m)
           c(j) == LET b == m[(j + 1) \div 2] IN
                   HEX_TRANS(IF j % 2 = 1 THEN b \div 16 ELSE b % 16, up)
<1>1. n \in Nat /\ \A i \in 1..n : m[i] \in Byte
  OBVIOUS
<1>2. HexEncode(m, up) = [j \in 1..2 * n |-> c(j)]
  BY DEF HexEncode
<1> HIDE DEF n
<1>3. ASSUME NEW j \in 1..2 * n PROVE c(j) \in Byte
  <2>1. (j + 1) \div 2 \in 1..n
    BY <1>1
  <2>2. m[(j + 1) \div 2] \in Byte
    BY <1>1, <2>1
  <2> DEFINE x == IF j % 2 = 1 THEN m[(j + 1) \div 2] \div 16
                  ELSE m[(j + 1) \div 2] % 16
  <2>3. x \in 0..15
    BY <2>2, Halves
  <2>4. c(j) = HEX_TRANS(x, up)
    OBVIOUS
  <2> HIDE DEF x, c
  <2> QED
    BY <2>3, <2>4, HexDigits
<1> HIDE DEF c
<1>4. 2 * n \in Nat
  BY <1>1
<1> QED
  BY <1>2, <1>3, <1>4 DEF n

LEMMA HexDecoded ==
    ASSUME NEW t \in Seq(Byte)
    PROVE  HexDecode(t) \in Seq(Byte)
<1> DEFINE n == (Len(t) + 1) \div 2
           b(i) == (STR_TRANS(t[2 * i - 1]) * 16
                     + (IF 2 * i <= Len(t) THEN STR_TRANS(t[2 * i]) ELSE 0)) % 256
<1>1. Len(t) \in Nat /\ n \in Nat /\ \A j \in 1..Len(t) : t[j] \in Byte
  OBVIOUS
<1>2. ASSUME NEW x \in Byte PROVE STR_TRANS(x) \in Int
  BY DEF STR_TRANS, Byte
<1>3. HexDecode(t) = [i \in 1..n |-> b(i)]
  BY DEF HexDecode
<1>4. ASSUME NEW i \in 1..n PROVE b(i) \in Byte
  <2>1. 2 * i - 1 \in 1..Len(t) /\ (2 * i <= Len(t) => 2 * i \in 1..Len(t))
    BY <1>1
  <2> DEFINE x == STR_TRANS(t[2 * i - 1])
             y == IF 2 * i <= Len(t) THEN STR_TRANS(t[2 * i]) ELSE 0
  <2>2. x \in Int
    BY <1>1, <1>2, <2>1
  <2>3. y \in Int
    BY <1>1, <1>2, <2>1
  <2> HIDE DEF x, y
  <2>4. (x * 16 + y) % 256 \in 0..255
    BY <2>2, <2>3
  <2> QED
    BY <2>4 DEF x, y, Byte
<1> HIDE DEF n, b
<1> QED
  BY <1>1, <1>3, <1>4

LEMMA Base64Encoded ==
    ASSUME NEW m \in Seq(Byte), NEW safe \in BOOLEAN
    PROVE  /\ Base64Encode(m, safe) \in Seq(Byte)
           /\ Len(Base64Encode(m, safe)) <= 2 * Len(m) + 4
<1> DEFINE t == Base64Encode(m, safe)
           B == (Len(m) + 2) \div 3
           p == Padding(m)
<1>1. B \in Nat /\ p \in 0..2 /\ B * 4 <= 2 * Len(m) + 4
  BY DEF Padding
<1>2. Len(t) = B * 4 /\ \A j \in 1..B * 4 : j > B * 4 - p => t[j] = Pad
  BY EncodedLength
<1>3. \A k \in Nat, r \in 1..4 : 4 * k + r <= 4 * B - p =>
        t[4 * k + r] = Character(enblock(ByteOrZero(m, 3 * k + 1),
                                         ByteOrZero(m, 3 * k + 2),
                                         ByteOrZero(m, 3 * k + 3))[r], safe)
  BY EncodedCharacters
<1>4. \E c \in [1..B * 4 -> {t[j] : j \in 1..B * 4}] : t = c
  BY <1>1, <1>2 DEF Base64Encode
<1> HIDE DEF t, B, p
<1>5. ASSUME NEW j \in 1..B * 4 PROVE t[j] \in Byte
  <2>1. CASE j > B * 4 - p
    BY <1>2, <2>1 DEF Pad, Byte
  <2>2. CASE j <= B * 4 - p
    <3> DEFINE k == (j - 1) \div 4
               r == ((j - 1) % 4) + 1
               e == enblock(ByteOrZero(m, 3 * k + 1), ByteOrZero(m, 3 * k + 2),
                            ByteOrZero(m, 3 * k + 3))
    <3>1. k \in Nat /\ r \in 1..4 /\ j = 4 * k + r
      BY <1>1
    <3> HIDE DEF k, r
    <3>2. 4 * k + r <= 4 * B - p
      BY <1>1, <2>2, <3>1
    <3>3. e[r] \in 0..63
      <4>1. /\ ByteOrZero(m, 3 * k + 1) \in Byte /\ ByteOrZero(m, 3 * k + 2) \in Byte
            /\ ByteOrZero(m, 3 * k + 3) \in Byte
        BY <3>1, BytesOrZero
      <4>2. \A i \in 1..4 : e[i] \in 0..63
        BY <4>1, Blocks, Zenon
      <4> HIDE DEF e
      <4> QED
        BY <3>1, <4>2
    <3>4. t[j] = Character(e[r], safe)
      BY <1>3, <3>1, <3>2
    <3> HIDE DEF e
    <3> QED
      BY <3>3, <3>4, Digits
  <2> QED
    BY <1>1, <2>1, <2>2
<1>6. t \in Seq(Byte)
  BY <1>1, <1>4, <1>5, SMTT(40)
<1> QED
  BY <1>1, <1>2, <1>6 DEF t

\* A text of four characters or more is read inside its ends, and a byte that
\* comes out unknown was read from a character above 127.
LEMMA InsideText ==
    ASSUME NEW t \in Seq(Byte), NEW safe \in BOOLEAN, Len(t) >= 4, Len(t) < Word
    PROVE  /\ InBounds(t)
           /\ Base64Decode(t, safe) \in Seq(Byte \cup {Unknown})
           /\ \A j \in 1..Len(Base64Decode(t, safe)) :
                 Base64Decode(t, safe)[j] = Unknown => \E i \in 1..Len(t) : t[i] > 127
<1> DEFINE n == Len(t)
           B == n \div 4
           p == Pads(t)
           byte(j) ==
             LET s == BlockStart(t, (j - 1) \div 3)
                 r == ((j - 1) % 3) + 1
                 x == Digit(t[s + r], safe)
                 y == Digit(t[s + r + 1], safe)
             IN  IF Unknown \in {x, y} THEN Unknown ELSE deblock(r, x, y)
<1>1. /\ n \in Nat /\ n >= 4 /\ B \in Nat \ {0} /\ B * 4 <= n /\ B < Word
      /\ \A i \in 1..n : t[i] \in Byte
  BY GivenAssumption
<1>2. p \in 0..2
  BY DEF Pads
<1>3. B * 3 - p \in Nat /\ t # <<>>
  BY <1>1, <1>2
<1>4. Base64Decode(t, safe) = [j \in 1..B * 3 - p |-> byte(j)]
  BY <1>3 DEF Base64Decode
<1> HIDE DEF n, B, p
<1>5. Whole(Len(t)) = B - 1
  <2>1. B - 1 \in 0..Word - 1 /\ Word \in Nat
    BY <1>1, GivenAssumption
  <2>2. (B - 1) % Word = B - 1
    BY <2>1
  <2> QED
    BY <2>2 DEF Whole, B, n
<1>6. InBounds(t)
  BY <1>1, <1>5 DEF InBounds, n
<1>7. ASSUME NEW c \in Byte
      PROVE  /\ Digit(c, safe) \in Nat \/ Digit(c, safe) = Unknown
             /\ Digit(c, safe) = Unknown => c > 127
  <2>1. /\ \A x \in Byte : x # Unknown
        /\ \A x \in Byte : x \in Nat
    BY GivenAssumption DEF Byte
  <2>2. CASE c < 128
    <3>1. Digit(c, safe) \in Byte
      BY <2>2 DEF Digit, Byte, Pad
    <3>2. Digit(c, safe) # Unknown
      BY <2>1, <3>1
    <3>3. Digit(c, safe) \in Nat
      BY <2>1, <3>1
    <3> QED
      BY <3>2, <3>3
  <2>3. CASE ~(c < 128)
    <3>1. Digit(c, safe) = Unknown
      BY <2>3 DEF Digit, Byte, Pad
    <3> QED
      BY <2>3, <3>1 DEF Byte
  <2> QED
    BY <2>2, <2>3
<1>8. ASSUME NEW j \in 1..B * 3 - p
      PROVE  /\ byte(j) \in Byte \cup {Unknown}
             /\ byte(j) = Unknown => \E i \in 1..n : t[i] > 127
  <2> DEFINE k == (j - 1) \div 3
             s == BlockStart(t, k)
             r == ((j - 1) % 3) + 1
             x == Digit(t[s + r], safe)
             y == Digit(t[s + r + 1], safe)
  <2>1. k \in 0..B - 1 /\ r \in 1..3
    BY <1>1, <1>2
  <2> HIDE DEF k, r
  <2>2. s \in 0..n - 4
    BY <1>1, <1>5, <2>1 DEF BlockStart, n
  <2> HIDE DEF s
  <2>3. s + r \in 1..n /\ s + r + 1 \in 1..n
    BY <1>1, <2>1, <2>2
  <2>4. t[s + r] \in Byte /\ t[s + r + 1] \in Byte
    BY <1>1, <2>3
  <2>5. /\ x \in Nat \/ x = Unknown
        /\ y \in Nat \/ y = Unknown
        /\ Unknown \in {x, y} => \E i \in 1..n : t[i] > 127
    BY <1>7, <2>3, <2>4
  <2> HIDE DEF x, y
  <2>6. byte(j) = IF Unknown \in {x, y} THEN Unknown ELSE deblock(r, x, y)
    BY DEF k, s, r, x, y
  <2>7. ASSUME x \in Nat, y \in Nat PROVE deblock(r, x, y) \in Byte
    BY <2>7 DEF deblock, Byte
  <2> HIDE DEF byte
  <2>8. CASE Unknown \in {x, y}
    BY <2>5, <2>6, <2>8
  <2>9. CASE Unknown \notin {x, y}
    BY <2>5, <2>6, <2>7, <2>9, GivenAssumption
  <2> QED
    BY <2>8, <2>9
<1> HIDE DEF byte
<1>9. /\ Base64Decode(t, safe) \in Seq(Byte \cup {Unknown})
      /\ Len(Base64Decode(t, safe)) = B * 3 - p
  BY <1>3, <1>4, <1>8
<1> QED
  BY <1>3, <1>4, <1>6, <1>8, <1>9 DEF n

-----------------------------------------------------------------------------
(* The bits of a string, and the numbers that groups of them are            *)

\* A byte is the sum of its bits; Bits gives them names.
Bits(b) == [s \in 1..8 |-> CASE s = 1 -> (b \div 128) % 2
                             [] s = 2 -> (b \div 64) % 2
                             [] s = 3 -> (b \div 32) % 2
                             [] s = 4 -> (b \div 16) % 2
                             [] s = 5 -> (b \div 8) % 2
                             [] s = 6 -> (b \div 4) % 2
                             [] s = 7 -> (b \div 2) % 2
                             [] s = 8 -> b % 2]

LEMMA ByteOfBits ==
    ASSUME NEW b \in Byte
    PROVE  LET x == Bits(b) IN
           /\ \A s \in 1..8 : x[s] \in 0..1
           /\ b = 128 * x[1] + 64 * x[2] + 32 * x[3] + 16 * x[4]
                    + 8 * x[5] + 4 * x[6] + 2 * x[7] + x[8]
<1> DEFINE c2 == b \div 2
           c4 == c2 \div 2
           c8 == c4 \div 2
           c16 == c8 \div 2
           c32 == c16 \div 2
           c64 == c32 \div 2
           c128 == c64 \div 2
<1>1. /\ c4 = b \div 4 /\ c8 = b \div 8 /\ c16 = b \div 16
      /\ c32 = b \div 32 /\ c64 = b \div 64 /\ c128 = b \div 128
  BY DEF Byte
<1>2. /\ Bits(b)[1] = c128 % 2 /\ Bits(b)[2] = c64 % 2 /\ Bits(b)[3] = c32 % 2
      /\ Bits(b)[4] = c16 % 2 /\ Bits(b)[5] = c8 % 2 /\ Bits(b)[6] = c4 % 2
      /\ Bits(b)[7] = c2 % 2 /\ Bits(b)[8] = b % 2
  <2> HIDE DEF c4, c8, c16, c32, c64, c128
  <2> QED
    BY <1>1 DEF Bits
<1>3. c128 \in 0..1
  BY <1>1 DEF Byte
<1>4. /\ b = 2 * c2 + (b % 2) /\ c2 = 2 * c4 + (c2 % 2) /\ c4 = 2 * c8 + (c4 % 2)
      /\ c8 = 2 * c16 + (c8 % 2) /\ c16 = 2 * c32 + (c16 % 2)
      /\ c32 = 2 * c64 + (c32 % 2) /\ c64 = 2 * c128 + (c64 % 2)
  BY DEF Byte
<1>5. /\ c2 \in Nat /\ c4 \in Nat /\ c8 \in Nat /\ c16 \in Nat
      /\ c32 \in Nat /\ c64 \in Nat /\ c128 \in Nat
  BY DEF Byte
<1> HIDE DEF c2, c4, c8, c16, c32, c64, c128
<1>6. /\ b % 2 \in 0..1 /\ c2 % 2 \in 0..1 /\ c4 % 2 \in 0..1 /\ c8 % 2 \in 0..1
      /\ c16 % 2 \in 0..1 /\ c32 % 2 \in 0..1 /\ c64 % 2 \in 0..1
      /\ c128 % 2 = c128
  BY <1>3, <1>5 DEF Byte
<1> HIDE DEF Bits
<1>7. \A s \in 1..8 : Bits(b)[s] \in 0..1
  BY <1>2, <1>3, <1>6
<1>8. b = 128 * c128 + 64 * (c64 % 2) + 32 * (c32 % 2) + 16 * (c16 % 2)
            + 8 * (c8 % 2) + 4 * (c4 % 2) + 2 * (c2 % 2) + (b % 2)
  BY <1>4, <1>5, <1>6 DEF Byte
<1> QED
  BY <1>2, <1>6, <1>7, <1>8

\* Bit 8 * q + s of a string is bit s of its byte q + 1.
LEMMA BitIs ==
    ASSUME NEW m \in Seq(Byte), NEW q \in Nat, NEW s \in 1..8
    PROVE  Bit(m, 8 * q + s) = Bits(ByteOrZero(m, q + 1))[s]
<1> DEFINE k == 8 * q + s
<1>1. (k + 7) \div 8 = q + 1 /\ (8 - (k % 8)) % 8 = 8 - s
  OBVIOUS
<1>2. k > 8 * Len(m) <=> ~(q + 1 <= Len(m))
  OBVIOUS
<1>3. CASE k > 8 * Len(m)
  <2>1. ByteOrZero(m, q + 1) = 0 /\ Bit(m, k) = 0
    BY <1>2, <1>3 DEF ByteOrZero, Bit
  <2>2. 0 \in Byte
    BY DEF Byte
  <2>3. Bits(0)[s] = 0
    BY DEF Bits
  <2> QED
    BY <2>1, <2>3
<1>4. CASE ~(k > 8 * Len(m))
  <2> DEFINE b == m[q + 1]
  <2>1. ByteOrZero(m, q + 1) = b /\ b \in Byte
    BY <1>2, <1>4 DEF ByteOrZero
  <2>2. Bit(m, k) = (b \div 2^(8 - s)) % 2
    <3> HIDE DEF k
    <3> QED
      BY <1>1, <1>4 DEF Bit
  <2> HIDE DEF b, k
  <2>3. (b \div 2^(8 - s)) % 2 = Bits(b)[s]
    <3>1. CASE s = 1
      <4>1. 8 - s = 7 /\ 2^7 = 128
        BY <3>1
      <4> QED
        BY <3>1, <4>1 DEF Bits
    <3>2. CASE s = 2
      <4>1. 8 - s = 6 /\ 2^6 = 64
        BY <3>2
      <4> QED
        BY <3>2, <4>1 DEF Bits
    <3>3. CASE s = 3
      <4>1. 8 - s = 5 /\ 2^5 = 32
        BY <3>3
      <4> QED
        BY <3>3, <4>1 DEF Bits
    <3>4. CASE s = 4
      <4>1. 8 - s = 4 /\ 2^4 = 16
        BY <3>4
      <4> QED
        BY <3>4, <4>1 DEF Bits
    <3>5. CASE s = 5
      <4>1. 8 - s = 3 /\ 2^3 = 8
        BY <3>5
      <4> QED
        BY <3>5, <4>1 DEF Bits
    <3>6. CASE s = 6
      <4>1. 8 - s = 2 /\ 2^2 = 4
        BY <3>6
      <4> QED
        BY <3>6, <4>1 DEF Bits
    <3>7. CASE s = 7
      <4>1. 8 - s = 1 /\ 2^1 = 2
        BY <3>7
      <4> QED
        BY <3>7, <4>1 DEF Bits
    <3>8. CASE s = 8
      <4>1. 8 - s = 0 /\ 2^0 = 1 /\ b \div 1 = b
        BY <2>1, <3>8 DEF Byte
      <4> QED
        BY <3>8, <4>1 DEF Bits
    <3> QED
      BY <3>1, <3>2, <3>3, <3>4, <3>5, <3>6, <3>7, <3>8
  <2> QED
    BY <2>1, <2>2, <2>3 DEF k
<1> QED
  BY <1>3, <1>4 DEF k

\* How Number counts its bits: it has the values of its function sum.
LEMMA NumberCounts ==
    ASSUME NEW m, NEW k \in Nat, NEW n \in Nat,
           \A i \in 1..n : Bit(m, k + i) \in 0..1
    PROVE  \E f \in [0..n -> Nat] :
               /\ f[0] = 0
               /\ \A i \in 1..n : f[i] = 2 * f[i - 1] + Bit(m, k + i)
               /\ Number(m, k, n) = f[n]
<1> DEFINE F == [p \in (1..n) \X Nat |-> 2 * p[2] + Bit(m, k + p[1])]
           Sums(f) == f = [i \in 0..n |-> IF i = 0 THEN 0
                                          ELSE 2 * f[i - 1] + Bit(m, k + i)]
           sum == CHOOSE f : Sums(f)
<1>1. F \in [(1..n) \X Nat -> Nat]
  <2>1. ASSUME NEW p \in (1..n) \X Nat PROVE 2 * p[2] + Bit(m, k + p[1]) \in Nat
    <3>1. p[1] \in 1..n /\ p[2] \in Nat
      OBVIOUS
    <3>2. Bit(m, k + p[1]) \in 0..1
      BY <3>1
    <3> QED
      BY <3>1, <3>2
  <2> QED
    BY <2>1
<1>2. PICK g \in [0..n -> Nat] : IsRecursion(g, n, 0, F)
  <2> HIDE DEF F
  <2>1. 0 \in Nat
    OBVIOUS
  <2> QED
    BY <1>1, <2>1, RecursiveFunction
<1>3. \A i \in 1..n : g[i] = 2 * g[i - 1] + Bit(m, k + i)
  <2> SUFFICES ASSUME NEW i \in 1..n PROVE g[i] = 2 * g[i - 1] + Bit(m, k + i)
    OBVIOUS
  <2>1. g[i - 1] \in Nat
    OBVIOUS
  <2>2. g[i] = F[<<i, g[i - 1]>>]
    BY <1>2 DEF IsRecursion
  <2> QED
    BY <2>1, <2>2
<1>4. Sums(g)
  <2>1. g = [i \in 0..n |-> g[i]] /\ g[0] = 0
    BY <1>2 DEF IsRecursion
  <2>2. ASSUME NEW i \in 0..n
        PROVE  g[i] = IF i = 0 THEN 0 ELSE 2 * g[i - 1] + Bit(m, k + i)
    <3>1. CASE i = 0
      BY <2>1, <3>1
    <3>2. CASE i # 0
      <4>1. i \in 1..n
        BY <3>2
      <4> QED
        BY <1>3, <3>2, <4>1
    <3> QED
      BY <3>1, <3>2
  <2> QED
    BY <2>1, <2>2
<1>5. Sums(sum)
  <2> HIDE DEF Sums
  <2> QED
    BY <1>4
<1>6. Number(m, k, n) = sum[n]
  BY DEF Number
<1> HIDE DEF sum
<1>7. sum[0] = 0 /\ \A i \in 1..n : sum[i] = 2 * sum[i - 1] + Bit(m, k + i)
  <2>1. \A i \in 0..n : sum[i] = IF i = 0 THEN 0 ELSE 2 * sum[i - 1] + Bit(m, k + i)
    BY <1>5
  <2> QED
    BY <2>1
<1>8. \A i \in 0..n : sum[i] \in Nat
  <2> DEFINE T == {i \in 0..n : sum[i] \in Nat}
  <2>1. 0 \in T
    BY <1>7
  <2>2. ASSUME NEW i \in 0..(n - 1), i \in T PROVE i + 1 \in T
    <3>1. i + 1 \in 1..n /\ (i + 1) - 1 = i
      OBVIOUS
    <3>2. sum[i + 1] = 2 * sum[i] + Bit(m, k + (i + 1)) /\ Bit(m, k + (i + 1)) \in 0..1
      BY <1>7, <3>1
    <3>3. sum[i] \in Nat
      BY <2>2
    <3>4. sum[i + 1] \in Nat
      BY <3>2, <3>3
    <3> QED
      BY <3>1, <3>4
  <2> HIDE DEF T
  <2>3. \A i \in 0..n : i \in T
    BY <2>1, <2>2, InductionUpTo
  <2> QED
    BY <2>3 DEF T
<1>9. sum \in [0..n -> Nat]
  BY <1>5, <1>8
<1> QED
  BY <1>6, <1>7, <1>9

LEMMA FourBits ==
    ASSUME NEW m, NEW k \in Nat, \A i \in 1..4 : Bit(m, k + i) \in 0..1
    PROVE  Number(m, k, 4) = 8 * Bit(m, k + 1) + 4 * Bit(m, k + 2)
                               + 2 * Bit(m, k + 3) + Bit(m, k + 4)
<1>1. 4 \in Nat
  OBVIOUS
<1>2. PICK f \in [0..4 -> Nat] :
         /\ f[0] = 0
         /\ \A i \in 1..4 : f[i] = 2 * f[i - 1] + Bit(m, k + i)
         /\ Number(m, k, 4) = f[4]
  BY <1>1, NumberCounts, Zenon
<1> DEFINE b1 == Bit(m, k + 1)
           b2 == Bit(m, k + 2)
           b3 == Bit(m, k + 3)
           b4 == Bit(m, k + 4)
<1>3. /\ f[1] = 2 * f[0] + b1
      /\ f[2] = 2 * f[1] + b2
      /\ f[3] = 2 * f[2] + b3
      /\ f[4] = 2 * f[3] + b4
  BY <1>2
<1>4. /\ b1 \in 0..1 /\ b2 \in 0..1
      /\ b3 \in 0..1 /\ b4 \in 0..1
  OBVIOUS
<1>5. /\ f[1] \in Nat /\ f[2] \in Nat
      /\ f[3] \in Nat /\ f[4] \in Nat
  OBVIOUS
<1> HIDE DEF b1, b2, b3, b4
<1>6. f[4] = 8 * b1 + 4 * b2 + 2 * b3 + b4
  BY <1>2, <1>3, <1>4, <1>5
<1> QED
  BY <1>2, <1>6 DEF b1, b2, b3, b4

LEMMA SixBits ==
    ASSUME NEW m, NEW k \in Nat, \A i \in 1..6 : Bit(m, k + i) \in 0..1
    PROVE  Number(m, k, 6) = 32 * Bit(m, k + 1) + 16 * Bit(m, k + 2)
                               + 8 * Bit(m, k + 3) + 4 * Bit(m, k + 4)
                               + 2 * Bit(m, k + 5) + Bit(m, k + 6)
<1>1. 6 \in Nat
  OBVIOUS
<1>2. PICK f \in [0..6 -> Nat] :
         /\ f[0] = 0
         /\ \A i \in 1..6 : f[i] = 2 * f[i - 1] + Bit(m, k + i)
         /\ Number(m, k, 6) = f[6]
  BY <1>1, NumberCounts, Zenon
<1> DEFINE b1 == Bit(m, k + 1)
           b2 == Bit(m, k + 2)
           b3 == Bit(m, k + 3)
           b4 == Bit(m, k + 4)
           b5 == Bit(m, k + 5)
           b6 == Bit(m, k + 6)
<1>3. /\ f[1] = 2 * f[0] + b1
      /\ f[2] = 2 * f[1] + b2
      /\ f[3] = 2 * f[2] + b3
      /\ f[4] = 2 * f[3] + b4
      /\ f[5] = 2 * f[4] + b5
      /\ f[6] = 2 * f[5] + b6
  BY <1>2
<1>4. /\ b1 \in 0..1 /\ b2 \in 0..1
      /\ b3 \in 0..1 /\ b4 \in 0..1
      /\ b5 \in 0..1 /\ b6 \in 0..1
  OBVIOUS
<1>5. /\ f[1] \in Nat /\ f[2] \in Nat
      /\ f[3] \in Nat /\ f[4] \in Nat
      /\ f[5] \in Nat /\ f[6] \in Nat
  OBVIOUS
<1> HIDE DEF b1, b2, b3, b4, b5, b6
<1>6. f[6] = 32 * b1 + 16 * b2 + 8 * b3 + 4 * b4 + 2 * b5 + b6
  BY <1>2, <1>3, <1>4, <1>5
<1> QED
  BY <1>2, <1>6 DEF b1, b2, b3, b4, b5, b6

\* A byte as the sum of two groups of its bits, and six bits of two bytes.
LEMMA FourAndFour ==
    ASSUME NEW x, \A s \in 1..8 : x[s] \in 0..1,
           NEW b, b = 128 * x[1] + 64 * x[2] + 32 * x[3] + 16 * x[4]
                      + 8 * x[5] + 4 * x[6] + 2 * x[7] + x[8]
    PROVE  /\ 8 * x[1] + 4 * x[2] + 2 * x[3] + x[4] \in 0..15
           /\ 8 * x[5] + 4 * x[6] + 2 * x[7] + x[8] \in 0..15
           /\ b = 16 * (8 * x[1] + 4 * x[2] + 2 * x[3] + x[4])
                    + (8 * x[5] + 4 * x[6] + 2 * x[7] + x[8])
<1> DEFINE x1 == x[1]
           x2 == x[2]
           x3 == x[3]
           x4 == x[4]
           x5 == x[5]
           x6 == x[6]
           x7 == x[7]
           x8 == x[8]
<1>1. /\ x1 \in 0..1 /\ x2 \in 0..1 /\ x3 \in 0..1 /\ x4 \in 0..1
      /\ x5 \in 0..1 /\ x6 \in 0..1 /\ x7 \in 0..1 /\ x8 \in 0..1
  OBVIOUS
<1>2. b = 128 * x1 + 64 * x2 + 32 * x3 + 16 * x4 + 8 * x5 + 4 * x6 + 2 * x7 + x8
  OBVIOUS
<1> HIDE DEF x1, x2, x3, x4, x5, x6, x7, x8
<1>3. /\ 8 * x1 + 4 * x2 + 2 * x3 + x4 \in 0..15
      /\ 8 * x5 + 4 * x6 + 2 * x7 + x8 \in 0..15
      /\ b = 16 * (8 * x1 + 4 * x2 + 2 * x3 + x4)
                    + (8 * x5 + 4 * x6 + 2 * x7 + x8)
  BY <1>1, <1>2
<1> QED
  BY <1>3 DEF x1, x2, x3, x4, x5, x6, x7, x8

LEMMA SixAndTwo ==
    ASSUME NEW x, \A s \in 1..8 : x[s] \in 0..1,
           NEW b, b = 128 * x[1] + 64 * x[2] + 32 * x[3] + 16 * x[4]
                      + 8 * x[5] + 4 * x[6] + 2 * x[7] + x[8]
    PROVE  /\ 32 * x[1] + 16 * x[2] + 8 * x[3] + 4 * x[4] + 2 * x[5] + x[6] \in 0..63
           /\ 2 * x[7] + x[8] \in 0..3
           /\ b = 4 * (32 * x[1] + 16 * x[2] + 8 * x[3] + 4 * x[4] + 2 * x[5] + x[6])
                    + (2 * x[7] + x[8])
<1> DEFINE x1 == x[1]
           x2 == x[2]
           x3 == x[3]
           x4 == x[4]
           x5 == x[5]
           x6 == x[6]
           x7 == x[7]
           x8 == x[8]
<1>1. /\ x1 \in 0..1 /\ x2 \in 0..1 /\ x3 \in 0..1 /\ x4 \in 0..1
      /\ x5 \in 0..1 /\ x6 \in 0..1 /\ x7 \in 0..1 /\ x8 \in 0..1
  OBVIOUS
<1>2. b = 128 * x1 + 64 * x2 + 32 * x3 + 16 * x4 + 8 * x5 + 4 * x6 + 2 * x7 + x8
  OBVIOUS
<1> HIDE DEF x1, x2, x3, x4, x5, x6, x7, x8
<1>3. /\ 32 * x1 + 16 * x2 + 8 * x3 + 4 * x4 + 2 * x5 + x6 \in 0..63
      /\ 2 * x7 + x8 \in 0..3
      /\ b = 4 * (32 * x1 + 16 * x2 + 8 * x3 + 4 * x4 + 2 * x5 + x6)
                    + (2 * x7 + x8)
  BY <1>1, <1>2
<1> QED
  BY <1>3 DEF x1, x2, x3, x4, x5, x6, x7, x8

LEMMA TwoAndSix ==
    ASSUME NEW x, \A s \in 1..8 : x[s] \in 0..1,
           NEW b, b = 128 * x[1] + 64 * x[2] + 32 * x[3] + 16 * x[4]
                      + 8 * x[5] + 4 * x[6] + 2 * x[7] + x[8]
    PROVE  /\ 2 * x[1] + x[2] \in 0..3
           /\ 32 * x[3] + 16 * x[4] + 8 * x[5] + 4 * x[6] + 2 * x[7] + x[8] \in 0..63
           /\ b = 64 * (2 * x[1] + x[2])
                    + (32 * x[3] + 16 * x[4] + 8 * x[5] + 4 * x[6] + 2 * x[7] + x[8])
<1> DEFINE x1 == x[1]
           x2 == x[2]
           x3 == x[3]
           x4 == x[4]
           x5 == x[5]
           x6 == x[6]
           x7 == x[7]
           x8 == x[8]
<1>1. /\ x1 \in 0..1 /\ x2 \in 0..1 /\ x3 \in 0..1 /\ x4 \in 0..1
      /\ x5 \in 0..1 /\ x6 \in 0..1 /\ x7 \in 0..1 /\ x8 \in 0..1
  OBVIOUS
<1>2. b = 128 * x1 + 64 * x2 + 32 * x3 + 16 * x4 + 8 * x5 + 4 * x6 + 2 * x7 + x8
  OBVIOUS
<1> HIDE DEF x1, x2, x3, x4, x5, x6, x7, x8
<1>3. /\ 2 * x1 + x2 \in 0..3
      /\ 32 * x3 + 16 * x4 + 8 * x5 + 4 * x6 + 2 * x7 + x8 \in 0..63
      /\ b = 64 * (2 * x1 + x2)
                    + (32 * x3 + 16 * x4 + 8 * x5 + 4 * x6 + 2 * x7 + x8)
  BY <1>1, <1>2
<1> QED
  BY <1>3 DEF x1, x2, x3, x4, x5, x6, x7, x8

LEMMA SixOfBits ==
    ASSUME NEW x, NEW y, \A s \in 1..8 : x[s] \in 0..1 /\ y[s] \in 0..1
    PROVE  /\ 32 * x[7] + 16 * x[8] + 8 * y[1] + 4 * y[2] + 2 * y[3] + y[4]
                = 16 * (2 * x[7] + x[8]) + (8 * y[1] + 4 * y[2] + 2 * y[3] + y[4])
           /\ 32 * x[5] + 16 * x[6] + 8 * x[7] + 4 * x[8] + 2 * y[1] + y[2]
                = 4 * (8 * x[5] + 4 * x[6] + 2 * x[7] + x[8]) + (2 * y[1] + y[2])
<1> DEFINE x5 == x[5]
           x6 == x[6]
           x7 == x[7]
           x8 == x[8]
           y1 == y[1]
           y2 == y[2]
           y3 == y[3]
           y4 == y[4]
<1>1. /\ x5 \in 0..1 /\ x6 \in 0..1 /\ x7 \in 0..1 /\ x8 \in 0..1
      /\ y1 \in 0..1 /\ y2 \in 0..1 /\ y3 \in 0..1 /\ y4 \in 0..1
  OBVIOUS
<1> HIDE DEF x5, x6, x7, x8, y1, y2, y3, y4
<1>2. /\ 32 * x7 + 16 * x8 + 8 * y1 + 4 * y2 + 2 * y3 + y4
           = 16 * (2 * x7 + x8) + (8 * y1 + 4 * y2 + 2 * y3 + y4)
      /\ 32 * x5 + 16 * x6 + 8 * x7 + 4 * x8 + 2 * y1 + y2
           = 4 * (8 * x5 + 4 * x6 + 2 * x7 + x8) + (2 * y1 + y2)
  BY <1>1
<1> QED
  BY <1>2 DEF x5, x6, x7, x8, y1, y2, y3, y4

\* The halves of a byte, and the four sixes of three bytes, zeros after the end.
LEMMA Fours ==
    ASSUME NEW m \in Seq(Byte), NEW q \in Nat
    PROVE  LET b == ByteOrZero(m, q + 1) IN
           /\ Number(m, 8 * q, 4) = b \div 16
           /\ Number(m, 8 * q + 4, 4) = b % 16
<1> DEFINE b == ByteOrZero(m, q + 1)
           x == Bits(b)
<1>1. b \in Byte
  <2>1. q + 1 \in Nat \ {0}
    OBVIOUS
  <2> QED
    BY <2>1, BytesOrZero
<1>2. /\ \A s \in 1..8 : x[s] \in 0..1
      /\ b = 128 * x[1] + 64 * x[2] + 32 * x[3] + 16 * x[4]
               + 8 * x[5] + 4 * x[6] + 2 * x[7] + x[8]
  BY <1>1, ByteOfBits, Zenon
<1>3. \A s \in 1..8 : Bit(m, 8 * q + s) = x[s]
  BY BitIs
<1> HIDE DEF x, b
<1>4. /\ x[1] \in 0..1 /\ x[2] \in 0..1 /\ x[3] \in 0..1 /\ x[4] \in 0..1
      /\ x[5] \in 0..1 /\ x[6] \in 0..1 /\ x[7] \in 0..1 /\ x[8] \in 0..1
  BY <1>2
<1>9. /\ Bit(m, 8 * q + 5) = x[5] /\ Bit(m, 8 * q + 6) = x[6]
      /\ Bit(m, 8 * q + 7) = x[7] /\ Bit(m, 8 * q + 8) = x[8]
  BY <1>3
<1>5. Number(m, 8 * q, 4) = 8 * x[1] + 4 * x[2] + 2 * x[3] + x[4]
  <2>1. /\ Bit(m, 8 * q + 1) = x[1] /\ Bit(m, 8 * q + 2) = x[2]
        /\ Bit(m, 8 * q + 3) = x[3] /\ Bit(m, 8 * q + 4) = x[4]
    BY <1>3
  <2>2. \A i \in 1..4 : Bit(m, 8 * q + i) \in 0..1
    <3> SUFFICES ASSUME NEW i \in 1..4 PROVE Bit(m, 8 * q + i) \in 0..1
      OBVIOUS
    <3>1. i = 1 \/ i = 2 \/ i = 3 \/ i = 4
      OBVIOUS
    <3> QED
      BY <1>4, <2>1, <3>1
  <2>3. 8 * q \in Nat
    OBVIOUS
  <2> QED
    BY <2>1, <2>2, <2>3, FourBits, Zenon
<1>6. Number(m, 8 * q + 4, 4) = 8 * x[5] + 4 * x[6] + 2 * x[7] + x[8]
  <2> DEFINE k == 8 * q + 4
  <2>1. /\ k + 1 = 8 * q + 5 /\ k + 2 = 8 * q + 6 /\ k + 3 = 8 * q + 7
        /\ k + 4 = 8 * q + 8 /\ k \in Nat
    OBVIOUS
  <2> HIDE DEF k
  <2>2. /\ Bit(m, k + 1) = x[5] /\ Bit(m, k + 2) = x[6]
        /\ Bit(m, k + 3) = x[7] /\ Bit(m, k + 4) = x[8]
    BY <1>9, <2>1, Zenon
  <2>3. \A i \in 1..4 : Bit(m, k + i) \in 0..1
    <3> SUFFICES ASSUME NEW i \in 1..4 PROVE Bit(m, k + i) \in 0..1
      OBVIOUS
    <3>1. i = 1 \/ i = 2 \/ i = 3 \/ i = 4
      OBVIOUS
    <3> QED
      BY <1>4, <2>2, <3>1
  <2>4. Number(m, k, 4) = 8 * Bit(m, k + 1) + 4 * Bit(m, k + 2)
                            + 2 * Bit(m, k + 3) + Bit(m, k + 4)
    BY <2>1, <2>3, FourBits, Zenon
  <2> QED
    BY <2>2, <2>4 DEF k
<1> DEFINE high == 8 * x[1] + 4 * x[2] + 2 * x[3] + x[4]
           low == 8 * x[5] + 4 * x[6] + 2 * x[7] + x[8]
<1>7. high \in 0..15 /\ low \in 0..15 /\ b = 16 * high + low
  BY <1>2, FourAndFour, ZenonT(40)
<1> HIDE DEF high, low
<1>10. b \div 16 = high /\ b % 16 = low
  BY <1>7
<1> QED
  BY <1>5, <1>6, <1>10 DEF high, low, b

LEMMA Sixes ==
    ASSUME NEW m \in Seq(Byte), NEW q \in Nat
    PROVE  LET e == enblock(ByteOrZero(m, 3 * q + 1), ByteOrZero(m, 3 * q + 2),
                            ByteOrZero(m, 3 * q + 3))
           IN  /\ Number(m, 24 * q, 6) = e[1]
               /\ Number(m, 24 * q + 6, 6) = e[2]
               /\ Number(m, 24 * q + 12, 6) = e[3]
               /\ Number(m, 24 * q + 18, 6) = e[4]
<1> DEFINE a == ByteOrZero(m, 3 * q + 1)
           b == ByteOrZero(m, 3 * q + 2)
           c == ByteOrZero(m, 3 * q + 3)
           x == Bits(a)
           y == Bits(b)
           z == Bits(c)
<1>1. a \in Byte /\ b \in Byte /\ c \in Byte
  <2>1. 3 * q + 1 \in Nat \ {0} /\ 3 * q + 2 \in Nat \ {0} /\ 3 * q + 3 \in Nat \ {0}
    OBVIOUS
  <2> QED
    BY <2>1, BytesOrZero
<1>2. /\ \A s \in 1..8 : x[s] \in 0..1
      /\ a = 128 * x[1] + 64 * x[2] + 32 * x[3] + 16 * x[4]
               + 8 * x[5] + 4 * x[6] + 2 * x[7] + x[8]
  BY <1>1, ByteOfBits, Zenon
<1>3. /\ \A s \in 1..8 : y[s] \in 0..1
      /\ b = 128 * y[1] + 64 * y[2] + 32 * y[3] + 16 * y[4]
               + 8 * y[5] + 4 * y[6] + 2 * y[7] + y[8]
  BY <1>1, ByteOfBits, Zenon
<1>4. /\ \A s \in 1..8 : z[s] \in 0..1
      /\ c = 128 * z[1] + 64 * z[2] + 32 * z[3] + 16 * z[4]
               + 8 * z[5] + 4 * z[6] + 2 * z[7] + z[8]
  BY <1>1, ByteOfBits, Zenon
<1>5. \A s \in 1..8 : /\ Bit(m, 24 * q + s) = x[s]
                     /\ Bit(m, 24 * q + 8 + s) = y[s]
                     /\ Bit(m, 24 * q + 16 + s) = z[s]
  <2> SUFFICES ASSUME NEW s \in 1..8
               PROVE  /\ Bit(m, 24 * q + s) = x[s]
                      /\ Bit(m, 24 * q + 8 + s) = y[s]
                      /\ Bit(m, 24 * q + 16 + s) = z[s]
    OBVIOUS
  <2>1. /\ 3 * q \in Nat /\ 3 * q + 1 \in Nat /\ 3 * q + 2 \in Nat
        /\ (3 * q + 1) + 1 = 3 * q + 2 /\ (3 * q + 2) + 1 = 3 * q + 3
        /\ 8 * (3 * q) + s = 24 * q + s /\ 8 * (3 * q + 1) + s = 24 * q + 8 + s
        /\ 8 * (3 * q + 2) + s = 24 * q + 16 + s
    OBVIOUS
  <2>2. Bit(m, 8 * (3 * q) + s) = Bits(ByteOrZero(m, 3 * q + 1))[s]
    BY <2>1, BitIs, Zenon
  <2>3. Bit(m, 8 * (3 * q + 1) + s) = Bits(ByteOrZero(m, (3 * q + 1) + 1))[s]
    BY <2>1, BitIs, Zenon
  <2>4. Bit(m, 8 * (3 * q + 2) + s) = Bits(ByteOrZero(m, (3 * q + 2) + 1))[s]
    BY <2>1, BitIs, Zenon
  <2> QED
    BY <2>1, <2>2, <2>3, <2>4, Zenon
<1> HIDE DEF x, y, z, a, b, c
<1> DEFINE k == 24 * q
<1>6. k \in Nat /\ k + 6 \in Nat /\ k + 12 \in Nat /\ k + 18 \in Nat
  OBVIOUS
<1>7. /\ Bit(m, k + 1) = x[1] /\ Bit(m, k + 2) = x[2] /\ Bit(m, k + 3) = x[3]
      /\ Bit(m, k + 4) = x[4] /\ Bit(m, k + 5) = x[5] /\ Bit(m, k + 6) = x[6]
  BY <1>5
<1>8. /\ Bit(m, (k + 6) + 1) = x[7] /\ Bit(m, (k + 6) + 2) = x[8]
      /\ Bit(m, (k + 6) + 3) = y[1] /\ Bit(m, (k + 6) + 4) = y[2]
      /\ Bit(m, (k + 6) + 5) = y[3] /\ Bit(m, (k + 6) + 6) = y[4]
  <2>1. /\ (k + 6) + 1 = k + 7 /\ (k + 6) + 2 = k + 8 /\ (k + 6) + 3 = k + 8 + 1
        /\ (k + 6) + 4 = k + 8 + 2 /\ (k + 6) + 5 = k + 8 + 3
        /\ (k + 6) + 6 = k + 8 + 4
    OBVIOUS
  <2> QED
    BY <1>5, <2>1
<1>9. /\ Bit(m, (k + 12) + 1) = y[5] /\ Bit(m, (k + 12) + 2) = y[6]
      /\ Bit(m, (k + 12) + 3) = y[7] /\ Bit(m, (k + 12) + 4) = y[8]
      /\ Bit(m, (k + 12) + 5) = z[1] /\ Bit(m, (k + 12) + 6) = z[2]
  <2>1. /\ (k + 12) + 1 = k + 8 + 5 /\ (k + 12) + 2 = k + 8 + 6
        /\ (k + 12) + 3 = k + 8 + 7 /\ (k + 12) + 4 = k + 8 + 8
        /\ (k + 12) + 5 = k + 16 + 1 /\ (k + 12) + 6 = k + 16 + 2
    OBVIOUS
  <2> QED
    BY <1>5, <2>1
<1>10. /\ Bit(m, (k + 18) + 1) = z[3] /\ Bit(m, (k + 18) + 2) = z[4]
       /\ Bit(m, (k + 18) + 3) = z[5] /\ Bit(m, (k + 18) + 4) = z[6]
       /\ Bit(m, (k + 18) + 5) = z[7] /\ Bit(m, (k + 18) + 6) = z[8]
  <2>1. /\ (k + 18) + 1 = k + 16 + 3 /\ (k + 18) + 2 = k + 16 + 4
        /\ (k + 18) + 3 = k + 16 + 5 /\ (k + 18) + 4 = k + 16 + 6
        /\ (k + 18) + 5 = k + 16 + 7 /\ (k + 18) + 6 = k + 16 + 8
    OBVIOUS
  <2> QED
    BY <1>5, <2>1
<1>11. /\ x[1] \in 0..1 /\ x[2] \in 0..1 /\ x[3] \in 0..1 /\ x[4] \in 0..1
       /\ x[5] \in 0..1 /\ x[6] \in 0..1 /\ x[7] \in 0..1 /\ x[8] \in 0..1
       /\ y[1] \in 0..1 /\ y[2] \in 0..1 /\ y[3] \in 0..1 /\ y[4] \in 0..1
       /\ y[5] \in 0..1 /\ y[6] \in 0..1 /\ y[7] \in 0..1 /\ y[8] \in 0..1
       /\ z[1] \in 0..1 /\ z[2] \in 0..1 /\ z[3] \in 0..1 /\ z[4] \in 0..1
       /\ z[5] \in 0..1 /\ z[6] \in 0..1 /\ z[7] \in 0..1 /\ z[8] \in 0..1
  BY <1>2, <1>3, <1>4
<1> DEFINE six(u) == 32 * Bit(m, u + 1) + 16 * Bit(m, u + 2) + 8 * Bit(m, u + 3)
                       + 4 * Bit(m, u + 4) + 2 * Bit(m, u + 5) + Bit(m, u + 6)
<1>12. ASSUME NEW u \in Nat,
              /\ Bit(m, u + 1) \in 0..1 /\ Bit(m, u + 2) \in 0..1
              /\ Bit(m, u + 3) \in 0..1 /\ Bit(m, u + 4) \in 0..1
              /\ Bit(m, u + 5) \in 0..1 /\ Bit(m, u + 6) \in 0..1
       PROVE  Number(m, u, 6) = six(u)
  <2>1. \A i \in 1..6 : Bit(m, u + i) \in 0..1
    <3> SUFFICES ASSUME NEW i \in 1..6 PROVE Bit(m, u + i) \in 0..1
      OBVIOUS
    <3>1. i = 1 \/ i = 2 \/ i = 3 \/ i = 4 \/ i = 5 \/ i = 6
      OBVIOUS
    <3> QED
      BY <1>12, <3>1
  <2> QED
    BY <2>1, SixBits, Zenon
<1> DEFINE d1 == 32 * x[1] + 16 * x[2] + 8 * x[3] + 4 * x[4] + 2 * x[5] + x[6]
           d2 == 32 * x[7] + 16 * x[8] + 8 * y[1] + 4 * y[2] + 2 * y[3] + y[4]
           d3 == 32 * y[5] + 16 * y[6] + 8 * y[7] + 4 * y[8] + 2 * z[1] + z[2]
           d4 == 32 * z[3] + 16 * z[4] + 8 * z[5] + 4 * z[6] + 2 * z[7] + z[8]
<1> HIDE DEF k
<1>13. /\ Number(m, k, 6) = d1 /\ Number(m, k + 6, 6) = d2
       /\ Number(m, k + 12, 6) = d3 /\ Number(m, k + 18, 6) = d4
  <2>1. Number(m, k, 6) = six(k) /\ six(k) = d1
    BY <1>6, <1>7, <1>11, <1>12
  <2>2. Number(m, k + 6, 6) = six(k + 6) /\ six(k + 6) = d2
    BY <1>6, <1>8, <1>11, <1>12
  <2>3. Number(m, k + 12, 6) = six(k + 12) /\ six(k + 12) = d3
    BY <1>6, <1>9, <1>11, <1>12
  <2>4. Number(m, k + 18, 6) = six(k + 18) /\ six(k + 18) = d4
    BY <1>6, <1>10, <1>11, <1>12
  <2> QED
    BY <2>1, <2>2, <2>3, <2>4
<1> DEFINE a2 == 2 * x[7] + x[8]
           b1 == 8 * y[1] + 4 * y[2] + 2 * y[3] + y[4]
           b2 == 8 * y[5] + 4 * y[6] + 2 * y[7] + y[8]
           c1 == 2 * z[1] + z[2]
<1>14. /\ a2 \in 0..3 /\ b1 \in 0..15 /\ b2 \in 0..15 /\ c1 \in 0..3
       /\ d1 \in 0..63 /\ d4 \in 0..63
       /\ a = 4 * d1 + a2 /\ b = 16 * b1 + b2 /\ c = 64 * c1 + d4
       /\ d2 = 16 * a2 + b1 /\ d3 = 4 * b2 + c1
  <2>1. a2 \in 0..3 /\ d1 \in 0..63 /\ a = 4 * d1 + a2
    BY <1>2, SixAndTwo, ZenonT(40)
  <2>2. b1 \in 0..15 /\ b2 \in 0..15 /\ b = 16 * b1 + b2
    BY <1>3, FourAndFour, ZenonT(40)
  <2>3. c1 \in 0..3 /\ d4 \in 0..63 /\ c = 64 * c1 + d4
    BY <1>4, TwoAndSix, ZenonT(40)
  <2>4. d2 = 16 * a2 + b1
    <3>1. \A s \in 1..8 : x[s] \in 0..1 /\ y[s] \in 0..1
      BY <1>2, <1>3
    <3> QED
      BY <3>1, SixOfBits, Zenon
  <2>5. d3 = 4 * b2 + c1
    <3>1. \A s \in 1..8 : y[s] \in 0..1 /\ z[s] \in 0..1
      BY <1>3, <1>4
    <3> QED
      BY <3>1, SixOfBits, Zenon
  <2> QED
    BY <2>1, <2>2, <2>3, <2>4, <2>5
<1> HIDE DEF a2, b1, b2, c1, d1, d2, d3, d4, six
<1>15. a \div 4 = d1 /\ c % 64 = d4 /\ b \div 16 = b1 /\ c \div 64 = c1
  BY <1>14
<1>16. a * 16 + b1 = 64 * d1 + d2 /\ d2 \in 0..63 /\ b * 4 + c1 = 64 * b1 + d3
       /\ d3 \in 0..63
  BY <1>14
<1>17. (64 * d1 + d2) % 64 = d2 /\ (64 * b1 + d3) % 64 = d3
  BY <1>14, <1>16
<1>18. enblock(a, b, c) = <<d1, d2, d3, d4>>
  BY <1>15, <1>16, <1>17 DEF enblock
<1> QED
  BY <1>13, <1>18 DEF a, b, c, k

-----------------------------------------------------------------------------
(* The standard's digits and alphabets                                      *)

LEMMA LettersAre ==
    ASSUME NEW from \in Nat, NEW n \in Nat
    PROVE  /\ Letters(from, n) \in Seq(Nat) /\ Len(Letters(from, n)) = n
           /\ \A i \in 1..n : Letters(from, n)[i] = from + i - 1
<1>1. \A i \in 1..n : from + i - 1 \in Nat
  OBVIOUS
<1> QED
  BY <1>1 DEF Letters

\* Where each element of two sequences one after the other comes from.
LEMMA OneAfterTheOther ==
    ASSUME NEW s \in Seq(Nat), NEW t \in Seq(Nat)
    PROVE  /\ s \o t \in Seq(Nat) /\ Len(s \o t) = Len(s) + Len(t)
           /\ \A i \in 1..Len(s) : (s \o t)[i] = s[i]
           /\ \A i \in 1..Len(t) : (s \o t)[Len(s) + i] = t[i]
OBVIOUS

LEMMA HexLetters ==
    ASSUME NEW up \in BOOLEAN, NEW x \in 0..15
    PROVE  HexAlphabet(up)[x + 1] = HEX_TRANS(x, up)
<1> DEFINE u == Letters(48, 10)
           from == IF up THEN 65 ELSE 97
           v == Letters(from, 6)
<1>1. from \in Nat
  OBVIOUS
<1>2. /\ u \in Seq(Nat) /\ Len(u) = 10 /\ \A i \in 1..10 : u[i] = 48 + i - 1
      /\ v \in Seq(Nat) /\ Len(v) = 6 /\ \A i \in 1..6 : v[i] = from + i - 1
  <2> HIDE DEF from
  <2>1. u \in Seq(Nat) /\ Len(u) = 10 /\ \A i \in 1..10 : u[i] = 48 + i - 1
    BY LettersAre
  <2>2. v \in Seq(Nat) /\ Len(v) = 6 /\ \A i \in 1..6 : v[i] = from + i - 1
    BY <1>1, LettersAre
  <2> QED
    BY <2>1, <2>2
<1>3. HexAlphabet(up) = u \o v
  BY DEF HexAlphabet
<1> HIDE DEF u, v
<1>6. /\ \A i \in 1..10 : (u \o v)[i] = u[i]
      /\ \A i \in 1..6 : (u \o v)[10 + i] = v[i]
  <2> DEFINE k == Len(u)
             l == Len(v)
  <2>1. /\ \A i \in 1..k : (u \o v)[i] = u[i]
        /\ \A i \in 1..l : (u \o v)[k + i] = v[i]
    BY <1>2, OneAfterTheOther, Zenon
  <2>2. k = 10 /\ l = 6
    BY <1>2
  <2> HIDE DEF k, l
  <2> QED
    BY <2>1, <2>2
<1>4. CASE x < 10
  <2>1. x + 1 \in 1..10
    BY <1>4
  <2>2. (u \o v)[x + 1] = u[x + 1]
    BY <1>6, <2>1
  <2> QED
    <3>1. u[x + 1] = 48 + (x + 1) - 1
      BY <1>2, <2>1
    <3>2. HEX_TRANS(x, up) = x + 48
      BY <1>4 DEF HEX_TRANS
    <3>3. 48 + (x + 1) - 1 = x + 48
      OBVIOUS
    <3> QED
      BY <1>3, <2>2, <3>1, <3>2, <3>3, Zenon
<1>5. CASE ~(x < 10)
  <2>1. x - 9 \in 1..6 /\ x + 1 = 10 + (x - 9)
    BY <1>5
  <2>2. (u \o v)[10 + (x - 9)] = v[x - 9]
    BY <1>6, <2>1
  <2>3. v[x - 9] = from + (x - 9) - 1
    BY <1>2, <2>1
  <2> QED
    <3>1. HEX_TRANS(x, up) = x + (IF up THEN 55 ELSE 87)
      BY <1>5 DEF HEX_TRANS
    <3>2. from + (x - 9) - 1 = x + (IF up THEN 55 ELSE 87)
      OBVIOUS
    <3> QED
      BY <1>3, <2>1, <2>2, <2>3, <3>1, <3>2, Zenon
<1> QED
  BY <1>4, <1>5

LEMMA Base64Letters ==
    ASSUME NEW safe \in BOOLEAN, NEW x \in 0..63
    PROVE  Alphabet(safe)[x + 1] = Character(x, safe)
<1> DEFINE t == Letters(65, 26)
           u == Letters(97, 26)
           v == Letters(48, 10)
           w == IF safe THEN <<45, 95>> ELSE <<43, 47>>
<1>1. /\ t \in Seq(Nat) /\ Len(t) = 26 /\ \A i \in 1..26 : t[i] = 65 + i - 1
      /\ u \in Seq(Nat) /\ Len(u) = 26 /\ \A i \in 1..26 : u[i] = 97 + i - 1
      /\ v \in Seq(Nat) /\ Len(v) = 10 /\ \A i \in 1..10 : v[i] = 48 + i - 1
  <2>1. t \in Seq(Nat) /\ Len(t) = 26 /\ \A i \in 1..26 : t[i] = 65 + i - 1
    BY LettersAre
  <2>2. u \in Seq(Nat) /\ Len(u) = 26 /\ \A i \in 1..26 : u[i] = 97 + i - 1
    BY LettersAre
  <2>3. v \in Seq(Nat) /\ Len(v) = 10 /\ \A i \in 1..10 : v[i] = 48 + i - 1
    BY LettersAre
  <2> QED
    BY <2>1, <2>2, <2>3
<1>2. /\ w \in Seq(Nat) /\ Len(w) = 2
      /\ w[1] = (IF safe THEN 45 ELSE 43) /\ w[2] = (IF safe THEN 95 ELSE 47)
  OBVIOUS
<1>3. Alphabet(safe) = t \o u \o v \o w
  BY DEF Alphabet
<1> HIDE DEF t, u, v, w
<1> DEFINE tu == t \o u
           tuv == tu \o v
<1>4. /\ tu \in Seq(Nat) /\ Len(tu) = 52
      /\ \A i \in 1..26 : tu[i] = t[i]
      /\ \A i \in 1..26 : tu[26 + i] = u[i]
  <2> DEFINE k == Len(t)
             l == Len(u)
  <2>1. /\ tu \in Seq(Nat) /\ Len(tu) = k + l
        /\ \A i \in 1..k : tu[i] = t[i]
        /\ \A i \in 1..l : tu[k + i] = u[i]
    <3>1. t \in Seq(Nat) /\ u \in Seq(Nat)
      BY <1>1
    <3> QED
      BY <3>1, OneAfterTheOther, Zenon
  <2>2. k = 26 /\ l = 26
    BY <1>1
  <2> HIDE DEF k, l, tu
  <2> QED
    BY <2>1, <2>2
<1> HIDE DEF tu
<1>5. /\ tuv \in Seq(Nat) /\ Len(tuv) = 62
      /\ \A i \in 1..52 : tuv[i] = tu[i]
      /\ \A i \in 1..10 : tuv[52 + i] = v[i]
  <2> DEFINE k == Len(tu)
             l == Len(v)
  <2>1. /\ tuv \in Seq(Nat) /\ Len(tuv) = k + l
        /\ \A i \in 1..k : tuv[i] = tu[i]
        /\ \A i \in 1..l : tuv[k + i] = v[i]
    <3>1. tu \in Seq(Nat) /\ v \in Seq(Nat)
      BY <1>1, <1>4
    <3> QED
      BY <3>1, OneAfterTheOther, Zenon
  <2>2. k = 52 /\ l = 10
    BY <1>1, <1>4
  <2> HIDE DEF k, l, tuv
  <2> QED
    BY <2>1, <2>2
<1> HIDE DEF tuv
<1>6. /\ \A i \in 1..62 : (tuv \o w)[i] = tuv[i]
      /\ \A i \in 1..2 : (tuv \o w)[62 + i] = w[i]
  <2> DEFINE k == Len(tuv)
             l == Len(w)
  <2>1. /\ \A i \in 1..k : (tuv \o w)[i] = tuv[i]
        /\ \A i \in 1..l : (tuv \o w)[k + i] = w[i]
    <3>1. tuv \in Seq(Nat) /\ w \in Seq(Nat)
      BY <1>2, <1>5
    <3> QED
      BY <3>1, OneAfterTheOther, Zenon
  <2>2. k = 62 /\ l = 2
    BY <1>2, <1>5
  <2> HIDE DEF k, l
  <2> QED
    BY <2>1, <2>2
<1>7. Alphabet(safe) = tuv \o w
  BY <1>3 DEF tuv, tu
<1> DEFINE y == x + 1
<1>8. y \in 1..64 /\ x = y - 1
  OBVIOUS
<1> HIDE DEF y
<1>9. CASE x < 26
  <2>1. y \in 1..26 /\ y \in 1..52 /\ y \in 1..62
    BY <1>8, <1>9
  <2>3. (tuv \o w)[y] = tuv[y]
    BY <1>6, <2>1
  <2>4. tuv[y] = tu[y]
    BY <1>5, <2>1
  <2>5. tu[y] = t[y]
    BY <1>4, <2>1
  <2>6. t[y] = 65 + y - 1
    BY <1>1, <2>1
  <2>2. (tuv \o w)[y] = 65 + y - 1
    BY <2>3, <2>4, <2>5, <2>6
  <2> QED
    BY <1>7, <1>8, <1>9, <2>2 DEF Character, y
<1>10. CASE 26 <= x /\ x < 52
  <2>1. y - 26 \in 1..26 /\ y = 26 + (y - 26) /\ y \in 1..52 /\ y \in 1..62
    BY <1>8, <1>10
  <2>3. (tuv \o w)[y] = tuv[y]
    BY <1>6, <2>1
  <2>4. tuv[y] = tu[y]
    BY <1>5, <2>1
  <2>5. tu[26 + (y - 26)] = u[y - 26]
    BY <1>4, <2>1
  <2>6. u[y - 26] = 97 + (y - 26) - 1
    BY <1>1, <2>1
  <2>2. (tuv \o w)[y] = 97 + (y - 26) - 1
    BY <2>1, <2>3, <2>4, <2>5, <2>6
  <2> QED
    BY <1>7, <1>8, <1>10, <2>2 DEF Character, y
<1>11. CASE 52 <= x /\ x < 62
  <2>1. y - 52 \in 1..10 /\ y = 52 + (y - 52) /\ y \in 1..62
    BY <1>8, <1>11
  <2>3. (tuv \o w)[y] = tuv[y]
    BY <1>6, <2>1
  <2>4. tuv[52 + (y - 52)] = v[y - 52]
    BY <1>5, <2>1
  <2>5. v[y - 52] = 48 + (y - 52) - 1
    BY <1>1, <2>1
  <2>2. (tuv \o w)[y] = 48 + (y - 52) - 1
    BY <2>1, <2>3, <2>4, <2>5
  <2> QED
    BY <1>7, <1>8, <1>11, <2>2 DEF Character, y
<1>12. CASE 62 <= x
  <2>1. y - 62 \in 1..2 /\ y = 62 + (y - 62) /\ (x = 62 \/ x = 63)
    BY <1>8, <1>12
  <2>5. (tuv \o w)[62 + (y - 62)] = w[y - 62]
    BY <1>6, <2>1
  <2>2. (tuv \o w)[y] = w[y - 62]
    BY <2>1, <2>5, Zenon
  <2>3. CASE x = 62
    <3>1. y - 62 = 1
      BY <1>8, <2>3
    <3> QED
      BY <1>2, <1>7, <2>2, <2>3, <3>1 DEF Character, y
  <2>4. CASE x = 63
    <3>1. y - 62 = 2
      BY <1>8, <2>4
    <3> QED
      BY <1>2, <1>7, <2>2, <2>4, <3>1 DEF Character, y
  <2> QED
    BY <2>1, <2>3, <2>4
<1> QED
  BY <1>9, <1>10, <1>11, <1>12

LEMMA HexEncodesRight ==
    ASSUME NEW m \in Seq(Byte), NEW up \in BOOLEAN
    PROVE  HexEncode(m, up) = Reference(m, 4, HexAlphabet(up), 2)
<1> DEFINE n == Len(m)
           d(j) == LET b == m[(j + 1) \div 2] IN IF j % 2 = 1 THEN b \div 16 ELSE b % 16
<1>1. n \in Nat
  OBVIOUS
<1>2. /\ (8 * n + 4 - 1) \div 4 = 2 * n
      /\ ((2 * n + 2 - 1) \div 2) * 2 = 2 * n
  BY <1>1
<1>3. Reference(m, 4, HexAlphabet(up), 2) =
        [j \in 1..2 * n |-> HexAlphabet(up)[Number(m, 4 * (j - 1), 4) + 1]]
  <2> HIDE DEF n
  <2>1. Reference(m, 4, HexAlphabet(up), 2) =
          [j \in 1..2 * n |-> IF j <= 2 * n THEN HexAlphabet(up)[Number(m, 4 * (j - 1), 4) + 1]
                              ELSE Pad]
    BY <1>2 DEF Reference, n
  <2> QED
    BY <1>1, <2>1
<1>4. ASSUME NEW j \in 1..2 * n
      PROVE  d(j) \in 0..15 /\ Number(m, 4 * (j - 1), 4) = d(j)
  <2> DEFINE q == (j + 1) \div 2 - 1
             b == m[q + 1]
  <2>1. q \in Nat /\ q + 1 \in 1..n /\ q + 1 = (j + 1) \div 2
    BY <1>1
  <2>2. j % 2 = 1 => 4 * (j - 1) = 8 * q
    BY <1>1
  <2>3. j % 2 # 1 => 4 * (j - 1) = 8 * q + 4
    BY <1>1
  <2> HIDE DEF q
  <2>4. b \in Byte /\ ByteOrZero(m, q + 1) = b
    BY <2>1 DEF ByteOrZero
  <2>5. Number(m, 8 * q, 4) = b \div 16 /\ Number(m, 8 * q + 4, 4) = b % 16
    BY <2>1, <2>4, Fours
  <2>6. d(j) = IF j % 2 = 1 THEN b \div 16 ELSE b % 16
    BY <2>1
  <2> HIDE DEF b, d
  <2>7. b \div 16 \in 0..15 /\ b % 16 \in 0..15
    BY <2>4, Halves
  <2> QED
    BY <2>2, <2>3, <2>5, <2>6, <2>7
<1>5. HexEncode(m, up) = [j \in 1..2 * n |-> HEX_TRANS(d(j), up)]
  BY DEF HexEncode
<1> HIDE DEF n, d
<1>6. ASSUME NEW j \in 1..2 * n
      PROVE  HexAlphabet(up)[Number(m, 4 * (j - 1), 4) + 1] = HEX_TRANS(d(j), up)
  BY <1>4, HexLetters
<1> QED
  BY <1>3, <1>5, <1>6

\* The digits of n bytes, and the '=' that fill their last group.
LEMMA DigitCount ==
    ASSUME NEW n \in Nat
    PROVE  LET digits == (8 * n + 6 - 1) \div 6
               length == ((n + 2) \div 3) * 4
               p == (3 - (n % 3)) % 3
           IN  /\ digits \in Nat /\ length \in Nat /\ p \in 0..2
               /\ digits = length - p
               /\ ((digits + 4 - 1) \div 4) * 4 = length
<1> DEFINE a == n \div 3
<1>1. a \in Nat
  OBVIOUS
<1>2. n = 3 * a \/ n = 3 * a + 1 \/ n = 3 * a + 2
  OBVIOUS
<1> HIDE DEF a
<1>3. CASE n = 3 * a
  <2>1. /\ (8 * n + 6 - 1) \div 6 = 4 * a /\ (n + 2) \div 3 = a
        /\ (3 - (n % 3)) % 3 = 0 /\ (4 * a + 4 - 1) \div 4 = a
    BY <1>1, <1>3
  <2> QED
    BY <1>1, <2>1
<1>4. CASE n = 3 * a + 1
  <2>1. /\ (8 * n + 6 - 1) \div 6 = 4 * a + 2 /\ (n + 2) \div 3 = a + 1
        /\ (3 - (n % 3)) % 3 = 2 /\ (4 * a + 2 + 4 - 1) \div 4 = a + 1
    BY <1>1, <1>4
  <2> QED
    BY <1>1, <2>1
<1>5. CASE n = 3 * a + 2
  <2>1. /\ (8 * n + 6 - 1) \div 6 = 4 * a + 3 /\ (n + 2) \div 3 = a + 1
        /\ (3 - (n % 3)) % 3 = 1 /\ (4 * a + 3 + 4 - 1) \div 4 = a + 1
    BY <1>1, <1>5
  <2> QED
    BY <1>1, <2>1
<1> QED
  BY <1>2, <1>3, <1>4, <1>5

LEMMA Base64EncodesRight ==
    ASSUME NEW m \in Seq(Byte), NEW safe \in BOOLEAN
    PROVE  Base64Encode(m, safe) = Reference(m, 6, Alphabet(safe), 4)
<1> DEFINE n == Len(m)
           digits == (8 * n + 6 - 1) \div 6
           length == ((n + 2) \div 3) * 4
           p == Padding(m)
           d(j) == LET i == ((j - 1) \div 4) * 3 IN
                   enblock(ByteOrZero(m, i + 1), ByteOrZero(m, i + 2),
                           ByteOrZero(m, i + 3))[((j - 1) % 4) + 1]
<1>1. n \in Nat
  OBVIOUS
<1>2. /\ digits \in Nat /\ length \in Nat /\ p \in 0..2
      /\ digits = length - p
      /\ ((digits + 4 - 1) \div 4) * 4 = length
  BY <1>1, DigitCount, Zenon DEF Padding
<1>3. Reference(m, 6, Alphabet(safe), 4) =
        [j \in 1..length |-> IF j <= digits THEN Alphabet(safe)[Number(m, 6 * (j - 1), 6) + 1]
                             ELSE Pad]
  <2> HIDE DEF length
  <2> QED
    BY <1>2 DEF Reference
<1>4. Base64Encode(m, safe) =
        [j \in 1..length |-> IF j > length - p THEN Pad ELSE Character(d(j), safe)]
  BY DEF Base64Encode
<1>5. ASSUME NEW j \in 1..length
      PROVE  d(j) \in 0..63 /\ Number(m, 6 * (j - 1), 6) = d(j)
  <2> DEFINE q == (j - 1) \div 4
             r == ((j - 1) % 4) + 1
             e == enblock(ByteOrZero(m, 3 * q + 1), ByteOrZero(m, 3 * q + 2),
                          ByteOrZero(m, 3 * q + 3))
  <2>1. q \in Nat /\ r \in 1..4 /\ 6 * (j - 1) = 24 * q + 6 * (r - 1) /\ q * 3 = 3 * q
    BY <1>2
  <2>2. d(j) = e[r]
    BY <2>1
  <2> HIDE DEF q, r, d
  <2>3. \A i \in 1..4 : e[i] \in 0..63
    <3>1. 3 * q + 1 \in Nat \ {0} /\ 3 * q + 2 \in Nat \ {0} /\ 3 * q + 3 \in Nat \ {0}
      BY <2>1
    <3>2. /\ ByteOrZero(m, 3 * q + 1) \in Byte /\ ByteOrZero(m, 3 * q + 2) \in Byte
          /\ ByteOrZero(m, 3 * q + 3) \in Byte
      BY <3>1, BytesOrZero
    <3> QED
      BY <3>2, Blocks, Zenon
  <2>4. /\ Number(m, 24 * q, 6) = e[1]
        /\ Number(m, 24 * q + 6, 6) = e[2]
        /\ Number(m, 24 * q + 12, 6) = e[3]
        /\ Number(m, 24 * q + 18, 6) = e[4]
    BY <2>1, Sixes, Zenon
  <2> HIDE DEF e
  <2>5. Number(m, 6 * (j - 1), 6) = e[r]
    <3>1. CASE r = 1
      <4>1. 6 * (j - 1) = 24 * q
        BY <2>1, <3>1
      <4> QED
        BY <2>4, <3>1, <4>1
    <3>2. CASE r = 2
      <4>1. 6 * (j - 1) = 24 * q + 6
        BY <2>1, <3>2
      <4> QED
        BY <2>4, <3>2, <4>1
    <3>3. CASE r = 3
      <4>1. 6 * (j - 1) = 24 * q + 12
        BY <2>1, <3>3
      <4> QED
        BY <2>4, <3>3, <4>1
    <3>4. CASE r = 4
      <4>1. 6 * (j - 1) = 24 * q + 18
        BY <2>1, <3>4
      <4> QED
        BY <2>4, <3>4, <4>1
    <3> QED
      BY <2>1, <3>1, <3>2, <3>3, <3>4
  <2> QED
    BY <2>1, <2>2, <2>3, <2>5
<1> HIDE DEF n, digits, length, p, d
<1>6. ASSUME NEW j \in 1..length
      PROVE  (IF j <= digits THEN Alphabet(safe)[Number(m, 6 * (j - 1), 6) + 1] ELSE Pad)
               = IF j > length - p THEN Pad ELSE Character(d(j), safe)
  <2>1. j <= digits <=> ~(j > length - p)
    BY <1>2
  <2>2. Alphabet(safe)[Number(m, 6 * (j - 1), 6) + 1] = Character(d(j), safe)
    BY <1>5, Base64Letters
  <2> QED
    BY <2>1, <2>2
<1> QED
  BY <1>3, <1>4, <1>6

\* A digit is read as the number whose digit it is.
LEMMA HexDigitRead ==
    ASSUME NEW c \in Byte, IsHex(c)
    PROVE  STR_TRANS(c) \in 0..15 /\ HexValue(c) = STR_TRANS(c)
<1> DEFINE x == STR_TRANS(c)
           Stands(z) == \E up \in BOOLEAN : HexAlphabet(up)[z + 1] = c
<1>1. x \in 0..15 /\ (HEX_TRANS(x, TRUE) = c \/ HEX_TRANS(x, FALSE) = c)
  <2>1. CASE c \in 48..57
    <3>1. x = c - 48 /\ x \in 0..9
      BY <2>1 DEF STR_TRANS
    <3>2. HEX_TRANS(x, TRUE) = c
      BY <2>1, <3>1 DEF HEX_TRANS
    <3>3. x \in 0..15
      <4> HIDE DEF x
      <4> QED
        BY <3>1
    <3> QED
      BY <3>2, <3>3, Zenon
  <2>2. CASE c \in 65..70
    <3>1. x = c - 55 /\ x \in 10..15
      BY <2>2 DEF STR_TRANS
    <3>2. HEX_TRANS(x, TRUE) = c
      BY <2>2, <3>1 DEF HEX_TRANS
    <3>3. x \in 0..15
      <4> HIDE DEF x
      <4> QED
        BY <3>1
    <3> QED
      BY <3>2, <3>3, Zenon
  <2>3. CASE c \in 97..102
    <3>1. x = c - 87 /\ x \in 10..15
      BY <2>3 DEF STR_TRANS
    <3>2. HEX_TRANS(x, FALSE) = c
      BY <2>3, <3>1 DEF HEX_TRANS
    <3>3. x \in 0..15
      <4> HIDE DEF x
      <4> QED
        BY <3>1
    <3> QED
      BY <3>2, <3>3, Zenon
  <2> QED
    BY <2>1, <2>2, <2>3 DEF IsHex
<1> HIDE DEF x
<1>2. Stands(x)
  <2>1. /\ HexAlphabet(TRUE)[x + 1] = HEX_TRANS(x, TRUE)
        /\ HexAlphabet(FALSE)[x + 1] = HEX_TRANS(x, FALSE)
    BY <1>1, HexLetters
  <2>2. HexAlphabet(TRUE)[x + 1] = c \/ HexAlphabet(FALSE)[x + 1] = c
    BY <1>1, <2>1
  <2> QED
    BY <2>2
<1>3. ASSUME NEW z \in 0..15, Stands(z) PROVE z = x
  <2>1. PICK up \in BOOLEAN : HexAlphabet(up)[z + 1] = c
    BY <1>3
  <2>2. HEX_TRANS(z, up) = c
    BY <2>1, HexLetters
  <2>3. STR_TRANS(HEX_TRANS(z, up)) = z
    BY HexDigits
  <2> QED
    BY <2>2, <2>3 DEF x
<1>4. HexValue(c) = CHOOSE z \in 0..15 : Stands(z)
  BY DEF HexValue
<1> HIDE DEF Stands
<1>5. (CHOOSE z \in 0..15 : Stands(z)) = x
  BY <1>1, <1>2, <1>3
<1> QED
  BY <1>1, <1>4, <1>5 DEF x

LEMMA HexDecodesRight ==
    ASSUME NEW t \in Seq(Byte), \A j \in 1..Len(t) : IsHex(t[j])
    PROVE  LET b == HexDecode(t) IN
           /\ Len(b) = (Len(t) + 1) \div 2
           /\ \A j \in 1..2 * Len(b) :
                  Number(b, 4 * (j - 1), 4) =
                      IF j <= Len(t) THEN HexValue(t[j]) ELSE 0
<1> DEFINE n == Len(t)
           l == (n + 1) \div 2
           b == HexDecode(t)
           v(j) == IF j <= n THEN STR_TRANS(t[j]) ELSE 0
<1>1. n \in Nat /\ l \in Nat
  OBVIOUS
<1>2. ASSUME NEW j \in 1..2 * l
      PROVE  v(j) \in 0..15 /\ v(j) = IF j <= n THEN HexValue(t[j]) ELSE 0
  <2>1. CASE j <= n
    <3>1. t[j] \in Byte /\ IsHex(t[j])
      BY <1>1, <2>1
    <3>2. STR_TRANS(t[j]) \in 0..15 /\ HexValue(t[j]) = STR_TRANS(t[j])
      BY <3>1, HexDigitRead
    <3> QED
      BY <2>1, <3>2
  <2>2. CASE ~(j <= n)
    BY <2>2
  <2> QED
    BY <2>1, <2>2
<1>3. b \in Seq(Byte)
  BY HexDecoded
<1>4. Len(b) = l
  BY <1>1 DEF HexDecode
<1>5. ASSUME NEW i \in 1..l
      PROVE  /\ 2 * i - 1 \in 1..2 * l /\ 2 * i \in 1..2 * l
             /\ b[i] = v(2 * i - 1) * 16 + v(2 * i)
  <2>1. 2 * i - 1 \in 1..2 * l /\ 2 * i \in 1..2 * l /\ 2 * i - 1 <= n
    BY <1>1
  <2>2. b[i] = (STR_TRANS(t[2 * i - 1]) * 16
                  + (IF 2 * i <= n THEN STR_TRANS(t[2 * i]) ELSE 0)) % 256
    BY <1>1 DEF HexDecode
  <2>3. b[i] = (v(2 * i - 1) * 16 + v(2 * i)) % 256
    BY <2>1, <2>2
  <2>4. v(2 * i - 1) \in 0..15 /\ v(2 * i) \in 0..15
    BY <1>2, <2>1
  <2> DEFINE h == v(2 * i - 1)
             g == v(2 * i)
  <2> HIDE DEF h, g
  <2>5. (h * 16 + g) % 256 = h * 16 + g
    <3>1. h \in 0..15 /\ g \in 0..15
      BY <2>4 DEF h, g
    <3> QED
      BY <3>1
  <2> QED
    BY <2>1, <2>3, <2>5 DEF h, g
<1> HIDE DEF n, l, b, v
<1>6. ASSUME NEW j \in 1..2 * l
      PROVE  Number(b, 4 * (j - 1), 4) = v(j)
  <2> DEFINE q == (j + 1) \div 2 - 1
             i == q + 1
             h == v(2 * i - 1)
             g == v(2 * i)
  <2>1. q \in Nat /\ i \in 1..l
    BY <1>1
  <2>2. \/ j = 2 * i - 1 /\ 4 * (j - 1) = 8 * q
        \/ j = 2 * i /\ 4 * (j - 1) = 8 * q + 4
    BY <1>1
  <2> HIDE DEF q
  <2>3. ByteOrZero(b, i) = b[i]
    BY <1>4, <2>1 DEF ByteOrZero
  <2>4. Number(b, 8 * q, 4) = b[i] \div 16 /\ Number(b, 8 * q + 4, 4) = b[i] % 16
    BY <1>3, <2>1, <2>3, Fours
  <2>5. b[i] = h * 16 + g
    BY <1>5, <2>1
  <2>6. h \in 0..15 /\ g \in 0..15
    BY <1>2, <1>5, <2>1
  <2>7. CASE j = 2 * i - 1 /\ 4 * (j - 1) = 8 * q
    <3>1. v(j) = h
      BY <2>7
    <3> HIDE DEF h, g, i
    <3>2. (h * 16 + g) \div 16 = h
      BY <2>6
    <3> QED
      BY <2>4, <2>5, <2>7, <3>1, <3>2
  <2>8. CASE j = 2 * i /\ 4 * (j - 1) = 8 * q + 4
    <3>1. v(j) = g
      BY <2>8
    <3> HIDE DEF h, g, i
    <3>2. (h * 16 + g) % 16 = g
      BY <2>6
    <3> QED
      BY <2>4, <2>5, <2>8, <3>1, <3>2
  <2> QED
    BY <2>2, <2>7, <2>8
<1>7. \A j \in 1..2 * l : Number(b, 4 * (j - 1), 4) = IF j <= n THEN HexValue(t[j]) ELSE 0
  BY <1>2, <1>6
<1> QED
  BY <1>4, <1>7 DEF b, l, n

-----------------------------------------------------------------------------
(* The invariant: mem is something the caller encoded, or nothing; text is *)
(* what that gave, or was typed; back is what decoding the text gives.     *)

Source ==
    /\ kind \in {"hex", "base64"} /\ option \in BOOLEAN
    /\ mem \in Given \cup {<<>>}
    /\ \/ text \in Typed \cup {<<>>}
       \/ mem \in Given /\ text = EncodeAs(kind, mem, option)

Result ==
    CASE stage = "decoded" -> /\ kind = "hex" \/ InBounds(text)
                              /\ back = DecodeAs(kind, text, option)
      [] stage = "crashed" -> kind = "base64" /\ ~InBounds(text) /\ back = <<>>
      [] OTHER -> stage \in {"start", "encoded", "typed"} /\ back = <<>>

\* What has been encoded is one of the caller's strings.
Encoded == stage = "encoded" => mem \in Given /\ text = EncodeAs(kind, mem, option)

Inv == Source /\ Result /\ Encoded

LEMMA Initially ==
    ASSUME Init
    PROVE  Inv
BY DEF Init, Inv, Source, Result, Encoded

LEMMA Inductive ==
    ASSUME Inv, [Next]_vars
    PROVE  Inv'
<1>1. ASSUME NEW m \in Given, Encode(m) PROVE Inv'
  BY <1>1 DEF Inv, Source, Result, Encoded, Encode
<1>2. ASSUME NEW t \in Typed, Type(t) PROVE Inv'
  BY <1>2 DEF Inv, Source, Result, Encoded, Type
<1>3. CASE Decode
  BY <1>3 DEF Inv, Source, Result, Encoded, Decode
<1>4. CASE UNCHANGED vars
  BY <1>4 DEF Inv, Source, Result, Encoded, vars, InBounds, Whole, DecodeAs, EncodeAs
<1> QED
  BY <1>1, <1>2, <1>3, <1>4 DEF Next, Finished

LEMMA Invariance == Spec => []Inv
BY Initially, Inductive, PTL DEF Spec

\* The text is one of bytes, and shorter than a size_t can count.
LEMMA TextIsBytes ==
    ASSUME Source
    PROVE  /\ mem \in Seq(Byte)
           /\ text \in Seq(Byte)
           /\ Len(text) < Word \/ text = <<>>
<1>1. mem \in Seq(Byte) /\ option \in BOOLEAN /\ kind \in {"hex", "base64"}
  <2>1. mem \in Given \cup {<<>>} /\ option \in BOOLEAN /\ kind \in {"hex", "base64"}
    BY DEF Source
  <2>2. <<>> \in Seq(Byte)
    OBVIOUS
  <2> QED
    BY <2>1, <2>2, GivenAssumption
<1>2. CASE text \in Typed \cup {<<>>}
  <2>1. <<>> \in Seq(Byte)
    OBVIOUS
  <2> QED
    BY <1>1, <1>2, <2>1, GivenAssumption
<1>3. CASE mem \in Given /\ text = EncodeAs(kind, mem, option)
  <2>1. Len(mem) \in Nat /\ 2 * Len(mem) + 4 < Word /\ Word \in Nat
    BY <1>1, <1>3, GivenAssumption
  <2>2. text \in Seq(Byte) /\ Len(text) <= 2 * Len(mem) + 4
    <3>1. CASE kind = "hex"
      <4>1. text = HexEncode(mem, option)
        BY <1>3, <3>1 DEF EncodeAs
      <4> QED
        BY <1>1, <2>1, <4>1, HexEncoded
    <3>2. CASE kind = "base64"
      <4>1. text = Base64Encode(mem, option)
        BY <1>3, <3>2 DEF EncodeAs
      <4> QED
        BY <1>1, <2>1, <4>1, Base64Encoded
    <3> QED
      BY <1>1, <3>1, <3>2
  <2>3. Len(text) \in Nat
    BY <2>2
  <2> QED
    BY <1>1, <2>1, <2>2, <2>3
<1> QED
  BY <1>2, <1>3 DEF Source

\* A text Base64 cannot read inside its ends has one to three characters.
LEMMA ShortText ==
    ASSUME Source, ~InBounds(text)
    PROVE  Len(text) \in 1..3
<1>1. text \in Seq(Byte) /\ text # <<>> /\ Len(text) < Word
  BY TextIsBytes DEF InBounds
<1>2. ~(Len(text) >= 4)
  BY <1>1, InsideText DEF Source
<1> DEFINE n == Len(text)
<1>3. n \in Nat /\ n # 0
  BY <1>1
<1>4. ~(n >= 4)
  BY <1>2
<1> HIDE DEF n
<1>5. n \in 1..3
  BY <1>3, <1>4
<1> QED
  BY <1>5 DEF n

\* One to three characters: the number of blocks before the last wraps around,
\* and the loop runs out of the text.
LEMMA Wraps ==
    ASSUME NEW n \in 1..3, n < Word
    PROVE  ~(Whole(n) * 4 <= n)
<1>1. Word \in Nat /\ Word > 1 /\ n \div 4 = 0
  BY GivenAssumption
<1>2. (0 - 1) % Word = Word - 1
  <2>1. Word - 1 \in 0..Word - 1 /\ 0 - 1 = (Word - 1) + (0 - 1) * Word
    BY <1>1
  <2> QED
    BY <1>1, <2>1
<1> QED
  BY <1>1, <1>2 DEF Whole

\* Whatever has been decoded is bytes, but for what lay behind a table.
LEMMA DecodedBytes ==
    ASSUME Inv
    PROVE  /\ back \in Seq(Byte \cup {Unknown})
           /\ (\E i \in 1..Len(back) : back[i] = Unknown)
                 => kind = "base64" /\ \E j \in 1..Len(text) : text[j] > 127
<1>1. /\ Source /\ Result
      /\ text \in Seq(Byte) /\ (Len(text) < Word \/ text = <<>>)
      /\ kind \in {"hex", "base64"} /\ option \in BOOLEAN
  BY TextIsBytes DEF Inv, Source
<1>2. /\ <<>> \in Seq(Byte \cup {Unknown}) /\ Len(<<>>) = 0
      /\ Unknown \notin Byte
  BY GivenAssumption
<1>3. CASE back = <<>>
  BY <1>2, <1>3
<1>4. CASE stage = "decoded" /\ kind = "hex"
  <2>1. back = HexDecode(text)
    BY <1>1, <1>4 DEF Result, DecodeAs
  <2>2. back \in Seq(Byte)
    BY <1>1, <2>1, HexDecoded
  <2>3. \A i \in 1..Len(back) : back[i] \in Byte
    BY <2>2
  <2>4. back \in Seq(Byte \cup {Unknown})
    BY <2>2
  <2> QED
    BY <1>2, <2>3, <2>4
<1>5. CASE stage = "decoded" /\ kind = "base64" /\ text # <<>>
  <2>1. back = Base64Decode(text, option) /\ InBounds(text)
    BY <1>1, <1>5 DEF Result, DecodeAs
  <2>2. Len(text) >= 4
    <3> DEFINE n == Len(text)
    <3>1. n \in Nat /\ n # 0 /\ n < Word
      BY <1>1, <1>5
    <3>2. Whole(n) * 4 <= n
      BY <1>5, <2>1 DEF InBounds
    <3> HIDE DEF n
    <3> QED
      BY <3>1, <3>2, Wraps DEF n
  <2> QED
    BY <1>1, <1>5, <2>1, <2>2, InsideText
<1>6. CASE stage = "decoded" /\ kind = "base64" /\ text = <<>>
  <2>1. back = <<>>
    BY <1>1, <1>6 DEF Result, DecodeAs, Base64Decode
  <2> QED
    BY <1>2, <2>1
<1>7. CASE stage # "decoded"
  <2>1. back = <<>>
    BY <1>1, <1>7 DEF Result
  <2> QED
    BY <1>3, <2>1
<1> QED
  BY <1>1, <1>3, <1>4, <1>5, <1>6, <1>7

(***************************************************************************)
(* mem, text and back are bytes at every step, but for what Base64Decode   *)
(* reads behind its table.                                                 *)
(***************************************************************************)
THEOREM CodecTyped == Spec => []TypeOK
<1>1. Inv => TypeOK
  <2> SUFFICES ASSUME Inv PROVE TypeOK
    OBVIOUS
  <2>1. mem \in Seq(Byte) /\ text \in Seq(Byte) /\ Source /\ Result
    BY TextIsBytes DEF Inv
  <2>2. stage \in {"start", "encoded", "typed", "decoded", "crashed"}
    BY <2>1 DEF Result
  <2> QED
    BY <2>1, <2>2, DecodedBytes DEF TypeOK, Source
<1> QED
  BY <1>1, Invariance, PTL

(***************************************************************************)
(* HexEncode and Base64Encode write the text RFC 4648 gives for the bytes, *)
(* and HexDecode reads every digit as the number it stands for, for        *)
(* strings of every length.                                                *)
(***************************************************************************)
THEOREM CodecDigits == Spec => []DigitsRight
<1>1. Inv => EncodesRight
  <2> SUFFICES ASSUME Inv, stage = "encoded"
               PROVE  text = IF kind = "hex" THEN Reference(mem, 4, HexAlphabet(option), 2)
                             ELSE Reference(mem, 6, Alphabet(option), 4)
    BY DEF EncodesRight
  <2>1. /\ text = EncodeAs(kind, mem, option)
        /\ mem \in Seq(Byte) /\ option \in BOOLEAN
    BY TextIsBytes DEF Inv, Encoded, Source
  <2>2. CASE kind = "hex"
    BY <2>1, <2>2, HexEncodesRight DEF EncodeAs
  <2>3. CASE kind # "hex"
    BY <2>1, <2>3, Base64EncodesRight DEF EncodeAs
  <2> QED
    BY <2>2, <2>3
<1>2. Inv => HexReadsRight
  <2> SUFFICES ASSUME Inv, stage = "decoded", kind = "hex",
                      \A j \in 1..Len(text) : IsHex(text[j])
               PROVE  /\ Len(back) = (Len(text) + 1) \div 2
                      /\ \A j \in 1..2 * Len(back) :
                             Number(back, 4 * (j - 1), 4) =
                                 IF j <= Len(text) THEN HexValue(text[j]) ELSE 0
    BY DEF HexReadsRight
  <2>1. text \in Seq(Byte) /\ back = HexDecode(text)
    BY TextIsBytes DEF Inv, Result, DecodeAs
  <2>2. LET b == HexDecode(text) IN
        /\ Len(b) = (Len(text) + 1) \div 2
        /\ \A j \in 1..2 * Len(b) :
               Number(b, 4 * (j - 1), 4) =
                   IF j <= Len(text) THEN HexValue(text[j]) ELSE 0
    BY <2>1, HexDecodesRight, Zenon
  <2> QED
    BY <2>1, <2>2, Zenon
<1>3. Spec => []EncodesRight /\ []HexReadsRight
  BY <1>1, <1>2, Invariance, PTL
<1> QED
  BY <1>3, CodecTyped, PTL DEF DigitsRight

(***************************************************************************)
(* HexDecode undoes HexEncode and Base64Decode undoes Base64Encode, for    *)
(* byte strings of every length and each alphabet.                         *)
(***************************************************************************)
THEOREM CodecRoundTrips == Spec => []RoundTrips
<1>1. Inv => RoundTrips
  <2> SUFFICES ASSUME Inv, stage = "decoded", text = EncodeAs(kind, mem, option)
               PROVE  back = mem
    BY DEF RoundTrips
  <2>1. /\ mem \in Seq(Byte) /\ option \in BOOLEAN /\ kind \in {"hex", "base64"}
        /\ mem \in Given \cup {<<>>} /\ back = DecodeAs(kind, text, option)
    BY TextIsBytes DEF Inv, Source, Result
  <2>2. CASE kind = "hex"
    <3>1. back = HexDecode(HexEncode(mem, option))
      BY <2>1, <2>2 DEF EncodeAs, DecodeAs
    <3> QED
      BY <2>1, <3>1, HexUndone
  <2>3. CASE kind = "base64"
    <3>1. back = Base64Decode(Base64Encode(mem, option), option)
      BY <2>1, <2>3 DEF EncodeAs, DecodeAs
    <3>2. mem = <<>> => Len(mem) = 0
      OBVIOUS
    <3>3. Len(mem) = 0 \/ 2 * Len(mem) + 4 < Word
      BY <2>1, <3>2, GivenAssumption
    <3> QED
      BY <2>1, <3>1, <3>3, Base64Undone
  <2> QED
    BY <2>1, <2>2, <2>3
<1> QED
  BY <1>1, Invariance, PTL

(***************************************************************************)
(* Base64Decode leaves its strings only for a text of one to three         *)
(* characters, and its table only for a character above 127; HexDecode     *)
(* leaves neither.                                                         *)
(***************************************************************************)
THEOREM CodecStaysInside == Spec => []StaysInside
<1>1. Inv => StaysInside
  <2> SUFFICES ASSUME Inv PROVE StaysInside
    OBVIOUS
  <2>1. Source /\ Result
    BY DEF Inv
  <2>2. stage = "crashed" => kind = "base64" /\ Len(text) \in 1..3
    BY <2>1, ShortText DEF Result
  <2> QED
    BY <2>2, DecodedBytes DEF StaysInside
<1> QED
  BY <1>1, Invariance, PTL
=============================================================================
