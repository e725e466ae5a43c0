--------------------------- MODULE HashStreamProofs ---------------------------
(***************************************************************************)
(* Proofs about HashStream, for every size of blocks and every set of      *)
(* texts that the length argument and the counters can count: nothing that *)
(* is added is lost or doubled, the counters are right, and the digest is  *)
(* that of the padded text.                                                *)
(***************************************************************************)
EXTENDS HashStream, SequenceTheorems, WellFoundedInduction, TLAPS

-----------------------------------------------------------------------------
(* Induction and recursion over the natural numbers, without operators as   *)
(* parameters: a set of numbers takes the place of the predicate, a         *)
(* function that of the step.                                               *)

\* Every set of natural numbers that is not empty has a least one.
LEMMA LeastNumber ==
    ASSUME NEW T, T \subseteq Nat, T # {}
    PROVE  \E n \in T : \A m \in T : n <= m
<1> DEFINE R == {p \in Nat \X Nat : p[1] < p[2]}
<1>1. IsWellFoundedOn(R, Nat)
  <2>1. OpToRel(<, Nat) = R
    BY DEF OpToRel
  <2> QED
    BY <2>1, NatLessThanWellFounded
<1>2. PICK n \in T : \A m \in T : <<m, n>> \notin R
  <2> HIDE DEF R
  <2> QED
    BY <1>1, WFMin, Zenon
<1>3. ASSUME NEW m \in T PROVE n <= m
  <2>1. m \in Nat /\ n \in Nat
    OBVIOUS
  <2>2. ~(<<m, n>>[1] < <<m, n>>[2])
    BY <1>2, <2>1
  <2> QED
    BY <2>1, <2>2
<1> QED
  BY <1>3

\* Induction: a set with 0 that has n + 1 with n has every number.
LEMMA InductionOnNat ==
    ASSUME NEW T, 0 \in T, \A n \in Nat : n \in T => n + 1 \in T
    PROVE  \A n \in Nat : n \in T
<1> SUFFICES ASSUME Nat \ T # {} PROVE FALSE
  OBVIOUS
<1>1. PICK n \in Nat \ T : \A m \in Nat \ T : n <= m
  BY LeastNumber
<1>2. n - 1 \in Nat /\ n = (n - 1) + 1
  BY <1>1
<1>3. n - 1 \in T
  BY <1>1, <1>2
<1> QED
  BY <1>1, <1>2, <1>3

\* The same as far as some number.
LEMMA InductionUpTo ==
    ASSUME NEW last \in Nat, NEW T, 0 \in T,
           \A n \in 0..(last - 1) : n \in T => n + 1 \in T
    PROVE  \A n \in 0..last : n \in T
<1> DEFINE U == {n \in Nat : n <= last => n \in T}
<1>1. 0 \in U
  OBVIOUS
<1>2. \A n \in Nat : n \in U => n + 1 \in U
  OBVIOUS
<1> HIDE DEF U
<1>3. \A n \in Nat : n \in U
  BY <1>1, <1>2, InductionOnNat
<1> QED
  BY <1>3 DEF U

\* What a function defined by recursion from a as far as last is.
IsRecursion(f, last, a, F) ==
    f[0] = a /\ \A n \in 1..last : f[n] = F[<<n, f[n - 1]>>]

\* A function may be defined by recursion as far as some number.
LEMMA RecursiveFunction ==
    ASSUME NEW last \in Nat, NEW S, NEW a \in S, NEW F \in [(1..last) \X S -> S]
    PROVE  \E f \in [0..last -> S] : IsRecursion(f, last, a, F)
<1> DEFINE Good(f, m) == /\ f[0] = a
                        /\ \A n \in 1..m : f[n] = F[<<n, f[n - 1]>>]
           T == {m \in 0..last : \E f \in [0..m -> S] : Good(f, m)}
<1>1. 0 \in T
  <2> DEFINE f == [n \in 0..0 |-> a]
  <2>1. f \in [0..0 -> S] /\ f[0] = a
    OBVIOUS
  <2>2. Good(f, 0)
    BY <2>1
  <2> HIDE DEF f, Good
  <2> QED
    BY <2>1, <2>2
<1>2. ASSUME NEW m \in 0..(last - 1), m \in T PROVE m + 1 \in T
  <2>1. PICK f \in [0..m -> S] : Good(f, m)
    BY <1>2
  <2> DEFINE g == [n \in 0..(m + 1) |-> IF n = m + 1 THEN F[<<n, f[m]>>] ELSE f[n]]
  <2>2. F[<<m + 1, f[m]>>] \in S
    OBVIOUS
  <2>3. g \in [0..(m + 1) -> S] /\ g[0] = a
    BY <2>1, <2>2
  <2>4. ASSUME NEW n \in 1..(m + 1)
        PROVE  g[n] = F[<<n, g[n - 1]>>]
    <3>1. CASE n = m + 1
      <4>1. n - 1 = m /\ m \in 0..(m + 1) /\ m # m + 1
        BY <3>1
      <4>2. g[n - 1] = f[m] /\ g[n] = F[<<n, f[m]>>]
        BY <3>1, <4>1
      <4> QED
        BY <4>2
    <3>2. CASE n # m + 1
      <4>1. n \in 1..m /\ n - 1 \in 0..(m + 1) /\ n - 1 # m + 1
        BY <3>2
      <4>2. g[n] = f[n] /\ f[n] = F[<<n, f[n - 1]>>]
        BY <2>1, <3>2, <4>1
      <4>3. g[n - 1] = f[n - 1]
        BY <4>1
      <4> QED
        BY <4>2, <4>3
    <3> QED
      BY <3>1, <3>2
  <2>5. Good(g, m + 1)
    BY <2>3, <2>4
  <2> HIDE DEF g, Good
  <2> QED
    BY <2>3, <2>5
<1> HIDE DEF T
<1>3. \A m \in 0..last : m \in T
  BY <1>1, <1>2, InductionUpTo
<1>4. last \in T
  BY <1>3
<1> QED
  BY <1>4 DEF T, Good, IsRecursion

-----------------------------------------------------------------------------
(* Quotients by a number that is not given: what the SMT solver needs of    *)
(* products and division in small steps.                                    *)

LEMMA ProductGrows ==
    ASSUME NEW a \in Int, NEW b \in Int, NEW c \in Nat, a <= b
    PROVE  a * c \in Int /\ b * c \in Int /\ a * c <= b * c
<1>1. b = a + (b - a) /\ b - a \in Nat
  OBVIOUS
<1>2. b * c = a * c + (b - a) * c
  OBVIOUS
<1>3. (b - a) * c \in Nat
  BY <1>1
<1> QED
  BY <1>2, <1>3

LEMMA QuotientIs ==
    ASSUME NEW c \in Nat \ {0}, NEW q \in Int, NEW r \in 0..(c - 1)
    PROVE  /\ (q * c + r) \div c = q
           /\ (q * c + r) % c = r
<1> DEFINE x == q * c + r
           p == x \div c
           s == x % c
<1>1. x \in Int /\ p \in Int /\ s \in 0..(c - 1) /\ x = c * p + s
  OBVIOUS
<1>2. c * p = p * c /\ p * c \in Int /\ q * c \in Int
  BY <1>1
<1> HIDE DEF p, s
<1>3. ~(p < q)
  <2> SUFFICES ASSUME p < q PROVE FALSE
    OBVIOUS
  <2>1. (p + 1) * c <= q * c
    BY <1>1, ProductGrows
  <2>2. (p + 1) * c = p * c + c
    BY <1>1
  <2> QED
    BY <1>1, <1>2, <2>1, <2>2
<1>4. ~(q < p)
  <2> SUFFICES ASSUME q < p PROVE FALSE
    OBVIOUS
  <2>1. (q + 1) * c <= p * c
    BY <1>1, ProductGrows
  <2>2. (q + 1) * c = q * c + c
    OBVIOUS
  <2> QED
    BY <1>1, <1>2, <2>1, <2>2
<1>5. p = q
  BY <1>1, <1>3, <1>4
<1>6. s = r
  BY <1>1, <1>2, <1>5
<1> QED
  BY <1>5, <1>6 DEF p, s

-----------------------------------------------------------------------------
(* The invariant                                                            *)

\* The texts are shorter than what the 32-bit numbers can say.
TextsCountable ==
    \A t \in Texts : Len(t) < LenMod /\ Len(t) < CountMod * BlockSize

\* The text so far is one of them, or its beginning.
TextInv ==
    /\ text \in Seq(Byte)
    /\ Len(text) < LenMod /\ Len(text) < CountMod * BlockSize

\* Before the first digest: types, and what add has moved where.
AddingInv ==
    /\ absorbed \in Seq(Byte) /\ buffer \in Seq(Byte) /\ data \in Seq(Byte)
    /\ Len(buffer) < BlockSize
    /\ absorbed \o buffer \o data = text

\* The count agrees with what was compressed, also in the middle of add.
CountInv ==
    /\ count \in Nat
    /\ IF alg = "SHA256" THEN count = Len(absorbed)
       ELSE count * BlockSize = Len(absorbed)

Adding == fresh /\ pc \in {"idle", "add"}

\* Between two calls add holds nothing.
Inv ==
    /\ TextInv
    /\ Adding => AddingInv /\ CountInv
    /\ pc = "idle" => data = <<>>

-----------------------------------------------------------------------------
(* Sequences *)

\* A sequence is what it begins with and what follows.
LEMMA SplitSeq ==
    ASSUME NEW S, NEW s \in Seq(S), NEW n \in 0..Len(s)
    PROVE  /\ SubSeq(s, 1, n) \in Seq(S)
           /\ Len(SubSeq(s, 1, n)) = n
           /\ SubSeq(s, n + 1, Len(s)) \in Seq(S)
           /\ Len(SubSeq(s, n + 1, Len(s))) = Len(s) - n
           /\ SubSeq(s, 1, n) \o SubSeq(s, n + 1, Len(s)) = s
<1>1. \A i \in 1..Len(s) : s[i] \in S
  OBVIOUS
<1>2. /\ SubSeq(s, 1, n) \in Seq(S)
      /\ Len(SubSeq(s, 1, n)) = IF 1 <= n THEN n - 1 + 1 ELSE 0
  <2>1. \A i \in 1..n : s[i] \in S
    BY <1>1
  <2> QED
    BY <2>1, SubSeqProperties
<1>3. /\ SubSeq(s, n + 1, Len(s)) \in Seq(S)
      /\ Len(SubSeq(s, n + 1, Len(s)))
           = IF n + 1 <= Len(s) THEN Len(s) - (n + 1) + 1 ELSE 0
  <2>1. \A i \in (n + 1)..Len(s) : s[i] \in S
    BY <1>1
  <2> QED
    BY <2>1, SubSeqProperties
<1>4. SubSeq(s, 1, n) \o SubSeq(s, n + 1, Len(s)) = s
  <2>1. 1 \in 1..(Len(s) + 1) /\ n \in (1 - 1)..Len(s) /\ Len(s) \in n..Len(s)
    OBVIOUS
  <2>2. SubSeq(s, 1, n) \o SubSeq(s, n + 1, Len(s)) = SubSeq(s, 1, Len(s))
    BY <2>1, ConcatAdjacentSubSeq, Zenon
  <2> QED
    BY <2>2, SubSeqFull, Zenon
<1>5. /\ Len(SubSeq(s, 1, n)) = n
      /\ Len(SubSeq(s, n + 1, Len(s))) = Len(s) - n
  BY <1>2, <1>3
<1> QED
  BY <1>2, <1>3, <1>4, <1>5, Zenon

\* A prefix made longer by the part of the sequence behind it.
LEMMA ExtendPrefix ==
    ASSUME NEW S, NEW s \in Seq(S), NEW m \in Nat, NEW n \in Nat,
           m + n <= Len(s)
    PROVE  /\ SubSeq(s, m + 1, m + n) \in Seq(S)
           /\ SubSeq(s, 1, m + n) \in Seq(S)
           /\ Len(SubSeq(s, 1, m + n)) = m + n
           /\ SubSeq(s, 1, m) \o SubSeq(s, m + 1, m + n) = SubSeq(s, 1, m + n)
<1>1. \A i \in 1..Len(s) : s[i] \in S
  OBVIOUS
<1>2. SubSeq(s, m + 1, m + n) \in Seq(S)
  <2>1. \A i \in (m + 1)..(m + n) : s[i] \in S
    BY <1>1
  <2> QED
    BY <2>1, SubSeqProperties
<1>3. SubSeq(s, 1, m + n) \in Seq(S) /\ Len(SubSeq(s, 1, m + n)) = m + n
  BY SplitSeq
<1>4. SubSeq(s, 1, m) \o SubSeq(s, m + 1, m + n) = SubSeq(s, 1, m + n)
  BY ConcatAdjacentSubSeq
<1> QED
  BY <1>2, <1>3, <1>4

-----------------------------------------------------------------------------
(* Arithmetic *)

\* A number below the modulus is its own remainder.
LEMMA ModSmall ==
    ASSUME NEW m \in Nat, NEW n \in Nat, n < m
    PROVE  n % m = n
  OBVIOUS

\* A remainder is not more than the number.
LEMMA ModBound ==
    ASSUME NEW m \in Nat \ {0}, NEW n \in Nat
    PROVE  n % m <= n
  OBVIOUS

\* A product with one factor more.
LEMMA OneMore ==
    ASSUME NEW c \in Nat, NEW b \in Nat
    PROVE  (c + 1) * b = c * b + b
  OBVIOUS

\* The counter of blocks has room for one more.
LEMMA RoomForOne ==
    ASSUME NEW c \in Nat, NEW b \in Nat, NEW m \in Nat,
           c * b + b < m * b
    PROVE  c + 1 < m
  OBVIOUS

-----------------------------------------------------------------------------
(* The invariant *)

LEMMA InitInv ==
    ASSUME TextsCountable, Init
    PROVE  Inv
<1>1. CountMod * BlockSize > 0
  BY SizesAssumption
<1>2. <<>> \in Seq(Byte) /\ Len(<<>>) = 0
  OBVIOUS
<1>3. <<>> \o <<>> \o <<>> = <<>>
  OBVIOUS
<1>4. 0 * BlockSize = 0
  BY SizesAssumption
<1>5. TextInv
  BY <1>1, <1>2, SizesAssumption DEF Init, TextInv
<1>6. AddingInv
  BY <1>2, <1>3, SizesAssumption DEF Init, AddingInv
<1>7. CountInv
  BY <1>2, <1>4 DEF Init, CountInv
<1> QED
  BY <1>5, <1>6, <1>7 DEF Init, Inv

\* add takes the next bytes of a text, all of them.
LEMMA AddKeepsInv ==
    ASSUME TextsCountable, Inv,
           NEW t \in Texts, NEW n \in 0..(Len(t) - Len(text)), Add(t, n)
    PROVE  Inv'
<1> DEFINE m == Len(text)
<1>1. t \in Seq(Byte) /\ Len(t) < LenMod /\ Len(t) < CountMod * BlockSize
  BY InputsAssumption DEF TextsCountable
<1>2. m \in Nat /\ n \in Nat /\ m + n <= Len(t) /\ n < LenMod
  BY <1>1, SizesAssumption DEF Inv, TextInv
<1>3. n % LenMod = n
  BY <1>2, ModSmall, SizesAssumption
<1>4. data' = SubSeq(t, m + 1, m + n) /\ text' = SubSeq(t, 1, m + n) /\ text = SubSeq(t, 1, m)
  BY <1>3 DEF Add
<1> HIDE DEF m
<1> DEFINE part == SubSeq(t, m + 1, m + n)
<1>5. /\ part \in Seq(Byte) /\ text' \in Seq(Byte) /\ Len(text') = m + n
      /\ text \o part = text'
  <2>1. /\ part \in Seq(Byte) /\ SubSeq(t, 1, m + n) \in Seq(Byte)
        /\ Len(SubSeq(t, 1, m + n)) = m + n
        /\ SubSeq(t, 1, m) \o part = SubSeq(t, 1, m + n)
    <3>1. t \in Seq(Byte) /\ m \in Nat /\ n \in Nat /\ m + n <= Len(t)
      BY <1>1, <1>2
    <3> QED
      BY <3>1, ExtendPrefix, Zenon
  <2>2. SubSeq(t, 1, m) \o part = text \o part
    BY <1>4, Zenon
  <2> QED
    BY <1>4, <2>1, <2>2, Zenon
<1>6. TextInv'
  <2>1. Len(text') < LenMod
    BY <1>1, <1>2, <1>5, SizesAssumption
  <2>2. Len(text') < CountMod * BlockSize
    <3> DEFINE room == CountMod * BlockSize
    <3>1. room \in Nat /\ Len(t) < room /\ Len(t) \in Nat
      BY <1>1, SizesAssumption
    <3> HIDE DEF room
    <3>2. Len(text') < room
      BY <1>2, <1>5, <3>1
    <3> QED
      BY <3>2, Zenon DEF room
  <2> QED
    BY <1>5, <2>1, <2>2, Zenon DEF TextInv
<1>7. pc = "idle" /\ pc' = "add" /\ data = <<>>
      /\ UNCHANGED <<alg, absorbed, buffer, count, fresh>>
  BY DEF Add, Inv
<1>8. ASSUME Adding' PROVE AddingInv' /\ CountInv'
  <2>1. AddingInv /\ CountInv
    BY <1>7, <1>8 DEF Adding, Inv
  <2>2. absorbed \o buffer = text
    BY <1>7, <2>1 DEF AddingInv
  <2>3. AddingInv'
    BY <1>4, <1>5, <1>7, <2>1, <2>2 DEF AddingInv
  <2>4. CountInv'
    BY <1>7, <2>1 DEF CountInv
  <2> QED
    BY <2>3, <2>4
<1> QED
  BY <1>6, <1>7, <1>8 DEF Inv

\* A block that fills is compressed whole, and counted once.
LEMMA AddRoundKeepsInv ==
    ASSUME Inv, AddRound
    PROVE  Inv'
<1>1. TextInv' /\ pc' # "idle"
  BY DEF Inv, TextInv, AddRound
<1>2. ASSUME Adding' PROVE AddingInv' /\ CountInv'
  <2> DEFINE need == BlockSize - Len(buffer)
             d1 == SubSeq(data, 1, need)
             d2 == SubSeq(data, need + 1, Len(data))
  <2>1. AddingInv /\ CountInv /\ TextInv /\ BlockSize \in Nat
    BY <1>2, SizesAssumption DEF Adding, Inv, AddRound
  <2>2. need \in 0..Len(data)
    <3> DEFINE sum == Len(buffer) + Len(data)
    <3>1. sum \in Nat /\ Len(data) \in Nat /\ Len(buffer) \in Nat
          /\ Len(buffer) < BlockSize
      BY <2>1 DEF AddingInv
    <3>2. sum % LenMod <= sum /\ sum % LenMod \in Nat
      <4> HIDE DEF sum
      <4> QED
        BY <3>1, ModBound, SizesAssumption
    <3>3. sum >= BlockSize
      BY <3>1, <3>2, SizesAssumption DEF AddRound, Fills
    <3> QED
      BY <2>1, <3>1, <3>3
  <2>3. /\ d1 \in Seq(Byte) /\ d2 \in Seq(Byte)
        /\ d1 \o d2 = data /\ Len(d1) = need
    BY <2>1, <2>2, SplitSeq DEF AddingInv
  <2>4. absorbed' = absorbed \o buffer \o d1 /\ buffer' = <<>> /\ data' = d2
    BY DEF AddRound, FillRound
  <2> HIDE DEF d1, d2
  <2>5. absorbed' \o buffer' \o data' = text
    <3>1. absorbed \in Seq(Byte) /\ buffer \in Seq(Byte)
      BY <2>1 DEF AddingInv
    <3>2. (absorbed \o buffer \o d1) \o <<>> \o d2
            = absorbed \o buffer \o (d1 \o d2)
      <4>1. d1 \in Seq(Byte) /\ d2 \in Seq(Byte)
        BY <2>3
      <4> QED
        BY <3>1, <4>1, SMTT(40)
    <3>3. absorbed \o buffer \o (d1 \o d2) = absorbed \o buffer \o data
      BY <2>3, Zenon
    <3>4. absorbed' \o buffer' \o data'
            = (absorbed \o buffer \o d1) \o <<>> \o d2
      BY <2>4, Zenon
    <3>5. absorbed \o buffer \o data = text
      BY <2>1 DEF AddingInv
    <3> QED
      BY <3>2, <3>3, <3>4, <3>5, Zenon
  <2>6. /\ absorbed' \in Seq(Byte)
        /\ Len(absorbed') = Len(absorbed) + BlockSize
    <3>1. absorbed \in Seq(Byte) /\ buffer \in Seq(Byte)
          /\ Len(buffer) + need = BlockSize
      BY <2>1 DEF AddingInv
    <3> HIDE DEF need
    <3>2. absorbed \o buffer \o d1 \in Seq(Byte)
          /\ Len(absorbed \o buffer \o d1)
               = Len(absorbed) + (Len(buffer) + need)
      <4>1. d1 \in Seq(Byte) /\ Len(d1) = need
        BY <2>3, Zenon
      <4>2. /\ absorbed \o buffer \o d1 \in Seq(Byte)
            /\ Len(absorbed \o buffer \o d1)
                 = Len(absorbed) + (Len(buffer) + Len(d1))
        BY <3>1, <4>1
      <4> QED
        BY <4>1, <4>2, Zenon
    <3> QED
      BY <2>4, <3>1, <3>2, Zenon
  <2>7. AddingInv'
    <3>1. buffer' \in Seq(Byte) /\ Len(buffer') < BlockSize
      BY <2>1, <2>4, SizesAssumption
    <3>2. text' = text /\ data' \in Seq(Byte)
      BY <2>3, <2>4 DEF AddRound
    <3> QED
      BY <2>5, <2>6, <3>1, <3>2 DEF AddingInv
  <2>8. CountInv'
    <3>1. alg' = alg /\ count' = Counted(count)
      BY DEF AddRound
    <3>2. CASE alg = "SHA256"
      BY <2>1, <2>6, <3>1, <3>2 DEF CountInv, Counted
    <3>3. CASE alg # "SHA256"
      <4>1. count \in Nat /\ count * BlockSize = Len(absorbed)
        BY <2>1, <3>3 DEF CountInv
      <4>2. (count + 1) * BlockSize = Len(absorbed')
        BY <2>1, <2>6, <4>1, OneMore
      <4>3. Len(absorbed') <= Len(text)
        <5>1. Len(absorbed' \o buffer' \o data')
                = Len(absorbed') + Len(buffer') + Len(data')
          BY <2>7 DEF AddingInv
        <5>2. Len(buffer') \in Nat /\ Len(data') \in Nat
              /\ Len(absorbed') \in Nat
          BY <2>7 DEF AddingInv
        <5> QED
          BY <2>5, <5>1, <5>2
      <4>4. count + 1 < CountMod
        <5>1. count * BlockSize + BlockSize < CountMod * BlockSize
          <6> DEFINE room == CountMod * BlockSize
          <6>1. Len(text) < room /\ Len(absorbed) \in Nat /\ Len(text) \in Nat
            BY <2>1 DEF TextInv, AddingInv
          <6>2. room \in Nat
            BY <2>1, SizesAssumption
          <6> HIDE DEF room
          <6>3. Len(absorbed) + BlockSize < room
            BY <2>1, <2>6, <4>3, <6>1, <6>2
          <6> QED
            BY <4>1, <6>3, Zenon DEF room
        <5> QED
          BY <2>1, <4>1, <5>1, RoomForOne, SizesAssumption
      <4>5. count' = count + 1
        <5>1. (count + 1) % CountMod = count + 1
          BY <4>1, <4>4, ModSmall, SizesAssumption
        <5> QED
          BY <3>1, <3>3, <5>1, Zenon DEF Counted
      <4> QED
        BY <3>1, <3>3, <4>1, <4>2, <4>5 DEF CountInv
    <3> QED
      BY <3>2, <3>3
  <2> QED
    BY <2>7, <2>8
<1> QED
  BY <1>1, <1>2 DEF Inv

\* What does not fill a block waits in the buffer.
LEMMA AddReturnsKeepsInv ==
    ASSUME Inv, AddReturns
    PROVE  Inv'
<1>1. TextInv' /\ data' = <<>>
  BY DEF Inv, TextInv, AddReturns, AddTail
<1>2. ASSUME Adding' PROVE AddingInv' /\ CountInv'
  <2>1. AddingInv /\ CountInv
    BY <1>2 DEF Adding, Inv, AddReturns
  <2>2. /\ buffer' = buffer \o data
        /\ Len(buffer) + Len(data) < BlockSize
        /\ UNCHANGED <<alg, absorbed, count, text>>
    BY DEF AddReturns, AddTail
  <2>3. absorbed' \o buffer' \o data' = absorbed \o buffer \o data
    <3>1. absorbed \in Seq(Byte) /\ buffer \in Seq(Byte) /\ data \in Seq(Byte)
      BY <2>1 DEF AddingInv
    <3>2. absorbed \o (buffer \o data) \o <<>> = absorbed \o buffer \o data
      BY <3>1
    <3>3. absorbed' \o buffer' \o data' = absorbed \o (buffer \o data) \o <<>>
      BY <1>1, <2>2, Zenon
    <3> QED
      BY <3>2, <3>3, Zenon
  <2>4. buffer' \in Seq(Byte) /\ Len(buffer') < BlockSize
    BY <2>1, <2>2 DEF AddingInv
  <2>5. AddingInv'
    BY <1>1, <2>1, <2>2, <2>3, <2>4 DEF AddingInv
  <2>6. CountInv'
    BY <2>1, <2>2 DEF CountInv
  <2> QED
    BY <2>5, <2>6
<1> QED
  BY <1>1, <1>2 DEF Inv

\* A digest ends what the invariant says of the bytes, a reset begins it.
LEMMA CalculateKeepsInv ==
    ASSUME Inv,
           Calculate \/ PaddingDone \/ CalculateReturns \/ CalculateSHA256
    PROVE  Inv'
<1>1. TextInv'
  BY DEF Inv, TextInv, Calculate, PaddingDone, AddTail, CalculateReturns,
         CalculateSHA256
<1>2. ~Adding'
  BY DEF Adding, Calculate, PaddingDone, CalculateReturns, CalculateSHA256,
         Answer
<1>3. pc' = "idle" => data' = <<>>
  BY DEF Inv, Calculate, PaddingDone, CalculateReturns, CalculateSHA256
<1> QED
  BY <1>1, <1>2, <1>3 DEF Inv

LEMMA ResetKeepsInv ==
    ASSUME Inv, Reset
    PROVE  Inv'
<1>1. /\ pc' = "idle" /\ data' = <<>> /\ absorbed' = <<>> /\ buffer' = <<>>
      /\ count' = 0 /\ text' = <<>>
  BY DEF Inv, Reset
<1>2. CountMod * BlockSize > 0 /\ 0 * BlockSize = 0
  BY SizesAssumption
<1>3. <<>> \in Seq(Byte) /\ Len(<<>>) = 0 /\ <<>> \o <<>> \o <<>> = <<>>
  OBVIOUS
<1>4. TextInv'
  BY <1>1, <1>2, <1>3, SizesAssumption DEF TextInv
<1>5. AddingInv'
  BY <1>1, <1>3, SizesAssumption DEF AddingInv
<1>6. CountInv'
  BY <1>1, <1>2, <1>3 DEF CountInv
<1> QED
  BY <1>1, <1>4, <1>5, <1>6 DEF Inv

LEMMA StutterKeepsInv ==
    ASSUME Inv, UNCHANGED vars
    PROVE  Inv'
  BY DEF vars, Inv, TextInv, Adding, AddingInv, CountInv

THEOREM Invariance ==
    ASSUME TextsCountable
    PROVE  Spec => []Inv
<1>1. Init => Inv
  BY InitInv
<1>2. Inv /\ [Next]_vars => Inv'
  BY AddKeepsInv, AddRoundKeepsInv, AddReturnsKeepsInv, CalculateKeepsInv,
     ResetKeepsInv, StutterKeepsInv DEF Next
<1> QED
  BY <1>1, <1>2, PTL DEF Spec

-----------------------------------------------------------------------------
(* Zeros and the length field *)

\* Zeros are bytes.
LEMMA ZerosAre ==
    ASSUME NEW n \in Nat
    PROVE  /\ Zeros(n) \in Seq(Byte) /\ Len(Zeros(n)) = n
           /\ \A i \in 1..n : Zeros(n)[i] = 0
<1>1. \A i \in 1..n : 0 \in Byte
  BY DEF Byte
<1> QED
  BY <1>1 DEF Zeros

\* What a concatenation holds, and where.
LEMMA ConcatIs ==
    ASSUME NEW S, NEW s \in Seq(S), NEW t \in Seq(S)
    PROVE  /\ s \o t \in Seq(S) /\ Len(s \o t) = Len(s) + Len(t)
           /\ \A i \in 1..Len(s) : (s \o t)[i] = s[i]
           /\ \A i \in 1..Len(t) : (s \o t)[Len(s) + i] = t[i]
           /\ SubSeq(s \o t, 1, Len(s)) = s
OBVIOUS

\* A sequence with zeros behind it.
LEMMA BehindZeros ==
    ASSUME NEW s \in Seq(Byte), NEW k \in Nat
    PROVE  /\ s \o Zeros(k) \in Seq(Byte) /\ Len(s \o Zeros(k)) = Len(s) + k
           /\ \A i \in 1..Len(s) : (s \o Zeros(k))[i] = s[i]
           /\ \A i \in 1..k : (s \o Zeros(k))[Len(s) + i] = 0
<1>1. PICK z \in Seq(Byte) : z = Zeros(k) /\ Len(z) = k /\ \A i \in 1..k : z[i] = 0
  BY ZerosAre
<1>2. /\ s \o z \in Seq(Byte) /\ Len(s \o z) = Len(s) + Len(z)
      /\ \A i \in 1..Len(s) : (s \o z)[i] = s[i]
      /\ \A i \in 1..Len(z) : (s \o z)[Len(s) + i] = z[i]
  BY ConcatIs
<1> QED
  BY <1>1, <1>2

\* A sequence that ends in zeros, cut among them.
LEMMA CutZeros ==
    ASSUME NEW s \in Seq(Byte), NEW a \in Nat, NEW k \in 0..a
    PROVE  SubSeq(s \o Zeros(a), 1, Len(s) + k) = s \o Zeros(k)
<1> DEFINE z == s \o Zeros(a)
           u == SubSeq(z, 1, Len(s) + k)
           w == s \o Zeros(k)
<1>1. Len(s) \in Nat /\ k \in Nat /\ k <= a
  OBVIOUS
<1>3. /\ z \in Seq(Byte) /\ Len(z) = Len(s) + a
      /\ \A i \in 1..Len(s) : z[i] = s[i]
      /\ \A i \in 1..a : z[Len(s) + i] = 0
  BY BehindZeros
<1>4. /\ w \in Seq(Byte) /\ Len(w) = Len(s) + k
      /\ \A i \in 1..Len(s) : w[i] = s[i]
      /\ \A i \in 1..k : w[Len(s) + i] = 0
  BY <1>1, BehindZeros
<1> HIDE DEF z, w
<1>5. /\ u \in Seq(Byte) /\ Len(u) = Len(s) + k
      /\ \A i \in 1..(Len(s) + k) : u[i] = z[i]
  <2>1. Len(s) + k \in 0..Len(z)
    BY <1>1, <1>3
  <2>2. u \in Seq(Byte) /\ Len(u) = Len(s) + k
    BY <1>3, <2>1, SplitSeq
  <2>3. \A i \in 1..(Len(s) + k) : u[i] = z[i]
    BY <1>1, <1>3, <2>1
  <2> QED
    BY <2>2, <2>3
<1> HIDE DEF u
<1>6. ASSUME NEW i \in 1..(Len(s) + k) PROVE u[i] = w[i]
  <2>1. CASE i <= Len(s)
    <3>1. i \in 1..Len(s)
      BY <1>1, <2>1
    <3> QED
      BY <1>3, <1>4, <1>5, <3>1
  <2>2. CASE i > Len(s)
    <3>1. PICK j \in 1..k : i = Len(s) + j
      <4>1. i - Len(s) \in 1..k /\ i = Len(s) + (i - Len(s))
        BY <1>1, <2>2
      <4> QED
        BY <4>1
    <3>2. j \in 1..a
      BY <1>1
    <3> QED
      BY <1>3, <1>4, <1>5, <3>1, <3>2
  <2> QED
    BY <1>1, <2>1, <2>2
<1>7. u = w
  BY <1>4, <1>5, <1>6
<1> QED
  BY <1>7 DEF u, w, z

\* Zeros behind zeros.
LEMMA MoreZeros ==
    ASSUME NEW a \in Nat, NEW b \in Nat
    PROVE  Zeros(a) \o Zeros(b) = Zeros(a + b)
<1> DEFINE z == Zeros(a) \o Zeros(b)
<1>1. /\ Zeros(a) \in Seq(Byte) /\ Len(Zeros(a)) = a /\ \A i \in 1..a : Zeros(a)[i] = 0
      /\ Zeros(a + b) \in Seq(Byte) /\ Len(Zeros(a + b)) = a + b
      /\ \A i \in 1..(a + b) : Zeros(a + b)[i] = 0
  BY ZerosAre
<1>2. /\ z \in Seq(Byte) /\ Len(z) = a + b
      /\ \A i \in 1..a : z[i] = 0
      /\ \A i \in 1..b : z[a + i] = 0
  <2>1. PICK s \in Seq(Byte) : s = Zeros(a) /\ Len(s) = a /\ \A i \in 1..a : s[i] = 0
    BY <1>1
  <2>2. /\ s \o Zeros(b) \in Seq(Byte) /\ Len(s \o Zeros(b)) = Len(s) + b
        /\ \A i \in 1..Len(s) : (s \o Zeros(b))[i] = s[i]
        /\ \A i \in 1..b : (s \o Zeros(b))[Len(s) + i] = 0
    BY BehindZeros
  <2> QED
    BY <2>1, <2>2
<1> HIDE DEF z
<1>3. ASSUME NEW i \in 1..(a + b) PROVE z[i] = 0
  <2>1. CASE i <= a
    BY <1>2, <2>1
  <2>2. CASE i > a
    <3>1. i - a \in 1..b /\ i = a + (i - a)
      BY <2>2
    <3> QED
      BY <1>2, <3>1
  <2> QED
    BY <2>1, <2>2
<1>4. z = Zeros(a + b)
  BY <1>1, <1>2, <1>3
<1> QED
  BY <1>4 DEF z

\* What SizeField computes with, by name.
Shifts(n) ==
    CHOOSE shifted : shifted = [k \in 0..SizeBytes |->
        IF k = 0 THEN n * 8 ELSE shifted[k - 1] \div 256]

LEMMA ShiftsAre ==
    ASSUME NEW n \in Nat
    PROVE  \A k \in 0..SizeBytes : Shifts(n)[k] \in Nat
<1> DEFINE Good(f) == f = [k \in 0..SizeBytes |->
                             IF k = 0 THEN n * 8 ELSE f[k - 1] \div 256]
<1>1. SizeBytes \in Nat /\ n * 8 \in Nat
  BY SizesAssumption
<1>2. PICK F \in [(1..SizeBytes) \X Nat -> Nat] :
        \A k \in 1..SizeBytes, v \in Nat : F[<<k, v>>] = v \div 256
  <2> DEFINE F == [p \in (1..SizeBytes) \X Nat |-> p[2] \div 256]
  <2>1. \A v \in Nat : v \div 256 \in Nat
    OBVIOUS
  <2>2. F \in [(1..SizeBytes) \X Nat -> Nat]
    BY <2>1
  <2>3. \A k \in 1..SizeBytes, v \in Nat : F[<<k, v>>] = v \div 256
    OBVIOUS
  <2> QED
    BY <2>2, <2>3
<1>3. PICK f \in [0..SizeBytes -> Nat] :
        f[0] = n * 8 /\ \A k \in 1..SizeBytes : f[k] = F[<<k, f[k - 1]>>]
  <2>1. \A a \in Nat : \E f \in [0..SizeBytes -> Nat] : IsRecursion(f, SizeBytes, a, F)
    BY <1>1, <1>2, RecursiveFunction
  <2> QED
    BY <1>1, <2>1 DEF IsRecursion
<1>4. \A k \in 1..SizeBytes : F[<<k, f[k - 1]>>] = f[k - 1] \div 256
  <2>1. \A k \in 1..SizeBytes : f[k - 1] \in Nat
    BY <1>1, <1>3
  <2> QED
    BY <1>2, <2>1
<1>5. \A k \in 0..SizeBytes : f[k] = IF k = 0 THEN n * 8 ELSE f[k - 1] \div 256
  <2>1. \A k \in 0..SizeBytes : k = 0 \/ k \in 1..SizeBytes
    BY <1>1
  <2> QED
    BY <1>3, <1>4, <2>1
<1>6. Good(f)
  BY <1>3, <1>5
<1>7. Good(Shifts(n))
  <2>1. Shifts(n) = CHOOSE g : Good(g)
    BY Zenon DEF Shifts
  <2> HIDE DEF Good
  <2>2. Good(CHOOSE g : Good(g))
    BY <1>6, Zenon
  <2> QED
    BY <2>1, <2>2, Zenon
<1> DEFINE w == Shifts(n)
           T == {k \in 0..SizeBytes : w[k] \in Nat}
<1> HIDE DEF w
<1>8. \A k \in 0..SizeBytes : w[k] = IF k = 0 THEN n * 8 ELSE w[k - 1] \div 256
  BY <1>7 DEF w
<1>9. 0 \in T
  BY <1>1, <1>8
<1>10. ASSUME NEW k \in 0..(SizeBytes - 1), k \in T PROVE k + 1 \in T
  <2>1. k + 1 \in 0..SizeBytes /\ k + 1 # 0 /\ (k + 1) - 1 = k
    BY <1>1
  <2>2. w[k + 1] = w[k] \div 256
    BY <1>8, <2>1
  <2> QED
    BY <1>10, <2>1, <2>2
<1>11. \A k \in 0..SizeBytes : k \in T
  <2> HIDE DEF T
  <2> QED
    BY <1>1, <1>9, <1>10, InductionUpTo
<1> QED
  BY <1>11 DEF T, w

\* The length field is so many bytes.
LEMMA SizeFieldIs ==
    ASSUME NEW n \in Nat
    PROVE  SizeField(n) \in Seq(Byte) /\ Len(SizeField(n)) = SizeBytes
<1> DEFINE place(i) == IF alg = "MD5" THEN i - 1 ELSE SizeBytes - i
           b(i) == Shifts(n)[place(i)] % 256
<1>1. SizeField(n) = [i \in 1..SizeBytes |-> b(i)]
  BY DEF SizeField, Shifts
<1>2. SizeBytes \in Nat
  BY SizesAssumption
<1>3. ASSUME NEW i \in 1..SizeBytes PROVE b(i) \in Byte
  <2>1. place(i) \in 0..SizeBytes
    BY <1>2
  <2>2. Shifts(n)[place(i)] \in Nat
    BY <2>1, ShiftsAre
  <2> QED
    BY <2>2 DEF Byte
<1> HIDE DEF b
<1> QED
  BY <1>1, <1>2, <1>3

-----------------------------------------------------------------------------
(* The padding *)

Compressed == Byte \cup {Reversed}

\* The length field of a class, and a text with what each adds behind it.
Field(a, n) ==
    LET shifted[k \in 0..SizeBytes] ==
            IF k = 0 THEN n * 8 ELSE shifted[k - 1] \div 256
        place(i) == IF a = "MD5" THEN i - 1 ELSE SizeBytes - i
    IN  [i \in 1..SizeBytes |-> shifted[place(i)] % 256]
ZerosFor(n) == (Boundary - 1 - n) % BlockSize
Filled(t) == t \o <<128>> \o Zeros(ZerosFor(Len(t)))
Whole(a, t) == Filled(t) \o Field(a, Len(t))

\* So many bytes are whole blocks.
InBlocks(n) == \E k \in Nat : n = k * BlockSize

\* Bytes are among what is compressed.
LEMMA BytesAre ==
    ASSUME NEW s \in Seq(Byte)
    PROVE  s \in Seq(Compressed)
<1>1. \A i \in 1..Len(s) : s[i] \in Compressed
  BY DEF Compressed
<1> QED
  BY <1>1

\* The first byte of the padding.
LEMMA Mark == \E v \in Seq(Byte) : v = <<128>> /\ Len(v) = 1
<1> DEFINE v == <<128>>
<1>1. v \in Seq(Byte) /\ Len(v) = 1
  BY DEF Byte
<1>2. \E w \in Seq(Byte) : w = v /\ Len(w) = 1
  <2> HIDE DEF v
  <2> QED
    BY <1>1
<1> QED
  BY <1>2

\* Behind it a text is one byte longer.
LEMMA MarkBehind ==
    ASSUME NEW s \in Seq(Byte)
    PROVE  /\ <<128>> \in Seq(Byte) /\ Len(<<128>>) = 1
           /\ s \o <<128>> \in Seq(Byte) /\ Len(s \o <<128>>) = Len(s) + 1
<1>1. PICK v \in Seq(Byte) : v = <<128>> /\ Len(v) = 1
  BY Mark
<1>2. s \o v \in Seq(Byte) /\ Len(s \o v) = Len(s) + Len(v)
  BY ConcatIs
<1> QED
  BY <1>1, <1>2

\* Sequences can be joined in any order.  (Named, since the provers are slow
\* where they see what is joined.)
Joins(s, t, u) == (s \o t) \o u = s \o (t \o u)

LEMMA JoinBytes == \A s, t, u \in Seq(Byte) : Joins(s, t, u)
BY ConcatAssociative DEF Joins
LEMMA JoinCompressed == \A s, t, u \in Seq(Compressed) : Joins(s, t, u)
BY ConcatAssociative DEF Joins

LEMMA FieldIs ==
    ASSUME NEW n \in Nat
    PROVE  /\ SizeField(n) = Field(alg, n)
           /\ Field(alg, n) \in Seq(Byte) /\ Len(Field(alg, n)) = SizeBytes
<1>1. SizeField(n) = Field(alg, n)
  BY DEF SizeField, Field
<1> QED
  BY <1>1, SizeFieldIs

\* How many zeros it takes, by the length of the block that is not full.
LEMMA ZerosForIs ==
    ASSUME NEW q \in Nat, NEW r \in 0..(BlockSize - 1)
    PROVE  /\ ZerosFor(q * BlockSize + r) =
                IF r < Boundary THEN Boundary - 1 - r
                ELSE BlockSize - (r - Boundary) - 1
           /\ ZerosFor(q * BlockSize + r) \in 0..(BlockSize - 1)
           /\ InBlocks((q * BlockSize + r) + 1 + ZerosFor(q * BlockSize + r) + SizeBytes)
<1> DEFINE n == q * BlockSize + r
           z == ZerosFor(n)
<1>1. /\ BlockSize \in Nat \ {0} /\ SizeBytes \in Nat \ {0} /\ SizeBytes < BlockSize
      /\ Boundary = BlockSize - SizeBytes
  BY SizesAssumption DEF Boundary
<1>2. /\ z = IF r < Boundary THEN Boundary - 1 - r ELSE BlockSize - (r - Boundary) - 1
      /\ z \in 0..(BlockSize - 1)
      /\ \E k \in Nat : n + 1 + z + SizeBytes = k * BlockSize
  <2>1. CASE r < Boundary
    <3> DEFINE p == Boundary - 1 - r
    <3>1. p \in 0..(BlockSize - 1) /\ -q \in Int
      BY <1>1, <2>1
    <3>2. (-q) * BlockSize = -(q * BlockSize) /\ q * BlockSize \in Nat
      BY <1>1
    <3>3. Boundary - 1 - n = (-q) * BlockSize + p
      BY <1>1, <3>2
    <3> HIDE DEF p
    <3>4. ((-q) * BlockSize + p) % BlockSize = p
      BY <1>1, <3>1, QuotientIs
    <3>5. z = p
      BY <3>3, <3>4 DEF ZerosFor
    <3>6. (q + 1) * BlockSize = q * BlockSize + BlockSize /\ q + 1 \in Nat
      BY <1>1
    <3>7. n + 1 + p + SizeBytes = (q + 1) * BlockSize
      BY <1>1, <3>2, <3>6 DEF p
    <3> QED
      BY <2>1, <3>1, <3>5, <3>6, <3>7 DEF p
  <2>2. CASE ~(r < Boundary)
    <3> DEFINE p == BlockSize - (r - Boundary) - 1
    <3>1. p \in 0..(BlockSize - 1) /\ (-q) - 1 \in Int
      BY <1>1, <2>2
    <3>2. ((-q) - 1) * BlockSize = -(q * BlockSize) - BlockSize /\ q * BlockSize \in Nat
      BY <1>1
    <3>3. Boundary - 1 - n = ((-q) - 1) * BlockSize + p
      BY <1>1, <3>2
    <3> HIDE DEF p
    <3>4. (((-q) - 1) * BlockSize + p) % BlockSize = p
      BY <1>1, <3>1, QuotientIs
    <3>5. z = p
      BY <3>3, <3>4 DEF ZerosFor
    <3>6. (q + 2) * BlockSize = q * BlockSize + BlockSize + BlockSize /\ q + 2 \in Nat
      BY <1>1
    <3>7. n + 1 + p + SizeBytes = (q + 2) * BlockSize
      BY <1>1, <3>2, <3>6 DEF p
    <3> QED
      BY <2>2, <3>1, <3>5, <3>6, <3>7 DEF p
  <2> QED
    BY <2>1, <2>2
<1> QED
  BY <1>2 DEF InBlocks

\* A length is so many blocks and a rest.
LEMMA LengthIs ==
    ASSUME NEW n \in Nat
    PROVE  \E q \in Nat, r \in 0..(BlockSize - 1) : n = q * BlockSize + r
<1>1. BlockSize \in Nat \ {0}
  BY SizesAssumption
<1>2. /\ n \div BlockSize \in Nat /\ n % BlockSize \in 0..(BlockSize - 1)
      /\ n = BlockSize * (n \div BlockSize) + (n % BlockSize)
  BY <1>1
<1>3. BlockSize * (n \div BlockSize) = (n \div BlockSize) * BlockSize
  BY <1>1, <1>2
<1> QED
  BY <1>2, <1>3

\* The padded text is bytes, and whole blocks.
LEMMA WholeIs ==
    ASSUME NEW t \in Seq(Byte)
    PROVE  /\ Filled(t) \in Seq(Byte) /\ Whole(alg, t) \in Seq(Byte)
           /\ Whole(alg, t) = Padded(t)
           /\ InBlocks(Len(Whole(alg, t)))
<1>1. PICK q \in Nat, r \in 0..(BlockSize - 1) : Len(t) = q * BlockSize + r
  <2>1. Len(t) \in Nat
    OBVIOUS
  <2> QED
    BY <2>1, LengthIs
<1>2. PICK z \in Nat : /\ z = ZerosFor(Len(t))
                       /\ InBlocks(Len(t) + 1 + z + SizeBytes)
  BY <1>1, ZerosForIs
<1>3. PICK u \in Seq(Byte) : u = t \o <<128>> /\ Len(u) = Len(t) + 1
  BY MarkBehind
<1>4. PICK v \in Seq(Byte) : v = u \o Zeros(z) /\ Len(v) = Len(u) + z
  BY BehindZeros
<1>5. v = Filled(t)
  BY <1>2, <1>3, <1>4 DEF Filled
<1>6. PICK f \in Seq(Byte) : /\ f = Field(alg, Len(t)) /\ Len(f) = SizeBytes
                             /\ f = SizeField(Len(t))
  BY FieldIs
<1>7. v \o f \in Seq(Byte) /\ Len(v \o f) = Len(v) + Len(f)
  BY ConcatIs
<1>8. Whole(alg, t) = v \o f
  BY <1>5, <1>6 DEF Whole
<1>9. Padded(t) = v \o f
  BY <1>2, <1>3, <1>4, <1>6 DEF Padded, ZerosFor
<1>10. Len(v \o f) = Len(t) + 1 + z + SizeBytes
  BY <1>3, <1>4, <1>6, <1>7
<1> QED
  BY <1>2, <1>5, <1>7, <1>8, <1>9, <1>10

\* The padding of MD5 and SHA1: one byte, then zeros.
LEMMA PaddingIs ==
    ASSUME NEW p \in 1..BlockSize
    PROVE  /\ SubSeq(<<128>> \o Zeros(BlockSize - 1), 1, p) = <<128>> \o Zeros(p - 1)
           /\ <<128>> \o Zeros(p - 1) \in Seq(Byte)
<1>1. <<128>> \in Seq(Byte) /\ Len(<<128>>) = 1
  BY DEF Byte
<1>2. BlockSize - 1 \in Nat /\ p - 1 \in 0..(BlockSize - 1) /\ p = 1 + (p - 1)
  BY SizesAssumption
<1>3. SubSeq(<<128>> \o Zeros(BlockSize - 1), 1, Len(<<128>>) + (p - 1)) = <<128>> \o Zeros(p - 1)
  BY <1>1, <1>2, CutZeros
<1>4. <<128>> \o Zeros(p - 1) \in Seq(Byte)
  <2>1. PICK v \in Seq(Byte) : v = <<128>>
    BY Mark
  <2>2. p - 1 \in Nat
    BY <1>2
  <2>3. v \o Zeros(p - 1) \in Seq(Byte)
    BY <2>2, BehindZeros
  <2> QED
    BY <2>1, <2>3
<1> QED
  BY <1>1, <1>2, <1>3, <1>4

\* The padding of SHA256: the block, one byte and zeros, in one block or two.
LEMMA FrontIs ==
    ASSUME NEW b \in Seq(Byte), Len(b) < BlockSize
    PROVE  LET padded == b \o <<128>> \o Zeros(BlockSize - Len(b) - 1)
               front  == IF Len(b) >= Boundary THEN padded \o Zeros(Boundary)
                         ELSE SubSeq(padded, 1, Boundary)
               zeros  == IF Len(b) < Boundary THEN Boundary - 1 - Len(b)
                         ELSE BlockSize - (Len(b) - Boundary) - 1
           IN  /\ front = b \o <<128>> \o Zeros(zeros) /\ front \in Seq(Byte)
               /\ SubSeq(padded, 1, Len(b)) = b
<1>1. PICK n \in Nat : n = Len(b)
  OBVIOUS
<1>2. /\ BlockSize \in Nat /\ SizeBytes \in Nat \ {0} /\ SizeBytes < BlockSize
      /\ n < BlockSize /\ Boundary = BlockSize - SizeBytes
  BY <1>1, SizesAssumption DEF Boundary
<1>3. PICK u \in Seq(Byte) : u = b \o <<128>> /\ Len(u) = n + 1
  BY <1>1, MarkBehind
<1>4. PICK a \in Nat : a = BlockSize - n - 1
  BY <1>2
<1> DEFINE padded == u \o Zeros(a)
           zeros  == IF n < Boundary THEN Boundary - 1 - n
                     ELSE BlockSize - (n - Boundary) - 1
           front  == IF n >= Boundary THEN padded \o Zeros(Boundary)
                     ELSE SubSeq(padded, 1, Boundary)
<1>5. zeros \in Nat
  BY <1>2
<1>6. front = u \o Zeros(zeros)
  <2>1. CASE n >= Boundary
    <3>1. PICK c \in Nat : c = Boundary
      BY <1>2
    <3>2. PICK x \in Seq(Byte), y \in Seq(Byte) :
            x = Zeros(a) /\ y = Zeros(c) /\ x \o y = Zeros(a + c)
      <4>1. /\ Zeros(a) \in Seq(Byte) /\ Zeros(c) \in Seq(Byte)
            /\ Zeros(a) \o Zeros(c) = Zeros(a + c)
        BY ZerosAre, MoreZeros
      <4> QED
        BY <4>1
    <3>3. Joins(u, x, y)
      BY JoinBytes
    <3>4. a + c = zeros /\ ~(n < Boundary)
      BY <1>2, <1>4, <2>1, <3>1
    <3>5. front = (u \o Zeros(a)) \o Zeros(Boundary)
      BY <2>1
    <3> HIDE DEF front, zeros
    <3> QED
      BY <3>1, <3>2, <3>3, <3>4, <3>5 DEF Joins
  <2>2. CASE n < Boundary
    <3>1. PICK k \in 0..a : k = Boundary - 1 - n /\ Boundary = Len(u) + k
      <4>1. PICK c \in Int : c = Boundary /\ c < BlockSize
        BY <1>2
      <4>2. BlockSize \in Nat /\ n < c /\ a = BlockSize - n - 1 /\ Len(u) = n + 1
        BY <1>2, <1>3, <1>4, <2>2, <4>1
      <4>3. c - 1 - n \in 0..a /\ c = (n + 1) + (c - 1 - n)
        BY <4>1, <4>2
      <4> QED
        BY <4>1, <4>2, <4>3
    <3>2. SubSeq(u \o Zeros(a), 1, Len(u) + k) = u \o Zeros(k)
      BY CutZeros
    <3>3. zeros = k /\ front = SubSeq(u \o Zeros(a), 1, Boundary)
      <4>1. n < Boundary /\ ~(n >= Boundary)
        BY <1>2, <2>2
      <4>2. front = SubSeq(u \o Zeros(a), 1, Boundary)
        BY <4>1, Zenon
      <4>3. zeros = Boundary - 1 - n
        BY <4>1, Zenon
      <4> QED
        BY <3>1, <4>2, <4>3, Zenon
    <3> HIDE DEF front, zeros
    <3> QED
      BY <3>1, <3>2, <3>3
  <2> HIDE DEF front, zeros
  <2> QED
    BY <1>2, <2>1, <2>2
<1>7. u \o Zeros(zeros) \in Seq(Byte)
  <2> HIDE DEF zeros
  <2> QED
    BY <1>5, BehindZeros
<1>8. SubSeq(padded, 1, Len(b)) = b
  <2>1. PICK v \in Seq(Byte) : v = <<128>>
    BY Mark
  <2>2. PICK x \in Seq(Byte) : x = Zeros(a)
    BY ZerosAre
  <2>3. PICK y \in Seq(Byte) : y = v \o x
    BY ConcatIs
  <2>4. Joins(b, v, x)
    BY JoinBytes
  <2>5. SubSeq(b \o y, 1, Len(b)) = b
    BY ConcatIs
  <2>6. padded = b \o y
    BY <1>3, <2>1, <2>2, <2>3, <2>4 DEF Joins
  <2> QED
    BY <2>5, <2>6, Zenon
<1> HIDE DEF front, zeros
<1>9. front = b \o <<128>> \o Zeros(zeros) /\ front \in Seq(Byte)
  BY <1>3, <1>6, <1>7
<1> QED
  BY <1>1, <1>3, <1>4, <1>8, <1>9 DEF front, zeros

-----------------------------------------------------------------------------
(* Types *)

\* One round of add on sequences: nothing changes but where the bytes are.
LEMMA RoundMoves ==
    ASSUME NEW a \in Seq(Compressed), NEW b \in Seq(Byte), NEW d \in Seq(Byte),
           NEW need \in 0..Len(d)
    PROVE  LET front == SubSeq(d, 1, need)
               rest  == SubSeq(d, need + 1, Len(d))
           IN  /\ a \o b \o front \in Seq(Compressed)
               /\ Len(a \o b \o front) = Len(a) + (Len(b) + need)
               /\ rest \in Seq(Byte)
               /\ (a \o b \o front) \o <<>> \o rest = a \o b \o d
<1>1. PICK x \in Seq(Byte), y \in Seq(Byte) :
        /\ x = SubSeq(d, 1, need) /\ y = SubSeq(d, need + 1, Len(d))
        /\ x \o y = d /\ Len(x) = need
  <2>1. /\ SubSeq(d, 1, need) \in Seq(Byte) /\ Len(SubSeq(d, 1, need)) = need
        /\ SubSeq(d, need + 1, Len(d)) \in Seq(Byte)
        /\ SubSeq(d, 1, need) \o SubSeq(d, need + 1, Len(d)) = d
    BY SplitSeq
  <2> QED
    BY <2>1, Zenon
<1>2. b \in Seq(Compressed) /\ x \in Seq(Compressed) /\ y \in Seq(Compressed)
  BY BytesAre
<1>3. PICK u \in Seq(Compressed) : u = a \o b /\ Len(u) = Len(a) + Len(b)
  BY <1>2, ConcatIs
<1>4. PICK v \in Seq(Compressed) : v = u \o x /\ Len(v) = Len(u) + Len(x)
  BY <1>2, ConcatIs
<1>5. Joins(u, x, y)
  BY <1>2, JoinCompressed
<1>6. v \o <<>> = v
  OBVIOUS
<1>7. Len(v) = Len(a) + (Len(b) + need)
  <2>1. Len(a) \in Nat /\ Len(b) \in Nat /\ need \in Nat
    OBVIOUS
  <2>2. Len(v) = Len(u) + Len(x) /\ Len(u) = Len(a) + Len(b) /\ Len(x) = need
    BY <1>1, <1>3, <1>4
  <2>3. (Len(a) + Len(b)) + need = Len(a) + (Len(b) + need)
    BY <2>1
  <2> QED
    BY <2>2, <2>3, Zenon
<1> QED
  BY <1>1, <1>3, <1>4, <1>5, <1>6, <1>7 DEF Joins

\* What completes a block is there.
LEMMA NeedIs ==
    ASSUME TypeOK, Fills
    PROVE  BlockSize - Len(buffer) \in 0..Len(data)
<1> DEFINE sum == Len(buffer) + Len(data)
<1>1. sum \in Nat /\ Len(data) \in Nat /\ Len(buffer) \in Nat /\ Len(buffer) < BlockSize
  BY DEF TypeOK
<1>2. sum % LenMod <= sum /\ sum % LenMod \in Nat
  <2> HIDE DEF sum
  <2> QED
    BY <1>1, ModBound, SizesAssumption
<1>3. sum >= BlockSize
  BY <1>1, <1>2, SizesAssumption DEF Fills
<1> QED
  BY <1>1, <1>3, SizesAssumption

\* What a round leaves.
LEMMA RoundIs ==
    ASSUME TypeOK, AddRound
    PROVE  /\ absorbed' \in Seq(Compressed) /\ buffer' = <<>> /\ data' \in Seq(Byte)
           /\ Len(absorbed') = Len(absorbed) + BlockSize
           /\ absorbed' \o buffer' \o data' = absorbed \o buffer \o data
<1>1. PICK need \in 0..Len(data) : need = BlockSize - Len(buffer)
  BY NeedIs DEF AddRound
<1>2. absorbed \in Seq(Compressed) /\ buffer \in Seq(Byte) /\ data \in Seq(Byte)
  BY DEF TypeOK, Compressed
<1>3. /\ absorbed' = absorbed \o buffer \o SubSeq(data, 1, need)
      /\ data' = SubSeq(data, need + 1, Len(data)) /\ buffer' = <<>>
  BY <1>1 DEF AddRound, FillRound
<1>4. /\ absorbed' \in Seq(Compressed) /\ data' \in Seq(Byte)
      /\ Len(absorbed') = Len(absorbed) + (Len(buffer) + need)
      /\ absorbed' \o buffer' \o data' = absorbed \o buffer \o data
  <2>1. /\ absorbed \o buffer \o SubSeq(data, 1, need) \in Seq(Compressed)
        /\ Len(absorbed \o buffer \o SubSeq(data, 1, need)) = Len(absorbed) + (Len(buffer) + need)
        /\ SubSeq(data, need + 1, Len(data)) \in Seq(Byte)
        /\ (absorbed \o buffer \o SubSeq(data, 1, need)) \o <<>> \o SubSeq(data, need + 1, Len(data))
             = absorbed \o buffer \o data
    BY <1>2, RoundMoves
  <2> QED
    BY <1>3, <2>1, Zenon
<1>5. Len(buffer) + need = BlockSize
  BY <1>1, <1>2, SizesAssumption
<1> QED
  BY <1>3, <1>4, <1>5

\* What the return of add leaves.
LEMMA TailIs ==
    ASSUME TypeOK, Len(buffer) + Len(data) < BlockSize, buffer' = buffer \o data
    PROVE  /\ buffer' \in Seq(Byte) /\ Len(buffer') < BlockSize
           /\ absorbed \o buffer' = absorbed \o buffer \o data
<1>1. /\ absorbed \in Seq(Compressed) /\ buffer \in Seq(Byte) /\ data \in Seq(Byte)
  BY DEF TypeOK, Compressed
<1>2. buffer \o data \in Seq(Byte) /\ Len(buffer \o data) = Len(buffer) + Len(data)
  BY <1>1, ConcatIs
<1>3. Joins(absorbed, buffer, data)
  <2>1. buffer \in Seq(Compressed) /\ data \in Seq(Compressed)
    BY <1>1, BytesAre
  <2> QED
    BY <1>1, <2>1, JoinCompressed
<1> QED
  BY <1>2, <1>3 DEF Joins

\* The names of the fields of an answer.
LEMMA AnswerIs ==
    ASSUME TypeOK, NEW hash \in Seq(Compressed), Answer(hash)
    PROVE  /\ answer' \in [hash : Seq(Compressed), text : Seq(Byte), fresh : BOOLEAN]
           /\ answer'.hash = hash /\ answer'.text = text /\ answer'.fresh = fresh
           /\ fresh' = FALSE
BY DEF TypeOK, Answer

\* The digest of SHA256 in one step.
LEMMA Sha256Is ==
    ASSUME TypeOK, CalculateSHA256
    PROVE  \E zeros \in Nat, bytes \in Nat, hash \in Seq(Compressed) :
             /\ zeros = IF Len(buffer) < Boundary THEN Boundary - 1 - Len(buffer)
                        ELSE BlockSize - (Len(buffer) - Boundary) - 1
             /\ bytes = count + Len(buffer)
             /\ buffer \o <<128>> \o Zeros(zeros) \in Seq(Byte)
             /\ hash = absorbed \o (buffer \o <<128>> \o Zeros(zeros)) \o Field(alg, bytes)
             /\ absorbed' = Append(hash, Reversed)
             /\ Answer(hash)
             /\ buffer' \in Seq(Byte) /\ Len(buffer') < BlockSize
             /\ count' \in Nat
<1> DEFINE len    == Len(buffer)
           padded == buffer \o <<128>> \o Zeros(BlockSize - len - 1)
           two    == len >= Boundary
           front  == IF two THEN padded \o Zeros(Boundary)
                     ELSE SubSeq(padded, 1, Boundary)
           before == IF two THEN Counted(count) - (BlockSize - len) ELSE count
           bytes  == before + (IF two THEN 0 ELSE len)
           hash   == absorbed \o front \o SizeField(bytes)
           zeros  == IF len < Boundary THEN Boundary - 1 - len
                     ELSE BlockSize - (len - Boundary) - 1
<1>1. /\ absorbed \in Seq(Compressed) /\ buffer \in Seq(Byte) /\ len < BlockSize
      /\ count \in Nat /\ len \in Nat
  BY DEF TypeOK, Compressed
<1>2. /\ BlockSize \in Nat /\ SizeBytes \in Nat \ {0} /\ SizeBytes < BlockSize
      /\ Boundary = BlockSize - SizeBytes
  BY SizesAssumption DEF Boundary
<1>3. /\ absorbed' = Append(hash, Reversed) /\ Answer(hash)
      /\ buffer' = IF two THEN <<>> ELSE SubSeq(padded, 1, len)
      /\ count' = Counted(before) /\ alg = "SHA256"
  BY DEF CalculateSHA256
<1>4. /\ front = buffer \o <<128>> \o Zeros(zeros) /\ front \in Seq(Byte)
      /\ SubSeq(padded, 1, len) = buffer
  BY <1>1, FrontIs
<1> HIDE DEF front, padded
<1>5. zeros \in Nat /\ bytes = count + len /\ before \in Nat
  BY <1>1, <1>2, <1>3 DEF Counted
<1> HIDE DEF before, bytes, zeros
<1>6. /\ SizeField(bytes) = Field(alg, bytes) /\ Field(alg, bytes) \in Seq(Byte)
      /\ bytes \in Nat
  BY <1>1, <1>5, FieldIs
<1>7. hash \in Seq(Compressed)
  <2>1. PICK f \in Seq(Compressed), g \in Seq(Compressed) : f = front /\ g = SizeField(bytes)
    BY <1>4, <1>6, BytesAre
  <2>2. PICK h \in Seq(Compressed) : h = absorbed \o f
    BY <1>1, ConcatIs
  <2>3. h \o g \in Seq(Compressed)
    BY ConcatIs
  <2> QED
    BY <2>1, <2>2, <2>3
<1>8. hash = absorbed \o (buffer \o <<128>> \o Zeros(zeros)) \o Field(alg, bytes)
  BY <1>4, <1>6
<1>9. buffer' \in Seq(Byte) /\ Len(buffer') < BlockSize
  <2>1. CASE two
    BY <1>2, <1>3, <2>1
  <2>2. CASE ~two
    BY <1>1, <1>3, <1>4, <2>2
  <2> QED
    BY <2>1, <2>2
<1>10. count' \in Nat
  BY <1>2, <1>3, <1>5 DEF Counted
<1> HIDE DEF hash
<1>11. /\ zeros = IF Len(buffer) < Boundary THEN Boundary - 1 - Len(buffer)
                  ELSE BlockSize - (Len(buffer) - Boundary) - 1
       /\ bytes = count + Len(buffer)
  BY <1>5 DEF zeros
<1>12. /\ buffer \o <<128>> \o Zeros(zeros) \in Seq(Byte)
       /\ zeros \in Nat /\ bytes \in Nat
       /\ absorbed' = Append(hash, Reversed) /\ Answer(hash)
  BY <1>3, <1>4, <1>5, <1>6
<1> QED
  BY <1>7, <1>8, <1>9, <1>10, <1>11, <1>12, Zenon

\* Every step keeps the types.
LEMMA TypesKept ==
    ASSUME TypeOK, [Next]_vars
    PROVE  TypeOK'
<1> USE DEF Compressed
<1>1. ASSUME NEW t \in Texts, NEW n \in 0..(Len(t) - Len(text)), Add(t, n) PROVE TypeOK'
  <2>1. PICK m \in Nat : m = Len(text)
    BY DEF TypeOK
  <2>2. t \in Seq(Byte) /\ n \in Nat /\ m + n <= Len(t)
    BY <2>1, InputsAssumption
  <2>3. n % LenMod \in Nat /\ n % LenMod <= n
    BY <2>2, ModBound, SizesAssumption
  <2>4. PICK k \in Nat : k = n % LenMod /\ m + k <= Len(t)
    BY <2>2, <2>3
  <2>5. SubSeq(t, m + 1, m + k) \in Seq(Byte) /\ SubSeq(t, 1, m + n) \in Seq(Byte)
    BY <2>2, <2>4, ExtendPrefix
  <2> QED
    BY <1>1, <2>1, <2>4, <2>5 DEF TypeOK, Add
<1>2. CASE AddRound
  <2>1. Counted(count) \in Nat
    BY SizesAssumption DEF TypeOK, Counted
  <2>2. /\ absorbed' \in Seq(Compressed) /\ buffer' = <<>> /\ data' \in Seq(Byte)
    BY <1>2, RoundIs
  <2>3. <<>> \in Seq(Byte) /\ Len(<<>>) < BlockSize
    BY SizesAssumption
  <2>4. count' \in Nat /\ UNCHANGED <<alg, pc, size, text, fresh, answer>>
    BY <1>2, <2>1 DEF AddRound
  <2> QED
    BY <2>2, <2>3, <2>4 DEF TypeOK
<1>3. CASE AddReturns
  <2>1. buffer' \in Seq(Byte) /\ Len(buffer') < BlockSize
    BY <1>3, TailIs DEF AddReturns, AddTail
  <2> QED
    BY <1>3, <2>1 DEF TypeOK, AddReturns, AddTail
<1>4. CASE Calculate
  <2>1. PICK n \in Nat : n = count * BlockSize + Len(buffer)
    <3>1. count \in Nat /\ BlockSize \in Nat /\ Len(buffer) \in Nat
      BY SizesAssumption DEF TypeOK
    <3>2. count * BlockSize + Len(buffer) \in Nat
      BY <3>1
    <3> QED
      BY <3>2
  <2>2. SizeField(n) \in Seq(Byte)
    BY SizeFieldIs
  <2>3. PICK p \in 1..BlockSize : p = PaddingLen
    <3>1. PICK b \in Nat : b = Len(buffer) /\ b < BlockSize
      BY DEF TypeOK
    <3>2. PaddingLen \in 1..BlockSize
      BY <3>1, SizesAssumption DEF PaddingLen, Boundary
    <3> QED
      BY <3>2
  <2>4. SubSeq(<<128>> \o Zeros(BlockSize - 1), 1, p) \in Seq(Byte)
    BY PaddingIs
  <2> QED
    BY <1>4, <2>1, <2>2, <2>3, <2>4 DEF TypeOK, Calculate
<1>5. CASE PaddingDone
  <2>1. buffer' \in Seq(Byte) /\ Len(buffer') < BlockSize
    BY <1>5, TailIs DEF PaddingDone, AddTail
  <2> QED
    BY <1>5, <2>1 DEF TypeOK, PaddingDone, AddTail
<1>6. CASE CalculateReturns
  <2>1. buffer' \in Seq(Byte) /\ Len(buffer') < BlockSize
    BY <1>6, TailIs DEF CalculateReturns
  <2>2. absorbed \in Seq(Compressed) /\ Reversed \in Compressed
    BY DEF TypeOK
  <2>3. absorbed' \in Seq(Compressed)
    BY <1>6, <2>2 DEF CalculateReturns
  <2>4. /\ answer' \in [hash : Seq(Compressed), text : Seq(Byte), fresh : BOOLEAN]
        /\ fresh' = FALSE
    BY <1>6, <2>2, AnswerIs DEF CalculateReturns
  <2>5. /\ data' = <<>> /\ data' \in Seq(Byte) /\ pc' = "idle"
        /\ UNCHANGED <<alg, count, size, text>>
    BY <1>6 DEF CalculateReturns
  <2> QED
    BY <2>1, <2>3, <2>4, <2>5 DEF TypeOK
<1>7. CASE CalculateSHA256
  <2>1. PICK hash \in Seq(Compressed) :
          /\ absorbed' = Append(hash, Reversed) /\ Answer(hash)
          /\ buffer' \in Seq(Byte) /\ Len(buffer') < BlockSize /\ count' \in Nat
    BY <1>7, Sha256Is
  <2>2. Reversed \in Compressed
    OBVIOUS
  <2>3. absorbed' \in Seq(Compressed)
    BY <2>1, <2>2
  <2>4. /\ answer' \in [hash : Seq(Compressed), text : Seq(Byte), fresh : BOOLEAN]
        /\ fresh' = FALSE
    BY <2>1, AnswerIs
  <2> QED
    BY <1>7, <2>1, <2>3, <2>4 DEF TypeOK, CalculateSHA256
<1>8. CASE Reset
  BY <1>8, SizesAssumption DEF TypeOK, Reset
<1>9. CASE UNCHANGED vars
  BY <1>9 DEF TypeOK, vars
<1> QED
  BY <1>1, <1>2, <1>3, <1>4, <1>5, <1>6, <1>7, <1>8, <1>9 DEF Next

LEMMA TypesHold == Spec => []TypeOK
<1>1. Init => TypeOK
  BY SizesAssumption DEF Init, TypeOK
<1> QED
  BY <1>1, TypesKept, PTL DEF Spec

-----------------------------------------------------------------------------
(* The digest *)

\* Only whole blocks are compressed; what calculate adds is the padding and
\* then the length; the last digest was that of its text.
PadInv ==
    /\ TypeOK
    /\ fresh => InBlocks(Len(absorbed))
    /\ fresh /\ pc = "pad" => /\ absorbed \o buffer \o data = Filled(text)
                              /\ size = Field(alg, Len(text))
    /\ fresh /\ pc = "size" => absorbed \o buffer \o data = Whole(alg, text)
    /\ answer.fresh => answer.hash = Whole(alg, answer.text)

\* Padding begins where the text ends.
LEMMA CalculateKeepsPad ==
    ASSUME Inv, PadInv, Calculate, TypeOK'
    PROVE  PadInv'
<1>1. /\ absorbed' = absorbed /\ buffer' = buffer /\ text' = text /\ alg' = alg
      /\ fresh' = fresh /\ answer' = answer /\ pc' = "pad" /\ pc = "idle"
  BY DEF Calculate
<1>2. ASSUME fresh
      PROVE  /\ absorbed \o buffer \o data' = Filled(text)
             /\ size' = Field(alg, Len(text))
  <2>1. /\ absorbed \in Seq(Byte) /\ buffer \in Seq(Byte) /\ Len(buffer) < BlockSize
        /\ absorbed \o buffer \o data = text /\ data = <<>>
        /\ count \in Nat /\ count * BlockSize = Len(absorbed)
    BY <1>1, <1>2 DEF Inv, Adding, AddingInv, CountInv, Calculate
  <2>2. PICK r \in 0..(BlockSize - 1) : r = Len(buffer)
    <3>1. Len(buffer) \in 0..(BlockSize - 1)
      BY <2>1, SizesAssumption
    <3> QED
      BY <3>1
  <2>3. text \in Seq(Byte) /\ text = absorbed \o buffer /\ Len(text) = count * BlockSize + r
    <3>1. text = absorbed \o buffer
      BY <2>1
    <3>2. absorbed \o buffer \in Seq(Byte) /\ Len(absorbed \o buffer) = Len(absorbed) + Len(buffer)
      BY <2>1, ConcatIs
    <3> QED
      BY <2>1, <2>2, <3>1, <3>2
  <2>4. PICK z \in 0..(BlockSize - 1) :
          /\ z = ZerosFor(Len(text))
          /\ z = IF r < Boundary THEN Boundary - 1 - r ELSE BlockSize - (r - Boundary) - 1
    BY <2>1, <2>3, ZerosForIs
  <2>5. PICK p \in 1..BlockSize : p = PaddingLen /\ p - 1 = z
    <3>1. /\ BlockSize \in Nat /\ Boundary \in Int /\ Boundary < BlockSize /\ r \in Nat
      BY SizesAssumption DEF Boundary
    <3>2. PaddingLen = z + 1
      BY <2>2, <2>4, <3>1 DEF PaddingLen
    <3>3. z + 1 \in 1..BlockSize /\ (z + 1) - 1 = z
      BY <3>1
    <3> QED
      BY <3>2, <3>3
  <2>6. data' = <<128>> \o Zeros(z) /\ <<128>> \o Zeros(z) \in Seq(Byte)
    <3>1. /\ SubSeq(<<128>> \o Zeros(BlockSize - 1), 1, p) = <<128>> \o Zeros(p - 1)
          /\ <<128>> \o Zeros(p - 1) \in Seq(Byte)
      BY PaddingIs
    <3> QED
      BY <2>5, <3>1 DEF Calculate
  <2>7. text \o (<<128>> \o Zeros(z)) = (text \o <<128>>) \o Zeros(z)
    <3>1. PICK v \in Seq(Byte) : v = <<128>>
      BY Mark
    <3>2. PICK w \in Seq(Byte) : w = Zeros(z)
      <4>1. z \in Nat
        OBVIOUS
      <4> QED
        BY <4>1, ZerosAre
    <3>3. Joins(text, v, w)
      BY <2>3, JoinBytes
    <3> QED
      BY <3>1, <3>2, <3>3 DEF Joins
  <2>8. absorbed \o buffer \o data' = Filled(text)
    BY <2>3, <2>4, <2>6, <2>7 DEF Filled
  <2>9. PICK n \in Nat : n = Len(text)
    BY <2>3
  <2>10. size' = SizeField(n)
    BY <2>2, <2>3, <2>9 DEF Calculate
  <2>11. size' = Field(alg, Len(text))
    BY <2>9, <2>10, FieldIs
  <2> QED
    BY <2>8, <2>11
<1> QED
  BY <1>1, <1>2 DEF PadInv

\* Behind the padding comes the length.
LEMMA PaddingDoneKeepsPad ==
    ASSUME PadInv, PaddingDone, TypeOK'
    PROVE  PadInv'
<1>1. /\ absorbed' = absorbed /\ data' = size /\ text' = text /\ alg' = alg
      /\ fresh' = fresh /\ answer' = answer /\ pc' = "size" /\ pc = "pad"
      /\ buffer' = buffer \o data /\ Len(buffer) + Len(data) < BlockSize
  BY DEF PaddingDone, AddTail
<1>2. absorbed \o buffer' = absorbed \o buffer \o data
  BY <1>1, TailIs DEF PadInv
<1>3. ASSUME fresh PROVE absorbed \o buffer' \o size = Whole(alg, text)
  BY <1>1, <1>2, <1>3 DEF PadInv, Whole
<1> QED
  BY <1>1, <1>3 DEF PadInv

\* The padded text is whole blocks, so all of it has been compressed.
LEMMA CalculateReturnsKeepsPad ==
    ASSUME PadInv, CalculateReturns, TypeOK'
    PROVE  PadInv'
<1>1. /\ text' = text /\ alg' = alg /\ pc' = "idle" /\ pc = "size"
      /\ Len(buffer) + Len(data) < BlockSize /\ Answer(absorbed)
  BY DEF CalculateReturns
<1>2. /\ TypeOK /\ absorbed \in Seq(Compressed) /\ buffer \in Seq(Byte) /\ data \in Seq(Byte)
      /\ text \in Seq(Byte)
  BY DEF PadInv, TypeOK, Compressed
<1>3. /\ answer'.hash = absorbed /\ answer'.text = text /\ answer'.fresh = fresh
      /\ fresh' = FALSE
  BY <1>1, <1>2, AnswerIs
<1>4. ASSUME fresh PROVE absorbed = Whole(alg, text)
  <2>1. absorbed \o buffer \o data = Whole(alg, text)
    BY <1>1, <1>4 DEF PadInv
  <2>2. PICK j \in Nat : Len(absorbed) = j * BlockSize
    BY <1>4 DEF PadInv, InBlocks
  <2>3. PICK k \in Nat : Len(Whole(alg, text)) = k * BlockSize
    BY <1>2, WholeIs DEF InBlocks
  <2>4. Len(absorbed \o buffer \o data) = Len(absorbed) + (Len(buffer) + Len(data))
    <3>1. buffer \in Seq(Compressed) /\ data \in Seq(Compressed)
      BY <1>2, BytesAre
    <3>2. PICK u \in Seq(Compressed) : u = absorbed \o buffer /\ Len(u) = Len(absorbed) + Len(buffer)
      BY <1>2, <3>1, ConcatIs
    <3>3. Len(u \o data) = Len(u) + Len(data)
      BY <3>1, ConcatIs
    <3>4. Len(absorbed) \in Nat /\ Len(buffer) \in Nat /\ Len(data) \in Nat
      BY <1>2
    <3> QED
      BY <3>2, <3>3, <3>4
  <2>5. PICK l \in Nat : l = Len(buffer) + Len(data) /\ l < BlockSize
    BY <1>1, <1>2
  <2>6. BlockSize \in Nat \ {0}
    BY SizesAssumption
  <2>7. k * BlockSize = j * BlockSize + l
    BY <2>1, <2>2, <2>3, <2>4, <2>5
  <2>8. l = 0
    <3>1. (j * BlockSize + l) % BlockSize = l
      <4>1. l \in 0..(BlockSize - 1) /\ j \in Int
        BY <2>5, <2>6
      <4> QED
        BY <2>6, <4>1, QuotientIs
    <3>2. (k * BlockSize + 0) % BlockSize = 0
      <4>1. 0 \in 0..(BlockSize - 1) /\ k \in Int
        BY <2>6
      <4> QED
        BY <2>6, <4>1, QuotientIs
    <3>3. k * BlockSize + 0 = k * BlockSize
      BY <2>6
    <3> QED
      BY <2>7, <3>1, <3>2, <3>3
  <2>9. buffer = <<>> /\ data = <<>>
    <3>1. Len(buffer) = 0 /\ Len(data) = 0
      <4>1. Len(buffer) \in Nat /\ Len(data) \in Nat
        BY <1>2
      <4> QED
        BY <2>5, <2>8, <4>1
    <3> QED
      BY <1>2, <3>1
  <2>10. absorbed \o <<>> \o <<>> = absorbed
    BY <1>2
  <2> QED
    BY <2>1, <2>9, <2>10
<1> QED
  BY <1>1, <1>3, <1>4 DEF PadInv

\* SHA256 pads as the others do.
LEMMA CalculateSHA256KeepsPad ==
    ASSUME Inv, PadInv, CalculateSHA256, TypeOK'
    PROVE  PadInv'
<1>1. text' = text /\ alg' = alg /\ pc' = pc /\ pc = "idle" /\ alg = "SHA256"
  BY DEF CalculateSHA256
<1>2. PICK zeros \in Nat, bytes \in Nat, hash \in Seq(Compressed) :
        /\ zeros = IF Len(buffer) < Boundary THEN Boundary - 1 - Len(buffer)
                   ELSE BlockSize - (Len(buffer) - Boundary) - 1
        /\ bytes = count + Len(buffer)
        /\ buffer \o <<128>> \o Zeros(zeros) \in Seq(Byte)
        /\ hash = absorbed \o (buffer \o <<128>> \o Zeros(zeros)) \o Field(alg, bytes)
        /\ Answer(hash)
  BY Sha256Is DEF PadInv
<1>3. TypeOK /\ text \in Seq(Byte) /\ buffer \in Seq(Byte) /\ Len(buffer) < BlockSize
  BY DEF PadInv, TypeOK
<1>4. /\ answer'.hash = hash /\ answer'.text = text /\ answer'.fresh = fresh
      /\ fresh' = FALSE
  <2>1. TypeOK /\ Answer(hash)
    BY <1>2, <1>3
  <2> QED
    BY <2>1, AnswerIs
<1>5. ASSUME fresh PROVE hash = Whole(alg, text)
  <2>1. /\ absorbed \in Seq(Byte) /\ absorbed \o buffer \o data = text /\ data = <<>>
        /\ count = Len(absorbed)
    BY <1>1, <1>5 DEF Inv, Adding, AddingInv, CountInv
  <2>2. PICK q \in Nat : Len(absorbed) = q * BlockSize
    BY <1>5 DEF PadInv, InBlocks
  <2>3. PICK r \in 0..(BlockSize - 1) : r = Len(buffer)
    <3>1. Len(buffer) \in 0..(BlockSize - 1)
      BY <1>3, SizesAssumption
    <3> QED
      BY <3>1
  <2>4. text = absorbed \o buffer /\ Len(text) = q * BlockSize + r /\ Len(text) = bytes
    <3>1. text = absorbed \o buffer
      BY <1>3, <2>1
    <3>2. Len(absorbed \o buffer) = Len(absorbed) + Len(buffer)
      BY <1>3, <2>1, ConcatIs
    <3> QED
      BY <1>2, <2>1, <2>2, <2>3, <3>1, <3>2
  <2>5. zeros = ZerosFor(Len(text))
    <3>1. ZerosFor(q * BlockSize + r) =
            IF r < Boundary THEN Boundary - 1 - r ELSE BlockSize - (r - Boundary) - 1
      BY ZerosForIs
    <3>2. zeros = IF r < Boundary THEN Boundary - 1 - r ELSE BlockSize - (r - Boundary) - 1
      BY <1>2, <2>3
    <3> QED
      BY <2>4, <3>1, <3>2, Zenon
  <2>6. absorbed \o (buffer \o <<128>> \o Zeros(zeros)) = Filled(text)
    <3>1. PICK v \in Seq(Byte) : v = <<128>>
      BY Mark
    <3>2. PICK w \in Seq(Byte) : w = Zeros(zeros)
      BY ZerosAre
    <3>3. PICK u \in Seq(Byte) : u = buffer \o v
      BY <1>3, ConcatIs
    <3>4. Joins(absorbed, u, w) /\ Joins(absorbed, buffer, v)
      BY <1>3, <2>1, JoinBytes
    <3> QED
      BY <2>4, <2>5, <3>1, <3>2, <3>3, <3>4 DEF Filled, Joins
  <2> QED
    BY <1>2, <2>4, <2>6 DEF Whole
<1> QED
  BY <1>1, <1>4, <1>5 DEF PadInv

LEMMA PadKept ==
    ASSUME Inv, PadInv, [Next]_vars
    PROVE  PadInv'
<1>1. TypeOK'
  BY TypesKept DEF PadInv
<1>2. ASSUME NEW t \in Texts, NEW n \in 0..(Len(t) - Len(text)), Add(t, n) PROVE PadInv'
  BY <1>1, <1>2 DEF PadInv, Add
<1>3. CASE AddRound
  <2>1. /\ Len(absorbed') = Len(absorbed) + BlockSize
        /\ absorbed' \o buffer' \o data' = absorbed \o buffer \o data
    BY <1>3, RoundIs DEF PadInv
  <2>2. UNCHANGED <<alg, pc, size, text, fresh, answer>>
    BY <1>3 DEF AddRound
  <2>3. ASSUME fresh PROVE InBlocks(Len(absorbed'))
    <3>1. PICK k \in Nat : Len(absorbed) = k * BlockSize
      BY <2>3 DEF PadInv, InBlocks
    <3>2. (k + 1) * BlockSize = k * BlockSize + BlockSize /\ k + 1 \in Nat
      BY SizesAssumption, OneMore
    <3> QED
      BY <2>1, <3>1, <3>2 DEF InBlocks
  <2> QED
    BY <1>1, <2>1, <2>2, <2>3 DEF PadInv
<1>4. CASE AddReturns
  BY <1>1, <1>4 DEF PadInv, AddReturns, AddTail
<1>5. CASE Calculate
  BY <1>1, <1>5, CalculateKeepsPad
<1>6. CASE PaddingDone
  BY <1>1, <1>6, PaddingDoneKeepsPad
<1>7. CASE CalculateReturns
  BY <1>1, <1>7, CalculateReturnsKeepsPad
<1>8. CASE CalculateSHA256
  BY <1>1, <1>8, CalculateSHA256KeepsPad
<1>9. CASE Reset
  <2>1. InBlocks(Len(<<>>))
    <3>1. Len(<<>>) = 0 * BlockSize /\ 0 \in Nat
      BY SizesAssumption
    <3> QED
      BY <3>1 DEF InBlocks
  <2> QED
    BY <1>1, <1>9, <2>1 DEF PadInv, Reset
<1>10. CASE UNCHANGED vars
  BY <1>1, <1>10 DEF PadInv, vars
<1> QED
  BY <1>2, <1>3, <1>4, <1>5, <1>6, <1>7, <1>8, <1>9, <1>10 DEF Next

-----------------------------------------------------------------------------
(* What follows *)

\* For texts that the length argument can count: whatever the sizes of the
\* pieces, what was compressed, what waits and what add still holds are the
\* text, until a digest is calculated (hash.cpp:106-125, 293-307, 469-483).
THEOREM NothingIsLost ==
    ASSUME TextsCountable
    PROVE  Spec => []NothingLost
<1>1. Inv => NothingLost
  BY DEF Inv, Adding, AddingInv, NothingLost
<1> QED
  BY <1>1, Invariance, PTL

\* The count that the length field is made from never disagrees with what was
\* compressed: the counter of blocks does not wrap before the length does
\* (hash.cpp:120, 303, 479).
THEOREM CountsRight ==
    ASSUME TextsCountable
    PROVE  Spec => []CountRight
<1>1. Inv => CountRight
  BY DEF Inv, Adding, CountInv, CountRight
<1> QED
  BY <1>1, Invariance, PTL

\* For texts that the length argument can count: a digest asked for once after
\* a reset is that of the text and the padding of the RFCs, wherever the text
\* was cut and whatever the object did before; and the padding always finds
\* room in the buffer (hash.cpp:84-104, 255-275, 438-465).
THEOREM DigestsAreRight ==
    ASSUME TextsCountable
    PROVE  Spec => []PadsRight
<1>1. Init => PadInv
  <2>1. Init => TypeOK
    BY SizesAssumption DEF Init, TypeOK
  <2>2. InBlocks(Len(<<>>))
    <3>1. Len(<<>>) = 0 * BlockSize /\ 0 \in Nat
      BY SizesAssumption
    <3> QED
      BY <3>1 DEF InBlocks
  <2> QED
    BY <2>1, <2>2 DEF Init, PadInv
<1>2. Inv /\ PadInv /\ [Next]_vars => PadInv'
  BY PadKept
<1>3. PadInv => PadsRight
  <2> SUFFICES ASSUME PadInv PROVE PadsRight
    OBVIOUS
  <2>1. TypeOK /\ answer.text \in Seq(Byte)
    BY DEF PadInv, TypeOK
  <2>2. Whole(alg, answer.text) = Padded(answer.text)
    BY <2>1, WholeIs
  <2> QED
    BY <2>1, <2>2 DEF PadInv, PadsRight, DigestRight
<1> QED
  BY <1>1, <1>2, <1>3, Invariance, PTL DEF Spec
===============================================================================
