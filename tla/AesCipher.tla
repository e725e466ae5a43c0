------------------------------ MODULE AesCipher ------------------------------
(***************************************************************************)
(* AesKey and AesFun (src/src/aes.h:56-311, src/src/aes.cpp:5-445): keys,  *)
(* their schedules, one block encrypted and decrypted round by round, and  *)
(* the hash of GCM.  Two sides know one secret; each makes its own AesKey  *)
(* from it, one encrypts a block and the other decrypts it.                *)
(*                                                                         *)
(* A constructor takes many steps here, one per word; nothing interleaves  *)
(* with it.  The code built with AESNI is left out: no build defines it.   *)
(***************************************************************************)
EXTENDS AesTables, Galois, FiniteSets

CONSTANTS
    Secrets,    \* byte strings that keys are made from
    Tails,      \* bytes that memory nobody has written may hold
    Blocks,     \* blocks that are encrypted
    Pieces,     \* what is hashed in one call of ghash()
    MaxPieces   \* bound: calls of ghash() in one run

ASSUME InputsAssumption ==
    /\ Secrets \subseteq Seq(Byte) /\ Tails \subseteq Byte
    /\ Blocks \subseteq Block /\ Pieces \subseteq Seq(Byte)
    /\ MaxPieces \in Nat

Side == {"sealer", "opener"}

VARIABLES
    secret,     \* what both sides know
    type,       \* AesKey::Type: the words of a key
    keys,       \* per side: _keys_e and _keys_d, as far as they are written
    unwritten,  \* sides whose key has bytes nobody has written
    stage,      \* "keys", "encrypting", "sealed", "decrypting", "opened", "hashing"
    input,      \* the block that was given
    matrix4x4,  \* row after row
    done,       \* rounds done
    trace,      \* matrix4x4 after each round of the encryption
    H, S,       \* of GCM: the hash key and the hash
    pieces      \* what was hashed

cipher == <<stage, input, matrix4x4, done, trace>>
ghash == <<H, S, pieces>>
vars == <<secret, type, keys, unwritten, cipher, ghash>>

-----------------------------------------------------------------------------
(* AesKey                                                                   *)

Round == CASE type = 4 -> 10 [] type = 6 -> 12 [] type = 8 -> 14

arrayLength == 4 * (Round + 1)

\* The type AesKey(key, length) chooses.
TypeOf(length) == IF length <= 16 THEN 4 ELSE IF length <= 24 THEN 6 ELSE 8

\* n bytes of key, and beyond its end what lies there
Taken(key, n, beyond) == [i \in 1..n |-> IF i <= Len(key) THEN key[i] ELSE beyond]

Words(bytes) ==
    [i \in 1..Len(bytes) \div 4 |-> [j \in 1..4 |-> bytes[4 * (i - 1) + j]]]

subword(v) == [i \in 1..4 |-> aes_s_box[v[i]]]

mix(n) == subword(<<n[2], n[3], n[4], n[1]>>)

\* Fault: the third case is taken for the first when the key is long.
NextKeyMixes(e) ==
    LET i == Len(e)
        temp == IF i % type = 0 THEN Xored(mix(e[i]), <<aes_rcon[i \div type], 0, 0, 0>>)
                ELSE IF type > 6 /\ i % type = 4 THEN mix(e[i])
                ELSE e[i]
    IN  Xored(e[i - type + 1], temp)

NextKey(e) ==
    LET i == Len(e)
        temp == IF i % type = 0 THEN Xored(mix(e[i]), <<aes_rcon[i \div type], 0, 0, 0>>)
                ELSE IF type > 6 /\ i % type = 4 THEN subword(e[i])
                ELSE e[i]
    IN  Xored(e[i - type + 1], temp)

\* Fault: the loop stops one round key early.
ReversedShort(e) ==
    [i \in 1..Len(e) - 4 |-> e[Len(e) - 4 * ((i - 1) \div 4) - 4 + ((i - 1) % 4) + 1]]

\* Fault: the words are reversed, not the groups of four.
ReversedWords(e) == [i \in 1..Len(e) |-> e[Len(e) - i + 1]]

\* The round keys, the last one first
Reversed(e) ==
    [i \in 1..Len(e) |-> e[Len(e) - 4 * ((i - 1) \div 4) - 4 + ((i - 1) % 4) + 1]]

InConstructor(s) == keys[s].e # <<>> /\ keys[s].d = <<>>
Usable(s) == keys[s].d # <<>>

\* _init begins: the key is copied into the first words.
Construct(s, bytes) ==
    /\ stage = "keys"
    /\ \A t \in Side : ~InConstructor(t)
    /\ keys[s].e = <<>>
    /\ keys' = [keys EXCEPT ![s].e = Words(bytes)]
    /\ UNCHANGED <<secret, type, cipher, ghash>>

\* AesKey(key, length): the rest of a short key is 0.
FromLength(s) ==
    /\ TypeOf(Len(secret)) = type
    /\ Construct(s, Taken(secret, 4 * type, 0))
    /\ UNCHANGED unwritten

\* AesKey(const char*, Type): the caller sees to it that key is long enough.
FromPointer(s) ==
    /\ Len(secret) >= 4 * type
    /\ Construct(s, Taken(secret, 4 * type, 0))
    /\ UNCHANGED unwritten

\* AesKey(const btring&, Type): resize() writes nothing to what it adds.
FromBtring(s, tail) ==
    /\ Construct(s, Taken(secret, 4 * type, tail))
    /\ unwritten' = IF Len(secret) < 4 * type THEN unwritten \cup {s} ELSE unwritten

ExpandKey(s) ==
    /\ InConstructor(s)
    /\ Len(keys[s].e) < arrayLength
    /\ keys' = [keys EXCEPT ![s].e = Append(@, NextKey(@))]
    /\ UNCHANGED <<secret, type, unwritten, cipher, ghash>>

ReverseKey(s) ==
    /\ InConstructor(s)
    /\ Len(keys[s].e) = arrayLength
    /\ keys' = [keys EXCEPT ![s].d = Reversed(keys[s].e)]
    /\ UNCHANGED <<secret, type, unwritten, cipher, ghash>>

-----------------------------------------------------------------------------
(* AesFun                                                                   *)

\* char2matrix4x4, which is its own inverse
char2matrix(b) == [i \in 1..16 |-> b[4 * ((i - 1) % 4) + ((i - 1) \div 4) + 1]]

subbytes(m) == [i \in 1..16 |-> aes_s_box[m[i]]]
invsubbytes(m) == [i \in 1..16 |-> aes_inv_s_box[m[i]]]

\* Row r is rotated to the left by by[r].
Rotated(m, by) ==
    [i \in 1..16 |->
        LET r == (i - 1) \div 4 IN m[4 * r + ((i - 1 + by[r + 1]) % 4) + 1]]
shiftrows(m) == Rotated(m, <<0, 1, 2, 3>>)
invshiftrows(m) == Rotated(m, <<0, 3, 2, 1>>)

\* The columns of m, each made anew by column(arr)
EachColumn(m, column(_)) ==
    LET made == [i \in 1..4 |-> column([j \in 1..4 |-> m[4 * (j - 1) + i]])]
    IN  [i \in 1..16 |-> made[((i - 1) % 4) + 1][((i - 1) \div 4) + 1]]

Sum4(a, b, c, d) == XorTable[XorTable[a][b]][XorTable[c][d]]

mixcolumns(m) ==
    EachColumn(m, LAMBDA arr :
        << Sum4(gm_2[arr[1]], gm_3[arr[2]], arr[3], arr[4]),
           Sum4(arr[1], gm_2[arr[2]], gm_3[arr[3]], arr[4]),
           Sum4(arr[1], arr[2], gm_2[arr[3]], gm_3[arr[4]]),
           Sum4(gm_3[arr[1]], arr[2], arr[3], gm_2[arr[4]]) >>)

invmixcolumns(m) ==
    EachColumn(m, LAMBDA arr :
        << Sum4(gm_E[arr[1]], gm_B[arr[2]], gm_D[arr[3]], gm_9[arr[4]]),
           Sum4(gm_9[arr[1]], gm_E[arr[2]], gm_B[arr[3]], gm_D[arr[4]]),
           Sum4(gm_D[arr[1]], gm_9[arr[2]], gm_E[arr[3]], gm_B[arr[4]]),
           Sum4(gm_B[arr[1]], gm_D[arr[2]], gm_9[arr[3]], gm_E[arr[4]]) >>)

\* Words 4 * j + 1 to 4 * j + 4 of the round keys
addroundkey(m, rk, j) ==
    [i \in 1..16 |-> XorTable[m[i]][rk[4 * j + ((i - 1) % 4) + 1][((i - 1) \div 4) + 1]]]

\* encrypt_block, before and in its loop, and after it
EncryptBegins(b) ==
    /\ stage = "keys" /\ \A s \in Side : Usable(s)
    /\ stage' = "encrypting"
    /\ input' = b
    /\ matrix4x4' = addroundkey(char2matrix(b), keys["sealer"].e, 0)
    /\ done' = 0
    /\ trace' = <<matrix4x4'>>
    /\ UNCHANGED <<secret, type, keys, unwritten, ghash>>

EncryptStep(m) ==
    /\ matrix4x4' = addroundkey(m, keys["sealer"].e, done + 1)
    /\ done' = done + 1
    /\ trace' = Append(trace, matrix4x4')
    /\ UNCHANGED <<secret, type, keys, unwritten, input, ghash>>

EncryptRound ==
    /\ stage = "encrypting" /\ done + 1 < Round
    /\ EncryptStep(mixcolumns(shiftrows(subbytes(matrix4x4))))
    /\ UNCHANGED stage

EncryptEnds ==
    /\ stage = "encrypting" /\ done + 1 = Round
    /\ EncryptStep(shiftrows(subbytes(matrix4x4)))
    /\ stage' = "sealed"

\* decrypt_block, likewise
DecryptBegins ==
    /\ stage = "sealed"
    /\ stage' = "decrypting"
    /\ input' = char2matrix(matrix4x4)
    /\ matrix4x4' = addroundkey(char2matrix(input'), keys["opener"].d, 0)
    /\ done' = 0
    /\ UNCHANGED <<secret, type, keys, unwritten, trace, ghash>>

\* Fault: the columns are mixed before the round key is added.
DecryptRoundMixesFirst ==
    /\ stage = "decrypting" /\ done + 1 < Round
    /\ matrix4x4' = addroundkey(invmixcolumns(invsubbytes(invshiftrows(matrix4x4))),
                                keys["opener"].d, done + 1)
    /\ done' = done + 1
    /\ UNCHANGED <<secret, type, keys, unwritten, stage, input, trace, ghash>>

DecryptRound ==
    /\ stage = "decrypting" /\ done + 1 < Round
    /\ matrix4x4' = invmixcolumns(addroundkey(invsubbytes(invshiftrows(matrix4x4)),
                                              keys["opener"].d, done + 1))
    /\ done' = done + 1
    /\ UNCHANGED <<secret, type, keys, unwritten, stage, input, trace, ghash>>

DecryptEnds ==
    /\ stage = "decrypting" /\ done + 1 = Round
    /\ stage' = "opened"
    /\ matrix4x4' = addroundkey(invshiftrows(invsubbytes(matrix4x4)),
                                keys["opener"].d, done + 1)
    /\ done' = done + 1
    /\ UNCHANGED <<secret, type, keys, unwritten, input, trace, ghash>>

-----------------------------------------------------------------------------
(* The hash of GCM                                                          *)

\* The bits of a block that are set, its highest one being number 0
Bits(b) == {k \in 0..127 : (b[(k \div 8) + 1] \div 2^(7 - (k % 8))) % 2 = 1}

xor_128block(P, Q) == (P \ Q) \cup (Q \ P)

shift_right_block(v) == {k + 1 : k \in v \ {127}}

\* Fault: the polynomial is not taken off when v overflows.
NextVOverflows(v) == shift_right_block(v)

\* 0xe1 goes to the first byte.
NextV(v) ==
    IF 127 \in v THEN xor_128block(shift_right_block(v), {0, 1, 2, 7})
    ELSE shift_right_block(v)

\* The inner loop: z and v after the 8 bits of x from number first on
EightBits(x, first, zv) ==
    LET loop[j \in 0..8] ==
            IF j = 0 THEN zv
            ELSE LET last == loop[j - 1] IN
                 [z |-> IF first + j - 1 \in x THEN xor_128block(last.z, last.v)
                        ELSE last.z,
                  v |-> NextV(last.v)]
    IN  loop[8]

\* (TLC evaluates a bound variable at once, an argument where it is used.)
g_num128(x, y) ==
    LET loop[i \in 0..16] ==
            IF i = 0 THEN [z |-> {}, v |-> y]
            ELSE CHOOSE zv \in {EightBits(x, 8 * (i - 1), last) : last \in {loop[i - 1]}} : TRUE
    IN  loop[16].z

\* The blocks of x, the last one filled with zeros
BlocksOf(x) ==
    [i \in 1..(Len(x) + 15) \div 16 |-> Taken(SubSeq(x, 16 * (i - 1) + 1, Len(x)), 16, 0)]

Hashed(s, bs) ==
    LET y[i \in 0..Len(bs)] ==
            IF i = 0 THEN s
            ELSE CHOOSE z \in {g_num128(x, H) : x \in {xor_128block(y[i - 1], Bits(bs[i]))}} : TRUE
    IN  y[Len(bs)]

\* The constructor of AesGCMEncryption: H is the encrypted zero block.
HashBegins ==
    /\ stage = "sealed" /\ input = Zeros(16)
    /\ stage' = "hashing"
    /\ H' = Bits(char2matrix(matrix4x4))
    /\ S' = {}
    /\ pieces' = <<>>
    /\ UNCHANGED <<secret, type, keys, unwritten, input, matrix4x4, done, trace>>

\* ghash(x, xlen)
Hash(x) ==
    /\ stage = "hashing" /\ Len(pieces) < MaxPieces
    /\ S' = Hashed(S, BlocksOf(x))
    /\ pieces' = Append(pieces, x)
    /\ UNCHANGED <<secret, type, keys, unwritten, cipher, H>>

-----------------------------------------------------------------------------

Init ==
    /\ secret \in Secrets
    /\ type \in {4, 6, 8}
    /\ keys = [s \in Side |-> [e |-> <<>>, d |-> <<>>]]
    /\ unwritten = {}
    /\ stage = "keys"
    /\ input = Zeros(16) /\ matrix4x4 = Zeros(16)
    /\ done = 0 /\ trace = <<>>
    /\ H = {} /\ S = {} /\ pieces = <<>>

KeyStep(s) ==
    \/ FromLength(s) \/ FromPointer(s) \/ ExpandKey(s) \/ ReverseKey(s)
    \/ \E tail \in Tails : FromBtring(s, tail)

\* The text has been read, or enough has been hashed.
Finished ==
    /\ stage = "opened" \/ (stage = "hashing" /\ Len(pieces) = MaxPieces)
    /\ UNCHANGED vars

Next ==
    \/ \E s \in Side : KeyStep(s)
    \/ \E b \in Blocks : EncryptBegins(b)
    \/ EncryptRound \/ EncryptEnds
    \/ DecryptBegins \/ DecryptRound \/ DecryptEnds
    \/ HashBegins
    \/ \E x \in Pieces : Hash(x)
    \/ Finished

Spec == Init /\ [][Next]_vars

-----------------------------------------------------------------------------

Keys == [e : Seq(Word), d : Seq(Word)]

TypeOK ==
    /\ secret \in Secrets /\ type \in {4, 6, 8}
    /\ keys \in [Side -> Keys]
    /\ \A s \in Side : /\ Len(keys[s].e) <= arrayLength
                       /\ Usable(s) => Len(keys[s].d) = arrayLength
    /\ unwritten \subseteq Side
    /\ stage \in {"keys", "encrypting", "sealed", "decrypting", "opened", "hashing"}
    /\ input \in Block /\ matrix4x4 \in Block
    /\ done \in 0..Round
    /\ trace \in Seq(Block)
    /\ H \subseteq 0..127 /\ S \subseteq 0..127
    /\ pieces \in Seq(Pieces)

\* The standard's state is column after column, the code's matrix row after row.
Standard == INSTANCE Fips197 WITH
    Nk    <- type,
    w     <- [s \in Side |-> keys[s].e],
    doing <- CASE stage \in {"encrypting", "sealed", "hashing"} -> "cipher"
               [] stage \in {"decrypting", "opened"} -> "inverse"
               [] OTHER -> "nothing",
    state <- char2matrix(matrix4x4),
    round <- done

\* Closed facts again, which TLC evaluates: the tables hold what the
\* standard's definitions give.
TablesStandard ==
    /\ aes_s_box = SBox /\ aes_inv_s_box = InvSBox
    /\ Multiples[1] = [x \in Byte |-> x] /\ Multiples[2] = gm_2 /\ Multiples[3] = gm_3
    /\ Multiples[9] = gm_9 /\ Multiples[11] = gm_B
    /\ Multiples[13] = gm_D /\ Multiples[14] = gm_E
    /\ \A j \in 1..10 : Standard!Rcon(j) = <<aes_rcon[j], 0, 0, 0>>

ASSUME StandardAssumption == TablesStandard

(***************************************************************************)
(* The tables, the matrix that holds the state row by row and the reversed *)
(* schedule compute FIPS 197, for each of the three key sizes: every word  *)
(* of a schedule, every round of encryption and of decryption.             *)
(***************************************************************************)
ImplementsFips197 == Standard!Spec

(***************************************************************************)
(* With equal keys the decryption goes back the way the encryption came:   *)
(* after j rounds its matrix is what the encryption had half way through   *)
(* its round Round - j.                                                    *)
(***************************************************************************)
DecryptRetraces ==
    stage = "decrypting" /\ keys["sealer"].e = keys["opener"].e =>
        matrix4x4 = shiftrows(subbytes(trace[Round - done]))

(***************************************************************************)
(* Two keys made from the same bytes open what the other has sealed,       *)
(* whichever constructors made them, short and long keys alike; only a     *)
(* btring with fewer bytes than the key needs is no such key, as resize()  *)
(* leaves what it adds unwritten.                                          *)
(***************************************************************************)
OpensAgain ==
    stage = "opened" /\ unwritten = {} =>
        addroundkey(matrix4x4, keys["sealer"].e, 0) = trace[1]

(***************************************************************************)
(* The block and both schedules keep their sizes, and a block is opened    *)
(* along the way it was sealed (aes.h:252-302, aes.cpp:318-357).           *)
(***************************************************************************)
RoundsUndone == TypeOK /\ DecryptRetraces

-----------------------------------------------------------------------------
(* GHASH by its definition: bit k of a block is the coefficient of x^k, and *)
(* products are those of polynomials modulo x^128 + x^7 + x^2 + x + 1.      *)

\* k occurs an odd number of times among the sums of exponents.
Unreduced(P, Q) ==
    {k \in 0..254 : Cardinality({i \in P : k - i \in Q}) % 2 = 1}

\* x^128 and what is above it, replaced by x^7 + x^2 + x + 1 and what is above
Folded(P) ==
    LET high == {k - 128 : k \in P \ 0..127}
        times(n) == {k + n : k \in high}
    IN  xor_128block(xor_128block(xor_128block(P \cap 0..127, times(0)), times(1)),
                     xor_128block(times(2), times(7)))

PolyTimes(P, Q) == Folded(Folded(Unreduced(P, Q)))

\* The blocks of all the pieces, one piece after the other
AllBlocks ==
    LET upTo[i \in 0..Len(pieces)] ==
            IF i = 0 THEN <<>> ELSE upTo[i - 1] \o BlocksOf(pieces[i])
    IN  upTo[Len(pieces)]

(***************************************************************************)
(* S is the sum of the blocks of everything hashed so far, each times a    *)
(* power of H, the last times H itself: one bit after the other gives the  *)
(* product of polynomials, and where a call ends within a block the rest   *)
(* of it is zero.                                                          *)
(***************************************************************************)
HashIsSum ==
    stage = "hashing" =>
        LET bs == AllBlocks
            power[k \in 1..Len(bs)] == IF k = 1 THEN H ELSE PolyTimes(power[k - 1], H)
            sum[n \in 0..Len(bs)] ==
                IF n = 0 THEN {}
                ELSE xor_128block(sum[n - 1],
                                  PolyTimes(Bits(bs[n]), power[Len(bs) - n + 1]))
        IN  S = sum[Len(bs)]
=============================================================================
