------------------------------- MODULE Codec --------------------------------
(***************************************************************************)
(* Hex and Base64 (src/src/trans.h, src/src/trans.cpp): bytes to text and  *)
(* back.  Characters are their codes.  The functions have no state; the    *)
(* caller has: the bytes it encodes, the text, and what it decodes.        *)
(*                                                                         *)
(* Shifts and masks are written with \div, * and %: the operands of every  *)
(* | in the code have no bit in common, so | is +.                         *)
(***************************************************************************)
EXTENDS Integers, Sequences

CONSTANTS
    Given,      \* byte strings the caller encodes
    Typed,      \* texts the caller has from elsewhere
    Word,       \* a size_t counts modulo Word; 2^64 in the code
    Unknown     \* what lies behind the end of a table

Byte == 0..255

ASSUME GivenAssumption ==
    /\ Given \subseteq Seq(Byte) /\ Typed \subseteq Seq(Byte)
    /\ Word \in Nat
    /\ \A m \in Given : 2 * Len(m) + 4 < Word
    /\ \A t \in Typed : Len(t) < Word
    /\ Unknown \notin Byte

VARIABLES
    stage,      \* what the caller has done: "start", "encoded", "typed", "decoded", "crashed"
    kind,       \* "hex" or "base64"
    option,     \* capital, or safe
    mem,        \* the bytes that were encoded
    text,
    back        \* the bytes that were decoded

vars == <<stage, kind, option, mem, text, back>>

-----------------------------------------------------------------------------
(* Hex                                                                      *)

\* Fault: capital and small letters are mistaken for each other.
HexTransSwapped(x, up) ==
    IF x > 9 THEN x + (IF up THEN 87 ELSE 55) ELSE x + 48

HEX_TRANS(x, up) ==
    IF x > 9 THEN x + (IF up THEN 55 ELSE 87) ELSE x + 48

STR_TRANS(x) ==
    IF x < 64 THEN x - 48
    ELSE IF x < 71 THEN x - 55
    ELSE IF x < 103 THEN x - 87
    ELSE 16

\* Byte (j + 1) \div 2 makes character j: its high digit, then its low one.
HexEncode(m, up) ==
    [j \in 1..2 * Len(m) |->
        LET b == m[(j + 1) \div 2] IN
        HEX_TRANS(IF j % 2 = 1 THEN b \div 16 ELSE b % 16, up)]

\* Fault: a last digit that stands alone is taken for the low one.
HexDecodeLow(t) ==
    [i \in 1..(Len(t) + 1) \div 2 |->
        IF 2 * i <= Len(t)
        THEN (STR_TRANS(t[2 * i - 1]) * 16 + STR_TRANS(t[2 * i])) % 256
        ELSE STR_TRANS(t[2 * i - 1]) % 256]

\* An odd length leaves the last digit the high one of its byte.
HexDecode(t) ==
    [i \in 1..(Len(t) + 1) \div 2 |->
        (STR_TRANS(t[2 * i - 1]) * 16
           + (IF 2 * i <= Len(t) THEN STR_TRANS(t[2 * i]) ELSE 0)) % 256]

-----------------------------------------------------------------------------
(* Base64                                                                   *)

Pad == 61       \* '='

\* b64_table and b64_safe_table
Character(x, safe) ==
    IF x < 26 THEN x + 65
    ELSE IF x < 52 THEN x + 71
    ELSE IF x < 62 THEN x - 4
    ELSE IF x = 62 THEN (IF safe THEN 45 ELSE 43)
    ELSE IF x = 63 THEN (IF safe THEN 95 ELSE 47)
    ELSE Unknown

\* b64_detable and b64_safe_detable, 128 entries each
Digit(c, safe) ==
    IF c \in 65..90 THEN c - 65
    ELSE IF c \in 97..122 THEN c - 71
    ELSE IF c \in 48..57 THEN c + 4
    ELSE IF c = (IF safe THEN 45 ELSE 43) THEN 62
    ELSE IF c = (IF safe THEN 95 ELSE 47) THEN 63
    ELSE IF c = Pad THEN 61
    ELSE IF c < 128 THEN 0
    ELSE Unknown

\* Fault: & 0x3f is forgotten.
enblockUnmasked(a, b, c) ==
    << a \div 4, a * 16 + b \div 16, b * 4 + c \div 64, c % 64 >>

enblock(a, b, c) ==
    << a \div 4, (a * 16 + b \div 16) % 64, (b * 4 + c \div 64) % 64, c % 64 >>

\* Fault: the second digit gives the first byte all its high bits.
deblockUnmasked(r, x, y) ==
    IF r = 1 THEN (x * 4 + y \div 4) % 256
    ELSE IF r = 2 THEN (x * 16 + y \div 4) % 256
    ELSE (x * 64 + y) % 256

\* Byte r of a block, which is made of digits r and r + 1.  The mask 0x30
\* leaves two bits of the second digit.
deblock(r, x, y) ==
    IF r = 1 THEN (x * 4 + ((y \div 16) % 4)) % 256
    ELSE IF r = 2 THEN (x * 16 + y \div 4) % 256
    ELSE (x * 64 + y) % 256

\* temp[3] = { 0 } beyond the end of the data
ByteOrZero(m, i) == IF i <= Len(m) THEN m[i] ELSE 0

\* The characters of '=' at the end of the encoded m
Padding(m) == (3 - (Len(m) % 3)) % 3

Base64Encode(m, safe) ==
    LET length == ((Len(m) + 2) \div 3) * 4
        digit(j) ==
            LET i == ((j - 1) \div 4) * 3 IN
            enblock(ByteOrZero(m, i + 1), ByteOrZero(m, i + 2), ByteOrZero(m, i + 3))
                [((j - 1) % 4) + 1]
    IN  [j \in 1..length |-> IF j > length - Padding(m) THEN Pad
                             ELSE Character(digit(j), safe)]

\* How often the loop over all blocks but the last runs.
Whole(n) == (n \div 4 - 1) % Word

\* Fault: an empty text is not sent back at once.
InBoundsEmpty(t) == Whole(Len(t)) * 4 <= Len(t)

\* The loop stays inside the two strings.
InBounds(t) == t = <<>> \/ Whole(Len(t)) * 4 <= Len(t)

Pads(t) ==
    IF t[Len(t)] # Pad THEN 0 ELSE IF t[Len(t) - 1] = Pad THEN 2 ELSE 1

\* Where the last block starts: counted from the end, the others from 0.
BlockStart(t, k) == IF k < Whole(Len(t)) THEN 4 * k ELSE Len(t) - 4

Base64Decode(t, safe) ==
    LET length == (Len(t) \div 4) * 3
        byte(j) ==
            LET s == BlockStart(t, (j - 1) \div 3)
                r == ((j - 1) % 3) + 1
                x == Digit(t[s + r], safe)
                y == Digit(t[s + r + 1], safe)
            IN  IF Unknown \in {x, y} THEN Unknown ELSE deblock(r, x, y)
    IN  IF t = <<>> THEN <<>> ELSE [j \in 1..length - Pads(t) |-> byte(j)]

-----------------------------------------------------------------------------

EncodeAs(k, m, o) == IF k = "hex" THEN HexEncode(m, o) ELSE Base64Encode(m, o)
DecodeAs(k, t, o) == IF k = "hex" THEN HexDecode(t) ELSE Base64Decode(t, o)

Init ==
    /\ stage = "start"
    /\ kind \in {"hex", "base64"}
    /\ option \in BOOLEAN
    /\ mem = <<>> /\ text = <<>> /\ back = <<>>

Encode(m) ==
    /\ stage = "start"
    /\ stage' = "encoded"
    /\ mem' = m
    /\ text' = EncodeAs(kind, m, option)
    /\ UNCHANGED <<kind, option, back>>

Type(t) ==
    /\ stage = "start"
    /\ stage' = "typed"
    /\ text' = t
    /\ UNCHANGED <<kind, option, mem, back>>

\* With fewer than four characters the loop runs into nullptr.
Decode ==
    /\ stage \in {"encoded", "typed"}
    /\ IF kind = "hex" \/ InBounds(text)
       THEN stage' = "decoded" /\ back' = DecodeAs(kind, text, option)
       ELSE stage' = "crashed" /\ UNCHANGED back
    /\ UNCHANGED <<kind, option, mem, text>>

\* The caller has what it wanted, or nothing any more.
Finished == stage \in {"decoded", "crashed"} /\ UNCHANGED vars

Next ==
    \/ \E m \in Given : Encode(m)
    \/ \E t \in Typed : Type(t)
    \/ Decode
    \/ Finished

Spec == Init /\ [][Next]_vars

-----------------------------------------------------------------------------

TypeOK ==
    /\ stage \in {"start", "encoded", "typed", "decoded", "crashed"}
    /\ kind \in {"hex", "base64"}
    /\ option \in BOOLEAN
    /\ mem \in Seq(Byte)
    /\ text \in Seq(Byte)
    /\ back \in Seq(Byte \cup {Unknown})

(***************************************************************************)
(* A text that is the encoding of some bytes is decoded to those bytes,    *)
(* whatever their number and whichever letters or alphabet were asked for. *)
(***************************************************************************)
RoundTrips == stage = "decoded" /\ text = EncodeAs(kind, mem, option) => back = mem

\* The bits of m from the highest of its first byte on, zeros after the end.
Bit(m, k) ==
    IF k > 8 * Len(m) THEN 0
    ELSE (m[(k + 7) \div 8] \div 2^((8 - (k % 8)) % 8)) % 2

\* The number that bits k + 1 to k + n are.
Number(m, k, n) ==
    LET sum[i \in 0..n] == IF i = 0 THEN 0 ELSE 2 * sum[i - 1] + Bit(m, k + i) IN sum[n]

Letters(from, n) == [i \in 1..n |-> from + i - 1]
HexAlphabet(up) == Letters(48, 10) \o Letters(IF up THEN 65 ELSE 97, 6)
Alphabet(safe) ==
    Letters(65, 26) \o Letters(97, 26) \o Letters(48, 10)
        \o (IF safe THEN <<45, 95>> ELSE <<43, 47>>)

\* RFC 4648: digits of n bits, as many as it takes, filled with '='.
Reference(m, n, alphabet, multiple) ==
    LET digits == (8 * Len(m) + n - 1) \div n
        length == ((digits + multiple - 1) \div multiple) * multiple
    IN  [j \in 1..length |-> IF j <= digits THEN alphabet[Number(m, n * (j - 1), n) + 1]
                            ELSE Pad]

(***************************************************************************)
(* The shifts, masks and tables write the text the standard gives for the  *)
(* bytes: groups of 4 or 6 bits, the highest first, in the alphabet asked  *)
(* for, the last group filled with zeros and the text with '='.            *)
(***************************************************************************)
EncodesRight ==
    stage = "encoded" =>
        text = IF kind = "hex" THEN Reference(mem, 4, HexAlphabet(option), 2)
               ELSE Reference(mem, 6, Alphabet(option), 4)

IsHex(c) == c \in 48..57 \cup 65..70 \cup 97..102
HexValue(c) == CHOOSE x \in 0..15 : \E up \in BOOLEAN : HexAlphabet(up)[x + 1] = c

(***************************************************************************)
(* Hexadecimal text is read digit by digit, large and small letters alike  *)
(* and mixed; a last digit without a partner is the high half of its byte. *)
(***************************************************************************)
HexReadsRight ==
    stage = "decoded" /\ kind = "hex" /\ (\A j \in 1..Len(text) : IsHex(text[j])) =>
        /\ Len(back) = (Len(text) + 1) \div 2
        /\ \A j \in 1..2 * Len(back) :
               Number(back, 4 * (j - 1), 4) =
                   IF j <= Len(text) THEN HexValue(text[j]) ELSE 0

(***************************************************************************)
(* The digits, both ways, and bytes that are bytes (trans.cpp:12-139).     *)
(***************************************************************************)
DigitsRight == TypeOK /\ EncodesRight /\ HexReadsRight

(***************************************************************************)
(* Decoding leaves its strings for one reason only, a Base64 text of one   *)
(* to three characters, and its table for one only, a character above 127. *)
(***************************************************************************)
StaysInside ==
    /\ stage = "crashed" => kind = "base64" /\ Len(text) \in 1..3
    /\ (\E i \in 1..Len(back) : back[i] = Unknown)
          => kind = "base64" /\ \E j \in 1..Len(text) : text[j] > 127
=============================================================================
