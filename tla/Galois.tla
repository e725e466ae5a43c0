------------------------------- MODULE Galois --------------------------------
(***************************************************************************)
(* The field of FIPS 197, section 4: a byte is a polynomial over GF(2)     *)
(* modulo x^8 + x^4 + x^3 + x + 1.  The S-box is made from it as the       *)
(* standard says, by inversion and an affine map.                          *)
(***************************************************************************)
EXTENDS Bytes

Plus(a, b) == XorTable[a][b]

XTime(a) == IF a < 128 THEN 2 * a ELSE Plus(2 * a - 256, 27)

\* a times the polynomial whose bits are those of b
Times(a, b) ==
    LET power[k \in 0..7] == IF k = 0 THEN a ELSE XTime(power[k - 1])
        sum[k \in 0..8] ==
            IF k = 0 THEN 0
            ELSE IF (b \div 2^(k - 1)) % 2 = 1 THEN Plus(sum[k - 1], power[k - 1])
            ELSE sum[k - 1]
    IN  sum[8]

Inverted(a) == IF a = 0 THEN 0 ELSE CHOOSE b \in Byte : Times(a, b) = 1

\* Bit k of the result is the sum of bits k, k+4, k+5, k+6 and k+7, and of 0x63.
Affine(a) ==
    LET bit(k) == (a \div 2^(k % 8)) % 2
        sum(k) == (bit(k) + bit(k + 4) + bit(k + 5) + bit(k + 6) + bit(k + 7)) % 2
    IN  Plus(99, sum(0) + 2 * sum(1) + 4 * sum(2) + 8 * sum(3)
                   + 16 * sum(4) + 32 * sum(5) + 64 * sum(6) + 128 * sum(7))

SBox == [x \in Byte |-> Affine(Inverted(x))]
InvSBox == [y \in Byte |-> CHOOSE x \in Byte : SBox[x] = y]

Multiples == [c \in 1..14 |-> [x \in Byte |-> Times(c, x)]]
=============================================================================
