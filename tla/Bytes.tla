-------------------------------- MODULE Bytes --------------------------------
(***************************************************************************)
(* Bytes and their exclusive or, one by one and along sequences.           *)
(***************************************************************************)
EXTENDS Integers, Sequences

Byte == 0..255

Word == [1..4 -> Byte]      \* a uint32_t, its highest byte first
Block == [1..16 -> Byte]

\* The sum of the bits modulo 2, each at its weight
XorTable ==
    [a \in Byte |-> [b \in Byte |->
        LET bit(n) == ((a \div n + b \div n) % 2) * n IN
        bit(1) + bit(2) + bit(4) + bit(8) + bit(16) + bit(32) + bit(64) + bit(128)]]

Xored(s, t) == [i \in 1..Len(s) |-> XorTable[s[i]][t[i]]]

Zeros(n) == [i \in 1..n |-> 0]
=============================================================================
