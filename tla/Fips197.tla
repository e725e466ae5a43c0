------------------------------- MODULE Fips197 -------------------------------
(***************************************************************************)
(* What a block cipher of this name promises: FIPS 197 over the field of   *)
(* module Galois.  The state is 16 bytes, column after column.  Each side  *)
(* has a key schedule of its own.                                          *)
(***************************************************************************)
EXTENDS Bytes

CONSTANTS
    Side,
    Plus(_, _),         \* the sum of two bytes
    XTime(_),           \* a byte times x
    Multiples,          \* products with the numbers up to 14
    SBox, InvSBox

VARIABLES
    Nk,         \* words of a key
    w,          \* per side: its schedule, as far as it is made
    doing,      \* "nothing", "cipher" or "inverse"
    input,      \* the block that was given
    state,
    round       \* rounds done

Nr == Nk + 6

-----------------------------------------------------------------------------
(* The transformations.  Row r and column c of the state are its byte       *)
(* 4 * c + r, both counted from 0.                                          *)

Row(i) == (i - 1) % 4
Col(i) == (i - 1) \div 4
At(s, r, c) == s[4 * c + r + 1]

SubBytes(s) == [i \in 1..16 |-> SBox[s[i]]]
InvSubBytes(s) == [i \in 1..16 |-> InvSBox[s[i]]]
ShiftRows(s) == [i \in 1..16 |-> At(s, Row(i), (Col(i) + Row(i)) % 4)]
InvShiftRows(s) == [i \in 1..16 |-> At(s, Row(i), (Col(i) - Row(i)) % 4)]

\* Each column times the polynomial with these coefficients, modulo y^4 + 1
Mixed(s, a) ==
    [i \in 1..16 |->
        LET term(k) == Multiples[a[k + 1]][At(s, (Row(i) - k) % 4, Col(i))] IN
        Plus(Plus(term(0), term(1)), Plus(term(2), term(3)))]
MixColumns(s) == Mixed(s, <<2, 1, 1, 3>>)
InvMixColumns(s) == Mixed(s, <<14, 9, 13, 11>>)

AddRoundKey(s, ws, j) == [i \in 1..16 |-> Plus(s[i], ws[4 * j + Col(i) + 1][Row(i) + 1])]

-----------------------------------------------------------------------------
(* The key schedule                                                         *)

WordSum(s, t) == [i \in 1..4 |-> Plus(s[i], t[i])]
RotWord(t) == <<t[2], t[3], t[4], t[1]>>
SubWord(t) == [i \in 1..4 |-> SBox[t[i]]]
Rcon(j) ==
    LET power[k \in 1..j] == IF k = 1 THEN 1 ELSE XTime(power[k - 1])
    IN  <<power[j], 0, 0, 0>>

NextWord(ws) ==
    LET i == Len(ws)
        t == ws[i]
        temp == IF i % Nk = 0 THEN WordSum(SubWord(RotWord(t)), Rcon(i \div Nk))
                ELSE IF Nk > 6 /\ i % Nk = 4 THEN SubWord(t)
                ELSE t
    IN  WordSum(ws[i - Nk + 1], temp)

Complete(s) == Len(w[s]) = 4 * (Nr + 1)

-----------------------------------------------------------------------------

Init ==
    /\ Nk \in {4, 6, 8}
    /\ w = [s \in Side |-> <<>>]
    /\ doing = "nothing" /\ input = Zeros(16) /\ state = Zeros(16) /\ round = 0

\* The key is cut into words.
Key(s) ==
    /\ w[s] = <<>>
    /\ Len(w'[s]) = Nk /\ \A i \in 1..Nk : w'[s][i] \in Word
    /\ w' = [w EXCEPT ![s] = w'[s]]
    /\ UNCHANGED <<Nk, doing, input, state, round>>

Extend(s) ==
    /\ w[s] # <<>> /\ ~Complete(s)
    /\ w' = [w EXCEPT ![s] = Append(@, NextWord(@))]
    /\ UNCHANGED <<Nk, doing, input, state, round>>

Begin(s, what, j) ==
    /\ Complete(s)
    /\ doing' = what
    /\ input' \in Block
    /\ state' = AddRoundKey(input', w[s], j)
    /\ round' = 0
    /\ UNCHANGED <<Nk, w>>

CipherRound(s) ==
    LET t == ShiftRows(SubBytes(state)) IN
    /\ doing = "cipher" /\ round < Nr
    /\ round' = round + 1
    /\ state' = AddRoundKey(IF round' < Nr THEN MixColumns(t) ELSE t, w[s], round')
    /\ UNCHANGED <<Nk, w, doing, input>>

InverseRound(s) ==
    LET t == InvSubBytes(InvShiftRows(state)) IN
    /\ doing = "inverse" /\ round < Nr
    /\ round' = round + 1
    /\ LET u == AddRoundKey(t, w[s], Nr - round') IN
       state' = IF round' < Nr THEN InvMixColumns(u) ELSE u
    /\ UNCHANGED <<Nk, w, doing, input>>

Next ==
    \E s \in Side :
        \/ Key(s) \/ Extend(s)
        \/ Begin(s, "cipher", 0) \/ Begin(s, "inverse", Nr)
        \/ CipherRound(s) \/ InverseRound(s)

Spec == Init /\ [][Next]_<<Nk, w, doing, input, state, round>>
=============================================================================
