----------------------------- MODULE MCAesStream -----------------------------
(* AesStream on blocks of two bytes of three bits. *)
EXTENDS AesStream, Bitwise

MCXor == [p \in (0..7) \X (0..7) |-> p[1] ^^ p[2]]

\* A permutation of the blocks that mixes both bytes.
MCEncrypt ==
    [b \in [1..2 -> 0..7] |-> <<(b[2] + 3) % 8, (b[1] + 5 * b[2] + 1) % 8>>]

\* The counter carries into the first byte after one block.
MCInitialIV == <<6, 7>>
MCOtherIV == <<2, 6>>

MCTexts == {<<5, 0, 7, 3>>}
MCCbcTexts == {<<5, 0, 7>>}
=============================================================================
