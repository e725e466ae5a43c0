----------------------------- MODULE MCAesCipher -----------------------------
(***************************************************************************)
(* The instance TLC checks: secrets shorter than, as long as and longer    *)
(* than the three kinds of keys, and blocks with many different bytes.     *)
(***************************************************************************)
EXTENDS AesCipher

Run(n, from, step) == [i \in 1..n |-> (from + step * i) % 256]

MCSecrets == {Run(5, 11, 37), Run(16, 0, 17), Run(20, 5, 93), Run(24, 200, 11), Run(33, 77, 59)}
MCBlocks == {Zeros(16), Run(16, 0, 17)}
\* Nothing, part of a block, a block, and more than one
MCPieces == {<<>>, <<128>>, Run(16, 3, 101), Run(21, 250, 7)}
=============================================================================
