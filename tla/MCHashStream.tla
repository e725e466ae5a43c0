---------------------------- MODULE MCHashStream ----------------------------
(* HashStream with blocks of 6 bytes, the last 2 of them for the length. *)
EXTENDS HashStream

\* Two texts of more than two blocks that differ after one byte.
MCTexts == {[i \in 1..15 |-> i], [i \in 1..14 |-> IF i = 1 THEN 1 ELSE 128]}
=============================================================================
