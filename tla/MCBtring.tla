------------------------------ MODULE MCBtring ------------------------------
(***************************************************************************)
(* The instance TLC checks: capacities in units of 4, so that texts of up  *)
(* to 3 bytes reach the end of a unit, cross it and stay inside it.        *)
(***************************************************************************)
EXTENDS Btring, TLC

CONSTANTS o1, o2, o3, b1, b2, b3, b4

\* 0 stops operator>>.
MCTexts == {<<>>, <<1>>, <<2, 0, 1>>}

\* Blocks are compared only for being the same.
Addresses == Permutations(Block)
=============================================================================
