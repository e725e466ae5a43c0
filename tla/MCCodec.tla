------------------------------ MODULE MCCodec -------------------------------
(***************************************************************************)
(* The instance TLC checks: every byte alone, every string of up to four   *)
(* bytes with the bit patterns that tell the shifts apart, and texts that  *)
(* no encoder wrote.                                                       *)
(***************************************************************************)
EXTENDS Codec, SequencesExt

\* None, all, the high and the low digit, and alternating bits
Patterns == {0, 255, 240, 15, 90, 199}

MCGiven == {<<b>> : b \in Byte} \cup BoundedSeq(Patterns, 4)

\* '0' '9' 'A' 'F' 'a' 'f', then '=' '+' '_' and a character above 127
MCTyped ==
    BoundedSeq({48, 57, 65, 70, 97, 102}, 3)
        \cup {<<c, d>> : c, d \in 48..57 \cup 65..70 \cup 97..102}
        \cup UNION {[1..n -> {65, 47, 61, 200}] : n \in 1..5}
        \cup UNION {[1..n -> {90, 95}] : n \in 6..8}
=============================================================================
