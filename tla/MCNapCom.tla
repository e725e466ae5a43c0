------------------------------ MODULE MCNapCom ------------------------------
(***************************************************************************)
(* The instances TLC checks.  Two values of a byte make the longest        *)
(* package that fits 3 bytes long.                                         *)
(***************************************************************************)
EXTENDS NapCom

CONSTANTS s1, s2, s3, r1, r2

\* An empty package, two that fit and one that is too long.
MCPackages == {<<>>, <<1>>, <<0, 1>>, <<1, 1, 1, 1>>}

\* An empty one and one that fits, beside one that is refused.
MCFew == {<<>>, <<1>>, <<1, 1, 1, 1>>}

\* s3 and r2 work at the server, the other threads at the client.
MCAt == [th \in Senders \cup Receivers |->
           IF th \in {s3, r2} THEN Server ELSE Client]
=============================================================================
