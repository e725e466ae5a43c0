----------------------------- MODULE MCSockets ------------------------------
(***************************************************************************)
(* The instance TLC checks: two clients, two accepted connections and a    *)
(* server share a table of three descriptors beside the program's own, so  *)
(* that numbers are used again and run out.                                *)
(***************************************************************************)
EXTENDS Sockets, TLC

\* Places and addresses are compared only for being the same.
Symmetric == Permutations(Client) \cup Permutations(Link) \cup Permutations(Com)
=============================================================================
