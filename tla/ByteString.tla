----------------------------- MODULE ByteString -----------------------------
(***************************************************************************)
(* What the users of btring are promised: strings of bytes with a value    *)
(* each, and operations that say what becomes of the values.  Nothing is   *)
(* said of buffers, capacities or who owns what.  A byte nobody has given  *)
(* a value may be any cell.                                                *)
(***************************************************************************)
EXTENDS Integers, Sequences

CONSTANTS
    Obj,        \* the strings of a program
    Byte,       \* values of a byte
    Texts,      \* byte strings the program has elsewhere
    Sizes       \* lengths it asks for

VARIABLES
    exists,     \* the strings that are constructed
    val         \* their values; <<>> where there is none

Becomes(o, s) == val' = [val EXCEPT ![o] = s]

Init == exists = {} /\ val = [o \in Obj |-> <<>>]

Create(o, s) ==
    /\ o \notin exists
    /\ exists' = exists \cup {o}
    /\ Becomes(o, s)

Born(o) ==
    \/ \E t \in Texts \cup {<<>>} : Create(o, t)
    \/ \E p, q \in exists : Create(o, val[p]) \/ Create(o, val[p] \o val[q])

\* The value goes over; what is left is an empty string.
Move(o, p) ==
    /\ o \notin exists /\ p \in exists
    /\ exists' = exists \cup {o}
    /\ val' = [val EXCEPT ![o] = val[p], ![p] = <<>>]

Destroy(o) ==
    /\ o \in exists
    /\ exists' = exists \ {o}
    /\ Becomes(o, <<>>)

Change(o) ==
    /\ o \in exists
    /\ UNCHANGED exists
    /\ \/ \E t \in Texts : Becomes(o, t) \/ Becomes(o, val[o] \o t)
       \/ \E p \in exists : Becomes(o, val[p]) \/ Becomes(o, val[o] \o val[p])
       \/ \E c \in Byte : Becomes(o, Append(val[o], c))
       \/ \E k, n \in Sizes : k + n <= Len(val[o])
                               /\ Becomes(o, val[o] \o SubSeq(val[o], k + 1, k + n))
       \/ \E c \in Byte, n \in Sizes : Becomes(o, [i \in 1..n |-> c])
       \/ Becomes(o, <<>>)

\* What the old value and the new length have in common stays as it was.
Resize(o, n) ==
    /\ o \in exists
    /\ UNCHANGED exists
    /\ Len(val'[o]) = n
    /\ \A i \in 1..n : i <= Len(val[o]) => val'[o][i] = val[o][i]
    /\ \A p \in Obj \ {o} : val'[p] = val[p]

Swap(o, p) ==
    /\ o \in exists /\ p \in exists
    /\ UNCHANGED exists
    /\ val' = [val EXCEPT ![o] = val[p], ![p] = val[o]]

Next ==
    \E o \in Obj :
        \/ Born(o) \/ Destroy(o) \/ Change(o)
        \/ \E n \in Sizes : Resize(o, n)
        \/ \E p \in Obj : Move(o, p) \/ Swap(o, p)

Spec == Init /\ [][Next]_<<exists, val>>
=============================================================================
