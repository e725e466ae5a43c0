----------------------------- MODULE PacketLink -----------------------------
(***************************************************************************)
(* What a pair of connected napcom objects promises: in each direction,    *)
(* packages come out whole, in the order in which they went in, each at    *)
(* most once, and none of them is longer than the limit; once an end has   *)
(* told a receiver that the link is ruined, it delivers nothing more.      *)
(***************************************************************************)
EXTENDS Naturals, Sequences

CONSTANTS
    Ends,
    Other,      \* for each end, the other one
    Fitting     \* the packages that are short enough to be sent

VARIABLES
    sent,       \* per end: the packages it has taken for sending, in order
    delivered,  \* per end: the packages its receivers were given, in order
    ruined      \* per end: a receiver was told that the link is ruined

vars == <<sent, delivered, ruined>>

TypeOK ==
    /\ sent \in [Ends -> Seq(Fitting)]
    /\ delivered \in [Ends -> Seq(Fitting)]
    /\ ruined \in [Ends -> BOOLEAN]

Init ==
    /\ sent = [e \in Ends |-> <<>>]
    /\ delivered = [e \in Ends |-> <<>>]
    /\ ruined = [e \in Ends |-> FALSE]

Send(e, p) ==
    /\ sent' = [sent EXCEPT ![e] = Append(@, p)]
    /\ UNCHANGED <<delivered, ruined>>

Deliver(e) ==
    LET next == Len(delivered[e]) + 1 IN
    /\ ~ruined[e]
    /\ next <= Len(sent[Other[e]])
    /\ delivered' = [delivered EXCEPT ![e] = Append(@, sent[Other[e]][next])]
    /\ UNCHANGED <<sent, ruined>>

Ruin(e) ==
    /\ ruined' = [ruined EXCEPT ![e] = TRUE]
    /\ UNCHANGED <<sent, delivered>>

Next ==
    \E e \in Ends :
        \/ \E p \in Fitting : Send(e, p)
        \/ Deliver(e)
        \/ Ruin(e)

Spec == Init /\ [][Next]_vars
=============================================================================
