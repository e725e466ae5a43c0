------------------------------ MODULE Sockets -------------------------------
(***************************************************************************)
(* Who owns which descriptor and which napcom (src/src/net.h,              *)
(* src/src/net.cpp): tcpclient, tcpserver, tcpseraccept and the napcom     *)
(* each of them makes.  Every object is used by one thread                 *)
(* (doc/network.md:5), and there may be many threads, so the steps of one  *)
(* connect() interleave with what is done to other objects: they share the *)
(* process's descriptor table, where a number that is closed is soon the   *)
(* number of something else.                                               *)
(*                                                                         *)
(* The packets themselves are NapCom's matter.                             *)
(***************************************************************************)
EXTENDS Integers

CONSTANTS
    Client,     \* places for tcpclient objects
    Link,       \* places for tcpseraccept objects
    Server,     \* places for tcpserver objects
    Com,        \* addresses of napcom objects
    Fds,        \* descriptors the process may have; 0 is open from the start
    Null,       \* nullptr
    Unset,      \* a field nobody has written
    MaxSockets  \* bound: sockets of one run

Holder == Client \cup Link
Maker == Com \cup Server \cup Client
Fd == 0..Fds - 1
invalid == -1
NoSocket == -1      \* what an unused descriptor stands for
Program == 0        \* what descriptor 0 stands for: not the library's

ASSUME FdsAssumption == Fds \in Nat \ {0}
ASSUME BoundAssumption == MaxSockets \in Nat
ASSUME PlacesAssumption ==
    /\ Client \cap Link = {} /\ Server \cap Holder = {}
    /\ Com \cap (Client \cup Server) = {} /\ Null \notin Maker

VARIABLES
    table,      \* the kernel's descriptor table: the socket behind a number
    opened,     \* sockets opened so far; they are numbered
    bound,      \* the socket that has the port, or NoSocket
    listening,  \* sockets that listen
    alive,      \* the objects that are constructed
    easycomm,   \* per client and link: its napcom
    first,      \* per client: net.first
    connecting, \* clients inside connect()
    ss,         \* per server: its descriptor
    coms,       \* the napcom objects that are allocated
    net,        \* per napcom: its descriptor
    made        \* the socket an object was made for; the code has no such field

kernel == <<table, opened, bound, listening>>
napcoms == <<coms, net>>
vars == <<kernel, alive, easycomm, first, connecting, ss, napcoms, made>>

-----------------------------------------------------------------------------
(* The kernel: socket() and accept() give a free descriptor or invalid, and *)
(* close() of a number that is not open does nothing.                       *)

FreeFd == {d \in Fd : table[d] = NoSocket}

\* d is the new descriptor for a new socket.
Opens(d) ==
    IF d = invalid
    THEN UNCHANGED <<table, opened>>
    ELSE /\ opened < MaxSockets
         /\ d \in FreeFd
         /\ opened' = opened + 1
         /\ table' = [table EXCEPT ![d] = opened']

\* The table after net::close(d): shutdown and close
Closed(d) == [e \in Fd |-> IF e = d THEN NoSocket ELSE table[e]]

\* A socket nobody has open has no port and does not listen.
Forget(tb) ==
    /\ table' = tb
    /\ bound' = IF \E d \in Fd : tb[d] = bound THEN bound ELSE NoSocket
    /\ listening' = {k \in listening : \E d \in Fd : tb[d] = k}
    /\ UNCHANGED opened

Descriptor(c) == IF c = Null THEN invalid ELSE net[c]

\* delete of a napcom, or of nullptr
Delete(c) ==
    /\ coms' = coms \ {c}
    /\ Forget(Closed(Descriptor(c)))
    /\ net' = [n \in Com |-> IF n = c THEN invalid ELSE net[n]]
    /\ made' = [x \in Maker |-> IF x = c THEN NoSocket ELSE made[x]]

-----------------------------------------------------------------------------
(* tcpclient                                                                *)

\* Fault: the pointer has no initial value.
NoneYetUnset == Unset

\* napcom* easycomm = nullptr
NoneYet == Null

\* The first of the pair is 0, as a pair's members are.
NewClient(c) ==
    /\ c \notin alive
    /\ alive' = alive \cup {c}
    /\ easycomm' = [easycomm EXCEPT ![c] = NoneYet]
    /\ first' = [first EXCEPT ![c] = 0]
    /\ UNCHANGED <<kernel, connecting, ss, napcoms, made>>

\* Fault: connect() closes net.first before it takes a new one.
ConnectCloses(c, d) ==
    /\ c \in alive \ connecting
    /\ connecting' = connecting \cup {c}
    /\ first' = [first EXCEPT ![c] = d]
    /\ opened < MaxSockets /\ d # invalid /\ Closed(first[c])[d] = NoSocket
    /\ opened' = opened + 1
    /\ table' = [Closed(first[c]) EXCEPT ![d] = opened']
    /\ made' = [made EXCEPT ![c] = opened']
    /\ UNCHANGED <<bound, listening, alive, easycomm, ss, napcoms>>

\* Fault: connect() gives the old connection up before it has a new one.
ConnectDrops(c, d) ==
    /\ c \in alive \ connecting
    /\ connecting' = connecting \cup {c}
    /\ Delete(easycomm[c])
    /\ easycomm' = [easycomm EXCEPT ![c] = Null]
    /\ UNCHANGED <<alive, first, ss>>

\* connect(), as far as the call of ::connect
Connect(c, d) ==
    /\ c \in alive \ connecting
    /\ connecting' = connecting \cup {c}
    /\ first' = [first EXCEPT ![c] = d]
    /\ Opens(d)
    /\ made' = [made EXCEPT ![c] = IF d = invalid THEN NoSocket ELSE opened']
    /\ UNCHANGED <<bound, listening, alive, easycomm, ss, napcoms>>

\* ::connect fails: net.first stays as it is, and so does easycomm.
Refused(c) ==
    /\ c \in connecting
    /\ connecting' = connecting \ {c}
    /\ made' = [made EXCEPT ![c] = NoSocket]
    /\ UNCHANGED <<kernel, alive, easycomm, first, ss, napcoms>>

\* Fault: the old napcom is not deleted.
ConnectedKeepsOld(c, n) ==
    /\ c \in connecting /\ first[c] # invalid
    /\ connecting' = connecting \ {c}
    /\ n \in Com \ coms
    /\ coms' = coms \cup {n}
    /\ net' = [net EXCEPT ![n] = first[c]]
    /\ made' = [made EXCEPT ![n] = made[c], ![c] = NoSocket]
    /\ easycomm' = [easycomm EXCEPT ![c] = n]
    /\ first' = [first EXCEPT ![c] = 0]
    /\ UNCHANGED <<kernel, alive, ss>>

\* ::connect returns 0, and initnapcom() deletes the old napcom and makes a
\* new one, maybe at the same address; that sets net.first to 0.
Connected(c, n) ==
    LET old == easycomm[c] IN
    /\ c \in connecting /\ first[c] # invalid
    /\ connecting' = connecting \ {c}
    /\ n \in Com \ (coms \ {old})
    /\ coms' = (coms \ {old}) \cup {n}
    /\ Forget(Closed(Descriptor(old)))
    /\ net' = [m \in Com |-> IF m = n THEN first[c] ELSE IF m = old THEN invalid ELSE net[m]]
    /\ made' = [x \in Maker |-> IF x = n THEN made[c]
                               ELSE IF x \in {c, old} THEN NoSocket ELSE made[x]]
    /\ easycomm' = [easycomm EXCEPT ![c] = n]
    /\ first' = [first EXCEPT ![c] = 0]
    /\ UNCHANGED <<alive, ss>>

\* tcpclient(tcpclient&&): the pair is copied, the pointer goes over.
MoveClient(c, from) ==
    /\ c \in Client \ alive
    /\ from \in (Client \cap alive) \ connecting
    /\ alive' = alive \cup {c}
    /\ easycomm' = [easycomm EXCEPT ![c] = easycomm[from], ![from] = Null]
    /\ first' = [first EXCEPT ![c] = first[from]]
    /\ UNCHANGED <<kernel, connecting, ss, napcoms, made>>

\* ~tcpclient(): net.first is not closed.
DestroyClient(c) ==
    /\ c \in alive \ connecting
    /\ alive' = alive \ {c}
    /\ Delete(easycomm[c])
    /\ easycomm' = [easycomm EXCEPT ![c] = Null]
    /\ first' = [first EXCEPT ![c] = 0]
    /\ UNCHANGED <<connecting, ss>>

-----------------------------------------------------------------------------
(* tcpserver                                                                *)

NewServer(s, d) ==
    /\ s \notin alive
    /\ alive' = alive \cup {s}
    /\ ss' = [ss EXCEPT ![s] = d]
    /\ Opens(d)
    /\ made' = [made EXCEPT ![s] = IF d = invalid THEN NoSocket ELSE opened']
    /\ UNCHANGED <<bound, listening, easycomm, first, connecting, napcoms>>

\* A bind() that fails changes nothing, and so does a listen().
Bind(s) ==
    /\ s \in alive /\ ss[s] # invalid
    /\ bound = NoSocket
    /\ bound' = table[ss[s]]
    /\ UNCHANGED <<table, opened, listening, alive, easycomm, first, connecting,
                   ss, napcoms, made>>

Listen(s) ==
    /\ s \in alive /\ ss[s] # invalid
    /\ table[ss[s]] \notin listening
    /\ listening' = listening \cup {table[ss[s]]}
    /\ UNCHANGED <<table, opened, bound, alive, easycomm, first, connecting,
                   ss, napcoms, made>>

\* accept() has a connection: a tcpseraccept with a napcom of its own, moved
\* into the pair and from there to where the caller keeps it.
Accept(s, l, d, n) ==
    /\ s \in alive /\ ss[s] # invalid
    /\ table[ss[s]] \in listening
    /\ l \notin alive
    /\ d # invalid /\ Opens(d)
    /\ n \notin coms
    /\ coms' = coms \cup {n}
    /\ net' = [net EXCEPT ![n] = d]
    /\ made' = [made EXCEPT ![n] = opened']
    /\ alive' = alive \cup {l}
    /\ easycomm' = [easycomm EXCEPT ![l] = n]
    /\ UNCHANGED <<bound, listening, first, connecting, ss>>

\* ::accept gives invalid: a pair with an empty tcpseraccept
AcceptFails(s, l) ==
    /\ s \in alive
    /\ l \notin alive
    /\ alive' = alive \cup {l}
    /\ easycomm' = [easycomm EXCEPT ![l] = NoneYet]
    /\ UNCHANGED <<kernel, first, connecting, ss, napcoms, made>>

\* Fault: the descriptor stays open.
DestroyServerOnly(s) ==
    /\ s \in alive
    /\ alive' = alive \ {s}
    /\ ss' = [ss EXCEPT ![s] = invalid]
    /\ UNCHANGED <<kernel, easycomm, first, connecting, napcoms, made>>

\* ~tcpserver() closes ss, invalid or not.
DestroyServer(s) ==
    /\ s \in alive
    /\ alive' = alive \ {s}
    /\ Forget(Closed(ss[s]))
    /\ ss' = [ss EXCEPT ![s] = invalid]
    /\ made' = [made EXCEPT ![s] = NoSocket]
    /\ UNCHANGED <<easycomm, first, connecting, napcoms>>

-----------------------------------------------------------------------------
(* tcpseraccept                                                             *)

\* Fault: the object moved from keeps its pointer.
MoveLinkKeepsOld(l, from) ==
    /\ l \in Link \ alive
    /\ from \in Link \cap alive
    /\ alive' = alive \cup {l}
    /\ easycomm' = [easycomm EXCEPT ![l] = easycomm[from]]
    /\ UNCHANGED <<kernel, first, connecting, ss, napcoms, made>>

MoveLink(l, from) ==
    /\ l \in Link \ alive
    /\ from \in Link \cap alive
    /\ alive' = alive \cup {l}
    /\ easycomm' = [easycomm EXCEPT ![l] = easycomm[from], ![from] = Null]
    /\ UNCHANGED <<kernel, first, connecting, ss, napcoms, made>>

DestroyLink(l) ==
    /\ l \in alive
    /\ alive' = alive \ {l}
    /\ Delete(easycomm[l])
    /\ easycomm' = [easycomm EXCEPT ![l] = Null]
    /\ UNCHANGED <<first, connecting, ss>>

-----------------------------------------------------------------------------

Init ==
    /\ table = [d \in Fd |-> IF d = 0 THEN Program ELSE NoSocket]
    /\ opened = 0
    /\ bound = NoSocket
    /\ listening = {}
    /\ alive = {}
    /\ easycomm = [h \in Holder |-> Null]
    /\ first = [c \in Client |-> 0]
    /\ connecting = {}
    /\ ss = [s \in Server |-> invalid]
    /\ coms = {}
    /\ net = [n \in Com |-> invalid]
    /\ made = [x \in Maker |-> NoSocket]

ClientStep(c) ==
    \/ NewClient(c) \/ Refused(c) \/ DestroyClient(c)
    \/ \E d \in Fd \cup {invalid} : Connect(c, d)
    \/ \E n \in Com : Connected(c, n)
    \/ \E from \in Client : MoveClient(c, from)

ServerStep(s) ==
    \/ \E d \in Fd \cup {invalid} : NewServer(s, d)
    \/ Bind(s) \/ Listen(s) \/ DestroyServer(s)
    \/ \E l \in Link : AcceptFails(s, l)
    \/ \E l \in Link, d \in Fd, n \in Com : Accept(s, l, d, n)

LinkStep(l) ==
    \/ DestroyLink(l)
    \/ \E from \in Link : MoveLink(l, from)

Next ==
    \/ \E c \in Client : ClientStep(c)
    \/ \E s \in Server : ServerStep(s)
    \/ \E l \in Link : LinkStep(l)

Spec == Init /\ [][Next]_vars

-----------------------------------------------------------------------------

TypeOK ==
    /\ table \in [Fd -> NoSocket..MaxSockets]
    /\ opened \in 0..MaxSockets
    /\ bound \in NoSocket..MaxSockets
    /\ listening \subseteq 1..MaxSockets
    /\ alive \subseteq Holder \cup Server
    /\ easycomm \in [Holder -> Com \cup {Null}]
    /\ first \in [Client -> Fd \cup {invalid}]
    /\ connecting \subseteq Client
    /\ ss \in [Server -> Fd \cup {invalid}]
    /\ coms \subseteq Com
    /\ net \in [Com -> Fd \cup {invalid}]
    /\ made \in [Maker -> NoSocket..MaxSockets]

(***************************************************************************)
(* Every napcom that is allocated is the easycomm of exactly one object    *)
(* that exists, and no object points to one that was deleted: moves,       *)
(* reconnects and failed accepts neither leak a napcom nor delete it       *)
(* twice.                                                                  *)
(***************************************************************************)
OneHolder ==
    /\ coms = {easycomm[h] : h \in alive \cap Holder} \ {Null}
    /\ \A h \in Holder \ alive : easycomm[h] = Null
    /\ \A h, k \in Holder : easycomm[h] = easycomm[k] => h = k \/ easycomm[h] = Null

(***************************************************************************)
(* The descriptor of a napcom or a server is open and still stands for the *)
(* socket it was made for, never for one that took the number over after   *)
(* a close by somebody else; so does the one a client is connecting with,  *)
(* and descriptor 0 is the program's all along, though the library stores  *)
(* 0 in net.first.                                                         *)
(***************************************************************************)
TrueDescriptor ==
    /\ \A n \in coms : net[n] # invalid /\ made[n] # NoSocket /\ table[net[n]] = made[n]
    /\ \A s \in Server \cap alive : ss[s] # invalid => table[ss[s]] = made[s]
    /\ \A c \in connecting : first[c] # invalid => table[first[c]] = made[c]
    /\ table[0] = Program

(***************************************************************************)
(* What has the port or listens is the socket of a server that exists: a   *)
(* destroyed server never keeps the port from the next one.                *)
(***************************************************************************)
Taken == {k \in {bound} \cup listening : k # NoSocket}

PortIsHeld == \A k \in Taken : \E s \in Server \cap alive : ss[s] # invalid /\ table[ss[s]] = k

(***************************************************************************)
(* Who owns what: one holder for each napcom, and a socket that has the    *)
(* port or listens is open as that of a living server.                     *)
(***************************************************************************)
Ownership == TypeOK /\ OneHolder /\ PortIsHeld

\* The open descriptors that no object will ever close.
Lost ==
    {d \in Fd \ {0} : /\ table[d] # NoSocket
                      /\ \A h \in Holder \cap alive : Descriptor(easycomm[h]) # d
                      /\ \A s \in Server \cap alive : ss[s] # d
                      /\ \A c \in connecting : first[c] # d}

(***************************************************************************)
(* Descriptors are lost in one way only: connect() is refused and drops    *)
(* the socket it has just made, one each time.                             *)
(***************************************************************************)
LostOnlyWhenRefused ==
    [][\A d \in Fd : d \in Lost' \ Lost =>
          \E c \in connecting \ connecting' :
              d = first[c] /\ Lost' = Lost \cup {d} /\ easycomm' = easycomm]_vars

(***************************************************************************)
(* A napcom, and with it the pointer that communicate() gave out, lasts    *)
(* until the object that has it is destroyed or has a new connection; a    *)
(* reconnect that fails leaves the old connection as it was.               *)
(***************************************************************************)
DiesWithItsHolder ==
    [][\A n \in coms :
          \/ n \in coms' /\ net'[n] = net[n] /\ made'[n] = made[n]
          \/ \E h \in Holder : /\ easycomm[h] = n
                               /\ \/ h \notin alive'
                                  \/ h \in connecting /\ made'[easycomm'[h]] # made[n]]_vars
=============================================================================
