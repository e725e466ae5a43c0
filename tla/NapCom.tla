------------------------------- MODULE NapCom -------------------------------
(***************************************************************************)
(* nap::napcom (src/src/net.h:109-135, src/src/net.cpp:123-236): packages  *)
(* over a TCP connection.  A package travels as a frame, a 4-byte header   *)
(* that holds its size twice and then its bytes, written and read by loops *)
(* over ::send and ::recv that may each move any part of what is asked.    *)
(* One object lives at each end of the connection; several threads may     *)
(* call it.                                                                *)
(*                                                                         *)
(* A byte is a number below ByteBase.  The code has ByteBase = 256, hence  *)
(* the limit 0xffff = ByteBase^2 - 1 on the size of a package.             *)
(***************************************************************************)
EXTENDS Integers, Sequences

CONSTANTS
    ByteBase,   \* values of a byte
    Packages,   \* what callers try to send: sequences of bytes
    Window,     \* bytes the connection holds between a send and a recv
    MaxSends,   \* bound: frames begun per end
    Client, Server,         \* the two ends
    Senders, Receivers,     \* threads that call sendpackage, recvpackage
    At,         \* the end each thread works at
    Nobody,     \* the owner of a free mutex
    Asserts     \* whether the build has its assertions, FALSE with NDEBUG

Ends == {Client, Server}
Peer(e) == IF e = Client THEN Server ELSE Client
Byte == 0..(ByteBase - 1)
\* Fault: the limit on the size is one too high.
LimitOneTooHigh == ByteBase * ByteBase

Limit == ByteBase * ByteBase - 1
SendersOf(e) == {s \in Senders : At[s] = e}
ReceiversOf(e) == {r \in Receivers : At[r] = e}

ASSUME SizesAssumption ==
    /\ ByteBase \in Nat \ {0, 1}
    /\ Window \in Nat \ {0}
    /\ MaxSends \in Nat
ASSUME PackagesAssumption == Packages \subseteq Seq(Byte)
ASSUME BuildAssumption == Asserts \in BOOLEAN
ASSUME EndsAssumption ==
    /\ Client # Server
    /\ At \in [Senders \cup Receivers -> Ends]
    /\ Nobody \notin Senders \cup Receivers

VARIABLES
    state,      \* per end: napcom::state
    mu_send,    \* per end: the thread that holds mu_send_channel
    mu_recv,    \* per end: the thread that holds mu_recv_channel
    life,       \* per end: the object is open, destroyed, or its process aborted
    wire,       \* per end: every byte it has written to the connection
    nread,      \* per end: how many of these its peer has read
    begun,      \* per end: the packages whose frame it has begun, and where
    got,        \* per end: the packages recvpackage has returned
    spc, pkg, out,      \* per sender: place, package, bytes left to write
    sret,               \* per sender: what its last call returned
    rpc, buf, need,     \* per receiver: place, bytes read, bytes wanted
    rret                \* per receiver: what its last call returned

link     == <<wire, nread>>
sender   == <<spc, pkg, out, sret>>
receiver == <<rpc, buf, need, rret>>
vars     == <<state, mu_send, mu_recv, life, wire, nread, begun, got,
              spc, pkg, out, sret, rpc, buf, need, rret>>

\* "none" before the first call returns.
Ret == {"none", "success", "mecismsend", "ruined"}

TypeOK ==
    /\ state \in [Ends -> BOOLEAN]
    /\ mu_send \in [Ends -> Senders \cup {Nobody}]
    /\ mu_recv \in [Ends -> Receivers \cup {Nobody}]
    /\ life \in [Ends -> {"open", "destroyed", "aborted"}]
    /\ wire \in [Ends -> Seq(Byte)]
    /\ nread \in [Ends -> Nat]
    /\ begun \in [Ends -> Seq([pkg : Packages, at : Nat])]
    /\ got \in [Ends -> Seq(Seq(Byte))]
    /\ spc \in [Senders -> {"idle", "head", "body"}]
    /\ pkg \in [Senders -> Packages \cup {<<>>}]
    /\ out \in [Senders -> Seq(Byte)]
    /\ sret \in [Senders -> Ret]
    /\ rpc \in [Receivers -> {"idle", "lock", "head", "body"}]
    /\ buf \in [Receivers -> Seq(Byte)]
    /\ need \in [Receivers -> 0..Limit \cup {4}]
    /\ rret \in [Receivers -> Ret]

Init ==
    /\ state = [e \in Ends |-> TRUE]
    /\ mu_send = [e \in Ends |-> Nobody]
    /\ mu_recv = [e \in Ends |-> Nobody]
    /\ life = [e \in Ends |-> "open"]
    /\ wire = [e \in Ends |-> <<>>]
    /\ nread = [e \in Ends |-> 0]
    /\ begun = [e \in Ends |-> <<>>]
    /\ got = [e \in Ends |-> <<>>]
    /\ spc = [s \in Senders |-> "idle"]
    /\ pkg = [s \in Senders |-> <<>>]
    /\ out = [s \in Senders |-> <<>>]
    /\ sret = [s \in Senders |-> "none"]
    /\ rpc = [r \in Receivers |-> "idle"]
    /\ buf = [r \in Receivers |-> <<>>]
    /\ need = [r \in Receivers |-> 0]
    /\ rret = [r \in Receivers |-> "none"]

-----------------------------------------------------------------------------
(* The header: length = (size << 16) + size, its four bytes from the lowest  *)
(* to the highest, as the little-endian hosts the library builds for store   *)
(* it; recvpackage takes the two halves apart and compares them.             *)

Header(size) == <<size % ByteBase, size \div ByteBase,
                  size % ByteBase, size \div ByteBase>>
LowHalf(head) == head[1] + ByteBase * head[2]
HighHalf(head) == head[3] + ByteBase * head[4]

Frame(p) == Header(Len(p)) \o p

-----------------------------------------------------------------------------
(* sendpackage.  The lock_guard is taken first; the tests of state and size  *)
(* follow under it, so a refused call leaves no trace but its return value.  *)

MaySend(s) == spc[s] = "idle" /\ life[At[s]] = "open" /\ mu_send[At[s]] = Nobody

\* Fault: the size is cut to the 16 bits the header has for it.
PackageSizeCut(p) == Len(p) % (ByteBase * ByteBase)

\* (uint32_t)package.size()
PackageSize(p) == Len(p) % (ByteBase * ByteBase * ByteBase * ByteBase)

SendRefused(s, p) ==
    /\ MaySend(s)
    /\ \/ ~state[At[s]] /\ sret' = [sret EXCEPT ![s] = "ruined"]
       \/ /\ state[At[s]] /\ PackageSize(p) > Limit
          /\ sret' = [sret EXCEPT ![s] = "mecismsend"]
    /\ UNCHANGED <<state, mu_send, mu_recv, life, link, begun, got,
                   spc, pkg, out, receiver>>

\* Fault: state is not looked at again under the mutex.
SendStartBlindly(s, p) ==
    LET e == At[s] IN
    /\ MaySend(s)
    /\ PackageSize(p) <= Limit
    /\ Len(begun[e]) < MaxSends
    /\ mu_send' = [mu_send EXCEPT ![e] = s]
    /\ spc' = [spc EXCEPT ![s] = "head"]
    /\ pkg' = [pkg EXCEPT ![s] = p]
    /\ out' = [out EXCEPT ![s] = Header(PackageSize(p))]
    /\ begun' = [begun EXCEPT ![e] = Append(@, [pkg |-> p, at |-> Len(wire[e])])]
    /\ UNCHANGED <<state, mu_recv, life, link, got, sret, receiver>>

SendStart(s, p) ==
    LET e == At[s] IN
    /\ MaySend(s)
    /\ state[e]
    /\ PackageSize(p) <= Limit
    /\ Len(begun[e]) < MaxSends
    /\ mu_send' = [mu_send EXCEPT ![e] = s]
    /\ spc' = [spc EXCEPT ![s] = "head"]
    /\ pkg' = [pkg EXCEPT ![s] = p]
    /\ out' = [out EXCEPT ![s] = Header(PackageSize(p))]
    /\ begun' = [begun EXCEPT ![e] = Append(@, [pkg |-> p, at |-> Len(wire[e])])]
    /\ UNCHANGED <<state, mu_recv, life, link, got, sret, receiver>>

\* Flow control: what is written and not yet read fits the window.
Room(e) == Window - (Len(wire[e]) - nread[e])

\* One round of the loop of sendInsist: ::send takes n bytes.
SendBytes(s) ==
    LET e == At[s] IN
    /\ spc[s] # "idle" /\ life[e] = "open"
    /\ \E n \in 1..Len(out[s]) :
        /\ n <= Room(e)
        /\ wire' = [wire EXCEPT ![e] = @ \o SubSeq(out[s], 1, n)]
        /\ out' = [out EXCEPT ![s] = SubSeq(@, n + 1, Len(@))]
    /\ UNCHANGED <<state, mu_send, mu_recv, life, nread, begun, got, spc, pkg,
                   sret, receiver>>

\* Without assertions the second call of an empty package does nothing.
SendBody(s) ==
    /\ spc[s] = "head" /\ out[s] = <<>> /\ life[At[s]] = "open"
    /\ PackageSize(pkg[s]) > 0 \/ ~Asserts
    /\ spc' = [spc EXCEPT ![s] = "body"]
    /\ out' = [out EXCEPT ![s] = SubSeq(pkg[s], 1, PackageSize(pkg[s]))]
    /\ UNCHANGED <<state, mu_send, mu_recv, life, link, begun, got, pkg, sret,
                   receiver>>

\* assert(size > 0) in sendInsist: the second call of an empty package.
SendAsserts(s) ==
    /\ spc[s] = "head" /\ out[s] = <<>> /\ life[At[s]] = "open"
    /\ PackageSize(pkg[s]) = 0 /\ Asserts
    /\ life' = [life EXCEPT ![At[s]] = "aborted"]
    /\ UNCHANGED <<state, mu_send, mu_recv, link, begun, got, sender, receiver>>

SendReturn(s, value) ==
    /\ spc' = [spc EXCEPT ![s] = "idle"]
    /\ out' = [out EXCEPT ![s] = <<>>]
    /\ mu_send' = [mu_send EXCEPT ![At[s]] = Nobody]
    /\ sret' = [sret EXCEPT ![s] = value]
    /\ UNCHANGED <<mu_recv, life, link, begun, got, pkg, receiver>>

\* Fault: sendInsist returns after the first ::send, however much it took.
SendDoneEarly(s) ==
    /\ spc[s] = "body" /\ out[s] # pkg[s] /\ life[At[s]] = "open"
    /\ SendReturn(s, "success")
    /\ UNCHANGED state

SendDone(s) ==
    /\ spc[s] = "body" /\ out[s] = <<>> /\ life[At[s]] = "open"
    /\ SendReturn(s, "success")
    /\ UNCHANGED state

\* ::send returns an error: the peer is gone, the network is down, a signal.
SendFails(s) ==
    /\ spc[s] # "idle" /\ out[s] # <<>> /\ life[At[s]] = "open"
    /\ state' = [state EXCEPT ![At[s]] = FALSE]
    /\ SendReturn(s, "ruined")

-----------------------------------------------------------------------------
(* recvpackage.  The test of state comes before the lock_guard.              *)

RecvRuined(r) ==
    LET e == At[r] IN
    /\ rpc[r] = "idle" /\ life[e] = "open"
    /\ ~state[e]
    /\ rret' = [rret EXCEPT ![r] = "ruined"]
    /\ UNCHANGED <<state, mu_send, mu_recv, life, link, begun, got, sender,
                   rpc, buf, need>>

RecvCheck(r) ==
    LET e == At[r] IN
    /\ rpc[r] = "idle" /\ life[e] = "open"
    /\ state[e]
    /\ rpc' = [rpc EXCEPT ![r] = "lock"]
    /\ UNCHANGED <<state, mu_send, mu_recv, life, link, begun, got, sender,
                   buf, need, rret>>

RecvLock(r) ==
    LET e == At[r] IN
    /\ rpc[r] = "lock" /\ life[e] = "open" /\ mu_recv[e] = Nobody
    /\ mu_recv' = [mu_recv EXCEPT ![e] = r]
    /\ rpc' = [rpc EXCEPT ![r] = "head"]
    /\ buf' = [buf EXCEPT ![r] = <<>>]
    /\ need' = [need EXCEPT ![r] = 4]
    /\ UNCHANGED <<state, mu_send, life, link, begun, got, sender, rret>>

Unread(e) == Len(wire[e]) - nread[e]

\* Fault: the bytes are taken only when all of them have come.
RecvAllAtOnce(r) ==
    LET e == At[r]
        from == Peer(e)
        n == need[r] - Len(buf[r])
    IN
    /\ rpc[r] \in {"head", "body"} /\ life[e] = "open"
    /\ n > 0 /\ n <= Unread(from)
    /\ buf' = [buf EXCEPT ![r] =
                 @ \o SubSeq(wire[from], nread[from] + 1, nread[from] + n)]
    /\ nread' = [nread EXCEPT ![from] = @ + n]
    /\ UNCHANGED <<state, mu_send, mu_recv, life, wire, begun, got, sender,
                   rpc, need, rret>>

\* One round of the loop of recvInsist: ::recv gives n bytes.
RecvBytes(r) ==
    LET e == At[r]
        from == Peer(e)
    IN
    /\ rpc[r] \in {"head", "body"} /\ life[e] = "open"
    /\ \E n \in 1..(need[r] - Len(buf[r])) :
        /\ n <= Unread(from)
        /\ buf' = [buf EXCEPT ![r] =
                     @ \o SubSeq(wire[from], nread[from] + 1, nread[from] + n)]
        /\ nread' = [nread EXCEPT ![from] = @ + n]
    /\ UNCHANGED <<state, mu_send, mu_recv, life, wire, begun, got, sender,
                   rpc, need, rret>>

RecvReturn(r, value) ==
    /\ rpc' = [rpc EXCEPT ![r] = "idle"]
    /\ buf' = [buf EXCEPT ![r] = <<>>]
    /\ need' = [need EXCEPT ![r] = 0]
    /\ mu_recv' = [mu_recv EXCEPT ![At[r]] = Nobody]
    /\ rret' = [rret EXCEPT ![r] = value]
    /\ UNCHANGED <<mu_send, life, link, begun, sender>>

\* The header is complete: the two halves must agree.
RecvHeader(r) ==
    /\ rpc[r] = "head" /\ Len(buf[r]) = 4 /\ life[At[r]] = "open"
    /\ IF HighHalf(buf[r]) # LowHalf(buf[r])
       THEN /\ state' = [state EXCEPT ![At[r]] = FALSE]
            /\ RecvReturn(r, "ruined")
            /\ UNCHANGED got
       ELSE /\ rpc' = [rpc EXCEPT ![r] = "body"]
            /\ need' = [need EXCEPT ![r] = HighHalf(buf[r])]
            /\ buf' = [buf EXCEPT ![r] = <<>>]
            /\ UNCHANGED <<state, mu_send, mu_recv, life, link, begun, got,
                           sender, rret>>

\* assert(size > 0) in recvInsist: the header announces an empty package.
RecvAsserts(r) ==
    /\ rpc[r] = "body" /\ need[r] = 0 /\ Asserts /\ life[At[r]] = "open"
    /\ life' = [life EXCEPT ![At[r]] = "aborted"]
    /\ UNCHANGED <<state, mu_send, mu_recv, link, begun, got, sender, receiver>>

RecvDone(r) ==
    /\ rpc[r] = "body" /\ Len(buf[r]) = need[r] /\ life[At[r]] = "open"
    /\ need[r] > 0 \/ ~Asserts
    /\ got' = [got EXCEPT ![At[r]] = Append(@, buf[r])]
    /\ RecvReturn(r, "success")
    /\ UNCHANGED state

RecvBlocked(r) ==
    /\ rpc[r] \in {"head", "body"} /\ Len(buf[r]) < need[r]
    /\ life[At[r]] = "open"

\* Fault: a failed receive leaves state as it was.
RecvForgives(r) ==
    /\ RecvReturn(r, "ruined")
    /\ UNCHANGED <<state, got>>

RecvGivesUp(r) ==
    /\ state' = [state EXCEPT ![At[r]] = FALSE]
    /\ RecvReturn(r, "ruined")
    /\ UNCHANGED got

\* Fault: only a negative result ends the loop.
RecvRetriesAtEof(r) ==
    /\ RecvBlocked(r)
    /\ life[Peer(At[r])] # "open" /\ Unread(Peer(At[r])) = 0
    /\ UNCHANGED vars

\* ::recv returns 0: the peer is gone and everything it wrote has been read.
RecvEof(r) ==
    /\ RecvBlocked(r)
    /\ life[Peer(At[r])] # "open" /\ Unread(Peer(At[r])) = 0
    /\ RecvGivesUp(r)

\* ::recv returns an error: the receive timeout, a reset, a signal.
RecvFails(r) ==
    /\ RecvBlocked(r)
    /\ RecvGivesUp(r)

-----------------------------------------------------------------------------
\* ~napcom.  No thread is inside the object: it would be used after its end.
Destroy(e) ==
    /\ life[e] = "open"
    /\ \A s \in SendersOf(e) : spc[s] = "idle"
    /\ \A r \in ReceiversOf(e) : rpc[r] = "idle"
    /\ life' = [life EXCEPT ![e] = "destroyed"]
    /\ state' = [state EXCEPT ![e] = FALSE]
    /\ UNCHANGED <<mu_send, mu_recv, link, begun, got, sender, receiver>>

Gone == (\A e \in Ends : life[e] # "open") /\ UNCHANGED vars

SendStep(s) ==
    \/ \E p \in Packages : SendRefused(s, p) \/ SendStart(s, p)
    \/ SendBytes(s) \/ SendBody(s) \/ SendAsserts(s) \/ SendDone(s) \/ SendFails(s)

RecvStep(r) ==
    \/ RecvRuined(r) \/ RecvCheck(r) \/ RecvLock(r) \/ RecvBytes(r) \/ RecvHeader(r)
    \/ RecvAsserts(r) \/ RecvDone(r) \/ RecvEof(r) \/ RecvFails(r)

Next ==
    \/ \E s \in Senders : SendStep(s)
    \/ \E r \in Receivers : RecvStep(r)
    \/ \E e \in Ends : Destroy(e)
    \/ Gone

Spec == Init /\ [][Next]_vars

(***************************************************************************)
(* A thread inside a call goes on as long as the connection lets it, and   *)
(* the program at each end keeps calling recvpackage (network.md:119-143   *)
(* shows the calls it is expected to make).  Nothing makes a program send, *)
(* destroy its end or see an error.                                        *)
(***************************************************************************)
Fairness ==
    /\ \A s \in Senders :
        WF_vars(SendBytes(s) \/ SendBody(s) \/ SendAsserts(s) \/ SendDone(s))
    /\ \A r \in Receivers :
        /\ WF_vars(RecvCheck(r) \/ RecvLock(r) \/ RecvBytes(r) \/ RecvHeader(r)
                    \/ RecvAsserts(r) \/ RecvDone(r))
        /\ WF_vars(RecvEof(r))

FairSpec == Spec /\ Fairness

-----------------------------------------------------------------------------
(* Safety                                                                   *)

(***************************************************************************)
(* Whatever the interleaving of senders and the sizes ::send takes, the    *)
(* bytes of an end are whole frames one after the other, with nothing in   *)
(* between; only the last may be cut short, by a frame still being written *)
(* or by a failure after which the end writes nothing more.                *)
(***************************************************************************)
FrameEnd(f) == f.at + 4 + Len(f.pkg)

FramesOnWire ==
    \A e \in Ends : \A i \in 1..Len(begun[e]) :
        LET f == begun[e][i] IN
        /\ f.at = IF i = 1 THEN 0 ELSE FrameEnd(begun[e][i - 1])
        /\ Len(wire[e]) <= FrameEnd(f) \/ i < Len(begun[e])
        /\ \A k \in 1..(4 + Len(f.pkg)) :
              f.at + k <= Len(wire[e]) => wire[e][f.at + k] = Frame(f.pkg)[k]

(***************************************************************************)
(* A sender that was told success has its whole frame on the wire.         *)
(***************************************************************************)
SuccessIsWhole ==
    \A s \in Senders :
        sret[s] = "success" /\ spc[s] = "idle" =>
            \E i \in 1..Len(begun[At[s]]) :
                /\ begun[At[s]][i].pkg = pkg[s]
                /\ FrameEnd(begun[At[s]][i]) <= Len(wire[At[s]])

(***************************************************************************)
(* The sending half of the protocol as one invariant: the state is well    *)
(* typed, the connection carries whole frames, and success was told of     *)
(* nothing less (net.cpp:136-150, 176-204).                                *)
(***************************************************************************)
SendsWholeFrames == TypeOK /\ FramesOnWire /\ SuccessIsWhole

(***************************************************************************)
(* With one receiver per end, the two ends implement the packet link:      *)
(* packages come out whole and in order, and an end that has told its      *)
(* receiver "ruined" delivers nothing more.                                *)
(***************************************************************************)
PacketLinkOf == INSTANCE PacketLink WITH
    Other     <- [e \in Ends |-> Peer(e)],
    Fitting   <- {p \in Packages : Len(p) <= Limit},
    sent      <- [e \in Ends |-> [i \in 1..Len(begun[e]) |-> begun[e][i].pkg]],
    delivered <- got,
    ruined    <- [e \in Ends |-> \E r \in ReceiversOf(e) : rret[r] = "ruined"]

ImplementsLink == PacketLinkOf!Spec

(***************************************************************************)
(* The assertions of net.cpp:124 and net.cpp:137, that what is sent or     *)
(* received has a size above 0, stop a program that was built with them    *)
(* for one reason only: an empty package was begun at one of the ends.  No *)
(* header and no cut of the stream makes another package look empty, and   *)
(* no cast one whose size fits in 32 bits.                                 *)
(***************************************************************************)
OnlyEmptyAborts ==
    (\E e \in Ends : life[e] = "aborted") =>
        \E e \in Ends : \E i \in 1..Len(begun[e]) : begun[e][i].pkg = <<>>

-----------------------------------------------------------------------------
(* Liveness                                                                 *)

Healthy == \A e \in Ends : state[e] /\ life[e] = "open"

(***************************************************************************)
(* A package whose sending has begun arrives, unless an error, the end of  *)
(* one of the objects or an abort comes first; a window smaller than a     *)
(* frame, or both ends sending at once, does not stop it.                  *)
(***************************************************************************)
BegunPackageArrives ==
    \A e \in Ends : \A n \in 1..MaxSends :
        Len(begun[e]) >= n ~> (Len(got[Peer(e)]) >= n \/ ~Healthy)

(***************************************************************************)
(* A receiver does not stay blocked on a peer that is gone: it gets what   *)
(* was written and then returns (the shutdown of net.cpp:96).              *)
(***************************************************************************)
ReceiverReturns ==
    \A r \in Receivers :
        rpc[r] \in {"head", "body"} /\ life[Peer(At[r])] # "open"
            ~> (rpc[r] = "idle" \/ life[At[r]] # "open")

=============================================================================
