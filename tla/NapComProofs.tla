---------------------------- MODULE NapComProofs ----------------------------
(***************************************************************************)
(* Proofs about NapCom, for every number of threads, every size of byte    *)
(* and window and every set of packages: the connection carries whole      *)
(* frames, and with one receiver at each end it is a packet link.          *)
(*                                                                         *)
(* sendpackage keeps the size of a package in 32 bits.  The theorems are   *)
(* about packages whose size fits there; a longer one is cut (net.cpp:181) *)
(***************************************************************************)
EXTENDS NapCom, SequenceTheorems, TLAPS

SizesCountable ==
    \A p \in Packages : Len(p) < ByteBase * ByteBase * ByteBase * ByteBase

\* The last frame an end has begun, and where its frames end.
LastOf(e) == begun[e][Len(begun[e])]
EndOf(e) == IF begun[e] = <<>> THEN 0 ELSE FrameEnd(LastOf(e))

-----------------------------------------------------------------------------
(* The inductive invariant of the sending half.                              *)

\* Every frame begins where the one before it ends, has a size the header can
\* hold, and lies before all that follow.
Chained(e) ==
    \A i \in 1..Len(begun[e]) :
        /\ begun[e][i].at = IF i = 1 THEN 0 ELSE FrameEnd(begun[e][i - 1])
        /\ Len(begun[e][i].pkg) <= Limit
        /\ \A j \in 1..Len(begun[e]) :
              i < j => FrameEnd(begun[e][i]) <= begun[e][j].at

\* What has been written of a frame is that frame.
Carried(e) ==
    \A i \in 1..Len(begun[e]) :
        LET f == begun[e][i] IN
        \A k \in 1..(4 + Len(f.pkg)) :
            f.at + k <= Len(wire[e]) => wire[e][f.at + k] = Frame(f.pkg)[k]

\* The bytes end in the last frame; they end it when nobody is writing and no
\* error was seen.
InFrame(e) ==
    /\ Len(wire[e]) <= EndOf(e)
    /\ begun[e] # <<>> => LastOf(e).at <= Len(wire[e])
    /\ mu_send[e] = Nobody /\ state[e] => Len(wire[e]) = EndOf(e)

\* A thread inside sendpackage has the mutex and the rest of the last frame,
\* or of its header.
Stop(s) == IF spc[s] = "head" THEN 4 ELSE 4 + Len(pkg[s])
Done(s) == Len(wire[At[s]]) - LastOf(At[s]).at

Writing(s) ==
    spc[s] # "idle" =>
        /\ mu_send[At[s]] = s
        /\ begun[At[s]] # <<>>
        /\ LastOf(At[s]).pkg = pkg[s]
        /\ Len(out[s]) = Stop(s) - Done(s)
        /\ \A k \in 1..Len(out[s]) : out[s][k] = Frame(pkg[s])[Done(s) + k]

\* A sender that was told success has its whole frame on the wire.
Told(s) ==
    sret[s] = "success" /\ spc[s] = "idle" =>
        \E i \in 1..Len(begun[At[s]]) :
            /\ begun[At[s]][i].pkg = pkg[s]
            /\ FrameEnd(begun[At[s]][i]) <= Len(wire[At[s]])

Wires == \A e \in Ends : Chained(e) /\ Carried(e) /\ InFrame(e)
Writers == \A s \in Senders : Writing(s) /\ Told(s)
SendInv == TypeOK /\ Wires /\ Writers

-----------------------------------------------------------------------------
(* Numbers and sequences                                                     *)

LEMMA Bases == ByteBase \in Nat /\ ByteBase >= 2 /\ Limit \in Nat /\ Limit >= 3
<1>1. ByteBase \in Nat /\ ByteBase >= 2
  BY SizesAssumption
<1>2. ByteBase * ByteBase >= 4
  BY <1>1
<1>3. ByteBase * ByteBase \in Nat
  BY <1>1
<1> QED
  BY <1>1, <1>2, <1>3 DEF Limit

\* Below the square of the base a number has two digits.
LEMMA TwoDigits ==
    ASSUME NEW b \in Nat, b >= 2, NEW n \in Nat, n < b * b
    PROVE  /\ n % b \in 0..(b - 1) /\ n \div b \in 0..(b - 1)
           /\ (n % b) + b * (n \div b) = n
<1>1. /\ n \div b \in Nat /\ n % b \in 0..(b - 1) /\ n = b * (n \div b) + (n % b)
  OBVIOUS
<1>2. n \div b < b
  <2> DEFINE d == n \div b
  <2>1. d \in Nat /\ b * d <= n
    BY <1>1
  <2>2. ASSUME d >= b PROVE FALSE
    <3>1. b * d >= b * b
      BY <2>1, <2>2
    <3> QED
      BY <2>1, <3>1
  <2> HIDE DEF d
  <2>3. d < b
    BY <2>1, <2>2
  <2> QED
    BY <2>3 DEF d
<1> QED
  BY <1>1, <1>2

\* Two digits make a number below the square of the base.
LEMMA TwoDigitsBound ==
    ASSUME NEW b \in Nat, b >= 2, NEW m \in 0..(b - 1), NEW n \in 0..(b - 1)
    PROVE  m + b * n \in 0..(b * b - 1)
<1>1. n <= b - 1 /\ n \in Nat /\ b - 1 \in Nat
  OBVIOUS
<1>2. b * n <= b * (b - 1)
  BY <1>1
<1>3. b * (b - 1) = b * b - b
  OBVIOUS
<1>4. b * n \in Nat /\ b * b \in Nat
  BY <1>1
<1> QED
  BY <1>1, <1>2, <1>3, <1>4

\* The header says the size twice.
LEMMA HeaderSays ==
    ASSUME NEW n \in Nat, n <= Limit
    PROVE  /\ Header(n) \in Seq(Byte) /\ Len(Header(n)) = 4
           /\ LowHalf(Header(n)) = n /\ HighHalf(Header(n)) = n
<1>1. n < ByteBase * ByteBase
  BY Bases DEF Limit
<1>2. /\ n % ByteBase \in Byte /\ n \div ByteBase \in Byte
      /\ (n % ByteBase) + ByteBase * (n \div ByteBase) = n
  BY <1>1, Bases, TwoDigits DEF Byte
<1> QED
  BY <1>2 DEF Header, LowHalf, HighHalf

\* The size of a package that fits in 32 bits is its size.
LEMMA SizeSays ==
    ASSUME SizesCountable, NEW p \in Packages
    PROVE  p \in Seq(Byte) /\ PackageSize(p) = Len(p) /\ Len(p) \in Nat
<1>1. p \in Seq(Byte) /\ Len(p) \in Nat
  BY PackagesAssumption
<1>2. Len(p) < ByteBase * ByteBase * ByteBase * ByteBase
  BY DEF SizesCountable
<1>3. ByteBase * ByteBase * ByteBase * ByteBase \in Nat
  BY Bases
<1> DEFINE m == ByteBase * ByteBase * ByteBase * ByteBase
<1> HIDE DEF m
<1>4. m \in Nat /\ Len(p) < m => Len(p) % m = Len(p)
  BY <1>1
<1> QED
  BY <1>1, <1>2, <1>3, <1>4 DEF m, PackageSize

\* The frame of a package.
LEMMA FrameIs ==
    ASSUME NEW p \in Seq(Byte), Len(p) <= Limit
    PROVE  /\ Frame(p) \in Seq(Byte) /\ Len(Frame(p)) = 4 + Len(p)
           /\ \A k \in 1..4 : Frame(p)[k] = Header(Len(p))[k]
           /\ \A k \in 1..Len(p) : Frame(p)[4 + k] = p[k]
<1>1. Header(Len(p)) \in Seq(Byte) /\ Len(Header(Len(p))) = 4
  BY HeaderSays
<1> DEFINE h == Header(Len(p))
<1>2. h \in Seq(Byte) /\ Len(h) = 4
  BY <1>1
<1> HIDE DEF h
<1>3. /\ h \o p \in Seq(Byte) /\ Len(h \o p) = 4 + Len(p)
      /\ \A k \in 1..4 : (h \o p)[k] = h[k]
      /\ \A k \in 1..Len(p) : (h \o p)[4 + k] = p[k]
  <2>1. /\ h \o p \in Seq(Byte) /\ Len(h \o p) = Len(h) + Len(p)
        /\ \A i \in 1..(Len(h) + Len(p)) :
              (h \o p)[i] = IF i <= Len(h) THEN h[i] ELSE p[i - Len(h)]
    BY <1>2, ConcatProperties
  <2>2. Len(p) \in Nat
    OBVIOUS
  <2> QED
    BY <2>1, <2>2, <1>2
<1> QED
  BY <1>3 DEF Frame, h

\* n elements go from the front of o to the end of w.
LEMMA Moved ==
    ASSUME NEW S, NEW w \in Seq(S), NEW o \in Seq(S), NEW n \in 1..Len(o)
    PROVE  LET w2 == w \o SubSeq(o, 1, n)
               o2 == SubSeq(o, n + 1, Len(o))
           IN  /\ w2 \in Seq(S) /\ Len(w2) = Len(w) + n
               /\ \A k \in 1..Len(w) : w2[k] = w[k]
               /\ \A k \in 1..n : w2[Len(w) + k] = o[k]
               /\ o2 \in Seq(S) /\ Len(o2) = Len(o) - n
               /\ \A k \in 1..(Len(o) - n) : o2[k] = o[n + k]
<1>1. \A i \in 1..Len(o) : o[i] \in S
  OBVIOUS
<1>2. /\ SubSeq(o, 1, n) \in Seq(S)
      /\ Len(SubSeq(o, 1, n)) = IF 1 <= n THEN n - 1 + 1 ELSE 0
      /\ \A i \in 1..(n - 1 + 1) : SubSeq(o, 1, n)[i] = o[1 + i - 1]
  <2>1. \A i \in 1..n : o[i] \in S
    BY <1>1
  <2> QED
    BY <2>1, SubSeqProperties
<1>3. /\ SubSeq(o, n + 1, Len(o)) \in Seq(S)
      /\ Len(SubSeq(o, n + 1, Len(o)))
           = IF n + 1 <= Len(o) THEN Len(o) - (n + 1) + 1 ELSE 0
      /\ \A i \in 1..(Len(o) - (n + 1) + 1) :
            SubSeq(o, n + 1, Len(o))[i] = o[(n + 1) + i - 1]
  <2>1. \A i \in (n + 1)..Len(o) : o[i] \in S
    BY <1>1
  <2> QED
    BY <2>1, SubSeqProperties
<1> DEFINE a == SubSeq(o, 1, n)
           c == SubSeq(o, n + 1, Len(o))
<1>4. a \in Seq(S) /\ Len(a) = n /\ \A i \in 1..n : a[i] = o[i]
  BY <1>2
<1>5. c \in Seq(S) /\ Len(c) = Len(o) - n /\ \A i \in 1..(Len(o) - n) : c[i] = o[n + i]
  BY <1>3
<1> HIDE DEF a, c
<1>6. /\ w \o a \in Seq(S) /\ Len(w \o a) = Len(w) + n
      /\ \A k \in 1..Len(w) : (w \o a)[k] = w[k]
      /\ \A k \in 1..n : (w \o a)[Len(w) + k] = o[k]
  BY <1>4
<1> QED
  BY <1>5, <1>6 DEF a, c

\* The n elements of w behind the first m go to the end of o.
LEMMA Taken ==
    ASSUME NEW S, NEW w \in Seq(S), NEW o \in Seq(S), NEW m \in Nat,
           NEW n \in Nat \ {0}, m + n <= Len(w)
    PROVE  LET o2 == o \o SubSeq(w, m + 1, m + n)
           IN  /\ o2 \in Seq(S) /\ Len(o2) = Len(o) + n
               /\ \A k \in 1..Len(o) : o2[k] = o[k]
               /\ \A k \in 1..n : o2[Len(o) + k] = w[m + k]
<1>1. \A i \in 1..Len(w) : w[i] \in S
  OBVIOUS
<1>2. /\ SubSeq(w, m + 1, m + n) \in Seq(S)
      /\ Len(SubSeq(w, m + 1, m + n))
           = IF m + 1 <= m + n THEN (m + n) - (m + 1) + 1 ELSE 0
      /\ \A i \in 1..((m + n) - (m + 1) + 1) :
            SubSeq(w, m + 1, m + n)[i] = w[(m + 1) + i - 1]
  <2>1. \A i \in (m + 1)..(m + n) : w[i] \in S
    BY <1>1
  <2> QED
    BY <2>1, SubSeqProperties
<1> DEFINE a == SubSeq(w, m + 1, m + n)
<1>3. a \in Seq(S) /\ Len(a) = n /\ \A i \in 1..n : a[i] = w[m + i]
  BY <1>2
<1> HIDE DEF a
<1>4. /\ o \o a \in Seq(S) /\ Len(o \o a) = Len(o) + Len(a)
      /\ \A i \in 1..(Len(o) + Len(a)) :
            (o \o a)[i] = IF i <= Len(o) THEN o[i] ELSE a[i - Len(o)]
  BY <1>3, ConcatProperties
<1>5. Len(o) \in Nat
  OBVIOUS
<1>6. /\ o \o a \in Seq(S) /\ Len(o \o a) = Len(o) + n
      /\ \A k \in 1..Len(o) : (o \o a)[k] = o[k]
      /\ \A k \in 1..n : (o \o a)[Len(o) + k] = w[m + k]
  BY <1>3, <1>4, <1>5
<1> QED
  BY <1>6 DEF a

-----------------------------------------------------------------------------
(* Types                                                                     *)

\* Every thread works at one of the two ends, and the ends face each other.
LEMMA Places ==
    /\ \A s \in Senders : At[s] \in Ends /\ s # Nobody
    /\ \A r \in Receivers : At[r] \in Ends /\ r # Nobody
    /\ \A e \in Ends : Peer(e) \in Ends /\ Peer(e) # e /\ Peer(Peer(e)) = e
<1>1. \A s \in Senders \cup Receivers : At[s] \in Ends /\ s # Nobody
  BY EndsAssumption
<1>2. \A e \in Ends : Peer(e) \in Ends /\ Peer(e) # e /\ Peer(Peer(e)) = e
  BY EndsAssumption DEF Ends, Peer
<1> QED
  BY <1>1, <1>2

\* The types again, with the sets of sequences under names of their own.
Bytes == Seq(Byte)
Frames == Seq([pkg : Packages, at : Nat])
ManyBytes == Seq(Seq(Byte))
Needs == 0..Limit \cup {4}

Control ==
    /\ state \in [Ends -> BOOLEAN]
    /\ mu_send \in [Ends -> Senders \cup {Nobody}]
    /\ mu_recv \in [Ends -> Receivers \cup {Nobody}]
    /\ life \in [Ends -> {"open", "destroyed", "aborted"}]
    /\ spc \in [Senders -> {"idle", "head", "body"}]
    /\ sret \in [Senders -> Ret]
    /\ rpc \in [Receivers -> {"idle", "lock", "head", "body"}]
    /\ need \in [Receivers -> Needs]
    /\ rret \in [Receivers -> Ret]

Content ==
    /\ wire \in [Ends -> Bytes]
    /\ nread \in [Ends -> Nat]
    /\ begun \in [Ends -> Frames]
    /\ got \in [Ends -> ManyBytes]
    /\ pkg \in [Senders -> Packages \cup {<<>>}]
    /\ out \in [Senders -> Bytes]
    /\ buf \in [Receivers -> Bytes]

LEMMA Types ==
    /\ TypeOK <=> Control /\ Content
    /\ TypeOK' <=> Control' /\ Content'
<1>1. TypeOK <=> Control /\ Content
  BY Zenon DEF TypeOK, Control, Content, Bytes, Frames, ManyBytes, Needs
<1>2. TypeOK' <=> Control' /\ Content'
  BY Zenon DEF TypeOK, Control, Content, Bytes, Frames, ManyBytes, Needs
<1> QED
  BY <1>1, <1>2

\* What the sequences may become.
LEMMA SomeSeqs ==
    /\ <<>> \in Bytes
    /\ 4 \in Needs /\ 0 \in Needs
    /\ \A e \in Ends, p \in Packages : Content =>
          Append(begun[e], [pkg |-> p, at |-> Len(wire[e])]) \in Frames
    /\ \A e \in Ends, r \in Receivers : Content => Append(got[e], buf[r]) \in ManyBytes
<1>1. \A e \in Ends, p \in Packages : Content =>
          Append(begun[e], [pkg |-> p, at |-> Len(wire[e])]) \in Frames
  <2> SUFFICES ASSUME NEW e \in Ends, NEW p \in Packages, Content
               PROVE  Append(begun[e], [pkg |-> p, at |-> Len(wire[e])]) \in Frames
    OBVIOUS
  <2>1. Len(wire[e]) \in Nat
    <3>1. wire[e] \in Seq(Byte)
      BY DEF Content, Bytes
    <3> QED
      BY <3>1
  <2>2. [pkg |-> p, at |-> Len(wire[e])] \in [pkg : Packages, at : Nat]
    BY <2>1
  <2>3. begun[e] \in Seq([pkg : Packages, at : Nat])
    BY DEF Content, Frames
  <2> QED
    BY <2>2, <2>3, AppendProperties DEF Frames
<1>2. \A e \in Ends, r \in Receivers : Content => Append(got[e], buf[r]) \in ManyBytes
  BY DEF Content, Bytes, ManyBytes
<1> QED
  BY <1>1, <1>2, Bases DEF Bytes, Needs

LEMMA TypeSend ==
    ASSUME SizesCountable, TypeOK, NEW s \in Senders, SendStep(s)
    PROVE  TypeOK'
<1>0. Control /\ Content
  BY Types
<1> SUFFICES Control' /\ Content'
  BY Types
<1> USE <1>0, Places, SomeSeqs DEF link, sender, receiver, Ret
<1>1. ASSUME NEW p \in Packages, SendRefused(s, p) PROVE Control' /\ Content'
  <2>1. UNCHANGED <<state, mu_send, mu_recv, life, wire, nread, begun, got,
                    spc, pkg, out, rpc, buf, need, rret>>
    BY <1>1 DEF SendRefused
  <2>2. sret' \in [Senders -> Ret]
    BY <1>1 DEF SendRefused, Control
  <2> QED
    BY <2>1, <2>2 DEF Control, Content
<1>2. ASSUME NEW p \in Packages, SendStart(s, p) PROVE Control' /\ Content'
  <2>1. Header(PackageSize(p)) \in Bytes
    BY <1>2, SizeSays, HeaderSays DEF SendStart, Bytes
  <2>2. Control'
    BY <1>2 DEF SendStart, Control
  <2>3. Content'
    BY <1>2, <2>1 DEF SendStart, Content
  <2> QED
    BY <2>2, <2>3
<1>3. CASE SendBytes(s)
  <2>1. wire[At[s]] \in Seq(Byte) /\ out[s] \in Seq(Byte)
    BY DEF Content, Bytes
  <2>2. PICK n \in 1..Len(out[s]) :
            /\ wire' = [wire EXCEPT ![At[s]] = @ \o SubSeq(out[s], 1, n)]
            /\ out' = [out EXCEPT ![s] = SubSeq(@, n + 1, Len(@))]
    BY <1>3 DEF SendBytes
  <2>3. /\ wire[At[s]] \o SubSeq(out[s], 1, n) \in Bytes
        /\ SubSeq(out[s], n + 1, Len(out[s])) \in Bytes
    BY <2>1, Moved DEF Bytes
  <2> QED
    BY <1>3, <2>2, <2>3 DEF SendBytes, Control, Content
<1>4. CASE SendBody(s)
  <2>1. PackageSize(<<>>) = 0
    BY Bases DEF PackageSize
  <2>2. pkg[s] \in Seq(Byte) /\ PackageSize(pkg[s]) = Len(pkg[s])
    <3>1. <<>> \in Seq(Byte) /\ Len(<<>>) = 0
      OBVIOUS
    <3>2. pkg[s] \in Packages \/ pkg[s] = <<>>
      BY DEF Content
    <3> QED
      BY <2>1, <3>1, <3>2, SizeSays
  <2>3. SubSeq(pkg[s], 1, PackageSize(pkg[s])) \in Bytes
    BY <2>2, SubSeqFull DEF Bytes
  <2> QED
    BY <1>4, <2>3 DEF SendBody, Control, Content
<1>5. CASE SendAsserts(s)
  BY <1>5 DEF SendAsserts, Control, Content
<1>6. CASE SendDone(s)
  BY <1>6 DEF SendDone, SendReturn, Control, Content
<1>7. CASE SendFails(s)
  BY <1>7 DEF SendFails, SendReturn, Control, Content
<1> QED
  BY <1>1, <1>2, <1>3, <1>4, <1>5, <1>6, <1>7 DEF SendStep

\* What a return of recvpackage leaves.
LEMMA TypeReturn ==
    ASSUME Control, Content, NEW r \in Receivers, NEW value \in Ret,
           RecvReturn(r, value),
           state' \in [Ends -> BOOLEAN], got' \in [Ends -> ManyBytes]
    PROVE  Control' /\ Content'
<1>1. Control'
  <2>1. rpc' \in [Receivers -> {"idle", "lock", "head", "body"}]
    BY DEF RecvReturn, Control
  <2>2. need' \in [Receivers -> Needs] /\ rret' \in [Receivers -> Ret]
    BY SomeSeqs DEF RecvReturn, Control
  <2>3. mu_recv' \in [Ends -> Receivers \cup {Nobody}]
    BY Places DEF RecvReturn, Control
  <2> QED
    BY <2>1, <2>2, <2>3 DEF RecvReturn, Control, sender
<1>2. Content'
  <2>1. buf' \in [Receivers -> Bytes]
    BY SomeSeqs DEF RecvReturn, Content
  <2> QED
    BY <2>1 DEF RecvReturn, Content, sender, link
<1> QED
  BY <1>1, <1>2

LEMMA TypeRecv ==
    ASSUME TypeOK, NEW r \in Receivers, RecvStep(r)
    PROVE  TypeOK'
<1>0. Control /\ Content
  BY Types
<1> SUFFICES Control' /\ Content'
  BY Types
<1> USE <1>0, Places, SomeSeqs DEF link, sender, receiver, Ret
<1>1. CASE RecvRuined(r)
  BY <1>1 DEF RecvRuined, Control, Content
<1>2. CASE RecvCheck(r)
  BY <1>2 DEF RecvCheck, Control, Content
<1>3. CASE RecvLock(r)
  BY <1>3 DEF RecvLock, Control, Content
<1>4. CASE RecvBytes(r)
  <2> DEFINE from == Peer(At[r])
  <2>1. PICK n \in 1..(need[r] - Len(buf[r])) :
            /\ n <= Unread(from)
            /\ buf' = [buf EXCEPT ![r] =
                         @ \o SubSeq(wire[from], nread[from] + 1, nread[from] + n)]
            /\ nread' = [nread EXCEPT ![from] = @ + n]
    BY <1>4 DEF RecvBytes
  <2>2. from \in Ends
    OBVIOUS
  <2> HIDE DEF from
  <2>3. /\ wire[from] \in Seq(Byte) /\ nread[from] \in Nat /\ buf[r] \in Seq(Byte)
        /\ need[r] \in Nat
    BY <2>2, Bases DEF Control, Content, Needs, Bytes
  <2>4. n \in Nat \ {0} /\ nread[from] + n <= Len(wire[from])
    <3>1. Len(wire[from]) \in Nat /\ Len(buf[r]) \in Nat
      BY <2>3
    <3>2. n \in 1..(need[r] - Len(buf[r])) /\ n <= Len(wire[from]) - nread[from]
      BY <2>1 DEF Unread
    <3> QED
      BY <2>3, <3>1, <3>2
  <2>5. buf[r] \o SubSeq(wire[from], nread[from] + 1, nread[from] + n) \in Bytes
    <3> DEFINE w == wire[from]
               o == buf[r]
               m == nread[from]
    <3>1. w \in Seq(Byte) /\ o \in Seq(Byte) /\ m \in Nat /\ m + n <= Len(w)
      BY <2>3, <2>4
    <3> HIDE DEF w, o, m
    <3>2. o \o SubSeq(w, m + 1, m + n) \in Seq(Byte)
      BY <3>1, <2>4, Taken
    <3> QED
      BY <3>2 DEF w, o, m, Bytes
  <2>6. UNCHANGED <<state, mu_send, mu_recv, life, wire, begun, got, sender, rpc,
                    need, rret>>
    BY <1>4 DEF RecvBytes
  <2>7. Control'
    BY <2>6 DEF Control
  <2>8. buf' \in [Receivers -> Bytes] /\ nread' \in [Ends -> Nat]
    BY SMTT(40), <2>1, <2>2, <2>3, <2>4, <2>5 DEF Content
  <2> QED
    BY <2>6, <2>7, <2>8 DEF Content
<1>5. CASE RecvHeader(r)
  <2>1. Len(buf[r]) = 4 /\ buf[r] \in Seq(Byte)
    BY <1>5 DEF RecvHeader, Content, Bytes
  <2>2. buf[r][3] \in Byte /\ buf[r][4] \in Byte
    BY <2>1
  <2>3. buf[r][3] + ByteBase * buf[r][4] \in 0..(ByteBase * ByteBase - 1)
    BY <2>2, Bases, TwoDigitsBound DEF Byte
  <2>4. HighHalf(buf[r]) \in Needs
    BY <2>3 DEF HighHalf, Limit, Needs
  <2>5. CASE HighHalf(buf[r]) # LowHalf(buf[r])
    <3>1. RecvReturn(r, "ruined") /\ state' = [state EXCEPT ![At[r]] = FALSE] /\ got' = got
      BY <1>5, <2>5 DEF RecvHeader
    <3> QED
      BY <3>1, TypeReturn DEF Control, Content
  <2>6. CASE HighHalf(buf[r]) = LowHalf(buf[r])
    <3>1. /\ rpc' = [rpc EXCEPT ![r] = "body"]
          /\ need' = [need EXCEPT ![r] = HighHalf(buf[r])]
          /\ buf' = [buf EXCEPT ![r] = <<>>]
          /\ UNCHANGED <<state, mu_send, mu_recv, life, link, begun, got, sender, rret>>
      BY <1>5, <2>6 DEF RecvHeader
    <3>2. Control'
      BY <2>4, <3>1 DEF Control, sender
    <3>3. Content'
      BY <3>1 DEF Content, Bytes, link, sender
    <3> QED
      BY <3>2, <3>3
  <2> QED
    BY <2>5, <2>6
<1>6. CASE RecvAsserts(r)
  BY <1>6 DEF RecvAsserts, Control, Content
<1>7. CASE RecvDone(r)
  <2>1. RecvReturn(r, "success") /\ got' \in [Ends -> ManyBytes] /\ state' = state
    BY <1>7 DEF RecvDone, Content
  <2> QED
    BY <2>1, TypeReturn DEF Control
<1>8. CASE RecvEof(r) \/ RecvFails(r)
  <2>1. RecvGivesUp(r)
    BY <1>8 DEF RecvEof, RecvFails
  <2>2. RecvReturn(r, "ruined") /\ state' = [state EXCEPT ![At[r]] = FALSE] /\ got' = got
    BY <2>1 DEF RecvGivesUp
  <2> QED
    BY <2>2, TypeReturn DEF Control, Content
<1> QED
  BY <1>1, <1>2, <1>3, <1>4, <1>5, <1>6, <1>7, <1>8 DEF RecvStep

LEMMA TypeStep ==
    ASSUME SizesCountable, TypeOK, [Next]_vars
    PROVE  TypeOK'
<1>1. ASSUME NEW e \in Ends, Destroy(e) PROVE TypeOK'
  BY <1>1, Types DEF Destroy, Control, Content, link, sender, receiver
<1>2. CASE UNCHANGED vars
  BY <1>2, Types DEF vars, Control, Content
<1> QED
  BY <1>1, <1>2, TypeSend, TypeRecv DEF Next, Gone

-----------------------------------------------------------------------------
(* The sending half, step by step                                            *)

LEMMA FrameEndIs ==
    ASSUME NEW f, f.at \in Nat, Len(f.pkg) \in Nat
    PROVE  FrameEnd(f) \in Nat
<1> DEFINE a == f.at
           n == Len(f.pkg)
<1>1. a \in Nat /\ n \in Nat
  OBVIOUS
<1> HIDE DEF a, n
<1>2. a + 4 + n \in Nat
  BY <1>1
<1> QED
  BY <1>2, Zenon DEF FrameEnd, a, n

LEMMA BegunIs ==
    ASSUME TypeOK
    PROVE  /\ \A e \in Ends : Len(wire[e]) \in Nat /\ Len(begun[e]) \in Nat
           /\ \A e \in Ends : (begun[e] = <<>>) <=> (Len(begun[e]) = 0)
           /\ \A e \in Ends : \A i \in 1..Len(begun[e]) :
                /\ begun[e][i].pkg \in Packages /\ begun[e][i].pkg \in Seq(Byte)
                /\ Len(begun[e][i].pkg) \in Nat /\ begun[e][i].at \in Nat
<1>1. \A e \in Ends : wire[e] \in Seq(Byte) /\ begun[e] \in Frames
  BY Types DEF Content, Bytes
<1>2. \A e \in Ends : Len(wire[e]) \in Nat /\ Len(begun[e]) \in Nat
  BY <1>1 DEF Frames
<1>3. \A e \in Ends : (begun[e] = <<>>) <=> (Len(begun[e]) = 0)
  BY <1>1, EmptySeq DEF Frames
<1>4. ASSUME NEW e \in Ends, NEW i \in 1..Len(begun[e])
      PROVE  /\ begun[e][i].pkg \in Packages /\ begun[e][i].pkg \in Seq(Byte)
             /\ Len(begun[e][i].pkg) \in Nat /\ begun[e][i].at \in Nat
  <2>1. begun[e][i] \in [pkg : Packages, at : Nat]
    BY <1>1, ElementOfSeq DEF Frames
  <2>2. begun[e][i].pkg \in Packages /\ begun[e][i].at \in Nat
    BY <2>1
  <2>3. begun[e][i].pkg \in Seq(Byte)
    BY <2>2, PackagesAssumption
  <2> QED
    BY <2>2, <2>3
<1> QED
  BY <1>2, <1>3, <1>4

\* A step that writes nothing, begins nothing and tells no success.
LEMMA Quiet ==
    ASSUME Wires, Writers,
           UNCHANGED <<wire, begun, mu_send, spc, pkg, out>>,
           \A e \in Ends : state'[e] => state[e],
           \A s \in Senders : sret'[s] = "success" => sret[s] = "success"
    PROVE  Wires' /\ Writers'
<1>1. ASSUME NEW e \in Ends PROVE Chained(e)' /\ Carried(e)' /\ InFrame(e)'
  <2>1. Chained(e) /\ Carried(e) /\ InFrame(e)
    BY DEF Wires
  <2> QED
    BY <2>1 DEF Chained, Carried, InFrame, EndOf, LastOf
<1>2. ASSUME NEW s \in Senders PROVE Writing(s)' /\ Told(s)'
  <2>1. Writing(s) /\ Told(s)
    BY DEF Writers
  <2> QED
    BY <2>1 DEF Writing, Told, Stop, Done, LastOf
<1> QED
  BY <1>1, <1>2 DEF Wires, Writers

\* Only one thread of an end writes.
LEMMA OneWriter ==
    ASSUME Writers, NEW s \in Senders, NEW t \in Senders, At[t] = At[s], t # s,
           mu_send[At[s]] \in {s, Nobody}
    PROVE  spc[t] = "idle"
<1>1. Writing(t) /\ t # Nobody
  BY Places DEF Writers
<1> QED
  BY <1>1 DEF Writing

\* The threads that do not take the step, when what was begun and written
\* only grows.
LEMMA Others ==
    ASSUME TypeOK, Writers, NEW s \in Senders, NEW t \in Senders, t # s,
           mu_send[At[s]] \in {s, Nobody},
           spc'[t] = spc[t], pkg'[t] = pkg[t], out'[t] = out[t], sret'[t] = sret[t],
           At[t] # At[s] => /\ wire'[At[t]] = wire[At[t]]
                            /\ begun'[At[t]] = begun[At[t]]
                            /\ mu_send'[At[t]] = mu_send[At[t]],
           Len(wire'[At[t]]) \in Nat, Len(wire[At[t]]) <= Len(wire'[At[t]]),
           Len(begun'[At[t]]) \in Nat, Len(begun[At[t]]) <= Len(begun'[At[t]]),
           \A i \in 1..Len(begun[At[t]]) : begun'[At[t]][i] = begun[At[t]][i]
    PROVE  Writing(t)' /\ Told(t)'
<1>1. Writing(t) /\ Told(t)
  BY DEF Writers
<1>2. Writing(t)'
  <2>1. CASE At[t] = At[s]
    BY <2>1, OneWriter DEF Writing
  <2>2. CASE At[t] # At[s]
    BY <1>1, <2>2 DEF Writing, Stop, Done, LastOf
  <2> QED
    BY <2>1, <2>2
<1>3. Told(t)'
  <2> SUFFICES ASSUME sret[t] = "success", spc[t] = "idle"
               PROVE  \E i \in 1..Len(begun'[At[t]]) :
                        /\ begun'[At[t]][i].pkg = pkg[t]
                        /\ FrameEnd(begun'[At[t]][i]) <= Len(wire'[At[t]])
    BY DEF Told
  <2>1. PICK i \in 1..Len(begun[At[t]]) :
            /\ begun[At[t]][i].pkg = pkg[t]
            /\ FrameEnd(begun[At[t]][i]) <= Len(wire[At[t]])
    BY <1>1 DEF Told
  <2>2. At[t] \in Ends /\ Len(begun[At[t]]) \in Nat /\ Len(wire[At[t]]) \in Nat
    BY Places, BegunIs
  <2>3. begun[At[t]][i].at \in Nat /\ Len(begun[At[t]][i].pkg) \in Nat
    BY <2>2, BegunIs
  <2>4. FrameEnd(begun[At[t]][i]) \in Nat
    BY <2>3, FrameEndIs
  <2>5. begun'[At[t]][i] = begun[At[t]][i] /\ i \in 1..Len(begun'[At[t]])
    BY <2>2
  <2>6. FrameEnd(begun[At[t]][i]) <= Len(wire'[At[t]])
    BY <2>1, <2>2, <2>4
  <2> QED
    BY <2>1, <2>5, <2>6
<1> QED
  BY <1>2, <1>3

\* The facts a writing thread is in the middle of.
LEMMA WriterIs ==
    ASSUME TypeOK, Wires, Writers, NEW s \in Senders, spc[s] # "idle"
    PROVE  LET e == At[s]
               f == LastOf(e)
           IN  /\ e \in Ends /\ mu_send[e] = s
               /\ Len(begun[e]) \in Nat \ {0} /\ begun[e] # <<>>
               /\ f = begun[e][Len(begun[e])] /\ f.pkg = pkg[s] /\ f.at \in Nat
               /\ pkg[s] \in Packages /\ pkg[s] \in Seq(Byte)
               /\ Len(pkg[s]) \in Nat /\ Len(pkg[s]) <= Limit
               /\ Len(wire[e]) \in Nat /\ f.at <= Len(wire[e])
               /\ EndOf(e) = f.at + 4 + Len(pkg[s])
               /\ Len(out[s]) = Stop(s) - (Len(wire[e]) - f.at)
               /\ \A k \in 1..Len(out[s]) :
                     out[s][k] = Frame(pkg[s])[(Len(wire[e]) - f.at) + k]
<1> DEFINE e == At[s]
<1>1. e \in Ends /\ Writing(s)
  BY Places DEF Writers
<1>2. Chained(e) /\ InFrame(e)
  BY <1>1 DEF Wires
<1>3. /\ Len(begun[e]) \in Nat \ {0} /\ begun[e] # <<>> /\ Len(wire[e]) \in Nat
      /\ Len(begun[e]) \in 1..Len(begun[e])
  BY <1>1, BegunIs DEF Writing
<1>4. /\ LastOf(e) = begun[e][Len(begun[e])] /\ LastOf(e).pkg = pkg[s]
      /\ LastOf(e).pkg \in Packages /\ LastOf(e).pkg \in Seq(Byte)
      /\ Len(LastOf(e).pkg) \in Nat /\ LastOf(e).at \in Nat
  BY <1>1, <1>3, BegunIs DEF LastOf, Writing
<1>5. Len(pkg[s]) <= Limit
  BY <1>2, <1>3, <1>4 DEF Chained
<1>6. LastOf(e).at <= Len(wire[e]) /\ EndOf(e) = LastOf(e).at + 4 + Len(pkg[s])
  BY <1>2, <1>3, <1>4 DEF InFrame, EndOf, FrameEnd
<1>7. mu_send[e] = s /\ Len(out[s]) = Stop(s) - (Len(wire[e]) - LastOf(e).at)
      /\ \A k \in 1..Len(out[s]) :
            out[s][k] = Frame(pkg[s])[(Len(wire[e]) - LastOf(e).at) + k]
  BY <1>1 DEF Writing, Done
<1> QED
  BY <1>1, <1>3, <1>4, <1>5, <1>6, <1>7

\* The bytes that follow on the connection are the next ones of the frame.
LEMMA WireGrows ==
    ASSUME TypeOK, Wires, Writers, NEW s \in Senders, spc[s] # "idle",
           NEW n \in 1..Len(out[s]), UNCHANGED begun,
           Len(wire'[At[s]]) = Len(wire[At[s]]) + n,
           \A k \in 1..Len(wire[At[s]]) : wire'[At[s]][k] = wire[At[s]][k],
           \A k \in 1..n : wire'[At[s]][Len(wire[At[s]]) + k] = out[s][k]
    PROVE  Carried(At[s])'
<1> DEFINE e == At[s]
           b == begun[e]
           last == Len(b)
           w == wire[e]
           w2 == wire'[e]
           old == Len(w)
           o == out[s]
           room == Len(o)
           start == b[last].at
<1>1. /\ e \in Ends /\ last \in Nat \ {0} /\ old \in Nat
      /\ start \in Nat /\ start <= old /\ b[last].pkg = pkg[s]
      /\ \A k \in 1..room : o[k] = Frame(pkg[s])[(old - start) + k]
  BY WriterIs, Zenon DEF LastOf
<1>2. Chained(e) /\ Carried(e)
  BY <1>1 DEF Wires
<1>3. /\ n \in 1..room /\ Len(w2) = old + n /\ begun'[e] = b
      /\ \A k \in 1..old : w2[k] = w[k]
      /\ \A k \in 1..n : w2[old + k] = o[k]
  OBVIOUS
<1>4. \A i \in 1..last : b[i].at \in Nat /\ Len(b[i].pkg) \in Nat
  BY <1>1, BegunIs, Zenon
<1>5. \A i \in 1..last : i < last => b[i].at + 4 + Len(b[i].pkg) <= start
  <2>1. last \in 1..last
    BY <1>1
  <2> QED
    BY <1>2, <2>1, Zenon DEF Chained, FrameEnd
<1>6. \A i \in 1..last : \A k \in 1..(4 + Len(b[i].pkg)) :
          b[i].at + k <= old => w[b[i].at + k] = Frame(b[i].pkg)[k]
  BY <1>2, Zenon DEF Carried
<1>7. ASSUME \A i \in 1..last : \A k \in 1..(4 + Len(b[i].pkg)) :
                 b[i].at + k <= old + n => w2[b[i].at + k] = Frame(b[i].pkg)[k]
      PROVE  Carried(e)'
  BY <1>3, <1>7, ZenonT(40) DEF Carried
<1>8. room \in Nat
  <2>1. out[s] \in Seq(Byte)
    BY Types DEF Content, Bytes
  <2> QED
    BY <2>1
<1> HIDE DEF e, b, last, w, w2, old, o, room, start
<1> SUFFICES ASSUME NEW i \in 1..last, NEW k \in 1..(4 + Len(b[i].pkg)),
                    b[i].at + k <= old + n
             PROVE  w2[b[i].at + k] = Frame(b[i].pkg)[k]
  BY <1>7 DEF e
<1> DEFINE at == b[i].at
           len == Len(b[i].pkg)
<1>9. at \in Nat /\ len \in Nat /\ k \in 1..(4 + len) /\ at + k <= old + n
  BY <1>4
<1>10. i < last => at + 4 + len <= start
  BY <1>5
<1>11. at + k <= old => w[at + k] = Frame(b[i].pkg)[k]
  BY <1>6
<1>12. i = last => at = start
  BY DEF start
<1> HIDE DEF at, len
<1>13. k \in Nat \ {0} /\ n \in Nat \ {0} /\ i \in Nat
  BY <1>1, <1>3, <1>8, <1>9
<1>14. CASE at + k <= old
  <2>1. at + k \in 1..old
    BY <1>1, <1>9, <1>13, <1>14
  <2> QED
    BY <1>3, <1>11, <1>14, <2>1 DEF at
<1>15. CASE at + k > old
  <2>1. ~ (i < last)
    BY <1>1, <1>9, <1>10, <1>13, <1>15
  <2>2. i = last /\ at = start
    BY <1>1, <1>12, <1>13, <2>1
  <2> DEFINE m == (at + k) - old
  <2>3. m \in 1..n /\ at + k = old + m /\ m \in 1..room /\ (old - start) + m = k
    BY <1>1, <1>3, <1>8, <1>9, <1>13, <1>15, <2>2
  <2> HIDE DEF m
  <2>4. w2[old + m] = o[m] /\ o[m] = Frame(pkg[s])[(old - start) + m]
    BY <1>1, <1>3, <2>3
  <2>5. b[i].pkg = pkg[s]
    BY <1>1, <2>2
  <2> QED
    BY <2>3, <2>4, <2>5 DEF at
<1> QED
  BY <1>1, <1>9, <1>13, <1>14, <1>15

LEMMA BytesKeep ==
    ASSUME TypeOK, Wires, Writers, NEW s \in Senders, SendBytes(s)
    PROVE  Wires' /\ Writers'
<1> DEFINE e == At[s]
           f == LastOf(e)
<1>1. PICK n \in 1..Len(out[s]) :
          /\ wire' = [wire EXCEPT ![e] = @ \o SubSeq(out[s], 1, n)]
          /\ out' = [out EXCEPT ![s] = SubSeq(@, n + 1, Len(@))]
  BY DEF SendBytes
<1>2. /\ spc[s] # "idle"
      /\ UNCHANGED <<state, mu_send, begun, spc, pkg, sret>>
  BY DEF SendBytes
<1>3. /\ e \in Ends /\ mu_send[e] = s
      /\ Len(begun[e]) \in Nat \ {0} /\ begun[e] # <<>>
      /\ f.pkg = pkg[s] /\ f.at \in Nat
      /\ Len(pkg[s]) \in Nat
      /\ Len(wire[e]) \in Nat /\ f.at <= Len(wire[e])
      /\ EndOf(e) = f.at + 4 + Len(pkg[s])
      /\ Len(out[s]) = Stop(s) - (Len(wire[e]) - f.at)
      /\ \A k \in 1..Len(out[s]) : out[s][k] = Frame(pkg[s])[(Len(wire[e]) - f.at) + k]
  BY <1>2, WriterIs
<1>4. wire \in [Ends -> Bytes] /\ out \in [Senders -> Bytes]
  BY Types DEF Content
<1>5. wire[e] \in Seq(Byte) /\ out[s] \in Seq(Byte) /\ Len(out[s]) \in Nat /\ n \in Nat
  BY <1>3, <1>4 DEF Bytes
<1>6. /\ Len(wire'[e]) = Len(wire[e]) + n
      /\ \A k \in 1..Len(wire[e]) : wire'[e][k] = wire[e][k]
      /\ \A k \in 1..n : wire'[e][Len(wire[e]) + k] = out[s][k]
      /\ Len(out'[s]) = Len(out[s]) - n
      /\ \A k \in 1..(Len(out[s]) - n) : out'[s][k] = out[s][n + k]
  <2>1. /\ wire'[e] = wire[e] \o SubSeq(out[s], 1, n)
        /\ out'[s] = SubSeq(out[s], n + 1, Len(out[s]))
    BY <1>1, <1>3, <1>4
  <2> QED
    BY <1>5, <2>1, Moved
<1>7. /\ \A d \in Ends \ {e} : wire'[d] = wire[d]
      /\ \A t \in Senders \ {s} : out'[t] = out[t]
  BY <1>1, <1>4
<1>8. Wires'
  <2> SUFFICES ASSUME NEW d \in Ends
               PROVE  Chained(d)' /\ Carried(d)' /\ InFrame(d)'
    BY DEF Wires
  <2>1. Chained(d) /\ Carried(d) /\ InFrame(d)
    BY DEF Wires
  <2>2. Chained(d)'
    BY <1>2, <2>1 DEF Chained
  <2>3. CASE d # e
    BY SMTT(40), <1>2, <1>7, <2>1, <2>2, <2>3 DEF Carried, InFrame, EndOf, LastOf
  <2>4. CASE d = e
    <3>1. Carried(e)'
      BY <1>2, <1>6, WireGrows
    <3>2. EndOf(e)' = EndOf(e) /\ LastOf(e)' = f
      BY <1>2 DEF EndOf, LastOf
    <3>3. Stop(s) \in Nat /\ Stop(s) <= 4 + Len(pkg[s])
      BY <1>3 DEF Stop
    <3>4. Len(wire'[e]) <= EndOf(e) /\ f.at <= Len(wire'[e])
      <4> DEFINE w == Len(wire[e])
                 w2 == Len(wire'[e])
                 room == Len(out[s])
                 at == f.at
                 len == Len(pkg[s])
                 stop == Stop(s)
      <4>1. /\ w \in Nat /\ at \in Nat /\ len \in Nat /\ stop \in Nat /\ room \in Nat
            /\ n \in 1..room /\ w2 = w + n /\ at <= w
            /\ room = stop - (w - at) /\ stop <= 4 + len
            /\ EndOf(e) = at + 4 + len
        BY <1>3, <1>5, <1>6, <3>3, Zenon
      <4> HIDE DEF w, w2, room, at, len, stop
      <4>2. w2 <= at + 4 + len /\ at <= w2
        BY <4>1
      <4> QED
        BY <4>1, <4>2, Zenon DEF w2, at
    <3>5. mu_send'[e] # Nobody
      BY <1>2, <1>3, Places
    <3>6. InFrame(e)'
      BY <3>2, <3>4, <3>5 DEF InFrame
    <3> QED
      BY <2>2, <2>4, <3>1, <3>6
  <2> QED
    BY <2>3, <2>4
<1>9. Writers'
  <2> SUFFICES ASSUME NEW t \in Senders
               PROVE  Writing(t)' /\ Told(t)'
    BY DEF Writers
  <2>1. CASE t # s
    <3>1. At[t] \in Ends /\ Len(wire[At[t]]) \in Nat /\ Len(begun[At[t]]) \in Nat
      BY Places, BegunIs
    <3>2. Len(wire'[At[t]]) \in Nat /\ Len(wire[At[t]]) <= Len(wire'[At[t]])
      <4>1. Len(wire[e]) + n \in Nat /\ Len(wire[e]) <= Len(wire[e]) + n
        BY SMTT(40), <1>3, <1>5
      <4>2. CASE At[t] = e
        BY <1>6, <4>1, <4>2, Zenon
      <4>3. CASE At[t] # e
        <5>1. wire'[At[t]] = wire[At[t]]
          BY <1>7, <3>1, <4>3
        <5> QED
          BY <3>1, <5>1
      <4> QED
        BY <4>2, <4>3
    <3>3. At[t] # e => wire'[At[t]] = wire[At[t]]
      BY <1>7, <3>1
    <3> QED
      BY <1>2, <1>3, <1>7, <2>1, <3>1, <3>2, <3>3, Others
  <2>2. CASE t = s
    <3>1. Told(s)'
      BY <1>2 DEF Told
    <3>2. Stop(s)' = Stop(s) /\ LastOf(e)' = f
      BY <1>2 DEF Stop, LastOf
    <3>3. Done(s)' = (Len(wire[e]) - f.at) + n
      BY <1>3, <1>5, <1>6, <3>2 DEF Done
    <3>4. Len(out'[s]) = Stop(s) - ((Len(wire[e]) - f.at) + n)
      <4>1. Stop(s) \in Nat
        BY <1>3 DEF Stop
      <4> QED
        BY SMTT(40), <1>3, <1>5, <1>6, <4>1
    <3>5. \A k \in 1..Len(out'[s]) :
              out'[s][k] = Frame(pkg[s])[((Len(wire[e]) - f.at) + n) + k]
      <4> SUFFICES ASSUME NEW k \in 1..(Len(out[s]) - n)
                   PROVE  out'[s][k] = Frame(pkg[s])[((Len(wire[e]) - f.at) + n) + k]
        BY <1>6
      <4>1. n + k \in 1..Len(out[s])
        BY <1>5
      <4>2. (Len(wire[e]) - f.at) + (n + k) = ((Len(wire[e]) - f.at) + n) + k
        BY <1>3, <1>5
      <4>3. out'[s][k] = out[s][n + k]
        BY <1>6
      <4>4. out[s][n + k] = Frame(pkg[s])[(Len(wire[e]) - f.at) + (n + k)]
        BY <1>3, <4>1
      <4> QED
        BY <4>2, <4>3, <4>4
    <3>6. Writing(s)'
      BY <1>2, <1>3, <3>2, <3>3, <3>4, <3>5 DEF Writing
    <3> QED
      BY <2>2, <3>1, <3>6
  <2> QED
    BY <2>1, <2>2
<1> QED
  BY <1>8, <1>9

\* What was begun and what is written stays; only the sender that takes the
\* step, its mutex and its end's state change.
LEMMA SameWire ==
    ASSUME TypeOK, Wires, Writers, NEW s \in Senders,
           UNCHANGED <<wire, begun, pkg>>,
           mu_send[At[s]] \in {s, Nobody},
           \A t \in Senders \ {s} :
              spc'[t] = spc[t] /\ out'[t] = out[t] /\ sret'[t] = sret[t],
           \A d \in Ends \ {At[s]} : mu_send'[d] = mu_send[d],
           \A d \in Ends : state'[d] => state[d],
           mu_send'[At[s]] = Nobody /\ state'[At[s]]
              => Len(wire[At[s]]) = EndOf(At[s]),
           Writing(s)', Told(s)'
    PROVE  Wires' /\ Writers'
<1>1. ASSUME NEW d \in Ends PROVE Chained(d)' /\ Carried(d)' /\ InFrame(d)'
  <2>1. Chained(d) /\ Carried(d) /\ InFrame(d)
    BY DEF Wires
  <2>2. Chained(d)' /\ Carried(d)'
    BY <2>1 DEF Chained, Carried
  <2>3. EndOf(d)' = EndOf(d) /\ LastOf(d)' = LastOf(d)
    BY DEF EndOf, LastOf
  <2>4. mu_send'[d] = Nobody /\ state'[d] => Len(wire[d]) = EndOf(d)
    <3>1. CASE d = At[s]
      BY <3>1
    <3>2. CASE d # At[s]
      BY <2>1, <3>2 DEF InFrame
    <3> QED
      BY <3>1, <3>2
  <2>5. InFrame(d)'
    BY <2>1, <2>3, <2>4 DEF InFrame
  <2> QED
    BY <2>2, <2>5
<1>2. ASSUME NEW t \in Senders, t # s PROVE Writing(t)' /\ Told(t)'
  <2>1. At[t] \in Ends /\ Len(wire[At[t]]) \in Nat /\ Len(begun[At[t]]) \in Nat
    BY Places, BegunIs
  <2>2. At[t] # At[s] => mu_send'[At[t]] = mu_send[At[t]]
    BY <2>1
  <2> QED
    BY <1>2, <2>1, <2>2, Others
<1> QED
  BY <1>1, <1>2 DEF Wires, Writers

LEMMA BodyKeeps ==
    ASSUME SizesCountable, TypeOK, Wires, Writers, NEW s \in Senders, SendBody(s)
    PROVE  Wires' /\ Writers'
<1> DEFINE e == At[s]
           f == LastOf(e)
<1>1. /\ spc[s] = "head" /\ out[s] = <<>>
      /\ UNCHANGED <<state, mu_send, wire, begun, pkg, sret>>
      /\ spc' = [spc EXCEPT ![s] = "body"]
      /\ out' = [out EXCEPT ![s] = SubSeq(pkg[s], 1, PackageSize(pkg[s]))]
  BY DEF SendBody, link
<1>2. /\ e \in Ends /\ mu_send[e] = s /\ begun[e] # <<>> /\ f.pkg = pkg[s]
      /\ f.at \in Nat /\ pkg[s] \in Packages /\ pkg[s] \in Seq(Byte)
      /\ Len(pkg[s]) \in Nat /\ Len(pkg[s]) <= Limit /\ Len(wire[e]) \in Nat
      /\ Len(out[s]) = Stop(s) - (Len(wire[e]) - f.at)
  BY <1>1, WriterIs
<1>3. Len(wire[e]) - f.at = 4
  <2>1. Len(out[s]) = 0 /\ Stop(s) = 4
    BY <1>1 DEF Stop
  <2> QED
    BY <1>2, <2>1
<1>4. spc \in [Senders -> {"idle", "head", "body"}] /\ out \in [Senders -> Bytes]
  BY Types DEF Control, Content
<1>5. out'[s] = pkg[s] /\ spc'[s] = "body"
  BY <1>1, <1>2, <1>4, SizeSays, SubSeqFull
<1>6. Writing(s)'
  <2>1. Stop(s)' = 4 + Len(pkg[s]) /\ LastOf(e)' = f /\ Done(s)' = 4
    BY <1>1, <1>3, <1>5 DEF Stop, LastOf, Done
  <2>2. Len(pkg[s]) = (4 + Len(pkg[s])) - 4
    BY <1>2
  <2>3. \A k \in 1..Len(pkg[s]) : pkg[s][k] = Frame(pkg[s])[4 + k]
    BY <1>2, FrameIs
  <2> QED
    BY <1>1, <1>2, <1>5, <2>1, <2>2, <2>3 DEF Writing
<1>7. Told(s)'
  BY <1>5 DEF Told
<1>8. \A t \in Senders \ {s} : spc'[t] = spc[t] /\ out'[t] = out[t] /\ sret'[t] = sret[t]
  BY <1>1, <1>4
<1>9. mu_send'[e] # Nobody
  BY <1>1, <1>2, Places
<1> QED
  BY <1>1, <1>2, <1>6, <1>7, <1>8, <1>9, SameWire

\* A return of sendpackage, after an error or with the whole frame written.
LEMMA ReturnKeeps ==
    ASSUME TypeOK, Wires, Writers, NEW s \in Senders, NEW value,
           spc[s] # "idle", SendReturn(s, value),
           \A d \in Ends : state'[d] => state[d],
           \/ ~state'[At[s]] /\ value # "success"
           \/ spc[s] = "body" /\ out[s] = <<>>
    PROVE  Wires' /\ Writers'
<1> DEFINE e == At[s]
           f == LastOf(e)
<1>1. /\ UNCHANGED <<wire, begun, pkg>>
      /\ spc' = [spc EXCEPT ![s] = "idle"]
      /\ out' = [out EXCEPT ![s] = <<>>]
      /\ mu_send' = [mu_send EXCEPT ![e] = Nobody]
      /\ sret' = [sret EXCEPT ![s] = value]
  BY DEF SendReturn, link
<1>2. /\ e \in Ends /\ mu_send[e] = s
      /\ Len(begun[e]) \in Nat \ {0} /\ begun[e] # <<>>
      /\ f = begun[e][Len(begun[e])] /\ f.pkg = pkg[s] /\ f.at \in Nat
      /\ Len(pkg[s]) \in Nat /\ Len(wire[e]) \in Nat
      /\ EndOf(e) = f.at + 4 + Len(pkg[s])
      /\ Len(out[s]) = Stop(s) - (Len(wire[e]) - f.at)
  BY WriterIs
<1>3. /\ spc \in [Senders -> {"idle", "head", "body"}] /\ out \in [Senders -> Bytes]
      /\ sret \in [Senders -> Ret] /\ mu_send \in [Ends -> Senders \cup {Nobody}]
  BY Types DEF Control, Content
<1>4. spc'[s] = "idle" /\ sret'[s] = value
  BY <1>1, <1>3
<1>5. spc[s] = "body" /\ out[s] = <<>> => Len(wire[e]) = EndOf(e)
  <2> SUFFICES ASSUME spc[s] = "body", out[s] = <<>> PROVE Len(wire[e]) = EndOf(e)
    OBVIOUS
  <2>1. Len(out[s]) = 0 /\ Stop(s) = 4 + Len(pkg[s])
    BY DEF Stop
  <2> DEFINE w == Len(wire[e])
             at == f.at
             len == Len(pkg[s])
  <2>2. w \in Nat /\ at \in Nat /\ len \in Nat /\ 0 = (4 + len) - (w - at)
    BY <1>2, <2>1, Zenon
  <2> HIDE DEF w, at, len
  <2>3. w = at + 4 + len
    BY <2>2
  <2> QED
    BY <1>2, <2>3, Zenon DEF w, at, len
<1>6. Writing(s)'
  BY <1>4 DEF Writing
<1>7. Told(s)'
  <2> SUFFICES ASSUME value = "success"
               PROVE  \E i \in 1..Len(begun[e]) :
                         begun[e][i].pkg = pkg[s] /\ FrameEnd(begun[e][i]) <= Len(wire[e])
    BY <1>1, <1>4 DEF Told
  <2>1. Len(wire[e]) = EndOf(e)
    BY <1>5
  <2>2. EndOf(e) = FrameEnd(begun[e][Len(begun[e])])
    BY <1>2 DEF EndOf
  <2>3. Len(begun[e]) \in 1..Len(begun[e])
    BY <1>2
  <2>4. Len(wire[e]) <= Len(wire[e])
    BY <1>2
  <2> QED
    BY <1>2, <2>1, <2>2, <2>3, <2>4, Zenon
<1>8. \A t \in Senders \ {s} : spc'[t] = spc[t] /\ out'[t] = out[t] /\ sret'[t] = sret[t]
  BY <1>1, <1>3
<1>9. \A d \in Ends \ {e} : mu_send'[d] = mu_send[d]
  BY <1>1, <1>3
<1>10. mu_send'[e] = Nobody /\ state'[e] => Len(wire[e]) = EndOf(e)
  BY <1>5
<1> QED
  BY <1>1, <1>2, <1>6, <1>7, <1>8, <1>9, <1>10, SameWire

\* A frame begun where the bytes end and the frames before it end.
LEMMA FrameBegun ==
    ASSUME TypeOK, Wires, NEW e \in Ends, NEW p \in Packages,
           Len(p) \in Nat, Len(p) <= Limit, Len(wire[e]) = EndOf(e),
           UNCHANGED wire, mu_send'[e] # Nobody,
           begun'[e] = Append(begun[e], [pkg |-> p, at |-> Len(wire[e])])
    PROVE  /\ Chained(e)' /\ Carried(e)' /\ InFrame(e)'
           /\ begun'[e] # <<>> /\ LastOf(e)' = [pkg |-> p, at |-> Len(wire[e])]
           /\ Len(begun'[e]) \in Nat /\ Len(begun[e]) <= Len(begun'[e])
           /\ \A i \in 1..Len(begun[e]) : begun'[e][i] = begun[e][i]
<1> DEFINE b == begun[e]
           last == Len(b)
           b2 == begun'[e]
           w == wire[e]
           old == Len(w)
           r == [pkg |-> p, at |-> old]
<1>1. Chained(e) /\ Carried(e) /\ InFrame(e)
  BY DEF Wires
<1>2. /\ last \in Nat /\ old \in Nat
      /\ \A i \in 1..last : b[i].at \in Nat /\ Len(b[i].pkg) \in Nat
      /\ b = <<>> <=> last = 0
  BY BegunIs, Zenon
<1>3. /\ Len(b2) = last + 1 /\ b2[last + 1] = r
      /\ \A i \in 1..last : b2[i] = b[i]
  <2>1. begun \in [Ends -> Frames]
    BY Types DEF Content
  <2>2. b \in Seq([pkg : Packages, at : Nat])
    BY <2>1 DEF Frames
  <2>3. r \in [pkg : Packages, at : Nat]
    BY <1>2
  <2>4. b2 = Append(b, r)
    OBVIOUS
  <2> HIDE DEF b, b2, r
  <2> QED
    BY <2>2, <2>3, <2>4, AppendProperties DEF last
<1>4. r.pkg = p /\ r.at = old
  OBVIOUS
<1>5. /\ \A i \in 1..last : i < last => FrameEnd(b[i]) <= b[last].at
      /\ last # 0 => old = FrameEnd(b[last])
      /\ last = 0 => old = 0
  <2>1. last # 0 => last \in 1..last
    BY <1>2
  <2>2. \A i \in 1..last : last # 0
    BY <1>2
  <2>3. \A i \in 1..last : i < last => FrameEnd(b[i]) <= b[last].at
    BY <1>1, <2>1, <2>2, Zenon DEF Chained
  <2>4. last # 0 => old = FrameEnd(b[last])
    BY <1>2, Zenon DEF EndOf, LastOf
  <2>5. last = 0 => old = 0
    BY <1>2, Zenon DEF EndOf
  <2> QED
    BY <2>3, <2>4, <2>5
<1>6. \A i \in 1..last : FrameEnd(b[i]) <= old
  <2> SUFFICES ASSUME NEW i \in 1..last PROVE FrameEnd(b[i]) <= old
    OBVIOUS
  <2>0. last \in 1..last /\ last # 0
    BY <1>2
  <2>1. FrameEnd(b[i]) \in Nat /\ b[last].at \in Nat /\ Len(b[last].pkg) \in Nat
    BY <1>2, <2>0, FrameEndIs, Zenon
  <2>2. FrameEnd(b[last]) = b[last].at + 4 + Len(b[last].pkg)
    BY DEF FrameEnd
  <2>3. CASE i = last
    BY <1>2, <1>5, <2>3
  <2>4. CASE i < last
    <3>1. FrameEnd(b[i]) <= b[last].at /\ old = b[last].at + 4 + Len(b[last].pkg)
      BY <1>2, <1>5, <2>2, <2>4
    <3> QED
      BY SMTT(40), <2>1, <3>1
  <2> QED
    BY <1>2, <2>3, <2>4
<1>7. Len(b2) = last + 1
  BY <1>3
<1>8. Chained(e)'
  <2> SUFFICES ASSUME NEW i \in 1..(last + 1)
               PROVE  /\ b2[i].at = IF i = 1 THEN 0 ELSE FrameEnd(b2[i - 1])
                      /\ Len(b2[i].pkg) <= Limit
                      /\ \A j \in 1..(last + 1) : i < j => FrameEnd(b2[i]) <= b2[j].at
    BY <1>7, Zenon DEF Chained
  <2>0. i \in Nat \ {0} /\ i <= last + 1 /\ last + 1 \in Nat
    BY <1>2
  <2>1. CASE i = last + 1
    <3>1. b2[i] = r /\ (i # 1 => b2[i - 1] = b[last] /\ last # 0) /\ (i = 1 => last = 0)
      BY <1>2, <1>3, <2>1
    <3>2. \A j \in 1..(last + 1) : ~ (i < j)
      BY <1>2, <2>1
    <3> HIDE DEF b, last, b2, w, old, r
    <3> QED
      BY <1>4, <1>5, <3>1, <3>2
  <2>2. CASE i # last + 1
    <3>1. i \in 1..last /\ (i # 1 => i - 1 \in 1..last)
      BY <1>2, <2>0, <2>2
    <3>2. /\ b[i].at = IF i = 1 THEN 0 ELSE FrameEnd(b[i - 1])
          /\ Len(b[i].pkg) <= Limit
          /\ \A j \in 1..last : i < j => FrameEnd(b[i]) <= b[j].at
      BY <1>1, <3>1, Zenon DEF Chained
    <3>3. b2[i] = b[i] /\ (i # 1 => b2[i - 1] = b[i - 1])
      BY <1>3, <3>1
    <3>4. \A j \in 1..(last + 1) : i < j => FrameEnd(b2[i]) <= b2[j].at
      <4> SUFFICES ASSUME NEW j \in 1..(last + 1), i < j
                   PROVE  FrameEnd(b[i]) <= b2[j].at
        BY <3>3
      <4>1. CASE j = last + 1
        <5>1. b2[j].at = old
          BY <1>3, <1>4, <4>1
        <5> QED
          BY <1>6, <3>1, <5>1, Zenon
      <4>2. CASE j # last + 1
        <5>1. j \in 1..last
          BY <1>2, <4>2
        <5>2. b2[j] = b[j]
          BY <1>3, <5>1
        <5> QED
          BY <3>2, <5>1, <5>2, Zenon
      <4> QED
        BY <4>1, <4>2
    <3> QED
      BY <3>2, <3>3, <3>4, Zenon
  <2> QED
    BY <2>1, <2>2
<1>9. Carried(e)'
  <2> SUFFICES ASSUME NEW i \in 1..(last + 1), NEW k \in 1..(4 + Len(b2[i].pkg)),
                      b2[i].at + k <= old
               PROVE  w[b2[i].at + k] = Frame(b2[i].pkg)[k]
    BY <1>7, Zenon DEF Carried
  <2>1. CASE i = last + 1
    <3>1. b2[i].at = old /\ b2[i].pkg = p
      BY <1>3, <1>4, <2>1
    <3>2. k \in Nat \ {0}
      BY <3>1
    <3> HIDE DEF b, last, b2, w, old, r
    <3> QED
      BY <1>2, <3>1, <3>2
  <2>2. CASE i # last + 1
    <3>1. i \in 1..last
      BY <1>2, <2>2
    <3>2. b2[i] = b[i]
      BY <1>3, <3>1
    <3> QED
      BY <1>1, <3>1, <3>2, Zenon DEF Carried
  <2> QED
    BY <2>1, <2>2
<1>10. LastOf(e)' = r /\ b2 # <<>>
  <2>1. b2 # <<>>
    BY <1>2, <1>7
  <2> QED
    BY <1>3, <2>1 DEF LastOf
<1>11. InFrame(e)'
  <2>1. EndOf(e)' = old + 4 + Len(p)
    BY <1>4, <1>10, Zenon DEF EndOf, FrameEnd
  <2>2. old <= old + 4 + Len(p) /\ old <= old
    BY <1>2
  <2> QED
    BY <1>4, <1>10, <2>1, <2>2, Zenon DEF InFrame
<1> QED
  BY <1>2, <1>3, <1>8, <1>9, <1>10, <1>11

LEMMA StartKeeps ==
    ASSUME SizesCountable, TypeOK, Wires, Writers,
           NEW s \in Senders, NEW p \in Packages, SendStart(s, p)
    PROVE  Wires' /\ Writers'
<1> DEFINE e == At[s]
           r == [pkg |-> p, at |-> Len(wire[e])]
<1>1. /\ mu_send[e] = Nobody /\ state[e] /\ PackageSize(p) <= Limit
      /\ UNCHANGED <<state, wire, sret>>
      /\ mu_send' = [mu_send EXCEPT ![e] = s]
      /\ spc' = [spc EXCEPT ![s] = "head"]
      /\ pkg' = [pkg EXCEPT ![s] = p]
      /\ out' = [out EXCEPT ![s] = Header(PackageSize(p))]
      /\ begun' = [begun EXCEPT ![e] = Append(@, r)]
  BY DEF SendStart, MaySend, link
<1>2. e \in Ends /\ s # Nobody /\ p \in Seq(Byte) /\ Len(p) \in Nat /\ Len(p) <= Limit
      /\ PackageSize(p) = Len(p) /\ Len(wire[e]) \in Nat
  BY <1>1, Places, SizeSays, BegunIs
<1>3. /\ spc \in [Senders -> {"idle", "head", "body"}] /\ out \in [Senders -> Bytes]
      /\ pkg \in [Senders -> Packages \cup {<<>>}] /\ begun \in [Ends -> Frames]
      /\ mu_send \in [Ends -> Senders \cup {Nobody}]
  BY Types DEF Control, Content
<1>4. /\ mu_send'[e] = s /\ begun'[e] = Append(begun[e], r)
      /\ spc'[s] = "head" /\ pkg'[s] = p /\ out'[s] = Header(Len(p))
  BY <1>1, <1>2, <1>3
<1>5. /\ \A d \in Ends \ {e} : mu_send'[d] = mu_send[d] /\ begun'[d] = begun[d]
      /\ \A t \in Senders \ {s} :
            spc'[t] = spc[t] /\ pkg'[t] = pkg[t] /\ out'[t] = out[t] /\ sret'[t] = sret[t]
  BY <1>1, <1>3
<1>6. Len(wire[e]) = EndOf(e)
  <2>1. InFrame(e)
    BY <1>2 DEF Wires
  <2> QED
    BY <1>1, <2>1 DEF InFrame
<1>7. /\ Chained(e)' /\ Carried(e)' /\ InFrame(e)'
      /\ begun'[e] # <<>> /\ LastOf(e)' = r
      /\ Len(begun'[e]) \in Nat /\ Len(begun[e]) <= Len(begun'[e])
      /\ \A i \in 1..Len(begun[e]) : begun'[e][i] = begun[e][i]
  BY <1>1, <1>2, <1>4, <1>6, FrameBegun
<1>8. Wires'
  <2> SUFFICES ASSUME NEW d \in Ends, d # e
               PROVE  Chained(d)' /\ Carried(d)' /\ InFrame(d)'
    BY <1>7 DEF Wires
  <2>1. Chained(d) /\ Carried(d) /\ InFrame(d)
    BY DEF Wires
  <2> QED
    BY <1>1, <1>5, <2>1 DEF Chained, Carried, InFrame, EndOf, LastOf
<1>9. Writing(s)' /\ Told(s)'
  <2>1. Told(s)'
    BY <1>4 DEF Told
  <2>2. Done(s)' = 0 /\ Stop(s)' = 4
    <3>1. r.at = Len(wire[e])
      OBVIOUS
    <3>2. Done(s)' = Len(wire[e]) - Len(wire[e])
      BY <1>1, <1>7, <3>1 DEF Done
    <3> QED
      BY <1>2, <1>4, <3>2 DEF Stop
  <2>3. /\ Len(Header(Len(p))) = 4
        /\ \A k \in 1..4 : Header(Len(p))[k] = Frame(p)[0 + k]
    BY <1>2, HeaderSays, FrameIs
  <2>4. LastOf(e)'.pkg = p
    BY <1>7
  <2> QED
    BY <1>4, <1>7, <2>1, <2>2, <2>3, <2>4 DEF Writing
<1>10. ASSUME NEW t \in Senders, t # s PROVE Writing(t)' /\ Told(t)'
  <2>1. At[t] \in Ends /\ Len(wire[At[t]]) \in Nat /\ Len(begun[At[t]]) \in Nat
    BY Places, BegunIs
  <2>2. /\ Len(begun'[At[t]]) \in Nat /\ Len(begun[At[t]]) <= Len(begun'[At[t]])
        /\ \A i \in 1..Len(begun[At[t]]) : begun'[At[t]][i] = begun[At[t]][i]
    BY <1>5, <1>7, <2>1
  <2>3. At[t] # e => mu_send'[At[t]] = mu_send[At[t]] /\ begun'[At[t]] = begun[At[t]]
    BY <1>5, <2>1
  <2> QED
    BY <1>1, <1>5, <1>10, <2>1, <2>2, <2>3, Others
<1> QED
  BY <1>8, <1>9, <1>10 DEF Writers

LEMMA SenderKeeps ==
    ASSUME SizesCountable, TypeOK, Wires, Writers, NEW s \in Senders, SendStep(s)
    PROVE  Wires' /\ Writers'
<1>1. ASSUME NEW p \in Packages, SendRefused(s, p) PROVE Wires' /\ Writers'
  <2>1. UNCHANGED <<wire, begun, mu_send, spc, pkg, out, state>>
    BY <1>1 DEF SendRefused, link
  <2>2. \A t \in Senders : sret'[t] = "success" => sret[t] = "success"
    <3>1. sret \in [Senders -> Ret]
      BY Types DEF Control
    <3> QED
      BY <1>1, <3>1 DEF SendRefused
  <2> QED
    BY <2>1, <2>2, Quiet
<1>2. CASE SendAsserts(s)
  BY <1>2, Quiet DEF SendAsserts, link, sender
<1>3. CASE SendDone(s)
  BY <1>3, ReturnKeeps DEF SendDone
<1>4. CASE SendFails(s)
  <2>1. state \in [Ends -> BOOLEAN] /\ At[s] \in Ends
    BY Types, Places DEF Control
  <2>2. /\ \A d \in Ends : state'[d] => state[d]
        /\ ~state'[At[s]] /\ spc[s] # "idle" /\ SendReturn(s, "ruined")
    BY <1>4, <2>1 DEF SendFails
  <2> QED
    BY <2>2, ReturnKeeps
<1> QED
  BY <1>1, <1>2, <1>3, <1>4, StartKeeps, BytesKeep, BodyKeeps DEF SendStep

\* No call of recvpackage touches the sending half, but for state, which falls.
LEMMA ReceiverKeeps ==
    ASSUME TypeOK, Wires, Writers, NEW r \in Receivers, RecvStep(r)
    PROVE  Wires' /\ Writers'
<1>1. state \in [Ends -> BOOLEAN] /\ At[r] \in Ends
  BY Types, Places DEF Control
<1>2. ASSUME NEW value, RecvReturn(r, value)
      PROVE  UNCHANGED <<wire, begun, mu_send, spc, pkg, out, sret>>
  BY <1>2 DEF RecvReturn, link, sender
<1>3. /\ UNCHANGED <<wire, begun, mu_send, spc, pkg, out, sret>>
      /\ state' = state \/ state' = [state EXCEPT ![At[r]] = FALSE]
  <2>1. CASE RecvRuined(r) \/ RecvCheck(r) \/ RecvLock(r) \/ RecvBytes(r) \/ RecvAsserts(r)
    BY <2>1 DEF RecvRuined, RecvCheck, RecvLock, RecvBytes, RecvAsserts, link, sender
  <2>2. CASE RecvHeader(r)
    BY <1>2, <2>2 DEF RecvHeader, link, sender
  <2>3. CASE RecvDone(r)
    BY <1>2, <2>3 DEF RecvDone
  <2>4. CASE RecvEof(r) \/ RecvFails(r)
    BY <1>2, <2>4 DEF RecvEof, RecvFails, RecvGivesUp
  <2> QED
    BY <2>1, <2>2, <2>3, <2>4 DEF RecvStep
<1>4. \A d \in Ends : state'[d] => state[d]
  BY <1>1, <1>3
<1> QED
  BY <1>3, <1>4, Quiet

LEMMA Initially ==
    ASSUME Init
    PROVE  SendInv
<1>1. TypeOK
  <2>1. Control
    BY SomeSeqs DEF Init, Control, Ret
  <2>2. <<>> \in Frames /\ <<>> \in ManyBytes
    BY DEF Frames, ManyBytes
  <2>3. Content
    BY SomeSeqs, <2>2 DEF Init, Content
  <2> QED
    BY <2>1, <2>3, Types
<1>2. Wires
  BY DEF Init, Wires, Chained, Carried, InFrame, EndOf
<1>3. Writers
  BY DEF Init, Writers, Writing, Told
<1> QED
  BY <1>1, <1>2, <1>3 DEF SendInv

LEMMA Inductive ==
    ASSUME SizesCountable, SendInv, [Next]_vars
    PROVE  SendInv'
<1>1. TypeOK /\ Wires /\ Writers
  BY DEF SendInv
<1>2. TypeOK'
  BY <1>1, TypeStep
<1>3. ASSUME NEW e \in Ends, Destroy(e) PROVE Wires' /\ Writers'
  <2>1. UNCHANGED <<wire, begun, mu_send, spc, pkg, out, sret>>
    BY <1>3 DEF Destroy, link, sender
  <2>2. \A d \in Ends : state'[d] => state[d]
    BY <1>1, <1>3, Types DEF Destroy, Control
  <2> QED
    BY <1>1, <2>1, <2>2, Quiet
<1>4. ASSUME UNCHANGED vars PROVE Wires' /\ Writers'
  BY <1>1, <1>4, Quiet DEF vars
<1> QED
  BY <1>1, <1>2, <1>3, <1>4, SenderKeeps, ReceiverKeeps DEF Next, Gone, SendInv

LEMMA Invariance ==
    ASSUME SizesCountable
    PROVE  Spec => []SendInv
<1>1. Init => SendInv
  BY Initially
<1>2. SendInv /\ [Next]_vars => SendInv'
  BY Inductive
<1> QED
  BY <1>1, <1>2, PTL DEF Spec

(***************************************************************************)
(* Whatever the threads, their interleaving and the pieces ::send takes,   *)
(* an end writes whole frames one after the other, and a sender that is    *)
(* told success has its frame on the wire (net.cpp:136-150, 176-204).      *)
(***************************************************************************)
THEOREM NapComSendsWhole ==
    ASSUME SizesCountable
    PROVE  Spec => []SendsWholeFrames
<1>1. SendInv => SendsWholeFrames
  <2> SUFFICES ASSUME SendInv PROVE SendsWholeFrames
    OBVIOUS
  <2>1. TypeOK /\ Wires /\ Writers
    BY DEF SendInv
  <2>2. SuccessIsWhole
    BY <2>1 DEF Writers, Told, SuccessIsWhole
  <2>3. FramesOnWire
    <3> SUFFICES ASSUME NEW e \in Ends, NEW i \in 1..Len(begun[e])
                 PROVE  LET f == begun[e][i] IN
                        /\ f.at = IF i = 1 THEN 0 ELSE FrameEnd(begun[e][i - 1])
                        /\ Len(wire[e]) <= FrameEnd(f) \/ i < Len(begun[e])
                        /\ \A k \in 1..(4 + Len(f.pkg)) :
                              f.at + k <= Len(wire[e]) =>
                                 wire[e][f.at + k] = Frame(f.pkg)[k]
      BY DEF FramesOnWire
    <3>1. Chained(e) /\ Carried(e) /\ InFrame(e)
      BY <2>1 DEF Wires
    <3>2. Len(begun[e]) \in Nat /\ begun[e] # <<>>
      BY <2>1, BegunIs
    <3>3. Len(wire[e]) <= FrameEnd(begun[e][i]) \/ i < Len(begun[e])
      <4>1. i = Len(begun[e]) \/ i < Len(begun[e])
        BY <3>2
      <4>2. Len(wire[e]) <= FrameEnd(begun[e][Len(begun[e])])
        BY <3>1, <3>2 DEF InFrame, EndOf, LastOf
      <4> QED
        BY <4>1, <4>2
    <3> QED
      BY <3>1, <3>3, Zenon DEF Chained, Carried
  <2> QED
    BY <2>1, <2>2, <2>3 DEF SendsWholeFrames
<1> QED
  BY <1>1, Invariance, PTL

-----------------------------------------------------------------------------
(* The receiving half, with one receiver at each end.                        *)

OneReceiver == \A q, r \in Receivers : At[q] = At[r] => q = r

\* Where the frame of the next package begins.
Base(e) == IF got[e] = <<>> THEN 0 ELSE FrameEnd(begun[Peer(e)][Len(got[e])])

\* The packages an end has given are the first its peer has begun.
Given(e) ==
    /\ Len(got[e]) <= Len(begun[Peer(e)])
    /\ \A i \in 1..Len(got[e]) : got[e][i] = begun[Peer(e)][i].pkg
    /\ nread[Peer(e)] <= Len(wire[Peer(e)])

\* Between two calls the receiver is at the beginning of a frame; in a call it
\* has read the beginning of the header, or the header and the beginning of
\* the package; once ruined it reads no more.
Reading(r) ==
    LET e == At[r]
        from == Peer(e)
        next == Len(got[e]) + 1
    IN
    /\ rret[r] = "ruined" => rpc[r] = "idle" /\ ~state[e]
    /\ rpc[r] \in {"idle", "lock"} /\ rret[r] # "ruined" => nread[from] = Base(e)
    /\ rpc[r] = "head" =>
          /\ need[r] = 4 /\ Len(buf[r]) <= 4
          /\ nread[from] = Base(e) + Len(buf[r])
          /\ \A k \in 1..Len(buf[r]) : buf[r][k] = wire[from][Base(e) + k]
    /\ rpc[r] = "body" =>
          /\ next <= Len(begun[from])
          /\ need[r] = Len(begun[from][next].pkg) /\ Len(buf[r]) <= need[r]
          /\ nread[from] = Base(e) + 4 + Len(buf[r])
          /\ \A k \in 1..Len(buf[r]) : buf[r][k] = wire[from][Base(e) + 4 + k]

Readers == (\A e \in Ends : Given(e)) /\ (\A r \in Receivers : Reading(r))

\* What was begun and written stays, and no state comes back.
Grown ==
    \A e \in Ends :
        /\ Len(begun[e]) <= Len(begun'[e])
        /\ \A i \in 1..Len(begun[e]) : begun'[e][i] = begun[e][i]
        /\ Len(wire[e]) <= Len(wire'[e])
        /\ \A k \in 1..Len(wire[e]) : wire'[e][k] = wire[e][k]
        /\ state'[e] => state[e]

LEMMA GotIs ==
    ASSUME TypeOK
    PROVE  /\ \A e \in Ends : /\ got[e] \in Seq(Seq(Byte)) /\ Len(got[e]) \in Nat
                              /\ got[e] = <<>> <=> Len(got[e]) = 0
                              /\ nread[e] \in Nat
           /\ \A r \in Receivers : /\ buf[r] \in Seq(Byte) /\ Len(buf[r]) \in Nat
                                   /\ need[r] \in Nat
<1>1. \A e \in Ends : got[e] \in Seq(Seq(Byte)) /\ nread[e] \in Nat
  BY Types DEF Content, ManyBytes
<1>2. \A r \in Receivers : buf[r] \in Seq(Byte) /\ need[r] \in Nat
  BY Types, Bases DEF Content, Control, Bytes, Needs
<1>3. \A e \in Ends : Len(got[e]) \in Nat /\ (got[e] = <<>> <=> Len(got[e]) = 0)
  BY <1>1, EmptySeq
<1>4. \A r \in Receivers : Len(buf[r]) \in Nat
  BY <1>2
<1> QED
  BY <1>1, <1>2, <1>3, <1>4

\* The next frame begins where the ones before it end.
LEMMA BaseIs ==
    ASSUME TypeOK, Wires, NEW e \in Ends, Given(e)
    PROVE  /\ Base(e) \in Nat
           /\ Len(got[e]) + 1 <= Len(begun[Peer(e)]) =>
                 begun[Peer(e)][Len(got[e]) + 1].at = Base(e)
           /\ Len(got[e]) + 1 > Len(begun[Peer(e)]) => EndOf(Peer(e)) = Base(e)
<1> DEFINE b == begun[Peer(e)]
           g == Len(got[e])
           last == Len(b)
<1>1. /\ Peer(e) \in Ends /\ g \in Nat /\ last \in Nat /\ g <= last
      /\ got[e] = <<>> <=> g = 0
      /\ b = <<>> <=> last = 0
      /\ \A i \in 1..last : b[i].at \in Nat /\ Len(b[i].pkg) \in Nat
      /\ Chained(Peer(e))
  BY Places, GotIs, BegunIs DEF Given, Wires
<1>2. Base(e) = IF g = 0 THEN 0 ELSE FrameEnd(b[g])
  BY <1>1, Zenon DEF Base
<1>3. EndOf(Peer(e)) = IF last = 0 THEN 0 ELSE FrameEnd(b[last])
  BY <1>1, Zenon DEF EndOf, LastOf
<1>4. \A i \in 1..last : b[i].at = IF i = 1 THEN 0 ELSE FrameEnd(b[i - 1])
  BY <1>1, Zenon DEF Chained
<1>5. \A i \in 1..last : FrameEnd(b[i]) \in Nat
  BY <1>1, FrameEndIs
<1> HIDE DEF b, g, last
<1>6. Base(e) \in Nat
  <2>1. g # 0 => g \in 1..last
    BY <1>1
  <2> QED
    BY <1>2, <1>5, <2>1
<1>7. g + 1 <= last => b[g + 1].at = Base(e)
  <2> SUFFICES ASSUME g + 1 <= last PROVE b[g + 1].at = Base(e)
    OBVIOUS
  <2>1. g + 1 \in 1..last /\ (g + 1) - 1 = g /\ (g + 1 = 1 <=> g = 0)
    BY <1>1
  <2> QED
    BY <1>2, <1>4, <2>1
<1>8. g + 1 > last => EndOf(Peer(e)) = Base(e)
  <2>1. g + 1 > last => g = last
    BY <1>1
  <2> QED
    BY <1>2, <1>3, <2>1
<1> QED
  BY <1>6, <1>7, <1>8 DEF b, g, last

LEMMA ReadersQuiet ==
    ASSUME TypeOK, TypeOK', Wires, Readers, Grown,
           UNCHANGED <<nread, got, rpc, buf, need, rret>>
    PROVE  Readers'
<1>1. ASSUME NEW e \in Ends
      PROVE  /\ Given(e)' /\ Base(e)' = Base(e)
             /\ Len(got[e]) + 1 <= Len(begun[Peer(e)]) =>
                  /\ Len(got[e]) + 1 <= Len(begun'[Peer(e)])
                  /\ begun'[Peer(e)][Len(got[e]) + 1] = begun[Peer(e)][Len(got[e]) + 1]
  <2> DEFINE b == begun[Peer(e)]
             b2 == begun'[Peer(e)]
             g == Len(got[e])
             last == Len(b)
             last2 == Len(b2)
             w == Len(wire[Peer(e)])
             w2 == Len(wire'[Peer(e)])
             n == nread[Peer(e)]
  <2>1. Peer(e) \in Ends /\ Given(e)
    BY Places DEF Readers
  <2>2. /\ last <= last2 /\ w <= w2
        /\ \A i \in 1..last : b2[i] = b[i]
    BY <2>1 DEF Grown
  <2>3. /\ g \in Nat /\ last \in Nat /\ last2 \in Nat /\ w \in Nat /\ w2 \in Nat /\ n \in Nat
        /\ got[e] = <<>> <=> g = 0
    <3>1. g \in Nat /\ last \in Nat /\ w \in Nat /\ n \in Nat /\ (got[e] = <<>> <=> g = 0)
      BY <2>1, GotIs, BegunIs
    <3>2. begun' \in [Ends -> Frames] /\ wire' \in [Ends -> Bytes]
      BY Types DEF Content
    <3>3. last2 \in Nat /\ w2 \in Nat
      BY <2>1, <3>2 DEF Frames, Bytes
    <3> QED
      BY <3>1, <3>3
  <2>4. g <= last /\ n <= w /\ \A i \in 1..g : got[e][i] = b[i].pkg
    BY <2>1, Zenon DEF Given
  <2>5. Base(e) = (IF got[e] = <<>> THEN 0 ELSE FrameEnd(b[g]))
        /\ Base(e)' = (IF got[e] = <<>> THEN 0 ELSE FrameEnd(b2[g]))
    BY DEF Base
  <2>6. Given(e)' <=> g <= last2 /\ n <= w2 /\ \A i \in 1..g : got[e][i] = b2[i].pkg
    BY DEF Given
  <2> HIDE DEF b, b2, g, last, last2, w, w2, n
  <2>7. g <= last2 /\ n <= w2 /\ \A i \in 1..g : i \in 1..last
    BY <2>2, <2>3, <2>4
  <2>8. Given(e)'
    BY <2>2, <2>4, <2>6, <2>7
  <2>9. Base(e)' = Base(e)
    <3>1. g # 0 => g \in 1..last
      BY <2>3, <2>4
    <3> QED
      BY <2>2, <2>3, <2>5, <3>1
  <2>10. g + 1 <= last => g + 1 <= last2 /\ b2[g + 1] = b[g + 1]
    <3>1. g + 1 <= last => g + 1 <= last2 /\ g + 1 \in 1..last
      BY <2>2, <2>3
    <3> QED
      BY <2>2, <3>1
  <2> QED
    BY <2>8, <2>9, <2>10 DEF b, b2, g, last, last2
<1>2. ASSUME NEW r \in Receivers PROVE Reading(r)'
  <2> DEFINE e == At[r]
             from == Peer(e)
             w == wire[from]
             w2 == wire'[from]
             n == nread[from]
             base == Base(e)
             l == Len(buf[r])
  <2>1. e \in Ends /\ from \in Ends /\ Reading(r) /\ Given(e)
    BY Places DEF Readers
  <2>2. /\ n <= Len(w) /\ (state'[e] => state[e])
        /\ \A k \in 1..Len(w) : w2[k] = w[k]
    BY <2>1 DEF Given, Grown
  <2>3. base \in Nat /\ l \in Nat /\ Len(w) \in Nat
    BY <2>1, BaseIs, GotIs, BegunIs
  <2>4. base' = base
    BY <1>1, <2>1
  <2>5. rpc[r] = "head" => \A k \in 1..l : w2[base + k] = w[base + k]
    <3> SUFFICES ASSUME rpc[r] = "head", NEW k \in 1..l PROVE w2[base + k] = w[base + k]
      OBVIOUS
    <3>1. n = base + l
      BY <2>1 DEF Reading
    <3> HIDE DEF base, l, n, w, w2
    <3>2. base + k \in 1..Len(w)
      BY <2>2, <2>3, <3>1
    <3> QED
      BY <2>2, <3>2
  <2>6. rpc[r] = "body" => \A k \in 1..l : w2[base + 4 + k] = w[base + 4 + k]
    <3> SUFFICES ASSUME rpc[r] = "body", NEW k \in 1..l
                 PROVE  w2[base + 4 + k] = w[base + 4 + k]
      OBVIOUS
    <3>1. n = base + 4 + l
      BY <2>1 DEF Reading
    <3> HIDE DEF base, l, n, w, w2
    <3>2. base + 4 + k \in 1..Len(w)
      BY <2>2, <2>3, <3>1
    <3> QED
      BY <2>2, <3>2
  <2>7. Len(got[e]) + 1 <= Len(begun[from]) =>
          /\ Len(got[e]) + 1 <= Len(begun'[from])
          /\ begun'[from][Len(got[e]) + 1] = begun[from][Len(got[e]) + 1]
    BY <1>1, <2>1
  <2> QED
    BY <2>1, <2>2, <2>4, <2>5, <2>6, <2>7 DEF Reading
<1> QED
  BY <1>1, <1>2 DEF Readers

LEMMA SenderGrows ==
    ASSUME TypeOK, NEW s \in Senders, SendStep(s)
    PROVE  Grown /\ UNCHANGED <<nread, got, receiver>>
<1> DEFINE e == At[s]
<1>0. /\ e \in Ends /\ begun \in [Ends -> Frames] /\ wire \in [Ends -> Bytes]
      /\ out[s] \in Seq(Byte) /\ state \in [Ends -> BOOLEAN]
  BY Types, Places DEF Content, Control, Bytes
<1>1. \A d \in Ends : Len(begun[d]) \in Nat /\ Len(wire[d]) \in Nat
  BY BegunIs
<1>2. ASSUME UNCHANGED <<begun, wire>>, \A d \in Ends : state'[d] => state[d]
      PROVE  Grown
  BY <1>1, <1>2 DEF Grown
<1>3. ASSUME NEW p \in Packages, SendRefused(s, p)
      PROVE  Grown /\ UNCHANGED <<nread, got, receiver>>
  BY <1>2, <1>3 DEF SendRefused, link
<1>4. ASSUME NEW p \in Packages, SendStart(s, p)
      PROVE  Grown /\ UNCHANGED <<nread, got, receiver>>
  <2> DEFINE r == [pkg |-> p, at |-> Len(wire[e])]
  <2>1. /\ UNCHANGED <<state, wire, nread, got, receiver>>
        /\ begun' = [begun EXCEPT ![e] = Append(@, r)]
    BY <1>4 DEF SendStart, link
  <2>2. begun[e] \in Seq([pkg : Packages, at : Nat]) /\ r \in [pkg : Packages, at : Nat]
    BY <1>0, <1>1 DEF Frames
  <2> HIDE DEF r
  <2>3. /\ Len(begun[e]) <= Len(begun'[e])
        /\ \A i \in 1..Len(begun[e]) : begun'[e][i] = begun[e][i]
    <3>1. begun'[e] = Append(begun[e], r)
      BY <1>0, <2>1
    <3>2. /\ Len(begun'[e]) = Len(begun[e]) + 1
          /\ \A i \in 1..Len(begun[e]) : begun'[e][i] = begun[e][i]
      BY <2>2, <3>1, AppendProperties
    <3> QED
      BY <1>0, <1>1, <3>2
  <2>4. \A d \in Ends \ {e} : begun'[d] = begun[d]
    BY <1>0, <2>1
  <2> QED
    BY <1>1, <2>1, <2>3, <2>4 DEF Grown
<1>5. CASE SendBytes(s)
  <2>1. PICK n \in 1..Len(out[s]) : wire' = [wire EXCEPT ![e] = @ \o SubSeq(out[s], 1, n)]
    BY <1>5 DEF SendBytes
  <2>2. UNCHANGED <<state, nread, begun, got, receiver>>
    BY <1>5 DEF SendBytes
  <2>3. /\ Len(wire[e]) <= Len(wire'[e])
        /\ \A k \in 1..Len(wire[e]) : wire'[e][k] = wire[e][k]
    <3>1. wire'[e] = wire[e] \o SubSeq(out[s], 1, n) /\ wire[e] \in Seq(Byte)
      BY <1>0, <2>1 DEF Bytes
    <3>2. /\ Len(wire'[e]) = Len(wire[e]) + n
          /\ \A k \in 1..Len(wire[e]) : wire'[e][k] = wire[e][k]
      BY <1>0, <3>1, Moved
    <3>3. Len(wire[e]) \in Nat /\ n \in Nat
      BY <1>0, <1>1
    <3> QED
      BY <3>2, <3>3
  <2>4. \A d \in Ends \ {e} : wire'[d] = wire[d]
    BY <1>0, <2>1
  <2> QED
    BY <1>1, <2>2, <2>3, <2>4 DEF Grown
<1>6. CASE SendBody(s) \/ SendAsserts(s) \/ SendDone(s)
  BY <1>2, <1>6 DEF SendBody, SendAsserts, SendDone, SendReturn, link
<1>7. CASE SendFails(s)
  <2>1. \A d \in Ends : state'[d] => state[d]
    BY <1>0, <1>7 DEF SendFails
  <2> QED
    BY <1>2, <1>7, <2>1 DEF SendFails, SendReturn, link
<1> QED
  BY <1>3, <1>4, <1>5, <1>6, <1>7 DEF SendStep

\* A receiver's step disturbs its own end's receiving half only.
LEMMA OneReads ==
    ASSUME OneReceiver, TypeOK, Readers, NEW r \in Receivers,
           UNCHANGED <<wire, begun>>,
           \A q \in Receivers \ {r} : /\ rpc'[q] = rpc[q] /\ buf'[q] = buf[q]
                                      /\ need'[q] = need[q] /\ rret'[q] = rret[q],
           \A d \in Ends \ {At[r]} : got'[d] = got[d],
           \A d \in Ends \ {Peer(At[r])} : nread'[d] = nread[d],
           \A d \in Ends : state'[d] => state[d],
           Given(At[r])', Reading(r)'
    PROVE  Readers'
<1>1. ASSUME NEW d \in Ends, d # At[r]
      PROVE  Given(d)' /\ Base(d)' = Base(d) /\ nread'[Peer(d)] = nread[Peer(d)]
  <2>1. Given(d) /\ Peer(d) \in Ends /\ Peer(d) # Peer(At[r])
    BY <1>1, Places DEF Readers
  <2>2. nread'[Peer(d)] = nread[Peer(d)] /\ got'[d] = got[d]
    BY <1>1, <2>1
  <2> QED
    BY <2>1, <2>2 DEF Given, Base
<1>2. ASSUME NEW q \in Receivers, q # r PROVE Reading(q)'
  <2>1. At[q] \in Ends /\ At[q] # At[r] /\ Reading(q)
    BY <1>2, Places DEF OneReceiver, Readers
  <2>2. /\ Base(At[q])' = Base(At[q]) /\ nread'[Peer(At[q])] = nread[Peer(At[q])]
        /\ got'[At[q]] = got[At[q]] /\ (state'[At[q]] => state[At[q]])
    BY <1>1, <2>1
  <2>3. rpc'[q] = rpc[q] /\ buf'[q] = buf[q] /\ need'[q] = need[q] /\ rret'[q] = rret[q]
    BY <1>2
  <2> QED
    BY <2>1, <2>2, <2>3 DEF Reading
<1> QED
  BY <1>1, <1>2 DEF Readers

\* A call that returns "ruined" leaves the end ruined, wherever it was.
LEMMA GivesUpKeeps ==
    ASSUME OneReceiver, TypeOK, Readers, NEW r \in Receivers,
           RecvReturn(r, "ruined"), UNCHANGED got,
           state' = [state EXCEPT ![At[r]] = FALSE]
    PROVE  Readers'
<1>1. /\ At[r] \in Ends /\ state \in [Ends -> BOOLEAN] /\ Given(At[r])
      /\ rpc \in [Receivers -> {"idle", "lock", "head", "body"}]
      /\ need \in [Receivers -> Needs] /\ rret \in [Receivers -> Ret]
      /\ buf \in [Receivers -> Bytes]
  BY Types, Places DEF Control, Content, Readers
<1>2. UNCHANGED <<wire, nread, begun>>
  BY DEF RecvReturn, link
<1>3. /\ rpc'[r] = "idle" /\ rret'[r] = "ruined" /\ ~state'[At[r]]
      /\ \A q \in Receivers \ {r} : /\ rpc'[q] = rpc[q] /\ buf'[q] = buf[q]
                                    /\ need'[q] = need[q] /\ rret'[q] = rret[q]
      /\ \A d \in Ends : state'[d] => state[d]
  BY <1>1 DEF RecvReturn
<1>4. Given(At[r])'
  BY <1>1, <1>2 DEF Given
<1>5. Reading(r)'
  BY <1>3 DEF Reading
<1> QED
  BY <1>2, <1>3, <1>4, <1>5, OneReads

\* With the header read, the next package has begun and the header says its
\* size.
LEMMA HeaderRead ==
    ASSUME TypeOK, Wires, Readers, NEW r \in Receivers,
           rpc[r] = "head", Len(buf[r]) = 4
    PROVE  LET e == At[r]
               from == Peer(e)
               next == Len(got[e]) + 1
           IN  /\ next <= Len(begun[from])
               /\ HighHalf(buf[r]) = Len(begun[from][next].pkg)
<1> DEFINE e == At[r]
           from == Peer(e)
           next == Len(got[e]) + 1
           base == Base(e)
           w == wire[from]
<1>1. e \in Ends /\ from \in Ends /\ Reading(r) /\ Given(e) /\ InFrame(from)
      /\ Chained(from) /\ Carried(from)
  BY Places DEF Readers, Wires
<1>2. /\ base \in Nat /\ Len(w) \in Nat /\ Len(got[e]) \in Nat /\ Len(begun[from]) \in Nat
      /\ nread[from] = base + 4 /\ nread[from] <= Len(w)
      /\ \A k \in 1..4 : buf[r][k] = w[base + k]
  BY <1>1, BaseIs, GotIs, BegunIs DEF Reading, Given
<1>3. next <= Len(begun[from])
  <2> SUFFICES ASSUME next > Len(begun[from]) PROVE FALSE
    BY <1>2
  <2>1. EndOf(from) = base
    BY <1>1, BaseIs
  <2>2. Len(w) <= base
    BY <1>1, <2>1 DEF InFrame
  <2> QED
    BY <1>2, <2>2
<1> DEFINE f == begun[from][next]
<1>4. next \in 1..Len(begun[from]) /\ f.at = base
  <2>1. next \in 1..Len(begun[from])
    BY <1>2, <1>3
  <2>2. f.at = base
    BY <1>1, <1>2, <1>3, BaseIs, Zenon
  <2> QED
    BY <2>1, <2>2
<1>5. f.pkg \in Seq(Byte) /\ Len(f.pkg) \in Nat /\ Len(f.pkg) <= Limit
  <2>1. f.pkg \in Seq(Byte) /\ Len(f.pkg) \in Nat
    BY <1>1, <1>4, BegunIs
  <2>2. Len(f.pkg) <= Limit
    BY <1>1, <1>4, Zenon DEF Chained
  <2> QED
    BY <2>1, <2>2
<1>6. \A k \in 1..4 : buf[r][k] = Header(Len(f.pkg))[k]
  <2> SUFFICES ASSUME NEW k \in 1..4 PROVE buf[r][k] = Header(Len(f.pkg))[k]
    OBVIOUS
  <2>1. k \in 1..(4 + Len(f.pkg)) /\ f.at + k <= Len(w)
    <3> DEFINE len == Len(f.pkg)
               at == f.at
    <3>1. len \in Nat /\ at = base
      BY <1>4, <1>5
    <3> HIDE DEF len, at
    <3>2. k \in 1..(4 + len) /\ at + k <= Len(w)
      BY <1>2, <3>1
    <3> QED
      BY <3>2, Zenon DEF len, at
  <2>2. w[base + k] = Frame(f.pkg)[k]
    <3>1. w[f.at + k] = Frame(f.pkg)[k]
      BY <1>1, <1>4, <2>1, Zenon DEF Carried
    <3> QED
      BY <1>4, <3>1
  <2> QED
    BY <1>2, <1>5, <2>2, FrameIs
<1>7. HighHalf(buf[r]) = HighHalf(Header(Len(f.pkg)))
  <2>1. buf[r][3] = Header(Len(f.pkg))[3] /\ buf[r][4] = Header(Len(f.pkg))[4]
    BY <1>6
  <2> QED
    BY <2>1, Zenon DEF HighHalf
<1> QED
  BY <1>3, <1>5, <1>7, HeaderSays

\* With the package read, it is the one that was begun.
LEMMA PackageRead ==
    ASSUME TypeOK, Wires, Readers, NEW r \in Receivers,
           rpc[r] = "body", Len(buf[r]) = need[r]
    PROVE  LET e == At[r]
               from == Peer(e)
               next == Len(got[e]) + 1
           IN  /\ next <= Len(begun[from])
               /\ buf[r] = begun[from][next].pkg
               /\ nread[from] = FrameEnd(begun[from][next])
<1> DEFINE e == At[r]
           from == Peer(e)
           next == Len(got[e]) + 1
           base == Base(e)
           w == wire[from]
           f == begun[from][next]
           l == Len(buf[r])
<1>1. e \in Ends /\ from \in Ends /\ Reading(r) /\ Given(e) /\ Carried(from)
  BY Places DEF Readers, Wires
<1>2. /\ base \in Nat /\ Len(w) \in Nat /\ Len(got[e]) \in Nat /\ Len(begun[from]) \in Nat
      /\ next <= Len(begun[from]) /\ l = Len(f.pkg) /\ l \in Nat
      /\ nread[from] = base + 4 + l /\ nread[from] <= Len(w)
      /\ \A k \in 1..l : buf[r][k] = w[base + 4 + k]
  BY <1>1, BaseIs, GotIs, BegunIs DEF Reading, Given
<1>3. next \in 1..Len(begun[from]) /\ f.at = base
  <2>1. next \in 1..Len(begun[from])
    BY <1>2
  <2>2. f.at = base
    BY <1>1, <1>2, BaseIs, Zenon
  <2> QED
    BY <2>1, <2>2
<1>4. f.pkg \in Seq(Byte) /\ Len(f.pkg) <= Limit /\ buf[r] \in Seq(Byte)
  <2>1. f.pkg \in Seq(Byte) /\ buf[r] \in Seq(Byte)
    BY <1>1, <1>3, BegunIs, GotIs
  <2>2. Chained(from)
    BY <1>1 DEF Wires
  <2>3. Len(f.pkg) <= Limit
    BY <1>3, <2>2, Zenon DEF Chained
  <2> QED
    BY <2>1, <2>3
<1>5. \A k \in 1..l : buf[r][k] = f.pkg[k]
  <2> SUFFICES ASSUME NEW k \in 1..l PROVE buf[r][k] = f.pkg[k]
    OBVIOUS
  <2>1. 4 + k \in 1..(4 + Len(f.pkg)) /\ f.at + (4 + k) <= Len(w)
        /\ f.at + (4 + k) = base + 4 + k
    <3> DEFINE len == Len(f.pkg)
               at == f.at
               room == Len(w)
    <3>1. /\ len = l /\ at = base /\ base \in Nat /\ l \in Nat /\ room \in Nat
          /\ base + 4 + l <= room
      BY <1>2, <1>3
    <3> HIDE DEF len, at, l, base, room
    <3>2. 4 + k \in 1..(4 + len) /\ at + (4 + k) <= room /\ at + (4 + k) = base + 4 + k
      BY <3>1
    <3> QED
      BY <3>2, Zenon DEF len, at, room
  <2>2. w[base + 4 + k] = Frame(f.pkg)[4 + k]
    <3>1. w[f.at + (4 + k)] = Frame(f.pkg)[4 + k]
      BY <1>1, <1>3, <2>1, Zenon DEF Carried
    <3> QED
      BY <2>1, <3>1
  <2>3. Frame(f.pkg)[4 + k] = f.pkg[k]
    BY <1>2, <1>4, FrameIs
  <2> QED
    BY <1>2, <2>1, <2>2, <2>3
<1>6. buf[r] = f.pkg
  BY <1>2, <1>4, <1>5, SeqEqual
<1>7. nread[from] = FrameEnd(f)
  BY <1>2, <1>3 DEF FrameEnd
<1> QED
  BY <1>2, <1>6, <1>7

\* The functions a receiver's step changes, and what they are at other places.
LEMMA ReceiverTypes ==
    ASSUME TypeOK, NEW r \in Receivers
    PROVE  /\ At[r] \in Ends /\ Peer(At[r]) \in Ends
           /\ rpc \in [Receivers -> {"idle", "lock", "head", "body"}]
           /\ need \in [Receivers -> Needs] /\ rret \in [Receivers -> Ret]
           /\ buf \in [Receivers -> Bytes] /\ got \in [Ends -> ManyBytes]
           /\ nread \in [Ends -> Nat] /\ state \in [Ends -> BOOLEAN]
  BY Types, Places DEF Control, Content

\* recvpackage begins: it finds the end ruined, or goes on to the header.
LEMMA RecvBegins ==
    ASSUME OneReceiver, TypeOK, Readers, NEW r \in Receivers,
           RecvRuined(r) \/ RecvCheck(r) \/ RecvLock(r)
    PROVE  Readers'
<1> DEFINE e == At[r]
<1>1. Reading(r) /\ Given(e) /\ e \in Ends
  BY Places DEF Readers
<1>2. UNCHANGED <<wire, begun, nread, got, state>>
  BY DEF RecvRuined, RecvCheck, RecvLock, link
<1>3. \A q \in Receivers \ {r} : /\ rpc'[q] = rpc[q] /\ buf'[q] = buf[q]
                                 /\ need'[q] = need[q] /\ rret'[q] = rret[q]
  BY ReceiverTypes DEF RecvRuined, RecvCheck, RecvLock
<1>4. Given(e)' /\ Base(e)' = Base(e)
  BY <1>1, <1>2 DEF Given, Base
<1>5. CASE RecvRuined(r)
  <2>1. rpc[r] = "idle" /\ rpc'[r] = "idle" /\ rret'[r] = "ruined" /\ ~state'[e]
    BY <1>5, ReceiverTypes DEF RecvRuined
  <2>2. Reading(r)'
    BY <2>1 DEF Reading
  <2> QED
    BY <1>2, <1>3, <1>4, <2>2, OneReads
<1>6. CASE RecvCheck(r)
  <2>1. rpc[r] = "idle" /\ rpc'[r] = "lock" /\ rret'[r] = rret[r] /\ state[e]
    BY <1>6, ReceiverTypes DEF RecvCheck
  <2>2. Reading(r)'
    BY <1>1, <1>2, <1>4, <2>1 DEF Reading
  <2> QED
    BY <1>2, <1>3, <1>4, <2>2, OneReads
<1>7. CASE RecvLock(r)
  <2>1. /\ rpc[r] = "lock" /\ rpc'[r] = "head" /\ rret'[r] = rret[r]
        /\ buf'[r] = <<>> /\ need'[r] = 4
    BY <1>7, ReceiverTypes DEF RecvLock
  <2>2. Len(buf'[r]) = 0 /\ nread[Peer(e)] = Base(e) /\ rret[r] # "ruined"
    BY <1>1, <2>1 DEF Reading
  <2>3. nread[Peer(e)] = Base(e) + 0 /\ 0 <= 4
    BY <2>2, ReceiverTypes
  <2>4. Reading(r)'
    BY <1>2, <1>4, <2>1, <2>2, <2>3 DEF Reading
  <2> QED
    BY <1>2, <1>3, <1>4, <2>4, OneReads
<1> QED
  BY <1>5, <1>6, <1>7

LEMMA RecvBytesKeeps ==
    ASSUME OneReceiver, TypeOK, Wires, Readers, NEW r \in Receivers, RecvBytes(r)
    PROVE  Readers'
<1> DEFINE e == At[r]
           from == Peer(e)
           w == wire[from]
           n0 == nread[from]
           l == Len(buf[r])
           base == Base(e)
<1>1. PICK n \in 1..(need[r] - l) :
          /\ n <= Unread(from)
          /\ buf' = [buf EXCEPT ![r] = @ \o SubSeq(w, n0 + 1, n0 + n)]
          /\ nread' = [nread EXCEPT ![from] = @ + n]
  BY DEF RecvBytes
<1>2. /\ rpc[r] \in {"head", "body"}
      /\ UNCHANGED <<state, wire, begun, got, rpc, need, rret>>
  BY DEF RecvBytes
<1>3. /\ e \in Ends /\ from \in Ends /\ Reading(r) /\ Given(e)
      /\ base \in Nat /\ Len(w) \in Nat /\ w \in Seq(Byte) /\ n0 \in Nat /\ n0 <= Len(w)
      /\ buf[r] \in Seq(Byte) /\ l \in Nat /\ need[r] \in Nat
  <2>1. e \in Ends /\ from \in Ends /\ Reading(r) /\ Given(e)
    BY Places DEF Readers
  <2>2. w \in Seq(Byte)
    BY <2>1, Types DEF Content, Bytes
  <2> QED
    BY <2>1, <2>2, BaseIs, BegunIs, GotIs DEF Given
<1>4. n \in Nat \ {0} /\ n0 + n <= Len(w) /\ l + n <= need[r]
  <2>1. Unread(from) = Len(w) - n0
    BY DEF Unread
  <2> HIDE DEF w, n0, l
  <2> QED
    BY <1>1, <1>3, <2>1
<1>5. /\ Len(buf'[r]) = l + n
      /\ \A k \in 1..l : buf'[r][k] = buf[r][k]
      /\ \A k \in 1..n : buf'[r][l + k] = w[n0 + k]
  <2>1. buf'[r] = buf[r] \o SubSeq(w, n0 + 1, n0 + n)
    BY <1>1, ReceiverTypes
  <2> DEFINE o == buf[r]
             o2 == buf'[r]
  <2>2. w \in Seq(Byte) /\ o \in Seq(Byte) /\ n0 \in Nat /\ o2 = o \o SubSeq(w, n0 + 1, n0 + n)
    BY <1>3, <2>1
  <2> HIDE DEF o, o2, w, n0
  <2>3. /\ Len(o2) = Len(o) + n
        /\ \A k \in 1..Len(o) : o2[k] = o[k]
        /\ \A k \in 1..n : o2[Len(o) + k] = w[n0 + k]
    BY SMTT(40), <1>4, <2>2, Taken
  <2> QED
    BY <2>3 DEF o, o2
<1>6. nread'[from] = n0 + n
  BY <1>1, <1>3, ReceiverTypes
<1>7. /\ \A q \in Receivers \ {r} : buf'[q] = buf[q]
      /\ \A d \in Ends \ {from} : nread'[d] = nread[d]
  BY <1>1, ReceiverTypes
<1>8. Given(e)' /\ Base(e)' = base
  BY <1>2, <1>3, <1>4, <1>6 DEF Given, Base
\* What follows m bytes behind base is in the buffer.
<1>9. ASSUME NEW m \in {0, 4}, n0 = base + m + l,
             \A k \in 1..l : buf[r][k] = w[base + m + k]
      PROVE  /\ nread'[from] = base + m + Len(buf'[r])
             /\ \A k \in 1..Len(buf'[r]) : buf'[r][k] = w[base + m + k]
  <2> DEFINE o == buf[r]
             o2 == buf'[r]
  <2>1. /\ Len(o2) = l + n /\ nread'[from] = n0 + n
        /\ \A k \in 1..l : o2[k] = o[k]
        /\ \A k \in 1..n : o2[l + k] = w[n0 + k]
        /\ \A k \in 1..l : o[k] = w[base + m + k]
    BY <1>5, <1>6, <1>9
  <2> HIDE DEF o, o2, w, n0, l, base, from
  <2>2. nread'[from] = base + m + Len(o2)
    BY SMTT(40), <1>3, <1>4, <1>9, <2>1
  <2>3. ASSUME NEW k \in 1..(l + n) PROVE o2[k] = w[base + m + k]
    <3>1. CASE k <= l
      <4>1. k \in 1..l
        BY <1>3, <1>4, <3>1
      <4> QED
        BY <2>1, <4>1
    <3>2. CASE k > l
      <4>1. k - l \in 1..n /\ l + (k - l) = k /\ n0 + (k - l) = base + m + k
        BY SMTT(40), <1>3, <1>4, <1>9, <3>2
      <4>2. o2[l + (k - l)] = w[n0 + (k - l)]
        BY <2>1, <4>1
      <4> QED
        BY <4>1, <4>2
    <3> QED
      BY <1>3, <1>4, <3>1, <3>2
  <2> QED
    BY <2>1, <2>2, <2>3 DEF o2
<1>10. CASE rpc[r] = "head"
  <2>1. /\ need[r] = 4 /\ rret[r] # "ruined" /\ n0 = base + l
        /\ \A k \in 1..l : buf[r][k] = w[base + k]
    BY <1>3, <1>10 DEF Reading
  <2>2. n0 = base + 0 + l /\ \A k \in 1..l : buf[r][k] = w[base + 0 + k]
    <3> HIDE DEF base, l, n0, w
    <3> QED
      BY <1>3, <2>1
  <2>3. /\ nread'[from] = base + 0 + Len(buf'[r])
        /\ \A k \in 1..Len(buf'[r]) : buf'[r][k] = w[base + 0 + k]
    BY <1>9, <2>2
  <2>4. base + 0 = base /\ Len(buf'[r]) <= 4
    BY <1>3, <1>4, <1>5, <2>1
  <2>5. Reading(r)'
    <3> HIDE DEF base
    <3> QED
      BY <1>2, <1>8, <1>10, <2>1, <2>3, <2>4 DEF Reading
  <2> QED
    BY <1>2, <1>7, <1>8, <2>5, OneReads
<1>11. CASE rpc[r] = "body"
  <2>1. /\ Len(got[e]) + 1 <= Len(begun[from])
        /\ need[r] = Len(begun[from][Len(got[e]) + 1].pkg)
        /\ rret[r] # "ruined" /\ n0 = base + 4 + l
        /\ \A k \in 1..l : buf[r][k] = w[base + 4 + k]
    BY <1>3, <1>11 DEF Reading
  <2>2. /\ nread'[from] = base + 4 + Len(buf'[r])
        /\ \A k \in 1..Len(buf'[r]) : buf'[r][k] = w[base + 4 + k]
    BY <1>9, <2>1
  <2>3. Len(buf'[r]) <= need[r]
    BY <1>4, <1>5
  <2>4. Reading(r)'
    <3> HIDE DEF base
    <3> QED
      BY <1>2, <1>8, <1>11, <2>1, <2>2, <2>3 DEF Reading
  <2> QED
    BY <1>2, <1>7, <1>8, <2>4, OneReads
<1> QED
  BY <1>2, <1>10, <1>11

LEMMA RecvHeaderKeeps ==
    ASSUME OneReceiver, TypeOK, Wires, Readers, NEW r \in Receivers, RecvHeader(r)
    PROVE  Readers'
<1> DEFINE e == At[r]
           from == Peer(e)
<1>1. CASE HighHalf(buf[r]) # LowHalf(buf[r])
  BY <1>1, GivesUpKeeps DEF RecvHeader
<1>2. CASE HighHalf(buf[r]) = LowHalf(buf[r])
  <2>1. /\ rpc[r] = "head" /\ Len(buf[r]) = 4
        /\ rpc' = [rpc EXCEPT ![r] = "body"]
        /\ need' = [need EXCEPT ![r] = HighHalf(buf[r])]
        /\ buf' = [buf EXCEPT ![r] = <<>>]
        /\ UNCHANGED <<state, wire, nread, begun, got, rret>>
    BY <1>2 DEF RecvHeader, link
  <2>2. e \in Ends /\ Reading(r) /\ Given(e) /\ Base(e) \in Nat
    BY Places, BaseIs DEF Readers
  <2>3. /\ Len(got[e]) + 1 <= Len(begun[from])
        /\ HighHalf(buf[r]) = Len(begun[from][Len(got[e]) + 1].pkg)
    BY <2>1, HeaderRead
  <2>4. /\ rpc'[r] = "body" /\ need'[r] = HighHalf(buf[r]) /\ buf'[r] = <<>>
        /\ \A q \in Receivers \ {r} : /\ rpc'[q] = rpc[q] /\ buf'[q] = buf[q]
                                      /\ need'[q] = need[q] /\ rret'[q] = rret[q]
    BY <2>1, ReceiverTypes
  <2>5. Given(e)' /\ Base(e)' = Base(e)
    BY <2>1, <2>2 DEF Given, Base
  <2>6. /\ rret[r] # "ruined" /\ nread[from] = Base(e) + 4 + 0 /\ Len(buf'[r]) = 0
        /\ 0 <= HighHalf(buf[r])
    <3>1. rret[r] # "ruined" /\ nread[from] = Base(e) + 4
      BY <2>1, <2>2 DEF Reading
    <3>2. HighHalf(buf[r]) \in Nat
      <4>1. from \in Ends /\ Len(got[e]) \in Nat /\ Len(begun[from]) \in Nat
        <5>1. from \in Ends
          BY <2>2, Places
        <5>2. Len(got[e]) \in Nat
          BY <2>2, GotIs
        <5>3. Len(begun[from]) \in Nat
          BY <5>1, BegunIs
        <5> QED
          BY <5>1, <5>2, <5>3
      <4>2. Len(got[e]) + 1 \in 1..Len(begun[from])
        BY <2>3, <4>1
      <4>3. Len(begun[from][Len(got[e]) + 1].pkg) \in Nat
        BY <4>1, <4>2, BegunIs, Zenon
      <4> QED
        BY <2>3, <4>3, Zenon
    <3> QED
      BY <2>2, <2>4, <3>1, <3>2
  <2>7. Reading(r)'
    <3>1. nread'[from] = Base(e) + 4 + Len(buf'[r]) /\ Len(buf'[r]) <= need'[r]
      BY <2>1, <2>4, <2>6
    <3>2. /\ Len(got'[e]) + 1 <= Len(begun'[from])
          /\ need'[r] = Len(begun'[from][Len(got'[e]) + 1].pkg)
      BY <2>1, <2>3, <2>4
    <3>3. \A k \in 1..Len(buf'[r]) : buf'[r][k] = wire'[from][Base(e)' + 4 + k]
      BY <2>6
    <3>4. rpc'[r] = "body" /\ rret'[r] # "ruined" /\ Base(e)' = Base(e)
      BY <2>1, <2>4, <2>5, <2>6
    <3> QED
      BY <3>1, <3>2, <3>3, <3>4 DEF Reading
  <2> QED
    BY <2>1, <2>4, <2>5, <2>7, OneReads
<1> QED
  BY <1>1, <1>2

LEMMA RecvDoneKeeps ==
    ASSUME OneReceiver, TypeOK, Wires, Readers, NEW r \in Receivers, RecvDone(r)
    PROVE  Readers'
<1> DEFINE e == At[r]
           from == Peer(e)
           next == Len(got[e]) + 1
<1>1. /\ rpc[r] = "body" /\ Len(buf[r]) = need[r]
      /\ got' = [got EXCEPT ![e] = Append(@, buf[r])]
      /\ rpc' = [rpc EXCEPT ![r] = "idle"]
      /\ buf' = [buf EXCEPT ![r] = <<>>]
      /\ need' = [need EXCEPT ![r] = 0]
      /\ rret' = [rret EXCEPT ![r] = "success"]
      /\ UNCHANGED <<state, wire, nread, begun>>
  BY DEF RecvDone, RecvReturn, link
<1>2. /\ e \in Ends /\ Given(e) /\ Len(got[e]) \in Nat
      /\ got[e] \in Seq(Seq(Byte)) /\ buf[r] \in Seq(Byte)
  BY Places, GotIs DEF Readers
<1>3. /\ next <= Len(begun[from]) /\ buf[r] = begun[from][next].pkg
      /\ nread[from] = FrameEnd(begun[from][next])
  BY <1>1, PackageRead
<1>4. /\ rpc'[r] = "idle" /\ rret'[r] = "success" /\ got'[e] = Append(got[e], buf[r])
      /\ \A q \in Receivers \ {r} : /\ rpc'[q] = rpc[q] /\ buf'[q] = buf[q]
                                    /\ need'[q] = need[q] /\ rret'[q] = rret[q]
      /\ \A d \in Ends \ {e} : got'[d] = got[d]
  BY <1>1, ReceiverTypes
<1>5. /\ Len(got'[e]) = next /\ got'[e][next] = buf[r] /\ got'[e] # <<>>
      /\ \A i \in 1..Len(got[e]) : got'[e][i] = got[e][i]
  <2> DEFINE g == got[e]
             g2 == got'[e]
             x == buf[r]
  <2>1. g \in Seq(Seq(Byte)) /\ x \in Seq(Byte) /\ g2 = Append(g, x) /\ Len(g) \in Nat
    BY <1>2, <1>4
  <2> HIDE DEF g, g2, x
  <2>2. Len(g2) = Len(g) + 1 /\ g2[Len(g) + 1] = x /\ \A i \in 1..Len(g) : g2[i] = g[i]
    BY <2>1, AppendProperties
  <2>3. g2 # <<>>
    BY <2>1, <2>2
  <2> QED
    BY <2>2, <2>3 DEF g, g2, x
<1>6. Given(e)'
  <2>1. \A i \in 1..next : got'[e][i] = begun[from][i].pkg
    <3> SUFFICES ASSUME NEW i \in 1..next PROVE got'[e][i] = begun[from][i].pkg
      OBVIOUS
    <3>1. CASE i = next
      BY <1>3, <1>5, <3>1
    <3>2. CASE i # next
      <4>1. i \in 1..Len(got[e])
        <5> DEFINE g == Len(got[e])
        <5>1. g \in Nat /\ i \in 1..(g + 1) /\ i # g + 1
          BY <1>2, <3>2
        <5> HIDE DEF g
        <5>2. i \in 1..g
          BY <5>1
        <5> QED
          BY <5>2 DEF g
      <4>2. got[e][i] = begun[from][i].pkg
        BY <1>2, <4>1, Zenon DEF Given
      <4> QED
        BY <1>5, <4>1, <4>2
    <3> QED
      BY <3>1, <3>2
  <2>2. nread[from] <= Len(wire[from])
    BY <1>2 DEF Given
  <2> QED
    BY <1>1, <1>3, <1>5, <2>1, <2>2 DEF Given
<1>7. Base(e)' = FrameEnd(begun[from][next])
  BY <1>1, <1>5 DEF Base
<1>8. Reading(r)'
  BY <1>1, <1>3, <1>4, <1>7 DEF Reading
<1> QED
  BY <1>1, <1>4, <1>6, <1>8, OneReads

LEMMA ReadersKeep ==
    ASSUME SizesCountable, OneReceiver, SendInv, Readers, [Next]_vars
    PROVE  Readers'
<1>0. TypeOK /\ TypeOK' /\ Wires
  BY Inductive DEF SendInv
<1>1. ASSUME NEW s \in Senders, SendStep(s) PROVE Readers'
  BY <1>0, <1>1, SenderGrows, ReadersQuiet DEF receiver
<1>2. ASSUME NEW r \in Receivers, RecvStep(r) PROVE Readers'
  <2>1. CASE RecvAsserts(r)
    <3>1. Grown
      BY <1>0, <2>1, BegunIs DEF RecvAsserts, Grown, link
    <3> QED
      BY <1>0, <2>1, <3>1, ReadersQuiet DEF RecvAsserts, link, receiver
  <2>2. CASE RecvEof(r) \/ RecvFails(r)
    BY <1>0, <2>2, GivesUpKeeps DEF RecvEof, RecvFails, RecvGivesUp
  <2> QED
    BY <1>0, <1>2, <2>1, <2>2, RecvBegins, RecvBytesKeeps, RecvHeaderKeeps,
       RecvDoneKeeps DEF RecvStep
<1>3. ASSUME NEW e \in Ends, Destroy(e) PROVE Readers'
  <2>1. state \in [Ends -> BOOLEAN]
    BY <1>0, Types DEF Control
  <2>2. Grown
    BY <1>0, <1>3, <2>1, BegunIs DEF Destroy, Grown, link
  <2> QED
    BY <1>0, <1>3, <2>2, ReadersQuiet DEF Destroy, link, receiver
<1>4. ASSUME UNCHANGED vars PROVE Readers'
  <2>1. Grown
    BY <1>0, <1>4, BegunIs DEF vars, Grown
  <2> QED
    BY <1>0, <1>4, <2>1, ReadersQuiet DEF vars
<1> QED
  BY <1>1, <1>2, <1>3, <1>4 DEF Next, Gone

LEMMA ReadersInit ==
    ASSUME Init
    PROVE  Readers
<1>1. ASSUME NEW e \in Ends PROVE Given(e) /\ Base(e) = 0
  BY Places DEF Init, Given, Base
<1>2. ASSUME NEW r \in Receivers PROVE Reading(r)
  BY <1>1, Places DEF Init, Reading
<1> QED
  BY <1>1, <1>2 DEF Readers

\* Both halves together.
LinkInv == SendInv /\ Readers

LEMMA LinkInvariance ==
    ASSUME SizesCountable, OneReceiver
    PROVE  Spec => []LinkInv
<1>1. Init => LinkInv
  BY Initially, ReadersInit DEF LinkInv
<1>2. LinkInv /\ [Next]_vars => LinkInv'
  BY Inductive, ReadersKeep DEF LinkInv
<1> QED
  BY <1>1, <1>2, PTL DEF Spec

(***************************************************************************)
(* With one receiver at each end, the assertions of sendInsist and         *)
(* recvInsist stop a program for an empty package only (net.cpp:124, 137). *)
(***************************************************************************)
THEOREM NapComEmptyAborts ==
    ASSUME SizesCountable, OneReceiver
    PROVE  Spec => []OnlyEmptyAborts
<1> DEFINE Aborted == \E e \in Ends : life[e] = "aborted"
           Empty == \E e \in Ends : \E i \in 1..Len(begun[e]) : begun[e][i].pkg = <<>>
<1>1. Init => OnlyEmptyAborts
  BY DEF Init, OnlyEmptyAborts
<1>2. LinkInv /\ OnlyEmptyAborts /\ [Next]_vars => OnlyEmptyAborts'
  <2> SUFFICES ASSUME LinkInv, OnlyEmptyAborts, [Next]_vars PROVE OnlyEmptyAborts'
    OBVIOUS
  <2>1. TypeOK /\ TypeOK' /\ Wires /\ Writers /\ Readers
    BY Inductive DEF LinkInv, SendInv
  <2>2. life \in [Ends -> {"open", "destroyed", "aborted"}]
    BY <2>1, Types DEF Control
  <2>3. ASSUME Grown, Empty PROVE Empty'
    <3>0. PICK e \in Ends : \E i \in 1..Len(begun[e]) : begun[e][i].pkg = <<>>
      BY <2>3
    <3>1. PICK i \in 1..Len(begun[e]) : begun[e][i].pkg = <<>>
      BY <3>0
    <3>2. /\ Len(begun[e]) \in Nat /\ Len(begun[e]) <= Len(begun'[e])
          /\ begun'[e][i] = begun[e][i]
      BY <2>1, <2>3, BegunIs DEF Grown
    <3>3. Len(begun'[e]) \in Nat
      <4>1. begun' \in [Ends -> Frames]
        BY <2>1, Types DEF Content
      <4> QED
        BY <4>1 DEF Frames
    <3>4. i \in 1..Len(begun'[e])
      BY <3>2, <3>3
    <3> QED
      BY <3>1, <3>2, <3>4
  <2>4. ASSUME \A e \in Ends : life'[e] = "aborted" => life[e] = "aborted", Grown
        PROVE  OnlyEmptyAborts'
    BY <2>3, <2>4 DEF OnlyEmptyAborts
  <2>5. ASSUME NEW s \in Senders, SendStep(s) PROVE OnlyEmptyAborts'
    <3>1. Grown
      BY <2>1, <2>5, SenderGrows
    <3>2. CASE SendAsserts(s)
      <4>1. spc[s] = "head" /\ PackageSize(pkg[s]) = 0 /\ UNCHANGED begun
        BY <3>2 DEF SendAsserts
      <4>2. /\ At[s] \in Ends /\ Len(begun[At[s]]) \in Nat \ {0}
            /\ begun[At[s]][Len(begun[At[s]])].pkg = pkg[s] /\ pkg[s] \in Packages
        BY <2>1, <4>1, WriterIs
      <4>3. pkg[s] = <<>>
        <5>1. pkg[s] \in Seq(Byte) /\ Len(pkg[s]) = 0
          BY <4>1, <4>2, SizeSays
        <5> QED
          BY <5>1, EmptySeq
      <4>4. Len(begun[At[s]]) \in 1..Len(begun[At[s]])
        BY <4>2
      <4> QED
        BY <4>1, <4>2, <4>3, <4>4 DEF OnlyEmptyAborts
    <3>3. CASE ~ SendAsserts(s)
      <4>1. UNCHANGED life
        BY <2>5, <3>3 DEF SendStep, SendRefused, SendStart, SendBytes, SendBody, SendDone,
                          SendFails, SendReturn
      <4> QED
        BY <2>4, <3>1, <4>1
    <3> QED
      BY <3>2, <3>3
  <2>6. ASSUME NEW r \in Receivers, RecvStep(r) PROVE OnlyEmptyAborts'
    <3>1. CASE RecvAsserts(r)
      <4> DEFINE e == At[r]
                 from == Peer(e)
                 next == Len(got[e]) + 1
      <4>1. rpc[r] = "body" /\ need[r] = 0 /\ UNCHANGED begun
        BY <3>1 DEF RecvAsserts
      <4>2. e \in Ends /\ from \in Ends /\ Reading(r) /\ Len(got[e]) \in Nat
        BY <2>1, Places, GotIs DEF Readers
      <4>3. next <= Len(begun[from]) /\ Len(begun[from][next].pkg) = 0
        BY <4>1, <4>2 DEF Reading
      <4>4. next \in 1..Len(begun[from])
        BY <2>1, <4>2, <4>3, BegunIs
      <4>5. begun[from][next].pkg = <<>>
        <5>1. begun[from][next].pkg \in Seq(Byte)
          BY <2>1, <4>2, <4>4, BegunIs
        <5> QED
          BY <4>3, <5>1, EmptySeq
      <4> QED
        BY <4>1, <4>2, <4>4, <4>5 DEF OnlyEmptyAborts
    <3>2. CASE ~ RecvAsserts(r)
      <4>1. ASSUME NEW value, RecvReturn(r, value) PROVE UNCHANGED <<life, begun>>
        BY <4>1 DEF RecvReturn
      <4>2. CASE RecvRuined(r) \/ RecvCheck(r) \/ RecvLock(r) \/ RecvBytes(r)
        BY <4>2 DEF RecvRuined, RecvCheck, RecvLock, RecvBytes, OnlyEmptyAborts
      <4>3. CASE RecvHeader(r)
        BY <4>1, <4>3 DEF RecvHeader, OnlyEmptyAborts
      <4>4. CASE RecvDone(r)
        BY <4>1, <4>4 DEF RecvDone, OnlyEmptyAborts
      <4>5. CASE RecvEof(r) \/ RecvFails(r)
        BY <4>1, <4>5 DEF RecvEof, RecvFails, RecvGivesUp, OnlyEmptyAborts
      <4> QED
        BY <2>6, <3>2, <4>2, <4>3, <4>4, <4>5 DEF RecvStep
    <3> QED
      BY <3>1, <3>2
  <2>7. ASSUME NEW e \in Ends, Destroy(e) PROVE OnlyEmptyAborts'
    <3>1. UNCHANGED begun /\ life' = [life EXCEPT ![e] = "destroyed"]
      BY <2>7 DEF Destroy
    <3>2. \A d \in Ends : life'[d] = "aborted" => life[d] = "aborted"
      BY <2>2, <3>1
    <3> QED
      BY <3>1, <3>2 DEF OnlyEmptyAborts
  <2>8. CASE UNCHANGED vars
    BY <2>8 DEF vars, OnlyEmptyAborts
  <2> QED
    BY <2>5, <2>6, <2>7, <2>8 DEF Next, Gone
<1>3. Spec => []LinkInv
  BY LinkInvariance
<1> QED
  BY <1>1, <1>2, <1>3, PTL DEF Spec

-----------------------------------------------------------------------------
(* The refinement: what NapCom does, seen as sent, delivered and ruined.     *)

SentOf == [e \in Ends |-> [i \in 1..Len(begun[e]) |-> begun[e][i].pkg]]
RuinedOf == [e \in Ends |-> \E r \in ReceiversOf(e) : rret[r] = "ruined"]
FittingOf == {p \in Packages : Len(p) <= Limit}

\* A step of a receiver that changes what it was last told.
LEMMA RuinedBy ==
    ASSUME OneReceiver, NEW r \in Receivers,
           \A q \in Receivers \ {r} : rret'[q] = rret[q]
    PROVE  /\ rret'[r] = "ruined" =>
                 RuinedOf' = [RuinedOf EXCEPT ![At[r]] = TRUE]
           /\ rret[r] # "ruined" /\ rret'[r] # "ruined" => RuinedOf' = RuinedOf
<1>1. At[r] \in Ends
  BY Places
<1>2. \A e \in Ends \ {At[r]} : RuinedOf'[e] = RuinedOf[e]
  <2> SUFFICES ASSUME NEW e \in Ends \ {At[r]} PROVE RuinedOf'[e] = RuinedOf[e]
    OBVIOUS
  <2>1. \A q \in ReceiversOf(e) : q # r /\ q \in Receivers
    BY DEF ReceiversOf
  <2>2. \A q \in ReceiversOf(e) : rret'[q] = rret[q]
    BY <2>1
  <2> QED
    BY <2>2 DEF RuinedOf
<1>3. rret'[r] = "ruined" => RuinedOf'[At[r]] = TRUE
  BY <1>1 DEF RuinedOf, ReceiversOf
<1>4. rret[r] # "ruined" /\ rret'[r] # "ruined" => RuinedOf'[At[r]] = RuinedOf[At[r]]
  <2>1. \A q \in ReceiversOf(At[r]) : q = r
    BY DEF ReceiversOf, OneReceiver
  <2> QED
    BY <1>1, <2>1 DEF RuinedOf
<1>5. RuinedOf \in [Ends -> BOOLEAN] /\ RuinedOf' \in [Ends -> BOOLEAN]
  BY DEF RuinedOf
<1> QED
  BY <1>1, <1>2, <1>3, <1>4, <1>5

\* The appended frame is the appended package.
LEMMA SentBy ==
    ASSUME TypeOK, NEW e \in Ends, NEW p, NEW at,
           begun' = [begun EXCEPT ![e] = Append(@, [pkg |-> p, at |-> at])]
    PROVE  SentOf' = [SentOf EXCEPT ![e] = Append(@, p)]
<1> DEFINE b == begun[e]
           c == begun'[e]
           s == [i \in 1..Len(b) |-> b[i].pkg]
           t == [i \in 1..Len(c) |-> c[i].pkg]
           f == [pkg |-> p, at |-> at]
<1>1. begun \in [Ends -> Frames]
  BY Types DEF Content
<1>2. c = Append(b, f) /\ \A d \in Ends \ {e} : begun'[d] = begun[d]
  BY <1>1
<1>3. b \in Seq([pkg : Packages, at : Nat]) /\ Len(b) \in Nat
  BY <1>1, BegunIs DEF Frames
<1>4. t = Append(s, p)
  <2> HIDE DEF b, c, f
  <2>1. /\ Len(c) = Len(b) + 1 /\ c[Len(b) + 1] = f
        /\ \A i \in 1..Len(b) : c[i] = b[i]
    BY <1>2, <1>3
  <2>2. f.pkg = p
    BY DEF f
  <2>3. s \in Seq({b[i].pkg : i \in 1..Len(b)}) /\ Len(s) = Len(b)
    BY <1>3
  <2>4. Append(s, p) = [i \in 1..(Len(s) + 1) |-> IF i <= Len(s) THEN s[i] ELSE p]
    BY <2>3
  <2> QED
    BY <1>3, <2>1, <2>2, <2>3, <2>4
<1>5. SentOf'[e] = Append(SentOf[e], p)
  BY <1>4 DEF SentOf
<1>6. \A d \in Ends \ {e} : SentOf'[d] = SentOf[d]
  BY <1>2 DEF SentOf
<1>7. /\ SentOf = [d \in Ends |-> SentOf[d]] /\ SentOf' = [d \in Ends |-> SentOf'[d]]
  BY DEF SentOf
<1> QED
  BY <1>5, <1>6, <1>7

\* The steps of the link in these terms.
LEMMA LinkSteps ==
    ASSUME NEW e \in Ends
    PROVE  /\ \A p \in FittingOf :
                 SentOf' = [SentOf EXCEPT ![e] = Append(@, p)] /\ UNCHANGED <<got, RuinedOf>>
                    => PacketLinkOf!Next
           /\ (/\ ~RuinedOf[e] /\ Len(got[e]) + 1 <= Len(SentOf[Peer(e)])
               /\ got' = [got EXCEPT ![e] = Append(@, SentOf[Peer(e)][Len(got[e]) + 1])]
               /\ UNCHANGED <<SentOf, RuinedOf>>)
                 => PacketLinkOf!Next
           /\ RuinedOf' = [RuinedOf EXCEPT ![e] = TRUE] /\ UNCHANGED <<SentOf, got>>
                 => PacketLinkOf!Next
           /\ UNCHANGED <<SentOf, got, RuinedOf>> => UNCHANGED PacketLinkOf!vars
<1>1. ASSUME NEW p \in FittingOf,
             SentOf' = [SentOf EXCEPT ![e] = Append(@, p)], UNCHANGED <<got, RuinedOf>>
      PROVE  PacketLinkOf!Next
  <2>1. PacketLinkOf!Send(e, p)
    BY <1>1, Zenon DEF PacketLinkOf!Send, SentOf, RuinedOf
  <2> QED
    BY <2>1, Zenon DEF PacketLinkOf!Next, FittingOf
<1>2. ASSUME ~RuinedOf[e], Len(got[e]) + 1 <= Len(SentOf[Peer(e)]),
             got' = [got EXCEPT ![e] = Append(@, SentOf[Peer(e)][Len(got[e]) + 1])],
             UNCHANGED <<SentOf, RuinedOf>>
      PROVE  PacketLinkOf!Next
  <2>1. [d \in Ends |-> Peer(d)][e] = Peer(e)
    OBVIOUS
  <2>2. PacketLinkOf!Deliver(e)
    BY <1>2, <2>1, Zenon DEF PacketLinkOf!Deliver, SentOf, RuinedOf
  <2> QED
    BY <2>2, Zenon DEF PacketLinkOf!Next
<1>3. ASSUME RuinedOf' = [RuinedOf EXCEPT ![e] = TRUE], UNCHANGED <<SentOf, got>>
      PROVE  PacketLinkOf!Next
  <2>1. PacketLinkOf!Ruin(e)
    BY <1>3, Zenon DEF PacketLinkOf!Ruin, SentOf, RuinedOf
  <2> QED
    BY <2>1, Zenon DEF PacketLinkOf!Next
<1>4. UNCHANGED <<SentOf, got, RuinedOf>> => UNCHANGED PacketLinkOf!vars
  BY Zenon DEF PacketLinkOf!vars, SentOf, RuinedOf
<1>5. \A p \in FittingOf :
         SentOf' = [SentOf EXCEPT ![e] = Append(@, p)] /\ UNCHANGED <<got, RuinedOf>>
            => PacketLinkOf!Next
  BY <1>1
<1>6. (/\ ~RuinedOf[e] /\ Len(got[e]) + 1 <= Len(SentOf[Peer(e)])
       /\ got' = [got EXCEPT ![e] = Append(@, SentOf[Peer(e)][Len(got[e]) + 1])]
       /\ UNCHANGED <<SentOf, RuinedOf>>)
         => PacketLinkOf!Next
  BY <1>2
<1>7. RuinedOf' = [RuinedOf EXCEPT ![e] = TRUE] /\ UNCHANGED <<SentOf, got>>
         => PacketLinkOf!Next
  BY <1>3
<1> QED
  BY <1>4, <1>5, <1>6, <1>7

LEMMA LinkInit == Init => PacketLinkOf!Init
<1> SUFFICES ASSUME Init PROVE PacketLinkOf!Init
  OBVIOUS
<1>1. \A e \in Ends : [i \in 1..Len(begun[e]) |-> begun[e][i].pkg] = <<>>
  <2>1. \A e \in Ends : begun[e] = <<>>
    BY DEF Init
  <2>2. \A f : [i \in 1..Len(<<>>) |-> f[i].pkg] = <<>>
    OBVIOUS
  <2> QED
    BY <2>1, <2>2
<1>2. \A e \in Ends : ~ \E r \in ReceiversOf(e) : rret[r] = "ruined"
  BY DEF Init, ReceiversOf
<1>3. SentOf = [e \in Ends |-> <<>>]
  BY <1>1 DEF SentOf
<1>4. RuinedOf = [e \in Ends |-> FALSE]
  BY <1>2 DEF RuinedOf
<1>5. got = [e \in Ends |-> <<>>]
  BY DEF Init
<1> QED
  BY <1>3, <1>4, <1>5, Zenon DEF PacketLinkOf!Init, SentOf, RuinedOf

\* SendStart is Send, RecvDone is Deliver, the returns of "ruined" are Ruin, and
\* every other step stutters.
LEMMA LinkStep ==
    ASSUME SizesCountable, OneReceiver, LinkInv, [Next]_vars
    PROVE  PacketLinkOf!Next \/ UNCHANGED PacketLinkOf!vars
<1>0. TypeOK /\ Wires /\ Readers
  BY DEF LinkInv, SendInv
<1>1. Client \in Ends
  BY DEF Ends
<1>2. ASSUME UNCHANGED <<begun, got, rret>> PROVE UNCHANGED PacketLinkOf!vars
  <2>1. UNCHANGED <<SentOf, got, RuinedOf>>
    BY <1>2 DEF SentOf, RuinedOf
  <2> QED
    BY <1>1, <2>1, LinkSteps
<1>3. ASSUME NEW s \in Senders, NEW p \in Packages, SendStart(s, p)
      PROVE  PacketLinkOf!Next
  <2>1. At[s] \in Ends /\ p \in FittingOf
    BY <1>3, Places, SizeSays DEF SendStart, FittingOf
  <2>2. /\ UNCHANGED <<got, rret>>
        /\ begun' = [begun EXCEPT ![At[s]] = Append(@, [pkg |-> p, at |-> Len(wire[At[s]])])]
    BY <1>3 DEF SendStart, receiver
  <2>3. SentOf' = [SentOf EXCEPT ![At[s]] = Append(@, p)]
    BY <1>0, <2>1, <2>2, SentBy
  <2>4. UNCHANGED RuinedOf
    BY <2>2 DEF RuinedOf
  <2> QED
    BY <2>1, <2>2, <2>3, <2>4, LinkSteps
<1>4. ASSUME NEW s \in Senders, SendStep(s), \A p \in Packages : ~ SendStart(s, p)
      PROVE  UNCHANGED PacketLinkOf!vars
  BY <1>2, <1>4 DEF SendStep, SendRefused, SendBytes, SendBody, SendAsserts, SendDone,
                    SendFails, SendReturn, receiver
<1>5. ASSUME NEW r \in Receivers, rret' = [rret EXCEPT ![r] = "ruined"],
             UNCHANGED <<begun, got>>
      PROVE  PacketLinkOf!Next
  <2>1. /\ rret'[r] = "ruined" /\ \A q \in Receivers \ {r} : rret'[q] = rret[q]
        /\ At[r] \in Ends
    BY <1>0, <1>5, ReceiverTypes
  <2>2. RuinedOf' = [RuinedOf EXCEPT ![At[r]] = TRUE]
    BY <2>1, RuinedBy
  <2>3. UNCHANGED SentOf
    BY <1>5 DEF SentOf
  <2> QED
    BY <1>5, <2>1, <2>2, <2>3, LinkSteps
<1>6. ASSUME NEW r \in Receivers, RecvDone(r)
      PROVE  PacketLinkOf!Next
  <2> DEFINE e == At[r]
             from == Peer(e)
             next == Len(got[e]) + 1
  <2>1. /\ rpc[r] = "body" /\ Len(buf[r]) = need[r] /\ UNCHANGED begun
        /\ got' = [got EXCEPT ![e] = Append(@, buf[r])]
        /\ rret' = [rret EXCEPT ![r] = "success"]
    BY <1>6 DEF RecvDone, RecvReturn
  <2>2. e \in Ends /\ from \in Ends /\ Reading(r) /\ Len(got[e]) \in Nat
        /\ Len(begun[from]) \in Nat
    <3>1. e \in Ends /\ from \in Ends /\ Reading(r)
      BY <1>0, Places DEF Readers
    <3> QED
      BY <1>0, <3>1, GotIs, BegunIs
  <2>3. rret[r] # "ruined"
    BY <2>1, <2>2 DEF Reading
  <2>4. UNCHANGED <<SentOf, RuinedOf>>
    <3>1. rret'[r] # "ruined" /\ \A q \in Receivers \ {r} : rret'[q] = rret[q]
      BY <1>0, <2>1, ReceiverTypes
    <3>2. UNCHANGED RuinedOf
      BY <2>3, <3>1, RuinedBy
    <3> QED
      BY <2>1, <3>2 DEF SentOf
  <2>5. next <= Len(begun[from]) /\ buf[r] = begun[from][next].pkg
    BY <1>0, <2>1, PackageRead
  <2>6. SentOf[from] = [i \in 1..Len(begun[from]) |-> begun[from][i].pkg]
    BY <2>2 DEF SentOf
  <2>7. next <= Len(SentOf[from]) /\ SentOf[from][next] = buf[r]
    <3> DEFINE b == begun[from]
               n == Len(got[e]) + 1
    <3>1. n \in 1..Len(b) /\ Len(b) \in Nat
      BY <2>2, <2>5
    <3> HIDE DEF b, n
    <3>2. Len([i \in 1..Len(b) |-> b[i].pkg]) = Len(b)
          /\ [i \in 1..Len(b) |-> b[i].pkg][n] = b[n].pkg
      BY <3>1
    <3> QED
      BY <2>5, <2>6, <3>1, <3>2 DEF b, n
  <2>8. ~ RuinedOf[e]
    <3>1. \A q \in ReceiversOf(e) : q = r
      BY DEF ReceiversOf, OneReceiver
    <3> QED
      BY <2>2, <2>3, <3>1 DEF RuinedOf
  <2>9. got' = [got EXCEPT ![e] = Append(@, SentOf[from][next])]
    BY <2>1, <2>7
  <2> QED
    BY <2>2, <2>4, <2>7, <2>8, <2>9, LinkSteps
<1>7. ASSUME NEW r \in Receivers, RecvStep(r)
      PROVE  PacketLinkOf!Next \/ UNCHANGED PacketLinkOf!vars
  <2>1. CASE RecvRuined(r)
    BY <1>5, <2>1 DEF RecvRuined
  <2>2. CASE RecvCheck(r) \/ RecvLock(r) \/ RecvBytes(r) \/ RecvAsserts(r)
    BY <1>2, <2>2 DEF RecvCheck, RecvLock, RecvBytes, RecvAsserts, receiver
  <2>3. CASE RecvHeader(r)
    <3>1. CASE HighHalf(buf[r]) # LowHalf(buf[r])
      BY <1>5, <2>3, <3>1 DEF RecvHeader, RecvReturn
    <3>2. CASE HighHalf(buf[r]) = LowHalf(buf[r])
      BY <1>2, <2>3, <3>2 DEF RecvHeader
    <3> QED
      BY <3>1, <3>2
  <2>4. CASE RecvDone(r)
    BY <1>6, <2>4
  <2>5. CASE RecvEof(r) \/ RecvFails(r)
    BY <1>5, <2>5 DEF RecvEof, RecvFails, RecvGivesUp, RecvReturn
  <2> QED
    BY <1>7, <2>1, <2>2, <2>3, <2>4, <2>5 DEF RecvStep
<1>8. ASSUME NEW e \in Ends, Destroy(e) PROVE UNCHANGED PacketLinkOf!vars
  BY <1>2, <1>8 DEF Destroy, receiver
<1>9. ASSUME UNCHANGED vars PROVE UNCHANGED PacketLinkOf!vars
  BY <1>2, <1>9 DEF vars
<1> QED
  BY <1>3, <1>4, <1>7, <1>8, <1>9 DEF Next, Gone, SendStep

(***************************************************************************)
(* With one receiver at each end, whatever the senders, the window and the *)
(* pieces in which bytes travel, two connected ends are a packet link:     *)
(* packages come out whole, in order and once, and none after "ruined"     *)
(* (net.cpp:123-150, 176-236).                                             *)
(***************************************************************************)
THEOREM NapComImplementsLink ==
    ASSUME SizesCountable, OneReceiver
    PROVE  Spec => ImplementsLink
<1>1. LinkInv /\ [Next]_vars => [PacketLinkOf!Next]_(PacketLinkOf!vars)
  BY LinkStep
<1> QED
  BY LinkInit, <1>1, LinkInvariance, PTL
     DEF Spec, ImplementsLink, PacketLinkOf!Spec
=============================================================================
