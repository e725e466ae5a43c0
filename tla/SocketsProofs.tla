---------------------------- MODULE SocketsProofs ----------------------------
(***************************************************************************)
(* Proofs about Sockets, for every number of objects, descriptors and      *)
(* sockets: who owns which napcom and which descriptor, that a descriptor  *)
(* stands for what it was taken for, which descriptors are lost, and when  *)
(* a napcom may go.                                                        *)
(***************************************************************************)
EXTENDS Sockets, TLAPS

-----------------------------------------------------------------------------
(* The inductive invariant.                                                  *)

\* A socket is behind one descriptor at most, and no object was made for the
\* socket of another one: numbers of sockets are never given out again.
Numbered ==
    /\ \A d \in Fd : table[d] <= opened
    /\ \A d, e \in Fd : table[d] = table[e] => d = e \/ table[d] = NoSocket
    /\ \A x \in Maker : made[x] <= opened /\ made[x] # Program
    /\ \A x, y \in Maker : made[x] = made[y] => x = y \/ made[x] = NoSocket

\* The objects that were made for a socket are those that hold a descriptor.
Sharp ==
    /\ connecting \subseteq alive
    /\ \A c \in Client : made[c] # NoSocket <=> c \in connecting /\ first[c] # invalid
    /\ \A s \in Server : /\ made[s] # NoSocket <=> ss[s] # invalid
                         /\ s \notin alive => ss[s] = invalid
    /\ \A n \in Com : /\ made[n] # NoSocket <=> n \in coms
                      /\ net[n] # invalid <=> n \in coms

\* Each descriptor stands for the socket its holder was made for.
Stands ==
    /\ \A n \in Com : net[n] # invalid => table[net[n]] = made[n]
    /\ \A s \in Server : ss[s] # invalid => table[ss[s]] = made[s]
    /\ \A c \in connecting : first[c] # invalid => table[first[c]] = made[c]
    /\ table[0] = Program

\* The port and the listeners belong to servers.
Ports == \A k \in Taken : \E s \in Server : ss[s] # invalid /\ table[ss[s]] = k

Inv == TypeOK /\ OneHolder /\ Numbered /\ Sharp /\ Stands /\ Ports

LEMMA Numbers ==
    /\ Fds \in Nat /\ 0 \in Fd /\ Fd \subseteq Nat /\ invalid \notin Fd
    /\ MaxSockets \in Nat /\ invalid = -1 /\ NoSocket = -1 /\ Program = 0
BY FdsAssumption, BoundAssumption DEF Fd, invalid, NoSocket, Program

\* Holders, servers and napcoms are different things.
LEMMA Apart ==
    /\ \A c \in Client : c \in Holder /\ c \in Maker /\ c \notin Com /\ c \notin Server
                         /\ c \notin Link
    /\ \A l \in Link : l \in Holder /\ l \notin Client /\ l \notin Server
    /\ \A s \in Server : s \in Maker /\ s \notin Com /\ s \notin Client /\ s \notin Holder
    /\ \A n \in Com : n \in Maker /\ n \notin Client /\ n \notin Server /\ n # Null
    /\ Null \notin Maker
BY PlacesAssumption DEF Holder, Maker

\* Inv says what is to be shown of a state.
LEMMA InvImplies == Inv => Ownership /\ TrueDescriptor
<1> SUFFICES ASSUME Inv PROVE Ownership /\ TrueDescriptor
  OBVIOUS
<1>1. PortIsHeld
  BY DEF Inv, Ports, Sharp, PortIsHeld
<1>2. TrueDescriptor
  BY DEF Inv, Sharp, Stands, TrueDescriptor, TypeOK
<1> QED
  BY <1>1, <1>2 DEF Ownership, Inv

LEMMA Initially == Init => Inv
<1> SUFFICES ASSUME Init PROVE Inv
  OBVIOUS
<1>1. TypeOK
  BY Numbers DEF Init, TypeOK
<1>2. OneHolder
  BY DEF Init, OneHolder
<1>3. Numbered
  BY Numbers DEF Init, Numbered
<1>4. Sharp /\ Stands
  BY Numbers, Apart DEF Init, Sharp, Stands
<1>5. Ports
  BY Numbers DEF Init, Ports, Taken
<1> QED
  BY <1>1, <1>2, <1>3, <1>4, <1>5 DEF Inv

-----------------------------------------------------------------------------
(* The kernel.                                                               *)

\* A new socket has a number of its own and takes a descriptor nobody holds.
LEMMA OpensKeeps ==
    ASSUME TypeOK, Numbered, table[0] = Program, NEW d \in Fd, Opens(d)
    PROVE  /\ opened' = opened + 1 /\ opened' \in 1..MaxSockets
           /\ table' \in [Fd -> NoSocket..MaxSockets]
           /\ table[d] = NoSocket /\ table'[d] = opened' /\ d # 0
           /\ \A e \in Fd \ {d} : table'[e] = table[e]
           /\ \A e \in Fd : table'[e] <= opened'
           /\ \A e, f \in Fd : table'[e] = table'[f] => e = f \/ table'[e] = NoSocket
           /\ \A x \in Maker : made[x] < opened'
<1>1. d # invalid
  BY Numbers
<1>2. /\ opened < MaxSockets /\ table[d] = NoSocket /\ opened' = opened + 1
      /\ table' = [table EXCEPT ![d] = opened']
  BY <1>1 DEF Opens, FreeFd
<1>3. opened \in Nat /\ opened' \in 1..MaxSockets
  BY <1>2, Numbers DEF TypeOK
<1>4. table' \in [Fd -> NoSocket..MaxSockets]
  BY <1>2, <1>3, Numbers DEF TypeOK
<1>5. table'[d] = opened' /\ \A e \in Fd \ {d} : table'[e] = table[e]
  BY <1>2 DEF TypeOK
<1>6. \A e \in Fd : table[e] <= opened /\ table[e] \in Int
  BY Numbers DEF Numbered, TypeOK
<1>7. \A e \in Fd : table'[e] <= opened'
  BY <1>2, <1>3, <1>5, <1>6
<1>8. \A e, f \in Fd : table'[e] = table'[f] => e = f \/ table'[e] = NoSocket
  BY <1>2, <1>3, <1>5, <1>6 DEF Numbered
<1>9. \A x \in Maker : made[x] < opened'
  BY <1>2, <1>3, Numbers DEF Numbered, TypeOK
<1>10. d # 0
  BY <1>2, Numbers
<1> QED
  BY <1>2, <1>3, <1>4, <1>5, <1>7, <1>8, <1>9, <1>10

\* A close takes nothing away from those who hold other descriptors.
LEMMA ForgetKeeps ==
    ASSUME TypeOK, Numbered, Ports, table[0] = Program,
           NEW d \in Fd \cup {invalid}, d # 0, Forget(Closed(d)),
           \A s \in Server : ss[s] # d => ss'[s] = ss[s]
    PROVE  /\ opened' = opened
           /\ table' \in [Fd -> NoSocket..MaxSockets]
           /\ bound' \in NoSocket..MaxSockets /\ listening' \subseteq 1..MaxSockets
           /\ table'[0] = Program
           /\ \A e \in Fd \ {d} : table'[e] = table[e]
           /\ \A e \in Fd : table'[e] <= opened'
           /\ \A e, f \in Fd : table'[e] = table'[f] => e = f \/ table'[e] = NoSocket
           /\ d \in Fd => table'[d] = NoSocket
           /\ Ports'
<1>1. /\ table' = [e \in Fd |-> IF e = d THEN NoSocket ELSE table[e]]
      /\ bound' = IF \E e \in Fd : table'[e] = bound THEN bound ELSE NoSocket
      /\ listening' = {k \in listening : \E e \in Fd : table'[e] = k}
      /\ opened' = opened
  BY DEF Forget, Closed
<1>2. \A e \in Fd : table'[e] = IF e = d THEN NoSocket ELSE table[e]
  BY <1>1
<1>3. table' \in [Fd -> NoSocket..MaxSockets]
  BY <1>1, Numbers DEF TypeOK
<1>4. bound' \in NoSocket..MaxSockets /\ listening' \subseteq 1..MaxSockets
  BY <1>1, Numbers DEF TypeOK
<1>5. \A e \in Fd : table'[e] <= opened'
  BY <1>1, <1>2, Numbers DEF Numbered, TypeOK
<1>6. \A e, f \in Fd : table'[e] = table'[f] => e = f \/ table'[e] = NoSocket
  BY <1>2 DEF Numbered
<1>7. Ports'
  <2> SUFFICES ASSUME NEW k \in Taken'
               PROVE  \E s \in Server : ss'[s] # invalid /\ table'[ss'[s]] = k
    BY DEF Ports
  <2>1. k \in Taken /\ \E e \in Fd : table'[e] = k
    BY <1>1 DEF Taken
  <2>2. PICK e \in Fd : table'[e] = k
    BY <2>1
  <2>3. e # d /\ table[e] = k /\ k # NoSocket
    BY <1>2, <2>1, <2>2 DEF Taken
  <2>4. PICK s \in Server : ss[s] # invalid /\ table[ss[s]] = k
    BY <2>1 DEF Ports
  <2>5. ss[s] = e
    BY <2>3, <2>4 DEF Numbered, TypeOK
  <2> QED
    BY <2>2, <2>3, <2>4, <2>5
<1>8. table'[0] = Program
  BY <1>2, Numbers
<1> QED
  BY <1>1, <1>2, <1>3, <1>4, <1>5, <1>6, <1>7, <1>8

\* What Inv says of a napcom, of a server and of a client that connects.
LEMMA Holds ==
    ASSUME Inv
    PROVE  /\ \A x \in Maker : made[x] \in NoSocket..MaxSockets
           /\ \A n \in coms : /\ n \in Com /\ net[n] \in Fd \ {0} /\ made[n] # NoSocket
                              /\ table[net[n]] = made[n]
           /\ \A s \in Server : ss[s] # invalid =>
                 ss[s] \in Fd \ {0} /\ made[s] # NoSocket /\ table[ss[s]] = made[s]
           /\ \A c \in connecting : first[c] # invalid =>
                 first[c] \in Fd \ {0} /\ made[c] # NoSocket /\ table[first[c]] = made[c]
           /\ \A x, y \in Maker : made[x] = made[y] => x = y \/ made[x] = NoSocket
           /\ \A h \in Holder : easycomm[h] # Null => easycomm[h] \in coms /\ h \in alive
           /\ Null \notin Com
<1>1. \A x \in Maker : made[x] # Program /\ made[x] \in NoSocket..MaxSockets
  BY DEF Inv, Numbered, TypeOK
<1>2. \A n \in coms : /\ n \in Com /\ net[n] \in Fd \ {0} /\ made[n] # NoSocket
                      /\ table[net[n]] = made[n]
  BY <1>1, Apart DEF Inv, TypeOK, Sharp, Stands
<1>3. \A s \in Server : ss[s] # invalid =>
         ss[s] \in Fd \ {0} /\ made[s] # NoSocket /\ table[ss[s]] = made[s]
  BY <1>1, Apart DEF Inv, TypeOK, Sharp, Stands
<1>4. \A c \in connecting : first[c] # invalid =>
         first[c] \in Fd \ {0} /\ made[c] # NoSocket /\ table[first[c]] = made[c]
  BY <1>1, Apart DEF Inv, TypeOK, Sharp, Stands
<1>5. \A h \in Holder : easycomm[h] # Null => easycomm[h] \in coms /\ h \in alive
  BY DEF Inv, OneHolder
<1> QED
  BY <1>1, <1>2, <1>3, <1>4, <1>5, Apart DEF Inv, Numbered

-----------------------------------------------------------------------------
(* The operations, one lemma each.                                           *)

LEMMA NewClientKeeps ==
    ASSUME Inv, NEW c \in Client, NewClient(c) PROVE Inv'
<1>1. /\ c \notin alive /\ alive' = alive \cup {c}
      /\ easycomm' = [easycomm EXCEPT ![c] = Null] /\ first' = [first EXCEPT ![c] = 0]
      /\ UNCHANGED <<table, opened, bound, listening, connecting, ss, coms, net, made>>
  BY DEF NewClient, NoneYet, kernel, napcoms
<1>2. c \in Holder /\ c \notin connecting /\ easycomm[c] = Null
  BY <1>1, Apart DEF Inv, Sharp, OneHolder
<1>3. TypeOK'
  BY <1>1, <1>2, Numbers DEF Inv, TypeOK
<1>4. OneHolder'
  <2>1. easycomm' = easycomm
    BY <1>1, <1>2 DEF Inv, TypeOK
  <2> QED
    BY <1>1, <1>2, <2>1 DEF Inv, OneHolder
<1>5. \A k \in Client \ {c} : first'[k] = first[k]
  BY <1>1 DEF Inv, TypeOK
<1>6. Sharp'
  BY <1>1, <1>2, <1>5, Apart DEF Inv, Sharp
<1>7. Stands'
  BY <1>1, <1>2, <1>5 DEF Inv, Stands, TypeOK
<1> QED
  BY <1>1, <1>3, <1>4, <1>6, <1>7 DEF Inv, Numbered, Ports, Taken

\* A client has taken a new descriptor, or has failed to.
LEMMA ConnectKeeps ==
    ASSUME Inv, NEW c \in Client, NEW d \in Fd \cup {invalid}, Connect(c, d) PROVE Inv'
<1>1. /\ c \in alive /\ c \notin connecting /\ connecting' = connecting \cup {c}
      /\ first' = [first EXCEPT ![c] = d] /\ Opens(d)
      /\ made' = [made EXCEPT ![c] = IF d = invalid THEN NoSocket ELSE opened']
      /\ UNCHANGED <<bound, listening, alive, easycomm, ss, coms, net>>
  BY DEF Connect, napcoms
<1>2. c \in Maker /\ made[c] = NoSocket
  BY <1>1, Apart DEF Inv, Sharp
<1>3. /\ first'[c] = d /\ \A k \in Client \ {c} : first'[k] = first[k]
      /\ first' \in [Client -> Fd \cup {invalid}]
  BY <1>1 DEF Inv, TypeOK
<1>4. OneHolder'
  BY <1>1 DEF Inv, OneHolder
<1>5. CASE d = invalid
  <2>1. UNCHANGED <<table, opened>> /\ made' = made
    BY <1>1, <1>2, <1>5 DEF Opens, Inv, TypeOK
  <2>2. TypeOK'
    BY <1>1, <1>3, <2>1 DEF Inv, TypeOK
  <2>3. Numbered' /\ Ports'
    BY <1>1, <2>1 DEF Inv, Numbered, Ports, Taken
  <2>4. Sharp'
    BY <1>1, <1>2, <1>3, <1>5, <2>1 DEF Inv, Sharp
  <2>5. Stands'
    BY <1>1, <1>3, <1>5, <2>1 DEF Inv, Stands, TypeOK
  <2> QED
    BY <1>4, <2>2, <2>3, <2>4, <2>5 DEF Inv
<1>6. CASE d # invalid
  <2>1. d \in Fd /\ TypeOK /\ Numbered /\ table[0] = Program
    BY <1>6 DEF Inv, Stands
  <2>2. /\ opened' = opened + 1 /\ opened' \in 1..MaxSockets
        /\ table' \in [Fd -> NoSocket..MaxSockets]
        /\ table[d] = NoSocket /\ table'[d] = opened' /\ d # 0
        /\ \A e \in Fd \ {d} : table'[e] = table[e]
        /\ \A e \in Fd : table'[e] <= opened'
        /\ \A e, f \in Fd : table'[e] = table'[f] => e = f \/ table'[e] = NoSocket
        /\ \A x \in Maker : made[x] < opened'
    BY <1>1, <2>1, OpensKeeps
  <2>3. /\ made'[c] = opened' /\ \A x \in Maker \ {c} : made'[x] = made[x]
        /\ made' \in [Maker -> NoSocket..MaxSockets]
    BY <1>1, <1>2, <1>6, <2>2, Numbers DEF Inv, TypeOK
  <2>4. TypeOK'
    BY <1>1, <1>3, <2>2, <2>3, Numbers DEF Inv, TypeOK
  <2>5. Numbered'
    <3>1. \A x, y \in Maker : made'[x] = made'[y] => x = y \/ made'[x] = NoSocket
      BY <2>1, <2>2, <2>3 DEF Numbered
    <3>2. \A x \in Maker : made'[x] <= opened' /\ made'[x] # Program
      BY <2>1, <2>2, <2>3, Numbers DEF Numbered, TypeOK
    <3> QED
      BY <2>2, <3>1, <3>2 DEF Numbered
  <2>6. Sharp'
    BY <1>1, <1>2, <1>3, <1>6, <2>2, <2>3, Apart, Numbers DEF Inv, Sharp
  <2>7. Stands'
    <3>1. \A n \in Com : net'[n] # invalid => table'[net'[n]] = made'[n]
      BY <1>1, <2>2, <2>3, Holds, Apart DEF Inv, Sharp
    <3>2. \A s \in Server : ss'[s] # invalid => table'[ss'[s]] = made'[s]
      BY <1>1, <2>2, <2>3, Holds, Apart
    <3>3. \A k \in connecting' : first'[k] # invalid => table'[first'[k]] = made'[k]
      BY <1>1, <1>3, <2>2, <2>3, Holds, Apart DEF Inv, TypeOK
    <3> QED
      BY <2>1, <2>2, <3>1, <3>2, <3>3, Numbers DEF Stands
  <2>8. Ports'
    BY <1>1, <2>2, Holds DEF Inv, Ports, Taken
  <2> QED
    BY <1>4, <2>4, <2>5, <2>6, <2>7, <2>8 DEF Inv
<1> QED
  BY <1>5, <1>6

LEMMA RefusedKeeps ==
    ASSUME Inv, NEW c \in Client, Refused(c) PROVE Inv'
<1>1. /\ c \in connecting /\ connecting' = connecting \ {c}
      /\ made' = [made EXCEPT ![c] = NoSocket]
      /\ UNCHANGED <<table, opened, bound, listening, alive, easycomm, first, ss, coms, net>>
  BY DEF Refused, kernel, napcoms
<1>2. /\ made'[c] = NoSocket /\ \A x \in Maker \ {c} : made'[x] = made[x]
      /\ made' \in [Maker -> NoSocket..MaxSockets]
  BY <1>1, Apart, Numbers DEF Inv, TypeOK
<1>3. TypeOK' /\ OneHolder' /\ Ports'
  BY <1>1, <1>2 DEF Inv, TypeOK, OneHolder, Ports, Taken
<1>4. Numbered'
  <2>1. \A x \in Maker : made'[x] <= opened' /\ made'[x] # Program
    BY <1>1, <1>2, Numbers DEF Inv, Numbered, TypeOK
  <2> QED
    BY <1>1, <1>2, <2>1 DEF Inv, Numbered
<1>5. Sharp'
  BY <1>1, <1>2, Apart DEF Inv, Sharp
<1>6. Stands'
  BY <1>1, <1>2, Apart DEF Inv, Stands, TypeOK
<1> QED
  BY <1>3, <1>4, <1>5, <1>6 DEF Inv

\* An object with a napcom, or without one, is destroyed.
LEMMA DeleteKeeps ==
    ASSUME Inv, NEW h \in Holder, h \in alive, h \notin connecting,
           Delete(easycomm[h]), alive' = alive \ {h},
           easycomm' = [easycomm EXCEPT ![h] = Null],
           first' \in [Client -> Fd \cup {invalid}],
           \A c \in connecting : first'[c] = first[c],
           UNCHANGED <<connecting, ss>>
    PROVE  Inv'
<1> DEFINE n == easycomm[h]
           d == Descriptor(n)
<1>1. /\ coms' = coms \ {n} /\ Forget(Closed(d))
      /\ net' = [m \in Com |-> IF m = n THEN invalid ELSE net[m]]
      /\ made' = [x \in Maker |-> IF x = n THEN NoSocket ELSE made[x]]
  BY DEF Delete
<1>2. n \in coms \/ (n = Null /\ n \notin Maker)
  BY Holds, Apart
<1>3. /\ d \in Fd \cup {invalid} /\ d # 0
      /\ d # invalid => n \in Com /\ net[n] = d /\ made[n] # NoSocket /\ table[d] = made[n]
  BY <1>2, Holds, Numbers DEF Descriptor
<1>4. /\ \A m \in Com : net'[m] = IF m = n THEN invalid ELSE net[m]
      /\ \A x \in Maker : made'[x] = IF x = n THEN NoSocket ELSE made[x]
      /\ net' \in [Com -> Fd \cup {invalid}] /\ made' \in [Maker -> NoSocket..MaxSockets]
  BY <1>1, Numbers DEF Inv, TypeOK
<1>5. /\ easycomm'[h] = Null /\ \A k \in Holder \ {h} : easycomm'[k] = easycomm[k]
      /\ easycomm' \in [Holder -> Com \cup {Null}]
  BY DEF Inv, TypeOK
<1> HIDE DEF n, d
<1>6. /\ opened' = opened
      /\ table' \in [Fd -> NoSocket..MaxSockets]
      /\ bound' \in NoSocket..MaxSockets /\ listening' \subseteq 1..MaxSockets
      /\ table'[0] = Program
      /\ \A e \in Fd \ {d} : table'[e] = table[e]
      /\ \A e \in Fd : table'[e] <= opened'
      /\ \A e, f \in Fd : table'[e] = table'[f] => e = f \/ table'[e] = NoSocket
      /\ Ports'
  <2>1. TypeOK /\ Numbered /\ Ports /\ table[0] = Program
    BY DEF Inv, Stands
  <2>2. \A s \in Server : ss[s] # d => ss'[s] = ss[s]
    OBVIOUS
  <2> QED
    BY <1>1, <1>3, <2>1, <2>2, ForgetKeeps
<1>7. TypeOK'
  BY <1>1, <1>4, <1>5, <1>6 DEF Inv, TypeOK
<1>8. OneHolder'
  <2>1. coms = {easycomm[k] : k \in alive \cap Holder} \ {Null}
    BY DEF Inv, OneHolder
  <2>2. \A k \in Holder : easycomm[k] = n => k = h \/ n = Null
    BY DEF n, Inv, OneHolder
  <2>3. \A k \in Holder \ alive' : easycomm'[k] = Null
    BY <1>5 DEF Inv, OneHolder
  <2>4. \A k, l \in Holder : easycomm'[k] = easycomm'[l] => k = l \/ easycomm'[k] = Null
    BY <1>5 DEF Inv, OneHolder
  <2>5. coms' = {easycomm'[k] : k \in alive' \cap Holder} \ {Null}
    <3>1. ASSUME NEW m \in coms' PROVE m \in {easycomm'[k] : k \in alive' \cap Holder} \ {Null}
      <4>1. PICK k \in alive \cap Holder : m = easycomm[k] /\ m # Null /\ m # n
        BY <1>1, <2>1, <3>1
      <4>2. k # h
        BY <4>1 DEF n
      <4> QED
        BY <1>5, <4>1, <4>2
    <3>2. ASSUME NEW k \in alive' \cap Holder, easycomm'[k] # Null PROVE easycomm'[k] \in coms'
      <4>1. k # h /\ easycomm'[k] = easycomm[k] /\ k \in alive
        BY <1>5
      <4>2. easycomm[k] \in coms
        BY <2>1, <3>2, <4>1
      <4> QED
        BY <1>1, <2>2, <3>2, <4>1, <4>2
    <3> QED
      BY <3>1, <3>2
  <2> QED
    BY <2>3, <2>4, <2>5 DEF OneHolder
<1>9. Numbered'
  <2>1. \A x \in Maker : made'[x] <= opened' /\ made'[x] # Program
    BY <1>4, <1>6, Numbers DEF Inv, Numbered, TypeOK
  <2>2. \A x, y \in Maker : made'[x] = made'[y] => x = y \/ made'[x] = NoSocket
    BY <1>4 DEF Inv, Numbered
  <2> QED
    BY <1>6, <2>1, <2>2 DEF Numbered
<1>10. Sharp'
  <2>1. connecting' \subseteq alive'
    BY DEF Inv, Sharp
  <2>2. \A c \in Client : made'[c] # NoSocket <=> c \in connecting' /\ first'[c] # invalid
    BY <1>2, <1>4, Apart DEF Inv, Sharp, TypeOK
  <2>3. \A s \in Server : made'[s] # NoSocket <=> ss'[s] # invalid
    BY <1>2, <1>4, Apart DEF Inv, Sharp, TypeOK
  <2>4. \A s \in Server : s \notin alive' => ss'[s] = invalid
    BY Apart DEF Inv, Sharp
  <2>5. \A m \in Com : (made'[m] # NoSocket <=> m \in coms') /\ (net'[m] # invalid <=> m \in coms')
    BY <1>1, <1>4, Apart DEF Inv, Sharp
  <2> QED
    BY <2>1, <2>2, <2>3, <2>4, <2>5 DEF Sharp
<1>11. Stands'
  <2>1. \A x \in Maker \ {n} : \A e \in Fd : made[x] # NoSocket /\ table[e] = made[x] => e # d
    BY <1>3, Holds, Apart, Numbers
  <2>2. \A m \in Com : net'[m] # invalid => table'[net'[m]] = made'[m]
    BY <1>4, <1>6, <2>1, Holds, Apart DEF Inv, Sharp
  <2>3. \A s \in Server : ss'[s] # invalid => table'[ss'[s]] = made'[s]
    BY <1>2, <1>4, <1>6, <2>1, Holds, Apart DEF Inv, TypeOK
  <2>4. \A c \in connecting' : first'[c] # invalid => table'[first'[c]] = made'[c]
    BY <1>2, <1>4, <1>6, <2>1, Holds, Apart DEF Inv, TypeOK
  <2> QED
    BY <1>6, <2>2, <2>3, <2>4 DEF Stands
<1> QED
  BY <1>6, <1>7, <1>8, <1>9, <1>10, <1>11 DEF Inv

LEMMA DestroyClientKeeps ==
    ASSUME Inv, NEW c \in Client, DestroyClient(c) PROVE Inv'
<1>1. /\ c \in Holder /\ c \in alive /\ c \notin connecting
      /\ Delete(easycomm[c]) /\ alive' = alive \ {c}
      /\ easycomm' = [easycomm EXCEPT ![c] = Null] /\ first' = [first EXCEPT ![c] = 0]
      /\ UNCHANGED <<connecting, ss>>
  BY Apart DEF DestroyClient
<1>2. /\ first' \in [Client -> Fd \cup {invalid}]
      /\ \A k \in connecting : first'[k] = first[k]
  BY <1>1, Numbers DEF Inv, TypeOK
<1> QED
  BY <1>1, <1>2, DeleteKeeps

LEMMA DestroyLinkKeeps ==
    ASSUME Inv, NEW l \in Link, DestroyLink(l) PROVE Inv'
<1>1. /\ l \in Holder /\ l \notin connecting /\ l \in alive
      /\ Delete(easycomm[l]) /\ alive' = alive \ {l}
      /\ easycomm' = [easycomm EXCEPT ![l] = Null]
      /\ UNCHANGED <<first, connecting, ss>>
  BY Apart DEF DestroyLink, Inv, TypeOK
<1>2. first' \in [Client -> Fd \cup {invalid}]
  BY <1>1 DEF Inv, TypeOK
<1> QED
  BY <1>1, <1>2, DeleteKeeps

\* A client has a new connection: the napcom of the old one goes, and the new
\* one has the descriptor that the client was connecting with.
LEMMA ConnectedKeeps ==
    ASSUME Inv, NEW c \in Client, NEW n \in Com, Connected(c, n) PROVE Inv'
<1> DEFINE old == easycomm[c]
           d == Descriptor(old)
<1>1. /\ c \in connecting /\ first[c] # invalid /\ connecting' = connecting \ {c}
      /\ n \notin coms \ {old} /\ coms' = (coms \ {old}) \cup {n} /\ Forget(Closed(d))
      /\ net' = [m \in Com |-> IF m = n THEN first[c] ELSE IF m = old THEN invalid ELSE net[m]]
      /\ made' = [x \in Maker |-> IF x = n THEN made[c]
                                  ELSE IF x \in {c, old} THEN NoSocket ELSE made[x]]
      /\ easycomm' = [easycomm EXCEPT ![c] = n] /\ first' = [first EXCEPT ![c] = 0]
      /\ UNCHANGED <<alive, ss>>
  BY DEF Connected
<1>2. (old \in coms \/ (old = Null /\ old \notin Maker)) /\ c \in alive /\ c \in Holder
  BY <1>1, Holds, Apart DEF Inv, Sharp
<1>3. /\ d \in Fd \cup {invalid} /\ d # 0
      /\ d # invalid => old \in Com /\ net[old] = d /\ made[old] # NoSocket /\ table[d] = made[old]
  BY <1>2, Holds, Numbers DEF Descriptor
<1>4. /\ first[c] \in Fd \ {0} /\ made[c] # NoSocket /\ table[first[c]] = made[c]
      /\ made[c] \in NoSocket..MaxSockets
  BY <1>1, Holds, Apart
<1>5. /\ \A m \in Com : net'[m] = IF m = n THEN first[c] ELSE IF m = old THEN invalid ELSE net[m]
      /\ \A x \in Maker : made'[x] = IF x = n THEN made[c]
                                     ELSE IF x \in {c, old} THEN NoSocket ELSE made[x]
      /\ net' \in [Com -> Fd \cup {invalid}] /\ made' \in [Maker -> NoSocket..MaxSockets]
  BY <1>1, <1>4, Numbers DEF Inv, TypeOK
<1>6. /\ easycomm'[c] = n /\ \A k \in Holder \ {c} : easycomm'[k] = easycomm[k]
      /\ easycomm' \in [Holder -> Com \cup {Null}]
      /\ first' \in [Client -> Fd \cup {invalid}]
      /\ \A k \in Client \ {c} : first'[k] = first[k]
  BY <1>1, <1>2, Numbers DEF Inv, TypeOK
<1> HIDE DEF old, d
<1>7. /\ opened' = opened
      /\ table' \in [Fd -> NoSocket..MaxSockets]
      /\ bound' \in NoSocket..MaxSockets /\ listening' \subseteq 1..MaxSockets
      /\ table'[0] = Program
      /\ \A e \in Fd \ {d} : table'[e] = table[e]
      /\ \A e \in Fd : table'[e] <= opened'
      /\ \A e, f \in Fd : table'[e] = table'[f] => e = f \/ table'[e] = NoSocket
      /\ Ports'
  <2>1. TypeOK /\ Numbered /\ Ports /\ table[0] = Program
    BY DEF Inv, Stands
  <2>2. \A s \in Server : ss[s] # d => ss'[s] = ss[s]
    BY <1>1
  <2> QED
    BY <1>1, <1>3, <2>1, <2>2, ForgetKeeps
<1>8. TypeOK'
  BY <1>1, <1>5, <1>6, <1>7 DEF Inv, TypeOK
<1>9. OneHolder'
  <2>1. coms = {easycomm[k] : k \in alive \cap Holder} \ {Null}
    BY DEF Inv, OneHolder
  <2>2. \A k \in Holder : easycomm[k] = old => k = c \/ old = Null
    BY <1>2 DEF old, Inv, OneHolder
  <2>3. \A k \in Holder \ alive' : easycomm'[k] = Null
    BY <1>1, <1>2, <1>6 DEF Inv, OneHolder
  <2>4. \A k \in Holder \ {c} : easycomm'[k] # n
    <3> SUFFICES ASSUME NEW k \in Holder \ {c}, easycomm'[k] = n PROVE FALSE
      OBVIOUS
    <3>1. easycomm[k] = n /\ n # Null /\ n \in coms
      BY <1>6, Apart, Holds
    <3> QED
      BY <1>1, <2>2, <3>1
  <2>5. \A k, l \in Holder : easycomm'[k] = easycomm'[l] => k = l \/ easycomm'[k] = Null
    BY <1>6, <2>4 DEF Inv, OneHolder
  <2>6. coms' = {easycomm'[k] : k \in alive' \cap Holder} \ {Null}
    <3>1. ASSUME NEW m \in coms' PROVE m \in {easycomm'[k] : k \in alive' \cap Holder} \ {Null}
      <4>1. CASE m = n
        BY <1>1, <1>2, <1>6, <4>1, Apart
      <4>2. CASE m \in coms \ {old}
        <5>1. PICK k \in alive \cap Holder : m = easycomm[k] /\ m # Null
          BY <2>1, <4>2
        <5>2. k # c
          BY <4>2, <5>1 DEF old
        <5> QED
          BY <1>1, <1>6, <5>1, <5>2
      <4> QED
        BY <1>1, <4>1, <4>2
    <3>2. ASSUME NEW k \in alive' \cap Holder, easycomm'[k] # Null PROVE easycomm'[k] \in coms'
      <4>1. CASE k = c
        BY <1>1, <1>6, <4>1
      <4>2. CASE k # c
        <5>1. easycomm'[k] = easycomm[k] /\ k \in alive
          BY <1>1, <1>6, <4>2
        <5>2. easycomm[k] \in coms
          BY <2>1, <3>2, <5>1
        <5> QED
          BY <1>1, <2>2, <3>2, <4>2, <5>1, <5>2
      <4> QED
        BY <4>1, <4>2
    <3> QED
      BY <3>1, <3>2
  <2> QED
    BY <2>3, <2>5, <2>6 DEF OneHolder
<1>10. Numbered'
  <2>1. \A x \in Maker : made'[x] <= opened' /\ made'[x] # Program
    BY <1>5, <1>7, Numbers, Apart DEF Inv, Numbered, TypeOK
  <2>2. \A x, y \in Maker : made'[x] = made'[y] => x = y \/ made'[x] = NoSocket
    BY <1>5, Apart DEF Inv, Numbered
  <2> QED
    BY <1>7, <2>1, <2>2 DEF Numbered
<1>11. Sharp'
  <2>1. connecting' \subseteq alive'
    BY <1>1 DEF Inv, Sharp
  <2>2. \A k \in Client : made'[k] # NoSocket <=> k \in connecting' /\ first'[k] # invalid
    BY <1>1, <1>2, <1>5, <1>6, Apart DEF Inv, Sharp, TypeOK
  <2>3. \A s \in Server : made'[s] # NoSocket <=> ss'[s] # invalid
    BY <1>1, <1>2, <1>5, Apart DEF Inv, Sharp, TypeOK
  <2>4. \A s \in Server : s \notin alive' => ss'[s] = invalid
    BY <1>1 DEF Inv, Sharp
  <2>5. \A m \in Com : (made'[m] # NoSocket <=> m \in coms') /\ (net'[m] # invalid <=> m \in coms')
    BY <1>1, <1>4, <1>5, Apart DEF Inv, Sharp
  <2> QED
    BY <2>1, <2>2, <2>3, <2>4, <2>5 DEF Sharp
<1>12. Stands'
  <2>1. \A x \in Maker \ {old} : \A e \in Fd : made[x] # NoSocket /\ table[e] = made[x] => e # d
    BY <1>3, Holds, Apart, Numbers
  <2>2. \A m \in Com : net'[m] # invalid => table'[net'[m]] = made'[m]
    <3> SUFFICES ASSUME NEW m \in Com, net'[m] # invalid PROVE table'[net'[m]] = made'[m]
      OBVIOUS
    <3>1. CASE m = n
      <4>1. first[c] # d
        BY <1>2, <1>4, <2>1, Apart DEF Inv, TypeOK
      <4> QED
        BY <1>4, <1>5, <1>7, <3>1, <4>1, Apart
    <3>2. CASE m # n
      <4>1. m # old /\ net'[m] = net[m] /\ made'[m] = made[m]
        BY <1>5, <3>2, Apart
      <4>2. m \in coms
        BY <4>1 DEF Inv, Sharp
      <4> QED
        BY <1>7, <2>1, <4>1, <4>2, Holds, Apart
    <3> QED
      BY <3>1, <3>2
  <2>3. \A s \in Server : ss'[s] # invalid => table'[ss'[s]] = made'[s]
    BY <1>1, <1>2, <1>5, <1>7, <2>1, Holds, Apart DEF Inv, TypeOK
  <2>4. \A k \in connecting' : first'[k] # invalid => table'[first'[k]] = made'[k]
    BY <1>1, <1>2, <1>5, <1>6, <1>7, <2>1, Holds, Apart DEF Inv, TypeOK
  <2> QED
    BY <1>7, <2>2, <2>3, <2>4 DEF Stands
<1> QED
  BY <1>7, <1>8, <1>9, <1>10, <1>11, <1>12 DEF Inv

\* Only pointers and places change when an object is moved.
LEMMA MoveKeeps ==
    ASSUME Inv, NEW h \in Holder, NEW from \in Holder, h \notin alive, from \in alive,
           h \notin connecting, from \notin connecting,
           alive' = alive \cup {h},
           easycomm' = [easycomm EXCEPT ![h] = easycomm[from], ![from] = Null],
           first' \in [Client -> Fd \cup {invalid}],
           \A c \in connecting : first'[c] = first[c],
           UNCHANGED <<table, opened, bound, listening, connecting, ss, coms, net, made>>
    PROVE  Inv'
<1>1. /\ easycomm'[h] = easycomm[from] /\ easycomm'[from] = Null /\ easycomm[h] = Null
      /\ \A k \in Holder \ {h, from} : easycomm'[k] = easycomm[k]
      /\ easycomm' \in [Holder -> Com \cup {Null}]
  BY DEF Inv, TypeOK, OneHolder
<1>2. TypeOK'
  BY <1>1 DEF Inv, TypeOK
<1>3. OneHolder'
  <2>1. coms = {easycomm[k] : k \in alive \cap Holder} \ {Null}
    BY DEF Inv, OneHolder
  <2>2. \A k \in Holder \ alive' : easycomm'[k] = Null
    BY <1>1 DEF Inv, OneHolder
  <2>3. \A k, l \in Holder : easycomm'[k] = easycomm'[l] => k = l \/ easycomm'[k] = Null
    BY <1>1 DEF Inv, OneHolder
  <2>4. coms' = {easycomm'[k] : k \in alive' \cap Holder} \ {Null}
    <3>1. ASSUME NEW m \in coms PROVE m \in {easycomm'[k] : k \in alive' \cap Holder} \ {Null}
      <4>1. PICK k \in alive \cap Holder : m = easycomm[k] /\ m # Null
        BY <2>1
      <4>2. CASE k = from
        BY <1>1, <4>1, <4>2
      <4>3. CASE k # from
        BY <1>1, <4>1, <4>3
      <4> QED
        BY <4>2, <4>3
    <3>2. ASSUME NEW k \in alive' \cap Holder, easycomm'[k] # Null PROVE easycomm'[k] \in coms
      BY <1>1, <2>1, <3>2
    <3>3. \A k \in alive' \cap Holder : easycomm'[k] \in coms \/ easycomm'[k] = Null
      BY <3>2
    <3>4. coms' = coms
      OBVIOUS
    <3>5. {easycomm'[k] : k \in alive' \cap Holder} \ {Null} \subseteq coms
      BY <3>3
    <3>6. coms \subseteq {easycomm'[k] : k \in alive' \cap Holder} \ {Null}
      BY <3>1
    <3> QED
      BY <3>4, <3>5, <3>6
  <2> QED
    BY <2>2, <2>3, <2>4 DEF OneHolder
<1>4. Sharp'
  BY Apart DEF Inv, Sharp
<1>5. Stands'
  BY DEF Inv, Stands
<1> QED
  BY <1>2, <1>3, <1>4, <1>5 DEF Inv, Numbered, Ports, Taken

LEMMA MoveClientKeeps ==
    ASSUME Inv, NEW c \in Client, NEW from \in Client, MoveClient(c, from) PROVE Inv'
<1>1. /\ c \in Holder /\ from \in Holder /\ c \notin alive /\ from \in alive
      /\ c \notin connecting /\ from \notin connecting
      /\ alive' = alive \cup {c}
      /\ easycomm' = [easycomm EXCEPT ![c] = easycomm[from], ![from] = Null]
      /\ first' = [first EXCEPT ![c] = first[from]]
      /\ UNCHANGED <<table, opened, bound, listening, connecting, ss, coms, net, made>>
  BY Apart DEF MoveClient, kernel, napcoms, Inv, Sharp
<1>2. /\ first' \in [Client -> Fd \cup {invalid}]
      /\ \A k \in connecting : first'[k] = first[k]
  BY <1>1 DEF Inv, TypeOK
<1> QED
  BY <1>1, <1>2, MoveKeeps

LEMMA MoveLinkKeeps ==
    ASSUME Inv, NEW l \in Link, NEW from \in Link, MoveLink(l, from) PROVE Inv'
<1>1. /\ l \in Holder /\ from \in Holder /\ l \notin alive /\ from \in alive
      /\ l \notin connecting /\ from \notin connecting
      /\ alive' = alive \cup {l}
      /\ easycomm' = [easycomm EXCEPT ![l] = easycomm[from], ![from] = Null]
      /\ UNCHANGED <<table, opened, bound, listening, first, connecting, ss, coms, net, made>>
  BY Apart DEF MoveLink, kernel, napcoms, Inv, TypeOK
<1>2. first' \in [Client -> Fd \cup {invalid}]
  BY <1>1 DEF Inv, TypeOK
<1> QED
  BY <1>1, <1>2, MoveKeeps

LEMMA NewServerKeeps ==
    ASSUME Inv, NEW s \in Server, NEW d \in Fd \cup {invalid}, NewServer(s, d) PROVE Inv'
<1>1. /\ s \notin alive /\ alive' = alive \cup {s} /\ ss' = [ss EXCEPT ![s] = d] /\ Opens(d)
      /\ made' = [made EXCEPT ![s] = IF d = invalid THEN NoSocket ELSE opened']
      /\ UNCHANGED <<bound, listening, easycomm, first, connecting, coms, net>>
  BY DEF NewServer, napcoms
<1>2. s \in Maker /\ ss[s] = invalid /\ made[s] = NoSocket
  BY <1>1, Apart DEF Inv, Sharp
<1>3. /\ ss'[s] = d /\ \A k \in Server \ {s} : ss'[k] = ss[k]
      /\ ss' \in [Server -> Fd \cup {invalid}]
  BY <1>1 DEF Inv, TypeOK
<1>4. OneHolder'
  <2>1. alive' \cap Holder = alive \cap Holder /\ Holder \ alive' = Holder \ alive
    BY <1>1, Apart
  <2> QED
    BY <1>1, <2>1 DEF Inv, OneHolder
<1>5. CASE d = invalid
  <2>1. UNCHANGED <<table, opened>> /\ made' = made /\ ss' = ss
    BY <1>1, <1>2, <1>5 DEF Opens, Inv, TypeOK
  <2>2. TypeOK'
    BY <1>1, <2>1 DEF Inv, TypeOK
  <2>3. Numbered' /\ Ports' /\ Stands'
    BY <1>1, <2>1 DEF Inv, Numbered, Ports, Taken, Stands
  <2>4. Sharp'
    BY <1>1, <1>2, <2>1 DEF Inv, Sharp
  <2> QED
    BY <1>4, <2>2, <2>3, <2>4 DEF Inv
<1>6. CASE d # invalid
  <2>1. d \in Fd /\ TypeOK /\ Numbered /\ table[0] = Program
    BY <1>6 DEF Inv, Stands
  <2>2. /\ opened' = opened + 1 /\ opened' \in 1..MaxSockets
        /\ table' \in [Fd -> NoSocket..MaxSockets]
        /\ table[d] = NoSocket /\ table'[d] = opened' /\ d # 0
        /\ \A e \in Fd \ {d} : table'[e] = table[e]
        /\ \A e \in Fd : table'[e] <= opened'
        /\ \A e, f \in Fd : table'[e] = table'[f] => e = f \/ table'[e] = NoSocket
        /\ \A x \in Maker : made[x] < opened'
    BY <1>1, <2>1, OpensKeeps
  <2>3. /\ made'[s] = opened' /\ \A x \in Maker \ {s} : made'[x] = made[x]
        /\ made' \in [Maker -> NoSocket..MaxSockets]
    BY <1>1, <1>2, <1>6, <2>2, Numbers DEF Inv, TypeOK
  <2>4. TypeOK'
    BY <1>1, <1>3, <2>2, <2>3, Numbers DEF Inv, TypeOK
  <2>5. Numbered'
    <3>1. \A x, y \in Maker : made'[x] = made'[y] => x = y \/ made'[x] = NoSocket
      BY <2>1, <2>2, <2>3 DEF Numbered
    <3>2. \A x \in Maker : made'[x] <= opened' /\ made'[x] # Program
      BY <2>1, <2>2, <2>3, Numbers DEF Numbered, TypeOK
    <3> QED
      BY <2>2, <3>1, <3>2 DEF Numbered
  <2>6. Sharp'
    BY <1>1, <1>2, <1>3, <1>6, <2>2, <2>3, Apart, Numbers DEF Inv, Sharp
  <2>7. Stands'
    <3>1. \A n \in Com : net'[n] # invalid => table'[net'[n]] = made'[n]
      BY <1>1, <2>2, <2>3, Holds, Apart DEF Inv, Sharp
    <3>2. \A k \in Server : ss'[k] # invalid => table'[ss'[k]] = made'[k]
      BY <1>1, <1>3, <2>2, <2>3, Holds, Apart
    <3>3. \A c \in connecting' : first'[c] # invalid => table'[first'[c]] = made'[c]
      BY <1>1, <2>2, <2>3, Holds, Apart DEF Inv, TypeOK
    <3> QED
      BY <2>1, <2>2, <3>1, <3>2, <3>3, Numbers DEF Stands
  <2>8. Ports'
    <3> SUFFICES ASSUME NEW k \in Taken'
                 PROVE  \E r \in Server : ss'[r] # invalid /\ table'[ss'[r]] = k
      BY DEF Ports
    <3>1. PICK r \in Server : ss[r] # invalid /\ table[ss[r]] = k
      BY <1>1 DEF Inv, Ports, Taken
    <3>2. r # s /\ ss[r] \in Fd /\ ss[r] # d
      BY <1>2, <2>2, <3>1, Holds
    <3> QED
      BY <1>3, <2>2, <3>1, <3>2
  <2> QED
    BY <1>4, <2>4, <2>5, <2>6, <2>7, <2>8 DEF Inv
<1> QED
  BY <1>5, <1>6

LEMMA BindListenKeeps ==
    ASSUME Inv, NEW s \in Server, Bind(s) \/ Listen(s) PROVE Inv'
<1>1. /\ ss[s] # invalid
      /\ UNCHANGED <<table, opened, alive, easycomm, first, connecting, ss, coms, net, made>>
      /\ \/ bound' = table[ss[s]] /\ UNCHANGED listening
         \/ listening' = listening \cup {table[ss[s]]} /\ UNCHANGED bound
  BY DEF Bind, Listen, napcoms
<1>2. /\ ss[s] \in Fd /\ table[ss[s]] = made[s] /\ made[s] # NoSocket
      /\ made[s] \in 1..MaxSockets
  BY <1>1, Holds, Apart, Numbers DEF Inv, Numbered
<1>3. TypeOK'
  <2>1. TypeOK /\ 1..MaxSockets \subseteq NoSocket..MaxSockets
    BY Numbers DEF Inv
  <2>2. bound' \in NoSocket..MaxSockets /\ listening' \subseteq 1..MaxSockets
    BY <1>1, <1>2, <2>1 DEF TypeOK
  <2> QED
    BY <1>1, <2>1, <2>2 DEF TypeOK
<1>4. Ports'
  <2>1. Taken' \subseteq Taken \cup {table[ss[s]]}
    BY <1>1 DEF Taken
  <2>2. table' = table /\ ss' = ss
    BY <1>1
  <2> QED
    BY <1>1, <2>1, <2>2 DEF Inv, Ports
<1>5. OneHolder' /\ Numbered' /\ Sharp' /\ Stands'
  BY <1>1 DEF Inv, OneHolder, Numbered, Sharp, Stands
<1> QED
  BY <1>3, <1>4, <1>5 DEF Inv

LEMMA AcceptFailsKeeps ==
    ASSUME Inv, NEW s \in Server, NEW l \in Link, AcceptFails(s, l) PROVE Inv'
<1>1. /\ l \notin alive /\ alive' = alive \cup {l} /\ easycomm' = [easycomm EXCEPT ![l] = Null]
      /\ UNCHANGED <<table, opened, bound, listening, first, connecting, ss, coms, net, made>>
  BY DEF AcceptFails, NoneYet, kernel, napcoms
<1>2. l \in Holder /\ easycomm[l] = Null
  BY <1>1, Apart DEF Inv, OneHolder
<1>3. easycomm' = easycomm
  BY <1>1, <1>2 DEF Inv, TypeOK
<1>4. TypeOK'
  BY <1>1, <1>2, <1>3 DEF Inv, TypeOK
<1>5. OneHolder'
  BY <1>1, <1>2, <1>3 DEF Inv, OneHolder
<1>6. Sharp'
  BY <1>1, Apart DEF Inv, Sharp
<1> QED
  BY <1>1, <1>4, <1>5, <1>6 DEF Inv, Numbered, Stands, Ports, Taken

LEMMA AcceptKeeps ==
    ASSUME Inv, NEW s \in Server, NEW l \in Link, NEW d \in Fd, NEW n \in Com,
           Accept(s, l, d, n)
    PROVE  Inv'
<1>1. /\ l \notin alive /\ Opens(d) /\ n \notin coms
      /\ coms' = coms \cup {n} /\ net' = [net EXCEPT ![n] = d]
      /\ made' = [made EXCEPT ![n] = opened'] /\ alive' = alive \cup {l}
      /\ easycomm' = [easycomm EXCEPT ![l] = n]
      /\ UNCHANGED <<bound, listening, first, connecting, ss>>
  BY DEF Accept
<1>2. l \in Holder /\ easycomm[l] = Null /\ n \in Maker /\ n # Null /\ made[n] = NoSocket
  BY <1>1, Apart DEF Inv, OneHolder, Sharp
<1>3. TypeOK /\ Numbered /\ table[0] = Program
  BY DEF Inv, Stands
<1>4. /\ opened' = opened + 1 /\ opened' \in 1..MaxSockets
      /\ table' \in [Fd -> NoSocket..MaxSockets]
      /\ table[d] = NoSocket /\ table'[d] = opened' /\ d # 0
      /\ \A e \in Fd \ {d} : table'[e] = table[e]
      /\ \A e \in Fd : table'[e] <= opened'
      /\ \A e, f \in Fd : table'[e] = table'[f] => e = f \/ table'[e] = NoSocket
      /\ \A x \in Maker : made[x] < opened'
  BY <1>1, <1>3, OpensKeeps
<1>5. /\ made'[n] = opened' /\ \A x \in Maker \ {n} : made'[x] = made[x]
      /\ made' \in [Maker -> NoSocket..MaxSockets]
      /\ net'[n] = d /\ \A m \in Com \ {n} : net'[m] = net[m]
      /\ net' \in [Com -> Fd \cup {invalid}]
  BY <1>1, <1>2, <1>4, Numbers DEF Inv, TypeOK
<1>6. /\ easycomm'[l] = n /\ \A k \in Holder \ {l} : easycomm'[k] = easycomm[k]
      /\ easycomm' \in [Holder -> Com \cup {Null}]
  BY <1>1, <1>2 DEF Inv, TypeOK
<1>7. TypeOK'
  BY <1>1, <1>2, <1>4, <1>5, <1>6, Numbers DEF Inv, TypeOK
<1>8. OneHolder'
  <2>1. coms = {easycomm[k] : k \in alive \cap Holder} \ {Null}
    BY DEF Inv, OneHolder
  <2>2. \A k \in Holder \ alive' : easycomm'[k] = Null
    BY <1>1, <1>6 DEF Inv, OneHolder
  <2>3. \A k \in Holder : easycomm[k] # n
    BY <1>1, <1>2, Holds
  <2>4. \A k, m \in Holder : easycomm'[k] = easycomm'[m] => k = m \/ easycomm'[k] = Null
    BY <1>6, <2>3 DEF Inv, OneHolder
  <2>5. coms' = {easycomm'[k] : k \in alive' \cap Holder} \ {Null}
    <3>1. ASSUME NEW m \in coms' PROVE m \in {easycomm'[k] : k \in alive' \cap Holder} \ {Null}
      <4>1. CASE m = n
        BY <1>1, <1>2, <1>6, <4>1
      <4>2. CASE m \in coms
        <5>1. PICK k \in alive \cap Holder : m = easycomm[k] /\ m # Null
          BY <2>1, <4>2
        <5> QED
          BY <1>1, <1>6, <5>1
      <4> QED
        BY <1>1, <4>1, <4>2
    <3>2. ASSUME NEW k \in alive' \cap Holder, easycomm'[k] # Null PROVE easycomm'[k] \in coms'
      BY <1>1, <1>6, <2>1, <3>2
    <3> QED
      BY <3>1, <3>2
  <2> QED
    BY <2>2, <2>4, <2>5 DEF OneHolder
<1>9. Numbered'
  <2>1. \A x, y \in Maker : made'[x] = made'[y] => x = y \/ made'[x] = NoSocket
    BY <1>3, <1>4, <1>5 DEF Numbered
  <2>2. \A x \in Maker : made'[x] <= opened' /\ made'[x] # Program
    BY <1>3, <1>4, <1>5, Numbers DEF Numbered, TypeOK
  <2> QED
    BY <1>4, <2>1, <2>2 DEF Numbered
<1>10. Sharp'
  BY <1>1, <1>2, <1>4, <1>5, Apart, Numbers DEF Inv, Sharp
<1>11. Stands'
  <2>1. \A m \in Com : net'[m] # invalid => table'[net'[m]] = made'[m]
    BY <1>1, <1>4, <1>5, Holds, Apart DEF Inv, Sharp
  <2>2. \A k \in Server : ss'[k] # invalid => table'[ss'[k]] = made'[k]
    BY <1>1, <1>4, <1>5, Holds, Apart
  <2>3. \A c \in connecting' : first'[c] # invalid => table'[first'[c]] = made'[c]
    BY <1>1, <1>4, <1>5, Holds, Apart DEF Inv, TypeOK
  <2> QED
    BY <1>3, <1>4, <2>1, <2>2, <2>3, Numbers DEF Stands
<1>12. Ports'
  BY <1>1, <1>4, Holds DEF Inv, Ports, Taken
<1> QED
  BY <1>7, <1>8, <1>9, <1>10, <1>11, <1>12 DEF Inv

LEMMA DestroyServerKeeps ==
    ASSUME Inv, NEW s \in Server, DestroyServer(s) PROVE Inv'
<1> DEFINE d == ss[s]
<1>1. /\ s \in alive /\ alive' = alive \ {s} /\ Forget(Closed(d))
      /\ ss' = [ss EXCEPT ![s] = invalid] /\ made' = [made EXCEPT ![s] = NoSocket]
      /\ UNCHANGED <<easycomm, first, connecting, coms, net>>
  BY DEF DestroyServer, napcoms
<1>2. /\ ss'[s] = invalid /\ \A k \in Server \ {s} : ss'[k] = ss[k]
      /\ ss' \in [Server -> Fd \cup {invalid}]
      /\ s \in Maker /\ made'[s] = NoSocket /\ \A x \in Maker \ {s} : made'[x] = made[x]
      /\ made' \in [Maker -> NoSocket..MaxSockets]
  BY <1>1, Apart, Numbers DEF Inv, TypeOK
<1>3. /\ d \in Fd \cup {invalid} /\ d # 0
      /\ d # invalid => made[s] # NoSocket /\ table[d] = made[s]
  BY Holds, Numbers DEF Inv, TypeOK
<1>4. d = ss[s]
  OBVIOUS
<1> HIDE DEF d
<1>5. /\ opened' = opened
      /\ table' \in [Fd -> NoSocket..MaxSockets]
      /\ bound' \in NoSocket..MaxSockets /\ listening' \subseteq 1..MaxSockets
      /\ table'[0] = Program
      /\ \A e \in Fd \ {d} : table'[e] = table[e]
      /\ \A e \in Fd : table'[e] <= opened'
      /\ \A e, f \in Fd : table'[e] = table'[f] => e = f \/ table'[e] = NoSocket
      /\ Ports'
  <2>1. TypeOK /\ Numbered /\ Ports /\ table[0] = Program
    BY DEF Inv, Stands
  <2>2. \A k \in Server : ss[k] # d => ss'[k] = ss[k]
    BY <1>2, <1>4
  <2> QED
    BY <1>1, <1>3, <2>1, <2>2, ForgetKeeps
<1>6. TypeOK'
  BY <1>1, <1>2, <1>5 DEF Inv, TypeOK
<1>7. OneHolder'
  <2>1. alive' \cap Holder = alive \cap Holder /\ Holder \ alive' = Holder \ alive
    BY <1>1, Apart
  <2> QED
    BY <1>1, <2>1 DEF Inv, OneHolder
<1>8. Numbered'
  <2>1. \A x \in Maker : made'[x] <= opened' /\ made'[x] # Program
    BY <1>2, <1>5, Numbers DEF Inv, Numbered, TypeOK
  <2>2. \A x, y \in Maker : made'[x] = made'[y] => x = y \/ made'[x] = NoSocket
    BY <1>2 DEF Inv, Numbered
  <2> QED
    BY <1>5, <2>1, <2>2 DEF Numbered
<1>9. Sharp'
  <2>1. connecting' \subseteq alive'
    BY <1>1, Apart DEF Inv, Sharp, TypeOK
  <2> QED
    BY <1>1, <1>2, <2>1, Apart DEF Inv, Sharp
<1>10. Stands'
  <2>1. \A x \in Maker \ {s} : \A e \in Fd : made[x] # NoSocket /\ table[e] = made[x] => e # d
    BY <1>2, <1>3, Holds, Numbers
  <2>2. \A m \in Com : net'[m] # invalid => table'[net'[m]] = made'[m]
    BY <1>1, <1>2, <1>5, <2>1, Holds, Apart DEF Inv, Sharp
  <2>3. \A k \in Server : ss'[k] # invalid => table'[ss'[k]] = made'[k]
    BY <1>2, <1>5, <2>1, Holds, Apart
  <2>4. \A c \in connecting' : first'[c] # invalid => table'[first'[c]] = made'[c]
    BY <1>1, <1>2, <1>5, <2>1, Holds, Apart DEF Inv, TypeOK
  <2> QED
    BY <1>5, <2>2, <2>3, <2>4 DEF Stands
<1> QED
  BY <1>5, <1>6, <1>7, <1>8, <1>9, <1>10 DEF Inv

-----------------------------------------------------------------------------
(* The invariants.                                                           *)

LEMMA Inductive == Inv /\ [Next]_vars => Inv'
<1> SUFFICES ASSUME Inv, [Next]_vars PROVE Inv'
  OBVIOUS
<1>1. ASSUME NEW c \in Client, ClientStep(c) PROVE Inv'
  <2>1. CASE NewClient(c)
    BY <2>1, NewClientKeeps
  <2>2. CASE Refused(c)
    BY <2>2, RefusedKeeps
  <2>3. CASE DestroyClient(c)
    BY <2>3, DestroyClientKeeps
  <2>4. CASE \E d \in Fd \cup {invalid} : Connect(c, d)
    BY <2>4, ConnectKeeps
  <2>5. CASE \E n \in Com : Connected(c, n)
    BY <2>5, ConnectedKeeps
  <2>6. CASE \E from \in Client : MoveClient(c, from)
    BY <2>6, MoveClientKeeps
  <2> QED
    BY <1>1, <2>1, <2>2, <2>3, <2>4, <2>5, <2>6 DEF ClientStep
<1>2. ASSUME NEW s \in Server, ServerStep(s) PROVE Inv'
  <2>1. CASE \E d \in Fd \cup {invalid} : NewServer(s, d)
    BY <2>1, NewServerKeeps
  <2>2. CASE Bind(s) \/ Listen(s)
    BY <2>2, BindListenKeeps
  <2>3. CASE DestroyServer(s)
    BY <2>3, DestroyServerKeeps
  <2>4. CASE \E l \in Link : AcceptFails(s, l)
    BY <2>4, AcceptFailsKeeps
  <2>5. CASE \E l \in Link, d \in Fd, n \in Com : Accept(s, l, d, n)
    BY <2>5, AcceptKeeps
  <2> QED
    BY <1>2, <2>1, <2>2, <2>3, <2>4, <2>5 DEF ServerStep
<1>3. ASSUME NEW l \in Link, LinkStep(l) PROVE Inv'
  <2>1. CASE DestroyLink(l)
    BY <2>1, DestroyLinkKeeps
  <2>2. CASE \E from \in Link : MoveLink(l, from)
    BY <2>2, MoveLinkKeeps
  <2> QED
    BY <1>3, <2>1, <2>2 DEF LinkStep
<1>4. CASE UNCHANGED vars
  BY <1>4 DEF vars, kernel, napcoms, Inv, TypeOK, OneHolder, Numbered, Sharp, Stands, Ports,
              Taken
<1> QED
  BY <1>1, <1>2, <1>3, <1>4 DEF Next

LEMMA Invariance == Spec => []Inv
<1> QED
  BY Initially, Inductive, PTL DEF Spec

(***************************************************************************)
(* Each napcom that is allocated belongs to exactly one object, none is    *)
(* deleted twice or leaked, and the port and the listeners belong to a     *)
(* server that exists: through moves, reconnects, failed accepts and       *)
(* destruction in any order (net.cpp:238-360).                             *)
(***************************************************************************)
THEOREM SocketsOwned == Spec => []Ownership
BY InvImplies, Invariance, PTL

(***************************************************************************)
(* A descriptor in use stands for the socket its holder took it for, never *)
(* for one that was given the number later, and nobody closes descriptor   *)
(* 0 (net.cpp:163-172, 259-280).                                           *)
(***************************************************************************)
THEOREM SocketsTrueDescriptor == Spec => []TrueDescriptor
BY InvImplies, Invariance, PTL

-----------------------------------------------------------------------------
(* What a step may do to the descriptors.                                    *)

\* The descriptors that an object has.
Held == {net[n] : n \in coms} \cup {ss[s] : s \in Server} \cup {first[c] : c \in connecting}

Open == {d \in Fd \ {0} : table[d] # NoSocket}

LEMMA LostIs == /\ Inv => Lost = Open \ Held
                /\ Inv' => Lost' = Open' \ Held'
<1>1. Inv => Lost = Open \ Held
  <2> SUFFICES ASSUME Inv, NEW d \in Open PROVE d \in Lost <=> d \notin Held
    BY DEF Lost, Open
  <2>1. d \in Fd \ {0} /\ table[d] # NoSocket /\ d # invalid
    BY Numbers DEF Open
  <2>2. (\E h \in Holder \cap alive : Descriptor(easycomm[h]) = d) <=> (\E n \in coms : net[n] = d)
    BY <2>1, Holds DEF Descriptor, Inv, OneHolder
  <2>3. (\E s \in Server \cap alive : ss[s] = d) <=> (\E s \in Server : ss[s] = d)
    BY <2>1 DEF Inv, Sharp
  <2> QED
    BY <2>1, <2>2, <2>3 DEF Lost, Held
<1>2. (Inv => Lost = Open \ Held)'
  BY <1>1, PTL
<1> QED
  BY <1>1, <1>2

\* A step loses nothing if what it opens, and what stays open, is held by
\* somebody afterwards.
LEMMA NothingLost ==
    ASSUME Inv, Inv',
           \A d \in Open' : d \notin Open \/ d \in Held => d \in Held'
    PROVE  Lost' \subseteq Lost
BY LostIs

\* The descriptor an operation opens is the only one that is new.
LEMMA OnlyOpened ==
    ASSUME Inv, NEW d \in Fd \cup {invalid}, Opens(d)
    PROVE  Open' \subseteq Open \cup {d}
<1>1. CASE d = invalid
  BY <1>1 DEF Opens, Open
<1>2. CASE d # invalid
  BY <1>2 DEF Opens, Open, Inv, TypeOK
<1> QED
  BY <1>1, <1>2

\* A close opens nothing.
LEMMA OnlyClosed ==
    ASSUME NEW d, Forget(Closed(d))
    PROVE  Open' \subseteq Open \ {d}
BY DEF Forget, Closed, Open

LEMMA DestroyLoses ==
    ASSUME Inv, Inv', NEW h \in Holder, h \notin connecting, Delete(easycomm[h]),
           \A c \in connecting : first'[c] = first[c],
           UNCHANGED <<connecting, ss>>
    PROVE  Lost' \subseteq Lost
<1> DEFINE n == easycomm[h]
           d == Descriptor(n)
<1>1. coms' = coms \ {n} /\ \A m \in Com : m # n => net'[m] = net[m]
  BY DEF Delete
<1>2. Open' \subseteq Open \ {d}
  BY OnlyClosed DEF Delete
<1>3. n \in coms => net[n] = d
  BY Apart DEF Descriptor, Inv, TypeOK
<1> HIDE DEF n, d
<1>4. ASSUME NEW e \in Open', e \in Held PROVE e \in Held'
  <2>1. e # d
    BY <1>2
  <2>2. CASE \E m \in coms : e = net[m]
    <3>1. PICK m \in coms : e = net[m]
      BY <2>2
    <3>2. m # n /\ m \in coms' /\ net'[m] = e
      BY <1>1, <1>3, <2>1, <3>1 DEF Inv, TypeOK
    <3> QED
      BY <3>2 DEF Held
  <2>3. CASE \E s \in Server : e = ss[s]
    BY <2>3 DEF Held
  <2>4. CASE \E c \in connecting : e = first[c]
    BY <2>4 DEF Held
  <2> QED
    BY <1>4, <2>2, <2>3, <2>4 DEF Held
<1> QED
  BY <1>2, <1>4, NothingLost

LEMMA ConnectedLoses ==
    ASSUME Inv, Inv', NEW c \in Client, NEW n \in Com, Connected(c, n)
    PROVE  Lost' \subseteq Lost
<1> DEFINE old == easycomm[c]
           d == Descriptor(old)
<1>1. /\ c \in connecting /\ connecting' = connecting \ {c}
      /\ n \notin coms \ {old} /\ coms' = (coms \ {old}) \cup {n} /\ Forget(Closed(d))
      /\ net' = [m \in Com |-> IF m = n THEN first[c] ELSE IF m = old THEN invalid ELSE net[m]]
      /\ first' = [first EXCEPT ![c] = 0] /\ ss' = ss
  BY DEF Connected
<1>2. Open' \subseteq Open \ {d}
  BY <1>1, OnlyClosed
<1>3. old \in coms => net[old] = d
  BY Apart DEF Descriptor, Inv, TypeOK
<1>4. \A k \in connecting \ {c} : first'[k] = first[k]
  BY <1>1 DEF Inv, TypeOK
<1> HIDE DEF old, d
<1>5. ASSUME NEW e \in Open', e \in Held PROVE e \in Held'
  <2>1. e # d
    BY <1>2
  <2>2. CASE \E m \in coms : e = net[m]
    <3>1. PICK m \in coms : e = net[m]
      BY <2>2
    <3>2. m # old /\ m # n /\ m \in coms' /\ net'[m] = e
      BY <1>1, <1>3, <2>1, <3>1 DEF Inv, TypeOK
    <3> QED
      BY <3>2 DEF Held
  <2>3. CASE \E s \in Server : e = ss[s]
    BY <1>1, <2>3 DEF Held
  <2>4. CASE \E k \in connecting : e = first[k]
    <3>1. CASE e = first[c]
      <4>1. n \in coms' /\ net'[n] = e
        BY <1>1, <3>1
      <4> QED
        BY <4>1 DEF Held
    <3>2. CASE \E k \in connecting \ {c} : e = first[k]
      BY <1>1, <1>4, <3>2 DEF Held
    <3> QED
      BY <2>4, <3>1, <3>2
  <2> QED
    BY <1>5, <2>2, <2>3, <2>4 DEF Held
<1> QED
  BY <1>2, <1>5, NothingLost

\* A connect that fails leaves behind what it had opened, and nothing else.
LEMMA RefusedLoses ==
    ASSUME Inv, Inv', NEW c \in Client, Refused(c)
    PROVE  \A d \in Lost' \ Lost : d = first[c] /\ Lost' = Lost \cup {d}
<1>1. /\ c \in connecting /\ connecting' = connecting \ {c}
      /\ UNCHANGED <<table, first, ss, coms, net>>
  BY DEF Refused, kernel, napcoms
<1>2. Open' = Open /\ Held' \subseteq Held /\ Held \subseteq Held' \cup {first[c]}
  BY <1>1 DEF Open, Held
<1>3. Lost = Open \ Held /\ Lost' = Open' \ Held'
  BY LostIs
<1> QED
  BY <1>2, <1>3

LEMMA ServerLoses ==
    ASSUME Inv, Inv', NEW s \in Server, ServerStep(s) PROVE Lost' \subseteq Lost
<1>1. ASSUME NEW d \in Fd \cup {invalid}, NewServer(s, d) PROVE Lost' \subseteq Lost
  <2>1. /\ s \notin alive /\ ss' = [ss EXCEPT ![s] = d] /\ Opens(d)
        /\ UNCHANGED <<first, connecting, coms, net>>
    BY <1>1 DEF NewServer, napcoms
  <2>2. /\ ss[s] = invalid /\ ss'[s] = d /\ \A k \in Server \ {s} : ss'[k] = ss[k]
    BY <2>1 DEF Inv, Sharp, TypeOK
  <2>3. Open' \subseteq Open \cup {d} /\ d \in Held'
    BY <2>1, <2>2, OnlyOpened DEF Held
  <2>4. \A e \in Fd : e \in Held => e \in Held'
    BY <2>1, <2>2, Numbers DEF Held
  <2>5. Open' \subseteq Fd
    BY DEF Open
  <2> QED
    BY <2>3, <2>4, <2>5, NothingLost
<1>2. CASE Bind(s) \/ Listen(s)
  <2>1. Open' = Open /\ Held' = Held
    BY <1>2 DEF Bind, Listen, napcoms, Open, Held
  <2> QED
    BY <2>1, NothingLost
<1>3. CASE DestroyServer(s)
  <2>1. /\ Forget(Closed(ss[s])) /\ ss' = [ss EXCEPT ![s] = invalid]
        /\ UNCHANGED <<first, connecting, coms, net>>
    BY <1>3 DEF DestroyServer, napcoms
  <2>2. Open' \subseteq Open \ {ss[s]}
    BY <2>1, OnlyClosed
  <2>3. \A k \in Server \ {s} : ss'[k] = ss[k]
    BY <2>1 DEF Inv, TypeOK
  <2>4. \A e \in Open' : e \in Held => e \in Held'
    BY <2>1, <2>2, <2>3 DEF Held
  <2> QED
    BY <2>2, <2>4, NothingLost
<1>4. ASSUME NEW l \in Link, AcceptFails(s, l) PROVE Lost' \subseteq Lost
  <2>1. Open' = Open /\ Held' = Held
    BY <1>4 DEF AcceptFails, kernel, napcoms, Open, Held
  <2> QED
    BY <2>1, NothingLost
<1>5. ASSUME NEW l \in Link, NEW d \in Fd, NEW n \in Com, Accept(s, l, d, n)
      PROVE  Lost' \subseteq Lost
  <2>1. /\ Opens(d) /\ n \notin coms /\ coms' = coms \cup {n} /\ net' = [net EXCEPT ![n] = d]
        /\ UNCHANGED <<first, connecting, ss>>
    BY <1>5 DEF Accept
  <2>2. net'[n] = d /\ \A m \in coms : net'[m] = net[m]
    BY <2>1 DEF Inv, TypeOK
  <2>3. Open' \subseteq Open \cup {d} /\ d \in Held' /\ Held \subseteq Held'
    BY <2>1, <2>2, OnlyOpened DEF Held
  <2> QED
    BY <2>3, NothingLost
<1> QED
  BY <1>1, <1>2, <1>3, <1>4, <1>5 DEF ServerStep

LEMMA ClientLoses ==
    ASSUME Inv, Inv', NEW c \in Client, ClientStep(c), ~Refused(c) PROVE Lost' \subseteq Lost
<1>1. CASE NewClient(c)
  <2>1. /\ c \notin alive /\ first' = [first EXCEPT ![c] = 0]
        /\ UNCHANGED <<table, connecting, ss, coms, net>>
    BY <1>1 DEF NewClient, kernel, napcoms
  <2>2. \A k \in connecting : first'[k] = first[k]
    BY <2>1 DEF Inv, TypeOK, Sharp
  <2>3. Open' = Open /\ Held' = Held
    BY <2>1, <2>2 DEF Open, Held
  <2> QED
    BY <2>3, NothingLost
<1>2. CASE DestroyClient(c)
  <2>1. /\ c \in Holder /\ c \notin connecting /\ Delete(easycomm[c])
        /\ first' = [first EXCEPT ![c] = 0] /\ UNCHANGED <<connecting, ss>>
    BY <1>2, Apart DEF DestroyClient
  <2>2. \A k \in connecting : first'[k] = first[k]
    BY <2>1 DEF Inv, TypeOK
  <2> QED
    BY <2>1, <2>2, DestroyLoses
<1>3. ASSUME NEW d \in Fd \cup {invalid}, Connect(c, d) PROVE Lost' \subseteq Lost
  <2>1. /\ c \notin connecting /\ connecting' = connecting \cup {c}
        /\ first' = [first EXCEPT ![c] = d] /\ Opens(d)
        /\ UNCHANGED <<ss, coms, net>>
    BY <1>3 DEF Connect, napcoms
  <2>2. first'[c] = d /\ \A k \in connecting : first'[k] = first[k]
    BY <2>1 DEF Inv, TypeOK
  <2>3. Open' \subseteq Open \cup {d} /\ d \in Held' /\ Held \subseteq Held'
    BY <2>1, <2>2, OnlyOpened DEF Held
  <2> QED
    BY <2>3, NothingLost
<1>4. ASSUME NEW n \in Com, Connected(c, n) PROVE Lost' \subseteq Lost
  BY <1>4, ConnectedLoses
<1>5. ASSUME NEW from \in Client, MoveClient(c, from) PROVE Lost' \subseteq Lost
  <2>1. /\ c \notin alive /\ first' = [first EXCEPT ![c] = first[from]]
        /\ UNCHANGED <<table, connecting, ss, coms, net>>
    BY <1>5 DEF MoveClient, kernel, napcoms
  <2>2. \A k \in connecting : first'[k] = first[k]
    BY <2>1 DEF Inv, TypeOK, Sharp
  <2>3. Open' = Open /\ Held' = Held
    BY <2>1, <2>2 DEF Open, Held
  <2> QED
    BY <2>3, NothingLost
<1> QED
  BY <1>1, <1>2, <1>3, <1>4, <1>5 DEF ClientStep

LEMMA LinkLoses ==
    ASSUME Inv, Inv', NEW l \in Link, LinkStep(l) PROVE Lost' \subseteq Lost
<1>1. CASE DestroyLink(l)
  <2>1. /\ l \in Holder /\ l \notin connecting /\ Delete(easycomm[l])
        /\ UNCHANGED <<first, connecting, ss>>
    BY <1>1, Apart DEF DestroyLink, Inv, TypeOK
  <2> QED
    BY <2>1, DestroyLoses
<1>2. ASSUME NEW from \in Link, MoveLink(l, from) PROVE Lost' \subseteq Lost
  <2>1. Open' = Open /\ Held' = Held
    BY <1>2 DEF MoveLink, kernel, napcoms, Open, Held
  <2> QED
    BY <2>1, NothingLost
<1> QED
  BY <1>1, <1>2 DEF LinkStep

(***************************************************************************)
(* The only descriptor that is ever lost is the one that a refused connect *)
(* has just made, and it is lost alone (net.cpp:259-269).                  *)
(***************************************************************************)
THEOREM SocketsLoseOnlyRefused == Spec => LostOnlyWhenRefused
<1> DEFINE A == \A d \in Fd : d \in Lost' \ Lost =>
                   \E c \in connecting \ connecting' :
                      d = first[c] /\ Lost' = Lost \cup {d} /\ easycomm' = easycomm
<1>1. Inv /\ Inv' /\ [Next]_vars => [A]_vars
  <2> SUFFICES ASSUME Inv, Inv', Next PROVE A
    OBVIOUS
  <2>1. CASE Lost' \subseteq Lost
    BY <2>1
  <2>2. ASSUME NEW c \in Client, Refused(c) PROVE A
    <3>1. c \in connecting \ connecting' /\ easycomm' = easycomm
      BY <2>2 DEF Refused
    <3>2. \A d \in Lost' \ Lost : d = first[c] /\ Lost' = Lost \cup {d}
      BY <2>2, RefusedLoses
    <3> QED
      BY <3>1, <3>2
  <2> HIDE DEF A
  <2> QED
    BY <2>1, <2>2, ClientLoses, ServerLoses, LinkLoses DEF Next
<1> QED
  BY <1>1, Inductive, Invariance, PTL DEF Spec, LostOnlyWhenRefused

-----------------------------------------------------------------------------
(* What a step may do to a napcom.                                           *)

Lasts(n) == n \in coms' /\ net'[n] = net[n] /\ made'[n] = made[n]

Dies(n) ==
    \E h \in Holder : /\ easycomm[h] = n
                      /\ h \notin alive' \/ (h \in connecting /\ made'[easycomm'[h]] # made[n])

\* The end of an object ends its napcom.
LEMMA DeleteDies ==
    ASSUME Inv, NEW h \in Holder, Delete(easycomm[h]), alive' = alive \ {h}, NEW n \in coms
    PROVE  Lasts(n) \/ Dies(n)
<1>1. n \in Com /\ n \in Maker
  BY Holds, Apart
<1>2. CASE n = easycomm[h]
  BY <1>2 DEF Dies
<1>3. CASE n # easycomm[h]
  BY <1>1, <1>3 DEF Delete, Lasts
<1> QED
  BY <1>2, <1>3

LEMMA ClientSpares ==
    ASSUME Inv, NEW c \in Client, ClientStep(c), NEW n \in coms PROVE Lasts(n) \/ Dies(n)
<1>1. n \in Com /\ n \in Maker /\ n # c /\ c \in Holder
  BY Holds, Apart
<1>2. CASE NewClient(c) \/ Refused(c) \/ \E from \in Client : MoveClient(c, from)
  BY <1>1, <1>2 DEF NewClient, Refused, MoveClient, napcoms, Lasts, Inv, TypeOK
<1>3. ASSUME NEW d \in Fd \cup {invalid}, Connect(c, d) PROVE Lasts(n)
  BY <1>1, <1>3 DEF Connect, napcoms, Lasts, Inv, TypeOK
<1>4. CASE DestroyClient(c)
  BY <1>1, <1>4, DeleteDies DEF DestroyClient
<1>5. ASSUME NEW m \in Com, Connected(c, m) PROVE Lasts(n) \/ Dies(n)
  <2>1. /\ c \in connecting /\ first[c] # invalid
        /\ m \notin coms \ {easycomm[c]} /\ coms' = (coms \ {easycomm[c]}) \cup {m}
        /\ net' = [k \in Com |-> IF k = m THEN first[c]
                                 ELSE IF k = easycomm[c] THEN invalid ELSE net[k]]
        /\ made' = [x \in Maker |-> IF x = m THEN made[c]
                                    ELSE IF x \in {c, easycomm[c]} THEN NoSocket ELSE made[x]]
        /\ easycomm' = [easycomm EXCEPT ![c] = m]
    BY <1>5 DEF Connected
  <2>2. CASE n = easycomm[c]
    <3>1. easycomm'[c] = m /\ m \in Maker
      BY <1>1, <2>1, Apart DEF Inv, TypeOK
    <3>2. made'[m] = made[c] /\ made[c] # NoSocket
      BY <2>1, <3>1, Holds
    <3>3. made[c] # made[n]
      BY <1>1, <3>2, Holds, Apart
    <3> QED
      BY <1>1, <2>1, <2>2, <3>1, <3>2, <3>3 DEF Dies
  <2>3. CASE n # easycomm[c]
    BY <1>1, <2>1, <2>3 DEF Lasts
  <2> QED
    BY <2>2, <2>3
<1> QED
  BY <1>2, <1>3, <1>4, <1>5 DEF ClientStep

LEMMA ServerSpares ==
    ASSUME Inv, NEW s \in Server, ServerStep(s), NEW n \in coms PROVE Lasts(n)
<1>1. n \in Com /\ n \in Maker /\ n # s
  BY Holds, Apart
<1>2. CASE Bind(s) \/ Listen(s) \/ \E l \in Link : AcceptFails(s, l)
  BY <1>2 DEF Bind, Listen, AcceptFails, napcoms, Lasts
<1>3. ASSUME NEW d \in Fd \cup {invalid}, NewServer(s, d) PROVE Lasts(n)
  BY <1>1, <1>3 DEF NewServer, napcoms, Lasts, Inv, TypeOK
<1>4. CASE DestroyServer(s)
  BY <1>1, <1>4 DEF DestroyServer, napcoms, Lasts, Inv, TypeOK
<1>5. ASSUME NEW l \in Link, NEW d \in Fd, NEW m \in Com, Accept(s, l, d, m) PROVE Lasts(n)
  BY <1>1, <1>5 DEF Accept, Lasts, Inv, TypeOK
<1> QED
  BY <1>2, <1>3, <1>4, <1>5 DEF ServerStep

LEMMA LinkSpares ==
    ASSUME Inv, NEW l \in Link, LinkStep(l), NEW n \in coms PROVE Lasts(n) \/ Dies(n)
<1>1. l \in Holder
  BY Apart
<1>2. CASE DestroyLink(l)
  BY <1>1, <1>2, DeleteDies DEF DestroyLink
<1>3. ASSUME NEW from \in Link, MoveLink(l, from) PROVE Lasts(n)
  BY <1>3 DEF MoveLink, napcoms, Lasts
<1> QED
  BY <1>2, <1>3 DEF LinkStep

(***************************************************************************)
(* The pointer that communicate() gave out is good until the object that   *)
(* gave it is destroyed or has a new connection, and a reconnect that      *)
(* fails leaves it alone (net.cpp:246-279, 322-335).                       *)
(***************************************************************************)
THEOREM SocketsSpareNapcoms == Spec => DiesWithItsHolder
<1> DEFINE A == \A n \in coms :
                  \/ n \in coms' /\ net'[n] = net[n] /\ made'[n] = made[n]
                  \/ \E h \in Holder : /\ easycomm[h] = n
                                       /\ \/ h \notin alive'
                                          \/ h \in connecting /\ made'[easycomm'[h]] # made[n]
<1>1. Inv /\ [Next]_vars => [A]_vars
  <2> SUFFICES ASSUME Inv, Next PROVE A
    OBVIOUS
  <2>1. \A n \in coms : Lasts(n) \/ Dies(n)
    BY ClientSpares, ServerSpares, LinkSpares DEF Next
  <2> QED
    BY <2>1 DEF Lasts, Dies
<1> QED
  BY <1>1, Invariance, PTL DEF Spec, DiesWithItsHolder
=============================================================================
