------------------------------ MODULE AesStream ------------------------------
(***************************************************************************)
(* The AES streaming classes (src/src/aes.h:313-567, src/src/aes.cpp:447-  *)
(* 879): AesBuffer cuts what add() is given into blocks, the classes of    *)
(* each mode transform them, end() pads, returns the result and resets.    *)
(* An encrypting and a decrypting object, made with the same key and IV,   *)
(* are driven in every way: texts cut anywhere, resets at any time.        *)
(*                                                                         *)
(* The block cipher is an arbitrary permutation of blocks, and GHASH is    *)
(* represented by the sequence of blocks it has absorbed.  The code has    *)
(* BlockSize = 16, IvSize = 12 and ByteBase = 256.                         *)
(***************************************************************************)
EXTENDS Integers, Sequences

CONSTANTS
    BlockSize,      \* bytes of a block
    IvSize,         \* bytes of a GCM IV, the rest of its block is a counter
    ByteBase,       \* values of a byte
    Encrypt,        \* the block cipher under the key of both objects
    XorByte,            \* exclusive or of two bytes, a table
    InitialIV,      \* the IV both objects are made with, a block
    OtherIV,        \* an IV given to setIV or setCounter
    Modes, Paddings,    \* the modes and padding types explored
    Texts,          \* texts encrypted, with everything they start with
    RandomBytes,    \* bound: what random() gives ISO10126 padding
    MaxEnds         \* bound: messages ended per object

Byte == 0..(ByteBase - 1)
Block == [1..BlockSize -> Byte]
Objects == {"enc", "dec"}

ASSUME CipherAssumption ==
    /\ BlockSize \in Nat /\ IvSize \in 1..(BlockSize - 1)
    /\ ByteBase \in Nat /\ ByteBase > 2 * BlockSize
    /\ Encrypt \in [Block -> Block]
    /\ \A c \in Block : \E p \in Block : Encrypt[p] = c
    /\ \A p, q \in Block : Encrypt[p] = Encrypt[q] => p = q
ASSUME XorAssumption ==
    /\ XorByte \in [Byte \X Byte -> Byte]
    /\ \A a, b \in Byte : /\ XorByte[<<XorByte[<<a, b>>], b>>] = a
                          /\ XorByte[<<a, b>>] = XorByte[<<b, a>>]
ASSUME InputsAssumption ==
    /\ {InitialIV, OtherIV} \subseteq Block
    /\ Modes \subseteq {"ECB", "CBC", "CTR", "GCM"}
    /\ Paddings \subseteq {"PKCS7", "ISO10126", "Zeros", "None"}
    /\ Texts \subseteq Seq(Byte)
    /\ RandomBytes \subseteq Byte /\ MaxEnds \in Nat

VARIABLES
    mode, padding,  \* chosen when the objects are made
    obj,        \* per object: its fields, see TypeOK
    fed,        \* per object: the bytes added since the last end or reset
    begin,      \* per object: the IV in use when these began
    aligned,    \* no add has found bytes in the buffer of the decrypting one
    moved,      \* per object: setIV or setCounter was called since then
    ended       \* per object: the messages ended, and what end() returned

vars == <<mode, padding, obj, fed, begin, aligned, moved, ended>>

\* A byte of a result that was made longer and never written.
Unset == -1
Zeros(n) == [i \in 1..n |-> 0]
Iv == Block \cup [1..IvSize -> Byte]
Tags == [absorbed : Seq(Block), size : Nat, mask : Block]
\* What stands for a tag in the modes that have none.
NoTag == [absorbed |-> <<>>, size |-> 0, mask |-> Zeros(BlockSize)]

\* The type of everything; in particular the buffer never holds a whole
\* block between two calls (the bounds of the memcpys of aes.h:532-553).
TypeOK ==
    /\ mode \in Modes /\ padding \in Paddings \cup {"None"}
    /\ aligned \in BOOLEAN
    /\ \A o \in Objects :
        /\ obj[o].buffer \in Seq(Byte) /\ Len(obj[o].buffer) < BlockSize
        /\ obj[o].result \in Seq(Byte)
        /\ obj[o].iv \in Iv /\ obj[o].original \in Iv
        /\ obj[o].j0 \in Block /\ obj[o].absorbed \in Seq(Block)
        /\ fed[o] \in Seq(Byte) /\ begin[o] \in Iv
        /\ moved[o] \in BOOLEAN
        /\ \A k \in DOMAIN ended[o] :
            /\ ended[o][k].out \in Seq(Byte \cup {Unset})
            /\ ended[o][k].tag \in Tags

-----------------------------------------------------------------------------
(* Blocks and counters *)

XorBlock(a, b) == [i \in 1..BlockSize |-> XorByte[<<a[i], b[i]>>]]

Decrypt == [c \in Block |-> CHOOSE p \in Block : Encrypt[p] = c]

\* The whole blocks at the front of data, and the bytes behind them.
WholeLen(data) == Len(data) - (Len(data) % BlockSize)
Blocks(data) ==
    [i \in 1..(Len(data) \div BlockSize) |->
        SubSeq(data, (i - 1) * BlockSize + 1, i * BlockSize)]
Rest(data) == SubSeq(data, WholeLen(data) + 1, Len(data))

\* Add one to a big-endian number, wrapping around.
Increment(iv) ==
    [i \in DOMAIN iv |->
        IF \A j \in (i + 1)..Len(iv) : iv[j] = ByteBase - 1
        THEN (iv[i] + 1) % ByteBase
        ELSE iv[i]]

Inc32(j) ==
    SubSeq(j, 1, IvSize) \o Increment(SubSeq(j, IvSize + 1, BlockSize))

\* J0 of an IV: the IV and a counter of 1, which is kept for the tag.
J0Begin(iv) == [iv \o Zeros(BlockSize - IvSize) EXCEPT ![BlockSize] = 1]

-----------------------------------------------------------------------------
(* handle(): one block.  inplace says that out and buf are the same memory. *)

EcbBlock(o, s, b) ==
    [s EXCEPT !.result = @ \o (IF o = "enc" THEN Encrypt[b] ELSE Decrypt[b])]

\* Fault: the chaining value is not kept for the next call.
CbcEncryptUnchained(s, b) ==
    [s EXCEPT !.result = @ \o Encrypt[XorBlock(b, s.iv)]]

CbcEncrypt(s, b) ==
    LET c == Encrypt[XorBlock(b, s.iv)]
    IN  [s EXCEPT !.result = @ \o c, !.iv = c]

\* The next block is chained to buf, read after out has been written.
CbcDecrypt(s, b, inplace) ==
    LET p == XorBlock(Decrypt[b], s.iv)
    IN  [s EXCEPT !.result = @ \o p, !.iv = IF inplace THEN p ELSE b]

CtrBlock(s, b) ==
    [s EXCEPT !.result = @ \o XorBlock(b, Encrypt[s.iv]), !.iv = Increment(@)]

\* Fault: the decrypting object hashes what it has decrypted.
GcmBlockHashesOutput(o, s, b) ==
    LET y == XorBlock(Encrypt[s.j0], b)
    IN  [s EXCEPT !.result = @ \o y, !.j0 = Inc32(@),
                  !.absorbed = Append(@, y)]

GcmBlock(o, s, b) ==
    LET y == XorBlock(Encrypt[s.j0], b)
    IN  [s EXCEPT !.result = @ \o y, !.j0 = Inc32(@),
                  !.absorbed = Append(@, IF o = "enc" THEN y ELSE b)]

HandleBlock(o, s, b, inplace) ==
    CASE mode = "ECB" -> EcbBlock(o, s, b)
      [] mode = "CBC" -> IF o = "enc" THEN CbcEncrypt(s, b)
                         ELSE CbcDecrypt(s, b, inplace)
      [] mode = "CTR" -> CtrBlock(s, b)
      [] mode = "GCM" -> GcmBlock(o, s, b)

\* One block after the other.
Handle(o, s, data, inplace) ==
    LET blocks == Blocks(data)
        done[n \in 0..Len(blocks)] ==
            IF n = 0 THEN s
            ELSE HandleBlock(o, done[n - 1], blocks[n], inplace)
    IN  done[Len(blocks)]

-----------------------------------------------------------------------------
(* AesBuffer::add *)

\* With nothing in the buffer: whole blocks go from data to the result.
AddToEmpty(o, s, data) ==
    [Handle(o, s, data, FALSE) EXCEPT !.buffer = Rest(data)]

\* Fault: a block that is just complete is left in the buffer.
AddLeavesWholeBlock(o, s, data) ==
    LET rent == BlockSize - Len(s.buffer)
    IN  CASE s.buffer = <<>>       -> AddToEmpty(o, s, data)
          [] Len(data) <= rent     -> [s EXCEPT !.buffer = @ \o data]
          [] OTHER ->
             AddToEmpty(o,
                 Handle(o, [s EXCEPT !.buffer = <<>>],
                        s.buffer \o SubSeq(data, 1, rent), TRUE),
                 SubSeq(data, rent + 1, Len(data)))

\* Otherwise the buffer is filled, and a full one handled where it is.
Add(o, s, data) ==
    LET rent == BlockSize - Len(s.buffer)
    IN  CASE s.buffer = <<>>  -> AddToEmpty(o, s, data)
          [] s.buffer # <<>> /\ Len(data) < rent ->
             [s EXCEPT !.buffer = @ \o data]
          [] OTHER ->
             AddToEmpty(o,
                 Handle(o, [s EXCEPT !.buffer = <<>>],
                        s.buffer \o SubSeq(data, 1, rent), TRUE),
                 SubSeq(data, rent + 1, Len(data)))

-----------------------------------------------------------------------------
(* Padding *)

\* What addPadding may put behind len bytes of a block.
Fills(len) ==
    LET fill == BlockSize - len
    IN  CASE padding = "None"     -> {<<>>}
          [] padding = "PKCS7"    -> {[i \in 1..fill |-> fill]}
          [] padding = "ISO10126" ->
             {Append(r, fill) : r \in [1..(fill - 1) -> RandomBytes]}
          [] padding = "Zeros"    -> {Zeros(fill)}

\* A byte read as a char, which is signed where the library is built.
Char(b) == IF 2 * b < ByteBase THEN b ELSE b - ByteBase

\* How many bytes removePadding says to remove, from the last byte alone.
RemovePadding(last) ==
    CASE padding \in {"None", "Zeros"} -> 0
      [] OTHER -> IF Char(last) > BlockSize THEN -1 ELSE Char(last)

\* btring::resize: cut, or made longer by bytes that are not written.
Resize(str, len) ==
    [i \in 1..len |-> IF i <= Len(str) THEN str[i] ELSE Unset]

-----------------------------------------------------------------------------
(* endinput() of each mode: the object and what end() returns *)

EndPadded(s, fill) ==
    LET t == Add("enc", s, fill)
    IN  [obj |-> t, out |-> t.result, tag |-> NoTag]

EndUnpadded(s) ==
    LET len == Len(s.result)
        pad == IF padding \in {"None", "Zeros"} THEN 0
               ELSE RemovePadding(s.result[len])
    IN  [obj |-> s, out |-> Resize(s.result, len - pad), tag |-> NoTag]

\* Fault: the counter is not kept for the next message.
EndCtrForgets(o, s) ==
    LET left == Len(s.buffer)
        t == IF left = 0 THEN s ELSE Add(o, s, Zeros(BlockSize - left))
    IN  [obj |-> t,
         out |-> SubSeq(t.result, 1, Len(s.result) + left), tag |-> NoTag]

\* The buffer is filled up with whatever it holds, and the excess cut off.
EndCtr(o, s) ==
    LET left == Len(s.buffer)
        t == IF left = 0 THEN s ELSE Add(o, s, Zeros(BlockSize - left))
    IN  [obj |-> [t EXCEPT !.original = t.iv],
         out |-> SubSeq(t.result, 1, Len(s.result) + left), tag |-> NoTag]

\* The last bytes are hashed as ciphertext and padded with zeros for it.
EndGcm(o, s) ==
    LET left == Len(s.buffer)
        in   == s.buffer \o Zeros(BlockSize - left)
        y    == XorBlock(Encrypt[s.j0], in)
        last == SubSeq(y, 1, left)
        out  == IF left = 0 THEN s.result ELSE s.result \o last
        hash == IF o = "enc" THEN last \o Zeros(BlockSize - left) ELSE in
    IN  [obj |-> [s EXCEPT !.original = Increment(@)],
         out |-> out,
         tag |-> [absorbed |-> IF left = 0 THEN s.absorbed
                               ELSE Append(s.absorbed, hash),
                  size |-> Len(out), mask |-> Encrypt[J0Begin(s.iv)]]]

\* What end() may do, one outcome for each padding.
EndInput(o, s) ==
    CASE mode = "CTR" -> {EndCtr(o, s)}
      [] mode = "GCM" -> {EndGcm(o, s)}
      [] mode \in {"ECB", "CBC"} /\ o = "enc" ->
         {EndPadded(s, fill) : fill \in Fills(Len(s.buffer))}
      [] mode \in {"ECB", "CBC"} /\ o = "dec" -> {EndUnpadded(s)}

\* AesBuffer::reset with the resetdata of the mode.
ResetObj(s) ==
    [s EXCEPT !.buffer = <<>>, !.result = <<>>, !.absorbed = <<>>,
              !.iv = s.original,
              !.j0 = IF mode = "GCM" THEN Inc32(J0Begin(s.original)) ELSE @]

-----------------------------------------------------------------------------
(* The objects and their user *)

Init ==
    /\ mode \in Modes
    /\ padding \in IF mode \in {"CTR", "GCM"} THEN {"None"} ELSE Paddings
    /\ LET iv == IF mode = "GCM" THEN SubSeq(InitialIV, 1, IvSize)
                 ELSE InitialIV
       IN  /\ obj = [o \in Objects |->
                    ResetObj([buffer |-> <<>>, result |-> <<>>, iv |-> iv,
                              original |-> iv, j0 |-> Zeros(BlockSize),
                              absorbed |-> <<>>])]
           /\ begin = [o \in Objects |-> iv]
    /\ fed = [o \in Objects |-> <<>>]
    /\ aligned = TRUE
    /\ moved = [o \in Objects |-> FALSE]
    /\ ended = [o \in Objects |-> <<>>]

\* The encrypting object is given texts, the decrypting one the results of
\* the encrypting one, in their order.
Inputs(o) ==
    CASE o = "enc" -> Texts
      [] o = "dec" -> {ended["enc"][k].out :
                       k \in DOMAIN ended["enc"] \cap {Len(ended["dec"]) + 1}}

AddChunk(o) ==
    \E input \in Inputs(o) : \E n \in 1..Len(input) :
        LET chunk == SubSeq(input, Len(fed[o]) + 1, n)
        IN  /\ Len(fed[o]) < n /\ fed[o] = SubSeq(input, 1, Len(fed[o]))
            /\ obj' = [obj EXCEPT ![o] = Add(o, @, chunk)]
            /\ fed' = [fed EXCEPT ![o] = @ \o chunk]
            /\ aligned' = (aligned /\ (o = "dec" => obj[o].buffer = <<>>))
            /\ UNCHANGED <<mode, padding, begin, moved, ended>>

\* The user ends encryption at any point, decryption after the last byte.
End(o) ==
    /\ Len(ended[o]) < MaxEnds
    /\ o = "enc" \/ fed[o] \in Inputs(o)
    /\ \E e \in EndInput(o, obj[o]) :
        /\ obj' = [obj EXCEPT ![o] = ResetObj(e.obj)]
        /\ ended' = [ended EXCEPT ![o] = Append(@,
                [text |-> fed[o], iv |-> begin[o], aligned |-> aligned,
                 moved |-> moved[o], out |-> e.out, tag |-> e.tag])]
    /\ fed' = [fed EXCEPT ![o] = <<>>]
    /\ begin' = [begin EXCEPT ![o] = obj'[o].iv]
    /\ aligned' = (o = "dec" \/ aligned)
    /\ moved' = [moved EXCEPT ![o] = FALSE]
    /\ UNCHANGED <<mode, padding>>

Reset(o) ==
    /\ obj' = [obj EXCEPT ![o] = ResetObj(@)]
    /\ fed' = [fed EXCEPT ![o] = <<>>]
    /\ begin' = [begin EXCEPT ![o] = obj'[o].iv]
    /\ aligned' = (o = "dec" \/ aligned)
    /\ moved' = [moved EXCEPT ![o] = FALSE]
    /\ UNCHANGED <<mode, padding, ended>>

\* setIV of CBC, setCounter of CTR: before the first byte of a message.
SetIV(o) ==
    /\ mode \in {"CBC", "CTR"}
    /\ fed[o] = <<>> /\ ~moved[o]
    /\ obj' = [obj EXCEPT ![o].iv = OtherIV]
    /\ begin' = [begin EXCEPT ![o] = OtherIV]
    /\ moved' = [moved EXCEPT ![o] = TRUE]
    /\ UNCHANGED <<mode, padding, fed, aligned, ended>>

\* The objects share nothing, so it is enough that the user takes up one
\* between two messages of the other.
Turn(o) == \A other \in Objects \ {o} : fed[other] = <<>>

Next == \E o \in Objects :
    Turn(o) /\ (AddChunk(o) \/ End(o) \/ Reset(o) \/ SetIV(o))

Spec == Init /\ [][Next]_vars

-----------------------------------------------------------------------------
(* Properties *)

\* iv plus n, as numbers: the value of the digits, and digits of the sum.
CounterAt(iv, n) ==
    LET value[k \in 0..Len(iv)] ==
            IF k = 0 THEN 0 ELSE value[k - 1] * ByteBase + iv[k]
        weight[k \in 0..Len(iv)] ==
            IF k = 0 THEN 1 ELSE weight[k - 1] * ByteBase
    IN  [i \in DOMAIN iv |->
            ((value[Len(iv)] + n) \div weight[Len(iv) - i]) % ByteBase]

\* The i-th block of the result, as the definition of the mode has it.
RightBlock(o, in, out, iv, i) ==
    LET before(s) == IF i = 1 THEN iv ELSE s[i - 1]
    IN  CASE mode = "ECB" /\ o = "enc" -> out[i] = Encrypt[in[i]]
          [] mode = "ECB" /\ o = "dec" -> Encrypt[out[i]] = in[i]
          [] mode = "CBC" /\ o = "enc" ->
             out[i] = Encrypt[XorBlock(in[i], before(out))]
          [] mode = "CBC" /\ o = "dec" ->
             Encrypt[XorBlock(out[i], before(in))] = in[i]
          [] mode = "CTR" ->
             out[i] = XorBlock(in[i], Encrypt[CounterAt(iv, i - 1)])
          [] mode = "GCM" ->
             out[i] = XorBlock(in[i], Encrypt[iv \o
                          CounterAt(Zeros(BlockSize - IvSize), i + 1)])

\* However the input was cut, and whatever was ended or reset before, the
\* result so far is that of the whole blocks given since, and the rest is
\* in the buffer (aes.h:528-564).  CBC decryption only when no add found
\* bytes in the buffer, see CbcAnyCut.
CutsDoNotShow ==
    \A o \in Objects :
        mode # "CBC" \/ o = "enc" \/ aligned =>
            /\ obj[o].buffer = Rest(fed[o])
            /\ Len(obj[o].result) = WholeLen(fed[o])
            /\ \A i \in DOMAIN Blocks(fed[o]) :
                RightBlock(o, Blocks(fed[o]), Blocks(obj[o].result),
                           begin[o], i)

\* What comes out of decryption for a text: padding type None drops what is
\* not a whole block, Zeros leaves its zeros (doc/aes.md:13).
Recovered(text) ==
    IF mode \in {"CTR", "GCM"} \/ padding \in {"PKCS7", "ISO10126"} THEN text
    ELSE IF padding = "None" THEN SubSeq(text, 1, WholeLen(text))
    ELSE text \o Zeros(BlockSize - (Len(text) % BlockSize))

Undoes(k) ==
    LET e == ended["enc"][k]
        d == ended["dec"][k]
    IN  mode = "ECB" \/ e.iv = d.iv =>
            d.out = Recovered(e.text) /\ d.tag = e.tag

\* Decryption undoes encryption, message after message, with the same tag,
\* as the round trips of test/test.cpp:153-353 test for one uncut message;
\* in CBC for chunks of whole blocks.
RoundTrip ==
    \A k \in DOMAIN ended["dec"] :
        mode # "CBC" \/ ended["dec"][k].aligned => Undoes(k)

\* The same for CBC and input cut anywhere: add takes any length
\* (aes.h:333) and decryption gives the text back (test/test.cpp:194).
CbcAnyCut == mode = "CBC" => \A k \in DOMAIN ended["dec"] : Undoes(k)

\* Between two messages the IV grows by the number of blocks in CTR mode, by
\* one in GCM mode (doc/aes.md:17-21), and comes back in CBC mode; an IV set
\* for one message stays in use in CTR mode only.
IVAdvances ==
    \A o \in Objects : \A k \in 2..Len(ended[o]) :
        LET last == ended[o][k - 1]
            used == (Len(last.text) + BlockSize - 1) \div BlockSize
        IN  ~ended[o][k].moved =>
            CASE mode = "CTR" -> ended[o][k].iv = CounterAt(last.iv, used)
              [] mode = "GCM" -> ended[o][k].iv = CounterAt(last.iv, 1)
              [] OTHER        -> ended[o][k].iv = InitialIV

\* What an object keeps: a buffer that never holds a whole block
\* (aes.h:548-565), fields of their sizes, and the IV of the next message
\* (aes.cpp:655-668, 837-846).
KeepsItsState == TypeOK /\ IVAdvances
==============================================================================
