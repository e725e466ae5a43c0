------------------------------ MODULE HashStream ------------------------------
(***************************************************************************)
(* The streaming part of SHA256, MD5 and SHA1 (src/src/hash.h,             *)
(* src/src/hash.cpp): data is collected in blocks, each full block is      *)
(* compressed, calculate() pads with 0x80, zeros and the length in bits.   *)
(* The compression function is left open: the digest is represented by    *)
(* the bytes compressed, in their order.  The code has BlockSize = 64,     *)
(* SizeBytes = 8, LenMod = CountMod = 2^32.                                *)
(***************************************************************************)
EXTENDS Integers, Sequences

CONSTANTS
    BlockSize,  \* bytes of a block
    SizeBytes,  \* bytes of the length at its end
    LenMod,     \* lengths given to add are numbers modulo LenMod
    CountMod,   \* _round of MD5 and SHA1 counts modulo CountMod
    Algorithms, \* which of the three are explored
    Texts,      \* what is hashed, with everything they start with
    MaxAbsorbed \* bound: bytes compressed before calculate

Byte == 0..255

ASSUME SizesAssumption ==
    /\ BlockSize \in Nat /\ SizeBytes \in Nat \ {0}
    /\ SizeBytes < BlockSize
    /\ LenMod \in Nat /\ LenMod > 2 * BlockSize
    /\ CountMod \in Nat \ {0}
    /\ MaxAbsorbed \in Nat
ASSUME InputsAssumption ==
    /\ Algorithms \subseteq {"SHA256", "MD5", "SHA1"}
    /\ Texts \subseteq Seq(Byte)

VARIABLES
    alg,        \* the class of the object
    absorbed,   \* the bytes compressed so far
    buffer,     \* the bytes of the block that is not full yet
    count,      \* SHA256: calByte, bytes compressed; MD5, SHA1: _round, blocks
    pc,         \* idle, or in the loop of add: called by the user (add), by
                \* calculate for the padding (pad) or for the length (size)
    data,       \* what the loop of add still has to take
    size,       \* the length calculate is going to add
    text,       \* everything given to add since the last reset
    fresh,      \* nothing was calculated since then
    answer      \* the last digest, and the text and fresh it was made from

vars == <<alg, absorbed, buffer, count, pc, data, size, text, fresh, answer>>

\* Among the bytes compressed: the words of the state had their bytes
\* reversed in place.
Reversed == -1

\* The type of everything; between two calls the buffer is not full.
TypeOK ==
    /\ alg \in Algorithms
    /\ absorbed \in Seq(Byte \cup {Reversed})
    /\ buffer \in Seq(Byte) /\ Len(buffer) < BlockSize
    /\ count \in Nat
    /\ pc \in {"idle", "add", "pad", "size"}
    /\ data \in Seq(Byte) /\ size \in Seq(Byte)
    /\ text \in Seq(Byte)
    /\ fresh \in BOOLEAN
    /\ answer \in [hash : Seq(Byte \cup {Reversed}), text : Seq(Byte),
                   fresh : BOOLEAN]

Zeros(n) == [i \in 1..n |-> 0]
Boundary == BlockSize - SizeBytes

\* A length in bytes as the number of bits: MD5 writes its lowest byte
\* first, the others its highest.
SizeField(n) ==
    LET shifted[k \in 0..SizeBytes] ==
            IF k = 0 THEN n * 8 ELSE shifted[k - 1] \div 256
        place(i) == IF alg = "MD5" THEN i - 1 ELSE SizeBytes - i
    IN  [i \in 1..SizeBytes |-> shifted[place(i)] % 256]

\* How many blocks or bytes a compressed block counts for.
Counted(n) ==
    IF alg = "SHA256" THEN n + BlockSize ELSE (n + 1) % CountMod

Init ==
    /\ alg \in Algorithms
    /\ absorbed = <<>> /\ buffer = <<>> /\ count = 0
    /\ pc = "idle" /\ data = <<>> /\ size = <<>>
    /\ text = <<>> /\ fresh = TRUE
    /\ answer = [hash |-> <<>>, text |-> <<>>, fresh |-> FALSE]

-----------------------------------------------------------------------------
(* add *)

\* The next n bytes of a text.  Their number is cast to 32 bits when they
\* come as a btring.
Add(t, n) ==
    /\ pc = "idle"
    /\ text = SubSeq(t, 1, Len(text))
    /\ data' = SubSeq(t, Len(text) + 1, Len(text) + (n % LenMod))
    /\ text' = SubSeq(t, 1, Len(text) + n)
    /\ pc' = "add"
    /\ UNCHANGED <<alg, absorbed, buffer, count, size, fresh, answer>>

\* The block gets full.  MD5 adds the lengths in 32 bits.
Fills ==
    LET sum == Len(buffer) + Len(data)
    IN  (IF alg = "MD5" THEN sum % LenMod ELSE sum) >= BlockSize

\* Fault: the length of the buffer is not set back after its block.
FillRoundKeepsLength ==
    LET need == BlockSize - Len(buffer)
    IN  /\ absorbed' = absorbed \o buffer \o SubSeq(data, 1, need)
        /\ data' = SubSeq(data, need + 1, Len(data))
        /\ buffer' = buffer \o SubSeq(data, 1, need)

\* Fault: data is not moved on past what completed the block.
FillRoundSameData ==
    LET need == BlockSize - Len(buffer)
    IN  /\ absorbed' = absorbed \o buffer \o SubSeq(data, 1, need)
        /\ data' = SubSeq(data, 1, Len(data) - need)
        /\ buffer' = <<>>

\* Copy what is missing, compress, start the next block.
FillRound ==
    LET need == BlockSize - Len(buffer)
    IN  /\ absorbed' = absorbed \o buffer \o SubSeq(data, 1, need)
        /\ data' = SubSeq(data, need + 1, Len(data))
        /\ buffer' = <<>>

AddRound ==
    /\ pc # "idle"
    /\ Fills
    /\ FillRound
    /\ count' = Counted(count)
    /\ UNCHANGED <<alg, pc, size, text, fresh, answer>>

\* What is left goes into the buffer and the call returns.  (Where the sum in
\* Fills has wrapped, MD5 copies past its buffer and the model ends.)
AddTail ==
    /\ ~Fills
    /\ Len(buffer) + Len(data) < BlockSize
    /\ buffer' = buffer \o data
    /\ UNCHANGED <<alg, absorbed, count, size, text>>

AddReturns ==
    /\ pc = "add"
    /\ AddTail
    /\ data' = <<>>
    /\ pc' = "idle"
    /\ UNCHANGED <<fresh, answer>>

-----------------------------------------------------------------------------
(* calculate *)

\* Fault: no padding at all when the length fits exactly behind the data.
PaddingLenNone ==
    IF Len(buffer) <= Boundary THEN Boundary - Len(buffer)
    ELSE BlockSize - (Len(buffer) - Boundary)

PaddingLen ==
    IF Len(buffer) < Boundary THEN Boundary - Len(buffer)
    ELSE IF Len(buffer) = Boundary THEN BlockSize
    ELSE BlockSize - (Len(buffer) - Boundary)

\* MD5 and SHA1 add the padding and the length to themselves.
Calculate ==
    /\ pc = "idle" /\ alg # "SHA256"
    /\ Len(absorbed) <= MaxAbsorbed
    /\ size' = SizeField(count * BlockSize + Len(buffer))
    /\ data' = SubSeq(<<128>> \o Zeros(BlockSize - 1), 1, PaddingLen)
    /\ pc' = "pad"
    /\ UNCHANGED <<alg, absorbed, buffer, count, text, fresh, answer>>

PaddingDone ==
    /\ pc = "pad"
    /\ AddTail
    /\ data' = size
    /\ pc' = "size"
    /\ UNCHANGED <<fresh, answer>>

Answer(hash) ==
    /\ answer' = [hash |-> hash, text |-> text, fresh |-> fresh]
    /\ fresh' = FALSE

\* SHA1 reverses its words in place and then returns them.
CalculateReturns ==
    /\ pc = "size"
    /\ ~Fills
    /\ Len(buffer) + Len(data) < BlockSize
    /\ buffer' = buffer \o data
    /\ data' = <<>>
    /\ absorbed' = IF alg = "SHA1" THEN Append(absorbed, Reversed) ELSE absorbed
    /\ pc' = "idle"
    /\ Answer(absorbed)
    /\ UNCHANGED <<alg, count, size, text>>

\* SHA256 pads its buffer itself, in one block or in two, and takes back from
\* its count what was padding.  Its words stay reversed, its buffer as long.
CalculateSHA256 ==
    /\ pc = "idle" /\ alg = "SHA256"
    /\ Len(absorbed) <= MaxAbsorbed
    /\ LET len    == Len(buffer)
           padded == buffer \o <<128>> \o Zeros(BlockSize - len - 1)
           two    == len >= Boundary
           front  == IF two THEN padded \o Zeros(Boundary)
                     ELSE SubSeq(padded, 1, Boundary)
           before == IF two THEN Counted(count) - (BlockSize - len) ELSE count
           bytes  == before + (IF two THEN 0 ELSE len)
           hash   == absorbed \o front \o SizeField(bytes)
       IN  /\ absorbed' = Append(hash, Reversed)
           /\ buffer' = IF two THEN <<>>
                        ELSE SubSeq(padded, 1, len)
           /\ count' = Counted(before)
           /\ Answer(hash)
    /\ UNCHANGED <<alg, pc, data, size, text>>

\* Fault: the count of blocks goes on after a reset.
ResetKeepsCount ==
    /\ pc = "idle"
    /\ absorbed' = <<>> /\ buffer' = <<>>
    /\ text' = <<>> /\ fresh' = TRUE
    /\ UNCHANGED <<alg, count, pc, data, size, answer>>

Reset ==
    /\ pc = "idle"
    /\ absorbed' = <<>> /\ buffer' = <<>> /\ count' = 0
    /\ text' = <<>> /\ fresh' = TRUE
    /\ UNCHANGED <<alg, pc, data, size, answer>>

Next ==
    \/ \E t \in Texts : \E n \in 0..(Len(t) - Len(text)) : Add(t, n)
    \/ AddRound \/ AddReturns
    \/ Calculate \/ PaddingDone \/ CalculateReturns
    \/ CalculateSHA256
    \/ Reset

Spec == Init /\ [][Next]_vars

-----------------------------------------------------------------------------
(* Properties *)

\* Until a digest is calculated, what was compressed, what waits in the
\* buffer and what the loop of add still holds are together the text given,
\* also in the middle of a call (hash.cpp:106-125, 293-307, 469-483).
NothingLost ==
    fresh /\ pc \in {"idle", "add"} => absorbed \o buffer \o data = text

\* The length written at the end is taken from count and buffer, never from
\* the text: the count agrees with what was compressed.
CountRight ==
    fresh /\ pc = "idle" =>
        IF alg = "SHA256" THEN count = Len(absorbed)
        ELSE count * BlockSize = Len(absorbed)

\* The padded message of RFC 1321 and RFC 3174.
Padded(t) ==
    t \o <<128>> \o Zeros((Boundary - 1 - Len(t)) % BlockSize)
      \o SizeField(Len(t))

\* A digest asked for once after a reset is that of the padded text, however
\* it was added and whatever the object did before (doc/hash.md:36).
DigestRight == answer.fresh => answer.hash = Padded(answer.text)

\* The same of an object whose buffer never holds a whole block between two
\* steps, so that the padding finds room for its first byte
\* (hash.cpp:93-101, 293-307).
PadsRight == TypeOK /\ DigestRight
===============================================================================
