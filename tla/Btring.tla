------------------------------- MODULE Btring -------------------------------
(***************************************************************************)
(* nap::btring (src/src/btring.h, src/src/btring.cpp): a byte string that  *)
(* owns a buffer on the heap, with its own growth, moves and swaps.  The   *)
(* class is not safe for several threads (doc/btring.md:5), so an          *)
(* operation is one step.                                                  *)
(*                                                                         *)
(* Inside an operation the order in which buffers are allocated, copied    *)
(* from and freed is what can go wrong; so the private functions work on a *)
(* heap whose blocks live and die, and sound turns FALSE with the first    *)
(* access to memory that is not there, overlapping memcpy or second        *)
(* delete[].                                                               *)
(***************************************************************************)
EXTENDS Integers, Sequences

CONSTANTS
    Obj,        \* the btring objects of a program
    Block,      \* addresses of heap blocks
    Null,       \* nullptr
    Byte,       \* values of a byte
    Unset,      \* what a cell holds that nobody has written
    Stops,      \* bytes at which operator>> stops: zero and the new line
    Texts,      \* byte strings in the caller's own memory
    Sizes,      \* lengths callers ask for
    Unit,       \* capacities grow to the end of a unit; 16 in the code
    IntMod,     \* values an int can have; 2^32 in the code
    MaxCalls    \* bound: operations of one run

Cell == Byte \cup {Unset}

ASSUME UnitAssumption == Unit \in Nat \ {0, 1}
ASSUME IntAssumption == IntMod \in Nat \ {0}
ASSUME DataAssumption ==
    /\ Byte \subseteq Nat
    /\ Stops \subseteq Byte
    /\ Texts \subseteq Seq(Byte)
    /\ Sizes \subseteq Nat
ASSUME NullAssumption == Null \notin Block \cup Obj

VARIABLES
    exists,     \* the objects that are constructed
    str,        \* per object: content, capacity and length
    heap,       \* the blocks of new[] that are live, their cells, and sound
    reader,     \* the object operator>> is appending to, or Null
    input,      \* what the stream still has for it
    calls       \* operations so far

vars == <<exists, str, heap, reader, input, calls>>

\* Fault: length has no initial value.
EmptyUnset == [content |-> Null, capacity |-> 0, length |-> Unset]

Empty == [content |-> Null, capacity |-> 0, length |-> 0]

-----------------------------------------------------------------------------
(* The heap.  A pointer is a block and an offset, or a text of the caller,  *)
(* whose memory is not ours and is always there.                            *)

At(b, k) == [block |-> b, offset |-> k, text |-> <<>>]
User(t) == [block |-> Null, offset |-> 0, text |-> t]

New(h, b, n) ==
    [live  |-> h.live \cup {b},
     cells |-> [h.cells EXCEPT ![b] = [i \in 1..n |-> Unset]],
     sound |-> h.sound /\ b \notin h.live]

Delete(h, b) ==
    IF b = Null THEN h
    ELSE [live  |-> h.live \ {b},
          cells |-> [h.cells EXCEPT ![b] = <<>>],
          sound |-> h.sound /\ b \in h.live]

Readable(h, p, n) ==
    IF p.block = Null THEN n <= Len(p.text)
    ELSE p.block \in h.live /\ p.offset + n <= Len(h.cells[p.block])

\* What lies behind the pointer, whether it may be read or not.
CellAt(h, p, i) ==
    IF ~Readable(h, p, i) THEN Unset
    ELSE IF p.block = Null THEN p.text[i] ELSE h.cells[p.block][p.offset + i]

\* memcpy(b + k, p, n)
Memcpy(h, b, k, p, n) ==
    [live  |-> h.live,
     cells |-> [h.cells EXCEPT ![b] = [i \in 1..Len(@) |->
                  IF k < i /\ i <= k + n THEN CellAt(h, p, i - k) ELSE @[i]]],
     sound |-> /\ h.sound
               /\ b \in h.live /\ k + n <= Len(h.cells[b])
               /\ Readable(h, p, n)
               /\ p.block = b => p.offset + n <= k \/ k + n <= p.offset]

\* A loop that writes c to the first n cells.
Memset(h, b, c, n) ==
    [live  |-> h.live,
     cells |-> [h.cells EXCEPT ![b] = [i \in 1..Len(@) |-> IF i <= n THEN c ELSE @[i]]],
     sound |-> h.sound /\ b \in h.live /\ n <= Len(h.cells[b])]

-----------------------------------------------------------------------------
(* The private functions.  Each takes the heap, the three fields of *this   *)
(* and a block that is free, and gives back the heap and the fields.        *)

Done(h, s) == [heap |-> h, str |-> s]

\* n | 15
RoundUp(n) == (n \div Unit) * Unit + Unit - 1

\* Fault: the old content is deleted before con is copied.
GrowDeletesFirst(h, s, p, n, b) ==
    LET total == n + s.length
        fresh == New(h, b, RoundUp(total))
        kept  == IF s.length > 0 THEN Memcpy(fresh, b, 0, At(s.content, 0), s.length)
                 ELSE fresh
    IN  Done(Memcpy(Delete(kept, s.content), b, s.length, p, n),
             [content |-> b, capacity |-> RoundUp(total), length |-> total])

\* Fault: the buffer is allocated before its size is rounded up.
GrowRoundsLate(h, s, p, n, b) ==
    LET total == n + s.length
        fresh == New(h, b, total)
        kept  == IF s.length > 0 THEN Memcpy(fresh, b, 0, At(s.content, 0), s.length)
                 ELSE fresh
    IN  Done(Delete(Memcpy(kept, b, s.length, p, n), s.content),
             [content |-> b, capacity |-> RoundUp(total), length |-> total])

\* new uint8_t[totallength]; copy the old content; copy con; delete the old.
Grow(h, s, p, n, b) ==
    LET total == n + s.length
        fresh == New(h, b, RoundUp(total))
        kept  == IF s.length > 0 THEN Memcpy(fresh, b, 0, At(s.content, 0), s.length)
                 ELSE fresh
    IN  Done(Delete(Memcpy(kept, b, s.length, p, n), s.content),
             [content |-> b, capacity |-> RoundUp(total), length |-> total])

_append(h, s, p, n, b) ==
    IF n = 0 \/ p = At(Null, 0) THEN Done(h, s)
    ELSE IF n + s.length > s.capacity THEN Grow(h, s, p, n, b)
    ELSE Done(Memcpy(h, s.content, s.length, p, n), [s EXCEPT !.length = n + @])

AtLeastUnit(n) == IF n < Unit - 1 THEN Unit - 1 ELSE n

_recap(h, s, n, b) ==
    IF n = 0 THEN Done(Delete(h, s.content), Empty)
    ELSE Done(New(Delete(h, s.content), b, AtLeastUnit(n)),
              [content |-> b, capacity |-> AtLeastUnit(n), length |-> 0])

_set(h, s, p, n, b) ==
    IF n = 0 THEN Done(h, [s EXCEPT !.length = 0])
    ELSE LET roomy == IF s.content = Null \/ n > s.capacity THEN _recap(h, s, n, b)
                      ELSE Done(h, s)
         IN  Done(Memcpy(roomy.heap, roomy.str.content, 0, p, n),
                  [roomy.str EXCEPT !.length = n])

Least(m, n) == IF m < n THEN m ELSE n

\* Fault: the content is not copied to the larger buffer.
_recap_drop(h, s, n, b) ==
    IF n = 0 THEN Done(Delete(h, s.content), Empty)
    ELSE IF n <= s.capacity THEN Done(h, [s EXCEPT !.length = n])
    ELSE LET cap == AtLeastUnit(n) IN
         Done(Delete(New(h, b, cap), s.content),
              [content |-> b, capacity |-> cap, length |-> n])

_recap_hold(h, s, n, b) ==
    IF n = 0 THEN Done(Delete(h, s.content), Empty)
    ELSE IF n <= s.capacity THEN Done(h, [s EXCEPT !.length = n])
    ELSE LET cap   == AtLeastUnit(n)
             fresh == New(h, b, cap)
         IN  Done(IF s.content = Null THEN fresh
                  ELSE Delete(Memcpy(fresh, b, 0, At(s.content, 0), Least(cap, s.length)),
                              s.content),
                  [content |-> b, capacity |-> cap, length |-> n])

-----------------------------------------------------------------------------
(* The operations.  Destructors of temporaries find nullptr after a move.   *)

Start == calls < MaxCalls /\ reader = Null /\ calls' = calls + 1

Update(o, r) ==
    /\ heap' = r.heap
    /\ str' = [str EXCEPT ![o] = r.str]

Free == Block \ heap.live

\* A constructor of o that leaves it as r says.
Construct(o, r) ==
    /\ Start
    /\ o \notin exists
    /\ exists' = exists \cup {o}
    /\ Update(o, r)
    /\ UNCHANGED <<reader, input>>

\* A call on o that leaves it as r says.
Call(o, r) ==
    /\ Start
    /\ o \in exists
    /\ Update(o, r)
    /\ UNCHANGED <<exists, reader, input>>

\* btring(), btring(const void*, size_t) and its siblings
FromText(o, t, b) == Construct(o, _append(heap, Empty, User(t), Len(t), b))

\* explicit btring(size_t)
WithCapacity(o, n, b) == Construct(o, _recap(heap, Empty, n, b))

\* clear() on the fields a new object has, and _append
CopyConstruct(o, p, b) ==
    /\ p \in exists
    /\ LET cleared == _recap_hold(heap, Empty, 0, b) IN
       Construct(o, _append(cleared.heap, cleared.str,
                            At(str[p].content, 0), str[p].length, b))

\* operator+: room for both, then one after the other
Concat(o, p, q, b) ==
    /\ {p, q} \subseteq exists
    /\ LET room  == _recap(heap, Empty, str[p].length + str[q].length, b)
           first == _append(room.heap, room.str,
                            At(str[p].content, 0), str[p].length, b)
       IN Construct(o, _append(first.heap, first.str,
                               At(str[q].content, 0), str[q].length, b))

\* The caller's new char[] becomes the content.
Shift(o, t, b) ==
    LET buffer == New(heap, b, Len(t)) IN
    Construct(o, Done(Memcpy(buffer, b, 0, User(t), Len(t)),
                      [content |-> b, capacity |-> Len(t), length |-> Len(t)]))

\* Fault: the object moved from keeps its pointer.
MoveKeepsOld(o, p) ==
    /\ Start
    /\ o \notin exists /\ p \in exists
    /\ exists' = exists \cup {o}
    /\ str' = [str EXCEPT ![o] = str[p]]
    /\ UNCHANGED <<heap, reader, input>>

\* btring(btring&&)
MoveConstruct(o, p) ==
    /\ Start
    /\ o \notin exists /\ p \in exists
    /\ exists' = exists \cup {o}
    /\ str' = [str EXCEPT ![o] = str[p], ![p] = Empty]
    /\ UNCHANGED <<heap, reader, input>>

Destroy(o) ==
    /\ Start
    /\ o \in exists
    /\ exists' = exists \ {o}
    /\ Update(o, Done(Delete(heap, str[o].content), Empty))
    /\ UNCHANGED <<reader, input>>

AppendText(o, t, b) == Call(o, _append(heap, str[o], User(t), Len(t), b))

\* str += str is one of these
AppendString(o, p, b) ==
    /\ p \in exists
    /\ Call(o, _append(heap, str[o], At(str[p].content, 0), str[p].length, b))

\* append(o.str() + k, n)
AppendPart(o, k, n, b) ==
    /\ k + n <= str[o].length
    /\ Call(o, _append(heap, str[o], At(str[o].content, k), n, b))

AssignText(o, t, b) == Call(o, _set(heap, str[o], User(t), Len(t), b))

AssignString(o, p, b) ==
    /\ p \in exists
    /\ Call(o, IF p = o THEN Done(heap, str[o])
               ELSE _set(heap, str[o], At(str[p].content, 0), str[p].length, b))

Fill(o, c, n, b) ==
    LET room == _recap(heap, str[o], n, b) IN
    Call(o, Done(IF n = 0 THEN room.heap ELSE Memset(room.heap, room.str.content, c, n),
                 [room.str EXCEPT !.length = n]))

Reserve(o, n, b) == Call(o, _recap(heap, str[o], n, b))

\* resize(n); clear() is resize(0)
Resize(o, n, b) == Call(o, _recap_hold(heap, str[o], n, b))

Swap(o, p) ==
    /\ Start
    /\ {o, p} \subseteq exists
    /\ str' = [str EXCEPT ![o] = str[p], ![p] = str[o]]
    /\ UNCHANGED <<exists, heap, reader, input>>

\* operator>>: byte after byte until a stop or the end; the stop is taken too.
Extract(o, t) ==
    /\ Start
    /\ o \in exists
    /\ reader' = o
    /\ input' = t
    /\ UNCHANGED <<exists, str, heap>>

ExtractByte(b) ==
    /\ reader # Null /\ input # <<>>
    /\ Head(input) \notin Stops
    /\ Update(reader, _append(heap, str[reader], User(<<Head(input)>>), 1, b))
    /\ input' = Tail(input)
    /\ UNCHANGED <<exists, reader, calls>>

ExtractEnds ==
    /\ reader # Null
    /\ input # <<>> => Head(input) \in Stops
    /\ reader' = Null
    /\ input' = <<>>
    /\ UNCHANGED <<exists, str, heap, calls>>

-----------------------------------------------------------------------------
(* The comparisons, on the values of two objects.                            *)

Value(o) ==
    IF str[o].content = Null THEN <<>>
    ELSE SubSeq(heap.cells[str[o].content], 1, str[o].length)

\* The int that a size becomes.
AsInt(n) ==
    LET r == n % IntMod IN IF r < IntMod \div 2 THEN r ELSE r - IntMod

\* The loops: the first place where two strings differ, 0 if they find none.
\* The bound of the loop, int len, may be cut short or negative.
FirstDifference(v, w) ==
    LET len    == AsInt(Least(Len(v), Len(w)))
        places == {i \in 1..len : v[i] # w[i]} IN
    IF places = {} THEN 0 ELSE CHOOSE i \in places : \A j \in places : i <= j

Greater(v, w) ==
    LET i == FirstDifference(v, w) IN
    IF i # 0 THEN v[i] > w[i] ELSE Len(v) > Len(w)

\* Fault: the last line is that of operator>.
GreaterTwice(v, w) ==
    LET i == FirstDifference(v, w) IN
    IF i # 0 THEN v[i] > w[i] ELSE Len(v) > Len(w)

GreaterOrEqual(v, w) ==
    LET i == FirstDifference(v, w) IN
    IF i # 0 THEN v[i] > w[i] ELSE Len(v) >= Len(w)

Less(v, w) == ~GreaterOrEqual(v, w)

LessOrEqual(v, w) == ~Greater(v, w)

\* memcmp when the lengths agree
Equal(v, w) == Len(v) = Len(w) /\ \A i \in 1..Len(v) : v[i] = w[i]

-----------------------------------------------------------------------------

Init ==
    /\ exists = {}
    /\ str = [o \in Obj |-> Empty]
    /\ heap = [live |-> {}, cells |-> [b \in Block |-> <<>>], sound |-> TRUE]
    /\ reader = Null
    /\ input = <<>>
    /\ calls = 0

\* b is the block that new[] returns, where the operation calls it.
Allocating(o, b) ==
    \/ \E t \in Texts : FromText(o, t, b) \/ Shift(o, t, b)
    \/ \E n \in Sizes : WithCapacity(o, n, b)
    \/ \E p \in Obj : CopyConstruct(o, p, b)
    \/ \E p, q \in Obj : Concat(o, p, q, b)
    \/ \E t \in Texts : AppendText(o, t, b) \/ AssignText(o, t, b)
    \/ \E p \in Obj : AppendString(o, p, b) \/ AssignString(o, p, b)
    \/ \E k, n \in Sizes : AppendPart(o, k, n, b)
    \/ \E c \in Byte, n \in Sizes : Fill(o, c, n, b)
    \/ \E n \in Sizes : Reserve(o, n, b) \/ Resize(o, n, b)
    \/ ExtractByte(b)

\* The bound is reached: the program makes no more calls.
Enough == calls = MaxCalls /\ reader = Null /\ UNCHANGED vars

Next ==
    \/ \E o \in Obj, b \in Free : Allocating(o, b)
    \/ \E o, p \in Obj : MoveConstruct(o, p) \/ Swap(o, p)
    \/ \E o \in Obj : Destroy(o)
    \/ \E o \in Obj, t \in Texts : Extract(o, t)
    \/ ExtractEnds
    \/ Enough

Spec == Init /\ [][Next]_vars

-----------------------------------------------------------------------------

StrType ==
    [content : Block \cup {Null}, capacity : Nat, length : Nat]

HeapType ==
    [live : SUBSET Block, cells : [Block -> Seq(Cell)], sound : BOOLEAN]

TypeOK ==
    /\ exists \subseteq Obj
    /\ str \in [Obj -> StrType]
    /\ heap \in HeapType
    /\ reader \in Obj \cup {Null}
    /\ input \in Seq(Byte)
    /\ calls \in Nat

(***************************************************************************)
(* No operation, in no sequence of calls, reads or writes outside a live   *)
(* buffer, copies between overlapping ranges or frees a buffer twice: not  *)
(* when a string is appended to itself and moves, nor after moves, swaps,  *)
(* a shrink or a capacity below the length of the buffer.                  *)
(***************************************************************************)
MemorySafe == heap.sound

(***************************************************************************)
(* Buffers are owned: the live blocks are exactly the contents of objects  *)
(* that exist, one each.  Nothing leaks, nothing is shared, and an object  *)
(* that was moved from or destroyed holds no buffer.                       *)
(***************************************************************************)
OneOwner ==
    /\ heap.live = {str[o].content : o \in Obj} \ {Null}
    /\ \A o \in Obj \ exists : str[o] = Empty
    /\ \A o, p \in Obj : str[o].content = str[p].content => o = p \/ str[o].content = Null

(***************************************************************************)
(* What length and capacity say of the buffer is true, so that the test of *)
(* capacity in _append and _recap_hold decides rightly.                    *)
(***************************************************************************)
FieldsTrue ==
    \A o \in Obj :
        /\ str[o].length <= str[o].capacity
        /\ str[o].content = Null => str[o].capacity = 0
        /\ str[o].content # Null => str[o].capacity <= Len(heap.cells[str[o].content])

(***************************************************************************)
(* The four comparisons and the equality, written as three loops and two   *)
(* negations, are one total order on strings of which the shorter has a    *)
(* length an int can say: that of the first byte that differs, a prefix    *)
(* before the longer string.  From 2^31 bytes on the loops are cut or      *)
(* skipped, the sizes decide, and the comparisons are not this order.      *)
(***************************************************************************)
Precedes(v, w) ==
    \/ Len(v) < Len(w) /\ v = SubSeq(w, 1, Len(v))
    \/ \E i \in 1..Least(Len(v), Len(w)) :
          v[i] < w[i] /\ SubSeq(v, 1, i - 1) = SubSeq(w, 1, i - 1)

Countable(v, w) == Least(Len(v), Len(w)) < IntMod \div 2

ComparisonsAgree ==
    \A o, p \in exists :
        LET v == Value(o)
            w == Value(p)
        IN  {v, w} \subseteq Seq(Byte) /\ Countable(v, w) =>
              /\ Less(v, w) = Precedes(v, w) /\ Greater(v, w) = Precedes(w, v)
              /\ LessOrEqual(v, w) = ~Precedes(w, v)
              /\ GreaterOrEqual(v, w) = ~Precedes(v, w)
              /\ Equal(v, w) = (v = w)

(***************************************************************************)
(* Whatever the buffers do, the values are those of plain byte strings.    *)
(***************************************************************************)
Abstract == INSTANCE ByteString WITH val <- [o \in Obj |-> Value(o)]

ImplementsString == Abstract!Spec
=============================================================================
