---------------------------- MODULE BtringProofs ----------------------------
(***************************************************************************)
(* Proofs about Btring, for every number of objects, every text and length *)
(* and every unit of growth: the operations are memory safe, a buffer has  *)
(* one owner, the values are those of the plain strings of ByteString, and *)
(* the comparisons are one total order.                                    *)
(***************************************************************************)
EXTENDS Btring, SequenceTheorems, WellFoundedInduction, TLAPS

\* Every set of natural numbers that is not empty has a least one.
LEMMA LeastNumber ==
    ASSUME NEW T, T \subseteq Nat, T # {}
    PROVE  \E n \in T : \A m \in T : n <= m
<1> DEFINE R == {p \in Nat \X Nat : p[1] < p[2]}
<1>1. IsWellFoundedOn(R, Nat)
  <2>1. OpToRel(<, Nat) = R
    BY DEF OpToRel
  <2> QED
    BY <2>1, NatLessThanWellFounded
<1>2. PICK n \in T : \A m \in T : <<m, n>> \notin R
  <2> HIDE DEF R
  <2> QED
    BY <1>1, WFMin, Zenon
<1>3. ASSUME NEW m \in T PROVE n <= m
  <2>1. m \in Nat /\ n \in Nat
    OBVIOUS
  <2>2. ~(<<m, n>>[1] < <<m, n>>[2])
    BY <1>2, <2>1
  <2> QED
    BY <2>1, <2>2
<1> QED
  BY <1>3

Pointer == [block : Block \cup {Null}, offset : Nat, text : Seq(Byte)]

\* The fields of one object tell the truth about its buffer.
Fits(h, s) ==
    /\ s \in StrType
    /\ s.length <= s.capacity
    /\ s.content = Null => s.capacity = 0
    /\ s.content # Null => /\ s.content \in h.live
                           /\ s.capacity <= Len(h.cells[s.content])

\* What a private function may do: it uses the buffer of its object and the
\* free block b, and leaves the object with one of them or with none.
Keeps(h, s, b, r) ==
    /\ r.heap \in HeapType
    /\ r.heap.sound
    /\ Fits(r.heap, r.str)
    /\ r.str.content \in {Null, s.content, b}
    /\ r.heap.live = (h.live \ {s.content}) \cup ({r.str.content} \ {Null})
    /\ \A c \in Block \ {s.content, b} : r.heap.cells[c] = h.cells[c]

-----------------------------------------------------------------------------
(* The heap *)

LEMMA SeqOfFunction ==
    ASSUME NEW S, NEW n \in Nat, NEW f \in [1..n -> S]
    PROVE  f \in Seq(S) /\ Len(f) = n
OBVIOUS

LEMMA RoundUpIsMore ==
    ASSUME NEW n \in Nat
    PROVE  RoundUp(n) \in Nat /\ n <= RoundUp(n)
<1>1. Unit \in Nat /\ Unit > 1
  BY UnitAssumption
<1>2. n \div Unit \in Nat /\ n = Unit * (n \div Unit) + (n % Unit) /\ n % Unit \in 0..(Unit - 1)
  BY <1>1
<1>3. (n \div Unit) * Unit \in Nat /\ (n \div Unit) * Unit = Unit * (n \div Unit)
  BY <1>1, <1>2
<1> QED
  BY <1>1, <1>2, <1>3 DEF RoundUp

LEMMA NewKeeps ==
    ASSUME NEW h \in HeapType, NEW b \in Block, NEW n \in Nat,
           b \notin h.live, h.sound
    PROVE  /\ New(h, b, n) \in HeapType
           /\ New(h, b, n).sound
           /\ New(h, b, n).live = h.live \cup {b}
           /\ Len(New(h, b, n).cells[b]) = n
           /\ \A c \in Block \ {b} : New(h, b, n).cells[c] = h.cells[c]
<1> DEFINE new == [i \in 1..n |-> Unset]
<1>1. new \in Seq(Cell) /\ Len(new) = n
  <2>1. new \in [1..n -> Cell]
    BY DEF Cell
  <2> QED
    BY <2>1, SeqOfFunction
<1> HIDE DEF new
<1>2. New(h, b, n) = [live |-> h.live \cup {b}, cells |-> [h.cells EXCEPT ![b] = new],
                      sound |-> h.sound /\ b \notin h.live]
  BY DEF New, new
<1> QED
  BY <1>1, <1>2 DEF HeapType

LEMMA DeleteKeeps ==
    ASSUME NEW h \in HeapType, NEW b \in Block \cup {Null},
           b # Null => b \in h.live, h.sound
    PROVE  /\ Delete(h, b) \in HeapType
           /\ Delete(h, b).sound
           /\ Delete(h, b).live = h.live \ {b}
           /\ \A c \in Block \ {b} : Delete(h, b).cells[c] = h.cells[c]
<1>1. <<>> \in Seq(Cell)
  OBVIOUS
<1>2. Null \notin h.live
  BY NullAssumption DEF HeapType
<1> QED
  BY <1>1, <1>2, NullAssumption DEF HeapType, Delete

LEMMA CellAtIsCell ==
    ASSUME NEW h \in HeapType, NEW p \in Pointer, NEW i \in Nat, i > 0
    PROVE  CellAt(h, p, i) \in Cell
<1>1. CASE ~Readable(h, p, i)
  BY <1>1 DEF CellAt, Cell
<1>2. CASE Readable(h, p, i) /\ p.block = Null
  <2>1. i <= Len(p.text) /\ p.text \in Seq(Byte)
    BY <1>2 DEF Readable, Pointer
  <2>2. p.text[i] \in Byte
    BY <2>1
  <2> QED
    BY <1>2, <2>2 DEF CellAt, Cell
<1>3. CASE Readable(h, p, i) /\ p.block # Null
  <2>1. p.block \in Block /\ p.offset + i <= Len(h.cells[p.block]) /\ p.offset \in Nat
    BY <1>3 DEF Readable, Pointer
  <2>2. h.cells[p.block] \in Seq(Cell)
    BY <2>1 DEF HeapType
  <2>3. h.cells[p.block][p.offset + i] \in Cell
    BY <2>1, <2>2
  <2> QED
    BY <1>3, <2>3 DEF CellAt
<1> QED
  BY <1>1, <1>2, <1>3

LEMMA MemcpyKeeps ==
    ASSUME NEW h \in HeapType, NEW b \in Block, NEW k \in Nat, NEW p \in Pointer,
           NEW n \in Nat, h.sound, b \in h.live, k + n <= Len(h.cells[b]),
           Readable(h, p, n), p.block = b => p.offset + n <= k \/ k + n <= p.offset
    PROVE  /\ Memcpy(h, b, k, p, n) \in HeapType
           /\ Memcpy(h, b, k, p, n).sound
           /\ Memcpy(h, b, k, p, n).live = h.live
           /\ Len(Memcpy(h, b, k, p, n).cells[b]) = Len(h.cells[b])
           /\ \A c \in Block \ {b} : Memcpy(h, b, k, p, n).cells[c] = h.cells[c]
<1> DEFINE old == h.cells[b]
           new == [i \in 1..Len(old) |->
                     IF k < i /\ i <= k + n THEN CellAt(h, p, i - k) ELSE old[i]]
<1>1. old \in Seq(Cell)
  BY DEF HeapType
<1>2. new \in Seq(Cell) /\ Len(new) = Len(old)
  <2>1. ASSUME NEW i \in 1..Len(old)
        PROVE  (IF k < i /\ i <= k + n THEN CellAt(h, p, i - k) ELSE old[i]) \in Cell
    <3>1. CASE k < i /\ i <= k + n
      <4>1. i - k \in Nat /\ i - k > 0
        BY <3>1
      <4> QED
        BY <3>1, <4>1, CellAtIsCell
    <3>2. CASE ~(k < i /\ i <= k + n)
      BY <3>2, <1>1, ElementOfSeq
    <3> QED
      BY <3>1, <3>2
  <2>2. new \in [1..Len(old) -> Cell]
    BY <2>1
  <2>3. Len(old) \in Nat
    BY <1>1
  <2> HIDE DEF new
  <2> QED
    BY <2>2, <2>3, SeqOfFunction
<1> HIDE DEF new
<1>4. Memcpy(h, b, k, p, n) =
        [live |-> h.live, cells |-> [h.cells EXCEPT ![b] = new], sound |-> TRUE]
  <2>1. [h.cells EXCEPT ![b] = new]
          = [h.cells EXCEPT ![b] = [i \in 1..Len(@) |->
               IF k < i /\ i <= k + n THEN CellAt(h, p, i - k) ELSE @[i]]]
    BY DEF new
  <2> QED
    BY <2>1 DEF Memcpy
<1> QED
  BY <1>2, <1>4 DEF HeapType

\* What may be read may still be read when other blocks have changed.
LEMMA StillReadable ==
    ASSUME NEW h \in HeapType, NEW g \in HeapType, NEW p \in Pointer, NEW n \in Nat,
           NEW b, Readable(h, p, n), b \notin h.live, h.live \subseteq g.live,
           \A c \in Block \ {b} : g.cells[c] = h.cells[c]
    PROVE  Readable(g, p, n)
BY DEF Readable, Pointer, HeapType

LEMMA OwnContent ==
    ASSUME NEW h \in HeapType, NEW s, Fits(h, s), s.content # Null
    PROVE  /\ At(s.content, 0) \in Pointer
           /\ Readable(h, At(s.content, 0), s.length)
           /\ At(s.content, 0).block = s.content /\ At(s.content, 0).offset = 0
<1>1. s.content \in Block /\ s.capacity \in Nat /\ s.length \in Nat
  BY DEF Fits, StrType
<1>2. <<>> \in Seq(Byte)
  OBVIOUS
<1>3. h.cells[s.content] \in Seq(Cell)
  BY <1>1 DEF HeapType
<1>4. Len(h.cells[s.content]) \in Nat
  BY <1>3
<1>5. s.length <= Len(h.cells[s.content]) /\ s.content \in h.live
  BY <1>1, <1>4 DEF Fits
<1>6. Null \notin h.live
  BY NullAssumption DEF HeapType
<1> QED
  BY <1>1, <1>2, <1>5, <1>6 DEF At, Pointer, Readable

-----------------------------------------------------------------------------
(* The private functions *)

LEMMA NothingKeeps ==
    ASSUME NEW h \in HeapType, h.sound, NEW s, Fits(h, s), NEW b \in Block
    PROVE  Keeps(h, s, b, Done(h, s))
<1>1. Null \notin h.live
  BY NullAssumption DEF HeapType
<1> QED
  BY <1>1 DEF Keeps, Done, Fits

LEMMA GrowKeeps ==
    ASSUME NEW h \in HeapType, h.sound, NEW s, Fits(h, s),
           NEW b \in Block \ h.live, NEW p \in Pointer, NEW n \in Nat, Readable(h, p, n)
    PROVE  Keeps(h, s, b, Grow(h, s, p, n, b))
<1> DEFINE total == n + s.length
           fresh == New(h, b, RoundUp(total))
           kept  == IF s.length > 0 THEN Memcpy(fresh, b, 0, At(s.content, 0), s.length)
                    ELSE fresh
           full  == Memcpy(kept, b, s.length, p, n)
           last  == Delete(full, s.content)
<1>1. /\ s.content \in Block \cup {Null} /\ s.capacity \in Nat /\ s.length \in Nat
      /\ s.length <= s.capacity
      /\ s.content = Null => s.length = 0
      /\ s.content # Null => s.content \in h.live
  BY DEF Fits, StrType
<1>2. total \in Nat /\ RoundUp(total) \in Nat /\ total <= RoundUp(total)
  BY <1>1, RoundUpIsMore
<1>3. /\ fresh \in HeapType /\ fresh.sound /\ fresh.live = h.live \cup {b}
      /\ Len(fresh.cells[b]) = RoundUp(total)
      /\ \A c \in Block \ {b} : fresh.cells[c] = h.cells[c]
  <2> HIDE DEF total
  <2> QED
    BY <1>2, NewKeeps
<1>4. /\ kept \in HeapType /\ kept.sound /\ kept.live = h.live \cup {b}
      /\ Len(kept.cells[b]) = RoundUp(total)
      /\ \A c \in Block \ {b} : kept.cells[c] = h.cells[c]
  <2> HIDE DEF fresh, total
  <2>1. CASE s.length > 0
    <3>1. s.content # Null
      BY <2>1, <1>1
    <3>2. /\ At(s.content, 0) \in Pointer
          /\ Readable(h, At(s.content, 0), s.length)
          /\ At(s.content, 0).block = s.content
      BY <3>1, OwnContent
    <3>3. Readable(fresh, At(s.content, 0), s.length)
      BY <3>2, <1>1, <1>3, StillReadable
    <3>4. s.content # b
      BY <3>1, <1>1
    <3>5. 0 + s.length <= Len(fresh.cells[b]) /\ b \in fresh.live
      BY <1>1, <1>2, <1>3 DEF total
    <3>6. kept = Memcpy(fresh, b, 0, At(s.content, 0), s.length)
      BY <2>1
    <3> HIDE DEF kept
    <3>7. At(s.content, 0).block # b
      BY <3>2, <3>4
    <3> DEFINE q == At(s.content, 0)
               m == Memcpy(fresh, b, 0, q, s.length)
    <3>8. /\ fresh \in HeapType /\ fresh.sound /\ b \in Block /\ b \in fresh.live
          /\ q \in Pointer /\ s.length \in Nat /\ 0 \in Nat
          /\ 0 + s.length <= Len(fresh.cells[b]) /\ Readable(fresh, q, s.length)
          /\ q.block # b
      BY <1>1, <1>3, <3>2, <3>3, <3>5, <3>7
    <3> HIDE DEF q
    <3>9. /\ m \in HeapType /\ m.sound /\ m.live = fresh.live
          /\ Len(m.cells[b]) = Len(fresh.cells[b])
          /\ \A c \in Block \ {b} : m.cells[c] = fresh.cells[c]
      BY <3>8, MemcpyKeeps
    <3> HIDE DEF m
    <3>10. kept = m
      BY <3>6 DEF m, q
    <3> QED
      BY <1>3, <3>9, <3>10
  <2>2. CASE ~(s.length > 0)
    BY <2>2, <1>3
  <2> QED
    BY <2>1, <2>2
<1>5. /\ full \in HeapType /\ full.sound /\ full.live = h.live \cup {b}
      /\ Len(full.cells[b]) = RoundUp(total)
      /\ \A c \in Block \ {b} : full.cells[c] = h.cells[c]
  <2> HIDE DEF kept, total
  <2>1. Readable(kept, p, n)
    BY <1>4, StillReadable
  <2>2. p.block # b
    BY NullAssumption DEF Readable
  <2>3. s.length + n <= Len(kept.cells[b]) /\ b \in kept.live
    BY <1>1, <1>2, <1>4 DEF total
  <2> QED
    BY <1>1, <1>4, <2>1, <2>2, <2>3, MemcpyKeeps, SMTT(40)
<1>6. /\ last \in HeapType /\ last.sound
      /\ last.live = (h.live \cup {b}) \ {s.content}
      /\ \A c \in Block \ {s.content} : last.cells[c] = full.cells[c]
  <2> HIDE DEF full
  <2> QED
    BY <1>1, <1>5, DeleteKeeps
<1>7. Grow(h, s, p, n, b)
        = Done(last, [content |-> b, capacity |-> RoundUp(total), length |-> total])
  BY DEF Grow
<1> HIDE DEF last, full, kept, fresh
<1>8. b # s.content /\ b # Null
  BY <1>1, NullAssumption
<1>9. Fits(last, [content |-> b, capacity |-> RoundUp(total), length |-> total])
  <2> HIDE DEF total
  <2> QED
    BY <1>2, <1>5, <1>6, <1>8 DEF Fits, StrType
<1> HIDE DEF total
<1>10. \A c \in Block \ {s.content, b} : last.cells[c] = h.cells[c]
  BY <1>5, <1>6
<1>11. last.live = (h.live \ {s.content}) \cup ({b} \ {Null})
  BY <1>6, <1>8
<1> QED
  BY <1>6, <1>7, <1>9, <1>10, <1>11 DEF Keeps, Done

LEMMA AppendInPlaceKeeps ==
    ASSUME NEW h \in HeapType, h.sound, NEW s, Fits(h, s),
           NEW b \in Block, NEW p \in Pointer, NEW n \in Nat, Readable(h, p, n),
           p.block = s.content => p.block = Null \/ p.offset + n <= s.length,
           n + s.length <= s.capacity
    PROVE  /\ Keeps(h, s, b, _append(h, s, p, n, b))
           /\ _append(h, s, p, n, b).str.length <= n + s.length
           /\ _append(h, s, p, n, b).str.capacity = s.capacity
           /\ _append(h, s, p, n, b).str.content = s.content
<1>0. s.length \in Nat /\ s.capacity \in Nat
  BY DEF Fits, StrType
<1>1. CASE n = 0 \/ p = At(Null, 0)
  <2>1. _append(h, s, p, n, b) = Done(h, s)
    BY <1>1 DEF _append
  <2>2. Done(h, s).str = s
    BY DEF Done
  <2> QED
    BY <1>0, <2>1, <2>2, NothingKeeps
<1>2. CASE ~(n = 0 \/ p = At(Null, 0))
  <2> DEFINE g == Memcpy(h, s.content, s.length, p, n)
             t == [s EXCEPT !.length = n + @]
  <2>1. _append(h, s, p, n, b) = Done(g, t)
    BY <1>0, <1>2 DEF _append
  <2>2. /\ s.content \in Block \cup {Null} /\ s.capacity \in Nat /\ s.length \in Nat
        /\ s.content = Null => s.capacity = 0
        /\ s.content # Null => s.content \in h.live
                               /\ s.capacity <= Len(h.cells[s.content])
        /\ s \in StrType
    BY DEF Fits, StrType
  <2>3. s.content # Null /\ n + s.length <= s.capacity
    BY <1>0, <1>2, <2>2
  <2>4. Len(h.cells[s.content]) \in Nat
    <3>1. h.cells[s.content] \in Seq(Cell)
      BY <2>2, <2>3 DEF HeapType
    <3> QED
      BY <3>1
  <2>5. s.length + n <= Len(h.cells[s.content])
    BY <2>2, <2>3, <2>4
  <2>6. p.block = s.content => p.offset + n <= s.length
    BY <2>3
  <2>7. /\ g \in HeapType /\ g.sound /\ g.live = h.live
        /\ Len(g.cells[s.content]) = Len(h.cells[s.content])
        /\ \A c \in Block \ {s.content} : g.cells[c] = h.cells[c]
    BY <2>2, <2>3, <2>5, <2>6, MemcpyKeeps, SMTT(40)
  <2> HIDE DEF g
  <2>8. /\ t \in StrType /\ t.content = s.content /\ t.capacity = s.capacity
        /\ t.length = n + s.length
    BY <2>2 DEF StrType
  <2> HIDE DEF t
  <2>9. Fits(g, t)
    BY <2>2, <2>3, <2>7, <2>8 DEF Fits
  <2>10. Null \notin h.live
    BY NullAssumption DEF HeapType
  <2>11. Keeps(h, s, b, Done(g, t))
    BY <2>2, <2>3, <2>7, <2>8, <2>9, <2>10 DEF Keeps, Done
  <2>12. Done(g, t).str = t
    BY DEF Done
  <2> QED
    BY <2>1, <2>2, <2>8, <2>11, <2>12
<1> QED
  BY <1>1, <1>2

LEMMA AppendKeeps ==
    ASSUME NEW h \in HeapType, h.sound, NEW s, Fits(h, s),
           NEW b \in Block \ h.live, NEW p \in Pointer, NEW n \in Nat, Readable(h, p, n),
           p.block = s.content => p.block = Null \/ p.offset + n <= s.length
    PROVE  Keeps(h, s, b, _append(h, s, p, n, b))
<1>1. CASE n = 0 \/ p = At(Null, 0)
  <2>1. _append(h, s, p, n, b) = Done(h, s)
    BY <1>1 DEF _append
  <2> QED
    BY <2>1, NothingKeeps
<1>2. CASE ~(n = 0 \/ p = At(Null, 0)) /\ n + s.length > s.capacity
  <2>1. _append(h, s, p, n, b) = Grow(h, s, p, n, b)
    BY <1>2 DEF _append
  <2> QED
    BY <2>1, GrowKeeps
<1>3. CASE ~(n + s.length > s.capacity)
  BY <1>3, AppendInPlaceKeeps DEF Fits, StrType
<1> QED
  BY <1>1, <1>2, <1>3

LEMMA EmptyFits ==
    ASSUME NEW h
    PROVE  Fits(h, Empty) /\ Empty.content = Null
BY DEF Fits, Empty, StrType

LEMMA RecapKeeps ==
    ASSUME NEW h \in HeapType, h.sound, NEW s, Fits(h, s),
           NEW b \in Block \ h.live, NEW n \in Nat
    PROVE  /\ Keeps(h, s, b, _recap(h, s, n, b))
           /\ _recap(h, s, n, b).str.length = 0
           /\ n <= _recap(h, s, n, b).str.capacity
           /\ _recap(h, s, n, b).str.content = IF n = 0 THEN Null ELSE b
<1> DEFINE freed == Delete(h, s.content)
           fresh == New(freed, b, AtLeastUnit(n))
<1>1. /\ s.content \in Block \cup {Null}
      /\ s.content # Null => s.content \in h.live
  BY DEF Fits, StrType
<1>2. /\ freed \in HeapType /\ freed.sound /\ freed.live = h.live \ {s.content}
      /\ \A c \in Block \ {s.content} : freed.cells[c] = h.cells[c]
  BY <1>1, DeleteKeeps
<1>3. AtLeastUnit(n) \in Nat /\ n <= AtLeastUnit(n)
  BY UnitAssumption DEF AtLeastUnit
<1> HIDE DEF freed
<1>4. /\ fresh \in HeapType /\ fresh.sound /\ fresh.live = freed.live \cup {b}
      /\ Len(fresh.cells[b]) = AtLeastUnit(n)
      /\ \A c \in Block \ {b} : fresh.cells[c] = freed.cells[c]
  BY <1>2, <1>3, NewKeeps
<1> HIDE DEF fresh
<1>5. CASE n = 0
  <2>1. _recap(h, s, n, b) = Done(freed, Empty)
    BY <1>5 DEF _recap, freed
  <2>2. Keeps(h, s, b, Done(freed, Empty))
    BY <1>2, EmptyFits DEF Keeps, Done
  <2> QED
    BY <1>5, <2>1, <2>2 DEF Done, Empty
<1>6. CASE n # 0
  <2> DEFINE t == [content |-> b, capacity |-> AtLeastUnit(n), length |-> 0]
  <2>1. _recap(h, s, n, b) = Done(fresh, t)
    BY <1>6 DEF _recap, fresh, freed
  <2>2. b # Null
    BY NullAssumption
  <2>3. Fits(fresh, t)
    BY <1>3, <1>4, <2>2 DEF Fits, StrType
  <2>4. Keeps(h, s, b, Done(fresh, t))
    BY <1>2, <1>4, <2>2, <2>3 DEF Keeps, Done
  <2> QED
    BY <1>3, <1>6, <2>1, <2>4 DEF Done
<1> QED
  BY <1>5, <1>6

LEMMA SetKeeps ==
    ASSUME NEW h \in HeapType, h.sound, NEW s, Fits(h, s),
           NEW b \in Block \ h.live, NEW p \in Pointer, NEW n \in Nat, Readable(h, p, n),
           p.block = s.content => p.block = Null
    PROVE  Keeps(h, s, b, _set(h, s, p, n, b))
<1> DEFINE roomy == IF s.content = Null \/ n > s.capacity THEN _recap(h, s, n, b)
                    ELSE Done(h, s)
           c == roomy.str.content
           g == Memcpy(roomy.heap, c, 0, p, n)
           t == [roomy.str EXCEPT !.length = n]
<1>1. CASE n = 0
  <2>1. _set(h, s, p, n, b) = Done(h, [s EXCEPT !.length = 0])
    BY <1>1 DEF _set
  <2>2. Fits(h, [s EXCEPT !.length = 0])
    BY DEF Fits, StrType
  <2>3. [s EXCEPT !.length = 0].content = s.content
    BY DEF Fits, StrType
  <2>4. Null \notin h.live
    BY NullAssumption DEF HeapType
  <2>5. s.content # Null => s.content \in h.live
    BY DEF Fits
  <2> DEFINE u == [s EXCEPT !.length = 0]
  <2> HIDE DEF u
  <2>6. Fits(h, u) /\ u.content = s.content
    BY <2>2, <2>3 DEF u
  <2>7. Keeps(h, s, b, Done(h, u))
    BY <2>4, <2>5, <2>6 DEF Keeps, Done
  <2> QED
    BY <2>1, <2>7 DEF u
<1>2. CASE n # 0
  <2>1. _set(h, s, p, n, b) = Done(g, t)
    BY <1>2 DEF _set
  <2>2. /\ s.content \in Block \cup {Null} /\ s.capacity \in Nat
    BY DEF Fits, StrType
  <2>3. Keeps(h, s, b, roomy) /\ n <= roomy.str.capacity
    <3>1. CASE s.content = Null \/ n > s.capacity
      BY <3>1, RecapKeeps
    <3>2. CASE ~(s.content = Null \/ n > s.capacity)
      <4>1. roomy = Done(h, s) /\ n <= s.capacity
        BY <3>2, <2>2
      <4> HIDE DEF roomy
      <4>2. roomy.str.capacity = s.capacity
        BY <4>1 DEF Done
      <4> QED
        BY <4>1, <4>2, NothingKeeps
    <3> QED
      BY <3>1, <3>2
  <2> HIDE DEF roomy
  <2>4. /\ roomy.heap \in HeapType /\ roomy.heap.sound /\ Fits(roomy.heap, roomy.str)
        /\ c \in {Null, s.content, b}
        /\ roomy.heap.live = (h.live \ {s.content}) \cup ({c} \ {Null})
        /\ \A d \in Block \ {s.content, b} : roomy.heap.cells[d] = h.cells[d]
    BY <2>3 DEF Keeps
  <2>5. /\ roomy.str \in StrType /\ roomy.str.capacity \in Nat /\ c \in Block \cup {Null}
        /\ c = Null => roomy.str.capacity = 0
        /\ c # Null => c \in roomy.heap.live
                       /\ roomy.str.capacity <= Len(roomy.heap.cells[c])
    BY <2>4 DEF Fits, StrType
  <2>6. c # Null /\ c \in Block /\ c \in roomy.heap.live
    BY <1>2, <2>3, <2>5
  <2>7. Len(roomy.heap.cells[c]) \in Nat
    <3> HIDE DEF c
    <3>1. roomy.heap.cells[c] \in Seq(Cell)
      BY <2>4, <2>6 DEF HeapType
    <3> QED
      BY <3>1, LenProperties
  <2>8. 0 + n <= Len(roomy.heap.cells[c])
    BY <2>3, <2>5, <2>6, <2>7
  <2>9. Readable(roomy.heap, p, n) /\ p.block # c
    <3>1. CASE p.block = Null
      BY <3>1, <2>6 DEF Readable
    <3>2. CASE p.block # Null
      <4>1. p.block \in h.live /\ p.block # s.content /\ p.block # b /\ p.block \in Block
        BY <3>2 DEF Readable, Pointer
      <4>2. p.block # c /\ p.block \in roomy.heap.live
        BY <4>1, <2>4, <2>6
      <4>3. roomy.heap.cells[p.block] = h.cells[p.block]
        BY <4>1, <2>4
      <4> QED
        BY <3>2, <4>2, <4>3 DEF Readable
    <3> QED
      BY <3>1, <3>2
  <2>10. /\ g \in HeapType /\ g.sound /\ g.live = roomy.heap.live
         /\ Len(g.cells[c]) = Len(roomy.heap.cells[c])
         /\ \A d \in Block \ {c} : g.cells[d] = roomy.heap.cells[d]
    <3> HIDE DEF c
    <3> QED
      BY <2>4, <2>6, <2>8, <2>9, MemcpyKeeps, SMTT(40)
  <2> HIDE DEF g
  <2>11. /\ t \in StrType /\ t.content = c /\ t.capacity = roomy.str.capacity
         /\ t.length = n
    BY <2>5 DEF StrType
  <2> HIDE DEF t
  <2>12. Fits(g, t)
    BY <2>3, <2>5, <2>6, <2>10, <2>11 DEF Fits
  <2> HIDE DEF c
  <2>13. \A d \in Block \ {s.content, b} : g.cells[d] = h.cells[d]
    <3> TAKE d \in Block \ {s.content, b}
    <3>1. d \in Block \ {c}
      BY <2>4, <2>6
    <3> QED
      BY <2>4, <2>10, <3>1
  <2> QED
    BY <2>1, <2>4, <2>10, <2>11, <2>12, <2>13 DEF Keeps, Done
<1> QED
  BY <1>1, <1>2

LEMMA RecapHoldKeeps ==
    ASSUME NEW h \in HeapType, h.sound, NEW s, Fits(h, s),
           NEW b \in Block \ h.live, NEW n \in Nat
    PROVE  Keeps(h, s, b, _recap_hold(h, s, n, b))
<1>1. /\ s.content \in Block \cup {Null} /\ s.capacity \in Nat /\ s.length \in Nat
      /\ s \in StrType
      /\ s.content # Null => s.content \in h.live
  BY DEF Fits, StrType
<1>2. Null \notin h.live
  BY NullAssumption DEF HeapType
<1>3. CASE n = 0
  <2>1. _recap_hold(h, s, n, b) = Done(Delete(h, s.content), Empty)
    BY <1>3 DEF _recap_hold
  <2> DEFINE g == Delete(h, s.content)
  <2>2. /\ g \in HeapType /\ g.sound /\ g.live = h.live \ {s.content}
        /\ \A c \in Block \ {s.content} : g.cells[c] = h.cells[c]
    BY <1>1, DeleteKeeps
  <2> HIDE DEF g
  <2>3. Keeps(h, s, b, Done(g, Empty))
    BY <2>2, EmptyFits DEF Keeps, Done
  <2> QED
    BY <2>1, <2>3 DEF g
<1>4. CASE n # 0 /\ n <= s.capacity
  <2> DEFINE t == [s EXCEPT !.length = n]
  <2>1. _recap_hold(h, s, n, b) = Done(h, t)
    BY <1>4 DEF _recap_hold
  <2>2. t \in StrType /\ t.content = s.content /\ t.capacity = s.capacity /\ t.length = n
    BY <1>1 DEF StrType
  <2> HIDE DEF t
  <2>3. Fits(h, t)
    BY <1>4, <2>2 DEF Fits
  <2>4. Keeps(h, s, b, Done(h, t))
    BY <1>1, <1>2, <2>2, <2>3 DEF Keeps, Done
  <2> QED
    BY <2>1, <2>4
<1>5. CASE n # 0 /\ ~(n <= s.capacity)
  <2> DEFINE cap   == AtLeastUnit(n)
             fresh == New(h, b, cap)
             q     == At(s.content, 0)
             k     == Least(cap, s.length)
             m     == Memcpy(fresh, b, 0, q, k)
             freed == Delete(m, s.content)
             g     == IF s.content = Null THEN fresh ELSE freed
             t     == [content |-> b, capacity |-> cap, length |-> n]
  <2>1. _recap_hold(h, s, n, b) = Done(g, t)
    BY <1>5 DEF _recap_hold
  <2>2. cap \in Nat /\ n <= cap
    BY UnitAssumption DEF AtLeastUnit
  <2>3. k \in Nat /\ k <= cap /\ k <= s.length
    <3> HIDE DEF cap
    <3> QED
      BY <1>1, <2>2 DEF Least
  <2> HIDE DEF k, cap
  <2>4. /\ fresh \in HeapType /\ fresh.sound /\ fresh.live = h.live \cup {b}
        /\ Len(fresh.cells[b]) = cap
        /\ \A c \in Block \ {b} : fresh.cells[c] = h.cells[c]
    BY <2>2, NewKeeps
  <2>5. b # s.content /\ b # Null
    BY <1>1, NullAssumption
  <2> HIDE DEF fresh
  <2>6. /\ g \in HeapType /\ g.sound /\ g.live = (h.live \cup {b}) \ {s.content}
        /\ Len(g.cells[b]) = cap
        /\ \A c \in Block \ {s.content, b} : g.cells[c] = h.cells[c]
    <3>1. CASE s.content = Null
      <4>1. g = fresh
        BY <3>1
      <4> HIDE DEF g
      <4> QED
        BY <1>2, <2>4, <2>5, <3>1, <4>1
    <3>2. CASE s.content # Null
      <4>1. q \in Pointer /\ Readable(h, q, s.length) /\ q.block = s.content /\ q.offset = 0
        BY <3>2, OwnContent
      <4> HIDE DEF q
      <4>2. Readable(h, q, k)
        <5>1. s.content \in Block
          BY <1>1, <3>2
        <5>2. h.cells[s.content] \in Seq(Cell)
          BY <5>1 DEF HeapType
        <5>3. Len(h.cells[s.content]) \in Nat
          BY <5>2
        <5> QED
          BY <1>1, <2>3, <3>2, <4>1, <5>3 DEF Readable
      <4>3. Readable(fresh, q, k)
        BY <2>3, <2>4, <4>1, <4>2, StillReadable
      <4>4. /\ fresh \in HeapType /\ fresh.sound /\ b \in Block /\ b \in fresh.live
            /\ 0 \in Nat /\ 0 + k <= Len(fresh.cells[b]) /\ q.block # b
        BY <2>3, <2>4, <2>5, <4>1
      <4>5. /\ m \in HeapType /\ m.sound /\ m.live = fresh.live
            /\ Len(m.cells[b]) = Len(fresh.cells[b])
            /\ \A c \in Block \ {b} : m.cells[c] = fresh.cells[c]
        BY <2>3, <4>1, <4>3, <4>4, MemcpyKeeps
      <4> HIDE DEF m
      <4>6. /\ freed \in HeapType /\ freed.sound /\ freed.live = m.live \ {s.content}
            /\ \A c \in Block \ {s.content} : freed.cells[c] = m.cells[c]
        BY <1>1, <2>4, <4>5, DeleteKeeps
      <4>7. g = freed
        BY <3>2
      <4> HIDE DEF g, freed
      <4> QED
        BY <2>4, <2>5, <4>5, <4>6, <4>7
    <3> QED
      BY <3>1, <3>2
  <2> HIDE DEF g
  <2>7. Fits(g, t)
    BY <2>2, <2>5, <2>6 DEF Fits, StrType
  <2>8. g.live = (h.live \ {s.content}) \cup ({b} \ {Null})
    BY <2>5, <2>6
  <2>9. Keeps(h, s, b, Done(g, t))
    BY <2>6, <2>7, <2>8 DEF Keeps, Done
  <2> QED
    BY <2>1, <2>9
<1> QED
  BY <1>1, <1>3, <1>4, <1>5

LEMMA MemsetKeeps ==
    ASSUME NEW h \in HeapType, NEW b \in Block, NEW c \in Byte, NEW n \in Nat,
           h.sound, b \in h.live, n <= Len(h.cells[b])
    PROVE  /\ Memset(h, b, c, n) \in HeapType
           /\ Memset(h, b, c, n).sound
           /\ Memset(h, b, c, n).live = h.live
           /\ Len(Memset(h, b, c, n).cells[b]) = Len(h.cells[b])
           /\ \A d \in Block \ {b} : Memset(h, b, c, n).cells[d] = h.cells[d]
<1> DEFINE old == h.cells[b]
           new == [i \in 1..Len(old) |-> IF i <= n THEN c ELSE old[i]]
<1>1. old \in Seq(Cell) /\ Len(old) \in Nat
  <2>1. old \in Seq(Cell)
    BY DEF HeapType
  <2> QED
    BY <2>1
<1>2. new \in Seq(Cell) /\ Len(new) = Len(old)
  <2>1. ASSUME NEW i \in 1..Len(old) PROVE (IF i <= n THEN c ELSE old[i]) \in Cell
    <3>1. old[i] \in Cell
      BY <1>1, <2>1, ElementOfSeq
    <3> QED
      BY <3>1 DEF Cell
  <2>2. new \in [1..Len(old) -> Cell]
    BY <2>1
  <2> HIDE DEF new
  <2> QED
    BY <1>1, <2>2, SeqOfFunction
<1>3. Memset(h, b, c, n) =
        [live |-> h.live, cells |-> [h.cells EXCEPT ![b] = new], sound |-> TRUE]
  <2>1. [h.cells EXCEPT ![b] = new]
          = [h.cells EXCEPT ![b] = [i \in 1..Len(@) |-> IF i <= n THEN c ELSE @[i]]]
    OBVIOUS
  <2> QED
    BY <2>1 DEF Memset
<1> HIDE DEF new
<1> QED
  BY <1>2, <1>3 DEF HeapType

-----------------------------------------------------------------------------
(* What the strings hold: where the bytes go in the private functions.      *)

LEMMA SameText ==
    ASSUME NEW S, NEW s \in Seq(S), NEW t \in Seq(S), Len(s) = Len(t),
           \A i \in 1..Len(s) : s[i] = t[i]
    PROVE  s = t
BY SeqEqual

\* w lies in block c behind the first k cells.
Lies(h, c, k, w) ==
    /\ w \in Seq(Cell)
    /\ \A i \in 1..Len(w) : h.cells[c][k + i] = w[i]

\* The fields and the buffer of an object hold v.
Holds(h, s, v) == Len(v) = s.length /\ Lies(h, s.content, 0, v)

\* The n cells behind p are w.
Shows(h, p, n, w) ==
    /\ Readable(h, p, n)
    /\ w \in Seq(Cell)
    /\ Len(w) = n
    /\ \A i \in 1..n : CellAt(h, p, i) = w[i]

\* A part of what may be read may be read.
LEMMA LessReadable ==
    ASSUME NEW h \in HeapType, NEW p \in Pointer, NEW n \in Nat, NEW i \in 0..n,
           Readable(h, p, n)
    PROVE  Readable(h, p, i)
<1>1. CASE p.block = Null
  <2>1. Len(p.text) \in Nat
    BY DEF Pointer
  <2> QED
    BY <1>1, <2>1 DEF Readable
<1>2. CASE p.block # Null
  <2>1. p.block \in Block /\ p.offset \in Nat
    BY <1>2 DEF Pointer
  <2>2. h.cells[p.block] \in Seq(Cell)
    BY <2>1 DEF HeapType
  <2>3. Len(h.cells[p.block]) \in Nat
    BY <2>2
  <2> QED
    BY <1>2, <2>1, <2>3 DEF Readable
<1> QED
  BY <1>1, <1>2

LEMMA StillShows ==
    ASSUME NEW h \in HeapType, NEW g \in HeapType, NEW p \in Pointer, NEW n \in Nat,
           NEW b, NEW w, Shows(h, p, n, w), b \notin h.live, h.live \subseteq g.live,
           \A c \in Block \ {b} : g.cells[c] = h.cells[c]
    PROVE  Shows(g, p, n, w)
<1>1. Readable(h, p, n) /\ Readable(g, p, n)
  BY StillReadable DEF Shows
<1>2. ASSUME NEW i \in 1..n PROVE CellAt(g, p, i) = CellAt(h, p, i)
  <2>1. Readable(h, p, i) /\ Readable(g, p, i)
    BY <1>1, LessReadable
  <2>2. p.block # Null => p.block \in Block \ {b}
    BY <1>1 DEF Readable, Pointer
  <2> QED
    BY <2>1, <2>2 DEF CellAt
<1> QED
  BY <1>1, <1>2 DEF Shows

LEMMA MemcpyCopies ==
    ASSUME NEW h \in HeapType, NEW b \in Block, NEW k \in Nat, NEW p \in Pointer,
           NEW n \in Nat, NEW w, Shows(h, p, n, w), k + n <= Len(h.cells[b])
    PROVE  Lies(Memcpy(h, b, k, p, n), b, k, w)
<1> DEFINE old == h.cells[b]
           new == [i \in 1..Len(old) |->
                     IF k < i /\ i <= k + n THEN CellAt(h, p, i - k) ELSE old[i]]
<1>1. old \in Seq(Cell)
  BY DEF HeapType
<1>2. Len(old) \in Nat /\ k + n <= Len(old)
  BY <1>1
<1>3. Memcpy(h, b, k, p, n).cells[b] = new
  BY DEF Memcpy, HeapType
<1>4. ASSUME NEW i \in 1..n PROVE new[k + i] = w[i]
  <2>1. k + i \in 1..Len(old) /\ k < k + i /\ k + i <= k + n /\ (k + i) - k = i
    BY <1>2
  <2>2. new[k + i] = CellAt(h, p, i)
    BY <2>1
  <2> QED
    BY <2>2 DEF Shows
<1> HIDE DEF new
<1> QED
  BY <1>3, <1>4 DEF Lies, Shows

LEMMA MemcpyLeaves ==
    ASSUME NEW h \in HeapType, NEW b \in Block, NEW k \in Nat, NEW p, NEW n \in Nat,
           NEW v, Len(v) <= k, Lies(h, b, 0, v), k + n <= Len(h.cells[b])
    PROVE  Lies(Memcpy(h, b, k, p, n), b, 0, v)
<1> DEFINE old == h.cells[b]
           new == [i \in 1..Len(old) |->
                     IF k < i /\ i <= k + n THEN CellAt(h, p, i - k) ELSE old[i]]
<1>1. old \in Seq(Cell) /\ v \in Seq(Cell)
  BY DEF HeapType, Lies
<1>2. Len(old) \in Nat /\ k + n <= Len(old) /\ Len(v) \in Nat
  BY <1>1
<1>3. Memcpy(h, b, k, p, n).cells[b] = new
  BY DEF Memcpy, HeapType
<1>4. ASSUME NEW i \in 1..Len(v) PROVE new[0 + i] = v[i]
  <2>1. 0 + i = i /\ i \in 1..Len(old) /\ ~(k < i)
    BY <1>2
  <2>2. new[i] = old[i] /\ old[0 + i] = v[i]
    BY <2>1 DEF Lies
  <2> QED
    BY <2>1, <2>2
<1> HIDE DEF new
<1> QED
  BY <1>1, <1>3, <1>4 DEF Lies

\* What is there and what lies behind it.
LEMMA LiesBoth ==
    ASSUME NEW h, NEW c, NEW v, NEW w, Lies(h, c, 0, v), Lies(h, c, Len(v), w)
    PROVE  Lies(h, c, 0, v \o w) /\ Len(v \o w) = Len(v) + Len(w)
<1>1. v \in Seq(Cell) /\ w \in Seq(Cell)
  BY DEF Lies
<1>2. /\ Len(v) \in Nat /\ Len(w) \in Nat
      /\ v \o w \in Seq(Cell) /\ Len(v \o w) = Len(v) + Len(w)
      /\ \A i \in 1..(Len(v) + Len(w)) :
            (v \o w)[i] = IF i <= Len(v) THEN v[i] ELSE w[i - Len(v)]
  BY <1>1, ConcatProperties
<1>3. ASSUME NEW i \in 1..(Len(v) + Len(w)) PROVE h.cells[c][0 + i] = (v \o w)[i]
  <2>1. CASE i <= Len(v)
    <3>1. i \in 1..Len(v)
      BY <1>2, <2>1
    <3> QED
      BY <1>2, <2>1, <3>1 DEF Lies
  <2>2. CASE ~(i <= Len(v))
    <3>1. i - Len(v) \in 1..Len(w) /\ Len(v) + (i - Len(v)) = 0 + i
      BY <1>2, <2>2
    <3>2. h.cells[c][Len(v) + (i - Len(v))] = w[i - Len(v)]
      BY <3>1 DEF Lies
    <3> QED
      BY <1>2, <2>2, <3>1, <3>2
  <2> QED
    BY <2>1, <2>2
<1> QED
  BY <1>2, <1>3 DEF Lies

\* Only the cells of the block matter.
LEMMA LiesThere ==
    ASSUME NEW g, NEW h, NEW c, NEW k, NEW w, Lies(h, c, k, w), g.cells[c] = h.cells[c]
    PROVE  Lies(g, c, k, w)
BY DEF Lies

LEMMA OwnShows ==
    ASSUME NEW h \in HeapType, NEW s, Fits(h, s), s.content # Null,
           NEW v, Holds(h, s, v)
    PROVE  Shows(h, At(s.content, 0), s.length, v)
<1> DEFINE q == At(s.content, 0)
<1>1. /\ q \in Pointer /\ Readable(h, q, s.length) /\ q.block = s.content /\ q.offset = 0
      /\ s.length \in Nat
  BY OwnContent DEF Fits, StrType
<1> HIDE DEF q
<1>2. ASSUME NEW i \in 1..s.length PROVE CellAt(h, q, i) = v[i]
  <2>1. Readable(h, q, i)
    BY <1>1, LessReadable
  <2>2. CellAt(h, q, i) = h.cells[s.content][0 + i]
    BY <1>1, <2>1 DEF CellAt
  <2> QED
    BY <2>2 DEF Holds, Lies
<1>3. Shows(h, q, s.length, v)
  BY <1>1, <1>2 DEF Shows, Holds, Lies
<1> QED
  BY <1>3 DEF q

LEMMA GrowHolds ==
    ASSUME NEW h \in HeapType, h.sound, NEW s, Fits(h, s),
           NEW b \in Block \ h.live, NEW p \in Pointer, NEW n \in Nat,
           NEW v, Holds(h, s, v), NEW w, Shows(h, p, n, w)
    PROVE  Holds(Grow(h, s, p, n, b).heap, Grow(h, s, p, n, b).str, v \o w)
<1> DEFINE total == n + s.length
           fresh == New(h, b, RoundUp(total))
           q     == At(s.content, 0)
           copy  == Memcpy(fresh, b, 0, q, s.length)
           kept  == IF s.length > 0 THEN copy ELSE fresh
           full  == Memcpy(kept, b, s.length, p, n)
           last  == Delete(full, s.content)
           t     == [content |-> b, capacity |-> RoundUp(total), length |-> total]
<1>1. /\ s.content \in Block \cup {Null} /\ s.capacity \in Nat /\ s.length \in Nat
      /\ s.length <= s.capacity
      /\ s.content = Null => s.length = 0
      /\ s.content # Null => s.content \in h.live
      /\ b # s.content /\ b # Null /\ b \in Block
  BY NullAssumption DEF Fits, StrType
<1>2. total \in Nat /\ RoundUp(total) \in Nat /\ total <= RoundUp(total)
  BY <1>1, RoundUpIsMore
<1>3. /\ v \in Seq(Cell) /\ Len(v) = s.length /\ w \in Seq(Cell) /\ Len(w) = n
  BY DEF Holds, Shows, Lies
<1>4. Grow(h, s, p, n, b) = Done(last, t)
  BY DEF Grow
<1>5. t.content = b /\ t.length = Len(v) + Len(w)
  BY <1>1, <1>3
<1>6. s.length + n <= RoundUp(total)
  BY <1>1, <1>2
<1> HIDE DEF total
<1>7. /\ fresh \in HeapType /\ fresh.sound /\ fresh.live = h.live \cup {b}
      /\ Len(fresh.cells[b]) = RoundUp(total)
      /\ \A c \in Block \ {b} : fresh.cells[c] = h.cells[c]
  BY <1>2, NewKeeps
<1> HIDE DEF t, last, full, kept, copy, q, fresh
<1>8. /\ kept \in HeapType /\ kept.sound /\ kept.live = h.live \cup {b}
      /\ Len(kept.cells[b]) = RoundUp(total)
      /\ \A c \in Block \ {b} : kept.cells[c] = h.cells[c]
      /\ Lies(kept, b, 0, v)
  <2>1. CASE s.length > 0
    <3>1. Shows(h, q, s.length, v) /\ q \in Pointer /\ q.block # b
      BY <1>1, <2>1, OwnShows, OwnContent DEF q
    <3>2. Shows(fresh, q, s.length, v)
      BY <1>1, <1>7, <3>1, StillShows
    <3> DEFINE k == 0
    <3>3. k + s.length <= Len(fresh.cells[b]) /\ k \in Nat /\ b \in fresh.live
      BY <1>1, <1>2, <1>6, <1>7
    <3>4. copy = Memcpy(fresh, b, k, q, s.length)
      BY DEF copy
    <3> HIDE DEF k
    <3>5. /\ copy \in HeapType /\ copy.sound /\ copy.live = fresh.live
          /\ Len(copy.cells[b]) = Len(fresh.cells[b])
          /\ \A c \in Block \ {b} : copy.cells[c] = fresh.cells[c]
      <4>1. /\ fresh \in HeapType /\ fresh.sound /\ b \in Block /\ b \in fresh.live
            /\ q \in Pointer /\ s.length \in Nat /\ k \in Nat
            /\ k + s.length <= Len(fresh.cells[b]) /\ Readable(fresh, q, s.length)
            /\ q.block # b
        BY <1>1, <1>7, <3>1, <3>2, <3>3 DEF Shows
      <4> QED
        BY <3>4, <4>1, MemcpyKeeps
    <3>6. Lies(copy, b, k, v)
      BY <1>1, <1>7, <3>1, <3>2, <3>3, <3>4, MemcpyCopies
    <3>7. Lies(copy, b, 0, v)
      BY <3>6 DEF k
    <3>8. kept = copy
      BY <2>1 DEF kept
    <3> QED
      BY <1>7, <3>5, <3>7, <3>8
  <2>2. CASE ~(s.length > 0)
    <3>1. kept = fresh /\ 1..Len(v) = {}
      BY <1>1, <1>3, <2>2 DEF kept
    <3> QED
      BY <1>3, <1>7, <3>1 DEF Lies
  <2> QED
    BY <2>1, <2>2
<1>9. Shows(kept, p, n, w)
  BY <1>8, StillShows
<1>10. full \in HeapType /\ full.sound /\ full.live = kept.live
       /\ Lies(full, b, 0, v) /\ Lies(full, b, s.length, w)
  <2>1. p.block # b /\ Readable(kept, p, n)
    BY <1>9, NullAssumption DEF Readable, Shows
  <2>2. s.length + n <= Len(kept.cells[b]) /\ b \in kept.live
    BY <1>6, <1>8
  <2>3. full \in HeapType /\ full.sound /\ full.live = kept.live
    BY <1>1, <1>8, <2>1, <2>2, MemcpyKeeps DEF full
  <2>4. Lies(full, b, 0, v)
    BY <1>1, <1>3, <1>8, <2>2, MemcpyLeaves DEF full
  <2>5. Lies(full, b, s.length, w)
    BY <1>1, <1>8, <1>9, <2>2, MemcpyCopies DEF full
  <2> QED
    BY <2>3, <2>4, <2>5
<1>11. last.cells[b] = full.cells[b]
  BY <1>1, <1>8, <1>10, DeleteKeeps DEF last
<1>12. Lies(last, b, 0, v \o w) /\ Len(v \o w) = t.length
  <2>1. Lies(last, b, 0, v) /\ Lies(last, b, Len(v), w)
    BY <1>3, <1>10, <1>11, LiesThere
  <2> QED
    BY <1>5, <2>1, LiesBoth
<1> QED
  BY <1>4, <1>5, <1>12 DEF Done, Holds

LEMMA AppendHolds ==
    ASSUME NEW h \in HeapType, h.sound, NEW s, Fits(h, s),
           NEW b \in Block, NEW p \in Pointer, NEW n \in Nat,
           n + s.length <= s.capacity \/ b \notin h.live,
           NEW v, Holds(h, s, v), NEW w, Shows(h, p, n, w)
    PROVE  Holds(_append(h, s, p, n, b).heap, _append(h, s, p, n, b).str, v \o w)
<1>1. /\ v \in Seq(Cell) /\ Len(v) = s.length /\ w \in Seq(Cell) /\ Len(w) = n
      /\ s.length \in Nat /\ s.capacity \in Nat /\ Lies(h, s.content, 0, v)
  BY DEF Holds, Shows, Lies, Fits, StrType
<1>2. CASE n = 0 \/ p = At(Null, 0)
  <2>1. _append(h, s, p, n, b) = Done(h, s)
    BY <1>2 DEF _append
  <2>2. n = 0
    BY <1>2, <1>1 DEF Shows, Readable, At
  <2>3. w = <<>>
    BY <1>1, <2>2
  <2>4. v \o w = v
    BY <1>1, <2>3
  <2> QED
    BY <2>1, <2>4 DEF Done
<1>3. CASE ~(n = 0 \/ p = At(Null, 0)) /\ n + s.length > s.capacity
  <2>1. _append(h, s, p, n, b) = Grow(h, s, p, n, b)
    BY <1>3 DEF _append
  <2>2. b \in Block \ h.live
    BY <1>1, <1>3
  <2> QED
    BY <2>1, <2>2, GrowHolds
<1>4. CASE ~(n = 0 \/ p = At(Null, 0)) /\ ~(n + s.length > s.capacity)
  <2> DEFINE c == s.content
             g == Memcpy(h, c, s.length, p, n)
             t == [s EXCEPT !.length = n + @]
  <2>1. _append(h, s, p, n, b) = Done(g, t)
    BY <1>4 DEF _append
  <2>2. /\ t.content = c /\ t.length = Len(v) + Len(w)
    BY <1>1 DEF Fits, StrType
  <2> HIDE DEF t
  <2>3. c \in Block /\ s.capacity <= Len(h.cells[c])
    BY <1>1, <1>4 DEF Fits, StrType
  <2> HIDE DEF c, g
  <2>4. Len(h.cells[c]) \in Nat
    BY <2>3 DEF HeapType
  <2>5. s.length + n <= Len(h.cells[c]) /\ Len(v) <= s.length
    BY <1>1, <1>4, <2>3, <2>4
  <2>6. Lies(g, c, 0, v)
    <3>1. Lies(h, c, 0, v)
      BY <1>1 DEF c
    <3> QED
      BY <1>1, <2>3, <2>5, <3>1, MemcpyLeaves DEF g
  <2>7. Lies(g, c, s.length, w)
    BY <1>1, <2>3, <2>5, MemcpyCopies DEF g
  <2>8. Holds(g, t, v \o w)
    BY <1>1, <2>2, <2>6, <2>7, LiesBoth DEF Holds
  <2> QED
    BY <2>1, <2>8 DEF Done
<1> QED
  BY <1>2, <1>3, <1>4

LEMMA SetHolds ==
    ASSUME NEW h \in HeapType, h.sound, NEW s, Fits(h, s),
           NEW b \in Block \ h.live, NEW p \in Pointer, NEW n \in Nat,
           p.block = s.content => p.block = Null,
           NEW w, Shows(h, p, n, w)
    PROVE  Holds(_set(h, s, p, n, b).heap, _set(h, s, p, n, b).str, w)
<1> DEFINE roomy == IF s.content = Null \/ n > s.capacity THEN _recap(h, s, n, b)
                    ELSE Done(h, s)
           c == roomy.str.content
           k == 0
           g == Memcpy(roomy.heap, c, k, p, n)
           t == [roomy.str EXCEPT !.length = n]
<1>1. w \in Seq(Cell) /\ Len(w) = n /\ Readable(h, p, n)
  BY DEF Shows
<1>2. CASE n = 0
  <2>1. _set(h, s, p, n, b) = Done(h, [s EXCEPT !.length = 0])
    BY <1>2 DEF _set
  <2>2. [s EXCEPT !.length = 0].length = 0
    BY DEF Fits, StrType
  <2>3. Holds(h, [s EXCEPT !.length = 0], w)
    BY <1>1, <1>2, <2>2 DEF Holds, Lies
  <2> QED
    BY <2>1, <2>3 DEF Done
<1>3. CASE n # 0
  <2>1. _set(h, s, p, n, b) = Done(g, t)
    BY <1>3 DEF _set
  <2>2. /\ s.content \in Block \cup {Null} /\ s.capacity \in Nat
    BY DEF Fits, StrType
  <2>3. Keeps(h, s, b, roomy) /\ n <= roomy.str.capacity
    <3>1. CASE s.content = Null \/ n > s.capacity
      BY <3>1, RecapKeeps
    <3>2. CASE ~(s.content = Null \/ n > s.capacity)
      <4>1. roomy = Done(h, s) /\ n <= s.capacity
        BY <3>2, <2>2
      <4> HIDE DEF roomy
      <4>2. roomy.str.capacity = s.capacity
        BY <4>1 DEF Done
      <4> QED
        BY <4>1, <4>2, NothingKeeps
    <3> QED
      BY <3>1, <3>2
  <2> HIDE DEF roomy
  <2>4. /\ roomy.heap \in HeapType /\ Fits(roomy.heap, roomy.str)
        /\ c \in {Null, s.content, b}
        /\ roomy.heap.live = (h.live \ {s.content}) \cup ({c} \ {Null})
        /\ \A d \in Block \ {s.content, b} : roomy.heap.cells[d] = h.cells[d]
    BY <2>3 DEF Keeps
  <2>5. /\ roomy.str \in StrType /\ roomy.str.capacity \in Nat /\ c \in Block \cup {Null}
        /\ c = Null => roomy.str.capacity = 0
        /\ c # Null => roomy.str.capacity <= Len(roomy.heap.cells[c])
    BY <2>4 DEF Fits, StrType
  <2>6. c \in Block /\ n <= Len(roomy.heap.cells[c])
    <3>1. c # Null /\ c \in Block
      BY <1>3, <2>3, <2>5
    <3> HIDE DEF c
    <3>2. Len(roomy.heap.cells[c]) \in Nat
      BY <2>4, <3>1 DEF HeapType
    <3> QED
      BY <2>3, <2>5, <3>1, <3>2 DEF c
  <2>7. k \in Nat /\ k + n <= Len(roomy.heap.cells[c])
    BY <2>6
  <2>8. t.content = c /\ t.length = n
    BY <2>5 DEF StrType
  <2>9. p.block # Null => /\ p.block \in Block \ {s.content, b}
                          /\ p.block \in roomy.heap.live
    BY <1>1, <2>4 DEF Readable, Pointer
  <2> HIDE DEF c, g, t, k
  <2>10. Shows(roomy.heap, p, n, w)
    <3>1. \A i \in 0..n : Readable(h, p, i) /\ Readable(roomy.heap, p, i)
      <4> TAKE i \in 0..n
      <4>1. Readable(h, p, i)
        BY <1>1, LessReadable
      <4> QED
        BY <2>4, <2>9, <4>1 DEF Readable
    <3>2. \A i \in 1..n : CellAt(roomy.heap, p, i) = CellAt(h, p, i)
      <4> TAKE i \in 1..n
      <4>1. Readable(h, p, i) /\ Readable(roomy.heap, p, i)
        BY <3>1
      <4> QED
        BY <2>4, <2>9, <4>1 DEF CellAt
    <3>3. Readable(roomy.heap, p, n)
      BY <3>1
    <3> QED
      BY <3>2, <3>3 DEF Shows
  <2>11. Lies(g, c, k, w)
    BY <2>4, <2>6, <2>7, <2>10, MemcpyCopies DEF g
  <2>12. Holds(g, t, w)
    BY <1>1, <2>8, <2>11 DEF Holds, k
  <2> QED
    BY <2>1, <2>12 DEF Done
<1> QED
  BY <1>2, <1>3

\* The new length, and what it has in common with the old string.
LEMMA RecapHoldHolds ==
    ASSUME NEW h \in HeapType, h.sound, NEW s, Fits(h, s),
           NEW b \in Block \ h.live, NEW n \in Nat, NEW v, Holds(h, s, v),
           NEW x, Holds(_recap_hold(h, s, n, b).heap, _recap_hold(h, s, n, b).str, x)
    PROVE  /\ Len(x) = n
           /\ \A i \in 1..n : i <= Len(v) => x[i] = v[i]
<1>1. /\ s.content \in Block \cup {Null} /\ s.capacity \in Nat /\ s.length \in Nat
      /\ s \in StrType /\ s.length <= s.capacity
      /\ s.content = Null => s.length = 0
      /\ v \in Seq(Cell) /\ Len(v) = s.length /\ Lies(h, s.content, 0, v)
  BY DEF Fits, StrType, Holds, Lies
<1>2. ASSUME NEW g, NEW t, _recap_hold(h, s, n, b) = Done(g, t), t.length = n,
             NEW m \in 0..n, m = Len(v) \/ m = n, Len(v) <= n => m = Len(v),
             \A i \in 1..m : g.cells[t.content][0 + i] = v[i]
      PROVE  Len(x) = n /\ \A i \in 1..n : i <= Len(v) => x[i] = v[i]
  <2>1. Holds(g, t, x)
    BY <1>2 DEF Done
  <2>2. Len(x) = n /\ \A i \in 1..n : g.cells[t.content][0 + i] = x[i]
    BY <1>2, <2>1 DEF Holds, Lies
  <2>3. ASSUME NEW i \in 1..n, i <= Len(v) PROVE x[i] = v[i]
    <3>1. i \in 1..m
      BY <1>1, <1>2, <2>3
    <3> QED
      BY <1>2, <2>2, <3>1
  <2> QED
    BY <2>2, <2>3
<1>3. CASE n = 0
  <2>1. _recap_hold(h, s, n, b) = Done(Delete(h, s.content), Empty)
    BY <1>3 DEF _recap_hold
  <2>2. Empty.length = n
    BY <1>3 DEF Empty
  <2> QED
    BY <1>1, <1>2, <1>3, <2>1, <2>2
<1>4. CASE n # 0 /\ n <= s.capacity
  <2> DEFINE t == [s EXCEPT !.length = n]
             m == Least(Len(v), n)
  <2>1. _recap_hold(h, s, n, b) = Done(h, t)
    BY <1>4 DEF _recap_hold
  <2>2. t.content = s.content /\ t.length = n
    BY <1>1 DEF StrType
  <2> HIDE DEF t
  <2>3. m \in 0..n /\ m <= Len(v) /\ (m = Len(v) \/ m = n) /\ (Len(v) <= n => m = Len(v))
    BY <1>1 DEF Least
  <2> HIDE DEF m
  <2>4. \A i \in 1..m : h.cells[t.content][0 + i] = v[i]
    BY <1>1, <2>2, <2>3 DEF Lies
  <2> QED
    BY <1>2, <2>1, <2>2, <2>3, <2>4
<1>5. CASE n # 0 /\ ~(n <= s.capacity)
  <2> DEFINE cap   == AtLeastUnit(n)
             fresh == New(h, b, cap)
             q     == At(s.content, 0)
             k     == 0
             m     == Memcpy(fresh, b, k, q, s.length)
             g     == IF s.content = Null THEN fresh ELSE Delete(m, s.content)
             t     == [content |-> b, capacity |-> cap, length |-> n]
  <2>1. cap \in Nat /\ n <= cap /\ s.length <= n
    BY <1>1, <1>5, UnitAssumption DEF AtLeastUnit
  <2>2. _recap_hold(h, s, n, b) = Done(g, t)
    <3>1. Least(cap, s.length) = s.length
      <4> HIDE DEF cap
      <4> QED
        BY <1>1, <2>1 DEF Least
    <3> QED
      BY <1>5, <3>1 DEF _recap_hold
  <2>3. t.content = b /\ t.length = n
    OBVIOUS
  <2> HIDE DEF cap, t
  <2>4. /\ fresh \in HeapType /\ fresh.sound /\ fresh.live = h.live \cup {b}
        /\ Len(fresh.cells[b]) = cap
        /\ \A d \in Block \ {b} : fresh.cells[d] = h.cells[d]
    BY <2>1, NewKeeps
  <2> HIDE DEF fresh, m, g, q
  <2>5. Lies(g, b, 0, v)
    <3>1. CASE s.content = Null
      <4>1. 1..Len(v) = {}
        BY <1>1, <3>1
      <4> QED
        BY <1>1, <4>1 DEF Lies
    <3>2. CASE s.content # Null
      <4>1. Shows(h, q, s.length, v) /\ q \in Pointer /\ q.block = s.content
        BY <3>2, OwnShows, OwnContent DEF q
      <4>2. Shows(fresh, q, s.length, v)
        BY <1>1, <2>4, <4>1, StillShows
      <4>3. k \in Nat /\ k + s.length <= Len(fresh.cells[b]) /\ b \in Block
        BY <1>1, <2>1, <2>4
      <4> HIDE DEF k
      <4>4. Lies(m, b, k, v)
        BY <1>1, <2>4, <4>1, <4>2, <4>3, MemcpyCopies DEF m
      <4>5. /\ fresh \in HeapType /\ fresh.sound /\ b \in Block /\ b \in fresh.live
            /\ q \in Pointer /\ s.length \in Nat /\ k \in Nat
            /\ k + s.length <= Len(fresh.cells[b]) /\ Readable(fresh, q, s.length)
            /\ q.block # b
        BY <1>1, <2>4, <3>2, <4>1, <4>2, <4>3 DEF Shows, Fits
      <4>6. m \in HeapType /\ m.sound /\ m.live = fresh.live
        BY <4>5, MemcpyKeeps DEF m
      <4>7. Delete(m, s.content).cells[b] = m.cells[b]
        <5>1. s.content # b /\ s.content \in m.live
          BY <2>4, <3>2, <4>6 DEF Fits
        <5> QED
          BY <1>1, <4>6, <5>1, DeleteKeeps
      <4>8. g = Delete(m, s.content)
        BY <3>2 DEF g
      <4> QED
        BY <4>4, <4>7, <4>8, LiesThere DEF k
    <3> QED
      BY <3>1, <3>2
  <2>6. \A i \in 1..Len(v) : g.cells[t.content][0 + i] = v[i]
    BY <2>3, <2>5 DEF Lies
  <2> QED
    BY <1>1, <1>2, <2>1, <2>2, <2>3, <2>6
<1> QED
  BY <1>1, <1>3, <1>4, <1>5

LEMMA MemsetFills ==
    ASSUME NEW h \in HeapType, NEW b \in Block, NEW c \in Byte, NEW n \in Nat,
           n <= Len(h.cells[b])
    PROVE  Lies(Memset(h, b, c, n), b, 0, [i \in 1..n |-> c])
           /\ Len([i \in 1..n |-> c]) = n
<1> DEFINE old == h.cells[b]
           new == [i \in 1..Len(old) |-> IF i <= n THEN c ELSE old[i]]
           w   == [i \in 1..n |-> c]
<1>1. Len(old) \in Nat /\ n <= Len(old)
  BY DEF HeapType
<1>2. Memset(h, b, c, n).cells[b] = new
  BY DEF Memset, HeapType
<1>3. w \in Seq(Cell) /\ Len(w) = n
  <2>1. w \in [1..n -> Cell]
    BY DEF Cell
  <2> HIDE DEF w
  <2> QED
    BY <2>1, SeqOfFunction
<1>4. ASSUME NEW i \in 1..n PROVE new[0 + i] = w[i]
  <2>1. 0 + i = i /\ i \in 1..Len(old) /\ i <= n
    BY <1>1
  <2> QED
    BY <2>1
<1> HIDE DEF new, w
<1>5. Lies(Memset(h, b, c, n), b, 0, w)
  BY <1>2, <1>3, <1>4 DEF Lies
<1> QED
  BY <1>3, <1>5 DEF w

-----------------------------------------------------------------------------
(* The invariant.  OneOwner alone is not inductive: that an operation frees *)
(* and copies what it should depends on what the fields say.                *)

Core ==
    /\ exists \subseteq Obj
    /\ str \in [Obj -> StrType]
    /\ heap \in HeapType
    /\ MemorySafe
    /\ \A o \in Obj : Fits(heap, str[o])
    /\ OneOwner

Rest ==
    /\ reader \in exists \cup {Null}
    /\ input \in Seq(Byte)
    /\ calls \in Nat

Inv == Core /\ Rest

LEMMA InvImplies ==
    ASSUME Inv
    PROVE  TypeOK /\ MemorySafe /\ OneOwner /\ FieldsTrue
BY DEF Inv, Core, Rest, TypeOK, FieldsTrue, Fits

\* A step that changes one object by a private function keeps Core.
LEMMA UpdateKeeps ==
    ASSUME Core, NEW o \in Obj, NEW b, b \notin heap.live, NEW r,
           Keeps(heap, str[o], b, r), Update(o, r), exists' \subseteq Obj,
           \A q \in Obj \ exists' : IF q = o THEN r.str = Empty ELSE q \notin exists
    PROVE  Core'
<1> DEFINE s == str[o]
<1>1. /\ str \in [Obj -> StrType] /\ heap \in HeapType
      /\ heap.live = {str[q].content : q \in Obj} \ {Null}
      /\ \A q \in Obj \ exists : str[q] = Empty
      /\ \A q, t \in Obj : str[q].content = str[t].content
                             => q = t \/ str[q].content = Null
      /\ \A q \in Obj : Fits(heap, str[q])
  BY DEF Core, OneOwner
<1>2. /\ r.heap \in HeapType /\ r.heap.sound /\ Fits(r.heap, r.str)
      /\ r.str \in StrType
      /\ r.str.content \in {Null, s.content, b}
      /\ r.heap.live = (heap.live \ {s.content}) \cup ({r.str.content} \ {Null})
      /\ \A c \in Block \ {s.content, b} : r.heap.cells[c] = heap.cells[c]
  BY DEF Keeps, Fits
<1>3. heap' = r.heap /\ str' = [str EXCEPT ![o] = r.str]
  BY DEF Update
<1>4. /\ str' \in [Obj -> StrType]
      /\ str'[o] = r.str /\ \A q \in Obj \ {o} : str'[q] = str[q]
  BY <1>1, <1>2, <1>3
<1>5. \A q \in Obj \ {o} :
         str[q].content # Null => /\ str[q].content \in heap.live
                                  /\ str[q].content # s.content
                                  /\ str[q].content # b
  BY <1>1
<1>6. \A q \in Obj : Fits(heap', str'[q])
  <2> TAKE q \in Obj
  <2>1. CASE q = o
    BY <2>1, <1>2, <1>3, <1>4
  <2>2. CASE q # o
    <3>1. str'[q] = str[q] /\ Fits(heap, str[q])
      BY <2>2, <1>1, <1>4
    <3>2. str[q].content # Null => /\ str[q].content \in r.heap.live
                                   /\ r.heap.cells[str[q].content] = heap.cells[str[q].content]
      <4>1. str[q].content \in Block \cup {Null}
        BY <1>1 DEF StrType
      <4> QED
        BY <2>2, <1>2, <1>5, <4>1
    <3> QED
      BY <3>1, <3>2, <1>3 DEF Fits
  <2> QED
    BY <2>1, <2>2
<1>7. \A q, t \in Obj : str'[q].content = str'[t].content
                          => q = t \/ str'[q].content = Null
  <2>1. \A q \in Obj \ {o} : str[q].content = r.str.content => str[q].content = Null
    BY <1>2, <1>5
  <2> QED
    BY <1>1, <1>4, <2>1
<1>8. heap'.live = {str'[q].content : q \in Obj} \ {Null}
  <2>1. \A c \in heap'.live : \E q \in Obj : c = str'[q].content
    <3> TAKE c \in heap'.live
    <3>1. CASE c = r.str.content
      BY <3>1, <1>4
    <3>2. CASE c # r.str.content
      <4>1. c \in heap.live /\ c # s.content
        BY <3>2, <1>2, <1>3
      <4>2. PICK q \in Obj : c = str[q].content
        BY <4>1, <1>1
      <4> QED
        BY <4>1, <4>2, <1>4
    <3> QED
      BY <3>1, <3>2
  <2>2. \A q \in Obj : str'[q].content # Null => str'[q].content \in heap'.live
    BY <1>2, <1>3, <1>4, <1>5
  <2>3. Null \notin heap'.live
    BY <1>2, <1>3, NullAssumption DEF HeapType
  <2> QED
    BY <2>1, <2>2, <2>3
<1>9. \A q \in Obj \ exists' : str'[q] = Empty
  BY <1>1, <1>4
<1> QED
  BY <1>2, <1>3, <1>4, <1>6, <1>7, <1>8, <1>9 DEF Core, OneOwner, MemorySafe

\* The content of an object may be read over its length.
LEMMA ContentReadable ==
    ASSUME Core, NEW o \in Obj
    PROVE  /\ At(str[o].content, 0) \in Pointer
           /\ str[o].length \in Nat
           /\ Readable(heap, At(str[o].content, 0), str[o].length)
           /\ At(str[o].content, 0).block = str[o].content
           /\ At(str[o].content, 0).offset = 0
<1>1. /\ Fits(heap, str[o]) /\ heap \in HeapType
      /\ str[o].content \in Block \cup {Null} /\ str[o].length \in Nat
      /\ str[o].capacity \in Nat
      /\ str[o].content = Null => str[o].length = 0
  BY DEF Core, Fits, StrType
<1>2. CASE str[o].content # Null
  BY <1>1, <1>2, OwnContent
<1>3. CASE str[o].content = Null
  <2>1. <<>> \in Seq(Byte) /\ Len(<<>>) = 0
    OBVIOUS
  <2> QED
    BY <1>1, <1>3, <2>1 DEF At, Pointer, Readable
<1> QED
  BY <1>2, <1>3

LEMMA UserReadable ==
    ASSUME NEW t \in Seq(Byte), NEW h
    PROVE  /\ User(t) \in Pointer /\ Len(t) \in Nat /\ Readable(h, User(t), Len(t))
           /\ User(t).block = Null
BY DEF User, Pointer, Readable

Text(h, s) == IF s.content = Null THEN <<>> ELSE SubSeq(h.cells[s.content], 1, s.length)

Vals == [o \in Obj |-> Value(o)]

LEMMA TextHeld ==
    ASSUME NEW h \in HeapType, NEW s, Fits(h, s)
    PROVE  /\ Holds(h, s, Text(h, s))
           /\ \A v : Holds(h, s, v) => v = Text(h, s)
<1>1. /\ s.content \in Block \cup {Null} /\ s.capacity \in Nat /\ s.length \in Nat
      /\ s.length <= s.capacity
      /\ s.content = Null => s.length = 0
      /\ s.content # Null => s.capacity <= Len(h.cells[s.content])
  BY DEF Fits, StrType
<1>2. Holds(h, s, Text(h, s))
  <2>1. CASE s.content = Null
    <3>1. Text(h, s) = <<>> /\ <<>> \in Seq(Cell) /\ Len(<<>>) = 0
      BY <2>1 DEF Text
    <3> QED
      BY <1>1, <2>1, <3>1 DEF Holds, Lies
  <2>2. CASE s.content # Null
    <3> DEFINE c == h.cells[s.content]
    <3>1. c \in Seq(Cell)
      BY <1>1, <2>2 DEF HeapType
    <3>2. Len(c) \in Nat /\ s.length <= Len(c)
      BY <1>1, <2>2, <3>1
    <3>3. Text(h, s) = SubSeq(c, 1, s.length)
      BY <2>2 DEF Text
    <3> HIDE DEF c
    <3>4. \A i \in 1..s.length : c[i] \in Cell
      BY <1>1, <3>1, <3>2, ElementOfSeq
    <3>5. /\ SubSeq(c, 1, s.length) \in Seq(Cell) /\ Len(SubSeq(c, 1, s.length)) = s.length
          /\ \A i \in 1..s.length : SubSeq(c, 1, s.length)[i] = c[i]
      BY <1>1, <3>4, SubSeqProperties
    <3>6. \A i \in 1..s.length : 0 + i = i
      BY <1>1
    <3> QED
      BY <3>3, <3>5, <3>6 DEF Holds, Lies, c
  <2> QED
    BY <2>1, <2>2
<1>3. ASSUME NEW v, Holds(h, s, v) PROVE v = Text(h, s)
  <2> DEFINE t == Text(h, s)
  <2> HIDE DEF t
  <2>1. /\ v \in Seq(Cell) /\ t \in Seq(Cell) /\ Len(v) = Len(t)
        /\ \A i \in 1..Len(v) : v[i] = t[i]
    BY <1>2, <1>3 DEF Holds, Lies, t
  <2>2. v = t
    BY <2>1, SameText
  <2> QED
    BY <2>2 DEF t
<1> QED
  BY <1>2, <1>3

LEMMA ValueHeld ==
    ASSUME Core, NEW o \in Obj
    PROVE  /\ Holds(heap, str[o], Value(o))
           /\ Value(o) \in Seq(Cell) /\ Len(Value(o)) = str[o].length
<1>1. heap \in HeapType /\ Fits(heap, str[o]) /\ Value(o) = Text(heap, str[o])
  BY DEF Core, Value, Text
<1> QED
  BY <1>1, TextHeld DEF Holds, Lies

LEMMA ContentShows ==
    ASSUME Core, NEW o \in Obj
    PROVE  Shows(heap, At(str[o].content, 0), str[o].length, Value(o))
<1>1. heap \in HeapType /\ Fits(heap, str[o]) /\ Holds(heap, str[o], Value(o))
  BY ValueHeld DEF Core
<1>2. CASE str[o].content # Null
  BY <1>1, <1>2, OwnShows
<1>3. CASE str[o].content = Null
  <2>1. str[o].length = 0
    BY <1>1, <1>3 DEF Fits, StrType
  <2>2. 1..0 = {}
    OBVIOUS
  <2>3. Readable(heap, At(str[o].content, 0), str[o].length)
    BY ContentReadable
  <2> QED
    BY <2>1, <2>2, <2>3, ValueHeld DEF Shows
<1> QED
  BY <1>2, <1>3

LEMMA UserShows ==
    ASSUME NEW t \in Seq(Byte), NEW h
    PROVE  Shows(h, User(t), Len(t), t)
<1>1. t \in Seq(Cell) /\ Len(t) \in Nat
  <2>1. \A i \in 1..Len(t) : t[i] \in Cell
    BY ElementOfSeq DEF Cell
  <2> QED
    BY <2>1
<1>2. ASSUME NEW i \in 0..Len(t) PROVE Readable(h, User(t), i)
  BY <1>1 DEF Readable, User
<1>3. ASSUME NEW i \in 1..Len(t) PROVE CellAt(h, User(t), i) = t[i]
  <2>1. Readable(h, User(t), i)
    BY <1>1, <1>2
  <2> QED
    BY <2>1 DEF CellAt, User
<1>4. Readable(h, User(t), Len(t))
  BY <1>1, <1>2
<1> QED
  BY <1>1, <1>3, <1>4 DEF Shows

LEMMA EmptyHolds ==
    ASSUME NEW h, NEW s, s.length = 0
    PROVE  Holds(h, s, <<>>)
<1>1. <<>> \in Seq(Cell) /\ Len(<<>>) = 0 /\ 1..0 = {}
  OBVIOUS
<1> QED
  BY <1>1 DEF Holds, Lies

\* What an object that does not exist has, and what a new one starts from.
LEMMA FreshObject ==
    ASSUME Core, NEW o \in Obj, o \notin exists
    PROVE  str[o] = Empty /\ Fits(heap, Empty) /\ Empty.content = Null
           /\ Empty.length = 0 /\ Empty.capacity = 0
<1>1. str[o] = Empty
  BY DEF Core, OneOwner
<1> QED
  BY <1>1, EmptyFits DEF Empty

LEMMA ConstructKeeps ==
    ASSUME Inv, NEW o \in Obj, NEW b \in Free, NEW r,
           Construct(o, r), Keeps(heap, Empty, b, r)
    PROVE  Inv'
<1>1. Core /\ b \notin heap.live /\ o \notin exists /\ str[o] = Empty
  BY FreshObject DEF Inv, Construct, Free
<1>2. Update(o, r) /\ exists' = exists \cup {o} /\ exists' \subseteq Obj
  BY <1>1 DEF Construct, Core
<1>3. Core'
  BY <1>1, <1>2, UpdateKeeps
<1>4. Rest'
  BY <1>2 DEF Inv, Rest, Construct, Start
<1> QED
  BY <1>3, <1>4 DEF Inv

LEMMA CallKeeps ==
    ASSUME Inv, NEW o \in Obj, NEW b \in Free, NEW r,
           Call(o, r), Keeps(heap, str[o], b, r)
    PROVE  Inv'
<1>1. Core /\ b \notin heap.live /\ exists \subseteq Obj
  BY DEF Inv, Free, Core
<1>2. Update(o, r) /\ exists' = exists /\ o \in exists
  BY DEF Call
<1>3. Core'
  BY <1>1, <1>2, UpdateKeeps
<1>4. Rest'
  BY <1>2 DEF Inv, Rest, Call, Start
<1> QED
  BY <1>3, <1>4 DEF Inv

-----------------------------------------------------------------------------
(* The operations *)

LEMMA ConstructorsKeep ==
    ASSUME Inv, NEW o \in Obj, NEW b \in Free,
           \/ \E t \in Texts : FromText(o, t, b) \/ Shift(o, t, b)
           \/ \E n \in Sizes : WithCapacity(o, n, b)
           \/ \E p \in Obj : CopyConstruct(o, p, b)
    PROVE  Inv'
<1>1. /\ Core /\ heap \in HeapType /\ heap.sound /\ b \in Block \ heap.live
      /\ o \notin exists /\ Fits(heap, Empty) /\ Empty.content = Null
  BY EmptyFits DEF Inv, Core, MemorySafe, Free, FromText, Shift, WithCapacity,
     CopyConstruct, Construct
<1>2. ASSUME NEW t \in Texts, FromText(o, t, b) PROVE Inv'
  <2>1. t \in Seq(Byte)
    BY DataAssumption
  <2>2. Keeps(heap, Empty, b, _append(heap, Empty, User(t), Len(t), b))
    BY <1>1, <2>1, UserReadable, AppendKeeps
  <2> QED
    BY <1>2, <2>2, ConstructKeeps DEF FromText
<1>3. ASSUME NEW t \in Texts, Shift(o, t, b) PROVE Inv'
  <2> DEFINE n == Len(t)
             buffer == New(heap, b, n)
             g == Memcpy(buffer, b, 0, User(t), n)
             s == [content |-> b, capacity |-> n, length |-> n]
  <2>1. t \in Seq(Byte)
    BY DataAssumption
  <2>2. User(t) \in Pointer /\ n \in Nat /\ Readable(buffer, User(t), n)
        /\ User(t).block = Null
    BY <2>1, UserReadable
  <2> HIDE DEF n
  <2>3. /\ buffer \in HeapType /\ buffer.sound /\ buffer.live = heap.live \cup {b}
        /\ Len(buffer.cells[b]) = n
        /\ \A c \in Block \ {b} : buffer.cells[c] = heap.cells[c]
    BY <1>1, <2>2, NewKeeps
  <2> HIDE DEF buffer
  <2>4. b # Null /\ b \in buffer.live /\ 0 + n <= Len(buffer.cells[b]) /\ 0 \in Nat
    BY <1>1, <2>2, <2>3, NullAssumption
  <2>5. /\ g \in HeapType /\ g.sound /\ g.live = buffer.live
        /\ Len(g.cells[b]) = Len(buffer.cells[b])
        /\ \A c \in Block \ {b} : g.cells[c] = buffer.cells[c]
    BY <1>1, <2>2, <2>3, <2>4, MemcpyKeeps
  <2> HIDE DEF g
  <2>6. Fits(g, s)
    BY <1>1, <2>2, <2>3, <2>4, <2>5 DEF Fits, StrType
  <2>7. Null \notin heap.live
    BY <1>1, NullAssumption DEF HeapType
  <2>8. Keeps(heap, Empty, b, Done(g, s))
    BY <1>1, <2>3, <2>4, <2>5, <2>6, <2>7 DEF Keeps, Done
  <2>9. Construct(o, Done(g, s))
    BY <1>3 DEF Shift, g, buffer, n
  <2> QED
    BY <2>8, <2>9, ConstructKeeps
<1>4. ASSUME NEW n \in Sizes, WithCapacity(o, n, b) PROVE Inv'
  <2>1. n \in Nat
    BY DataAssumption
  <2>2. Keeps(heap, Empty, b, _recap(heap, Empty, n, b))
    BY <1>1, <2>1, RecapKeeps
  <2> QED
    BY <1>4, <2>2, ConstructKeeps DEF WithCapacity
<1>5. ASSUME NEW p \in Obj, CopyConstruct(o, p, b) PROVE Inv'
  <2> DEFINE q == At(str[p].content, 0)
             n == str[p].length
  <2>1. _recap_hold(heap, Empty, 0, b) = Done(heap, Empty)
    BY <1>1 DEF _recap_hold, Delete, Empty
  <2>2. Construct(o, _append(heap, Empty, q, n, b))
    BY <1>5, <2>1 DEF CopyConstruct, Done
  <2>3. q \in Pointer /\ n \in Nat /\ Readable(heap, q, n)
        /\ q.block = str[p].content
    BY <1>1, ContentReadable
  <2> HIDE DEF q, n
  <2>4. Keeps(heap, Empty, b, _append(heap, Empty, q, n, b))
    BY <1>1, <2>3, AppendKeeps
  <2> QED
    BY <2>2, <2>4, ConstructKeeps
<1> QED
  BY <1>2, <1>3, <1>4, <1>5

\* The room made for both halves is enough: neither append allocates.
Joined(p, q, b) ==
    LET room  == _recap(heap, Empty, str[p].length + str[q].length, b)
        first == _append(room.heap, room.str, At(str[p].content, 0), str[p].length, b)
    IN  _append(first.heap, first.str, At(str[q].content, 0), str[q].length, b)

LEMMA JoinedKeeps ==
    ASSUME Inv, NEW p \in Obj, NEW q \in Obj, NEW b \in Free
    PROVE  /\ Keeps(heap, Empty, b, Joined(p, q, b))
           /\ Holds(Joined(p, q, b).heap, Joined(p, q, b).str, Value(p) \o Value(q))
<1> DEFINE s     == str[p]
           t     == str[q]
           ps    == At(s.content, 0)
           pt    == At(t.content, 0)
           room  == _recap(heap, Empty, s.length + t.length, b)
           first == _append(room.heap, room.str, ps, s.length, b)
           both  == _append(first.heap, first.str, pt, t.length, b)
<1>1. /\ Core /\ heap \in HeapType /\ heap.sound /\ b \in Block \ heap.live
      /\ Fits(heap, Empty) /\ Empty.content = Null
  BY EmptyFits DEF Inv, Core, MemorySafe, Free
<1>2. /\ s.length \in Nat /\ ps \in Pointer /\ Readable(heap, ps, s.length)
      /\ t.length \in Nat /\ pt \in Pointer /\ Readable(heap, pt, t.length)
      /\ Shows(heap, ps, s.length, Value(p)) /\ Shows(heap, pt, t.length, Value(q))
  BY <1>1, ContentReadable, ContentShows
<1>3. Joined(p, q, b) = both
  BY DEF Joined
<1> HIDE DEF s, t, ps, pt
<1>4. /\ Keeps(heap, Empty, b, room) /\ room.str.length = 0
      /\ s.length + t.length <= room.str.capacity
      /\ room.str.content = IF s.length + t.length = 0 THEN Null ELSE b
  BY <1>1, <1>2, RecapKeeps
<1> HIDE DEF room
<1>5. /\ room.heap \in HeapType /\ room.heap.sound /\ Fits(room.heap, room.str)
      /\ heap.live \subseteq room.heap.live
      /\ \A c \in Block \ {b} : room.heap.cells[c] = heap.cells[c]
      /\ room.str.capacity \in Nat
      /\ room.heap.live = heap.live \cup ({room.str.content} \ {Null})
  <2>1. Null \notin heap.live
    BY <1>1, NullAssumption DEF HeapType
  <2> QED
    BY <1>1, <1>4, <2>1, NullAssumption DEF Keeps, Fits, StrType
<1>6. ASSUME NEW x \in Pointer, NEW n \in Nat, Readable(heap, x, n)
      PROVE  x.block = b => FALSE
  BY <1>1, <1>6, NullAssumption DEF Readable
<1>7. /\ Readable(room.heap, ps, s.length)
      /\ ps.block = room.str.content => ps.block = Null
  BY <1>1, <1>2, <1>4, <1>5, <1>6, StillReadable
<1>8. /\ Keeps(room.heap, room.str, b, first)
      /\ first.str.length <= s.length /\ first.str.capacity = room.str.capacity
      /\ first.str.content = room.str.content
  <2>1. s.length + room.str.length <= room.str.capacity
    BY <1>2, <1>4, <1>5
  <2>2. /\ Keeps(room.heap, room.str, b, first)
        /\ first.str.length <= s.length + room.str.length
        /\ first.str.capacity = room.str.capacity
        /\ first.str.content = room.str.content
    BY <1>1, <1>2, <1>5, <1>7, <2>1, AppendInPlaceKeeps
  <2> HIDE DEF first
  <2>3. first.str.length \in Nat
    BY <2>2 DEF Keeps, Fits, StrType
  <2> QED
    BY <1>2, <1>4, <2>2, <2>3
<1> HIDE DEF first
<1>9. /\ first.heap \in HeapType /\ first.heap.sound /\ Fits(first.heap, first.str)
      /\ first.str.length \in Nat
      /\ first.heap.live = room.heap.live
      /\ \A c \in Block \ {b} : first.heap.cells[c] = heap.cells[c]
  <2>1. room.str.content \in {Null, b}
    BY <1>4
  <2>2. room.str.content # Null => room.str.content \in room.heap.live
    BY <1>5 DEF Fits
  <2>3. Null \notin room.heap.live
    BY <1>5, NullAssumption DEF HeapType
  <2> QED
    BY <1>5, <1>8, <2>1, <2>2, <2>3, NullAssumption DEF Keeps, Fits, StrType
<1>10. /\ Readable(first.heap, pt, t.length)
       /\ pt.block = first.str.content => pt.block = Null
  BY <1>1, <1>2, <1>4, <1>5, <1>6, <1>8, <1>9, StillReadable
<1>11. Keeps(first.heap, first.str, b, both)
  <2>1. t.length + first.str.length <= first.str.capacity
    BY <1>2, <1>4, <1>5, <1>8, <1>9
  <2> QED
    BY <1>1, <1>2, <1>9, <1>10, <2>1, AppendInPlaceKeeps
<1> HIDE DEF both
<1>12. Keeps(heap, Empty, b, both)
  <2>1. /\ both.heap \in HeapType /\ both.heap.sound /\ Fits(both.heap, both.str)
        /\ both.str.content \in {Null, first.str.content, b}
        /\ both.heap.live = (first.heap.live \ {first.str.content})
                              \cup ({both.str.content} \ {Null})
        /\ \A c \in Block \ {first.str.content, b} : both.heap.cells[c] = first.heap.cells[c]
    BY <1>11 DEF Keeps
  <2>2. first.str.content \in {Null, b}
    BY <1>4, <1>8
  <2>3. both.heap.live = heap.live \cup ({both.str.content} \ {Null})
    <3>1. Null \notin heap.live
      BY <1>1, NullAssumption DEF HeapType
    <3>2. first.heap.live = heap.live \cup ({first.str.content} \ {Null})
      BY <1>5, <1>8, <1>9
    <3>3. first.heap.live \ {first.str.content} = heap.live
      BY <1>1, <2>2, <3>1, <3>2
    <3> QED
      BY <2>1, <3>3
  <2>4. \A c \in Block \ {Null, b} : both.heap.cells[c] = heap.cells[c]
    BY <1>9, <2>1, <2>2
  <2>5. Null \notin heap.live
    BY <1>1, NullAssumption DEF HeapType
  <2> QED
    BY <1>1, <2>1, <2>2, <2>3, <2>4, <2>5 DEF Keeps
<1>13. Holds(both.heap, both.str, Value(p) \o Value(q))
  <2>1. b \notin heap.live /\ heap.live \subseteq first.heap.live /\ b \in Block
    BY <1>1, <1>5, <1>9
  <2>2. Shows(room.heap, ps, s.length, Value(p)) /\ Shows(first.heap, pt, t.length, Value(q))
    BY <1>1, <1>2, <1>5, <1>9, <2>1, StillShows
  <2>3. Holds(room.heap, room.str, <<>>)
    BY <1>4, EmptyHolds
  <2>4. s.length + room.str.length <= room.str.capacity
    BY <1>2, <1>4, <1>5
  <2>5. Holds(first.heap, first.str, <<>> \o Value(p))
    BY <1>2, <1>5, <2>1, <2>2, <2>3, <2>4, AppendHolds DEF first
  <2>6. Holds(first.heap, first.str, Value(p))
    BY <1>2, <2>5, ConcatEmptySeq DEF Shows
  <2>7. t.length + first.str.length <= first.str.capacity
    BY <1>2, <1>4, <1>5, <1>8, <1>9
  <2> QED
    BY <1>2, <1>9, <2>1, <2>2, <2>6, <2>7, AppendHolds DEF both
<1> QED
  BY <1>3, <1>12, <1>13

LEMMA ConcatKeeps ==
    ASSUME Inv, NEW o \in Obj, NEW p \in Obj, NEW q \in Obj, NEW b \in Free,
           Concat(o, p, q, b)
    PROVE  Inv'
BY JoinedKeeps, ConstructKeeps DEF Concat, Joined

LEMMA CallsKeep ==
    ASSUME Inv, NEW o \in Obj, NEW b \in Free,
           \/ \E t \in Texts : AppendText(o, t, b) \/ AssignText(o, t, b)
           \/ \E p \in Obj : AppendString(o, p, b) \/ AssignString(o, p, b)
           \/ \E k, n \in Sizes : AppendPart(o, k, n, b)
           \/ \E n \in Sizes : Reserve(o, n, b) \/ Resize(o, n, b)
    PROVE  Inv'
<1> DEFINE s == str[o]
<1>1. /\ Core /\ heap \in HeapType /\ heap.sound /\ b \in Block \ heap.live
      /\ Fits(heap, s) /\ s \in StrType
  BY DEF Inv, Core, MemorySafe, Free
<1>2. ASSUME NEW t \in Texts, AppendText(o, t, b) PROVE Inv'
  <2>1. t \in Seq(Byte)
    BY DataAssumption
  <2>2. Keeps(heap, s, b, _append(heap, s, User(t), Len(t), b))
    BY <1>1, <2>1, UserReadable, AppendKeeps
  <2> QED
    BY <1>2, <2>2, CallKeeps DEF AppendText
<1>3. ASSUME NEW t \in Texts, AssignText(o, t, b) PROVE Inv'
  <2>1. t \in Seq(Byte)
    BY DataAssumption
  <2>2. Keeps(heap, s, b, _set(heap, s, User(t), Len(t), b))
    BY <1>1, <2>1, UserReadable, SetKeeps
  <2> QED
    BY <1>3, <2>2, CallKeeps DEF AssignText
<1>4. ASSUME NEW p \in Obj, AppendString(o, p, b) PROVE Inv'
  <2> DEFINE x == At(str[p].content, 0)
             n == str[p].length
  <2>1. /\ x \in Pointer /\ n \in Nat /\ Readable(heap, x, n)
        /\ x.block = str[p].content /\ x.offset = 0
    BY <1>1, ContentReadable
  <2>2. x.block = s.content => x.block = Null \/ x.offset + n <= s.length
    BY <1>1, <2>1 DEF Core, OneOwner, StrType
  <2>3. Call(o, _append(heap, s, x, n, b))
    BY <1>4 DEF AppendString
  <2> HIDE DEF x, n
  <2>4. Keeps(heap, s, b, _append(heap, s, x, n, b))
    BY <1>1, <2>1, <2>2, AppendKeeps
  <2> QED
    BY <2>3, <2>4, CallKeeps
<1>5. ASSUME NEW p \in Obj, AssignString(o, p, b) PROVE Inv'
  <2>1. CASE p = o
    <3>1. Keeps(heap, s, b, Done(heap, s))
      BY <1>1, NothingKeeps
    <3> QED
      BY <1>5, <2>1, <3>1, CallKeeps DEF AssignString
  <2>2. CASE p # o
    <3> DEFINE x == At(str[p].content, 0)
               n == str[p].length
    <3>1. /\ x \in Pointer /\ n \in Nat /\ Readable(heap, x, n)
          /\ x.block = str[p].content
      BY <1>1, ContentReadable
    <3>2. x.block = s.content => x.block = Null
      BY <1>1, <2>2, <3>1 DEF Core, OneOwner
    <3>3. Call(o, _set(heap, s, x, n, b))
      BY <1>5, <2>2 DEF AssignString
    <3> HIDE DEF x, n
    <3>4. Keeps(heap, s, b, _set(heap, s, x, n, b))
      BY <1>1, <3>1, <3>2, SetKeeps
    <3> QED
      BY <3>3, <3>4, CallKeeps
  <2> QED
    BY <2>1, <2>2
<1>6. ASSUME NEW k \in Sizes, NEW n \in Sizes, AppendPart(o, k, n, b) PROVE Inv'
  <2> DEFINE x == At(s.content, k)
  <2>1. k \in Nat /\ n \in Nat /\ k + n <= s.length
    BY <1>6, DataAssumption DEF AppendPart
  <2>2. /\ s.content \in Block \cup {Null} /\ s.length \in Nat /\ s.capacity \in Nat
        /\ s.length <= s.capacity
        /\ s.content = Null => s.capacity = 0
    BY <1>1 DEF Fits, StrType
  <2>3. x \in Pointer /\ x.block = s.content /\ x.offset = k
    <3>1. <<>> \in Seq(Byte)
      OBVIOUS
    <3> QED
      BY <2>1, <2>2, <3>1 DEF At, Pointer
  <2>4. Readable(heap, x, n)
    <3>1. CASE s.content = Null
      <4>1. n = 0
        BY <2>1, <2>2, <3>1
      <4> QED
        BY <3>1, <4>1 DEF Readable, At
    <3>2. CASE s.content # Null
      <4>1. heap.cells[s.content] \in Seq(Cell)
        BY <1>1, <2>2, <3>2 DEF HeapType
      <4>2. Len(heap.cells[s.content]) \in Nat
        BY <4>1
      <4>3. s.content \in heap.live /\ s.capacity <= Len(heap.cells[s.content])
        BY <1>1, <3>2 DEF Fits
      <4> QED
        BY <2>1, <2>2, <2>3, <3>2, <4>2, <4>3, SMTT(40) DEF Readable
    <3> QED
      BY <3>1, <3>2
  <2>5. Call(o, _append(heap, s, x, n, b))
    BY <1>6 DEF AppendPart
  <2> HIDE DEF x
  <2>6. Keeps(heap, s, b, _append(heap, s, x, n, b))
    BY <1>1, <2>1, <2>3, <2>4, AppendKeeps
  <2> QED
    BY <2>5, <2>6, CallKeeps
<1>7. ASSUME NEW n \in Sizes, Reserve(o, n, b) PROVE Inv'
  <2>1. n \in Nat
    BY DataAssumption
  <2>2. Keeps(heap, s, b, _recap(heap, s, n, b))
    BY <1>1, <2>1, RecapKeeps
  <2> QED
    BY <1>7, <2>2, CallKeeps DEF Reserve
<1>8. ASSUME NEW n \in Sizes, Resize(o, n, b) PROVE Inv'
  <2>1. n \in Nat
    BY DataAssumption
  <2>2. Keeps(heap, s, b, _recap_hold(heap, s, n, b))
    BY <1>1, <2>1, RecapHoldKeeps
  <2> QED
    BY <1>8, <2>2, CallKeeps DEF Resize
<1> QED
  BY <1>2, <1>3, <1>4, <1>5, <1>6, <1>7, <1>8

LEMMA FillKeeps ==
    ASSUME Inv, NEW o \in Obj, NEW b \in Free, NEW c \in Byte, NEW n \in Sizes,
           Fill(o, c, n, b)
    PROVE  Inv'
<1> DEFINE s    == str[o]
           room == _recap(heap, s, n, b)
           g    == IF n = 0 THEN room.heap ELSE Memset(room.heap, room.str.content, c, n)
           t    == [room.str EXCEPT !.length = n]
<1>1. /\ Core /\ heap \in HeapType /\ heap.sound /\ b \in Block \ heap.live
      /\ Fits(heap, s) /\ n \in Nat
  BY DataAssumption DEF Inv, Core, MemorySafe, Free
<1>2. Call(o, Done(g, t))
  BY DEF Fill
<1>3. /\ Keeps(heap, s, b, room) /\ n <= room.str.capacity
      /\ room.str.content = IF n = 0 THEN Null ELSE b
  BY <1>1, RecapKeeps
<1> HIDE DEF room
<1>4. /\ room.heap \in HeapType /\ room.heap.sound /\ room.str \in StrType
      /\ Fits(room.heap, room.str) /\ room.str.capacity \in Nat
  BY <1>3 DEF Keeps, Fits, StrType
<1>5. /\ g \in HeapType /\ g.sound /\ g.live = room.heap.live
      /\ n # 0 => Len(g.cells[b]) = Len(room.heap.cells[b])
      /\ \A d \in Block \ {b} : g.cells[d] = room.heap.cells[d]
  <2>1. CASE n = 0
    BY <2>1, <1>4
  <2>2. CASE n # 0
    <3>1. /\ b # Null /\ b \in room.heap.live
          /\ room.str.capacity <= Len(room.heap.cells[b]) /\ b \in Block
      BY <2>2, <1>1, <1>3, <1>4, NullAssumption DEF Fits
    <3>2. Len(room.heap.cells[b]) \in Nat
      <4>1. room.heap.cells[b] \in Seq(Cell)
        BY <1>4, <3>1 DEF HeapType
      <4> QED
        BY <4>1
    <3>3. n <= Len(room.heap.cells[b])
      BY <1>1, <1>3, <1>4, <3>1, <3>2
    <3>4. g = Memset(room.heap, b, c, n)
      BY <2>2, <1>3
    <3> HIDE DEF g
    <3> QED
      BY <1>1, <1>4, <3>1, <3>3, <3>4, MemsetKeeps
  <2> QED
    BY <2>1, <2>2
<1> HIDE DEF g
<1>6. /\ t \in StrType /\ t.content = room.str.content
      /\ t.capacity = room.str.capacity /\ t.length = n
  BY <1>1, <1>4 DEF StrType
<1> HIDE DEF t
<1>7. Fits(g, t)
  BY <1>1, <1>3, <1>4, <1>5, <1>6, NullAssumption DEF Fits
<1>8. Keeps(heap, s, b, Done(g, t))
  BY <1>3, <1>5, <1>6, <1>7 DEF Keeps, Done
<1> QED
  BY <1>2, <1>8, CallKeeps

LEMMA ExtractByteKeeps ==
    ASSUME Inv, NEW b \in Free, ExtractByte(b)
    PROVE  Inv'
<1> DEFINE t == <<Head(input)>>
           s == str[reader]
           r == _append(heap, s, User(t), 1, b)
<1>1. /\ Core /\ heap \in HeapType /\ heap.sound /\ b \in Block \ heap.live
      /\ reader \in Obj /\ reader \in exists /\ exists \subseteq Obj
      /\ Fits(heap, s)
  BY DEF Inv, Core, Rest, MemorySafe, Free, ExtractByte
<1>2. Head(input) \in Byte /\ Tail(input) \in Seq(Byte)
  BY DEF Inv, Rest, ExtractByte
<1>3. t \in Seq(Byte) /\ Len(t) = 1
  BY <1>2
<1> HIDE DEF t
<1>4. Keeps(heap, s, b, r)
  BY <1>1, <1>3, UserReadable, AppendKeeps
<1>5. Update(reader, r) /\ exists' = exists
  BY DEF ExtractByte, t
<1> HIDE DEF r
<1>6. Core'
  BY <1>1, <1>4, <1>5, UpdateKeeps
<1>7. Rest'
  BY <1>2 DEF Inv, Rest, ExtractByte
<1> QED
  BY <1>6, <1>7 DEF Inv

LEMMA DestroyKeeps ==
    ASSUME Inv, NEW o \in Obj, Destroy(o)
    PROVE  Inv'
<1> DEFINE s == str[o]
           c == s.content
           g == Delete(heap, c)
<1>1. /\ Core /\ heap \in HeapType /\ heap.sound /\ exists \subseteq Obj
      /\ c \in Block \cup {Null}
      /\ (c # Null => c \in heap.live)
  BY DEF Inv, Core, MemorySafe, Fits, StrType
<1>2. Null \notin heap.live
  BY <1>1, NullAssumption DEF HeapType
<1>3. Update(o, Done(g, Empty)) /\ exists' = exists \ {o}
  BY DEF Destroy
<1> HIDE DEF c
<1>4. /\ g \in HeapType /\ g.sound /\ g.live = heap.live \ {c}
      /\ \A d \in Block \ {c} : g.cells[d] = heap.cells[d]
  BY <1>1, DeleteKeeps
<1> HIDE DEF g
<1>5. c = s.content
  BY DEF c
<1>6. Keeps(heap, s, Null, Done(g, Empty)) /\ Done(g, Empty).str = Empty
  BY <1>4, <1>5, EmptyFits DEF Keeps, Done
<1>7. Core'
  BY <1>1, <1>2, <1>3, <1>6, UpdateKeeps
<1>8. Rest'
  BY <1>3 DEF Inv, Rest, Destroy, Start
<1> QED
  BY <1>7, <1>8 DEF Inv

LEMMA MoveKeeps ==
    ASSUME Inv, NEW o \in Obj, NEW p \in Obj, MoveConstruct(o, p) \/ Swap(o, p)
    PROVE  Inv'
<1>1. /\ str \in [Obj -> StrType] /\ heap' = heap /\ exists \subseteq Obj
      /\ heap.live = {str[q].content : q \in Obj} \ {Null}
      /\ \A q \in Obj \ exists : str[q] = Empty
      /\ \A q, t \in Obj : str[q].content = str[t].content
                             => q = t \/ str[q].content = Null
      /\ \A q \in Obj : Fits(heap, str[q])
      /\ heap \in HeapType /\ heap.sound
  BY DEF Inv, Core, OneOwner, MemorySafe, MoveConstruct, Swap
<1>2. Empty.content = Null /\ Fits(heap, Empty) /\ Empty \in StrType
  BY EmptyFits DEF Fits
<1>3. /\ str' \in [Obj -> StrType]
      /\ \A q \in Obj \ {o, p} : str'[q] = str[q]
      /\ str'[o] = str[p] /\ str'[p] = str[o]
  <2>1. CASE MoveConstruct(o, p)
    <3>1. o # p /\ str[o] = Empty /\ str' = [str EXCEPT ![o] = str[p], ![p] = Empty]
      BY <1>1, <2>1 DEF MoveConstruct
    <3> QED
      BY <1>1, <1>2, <3>1
  <2>2. CASE Swap(o, p)
    <3>1. str' = [str EXCEPT ![o] = str[p], ![p] = str[o]]
      BY <2>2 DEF Swap
    <3> QED
      BY <1>1, <3>1
  <2> QED
    BY <2>1, <2>2
<1>4. exists' \subseteq Obj /\ exists \subseteq exists'
      /\ \A q \in Obj \ exists' : str'[q] = Empty
  <2>1. CASE MoveConstruct(o, p)
    BY <1>1, <1>3, <2>1 DEF MoveConstruct
  <2>2. CASE Swap(o, p)
    BY <1>1, <1>3, <2>2 DEF Swap
  <2> QED
    BY <2>1, <2>2
<1>5. \A q, t \in Obj : str'[q].content = str'[t].content
                          => q = t \/ str'[q].content = Null
  <2> DEFINE f[q \in Obj] == IF q = o THEN p ELSE IF q = p THEN o ELSE q
  <2>1. \A q \in Obj : f[q] \in Obj /\ str'[q] = str[f[q]]
    BY <1>3
  <2>2. \A q, t \in Obj : f[q] = f[t] => q = t
    OBVIOUS
  <2> HIDE DEF f
  <2> QED
    BY <1>1, <2>1, <2>2
<1>6. {str'[q].content : q \in Obj} = {str[q].content : q \in Obj}
  BY <1>3
<1>7. \A q \in Obj : Fits(heap, str'[q])
  BY <1>1, <1>3
<1>8. Core'
  BY <1>1, <1>3, <1>4, <1>5, <1>6, <1>7 DEF Core, OneOwner, MemorySafe
<1>9. Rest'
  BY <1>4 DEF Inv, Rest, MoveConstruct, Swap, Start
<1> QED
  BY <1>8, <1>9 DEF Inv

-----------------------------------------------------------------------------

LEMMA Inductive ==
    ASSUME Inv, [Next]_vars
    PROVE  Inv'
<1>1. ASSUME NEW o \in Obj, NEW b \in Free, Allocating(o, b) PROVE Inv'
  BY <1>1, ConstructorsKeep, ConcatKeeps, CallsKeep, FillKeeps, ExtractByteKeeps
     DEF Allocating
<1>2. ASSUME NEW o \in Obj, NEW p \in Obj, MoveConstruct(o, p) \/ Swap(o, p) PROVE Inv'
  BY <1>2, MoveKeeps
<1>3. ASSUME NEW o \in Obj, Destroy(o) PROVE Inv'
  BY <1>3, DestroyKeeps
<1>4. ASSUME NEW o \in Obj, NEW t \in Texts, Extract(o, t) PROVE Inv'
  <2>1. t \in Seq(Byte) /\ str' = str /\ heap' = heap /\ exists' = exists
    BY <1>4, DataAssumption DEF Extract
  <2>2. Core'
    BY <2>1 DEF Inv, Core, OneOwner, MemorySafe
  <2>3. Rest'
    BY <1>4, <2>1 DEF Inv, Rest, Extract, Start
  <2> QED
    BY <2>2, <2>3 DEF Inv
<1>5. CASE ExtractEnds
  <2>1. Core'
    BY <1>5 DEF Inv, Core, OneOwner, MemorySafe, ExtractEnds
  <2>2. Rest'
    BY <1>5 DEF Inv, Rest, ExtractEnds
  <2> QED
    BY <2>1, <2>2 DEF Inv
<1>6. CASE UNCHANGED vars
  <2>1. Core'
    BY <1>6 DEF Inv, Core, OneOwner, MemorySafe, vars
  <2>2. Rest'
    BY <1>6 DEF Inv, Rest, vars
  <2> QED
    BY <2>1, <2>2 DEF Inv
<1> QED
  BY <1>1, <1>2, <1>3, <1>4, <1>5, <1>6 DEF Next, Enough

LEMMA Initially ==
    ASSUME Init
    PROVE  Inv
<1>1. Core
  <2>1. heap \in HeapType
    BY DEF Init, HeapType
  <2> QED
    BY <2>1, EmptyFits DEF Init, Core, OneOwner, MemorySafe, Fits
<1>2. Rest
  BY DEF Init, Rest
<1> QED
  BY <1>1, <1>2 DEF Inv

LEMMA Invariance == Spec => []Inv
BY Initially, Inductive, PTL DEF Spec

-----------------------------------------------------------------------------
(* The values: each operation is the step of ByteString it stands for.      *)

\* What a private function does to one string leaves the other values alone.
LEMMA UpdateBecomes ==
    ASSUME Core, NEW o \in Obj, NEW b, b \notin heap.live, NEW r,
           Keeps(heap, str[o], b, r), Update(o, r),
           NEW v, Holds(r.heap, r.str, v)
    PROVE  Vals' = [Vals EXCEPT ![o] = v]
<1>1. /\ str \in [Obj -> StrType] /\ r.heap \in HeapType /\ Fits(r.heap, r.str)
      /\ \A c \in Block \ {str[o].content, b} : r.heap.cells[c] = heap.cells[c]
      /\ heap.live = {str[q].content : q \in Obj} \ {Null}
      /\ \A q, t \in Obj : str[q].content = str[t].content
                             => q = t \/ str[q].content = Null
  BY DEF Keeps, Core, OneOwner
<1>2. str' = [str EXCEPT ![o] = r.str] /\ heap' = r.heap
  BY DEF Update
<1>3. Value(o)' = v
  <2>1. str'[o] = r.str
    BY <1>1, <1>2
  <2>2. Value(o)' = Text(r.heap, r.str)
    BY <1>2, <2>1 DEF Value, Text
  <2> QED
    BY <1>1, <2>2, TextHeld
<1>4. ASSUME NEW q \in Obj \ {o} PROVE Value(q)' = Value(q)
  <2>1. str'[q] = str[q]
    BY <1>1, <1>2
  <2>2. CASE str[q].content = Null
    BY <2>1, <2>2 DEF Value
  <2>3. CASE str[q].content # Null
    <3>1. str[q].content \in Block \ {str[o].content, b}
      BY <1>1, <2>3 DEF StrType
    <3>2. heap'.cells[str[q].content] = heap.cells[str[q].content]
      BY <1>1, <1>2, <3>1
    <3> QED
      BY <2>1, <2>3, <3>2 DEF Value
  <2> QED
    BY <2>2, <2>3
<1> QED
  BY <1>3, <1>4 DEF Vals

LEMMA ConstructBecomes ==
    ASSUME Inv, NEW o \in Obj, NEW b \in Free, NEW r, Construct(o, r),
           Keeps(heap, Empty, b, r), NEW v, Holds(r.heap, r.str, v)
    PROVE  Abstract!Create(o, v)
<1>1. Core /\ b \notin heap.live /\ o \notin exists /\ str[o] = Empty
  BY FreshObject DEF Inv, Construct, Free
<1>2. Update(o, r) /\ exists' = exists \cup {o}
  BY DEF Construct
<1>3. Vals' = [Vals EXCEPT ![o] = v]
  BY <1>1, <1>2, UpdateBecomes
<1> QED
  BY <1>1, <1>2, <1>3 DEF Abstract!Create, Abstract!Becomes, Vals

LEMMA CallBecomes ==
    ASSUME Inv, NEW o \in Obj, NEW b \in Free, NEW r, Call(o, r),
           Keeps(heap, str[o], b, r), NEW v, Holds(r.heap, r.str, v)
    PROVE  o \in exists /\ exists' = exists /\ Abstract!Becomes(o, v)
           /\ Vals' = [Vals EXCEPT ![o] = v]
<1>1. Core /\ b \notin heap.live
  BY DEF Inv, Free
<1>2. Update(o, r) /\ exists' = exists /\ o \in exists
  BY DEF Call
<1>3. Vals' = [Vals EXCEPT ![o] = v]
  BY <1>1, <1>2, UpdateBecomes
<1> QED
  BY <1>2, <1>3 DEF Abstract!Becomes, Vals

LEMMA BirthIsBorn ==
    ASSUME Inv, NEW o \in Obj, NEW b \in Free,
           \/ \E t \in Texts : FromText(o, t, b) \/ Shift(o, t, b)
           \/ \E n \in Sizes : WithCapacity(o, n, b)
           \/ \E p \in Obj : CopyConstruct(o, p, b)
           \/ \E p, q \in Obj : Concat(o, p, q, b)
    PROVE  Abstract!Born(o)
<1>1. /\ Core /\ heap \in HeapType /\ heap.sound /\ b \in Block \ heap.live
      /\ Fits(heap, Empty) /\ Empty.content = Null /\ Empty.length = 0
      /\ Holds(heap, Empty, <<>>)
  BY EmptyFits, EmptyHolds DEF Inv, Core, MemorySafe, Free, Empty
<1>2. ASSUME NEW n \in Nat, NEW p \in Pointer, NEW w, Shows(heap, p, n, w)
      PROVE  /\ Keeps(heap, Empty, b, _append(heap, Empty, p, n, b))
             /\ Holds(_append(heap, Empty, p, n, b).heap,
                      _append(heap, Empty, p, n, b).str, w)
  <2>1. w \in Seq(Cell) /\ <<>> \o w = w
    BY <1>2, ConcatEmptySeq DEF Shows
  <2>2. Keeps(heap, Empty, b, _append(heap, Empty, p, n, b))
    BY <1>1, <1>2, AppendKeeps DEF Shows
  <2>3. b \in Block /\ b \notin heap.live
    BY <1>1
  <2>4. Holds(_append(heap, Empty, p, n, b).heap,
              _append(heap, Empty, p, n, b).str, <<>> \o w)
    BY <1>1, <1>2, <2>3, AppendHolds
  <2> QED
    BY <2>1, <2>2, <2>4
<1>3. ASSUME NEW t \in Texts, FromText(o, t, b) PROVE Abstract!Born(o)
  <2>1. t \in Seq(Byte) /\ User(t) \in Pointer /\ Len(t) \in Nat
        /\ Shows(heap, User(t), Len(t), t)
    BY DataAssumption, UserReadable, UserShows
  <2>2. Abstract!Create(o, t)
    BY <1>2, <1>3, <2>1, ConstructBecomes DEF FromText
  <2> QED
    BY <2>2 DEF Abstract!Born
<1>4. ASSUME NEW t \in Texts, Shift(o, t, b) PROVE Abstract!Born(o)
  <2> DEFINE n == Len(t)
             k == 0
             buffer == New(heap, b, n)
             g == Memcpy(buffer, b, k, User(t), n)
             s == [content |-> b, capacity |-> n, length |-> n]
  <2>1. t \in Seq(Byte)
    BY DataAssumption
  <2>2. /\ User(t) \in Pointer /\ n \in Nat /\ Readable(buffer, User(t), n)
        /\ User(t).block = Null /\ Shows(buffer, User(t), n, t)
    BY <2>1, UserReadable, UserShows
  <2>3. s.content = b /\ s.length = n /\ n = Len(t) /\ s.capacity = n
    OBVIOUS
  <2>4. Construct(o, Done(g, s))
    BY <1>4 DEF Shift
  <2> HIDE DEF n, s
  <2>5. /\ buffer \in HeapType /\ buffer.sound /\ buffer.live = heap.live \cup {b}
        /\ Len(buffer.cells[b]) = n
        /\ \A c \in Block \ {b} : buffer.cells[c] = heap.cells[c]
    BY <1>1, <2>2, NewKeeps
  <2> HIDE DEF buffer
  <2>6. /\ b # Null /\ b \in buffer.live /\ k + n <= Len(buffer.cells[b]) /\ k \in Nat
        /\ b \in Block
    BY <1>1, <2>2, <2>5, NullAssumption
  <2> HIDE DEF g, k
  <2>7. /\ g \in HeapType /\ g.sound /\ g.live = buffer.live
        /\ Len(g.cells[b]) = Len(buffer.cells[b])
        /\ \A c \in Block \ {b} : g.cells[c] = buffer.cells[c]
    BY <2>2, <2>5, <2>6, MemcpyKeeps DEF g
  <2>8. Lies(g, b, k, t)
    BY <2>2, <2>5, <2>6, MemcpyCopies DEF g
  <2>9. Holds(g, s, t)
    BY <2>3, <2>8 DEF Holds, k
  <2>10. Fits(g, s)
    <3>1. s \in StrType
      BY <2>2, <2>6 DEF s, StrType
    <3> QED
      BY <2>2, <2>3, <2>5, <2>6, <2>7, <3>1 DEF Fits
  <2>11. Keeps(heap, Empty, b, Done(g, s))
    <3>1. Null \notin heap.live
      BY <1>1, NullAssumption DEF HeapType
    <3> QED
      BY <1>1, <2>3, <2>5, <2>6, <2>7, <2>10, <3>1 DEF Keeps, Done
  <2>12. Abstract!Create(o, t)
    BY <2>4, <2>9, <2>11, ConstructBecomes DEF Done
  <2> QED
    BY <2>12 DEF Abstract!Born
<1>5. ASSUME NEW n \in Sizes, WithCapacity(o, n, b) PROVE Abstract!Born(o)
  <2>1. n \in Nat
    BY DataAssumption
  <2> DEFINE r == _recap(heap, Empty, n, b)
  <2>2. Keeps(heap, Empty, b, r) /\ r.str.length = 0
    BY <1>1, <2>1, RecapKeeps
  <2>3. Construct(o, r)
    BY <1>5 DEF WithCapacity
  <2> HIDE DEF r
  <2>4. Abstract!Create(o, <<>>)
    BY <2>2, <2>3, EmptyHolds, ConstructBecomes
  <2> QED
    BY <2>4 DEF Abstract!Born
<1>6. ASSUME NEW p \in Obj, CopyConstruct(o, p, b) PROVE Abstract!Born(o)
  <2> DEFINE q == At(str[p].content, 0)
             n == str[p].length
  <2>1. _recap_hold(heap, Empty, 0, b) = Done(heap, Empty)
    BY <1>1 DEF _recap_hold, Delete, Empty
  <2>2. p \in exists /\ Construct(o, _append(heap, Empty, q, n, b))
    BY <1>6, <2>1 DEF CopyConstruct, Done
  <2>3. q \in Pointer /\ n \in Nat /\ Shows(heap, q, n, Value(p))
    BY <1>1, ContentReadable, ContentShows
  <2> HIDE DEF q, n
  <2>4. Abstract!Create(o, Value(p))
    BY <1>2, <2>2, <2>3, ConstructBecomes
  <2>5. Value(p) = Vals[p]
    BY DEF Vals
  <2> QED
    BY <2>2, <2>4, <2>5 DEF Abstract!Born, Vals
<1>7. ASSUME NEW p \in Obj, NEW q \in Obj, Concat(o, p, q, b) PROVE Abstract!Born(o)
  <2>1. Construct(o, Joined(p, q, b)) /\ p \in exists /\ q \in exists
    BY <1>7 DEF Concat, Joined
  <2>2. /\ Keeps(heap, Empty, b, Joined(p, q, b))
        /\ Holds(Joined(p, q, b).heap, Joined(p, q, b).str, Value(p) \o Value(q))
    BY JoinedKeeps
  <2>3. Abstract!Create(o, Value(p) \o Value(q))
    BY <2>1, <2>2, ConstructBecomes
  <2>4. Value(p) = Vals[p] /\ Value(q) = Vals[q]
    BY DEF Vals
  <2> QED
    BY <2>1, <2>3, <2>4 DEF Abstract!Born, Vals
<1> QED
  BY <1>3, <1>4, <1>5, <1>6, <1>7

LEMMA CallIsChange ==
    ASSUME Inv, NEW o \in Obj, NEW b \in Free,
           \/ \E t \in Texts : AppendText(o, t, b) \/ AssignText(o, t, b)
           \/ \E p \in Obj : AppendString(o, p, b) \/ AssignString(o, p, b)
           \/ \E k, n \in Sizes : AppendPart(o, k, n, b)
           \/ \E n \in Sizes : Reserve(o, n, b)
    PROVE  Abstract!Change(o)
<1> DEFINE s == str[o]
           v == Value(o)
<1>1. /\ Core /\ heap \in HeapType /\ heap.sound /\ b \in Block \ heap.live
      /\ Fits(heap, s) /\ s \in StrType /\ Holds(heap, s, v)
      /\ v \in Seq(Cell) /\ Len(v) = s.length /\ v = Vals[o]
  BY ValueHeld DEF Inv, Core, MemorySafe, Free, Vals
<1> HIDE DEF v
<1>2. ASSUME NEW n \in Nat, NEW p \in Pointer, NEW w, Shows(heap, p, n, w),
             p.block = s.content => p.block = Null \/ p.offset + n <= s.length,
             Call(o, _append(heap, s, p, n, b))
      PROVE  /\ o \in exists /\ exists' = exists
             /\ Abstract!Becomes(o, v \o w)
  <2>1. Keeps(heap, s, b, _append(heap, s, p, n, b))
    BY <1>1, <1>2, AppendKeeps DEF Shows
  <2>2. b \in Block /\ b \notin heap.live
    BY <1>1
  <2>3. Holds(_append(heap, s, p, n, b).heap, _append(heap, s, p, n, b).str, v \o w)
    BY <1>1, <1>2, <2>2, AppendHolds
  <2> QED
    BY <1>2, <2>1, <2>3, CallBecomes
<1>3. ASSUME NEW t \in Texts, AppendText(o, t, b) PROVE Abstract!Change(o)
  <2>1. t \in Seq(Byte) /\ User(t) \in Pointer /\ Len(t) \in Nat
        /\ Shows(heap, User(t), Len(t), t) /\ User(t).block = Null
    BY DataAssumption, UserReadable, UserShows
  <2>2. o \in exists /\ exists' = exists /\ Abstract!Becomes(o, Vals[o] \o t)
    BY <1>1, <1>2, <1>3, <2>1 DEF AppendText
  <2> QED
    BY <2>2 DEF Abstract!Change, Vals
<1>4. ASSUME NEW t \in Texts, AssignText(o, t, b) PROVE Abstract!Change(o)
  <2>1. t \in Seq(Byte) /\ User(t) \in Pointer /\ Len(t) \in Nat
        /\ Shows(heap, User(t), Len(t), t) /\ User(t).block = Null
        /\ Readable(heap, User(t), Len(t))
    BY DataAssumption, UserReadable, UserShows
  <2> DEFINE r == _set(heap, s, User(t), Len(t), b)
  <2>2. Keeps(heap, s, b, r) /\ Holds(r.heap, r.str, t)
    BY <1>1, <2>1, SetKeeps, SetHolds
  <2>3. Call(o, r)
    BY <1>4 DEF AssignText
  <2> HIDE DEF r
  <2>4. o \in exists /\ exists' = exists /\ Abstract!Becomes(o, t)
    BY <2>2, <2>3, CallBecomes
  <2> QED
    BY <2>4 DEF Abstract!Change
<1>5. ASSUME NEW p \in Obj, AppendString(o, p, b) PROVE Abstract!Change(o)
  <2> DEFINE x == At(str[p].content, 0)
             n == str[p].length
  <2>1. /\ x \in Pointer /\ n \in Nat /\ Shows(heap, x, n, Value(p))
        /\ x.block = str[p].content /\ x.offset = 0
    BY <1>1, ContentReadable, ContentShows
  <2>2. x.block = s.content => x.block = Null \/ x.offset + n <= s.length
    BY <1>1, <2>1 DEF Core, OneOwner, StrType
  <2>3. p \in exists /\ Call(o, _append(heap, s, x, n, b))
    BY <1>5 DEF AppendString
  <2>4. Value(p) = Vals[p]
    BY DEF Vals
  <2> HIDE DEF x, n
  <2>5. o \in exists /\ exists' = exists /\ Abstract!Becomes(o, Vals[o] \o Vals[p])
    BY <1>1, <1>2, <2>1, <2>2, <2>3, <2>4
  <2> QED
    BY <2>3, <2>5 DEF Abstract!Change, Vals
<1>6. ASSUME NEW p \in Obj, AssignString(o, p, b) PROVE Abstract!Change(o)
  <2> DEFINE x == At(str[p].content, 0)
             n == str[p].length
             r == IF p = o THEN Done(heap, s) ELSE _set(heap, s, x, n, b)
  <2>1. /\ x \in Pointer /\ n \in Nat /\ Shows(heap, x, n, Value(p))
        /\ x.block = str[p].content /\ Readable(heap, x, n)
    BY <1>1, ContentReadable, ContentShows
  <2>2. p # o => (x.block = s.content => x.block = Null)
    BY <1>1, <2>1 DEF Core, OneOwner
  <2>3. p \in exists /\ Call(o, r)
    BY <1>6 DEF AssignString
  <2>4. Value(p) = Vals[p]
    BY DEF Vals
  <2> HIDE DEF x, n
  <2>5. Keeps(heap, s, b, r) /\ Holds(r.heap, r.str, Value(p))
    <3>1. CASE p = o
      BY <1>1, <3>1, NothingKeeps DEF Done, v
    <3>2. CASE p # o
      BY <1>1, <2>1, <2>2, <3>2, SetKeeps, SetHolds
    <3> QED
      BY <3>1, <3>2
  <2> HIDE DEF r
  <2>6. o \in exists /\ exists' = exists /\ Abstract!Becomes(o, Vals[p])
    BY <2>3, <2>4, <2>5, CallBecomes
  <2> QED
    BY <2>3, <2>6 DEF Abstract!Change, Vals
<1>7. ASSUME NEW k \in Sizes, NEW n \in Sizes, AppendPart(o, k, n, b)
      PROVE  Abstract!Change(o)
  <2> DEFINE x == At(s.content, k)
             w == SubSeq(v, k + 1, k + n)
  <2>1. k \in Nat /\ n \in Nat /\ k + n <= s.length
    BY <1>7, DataAssumption DEF AppendPart
  <2>2. /\ s.content \in Block \cup {Null} /\ s.length \in Nat /\ s.capacity \in Nat
        /\ s.length <= s.capacity
        /\ s.content = Null => s.capacity = 0
        /\ s.content # Null => s.content \in heap.live
                               /\ s.capacity <= Len(heap.cells[s.content])
    BY <1>1 DEF Fits, StrType
  <2>3. x \in Pointer /\ x.block = s.content /\ x.offset = k /\ x.text = <<>>
    <3>1. <<>> \in Seq(Byte)
      OBVIOUS
    <3> QED
      BY <2>1, <2>2, <3>1 DEF At, Pointer
  <2>4. /\ w \in Seq(Cell) /\ Len(w) = n
        /\ \A i \in 1..n : w[i] = v[k + i]
    <3>1. \A i \in (k + 1)..(k + n) : v[i] \in Cell
      BY <1>1, <2>1, <2>2, ElementOfSeq
    <3>2. k + 1 \in Int /\ k + n \in Int
      BY <2>1
    <3>3. /\ w \in Seq(Cell)
          /\ Len(w) = IF k + 1 <= k + n THEN (k + n) - (k + 1) + 1 ELSE 0
          /\ \A i \in 1..((k + n) - (k + 1) + 1) : w[i] = v[k + 1 + i - 1]
      BY <3>1, <3>2, SubSeqProperties
    <3> HIDE DEF w
    <3>4. (k + n) - (k + 1) + 1 = n /\ \A i \in 1..n : k + 1 + i - 1 = k + i
      BY <2>1
    <3> QED
      BY <2>1, <3>3, <3>4
  <2>5. Call(o, _append(heap, s, x, n, b))
    BY <1>7 DEF AppendPart
  <2>6. ASSUME NEW i \in 0..n PROVE Readable(heap, x, i)
    <3>1. CASE s.content = Null
      <4>1. i = 0 /\ Len(<<>>) = 0
        BY <2>1, <2>2, <3>1
      <4> QED
        BY <2>3, <3>1, <4>1 DEF Readable
    <3>2. CASE s.content # Null
      <4>1. Len(heap.cells[s.content]) \in Nat
        BY <1>1, <2>2, <3>2 DEF HeapType
      <4>2. k + i <= Len(heap.cells[s.content])
        BY <2>1, <2>2, <3>2, <4>1
      <4> QED
        BY <2>2, <2>3, <3>2, <4>2 DEF Readable
    <3> QED
      BY <3>1, <3>2
  <2> HIDE DEF x
  <2>7. ASSUME NEW i \in 1..n PROVE CellAt(heap, x, i) = w[i]
    <3>1. Readable(heap, x, i) /\ s.content # Null
      BY <2>1, <2>2, <2>6
    <3>2. CellAt(heap, x, i) = heap.cells[s.content][k + i]
      BY <2>3, <3>1 DEF CellAt
    <3>3. k + i \in 1..Len(v) /\ 0 + (k + i) = k + i
      BY <1>1, <2>1, <2>2
    <3>4. heap.cells[s.content][k + i] = v[k + i]
      BY <1>1, <3>3 DEF Holds, Lies
    <3> QED
      BY <2>4, <3>2, <3>4
  <2> HIDE DEF w
  <2>8. Shows(heap, x, n, w)
    <3>1. Readable(heap, x, n)
      BY <2>1, <2>6
    <3> QED
      BY <2>4, <2>7, <3>1 DEF Shows
  <2>9. o \in exists /\ exists' = exists /\ Abstract!Becomes(o, v \o w)
    BY <1>2, <2>1, <2>3, <2>5, <2>8
  <2>10. o \in exists /\ exists' = exists /\ k + n <= Len(Vals[o])
         /\ Abstract!Becomes(o, Vals[o] \o SubSeq(Vals[o], k + 1, k + n))
    BY <1>1, <2>1, <2>9 DEF w
  <2> QED
    BY <2>10 DEF Abstract!Change, Vals
<1>8. ASSUME NEW n \in Sizes, Reserve(o, n, b) PROVE Abstract!Change(o)
  <2> DEFINE r == _recap(heap, s, n, b)
  <2>1. n \in Nat
    BY DataAssumption
  <2>2. Keeps(heap, s, b, r) /\ r.str.length = 0
    BY <1>1, <2>1, RecapKeeps
  <2>3. Call(o, r)
    BY <1>8 DEF Reserve
  <2> HIDE DEF r
  <2>4. o \in exists /\ exists' = exists /\ Abstract!Becomes(o, <<>>)
    BY <2>2, <2>3, EmptyHolds, CallBecomes
  <2> QED
    BY <2>4 DEF Abstract!Change
<1> QED
  BY <1>3, <1>4, <1>5, <1>6, <1>7, <1>8

LEMMA FillIsChange ==
    ASSUME Inv, NEW o \in Obj, NEW b \in Free, NEW c \in Byte, NEW n \in Sizes,
           Fill(o, c, n, b)
    PROVE  Abstract!Change(o)
<1> DEFINE s    == str[o]
           room == _recap(heap, s, n, b)
           g    == IF n = 0 THEN room.heap ELSE Memset(room.heap, room.str.content, c, n)
           t    == [room.str EXCEPT !.length = n]
           w    == [i \in 1..n |-> c]
<1>1. /\ Core /\ heap \in HeapType /\ heap.sound /\ b \in Block \ heap.live
      /\ Fits(heap, s) /\ n \in Nat
  BY DataAssumption DEF Inv, Core, MemorySafe, Free
<1>2. Call(o, Done(g, t))
  BY DEF Fill
<1>3. /\ Keeps(heap, s, b, room) /\ n <= room.str.capacity
      /\ room.str.content = IF n = 0 THEN Null ELSE b
  BY <1>1, RecapKeeps
<1> HIDE DEF room
<1>4. /\ room.heap \in HeapType /\ room.heap.sound /\ room.str \in StrType
      /\ Fits(room.heap, room.str) /\ room.str.capacity \in Nat
  BY <1>3 DEF Keeps, Fits, StrType
<1>5. t.content = room.str.content /\ t.capacity = room.str.capacity /\ t.length = n
  BY <1>4 DEF StrType
<1> HIDE DEF t, g, w
<1>6. Keeps(heap, s, b, Done(g, t)) /\ Holds(g, t, w)
  <2>1. CASE n = 0
    <3>1. w = <<>>
      BY <2>1 DEF w
    <3>2. g = room.heap /\ t \in StrType
      BY <1>1, <1>4, <2>1 DEF g, t, StrType
    <3>3. Fits(g, t)
      BY <1>4, <1>5, <2>1, <3>2 DEF Fits
    <3>4. Keeps(heap, s, b, Done(g, t))
      BY <1>3, <1>5, <3>2, <3>3 DEF Keeps, Done
    <3> QED
      BY <1>5, <2>1, <3>1, <3>4, EmptyHolds
  <2>2. CASE n # 0
    <3>1. /\ b # Null /\ b \in room.heap.live
          /\ room.str.capacity <= Len(room.heap.cells[b]) /\ b \in Block
      BY <2>2, <1>1, <1>3, <1>4, NullAssumption DEF Fits
    <3>2. Len(room.heap.cells[b]) \in Nat
      BY <1>4, <3>1 DEF HeapType
    <3>3. n <= Len(room.heap.cells[b])
      BY <1>1, <1>3, <1>4, <3>1, <3>2
    <3>4. g = Memset(room.heap, b, c, n)
      BY <2>2, <1>3 DEF g
    <3>5. /\ g \in HeapType /\ g.sound /\ g.live = room.heap.live
          /\ Len(g.cells[b]) = Len(room.heap.cells[b])
          /\ \A d \in Block \ {b} : g.cells[d] = room.heap.cells[d]
      BY <1>1, <1>4, <3>1, <3>3, <3>4, MemsetKeeps
    <3>6. t \in StrType
      BY <1>1, <1>4 DEF t, StrType
    <3>7. Fits(g, t)
      BY <1>1, <1>3, <1>4, <1>5, <3>1, <3>5, <3>6, NullAssumption DEF Fits
    <3>8. Keeps(heap, s, b, Done(g, t))
      BY <1>3, <1>5, <3>5, <3>7 DEF Keeps, Done
    <3>9. Lies(g, b, 0, w) /\ Len(w) = n
      BY <1>1, <1>4, <3>1, <3>3, <3>4, MemsetFills DEF w
    <3> QED
      BY <1>3, <1>5, <2>2, <3>8, <3>9 DEF Holds
  <2> QED
    BY <2>1, <2>2
<1>7. o \in exists /\ exists' = exists /\ Abstract!Becomes(o, w)
  BY <1>2, <1>6, CallBecomes DEF Done
<1> QED
  BY <1>7 DEF Abstract!Change, w

LEMMA ExtractByteIsChange ==
    ASSUME Inv, NEW b \in Free, ExtractByte(b)
    PROVE  reader \in Obj /\ Abstract!Change(reader)
<1> DEFINE c == Head(input)
           t == <<c>>
           s == str[reader]
           r == _append(heap, s, User(t), 1, b)
<1>1. /\ Core /\ heap \in HeapType /\ heap.sound /\ b \in Block \ heap.live
      /\ reader \in Obj /\ reader \in exists /\ exists \subseteq Obj
      /\ Fits(heap, s) /\ b \notin heap.live /\ b \in Block
  BY DEF Inv, Core, Rest, MemorySafe, Free, ExtractByte
<1>2. c \in Byte
  BY DEF Inv, Rest, ExtractByte
<1>3. t \in Seq(Byte) /\ Len(t) = 1
  BY <1>2
<1>4. Update(reader, r) /\ exists' = exists
  BY DEF ExtractByte
<1> HIDE DEF t
<1>5. /\ Shows(heap, User(t), 1, t) /\ Holds(heap, s, Value(reader))
      /\ User(t) \in Pointer /\ User(t).block = Null /\ Readable(heap, User(t), 1)
  BY <1>1, <1>3, UserReadable, UserShows, ValueHeld
<1>6. Keeps(heap, s, b, r)
  BY <1>1, <1>5, AppendKeeps
<1>7. Holds(r.heap, r.str, Value(reader) \o t)
  BY <1>1, <1>5, AppendHolds
<1> HIDE DEF r
<1>8. Vals' = [Vals EXCEPT ![reader] = Value(reader) \o t]
  BY <1>1, <1>4, <1>6, <1>7, UpdateBecomes
<1>9. Value(reader) \o t = Append(Vals[reader], c)
  <2>1. Value(reader) \in Seq(Cell) /\ c \in Cell /\ Vals[reader] = Value(reader)
    BY <1>1, <1>2, ValueHeld DEF Vals, Cell
  <2> QED
    BY <2>1, AppendIsConcat DEF t
<1>10. Abstract!Becomes(reader, Append(Vals[reader], c))
  BY <1>8, <1>9 DEF Abstract!Becomes, Vals
<1> QED
  BY <1>1, <1>2, <1>4, <1>10 DEF Abstract!Change, Vals

LEMMA ResizeIsResize ==
    ASSUME Inv, NEW o \in Obj, NEW b \in Free, NEW n \in Sizes, Resize(o, n, b)
    PROVE  Abstract!Resize(o, n)
<1> DEFINE r == _recap_hold(heap, str[o], n, b)
           x == Text(r.heap, r.str)
<1>1. /\ Core /\ heap \in HeapType /\ heap.sound /\ b \in Block \ heap.live
      /\ Fits(heap, str[o]) /\ n \in Nat /\ Holds(heap, str[o], Value(o))
  BY DataAssumption, ValueHeld DEF Inv, Core, MemorySafe, Free
<1>2. Keeps(heap, str[o], b, r)
  BY <1>1, RecapHoldKeeps
<1>3. Call(o, r)
  BY DEF Resize
<1>4. Holds(r.heap, r.str, x)
  <2> HIDE DEF r
  <2> QED
    BY <1>2, TextHeld DEF Keeps
<1> HIDE DEF x
<1>5. Len(x) = n /\ \A i \in 1..n : i <= Len(Value(o)) => x[i] = Value(o)[i]
  BY <1>1, <1>4, RecapHoldHolds
<1> HIDE DEF r
<1>6. o \in exists /\ exists' = exists /\ Vals' = [Vals EXCEPT ![o] = x]
  BY <1>2, <1>3, <1>4, CallBecomes
<1>7. /\ Vals'[o] = x /\ Vals[o] = Value(o)
      /\ \A p \in Obj \ {o} : Vals'[p] = Vals[p]
  BY <1>6 DEF Vals
<1>8. /\ Len(Vals'[o]) = n
      /\ \A i \in 1..n : i <= Len(Vals[o]) => Vals'[o][i] = Vals[o][i]
  BY <1>5, <1>7
<1> QED
  BY <1>6, <1>7, <1>8 DEF Abstract!Resize, Vals

LEMMA DestroyIsDestroy ==
    ASSUME Inv, NEW o \in Obj, Destroy(o)
    PROVE  Abstract!Destroy(o)
<1> DEFINE c == str[o].content
           g == Delete(heap, c)
<1>1. /\ Core /\ heap \in HeapType /\ heap.sound
      /\ c \in Block \cup {Null} /\ (c # Null => c \in heap.live)
      /\ Null \notin heap.live
  BY NullAssumption DEF Inv, Core, MemorySafe, Fits, StrType, HeapType
<1>2. Update(o, Done(g, Empty)) /\ exists' = exists \ {o} /\ o \in exists
  BY DEF Destroy
<1> HIDE DEF c
<1>3. /\ g \in HeapType /\ g.sound /\ g.live = heap.live \ {c}
      /\ \A d \in Block \ {c} : g.cells[d] = heap.cells[d]
  BY <1>1, DeleteKeeps
<1> HIDE DEF g
<1>4. Keeps(heap, str[o], Null, Done(g, Empty))
  BY <1>3, EmptyFits DEF Keeps, Done, c
<1>5. Holds(Done(g, Empty).heap, Done(g, Empty).str, <<>>)
  BY EmptyHolds DEF Done, Empty
<1>6. Vals' = [Vals EXCEPT ![o] = <<>>]
  BY <1>1, <1>2, <1>4, <1>5, UpdateBecomes
<1> QED
  BY <1>2, <1>6 DEF Abstract!Destroy, Abstract!Becomes, Vals

LEMMA MoveIsMove ==
    ASSUME Inv, NEW o \in Obj, NEW p \in Obj, MoveConstruct(o, p) \/ Swap(o, p)
    PROVE  Abstract!Move(o, p) \/ Abstract!Swap(o, p)
<1>1. /\ str \in [Obj -> StrType] /\ heap' = heap
      /\ \A q \in Obj \ exists : str[q] = Empty
  BY DEF Inv, Core, OneOwner, MoveConstruct, Swap
<1>2. ASSUME NEW q \in Obj, NEW t \in Obj, str'[q] = str[t]
      PROVE  Value(q)' = Value(t)
  BY <1>1, <1>2 DEF Value
<1>3. CASE MoveConstruct(o, p)
  <2>1. /\ o \notin exists /\ p \in exists /\ exists' = exists \cup {o} /\ o # p
        /\ str' = [str EXCEPT ![o] = str[p], ![p] = Empty]
    BY <1>3 DEF MoveConstruct
  <2>2. str'[o] = str[p] /\ str'[p] = Empty /\ \A q \in Obj \ {o, p} : str'[q] = str[q]
    BY <1>1, <2>1
  <2>3. /\ Value(o)' = Value(p) /\ \A q \in Obj \ {o, p} : Value(q)' = Value(q)
    BY <1>2, <2>2
  <2>4. Value(p)' = <<>>
    BY <2>2 DEF Value, Empty
  <2>5. Vals' = [Vals EXCEPT ![o] = Vals[p], ![p] = <<>>]
    BY <2>1, <2>3, <2>4 DEF Vals
  <2> QED
    BY <2>1, <2>5 DEF Abstract!Move, Vals
<1>4. CASE Swap(o, p)
  <2>1. /\ o \in exists /\ p \in exists /\ exists' = exists
        /\ str' = [str EXCEPT ![o] = str[p], ![p] = str[o]]
    BY <1>4 DEF Swap
  <2>2. str'[o] = str[p] /\ str'[p] = str[o] /\ \A q \in Obj \ {o, p} : str'[q] = str[q]
    BY <1>1, <2>1
  <2>3. /\ Value(o)' = Value(p) /\ Value(p)' = Value(o)
        /\ \A q \in Obj \ {o, p} : Value(q)' = Value(q)
    BY <1>2, <2>2
  <2>4. Vals' = [Vals EXCEPT ![o] = Vals[p], ![p] = Vals[o]]
    BY <2>3 DEF Vals
  <2> QED
    BY <2>1, <2>4 DEF Abstract!Swap, Vals
<1> QED
  BY <1>3, <1>4

LEMMA InitImplements ==
    ASSUME Init
    PROVE  Abstract!Init
BY DEF Init, Abstract!Init, Value, Empty

LEMMA StepImplements ==
    ASSUME Inv, [Next]_vars
    PROVE  [Abstract!Next]_<<exists, Vals>>
<1>1. ASSUME UNCHANGED <<exists, str, heap>> PROVE UNCHANGED <<exists, Vals>>
  BY <1>1 DEF Vals, Value
<1>2. ASSUME NEW o \in Obj, NEW b \in Free, Allocating(o, b) PROVE Abstract!Next
  <2>1. CASE \/ \E t \in Texts : FromText(o, t, b) \/ Shift(o, t, b)
             \/ \E n \in Sizes : WithCapacity(o, n, b)
             \/ \E p \in Obj : CopyConstruct(o, p, b)
             \/ \E p, q \in Obj : Concat(o, p, q, b)
    BY <2>1, BirthIsBorn DEF Abstract!Next
  <2>2. CASE \/ \E t \in Texts : AppendText(o, t, b) \/ AssignText(o, t, b)
             \/ \E p \in Obj : AppendString(o, p, b) \/ AssignString(o, p, b)
             \/ \E k, n \in Sizes : AppendPart(o, k, n, b)
             \/ \E n \in Sizes : Reserve(o, n, b)
    BY <2>2, CallIsChange DEF Abstract!Next
  <2>3. ASSUME NEW c \in Byte, NEW n \in Sizes, Fill(o, c, n, b) PROVE Abstract!Next
    BY <2>3, FillIsChange DEF Abstract!Next
  <2>4. ASSUME NEW n \in Sizes, Resize(o, n, b) PROVE Abstract!Next
    BY <2>4, ResizeIsResize DEF Abstract!Next
  <2>5. CASE ExtractByte(b)
    BY <2>5, ExtractByteIsChange DEF Abstract!Next
  <2> QED
    BY <1>2, <2>1, <2>2, <2>3, <2>4, <2>5 DEF Allocating
<1>3. ASSUME NEW o \in Obj, NEW p \in Obj, MoveConstruct(o, p) \/ Swap(o, p)
      PROVE  Abstract!Next
  BY <1>3, MoveIsMove DEF Abstract!Next
<1>4. ASSUME NEW o \in Obj, Destroy(o) PROVE Abstract!Next
  BY <1>4, DestroyIsDestroy DEF Abstract!Next
<1>5. ASSUME \/ \E o \in Obj, t \in Texts : Extract(o, t)
             \/ ExtractEnds \/ Enough \/ UNCHANGED vars
      PROVE  UNCHANGED <<exists, Vals>>
  BY <1>1, <1>5 DEF Extract, ExtractEnds, Enough, vars
<1> QED
  BY <1>2, <1>3, <1>4, <1>5 DEF Next

(***************************************************************************)
(* The values of the objects are those of plain byte strings: every call,  *)
(* whatever it does to buffers, is one of the steps of ByteString, and the *)
(* moves, growths and copies of btring.cpp never show in a value.          *)
(***************************************************************************)
THEOREM BtringImplementsString == Spec => ImplementsString
<1>1. Inv /\ [Next]_vars => [Abstract!Next]_<<exists, Vals>>
  BY StepImplements
<1> QED
  BY InitImplements, <1>1, Invariance, PTL DEF Spec, ImplementsString, Abstract!Spec, Vals

-----------------------------------------------------------------------------
(* The comparisons *)

LEMMA SubSeqIs ==
    ASSUME NEW S, NEW s \in Seq(S), NEW n \in 0..Len(s)
    PROVE  /\ SubSeq(s, 1, n) \in Seq(S) /\ Len(SubSeq(s, 1, n)) = n
           /\ \A i \in 1..n : SubSeq(s, 1, n)[i] = s[i]
BY SubSeqProperties

\* Up to half the values of an int, a size stays what it is.
LEMMA SmallAsInt ==
    ASSUME NEW n \in Nat, n < IntMod \div 2
    PROVE  AsInt(n) = n
<1>1. IntMod \in Nat /\ IntMod > 0
  BY IntAssumption
<1>2. IntMod \div 2 \in Nat /\ IntMod \div 2 <= IntMod
  BY <1>1
<1>3. n < IntMod
  BY <1>2, <1>1
<1>4. n % IntMod = n
  BY <1>1, <1>3
<1> QED
  BY <1>4 DEF AsInt

\* The least place, where there is one.
LEMMA FirstDifferenceIs ==
    ASSUME NEW v \in Seq(Byte), NEW w \in Seq(Byte), Countable(v, w)
    PROVE  \/ /\ FirstDifference(v, w) = 0
              /\ \A j \in 1..Least(Len(v), Len(w)) : v[j] = w[j]
           \/ /\ FirstDifference(v, w) \in 1..Least(Len(v), Len(w))
              /\ v[FirstDifference(v, w)] # w[FirstDifference(v, w)]
              /\ \A j \in 1..(FirstDifference(v, w) - 1) : v[j] = w[j]
<1> DEFINE places == {i \in 1..Least(Len(v), Len(w)) : v[i] # w[i]}
           i == CHOOSE i \in places : \A j \in places : i <= j
<1>1. Least(Len(v), Len(w)) \in Nat
  BY DEF Least
<1>0. AsInt(Least(Len(v), Len(w))) = Least(Len(v), Len(w))
  BY <1>1, SmallAsInt DEF Countable
<1>2. CASE places = {}
  <2>1. FirstDifference(v, w) = 0
    BY <1>0, <1>2 DEF FirstDifference
  <2> QED
    BY <1>2, <2>1
<1>3. CASE places # {}
  <2>1. FirstDifference(v, w) = i
    BY <1>0, <1>3 DEF FirstDifference
  <2>2. places \subseteq Nat
    OBVIOUS
  <2>3. \E n \in places : \A m \in places : n <= m
    <3> HIDE DEF places
    <3> QED
      BY <1>3, <2>2, LeastNumber
  <2>4. i \in places /\ \A j \in places : i <= j
    <3> HIDE DEF places
    <3> QED
      BY <2>3
  <2> HIDE DEF i
  <2>5. \A j \in 1..(i - 1) : j \notin places /\ j \in 1..Least(Len(v), Len(w))
    <3> TAKE j \in 1..(i - 1)
    <3>1. i \in Nat /\ i <= Least(Len(v), Len(w))
      BY <1>1, <2>4
    <3>2. j \in Nat /\ ~(i <= j)
      BY <3>1
    <3> QED
      BY <1>1, <2>4, <3>1, <3>2
  <2> QED
    BY <2>1, <2>4, <2>5
<1> QED
  BY <1>2, <1>3

LEMMA PrecedesPrefix ==
    ASSUME NEW v \in Seq(Byte), NEW w \in Seq(Byte),
           \A j \in 1..Least(Len(v), Len(w)) : v[j] = w[j]
    PROVE  Precedes(v, w) <=> Len(v) < Len(w)
<1>1. \A j \in 1..Least(Len(v), Len(w)) : ~(v[j] < w[j])
  <2> TAKE j \in 1..Least(Len(v), Len(w))
  <2>1. j \in 1..Len(v)
    BY DEF Least
  <2>2. v[j] \in Nat /\ v[j] = w[j]
    BY <2>1, DataAssumption, ElementOfSeq
  <2> QED
    BY <2>2
<1>2. CASE Len(v) < Len(w)
  <2>1. Least(Len(v), Len(w)) = Len(v) /\ Len(v) \in 0..Len(w)
    BY <1>2 DEF Least
  <2>2. v = SubSeq(w, 1, Len(v))
    BY <2>1, SubSeqIs, SameText
  <2> QED
    BY <1>2, <2>2 DEF Precedes
<1>3. CASE ~(Len(v) < Len(w))
  BY <1>1, <1>3 DEF Precedes
<1> QED
  BY <1>2, <1>3

LEMMA PrecedesAt ==
    ASSUME NEW v \in Seq(Byte), NEW w \in Seq(Byte),
           NEW i \in 1..Least(Len(v), Len(w)), v[i] # w[i],
           \A j \in 1..(i - 1) : v[j] = w[j]
    PROVE  Precedes(v, w) <=> v[i] < w[i]
<1>1. Len(v) \in Nat /\ Len(w) \in Nat
  OBVIOUS
<1>2. /\ Least(Len(v), Len(w)) \in Nat
      /\ Least(Len(v), Len(w)) <= Len(v) /\ Least(Len(v), Len(w)) <= Len(w)
  BY <1>1 DEF Least
<1>3. i \in 1..Len(v) /\ i \in 1..Len(w) /\ i \in Nat
  BY <1>1, <1>2
<1>4. CASE v[i] < w[i]
  <2>1. i - 1 \in 0..Len(v) /\ i - 1 \in 0..Len(w)
    BY <1>1, <1>3
  <2>2. SubSeq(v, 1, i - 1) = SubSeq(w, 1, i - 1)
    BY <2>1, SubSeqIs, SameText
  <2> QED
    BY <1>4, <2>2 DEF Precedes
<1>5. ASSUME Precedes(v, w) PROVE v[i] < w[i]
  <2>1. CASE Len(v) < Len(w) /\ v = SubSeq(w, 1, Len(v))
    <3>1. Len(v) \in 0..Len(w)
      BY <1>1, <2>1
    <3>2. v[i] = w[i]
      BY <1>3, <2>1, <3>1, SubSeqIs
    <3> QED
      BY <3>2
  <2>2. ASSUME NEW k \in 1..Least(Len(v), Len(w)), v[k] < w[k],
               SubSeq(v, 1, k - 1) = SubSeq(w, 1, k - 1)
        PROVE  v[i] < w[i]
    <3>1. k \in 1..Len(v) /\ k \in Nat
      BY <1>1, <1>2
    <3>2. v[k] # w[k]
      <4>1. v[k] \in Nat
        BY <3>1, DataAssumption, ElementOfSeq
      <4> QED
        BY <2>2, <4>1
    <3>3. ~(k < i)
      <4> SUFFICES ASSUME k < i PROVE FALSE
        OBVIOUS
      <4>1. k \in 1..(i - 1)
        BY <1>3, <3>1
      <4> QED
        BY <3>2, <4>1
    <3>4. ~(i < k)
      <4> SUFFICES ASSUME i < k PROVE FALSE
        OBVIOUS
      <4>1. k - 1 \in 0..Len(v) /\ k - 1 \in 0..Len(w) /\ i \in 1..(k - 1)
        BY <1>1, <1>2, <1>3, <3>1
      <4>2. v[i] = SubSeq(v, 1, k - 1)[i] /\ w[i] = SubSeq(w, 1, k - 1)[i]
        BY <4>1, SubSeqIs
      <4> QED
        BY <2>2, <4>2
    <3>5. i = k
      BY <1>3, <3>1, <3>3, <3>4
    <3> QED
      BY <2>2, <3>5
  <2> QED
    BY <1>5, <2>1, <2>2 DEF Precedes
<1> QED
  BY <1>4, <1>5

LEMMA Ordered ==
    ASSUME NEW v \in Seq(Byte), NEW w \in Seq(Byte), Countable(v, w)
    PROVE  /\ Less(v, w) = Precedes(v, w) /\ Greater(v, w) = Precedes(w, v)
           /\ LessOrEqual(v, w) = ~Precedes(w, v)
           /\ GreaterOrEqual(v, w) = ~Precedes(v, w)
           /\ Equal(v, w) = (v = w)
<1> DEFINE i == FirstDifference(v, w)
<1>1. Len(v) \in Nat /\ Len(w) \in Nat /\ Least(Len(v), Len(w)) = Least(Len(w), Len(v))
  BY DEF Least
<1>2. /\ (Greater(v, w) <=> Precedes(w, v)) /\ (GreaterOrEqual(v, w) <=> ~Precedes(v, w))
      /\ Greater(v, w) \in BOOLEAN /\ GreaterOrEqual(v, w) \in BOOLEAN
  <2>1. CASE i = 0 /\ \A j \in 1..Least(Len(v), Len(w)) : v[j] = w[j]
    <3>1. (Precedes(v, w) <=> Len(v) < Len(w)) /\ (Precedes(w, v) <=> Len(w) < Len(v))
      BY <1>1, <2>1, PrecedesPrefix
    <3> QED
      BY <1>1, <2>1, <3>1 DEF Greater, GreaterOrEqual
  <2>2. CASE /\ i \in 1..Least(Len(v), Len(w)) /\ v[i] # w[i]
             /\ \A j \in 1..(i - 1) : v[j] = w[j]
    <3> HIDE DEF i
    <3>1. (Precedes(v, w) <=> v[i] < w[i]) /\ (Precedes(w, v) <=> w[i] < v[i])
      BY <1>1, <2>2, PrecedesAt
    <3>2. i # 0 /\ i \in 1..Len(v) /\ i \in 1..Len(w)
      BY <1>1, <2>2 DEF Least
    <3>3. v[i] \in Nat /\ w[i] \in Nat
      BY <3>2, DataAssumption, ElementOfSeq
    <3> QED
      BY <2>2, <3>1, <3>2, <3>3 DEF Greater, GreaterOrEqual, i
  <2> QED
    BY <2>1, <2>2, FirstDifferenceIs
<1>3. Equal(v, w) <=> v = w
  BY SameText DEF Equal
<1>4. Precedes(v, w) \in BOOLEAN /\ Precedes(w, v) \in BOOLEAN /\ Equal(v, w) \in BOOLEAN
  BY DEF Precedes, Equal
<1> QED
  BY <1>2, <1>3, <1>4 DEF Less, LessOrEqual

-----------------------------------------------------------------------------

(***************************************************************************)
(* The fields of every object have the types the code gives them, whatever *)
(* the sequence of calls.                                                  *)
(***************************************************************************)
THEOREM BtringTyped == Spec => []TypeOK
BY Invariance, InvImplies, PTL

(***************************************************************************)
(* No sequence of calls makes btring touch memory that is not its own.     *)
(***************************************************************************)
THEOREM BtringMemorySafe == Spec => []MemorySafe
BY Invariance, InvImplies, PTL

(***************************************************************************)
(* Every live buffer belongs to exactly one object: no leak, no sharing.   *)
(***************************************************************************)
THEOREM BtringOneOwner == Spec => []OneOwner
BY Invariance, InvImplies, PTL

(***************************************************************************)
(* Length and capacity never claim more than the buffer holds.             *)
(***************************************************************************)
THEOREM BtringFieldsTrue == Spec => []FieldsTrue
BY Invariance, InvImplies, PTL

(***************************************************************************)
(* On values of which the shorter has a length an int can say, the         *)
(* comparisons are one total order, whichever of them is asked: that of    *)
(* the first byte that differs, a prefix before the longer string.         *)
(***************************************************************************)
THEOREM BtringOrder == Spec => []ComparisonsAgree
<1>1. ComparisonsAgree
  BY Ordered DEF ComparisonsAgree
<1> QED
  BY <1>1, PTL
=============================================================================
