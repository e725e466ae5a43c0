---------------------------------- MODULE Json ----------------------------------
(***************************************************************************)
(* JsonNode, JsonParser and JsonStringify (src/src/json.h,                 *)
(* src/src/json.cpp): a parser object, the tree it keeps and the user who  *)
(* parses texts into it and changes nodes in between.                      *)
(*                                                                         *)
(* A text is a sequence of characters.  The words true, false and null     *)
(* count as one character each, "t" and "n" stand for the beginning of one *)
(* that goes on otherwise, "1" for the digits, "\n" for the four white     *)
(* spaces and "e" for every character the grammar does not know.           *)
(***************************************************************************)
EXTENDS Integers, Sequences, FiniteSets

LOCAL INSTANCE SequencesExt
LOCAL INSTANCE FiniteSetsExt

CONSTANTS
    Texts,      \* what a new parser is given
    Again,      \* what a parser that has parsed is given
    Keys,       \* keys the user names, without a quote or a backslash
    Written,    \* what << writes of values that convert to int: of integers,
                \* of floating point numbers and of single characters
    MaxCalls,   \* bound: calls of the user
    MaxIndex    \* bound: the highest index the user names

Char == { "\n", "\"", ",", "-", ".", "1", ":", "[", "\\", "]",
          "e", "false", "n", "null", "t", "true", "{", "}" }
NumberChars == {"-", ".", "1"}

ASSUME TextsAssumption ==
    /\ Texts \subseteq Seq(Char) /\ Again \subseteq Seq(Char)
    /\ Keys \subseteq Seq(Char) /\ Written \subseteq Seq(Char)
    /\ \A k \in Keys : Range(k) \cap {"\"", "\\"} = {}
    /\ MaxCalls \in Nat /\ MaxIndex \in Nat

VARIABLES
    root,   \* the tree of the parser
    calls,  \* how many calls were made
    last    \* the last call, if it was parse: the text, the tree before it,
            \* and how it ended

vars == <<root, calls, last>>

-----------------------------------------------------------------------------
(* JsonNode.  A node keeps its members, elements and value whatever its     *)
(* type, which only says which of them counts.                              *)

Nothing == [k \in {} |-> k]
NullNode == [type |-> "Null", obj |-> Nothing, arr |-> <<>>, val |-> <<>>]

Assign(n, type, val) == [n EXCEPT !.type = type, !.val = val]

\* throwTypeException: a null node takes the type, another one must have it.
MayBe(n, type) == n.type \in {type, "Null"}

\* operator[] with a key that may be new.
WithKey(n, k) ==
    [n EXCEPT !.type = "Object",
              !.obj = [m \in DOMAIN @ \cup {k} |->
                          IF m \in DOMAIN @ THEN @[m] ELSE NullNode]]

PutKey(n, k, child) ==
    LET with == WithKey(n, k) IN [with EXCEPT !.obj[k] = child]

AppendNode(n, child) == [n EXCEPT !.type = "Array", !.arr = Append(@, child)]

\* operator[] with an index, counted from 0, that may be behind the end.
WithIndex(n, i) ==
    LET missing == IF i >= Len(n.arr) THEN i - Len(n.arr) + 1 ELSE 0
    IN  [n EXCEPT !.type = "Array",
                  !.arr = @ \o [j \in 1..missing |-> NullNode]]

RemoveKey(n, k) ==
    [n EXCEPT !.type = "Object", !.obj = [m \in DOMAIN @ \ {k} |-> @[m]]]

RemoveIndex(n, i) ==
    [n EXCEPT !.type = "Array",
              !.arr = IF i < Len(@) THEN RemoveAt(@, i + 1) ELSE @]

\* Fault: setNull leaves the elements where they are.
SetNullKeepsElements(n) == [NullNode EXCEPT !.arr = n.arr]

SetNull(n) == NullNode

\* btring::from writes the value to a stream and reads it up to a new line.
From(str) ==
    SubSeq(str, 1, Min({i - 1 : i \in {j \in DOMAIN str : str[j] = "\n"}}
                       \cup {Len(str)}))

-----------------------------------------------------------------------------
(* JsonParser.  Each operator is given the text, a position and the node it *)
(* fills, and returns the node and the position behind what it has read, or *)
(* 0 when an exception has left it.                                         *)

\* A position behind the text: btring::at throws, which parse turns into a
\* JsonException like that of any character that is not expected.
At(s, p) == IF p <= Len(s) THEN s[p] ELSE "end"

Skip(s, p) == Min({i \in p..Len(s) : s[i] # "\n"} \cup {Len(s) + 1})

Done(n, p) == [node |-> n, next |-> p]
Throw(n) == [node |-> n, next |-> 0]

\* Fault: an escaped quote ends the string.
StringEndPlain(s, p) ==
    LET quotes == {i \in (p + 1)..Len(s) : s[i] = "\""}
    IN  IF quotes = {} THEN 0 ELSE Min(quotes)

\* getStringLen: where the string that begins at p is closed, 0 if nowhere.
StringEnd(s, p) ==
    LET end[i \in p..(Len(s) + 2)] ==
            CASE i > Len(s)    -> 0
              [] i <= Len(s) /\ s[i] = "\\" -> end[i + 2]
              [] i <= Len(s) /\ s[i] = "\"" -> i
              [] OTHER         -> end[i + 1]
    IN  end[p + 1]

\* getString: the backslashes are dropped, all of them.
GetString(s, p, end) ==
    SelectSeq(SubSeq(s, p + 1, end - 1), LAMBDA c : c # "\\")

\* Fault: the comma is taken for a decimal one.
NumberNextComma(s, p) ==
    Min({i \in (p + 1)..Len(s) : s[i] \notin NumberChars \cup {","}}
        \cup {Len(s) + 1})

\* checkNumberLen: the position behind a number.
NumberNext(s, p) ==
    Min({i \in (p + 1)..Len(s) : s[i] \notin NumberChars} \cup {Len(s) + 1})

\* Fault: a repeated key is parsed into the node it has.
KeyNodeAsItIs(n, k) == WithKey(n, k).obj[k]

\* What parseKV starts with: a node that was there is made null again, unless
\* it says it is.
KeyNode(n, k) ==
    LET child == WithKey(n, k).obj[k]
    IN  IF child.type # "Null" THEN SetNull(child) ELSE child

RECURSIVE ParseObject(_, _, _), ParseMembers(_, _, _), ParseKV(_, _, _),
          ParseArray(_, _, _), ParseElements(_, _, _), ParseValue(_, _, _)

ParseObject(s, p, n) ==
    LET q == Skip(s, p + 1)
    IN  CASE At(s, q) = "}"  -> Done(n, q + 1)
          [] At(s, q) = "\"" -> ParseMembers(s, q, n)
          [] OTHER           -> Throw(n)

ParseMembers(s, p, n) ==
    LET kv == ParseKV(s, p, n)
        q  == Skip(s, kv.next)
    IN  IF kv.next = 0 THEN kv
        ELSE CASE At(s, q) = "," -> ParseMembers(s, q + 1, kv.node)
               [] At(s, q) = "}" -> Done(kv.node, q + 1)
               [] OTHER          -> Throw(kv.node)

\* The member is in the tree before its value is read.  The key keeps its
\* backslashes.
ParseKV(s, p, n) ==
    LET q     == Skip(s, p)
        end   == StringEnd(s, q)
        key   == SubSeq(s, q + 1, end - 1)
        colon == Skip(s, end + 1)
        v     == ParseValue(s, colon + 1, KeyNode(n, key))
    IN  CASE At(s, q) # "\"" -> Throw(n)
          [] At(s, q) = "\"" /\ end = 0 -> Throw(n)
          [] At(s, q) = "\"" /\ end # 0 /\ At(s, colon) # ":" ->
             Throw(PutKey(n, key, KeyNode(n, key)))
          [] OTHER -> [v EXCEPT !.node = PutKey(n, key, @)]

\* Fault: the elements a node has are dropped before others are read.
ParseArrayAnew(s, p, n) ==
    LET q == Skip(s, p + 1)
    IN  IF At(s, q) = "]" THEN Done(n, q + 1)
        ELSE ParseElements(s, q, [n EXCEPT !.arr = <<>>])

ParseArray(s, p, n) ==
    LET q == Skip(s, p + 1)
    IN  IF At(s, q) = "]" THEN Done(n, q + 1) ELSE ParseElements(s, q, n)

\* An element is appended when its value has been read.
ParseElements(s, p, n) ==
    LET v == ParseValue(s, p, NullNode)
        m == AppendNode(n, v.node)
        q == Skip(s, v.next)
    IN  IF v.next = 0 THEN Throw(n)
        ELSE CASE At(s, q) = "," -> ParseElements(s, q + 1, m)
               [] At(s, q) = "]" -> Done(m, q + 1)
               [] OTHER          -> Throw(m)

ParseValue(s, p, n) ==
    LET q == Skip(s, p)
        c == At(s, q)
    IN  CASE c \in {"end", "n"} -> Throw(n)
          [] c = "{"     -> ParseObject(s, q, [n EXCEPT !.type = "Object"])
          [] c = "["     -> ParseArray(s, q, [n EXCEPT !.type = "Array"])
          [] c = "true"  -> Done(Assign(n, "Boolean", <<"1">>), q + 1)
          [] c = "false" -> Done(Assign(n, "Boolean", <<"0">>), q + 1)
          [] c = "t"     -> Throw([n EXCEPT !.type = "Boolean"])
          [] c = "null"  -> Done(SetNull(n), q + 1)
          [] c = "\""    ->
             LET end == StringEnd(s, q)
             IN  IF end = 0 THEN Throw([n EXCEPT !.type = "String"])
                 ELSE Done(Assign(n, "String", From(GetString(s, q, end))),
                           end + 1)
          [] c \in {"-", "1"} ->
             LET next == NumberNext(s, q)
             IN  Done(Assign(n, "Integer", SubSeq(s, q, next - 1)), next)
          [] OTHER       -> Throw([n EXCEPT !.type = "Integer"])

\* How parse ends: it returns true or false, or an exception leaves it.  The
\* spaces are skipped before the try block, so a blank text ends in the
\* exception of btring::at; the test for it behind them finds nothing.
ParseText(s, n) ==
    LET p == Skip(s, 1)
        r == IF s[p] = "[" THEN ParseArray(s, p, [n EXCEPT !.type = "Array"])
             ELSE ParseObject(s, p, [n EXCEPT !.type = "Object"])
    IN  CASE p > Len(s) -> [node |-> n, result |-> "btringException"]
          [] p = Len(s) -> [node |-> n, result |-> "false"]
          [] p < Len(s) /\ s[p] \notin {"[", "{"} ->
             [node |-> n, result |-> "JsonException"]
          [] OTHER ->
             [node |-> r.node,
              result |-> IF r.next = 0 THEN "JsonException" ELSE "true"]

-----------------------------------------------------------------------------
(* JsonStringify *)

Between(left, items, right) ==
    <<left>> \o FlattenSeq([i \in DOMAIN items |->
                    IF i = 1 THEN items[i] ELSE <<",">> \o items[i]])
             \o <<right>>

\* Fault: quotes in a string are written as they are.
QuotePlain(val) == <<"\"">> \o val \o <<"\"">>

Quote(val) ==
    <<"\"">> \o FlattenSeq([i \in DOMAIN val |->
                   IF val[i] = "\"" THEN <<"\\", "\"">> ELSE <<val[i]>>])
             \o <<"\"">>

\* strifyValue, dealArray, dealObject; the order of the keys is left open.
RECURSIVE StrifyValue(_)
StrifyValue(n) ==
    CASE n.type = "Null"    -> <<"null">>
      [] n.type = "Array"   ->
         Between("[", [i \in DOMAIN n.arr |-> StrifyValue(n.arr[i])], "]")
      [] n.type = "Object"  ->
         LET keys == SetToSeq(DOMAIN n.obj)
         IN  Between("{", [i \in DOMAIN keys |->
                 <<"\"">> \o keys[i] \o <<"\"", ":">>
                     \o StrifyValue(n.obj[keys[i]])], "}")
      [] n.type = "Integer" -> n.val
      [] n.type = "String"  -> Quote(n.val)
      [] n.type = "Boolean" -> IF n.val = <<"1">> THEN <<"true">>
                               ELSE <<"false">>

\* Of a root only; any other node fails the assertion at its end.
Stringify(n) ==
    CASE n.type = "Null" -> <<"{", "}">>
      [] n.type \in {"Array", "Object"} -> StrifyValue(n)

-----------------------------------------------------------------------------
(* The parser and its user *)

NoParse == [parsed |-> FALSE, text |-> <<>>, before |-> NullNode, result |-> ""]

Init == root = NullNode /\ calls = 0 /\ last = NoParse

Call == calls < MaxCalls /\ calls' = calls + 1

Parse(s) ==
    /\ Call
    /\ root' = ParseText(s, root).node
    /\ last' = [parsed |-> TRUE, text |-> s, before |-> root,
                result |-> ParseText(s, root).result]

\* Nodes the user has made, to copy them into the tree.
Own == {NullNode, AppendNode(NullNode, NullNode)}

\* What the user may do with one node.  A call that throws changes nothing;
\* has makes an array or object of a null node, as removing nothing does.
Changed(n) ==
    {SetNull(n)} \cup Own
    \cup {Assign(n, "Boolean", b) : b \in {<<"0">>, <<"1">>}}
    \cup {Assign(n, "String", From(<<"\"", "t">>))}
    \cup {Assign(n, "Integer", From(v)) : v \in Written}
    \cup (IF MayBe(n, "Object")
          THEN UNION {{WithKey(n, k), RemoveKey(n, k)}
                      \cup {PutKey(n, k, c) : c \in Own} : k \in Keys}
          ELSE {})
    \cup (IF MayBe(n, "Array")
          THEN UNION {{WithIndex(n, i), RemoveIndex(n, i)} : i \in 0..MaxIndex}
               \cup {AppendNode(n, c) : c \in Own}
          ELSE {})

\* The node is the root or the user gets to it with operator[].
Change(n) ==
    /\ Call
    /\ root' = n
    /\ last' = NoParse

ChangeRoot == \E n \in Changed(root) : Change(n)

ChangeMember ==
    /\ MayBe(root, "Object")
    /\ \E k \in Keys : \E n \in Changed(WithKey(root, k).obj[k]) :
        Change(PutKey(root, k, n))

ChangeElement ==
    /\ MayBe(root, "Array")
    /\ \E i \in 0..MaxIndex : \E n \in Changed(WithIndex(root, i).arr[i + 1]) :
        Change([WithIndex(root, i) EXCEPT !.arr[i + 1] = n])

\* The user is done (or out of calls).
Enough == calls = MaxCalls /\ UNCHANGED vars

Next ==
    \/ Enough
    \/ \E s \in IF calls = 0 THEN Texts ELSE Again : Parse(s)
    \/ ChangeRoot \/ ChangeMember \/ ChangeElement

Spec == Init /\ [][Next]_vars

-----------------------------------------------------------------------------
(* Grammar: what a text means, by how it is built and not by how it is read *)

Trim(s) ==
    LET ink == {i \in DOMAIN s : s[i] # "\n"}
    IN  IF ink = {} THEN <<>> ELSE SubSeq(s, Min(ink), Max(ink))

Inner(s) == SubSeq(s, 2, Len(s) - 1)

\* The character at i has an odd number of backslashes in front of it.
Escaped(s, i) ==
    LET others == {j \in 0..(i - 1) : j = 0 \/ s[j] # "\\"}
    IN  (i - 1 - Max(others)) % 2 = 1

IsNumber(s) ==
    s # <<>> /\ s[1] # "." /\ \A i \in DOMAIN s : s[i] \in NumberChars

IsString(s) ==
    /\ Len(s) >= 2 /\ s[1] = "\"" /\ s[Len(s)] = "\""
    /\ \A i \in 2..Len(s) : s[i] = "\"" =>
        (i = Len(s) <=> ~Escaped([s EXCEPT ![1] = "1"], i))

IsIn(s, left, right) == Len(s) >= 2 /\ s[1] = left /\ s[Len(s)] = right

\* Where a text may be parted, and the text before and behind that place.
Cuts(s, mark) == {i \in DOMAIN s : s[i] = mark}
Before(s, i) == Trim(SubSeq(s, 1, i - 1))
Behind(s, i) == SubSeq(s, i + 1, Len(s))

\* The nodes a text without spaces around it may mean: one, or none if it is
\* not JSON as the library understands it.
RECURSIVE Meanings(_), Lists(_), Members(_)
Meanings(s) ==
    CASE s = <<"null">>      -> {NullNode}
      [] s = <<"true">>      -> {Assign(NullNode, "Boolean", <<"1">>)}
      [] s = <<"false">>     -> {Assign(NullNode, "Boolean", <<"0">>)}
      [] IsNumber(s)         -> {Assign(NullNode, "Integer", s)}
      [] IsString(s)         ->
         {Assign(NullNode, "String",
             From(SelectSeq(Inner(s), LAMBDA c : c # "\\")))}
      [] IsIn(s, "[", "]")   ->
         {[NullNode EXCEPT !.type = "Array", !.arr = l] :
             l \in IF Trim(Inner(s)) = <<>> THEN {<<>>} ELSE Lists(Inner(s))}
      [] IsIn(s, "{", "}")   ->
         {[NullNode EXCEPT !.type = "Object", !.obj = m] :
             m \in IF Trim(Inner(s)) = <<>> THEN {Nothing}
                   ELSE Members(Inner(s))}
      [] OTHER               -> {}

Lists(s) ==
    {<<v>> : v \in Meanings(Trim(s))}
    \cup UNION {{<<v>> \o l : v \in Meanings(Before(s, i)),
                              l \in Lists(Behind(s, i))} : i \in Cuts(s, ",")}

Member(s) ==
    UNION {{[k \in {Inner(Before(s, i))} |-> v] :
                v \in Meanings(Trim(Behind(s, i)))} :
           i \in {j \in Cuts(s, ":") : IsString(Before(s, j))}}

\* f, with the members of g for what g has.
Over(f, g) ==
    [k \in DOMAIN f \cup DOMAIN g |-> IF k \in DOMAIN g THEN g[k] ELSE f[k]]

\* Of two members with one key the later one counts.
Members(s) ==
    Member(s)
    \cup UNION {{Over(m, l) : m \in Member(SubSeq(s, 1, i - 1)),
                              l \in Members(Behind(s, i))} : i \in Cuts(s, ",")}

\* The meanings of the beginnings of a text that are an array or an object.
RootMeanings(s) ==
    UNION {{v \in Meanings(Trim(SubSeq(s, 1, i))) :
                v.type \in {"Array", "Object"}} : i \in DOMAIN s}

\* What a text leaves in a tree that is not new: elements are added behind
\* the others, members put over those with their keys.
Into(n, v) ==
    [n EXCEPT !.type = v.type, !.arr = @ \o v.arr, !.obj = Over(@, v.obj)]

\* All nodes of a tree.
RECURSIVE Nodes(_)
Nodes(n) ==
    {n} \cup UNION {Nodes(n.arr[i]) : i \in DOMAIN n.arr}
        \cup UNION {Nodes(n.obj[k]) : k \in DOMAIN n.obj}

\* What of a tree its types let one see.
RECURSIVE Visible(_)
Visible(n) ==
    [type |-> n.type,
     arr  |-> IF n.type # "Array" THEN <<>>
              ELSE [i \in DOMAIN n.arr |-> Visible(n.arr[i])],
     obj  |-> IF n.type # "Object" THEN Nothing
              ELSE [k \in DOMAIN n.obj |-> Visible(n.obj[k])],
     val  |-> IF n.type \in {"Array", "Object"} THEN <<>> ELSE n.val]

\* The parser would make this node, with this value: not of a number that a
\* refused text left without digits, or whose text is not one of a number.
Parsable(n) ==
    /\ n.type = "Integer" => IsNumber(n.val)
    /\ n.type = "Boolean" => n.val # <<>>

-----------------------------------------------------------------------------
(* Properties *)

\* The type of everything; in particular the text of a number is one that the
\* parser has read or << has written.
TypeOK ==
    /\ calls \in 0..MaxCalls
    /\ last.result \in {"", "true", "false", "JsonException", "btringException"}
    /\ \A n \in Nodes(root) :
        /\ n.type \in {"Null", "Integer", "String", "Boolean", "Object",
                       "Array"}
        /\ DOMAIN n.arr = 1..Len(n.arr)
        /\ DOMAIN n.obj \subseteq Seq(Char)
        /\ n.val \in Seq(Char \cup {"0"})
        /\ n.type = "Integer" =>
            n.val \in Seq(NumberChars) \cup {From(v) : v \in Written}

\* parse returns true for the texts that begin with an array or an object of
\* the grammar, and for no other, and then the tree is what it was with what
\* the text means put in: nothing of a member that the text replaces is
\* left.  The exception of btring leaves it for blank texts alone
\* (json.cpp:187-219, 402-437).
ParsesMeaning ==
    last.parsed =>
        LET meanings == RootMeanings(last.text)
        IN  /\ last.result = "true" <=> meanings # {}
            /\ last.result = "btringException" <=> Trim(last.text) = <<>>
            /\ last.result = "true" =>
                root \in {Into(last.before, v) : v \in meanings}

\* A text that is refused half way may have added to the tree; it has not
\* taken anything from it but what its keys name (json.cpp:208-218).
FailureKeeps ==
    last.parsed /\ last.result # "true" =>
        LET old == last.before
            named(k) == \E i, j \in DOMAIN last.text :
                            i <= j /\ SubSeq(last.text, i, j)
                                        = <<"\"">> \o k \o <<"\"">>
        IN  /\ IsPrefix(old.arr, root.arr)
            /\ \A k \in DOMAIN old.obj :
                k \in DOMAIN root.obj
                /\ (root.obj[k] = old.obj[k] \/ named(k))

\* What stringify writes of an array or an object means that tree, whatever
\* was parsed into it and changed before (test/test.cpp:393-399), if and only
\* if the parser could have made every node of it: one number without digits,
\* left by a refused text, or one value like 1e+20, nan or 'a', which operator=
\* takes for a number (json.h:108-121), and the text is refused or means
\* another tree.  Of a null root an empty object is written.
WritesMeaning ==
    CASE root.type \in {"Array", "Object"} ->
         Meanings(Stringify(root)) = {Visible(root)}
            <=> \A n \in Nodes(Visible(root)) : Parsable(n)
      [] root.type = "Null" ->
         Meanings(Stringify(root)) = {[NullNode EXCEPT !.type = "Object"]}
      [] OTHER -> TRUE

\* A node that says it is null has nothing in it: parseKV relies on it, it
\* clears a node only if it says it is something (json.cpp:418-422).
NullIsEmpty == \A n \in Nodes(root) : n.type = "Null" => n = NullNode

\* The tree after any calls: its nodes are of the six kinds, a number holds
\* nothing but what checkNumberLen lets through (json.cpp:372-385) or btring::from
\* has read of a value that converts to int, and a null node holds nothing.
TreeWellFormed == TypeOK /\ NullIsEmpty
================================================================================
