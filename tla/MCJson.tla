-------------------------------- MODULE MCJson --------------------------------
(* Json on all short texts, and on longer ones with one mistake in them. *)
EXTENDS Json

\* All texts of up to n characters.
UpTo(n) == UNION {[1..k -> Char] : k \in 0..n}

\* {"1":[-1,"\""],"1":{"-":null}} and the like.
MCDeep == {
    << "{", "\"", "1", "\"", ":", "[", "-", "1", ",", "\"", "\\", "\"", "\"",
       "]", "}" >>,
    << "{", "\"", "1", "\"", ":", "[", "1", "]", ",", "\n", "\"", "1", "\"",
       "\n", ":", "{", "}", "}" >>,
    << "\n", "[", "true", "\n", ",", "[", "null", "]", ",", "{", "\"", "\"",
       ":", "false", "}", "]", "\n" >>,
    << "[", "\"", "1", "\n", "\\", "\\", "\"", ",", "1", ".", "1", "]" >>,
    << "{", "\"", "t", "\"", ":", "{", "\"", "1", "\"", ":", "[", "]", "}",
       ",", "\"", "1", "\"", ":", "null", "}" >> }

\* A text with one character replaced, or cut off behind it.
Edits(s) ==
    {[s EXCEPT ![i] = c] : i \in DOMAIN s, c \in Char}
    \cup {SubSeq(s, 1, i) : i \in DOMAIN s}

MCTexts == UpTo(3) \cup UNION {Edits(s) : s \in MCDeep}

MCAgain == MCDeep \cup {
    << "[", "1", ",", "]" >>, << "{", "\"", "1", "\"", ":", "t" >>,
    << "{", "\"", "1", "\"", "1" >> }

MCKeys == {<<"1">>}

\* -1, 1e+20, nan or any letter, and characters the grammar knows; that of a
\* new line comes back from btring::from as nothing.
MCWritten == { <<"-", "1">>, <<"1", "e", "1">>, <<"n">>, <<"\"">>, <<",">>, <<"\n">> }
===============================================================================
