---------------------------- MODULE ArrayParser ----------------------------
(***************************************************************************)
(* Reading an array that the database sends as a text                      *)
(* (orm_lib/src/ArrayParser.cpp): Field::asArray calls getNext() until it  *)
(* says that it is done.  A text is a sequence of characters, and the word *)
(* NULL counts as one.  The database quotes what would be taken for        *)
(* structure, and knows nothing of the single quotes and semicolons that   *)
(* the parser also takes for it.                                           *)
(***************************************************************************)
EXTENDS Integers, Sequences, SequencesExt

CONSTANTS
  Elements,        \* the texts that an array may hold
  MaxElements, MaxRows     \* bounds of the model: how many an array has in all

VARIABLES
  array,           \* what the database has, juncture by juncture
  text,            \* what it sends
  pos,             \* pos_; 0 is nullptr
  found            \* what getNext() has returned

arrayVars == <<array, text, pos, found>>

Juncture(kind, value) == [found |-> kind, value |-> value]
RowStart == Juncture("row_start", <<>>)
RowEnd == Juncture("row_end", <<>>)
Null == Juncture("null_value", <<>>)
Done == Juncture("done", <<>>)

ArrayInit ==
  /\ array = <<>> /\ text = <<>>
  /\ pos = -1 /\ found = <<>>

-----------------------------------------------------------------------------
(* The database. *)

Unread == pos = -1
Count(kinds) == Len(SelectSeq(array, LAMBDA j : j.found \in kinds))
Values == {"null_value", "string_value"}
Opened == Count({"row_start"}) - Count({"row_end"})

\* An array has rows, or texts and nulls, and every row ends.
Grow ==
  /\ Unread
  /\ \E j \in {RowStart, RowEnd, Null} \cup {Juncture("string_value", e) : e \in Elements} :
       /\ j = RowStart => Count({"row_start"}) < MaxRows
       /\ j.found \in Values => Count(Values) < MaxElements
       /\ CASE array = <<>> -> j = RowStart
            [] OTHER ->
                 /\ Opened > 0
                 /\ j = RowStart => Last(array).found \in {"row_start", "row_end"}
                 /\ j.found \in Values => Last(array).found # "row_end"
       /\ array' = Append(array, j)
  /\ UNCHANGED <<text, pos, found>>

Quoted(e) ==
  e \in {<<>>, <<"NULL">>} \/ \E i \in DOMAIN e : e[i] \in {"\"", "\\", "{", "}", ","}
Escaped(c) == IF c \in {"\"", "\\"} THEN <<"\\", c>> ELSE <<c>>
Spelled(j) ==
  CASE j = RowStart -> <<"{">>
    [] j = RowEnd   -> <<"}">>
    [] j = Null     -> <<"NULL">>
    [] OTHER -> IF ~Quoted(j.value) THEN j.value
                ELSE <<"\"">> \o FlattenSeq([i \in DOMAIN j.value |-> Escaped(j.value[i])])
                       \o <<"\"">>
\* Rows and elements have commas between them.
Between(i) ==
  IF i = 1 \/ array[i] = RowEnd \/ array[i - 1] = RowStart THEN <<>> ELSE <<",">>

-----------------------------------------------------------------------------
(* The parser. *)

\* Field::getArrayParser; the field may be null.
Send ==
  /\ Unread
  /\ \/ /\ array # <<>> /\ Opened = 0
        /\ text' = FlattenSeq([i \in DOMAIN array |-> Between(i) \o Spelled(array[i])])
        /\ pos' = 1
     \/ /\ array = <<>>
        /\ UNCHANGED text
        /\ pos' = 0
  /\ UNCHANGED <<array, found>>

End == "end"
At(p) == IF p \in DOMAIN text THEN text[p] ELSE End

\* Backslash escape.  Skip ahead by one more character.
AfterEscape(p) == p + 2

\* The place behind the string that begins at `begin`; 0 is an ArgumentError.
scan_double_quoted_string(begin) ==
  LET from[p \in begin..(Len(text) + 2)] ==
        CASE At(p) = End \/ (At(p) = "\\" /\ At(p + 1) = End) -> 0
          [] At(p) = "\\" -> from[AfterEscape(p)]
          [] At(p) = "\"" -> p + 1
          [] OTHER        -> from[p + 1]
  IN  from[begin + 1]

\* A quote and a quote are a quote within the string.
scan_single_quoted_string(begin) ==
  LET from[p \in begin..(Len(text) + 2)] ==
        CASE At(p) = End \/ (At(p) = "\\" /\ At(p + 1) = End) -> 0
          [] At(p) = "\\" \/ (At(p) = "'" /\ At(p + 1) = "'") -> from[p + 2]
          [] At(p) = "'" -> p + 1
          [] OTHER       -> from[p + 1]
  IN  from[begin + 1]

\* An array ends with a brace, so there is one.
scan_unquoted_string(begin) ==
  CHOOSE p \in begin..Len(text) :
    /\ At(p) \in {",", ";", "}"}
    /\ \A q \in begin..(p - 1) : At(q) \notin {",", ";", "}"}

\* The signs of `escapes` are kept, and what they escape is left out.
Unescaped(begin, end, escapes) ==
  LET from[p \in begin..(end + 1)] ==
        IF p >= end - 1 THEN <<>>
        ELSE <<At(p)>> \o from[IF At(p) \in escapes THEN p + 2 ELSE p + 1]
  IN  from[begin + 1]
parse_single_quoted_string(begin, end) == Unescaped(begin, end, {"'", "\\"})
parse_double_quoted_string(begin, end) == Unescaped(begin, end, {"\\"})
parse_unquoted_string(begin, end) == SubSeq(text, begin, end - 1)

\* What is found at pos_, and where it ends.
Found(juncture, end) == [juncture |-> juncture, end |-> end]
Thrown == Found(Juncture("thrown", <<>>), pos)
Here ==
  LET single   == scan_single_quoted_string(pos)
      double   == scan_double_quoted_string(pos)
      unquoted == scan_unquoted_string(pos)
      word     == parse_unquoted_string(pos, unquoted)
  IN  CASE At(pos) = End -> Found(Done, pos)
        [] At(pos) = "{" -> Found(RowStart, pos + 1)
        [] At(pos) = "}" -> Found(RowEnd, pos + 1)
        [] At(pos) = "'" ->
             IF single = 0 THEN Thrown
             ELSE Found(Juncture("string_value", parse_single_quoted_string(pos, single)), single)
        [] At(pos) = "\"" ->
             IF double = 0 THEN Thrown
             ELSE Found(Juncture("string_value", parse_double_quoted_string(pos, double)), double)
        [] word = <<"NULL">> -> Found(Null, unquoted)
        [] OTHER -> Found(Juncture("string_value", word), unquoted)

Finished == found # <<>> /\ Last(found).found \in {"done", "thrown"}

getNext ==
  /\ ~Unread /\ ~Finished
  /\ found' = Append(found, Here.juncture)
  /\ pos' = IF At(Here.end) \in {",", ";"} THEN Here.end + 1 ELSE Here.end
  /\ UNCHANGED <<array, text>>

ArrayNext == Grow \/ Send \/ getNext

ArraySpec == ArrayInit /\ [][ArrayNext]_arrayVars

\* Field::asArray: the texts and nulls of all the rows, one after the other.
asArray(js) == SelectSeq(js, LAMBDA j : j.found \in Values)

-----------------------------------------------------------------------------
\* What the parser makes of a text: a quote in it is read as the backslash before it.
Read(j) ==
  [j EXCEPT !.value = [i \in DOMAIN j.value |-> IF j.value[i] = "\"" THEN "\\" ELSE j.value[i]]]
Expected == [i \in DOMAIN array |-> Read(array[i])]

\* Texts that the database leaves unquoted and the parser takes for something else.
Legible(e) == Quoted(e) \/ (e[1] # "'" /\ \A i \in DOMAIN e : e[i] # ";")

=============================================================================
