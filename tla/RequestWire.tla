---------------------------- MODULE RequestWire ----------------------------
(***************************************************************************)
(* A request from the setters of one HttpRequestImpl through               *)
(* appendToBuffer, over the wire, to the getters of another.               *)
(*                                                                         *)
(* A text is a sequence of characters; an escaped character is one piece.  *)
(* Lengths count pieces.  The request is sent once; the server reads it    *)
(* with addHeader, setPath and, at the first use, parseParameters.         *)
(***************************************************************************)
EXTENDS Integers, Sequences, FiniteSets, SequencesExt

CONSTANTS
  Texts,       \* what keys, values and paths may be
  CookieNames, \* and what cookies may be, which are not escaped
  CookieValues,
  Escape,      \* of each character that does not stand for itself: its escape
  MaxSets      \* bound of the model: setters called before the request is sent

VARIABLES
  req,         \* the client's request
  upload,      \* it is an HttpFileUploadRequest
  setCalls,    \* setters called so far
  wire         \* what was sent; Unsent before

wireVars == <<req, upload, setCalls, wire>>

Unsent == [sent |-> FALSE]
NoParams == << >>          \* a function from keys to values, with no key

With(map, key, value) ==
  [k \in DOMAIN map \cup {key} |-> IF k = key THEN value ELSE map[k]]

Methods == {"GET", "POST"}
Form == "application/x-www-form-urlencoded"
Plain == "text/plain"
Multipart == "multipart/form-data"

IsText(t) == t \in Seq(Range(t))

\* What stands between things is escaped, escapes are told apart and do not stand between
\* things, and a character without an escape is nobody's escape.
ASSUME EscapeAssumption ==
  /\ {" ", "&", "=", "?"} \subseteq DOMAIN Escape
  /\ \A c \in DOMAIN Escape :
       /\ Escape[c] \notin {" ", "&", "=", "?", "/"}
       /\ \A d \in DOMAIN Escape : Escape[c] = Escape[d] => c = d
  /\ \A t \in Texts :
       /\ IsText(t)
       /\ \A i \in DOMAIN t : t[i] \in DOMAIN Escape \/ \A c \in DOMAIN Escape : Escape[c] # t[i]

\* Cookies are made of what cookies may be made of.
ASSUME CookieAssumption ==
  /\ \A t \in CookieNames \cup CookieValues :
       IsText(t) /\ ";" \notin Range(t) /\ (t # << >> => t[1] # " ")
  /\ \A t \in CookieNames : "=" \notin Range(t)

-----------------------------------------------------------------------------
(* urlEncodeComponent and urlDecode (TextCodecs shows that they are inverse) *)

Escaped(text) == [i \in DOMAIN text |-> IF text[i] \in DOMAIN Escape THEN Escape[text[i]]
                                        ELSE text[i]]
Decoded(text) ==
  [i \in DOMAIN text |->
     IF \E c \in DOMAIN Escape : Escape[c] = text[i]
     THEN CHOOSE c \in DOMAIN Escape : Escape[c] = text[i]
     ELSE text[i]]

JoinWith(parts, sep) ==
  FlattenSeq([i \in DOMAIN parts |-> IF i = 1 THEN parts[i] ELSE <<sep>> \o parts[i]])

\* The items that the first i characters make
ItemsUpTo(text, sep) ==
  LET items[i \in 0..Len(text)] ==
        IF i = 0 THEN << << >> >>
        ELSE IF text[i] = sep THEN Append(items[i - 1], << >>)
        ELSE [items[i - 1] EXCEPT ![Len(items[i - 1])] = Append(@, text[i])]
  IN  items
SplitAt(text, sep) == ItemsUpTo(text, sep)[Len(text)]

\* What is in front of the first c, and behind it
FirstOf(text, c) == LET At == {i \in DOMAIN text : text[i] = c}
                    IN  IF At = {} THEN 0 ELSE CHOOSE i \in At : \A j \in At : i <= j
Before(text, c) == IF FirstOf(text, c) = 0 THEN text ELSE SubSeq(text, 1, FirstOf(text, c) - 1)
Behind(text, c) == IF FirstOf(text, c) = 0 THEN << >>
                   ELSE SubSeq(text, FirstOf(text, c) + 1, Len(text))

Pair(key, value) == key \o <<"=">> \o value
\* What a map is written from, in some order
FormPairs(map) ==
  LET keys == SetToSeq(DOMAIN map)
  IN  [i \in 1..Len(keys) |-> Pair(Escaped(keys[i]), Escaped(map[keys[i]]))]
CookiePairs(map) ==
  LET names == SetToSeq(DOMAIN map)
  IN  [i \in 1..Len(names) |-> Pair(names[i], map[names[i]])]

-----------------------------------------------------------------------------
(* The client *)

\* A new request, or an upload of one file.
WireInit ==
  /\ upload \in BOOLEAN
  /\ req = [method |-> IF upload THEN "POST" ELSE "GET", path |-> <<"/">>, encode |-> TRUE,
            params |-> NoParams, cookies |-> NoParams, content |-> << >>,
            type |-> IF upload THEN Multipart ELSE Plain,
            typeString |-> IF upload THEN Multipart ELSE "", passThrough |-> FALSE]
  /\ setCalls = 0
  /\ wire = Unsent

Setter(changed) ==
  /\ ~wire.sent /\ setCalls < MaxSets
  /\ setCalls' = setCalls + 1
  /\ req' = changed
  /\ UNCHANGED <<upload, wire>>

setMethod == \E m \in Methods : Setter([req EXCEPT !.method = m])
setPath == \E t \in Texts : Setter([req EXCEPT !.path = <<"/">> \o t])
setPathEncode == Setter([req EXCEPT !.encode = FALSE])
setParameter == \E k, v \in Texts : Setter([req EXCEPT !.params = With(@, k, v)])
addCookie == \E k \in CookieNames, v \in CookieValues :
  Setter([req EXCEPT !.cookies = With(@, k, v)])
setRequestBody == Setter([req EXCEPT !.content = <<"body">>])
\* setContentTypeCode and setContentTypeString set both fields.
setContentType == \E t \in {Form, Plain} :
  ~upload /\ Setter([req EXCEPT !.type = t, !.typeString = t])
setRequestPassThrough == Setter([req EXCEPT !.passThrough = TRUE])

-----------------------------------------------------------------------------
(* appendToBuffer *)

EncodedParams == JoinWith(FormPairs(req.params), "&")

\* The parameters are the body of a form, and the query of another request.
HasParams == ~req.passThrough /\ req.params # NoParams /\ req.type # Multipart
Query == IF HasParams /\ req.type # Form THEN EncodedParams ELSE << >>

\* One part for each parameter, one for the file, and the end.
UploadParts == [i \in 1..(Cardinality(DOMAIN req.params) + 2) |-> "part"]
Content ==
  IF HasParams /\ req.type = Form THEN EncodedParams
  ELSE IF ~req.passThrough /\ req.type = Multipart /\ upload THEN UploadParts
  ELSE << >>

\* Mutant: the length is the one of the content built here.
LengthOfContent == Len(Content)
ContentLength == Len(Content) + Len(req.content)

HasBody == Content # << >> \/ req.content # << >>
\* -1 for no content-length
LengthHeader ==
  IF req.passThrough THEN -1
  ELSE IF HasBody THEN ContentLength
  ELSE IF req.method = "POST" THEN 0 ELSE -1

TypesSent ==
  IF req.passThrough THEN << >>
  ELSE (IF HasBody /\ req.typeString = "" THEN <<req.type>> ELSE << >>)
       \o (IF req.typeString # "" THEN <<req.typeString>> ELSE << >>)

\* urlEncode leaves these as they are.
EncodedPath(text) ==
  [i \in DOMAIN text |-> IF text[i] \in {"&", "=", "?", "/"} THEN text[i] ELSE Escaped(text)[i]]
PathSent == IF req.encode THEN EncodedPath(req.path) ELSE req.path

\* The query goes behind the one the path may have.
Target ==
  PathSent \o (IF Query = << >> THEN << >>
               ELSE IF "?" \notin Range(PathSent) THEN <<"?">> \o Query
               ELSE IF FirstOf(PathSent, "?") = Len(PathSent) THEN Query
               ELSE <<"&">> \o Query)

Message ==
  [sent |-> TRUE, method |-> req.method, target |-> Target,
   length |-> LengthHeader, types |-> TypesSent,
   cookie |-> JoinWith(CookiePairs(req.cookies), ";"),
   body |-> Content \o req.content]
\* It asserts that it has not made content beside the one that was set.
appendToBuffer ==
  /\ ~wire.sent
  /\ Content = << >> \/ req.content = << >>
  /\ wire' = Message
  /\ UNCHANGED <<req, upload, setCalls>>

WireNext ==
  \/ setMethod \/ setPath \/ setPathEncode \/ setParameter \/ addCookie \/ setRequestBody
  \/ setContentType \/ setRequestPassThrough \/ appendToBuffer
WireSpec == WireInit /\ [][WireNext]_wireVars

-----------------------------------------------------------------------------
(* The server *)

PastLeading(text, Chars) ==
  LET Kept == {i \in DOMAIN text : text[i] \notin Chars}
  IN  IF Kept = {} THEN << >>
      ELSE SubSeq(text, CHOOSE i \in Kept : \A j \in Kept : i <= j, Len(text))

PastTrailing(text, Chars) ==
  LET Kept == {i \in DOMAIN text : text[i] \notin Chars}
  IN  IF Kept = {} THEN << >>
      ELSE SubSeq(text, 1, CHOOSE i \in Kept : \A j \in Kept : j <= i)

\* addHeader takes the spaces off both ends of a value.
HeaderValue(text) == PastTrailing(PastLeading(text, {" "}), {" "})

\* The parser splits the target at its first "?"; setPath(start, end), setQuery
Path == Decoded(Before(wire.target, "?"))
QueryView == Behind(wire.target, "?")

\* What one item says: a value of a key, or a key that may have a value already.
ReadPair(item) ==
  [set |-> "=" \in Range(item),
   key |-> IF "=" \in Range(item) THEN Decoded(PastLeading(Before(item, "="), {" "}))
           ELSE Decoded(item),
   value |-> Decoded(Behind(item, "="))]
ReadCookie(item) ==
  [set |-> "=" \in Range(item), key |-> PastLeading(Before(item, "="), {" "}),
   value |-> PastLeading(Behind(item, "="), {" "})]

\* Read one after the other, the last value of a key stays.
ValueIn(reads, key) ==
  LET Set == {i \in DOMAIN reads : reads[i].set /\ reads[i].key = key}
  IN  IF Set = {} THEN << >> ELSE reads[CHOOSE i \in Set : \A j \in Set : j <= i].value

\* The body of a form: the part after the last "&" counts only if there is one.
ParseForm(text) ==
  LET items == SplitAt(PastLeading(text, {"?", " "}), "&")
      used == IF Last(items) = << >> THEN Front(items) ELSE items
      reads == [i \in DOMAIN used |-> ReadPair(used[i])]
  IN  [k \in {reads[i].key : i \in DOMAIN reads} |-> ValueIn(reads, k)]

\* parseParameters(): the loop over the query compares pos where it should assign it, so
\* that it never ends; a request with a query has no parameters that come of it.
parseParameters ==
  [ends |-> QueryView = << >>,
   parameters |-> IF wire.types = << >> \/ wire.types[1] = Form THEN ParseForm(wire.body)
                  ELSE NoParams]

\* addHeader of "cookie": a text without "=" is no cookie.
ParseCookies(text) ==
  LET items == SplitAt(text, ";")
      reads == [i \in DOMAIN items |-> ReadCookie(items[i])]
  IN  [k \in {reads[i].key : i \in {j \in DOMAIN reads : reads[j].set}} |-> ValueIn(reads, k)]
Cookies == ParseCookies(HeaderValue(wire.cookie))

-----------------------------------------------------------------------------
\* What is announced is what follows: content-length counts everything that is sent after
\* the header, and there is a length whenever there is a body and whenever a method with
\* a body has none.
FramingExact ==
  wire.sent /\ ~req.passThrough =>
    /\ wire.length = IF wire.body = << >> /\ req.method = "GET" THEN -1 ELSE Len(wire.body)
    /\ Len(wire.types) <= 1

\* A form arrives: whatever characters keys and values have, the server's parameters are
\* the client's.
FormArrives ==
  wire.sent /\ ~req.passThrough /\ req.type = Form /\ req.content = << >>
  /\ "?" \notin Range(req.path) =>
    parseParameters = [ends |-> TRUE, parameters |-> req.params]

\* The path arrives, and so does its query, whether it was written in the path, made from
\* the parameters, or both.
Both(first, second) ==
  IF first = << >> THEN second ELSE IF second = << >> THEN first ELSE first \o <<"&">> \o second
PathArrives ==
  wire.sent /\ req.encode =>
    /\ Path = Before(req.path, "?")
    /\ QueryView = Both(EncodedPath(Behind(req.path, "?")), Query)

\* Cookies arrive as they were set, but for the one that is written last, whichever of them
\* that is: what its value ends with is taken for the end of the header.
CookiesArrive ==
  wire.sent =>
    Cookies = [k \in DOMAIN req.cookies |->
                 IF k = Last(SetToSeq(DOMAIN req.cookies))
                 THEN PastTrailing(req.cookies[k], {" "}) ELSE req.cookies[k]]

\* What a client's program puts into a request is what the server's program gets out of
\* it, the spaces at the end of the cookies excepted.
RequestArrives == FramingExact /\ FormArrives /\ PathArrives /\ CookiesArrive
=============================================================================
