--------------------------- MODULE RequestParser ---------------------------
(***************************************************************************)
(* HttpRequestParser::parseRequest (lib/src/HttpRequestParser.cpp): the    *)
(* incremental parser of one connection, one action per state of its       *)
(* switch, and the pool its request objects come from.                     *)
(*                                                                         *)
(* A byte of the model is a token: a method, a request line, a header, a   *)
(* chunk size, a byte of a body, or one of the characters the parser looks *)
(* for.  CR and LF are two tokens: they may arrive apart.                  *)
(***************************************************************************)
EXTENDS Integers, Sequences, SequencesExt

CONSTANTS
  Objects,        \* HttpRequestImpl objects: bounds those alive at one time
  None,
  MethodMax,      \* METHOD_MAX_LEN, in tokens
  LineMax,        \* the 64 KiB of a request line or header, in tokens
  SizeMax,        \* TRUNK_LEN_MAX_LEN + CRLF_LEN, in tokens
  MaxBody         \* getClientMaxBodySize()

ASSUME BoundAssumption ==
  /\ MethodMax \in Nat \ {0} /\ LineMax \in Nat \ 0..2 /\ SizeMax \in Nat \ 0..1
  /\ MaxBody \in Nat
  /\ None \notin Objects \cup Int

VARIABLES
  buf,        \* the MsgBuffer: tokens received and not yet consumed
  status,     \* status_
  content,    \* currentContentLength_
  chunk,      \* currentChunkLength_
  request,    \* request_
  pool,       \* requestsPool_ (which object is taken from it does not matter)
  data,       \* what each request object holds; None: not allocated
  turn,       \* where the loop thread is: "wait", "parse", or parseRequest has
              \* returned "more" (0), "got" (1) or "error" (-1)
  wire        \* what has been sent to the client

parserVars == <<buf, status, content, chunk, request, pool, data, turn, wire>>

Token(kind, value) == [kind |-> kind, value |-> value]
Space == Token("space", 0)
CR    == Token("cr", 0)
LF    == Token("lf", 0)
CRLF  == <<CR, LF>>

HeaderKinds == {"length", "coding", "expect", "header"}

\* Values of the tokens: a method is the number of its message, 0 if unknown; a
\* line is 10 or 11 for its version, 0 if malformed; a length is -1 if it is not
\* a number; a coding is 1 for "chunked", an expectation 1 for "100-continue".
Tokens ==
  [kind : {"method", "space", "line", "cr", "lf", "length", "coding", "expect",
           "header", "size", "data"}, value : -1..99]

\* HttpRequestImpl::reset
Blank == [method |-> 0, version |-> 0, length |-> None, coding |-> None,
          expect |-> None, body |-> 0]

Statuses == {"kExpectMethod", "kExpectRequestLine", "kExpectHeaders", "kExpectBody",
             "kExpectChunkLen", "kExpectChunkBody", "kExpectLastEmptyChunk", "kGotAll"}

-----------------------------------------------------------------------------
(* The buffer. *)

IsSpace(t)  == t = Space
SpaceAt     == SelectInSeq(buf, IsSpace)

\* findCRLF: the position of the first CR followed by LF, 0 if there is none.
CrlfAt ==
  LET At == {i \in 1..(Len(buf) - 1) : buf[i] = CR /\ buf[i + 1] = LF}
  IN  IF At = {} THEN 0 ELSE CHOOSE i \in At : \A j \in At : i <= j

Before(i)  == SubSeq(buf, 1, i - 1)
From(i)    == SubSeq(buf, i, Len(buf))

-----------------------------------------------------------------------------
(* The ways parseRequest ends or goes on. *)

\* return 0
NeedMore ==
  /\ turn' = "more"
  /\ UNCHANGED <<buf, status, content, chunk, data, wire>>

\* retrieveAll, shutdownConnection(code), return -1
Refuse(code) ==
  /\ buf' = <<>>
  /\ wire' = Append(wire, [kind |-> "error", value |-> code])
  /\ turn' = "error"
  /\ UNCHANGED <<status, content, chunk, data>>

\* status_ = kGotAll, ++requestsCounter_, return 1; what is left of the buffer
Got(left) ==
  /\ buf' = left
  /\ status' = "kGotAll"
  /\ turn' = "got"

\* status_ = next, retrieve, continue
Continue(next, left) ==
  /\ buf' = left
  /\ status' = next
  /\ UNCHANGED <<turn, wire>>

Set(field, value) == data' = [data EXCEPT ![request][field] = value]

\* reset(), from the objects d; "kept" when something else still holds request_.
\* An object that nothing holds any more is blanked and returns to the pool.
Renew(d, kept) ==
  LET spare == IF pool = {} THEN {x \in Objects : d[x] = None} ELSE pool
      o     == CHOOSE x \in spare : TRUE
  IN  /\ spare # {}
      /\ request' = o
      /\ pool' = (pool \ {o}) \cup (IF kept THEN {} ELSE {request})
      /\ data' = [x \in Objects |-> IF x = o \/ (x = request /\ ~ kept) THEN Blank ELSE d[x]]

-----------------------------------------------------------------------------
(* parseRequest, one action per case of its switch. *)

In(s) == turn = "parse" /\ status = s

\* The name of one of the seven methods.
setMethod(m) == Len(m) = 1 /\ m[1].kind = "method" /\ m[1].value > 0

ParseMethod ==
  /\ In("kExpectMethod")
  /\ \/ SpaceAt = 0 /\ Len(buf) > MethodMax /\ Refuse(400)
     \/ SpaceAt = 0 /\ Len(buf) <= MethodMax /\ NeedMore
     \/ /\ SpaceAt > 0
        /\ LET m == Before(SpaceAt) IN
             \/ /\ setMethod(m)
                /\ Set("method", m[1].value)
                /\ Continue("kExpectRequestLine", From(SpaceAt + 1))
                /\ UNCHANGED <<content, chunk>>
             \/ /\ ~ setMethod(m)
                /\ Refuse(405)
  /\ UNCHANGED <<request, pool>>

ParseRequestLine ==
  /\ In("kExpectRequestLine")
  /\ \/ CrlfAt = 0 /\ Len(buf) >= LineMax /\ Refuse(414)
     \/ CrlfAt = 0 /\ Len(buf) < LineMax /\ NeedMore
     \/ /\ CrlfAt > 0
        /\ LET line == Before(CrlfAt) IN
             \/ /\ Len(line) = 1 /\ line[1].kind = "line" /\ line[1].value > 0
                /\ Set("version", line[1].value)
                /\ Continue("kExpectHeaders", From(CrlfAt + 2))
                /\ UNCHANGED <<content, chunk>>
             \/ /\ ~ (Len(line) = 1 /\ line[1].kind = "line" /\ line[1].value > 0)
                /\ Refuse(400)
  /\ UNCHANGED <<request, pool>>

\* The headers: a line without a colon ends them.
IsHeader(t) == t.kind \in HeaderKinds
HeaderLine  == SelectInSeq(Before(CrlfAt), IsHeader)

\* addHeader: the first of two equal fields stays, but the last "expect" counts.
WithHeader(r, t) ==
  IF t.kind = "header" \/ (t.kind # "expect" /\ r[t.kind] # None) THEN r
  ELSE [r EXCEPT ![t.kind] = t.value]

AddHeader ==
  /\ In("kExpectHeaders")
  /\ \/ CrlfAt = 0 /\ Len(buf) >= LineMax /\ Refuse(400)
     \/ CrlfAt = 0 /\ Len(buf) < LineMax /\ NeedMore
     \/ /\ CrlfAt > 0 /\ HeaderLine > 0
        /\ data' = [data EXCEPT ![request] = WithHeader(@, buf[HeaderLine])]
        /\ Continue("kExpectHeaders", From(CrlfAt + 2))
        /\ UNCHANGED <<content, chunk>>
  /\ UNCHANGED <<request, pool>>

\* The end of the headers decides how the body is framed.  The tests come in the
\* order of the source: length, then coding, then expectation, then size.
EndHeaders ==
  /\ In("kExpectHeaders")
  /\ CrlfAt > 0 /\ HeaderLine = 0
  /\ LET r     == data[request]
         rest  == From(CrlfAt + 2)
         size  == IF r.length = None THEN content ELSE r.length
         next  == IF r.length # None THEN "kExpectBody" ELSE "kExpectChunkLen"
         framed == (r.length # None /\ r.length > 0) \/ (r.length = None /\ r.coding = 1)
         continues == r.expect = 1 /\ r.version >= 11
     IN  \/ /\ r.length = -1 \/ (r.length = None /\ r.coding = 0)
            /\ Refuse(IF r.length = -1 THEN 400 ELSE 501)
            /\ UNCHANGED <<request, pool>>
         \/ /\ r.length = 0 \/ (r.length = None /\ r.coding = None)
            /\ Got(rest)
            /\ UNCHANGED <<content, chunk, request, pool, data, wire>>
         \/ /\ framed /\ continues /\ size = 0
            /\ Refuse(400)
            /\ UNCHANGED <<request, pool>>
         \/ /\ framed /\ continues /\ size > MaxBody
            /\ buf' = rest
            /\ status' = "kExpectMethod" /\ content' = 0
            /\ Renew(data, FALSE)
            /\ wire' = Append(wire, [kind |-> "error", value |-> 413])
            /\ UNCHANGED <<chunk, turn>>
         \/ /\ framed /\ continues /\ size \in 1..MaxBody
            /\ buf' = rest
            /\ status' = next /\ content' = size
            /\ wire' = Append(wire, [kind |-> "interim", value |-> 100])
            /\ UNCHANGED <<chunk, request, pool, data, turn>>
         \/ /\ framed /\ ~ continues /\ r.expect # None
            /\ Refuse(417)
            /\ UNCHANGED <<request, pool>>
         \/ /\ framed /\ r.expect = None /\ size > MaxBody
            /\ Refuse(413)
            /\ UNCHANGED <<request, pool>>
         \/ /\ framed /\ r.expect = None /\ size <= MaxBody
            /\ Continue(next, rest)
            /\ content' = size
            /\ UNCHANGED <<chunk, request, pool, data>>

\* Mutant: a piece of the body replaces the one before.
ParseBodyReplaces ==
  LET n == IF content <= Len(buf) THEN content ELSE Len(buf)
  IN  /\ In("kExpectBody")
      /\ Set("body", n)
      /\ content' = content - n
      /\ \/ content = n /\ Got(From(n + 1))
         \/ content > n /\ buf' = From(n + 1) /\ turn' = "more" /\ UNCHANGED status
      /\ UNCHANGED <<chunk, request, pool, wire>>

ParseBody ==
  LET n == IF content <= Len(buf) THEN content ELSE Len(buf)
  IN  /\ In("kExpectBody")
      /\ Set("body", data[request].body + n)
      /\ content' = content - n
      /\ \/ content = n /\ Got(From(n + 1))
         \/ content > n /\ buf' = From(n + 1) /\ turn' = "more" /\ UNCHANGED status
      /\ UNCHANGED <<chunk, request, pool, wire>>

\* strtol: 0 for a line that is no number
SizeOf(line) == IF line # <<>> /\ line[1].kind = "size" THEN line[1].value ELSE 0

ParseChunkLen ==
  /\ In("kExpectChunkLen")
  /\ \/ CrlfAt = 0 /\ Len(buf) > SizeMax /\ Refuse(400)
     \/ CrlfAt = 0 /\ Len(buf) <= SizeMax /\ NeedMore
     \/ /\ CrlfAt > 0
        /\ LET size == SizeOf(Before(CrlfAt)) IN
             \/ size # 0 /\ size + content > MaxBody /\ Refuse(413)
             \/ /\ size = 0 \/ size + content <= MaxBody
                /\ chunk' = size
                /\ Continue(IF size # 0 THEN "kExpectChunkBody" ELSE "kExpectLastEmptyChunk",
                            From(CrlfAt + 2))
                /\ UNCHANGED <<content, data>>
  /\ UNCHANGED <<request, pool>>

ParseChunkBody ==
  /\ In("kExpectChunkBody")
  /\ \/ Len(buf) < chunk + 2 /\ NeedMore
     \/ /\ Len(buf) >= chunk + 2
        /\ \/ SubSeq(buf, chunk + 1, chunk + 2) # CRLF /\ Refuse(400)
           \/ /\ SubSeq(buf, chunk + 1, chunk + 2) = CRLF
              /\ Set("body", data[request].body + chunk)
              /\ content' = content + chunk
              /\ chunk' = 0
              /\ Continue("kExpectChunkLen", From(chunk + 3))
  /\ UNCHANGED <<request, pool>>

ParseLastChunk ==
  /\ In("kExpectLastEmptyChunk")
  /\ \/ Len(buf) < 2 /\ NeedMore
     \/ /\ Len(buf) >= 2
        /\ \/ SubSeq(buf, 1, 2) # CRLF /\ Refuse(400)
           \/ /\ SubSeq(buf, 1, 2) = CRLF
              /\ Got(From(3))
              /\ data' = [data EXCEPT ![request].length = data[request].body,
                                      ![request].coding = None]
              /\ UNCHANGED <<content, chunk, wire>>
  /\ UNCHANGED <<request, pool>>

ParseStep ==
  \/ ParseMethod \/ ParseRequestLine \/ AddHeader \/ EndHeaders
  \/ ParseBody \/ ParseChunkLen \/ ParseChunkBody \/ ParseLastChunk
=============================================================================
