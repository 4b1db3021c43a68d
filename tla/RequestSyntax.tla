--------------------------- MODULE RequestSyntax ---------------------------
(***************************************************************************)
(* What the bytes of a client mean, read a piece at a time: the method     *)
(* with its space, a line, the end of the headers, a body, a chunk.  A     *)
(* client sends its pieces one after the other; how they are cut into      *)
(* deliveries is not its doing, and RequestParser has to find them again.  *)
(***************************************************************************)
EXTENDS RequestParser

IsMethod(t) == Len(t) = 2 /\ t[1].kind = "method" /\ t[1].value > 0 /\ t[2] = Space

IsLine(t, kinds) == Len(t) = 3 /\ t[1].kind \in kinds /\ t[2] = CR /\ t[3] = LF

\* What has been read: the place in the message, what its request is so far, and the
\* requests before it.
Fresh(out) ==
  [at |-> "kExpectMethod", r |-> Blank, content |-> 0, chunk |-> 0, out |-> out]

Refused(p) == [p EXCEPT !.at = "refused"]
Done(p, body) == Fresh(Append(p.out, [id |-> p.r.method, body |-> body]))

\* After the headers: a body by length or in chunks, unless there is none, or it is
\* refused: too long, of an unknown coding, with an expectation the server cannot meet.
\* With "100-continue" a body that is too long is refused before it is sent.
AfterHeaders(p) ==
  LET r     == p.r
      size  == IF r.length = None THEN 0 ELSE r.length
      next  == IF r.length = None THEN "kExpectChunkLen" ELSE "kExpectBody"
      waits == r.expect = 1 /\ r.version >= 11
  IN  IF r.length = -1 \/ (r.length = None /\ r.coding = 0) THEN Refused(p)
      ELSE IF r.length = 0 \/ (r.length = None /\ r.coding = None) THEN Done(p, 0)
      ELSE IF waits /\ size > MaxBody THEN Fresh(p.out)
      ELSE IF size <= MaxBody /\ (r.expect = None \/ (waits /\ size > 0))
      THEN [p EXCEPT !.at = next, !.content = size]
      ELSE Refused(p)

\* What has been read once t has been said.
Says(p, t) ==
  CASE p.at = "kExpectMethod" /\ IsMethod(t) ->
         [p EXCEPT !.at = "kExpectRequestLine", !.r.method = t[1].value]
    [] p.at = "kExpectRequestLine" /\ IsLine(t, {"line"}) /\ t[1].value > 0 ->
         [p EXCEPT !.at = "kExpectHeaders", !.r.version = t[1].value]
    [] p.at = "kExpectHeaders" /\ IsLine(t, HeaderKinds) ->
         [p EXCEPT !.r = WithHeader(@, t[1])]
    [] p.at = "kExpectHeaders" /\ t = CRLF -> AfterHeaders(p)
    [] p.at = "kExpectBody" /\ Len(t) = p.content -> Done(p, p.content)
    [] p.at = "kExpectChunkLen" /\ IsLine(t, {"size"}) /\ t[1].value = 0 ->
         [p EXCEPT !.at = "kExpectLastEmptyChunk"]
    [] p.at = "kExpectChunkLen" /\ IsLine(t, {"size"})
         /\ t[1].value > 0 /\ t[1].value + p.content <= MaxBody ->
         [p EXCEPT !.at = "kExpectChunkBody", !.chunk = t[1].value]
    [] p.at = "kExpectChunkBody" /\ Len(t) = p.chunk + 2
         /\ SubSeq(t, p.chunk + 1, p.chunk + 2) = CRLF ->
         [p EXCEPT !.at = "kExpectChunkLen", !.content = @ + p.chunk,
                   !.chunk = 0, !.r.body = @ + p.chunk]
    [] p.at = "kExpectLastEmptyChunk" /\ t = CRLF -> Done(p, p.r.body)
    [] OTHER -> Refused(p)

\* The lines of t end where it ends, if they do.
NoneBefore(t, n) == \A i \in 1..(n - 1) : ~ (t[i] = CR /\ t[i + 1] = LF)
OneLine(t) == Len(t) >= 2 /\ SubSeq(t, Len(t) - 1, Len(t)) = CRLF /\ NoneBefore(t, Len(t) - 1)
NoLine(t, limit) == Len(t) >= limit /\ NoneBefore(t, Len(t))

\* How a client says what is refused: as a piece of its own, which a reader who has only
\* some of it cannot take for another; one that is too long may lack its end if nothing
\* comes after it.
Refusable(p, t, last) ==
  CASE p.at = "kExpectMethod" ->
         \/ t # <<>> /\ t[Len(t)] = Space /\ \A i \in 1..(Len(t) - 1) : t[i] # Space
         \/ last /\ Len(t) > MethodMax /\ \A i \in DOMAIN t : t[i] # Space
    [] p.at = "kExpectRequestLine" -> OneLine(t) \/ (last /\ NoLine(t, LineMax))
    [] p.at = "kExpectHeaders" -> t = CRLF \/ (last /\ NoLine(t, LineMax))
    [] p.at = "kExpectBody" -> FALSE
    [] p.at = "kExpectChunkLen" ->
         \/ IsLine(t, {"size"}) /\ t[1].value > 0
         \/ last /\ NoLine(t, SizeMax + 1)
    [] p.at = "kExpectChunkBody" -> Len(t) = p.chunk + 2
    [] p.at = "kExpectLastEmptyChunk" -> Len(t) = 2
    [] OTHER -> TRUE

\* What is read of each start of what a client says.
Said(pieces) ==
  LET upTo[k \in 0..Len(pieces)] ==
        IF k = 0 THEN Fresh(<<>>) ELSE Says(upTo[k - 1], pieces[k])
  IN  upTo

\* The client leaves no message unfinished, and says plainly what is refused.
Plainly(pieces) ==
  LET n == Len(pieces)
  IN  /\ Said(pieces)[n].at \in {"kExpectMethod", "refused"}
      /\ \A k \in 1..n :
           Said(pieces)[k].at = "refused" => Refusable(Said(pieces)[k - 1], pieces[k], k = n)
=============================================================================
