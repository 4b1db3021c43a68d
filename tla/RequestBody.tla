---------------------------- MODULE RequestBody ----------------------------
(***************************************************************************)
(* The body of a request (HttpRequestImpl): kept in memory, moved to a     *)
(* CacheFile when it is large, or handed to a stream reader that may come  *)
(* before, between or after the pieces; then decompressed.  The object is  *)
(* pooled: reset() makes it the object of the connection's next request.   *)
(*                                                                         *)
(* Everything runs on the request's loop; what varies is the order of the  *)
(* calls of the connection (the pieces, the end, a break) and those of the *)
(* handler.  A piece is <<use, n>>: the n-th piece of a use of the object. *)
(***************************************************************************)
EXTENDS Integers, Sequences

CONSTANTS
  MaxMemory,    \* getClientMaxMemoryBodySize, in pieces
  MaxBody,      \* getClientMaxBodySize, in pieces
  MaxUses       \* bound of the model: requests served by the object

ASSUME BodyAssumption == MaxMemory \in Nat /\ MaxBody \in Nat /\ MaxUses \in Nat \ {0}

VARIABLES
  use,          \* which request the object is
  progress,     \* the connection: "head", "body", "end", "broken"
  received,     \* the pieces that came
  content,      \* content_
  file,         \* cacheFilePtr_: [open, data]
  status,       \* streamStatus_
  reader,       \* streamReaderPtr_: the use it was set for, 0 if none
  exception,    \* streamExceptionPtr_
  finishCb,     \* streamFinishCb_: the use it was set for, 0 if none
  asked,        \* what the handler of this request did: "nothing", "reads", "waits"
  readers,      \* of each use: what its reader was given [data, ends]
  waits,        \* of each use: how often its callback ran
  unpacked      \* the body has been through decompressBody

bodyVars == <<use, progress, received, content, file, status, reader, exception, finishCb,
              asked, readers, waits, unpacked>>

NoFile == [open |-> FALSE, data |-> <<>>]
Uses == 1..MaxUses
Streaming == status # "none"

BodyInit ==
  /\ use = 1
  /\ progress = "head"
  /\ received = <<>>
  /\ content = <<>>
  /\ file = NoFile
  /\ status = "none"
  /\ reader = 0
  /\ exception = FALSE
  /\ finishCb = 0
  /\ asked = "nothing"
  /\ readers = [u \in Uses |-> [data |-> <<>>, ends |-> <<>>]]
  /\ waits = [u \in Uses |-> 0]
  /\ unpacked = FALSE

-----------------------------------------------------------------------------
(* The connection. *)

\* The end of the headers: streamStart() if streams are enabled, and reserveBodySize()
\* with a known length.
Headers ==
  /\ progress = "head"
  /\ progress' = "body"
  /\ status' \in {"none", "open"}
  /\ file' \in {NoFile, [open |-> TRUE, data |-> <<>>]}
  /\ UNCHANGED <<use, received, content, reader, exception, finishCb, asked, readers,
                 waits, unpacked>>

\* appendToBody without a reader: to the file, or to memory while it fits.
Keep(data, pieces) ==
  IF data.file.open
  THEN [data EXCEPT !.file.data = @ \o pieces]
  ELSE IF Len(data.content) + Len(pieces) <= MaxMemory
  THEN [data EXCEPT !.content = @ \o pieces]
  ELSE [content |-> <<>>, file |-> [open |-> TRUE, data |-> data.content \o pieces]]

Stored == [content |-> content, file |-> file]
Store(data) == content' = data.content /\ file' = data.file

appendToBody ==
  /\ progress = "body" /\ Len(received) < MaxBody
  /\ LET piece == <<use, Len(received) + 1>>
     IN  /\ received' = Append(received, piece)
         /\ IF reader # 0
            THEN /\ readers' = [readers EXCEPT ![reader].data = Append(@, piece)]
                 /\ UNCHANGED <<content, file>>
            ELSE Store(Keep(Stored, <<piece>>)) /\ UNCHANGED readers
  /\ UNCHANGED <<use, progress, status, reader, exception, finishCb, asked, waits, unpacked>>

\* streamFinishCb_ is moved out before it is called.
RunCallback ==
  /\ waits' = IF finishCb = 0 THEN waits ELSE [waits EXCEPT ![finishCb] = @ + 1]
  /\ finishCb' = 0

EndReader(how) ==
  /\ readers' = IF reader = 0 THEN readers ELSE [readers EXCEPT ![reader].ends = Append(@, how)]
  /\ reader' = 0

\* The end of the body: streamFinish() of a stream.
End ==
  /\ progress = "body"
  /\ progress' = "end"
  /\ IF Streaming
     THEN status' = "finish" /\ RunCallback /\ EndReader("ok")
     ELSE UNCHANGED <<status, finishCb, waits, readers, reader>>
  /\ UNCHANGED <<use, received, content, file, exception, asked, unpacked>>

\* The connection breaks, or the body is bad: streamError() of a stream.
Break ==
  /\ progress = "body"
  /\ progress' = "broken"
  /\ IF Streaming
     THEN /\ status' = "error"
          /\ exception' = (reader = 0)
          /\ EndReader("exception")
          /\ RunCallback
     ELSE UNCHANGED <<status, exception, readers, reader, finishCb, waits>>
  /\ UNCHANGED <<use, received, content, file, asked, unpacked>>

-----------------------------------------------------------------------------
(* The handler. *)

\* setStreamReader: "Consume already received body"
HeldBody == IF file.open THEN file.data ELSE content

\* A reader that comes after an error gets the exception and nothing else.
setStreamReader ==
  /\ Streaming /\ asked = "nothing"
  /\ asked' = "reads"
  /\ IF exception
     THEN /\ readers' = [readers EXCEPT ![use].ends = Append(@, "exception")]
          /\ exception' = FALSE
          /\ UNCHANGED <<content, file, reader>>
     ELSE /\ readers' = [readers EXCEPT
                           ![use] = [data |-> @.data \o HeldBody,
                                     ends |-> IF status = "finish" THEN Append(@.ends, "ok")
                                              ELSE @.ends]]
          /\ file' = NoFile
          /\ content' = IF file.open THEN content ELSE <<>>
          /\ reader' = IF status = "finish" THEN reader ELSE use
          /\ UNCHANGED exception
  /\ UNCHANGED <<use, progress, received, status, finishCb, waits, unpacked>>

\* waitForStreamFinish of a handler that wants the whole body
waitForStreamFinish ==
  /\ Streaming /\ asked = "nothing"
  /\ asked' = "waits"
  /\ IF status = "open"
     THEN finishCb' = use /\ UNCHANGED waits
     ELSE waits' = [waits EXCEPT ![use] = @ + 1] /\ UNCHANGED finishCb
  /\ UNCHANGED <<use, progress, received, content, file, status, reader, exception, readers,
                 unpacked>>

quitStreamMode ==
  /\ status \in {"finish", "error"} /\ asked = "waits" /\ waits[use] > 0
  /\ status' = "none"
  /\ UNCHANGED <<use, progress, received, content, file, reader, exception, finishCb, asked,
                 readers, waits, unpacked>>

\* decompressBodyGzip: if (strm.total_out > maxBodySize)
WithinMax(n) == n <= MaxBody

Inflated(n) == [i \in 1..n |-> <<use, -i>>]
\* The pieces go to appendToBody one by one.
KeepAll(n) ==
  LET after[i \in 0..n] ==
        IF i = 0 THEN [content |-> <<>>, file |-> NoFile]
        ELSE Keep(after[i - 1], <<<<use, -i>>>>)
  IN  after[n]

\* decompressBody of a whole body: n pieces come out and it ends well, or it fails after
\* n pieces, its body being set to "" (which leaves a file that has been made since).
Decompress ==
  /\ progress = "end" /\ ~Streaming /\ ~unpacked
  /\ HeldBody # <<>>
  /\ unpacked' = TRUE
  /\ \E n \in 0..(MaxBody + 1) :
       /\ WithinMax(n)
       /\ \/ Store(KeepAll(n))
          \/ content' = <<>> /\ file' = KeepAll(n).file
  /\ UNCHANGED <<use, progress, received, status, reader, exception, finishCb, asked, readers,
                 waits>>

\* Mutant: the streaming fields are left as they were.
ResetStreaming == UNCHANGED <<status, reader, finishCb, exception>>

ResetStream ==
  /\ status' = "none"
  /\ reader' = 0
  /\ finishCb' = 0
  /\ exception' = FALSE

\* Nothing refers to the request any more: reset(), and the next request.
reset ==
  /\ progress \in {"end", "broken"} /\ use < MaxUses
  /\ use' = use + 1
  /\ progress' = "head"
  /\ received' = <<>>
  /\ content' = <<>>
  /\ file' = NoFile
  /\ ResetStream
  /\ asked' = "nothing"
  /\ unpacked' = FALSE
  /\ UNCHANGED <<readers, waits>>

BodyNext ==
  \/ Headers \/ appendToBody \/ End \/ Break
  \/ setStreamReader \/ waitForStreamFinish \/ quitStreamMode \/ Decompress
  \/ reset

BodySpec == BodyInit /\ [][BodyNext]_bodyVars

-----------------------------------------------------------------------------
\* Wherever the body is (memory, file, reader) and whenever the reader came, it is the
\* pieces that were received, each once and in order.
BodyWhole ==
  ~unpacked =>
    \/ readers[use].data \o HeldBody = received
    \/ status = "error"

\* A reader gets no piece of another request.
OwnPieces ==
  \A u \in Uses : \A i \in DOMAIN readers[u].data : readers[u].data[i][1] = u

\* Reader and waiting callback hear of the end of their request exactly once.
EndedOnce ==
  /\ \A u \in Uses : Len(readers[u].ends) <= 1 /\ waits[u] <= 1
  /\ progress = "end" /\ asked = "reads" => readers[use].ends = <<"ok">>
  /\ progress = "broken" /\ asked = "reads" => readers[use].ends = <<"exception">>
  /\ progress \in {"end", "broken"} /\ asked = "waits" => waits[use] = 1
  /\ progress = "body" => readers[use].ends = <<>> /\ waits[use] = 0

\* Neither memory nor file grows past its limit, whatever the body inflates to.
WithinLimits ==
  /\ Len(content) <= MaxMemory
  /\ Len(file.data) <= MaxBody

\* A request's body reaches its handler whole, and no other's, and its end with it.
BodyExact == BodyWhole /\ OwnPieces /\ EndedOnce /\ WithinLimits
=============================================================================
