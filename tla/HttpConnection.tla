--------------------------- MODULE HttpConnection ---------------------------
(***************************************************************************)
(* One HTTP/1 connection: HttpServer::onMessage feeding its parser,        *)
(* handlers on other threads, the pipelining queue that puts their         *)
(* responses in order, and the request objects that go back to the         *)
(* parser's pool when their last reference is dropped.                     *)
(*                                                                         *)
(* The loop thread of the connection runs onMessage, the responses posted  *)
(* to it and the returns of request objects, one after the other; handlers *)
(* interleave with it at the posts.  onRequests and sendResponse are only  *)
(* declared by the source: here every request of a batch is queued and     *)
(* handed to a handler, which answers once.                                *)
(***************************************************************************)
EXTENDS RequestSyntax, RequestPipeline, FiniteSets

CONSTANTS
  Scripts,        \* what clients send: sequences of messages
  KeepaliveMax    \* keepaliveRequestsNumber_; 0 is "no limit"

ASSUME KeepaliveAssumption == KeepaliveMax \in Nat

\* A message of a client: the pieces of it, and what it is to come to.
Messages == [id : Nat, pieces : Seq(Seq(Tokens)), body : Nat,
             verdict : {"request", "refused", "fatal"}]

ASSUME ScriptsAssumption == Scripts \subseteq Seq(Messages)

VARIABLES
  script,      \* the messages of this client
  stream,      \* tokens sent by the client and not yet received
  requests,    \* requestBuffer_: the batch onMessage collects
  job,         \* what the handler of each request does
  held,        \* requests another thread still holds after it has answered
  returning,   \* requests whose deleter has queued their return to the loop
  stopped,     \* stopWorking_
  conn,        \* "open", "closing", or "closed": the parser is released
  handed       \* history: the requests given to onRequests

connVars == <<script, stream, requests, job, held, returning, stopped, conn, handed>>
vars == <<parserVars, pipeline, connVars>>

\* A request as its handler sees it.
Seen(o) == [id |-> data[o].method, body |-> data[o].body]

\* Everything that holds a reference to a request object.
Holders(current, batch, line, jobs, threads) ==
  {current} \cup ToSet(batch) \cup {line[i].req : i \in DOMAIN line}
    \cup {o \in Objects : jobs[o] # "none"} \cup threads

\* The objects of which the last reference goes when these holders are left: the
\* deleter of makeRequestForPool runs for each.
Unheld(holders) ==
  {o \in Objects : data[o] # None} \ (holders \cup pool \cup returning)

Blanked(objects) == [o \in Objects |-> IF o \in objects THEN Blank ELSE data[o]]

\* What the client sends.
Pieces(s) == FlattenSeq([i \in 1..Len(s) |-> s[i].pieces])

-----------------------------------------------------------------------------
(* The loop thread. *)

LoopFree == turn = "wait"

\* Tokens arrive; a parser that has been stopped throws them away.
Receive(n) ==
  /\ conn = "open" /\ LoopFree
  /\ n \in 1..Len(stream)
  /\ stream' = SubSeq(stream, n + 1, Len(stream))
  /\ \/ stopped /\ buf' = <<>> /\ turn' = "wait"
     \/ ~ stopped /\ buf' = buf \o SubSeq(stream, 1, n) /\ turn' = "parse"
  /\ UNCHANGED <<status, content, chunk, request, pool, data, wire, pipeline, script,
                 requests, job, held, returning, stopped, conn, handed>>

Parse == ParseStep /\ UNCHANGED <<pipeline, connVars>>

\* Mutant: an "if" in the place of the "while".
OnlyOne ==
  /\ turn = "got"
  /\ requests' = Append(requests, request)
  /\ Renew(data, TRUE)
  /\ status' = "kExpectMethod" /\ content' = 0
  /\ turn' = "more"
  /\ UNCHANGED <<buf, chunk, wire, pipeline, script, stream, job, held, returning,
                 stopped, conn, handed>>

\* parseRequest has returned 1: the request joins the batch, and the loop goes on
\* while there is something in the buffer.
OneMore ==
  /\ turn = "got"
  /\ requests' = Append(requests, request)
  /\ Renew(data, TRUE)
  /\ status' = "kExpectMethod" /\ content' = 0
  /\ turn' = IF buf = <<>> THEN "more" ELSE "parse"
  /\ UNCHANGED <<buf, chunk, wire, pipeline, script, stream, job, held, returning,
                 stopped, conn, handed>>

\* The end of onMessage: onRequests(requests), requests.clear().
HandOver ==
  /\ turn = "more"
  /\ PushAll(requests)
  /\ job' = [o \in Objects |-> IF o \in ToSet(requests) THEN "working" ELSE job[o]]
  /\ handed' = handed \o [i \in 1..Len(requests) |-> Seen(requests[i])]
  /\ stopped' = (KeepaliveMax > 0 /\ Len(handed') >= KeepaliveMax)
  /\ requests' = <<>>
  /\ turn' = "wait"
  /\ UNCHANGED <<buf, status, content, chunk, request, pool, data, wire, script, stream,
                 held, returning, conn>>

\* parseRequest has returned -1: reset, forceClose, return.  The batch stays
\* where it is: its requests are never handled.
GiveUp ==
  /\ turn = "error"
  /\ Renew(data, FALSE)
  /\ status' = "kExpectMethod" /\ content' = 0
  /\ turn' = "wait"
  /\ conn' = "closing"
  /\ UNCHANGED <<buf, chunk, wire, pipeline, script, stream, requests, job, held,
                 returning, stopped, handed>>

\* A response posted by a handler, in the loop.
Respond(o) ==
  /\ LoopFree
  /\ job[o] = "posted"
  /\ job' = [job EXCEPT ![o] = "none"]
  /\ \/ /\ conn = "open"
        /\ Answer(o)
        /\ wire' = wire \o [i \in 1..Len(Popped(o)) |->
                              [kind |-> "response", value |-> data[Popped(o)[i].req].method]]
     \/ conn # "open" /\ UNCHANGED <<pipeline, wire>>
  /\ LET last == Unheld(Holders(request, requests, pipeline', job', held))
     IN  \/ conn # "closed" /\ pool' = pool \cup last /\ data' = Blanked(last)
         \/ /\ conn = "closed" /\ UNCHANGED pool
            /\ data' = [x \in Objects |-> IF x \in last THEN None ELSE data[x]]
  /\ UNCHANGED <<buf, status, content, chunk, request, turn, script, stream, requests,
                 held, returning, stopped, conn, handed>>

\* Mutant: the object returns as its last user left it.
ReturnDirty(o) ==
  /\ LoopFree
  /\ o \in returning
  /\ returning' = returning \ {o}
  /\ pool' = pool \cup {o}
  /\ UNCHANGED <<buf, status, content, chunk, request, data, turn, wire, pipeline, script,
                 stream, requests, job, held, stopped, conn, handed>>

\* The deleter's queued function: the object is blanked and returns to the pool.
Return(o) ==
  /\ LoopFree
  /\ o \in returning
  /\ returning' = returning \ {o}
  /\ pool' = pool \cup {o}
  /\ data' = Blanked({o})
  /\ UNCHANGED <<buf, status, content, chunk, request, turn, wire, pipeline, script,
                 stream, requests, job, held, stopped, conn, handed>>

\* The peer closes.
Disconnect ==
  /\ conn = "open" /\ LoopFree
  /\ conn' = "closing"
  /\ UNCHANGED <<parserVars, pipeline, script, stream, requests, job, held, returning,
                 stopped, handed>>

\* The disconnected callback clears the context; the parser dies with the last
\* queued function that holds it, and with it all it refers to.
ClearContext ==
  /\ conn = "closing" /\ LoopFree /\ returning = {}
  /\ conn' = "closed"
  /\ LET kept == {o \in Objects : job[o] # "none"} \cup held
     IN  data' = [o \in Objects |-> IF o \in kept THEN data[o] ELSE None]
  /\ pool' = {} /\ requests' = <<>> /\ pipeline' = <<>> /\ request' = None /\ buf' = <<>>
  /\ UNCHANGED <<status, content, chunk, turn, wire, script, stream, job, held, returning,
                 stopped, handed>>

-----------------------------------------------------------------------------
(* Other threads. *)

\* A handler calls its callback, which posts the response to the loop; it may
\* keep its reference to the request a while longer.
Finish(o) ==
  /\ job[o] = "working"
  /\ job' = [job EXCEPT ![o] = "posted"]
  /\ \/ held' = held \cup {o}
     \/ UNCHANGED held
  /\ UNCHANGED <<parserVars, pipeline, script, stream, requests, returning, stopped, conn,
                 handed>>

LetGo(o) ==
  /\ o \in held
  /\ held' = held \ {o}
  /\ LET last == o \in Unheld(Holders(request, requests, pipeline, job, held'))
     IN  \/ ~ last /\ UNCHANGED <<returning, data>>
         \/ last /\ conn # "closed" /\ returning' = returning \cup {o} /\ UNCHANGED data
         \/ last /\ conn = "closed" /\ data' = [data EXCEPT ![o] = None] /\ UNCHANGED returning
  /\ UNCHANGED <<buf, status, content, chunk, request, pool, turn, wire, pipeline, script,
                 stream, requests, job, stopped, conn, handed>>

Over == conn = "closed" /\ UNCHANGED vars

-----------------------------------------------------------------------------
Init ==
  /\ script \in Scripts
  /\ stream = FlattenSeq(Pieces(script))
  /\ buf = <<>> /\ status = "kExpectMethod" /\ content = 0 /\ chunk = 0
  /\ request = (CHOOSE o \in Objects : TRUE) /\ pool = {}
  /\ data = [o \in Objects |-> IF o = request THEN Blank ELSE None]
  /\ turn = "wait" /\ wire = <<>> /\ pipeline = <<>> /\ requests = <<>>
  /\ job = [o \in Objects |-> "none"] /\ held = {} /\ returning = {}
  /\ stopped = FALSE /\ conn = "open" /\ handed = <<>>

LoopStep ==
  \/ Parse \/ OneMore \/ HandOver \/ GiveUp
  \/ \E o \in Objects : Respond(o) \/ Return(o)

Next ==
  \/ \E n \in 1..Len(stream) : Receive(n)
  \/ LoopStep
  \/ \E o \in Objects : Finish(o) \/ LetGo(o)
  \/ Disconnect \/ ClearContext \/ Over

Spec == Init /\ [][Next]_vars

\* The loop runs what is posted to it, handlers answer, the client's bytes arrive.
LiveSpec ==
  /\ Spec
  /\ WF_vars(\E n \in 1..Len(stream) : Receive(n))
  /\ WF_vars(LoopStep)
  /\ \A o \in Objects : WF_vars(Respond(o)) /\ WF_vars(Finish(o))

-----------------------------------------------------------------------------
(* Properties. *)

\* The requests a client means: those before the first malformed message,
\* without the ones the server refuses with a status and goes on.
FirstFatal(s) == SelectInSeq(s, LAMBDA m : m.verdict = "fatal")
MeantBy(s) ==
  LET sound == IF FirstFatal(s) = 0 THEN s ELSE SubSeq(s, 1, FirstFatal(s) - 1)
      good  == SelectSeq(sound, LAMBDA m : m.verdict = "request")
  IN  [i \in 1..Len(good) |-> [id |-> good[i].id, body |-> good[i].body]]
Meant == MeantBy(script)

\* A client that says what it means: read a piece at a time, its messages come to what
\* they are to come to.
WellSpoken(s) ==
  /\ Plainly(Pieces(s))
  /\ LET said == Said(Pieces(s))[Len(Pieces(s))]
     IN  said.out = MeantBy(s) /\ (said.at = "refused" <=> FirstFatal(s) # 0)

\* The values of the responses among what has been sent.
ResponsesIn(sent) ==
  LET UpTo[n \in 0..Len(sent)] ==
        IF n = 0 THEN <<>>
        ELSE IF sent[n].kind = "response" THEN Append(UpTo[n - 1], sent[n].value)
        ELSE UpTo[n - 1]
  IN  UpTo[Len(sent)]

Responses == ResponsesIn(wire)

\* However the bytes are cut into deliveries, the requests handed over are the
\* messages the client sent, whole, in order, each with its own body; and no client is
\* refused but for a malformed message.
FramingExact == IsPrefix(handed, Meant) /\ (turn = "error" => FirstFatal(script) # 0)

\* ... and none is left in the buffer when the loop goes back to waiting.
NothingHeldBack ==
  LoopFree /\ stream = <<>> /\ conn = "open" /\ ~ stopped => handed = Meant /\ buf = <<>>

\* Responses leave in the order of the requests, each once, whatever the order
\* the handlers finish in and whichever objects the pool hands out again.
ResponsesInOrder ==
  IsPrefix(Responses, [i \in 1..Len(handed) |-> handed[i].id])

\* A request object is given out again only when nothing can reach it.
PoolUnreachable ==
  /\ (pool \cup returning) \cap Holders(request, requests, pipeline, job, held) = {}
  /\ \A o \in pool : data[o] = Blank

\* Every request handed over is answered, as long as the connection lasts.
AllAnswered == <>(conn # "open") \/ <>[](Len(Responses) = Len(handed))
=============================================================================
