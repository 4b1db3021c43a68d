---------------------------- MODULE MCWebSocket ----------------------------
(* Clients of WebSocketConnection. *)
EXTENDS WebSocketConnection

Text(n)      == Frame("text", TRUE, <<n>>, FALSE)
Sized(n)     == Frame("binary", TRUE, <<n, n>>, TRUE)
First(n)     == Frame("text", FALSE, <<n>>, FALSE)
Middle(n)    == Frame("continuation", FALSE, <<n>>, FALSE)
Final(n)     == Frame("continuation", TRUE, <<n>>, FALSE)
PingFrame(n) == Frame("ping", TRUE, <<n>>, FALSE)
Close        == Frame("close", TRUE, <<>>, FALSE)

BadFrames ==
  { Frame("reserved", TRUE, <<9>>, FALSE), Frame("ping", FALSE, <<9>>, FALSE),
    Frame("pong", TRUE, <<9>>, TRUE), Frame("text", TRUE, <<9, 9, 9>>, FALSE) }

\* Control frames between messages only.
Orderly ==
  { <<First(1), Middle(1), Final(1), Text(2)>>, <<PingFrame(1), Sized(2), PingFrame(3)>>,
    <<Sized(1), First(2), Final(2), Close>> }
    \cup { <<Text(1), f>> : f \in BadFrames }

ASSUME OrderlyIsClean == \A s \in Orderly : Clean(s) /\ Spoken(s)

\* A message in two fragments, with a ping between them.
Interleaved == { <<First(1), PingFrame(2), Final(1)>> }

\* A message in two fragments, and nothing after it.
Fragmented == { <<First(1), Final(1)>> }
=============================================================================
