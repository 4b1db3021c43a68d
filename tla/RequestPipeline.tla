-------------------------- MODULE RequestPipeline --------------------------
(***************************************************************************)
(* The pipelining queue of HttpRequestParser: requests wait in it in the   *)
(* order they came, responses arrive in any order, and the responses of a  *)
(* ready prefix leave together.                                            *)
(***************************************************************************)
EXTENDS Integers, Sequences, SequencesExt

VARIABLE pipeline     \* requestPipelining_: requests, and whether answered

Entry(r) == [req |-> r, ready |-> FALSE]

\* pushRequestToPipelining for each request of a batch
PushAll(batch) ==
  pipeline' = pipeline \o [i \in 1..Len(batch) |-> Entry(batch[i])]

\* pushResponseToPipelining: the first entry of the request; 0 if there is none
PositionOf(r) ==
  LET Matches(entry) == entry.req = r IN SelectInSeq(pipeline, Matches)

Answered(r) == [pipeline EXCEPT ![PositionOf(r)].ready = TRUE]

\* Mutant: an "if" in the place of the "while".
ReadyCountOne(line) == IF line # <<>> /\ line[1].ready THEN 1 ELSE 0

\* popReadyResponse: how many entries at the front of line are ready
ReadyCount(line) ==
  LET NotReady(entry) == ~ entry.ready
      i == SelectInSeq(line, NotReady)
  IN  IF i = 0 THEN Len(line) ELSE i - 1

\* Mutant: the response leaves at once, whatever its place in the queue.
PoppedAtOnce(r) == <<pipeline[PositionOf(r)]>>

\* pushResponseToPipelining tells whether the response is the first one; only
\* then does the caller take what popReadyResponse gives it.
Popped(r) ==
  IF PositionOf(r) = 1 THEN SubSeq(Answered(r), 1, ReadyCount(Answered(r))) ELSE <<>>

Answer(r) ==
  /\ PositionOf(r) > 0
  /\ pipeline' = SubSeq(Answered(r), Len(Popped(r)) + 1, Len(pipeline))
=============================================================================
