----------------------- MODULE HttpConnection_proofs -----------------------
(***************************************************************************)
(* Proofs for any clients, any number of objects and any handlers, that a  *)
(* request object goes back to the pool of its parser only when nothing    *)
(* can reach it, which the shared pointers of the source are relied on     *)
(* for, that responses leave in the order of their requests, and that the  *)
(* requests handed over are those the client means however its bytes are   *)
(* cut into deliveries: before a step the parser stands behind a whole     *)
(* number of the pieces the client says, or within a body.                 *)
(***************************************************************************)
EXTENDS HttpConnection, SequenceInduction, SequenceTheorems, TLAPS

-----------------------------------------------------------------------------
(* The pipelining queue: answering a request brings no object into it. *)

Entries == [req : Objects, ready : BOOLEAN]
InLine(line) == {line[i].req : i \in DOMAIN line}

LEMMA ReadyCountType ==
  ASSUME NEW line \in Seq(Entries)
  PROVE  ReadyCount(line) \in 0..Len(line)
<1> DEFINE I == {i \in 1..Len(line) : ~ line[i].ready}
<1>1. ReadyCount(line) = LET i == IF I # {} THEN Min(I) ELSE 0
                         IN  IF i = 0 THEN Len(line) ELSE i - 1
  BY DEF ReadyCount, SelectInSeq
<1>2. Len(line) \in Nat
  OBVIOUS
<1>3. CASE I = {}
  BY <1>1, <1>2, <1>3
<1>4. CASE I # {}
  <2>1. \E m \in I : \A n \in I : m <= n
    <3>1. I \subseteq Nat
      BY <1>2
    <3> QED BY <1>4, <3>1, LeastNumber
  <2>2. Min(I) \in I
    BY <2>1 DEF Min
  <2> QED BY <1>1, <1>2, <1>4, <2>2
<1> QED BY <1>3, <1>4

LEMMA AnsweredType ==
  ASSUME pipeline \in Seq(Entries), NEW r
  PROVE  /\ Answered(r) \in Seq(Entries)
         /\ Len(Answered(r)) = Len(pipeline)
         /\ \A i \in 1..Len(pipeline) : Answered(r)[i].req = pipeline[i].req
<1> DEFINE p == PositionOf(r)
<1>1. Answered(r) = [pipeline EXCEPT ![p].ready = TRUE]
  BY DEF Answered
<1> HIDE DEF p
<1>2. Len(pipeline) \in Nat /\ pipeline \in [1..Len(pipeline) -> Entries]
  OBVIOUS
<1>3. /\ Answered(r) \in [1..Len(pipeline) -> Entries]
      /\ \A i \in 1..Len(pipeline) : Answered(r)[i].req = pipeline[i].req
  BY <1>1, <1>2 DEF Entries
<1> QED BY <1>2, <1>3

LEMMA AnswerShrinks ==
  ASSUME pipeline \in Seq(Entries), NEW r, Answer(r)
  PROVE  pipeline' \in Seq(Entries) /\ InLine(pipeline') \subseteq InLine(pipeline)
<1> DEFINE line == Answered(r)
           k == Len(Popped(r))
           n == Len(pipeline)
<1>1. /\ line \in Seq(Entries) /\ Len(line) = n /\ n \in Nat
      /\ \A i \in 1..n : line[i] \in Entries /\ line[i].req = pipeline[i].req
  BY AnsweredType
<1>2. k \in Nat
  <2>1. Popped(r) = IF PositionOf(r) = 1 THEN SubSeq(line, 1, ReadyCount(line)) ELSE << >>
    BY DEF Popped
  <2>2. ReadyCount(line) \in 0..n
    BY <1>1, ReadyCountType
  <2>3. SubSeq(line, 1, ReadyCount(line)) \in Seq(Entries)
    BY <1>1, <2>2, SubSeqProperties
  <2> QED BY <2>1, <2>3
<1>3. pipeline' = SubSeq(line, k + 1, n)
  BY DEF Answer
<1> HIDE DEF line, k, n
<1>4. /\ pipeline' \in Seq(Entries)
      /\ Len(pipeline') = IF k + 1 <= n THEN n - (k + 1) + 1 ELSE 0
      /\ \A i \in 1..(n - (k + 1) + 1) : pipeline'[i] = line[k + 1 + i - 1]
  <2>1. \A i \in (k + 1)..n : line[i] \in Entries
    BY <1>1, <1>2
  <2> QED BY <1>1, <1>2, <1>3, <2>1, SubSeqProperties
<1>5. ASSUME NEW i \in DOMAIN pipeline' PROVE pipeline'[i].req \in InLine(pipeline)
  <2>1. i \in 1..(n - k) /\ pipeline'[i] = line[k + i] /\ k + i \in 1..n
    <3>1. i \in 1..Len(pipeline')
      BY <1>4
    <3>2. i \in Nat /\ i >= 1 /\ i <= n - k /\ n - (k + 1) + 1 = n - k
      BY <1>1, <1>2, <1>4, <3>1
    <3>3. k + 1 + i - 1 = k + i /\ i \in 1..(n - (k + 1) + 1)
      BY <1>1, <1>2, <3>2
    <3>4. pipeline'[i] = line[k + 1 + i - 1]
      BY <1>4, <3>3
    <3> QED BY <1>1, <1>2, <3>2, <3>3, <3>4
  <2>2. DOMAIN pipeline = 1..n
    BY DEF n
  <2> QED BY <1>1, <2>1, <2>2 DEF InLine
<1> QED BY <1>4, <1>5 DEF InLine

-----------------------------------------------------------------------------
(* The invariant. *)

\* An object that is allocated holds a request: a record, which None is not.
IsRequest(r) == "method" \in DOMAIN r

\* Everything but request_ that holds a reference
Others(batch, line, jobs, threads) ==
  ToSet(batch) \cup InLine(line) \cup {o \in Objects : jobs[o] # "none"} \cup threads

Referenced == Others(requests, pipeline, job, held)

Typed ==
  /\ DOMAIN data = Objects
  /\ job \in [Objects -> {"none", "working", "posted"}]
  /\ requests \in Seq(Objects)
  /\ pipeline \in Seq(Entries)
  /\ pool \subseteq Objects /\ returning \subseteq Objects /\ held \subseteq Objects

\* While the context of the connection is there, it has a request of its own.
ContextAlive ==
  /\ conn # "closed" => request \in Objects /\ request \notin Referenced
  /\ conn = "closed" => request = None /\ pool = {} /\ returning = {} /\ turn = "wait"

\* What can be given out again, now or soon, is referred to by nothing.
Spare == pool \cup returning
SpareApart ==
  /\ pool \cap returning = {}
  /\ Spare \cap (Referenced \cup {request}) = {}

Allocated ==
  /\ \A o \in pool : data[o] = Blank
  /\ \A o \in Objects \cap (Spare \cup Referenced \cup {request}) : IsRequest(data[o])

IInv == Typed /\ ContextAlive /\ SpareApart /\ Allocated

NoneIsNoRequest == ~ IsRequest(None)

LEMMA BlankIsRequest == IsRequest(Blank)
BY DEF IsRequest, Blank

LEMMA HoldersAre ==
  ASSUME NEW current, NEW batch, NEW line, NEW jobs, NEW threads
  PROVE  Holders(current, batch, line, jobs, threads)
           = {current} \cup Others(batch, line, jobs, threads)
BY DEF Holders, Others, InLine

LEMMA ReferencedAreObjects ==
  ASSUME Typed
  PROVE  Referenced \subseteq Objects
<1>1. ToSet(requests) \subseteq Objects
  BY DEF Typed, ToSet
<1>2. InLine(pipeline) \subseteq Objects
  <2>1. \A i \in DOMAIN pipeline : pipeline[i] \in Entries
    BY DEF Typed
  <2>2. \A e \in Entries : e.req \in Objects
    BY DEF Entries
  <2> QED BY <2>1, <2>2 DEF InLine
<1> QED BY <1>1, <1>2 DEF Typed, Referenced, Others

LEMMA InvariantImplies == IInv => PoolUnreachable
BY HoldersAre DEF IInv, SpareApart, Spare, Allocated, PoolUnreachable, Referenced

LEMMA InitEstablishes ==
  ASSUME Objects # {}
  PROVE  Init => IInv
<1> SUFFICES ASSUME Init PROVE IInv
  OBVIOUS
<1>1. request \in Objects
  BY DEF Init
<1>2. Typed
  <2>1. requests \in Seq(Objects) /\ pipeline \in Seq(Entries)
    BY EmptySeq DEF Init
  <2> QED BY <2>1 DEF Init, Typed
<1>3. Referenced = {}
  BY DEF Init, Referenced, Others, ToSet, InLine
<1> QED BY <1>1, <1>2, <1>3, BlankIsRequest
        DEF Init, IInv, ContextAlive, SpareApart, Spare, Allocated

-----------------------------------------------------------------------------
(* The steps of the parser. *)

\* What parseRequest does to the request it fills
Fills ==
  /\ UNCHANGED <<request, pool>>
  /\ \E r : /\ IsRequest(data[request]) => IsRequest(r)
            /\ data' = [data EXCEPT ![request] = r]

LEMMA FieldsKept ==
  ASSUME NEW r, NEW f, NEW v
  PROVE  IsRequest(r) => IsRequest([r EXCEPT ![f] = v])
BY DEF IsRequest

LEMMA SetFills ==
  ASSUME NEW f, NEW v, Set(f, v), UNCHANGED <<request, pool>>
  PROVE  Fills
<1> DEFINE r == [data[request] EXCEPT ![f] = v]
<1>1. data' = [data EXCEPT ![request] = r]
  BY DEF Set
<1>2. IsRequest(data[request]) => IsRequest(r)
  BY FieldsKept
<1> QED BY <1>1, <1>2 DEF Fills

LEMMA ParserEffect ==
  ASSUME ParseStep
  PROVE  UNCHANGED <<request, pool, data>> \/ Fills \/ Renew(data, FALSE)
<1>1. CASE ParseMethod
  BY <1>1, SetFills DEF ParseMethod, Refuse, NeedMore
<1>2. CASE ParseRequestLine
  BY <1>2, SetFills DEF ParseRequestLine, Refuse, NeedMore
<1>3. CASE AddHeader
  <2>1. ASSUME NEW r, NEW t PROVE IsRequest(r) => IsRequest(WithHeader(r, t))
    BY FieldsKept DEF WithHeader
  <2>2. CASE data' = [data EXCEPT ![request] = WithHeader(@, buf[HeaderLine])]
    BY <1>3, <2>1, <2>2 DEF AddHeader, Fills
  <2> QED BY <1>3, <2>2 DEF AddHeader, Refuse, NeedMore
<1>4. CASE EndHeaders
  BY <1>4 DEF EndHeaders, Refuse
<1>5. CASE ParseBody
  BY <1>5, SetFills DEF ParseBody
<1>6. CASE ParseChunkLen
  BY <1>6 DEF ParseChunkLen, Refuse, NeedMore
<1>7. CASE ParseChunkBody
  BY <1>7, SetFills DEF ParseChunkBody, Refuse, NeedMore
<1>8. CASE ParseLastChunk
  <2>1. CASE data' = [data EXCEPT ![request].length = data[request].body,
                                  ![request].coding = None]
    <3> DEFINE r == [data[request] EXCEPT !.length = data[request].body, !.coding = None]
    <3>1. IsRequest(data[request]) => IsRequest(r)
      BY DEF IsRequest
    <3>2. data' = [data EXCEPT ![request] = r]
      BY <2>1
    <3> QED BY <1>8, <3>1, <3>2 DEF ParseLastChunk, Fills
  <2> QED BY <1>8, <2>1 DEF ParseLastChunk, Refuse, NeedMore
<1> QED BY <1>1, <1>2, <1>3, <1>4, <1>5, <1>6, <1>7, <1>8 DEF ParseStep

LEMMA FillsKeep ==
  ASSUME IInv, conn # "closed", Fills,
         UNCHANGED <<requests, pipeline, job, held, returning, conn>>
  PROVE  IInv'
<1>1. PICK r : /\ IsRequest(data[request]) => IsRequest(r)
               /\ data' = [data EXCEPT ![request] = r]
  BY DEF Fills
<1>2. /\ UNCHANGED <<request, pool>> /\ Referenced' = Referenced /\ Spare' = Spare
      /\ Referenced \subseteq Objects
  BY ReferencedAreObjects DEF Fills, Referenced, Spare, IInv
<1>3. request \in Objects /\ request \notin pool
  BY DEF IInv, ContextAlive, SpareApart, Spare
<1>4. /\ data'[request] = r /\ DOMAIN data' = Objects
      /\ \A o \in Objects : o # request => data'[o] = data[o]
  BY <1>1, <1>3 DEF IInv, Typed
<1>5. Typed'
  BY <1>2, <1>4 DEF IInv, Typed
<1>6. ContextAlive' /\ SpareApart'
  BY <1>2 DEF IInv, ContextAlive, SpareApart, Spare
<1>7. Allocated'
  BY <1>1, <1>2, <1>3, <1>4 DEF IInv, Typed, Allocated
<1> QED BY <1>5, <1>6, <1>7 DEF IInv

\* reset() takes an object that nothing refers to, and gives back the one it had, unless
\* that has been put into the batch.
LEMMA RenewKeeps ==
  ASSUME NoneIsNoRequest, IInv, conn # "closed", conn' # "closed",
         NEW kept \in BOOLEAN, Renew(data, kept),
         UNCHANGED <<pipeline, job, held, returning>>,
         requests' \in Seq(Objects),
         ToSet(requests') \subseteq
           ToSet(requests) \cup (IF kept THEN {request} ELSE {})
  PROVE  IInv'
<1> DEFINE spare == IF pool = {} THEN {x \in Objects : data[x] = None} ELSE pool
           o == CHOOSE x \in spare : TRUE
<1>1. /\ spare # {} /\ o \in spare
      /\ request' = o
      /\ pool' = (pool \ {o}) \cup (IF kept THEN {} ELSE {request})
      /\ data' = [x \in Objects |-> IF x = o \/ (x = request /\ ~ kept) THEN Blank ELSE data[x]]
  BY DEF Renew
<1>2. /\ request \in Objects /\ request \notin Referenced
      /\ request \notin pool /\ request \notin returning
      /\ pool \subseteq Objects /\ returning \subseteq Objects
      /\ Referenced \subseteq Objects
  BY ReferencedAreObjects DEF IInv, Typed, ContextAlive, SpareApart, Spare
<1>3. /\ o \in Objects /\ o # request
      /\ o \notin Referenced /\ o \notin returning
  <2>1. CASE pool # {}
    BY <1>1, <1>2, <2>1 DEF IInv, SpareApart, Spare
  <2>2. CASE pool = {}
    <3>1. o \in Objects /\ data[o] = None
      BY <1>1, <2>2
    <3> QED BY <3>1, <1>2 DEF IInv, Allocated, Spare, NoneIsNoRequest
  <2> QED BY <2>1, <2>2
<1> HIDE DEF o, spare
<1>4. Referenced' \subseteq Referenced \cup (IF kept THEN {request} ELSE {})
  BY DEF Referenced, Others, InLine
<1>5. Typed'
  BY <1>1, <1>2 DEF IInv, Typed
<1>6. ContextAlive'
  BY <1>1, <1>3, <1>4 DEF ContextAlive
<1>7. SpareApart'
  BY <1>1, <1>2, <1>3, <1>4 DEF IInv, SpareApart, Spare
<1>8. Allocated'
  <2>1. \A x \in pool' : data'[x] = Blank
    BY <1>1, <1>2, <1>3 DEF IInv, Allocated
  <2>2. ASSUME NEW x \in Objects \cap (Spare' \cup Referenced' \cup {request'})
        PROVE  IsRequest(data'[x])
    <3>1. CASE x = o \/ (x = request /\ ~ kept)
      BY <1>1, <3>1, BlankIsRequest
    <3>2. CASE x # o /\ (x # request \/ kept)
      <4>1. data'[x] = data[x]
        BY <1>1, <3>2
      <4>2. x \in Spare \cup Referenced \cup {request}
        BY <1>1, <1>4, <2>2, <3>2 DEF Spare
      <4> QED BY <4>1, <4>2 DEF IInv, Allocated
    <3> QED BY <3>1, <3>2
  <2> QED BY <2>1, <2>2 DEF Allocated
<1> QED BY <1>5, <1>6, <1>7, <1>8 DEF IInv

LEMMA ParseKeeps ==
  ASSUME NoneIsNoRequest, IInv, Parse
  PROVE  IInv'
<1>1. ParseStep /\ UNCHANGED <<requests, pipeline, job, held, returning, conn>>
  BY DEF Parse, connVars
<1>2. turn = "parse"
  BY <1>1 DEF ParseStep, ParseMethod, ParseRequestLine, AddHeader, EndHeaders, ParseBody,
     ParseChunkLen, ParseChunkBody, ParseLastChunk, In
<1>3. conn # "closed"
  BY <1>2 DEF IInv, ContextAlive
<1>4. CASE UNCHANGED <<request, pool, data>>
  BY <1>1, <1>3, <1>4 DEF IInv, Typed, ContextAlive, SpareApart, Spare, Allocated, Referenced
<1>5. CASE Fills
  BY <1>1, <1>3, <1>5, FillsKeep
<1>6. CASE Renew(data, FALSE)
  BY <1>1, <1>3, <1>6, RenewKeeps DEF IInv, Typed
<1> QED BY <1>1, <1>4, <1>5, <1>6, ParserEffect

-----------------------------------------------------------------------------
(* The other steps. *)

\* A step that only moves objects from one user to another, or drops some.
LEMMA DropKeeps ==
  ASSUME IInv, UNCHANGED <<data, pool, returning, request>>,
         conn' = conn, turn' = turn \/ conn # "closed",
         Typed', Referenced' \subseteq Referenced
  PROVE  IInv'
<1>1. ContextAlive'
  BY DEF IInv, ContextAlive
<1>2. SpareApart' /\ Allocated'
  BY DEF IInv, SpareApart, Spare, Allocated
<1> QED BY <1>1, <1>2 DEF IInv

LEMMA BatchSteps ==
  ASSUME NoneIsNoRequest, IInv, OneMore \/ GiveUp
  PROVE  IInv'
<1>1. conn # "closed" /\ request \in Objects /\ requests \in Seq(Objects)
  BY DEF OneMore, GiveUp, IInv, ContextAlive, Typed
<1>2. CASE OneMore
  <2>1. /\ requests' = Append(requests, request) /\ Renew(data, TRUE)
        /\ UNCHANGED <<pipeline, job, held, returning, conn>>
    BY <1>2 DEF OneMore
  <2>2. requests' \in Seq(Objects) /\ ToSet(requests') \subseteq ToSet(requests) \cup {request}
    <3>1. /\ requests' \in Seq(Objects) /\ Len(requests') = Len(requests) + 1
          /\ Len(requests) \in Nat
          /\ \A i \in 1..Len(requests) : requests'[i] = requests[i]
          /\ requests'[Len(requests) + 1] = request
      BY <1>1, <2>1, AppendProperties
    <3>2. \A i \in 1..Len(requests') : i \in 1..Len(requests) \/ i = Len(requests) + 1
      BY <3>1
    <3>3. DOMAIN requests' = 1..Len(requests') /\ DOMAIN requests = 1..Len(requests)
      BY <1>1, <3>1
    <3> QED BY <3>1, <3>2, <3>3 DEF ToSet
  <2> QED BY <1>1, <2>1, <2>2, RenewKeeps
<1>3. CASE GiveUp
  <2>1. /\ Renew(data, FALSE) /\ conn' # "closed"
        /\ UNCHANGED <<requests, pipeline, job, held, returning>>
    BY <1>3 DEF GiveUp
  <2> QED BY <1>1, <2>1, RenewKeeps
<1> QED BY <1>2, <1>3

\* The batch goes into the queue and to the handlers.
LEMMA HandOverKeeps ==
  ASSUME IInv, HandOver
  PROVE  IInv'
<1>1. /\ pipeline' = pipeline \o [i \in 1..Len(requests) |-> Entry(requests[i])]
      /\ job' = [o \in Objects |-> IF o \in ToSet(requests) THEN "working" ELSE job[o]]
      /\ requests' = << >>
      /\ turn = "more"
      /\ UNCHANGED <<data, pool, returning, request, held, conn>>
  BY DEF HandOver, PushAll
<1>2. requests \in Seq(Objects) /\ pipeline \in Seq(Entries) /\ Len(requests) \in Nat
      /\ DOMAIN requests = 1..Len(requests)
  BY DEF IInv, Typed
<1> DEFINE batch == [i \in 1..Len(requests) |-> Entry(requests[i])]
<1>3. /\ batch \in Seq(Entries) /\ Len(batch) = Len(requests)
      /\ \A i \in 1..Len(requests) : batch[i].req = requests[i]
  <2>1. \A i \in 1..Len(requests) : batch[i] \in Entries /\ batch[i].req = requests[i]
    BY <1>2 DEF Entry, Entries
  <2>2. batch \in [1..Len(requests) -> Entries]
    BY <2>1
  <2>3. batch \in Seq(Entries) /\ Len(batch) = Len(requests)
    BY <1>2, <2>2
  <2> QED BY <2>1, <2>3
<1> HIDE DEF batch
<1>4. /\ pipeline' \in Seq(Entries)
      /\ Len(pipeline') = Len(pipeline) + Len(requests)
      /\ \A i \in 1..(Len(pipeline) + Len(requests)) :
           pipeline'[i] = IF i <= Len(pipeline) THEN pipeline[i] ELSE batch[i - Len(pipeline)]
  BY <1>1, <1>2, <1>3, ConcatProperties DEF batch
<1>5. InLine(pipeline') \subseteq InLine(pipeline) \cup ToSet(requests)
  <2> SUFFICES ASSUME NEW i \in DOMAIN pipeline'
               PROVE  pipeline'[i].req \in InLine(pipeline) \cup ToSet(requests)
    BY DEF InLine
  <2>1. i \in 1..(Len(pipeline) + Len(requests)) /\ Len(pipeline) \in Nat
        /\ DOMAIN pipeline = 1..Len(pipeline)
    BY <1>2, <1>4
  <2>2. CASE i <= Len(pipeline)
    <3>1. i \in DOMAIN pipeline /\ pipeline'[i] = pipeline[i]
      BY <1>4, <2>1, <2>2
    <3> QED BY <3>1 DEF InLine
  <2>3. CASE ~ (i <= Len(pipeline))
    <3>1. i - Len(pipeline) \in 1..Len(requests)
      BY <1>2, <2>1, <2>3
    <3>2. pipeline'[i].req = requests[i - Len(pipeline)]
      BY <1>3, <1>4, <2>1, <2>3, <3>1
    <3> QED BY <1>2, <3>1, <3>2 DEF ToSet
  <2> QED BY <2>2, <2>3
<1>6. Typed'
  BY <1>1, <1>4, EmptySeq DEF IInv, Typed
<1>7. ToSet(requests') = {}
  BY <1>1 DEF ToSet
<1>8. Referenced' \subseteq Referenced
  BY <1>1, <1>5, <1>7 DEF Referenced, Others
<1>9. conn # "closed"
  BY <1>1 DEF IInv, ContextAlive
<1> QED BY <1>1, <1>6, <1>8, <1>9, DropKeeps

\* The objects whose last reference goes with a response go back to the pool, blanked, or
\* are deleted when the context is gone.
LEMMA RespondKeeps ==
  ASSUME IInv, NEW o \in Objects, Respond(o)
  PROVE  IInv'
<1>1. /\ job' = [job EXCEPT ![o] = "none"]
      /\ Answer(o) \/ UNCHANGED pipeline
      /\ UNCHANGED <<request, turn, requests, held, returning, conn>>
  BY DEF Respond
<1>2. pipeline' \in Seq(Entries) /\ InLine(pipeline') \subseteq InLine(pipeline)
  BY <1>1, AnswerShrinks DEF IInv, Typed
<1>3. Referenced' \subseteq Referenced
  BY <1>1, <1>2 DEF Referenced, Others, IInv, Typed
<1> DEFINE last == Unheld(Holders(request, requests, pipeline', job', held))
<1>4. last = {x \in Objects : data[x] # None} \ ({request} \cup Referenced' \cup Spare)
  BY <1>1, HoldersAre DEF Unheld, Referenced, Spare
<1> HIDE DEF last
<1>5. ContextAlive /\ SpareApart /\ Allocated /\ Typed
  BY DEF IInv
<1>6. CASE conn # "closed" /\ pool' = pool \cup last /\ data' = Blanked(last)
  <2>1. \A x \in Objects : data'[x] = IF x \in last THEN Blank ELSE data[x]
    BY <1>6 DEF Blanked
  <2>2. Typed'
    BY <1>1, <1>2, <1>4, <1>5, <1>6 DEF Typed, Blanked
  <2>3. ContextAlive'
    BY <1>1, <1>3, <1>5, <1>6 DEF ContextAlive
  <2>4. SpareApart'
    BY <1>1, <1>3, <1>4, <1>5, <1>6 DEF SpareApart, Spare
  <2>5. Allocated'
    <3>1. \A x \in pool' : data'[x] = Blank
      BY <1>4, <1>5, <1>6, <2>1 DEF Allocated, Typed
    <3>2. \A x \in Objects \cap (Spare' \cup Referenced' \cup {request'}) : IsRequest(data'[x])
      BY <1>1, <1>3, <1>5, <1>6, <2>1, BlankIsRequest DEF Allocated, Spare
    <3> QED BY <3>1, <3>2 DEF Allocated
  <2> QED BY <2>2, <2>3, <2>4, <2>5 DEF IInv
<1>7. CASE /\ conn = "closed" /\ UNCHANGED pool
           /\ data' = [x \in Objects |-> IF x \in last THEN None ELSE data[x]]
  <2>1. Typed'
    BY <1>1, <1>2, <1>5, <1>7 DEF Typed
  <2>2. ContextAlive' /\ SpareApart'
    BY <1>1, <1>3, <1>5, <1>7 DEF ContextAlive, SpareApart, Spare
  <2>3. Allocated'
    BY <1>1, <1>3, <1>4, <1>5, <1>7 DEF Allocated, Spare, ContextAlive
  <2> QED BY <2>1, <2>2, <2>3 DEF IInv
<1> QED BY <1>6, <1>7 DEF Respond, last

LEMMA ReturnKeeps ==
  ASSUME IInv, NEW o \in Objects, Return(o)
  PROVE  IInv'
<1>1. /\ o \in returning /\ returning' = returning \ {o} /\ pool' = pool \cup {o}
      /\ data' = Blanked({o})
      /\ UNCHANGED <<request, turn, pipeline, requests, job, held, conn>>
  BY DEF Return
<1>2. Referenced' = Referenced /\ Spare' = Spare
  BY <1>1 DEF Referenced, Spare
<1>3. \A x \in Objects : data'[x] = IF x = o THEN Blank ELSE data[x]
  BY <1>1 DEF Blanked
<1>4. Typed'
  BY <1>1 DEF IInv, Typed, Blanked
<1>5. ContextAlive' /\ SpareApart'
  BY <1>1, <1>2 DEF IInv, ContextAlive, SpareApart
<1>6. Allocated'
  BY <1>1, <1>2, <1>3, BlankIsRequest DEF IInv, Allocated, Typed
<1> QED BY <1>4, <1>5, <1>6 DEF IInv

\* The parser dies with all it refers to; what other threads hold stays.
LEMMA ClearContextKeeps ==
  ASSUME IInv, ClearContext
  PROVE  IInv'
<1> DEFINE kept == {o \in Objects : job[o] # "none"} \cup held
<1>1. /\ conn' = "closed" /\ returning' = {} /\ turn' = "wait"
      /\ data' = [o \in Objects |-> IF o \in kept THEN data[o] ELSE None]
      /\ pool' = {} /\ requests' = << >> /\ pipeline' = << >> /\ request' = None
      /\ UNCHANGED <<job, held>>
  BY DEF ClearContext, LoopFree
<1>2. Typed'
  BY <1>1, EmptySeq DEF IInv, Typed
<1>3. Referenced' = kept
  <2>1. ToSet(requests') = {} /\ InLine(pipeline') = {}
    BY <1>1 DEF ToSet, InLine
  <2> QED BY <1>1, <2>1 DEF Referenced, Others
<1>4. ContextAlive' /\ SpareApart'
  BY <1>1 DEF ContextAlive, SpareApart, Spare
<1>5. Allocated'
  BY <1>1, <1>3, BoundAssumption DEF IInv, Allocated, Spare, Referenced, Others
<1> QED BY <1>2, <1>4, <1>5 DEF IInv

LEMMA FinishKeeps ==
  ASSUME IInv, NEW o \in Objects, Finish(o)
  PROVE  IInv'
<1>1. /\ job[o] = "working" /\ job' = [job EXCEPT ![o] = "posted"]
      /\ held' = held \cup {o} \/ UNCHANGED held
      /\ UNCHANGED <<data, pool, returning, request, turn, pipeline, requests, conn>>
  BY DEF Finish, parserVars
<1>2. Typed' /\ Referenced' \subseteq Referenced
  BY <1>1 DEF IInv, Typed, Referenced, Others
<1> QED BY <1>1, <1>2, DropKeeps

LEMMA LetGoKeeps ==
  ASSUME IInv, NEW o \in Objects, LetGo(o)
  PROVE  IInv'
<1> DEFINE last == o \in Unheld(Holders(request, requests, pipeline, job, held'))
<1>1. /\ o \in held /\ held' = held \ {o}
      /\ UNCHANGED <<pool, request, turn, pipeline, requests, job, conn>>
  BY DEF LetGo
<1>2. Referenced' \subseteq Referenced /\ o \in Referenced
  BY <1>1 DEF Referenced, Others
<1>3. last => o \notin {request} \cup Referenced' \cup Spare
  BY <1>1, HoldersAre DEF Unheld, Referenced, Spare
<1> HIDE DEF last
<1>4. ContextAlive /\ SpareApart /\ Allocated /\ Typed
  BY DEF IInv
<1>5. CASE UNCHANGED <<returning, data>>
  <2>1. Typed'
    BY <1>1, <1>4, <1>5 DEF Typed
  <2> QED BY <1>1, <1>2, <1>5, <2>1, DropKeeps
<1>6. CASE last /\ conn # "closed" /\ returning' = returning \cup {o} /\ UNCHANGED data
  <2>1. Typed' /\ ContextAlive'
    BY <1>1, <1>2, <1>4, <1>6 DEF Typed, ContextAlive
  <2>2. SpareApart'
    BY <1>1, <1>2, <1>3, <1>4, <1>6 DEF SpareApart, Spare
  <2>3. Allocated'
    BY <1>1, <1>2, <1>4, <1>6 DEF Allocated, Spare
  <2> QED BY <2>1, <2>2, <2>3 DEF IInv
<1>7. CASE last /\ conn = "closed" /\ data' = [data EXCEPT ![o] = None] /\ UNCHANGED returning
  <2>1. Typed' /\ ContextAlive'
    BY <1>1, <1>2, <1>4, <1>7 DEF Typed, ContextAlive
  <2>2. SpareApart'
    BY <1>1, <1>2, <1>4, <1>7 DEF SpareApart, Spare
  <2>3. Allocated'
    BY <1>1, <1>2, <1>3, <1>4, <1>7 DEF Allocated, Spare, ContextAlive, Typed
  <2> QED BY <2>1, <2>2, <2>3 DEF IInv
<1> QED BY <1>5, <1>6, <1>7 DEF LetGo, last

LEMMA StepKeeps ==
  ASSUME NoneIsNoRequest
  PROVE  IInv /\ [Next]_vars => IInv'
<1> SUFFICES ASSUME IInv, [Next]_vars PROVE IInv'
  OBVIOUS
<1>1. ASSUME UNCHANGED <<data, pool, returning, request, requests, pipeline, job, held>>,
             (conn' # "closed" /\ conn # "closed") \/ UNCHANGED <<conn, turn>>
      PROVE  IInv'
  BY <1>1 DEF IInv, Typed, ContextAlive, SpareApart, Spare, Allocated, Referenced
<1>2. CASE UNCHANGED vars \/ Over
  BY <1>1, <1>2 DEF Over, vars, parserVars, connVars
<1>3. ASSUME NEW n \in 1..Len(stream), Receive(n) PROVE IInv'
  BY <1>1, <1>3 DEF Receive
<1>4. CASE Disconnect
  BY <1>1, <1>4 DEF Disconnect, parserVars
<1>5. CASE LoopStep
  BY <1>5, ParseKeeps, BatchSteps, HandOverKeeps, RespondKeeps, ReturnKeeps DEF LoopStep
<1> QED BY <1>2, <1>3, <1>4, <1>5, ClearContextKeeps, FinishKeeps, LetGoKeeps DEF Next

\* However deliveries, responses, other threads' references and the end of the connection
\* interleave, a request object in the pool, or on its way to it, is referred to by
\* nothing, and one in the pool holds nothing of the request it was
\* (HttpRequestParser::makeRequestForPool and its deleter).
THEOREM PoolIsUnreachable ==
  ASSUME Objects # {}, NoneIsNoRequest
  PROVE  Spec => []PoolUnreachable
<1>1. Init => IInv
  BY InitEstablishes
<1>2. IInv /\ [Next]_vars => IInv'
  BY StepKeeps
<1>3. IInv => PoolUnreachable
  BY InvariantImplies
<1> QED BY <1>1, <1>2, <1>3, PTL DEF Spec
-----------------------------------------------------------------------------
(* What has been sent, read from its start. *)

Longer(values, item) == IF item.kind = "response" THEN Append(values, item.value) ELSE values

\* Of each start of what has been sent, the responses in it
Reads(U, sent) ==
  /\ U[0] = << >>
  /\ \A n \in 1..Len(sent) : U[n] = Longer(U[n - 1], sent[n])

LEMMA ResponsesRead ==
  ASSUME NEW sent, IsSeq(sent)
  PROVE  \E U : /\ Reads(U, sent)
                /\ ResponsesIn(sent) = U[Len(sent)]
                /\ \A n \in 0..Len(sent) : IsSeq(U[n])
<1> DEFINE N == Len(sent)
           V == {sent[i].value : i \in 1..N}
           step == [n \in 1..N |-> [s \in Seq(V) |-> Longer(s, sent[n])]]
<1>1. N \in Nat /\ sent \in [1..N -> Elements(sent)]
  BY DEF IsSeq
<1>2. step \in [1..N -> [Seq(V) -> Seq(V)]]
  <2>1. \A n \in 1..N, s \in Seq(V) : Longer(s, sent[n]) \in Seq(V)
    BY DEF Longer
  <2> QED BY <2>1
<1>3. << >> \in Seq(V)
  OBVIOUS
<1> HIDE DEF N, V
<1>4. PICK f : Iterates(f, N, Seq(V), << >>, step)
  <2> HIDE DEF step
  <2> QED BY <1>1, <1>2, <1>3, RecursionExists
<1>5. \A n \in 1..N : f[n] = Longer(f[n - 1], sent[n])
  <2> SUFFICES ASSUME NEW n \in 1..N PROVE f[n] = Longer(f[n - 1], sent[n])
    OBVIOUS
  <2>1. n - 1 \in 0..N /\ f[n - 1] \in Seq(V)
    BY <1>1, <1>4 DEF Iterates
  <2> QED BY <1>4, <2>1 DEF Iterates
<1> HIDE DEF step
<1> DEFINE Next1(g) == [n \in 0..N |-> IF n = 0 THEN << >>
                         ELSE IF sent[n].kind = "response" THEN Append(g[n - 1], sent[n].value)
                         ELSE g[n - 1]]
<1>6. f = Next1(f)
  <2> SUFFICES ASSUME NEW n \in 0..N PROVE f[n] = Next1(f)[n]
    BY <1>4 DEF Iterates
  <2>1. CASE n = 0
    BY <1>4, <2>1 DEF Iterates
  <2>2. CASE n # 0
    <3>1. n \in 1..N
      BY <1>1, <2>2
    <3> QED BY <1>5, <2>2, <3>1 DEF Longer
  <2> QED BY <2>1, <2>2
<1> DEFINE U == CHOOSE g : g = Next1(g)
<1>7. U = Next1(U) /\ ResponsesIn(sent) = U[N]
  <2>1. U = Next1(U)
    BY <1>6
  <2>2. ResponsesIn(sent) = U[N]
    BY DEF ResponsesIn, N
  <2> QED BY <2>1, <2>2
<1> HIDE DEF U
<1>8. DOMAIN U = 0..N /\ U[0] = << >> /\ \A n \in 1..N : U[n] = Longer(U[n - 1], sent[n])
  <2>1. DOMAIN U = 0..N /\ \A n \in 0..N : U[n] = Next1(U)[n]
    BY <1>7
  <2>2. U[0] = << >>
    BY <1>1, <2>1
  <2>3. ASSUME NEW n \in 1..N PROVE U[n] = Longer(U[n - 1], sent[n])
    <3>1. n \in 0..N /\ n # 0
      BY <1>1
    <3>2. U[n] = Next1(U)[n]
      BY <2>1, <3>1
    <3> QED BY <3>1, <3>2 DEF Longer
  <2> QED BY <2>1, <2>2, <2>3
<1>9. \A n \in 0..N : U[n] = f[n]
  <2>1. GoOnAlike(U, f, N)
    BY <1>4, <1>5, <1>8 DEF GoOnAlike, Iterates
  <2> QED BY <1>1, <2>1, RecursionUnique
<1>10. ASSUME NEW n \in 0..N PROVE IsSeq(U[n])
  <2>1. U[n] \in Seq(V)
    BY <1>4, <1>9 DEF Iterates
  <2> QED BY <2>1 DEF IsSeq, Elements
<1> QED BY <1>1, <1>7, <1>8, <1>10 DEF Reads, N

LEMMA ReadsAgree ==
  ASSUME NEW U, NEW V, NEW sent, NEW more, IsSeq(sent), IsSeq(more), Len(sent) <= Len(more),
         \A i \in 1..Len(sent) : more[i] = sent[i],
         Reads(U, sent), Reads(V, more)
  PROVE  V[Len(sent)] = U[Len(sent)]
<1>1. Len(sent) \in Nat /\ Len(more) \in Nat
  BY DEF IsSeq
<1>2. GoOnAlike(U, V, Len(sent))
  BY <1>1 DEF Reads, GoOnAlike
<1>3. \A i \in 0..Len(sent) : U[i] = V[i]
  BY <1>1, <1>2, RecursionUnique
<1> QED BY <1>1, <1>3

\* What is sent next comes after what has been sent, and counts if it is a response.
LEMMA SendOne ==
  ASSUME NEW sent, NEW item, IsSeq(sent)
  PROVE  /\ IsSeq(Append(sent, item))
         /\ IsSeq(ResponsesIn(sent))
         /\ ResponsesIn(Append(sent, item)) = Longer(ResponsesIn(sent), item)
<1> DEFINE more == Append(sent, item)
           n == Len(sent)
<1>1. n \in Nat /\ sent \in Seq(Elements(sent))
  BY DEF IsSeq
<1>2. /\ IsSeq(more) /\ Len(more) = n + 1 /\ more[n + 1] = item
      /\ \A i \in 1..n : more[i] = sent[i]
  <2>1. /\ more \in Seq(Elements(sent) \cup {item}) /\ Len(more) = n + 1 /\ more[n + 1] = item
        /\ \A i \in 1..n : more[i] = sent[i]
    BY <1>1
  <2>2. IsSeq(more)
    <3> HIDE DEF more
    <3> QED BY <2>1 DEF IsSeq, Elements
  <2> QED BY <2>1, <2>2
<1> HIDE DEF more
<1>3. PICK U : /\ Reads(U, sent) /\ ResponsesIn(sent) = U[n]
               /\ \A i \in 0..n : IsSeq(U[i])
  BY ResponsesRead
<1>4. PICK V : Reads(V, more) /\ ResponsesIn(more) = V[Len(more)]
  BY <1>2, ResponsesRead
<1>5. V[n] = U[n]
  BY <1>1, <1>2, <1>3, <1>4, ReadsAgree
<1>6. V[n + 1] = Longer(V[n], item)
  <2>1. n + 1 \in 1..Len(more) /\ (n + 1) - 1 = n
    BY <1>1, <1>2
  <2> QED BY <1>2, <1>4, <2>1 DEF Reads
<1> QED BY <1>1, <1>2, <1>3, <1>4, <1>5, <1>6 DEF more

LEMMA SendResponses ==
  ASSUME NEW sent, NEW k \in Nat, NEW values, IsSeq(sent)
  PROVE  LET more == sent \o [i \in 1..k |-> [kind |-> "response", value |-> values[i]]]
         IN  /\ IsSeq(more)
             /\ ResponsesIn(more) = ResponsesIn(sent) \o [i \in 1..k |-> values[i]]
<1> DEFINE Items(j) == [i \in 1..j |-> [kind |-> "response", value |-> values[i]]]
           Values(j) == [i \in 1..j |-> values[i]]
           S == {j \in 0..k : /\ IsSeq(sent \o Items(j))
                              /\ ResponsesIn(sent \o Items(j)) = ResponsesIn(sent) \o Values(j)}
<1>1. IsSeq(ResponsesIn(sent))
  BY SendOne
<1>2. ASSUME NEW s, IsSeq(s), NEW j \in Nat, NEW t
      PROVE  s \o [i \in 1..(j + 1) |-> t[i]] = Append(s \o [i \in 1..j |-> t[i]], t[j + 1])
  <2> DEFINE T == Elements(s) \cup {t[i] : i \in 1..(j + 1)}
             u == [i \in 1..(j + 1) |-> t[i]]
             v == [i \in 1..j |-> t[i]]
  <2>1. s \in Seq(T) /\ u \in Seq(T) /\ v \in Seq(T) /\ t[j + 1] \in T
    BY <1>2 DEF IsSeq
  <2>2. Len(u) = j + 1 /\ Len(v) = j /\ Len(s) \in Nat
    BY <2>1
  <2> HIDE DEF T
  <2> QED BY <1>2, <2>1, <2>2
<1>3. 0 \in S
  <2>1. Items(0) = << >> /\ Values(0) = << >>
    OBVIOUS
  <2>2. sent \o << >> = sent /\ ResponsesIn(sent) \o << >> = ResponsesIn(sent)
    BY <1>1 DEF IsSeq
  <2> HIDE DEF Items, Values
  <2>3. /\ IsSeq(sent \o Items(0))
        /\ ResponsesIn(sent \o Items(0)) = ResponsesIn(sent) \o Values(0)
    BY <2>1, <2>2
  <2> QED BY <2>3
<1>4. ASSUME NEW j \in 0..(k - 1), j \in S PROVE j + 1 \in S
  <2>1. /\ sent \o Items(j + 1)
             = Append(sent \o Items(j), [kind |-> "response", value |-> values[j + 1]])
        /\ ResponsesIn(sent) \o Values(j + 1)
             = Append(ResponsesIn(sent) \o Values(j), values[j + 1])
    <3> DEFINE t == [i \in 1..(j + 1) |-> [kind |-> "response", value |-> values[i]]]
    <3>1. /\ Items(j + 1) = [i \in 1..(j + 1) |-> t[i]] /\ Items(j) = [i \in 1..j |-> t[i]]
          /\ t[j + 1] = [kind |-> "response", value |-> values[j + 1]] /\ j \in Nat
      OBVIOUS
    <3> HIDE DEF t
    <3> QED BY <1>1, <1>2, <3>1
  <2>2. Longer(ResponsesIn(sent \o Items(j)), [kind |-> "response", value |-> values[j + 1]])
          = Append(ResponsesIn(sent) \o Values(j), values[j + 1])
    BY <1>4 DEF Longer
  <2>3. j + 1 \in 0..k
    OBVIOUS
  <2> HIDE DEF Items, Values
  <2> QED BY <1>4, <2>1, <2>2, <2>3, SendOne
<1>5. k \in S
  <2> HIDE DEF S
  <2>1. \A j \in 0..k : j \in S
    BY <1>3, <1>4, UpToInduction
  <2> QED BY <2>1
<1> QED BY <1>5

-----------------------------------------------------------------------------
(* Responses in the order of the requests. *)

HandedIds == [i \in 1..Len(handed) |-> handed[i].id]
Outstanding == [i \in 1..Len(pipeline) |-> data[pipeline[i].req].method]

\* The requests answered and those that still wait in the queue are, one after the other,
\* the requests handed over; what was answered stays their start when the queue is gone.
InOrder ==
  /\ IsSeq(wire) /\ IsSeq(handed)
  /\ conn = "open" => Responses \o Outstanding = HandedIds
  /\ IsPrefix(Responses, HandedIds)

LEMMA Concatenation ==
  ASSUME NEW s, NEW t, IsSeq(s), IsSeq(t)
  PROVE  /\ IsSeq(s \o t)
         /\ IsPrefix(s, s \o t)
         /\ \A r : IsPrefix(r, s) /\ IsSeq(r) => IsPrefix(r, s \o t)
<1> DEFINE T == Elements(s) \cup Elements(t)
           u == s \o t
<1>1. /\ s \in Seq(T) /\ t \in Seq(T) /\ u \in Seq(T) /\ Len(s) \in Nat /\ Len(t) \in Nat
      /\ Len(u) = Len(s) + Len(t)
      /\ \A i \in 1..Len(s) : u[i] = s[i]
  BY DEF IsSeq
<1> HIDE DEF T, u
<1>2. IsSeq(u)
  BY <1>1, SeqIsSeq
<1>3. ASSUME NEW r, IsSeq(r), Len(r) <= Len(s), \A i \in 1..Len(r) : r[i] = s[i]
      PROVE  IsPrefix(r, u)
  <2>1. Len(r) \in Nat /\ Len(r) <= Len(u) /\ \A i \in 1..Len(r) : r[i] = u[i]
    BY <1>1, <1>3 DEF IsSeq
  <2>2. SubSeq(r, 1, Len(r)) = SubSeq(u, 1, Len(r))
    BY <1>1, <1>3, <2>1 DEF IsSeq
  <2> QED BY <2>1, <2>2 DEF IsPrefix
<1>4. ASSUME NEW r, IsSeq(r), IsPrefix(r, s) PROVE IsPrefix(r, u)
  <2>1. Len(r) \in Nat /\ Len(r) <= Len(s) /\ SubSeq(r, 1, Len(r)) = SubSeq(s, 1, Len(r))
    BY <1>4 DEF IsPrefix, IsSeq
  <2>2. \A i \in 1..Len(r) : SubSeq(r, 1, Len(r))[i] = r[i] /\ SubSeq(s, 1, Len(r))[i] = s[i]
    BY <1>1, <1>4, <2>1 DEF IsSeq
  <2> QED BY <1>3, <1>4, <2>1, <2>2
<1>5. IsPrefix(s, u)
  BY <1>1, <1>3 DEF IsSeq
<1> QED BY <1>2, <1>4, <1>5 DEF u

\* A step that sends no response and leaves the requests of the queue as they are
LEMMA QuietStep ==
  ASSUME InOrder, IsSeq(wire'), Responses' = Responses, UNCHANGED <<pipeline, handed>>,
         conn' = "open" => conn = "open" /\ \A x \in InLine(pipeline) : data'[x] = data[x]
  PROVE  InOrder'
<1>1. HandedIds' = HandedIds
  BY DEF HandedIds
<1>2. conn' = "open" => Outstanding' = Outstanding
  <2>1. conn' = "open" => \A i \in DOMAIN pipeline : data'[pipeline[i].req] = data[pipeline[i].req]
    BY DEF InLine
  <2> QED BY <2>1 DEF Outstanding
<1> QED BY <1>1, <1>2 DEF InOrder

\* What the parser itself sends are errors and interim responses.
LEMMA ParserSends ==
  ASSUME ParseStep
  PROVE  \/ UNCHANGED wire
         \/ \E item : item.kind # "response" /\ wire' = Append(wire, item)
<1> DEFINE Sends == \E item : item.kind # "response" /\ wire' = Append(wire, item)
<1>1. ASSUME NEW code, Refuse(code) PROVE Sends
  <2>1. [kind |-> "error", value |-> code].kind # "response"
    OBVIOUS
  <2> QED BY <1>1, <2>1 DEF Refuse
<1>2. CASE EndHeaders
  <2>1. [kind |-> "error", value |-> 413].kind # "response"
        /\ [kind |-> "interim", value |-> 100].kind # "response"
    OBVIOUS
  <2>2. \/ UNCHANGED wire
        \/ \E code : Refuse(code)
        \/ wire' = Append(wire, [kind |-> "error", value |-> 413])
        \/ wire' = Append(wire, [kind |-> "interim", value |-> 100])
    BY <1>2, ZenonT(40) DEF EndHeaders, Continue
  <2> HIDE DEF Sends
  <2>3. CASE \E code : Refuse(code)
    BY <1>1, <2>3 DEF Sends
  <2> QED BY <2>1, <2>2, <2>3 DEF Sends
<1>3. ParseStep => EndHeaders \/ UNCHANGED wire \/ \E code : Refuse(code)
  BY DEF ParseStep, ParseMethod, ParseRequestLine, AddHeader, ParseBody, ParseChunkLen,
     ParseChunkBody, ParseLastChunk, NeedMore, Continue
<1> HIDE DEF Sends
<1> QED BY <1>1, <1>2, <1>3 DEF Sends

\* reset() leaves the requests alone that something still holds, and the next is blank.
LEMMA RenewLeaves ==
  ASSUME NoneIsNoRequest, IInv, conn # "closed", NEW kept \in BOOLEAN, Renew(data, kept)
  PROVE  /\ request' \in Objects /\ data'[request'] = Blank
         /\ \A x \in Referenced : data'[x] = data[x]
         /\ kept => data'[request] = data[request]
<1> DEFINE spare == IF pool = {} THEN {x \in Objects : data[x] = None} ELSE pool
           o == CHOOSE x \in spare : TRUE
<1>1. /\ o \in spare /\ request' = o
      /\ data' = [x \in Objects |-> IF x = o \/ (x = request /\ ~ kept) THEN Blank ELSE data[x]]
  BY DEF Renew
<1>2. Referenced \subseteq Objects /\ request \in Objects \ Referenced /\ pool \subseteq Objects
  BY ReferencedAreObjects DEF IInv, ContextAlive, Typed
<1>3. o \in Objects /\ o \notin Referenced /\ o # request
  <2>1. CASE pool # {}
    BY <1>1, <1>2, <2>1 DEF IInv, SpareApart, Spare
  <2>2. CASE pool = {}
    <3>1. o \in Objects /\ data[o] = None
      BY <1>1, <2>2
    <3> QED BY <1>2, <3>1 DEF IInv, Allocated, NoneIsNoRequest
  <2> QED BY <2>1, <2>2
<1> HIDE DEF o
<1> QED BY <1>1, <1>2, <1>3

LEMMA RenewSpares ==
  ASSUME NoneIsNoRequest, IInv, conn # "closed", NEW kept \in BOOLEAN, Renew(data, kept)
  PROVE  \A x \in InLine(pipeline) : data'[x] = data[x]
BY RenewLeaves DEF Referenced, Others

LEMMA ParseOrdered ==
  ASSUME NoneIsNoRequest, IInv, InOrder, Parse
  PROVE  InOrder'
<1>1. ParseStep /\ UNCHANGED <<pipeline, handed, conn>> /\ IsSeq(wire)
  BY DEF Parse, connVars, InOrder
<1>2. IsSeq(wire') /\ Responses' = Responses
  <2>1. CASE UNCHANGED wire
    BY <1>1, <2>1 DEF Responses
  <2>2. ASSUME NEW item, item.kind # "response", wire' = Append(wire, item)
        PROVE  IsSeq(wire') /\ Responses' = Responses
    <3>1. Responses' = Longer(Responses, item) /\ IsSeq(wire')
      BY <1>1, <2>2, SendOne DEF Responses
    <3> QED BY <2>2, <3>1 DEF Longer
  <2> QED BY <1>1, <2>1, <2>2, ParserSends
<1>3. conn = "open" => \A x \in InLine(pipeline) : data'[x] = data[x]
  <2> SUFFICES ASSUME conn = "open" PROVE \A x \in InLine(pipeline) : data'[x] = data[x]
    OBVIOUS
  <2>1. CASE Fills
    <3>1. PICK r : data' = [data EXCEPT ![request] = r]
      BY <2>1 DEF Fills
    <3>2. request \notin InLine(pipeline)
      BY DEF IInv, ContextAlive, Referenced, Others
    <3> QED BY <3>1, <3>2
  <2> QED BY <1>1, <2>1, ParserEffect, RenewSpares
<1> QED BY <1>1, <1>2, <1>3, QuietStep

\* The batch joins the queue and the requests handed over at the same end.
LEMMA HandOverOrdered ==
  ASSUME IInv, InOrder, HandOver
  PROVE  InOrder'
<1> DEFINE n == Len(requests)
           m == Len(pipeline)
           batch == [i \in 1..n |-> Entry(requests[i])]
           seen == [i \in 1..n |-> Seen(requests[i])]
           ids == [i \in 1..n |-> data[requests[i]].method]
<1>1. /\ pipeline' = pipeline \o batch /\ handed' = handed \o seen
      /\ UNCHANGED <<wire, data, conn>>
  BY DEF HandOver, PushAll
<1>2. pipeline \in Seq(Entries) /\ n \in Nat /\ m \in Nat /\ IsSeq(handed)
  BY DEF IInv, Typed, InOrder
<1>3. /\ IsSeq(seen) /\ Len(seen) = n /\ IsSeq(ids) /\ Len(ids) = n
      /\ IsSeq(HandedIds) /\ Len(HandedIds) = Len(handed) /\ Len(handed) \in Nat
      /\ \A i \in 1..n : seen[i].id = ids[i]
      /\ \A i \in 1..Len(handed) : HandedIds[i] = handed[i].id
  BY <1>2, ComprehensionIs, SMTT(40) DEF HandedIds, Seen, IsSeq
<1> HIDE DEF seen, ids
<1>4. IsSeq(handed') /\ HandedIds' = HandedIds \o ids
  <2>1. /\ IsSeq(handed') /\ Len(handed') = Len(handed) + n
        /\ \A i \in 1..Len(handed) : handed'[i] = handed[i]
        /\ \A i \in 1..n : handed'[Len(handed) + i] = seen[i]
    <3> HIDE DEF n
    <3>1. handed' = handed \o seen /\ IsSeq(handed) /\ IsSeq(seen)
      BY <1>1, <1>2, <1>3
    <3>2. IsSeq(handed')
      BY <3>1, ConcatIs
    <3>3. Len(handed') = Len(handed) + n
      BY <1>3, <3>1, ConcatIs
    <3>4. \A i \in 1..Len(handed) : handed'[i] = handed[i]
      BY <3>1, ConcatIs
    <3>5. \A i \in 1..n : handed'[Len(handed) + i] = seen[i]
      BY <1>3, <3>1, ConcatIs
    <3> QED BY <3>2, <3>3, <3>4, <3>5
  <2> DEFINE left == [i \in 1..Len(handed') |-> handed'[i].id]
             right == HandedIds \o ids
  <2>2. /\ IsSeq(left) /\ Len(left) = Len(handed) + n
        /\ \A i \in 1..(Len(handed) + n) : left[i] = handed'[i].id
    BY <1>2, <1>3, <2>1, ComprehensionIs
  <2>3. /\ IsSeq(right) /\ Len(right) = Len(handed) + n
        /\ \A i \in 1..Len(handed) : right[i] = handed[i].id
        /\ \A i \in 1..n : right[Len(handed) + i] = ids[i]
    <3> HIDE DEF n
    <3>1. IsSeq(right) /\ Len(right) = Len(handed) + n
      BY <1>3, ConcatIs
    <3>2. \A i \in 1..Len(handed) : right[i] = handed[i].id
      BY <1>3, ConcatIs
    <3>3. \A i \in 1..Len(ids) : right[Len(HandedIds) + i] = ids[i]
      <4>1. IsSeq(HandedIds) /\ IsSeq(ids)
        BY <1>3
      <4> QED BY <4>1, ConcatIs
    <3> QED BY <1>3, <3>1, <3>2, <3>3
  <2>4. HandedIds' = left
    BY DEF HandedIds
  <2> HIDE DEF left, right
  <2>5. ASSUME NEW i \in 1..(Len(handed) + n) PROVE left[i] = right[i]
    <3>1. CASE i <= Len(handed)
      BY <1>3, <2>1, <2>2, <2>3, <3>1
    <3>2. CASE ~ (i <= Len(handed))
      <4>1. i - Len(handed) \in 1..n /\ Len(handed) + (i - Len(handed)) = i
        BY <1>2, <1>3, <3>2
      <4> DEFINE k == i - Len(handed)
      <4>2. left[i] = handed'[Len(handed) + k].id
        BY <2>2, <2>5, <4>1
      <4>3. right[i] = ids[k]
        BY <2>3, <4>1
      <4> HIDE DEF k
      <4>4. k \in 1..n
        BY <4>1 DEF k
      <4> QED BY <1>3, <2>1, <4>2, <4>3, <4>4
    <3> QED BY <3>1, <3>2
  <2> QED BY <2>1, <2>2, <2>3, <2>4, <2>5, SameSeq DEF right
\* What waits in the queue grows by the same requests.
<1>5. IsSeq(Outstanding) /\ Outstanding' = Outstanding \o ids
  <2> DEFINE right == Outstanding \o ids
             left == [i \in 1..Len(pipeline') |-> data[pipeline'[i].req].method]
  <2>1. IsSeq(Outstanding) /\ Len(Outstanding) = m
        /\ \A i \in 1..m : Outstanding[i] = data[pipeline[i].req].method
    BY <1>2, ComprehensionIs DEF Outstanding
  <2>2. /\ Len(pipeline') = m + n
        /\ \A i \in 1..m : pipeline'[i] = pipeline[i]
        /\ \A i \in 1..n : pipeline'[m + i].req = requests[i]
    <3>1. /\ IsSeq(batch) /\ Len(batch) = n /\ IsSeq(pipeline)
          /\ \A i \in 1..n : batch[i].req = requests[i]
      BY <1>2, ComprehensionIs, SeqIsSeq DEF Entry
    <3> HIDE DEF n, batch
    <3>2. Len(pipeline') = m + n
      BY <1>1, <3>1, ConcatIs
    <3>3. \A i \in 1..m : pipeline'[i] = pipeline[i]
      BY <1>1, <3>1, ConcatIs
    <3>4. \A i \in 1..n : pipeline'[m + i] = batch[i]
      BY <1>1, <3>1, ConcatIs
    <3> QED BY <3>1, <3>2, <3>3, <3>4
  <2>3. IsSeq(left) /\ Len(left) = m + n
        /\ \A i \in 1..(m + n) : left[i] = data[pipeline'[i].req].method
    BY <1>2, <2>2, ComprehensionIs
  <2>4. /\ IsSeq(right) /\ Len(right) = m + n
        /\ \A i \in 1..m : right[i] = data[pipeline[i].req].method
        /\ \A i \in 1..n : right[m + i] = ids[i]
    <3> HIDE DEF n, m
    <3>1. IsSeq(right) /\ Len(right) = m + n
      BY <1>3, <2>1, ConcatIs
    <3>2. \A i \in 1..m : right[i] = data[pipeline[i].req].method
      BY <1>3, <2>1, ConcatIs
    <3>3. \A i \in 1..n : right[m + i] = ids[i]
      BY <1>3, <2>1, ConcatIs
    <3> QED BY <3>1, <3>2, <3>3
  <2>5. Outstanding' = left
    BY <1>1 DEF Outstanding
  <2> HIDE DEF left, right, m, n
  <2>6. ASSUME NEW i \in 1..(m + n) PROVE left[i] = right[i]
    <3>1. CASE i <= m
      BY <1>2, <2>2, <2>3, <2>4, <3>1
    <3>2. CASE ~ (i <= m)
      <4>1. i - m \in 1..n /\ m + (i - m) = i
        BY <1>2, <3>2
      <4>2. right[i] = ids[i - m] /\ pipeline'[i].req = requests[i - m]
        BY <2>2, <2>4, <4>1
      <4>3. ids[i - m] = data[requests[i - m]].method
        BY <4>1 DEF ids, n
      <4> QED BY <2>3, <4>2, <4>3
    <3> QED BY <3>1, <3>2
  <2> QED BY <2>1, <2>3, <2>4, <2>5, <2>6, SameSeq DEF right
<1>6. IsSeq(Responses) /\ Responses' = Responses
  BY <1>1, SendOne DEF Responses, InOrder
<1>7. conn' = "open" => Responses' \o Outstanding' = HandedIds'
  <2>1. (Responses \o Outstanding) \o ids = Responses \o (Outstanding \o ids)
    BY <1>3, <1>5, <1>6 DEF IsSeq
  <2> QED BY <1>1, <1>4, <1>5, <1>6, <2>1 DEF InOrder
<1>8. IsPrefix(Responses', HandedIds')
  BY <1>3, <1>4, <1>6, Concatenation DEF InOrder
<1> QED BY <1>1, <1>4, <1>7, <1>8 DEF InOrder

\* The responses that leave are those of the requests at the front of the queue.
LEMMA RespondOrdered ==
  ASSUME NoneIsNoRequest, IInv, InOrder, NEW o \in Objects, Respond(o)
  PROVE  InOrder'
<1>1. UNCHANGED <<handed, conn, request, requests, held>> /\ IsSeq(wire)
  BY DEF Respond, InOrder
<1>2. CASE conn # "open"
  BY <1>1, <1>2, QuietStep DEF Respond, Responses
<1>3. CASE conn = "open"
  <2> DEFINE line == Answered(o)
             n == Len(pipeline)
             k == Len(Popped(o))
             methods == [i \in 1..n |-> data[pipeline[i].req].method]
             front == [i \in 1..k |-> methods[i]]
             back == [i \in 1..(n - k) |-> methods[k + i]]
             last == Unheld(Holders(request, requests, pipeline', job', held))
  <2>1. /\ pipeline' = SubSeq(line, k + 1, n)
        /\ wire' = wire \o [i \in 1..k |-> [kind |-> "response",
                                            value |-> data[Popped(o)[i].req].method]]
        /\ Answer(o)
        /\ data' = Blanked(last)
    BY <1>3 DEF Respond, Answer
  <2>2. /\ line \in Seq(Entries) /\ Len(line) = n /\ n \in Nat
        /\ \A i \in 1..n : line[i].req = pipeline[i].req
    BY AnsweredType DEF IInv, Typed
  <2>3. k \in 0..n /\ \A i \in 1..k : Popped(o)[i] = line[i]
    <3>1. Popped(o) = << >> \/ Popped(o) = SubSeq(line, 1, ReadyCount(line))
      BY DEF Popped
    <3>2. ReadyCount(line) \in 0..n
      BY <2>2, ReadyCountType
    <3> HIDE DEF line
    <3>3. CASE Popped(o) = << >>
      BY <2>2, <3>3
    <3>4. CASE Popped(o) = SubSeq(line, 1, ReadyCount(line))
      BY <2>2, <3>2, <3>4
    <3> QED BY <3>1, <3>3, <3>4
  <2>4. /\ Len(pipeline') = n - k
        /\ \A i \in 1..(n - k) : pipeline'[i].req = pipeline[k + i].req
    <3> HIDE DEF line, k
    <3>1. Len(pipeline') = n - k /\ \A i \in 1..(n - k) : pipeline'[i] = line[k + i]
      BY <2>1, <2>2, <2>3
    <3>2. \A i \in 1..(n - k) : k + i \in 1..n
      BY <2>2, <2>3
    <3> QED BY <2>2, <3>1, <3>2
  <2>5. IsSeq(wire') /\ IsSeq(Responses) /\ Responses' = Responses \o front
    <3>1. \A i \in 1..k : data[Popped(o)[i].req].method = methods[i]
      BY <2>2, <2>3
    <3>2. wire' = wire \o [i \in 1..k |-> [kind |-> "response", value |-> methods[i]]]
      <4> HIDE DEF methods
      <4> QED BY <2>1, <3>1
    <3> HIDE DEF methods
    <3>3. k \in Nat
      BY <2>3
    <3> HIDE DEF k
    <3> QED BY <1>1, <3>2, <3>3, SendOne, SendResponses DEF Responses
  <2>6. Outstanding' = back
    <3>1. \A x \in InLine(pipeline') : data'[x] = data[x]
      <4>1. InLine(pipeline') \subseteq Objects
        <5>1. \A i \in DOMAIN pipeline' : pipeline'[i] \in Entries
          BY <2>1, AnswerShrinks DEF IInv, Typed
        <5> QED BY <5>1 DEF InLine, Entries
      <4>2. last \cap InLine(pipeline') = {}
        BY HoldersAre DEF Unheld, Others
      <4> HIDE DEF last
      <4> QED BY <2>1, <4>1, <4>2 DEF Blanked
    <3>2. ASSUME NEW i \in 1..(n - k) PROVE data'[pipeline'[i].req].method = methods[k + i]
      <4>1. pipeline'[i].req \in InLine(pipeline')
        <5>1. pipeline' \in Seq(Entries)
          BY <2>1, AnswerShrinks DEF IInv, Typed
        <5> HIDE DEF n, k
        <5>2. i \in DOMAIN pipeline'
          BY <2>4, <5>1
        <5> QED BY <5>2 DEF InLine
      <4>2. k + i \in 1..n
        BY <2>2, <2>3
      <4> QED BY <2>4, <3>1, <4>1, <4>2
    <3> HIDE DEF n, k, methods
    <3> QED BY <2>4, <3>2 DEF Outstanding
  <2>7. Outstanding = front \o back /\ IsSeq(front) /\ IsSeq(back)
    <3>1. Outstanding = methods /\ IsSeq(methods) /\ Len(methods) = n
      BY <2>2, ComprehensionIs DEF Outstanding
    <3> HIDE DEF methods
    <3>2. /\ IsSeq(front) /\ Len(front) = k /\ IsSeq(back) /\ Len(back) = n - k
          /\ \A i \in 1..k : front[i] = methods[i]
          /\ \A i \in 1..(n - k) : back[i] = methods[k + i]
      <4>1. k \in Nat /\ n - k \in Nat
        BY <2>2, <2>3
      <4> HIDE DEF k, n
      <4>2. /\ DOMAIN front = 1..k /\ front = [i \in 1..k |-> front[i]]
            /\ DOMAIN back = 1..(n - k) /\ back = [i \in 1..(n - k) |-> back[i]]
            /\ \A i \in 1..k : front[i] = methods[i]
            /\ \A i \in 1..(n - k) : back[i] = methods[k + i]
        OBVIOUS
      <4> HIDE DEF front, back
      <4>3. IsSeq(front) /\ Len(front) = k
        BY <4>1, <4>2, ComprehensionIs
      <4>4. IsSeq(back) /\ Len(back) = n - k
        BY <4>1, <4>2, ComprehensionIs
      <4> QED BY <4>2, <4>3, <4>4
    <3> HIDE DEF front, back, n, k
    <3>3. Len(front \o back) = n
      BY <2>2, <2>3, <3>2, ConcatIs
    <3>4. ASSUME NEW i \in 1..n PROVE methods[i] = (front \o back)[i]
      <4>1. CASE i <= k
        BY <2>2, <2>3, <3>2, <4>1, ConcatIs
      <4>2. CASE ~ (i <= k)
        <5>1. i - k \in 1..(n - k) /\ k + (i - k) = i
          BY <2>2, <2>3, <4>2
        <5>2. (front \o back)[k + (i - k)] = back[i - k]
          BY <3>2, <5>1, ConcatIs
        <5> QED BY <3>2, <5>1, <5>2
      <4> QED BY <4>1, <4>2
    <3>5. IsSeq(front \o back)
      BY <3>2, ConcatIs
    <3> QED BY <3>1, <3>2, <3>3, <3>4, <3>5, SameSeq
  <2> HIDE DEF front, back
  <2>8. Responses' \o Outstanding' = HandedIds
    <3>1. (Responses \o front) \o back = Responses \o (front \o back)
      BY <2>5, <2>7 DEF IsSeq
    <3> QED BY <1>3, <2>5, <2>6, <2>7, <3>1 DEF InOrder
  <2>9. IsPrefix(Responses', HandedIds)
    <3>1. IsSeq(Responses')
      BY <2>5, <2>7, ConcatIs
    <3> QED BY <2>6, <2>7, <2>8, <3>1, Concatenation
  <2>10. HandedIds' = HandedIds /\ IsSeq(handed)
    BY <1>1 DEF HandedIds, InOrder
  <2> QED BY <1>1, <2>5, <2>8, <2>9, <2>10 DEF InOrder
<1> QED BY <1>2, <1>3

LEMMA StepOrdered ==
  ASSUME NoneIsNoRequest
  PROVE  IInv /\ InOrder /\ [Next]_vars => InOrder'
<1> SUFFICES ASSUME IInv, InOrder, [Next]_vars PROVE InOrder'
  OBVIOUS
<1>1. ASSUME UNCHANGED <<wire, pipeline, handed>>,
             conn' = "open" => conn = "open" /\ \A x \in InLine(pipeline) : data'[x] = data[x]
      PROVE  InOrder'
  BY <1>1, QuietStep DEF InOrder, Responses
<1>2. CASE UNCHANGED vars \/ Over
  BY <1>1, <1>2 DEF Over, vars, parserVars, connVars
<1>3. ASSUME NEW n \in 1..Len(stream), Receive(n) PROVE InOrder'
  BY <1>1, <1>3 DEF Receive
<1>4. CASE Disconnect
  BY <1>1, <1>4 DEF Disconnect, parserVars
<1>5. CASE OneMore
  <2>1. conn # "closed" /\ Renew(data, TRUE) /\ UNCHANGED <<wire, pipeline, handed, conn>>
    BY <1>5 DEF OneMore, IInv, ContextAlive
  <2> QED BY <1>1, <2>1, RenewSpares
<1>6. CASE GiveUp
  BY <1>1, <1>6 DEF GiveUp
<1>7. ASSUME NEW o \in Objects, Return(o) PROVE InOrder'
  <2>1. o \notin InLine(pipeline) /\ InLine(pipeline) \subseteq Objects
    BY <1>7, ReferencedAreObjects DEF Return, IInv, SpareApart, Spare, Referenced, Others
  <2> QED BY <1>1, <1>7, <2>1 DEF Return, Blanked
<1>8. CASE LoopStep
  BY <1>5, <1>6, <1>7, <1>8, ParseOrdered, HandOverOrdered, RespondOrdered DEF LoopStep
<1>9. ASSUME NEW o \in Objects, Finish(o) PROVE InOrder'
  BY <1>1, <1>9 DEF Finish, parserVars
<1>10. ASSUME NEW o \in Objects, LetGo(o) PROVE InOrder'
  BY <1>1, <1>10 DEF LetGo
<1>11. CASE ClearContext
  <2>1. IsSeq(wire') /\ IsSeq(handed') /\ Responses' = Responses /\ HandedIds' = HandedIds
        /\ conn' # "open"
    BY <1>11 DEF ClearContext, InOrder, Responses, HandedIds
  <2> QED BY <2>1 DEF InOrder
<1> QED BY <1>2, <1>3, <1>4, <1>8, <1>9, <1>10, <1>11 DEF Next

\* Whatever the order handlers finish in, and whichever objects the pool hands out again
\* meanwhile, the responses sent are the answers to the requests handed over, in the order
\* of these, each once (pushResponseToPipelining, popReadyResponse and
\* HttpServer::onMessage).
THEOREM ResponsesAreInOrder ==
  ASSUME Objects # {}, NoneIsNoRequest
  PROVE  Spec => []ResponsesInOrder
<1>1. Init => IInv /\ InOrder
  <2> SUFFICES ASSUME Init PROVE InOrder
    BY InitEstablishes
  <2>1. wire = << >> /\ pipeline = << >> /\ handed = << >>
    BY DEF Init
  <2>2. IsSeq(<< >>) /\ Len(<< >>) = 0
    BY DEF IsSeq
  <2>3. Responses = << >>
    <3>1. PICK U : Reads(U, << >>) /\ ResponsesIn(<< >>) = U[Len(<< >>)]
      BY <2>2, ResponsesRead
    <3> QED BY <2>1, <2>2, <3>1 DEF Responses, Reads
  <2>4. Outstanding = << >> /\ HandedIds = << >>
    BY <2>1 DEF Outstanding, HandedIds
  <2>5. << >> \o << >> = << >>
    OBVIOUS
  <2> QED BY <2>1, <2>2, <2>3, <2>4, <2>5, Concatenation DEF InOrder
<1>2. IInv /\ InOrder /\ [Next]_vars => (IInv /\ InOrder)'
  BY StepKeeps, StepOrdered
<1>3. InOrder => ResponsesInOrder
  BY DEF InOrder, ResponsesInOrder, HandedIds
<1> QED BY <1>1, <1>2, <1>3, PTL DEF Spec

-----------------------------------------------------------------------------
(* What a client says, read a piece at a time. *)

Optional == Nat \cup {-1, None}
Requested == [method : Int, version : Int, length : Optional, coding : Optional,
              expect : Optional, body : Nat]
Readings == [at : Statuses \cup {"refused"}, r : Requested, content : Nat, chunk : Nat,
             out : Seq([id : Int, body : Nat])]

\* Nothing is left over from one message, or one chunk, when the next is read.
Orderly(p) ==
  /\ p.at = "kExpectMethod" => p = Fresh(p.out)
  /\ p.at \in {"kExpectRequestLine", "kExpectHeaders"} => p.content = 0 /\ p.r.body = 0
  /\ p.at = "kExpectBody" => p.content > 0 /\ p.r.body = 0
  /\ p.at = "kExpectChunkBody" => p.chunk > 0

LEMMA TokenType ==
  ASSUME NEW t \in Tokens
  PROVE  t.value \in Nat \cup {-1}
BY DEF Tokens

LEMMA SaysAt ==
  ASSUME NEW p, NEW t
  PROVE  /\ p.at = "kExpectMethod" =>
              Says(p, t) = IF IsMethod(t)
                           THEN [p EXCEPT !.at = "kExpectRequestLine", !.r.method = t[1].value]
                           ELSE Refused(p)
         /\ p.at = "kExpectRequestLine" =>
              Says(p, t) = IF IsLine(t, {"line"}) /\ t[1].value > 0
                           THEN [p EXCEPT !.at = "kExpectHeaders", !.r.version = t[1].value]
                           ELSE Refused(p)
         /\ p.at = "kExpectHeaders" =>
              Says(p, t) = IF IsLine(t, HeaderKinds) THEN [p EXCEPT !.r = WithHeader(@, t[1])]
                           ELSE IF t = CRLF THEN AfterHeaders(p) ELSE Refused(p)
         /\ p.at = "kExpectBody" =>
              Says(p, t) = IF Len(t) = p.content THEN Done(p, p.content) ELSE Refused(p)
         /\ p.at = "kExpectChunkLen" =>
              Says(p, t) = IF IsLine(t, {"size"}) /\ t[1].value = 0
                           THEN [p EXCEPT !.at = "kExpectLastEmptyChunk"]
                           ELSE IF IsLine(t, {"size"}) /\ t[1].value > 0
                                   /\ t[1].value + p.content <= MaxBody
                           THEN [p EXCEPT !.at = "kExpectChunkBody", !.chunk = t[1].value]
                           ELSE Refused(p)
         /\ p.at = "kExpectChunkBody" =>
              Says(p, t) = IF /\ Len(t) = p.chunk + 2
                              /\ SubSeq(t, p.chunk + 1, p.chunk + 2) = CRLF
                           THEN [p EXCEPT !.at = "kExpectChunkLen", !.content = @ + p.chunk,
                                          !.chunk = 0, !.r.body = @ + p.chunk]
                           ELSE Refused(p)
         /\ p.at = "kExpectLastEmptyChunk" =>
              Says(p, t) = IF t = CRLF THEN Done(p, p.r.body) ELSE Refused(p)
         /\ p.at \in {"refused", "kGotAll"} => Says(p, t) = Refused(p)
<1>1. ~ (IsLine(t, HeaderKinds) /\ t = CRLF)
  BY Len(CRLF) = 2 DEF IsLine, CRLF
<1>2. ~ (t[1].value = 0 /\ t[1].value > 0)
  OBVIOUS
<1> QED BY <1>1, <1>2, Zenon DEF Says

LEMMA FreshType ==
  ASSUME NEW out \in Seq([id : Int, body : Nat])
  PROVE  /\ Fresh(out) \in Readings /\ Orderly(Fresh(out)) /\ Fresh(out).out = out
         /\ Blank \in Requested
<1>1. Blank \in Requested
  BY DEF Blank, Requested, Optional
<1>2. Fresh(out) \in Readings
  <2>1. "kExpectMethod" \in Statuses \cup {"refused"} /\ 0 \in Nat
    BY DEF Statuses
  <2> QED BY <1>1, <2>1, Zenon DEF Fresh, Readings
<1>3. Fresh(out).out = out /\ Fresh(out).at = "kExpectMethod"
  BY DEF Fresh
<1> QED BY <1>1, <1>2, <1>3 DEF Orderly

LEMMA ReadingFields ==
  ASSUME NEW p \in Readings
  PROVE  /\ p.at \in Statuses \cup {"refused"} /\ p.r \in Requested
         /\ p.content \in Nat /\ p.chunk \in Nat /\ p.out \in Seq([id : Int, body : Nat])
         /\ p = [at |-> p.at, r |-> p.r, content |-> p.content, chunk |-> p.chunk, out |-> p.out]
         /\ Refused(p) \in Readings /\ Refused(p).at = "refused" /\ Orderly(Refused(p))
BY DEF Readings, Refused, Orderly

LEMMA DoneType ==
  ASSUME NEW p \in Readings, NEW body \in Nat
  PROVE  Done(p, body) \in Readings /\ Orderly(Done(p, body))
<1>1. p.r.method \in Int /\ p.out \in Seq([id : Int, body : Nat])
  BY ReadingFields DEF Requested
<1>2. Append(p.out, [id |-> p.r.method, body |-> body]) \in Seq([id : Int, body : Nat])
  BY <1>1
<1> QED BY <1>2, FreshType DEF Done

LEMMA WithHeaderType ==
  ASSUME NEW r \in Requested, NEW t \in Tokens, t.kind \in HeaderKinds
  PROVE  WithHeader(r, t) \in Requested /\ WithHeader(r, t).body = r.body
<1>1. t.value \in Optional
  BY TokenType DEF Optional
<1>2. CASE WithHeader(r, t) = r
  BY <1>2
<1>3. CASE WithHeader(r, t) # r
  <2>1. WithHeader(r, t) = [r EXCEPT ![t.kind] = t.value] /\ t.kind # "header"
    BY <1>3 DEF WithHeader
  <2>2. t.kind \in {"length", "coding", "expect"}
    BY <2>1 DEF HeaderKinds
  <2> QED BY <1>1, <2>1, <2>2 DEF Requested
<1> QED BY <1>2, <1>3

LEMMA AfterHeadersType ==
  ASSUME NEW p \in Readings, Orderly(p), p.at = "kExpectHeaders"
  PROVE  AfterHeaders(p) \in Readings /\ Orderly(AfterHeaders(p))
<1> DEFINE r == p.r
           size  == IF r.length = None THEN 0 ELSE r.length
           next  == IF r.length = None THEN "kExpectChunkLen" ELSE "kExpectBody"
           on == [p EXCEPT !.at = next, !.content = size]
<1>1. /\ r \in Requested /\ r.length \in Optional /\ r.body = 0
  BY ReadingFields DEF Requested, Orderly
<1>2. \/ AfterHeaders(p) = Refused(p) \/ AfterHeaders(p) = Done(p, 0)
      \/ AfterHeaders(p) = Fresh(p.out)
      \/ r.length # -1 /\ r.length # 0 /\ size <= MaxBody /\ AfterHeaders(p) = on
  BY Zenon DEF AfterHeaders
<1>3. /\ Refused(p) \in Readings /\ Orderly(Refused(p))
      /\ Done(p, 0) \in Readings /\ Orderly(Done(p, 0))
      /\ Fresh(p.out) \in Readings /\ Orderly(Fresh(p.out))
  BY ReadingFields, DoneType, FreshType
<1>4. ASSUME r.length # -1, r.length # 0, size <= MaxBody PROVE on \in Readings /\ Orderly(on)
  <2>1. size \in Nat /\ (next = "kExpectBody" => size > 0) /\ next \in {"kExpectChunkLen", "kExpectBody"}
    BY <1>1, <1>4 DEF Optional
  <2> HIDE DEF size, next
  <2>2. next \in Statuses \cup {"refused"}
    BY <2>1 DEF Statuses
  <2>3. on \in Readings
    BY <2>1, <2>2 DEF Readings
  <2>4. on.at = next /\ on.content = size /\ on.r = p.r
    BY <2>1, <2>2 DEF Readings
  <2> QED BY <1>1, <2>1, <2>3, <2>4 DEF Orderly
<1> HIDE DEF on
<1> QED BY <1>2, <1>3, <1>4

LEMMA LineFirst ==
  ASSUME NEW t \in Seq(Tokens), NEW kinds, IsLine(t, kinds)
  PROVE  t[1] \in Tokens /\ t[1].kind \in kinds /\ t[1].value \in Nat \cup {-1}
<1>1. 1 \in 1..Len(t)
  BY DEF IsLine
<1>2. t[1] \in Tokens
  BY <1>1
<1> QED BY <1>2, TokenType DEF IsLine

LEMMA SaysType ==
  ASSUME NEW p \in Readings, Orderly(p), NEW t \in Seq(Tokens)
  PROVE  Says(p, t) \in Readings /\ Orderly(Says(p, t))
<1> DEFINE q == Says(p, t)
<1>1. /\ p.at \in Statuses \cup {"refused"} /\ p.r \in Requested
      /\ p.content \in Nat /\ p.chunk \in Nat /\ p.out \in Seq([id : Int, body : Nat])
      /\ Refused(p) \in Readings /\ Orderly(Refused(p))
  BY ReadingFields
<1>2. CASE p.at = "kExpectMethod"
  <2>1. CASE IsMethod(t)
    <3>1. t[1].value \in Int
      <4>1. t[1] \in Tokens
        BY <2>1 DEF IsMethod
      <4> QED BY <4>1, TokenType
    <3>2. [p EXCEPT !.at = "kExpectRequestLine", !.r.method = t[1].value] = q
      BY <1>2, <2>1, SaysAt
    <3> DEFINE g == [p EXCEPT !.at = "kExpectRequestLine", !.r.method = t[1].value]
               v == t[1].value
    <3>3. p.r.body = 0 /\ p.content = 0
      BY <1>2 DEF Orderly, Fresh, Blank
    <3> HIDE DEF v
    <3>4. /\ g \in Readings /\ g.at = "kExpectRequestLine" /\ g.content = p.content
          /\ g.r.body = p.r.body
      BY <1>1, <3>1 DEF Readings, Requested, Statuses, v
    <3> QED BY <3>2, <3>3, <3>4 DEF Orderly
  <2> QED BY <1>1, <1>2, <2>1, SaysAt
<1>3. CASE p.at = "kExpectRequestLine"
  <2> DEFINE v == t[1].value
             g == [p EXCEPT !.at = "kExpectHeaders", !.r.version = v]
  <2>1. CASE IsLine(t, {"line"}) /\ v > 0
    <3>1. v \in Int
      BY <2>1, LineFirst
    <3>2. q = g
      BY <1>3, <2>1, SaysAt
    <3> HIDE DEF v
    <3>3. g \in Readings /\ g.at = "kExpectHeaders" /\ g.content = p.content /\ g.r.body = p.r.body
      BY <1>1, <3>1 DEF Readings, Requested, Statuses
    <3> QED BY <1>3, <3>2, <3>3 DEF Orderly
  <2> QED BY <1>1, <1>3, <2>1, SaysAt
<1>4. CASE p.at = "kExpectHeaders"
  <2> DEFINE g == [p EXCEPT !.r = WithHeader(@, t[1])]
  <2>1. CASE IsLine(t, HeaderKinds)
    <3>1. WithHeader(p.r, t[1]) \in Requested /\ WithHeader(p.r, t[1]).body = p.r.body
      BY <1>1, <2>1, LineFirst, WithHeaderType
    <3>2. q = g
      BY <1>4, <2>1, SaysAt
    <3>3. g \in Readings /\ g.at = p.at /\ g.content = p.content /\ g.r = WithHeader(p.r, t[1])
      BY <1>1, <3>1 DEF Readings
    <3> QED BY <1>4, <3>1, <3>2, <3>3 DEF Orderly
  <2>2. CASE q = AfterHeaders(p)
    BY <1>4, <2>2, AfterHeadersType
  <2> QED BY <1>1, <1>4, <2>1, <2>2, SaysAt
<1>5. CASE p.at = "kExpectBody"
  <2>1. q = Done(p, p.content) \/ q = Refused(p)
    BY <1>5, SaysAt
  <2> QED BY <1>1, <2>1, DoneType
<1>6. CASE p.at = "kExpectChunkLen"
  <2> DEFINE v == t[1].value
             g == [p EXCEPT !.at = "kExpectLastEmptyChunk"]
             h == [p EXCEPT !.at = "kExpectChunkBody", !.chunk = v]
  <2>1. g \in Readings /\ g.at = "kExpectLastEmptyChunk"
    BY <1>1 DEF Readings, Statuses
  <2>2. ASSUME IsLine(t, {"size"}), v > 0 PROVE h \in Readings /\ Orderly(h)
    <3>1. v \in Nat /\ v > 0
      BY <2>2, LineFirst
    <3> HIDE DEF v
    <3>2. h \in Readings /\ h.at = "kExpectChunkBody" /\ h.chunk = v
      BY <1>1, <3>1 DEF Readings, Statuses
    <3> QED BY <3>1, <3>2 DEF Orderly
  <2>3. q = g \/ (IsLine(t, {"size"}) /\ v > 0 /\ q = h) \/ q = Refused(p)
    BY <1>6, SaysAt
  <2> QED BY <1>1, <2>1, <2>2, <2>3 DEF Orderly
<1>7. CASE p.at = "kExpectChunkBody"
  <2> DEFINE c == p.content + p.chunk
             r == [p.r EXCEPT !.body = @ + p.chunk]
             g == [p EXCEPT !.at = "kExpectChunkLen", !.content = @ + p.chunk, !.chunk = 0,
                            !.r.body = @ + p.chunk]
  <2>1. q = g \/ q = Refused(p)
    BY <1>7, SaysAt
  <2>2. g \in Readings /\ g.at = "kExpectChunkLen"
    <3>1. r \in Requested /\ c \in Nat
      <4>1. p.r.body \in Nat /\ p.r.body + p.chunk \in Nat
        BY <1>1 DEF Requested
      <4>2. \A x \in Requested, b \in Nat : [x EXCEPT !.body = b] \in Requested
        BY DEF Requested
      <4> QED BY <1>1, <4>1, <4>2
    <3>2. g = [p EXCEPT !.at = "kExpectChunkLen", !.content = c, !.chunk = 0, !.r = r]
      BY Zenon
    <3> HIDE DEF r, c, g
    <3> QED BY <1>1, <3>1, <3>2 DEF Readings, Statuses
  <2> QED BY <1>1, <2>1, <2>2 DEF Orderly
<1>8. CASE p.at = "kExpectLastEmptyChunk"
  <2>1. q = Done(p, p.r.body) \/ q = Refused(p)
    BY <1>8, SaysAt
  <2>2. p.r.body \in Nat
    BY <1>1 DEF Requested
  <2> QED BY <1>1, <2>1, <2>2, DoneType
<1>9. CASE p.at \in {"refused", "kGotAll"}
  BY <1>1, <1>9, SaysAt
<1> QED BY <1>1, <1>2, <1>3, <1>4, <1>5, <1>6, <1>7, <1>8, <1>9 DEF Statuses

Spoken == Pieces(script)
Reading == Said(Spoken)

LEMMA SpokenType ==
  ASSUME NEW s \in Scripts
  PROVE  Pieces(s) \in Seq(Seq(Tokens)) /\ s \in Seq(Messages)
<1> DEFINE T == Seq(Tokens)
           seqs == [i \in 1..Len(s) |-> s[i].pieces]
<1>1. s \in Seq(Messages)
  BY ScriptsAssumption
<1>2. seqs \in Seq(Seq(T))
  <2>1. \A i \in 1..Len(s) : s[i].pieces \in Seq(T)
    <3> SUFFICES ASSUME NEW i \in 1..Len(s) PROVE s[i].pieces \in Seq(T)
      OBVIOUS
    <3>1. s[i] \in Messages
      BY <1>1
    <3> HIDE DEF T
    <3>2. T = Seq(Tokens)
      BY DEF T
    <3> QED BY <3>1, <3>2 DEF Messages
  <2> HIDE DEF T
  <2> QED BY <1>1, <2>1
<1> HIDE DEF T, seqs
<1>3. Joined(seqs)[Len(seqs)] \in Seq(T)
  <2>1. Joins(Joined(seqs), seqs, T)
    BY <1>2, JoinedJoins
  <2>2. Len(seqs) \in 0..Len(seqs)
    BY <1>2
  <2> QED BY <2>1, <2>2 DEF Joins
<1>4. Pieces(s) = Joined(seqs)[Len(seqs)]
  BY <1>2, FlattenIsJoined DEF Pieces, seqs
<1> QED BY <1>1, <1>3, <1>4 DEF T

\* What is read goes on piece by piece.
LEMMA ReadingIs ==
  ASSUME script \in Scripts
  PROVE  /\ Spoken \in Seq(Seq(Tokens))
         /\ Reading[0] = Fresh(<<>>)
         /\ \A k \in 1..Len(Spoken) : Reading[k] = Says(Reading[k - 1], Spoken[k])
         /\ \A k \in 0..Len(Spoken) : Reading[k] \in Readings /\ Orderly(Reading[k])
<1> DEFINE N == Len(Spoken)
           U == {p \in Readings : Orderly(p)}
           step == [k \in 1..N |-> [p \in U |-> Says(p, Spoken[k])]]
           Next1(g) == [k \in 0..N |-> IF k = 0 THEN Fresh(<<>>) ELSE Says(g[k - 1], Spoken[k])]
           H == Reading
<1>1. Spoken \in Seq(Seq(Tokens)) /\ N \in Nat /\ \A k \in 1..N : Spoken[k] \in Seq(Tokens)
  BY SpokenType DEF Spoken
<1>2. step \in [1..N -> [U -> U]]
  BY <1>1, SaysType
<1>3. Fresh(<<>>) \in U
  BY FreshType, <<>> \in Seq([id : Int, body : Nat])
<1>4. Reading = CHOOSE g : g = Next1(g)
  BY DEF Reading, Said
<1> HIDE DEF N
<1>5. PICK f : Iterates(f, N, U, Fresh(<<>>), step)
  <2> HIDE DEF step, U
  <2> QED BY <1>1, <1>2, <1>3, RecursionExists
<1>6. \A k \in 1..N : f[k] = Says(f[k - 1], Spoken[k])
  <2> SUFFICES ASSUME NEW k \in 1..N PROVE f[k] = Says(f[k - 1], Spoken[k])
    OBVIOUS
  <2>1. k - 1 \in 0..N /\ f[k - 1] \in U
    BY <1>1, <1>5 DEF Iterates
  <2> HIDE DEF U
  <2> QED BY <1>5, <2>1 DEF Iterates
<1>7. f = Next1(f)
  <2> HIDE DEF step, U
  <2> SUFFICES ASSUME NEW k \in 0..N PROVE f[k] = Next1(f)[k]
    BY <1>5 DEF Iterates
  <2>1. CASE k = 0
    BY <1>5, <2>1 DEF Iterates
  <2>2. CASE k # 0
    <3>1. k \in 1..N
      BY <1>1, <2>2
    <3> QED BY <1>6, <2>2, <3>1
  <2> QED BY <2>1, <2>2
<1>8. H = Next1(H)
  <2> HIDE DEF Next1
  <2> QED BY <1>4, <1>7
<1> HIDE DEF H
<1>9. H[0] = Fresh(<<>>) /\ \A k \in 1..N : H[k] = Says(H[k - 1], Spoken[k])
  <2>1. \A k \in 0..N : H[k] = Next1(H)[k]
    BY <1>8
  <2>2. 0 \in 0..N /\ \A k \in 1..N : k \in 0..N /\ k # 0
    BY <1>1
  <2> QED BY <2>1, <2>2
<1>10. \A k \in 0..N : H[k] = f[k]
  <2>1. GoOnAlike(H, f, N)
    <3> HIDE DEF step, U
    <3> QED BY <1>5, <1>6, <1>9 DEF GoOnAlike, Iterates
  <2> QED BY <1>1, <2>1, RecursionUnique
<1>11. \A k \in 0..N : H[k] \in U
  <2> HIDE DEF step, U
  <2> QED BY <1>5, <1>10 DEF Iterates
<1> QED BY <1>1, <1>9, <1>11 DEF H, N

LEMMA SaysOut ==
  ASSUME NEW p \in Readings, NEW t \in Seq(Tokens)
  PROVE  Says(p, t).out = p.out \/ \E x : Says(p, t).out = Append(p.out, x)
<1> DEFINE Same(q) == q.out = p.out
           Longer1(q) == \E x : q.out = Append(p.out, x)
<1>1. Same(Refused(p)) /\ Same(Fresh(p.out)) /\ p.at \in Statuses \cup {"refused"}
  BY DEF Readings, Refused, Fresh
<1>2. \A body : Longer1(Done(p, body))
  BY DEF Done, Fresh
<1>3. Same(AfterHeaders(p)) \/ Longer1(AfterHeaders(p))
  <2>1. \A a, c : Same([p EXCEPT !.at = a, !.content = c])
    BY DEF Readings
  <2> HIDE DEF Same, Longer1
  <2> QED BY <1>1, <1>2, <2>1, Zenon DEF AfterHeaders
<1> HIDE DEF Longer1
<1>4. Same(Says(p, t)) \/ Longer1(Says(p, t))
  <2>1. CASE p.at = "kExpectMethod"
    <3>1. Says(p, t) \in {[p EXCEPT !.at = "kExpectRequestLine", !.r.method = t[1].value],
                         Refused(p)}
      BY <2>1, SaysAt
    <3>2. Same([p EXCEPT !.at = "kExpectRequestLine", !.r.method = t[1].value])
      BY DEF Readings
    <3> HIDE DEF Same
    <3> QED BY <1>1, <3>1, <3>2, Zenon
  <2>2. CASE p.at = "kExpectRequestLine"
    <3>1. Says(p, t) \in {[p EXCEPT !.at = "kExpectHeaders", !.r.version = t[1].value],
                         Refused(p)}
      BY <2>2, SaysAt
    <3>2. Same([p EXCEPT !.at = "kExpectHeaders", !.r.version = t[1].value])
      BY DEF Readings
    <3> HIDE DEF Same
    <3> QED BY <1>1, <3>1, <3>2, Zenon
  <2>3. CASE p.at = "kExpectHeaders"
    <3>1. Says(p, t) \in {[p EXCEPT !.r = WithHeader(@, t[1])], AfterHeaders(p), Refused(p)}
      BY <2>3, SaysAt
    <3>2. Same([p EXCEPT !.r = WithHeader(@, t[1])])
      BY DEF Readings
    <3> HIDE DEF Same
    <3> QED BY <1>1, <1>3, <3>1, <3>2, Zenon
  <2>4. CASE p.at = "kExpectBody"
    <3>1. Says(p, t) \in {Done(p, p.content), Refused(p)}
      BY <2>4, SaysAt
    <3> QED BY <1>1, <1>2, <3>1
  <2>5. CASE p.at = "kExpectChunkLen"
    <3>1. Says(p, t) \in {[p EXCEPT !.at = "kExpectLastEmptyChunk"],
                         [p EXCEPT !.at = "kExpectChunkBody", !.chunk = t[1].value],
                         Refused(p)}
      BY <2>5, SaysAt
    <3>2. /\ Same([p EXCEPT !.at = "kExpectLastEmptyChunk"])
          /\ Same([p EXCEPT !.at = "kExpectChunkBody", !.chunk = t[1].value])
      BY DEF Readings
    <3> HIDE DEF Same
    <3> QED BY <1>1, <3>1, <3>2, Zenon
  <2>6. CASE p.at = "kExpectChunkBody"
    <3>1. Says(p, t) \in {[p EXCEPT !.at = "kExpectChunkLen", !.content = @ + p.chunk,
                                    !.chunk = 0, !.r.body = @ + p.chunk],
                         Refused(p)}
      BY <2>6, SaysAt
    <3>2. Same([p EXCEPT !.at = "kExpectChunkLen", !.content = @ + p.chunk, !.chunk = 0,
                    !.r.body = @ + p.chunk])
      BY DEF Readings
    <3> HIDE DEF Same
    <3> QED BY <1>1, <3>1, <3>2, Zenon
  <2>7. CASE p.at = "kExpectLastEmptyChunk"
    <3>1. Says(p, t) \in {Done(p, p.r.body), Refused(p)}
      BY <2>7, SaysAt
    <3> QED BY <1>1, <1>2, <3>1
  <2>8. CASE p.at \in {"refused", "kGotAll"}
    BY <1>1, <2>8, SaysAt
  <2> QED BY <1>1, <2>1, <2>2, <2>3, <2>4, <2>5, <2>6, <2>7, <2>8 DEF Statuses
<1> QED BY <1>4 DEF Same, Longer1

\* What is refused stays refused, and requests read stay the start of those read.
LEMMA ReadingGrows ==
  ASSUME script \in Scripts, NEW k \in 0..Len(Spoken)
  PROVE  LET last == Reading[Len(Spoken)]
         IN  /\ Reading[k].at = "refused" => last.at = "refused"
             /\ IsPrefix(Reading[k].out, last.out)
<1> DEFINE n == Len(Spoken) - k
           p == Reading[k]
           S == {j \in 0..n : /\ p.at = "refused" => Reading[k + j].at = "refused"
                              /\ IsPrefix(p.out, Reading[k + j].out)}
<1>1. Len(Spoken) \in Nat /\ n \in Nat /\ n \in 0..n /\ k + n = Len(Spoken)
  BY ReadingIs
<1>2. \A j \in 0..n : k + j \in 0..Len(Spoken)
  BY <1>1
<1>3. \A j \in 0..n : IsSeq(Reading[k + j].out) /\ Reading[k + j] \in Readings
  <2> SUFFICES ASSUME NEW j \in 0..n PROVE IsSeq(Reading[k + j].out) /\ Reading[k + j] \in Readings
    OBVIOUS
  <2>1. Reading[k + j] \in Readings
    BY <1>2, ReadingIs
  <2> QED BY <2>1, ReadingFields, SeqIsSeq
<1>4. k + 0 = k /\ 0 \in 0..n
  BY <1>1
<1>5. IsSeq(p.out) /\ IsSeq(<<>>) /\ p.out \o <<>> = p.out
  <2>1. IsSeq(p.out)
    BY <1>3, <1>4
  <2>2. IsSeq(<<>>) /\ p.out \o <<>> = p.out
    BY <2>1 DEF IsSeq
  <2> QED BY <2>1, <2>2
<1>6. 0 \in S
  <2>1. IsPrefix(p.out, p.out)
    BY <1>5, Concatenation
  <2> QED BY <1>4, <2>1
<1>7. ASSUME NEW j \in 0..(n - 1), j \in S PROVE j + 1 \in S
  <2> DEFINE q == Reading[k + j]
             t == Spoken[k + (j + 1)]
  <2>1. j \in 0..n /\ j + 1 \in 0..n /\ k + (j + 1) \in 1..Len(Spoken) /\ (k + (j + 1)) - 1 = k + j
    BY <1>1
  <2>2. q \in Readings /\ IsSeq(q.out) /\ t \in Seq(Tokens)
    <3>1. Spoken \in Seq(Seq(Tokens))
      BY ReadingIs
    <3>2. t \in Seq(Tokens)
      BY <2>1, <3>1
    <3> QED BY <1>3, <2>1, <3>2
  <2>3. Reading[k + (j + 1)] = Says(q, t)
    BY <2>1, ReadingIs
  <2> HIDE DEF t
  <2>4. p.at = "refused" => Says(q, t).at = "refused"
    <3>1. q.at = "refused" => Says(q, t) = Refused(q)
      BY SaysAt
    <3> QED BY <1>7, <2>2, <3>1, ReadingFields
  <2>5. IsPrefix(p.out, Says(q, t).out)
    <3>1. CASE Says(q, t).out = q.out
      BY <1>7, <3>1
    <3>2. ASSUME NEW x, Says(q, t).out = Append(q.out, x) PROVE IsPrefix(p.out, Says(q, t).out)
      <4>1. IsSeq(<<x>>)
        BY DEF IsSeq, Elements
      <4>2. Append(q.out, x) = q.out \o <<x>>
        BY <2>2 DEF IsSeq
      <4>3. IsPrefix(p.out, q.out)
        BY <1>7
      <4> HIDE DEF q, p
      <4> QED BY <1>5, <2>2, <3>2, <4>1, <4>2, <4>3, Concatenation
    <3> QED BY <2>2, <3>1, <3>2, SaysOut
  <2> QED BY <2>1, <2>3, <2>4, <2>5
<1>8. n \in S
  <2> HIDE DEF S, n
  <2> QED BY <1>1, <1>6, <1>7, UpToInduction
<1> QED BY <1>1, <1>8

-----------------------------------------------------------------------------
(* What the parser looks for. *)

\* The first of some places, 0 if there are none
FirstOf(places, i) ==
  \/ i = 0 /\ places = {}
  \/ i \in places /\ \A j \in places : i <= j

LEMMA CrlfIs ==
  ASSUME buf \in Seq(Tokens)
  PROVE  FirstOf({i \in 1..(Len(buf) - 1) : buf[i] = CR /\ buf[i + 1] = LF}, CrlfAt)
<1> DEFINE At == {i \in 1..(Len(buf) - 1) : buf[i] = CR /\ buf[i + 1] = LF}
<1>1. At \subseteq Nat
  OBVIOUS
<1>2. CrlfAt = IF At = {} THEN 0 ELSE CHOOSE i \in At : \A j \in At : i <= j
  BY DEF CrlfAt
<1> HIDE DEF At
<1> SUFFICES FirstOf(At, CrlfAt)
  BY DEF At
<1>3. CASE At # {}
  <2>1. \E i \in At : \A j \in At : i <= j
    BY <1>1, <1>3, LeastNumber
  <2> QED BY <1>2, <1>3, <2>1 DEF FirstOf
<1>4. CASE At = {}
  BY <1>2, <1>4 DEF FirstOf
<1> QED BY <1>3, <1>4

LEMMA SpaceIs ==
  ASSUME buf \in Seq(Tokens)
  PROVE  FirstOf({i \in 1..Len(buf) : buf[i] = Space}, SpaceAt)
<1> DEFINE At == {i \in 1..Len(buf) : buf[i] = Space}
<1>1. At \subseteq Nat
  OBVIOUS
<1>2. SpaceAt = IF At # {} THEN Min(At) ELSE 0
  BY DEF SpaceAt, SelectInSeq, IsSpace
<1> HIDE DEF At
<1> SUFFICES FirstOf(At, SpaceAt)
  BY DEF At
<1>3. CASE At # {}
  <2>1. \E i \in At : \A j \in At : i <= j
    BY <1>1, <1>3, LeastNumber
  <2>2. Min(At) \in At /\ \A j \in At : Min(At) <= j
    BY <2>1 DEF Min
  <2> QED BY <1>2, <1>3, <2>2 DEF FirstOf
<1>4. CASE At = {}
  BY <1>2, <1>4 DEF FirstOf
<1> QED BY <1>3, <1>4


LEMMA StartIs ==
  ASSUME NEW T, NEW s \in Seq(T), NEW m \in 0..Len(s)
  PROVE  /\ SubSeq(s, 1, m) \in Seq(T) /\ Len(SubSeq(s, 1, m)) = m
         /\ \A i \in 1..m : SubSeq(s, 1, m)[i] = s[i]
<1>1. \A i \in 1..m : s[i] \in T
  OBVIOUS
<1>2. /\ SubSeq(s, 1, m) \in Seq(T)
      /\ Len(SubSeq(s, 1, m)) = IF 1 <= m THEN m - 1 + 1 ELSE 0
      /\ \A i \in 1..(m - 1 + 1) : SubSeq(s, 1, m)[i] = s[1 + i - 1]
  BY <1>1, m \in Int, SubSeqProperties
<1>3. m \in Nat /\ m - 1 + 1 = m /\ \A i \in Int : 1 + i - 1 = i
  OBVIOUS
<1> QED BY <1>2, <1>3

LEMMA SameParts ==
  ASSUME NEW t, NEW r, CutTwice(buf, stream, t, r, Tokens), Len(buf) >= Len(t),
         NEW m \in Nat \ {0}, NEW n \in Int, n <= Len(t)
  PROVE  SubSeq(buf, m, n) = SubSeq(t, m, n)
<1>1. /\ buf \in Seq(Tokens) /\ t \in Seq(Tokens) /\ Len(buf) \in Nat /\ Len(t) \in Nat
  BY DEF CutTwice
<1>2. \A i \in 1..Len(buf) : i <= Len(t) => buf[i] = t[i]
  BY DropFirst
<1>3. \A i \in m..n : buf[i] \in Tokens /\ t[i] \in Tokens /\ buf[i] = t[i]
  BY <1>1, <1>2
<1>4. /\ SubSeq(buf, m, n) \in Seq(Tokens) /\ SubSeq(t, m, n) \in Seq(Tokens)
      /\ Len(SubSeq(buf, m, n)) = IF m <= n THEN n - m + 1 ELSE 0
      /\ Len(SubSeq(t, m, n)) = IF m <= n THEN n - m + 1 ELSE 0
      /\ \A i \in 1..(n - m + 1) : SubSeq(buf, m, n)[i] = buf[m + i - 1]
      /\ \A i \in 1..(n - m + 1) : SubSeq(t, m, n)[i] = t[m + i - 1]
  BY <1>3, SubSeqProperties
<1>5. \A i \in 1..(n - m + 1) : m + i - 1 \in m..n
  OBVIOUS
<1>6. \A i \in 1..Len(SubSeq(buf, m, n)) : SubSeq(buf, m, n)[i] = SubSeq(t, m, n)[i]
  BY <1>3, <1>4, <1>5
<1> QED BY <1>4, <1>6, SeqEqual

LEMMA FirstIs ==
  ASSUME NEW places \in SUBSET Nat, NEW i, FirstOf(places, i), 0 \notin places
  PROVE  /\ i = 0 <=> places = {}
         /\ \A n \in places : (\A j \in places : n <= j) => i = n
         /\ i \in Nat
<1>1. CASE i = 0 /\ places = {}
  BY <1>1
<1>2. CASE i \in places /\ \A j \in places : i <= j
  <2>1. i \in Nat /\ i # 0 /\ places # {}
    BY <1>2
  <2>2. ASSUME NEW n \in places, \A j \in places : n <= j PROVE i = n
    <3>1. i <= n /\ n <= i /\ n \in Nat
      BY <1>2, <2>2
    <3> QED BY <2>1, <3>1
  <2> QED BY <2>1, <2>2
<1> QED BY <1>1, <1>2 DEF FirstOf

\* A line that has not all come is not taken for one, and one that has ends where it ends.
LEMMA LineEnd ==
  ASSUME NEW t, NEW r, CutTwice(buf, stream, t, r, Tokens)
  PROVE  /\ OneLine(t) /\ Len(buf) < Len(t) => CrlfAt = 0
         /\ OneLine(t) /\ Len(buf) >= Len(t) =>
              /\ CrlfAt > 0 /\ CrlfAt = Len(t) - 1
              /\ Before(CrlfAt) = SubSeq(t, 1, Len(t) - 2)
              /\ From(CrlfAt + 2) \in Seq(Tokens) /\ From(CrlfAt + 2) \o stream = r
         /\ NoneBefore(t, Len(t)) /\ r = <<>> => CrlfAt = 0
         /\ r = <<>> => Len(buf) <= Len(t)
<1> DEFINE At == {i \in 1..(Len(buf) - 1) : buf[i] = CR /\ buf[i + 1] = LF}
<1>1. /\ buf \in Seq(Tokens) /\ stream \in Seq(Tokens) /\ t \in Seq(Tokens)
      /\ Len(buf) \in Nat /\ Len(stream) \in Nat /\ Len(t) \in Nat
  BY DEF CutTwice
<1>2. \A i \in 1..Len(buf) : i <= Len(t) => buf[i] = t[i]
  BY DropFirst
<1>3. FirstOf(At, CrlfAt)
  BY <1>1, CrlfIs
<1>4. At \subseteq Nat /\ 0 \notin At
  OBVIOUS
<1>5. /\ CrlfAt = 0 <=> At = {}
      /\ \A n \in At : (\A j \in At : n <= j) => CrlfAt = n
  <2> HIDE DEF At
  <2> QED BY <1>3, <1>4, FirstIs
<1>6. r = <<>> => Len(buf) <= Len(t)
  <2>1. Len(buf) + Len(stream) = Len(t) + Len(r)
    BY DropFirst
  <2> QED BY <1>1, <2>1, Len(<<>>) = 0
<1>7. ASSUME OneLine(t), Len(buf) < Len(t) PROVE CrlfAt = 0
  <2>1. ASSUME NEW i \in At PROVE FALSE
    <3>1. i \in 1..(Len(t) - 2) /\ i \in 1..Len(buf) /\ i + 1 \in 1..Len(buf)
      BY <1>1, <1>7
    <3>2. t[i] = CR /\ t[i + 1] = LF
      BY <1>1, <1>2, <1>7, <3>1
    <3> QED BY <1>1, <1>7, <3>1, <3>2 DEF OneLine, NoneBefore
  <2> QED BY <1>5, <2>1
<1>8. ASSUME OneLine(t), Len(buf) >= Len(t)
      PROVE  /\ CrlfAt > 0 /\ CrlfAt = Len(t) - 1
             /\ Before(CrlfAt) = SubSeq(t, 1, Len(t) - 2)
             /\ From(CrlfAt + 2) \in Seq(Tokens) /\ From(CrlfAt + 2) \o stream = r
  <2> DEFINE n == Len(t) - 1
  <2>1. /\ Len(t) >= 2 /\ n \in 1..(Len(buf) - 1) /\ n \in 1..Len(buf) /\ n + 1 \in 1..Len(buf)
    BY <1>1, <1>8 DEF OneLine
  <2>2. t[n] = CR /\ t[n + 1] = LF
    <3>1. SubSeq(t, n, Len(t))[1] = t[n] /\ SubSeq(t, n, Len(t))[2] = t[n + 1]
      BY <1>1, <2>1
    <3>2. CRLF[1] = CR /\ CRLF[2] = LF
      BY DEF CRLF
    <3> QED BY <1>8, <3>1, <3>2 DEF OneLine
  <2>3. n \in At
    BY <1>1, <1>2, <2>1, <2>2, SMTT(40)
  <2>4. ASSUME NEW j \in At PROVE n <= j
    <3> SUFFICES ASSUME j < n PROVE FALSE
      BY <1>1, <2>1
    <3>1. j \in 1..(n - 1) /\ j \in 1..Len(buf) /\ j + 1 \in 1..Len(buf) /\ j + 1 <= Len(t)
      BY <1>1, <2>1
    <3>2. t[j] = CR /\ t[j + 1] = LF
      BY <1>1, <1>2, <2>1, <3>1
    <3> QED BY <1>8, <3>1, <3>2 DEF OneLine, NoneBefore
  <2>5. CrlfAt = n
    BY <1>5, <2>3, <2>4
  <2>6. Before(n) = SubSeq(t, 1, Len(t) - 2)
    <3>1. n - 1 = Len(t) - 2 /\ n - 1 \in Int /\ n - 1 <= Len(t)
      BY <1>1
    <3>2. 1 \in Nat \ {0}
      OBVIOUS
    <3>3. SubSeq(buf, 1, n - 1) = SubSeq(t, 1, n - 1)
      <4> HIDE DEF n
      <4> QED BY <1>8, <3>1, <3>2, SameParts
    <3> QED BY <3>1, <3>3 DEF Before
  <2>7. From(n + 2) \in Seq(Tokens) /\ From(n + 2) \o stream = r
    <3>1. n + 2 = Len(t) + 1
      BY <1>1
    <3> QED BY <1>8, <3>1, DropFirst DEF From
  <2> QED BY <2>1, <2>5, <2>6, <2>7
<1>9. ASSUME NoneBefore(t, Len(t)), r = <<>> PROVE CrlfAt = 0
  <2>1. ASSUME NEW i \in At PROVE FALSE
    <3>1. i \in 1..(Len(t) - 1) /\ i \in 1..Len(buf) /\ i + 1 \in 1..Len(buf) /\ i + 1 <= Len(t)
      BY <1>1, <1>6, <1>9
    <3>2. t[i] = CR /\ t[i + 1] = LF
      BY <1>1, <1>2, <3>1
    <3> QED BY <1>9, <3>1, <3>2 DEF NoneBefore
  <2> QED BY <1>5, <2>1
<1> QED BY <1>6, <1>7, <1>8, <1>9

\* The same of a method, which ends with a space.
EndsWithSpace(t) == t # <<>> /\ t[Len(t)] = Space /\ \A i \in 1..(Len(t) - 1) : t[i] # Space
NoSpace(t) == \A i \in DOMAIN t : t[i] # Space

LEMMA MethodEnd ==
  ASSUME NEW t, NEW r, CutTwice(buf, stream, t, r, Tokens)
  PROVE  /\ EndsWithSpace(t) /\ Len(buf) < Len(t) => SpaceAt = 0
         /\ EndsWithSpace(t) /\ Len(buf) >= Len(t) =>
              /\ SpaceAt > 0 /\ SpaceAt = Len(t)
              /\ Before(SpaceAt) = SubSeq(t, 1, Len(t) - 1)
              /\ From(SpaceAt + 1) \in Seq(Tokens) /\ From(SpaceAt + 1) \o stream = r
         /\ NoSpace(t) /\ r = <<>> => SpaceAt = 0
         /\ r = <<>> => Len(buf) <= Len(t)
<1> DEFINE At == {i \in 1..Len(buf) : buf[i] = Space}
<1>1. /\ buf \in Seq(Tokens) /\ stream \in Seq(Tokens) /\ t \in Seq(Tokens)
      /\ Len(buf) \in Nat /\ Len(stream) \in Nat /\ Len(t) \in Nat
  BY DEF CutTwice
<1>2. \A i \in 1..Len(buf) : i <= Len(t) => buf[i] = t[i]
  BY DropFirst
<1>3. FirstOf(At, SpaceAt)
  BY <1>1, SpaceIs
<1>4. At \subseteq Nat /\ 0 \notin At
  OBVIOUS
<1>5. /\ SpaceAt = 0 <=> At = {}
      /\ \A n \in At : (\A j \in At : n <= j) => SpaceAt = n
  <2> HIDE DEF At
  <2> QED BY <1>3, <1>4, FirstIs
<1>6. r = <<>> => Len(buf) <= Len(t)
  <2>1. Len(buf) + Len(stream) = Len(t) + Len(r)
    BY DropFirst
  <2> QED BY <1>1, <2>1, Len(<<>>) = 0
<1>7. ASSUME EndsWithSpace(t), Len(buf) < Len(t) PROVE SpaceAt = 0
  <2>1. ASSUME NEW i \in At PROVE FALSE
    BY <1>1, <1>2, <1>7 DEF EndsWithSpace
  <2> QED BY <1>5, <2>1
<1>8. ASSUME EndsWithSpace(t), Len(buf) >= Len(t)
      PROVE  /\ SpaceAt > 0 /\ SpaceAt = Len(t)
             /\ Before(SpaceAt) = SubSeq(t, 1, Len(t) - 1)
             /\ From(SpaceAt + 1) \in Seq(Tokens) /\ From(SpaceAt + 1) \o stream = r
  <2> DEFINE n == Len(t)
  <2>1. n \in 1..Len(buf)
    BY <1>1, <1>8 DEF EndsWithSpace
  <2>2. n \in At
    BY <1>1, <1>2, <1>8, <2>1 DEF EndsWithSpace
  <2>3. ASSUME NEW j \in At PROVE n <= j
    BY <1>1, <1>2, <1>8, <2>1 DEF EndsWithSpace
  <2>4. SpaceAt = n
    BY <1>5, <2>2, <2>3
  <2>5. Before(n) = SubSeq(t, 1, n - 1)
    <3>1. n - 1 \in Int /\ n - 1 <= Len(t)
      BY <1>1
    <3> QED BY <1>8, <3>1, SameParts DEF Before
  <2>6. From(n + 1) \in Seq(Tokens) /\ From(n + 1) \o stream = r
    BY <1>8, DropFirst DEF From
  <2> QED BY <2>1, <2>4, <2>5, <2>6
<1>9. ASSUME NoSpace(t), r = <<>> PROVE SpaceAt = 0
  <2>1. ASSUME NEW i \in At PROVE FALSE
    BY <1>1, <1>2, <1>6, <1>9 DEF NoSpace
  <2> QED BY <1>5, <2>1
<1> QED BY <1>6, <1>7, <1>8, <1>9

-----------------------------------------------------------------------------
(* The parser stands behind a whole number of pieces, and what it has made  *)
(* of them is what is read of them; in a body, behind a part of the piece.  *)

Rest == CHOOSE R : Remainders(R, Spoken, Tokens)

Batch == [i \in 1..Len(requests) |-> Seen(requests[i])]

At(k) ==
  LET p == Reading[k]
  IN  /\ p.at # "refused" /\ status = p.at
      /\ p.at = "kExpectChunkBody" => chunk = p.chunk
      /\ p.at # "kExpectBody" =>
           content = p.content /\ data[request] = p.r /\ buf \o stream = Rest[k]
      /\ p.at = "kExpectBody" =>
           /\ k < Len(Spoken) /\ content \in 1..p.content
           /\ data[request] = [p.r EXCEPT !.body = p.content - content]
           /\ \E d \in Seq(Tokens) : Len(d) = content /\ buf \o stream = d \o Rest[k + 1]

\* The next piece has not all come.
Short(k) ==
  \/ k = Len(Spoken)
  \/ Reading[k].at = "kExpectBody" /\ buf = <<>>
  \/ Reading[k].at # "kExpectBody" /\ Len(buf) < Len(Spoken[k + 1])

Stands(k) ==
  /\ k \in 0..Len(Spoken)
  /\ turn \in {"wait", "parse", "more"} => At(k) /\ handed \o Batch = Reading[k].out
  /\ turn \in {"wait", "more"} => Short(k)
  /\ turn = "wait" => requests = <<>>
  /\ turn = "got" =>
       /\ Reading[k] = Fresh(Reading[k].out)
       /\ handed \o Append(Batch, Seen(request)) = Reading[k].out
       /\ buf \o stream = Rest[k]
  /\ turn = "error" => FirstFatal(script) # 0

Framing ==
  /\ script \in Scripts
  /\ buf \in Seq(Tokens) /\ stream \in Seq(Tokens) /\ IsSeq(handed)
  /\ turn \in {"wait", "parse", "more", "got", "error"}
  /\ FramingExact
  /\ conn = "open" /\ ~ stopped => \E k \in 0..Len(Spoken) : Stands(k)
  /\ turn # "wait" => conn = "open" /\ ~ stopped

WellSpokenClients == \A s \in Scripts : WellSpoken(s)

LEMMA RestIs ==
  ASSUME script \in Scripts
  PROVE  Remainders(Rest, Spoken, Tokens)
<1>1. Spoken \in Seq(Seq(Tokens))
  BY ReadingIs
<1> QED BY <1>1, RemaindersExist DEF Rest

\* What the client comes to
LEMMA MeantIs ==
  ASSUME script \in Scripts, WellSpoken(script), NEW k \in 0..Len(Spoken)
  PROVE  /\ IsPrefix(Reading[k].out, Meant)
         /\ Reading[Len(Spoken)].out = Meant
         /\ Reading[k].at = "refused" => FirstFatal(script) # 0
         /\ FirstFatal(script) # 0 => Reading[Len(Spoken)].at = "refused"
         /\ Reading[Len(Spoken)].at \in {"kExpectMethod", "refused"}
         /\ k > 0 /\ Reading[k].at = "refused" =>
              Refusable(Reading[k - 1], Spoken[k], k = Len(Spoken))
<1>1. /\ Reading[Len(Spoken)].out = Meant
      /\ Reading[Len(Spoken)].at = "refused" <=> FirstFatal(script) # 0
      /\ Plainly(Spoken)
  BY DEF WellSpoken, Reading, Spoken, Meant
<1>2. k > 0 => k \in 1..Len(Spoken)
  OBVIOUS
<1> QED BY <1>1, <1>2, ReadingGrows DEF Plainly, Reading

Setting(k) ==
  /\ script \in Scripts /\ WellSpoken(script)
  /\ buf \in Seq(Tokens) /\ stream \in Seq(Tokens)
  /\ k \in 0..Len(Spoken) /\ At(k)
  /\ request \in DOMAIN data

\* What the parser has before it
LEMMA Ahead ==
  ASSUME NEW k, Setting(k), Reading[k].at # "kExpectBody"
  PROVE  \/ k = Len(Spoken) /\ Reading[k].at = "kExpectMethod" /\ buf = <<>>
         \/ /\ k + 1 \in 1..Len(Spoken) /\ k # Len(Spoken) /\ (k + 1) - 1 = k
            /\ CutTwice(buf, stream, Spoken[k + 1], Rest[k + 1], Tokens)
            /\ k + 1 = Len(Spoken) => Rest[k + 1] = <<>>
            /\ Reading[k + 1] = Says(Reading[k], Spoken[k + 1])
            /\ Reading[k + 1].at = "refused" =>
                 /\ Refusable(Reading[k], Spoken[k + 1], k + 1 = Len(Spoken))
                 /\ FirstFatal(script) # 0
<1>1. /\ script \in Scripts /\ WellSpoken(script)
      /\ buf \in Seq(Tokens) /\ stream \in Seq(Tokens)
      /\ k \in 0..Len(Spoken) /\ buf \o stream = Rest[k] /\ Reading[k].at # "refused"
  BY DEF Setting, At
<1>2. /\ Spoken \in Seq(Seq(Tokens)) /\ Len(Spoken) \in Nat
      /\ \A j \in 1..Len(Spoken) : Reading[j] = Says(Reading[j - 1], Spoken[j])
  BY <1>1, ReadingIs
<1>3. /\ Rest \in [0..Len(Spoken) -> Seq(Tokens)] /\ Rest[Len(Spoken)] = <<>>
      /\ \A j \in 1..Len(Spoken) : Rest[j - 1] = Spoken[j] \o Rest[j]
  BY <1>1, RestIs DEF Remainders
<1>4. CASE k = Len(Spoken)
  <2>1. buf \o stream = <<>>
    BY <1>1, <1>3, <1>4
  <2>2. buf = <<>>
    <3>1. Len(buf \o stream) = Len(buf) + Len(stream) /\ Len(buf) \in Nat /\ Len(stream) \in Nat
      <4>1. buf \in Seq(Tokens) /\ stream \in Seq(Tokens)
        BY <1>1
      <4> QED BY <4>1, ConcatProperties
    <3>2. Len(buf) = 0
      BY <2>1, <3>1, Len(<<>>) = 0
    <3> QED BY <1>1, <3>2
  <2>3. Reading[k].at = "kExpectMethod"
    BY <1>1, <1>4, MeantIs
  <2> QED BY <1>4, <2>2, <2>3
<1>5. CASE k # Len(Spoken)
  <2>1. k + 1 \in 1..Len(Spoken) /\ k + 1 \in 0..Len(Spoken) /\ (k + 1) - 1 = k /\ k + 1 > 0
    BY <1>1, <1>2, <1>5
  <2>2. Spoken[k + 1] \in Seq(Tokens) /\ Rest[k + 1] \in Seq(Tokens)
    BY <1>2, <1>3, <2>1
  <2>3. CutTwice(buf, stream, Spoken[k + 1], Rest[k + 1], Tokens)
    <3>1. Rest[k] = Spoken[k + 1] \o Rest[k + 1]
      BY <1>3, <2>1
    <3> QED BY <1>1, <2>2, <3>1 DEF CutTwice
  <2>4. Reading[k + 1] = Says(Reading[k], Spoken[k + 1])
    BY <1>2, <2>1
  <2>5. Reading[k + 1].at = "refused" =>
          /\ Refusable(Reading[k], Spoken[k + 1], k + 1 = Len(Spoken))
          /\ FirstFatal(script) # 0
    BY <1>1, <2>1, MeantIs
  <2> QED BY <1>3, <1>5, <2>1, <2>3, <2>4, <2>5
<1> QED BY <1>4, <1>5

\* What a step of the parser comes to: it waits for the rest of a piece, gives up, has
\* made something of the next piece, has a request, skips one, or takes a part of a body.
Waits(k) ==
  turn' = "more" /\ UNCHANGED <<buf, status, content, chunk, request, data>> /\ Short(k)

GivesUp == turn' = "error" /\ FirstFatal(script) # 0

Takes(k) == k + 1 \in 1..Len(Spoken) /\ buf' \in Seq(Tokens) /\ buf' \o stream = Rest[k + 1]

\* The request being read becomes r; the others are what they were.
Becomes(r) ==
  /\ request' = request /\ data'[request] = r
  /\ \A x \in DOMAIN data : x # request => data'[x] = data[x]

GoesOn(k) ==
  LET q == Reading[k + 1]
  IN  /\ Takes(k)
      /\ q.at # "refused" /\ q.out = Reading[k].out
      /\ turn' = turn /\ status' = q.at /\ content' = q.content
      /\ q.at = "kExpectChunkBody" => chunk' = q.chunk
      /\ Becomes(q.r)

Finishes(k) ==
  /\ Takes(k)
  /\ turn' = "got"
  /\ \E r : /\ Becomes(r)
            /\ Reading[k + 1] = Fresh(Append(Reading[k].out, [id |-> r.method, body |-> r.body]))

SkipsOver(k) ==
  /\ Takes(k)
  /\ Reading[k + 1] = Fresh(Reading[k].out)
  /\ turn' = turn /\ status' = "kExpectMethod" /\ content' = 0
  /\ Renew(data, FALSE)

TakesPart(k) ==
  LET p == Reading[k]
  IN  /\ p.at = "kExpectBody" /\ turn' = "more"
      /\ buf' = <<>> /\ status' = status /\ content' \in 1..p.content
      /\ Becomes([p.r EXCEPT !.body = p.content - content'])
      /\ \E d \in Seq(Tokens) : Len(d) = content' /\ stream = d \o Rest[k + 1]

Outcome(k) ==
  Waits(k) \/ GivesUp \/ GoesOn(k) \/ Finishes(k) \/ SkipsOver(k) \/ TakesPart(k)

LEMMA SetBecomes ==
  ASSUME NEW k, Setting(k), NEW r, data' = [data EXCEPT ![request] = r], UNCHANGED request
  PROVE  Becomes(r)
BY DEF Becomes, Setting

LEMMA SettingIs ==
  ASSUME NEW k, Setting(k)
  PROVE  LET p == Reading[k]
         IN  /\ script \in Scripts /\ p \in Readings /\ Orderly(p) /\ status = p.at
             /\ p.at # "kExpectBody" => content = p.content /\ data[request] = p.r
             /\ p.at = "kExpectChunkBody" => chunk = p.chunk
             /\ p.at \in {"kExpectMethod", "kExpectRequestLine", "kExpectHeaders"} =>
                  p.content = 0
<1> DEFINE p == Reading[k]
<1>1. script \in Scripts /\ k \in 0..Len(Spoken) /\ At(k)
  BY DEF Setting
<1>2. p \in Readings /\ Orderly(p)
  BY <1>1, ReadingIs
<1>3. p.at = "kExpectMethod" => p.content = 0
  <2>1. Fresh(p.out).content = 0
    BY DEF Fresh
  <2> QED BY <1>2, <2>1 DEF Orderly
<1> QED BY <1>1, <1>2, <1>3 DEF At, Orderly

LEMMA MethodOutcome ==
  ASSUME NEW k, Setting(k), ParseMethod
  PROVE  Outcome(k)
<1> DEFINE p == Reading[k]
           t == Spoken[k + 1]
           q == Reading[k + 1]
<1>1. /\ turn = "parse" /\ p.at = "kExpectMethod" /\ data[request] = p.r
      /\ p \in Readings /\ script \in Scripts
      /\ content = p.content /\ p.content = 0
  BY SettingIs DEF ParseMethod, In
<1>2. CASE k = Len(Spoken) /\ buf = <<>>
  <2>1. SpaceAt = 0 /\ Len(buf) <= MethodMax
    <3>1. FirstOf({i \in 1..Len(buf) : buf[i] = Space}, SpaceAt)
      BY SpaceIs DEF Setting
    <3> QED BY <1>2, <3>1, Len(<<>>) = 0, BoundAssumption DEF FirstOf
  <2>2. NeedMore /\ UNCHANGED <<request, pool>>
    BY <2>1, BoundAssumption, Len(<<>>) = 0, <1>2 DEF ParseMethod
  <2> QED BY <1>2, <2>2 DEF NeedMore, Outcome, Waits, Short
<1>3. CASE /\ k + 1 \in 1..Len(Spoken) /\ CutTwice(buf, stream, t, Rest[k + 1], Tokens)
           /\ k + 1 = Len(Spoken) => Rest[k + 1] = <<>>
           /\ q = Says(p, t)
           /\ q.at = "refused" => /\ Refusable(p, t, k + 1 = Len(Spoken))
                                  /\ FirstFatal(script) # 0
  <2>1. /\ Len(buf) \in Nat /\ Len(t) \in Nat /\ buf \in Seq(Tokens) /\ t \in Seq(Tokens)
    BY <1>3 DEF CutTwice
  <2>2. q = IF IsMethod(t) THEN [p EXCEPT !.at = "kExpectRequestLine", !.r.method = t[1].value]
            ELSE Refused(p)
    BY <1>1, <1>3, SaysAt
  <2>3. IsMethod(t) => EndsWithSpace(t) /\ Len(t) = 2
    BY <2>1 DEF IsMethod, EndsWithSpace, Space, Token
  <2>4. ~ IsMethod(t) =>
          /\ FirstFatal(script) # 0
          /\ EndsWithSpace(t) \/ (Rest[k + 1] = <<>> /\ Len(t) > MethodMax /\ NoSpace(t))
    <3>1. ~ IsMethod(t) => q.at = "refused"
      BY <1>1, <2>2, ReadingFields
    <3> QED BY <1>1, <1>3, <3>1 DEF Refusable, EndsWithSpace, NoSpace
  <2>5. /\ EndsWithSpace(t) /\ Len(buf) < Len(t) => SpaceAt = 0
        /\ EndsWithSpace(t) /\ Len(buf) >= Len(t) =>
             /\ SpaceAt > 0 /\ SpaceAt = Len(t)
             /\ Before(SpaceAt) = SubSeq(t, 1, Len(t) - 1)
             /\ From(SpaceAt + 1) \in Seq(Tokens) /\ From(SpaceAt + 1) \o stream = Rest[k + 1]
        /\ NoSpace(t) /\ Rest[k + 1] = <<>> => SpaceAt = 0
        /\ Rest[k + 1] = <<>> => Len(buf) <= Len(t)
    BY <1>3, MethodEnd
  <2> HIDE DEF t
  <2>6. CASE turn' = "error"
    <3>1. \/ SpaceAt = 0 /\ Len(buf) > MethodMax
          \/ SpaceAt > 0 /\ LET m == Before(SpaceAt)
                           IN  ~ (Len(m) = 1 /\ m[1].kind = "method" /\ m[1].value > 0)
      BY <1>1, <2>6 DEF ParseMethod, setMethod, NeedMore, Continue
    <3>2. ~ IsMethod(t)
      <4> SUFFICES ASSUME IsMethod(t) PROVE FALSE
        OBVIOUS
      <4>1. CASE Len(buf) < Len(t)
        BY <2>1, <2>3, <2>5, <3>1, <4>1, BoundAssumption
      <4>2. CASE Len(buf) >= Len(t)
        <5>1. SpaceAt > 0 /\ Before(SpaceAt) = SubSeq(t, 1, 1)
          <6>1. Len(t) - 1 = 1
            BY <2>3
          <6> QED BY <2>3, <2>5, <4>2, <6>1
        <5>2. Len(SubSeq(t, 1, 1)) = 1 /\ SubSeq(t, 1, 1)[1] = t[1]
          BY <2>1, <2>3
        <5> QED BY <3>1, <5>1, <5>2 DEF IsMethod
      <4> QED BY <2>1, <4>1, <4>2
    <3> QED BY <2>4, <2>6, <3>2 DEF Outcome, GivesUp
  <2>7. CASE turn' = "more"
    <3>1. SpaceAt = 0 /\ Len(buf) <= MethodMax /\ NeedMore /\ UNCHANGED <<request, pool>>
      BY <1>1, <2>7 DEF ParseMethod, Refuse, Continue
    <3>2. Len(buf) < Len(t)
      BY <2>1, <2>3, <2>4, <2>5, <3>1, BoundAssumption
    <3> QED BY <1>1, <3>1, <3>2 DEF NeedMore, Outcome, Waits, Short, t
  <2>8. CASE turn' # "error" /\ turn' # "more"
    <3>1. /\ SpaceAt > 0
          /\ LET m == Before(SpaceAt)
             IN  /\ Len(m) = 1 /\ m[1].kind = "method" /\ m[1].value > 0
                 /\ data' = [data EXCEPT ![request]["method"] = m[1].value]
          /\ Continue("kExpectRequestLine", From(SpaceAt + 1))
          /\ UNCHANGED <<content, chunk, request>>
      BY <2>8 DEF ParseMethod, setMethod, Refuse, NeedMore, Set
    <3>2. EndsWithSpace(t) /\ Len(buf) >= Len(t)
      BY <2>1, <2>3, <2>4, <2>5, <3>1
    <3>3. Before(SpaceAt) = SubSeq(t, 1, Len(t) - 1) /\ Len(t) - 1 = 1 /\ Before(SpaceAt)[1] = t[1]
      <4>1. Before(SpaceAt) = SubSeq(t, 1, Len(t) - 1)
        BY <2>5, <3>2
      <4>2. Len(t) >= 1
        BY <2>1, <3>2 DEF EndsWithSpace
      <4>3. Len(SubSeq(t, 1, Len(t) - 1)) = Len(t) - 1
        <5>1. Len(t) - 1 \in 0..Len(t)
          BY <2>1, <4>2
        <5> QED BY <2>1, <5>1, StartIs
      <4>4. Len(t) - 1 = 1
        BY <3>1, <4>1, <4>3
      <4>5. SubSeq(t, 1, 1)[1] = t[1]
        BY <2>1, <4>4
      <4> QED BY <4>1, <4>4, <4>5
    <3>4. IsMethod(t)
      <4>1. Len(t) = 2
        BY <2>1, <3>3
      <4> QED BY <3>1, <3>2, <3>3, <4>1 DEF IsMethod, EndsWithSpace
    <3>5. q = [p EXCEPT !.at = "kExpectRequestLine", !.r.method = t[1].value]
      BY <2>2, <3>4
    <3>6. /\ q.at = "kExpectRequestLine" /\ q.out = p.out /\ q.content = 0
          /\ q.r = [p.r EXCEPT !.method = t[1].value]
      <4> HIDE DEF p, q
      <4> QED BY <1>1, <3>5 DEF Readings
    <3>7. data' = [data EXCEPT ![request] = q.r]
      <4>1. data' = [data EXCEPT ![request] = [data[request] EXCEPT !["method"] = t[1].value]]
        BY <3>1, <3>3
      <4> HIDE DEF q
      <4> QED BY <1>1, <3>6, <4>1
    <3>8. Takes(k)
      BY <1>3, <2>5, <3>1, <3>2 DEF Takes, Continue
    <3>9. GoesOn(k)
      BY <1>1, <3>1, <3>6, <3>7, <3>8, SetBecomes DEF GoesOn, Continue
    <3> QED BY <3>9 DEF Outcome
  <2> QED BY <2>6, <2>7, <2>8
<1>4. p.at # "kExpectBody"
  BY <1>1
<1> QED BY <1>2, <1>3, <1>4, Ahead

LEMMA CrlfIsOne ==
  /\ OneLine(CRLF) /\ Len(CRLF) = 2 /\ CRLF[1] = CR /\ CRLF[2] = LF /\ CRLF \in Seq(Tokens)
<1>1. Len(CRLF) = 2 /\ CRLF[1] = CR /\ CRLF[2] = LF
  BY DEF CRLF
<1>2. CRLF \in Seq(Tokens)
  BY DEF CRLF, CR, LF, Token, Tokens
<1>3. SubSeq(CRLF, 1, 2) = CRLF
  BY <1>1, <1>2
<1>4. NoneBefore(CRLF, 1) /\ 2 - 1 = 1
  BY DEF NoneBefore
<1> QED BY <1>1, <1>2, <1>3, <1>4 DEF OneLine

LEMMA LineIsOne ==
  ASSUME NEW t \in Seq(Tokens), NEW kinds, "cr" \notin kinds, IsLine(t, kinds)
  PROVE  OneLine(t) /\ Len(t) = 3
<1>1. Len(t) = 3 /\ t[1].kind \in kinds /\ t[2] = CR /\ t[3] = LF
  BY DEF IsLine
<1>2. CR.kind = "cr"
  BY DEF CR, Token
<1>3. SubSeq(t, 2, 3) = CRLF
  <2>1. /\ SubSeq(t, 2, 3) \in Seq(Tokens) /\ Len(SubSeq(t, 2, 3)) = 2
        /\ SubSeq(t, 2, 3)[1] = t[2] /\ SubSeq(t, 2, 3)[2] = t[3]
    BY <1>1
  <2>2. \A i \in 1..2 : SubSeq(t, 2, 3)[i] = CRLF[i]
    BY <1>1, <2>1, CrlfIsOne
  <2> QED BY <2>1, <2>2, CrlfIsOne, SeqEqual
<1>4. NoneBefore(t, 2)
  BY <1>1, <1>2 DEF NoneBefore
<1>5. 3 - 1 = 2
  OBVIOUS
<1> QED BY <1>1, <1>3, <1>4, <1>5 DEF OneLine

\* What a line holds before its end
LEMMA LineHolds ==
  ASSUME NEW t \in Seq(Tokens), OneLine(t), NEW kinds
  PROVE  LET line == SubSeq(t, 1, Len(t) - 2)
         IN  /\ line \in Seq(Tokens) /\ Len(line) = Len(t) - 2
             /\ \A i \in 1..Len(line) : line[i] = t[i]
             /\ Len(line) = 1 /\ line[1].kind \in kinds => IsLine(t, kinds)
             /\ line = <<>> => t = CRLF
<1> DEFINE line == SubSeq(t, 1, Len(t) - 2)
           n == Len(t)
<1>1. n \in Nat /\ n >= 2 /\ SubSeq(t, n - 1, n) = CRLF
  BY DEF OneLine
<1>2. n - 2 \in 0..Len(t)
  BY <1>1
<1>3. line \in Seq(Tokens) /\ Len(line) = n - 2 /\ \A i \in 1..(n - 2) : line[i] = t[i]
  <2> HIDE DEF n
  <2>1. n - 2 \in 0..Len(t)
    BY <1>2
  <2> QED BY <2>1, StartIs DEF n
<1>4. t[n - 1] = CR /\ t[n] = LF
  <2>1. SubSeq(t, n - 1, n)[1] = t[n - 1] /\ SubSeq(t, n - 1, n)[2] = t[n]
    BY <1>1
  <2> QED BY <1>1, <2>1, CrlfIsOne
<1>5. ASSUME Len(line) = 1, line[1].kind \in kinds PROVE IsLine(t, kinds)
  <2>1. n = 3 /\ line[1] = t[1]
    BY <1>1, <1>3, <1>5
  <2> QED BY <1>4, <1>5, <2>1 DEF IsLine
<1>6. ASSUME line = <<>> PROVE t = CRLF
  <2>1. n = 2
    <3> HIDE DEF n, line
    <3> QED BY <1>1, <1>3, <1>6, Len(<<>>) = 0
  <2> QED BY <1>4, <2>1 DEF CRLF
<1> QED BY <1>3, <1>5, <1>6


\* Where a line is read, a whole line is ahead, or a last one that has no end.
LEMMA LineAhead ==
  ASSUME NEW k, Setting(k), NEW limit \in Nat,
         \/ Reading[k].at \in {"kExpectRequestLine", "kExpectHeaders"} /\ limit = LineMax
         \/ Reading[k].at = "kExpectChunkLen" /\ limit = SizeMax + 1
  PROVE  LET p == Reading[k]
             t == Spoken[k + 1]
             q == Reading[k + 1]
         IN  /\ k + 1 \in 1..Len(Spoken) /\ t \in Seq(Tokens) /\ buf \in Seq(Tokens)
             /\ p \in Readings /\ q = Says(p, t)
             /\ q.at = "refused" => FirstFatal(script) # 0
             /\ CrlfAt > 0 =>
                  /\ OneLine(t) /\ Before(CrlfAt) = SubSeq(t, 1, Len(t) - 2)
                  /\ From(CrlfAt + 2) \in Seq(Tokens) /\ From(CrlfAt + 2) \o stream = Rest[k + 1]
             /\ CrlfAt = 0 /\ Len(buf) < limit => Len(buf) < Len(t)
             /\ CrlfAt = 0 /\ Len(buf) >= limit => q.at = "refused"
             /\ CrlfAt \in Nat
<1> DEFINE p == Reading[k]
           t == Spoken[k + 1]
           q == Reading[k + 1]
<1>1. /\ k + 1 \in 1..Len(Spoken) /\ CutTwice(buf, stream, t, Rest[k + 1], Tokens)
      /\ k + 1 = Len(Spoken) => Rest[k + 1] = <<>>
      /\ q = Says(p, t)
      /\ q.at = "refused" => /\ Refusable(p, t, k + 1 = Len(Spoken))
                             /\ FirstFatal(script) # 0
  BY Ahead
<1>2. t \in Seq(Tokens) /\ buf \in Seq(Tokens) /\ Len(t) \in Nat /\ Len(buf) \in Nat
  BY <1>1 DEF CutTwice
<1>3. p \in Readings
  BY SettingIs
<1>4. limit >= 3
  BY BoundAssumption
<1>5. CrlfAt \in Nat
  BY <1>2, CrlfIs DEF FirstOf
<1>6. /\ OneLine(t) /\ Len(buf) < Len(t) => CrlfAt = 0
      /\ OneLine(t) /\ Len(buf) >= Len(t) =>
           /\ CrlfAt > 0 /\ CrlfAt = Len(t) - 1
           /\ Before(CrlfAt) = SubSeq(t, 1, Len(t) - 2)
           /\ From(CrlfAt + 2) \in Seq(Tokens) /\ From(CrlfAt + 2) \o stream = Rest[k + 1]
      /\ NoneBefore(t, Len(t)) /\ Rest[k + 1] = <<>> => CrlfAt = 0
      /\ Rest[k + 1] = <<>> => Len(buf) <= Len(t)
  BY <1>1, LineEnd
<1>7. "cr" \notin {"line"} /\ "cr" \notin HeaderKinds /\ "cr" \notin {"size"}
  BY DEF HeaderKinds
<1>8. /\ IsLine(t, {"line"}) => OneLine(t) /\ Len(t) <= 3
      /\ IsLine(t, HeaderKinds) => OneLine(t) /\ Len(t) <= 3
      /\ IsLine(t, {"size"}) => OneLine(t) /\ Len(t) <= 3
      /\ t = CRLF => OneLine(t) /\ Len(t) <= 3
  <2> HIDE DEF t
  <2>1. IsLine(t, {"line"}) => OneLine(t) /\ Len(t) = 3
    BY <1>2, <1>7, LineIsOne
  <2>2. IsLine(t, HeaderKinds) => OneLine(t) /\ Len(t) = 3
    BY <1>2, <1>7, LineIsOne
  <2>3. IsLine(t, {"size"}) => OneLine(t) /\ Len(t) = 3
    BY <1>2, <1>7, LineIsOne
  <2>4. t = CRLF => OneLine(t) /\ Len(t) = 2
    BY CrlfIsOne
  <2>5. 2 <= 3 /\ 3 <= 3
    OBVIOUS
  <2> QED BY <2>1, <2>2, <2>3, <2>4, <2>5, Zenon
<1>9. q.at = "refused" \/ (OneLine(t) /\ Len(t) <= 3)
  <2>1. Refused(p).at = "refused"
    BY <1>3, ReadingFields
  <2>2. CASE p.at = "kExpectRequestLine"
    BY <1>1, <1>8, <2>1, <2>2, SaysAt
  <2>3. CASE p.at = "kExpectHeaders"
    BY <1>1, <1>8, <2>1, <2>3, SaysAt
  <2>4. CASE p.at = "kExpectChunkLen"
    BY <1>1, <1>8, <2>1, <2>4, SaysAt
  <2> QED BY <2>2, <2>3, <2>4
<1>10. OneLine(t) \/ (Rest[k + 1] = <<>> /\ NoneBefore(t, Len(t)) /\ Len(t) >= limit)
  <2>1. CASE q.at = "refused"
    <3>1. Refusable(p, t, k + 1 = Len(Spoken))
      BY <1>1, <2>1
    <3>2. CASE p.at = "kExpectRequestLine"
      BY <1>1, <3>1, <3>2 DEF Refusable, NoLine
    <3>3. CASE p.at = "kExpectHeaders"
      BY <1>1, <1>8, <3>1, <3>3 DEF Refusable, NoLine
    <3>4. CASE p.at = "kExpectChunkLen"
      BY <1>1, <1>8, <3>1, <3>4 DEF Refusable, NoLine
    <3> QED BY <3>2, <3>3, <3>4
  <2> QED BY <1>9, <2>1
<1> HIDE DEF t, p, q
<1>11. CrlfAt > 0 =>
         /\ OneLine(t) /\ Before(CrlfAt) = SubSeq(t, 1, Len(t) - 2)
         /\ From(CrlfAt + 2) \in Seq(Tokens) /\ From(CrlfAt + 2) \o stream = Rest[k + 1]
  BY <1>2, <1>6, <1>10
<1>12. CrlfAt = 0 /\ Len(buf) < limit => Len(buf) < Len(t)
  BY <1>2, <1>6, <1>10
<1>13. CrlfAt = 0 /\ Len(buf) >= limit => q.at = "refused"
  BY <1>2, <1>4, <1>6, <1>9
<1> QED BY <1>1, <1>2, <1>3, <1>5, <1>11, <1>12, <1>13 DEF t, p, q

LEMMA RequestLineOutcome ==
  ASSUME NEW k, Setting(k), ParseRequestLine
  PROVE  Outcome(k)
<1> DEFINE p == Reading[k]
           t == Spoken[k + 1]
           q == Reading[k + 1]
           good(line) == Len(line) = 1 /\ line[1].kind = "line" /\ line[1].value > 0
<1>1. /\ turn = "parse" /\ p.at = "kExpectRequestLine" /\ data[request] = p.r
      /\ content = p.content
  BY SettingIs DEF ParseRequestLine, In
<1>2. /\ k + 1 \in 1..Len(Spoken) /\ t \in Seq(Tokens) /\ buf \in Seq(Tokens)
      /\ p \in Readings /\ q = Says(p, t)
      /\ q.at = "refused" => FirstFatal(script) # 0
      /\ CrlfAt > 0 =>
           /\ OneLine(t) /\ Before(CrlfAt) = SubSeq(t, 1, Len(t) - 2)
           /\ From(CrlfAt + 2) \in Seq(Tokens) /\ From(CrlfAt + 2) \o stream = Rest[k + 1]
      /\ CrlfAt = 0 /\ Len(buf) < LineMax => Len(buf) < Len(t)
      /\ CrlfAt = 0 /\ Len(buf) >= LineMax => q.at = "refused"
  BY <1>1, BoundAssumption, LineAhead
<1>3. q = IF IsLine(t, {"line"}) /\ t[1].value > 0
          THEN [p EXCEPT !.at = "kExpectHeaders", !.r.version = t[1].value]
          ELSE Refused(p)
  BY <1>1, <1>2, SaysAt
<1>4. Refused(p).at = "refused"
  BY <1>2, ReadingFields
<1> HIDE DEF t, q, p
<1>5. CrlfAt > 0 => /\ good(Before(CrlfAt)) <=> (IsLine(t, {"line"}) /\ t[1].value > 0)
                    /\ good(Before(CrlfAt)) => Before(CrlfAt)[1] = t[1]
  <2> SUFFICES ASSUME CrlfAt > 0
               PROVE  /\ good(Before(CrlfAt)) <=> (IsLine(t, {"line"}) /\ t[1].value > 0)
                      /\ good(Before(CrlfAt)) => Before(CrlfAt)[1] = t[1]
    OBVIOUS
  <2> DEFINE line == Before(CrlfAt)
  <2>1. line = SubSeq(t, 1, Len(t) - 2) /\ OneLine(t)
    BY <1>2
  <2>2. /\ line \in Seq(Tokens) /\ Len(line) = Len(t) - 2
        /\ \A i \in 1..Len(line) : line[i] = t[i]
        /\ Len(line) = 1 /\ line[1].kind \in {"line"} => IsLine(t, {"line"})
    BY <1>2, <2>1, LineHolds
  <2> HIDE DEF line
  <2>3. ASSUME good(line) PROVE IsLine(t, {"line"}) /\ t[1].value > 0 /\ line[1] = t[1]
    <3>1. line[1] = t[1]
      BY <2>2, <2>3, 1 \in 1..1
    <3> QED BY <2>2, <2>3, <3>1
  <2>4. ASSUME IsLine(t, {"line"}), t[1].value > 0 PROVE good(line)
    <3>1. Len(line) = 1 /\ line[1] = t[1] /\ t[1].kind = "line"
      BY <2>2, <2>4 DEF IsLine
    <3> QED BY <2>4, <3>1
  <2> QED BY <2>3, <2>4 DEF line
<1>6. CASE turn' = "error"
  <2>1. \/ CrlfAt = 0 /\ Len(buf) >= LineMax
        \/ CrlfAt > 0 /\ ~ good(Before(CrlfAt))
    BY <1>1, <1>6 DEF ParseRequestLine, NeedMore, Continue
  <2> HIDE DEF good
  <2> QED BY <1>2, <1>3, <1>4, <1>5, <1>6, <2>1 DEF Outcome, GivesUp
<1>7. CASE turn' = "more"
  <2>1. CrlfAt = 0 /\ Len(buf) < LineMax /\ NeedMore /\ UNCHANGED <<request, pool>>
    BY <1>1, <1>7 DEF ParseRequestLine, Refuse, Continue
  <2> QED BY <1>1, <1>2, <2>1 DEF NeedMore, Outcome, Waits, Short, t, p
<1>8. CASE turn' # "error" /\ turn' # "more"
  <2>1. /\ CrlfAt > 0 /\ good(Before(CrlfAt))
        /\ data' = [data EXCEPT ![request]["version"] = Before(CrlfAt)[1].value]
        /\ Continue("kExpectHeaders", From(CrlfAt + 2))
        /\ UNCHANGED <<content, chunk, request>>
    BY <1>8 DEF ParseRequestLine, Refuse, NeedMore, Set
  <2> HIDE DEF good
  <2>2. /\ q = [p EXCEPT !.at = "kExpectHeaders", !.r.version = t[1].value]
        /\ Before(CrlfAt)[1] = t[1]
    BY <1>3, <1>5, <2>1
  <2>3. /\ q.at = "kExpectHeaders" /\ q.out = p.out /\ q.content = p.content
        /\ q.r = [p.r EXCEPT !.version = t[1].value]
    BY <1>2, <2>2 DEF Readings
  <2>4. data' = [data EXCEPT ![request] = q.r]
    <3>1. data' = [data EXCEPT ![request] = [data[request] EXCEPT !["version"] = t[1].value]]
      BY <2>1, <2>2
    <3> QED BY <1>1, <2>3, <3>1
  <2>5. Takes(k)
    BY <1>2, <2>1 DEF Takes, Continue
  <2>6. GoesOn(k)
    BY <1>1, <2>1, <2>3, <2>4, <2>5, SetBecomes DEF GoesOn, Continue, p, q
  <2> QED BY <2>6 DEF Outcome
<1> QED BY <1>6, <1>7, <1>8

\* A line of the headers is a header, or it ends them.
LEMMA HeaderLineIs ==
  ASSUME NEW k, Setting(k), Reading[k].at = "kExpectHeaders", CrlfAt > 0
  PROVE  LET t == Spoken[k + 1]
         IN  \/ IsLine(t, HeaderKinds) /\ HeaderLine = 1 /\ buf[HeaderLine] = t[1]
             \/ t = CRLF /\ HeaderLine = 0
<1> DEFINE p == Reading[k]
           t == Spoken[k + 1]
           q == Reading[k + 1]
           line == Before(CrlfAt)
           H == {i \in 1..Len(line) : IsHeader(line[i])}
<1>1. /\ k + 1 \in 1..Len(Spoken) /\ t \in Seq(Tokens) /\ buf \in Seq(Tokens)
      /\ p \in Readings /\ q = Says(p, t)
      /\ OneLine(t) /\ line = SubSeq(t, 1, Len(t) - 2)
      /\ CutTwice(buf, stream, t, Rest[k + 1], Tokens)
      /\ k + 1 = Len(Spoken) => Rest[k + 1] = <<>>
      /\ q.at = "refused" => Refusable(p, t, k + 1 = Len(Spoken))
  BY BoundAssumption, LineAhead, Ahead
<1>2. /\ line \in Seq(Tokens) /\ Len(line) = Len(t) - 2 /\ Len(line) \in Nat
      /\ \A i \in 1..Len(line) : line[i] = t[i]
  <2> DEFINE s == SubSeq(t, 1, Len(t) - 2)
  <2>1. /\ s \in Seq(Tokens) /\ Len(s) = Len(t) - 2
        /\ \A i \in 1..Len(s) : s[i] = t[i]
        /\ Len(s) = 1 /\ s[1].kind \in HeaderKinds => IsLine(t, HeaderKinds)
    BY <1>1, LineHolds
  <2> HIDE DEF s
  <2>2. s = line
    BY <1>1 DEF s
  <2> HIDE DEF line
  <2> QED BY <2>1, <2>2
<1>3. HeaderLine = IF H # {} THEN Min(H) ELSE 0
  BY DEF HeaderLine, SelectInSeq
<1>4. IsLine(t, HeaderKinds) \/ t = CRLF
  <2>1. CASE q.at = "refused"
    <3>1. t = CRLF \/ (NoneBefore(t, Len(t)) /\ Rest[k + 1] = <<>>)
      BY <1>1, <2>1 DEF Refusable, NoLine
    <3>2. ~ (NoneBefore(t, Len(t)) /\ Rest[k + 1] = <<>>)
      BY <1>1, LineEnd
    <3> QED BY <3>1, <3>2
  <2>2. CASE q.at # "refused"
    <3>1. Refused(p).at = "refused"
      BY <1>1, ReadingFields
    <3> QED BY <1>1, <2>2, <3>1, SaysAt
  <2> QED BY <2>1, <2>2
<1>5. CASE IsLine(t, HeaderKinds)
  <2>1. Len(line) = 1 /\ line[1] = t[1] /\ t[1].kind \in HeaderKinds
    BY <1>2, <1>5 DEF IsLine
  <2> HIDE DEF line
  <2>2. H = {1}
    BY <2>1 DEF IsHeader
  <2>3. HeaderLine = 1
    <3>1. Min({1}) = 1
      BY DEF Min
    <3> QED BY <1>3, <2>2, <3>1
  <2>4. buf[1] = t[1]
    <3>1. CrlfAt \in 1..Len(buf)
      BY <1>1, CrlfIs DEF FirstOf
    <3>2. 1 \in 1..Len(buf) /\ 1 <= Len(t)
      BY <1>1, <1>5, <3>1 DEF IsLine
    <3> QED BY <1>1, <3>2, DropFirst
  <2> QED BY <1>5, <2>3, <2>4
<1>6. CASE t = CRLF
  <2>1. H = {}
    BY <1>2, <1>6, CrlfIsOne
  <2> QED BY <1>3, <1>6, <2>1
<1> QED BY <1>4, <1>5, <1>6

LEMMA AddHeaderOutcome ==
  ASSUME NEW k, Setting(k), AddHeader
  PROVE  Outcome(k)
<1> DEFINE p == Reading[k]
           t == Spoken[k + 1]
           q == Reading[k + 1]
<1>1. /\ turn = "parse" /\ p.at = "kExpectHeaders" /\ data[request] = p.r
      /\ content = p.content
  BY SettingIs DEF AddHeader, In
<1>2. /\ k + 1 \in 1..Len(Spoken) /\ t \in Seq(Tokens) /\ buf \in Seq(Tokens)
      /\ p \in Readings /\ q = Says(p, t)
      /\ q.at = "refused" => FirstFatal(script) # 0
      /\ CrlfAt > 0 => From(CrlfAt + 2) \in Seq(Tokens) /\ From(CrlfAt + 2) \o stream = Rest[k + 1]
      /\ CrlfAt = 0 /\ Len(buf) < LineMax => Len(buf) < Len(t)
      /\ CrlfAt = 0 /\ Len(buf) >= LineMax => q.at = "refused"
  BY <1>1, BoundAssumption, LineAhead
<1> HIDE DEF t, q, p
<1>3. CASE turn' = "error"
  <2>1. CrlfAt = 0 /\ Len(buf) >= LineMax
    BY <1>1, <1>3 DEF AddHeader, NeedMore, Continue
  <2> QED BY <1>2, <1>3, <2>1 DEF Outcome, GivesUp
<1>4. CASE turn' = "more"
  <2>1. CrlfAt = 0 /\ Len(buf) < LineMax /\ NeedMore /\ UNCHANGED <<request, pool>>
    BY <1>1, <1>4 DEF AddHeader, Refuse, Continue
  <2> QED BY <1>1, <1>2, <2>1 DEF NeedMore, Outcome, Waits, Short, t, p
<1>5. CASE turn' # "error" /\ turn' # "more"
  <2>1. /\ CrlfAt > 0 /\ HeaderLine > 0
        /\ data' = [data EXCEPT ![request] = WithHeader(data[request], buf[HeaderLine])]
        /\ Continue("kExpectHeaders", From(CrlfAt + 2))
        /\ UNCHANGED <<content, chunk, request>>
    BY <1>5 DEF AddHeader, Refuse, NeedMore
  <2>2. IsLine(t, HeaderKinds) /\ buf[HeaderLine] = t[1]
    BY <1>1, <2>1, HeaderLineIs DEF t, p
  <2>3. q = [p EXCEPT !.r = WithHeader(p.r, t[1])]
    BY <1>1, <1>2, <2>2, SaysAt
  <2>4. /\ q.at = p.at /\ q.out = p.out /\ q.content = p.content
        /\ q.r = WithHeader(p.r, t[1])
    BY <1>2, <2>3 DEF Readings
  <2>5. data' = [data EXCEPT ![request] = q.r]
    BY <1>1, <2>1, <2>2, <2>4
  <2>6. Takes(k)
    BY <1>2, <2>1 DEF Takes, Continue
  <2>7. GoesOn(k)
    BY <1>1, <2>1, <2>4, <2>5, <2>6, SetBecomes DEF GoesOn, Continue, p, q
  <2> QED BY <2>7 DEF Outcome
<1> QED BY <1>3, <1>4, <1>5

LEMMA EndHeadersOutcome ==
  ASSUME NEW k, Setting(k), EndHeaders
  PROVE  Outcome(k)
<1> DEFINE p == Reading[k]
           t == Spoken[k + 1]
           q == Reading[k + 1]
           r == p.r
           rest == From(CrlfAt + 2)
           size == IF r.length = None THEN 0 ELSE r.length
           next == IF r.length = None THEN "kExpectChunkLen" ELSE "kExpectBody"
           framed == (r.length # None /\ r.length > 0) \/ (r.length = None /\ r.coding = 1)
           waits == r.expect = 1 /\ r.version >= 11
           on == [p EXCEPT !.at = next, !.content = size]
<1>1. /\ turn = "parse" /\ p.at = "kExpectHeaders" /\ data[request] = r
      /\ content = 0 /\ p \in Readings /\ CrlfAt > 0 /\ HeaderLine = 0
  BY SettingIs DEF EndHeaders, In
<1>2. /\ r \in Requested /\ r.length \in Optional /\ r.coding \in Optional
      /\ r.expect \in Optional /\ r.version \in Int /\ MaxBody \in Nat /\ None \notin Int
  BY <1>1, ReadingFields, BoundAssumption DEF Requested
<1>3. /\ k + 1 \in 1..Len(Spoken) /\ q = Says(p, t)
      /\ q.at = "refused" => FirstFatal(script) # 0
      /\ rest \in Seq(Tokens) /\ rest \o stream = Rest[k + 1]
      /\ t = CRLF
  BY <1>1, BoundAssumption, LineAhead, HeaderLineIs
<1>4. q = AfterHeaders(p)
  <2>1. ~ IsLine(t, HeaderKinds)
    BY <1>3, CrlfIsOne DEF IsLine
  <2> QED BY <1>1, <1>3, <2>1, SaysAt
<1>5. q = IF r.length = -1 \/ (r.length = None /\ r.coding = 0) THEN Refused(p)
          ELSE IF r.length = 0 \/ (r.length = None /\ r.coding = None) THEN Done(p, 0)
          ELSE IF waits /\ size > MaxBody THEN Fresh(p.out)
          ELSE IF size <= MaxBody /\ (r.expect = None \/ (waits /\ size > 0)) THEN on
          ELSE Refused(p)
  BY <1>4 DEF AfterHeaders
<1>6. Refused(p).at = "refused"
  BY <1>1, ReadingFields
<1>7. /\ on.at = next /\ on.at # "refused" /\ on.at # "kExpectChunkBody" /\ on.content = size
      /\ on.r = r /\ on.out = p.out
  BY <1>1 DEF Readings
<1>8. \/ /\ r.length = -1 \/ (r.length = None /\ r.coding = 0)
         /\ turn' = "error"
      \/ /\ r.length = 0 \/ (r.length = None /\ r.coding = None)
         /\ Got(rest) /\ UNCHANGED <<content, chunk, request, pool, data, wire>>
      \/ framed /\ waits /\ size = 0 /\ turn' = "error"
      \/ /\ framed /\ waits /\ size > MaxBody
         /\ buf' = rest /\ status' = "kExpectMethod" /\ content' = 0 /\ Renew(data, FALSE)
         /\ turn' = turn
      \/ /\ framed /\ waits /\ size \in 1..MaxBody
         /\ buf' = rest /\ status' = next /\ content' = size /\ UNCHANGED <<request, data, turn>>
      \/ framed /\ ~ waits /\ r.expect # None /\ turn' = "error"
      \/ framed /\ r.expect = None /\ size > MaxBody /\ turn' = "error"
      \/ /\ framed /\ r.expect = None /\ size <= MaxBody
         /\ buf' = rest /\ status' = next /\ content' = size /\ UNCHANGED <<request, data, turn>>
  <2> DEFINE r1 == data[request]
             size1 == IF r1.length = None THEN content ELSE r1.length
             framed1 == (r1.length # None /\ r1.length > 0) \/ (r1.length = None /\ r1.coding = 1)
             waits1 == r1.expect = 1 /\ r1.version >= 11
             next1 == IF r1.length # None THEN "kExpectBody" ELSE "kExpectChunkLen"
  <2>1. r1 = r /\ size1 = size /\ next1 = next
    BY <1>1
  <2> HIDE DEF rest, size, next, r, p
  <2>2. \/ /\ r1.length = -1 \/ (r1.length = None /\ r1.coding = 0)
           /\ turn' = "error"
        \/ /\ r1.length = 0 \/ (r1.length = None /\ r1.coding = None)
           /\ Got(rest) /\ UNCHANGED <<content, chunk, request, pool, data, wire>>
        \/ framed1 /\ waits1 /\ size1 = 0 /\ turn' = "error"
        \/ /\ framed1 /\ waits1 /\ size1 > MaxBody
           /\ buf' = rest /\ status' = "kExpectMethod" /\ content' = 0 /\ Renew(data, FALSE)
           /\ turn' = turn
        \/ /\ framed1 /\ waits1 /\ size1 \in 1..MaxBody
           /\ buf' = rest /\ status' = next1 /\ content' = size1
           /\ UNCHANGED <<request, data, turn>>
        \/ framed1 /\ ~ waits1 /\ r1.expect # None /\ turn' = "error"
        \/ framed1 /\ r1.expect = None /\ size1 > MaxBody /\ turn' = "error"
        \/ /\ framed1 /\ r1.expect = None /\ size1 <= MaxBody
           /\ buf' = rest /\ status' = next1 /\ content' = size1
           /\ UNCHANGED <<request, data, turn>>
    BY ZenonT(120) DEF EndHeaders, Refuse, Continue, rest
  <2> HIDE DEF r1, size1, next1
  <2> QED BY <2>1, <2>2
<1> HIDE DEF p, q, t, rest
<1>9. framed =>
        /\ ~ (r.length = -1 \/ (r.length = None /\ r.coding = 0))
        /\ ~ (r.length = 0 \/ (r.length = None /\ r.coding = None))
  BY <1>2
<1>10. waits => r.expect # None
  BY <1>2
<1> HIDE DEF r
<1>11. ASSUME q = Refused(p), turn' = "error" PROVE Outcome(k)
  BY <1>3, <1>6, <1>11 DEF Outcome, GivesUp
<1>12. ASSUME q = on, buf' = rest, status' = next, content' = size, UNCHANGED <<request, data, turn>>
       PROVE  Outcome(k)
  <2>1. Takes(k)
    BY <1>3, <1>12 DEF Takes
  <2>2. Becomes(q.r)
    BY <1>1, <1>7, <1>12 DEF Becomes, r
  <2> QED BY <1>7, <1>12, <2>1, <2>2 DEF Outcome, GoesOn, p, q
<1> HIDE DEF on
<1>13. CASE (r.length = -1 \/ (r.length = None /\ r.coding = 0)) /\ turn' = "error"
  BY <1>5, <1>11, <1>13
<1>14. CASE /\ r.length = 0 \/ (r.length = None /\ r.coding = None)
            /\ Got(rest) /\ UNCHANGED <<content, chunk, request, pool, data, wire>>
  <2>1. ~ (r.length = -1 \/ (r.length = None /\ r.coding = 0))
    BY <1>2, <1>14
  <2>2. q = Done(p, 0)
    BY <1>5, <1>14, <2>1
  <2>3. r.body = 0
    BY <1>1, SettingIs DEF Orderly, p, r
  <2>4. q = Fresh(Append(p.out, [id |-> r.method, body |-> r.body]))
    BY <2>2, <2>3 DEF Done, r
  <2>5. Takes(k) /\ turn' = "got"
    BY <1>3, <1>14 DEF Takes, Got
  <2>6. Becomes(r)
    BY <1>1, <1>14 DEF Becomes
  <2> QED BY <2>4, <2>5, <2>6 DEF Outcome, Finishes, p, q
<1>15. CASE framed /\ waits /\ size = 0 /\ turn' = "error"
  <2>1. ~ (size > MaxBody) /\ ~ (size > 0)
    BY <1>2, <1>15
  <2> HIDE DEF framed, waits, size
  <2> QED BY <1>5, <1>9, <1>10, <1>11, <1>15, <2>1
<1>16. CASE /\ framed /\ waits /\ size > MaxBody
            /\ buf' = rest /\ status' = "kExpectMethod" /\ content' = 0 /\ Renew(data, FALSE)
            /\ turn' = turn
  <2>1. q = Fresh(p.out)
    <3> HIDE DEF framed, waits, size
    <3> QED BY <1>5, <1>9, <1>16
  <2>2. Takes(k)
    BY <1>3, <1>16 DEF Takes
  <2> QED BY <1>16, <2>1, <2>2 DEF Outcome, SkipsOver, p, q
<1>17. CASE /\ framed /\ waits /\ size \in 1..MaxBody
            /\ buf' = rest /\ status' = next /\ content' = size /\ UNCHANGED <<request, data, turn>>
  <2>1. ~ (size > MaxBody) /\ size <= MaxBody /\ size > 0
    BY <1>2, <1>17
  <2> HIDE DEF framed, waits, size, next
  <2>2. q = on
    BY <1>5, <1>9, <1>17, <2>1
  <2> QED BY <1>12, <1>17, <2>2
<1>18. CASE framed /\ ~ waits /\ r.expect # None /\ turn' = "error"
  <2> HIDE DEF framed, waits, size
  <2> QED BY <1>5, <1>9, <1>11, <1>18
<1>19. CASE framed /\ r.expect = None /\ size > MaxBody /\ turn' = "error"
  <2>1. ~ (size <= MaxBody) /\ ~ waits
    <3>1. size \in Int
      BY <1>2 DEF Optional
    <3> QED BY <1>2, <1>10, <1>19, <3>1
  <2> HIDE DEF framed, waits, size
  <2> QED BY <1>5, <1>9, <1>11, <1>19, <2>1
<1>20. CASE /\ framed /\ r.expect = None /\ size <= MaxBody
            /\ buf' = rest /\ status' = next /\ content' = size /\ UNCHANGED <<request, data, turn>>
  <2>1. ~ waits
    BY <1>10, <1>20
  <2> HIDE DEF framed, waits, size, next
  <2>2. q = on
    BY <1>5, <1>9, <1>20, <2>1
  <2> QED BY <1>12, <1>20, <2>2
<1> QED BY <1>8, <1>13, <1>14, <1>15, <1>16, <1>17, <1>18, <1>19, <1>20

LEMMA BodyTwice ==
  ASSUME NEW r \in Requested, NEW a, NEW b
  PROVE  [[r EXCEPT !.body = a] EXCEPT !.body = b] = [r EXCEPT !.body = b]
<1> DEFINE f == [r EXCEPT !.body = a]
           g == [f EXCEPT !.body = b]
           h == [r EXCEPT !.body = b]
<1>1. DOMAIN f = DOMAIN r /\ DOMAIN g = DOMAIN f /\ DOMAIN h = DOMAIN r
  OBVIOUS
<1>2. "body" \in DOMAIN r
  BY DEF Requested
<1>3. \A x \in DOMAIN r : g[x] = h[x]
  BY <1>2
<1>4. g = [x \in DOMAIN r |-> g[x]] /\ h = [x \in DOMAIN r |-> h[x]]
  BY <1>1
<1> HIDE DEF g, h
<1>5. g = h
  BY <1>3, <1>4
<1> QED BY <1>5 DEF f, g, h

LEMMA BodyOutcome ==
  ASSUME NEW k, Setting(k), ParseBody
  PROVE  Outcome(k)
<1> DEFINE p == Reading[k]
           q == Reading[k + 1]
           t == Spoken[k + 1]
           n == IF content <= Len(buf) THEN content ELSE Len(buf)
           R == Rest[k + 1]
<1>1. /\ turn = "parse" /\ p.at = "kExpectBody" /\ p \in Readings /\ script \in Scripts
      /\ WellSpoken(script) /\ buf \in Seq(Tokens) /\ stream \in Seq(Tokens)
      /\ k \in 0..Len(Spoken) /\ Len(buf) \in Nat /\ request \in DOMAIN data
  BY SettingIs DEF ParseBody, In, Setting
<1>2. /\ k < Len(Spoken) /\ content \in 1..p.content
      /\ data[request] = [p.r EXCEPT !.body = p.content - content]
      /\ \E d \in Seq(Tokens) : Len(d) = content /\ buf \o stream = d \o R
  BY <1>1 DEF Setting, At
<1>3. /\ Len(Spoken) \in Nat /\ k + 1 \in 1..Len(Spoken) /\ (k + 1) - 1 = k /\ k + 1 \in 0..Len(Spoken)
      /\ k + 1 > 0
  BY <1>1, <1>2, ReadingIs
<1>4. R \in Seq(Tokens)
  BY <1>1, <1>3, RestIs DEF Remainders
<1>5. PICK d \in Seq(Tokens) : Len(d) = content /\ buf \o stream = d \o R
  BY <1>2
<1>6. q = Done(p, p.content)
  <2>1. q = Says(p, t)
    <3>1. \A j \in 1..Len(Spoken) : Reading[j] = Says(Reading[j - 1], Spoken[j])
      BY <1>1, ReadingIs
    <3> QED BY <1>3, <3>1
  <2>2. q.at # "refused"
    <3>1. q.at = "refused" => Refusable(p, t, k + 1 = Len(Spoken))
      BY <1>1, <1>3, MeantIs
    <3>2. ~ Refusable(p, t, k + 1 = Len(Spoken))
      BY <1>1 DEF Refusable
    <3> QED BY <3>1, <3>2
  <2>3. Refused(p).at = "refused"
    BY <1>1, ReadingFields
  <2> QED BY <1>1, <2>1, <2>2, <2>3, SaysAt
<1>7. p.r \in Requested /\ p.content \in Nat /\ p.r.body = 0
  BY <1>1, SettingIs, ReadingFields DEF Orderly
<1>8. n \in Nat /\ n <= content /\ p.content - content \in Nat
  BY <1>1, <1>2, <1>7
<1> HIDE DEF p, q, t, R, n
<1>9. Becomes([p.r EXCEPT !.body = (p.content - content) + n])
  <2> DEFINE b == p.content - content
             v == b + n
             r == data[request]
  <2>1. data' = [data EXCEPT ![request]["body"] = r.body + n] /\ request' = request
    BY DEF ParseBody, Set, n
  <2>2. r = [p.r EXCEPT !.body = b]
    BY <1>2
  <2>3. r.body = b
    BY <1>7, <2>2 DEF Requested
  <2>4. data' = [data EXCEPT ![request] = [r EXCEPT !.body = v]]
    BY <2>1, <2>3
  <2>5. [r EXCEPT !.body = v] = [p.r EXCEPT !.body = v]
    <3> HIDE DEF b, v, r
    <3> QED BY <1>7, <2>2, BodyTwice
  <2> HIDE DEF v, r
  <2> QED BY <2>1, <2>4, <2>5, SetBecomes DEF v
<1>10. CASE content = n
  <2>1. buf' = From(n + 1) /\ turn' = "got"
    BY <1>8, <1>10 DEF ParseBody, Got, n
  <2>2. Len(buf) >= Len(d)
    BY <1>1, <1>2, <1>5, <1>7, <1>10 DEF n
  <2>3. From(n + 1) \in Seq(Tokens) /\ From(n + 1) \o stream = R
    <3>1. CutTwice(buf, stream, d, R, Tokens)
      BY <1>1, <1>4, <1>5 DEF CutTwice
    <3>2. /\ SubSeq(buf, Len(d) + 1, Len(buf)) \in Seq(Tokens)
          /\ SubSeq(buf, Len(d) + 1, Len(buf)) \o stream = R
      BY <2>2, <3>1, DropFirst
    <3>3. n = Len(d)
      BY <1>5, <1>10
    <3> QED BY <3>2, <3>3 DEF From
  <2>4. Takes(k)
    BY <1>3, <2>1, <2>3 DEF Takes, R
  <2>5. (p.content - content) + n = p.content
    BY <1>2, <1>7, <1>8, <1>10
  <2> DEFINE r == [p.r EXCEPT !.body = p.content]
  <2>6. Becomes(r)
    BY <1>9, <2>5
  <2>7. r.method = p.r.method /\ r.body = p.content
    BY <1>7 DEF Requested
  <2>8. q = Fresh(Append(p.out, [id |-> r.method, body |-> r.body]))
    <3> HIDE DEF r
    <3> QED BY <1>6, <2>7 DEF Done
  <2> HIDE DEF r
  <2> QED BY <2>1, <2>4, <2>6, <2>8 DEF Outcome, Finishes, p, q
<1>11. CASE content # n
  <2>1. n = Len(buf) /\ content > n /\ content - n \in 1..p.content
    BY <1>1, <1>2, <1>7, <1>8, <1>11 DEF n
  <2>2. buf' = From(n + 1) /\ turn' = "more" /\ status' = status /\ content' = content - n
    BY <1>11 DEF ParseBody, Got, n
  <2>3. From(n + 1) = <<>>
    BY <1>1, <2>1, SubSeqEmpty DEF From
  <2> DEFINE e == SubSeq(d, Len(buf) + 1, Len(d))
  <2>4. CutTwice(d, R, buf, stream, Tokens)
    BY <1>1, <1>4, <1>5 DEF CutTwice
  <2>5. Len(d) + Len(R) = Len(buf) + Len(stream) /\ e \in Seq(Tokens) /\ e \o R = stream
    <3>1. Len(d) >= Len(buf)
      BY <1>1, <1>5, <1>8, <2>1
    <3> QED BY <2>4, <3>1, DropFirst
  <2> HIDE DEF e
  <2>6. Len(e) = content - n
    <3>1. Len(e \o R) = Len(e) + Len(R) /\ Len(e) \in Nat /\ Len(R) \in Nat
      BY <1>4, <2>5
    <3> QED BY <1>1, <1>5, <2>1, <2>5, <3>1
  <2>7. (p.content - content) + n = p.content - (content - n)
    BY <1>2, <1>7, <1>8
  <2>8. Becomes([p.r EXCEPT !.body = p.content - content'])
    BY <1>9, <2>2, <2>7
  <2>9. \E x \in Seq(Tokens) : Len(x) = content' /\ stream = x \o R
    BY <2>2, <2>5, <2>6
  <2> QED BY <1>1, <2>1, <2>2, <2>3, <2>8, <2>9 DEF Outcome, TakesPart, p, R
<1> QED BY <1>10, <1>11

LEMMA ChunkLenOutcome ==
  ASSUME NEW k, Setting(k), ParseChunkLen
  PROVE  Outcome(k)
<1> DEFINE p == Reading[k]
           t == Spoken[k + 1]
           q == Reading[k + 1]
           size == SizeOf(Before(CrlfAt))
           v == t[1].value
           on == [p EXCEPT !.at = "kExpectChunkBody", !.chunk = v]
           end == [p EXCEPT !.at = "kExpectLastEmptyChunk"]
<1>1. /\ turn = "parse" /\ p.at = "kExpectChunkLen" /\ data[request] = p.r
      /\ content = p.content /\ p.content \in Nat /\ SizeMax + 1 \in Nat
  BY SettingIs, ReadingFields, BoundAssumption DEF ParseChunkLen, In
<1>2. /\ k + 1 \in 1..Len(Spoken) /\ t \in Seq(Tokens) /\ buf \in Seq(Tokens)
      /\ p \in Readings /\ q = Says(p, t)
      /\ q.at = "refused" => FirstFatal(script) # 0
      /\ CrlfAt > 0 =>
           /\ OneLine(t) /\ Before(CrlfAt) = SubSeq(t, 1, Len(t) - 2)
           /\ From(CrlfAt + 2) \in Seq(Tokens) /\ From(CrlfAt + 2) \o stream = Rest[k + 1]
      /\ CrlfAt = 0 /\ Len(buf) < SizeMax + 1 => Len(buf) < Len(t)
      /\ CrlfAt = 0 /\ Len(buf) >= SizeMax + 1 => q.at = "refused"
  BY <1>1, LineAhead
<1>3. /\ Len(buf) > SizeMax => Len(buf) >= SizeMax + 1
      /\ Len(buf) <= SizeMax => Len(buf) < SizeMax + 1
  BY <1>2, BoundAssumption
<1>4. q = IF IsLine(t, {"size"}) /\ v = 0 THEN end
          ELSE IF IsLine(t, {"size"}) /\ v > 0 /\ v + p.content <= MaxBody THEN on
          ELSE Refused(p)
  BY <1>1, <1>2, SaysAt
<1>5. /\ Refused(p).at = "refused"
      /\ on.at = "kExpectChunkBody" /\ on.chunk = v /\ on.content = p.content
      /\ on.r = p.r /\ on.out = p.out
      /\ end.at = "kExpectLastEmptyChunk" /\ end.content = p.content /\ end.r = p.r
      /\ end.out = p.out
  BY <1>2, ReadingFields DEF Readings
<1>6. CrlfAt > 0 => IsLine(t, {"size"}) /\ v \in Nat /\ size = v
  <2> SUFFICES ASSUME CrlfAt > 0 PROVE IsLine(t, {"size"}) /\ v \in Nat /\ size = v
    OBVIOUS
  <2>1. IsLine(t, {"size"}) /\ v >= 0
    <3>1. CASE q.at = "refused"
      <4>1. /\ Refusable(p, t, k + 1 = Len(Spoken))
            /\ CutTwice(buf, stream, t, Rest[k + 1], Tokens)
            /\ k + 1 = Len(Spoken) => Rest[k + 1] = <<>>
        BY <1>1, <1>2, <3>1, Ahead
      <4>2. \/ IsLine(t, {"size"}) /\ v > 0
            \/ NoneBefore(t, Len(t)) /\ Rest[k + 1] = <<>>
        BY <1>1, <4>1 DEF Refusable, NoLine
      <4>3. ~ (NoneBefore(t, Len(t)) /\ Rest[k + 1] = <<>>)
        BY <4>1, LineEnd
      <4>4. IsLine(t, {"size"}) /\ v > 0
        BY <4>2, <4>3
      <4> QED BY <1>2, <4>4, LineFirst
    <3>2. CASE q.at # "refused"
      <4>1. IsLine(t, {"size"}) /\ (v = 0 \/ v > 0)
        BY <1>4, <1>5, <3>2
      <4> QED BY <1>2, <4>1, LineFirst
    <3> QED BY <3>1, <3>2
  <2>2. v \in Nat
    BY <1>2, <2>1, LineFirst
  <2> DEFINE line == SubSeq(t, 1, Len(t) - 2)
  <2>3. line # <<>> /\ line[1] = t[1]
    <3>1. Len(t) - 2 = 1 /\ 1 \in 0..Len(t)
      BY <2>1 DEF IsLine
    <3>2. Len(SubSeq(t, 1, 1)) = 1 /\ SubSeq(t, 1, 1)[1] = t[1]
      BY <1>2, <3>1, StartIs
    <3>3. line = SubSeq(t, 1, 1)
      BY <3>1
    <3>4. Len(line) = 1 /\ line[1] = t[1]
      BY <3>2, <3>3, Zenon
    <3> HIDE DEF line
    <3>5. line = <<>> => Len(line) = 0
      BY Len(<<>>) = 0
    <3> QED BY <3>4, <3>5
  <2>4. t[1].kind = "size"
    BY <2>1 DEF IsLine
  <2> QED BY <1>2, <2>1, <2>2, <2>3, <2>4 DEF SizeOf
<1> HIDE DEF t, q, p, size, v, on, end
<1>7. CASE turn' = "error"
  <2>1. \/ CrlfAt = 0 /\ Len(buf) > SizeMax
        \/ CrlfAt > 0 /\ size # 0 /\ size + content > MaxBody
    BY <1>1, <1>7 DEF ParseChunkLen, NeedMore, Continue, size
  <2>2. q.at = "refused"
    <3>1. CASE CrlfAt > 0 /\ size # 0 /\ size + content > MaxBody
      <4>1. v # 0 /\ ~ (v + p.content <= MaxBody)
        BY <1>1, <1>6, <3>1, BoundAssumption
      <4> QED BY <1>4, <1>5, <4>1
    <3> QED BY <1>2, <1>3, <2>1, <3>1
  <2> QED BY <1>2, <1>7, <2>2 DEF Outcome, GivesUp
<1>8. CASE turn' = "more"
  <2>1. CrlfAt = 0 /\ Len(buf) <= SizeMax /\ NeedMore /\ UNCHANGED <<request, pool>>
    BY <1>1, <1>8 DEF ParseChunkLen, Refuse, Continue
  <2>2. Len(buf) < Len(t)
    BY <1>2, <1>3, <2>1
  <2> QED BY <1>1, <2>1, <2>2 DEF NeedMore, Outcome, Waits, Short, t, p
<1>9. CASE turn' # "error" /\ turn' # "more"
  <2>1. /\ CrlfAt > 0 /\ (size = 0 \/ size + content <= MaxBody) /\ chunk' = size
        /\ Continue(IF size # 0 THEN "kExpectChunkBody" ELSE "kExpectLastEmptyChunk",
                    From(CrlfAt + 2))
        /\ UNCHANGED <<content, data, request>>
    BY <1>9 DEF ParseChunkLen, Refuse, NeedMore, size
  <2>2. IsLine(t, {"size"}) /\ v \in Nat /\ size = v
    BY <1>6, <2>1
  <2>3. Takes(k)
    BY <1>2, <2>1 DEF Takes, Continue
  <2>4. q = IF v = 0 THEN end ELSE on
    BY <1>1, <1>4, <2>1, <2>2
  <2>5. Becomes(q.r)
    BY <1>1, <1>5, <2>1, <2>4 DEF Becomes
  <2>6. CASE v = 0
    BY <1>1, <1>5, <2>1, <2>2, <2>3, <2>4, <2>5, <2>6 DEF Outcome, GoesOn, Continue, p, q
  <2>7. CASE v # 0
    BY <1>1, <1>5, <2>1, <2>2, <2>3, <2>4, <2>5, <2>7 DEF Outcome, GoesOn, Continue, p, q
  <2> QED BY <2>6, <2>7
<1> QED BY <1>7, <1>8, <1>9

LEMMA ChunkBodyOutcome ==
  ASSUME NEW k, Setting(k), ParseChunkBody
  PROVE  Outcome(k)
<1> DEFINE p == Reading[k]
           t == Spoken[k + 1]
           q == Reading[k + 1]
           c == p.chunk
           on == [p EXCEPT !.at = "kExpectChunkLen", !.content = @ + p.chunk, !.chunk = 0,
                           !.r.body = @ + p.chunk]
           ends(s) == SubSeq(s, c + 1, c + 2) = CRLF
<1>1. /\ turn = "parse" /\ p.at = "kExpectChunkBody" /\ data[request] = p.r /\ p \in Readings
      /\ content = p.content /\ chunk = c /\ c \in Nat /\ p.content \in Nat
      /\ p.r \in Requested
  BY SettingIs, ReadingFields DEF ParseChunkBody, In
<1>2. /\ k + 1 \in 1..Len(Spoken) /\ CutTwice(buf, stream, t, Rest[k + 1], Tokens)
      /\ q = Says(p, t)
      /\ q.at = "refused" => /\ Refusable(p, t, k + 1 = Len(Spoken))
                             /\ FirstFatal(script) # 0
  BY <1>1, Ahead
<1>3. q = IF Len(t) = c + 2 /\ ends(t) THEN on ELSE Refused(p)
  BY <1>1, <1>2, SaysAt
<1>4. Len(t) = c + 2 /\ Len(buf) \in Nat /\ Refused(p).at = "refused"
  <2>1. Refused(p).at = "refused"
    BY <1>1, ReadingFields
  <2>2. Refusable(p, t, k + 1 = Len(Spoken)) => Len(t) = c + 2
    BY <1>1 DEF Refusable
  <2> QED BY <1>2, <1>3, <2>1, <2>2 DEF CutTwice
<1>5. Len(buf) >= c + 2 => /\ SubSeq(buf, c + 1, c + 2) = SubSeq(t, c + 1, c + 2)
                          /\ From(c + 3) \in Seq(Tokens) /\ From(c + 3) \o stream = Rest[k + 1]
  <2> SUFFICES ASSUME Len(buf) >= c + 2
               PROVE  /\ SubSeq(buf, c + 1, c + 2) = SubSeq(t, c + 1, c + 2)
                      /\ From(c + 3) \in Seq(Tokens) /\ From(c + 3) \o stream = Rest[k + 1]
    OBVIOUS
  <2>1. Len(buf) >= Len(t)
    BY <1>4
  <2>2. SubSeq(buf, c + 1, c + 2) = SubSeq(t, c + 1, c + 2)
    <3>1. c + 1 \in Nat \ {0} /\ c + 2 \in Int /\ c + 2 <= Len(t)
      BY <1>1, <1>4
    <3> QED BY <1>2, <2>1, <3>1, SameParts
  <2>3. /\ SubSeq(buf, Len(t) + 1, Len(buf)) \in Seq(Tokens)
        /\ SubSeq(buf, Len(t) + 1, Len(buf)) \o stream = Rest[k + 1]
    <3> HIDE DEF t
    <3> QED BY <1>2, <2>1, DropFirst, SMTT(40)
  <2>4. c + 3 = Len(t) + 1
    BY <1>1, <1>4
  <2> QED BY <2>2, <2>3, <2>4 DEF From
<1>6. /\ on.at = "kExpectChunkLen" /\ on.content = p.content + c /\ on.out = p.out
      /\ on.r = [p.r EXCEPT !.body = @ + c]
  BY <1>1 DEF Readings
<1>7. \/ Len(buf) < c + 2 /\ NeedMore /\ UNCHANGED <<request, pool>>
      \/ Len(buf) >= c + 2 /\ ~ ends(buf) /\ turn' = "error"
      \/ /\ Len(buf) >= c + 2 /\ ends(buf) /\ UNCHANGED <<request, pool>>
         /\ data' = [data EXCEPT ![request]["body"] = data[request].body + c]
         /\ content' = content + c /\ Continue("kExpectChunkLen", From(c + 3))
  BY <1>1 DEF ParseChunkBody, Refuse, Set
<1> HIDE DEF t, q, p, on, c
<1>8. CASE Len(buf) < c + 2 /\ NeedMore /\ UNCHANGED <<request, pool>>
  BY <1>1, <1>4, <1>8 DEF NeedMore, Outcome, Waits, Short, t, p
<1>9. CASE Len(buf) >= c + 2 /\ ~ ends(buf) /\ turn' = "error"
  BY <1>2, <1>3, <1>4, <1>5, <1>9 DEF Outcome, GivesUp
<1>10. CASE /\ Len(buf) >= c + 2 /\ ends(buf) /\ UNCHANGED <<request, pool>>
            /\ data' = [data EXCEPT ![request]["body"] = data[request].body + c]
            /\ content' = content + c /\ Continue("kExpectChunkLen", From(c + 3))
  <2>1. q = on
    BY <1>3, <1>4, <1>5, <1>10
  <2>2. Becomes(q.r)
    <3>1. data' = [data EXCEPT ![request] = [p.r EXCEPT !["body"] = p.r.body + c]]
      BY <1>1, <1>10
    <3>2. data' = [data EXCEPT ![request] = q.r]
      BY <1>6, <2>1, <3>1
    <3> QED BY <1>10, <3>2, SetBecomes
  <2>3. Takes(k)
    BY <1>2, <1>5, <1>10 DEF Takes, Continue
  <2> QED BY <1>1, <1>6, <1>10, <2>1, <2>2, <2>3 DEF Outcome, GoesOn, Continue, p, q
<1> QED BY <1>7, <1>8, <1>9, <1>10

LEMMA LastChunkOutcome ==
  ASSUME NEW k, Setting(k), ParseLastChunk
  PROVE  Outcome(k)
<1> DEFINE p == Reading[k]
           t == Spoken[k + 1]
           q == Reading[k + 1]
           ends(s) == SubSeq(s, 1, 2) = CRLF
           r == [p.r EXCEPT !.length = p.r.body, !.coding = None]
<1>1. /\ turn = "parse" /\ p.at = "kExpectLastEmptyChunk" /\ data[request] = p.r
      /\ p \in Readings /\ p.r \in Requested
  BY SettingIs, ReadingFields DEF ParseLastChunk, In
<1>2. /\ k + 1 \in 1..Len(Spoken) /\ CutTwice(buf, stream, t, Rest[k + 1], Tokens)
      /\ q = Says(p, t)
      /\ q.at = "refused" => /\ Refusable(p, t, k + 1 = Len(Spoken))
                             /\ FirstFatal(script) # 0
  BY <1>1, Ahead
<1>3. q = IF t = CRLF THEN Done(p, p.r.body) ELSE Refused(p)
  BY <1>1, <1>2, SaysAt
<1>4. Len(t) = 2 /\ Len(buf) \in Nat /\ Refused(p).at = "refused" /\ t \in Seq(Tokens)
  <2>1. Refused(p).at = "refused"
    BY <1>1, ReadingFields
  <2>2. Refusable(p, t, k + 1 = Len(Spoken)) => Len(t) = 2
    BY <1>1 DEF Refusable
  <2> QED BY <1>2, <1>3, <2>1, <2>2, CrlfIsOne DEF CutTwice
<1>5. Len(buf) >= 2 => /\ SubSeq(buf, 1, 2) = t
                      /\ From(3) \in Seq(Tokens) /\ From(3) \o stream = Rest[k + 1]
  <2> SUFFICES ASSUME Len(buf) >= 2
               PROVE  /\ SubSeq(buf, 1, 2) = t
                      /\ From(3) \in Seq(Tokens) /\ From(3) \o stream = Rest[k + 1]
    OBVIOUS
  <2>1. Len(buf) >= Len(t)
    BY <1>4
  <2>2. SubSeq(buf, 1, 2) = SubSeq(t, 1, 2)
    <3>1. 1 \in Nat \ {0} /\ 2 \in Int /\ 2 <= Len(t)
      BY <1>4
    <3> QED BY <1>2, <2>1, <3>1, SameParts
  <2>3. SubSeq(t, 1, 2) = t
    <3>1. SubSeq(t, 1, Len(t)) = t
      BY <1>4, SubSeqFull
    <3> QED BY <1>4, <3>1
  <2>4. /\ SubSeq(buf, Len(t) + 1, Len(buf)) \in Seq(Tokens)
        /\ SubSeq(buf, Len(t) + 1, Len(buf)) \o stream = Rest[k + 1]
    <3> HIDE DEF t
    <3> QED BY <1>2, <2>1, DropFirst, SMTT(40)
  <2>5. 3 = Len(t) + 1
    BY <1>4
  <2> QED BY <2>2, <2>3, <2>4, <2>5 DEF From
<1>6. \/ Len(buf) < 2 /\ NeedMore /\ UNCHANGED <<request, pool>>
      \/ Len(buf) >= 2 /\ ~ ends(buf) /\ turn' = "error"
      \/ /\ Len(buf) >= 2 /\ ends(buf) /\ UNCHANGED <<request, pool>> /\ Got(From(3))
         /\ data' = [data EXCEPT ![request].length = data[request].body,
                                 ![request].coding = None]
  BY <1>1 DEF ParseLastChunk, Refuse
<1> HIDE DEF t, q, p, r
<1>7. CASE Len(buf) < 2 /\ NeedMore /\ UNCHANGED <<request, pool>>
  BY <1>1, <1>4, <1>7 DEF NeedMore, Outcome, Waits, Short, t, p
<1>8. CASE Len(buf) >= 2 /\ ~ ends(buf) /\ turn' = "error"
  BY <1>2, <1>3, <1>4, <1>5, <1>8 DEF Outcome, GivesUp
<1>9. CASE /\ Len(buf) >= 2 /\ ends(buf) /\ UNCHANGED <<request, pool>> /\ Got(From(3))
           /\ data' = [data EXCEPT ![request].length = data[request].body,
                                   ![request].coding = None]
  <2>1. q = Done(p, p.r.body)
    BY <1>3, <1>5, <1>9
  <2>2. r.method = p.r.method /\ r.body = p.r.body
    BY <1>1 DEF Requested, r
  <2>3. Becomes(r)
    <3>1. request \in DOMAIN data
      BY DEF Setting
    <3>2. data' = [data EXCEPT ![request] = r]
      BY <1>1, <1>9, <3>1 DEF r
    <3> QED BY <1>9, <3>2, SetBecomes
  <2>4. Takes(k) /\ turn' = "got"
    BY <1>2, <1>5, <1>9 DEF Takes, Got
  <2>5. q = Fresh(Append(p.out, [id |-> r.method, body |-> r.body]))
    BY <2>1, <2>2 DEF Done
  <2> QED BY <2>3, <2>4, <2>5 DEF Outcome, Finishes, p, q
<1> QED BY <1>6, <1>7, <1>8, <1>9

LEMMA ParseOutcome ==
  ASSUME NEW k, Setting(k), ParseStep
  PROVE  Outcome(k)
BY MethodOutcome, RequestLineOutcome, AddHeaderOutcome, EndHeadersOutcome, BodyOutcome,
   ChunkLenOutcome, ChunkBodyOutcome, LastChunkOutcome DEF ParseStep

-----------------------------------------------------------------------------
(* The steps. *)

LEMMA SameScript ==
  ASSUME script' = script
  PROVE  Spoken' = Spoken /\ Reading' = Reading /\ Rest' = Rest /\ Meant' = Meant
BY DEF Spoken, Reading, Rest, Meant

LEMMA BatchIs ==
  ASSUME requests \in Seq(Objects)
  PROVE  /\ IsSeq(Batch) /\ Len(requests) \in Nat /\ Len(Batch) = Len(requests)
         /\ \A i \in 1..Len(requests) : Batch[i] = Seen(requests[i]) /\ requests[i] \in ToSet(requests)
<1> DEFINE f == [i \in 1..Len(requests) |-> Seen(requests[i])]
<1>1. Len(requests) \in Nat /\ \A i \in 1..Len(requests) : f[i] = Seen(requests[i])
  OBVIOUS
<1>2. Batch = [i \in 1..Len(requests) |-> f[i]]
  BY DEF Batch
<1>3. IsSeq(Batch) /\ Len(Batch) = Len(requests)
      /\ \A i \in 1..Len(requests) : Batch[i] = f[i]
  <2> HIDE DEF f
  <2> QED BY <1>1, <1>2, ComprehensionIs
<1>4. \A i \in 1..Len(requests) : requests[i] \in ToSet(requests)
  <2>1. DOMAIN requests = 1..Len(requests)
    OBVIOUS
  <2> QED BY <2>1 DEF ToSet
<1> QED BY <1>1, <1>3, <1>4

LEMMA BatchStays ==
  ASSUME requests \in Seq(Objects), requests' = requests,
         \A x \in ToSet(requests) : data'[x] = data[x]
  PROVE  Batch' = Batch
<1>1. \A i \in 1..Len(requests) : data'[requests[i]] = data[requests[i]]
  BY BatchIs
<1> QED BY <1>1 DEF Batch, Seen

LEMMA AppendLast ==
  ASSUME NEW s, NEW t, NEW e, IsSeq(s), IsSeq(t)
  PROVE  s \o Append(t, e) = Append(s \o t, e)
<1> DEFINE T == Elements(s) \cup Elements(t) \cup {e}
<1>1. s \in Seq(T) /\ t \in Seq(T) /\ e \in T
  BY DEF IsSeq
<1> HIDE DEF T
<1> QED BY <1>1

\* A body that is expected comes.
LEMMA BodyComes ==
  ASSUME script \in Scripts, WellSpoken(script), NEW k \in 0..Len(Spoken),
         Reading[k].at = "kExpectBody"
  PROVE  /\ k < Len(Spoken) /\ Spoken[k + 1] \in Seq(Tokens)
         /\ Len(Spoken[k + 1]) = Reading[k].content
         /\ Rest[k] = Spoken[k + 1] \o Rest[k + 1]
         /\ Reading[k].content \in Nat \ {0} /\ Reading[k].content - Reading[k].content = 0
         /\ Reading[k].r = [Reading[k].r EXCEPT !.body = 0]
<1> DEFINE p == Reading[k]
           t == Spoken[k + 1]
<1>1. /\ Spoken \in Seq(Seq(Tokens)) /\ Len(Spoken) \in Nat /\ p \in Readings /\ Orderly(p)
      /\ \A j \in 1..Len(Spoken) : Reading[j] = Says(Reading[j - 1], Spoken[j])
  BY ReadingIs
<1>2. k # Len(Spoken)
  BY MeantIs
<1>3. k < Len(Spoken) /\ k + 1 \in 1..Len(Spoken) /\ k + 1 \in 0..Len(Spoken) /\ (k + 1) - 1 = k
      /\ k + 1 > 0
  BY <1>1, <1>2
<1>4. t \in Seq(Tokens) /\ Reading[k + 1] = Says(p, t)
  BY <1>1, <1>3
<1>5. Rest[k] = t \o Rest[k + 1]
  BY <1>3, RestIs DEF Remainders
<1>6. Len(t) = p.content
  <2>1. Reading[k + 1].at = "refused" => Refusable(p, t, k + 1 = Len(Spoken))
    BY <1>3, MeantIs
  <2>2. ~ Refusable(p, t, k + 1 = Len(Spoken))
    BY DEF Refusable
  <2>3. Says(p, t) = IF Len(t) = p.content THEN Done(p, p.content) ELSE Refused(p)
    BY SaysAt
  <2>4. Refused(p).at = "refused"
    BY <1>1, ReadingFields
  <2> QED BY <1>4, <2>1, <2>2, <2>3, <2>4
<1>7. p.content \in Nat \ {0} /\ p.r.body = 0 /\ p.r \in Requested
  BY <1>1, ReadingFields DEF Orderly
<1>8. p.r = [p.r EXCEPT !.body = 0]
  <2> DEFINE r == p.r
  <2>1. r \in Requested /\ r.body = 0
    BY <1>7
  <2> HIDE DEF r
  <2>2. r = [r EXCEPT !.body = 0]
    BY <2>1 DEF Requested
  <2> QED BY <2>2 DEF r
<1> QED BY <1>3, <1>4, <1>5, <1>6, <1>7, <1>8

\* A parser that gives up empties the buffer.
LEMMA ErrorEmpties ==
  ASSUME ParseStep, turn' = "error"
  PROVE  buf' = <<>>
<1>1. CASE ParseMethod
  BY <1>1 DEF ParseMethod, In, Refuse, NeedMore, Continue
<1>2. CASE ParseRequestLine
  BY <1>2 DEF ParseRequestLine, In, Refuse, NeedMore, Continue
<1>3. CASE AddHeader
  BY <1>3 DEF AddHeader, In, Refuse, NeedMore, Continue
<1>4. CASE EndHeaders
  BY <1>4 DEF EndHeaders, In, Refuse, Got, Continue
<1>5. CASE ParseBody
  BY <1>5 DEF ParseBody, In, Got
<1>6. CASE ParseChunkLen
  BY <1>6 DEF ParseChunkLen, In, Refuse, NeedMore, Continue
<1>7. CASE ParseChunkBody
  BY <1>7 DEF ParseChunkBody, In, Refuse, NeedMore, Continue
<1>8. CASE ParseLastChunk
  BY <1>8 DEF ParseLastChunk, In, Refuse, NeedMore, Got
<1> QED BY <1>1, <1>2, <1>3, <1>4, <1>5, <1>6, <1>7, <1>8 DEF ParseStep

\* The parser stands where it should after what it has come to.
LEMMA OutcomeStands ==
  ASSUME NoneIsNoRequest, IInv, Framing, WellSpoken(script), conn = "open", turn = "parse",
         NEW k \in 0..Len(Spoken), Stands(k), Outcome(k),
         turn' = "error" => buf' = <<>>,
         UNCHANGED <<script, stream, requests, handed>>
  PROVE  /\ \E j \in 0..Len(Spoken) : Stands(j)'
         /\ turn' \in {"parse", "more", "got", "error"}
         /\ buf' \in Seq(Tokens)
         /\ turn' = "error" => FirstFatal(script) # 0
<1> DEFINE p == Reading[k]
           q == Reading[k + 1]
           N == Len(Spoken)
<1>1. /\ Spoken' = Spoken /\ Reading' = Reading /\ Rest' = Rest
      /\ N \in Nat /\ p \in Readings /\ script \in Scripts
  BY SameScript, ReadingIs DEF Framing
<1>2. /\ At(k) /\ handed \o Batch = p.out /\ buf \in Seq(Tokens) /\ stream \in Seq(Tokens)
      /\ IsSeq(handed)
  BY DEF Stands, Framing
<1>3. /\ requests \in Seq(Objects) /\ DOMAIN data = Objects /\ request \notin ToSet(requests)
      /\ ToSet(requests) \subseteq Objects /\ ToSet(requests) \subseteq Referenced
  BY ReferencedAreObjects DEF IInv, Typed, ContextAlive, Referenced, Others
<1>4. ASSUME NEW r, Becomes(r) PROVE Batch' = Batch /\ request' = request /\ data'[request] = r
  BY <1>3, <1>4, BatchStays DEF Becomes
<1>5. Takes(k) => /\ k + 1 \in 0..N /\ (k + 1) + 1 = k + 2 /\ buf' \in Seq(Tokens)
                  /\ buf' \o stream' = Rest[k + 1]
                  /\ q \in Readings /\ Orderly(q)
  BY <1>1, ReadingIs DEF Takes
<1>6. CASE Waits(k)
  <2>1. Batch' = Batch
    BY <1>3, <1>6, BatchStays DEF Waits
  <2>2. At(k)'
    BY <1>1, <1>2, <1>6 DEF Waits, At
  <2>3. Short(k)'
    BY <1>1, <1>6 DEF Waits, Short
  <2>4. Stands(k)'
    BY <1>1, <1>2, <1>6, <2>1, <2>2, <2>3 DEF Stands, Waits
  <2> QED BY <1>1, <1>2, <1>6, <2>4 DEF Waits
<1>7. CASE GivesUp
  <2>1. Stands(k)'
    BY <1>1, <1>7 DEF Stands, GivesUp
  <2>2. buf' \in Seq(Tokens)
    BY <1>7 DEF GivesUp
  <2> QED BY <1>1, <1>7, <2>1, <2>2 DEF GivesUp
<1>8. CASE GoesOn(k)
  <2>1. /\ Takes(k) /\ q.at # "refused" /\ q.out = p.out
        /\ turn' = turn /\ status' = q.at /\ content' = q.content
        /\ q.at = "kExpectChunkBody" => chunk' = q.chunk
        /\ Becomes(q.r)
    BY <1>8 DEF GoesOn
  <2>2. Batch' = Batch /\ request' = request /\ data'[request] = q.r
    BY <1>4, <2>1
  <2>3. q.at = "kExpectBody" =>
          /\ k + 1 < N /\ content' \in 1..q.content
          /\ data'[request'] = [q.r EXCEPT !.body = q.content - content']
          /\ \E d \in Seq(Tokens) : Len(d) = content' /\ buf' \o stream' = d \o Rest[(k + 1) + 1]
    <3> SUFFICES ASSUME q.at = "kExpectBody"
                 PROVE  /\ k + 1 < N /\ content' \in 1..q.content
                        /\ data'[request'] = [q.r EXCEPT !.body = q.content - content']
                        /\ \E d \in Seq(Tokens) :
                             Len(d) = content' /\ buf' \o stream' = d \o Rest[(k + 1) + 1]
      OBVIOUS
    <3>1. /\ k + 1 < N /\ Spoken[(k + 1) + 1] \in Seq(Tokens)
          /\ Len(Spoken[(k + 1) + 1]) = q.content
          /\ Rest[k + 1] = Spoken[(k + 1) + 1] \o Rest[(k + 1) + 1]
          /\ q.content \in Nat \ {0} /\ q.content - q.content = 0
          /\ q.r = [q.r EXCEPT !.body = 0]
      BY <1>1, <1>5, <2>1, BodyComes
    <3>2. content' \in 1..q.content
      BY <2>1, <3>1
    <3>3. data'[request'] = [q.r EXCEPT !.body = q.content - content']
      <4>1. q.content - content' = 0
        BY <2>1, <3>1
      <4> HIDE DEF q
      <4> QED BY <2>2, <3>1, <4>1
    <3> QED BY <1>5, <2>1, <3>1, <3>2, <3>3
  <2>4. At(k + 1)'
    <3> HIDE DEF p, N
    <3>1. q.at # "kExpectBody" =>
            content' = q.content /\ data'[request'] = q.r /\ buf' \o stream' = Rest[k + 1]
      BY <1>5, <2>1, <2>2
    <3> QED BY <1>1, <2>1, <2>3, <3>1 DEF At, N
  <2>5. Stands(k + 1)'
    BY <1>1, <1>2, <1>5, <2>1, <2>2, <2>4 DEF Stands
  <2> QED BY <1>1, <1>5, <2>1, <2>5
<1>9. CASE Finishes(k)
  <2>1. PICK r : /\ Becomes(r)
                 /\ q = Fresh(Append(p.out, [id |-> r.method, body |-> r.body]))
    BY <1>9 DEF Finishes
  <2>2. Takes(k) /\ turn' = "got"
    BY <1>9 DEF Finishes
  <2>3. Batch' = Batch /\ request' = request /\ data'[request] = r
    BY <1>4, <2>1
  <2>4. q.out = Append(p.out, [id |-> r.method, body |-> r.body])
    BY <2>1 DEF Fresh
  <2>5. Seen(request)' = [id |-> r.method, body |-> r.body]
    BY <2>3 DEF Seen
  <2>6. handed \o Append(Batch, Seen(request)') = q.out
    <3> DEFINE e == [id |-> r.method, body |-> r.body]
    <3>1. IsSeq(Batch)
      BY <1>3, BatchIs
    <3> HIDE DEF e
    <3>2. handed \o Append(Batch, e) = Append(handed \o Batch, e)
      <4>1. IsSeq(handed)
        BY <1>2
      <4> QED BY <3>1, <4>1, AppendLast
    <3> QED BY <1>2, <2>4, <2>5, <3>2 DEF e
  <2>7. q = Fresh(q.out)
    BY <2>1, <2>4
  <2>8. Stands(k + 1)'
    <3> HIDE DEF p, N
    <3> QED BY <1>1, <1>5, <2>2, <2>3, <2>6, <2>7 DEF Stands, N
  <2> QED BY <1>1, <1>5, <2>2, <2>8
<1>10. CASE SkipsOver(k)
  <2>1. /\ Takes(k) /\ q = Fresh(p.out)
        /\ turn' = turn /\ status' = "kExpectMethod" /\ content' = 0
        /\ Renew(data, FALSE)
    BY <1>10 DEF SkipsOver
  <2>2. data'[request'] = Blank /\ Batch' = Batch
    <3>1. data'[request'] = Blank /\ \A x \in Referenced : data'[x] = data[x]
      BY <2>1, RenewLeaves
    <3> QED BY <1>3, <3>1, BatchStays
  <2>3. /\ q.at = "kExpectMethod" /\ q.content = 0 /\ q.r = Blank /\ q.out = p.out
    BY <2>1 DEF Fresh
  <2>4. At(k + 1)'
    <3> HIDE DEF p, N
    <3> QED BY <1>1, <1>5, <2>1, <2>2, <2>3 DEF At
  <2>5. Stands(k + 1)'
    BY <1>1, <1>2, <1>5, <2>1, <2>2, <2>3, <2>4 DEF Stands
  <2> QED BY <1>1, <1>5, <2>1, <2>5
<1>11. CASE TakesPart(k)
  <2>1. /\ p.at = "kExpectBody" /\ turn' = "more"
        /\ buf' = <<>> /\ status' = status /\ content' \in 1..p.content
        /\ Becomes([p.r EXCEPT !.body = p.content - content'])
        /\ \E d \in Seq(Tokens) : Len(d) = content' /\ stream = d \o Rest[k + 1]
    BY <1>11 DEF TakesPart
  <2>2. Batch' = Batch /\ data'[request'] = [p.r EXCEPT !.body = p.content - content']
    BY <1>4, <2>1
  <2>3. buf' \o stream' = stream
    BY <1>2, <2>1, ConcatEmptySeq
  <2>4. At(k)'
    <3>1. k < N /\ status = p.at
      BY <1>2, <2>1 DEF At
    <3> QED BY <1>1, <2>1, <2>2, <2>3, <3>1 DEF At
  <2>5. Short(k)'
    BY <1>1, <2>1 DEF Short
  <2>6. Stands(k)'
    BY <1>1, <1>2, <2>1, <2>2, <2>4, <2>5 DEF Stands
  <2> QED BY <1>1, <2>1, <2>6
<1> QED BY <1>6, <1>7, <1>8, <1>9, <1>10, <1>11 DEF Outcome

LEMMA ParseFrames ==
  ASSUME NoneIsNoRequest, WellSpokenClients, IInv, Framing, Parse
  PROVE  Framing'
<1>1. /\ ParseStep /\ turn = "parse"
      /\ UNCHANGED <<script, stream, requests, handed, stopped, conn>>
  BY DEF Parse, connVars, ParseStep, ParseMethod, ParseRequestLine, AddHeader, EndHeaders,
     ParseBody, ParseChunkLen, ParseChunkBody, ParseLastChunk, In
<1>2. conn = "open" /\ ~ stopped /\ script \in Scripts /\ WellSpoken(script)
  BY <1>1 DEF Framing, WellSpokenClients
<1>3. PICK k \in 0..Len(Spoken) : Stands(k)
  BY <1>2 DEF Framing
<1>4. Setting(k)
  BY <1>1, <1>2, <1>3 DEF Setting, Stands, Framing, IInv, Typed, ContextAlive
<1>5. Outcome(k)
  BY <1>1, <1>4, ParseOutcome
<1>6. turn' = "error" => buf' = <<>>
  BY <1>1, ErrorEmpties
<1>7. /\ \E j \in 0..Len(Spoken) : Stands(j)'
      /\ turn' \in {"parse", "more", "got", "error"}
      /\ buf' \in Seq(Tokens)
      /\ turn' = "error" => FirstFatal(script) # 0
  BY <1>1, <1>2, <1>3, <1>5, <1>6, OutcomeStands
<1>8. Spoken' = Spoken /\ Meant' = Meant
  BY <1>1, SameScript
<1> QED BY <1>1, <1>2, <1>7, <1>8 DEF Framing, FramingExact

\* A message begins with something.
LEMMA MethodComes ==
  ASSUME script \in Scripts, WellSpoken(script), NEW k \in 0..Len(Spoken), k # Len(Spoken),
         Reading[k].at = "kExpectMethod"
  PROVE  Len(Spoken[k + 1]) > 0
<1> DEFINE p == Reading[k]
           t == Spoken[k + 1]
<1>1. /\ Spoken \in Seq(Seq(Tokens)) /\ Len(Spoken) \in Nat /\ p \in Readings
      /\ \A j \in 1..Len(Spoken) : Reading[j] = Says(Reading[j - 1], Spoken[j])
  BY ReadingIs
<1>2. k + 1 \in 1..Len(Spoken) /\ k + 1 \in 0..Len(Spoken) /\ (k + 1) - 1 = k /\ k + 1 > 0
  BY <1>1
<1>3. t \in Seq(Tokens) /\ Len(t) \in Nat /\ Reading[k + 1] = Says(p, t)
  BY <1>1, <1>2
<1>4. Reading[k + 1].at = "refused" => Refusable(p, t, k + 1 = Len(Spoken))
  BY <1>2, MeantIs
<1>5. Says(p, t) = IF IsMethod(t)
                   THEN [p EXCEPT !.at = "kExpectRequestLine", !.r.method = t[1].value]
                   ELSE Refused(p)
  BY SaysAt
<1>6. Refused(p).at = "refused"
  BY <1>1, ReadingFields
<1>7. IsMethod(t) => Len(t) > 0
  BY DEF IsMethod
<1>8. Refusable(p, t, k + 1 = Len(Spoken)) => Len(t) > 0
  <2>1. Refusable(p, t, k + 1 = Len(Spoken)) => t # <<>> \/ Len(t) > MethodMax
    BY DEF Refusable
  <2>2. t # <<>> => Len(t) > 0
    BY <1>3, EmptySeq
  <2> QED BY <1>3, <2>1, <2>2, BoundAssumption
<1> QED BY <1>3, <1>4, <1>5, <1>6, <1>7, <1>8

\* The request joins the batch.
LEMMA OneMoreFrames ==
  ASSUME NoneIsNoRequest, WellSpokenClients, IInv, Framing, OneMore
  PROVE  Framing'
<1>1. /\ turn = "got" /\ requests' = Append(requests, request) /\ Renew(data, TRUE)
      /\ status' = "kExpectMethod" /\ content' = 0
      /\ turn' = IF buf = <<>> THEN "more" ELSE "parse"
      /\ UNCHANGED <<buf, script, stream, stopped, conn, handed>>
  BY DEF OneMore
<1>2. conn = "open" /\ ~ stopped /\ script \in Scripts /\ WellSpoken(script)
      /\ buf \in Seq(Tokens) /\ Len(buf) \in Nat
  BY <1>1 DEF Framing, WellSpokenClients
<1>3. PICK k \in 0..Len(Spoken) : Stands(k)
  BY <1>2 DEF Framing
<1> DEFINE p == Reading[k]
           n == Len(requests)
<1>4. /\ Spoken' = Spoken /\ Reading' = Reading /\ Rest' = Rest /\ Meant' = Meant
  BY <1>1, SameScript
<1>5. /\ p = Fresh(p.out) /\ handed \o Append(Batch, Seen(request)) = p.out
      /\ buf \o stream = Rest[k]
  BY <1>1, <1>3 DEF Stands
<1>6. p.at = "kExpectMethod" /\ p.content = 0 /\ p.r = Blank
  BY <1>5 DEF Fresh
<1>7. /\ requests \in Seq(Objects) /\ request \in Objects /\ ToSet(requests) \subseteq Referenced
  BY <1>2 DEF IInv, Typed, ContextAlive, Referenced, Others
<1>8. /\ data'[request'] = Blank /\ data'[request] = data[request]
      /\ \A x \in ToSet(requests) : data'[x] = data[x]
  BY <1>1, <1>2, <1>7, RenewLeaves
<1>9. Batch' = Append(Batch, Seen(request))
  <2>1. /\ IsSeq(Batch) /\ n \in Nat /\ Len(Batch) = n
        /\ \A i \in 1..n : Batch[i] = Seen(requests[i]) /\ requests[i] \in ToSet(requests)
    BY <1>7, BatchIs
  <2>2. /\ requests' \in Seq(Objects) /\ Len(requests') = n + 1
        /\ requests'[n + 1] = request /\ \A i \in 1..n : requests'[i] = requests[i]
    BY <1>1, <1>7, AppendProperties
  <2> DEFINE f == [i \in 1..(n + 1) |-> [id |-> data'[requests'[i]].method,
                                         body |-> data'[requests'[i]].body]]
             s == Append(Batch, Seen(request))
  <2>3. Batch' = [i \in 1..(n + 1) |-> f[i]]
    BY <2>2 DEF Batch, Seen
  <2>4. \A i \in 1..n : f[i] = Batch[i]
    <3>1. \A i \in 1..n : i \in 1..(n + 1) /\ data'[requests[i]] = data[requests[i]]
      BY <1>8, <2>1
    <3> QED BY <2>1, <2>2, <3>1 DEF Seen
  <2>5. f[n + 1] = Seen(request)
    <3>1. n + 1 \in 1..(n + 1)
      BY <2>1
    <3> QED BY <1>8, <2>2, <3>1 DEF Seen
  <2>6. IsSeq(s) /\ Len(s) = n + 1 /\ s[n + 1] = Seen(request)
        /\ \A i \in 1..n : s[i] = Batch[i]
    BY <2>1, AppendIs
  <2> HIDE DEF f, s, n
  <2>7. IsSeq(Batch') /\ Len(Batch') = n + 1 /\ \A i \in 1..(n + 1) : Batch'[i] = f[i]
    BY <2>1, <2>3, n + 1 \in Nat, ComprehensionIs
  <2>8. \A i \in 1..(n + 1) : Batch'[i] = s[i]
    <3>1. \A i \in 1..(n + 1) : i \in 1..n \/ i = n + 1
      BY <2>1
    <3> QED BY <2>4, <2>5, <2>6, <2>7, <3>1
  <2>9. Batch' = s
    BY <2>6, <2>7, <2>8, SameSeq
  <2> QED BY <2>9 DEF s
<1>10. At(k)'
  BY <1>1, <1>4, <1>5, <1>6, <1>8 DEF At
<1>11. turn' = "more" => Short(k)'
  <2> SUFFICES ASSUME turn' = "more" PROVE Short(k)'
    OBVIOUS
  <2>1. buf = <<>> /\ Len(<<>>) = 0
    BY <1>1
  <2>2. k # Len(Spoken) => Len(Spoken[k + 1]) > 0
    BY <1>2, <1>6, MethodComes
  <2> QED BY <1>1, <1>4, <1>6, <2>1, <2>2 DEF Short
<1>12. turn' \in {"more", "parse"}
  BY <1>1
<1>13. Stands(k)'
  BY <1>1, <1>4, <1>5, <1>9, <1>10, <1>11, <1>12 DEF Stands
<1> QED BY <1>1, <1>2, <1>4, <1>12, <1>13 DEF Framing, FramingExact

\* The batch is handed over.
LEMMA HandOverFrames ==
  ASSUME WellSpokenClients, IInv, Framing, HandOver
  PROVE  Framing'
<1>1. /\ turn = "more" /\ turn' = "wait" /\ requests' = <<>>
      /\ handed' = handed \o [i \in 1..Len(requests) |-> Seen(requests[i])]
      /\ UNCHANGED <<buf, status, content, chunk, request, data, script, stream, conn>>
  BY DEF HandOver
<1>2. conn = "open" /\ ~ stopped /\ script \in Scripts /\ WellSpoken(script)
  BY <1>1 DEF Framing, WellSpokenClients
<1>3. PICK k \in 0..Len(Spoken) : Stands(k)
  BY <1>2 DEF Framing
<1>4. /\ Spoken' = Spoken /\ Reading' = Reading /\ Rest' = Rest /\ Meant' = Meant
  BY <1>1, SameScript
<1>5. At(k) /\ handed \o Batch = Reading[k].out /\ Short(k)
  BY <1>1, <1>3 DEF Stands
<1>6. handed' = Reading[k].out
  BY <1>1, <1>5 DEF Batch
<1>7. IsSeq(handed')
  <2>1. Reading[k] \in Readings
    BY <1>2, ReadingIs
  <2>2. Reading[k].out \in Seq([id : Int, body : Nat])
    BY <2>1, ReadingFields
  <2> QED BY <1>6, <2>2, SeqIsSeq
<1>8. handed' \o Batch' = handed'
  <2>1. Batch' = <<>>
    BY <1>1 DEF Batch
  <2>2. handed' \o <<>> = handed'
    BY <1>7 DEF IsSeq
  <2> QED BY <2>1, <2>2
<1>9. At(k)' /\ Short(k)'
  BY <1>1, <1>4, <1>5 DEF At, Short
<1>10. Stands(k)'
  BY <1>1, <1>4, <1>6, <1>8, <1>9 DEF Stands
<1>11. IsPrefix(handed', Meant)
  BY <1>2, <1>6, MeantIs
<1> QED BY <1>1, <1>2, <1>4, <1>7, <1>10, <1>11 DEF Framing, FramingExact

\* Bytes arrive.
LEMMA ReceiveFrames ==
  ASSUME Framing, NEW n \in 1..Len(stream), Receive(n)
  PROVE  Framing'
<1>1. /\ turn = "wait" /\ conn = "open" /\ stream' = SubSeq(stream, n + 1, Len(stream))
      /\ \/ stopped /\ buf' = <<>> /\ turn' = "wait"
         \/ ~ stopped /\ buf' = buf \o SubSeq(stream, 1, n) /\ turn' = "parse"
      /\ UNCHANGED <<status, content, chunk, request, data, script, requests, stopped, conn,
                     handed>>
  BY DEF Receive, LoopFree
<1>2. buf \in Seq(Tokens) /\ stream \in Seq(Tokens) /\ Len(stream) \in Nat
  BY DEF Framing
<1> DEFINE s1 == SubSeq(stream, 1, n)
           s2 == SubSeq(stream, n + 1, Len(stream))
<1>3. s1 \in Seq(Tokens) /\ s2 \in Seq(Tokens)
  <2>1. /\ \A i \in 1..n : stream[i] \in Tokens
        /\ \A i \in (n + 1)..Len(stream) : stream[i] \in Tokens
    BY <1>2
  <2> QED BY <1>2, <2>1, SubSeqProperties
<1>4. s1 \o s2 = stream
  <2>1. SubSeq(stream, 1, Len(stream)) = stream
    BY <1>2, SubSeqFull
  <2>2. 1 \in 1..(Len(stream) + 1) /\ n \in (1 - 1)..Len(stream) /\ Len(stream) \in n..Len(stream)
    BY <1>2
  <2>3. s1 \o s2 = SubSeq(stream, 1, Len(stream))
    BY <1>2, <2>2, ConcatAdjacentSubSeq
  <2> QED BY <2>1, <2>3
<1> HIDE DEF s1, s2
<1>5. /\ Spoken' = Spoken /\ Reading' = Reading /\ Rest' = Rest /\ Meant' = Meant
      /\ Batch' = Batch
  BY <1>1, SameScript DEF Batch, Seen
<1>6. FramingExact'
  BY <1>1, <1>5 DEF Framing, FramingExact
<1>7. CASE stopped /\ buf' = <<>> /\ turn' = "wait"
  BY <1>1, <1>3, <1>6, <1>7, EmptySeq DEF Framing, s2
<1>8. CASE ~ stopped /\ buf' = buf \o SubSeq(stream, 1, n) /\ turn' = "parse"
  <2>1. buf' \in Seq(Tokens) /\ stream' \in Seq(Tokens) /\ buf' \o stream' = buf \o stream
    <3>1. \A x, y, z \in Seq(Tokens) : (x \o y) \o z = x \o (y \o z)
      BY ConcatAssociative
    <3>2. buf' = buf \o s1 /\ stream' = s2
      BY <1>1, <1>8 DEF s1, s2
    <3>3. (buf \o s1) \o s2 = buf \o (s1 \o s2)
      BY <1>2, <1>3, <3>1
    <3>4. buf' \o stream' = buf \o stream
      BY <1>4, <3>2, <3>3
    <3> QED BY <1>2, <1>3, <3>2, <3>4
  <2>2. PICK k \in 0..Len(Spoken) : Stands(k)
    BY <1>1, <1>8 DEF Framing
  <2>3. At(k) /\ handed \o Batch = Reading[k].out
    BY <1>1, <2>2 DEF Stands
  <2>4. At(k)'
    BY <1>1, <1>5, <2>1, <2>3 DEF At
  <2>5. Stands(k)'
    BY <1>1, <1>5, <1>8, <2>3, <2>4 DEF Stands
  <2> QED BY <1>1, <1>5, <1>6, <1>8, <2>1, <2>5 DEF Framing
<1> QED BY <1>1, <1>7, <1>8

\* The connection goes, or its context does.
LEMMA EndFrames ==
  ASSUME Framing, conn' # "open", turn' = "wait", buf' \in Seq(Tokens),
         UNCHANGED <<script, stream, handed>>
  PROVE  Framing'
<1>1. Meant' = Meant
  BY SameScript
<1> QED BY <1>1 DEF Framing, FramingExact

\* A step elsewhere, which leaves the parser and the requests of the batch as they are.
LEMMA QuietFrames ==
  ASSUME IInv, Framing,
         UNCHANGED <<buf, status, content, chunk, request, turn, script, stream, requests,
                     stopped, conn, handed>>,
         conn # "closed" => \A x \in ToSet(requests) \cup {request} : data'[x] = data[x]
  PROVE  Framing'
<1>1. /\ Spoken' = Spoken /\ Reading' = Reading /\ Rest' = Rest /\ Meant' = Meant
  BY SameScript
<1>2. FramingExact'
  BY <1>1 DEF Framing, FramingExact
<1>3. ASSUME conn = "open", ~ stopped PROVE \E k \in 0..Len(Spoken) : Stands(k)'
  <2>1. PICK k \in 0..Len(Spoken) : Stands(k)
    BY <1>3 DEF Framing
  <2>2. requests \in Seq(Objects)
    BY DEF IInv, Typed
  <2>3. Batch' = Batch /\ data'[request] = data[request]
    BY <1>3, <2>2, BatchStays
  <2>4. At(k) => At(k)'
    BY <1>1, <2>3 DEF At
  <2>5. Short(k) => Short(k)'
    BY <1>1 DEF Short
  <2>6. Seen(request)' = Seen(request)
    BY <2>3 DEF Seen
  <2>7. Stands(k)'
    BY <1>1, <2>1, <2>3, <2>4, <2>5, <2>6 DEF Stands
  <2> QED BY <2>7
<1>4. conn' = "open" /\ ~ stopped' => \E k \in 0..Len(Spoken') : Stands(k)'
  BY <1>1, <1>3
<1> QED BY <1>2, <1>4 DEF Framing

LEMMA StepFrames ==
  ASSUME NoneIsNoRequest, WellSpokenClients
  PROVE  IInv /\ Framing /\ [Next]_vars => Framing'
<1> SUFFICES ASSUME IInv, Framing, [Next]_vars PROVE Framing'
  OBVIOUS
<1> DEFINE Kept == ToSet(requests) \cup {request}
<1>1. /\ Kept \cap returning = {}
      /\ conn # "closed" => Kept \subseteq Objects
      /\ buf \in Seq(Tokens) /\ <<>> \in Seq(Tokens)
  BY ReferencedAreObjects, EmptySeq
     DEF IInv, ContextAlive, SpareApart, Spare, Referenced, Others, Framing
<1>2. ASSUME UNCHANGED <<buf, status, content, chunk, request, turn, script, stream, requests,
                         stopped, conn, handed>>,
             conn # "closed" => \A x \in Kept : data'[x] = data[x]
      PROVE  Framing'
  BY <1>2, QuietFrames
<1>3. CASE UNCHANGED vars \/ Over
  BY <1>2, <1>3 DEF Over, vars, parserVars, connVars
<1>4. ASSUME NEW o \in Objects, Respond(o) PROVE Framing'
  <2> DEFINE last == Unheld(Holders(request, requests, pipeline', job', held))
  <2>1. last \cap Kept = {}
    BY HoldersAre DEF Unheld, Others
  <2>2. conn # "closed" => data' = Blanked(last)
    BY <1>4 DEF Respond
  <2> HIDE DEF last
  <2>3. conn # "closed" => \A x \in Kept : data'[x] = data[x]
    BY <1>1, <2>1, <2>2 DEF Blanked
  <2>4. UNCHANGED <<buf, status, content, chunk, request, turn, script, stream, requests,
                    stopped, conn, handed>>
    BY <1>4 DEF Respond
  <2> QED BY <1>2, <2>3, <2>4
<1>5. ASSUME NEW o \in Objects, Return(o) PROVE Framing'
  <2>1. o \in returning /\ data' = Blanked({o})
        /\ UNCHANGED <<buf, status, content, chunk, request, turn, script, stream, requests,
                       stopped, conn, handed>>
    BY <1>5 DEF Return
  <2>2. conn # "closed" => \A x \in Kept : data'[x] = data[x]
    BY <1>1, <2>1 DEF Blanked
  <2> QED BY <1>2, <2>1, <2>2
<1>6. ASSUME NEW o \in Objects, Finish(o) \/ LetGo(o) PROVE Framing'
  <2>1. /\ conn # "closed" => UNCHANGED data
        /\ UNCHANGED <<buf, status, content, chunk, request, turn, script, stream, requests,
                       stopped, conn, handed>>
    BY <1>6 DEF Finish, LetGo, parserVars
  <2> QED BY <1>2, <2>1
<1>7. CASE GiveUp \/ Disconnect \/ ClearContext
  <2>1. conn' # "open" /\ turn' = "wait" /\ buf' \in {buf, <<>>}
        /\ UNCHANGED <<script, stream, handed>>
    BY <1>7 DEF GiveUp, Disconnect, ClearContext, LoopFree, parserVars
  <2>2. buf' \in Seq(Tokens)
    BY <1>1, <2>1
  <2> QED BY <2>1, <2>2, EndFrames
<1>8. ASSUME NEW n \in 1..Len(stream), Receive(n) PROVE Framing'
  BY <1>8, ReceiveFrames
<1>9. CASE Parse \/ OneMore \/ HandOver
  BY <1>9, ParseFrames, OneMoreFrames, HandOverFrames
<1>10. CASE LoopStep
  BY <1>4, <1>5, <1>7, <1>9, <1>10 DEF LoopStep
<1> QED BY <1>3, <1>6, <1>7, <1>8, <1>10 DEF Next

LEMMA FramingInitially ==
  ASSUME Objects # {}, WellSpokenClients, Init
  PROVE  Framing
<1> USE DEF Init
<1>1. script \in Scripts /\ WellSpoken(script)
  BY DEF WellSpokenClients
<1>2. Spoken \in Seq(Seq(Tokens)) /\ Len(Spoken) \in Nat /\ 0 \in 0..Len(Spoken)
      /\ Reading[0] = Fresh(<<>>)
  BY <1>1, ReadingIs
<1>3. Rest[0] = stream /\ stream \in Seq(Tokens)
  <2>1. Rest \in [0..Len(Spoken) -> Seq(Tokens)] /\ Rest[0] = FlattenSeq(Spoken)
    BY <1>1, RestIs DEF Remainders
  <2> QED BY <1>2, <2>1 DEF Spoken
<1>4. buf \o stream = Rest[0] /\ buf \in Seq(Tokens)
  BY <1>3, ConcatEmptySeq, EmptySeq
<1>5. data[request] = Blank
  <2>1. request \in Objects
    OBVIOUS
  <2> QED BY <2>1
<1>6. /\ Reading[0].at = "kExpectMethod" /\ Reading[0].content = 0 /\ Reading[0].r = Blank
      /\ Reading[0].out = <<>>
  BY <1>2 DEF Fresh
<1>7. At(0)
  BY <1>4, <1>5, <1>6 DEF At
<1>8. Short(0)
  <2>1. 0 # Len(Spoken) => Len(Spoken[0 + 1]) > 0
    BY <1>1, <1>2, <1>6, MethodComes
  <2> QED BY <1>6, <2>1, Len(<<>>) = 0 DEF Short
<1>9. handed \o Batch = <<>> /\ IsSeq(handed)
  <2>1. Batch = <<>> /\ IsSeq(<<>>) /\ <<>> \o <<>> = <<>>
    BY DEF Batch, IsSeq
  <2> QED BY <2>1
<1>10. Stands(0)
  BY <1>2, <1>6, <1>7, <1>8, <1>9 DEF Stands
<1>11. FramingExact
  <2>1. IsPrefix(Reading[0].out, Meant)
    BY <1>1, <1>2, MeantIs
  <2> QED BY <1>6, <2>1 DEF FramingExact
<1> QED BY <1>1, <1>2, <1>3, <1>4, <1>9, <1>10, <1>11 DEF Framing

LEMMA NothingWaits ==
  ASSUME WellSpokenClients, Framing
  PROVE  NothingHeldBack
<1> DEFINE Idle == LoopFree /\ stream = <<>> /\ conn = "open" /\ ~ stopped
<1> SUFFICES ASSUME Idle PROVE handed = Meant /\ buf = <<>>
  BY DEF NothingHeldBack
<1>1. script \in Scripts /\ WellSpoken(script) /\ buf \in Seq(Tokens) /\ Len(buf) \in Nat
  BY DEF Framing, WellSpokenClients
<1>2. PICK k \in 0..Len(Spoken) : Stands(k)
  BY DEF Framing
<1>3. At(k) /\ Short(k) /\ handed \o Batch = Reading[k].out /\ requests = <<>> /\ IsSeq(handed)
  BY <1>2 DEF Stands, Framing, LoopFree
<1>4. buf \o stream = buf
  BY <1>1, ConcatEmptySeq
<1> HIDE DEF Idle
<1>5. /\ Rest \in [0..Len(Spoken) -> Seq(Tokens)] /\ Rest[Len(Spoken)] = <<>>
      /\ \A j \in 1..Len(Spoken) : Rest[j - 1] = Spoken[j] \o Rest[j]
  BY <1>1, RestIs DEF Remainders
<1>6. Spoken \in Seq(Seq(Tokens)) /\ Len(Spoken) \in Nat
  BY <1>1, ReadingIs
<1>7. k = Len(Spoken)
  <2> SUFFICES ASSUME k # Len(Spoken) PROVE FALSE
    OBVIOUS
  <2>1. k + 1 \in 1..Len(Spoken) /\ k + 1 \in 0..Len(Spoken) /\ (k + 1) - 1 = k
    BY <1>6
  <2>2. Spoken[k + 1] \in Seq(Tokens) /\ Rest[k + 1] \in Seq(Tokens)
        /\ Rest[k] = Spoken[k + 1] \o Rest[k + 1]
    <3>1. Rest[k] = Spoken[k + 1] \o Rest[k + 1]
      BY <1>5, <2>1
    <3>2. Spoken[k + 1] \in Seq(Tokens)
      BY <1>6, <2>1
    <3>3. Rest[k + 1] \in Seq(Tokens)
      BY <1>5, <2>1
    <3> QED BY <3>1, <3>2, <3>3
  <2>3. CASE Reading[k].at = "kExpectBody"
    <3>1. /\ buf = <<>> /\ content \in 1..Reading[k].content
      BY <1>3, <2>3, k # Len(Spoken) DEF At, Short
    <3>2. PICK d \in Seq(Tokens) : Len(d) = content /\ buf \o stream = d \o Rest[k + 1]
      BY <1>3, <2>3 DEF At
    <3>3. Len(d \o Rest[k + 1]) = Len(d) + Len(Rest[k + 1]) /\ Len(Rest[k + 1]) \in Nat
      BY <2>2, ConcatProperties
    <3>4. Len(d \o Rest[k + 1]) = 0
      BY <1>4, <3>1, <3>2, Len(<<>>) = 0
    <3>5. content > 0 /\ content \in Int
      BY <3>1
    <3> QED BY <3>2, <3>3, <3>4, <3>5
  <2>4. CASE Reading[k].at # "kExpectBody"
    <3>1. buf = Spoken[k + 1] \o Rest[k + 1] /\ Len(buf) < Len(Spoken[k + 1])
      BY <1>3, <1>4, <2>2, <2>4, k # Len(Spoken) DEF At, Short
    <3>2. /\ Len(Spoken[k + 1] \o Rest[k + 1]) = Len(Spoken[k + 1]) + Len(Rest[k + 1])
          /\ Len(Rest[k + 1]) \in Nat /\ Len(Spoken[k + 1]) \in Nat
      BY <2>2, ConcatProperties
    <3> DEFINE a == Len(Spoken[k + 1])
               b == Len(Rest[k + 1])
               c == Len(buf)
    <3>3. c = a + b /\ a \in Nat /\ b \in Nat /\ c < a
      BY <3>1, <3>2
    <3> HIDE DEF a, b, c
    <3> QED BY <3>3
  <2> QED BY <2>3, <2>4
<1>8. buf = <<>>
  <2>1. Reading[k].at # "kExpectBody"
    BY <1>1, <1>7, MeantIs
  <2> QED BY <1>3, <1>5, <1>4, <1>7, <2>1 DEF At
<1>9. handed = Meant
  <2>1. Batch = <<>>
    BY <1>3 DEF Batch
  <2>2. handed \o <<>> = handed
    BY <1>3 DEF IsSeq
  <2>3. Reading[Len(Spoken)].out = Meant
    BY <1>1, <1>2, MeantIs
  <2> QED BY <1>3, <1>7, <2>1, <2>2, <2>3
<1> QED BY <1>8, <1>9

\* However the bytes of a client are cut into deliveries, and whatever handlers, responses
\* and the end of the connection do meanwhile, the requests handed over are the first of
\* those the client means, whole, in order and each with its own body; and a client is
\* refused only for a malformed message (HttpRequestParser::parseRequest and
\* HttpServer::onMessage).  Clients say plainly what they mean (WellSpoken).
THEOREM RequestsArriveWhole ==
  ASSUME Objects # {}, NoneIsNoRequest, WellSpokenClients
  PROVE  Spec => []FramingExact
<1>1. Init => IInv /\ Framing
  BY InitEstablishes, FramingInitially
<1>2. IInv /\ Framing /\ [Next]_vars => (IInv /\ Framing)'
  BY StepKeeps, StepFrames
<1>3. Framing => FramingExact
  BY DEF Framing
<1> QED BY <1>1, <1>2, <1>3, PTL DEF Spec

\* When all that a client sends has been received and the parser waits, every request it
\* means has been handed over and nothing is left in the buffer (the loop of
\* HttpServer::onMessage goes on while there is something to parse).
THEOREM NothingStaysBehind ==
  ASSUME Objects # {}, NoneIsNoRequest, WellSpokenClients
  PROVE  Spec => []NothingHeldBack
<1>1. Init => IInv /\ Framing
  BY InitEstablishes, FramingInitially
<1>2. IInv /\ Framing /\ [Next]_vars => (IInv /\ Framing)'
  BY StepKeeps, StepFrames
<1>3. Framing => NothingHeldBack
  BY NothingWaits
<1> QED BY <1>1, <1>2, <1>3, PTL DEF Spec
=============================================================================
