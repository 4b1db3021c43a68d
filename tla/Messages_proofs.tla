--------------------------- MODULE Messages_proofs ---------------------------
(***************************************************************************)
(* Proofs about what is sent and how it is read.  Each section is about    *)
(* one of the modules StaticFiles, ResponseRender, RealIp and RequestWire, *)
(* which share no state, for every value of its constants.                 *)
(*                                                                         *)
(* A file is sent as it was no longer ago than the cache time.  A response *)
(* goes out with the length and the date it should.  A request is the last *)
(* hop's before the trusted proxies.  What a client puts into a request is *)
(* what the server reads out of it.                                        *)
(***************************************************************************)
EXTENDS StaticFiles, ResponseRender, RealIp, RequestWire, SequenceInduction,
        SequenceTheorems, FiniteSetTheorems, TLAPS

-----------------------------------------------------------------------------
(* The static files: how old what is kept may be, and which file is meant. *)

StaticTyped ==
  /\ fileNow \in Int
  /\ \A s \in seen : s[2] \in Int
  /\ DOMAIN uri = DOMAIN Locations
  /\ \A l \in DOMAIN Locations : uri[l] \in Seq(DOMAIN Lower)

\* A kept response may have been behind for as long as its timer has run.
KeptInTime ==
  \A f \in DOMAIN kept :
    timer[f] \in 1..(CacheTime + 1) /\ HadAt(f, kept[f].since, CacheTime + 1 - timer[f])

StaticInv == StaticTyped /\ KeptAndTimed /\ KeptInTime /\ Fresh /\ NotModifiedOfItsCopy

LEMMA LoweredIsSequence ==
  ASSUME NEW path \in Seq(DOMAIN Lower)
  PROVE  /\ Lowered(path) \in Seq(DOMAIN Lower)
         /\ Len(Lowered(path)) = Len(path)
         /\ \A i \in 1..Len(path) : Lowered(path)[i] = Lower[path[i]]
<1>1. DOMAIN path = 1..Len(path) /\ \A i \in 1..Len(path) : path[i] \in DOMAIN Lower
  OBVIOUS
<1>2. \A i \in 1..Len(path) : Lower[path[i]] \in DOMAIN Lower
  BY <1>1, LowerAssumption
<1> QED BY <1>1, <1>2 DEF Lowered

\* Two paths that differ in the case of a prefix are the same in lower case.
LEMMA SameInLowerCase ==
  ASSUME NEW p \in Seq(DOMAIN Lower), NEW q \in Seq(DOMAIN Lower), NEW n \in Nat,
         Len(p) >= n, Len(q) >= n,
         Lowered(SubSeq(p, 1, n)) = Lowered(SubSeq(q, 1, n)), Rest(p, n) = Rest(q, n)
  PROVE  /\ Len(p) = Len(q)
         /\ \A i \in 1..Len(p) : Lower[p[i]] = Lower[q[i]]
         /\ Lowered(p) = Lowered(q)
<1> DEFINE Prefix(path) == SubSeq(path, 1, n)
<1>1. ASSUME NEW path \in Seq(DOMAIN Lower), Len(path) >= n
      PROVE  /\ Prefix(path) \in Seq(DOMAIN Lower) /\ Len(Prefix(path)) = n
             /\ \A i \in 1..n : Prefix(path)[i] = path[i]
             /\ Len(Rest(path, n)) = Len(path) - n
             /\ \A i \in 1..(Len(path) - n) : Rest(path, n)[i] = path[n + i]
  <2>1. Len(path) \in Nat /\ n \in 0..Len(path)
    BY <1>1
  <2>2. /\ Prefix(path) \in Seq(DOMAIN Lower) /\ Len(Prefix(path)) = n
        /\ \A i \in 1..n : Prefix(path)[i] = path[i]
    BY <2>1
  <2>3. /\ Len(Rest(path, n)) = Len(path) - n
        /\ \A i \in 1..(Len(path) - n) : Rest(path, n)[i] = path[n + i]
    BY <2>1 DEF Rest
  <2> QED BY <2>2, <2>3
<1>2. Len(p) = Len(q)
  BY <1>1, Len(p) - n = Len(q) - n
<1>3. ASSUME NEW i \in 1..n PROVE Lower[p[i]] = Lower[q[i]]
  <2>1. Lowered(Prefix(p))[i] = Lower[Prefix(p)[i]] /\ Lowered(Prefix(q))[i] = Lower[Prefix(q)[i]]
    <3> HIDE DEF Prefix
    <3> QED BY <1>1, <1>3, LoweredIsSequence
  <2>2. Prefix(p)[i] = p[i] /\ Prefix(q)[i] = q[i]
    BY <1>1
  <2> QED BY <2>1, <2>2
<1>4. ASSUME NEW i \in (n + 1)..Len(p) PROVE Lower[p[i]] = Lower[q[i]]
  <2>1. i - n \in 1..(Len(p) - n) /\ n + (i - n) = i
    OBVIOUS
  <2>2. Rest(p, n)[i - n] = p[i] /\ Rest(q, n)[i - n] = q[i]
    <3> HIDE DEF Prefix
    <3> QED BY <1>1, <1>2, <2>1
  <2> QED BY <2>2
<1>5. \A i \in 1..Len(p) : Lower[p[i]] = Lower[q[i]]
  <2> TAKE i \in 1..Len(p)
  <2>1. i \in 1..n \/ i \in (n + 1)..Len(p)
    OBVIOUS
  <2> QED BY <1>3, <1>4, <2>1
<1>6. DOMAIN p = 1..Len(p) /\ DOMAIN q = 1..Len(p)
  BY <1>2
<1>7. Lowered(p) = Lowered(q)
  BY <1>5, <1>6 DEF Lowered
<1> QED BY <1>2, <1>5, <1>7

\* They climb as far: a separator and ".." have no case.
LEMMA SameDepth ==
  ASSUME NEW p \in Seq(DOMAIN Lower), NEW q \in Seq(DOMAIN Lower), Len(p) = Len(q),
         \A i \in 1..Len(p) : Lower[p[i]] = Lower[q[i]]
  PROVE  Depth(p) = Depth(q)
<1>1. ASSUME NEW i \in 1..Len(p) PROVE StepOf(p[i]) = StepOf(q[i])
  <2>1. p[i] \in DOMAIN Lower /\ q[i] \in DOMAIN Lower /\ Lower[p[i]] = Lower[q[i]]
    OBVIOUS
  <2>2. (p[i] = "/" <=> q[i] = "/") /\ (p[i] = ".." <=> q[i] = "..")
    BY <2>1, LowerAssumption
  <2> QED BY <2>2 DEF StepOf
<1>2. DOMAIN p = 1..Len(p) /\ DOMAIN q = 1..Len(p)
  OBVIOUS
<1>3. Steps(p) = Steps(q)
  BY <1>1, <1>2 DEF Steps
<1> QED BY <1>3 DEF Depth

FitsAt(l, path) == StartsWith(ComparedAs(l, path), Realized(l, uri[l]))

\* The first location that fits is the one that answers.
LEMMA FirstThatFits ==
  ASSUME NEW path
  PROVE  /\ LocationOf(path) # 0 =>
              /\ LocationOf(path) \in DOMAIN Locations /\ FitsAt(LocationOf(path), path)
              /\ \A m \in DOMAIN Locations : FitsAt(m, path) => LocationOf(path) <= m
         /\ \A l \in DOMAIN Locations :
              FitsAt(l, path) /\ (\A m \in DOMAIN Locations : FitsAt(m, path) => l <= m)
              => LocationOf(path) = l
<1> DEFINE F == {l \in DOMAIN Locations : FitsAt(l, path)}
<1>1. F \subseteq Nat
  <2>1. Len(Locations) \in Nat \/ 1..Len(Locations) \subseteq Nat
    OBVIOUS
  <2> QED BY <2>1, PathsAssumption
<1>2. LocationOf(path) = IF F = {} THEN 0 ELSE CHOOSE l \in F : \A m \in F : l <= m
  BY DEF LocationOf, FitsAt
<1>3. CASE F = {}
  BY <1>2, <1>3
<1>4. CASE F # {}
  <2> DEFINE l == CHOOSE k \in F : \A m \in F : k <= m
  <2> HIDE DEF F
  <2>1. \E k \in F : \A m \in F : k <= m
    BY <1>1, <1>4, LeastNumber
  <2>2. l \in F /\ \A m \in F : l <= m
    BY <2>1
  <2>3. LocationOf(path) = l
    BY <1>2, <1>4
  <2>4. \A k \in F : (\A m \in F : k <= m) => k = l
    <3> HIDE DEF l
    <3> QED BY <1>1, <2>2
  <2> HIDE DEF l
  <2> QED BY <2>2, <2>3, <2>4 DEF F
<1> QED BY <1>3, <1>4

\* The case of a prefix changes nothing, whether or not it has been used before.
LEMMA CaseIgnored == ASSUME StaticTyped PROVE PrefixCaseIgnored
<1> SUFFICES ASSUME NEW p \in Paths, NEW q \in Paths, LocationOf(p) # 0,
                    \A m \in 1..LocationOf(p) : ~Locations[m].caseSensitive,
                    Len(q) >= Len(uri[LocationOf(p)]),
                    Lowered(SubSeq(p, 1, Len(uri[LocationOf(p)])))
                      = Lowered(SubSeq(q, 1, Len(uri[LocationOf(p)]))),
                    Rest(p, Len(uri[LocationOf(p)])) = Rest(q, Len(uri[LocationOf(p)]))
             PROVE  Route(p) = Route(q)
  BY DEF PrefixCaseIgnored
<1> DEFINE l == LocationOf(p)
           n == Len(uri[l])
<1>1. p \in Seq(DOMAIN Lower) /\ q \in Seq(DOMAIN Lower)
  BY PathsAssumption
<1>2. l \in DOMAIN Locations /\ FitsAt(l, p) /\ \A m \in DOMAIN Locations : FitsAt(m, p) => l <= m
  BY FirstThatFits
<1>3. uri[l] \in Seq(DOMAIN Lower) /\ n \in Nat
  BY <1>2 DEF StaticTyped
<1>4. DOMAIN Locations = 1..Len(Locations) /\ l \in Int /\ l >= 1
  BY <1>2, PathsAssumption
<1>5. ~Locations[l].caseSensitive
  BY <1>4
<1>6. Len(p) >= n
  <2>1. Len(Lowered(p)) = Len(p) /\ Len(Lowered(uri[l])) = n
    BY <1>1, <1>3, LoweredIsSequence
  <2>2. Len(Lowered(p)) >= Len(Lowered(uri[l]))
    BY <1>2, <1>5 DEF FitsAt, StartsWith, ComparedAs, Realized
  <2> QED BY <2>1, <2>2
<1>7. /\ Len(p) = Len(q) /\ Lowered(p) = Lowered(q)
      /\ \A i \in 1..Len(p) : Lower[p[i]] = Lower[q[i]]
  <2> HIDE DEF l
  <2> QED BY <1>1, <1>3, <1>6, SameInLowerCase DEF l
<1>8. ASSUME NEW m \in 1..l PROVE FitsAt(m, p) <=> FitsAt(m, q)
  BY <1>7, <1>8 DEF FitsAt, ComparedAs
<1>9. \A m \in DOMAIN Locations : FitsAt(m, q) => l <= m
  <2> SUFFICES ASSUME NEW m \in DOMAIN Locations, FitsAt(m, q), ~(l <= m) PROVE FALSE
    OBVIOUS
  <2> HIDE DEF l
  <2>1. m \in Int /\ m >= 1
    BY <1>4
  <2>2. m \in 1..l
    BY <1>4, <2>1
  <2> QED BY <1>2, <1>8, <2>2
<1>10. LocationOf(q) = l
  <2>1. FitsAt(l, q)
    BY <1>2, <1>4, <1>8
  <2> HIDE DEF l
  <2> QED BY <1>2, <1>9, <2>1, FirstThatFits
<1>11. InLocation(l, p) = InLocation(l, q)
  BY DEF InLocation
<1>12. Depth(p) = Depth(q)
  BY <1>1, <1>7, SameDepth
<1> QED BY <1>10, <1>11, <1>12 DEF Route

LEMMA StaticStarts == StaticInit => StaticInv
<1> SUFFICES ASSUME StaticInit PROVE StaticInv
  OBVIOUS
<1>1. StaticTyped
  BY PathsAssumption DEF StaticInit, StaticTyped
<1>2. DOMAIN kept = {} /\ DOMAIN timer = {}
  BY DEF StaticInit
<1>3. KeptAndTimed /\ KeptInTime
  BY <1>2 DEF KeptAndTimed, KeptInTime
<1>4. served.kind = "none"
  BY DEF StaticInit, Nothing
<1>5. Fresh /\ NotModifiedOfItsCopy
  BY <1>4 DEF Fresh, NotModifiedOfItsCopy
<1> QED BY <1>1, <1>3, <1>5 DEF StaticInv

\* A time a file had not long ago, it had not longer ago.
LEMMA HadAtLonger ==
  ASSUME StaticTyped, NEW target, NEW time, NEW a \in Int, NEW b \in Int, a <= b,
         HadAt(target, time, a)
  PROVE  HadAt(target, time, b)
BY DEF HadAt, StaticTyped

\* The file is as it was when it was looked at: every answer is fresh when it is given.
LEMMA SendFileKeeps ==
  ASSUME StaticInv, NEW target, NEW question, SendFile(target, question),
         UNCHANGED <<fileNow, mtime, zipped, seen>>
  PROVE  KeptAndTimed' /\ KeptInTime' /\ Fresh' /\ NotModifiedOfItsCopy'
<1> DEFINE Age == IF question.want \in {"plain", "gzip"} /\ CacheTime >= 0 THEN CacheTime ELSE 0
<1>1. Age \in Int /\ Age >= 0 /\ CacheTime \in Int
  BY CacheTimeAssumption
<1>2. \A f, t, a : HadAt(f, t, a)' <=> HadAt(f, t, a)
  BY DEF HadAt
<1>3. HadAt(target, MtimeOf(target), Age)
  BY DEF HadAt, MtimeOf
<1>4. ASSUME UNCHANGED <<kept, timer>> PROVE KeptAndTimed' /\ KeptInTime'
  BY <1>2, <1>4 DEF StaticInv, KeptAndTimed, KeptInTime
<1>5. ASSUME served'.kind \notin {"whole", "part", "not modified"}
      PROVE  Fresh' /\ NotModifiedOfItsCopy'
  BY <1>5 DEF Fresh, NotModifiedOfItsCopy
<1>6. ASSUME NEW kind, NEW since, NEW encoded, Answer(kind, target, question, since, encoded),
             HadAt(target, since, Age), kind = "not modified" => question.since = since
      PROVE  Fresh' /\ NotModifiedOfItsCopy'
  <2>1. /\ served'.kind = kind /\ served'.file = target /\ served'.since = since
        /\ served'.req = question
    BY <1>6 DEF Answer
  <2> QED BY <1>2, <1>6, <2>1 DEF Fresh, NotModifiedOfItsCopy
<1>7. CASE question.want = "post"
  <2>1. UNCHANGED <<kept, timer>> /\ served' = [kind |-> "bad method"]
    BY <1>7 DEF SendFile
  <2>2. Fresh' /\ NotModifiedOfItsCopy'
    BY <1>5, <2>1
  <2> QED BY <1>4, <2>1, <2>2
<1>8. CASE question.want \in {"plain", "gzip"}
  <2>1. SendWhole(target, question)
    BY <1>8 DEF SendFile
  <2>2. CASE target \in DOMAIN kept
    <3>1. /\ UNCHANGED <<kept, timer>>
          /\ \/ UnchangedSince(question.since, kept[target].since)
                /\ Answer("not modified", target, question, kept[target].since, FALSE)
             \/ Answer("whole", target, question, kept[target].since, kept[target].encoded)
      BY <2>1, <2>2 DEF SendWhole, UseKept
    <3>2. timer[target] \in 1..(CacheTime + 1)
          /\ HadAt(target, kept[target].since, CacheTime + 1 - timer[target])
      BY <2>2 DEF StaticInv, KeptInTime
    <3>3. CacheTime + 1 - timer[target] \in Int /\ CacheTime + 1 - timer[target] <= Age
      BY <1>1, <1>8, <3>2
    <3>4. HadAt(target, kept[target].since, Age)
      <4> HIDE DEF Age
      <4> QED BY <1>1, <3>2, <3>3, HadAtLonger DEF StaticInv
    <3> HIDE DEF Age
    <3>5. Fresh' /\ NotModifiedOfItsCopy'
      <4>1. CASE /\ UnchangedSince(question.since, kept[target].since)
                 /\ Answer("not modified", target, question, kept[target].since, FALSE)
        BY <1>6, <3>4, <4>1 DEF UnchangedSince
      <4>2. CASE Answer("whole", target, question, kept[target].since, kept[target].encoded)
        <5> DEFINE since == kept[target].since
                   encoded == kept[target].encoded
        <5>1. Answer("whole", target, question, since, encoded) /\ HadAt(target, since, Age)
          BY <3>4, <4>2
        <5> HIDE DEF since, encoded
        <5> QED BY <1>6, <5>1
      <4> QED BY <3>1, <4>1, <4>2
    <3> QED BY <1>4, <3>1, <3>5
  <2>3. CASE target \notin DOMAIN kept /\ target \notin Files
    <3>1. UNCHANGED <<kept, timer>> /\ served' = NotFound
      BY <2>1, <2>3 DEF SendWhole
    <3>2. Fresh' /\ NotModifiedOfItsCopy'
      BY <1>5, <3>1 DEF NotFound
    <3> QED BY <1>4, <3>1, <3>2
  <2>4. CASE /\ target \notin DOMAIN kept /\ target \in Files
             /\ UnchangedSince(question.since, MtimeOf(target))
    <3>1. UNCHANGED <<kept, timer>> /\ Answer("not modified", target, question, MtimeOf(target), FALSE)
      BY <2>1, <2>4 DEF SendWhole
    <3> HIDE DEF Age
    <3> QED BY <1>3, <1>4, <1>6, <2>4, <3>1 DEF UnchangedSince
  <2>5. CASE /\ target \notin DOMAIN kept /\ target \in Files
             /\ ~UnchangedSince(question.since, MtimeOf(target))
    <3> DEFINE made == [since |-> MtimeOf(target), encoded |-> question.want = "gzip" /\ Zipped(target)]
    <3>1. KeepResponse(target, made) /\ Answer("whole", target, question, made.since, made.encoded)
      BY <2>1, <2>5 DEF SendWhole
    <3>2. made.since = MtimeOf(target)
      OBVIOUS
    <3> HIDE DEF made
    <3>3. Fresh' /\ NotModifiedOfItsCopy'
      <4> HIDE DEF Age
      <4> QED BY <1>3, <1>6, <3>1, <3>2
    <3>4. CASE CacheTime < 0
      BY <1>4, <3>1, <3>3, <3>4 DEF KeepResponse
    <3>5. CASE ~(CacheTime < 0)
      <4>1. /\ kept' = [f \in DOMAIN kept \cup {target} |-> IF f = target THEN made ELSE kept[f]]
            /\ timer' = [f \in DOMAIN timer \cup {target} |->
                           IF f = target THEN CacheTime + 1 ELSE timer[f]]
        BY <3>1, <3>5 DEF KeepResponse
      <4>2. DOMAIN kept' = DOMAIN timer' /\ DOMAIN kept' = DOMAIN kept \cup {target}
        BY <4>1 DEF StaticInv, KeptAndTimed
      <4>3. ASSUME NEW f \in DOMAIN kept'
            PROVE  /\ timer'[f] \in 1..(CacheTime + 1)
                   /\ HadAt(f, kept'[f].since, CacheTime + 1 - timer'[f])
        <5>1. CASE f = target
          <6>1. timer'[f] = CacheTime + 1 /\ kept'[f] = made
            BY <4>1, <5>1
          <6>2. CacheTime + 1 - timer'[f] = 0 /\ CacheTime + 1 \in 1..(CacheTime + 1)
            BY <1>1, <3>5, <6>1
          <6>3. HadAt(target, MtimeOf(target), 0)
            BY DEF HadAt, MtimeOf
          <6> QED BY <3>2, <5>1, <6>1, <6>2, <6>3
        <5>2. CASE f # target
          <6>1. f \in DOMAIN kept /\ f \in DOMAIN timer
            BY <4>2, <5>2 DEF StaticInv, KeptAndTimed
          <6>2. timer'[f] = timer[f] /\ kept'[f] = kept[f]
            BY <4>1, <5>2, <6>1
          <6>3. /\ timer[f] \in 1..(CacheTime + 1)
                /\ HadAt(f, kept[f].since, CacheTime + 1 - timer[f])
            BY <6>1 DEF StaticInv, KeptInTime
          <6> QED BY <6>2, <6>3
        <5> QED BY <5>1, <5>2
      <4>4. KeptInTime'
        BY <1>2, <4>3 DEF KeptInTime
      <4>5. KeptAndTimed'
        BY <4>2 DEF KeptAndTimed
      <4> QED BY <3>3, <4>4, <4>5
    <3> QED BY <3>4, <3>5
  <2> QED BY <2>2, <2>3, <2>4, <2>5
<1>9. CASE question.want # "post" /\ question.want \notin {"plain", "gzip"}
  <2>1. /\ UNCHANGED <<kept, timer>>
        /\ \/ served' = NotFound
           \/ UnchangedSince(question.since, MtimeOf(target))
              /\ Answer("not modified", target, question, MtimeOf(target), FALSE)
           \/ Answer("part", target, question, MtimeOf(target), FALSE)
           \/ served' = [kind |-> "not satisfiable"]
    BY <1>9 DEF SendFile
  <2>2. NotFound.kind = "not found" /\ [kind |-> "not satisfiable"].kind = "not satisfiable"
    BY DEF NotFound
  <2> HIDE DEF Age
  <2>3. Fresh' /\ NotModifiedOfItsCopy'
    BY <1>3, <1>5, <1>6, <2>1, <2>2 DEF UnchangedSince
  <2> QED BY <1>4, <2>1, <2>3
<1> QED BY <1>7, <1>8, <1>9

\* Locations keep sequences for prefixes.
LEMMA PrepareKeeps ==
  ASSUME StaticTyped, NEW path, Prepare(path)
  PROVE  /\ DOMAIN uri' = DOMAIN Locations
         /\ \A l \in DOMAIN Locations : uri'[l] \in Seq(DOMAIN Lower)
<1>1. DOMAIN uri' = DOMAIN Locations
  BY DEF Prepare, StaticTyped
<1>2. ASSUME NEW l \in DOMAIN Locations PROVE uri'[l] \in Seq(DOMAIN Lower)
  <2>1. uri[l] \in Seq(DOMAIN Lower) /\ l \in DOMAIN uri
    BY DEF StaticTyped
  <2>2. Realized(l, uri[l]) \in Seq(DOMAIN Lower)
    BY <2>1, LoweredIsSequence DEF Realized
  <2>3. uri'[l] = Realized(l, uri[l]) \/ uri'[l] = uri[l]
    BY <2>1 DEF Prepare
  <2> QED BY <2>1, <2>2, <2>3
<1> QED BY <1>1, <1>2

LEMMA StaticKeeps == StaticInv /\ [StaticNext]_staticVars => StaticInv'
<1> SUFFICES ASSUME StaticInv, [StaticNext]_staticVars PROVE StaticInv'
  OBVIOUS
<1>1. ASSUME UNCHANGED <<kept, timer, fileNow, mtime, zipped, seen>>,
             served'.kind \notin {"whole", "part", "not modified"}
      PROVE  KeptAndTimed' /\ KeptInTime' /\ Fresh' /\ NotModifiedOfItsCopy'
  <2>1. KeptAndTimed' /\ KeptInTime'
    BY <1>1 DEF StaticInv, KeptAndTimed, KeptInTime, HadAt
  <2>2. Fresh' /\ NotModifiedOfItsCopy'
    BY <1>1 DEF Fresh, NotModifiedOfItsCopy
  <2> QED BY <2>1, <2>2
<1>2. CASE Request
  <2>1. PICK path \in Paths : route(path)
    BY <1>2 DEF Request
  <2>2. UNCHANGED <<fileNow, mtime, zipped, seen>> /\ Prepare(path)
    BY <2>1 DEF route
  <2>3. StaticTyped'
    BY <2>2, PrepareKeeps DEF StaticInv, StaticTyped
  <2>4. \/ served' = Route(path) /\ Route(path).kind # "serve" /\ UNCHANGED <<kept, timer>>
        \/ served' = Nothing /\ UNCHANGED <<kept, timer>>
        \/ \E target, question : SendFile(target, question)
    BY <2>1 DEF route
  <2>5. CASE served' = Route(path) /\ Route(path).kind # "serve" /\ UNCHANGED <<kept, timer>>
    <3>1. Route(path).kind \in {"forbidden", "not found", "serve"}
      BY DEF Route, InLocation, InDocRoot, Refused, NotFound, Serve
    <3> QED BY <1>1, <2>2, <2>3, <2>5, <3>1 DEF StaticInv
  <2>6. CASE served' = Nothing /\ UNCHANGED <<kept, timer>>
    BY <1>1, <2>2, <2>3, <2>6 DEF StaticInv, Nothing
  <2>7. CASE \E target, question : SendFile(target, question)
    BY <2>2, <2>3, <2>7, SendFileKeeps DEF StaticInv
  <2> QED BY <2>4, <2>5, <2>6, <2>7
<1>3. CASE FiltersEnd
  <2>1. PICK w \in waiting :
          /\ \/ SendFile(w.file, w.req)
             \/ served' = [kind |-> "filtered"] /\ UNCHANGED <<kept, timer>>
          /\ UNCHANGED <<fileNow, mtime, zipped, uri, seen>>
    BY <1>3 DEF FiltersEnd
  <2>2. StaticTyped'
    BY <2>1 DEF StaticInv, StaticTyped
  <2>3. CASE SendFile(w.file, w.req)
    BY <2>1, <2>2, <2>3, SendFileKeeps DEF StaticInv
  <2>4. CASE served' = [kind |-> "filtered"] /\ UNCHANGED <<kept, timer>>
    BY <1>1, <2>1, <2>2, <2>4 DEF StaticInv
  <2> QED BY <2>1, <2>3, <2>4
<1>4. CASE FileTick
  <2> DEFINE left == {f \in DOMAIN timer : timer[f] > 1}
  <2>1. /\ fileNow' = fileNow + 1 /\ served' = Nothing
        /\ timer' = [f \in left |-> timer[f] - 1]
        /\ kept' = [f \in DOMAIN kept \ (DOMAIN timer \ left) |-> kept[f]]
        /\ UNCHANGED <<mtime, zipped, uri, waiting, seen>>
    BY <1>4 DEF FileTick
  <2>2. StaticTyped'
    BY <2>1 DEF StaticInv, StaticTyped
  <2>3. DOMAIN kept' = left /\ DOMAIN timer' = left
    BY <2>1 DEF StaticInv, KeptAndTimed
  <2>4. ASSUME NEW f \in left
        PROVE  /\ timer'[f] \in 1..(CacheTime + 1)
               /\ HadAt(f, kept[f].since, CacheTime + 1 - timer[f])'
    <3>1. f \in DOMAIN kept /\ timer[f] > 1 /\ timer'[f] = timer[f] - 1 /\ kept'[f] = kept[f]
      BY <2>1, <2>3 DEF StaticInv, KeptAndTimed
    <3>2. /\ timer[f] \in 1..(CacheTime + 1)
          /\ HadAt(f, kept[f].since, CacheTime + 1 - timer[f])
      BY <3>1 DEF StaticInv, KeptInTime
    <3>3. fileNow' - (CacheTime + 1 - timer'[f]) = fileNow - (CacheTime + 1 - timer[f])
      BY <2>1, <3>1, <3>2, CacheTimeAssumption DEF StaticInv, StaticTyped
    <3>4. timer'[f] \in 1..(CacheTime + 1)
      BY <3>1, <3>2, CacheTimeAssumption
    <3> HIDE DEF left
    <3>5. HadAt(f, kept[f].since, CacheTime + 1 - timer[f])'
      BY <2>1, <3>1, <3>2, <3>3 DEF HadAt
    <3> QED BY <3>4, <3>5
  <2> HIDE DEF left
  <2>5. KeptAndTimed' /\ KeptInTime'
    BY <2>3, <2>4 DEF KeptAndTimed, KeptInTime
  <2>6. Fresh' /\ NotModifiedOfItsCopy'
    BY <2>1 DEF Fresh, NotModifiedOfItsCopy, Nothing
  <2> QED BY <2>2, <2>5, <2>6 DEF StaticInv
<1>5. CASE Rewrite
  <2>1. /\ mtime' = fileNow /\ seen' = seen \cup {<<mtime, fileNow>>} /\ served' = Nothing
        /\ UNCHANGED <<fileNow, uri, kept, timer, waiting>>
    BY <1>5 DEF Rewrite
  <2>2. StaticTyped'
    BY <2>1 DEF StaticInv, StaticTyped
  <2>3. ASSUME NEW f \in DOMAIN kept
        PROVE  HadAt(f, kept[f].since, CacheTime + 1 - timer[f])'
    <3>1. timer[f] \in 1..(CacheTime + 1) /\ HadAt(f, kept[f].since, CacheTime + 1 - timer[f])
      BY DEF StaticInv, KeptInTime
    <3>2. fileNow >= fileNow - (CacheTime + 1 - timer[f])
      BY <3>1, CacheTimeAssumption DEF StaticInv, StaticTyped
    <3>3. <<mtime, fileNow>> \in seen' /\ <<mtime, fileNow>>[1] = mtime
          /\ <<mtime, fileNow>>[2] = fileNow
      BY <2>1
    <3>4. seen \subseteq seen' /\ UNCHANGED <<fileNow, kept, timer>>
      BY <2>1
    <3> QED BY <3>1, <3>2, <3>3, <3>4 DEF HadAt
  <2>4. KeptAndTimed' /\ KeptInTime'
    BY <2>1, <2>3 DEF StaticInv, KeptAndTimed, KeptInTime
  <2>5. Fresh' /\ NotModifiedOfItsCopy'
    BY <2>1 DEF Fresh, NotModifiedOfItsCopy, Nothing
  <2> QED BY <2>2, <2>4, <2>5 DEF StaticInv
<1>6. CASE UNCHANGED staticVars
  BY <1>6 DEF StaticInv, staticVars, StaticTyped, KeptAndTimed, KeptInTime, HadAt, Fresh,
              NotModifiedOfItsCopy
<1> QED BY <1>2, <1>3, <1>4, <1>5, <1>6 DEF StaticNext

LEMMA StaticInvIsEnough == StaticInv => FilesCurrent
BY CaseIgnored DEF StaticInv, FilesCurrent

\* A client gets the file its path names, whatever the case of a prefix that has none, in
\* a state it had no longer ago than the cache time, however the rewriting of the file,
\* the timers, the filters and conditional requests interleave.
THEOREM FilesAreCurrent == StaticSpec => []FilesCurrent
<1> QED BY StaticStarts, StaticKeeps, StaticInvIsEnough, PTL DEF StaticSpec

-----------------------------------------------------------------------------
(* Responses: what a response is made into, now and when it was kept.      *)

IsResponse(r) ==
  /\ DOMAIN r = {"code", "body", "json", "serialized", "lengthHeader", "stream", "sendfile",
                 "passThrough", "close", "expires"}
  /\ r.serialized \in BOOLEAN /\ r.stream \in BOOLEAN /\ r.passThrough \in BOOLEAN
  /\ r.close \in BOOLEAN /\ r.expires \in BOOLEAN

IsOutput(out) ==
  out = [header |-> out.header, date |-> out.date, body |-> out.body, of |-> out.of,
         by |-> out.by]

\* The length that was set for what is passed through is that of its body, unless the
\* body is made of JSON.
LengthOfBody(r) ==
  r.json = Unset /\ r.lengthHeader # Unset => r.passThrough /\ r.lengthHeader = LengthOf(r.body)

BodyFits(out) ==
  \/ out.header.length = LengthOf(out.body)
  \/ ~Allowed(out.of) /\ (out.body = Unset \/ out.by = "whole")
  \/ out.of.passThrough /\ out.header.length = Unset
  \/ out.of.passThrough /\ out.of.json # Unset
HeadFits(out) ==
  \/ out.header.length = LengthOf(out.of.body)
  \/ ~Allowed(out.of)
  \/ out.of.passThrough
OutputFits(out) ==
  Simple(out.of) => IF out.body = "head" THEN HeadFits(out) ELSE BodyFits(out)

\* The header string that was made ahead is that of the response, which is complete.
HeaderOfAll ==
  fullHeader # Unset =>
    fullHeader = Header(resp) /\ Generated(resp) = resp /\ sets = MaxSetters

\* The string that is kept is a sound one, no younger than now and no older than the
\* second the last date was written in.
KeptString ==
  httpString # Unset \/ (datePos /\ resp.expires) =>
    /\ IsOutput(httpString) /\ OutputFits(httpString)
    /\ httpString.date # Unset => /\ SendDate
                                 /\ httpString.date \in Int
                                 /\ stringDate <= httpString.date
                                 /\ httpString.date <= second

RenderTyped ==
  /\ IsResponse(resp)
  /\ second \in Int /\ stringDate \in Int /\ stringDate <= second
  /\ sets \in Int

RenderedFits == rendered # Unset => OutputFits(rendered.out)

RenderInv ==
  /\ RenderTyped /\ HeaderOfAll /\ LengthOfBody(resp) /\ KeptString /\ RenderedFits
  /\ DateCurrent

LEMMA NewIsResponse ==
  /\ IsResponse(NewResponse) /\ LengthOfBody(NewResponse)
  /\ NewResponse.passThrough = FALSE /\ NewResponse.expires = FALSE
<1> DEFINE c == CHOOSE c \in Codes \ NoLength : TRUE
<1>1. NewResponse = [code |-> c, body |-> Unset, json |-> Unset, serialized |-> TRUE,
                     lengthHeader |-> Unset, stream |-> FALSE, sendfile |-> Unset,
                     passThrough |-> FALSE, close |-> FALSE, expires |-> FALSE]
  BY DEF NewResponse
<1> HIDE DEF c
<1> QED BY <1>1 DEF IsResponse, LengthOfBody

\* Making the body of a JSON object is done once and changes nothing the header says.
LEMMA GeneratedOnce ==
  ASSUME NEW r, IsResponse(r), LengthOfBody(r)
  PROVE  /\ IsResponse(Generated(r)) /\ LengthOfBody(Generated(r))
         /\ Generated(Generated(r)) = Generated(r)
         /\ Header(Generated(r)) = Header(r)
         /\ Generated(r).passThrough = r.passThrough /\ Generated(r).expires = r.expires
<1>1. CASE r.json = Unset \/ r.serialized
  BY <1>1 DEF Generated
<1>2. CASE ~(r.json = Unset \/ r.serialized)
  <2> DEFINE g == [r EXCEPT !.body = r.json, !.serialized = TRUE]
  <2>1. Generated(r) = g
    BY <1>2 DEF Generated
  <2>2. DOMAIN g = DOMAIN r /\ g.json = r.json /\ g.lengthHeader = r.lengthHeader
        /\ g.code = r.code /\ g.sendfile = r.sendfile
    BY DEF IsResponse
  <2>3. /\ g.stream = r.stream /\ g.passThrough = r.passThrough
        /\ g.close = r.close /\ g.expires = r.expires /\ g.serialized = TRUE
    BY DEF IsResponse
  <2> HIDE DEF g
  <2>4. IsResponse(g)
    BY <2>2, <2>3 DEF IsResponse
  <2>5. LengthOfBody(g)
    BY <1>2, <2>2 DEF LengthOfBody
  <2>6. Generated(g) = g
    BY <2>3 DEF Generated
  <2>7. Header(g) = Header(r)
    BY <2>1, <2>2, <2>3, <2>6 DEF Header, Allowed
  <2> QED BY <2>1, <2>3, <2>4, <2>5, <2>6, <2>7
<1> QED BY <1>1, <1>2

\* What the response is when it has been rendered, and that its header is the one used.
LEMMA HeaderIsOfOutput ==
  ASSUME RenderInv
  PROVE  /\ HeaderNow = Header(AfterHeader) /\ Generated(AfterHeader) = AfterHeader
         /\ IsResponse(AfterHeader) /\ LengthOfBody(AfterHeader)
         /\ AfterHeader.passThrough = resp.passThrough /\ AfterHeader.expires = resp.expires
<1>1. CASE fullHeader = Unset
  BY <1>1, GeneratedOnce DEF RenderInv, RenderTyped, HeaderNow, AfterHeader
<1>2. CASE fullHeader # Unset
  BY <1>2 DEF RenderInv, RenderTyped, HeaderOfAll, HeaderNow, AfterHeader
<1> QED BY <1>1, <1>2

\* However a complete response goes out, what goes out fits it.
LEMMA OutputIsSound ==
  ASSUME NEW a, IsResponse(a), LengthOfBody(a), Generated(a) = a, NEW date, NEW by, NEW body,
         \/ body = a.body /\ by = "whole"
         \/ body = BodyToSend(a)
         \/ body = "head"
  PROVE  OutputFits([header |-> Header(a), date |-> date, body |-> body, of |-> a, by |-> by])
<1> DEFINE out == [header |-> Header(a), date |-> date, body |-> body, of |-> a, by |-> by]
           length == IF ~Allowed(a) \/ a.passThrough THEN a.lengthHeader
                     ELSE IF a.stream THEN Unset
                     ELSE IF a.sendfile # Unset THEN a.sendfile ELSE LengthOf(a.body)
<1>1. out.header.length = length
  BY DEF Header
<1>2. out.body = body /\ out.of = a /\ out.by = by
  OBVIOUS
<1> HIDE DEF out
<1> SUFFICES ASSUME Simple(a) PROVE IF body = "head" THEN HeadFits(out) ELSE BodyFits(out)
  BY <1>2 DEF OutputFits, out
<1>3. CASE ~Allowed(a)
  BY <1>2, <1>3 DEF HeadFits, BodyFits, BodyToSend
<1>4. CASE Allowed(a) /\ ~a.passThrough
  <2>1. length = LengthOf(a.body)
    BY <1>4 DEF Simple
  <2>2. body = "head" \/ body = a.body
    BY <1>4 DEF BodyToSend
  <2> HIDE DEF length
  <2> QED BY <1>1, <1>2, <2>1, <2>2 DEF HeadFits, BodyFits
<1>5. CASE Allowed(a) /\ a.passThrough
  <2>1. length = a.lengthHeader
    BY <1>5
  <2>2. body = "head" \/ body = a.body
    BY <1>5 DEF BodyToSend
  <2>3. a.json # Unset \/ a.lengthHeader = Unset \/ a.lengthHeader = LengthOf(a.body)
    BY DEF LengthOfBody
  <2> HIDE DEF length
  <2> QED BY <1>1, <1>2, <1>5, <2>1, <2>2, <2>3 DEF HeadFits, BodyFits
<1> QED BY <1>3, <1>4, <1>5

LEMMA ResponseStarts == ResponseInit => RenderInv
<1> SUFFICES ASSUME ResponseInit PROVE RenderInv
  OBVIOUS
<1>1. resp = NewResponse /\ second = 0 /\ stringDate = -1 /\ sets = 0 /\ datePos = FALSE
      /\ fullHeader = Unset /\ httpString = Unset /\ rendered = Unset
  BY DEF ResponseInit
<1>2. RenderTyped /\ LengthOfBody(resp)
  BY <1>1, NewIsResponse DEF RenderTyped
<1> QED BY <1>1, <1>2 DEF RenderInv, HeaderOfAll, KeptString, RenderedFits, DateCurrent

\* A setter finds no header string made ahead; it takes back no passing through, and
\* leaves a kept string with its date only where it was.
LEMMA SetterKeeps ==
  ASSUME RenderInv, sets < MaxSetters, sets' = sets + 1,
         IsResponse(resp'), LengthOfBody(resp'), resp.passThrough => resp'.passThrough,
         datePos' /\ resp'.expires => datePos /\ resp.expires,
         fullHeader' \in {Unset, fullHeader},
         UNCHANGED <<second, httpString, stringDate, rendered>>
  PROVE  RenderInv'
<1>1. fullHeader = Unset
  BY ResponseAssumption DEF RenderInv, RenderTyped, HeaderOfAll
<1>2. HeaderOfAll'
  BY <1>1 DEF HeaderOfAll
<1>3. RenderTyped'
  BY DEF RenderInv, RenderTyped
<1>4. KeptString'
  BY DEF RenderInv, KeptString
<1>5. RenderedFits' /\ DateCurrent'
  BY DEF RenderInv, RenderedFits, DateCurrent
<1>6. LengthOfBody(resp)'
  BY DEF LengthOfBody
<1> QED BY <1>2, <1>3, <1>4, <1>5, <1>6 DEF RenderInv

\* Setters that leave length, JSON and body as they are.
LEMMA OtherFieldsKeep ==
  ASSUME NEW r, NEW s, IsResponse(r), IsResponse(s), LengthOfBody(r),
         s.json = r.json, s.lengthHeader = r.lengthHeader, s.body = r.body,
         r.passThrough => s.passThrough
  PROVE  LengthOfBody(s)
BY DEF LengthOfBody

LEMMA SettersKeep ==
  ASSUME RenderInv,
         \/ setStatusCode \/ setVersion10 \/ setPassThrough \/ setStreamCallback
         \/ setSendfile \/ setBody \/ setJsonObject \/ getBodyData \/ setExpiredTime
         \/ addHeader
  PROVE  RenderInv'
<1>1. IsResponse(resp) /\ LengthOfBody(resp)
  BY DEF RenderInv, RenderTyped
<1>2. ASSUME NEW s, SetOnly(s), IsResponse(s), LengthOfBody(s),
             resp.passThrough => s.passThrough, s.expires = resp.expires
      PROVE  RenderInv'
  <2>1. /\ sets < MaxSetters /\ sets' = sets + 1 /\ resp' = s
        /\ UNCHANGED <<second, httpString, stringDate, rendered>>
        /\ UNCHANGED <<fullHeader, datePos>>
    BY <1>2 DEF SetOnly, SetField
  <2> QED BY <1>2, <2>1, SetterKeeps
<1>3. ASSUME NEW s, SetOnly(s), IsResponse(s), s.json = resp.json,
             s.lengthHeader = resp.lengthHeader, s.body = resp.body,
             resp.passThrough => s.passThrough, s.expires = resp.expires
      PROVE  RenderInv'
  BY <1>1, <1>2, <1>3, OtherFieldsKeep
<1>4. CASE setStatusCode
  <2>1. PICK c \in Codes : SetOnly([resp EXCEPT !.code = c])
    BY <1>4 DEF setStatusCode
  <2> DEFINE s == [resp EXCEPT !.code = c]
  <2>2. /\ IsResponse(s) /\ s.json = resp.json /\ s.lengthHeader = resp.lengthHeader
        /\ s.body = resp.body /\ s.passThrough = resp.passThrough /\ s.expires = resp.expires
    BY <1>1 DEF IsResponse
  <2> HIDE DEF s
  <2> QED BY <1>3, <2>1, <2>2 DEF s
<1>5. CASE setVersion10
  <2> DEFINE s == [resp EXCEPT !.close = TRUE]
  <2>1. SetOnly(s)
    BY <1>5 DEF setVersion10
  <2>2. /\ IsResponse(s) /\ s.json = resp.json /\ s.lengthHeader = resp.lengthHeader
        /\ s.body = resp.body /\ s.passThrough = resp.passThrough /\ s.expires = resp.expires
    BY <1>1 DEF IsResponse
  <2> HIDE DEF s
  <2> QED BY <1>3, <2>1, <2>2
<1>6. CASE setPassThrough
  <2> DEFINE s == [resp EXCEPT !.passThrough = TRUE]
  <2>1. SetOnly(s)
    BY <1>6 DEF setPassThrough
  <2>2. /\ IsResponse(s) /\ s.json = resp.json /\ s.lengthHeader = resp.lengthHeader
        /\ s.body = resp.body /\ s.passThrough = TRUE /\ s.expires = resp.expires
    BY <1>1 DEF IsResponse
  <2> HIDE DEF s
  <2> QED BY <1>3, <2>1, <2>2
<1>7. CASE setStreamCallback
  <2> DEFINE s == [resp EXCEPT !.stream = TRUE]
  <2>1. SetOnly(s)
    BY <1>7 DEF setStreamCallback
  <2>2. /\ IsResponse(s) /\ s.json = resp.json /\ s.lengthHeader = resp.lengthHeader
        /\ s.body = resp.body /\ s.passThrough = resp.passThrough /\ s.expires = resp.expires
    BY <1>1 DEF IsResponse
  <2> HIDE DEF s
  <2> QED BY <1>3, <2>1, <2>2
<1>8. CASE setSendfile
  <2>1. PICK n \in 1..2 : SetOnly([resp EXCEPT !.sendfile = n])
    BY <1>8 DEF setSendfile
  <2> DEFINE s == [resp EXCEPT !.sendfile = n]
  <2>2. /\ IsResponse(s) /\ s.json = resp.json /\ s.lengthHeader = resp.lengthHeader
        /\ s.body = resp.body /\ s.passThrough = resp.passThrough /\ s.expires = resp.expires
    BY <1>1 DEF IsResponse
  <2> HIDE DEF s
  <2> QED BY <1>3, <2>1, <2>2 DEF s
<1>9. CASE setBody
  <2>1. PICK b \in Bodies :
          /\ SetField(WithBody(resp, b))
          /\ fullHeader' = IF resp.passThrough THEN Unset ELSE fullHeader
          /\ UNCHANGED datePos
    BY <1>9 DEF setBody
  <2> DEFINE s == WithBody(resp, b)
  <2>2. /\ IsResponse(s) /\ s.json = resp.json /\ s.body = b
        /\ s.passThrough = resp.passThrough /\ s.expires = resp.expires
    BY <1>1 DEF IsResponse, WithBody
  <2>3. s.lengthHeader = IF resp.passThrough THEN Len(b) ELSE resp.lengthHeader
    BY <1>1 DEF IsResponse, WithBody
  <2> HIDE DEF s
  <2>4. LengthOf(b) = Len(b)
    BY ResponseAssumption DEF LengthOf
  <2>5. LengthOfBody(s)
    BY <1>1, <2>2, <2>3, <2>4 DEF LengthOfBody
  <2>6. /\ sets < MaxSetters /\ sets' = sets + 1 /\ resp' = s
        /\ UNCHANGED <<second, httpString, stringDate, rendered>>
    BY <2>1 DEF SetField, s
  <2> QED BY <2>1, <2>2, <2>5, <2>6, SetterKeeps
<1>10. CASE setJsonObject
  <2>1. PICK text \in JsonTexts :
          /\ SetField([resp EXCEPT !.json = text, !.serialized = FALSE])
          /\ UNCHANGED <<fullHeader, datePos>>
    BY <1>10 DEF setJsonObject
  <2> DEFINE s == [resp EXCEPT !.json = text, !.serialized = FALSE]
  <2>2. /\ IsResponse(s) /\ s.lengthHeader = resp.lengthHeader
        /\ s.passThrough = resp.passThrough /\ s.expires = resp.expires
    BY <1>1 DEF IsResponse
  <2>3. resp = NewResponse
    BY <1>10 DEF setJsonObject
  <2>4. NewResponse.lengthHeader = Unset
    BY DEF NewResponse
  <2> HIDE DEF s
  <2>5. LengthOfBody(s)
    BY <2>2, <2>3, <2>4 DEF LengthOfBody
  <2>6. /\ sets < MaxSetters /\ sets' = sets + 1 /\ resp' = s
        /\ UNCHANGED <<second, httpString, stringDate, rendered>>
    BY <2>1 DEF SetField, s
  <2> QED BY <2>1, <2>2, <2>5, <2>6, SetterKeeps
<1>11. CASE getBodyData
  BY <1>1, <1>2, <1>11, GeneratedOnce DEF getBodyData
<1>12. CASE setExpiredTime
  <2>1. PICK on \in BOOLEAN :
          /\ SetField([resp EXCEPT !.expires = on])
          /\ datePos' = FALSE
          /\ fullHeader' = IF ~on /\ resp.close THEN Unset ELSE fullHeader
    BY <1>12 DEF setExpiredTime
  <2> DEFINE s == [resp EXCEPT !.expires = on]
  <2>2. /\ IsResponse(s) /\ s.json = resp.json /\ s.lengthHeader = resp.lengthHeader
        /\ s.body = resp.body /\ s.passThrough = resp.passThrough
    BY <1>1 DEF IsResponse
  <2> HIDE DEF s
  <2>3. LengthOfBody(s)
    BY <1>1, <2>2, OtherFieldsKeep
  <2>4. /\ sets < MaxSetters /\ sets' = sets + 1 /\ resp' = s
        /\ UNCHANGED <<second, httpString, stringDate, rendered>>
    BY <2>1 DEF SetField, s
  <2>5. fullHeader' \in {Unset, fullHeader}
    BY <2>1
  <2> QED BY <2>1, <2>2, <2>3, <2>4, <2>5, SetterKeeps
<1>13. CASE addHeader
  <2>1. /\ sets < MaxSetters /\ sets' = sets + 1 /\ resp' = resp
        /\ UNCHANGED <<second, httpString, stringDate, rendered>>
        /\ fullHeader' = Unset /\ UNCHANGED datePos
    BY <1>13 DEF addHeader, SetField
  <2> QED BY <1>1, <2>1, SetterKeeps
<1> QED BY <1>4, <1>5, <1>6, <1>7, <1>8, <1>9, <1>10, <1>11, <1>12, <1>13

\* Rendering fits, whichever way: what goes out, what is kept and what is left.
LEMMA RenderKeeps ==
  ASSUME RenderInv, RenderInto \/ RenderFirst \/ RenderHead
  PROVE  RenderInv'
<1> DEFINE a == AfterHeader
<1>1. /\ HeaderNow = Header(a) /\ Generated(a) = a /\ IsResponse(a) /\ LengthOfBody(a)
      /\ a.passThrough = resp.passThrough /\ a.expires = resp.expires
  BY HeaderIsOfOutput
<1>2. resp' = a /\ UNCHANGED <<second, fullHeader, stringDate, sets>>
  BY DEF RenderInto, RenderFirst, RenderHead
<1>3. RenderTyped' /\ LengthOfBody(resp)'
  BY <1>1, <1>2 DEF RenderInv, RenderTyped, LengthOfBody
<1>4. HeaderOfAll'
  <2>1. fullHeader # Unset => a = resp
    BY DEF AfterHeader
  <2> HIDE DEF a
  <2> QED BY <1>1, <1>2, <2>1 DEF RenderInv, HeaderOfAll
<1>5. /\ DateNow # Unset => SendDate /\ ~resp.passThrough
      /\ DateNow = second \/ DateNow = Unset
  BY DEF DateNow
<1>6. ASSUME NEW body, NEW by, Rendered(Output(HeaderNow, DateNow, body, by)),
             \/ body = a.body /\ by = "whole"
             \/ body = BodyToSend(a)
             \/ body = "head"
      PROVE  RenderedFits' /\ DateCurrent'
  <2> DEFINE out == [header |-> Header(a), date |-> DateNow, body |-> body, of |-> a, by |-> by]
  <2>1. OutputFits(out)
    <3> HIDE DEF a
    <3> QED BY <1>1, <1>6, OutputIsSound
  <2>2. rendered' = [out |-> out, at |-> second]
    BY <1>1, <1>6 DEF Rendered, Output
  <2>3. out.date = DateNow
    OBVIOUS
  <2> HIDE DEF out
  <2>4. rendered'.out = out /\ rendered'.at = second
    BY <2>2
  <2>5. RenderedFits'
    BY <2>1, <2>4 DEF RenderedFits, OutputFits, Simple, HeadFits, BodyFits, Allowed, LengthOf
  <2>6. DateCurrent'
    BY <1>5, <2>3, <2>4 DEF DateCurrent
  <2> QED BY <2>5, <2>6
<1>7. ASSUME UNCHANGED <<httpString>>, datePos' = datePos \/ ~resp.expires PROVE KeptString'
  <2>1. resp'.expires = resp.expires
    BY <1>1, <1>2
  <2>2. httpString' # Unset \/ (datePos' /\ resp'.expires)
        => httpString # Unset \/ (datePos /\ resp.expires)
    BY <1>7, <2>1
  <2> QED BY <1>2, <1>7, <2>2 DEF RenderInv, KeptString
<1>8. CASE RenderInto
  <2>1. /\ Rendered(Output(HeaderNow, DateNow, BodyToSend(resp'), "into"))
        /\ UNCHANGED <<httpString, datePos>>
    BY <1>8 DEF RenderInto
  <2>2. BodyToSend(resp') = BodyToSend(a)
    BY <1>2
  <2>3. RenderedFits' /\ DateCurrent'
    <3> HIDE DEF a
    <3> QED BY <1>6, <2>1, <2>2
  <2> QED BY <1>3, <1>4, <1>7, <2>1, <2>3 DEF RenderInv
<1>9. CASE RenderHead
  <2>1. /\ Rendered(Output(HeaderNow, DateNow, "head", "head"))
        /\ UNCHANGED <<httpString, datePos>>
    BY <1>9 DEF RenderHead
  <2>2. RenderedFits' /\ DateCurrent'
    <3> HIDE DEF a
    <3> QED BY <1>6, <2>1
  <2> QED BY <1>3, <1>4, <1>7, <2>1, <2>2 DEF RenderInv
<1>10. CASE RenderFirst
  <2> DEFINE out == Output(HeaderNow, DateNow, a.body, "whole")
  <2>1. /\ datePos' = (datePos \/ DateNow # Unset)
        /\ httpString' = IF resp.expires THEN out ELSE httpString
        /\ Rendered(out)
    BY <1>2, <1>10 DEF RenderFirst
  <2>2. RenderedFits' /\ DateCurrent'
    <3> HIDE DEF a
    <3> QED BY <1>6, <2>1
  <2>3. KeptString'
    <3>1. CASE ~resp.expires
      BY <1>7, <2>1, <3>1
    <3>2. CASE resp.expires
      <4>1. out = [header |-> Header(a), date |-> DateNow, body |-> a.body, of |-> a,
                   by |-> "whole"]
        BY <1>1 DEF Output
      <4>2. OutputFits(out)
        <5> HIDE DEF a
        <5> QED BY <1>1, <4>1, OutputIsSound
      <4>3. IsOutput(out) /\ out.date = DateNow
        BY <4>1 DEF IsOutput
      <4>4. httpString' = out
        BY <2>1, <3>2
      <4> HIDE DEF out
      <4> QED BY <1>2, <1>5, <4>2, <4>3, <4>4 DEF KeptString, OutputFits, IsOutput, Simple,
                 HeadFits, BodyFits, Allowed, LengthOf, RenderInv, RenderTyped
    <3> QED BY <3>1, <3>2
  <2> QED BY <1>3, <1>4, <2>2, <2>3 DEF RenderInv
<1> QED BY <1>8, <1>9, <1>10

\* The date of a kept string is written anew, and nothing else of it.
LEMMA RedatedFits ==
  ASSUME NEW string, IsOutput(string), OutputFits(string)
  PROVE  /\ IsOutput(Redated(string)) /\ OutputFits(Redated(string))
         /\ Redated(string).date = second
         /\ Redated(string).header = string.header /\ Redated(string).body = string.body
<1>1. Redated(string) = [header |-> string.header, date |-> second, body |-> string.body,
                         of |-> string.of, by |-> string.by]
  BY DEF Redated, IsOutput
<1>2. IsOutput(Redated(string))
  BY <1>1 DEF IsOutput
<1>3. /\ Redated(string).header = string.header /\ Redated(string).date = second
      /\ Redated(string).body = string.body /\ Redated(string).of = string.of
      /\ Redated(string).by = string.by
  BY <1>1
<1>4. OutputFits(Redated(string))
  BY <1>3 DEF OutputFits, HeadFits, BodyFits
<1> QED BY <1>2, <1>3, <1>4

\* A kept string is there when it is asked for, and its date is brought up to now.
LEMMA RenderKeptKeeps == ASSUME RenderInv, RenderKept PROVE RenderInv'
<1>1. /\ resp.expires
      /\ IF ~resp.passThrough /\ SendDate THEN datePos ELSE httpString # Unset
      /\ IF ~resp.passThrough /\ SendDate /\ isDateChanged
         THEN httpString' = Redated(httpString) /\ stringDate' = second
         ELSE UNCHANGED <<httpString, stringDate>>
      /\ rendered' = [out |-> httpString', at |-> second]
      /\ UNCHANGED <<second, resp, fullHeader, datePos, sets>>
  BY DEF RenderKept, Rendered
<1>2. /\ IsOutput(httpString) /\ OutputFits(httpString)
      /\ httpString.date # Unset => /\ SendDate
                                   /\ httpString.date \in Int
                                   /\ stringDate <= httpString.date
                                   /\ httpString.date <= second
  BY <1>1 DEF RenderInv, KeptString
<1>3. RenderTyped /\ HeaderOfAll /\ LengthOfBody(resp)
  BY DEF RenderInv
<1>4. RenderTyped' /\ HeaderOfAll' /\ LengthOfBody(resp)'
  BY <1>1, <1>3 DEF RenderTyped, HeaderOfAll, LengthOfBody
<1>5. rendered'.out = httpString' /\ rendered'.at = second
  BY <1>1
<1>6. CASE ~resp.passThrough /\ SendDate /\ isDateChanged
  <2>1. httpString' = Redated(httpString) /\ stringDate' = second
    BY <1>1, <1>6
  <2>2. IsOutput(httpString') /\ OutputFits(httpString') /\ httpString'.date = second
    BY <1>2, <2>1, RedatedFits
  <2>3. KeptString'
    BY <1>1, <1>3, <1>6, <2>1, <2>2 DEF KeptString, IsOutput, OutputFits, HeadFits, BodyFits,
       Simple, Allowed, LengthOf, RenderTyped
  <2>4. RenderedFits' /\ DateCurrent'
    BY <1>1, <1>5, <2>2 DEF RenderedFits, DateCurrent, OutputFits, HeadFits, BodyFits,
       Simple, Allowed, LengthOf
  <2> QED BY <1>4, <2>3, <2>4 DEF RenderInv
<1>7. CASE ~(~resp.passThrough /\ SendDate /\ isDateChanged)
  <2>1. UNCHANGED <<httpString, stringDate>>
    BY <1>1, <1>7
  <2>2. KeptString'
    BY <1>1, <2>1 DEF RenderInv, KeptString
  <2>3. RenderedFits'
    BY <1>2, <1>5, <2>1 DEF RenderedFits, OutputFits, HeadFits, BodyFits, Simple, Allowed,
       LengthOf
  <2>4. httpString.date # Unset /\ ~resp.passThrough => httpString.date = second
    BY <1>2, <1>3, <1>7 DEF isDateChanged, RenderTyped
  <2>5. DateCurrent'
    BY <1>1, <1>5, <2>1, <2>4 DEF DateCurrent
  <2> QED BY <1>4, <2>2, <2>3, <2>5 DEF RenderInv
<1> QED BY <1>6, <1>7

\* What is made ahead, time, and the response used again.
LEMMA OthersKeepRender ==
  ASSUME RenderInv, makeHeaderString \/ ResponseTick \/ clear \/ UNCHANGED respVars
  PROVE  RenderInv'
<1>1. IsResponse(resp) /\ LengthOfBody(resp)
  BY DEF RenderInv, RenderTyped
<1>2. CASE makeHeaderString
  <2> DEFINE g == Generated(resp)
  <2>1. /\ fullHeader' = Header(resp) /\ resp' = g /\ sets' = MaxSetters
        /\ UNCHANGED <<second, httpString, datePos, stringDate, rendered>>
    BY <1>2 DEF makeHeaderString
  <2>2. /\ IsResponse(g) /\ LengthOfBody(g) /\ Generated(g) = g /\ Header(g) = Header(resp)
        /\ g.passThrough = resp.passThrough /\ g.expires = resp.expires
    BY <1>1, GeneratedOnce
  <2> HIDE DEF g
  <2>3. HeaderOfAll'
    BY <2>1, <2>2 DEF HeaderOfAll
  <2>4. RenderTyped' /\ LengthOfBody(resp)'
    BY <2>1, <2>2, ResponseAssumption DEF RenderInv, RenderTyped, LengthOfBody
  <2>5. KeptString'
    BY <2>1, <2>2 DEF RenderInv, KeptString
  <2>6. RenderedFits' /\ DateCurrent'
    BY <2>1, <2>2 DEF RenderInv, RenderedFits, DateCurrent
  <2> QED BY <2>3, <2>4, <2>5, <2>6 DEF RenderInv
<1>3. CASE ResponseTick
  <2>1. /\ second' = second + 1
        /\ UNCHANGED <<resp, fullHeader, httpString, datePos, stringDate, sets, rendered>>
    BY <1>3 DEF ResponseTick
  <2>2. KeptString'
    BY <2>1 DEF RenderInv, RenderTyped, KeptString
  <2>3. RenderTyped' /\ HeaderOfAll' /\ LengthOfBody(resp)'
    BY <2>1 DEF RenderInv, RenderTyped, HeaderOfAll, LengthOfBody
  <2>4. RenderedFits' /\ DateCurrent'
    BY <2>1 DEF RenderInv, RenderedFits, DateCurrent
  <2> QED BY <2>2, <2>3, <2>4 DEF RenderInv
<1>4. CASE clear
  <2> DEFINE s == [NewResponse EXCEPT !.passThrough = resp.passThrough, !.close = resp.close,
                                      !.serialized = resp.serialized, !.code = Unset]
  <2>1. /\ resp' = s /\ fullHeader' = Unset /\ datePos' = FALSE /\ rendered' = Unset
        /\ UNCHANGED <<second, httpString, stringDate, sets>>
    BY <1>4 DEF clear
  <2>2. IsResponse(s) /\ s.lengthHeader = Unset
    BY <1>1, NewIsResponse DEF IsResponse, NewResponse
  <2> HIDE DEF s
  <2>3. LengthOfBody(s)
    BY <2>2 DEF LengthOfBody
  <2>4. KeptString'
    BY <2>1 DEF RenderInv, KeptString
  <2>5. RenderTyped' /\ HeaderOfAll' /\ LengthOfBody(resp)'
    BY <2>1, <2>2, <2>3 DEF RenderInv, RenderTyped, HeaderOfAll, LengthOfBody
  <2>6. RenderedFits' /\ DateCurrent'
    BY <2>1 DEF RenderedFits, DateCurrent
  <2> QED BY <2>4, <2>5, <2>6 DEF RenderInv
<1>5. CASE UNCHANGED respVars
  BY <1>5 DEF respVars, RenderInv, RenderTyped, HeaderOfAll, LengthOfBody, KeptString,
              RenderedFits, DateCurrent
<1> QED BY <1>2, <1>3, <1>4, <1>5

LEMMA ResponseKeeps == RenderInv /\ [ResponseNext]_respVars => RenderInv'
BY SettersKeep, RenderKeeps, RenderKeptKeeps, OthersKeepRender DEF ResponseNext

LEMMA RenderInvIsEnough == RenderInv => ResponseExact
BY DEF RenderInv, RenderedFits, OutputFits, HeadFits, BodyFits, ResponseExact, LengthsExact,
       HeadAsGet

\* Whatever is set, in whichever order, and however often, in whichever way and how late it
\* is rendered, what goes out has the length it announces, a HEAD answer the length of the
\* GET, and a kept response the date of the second it is sent in.
THEOREM ResponsesFit == ResponseSpec => []ResponseExact
<1> QED BY ResponseStarts, ResponseKeeps, RenderInvIsEnough, PTL DEF ResponseSpec

\* The bytes that are kept change in their date only, until the expiry is set again.
LEMMA KeptStaysInStep ==
  ASSUME RenderInv, [ResponseNext]_respVars, httpString # Unset, datePos, datePos', resp.expires
  PROVE  httpString'.header = httpString.header /\ httpString'.body = httpString.body
<1>1. IsOutput(httpString) /\ OutputFits(httpString)
  BY DEF RenderInv, KeptString
<1>2. CASE RenderKept
  <2>1. httpString' = Redated(httpString) \/ httpString' = httpString
    BY <1>2 DEF RenderKept
  <2> QED BY <1>1, <2>1, RedatedFits
<1>3. CASE RenderFirst
  BY <1>3 DEF RenderFirst
<1>4. CASE ~RenderKept /\ ~RenderFirst
  <2>1. httpString' = httpString
    BY <1>4 DEF ResponseNext, respVars, setStatusCode, setVersion10, setPassThrough,
       setStreamCallback, setSendfile, setBody, setJsonObject, getBodyData, setExpiredTime,
       addHeader, SetOnly, SetField, makeHeaderString, RenderInto, RenderHead, ResponseTick,
       clear
  <2> QED BY <2>1
<1> QED BY <1>2, <1>3, <1>4

\* The bytes kept of a response do not change but for the date, until its expiry is set again.
THEOREM KeptBytesAreKept == ResponseSpec => KeptBytesStay
<1>1. RenderInv /\ [ResponseNext]_respVars
      => [httpString # Unset /\ datePos /\ datePos' /\ resp.expires =>
            /\ httpString'.header = httpString.header
            /\ httpString'.body = httpString.body]_respVars
  BY KeptStaysInStep
<1> QED BY <1>1, ResponseStarts, ResponseKeeps, PTL DEF ResponseSpec, KeptBytesStay

-----------------------------------------------------------------------------
(* Blocks of addresses: the bits in front, one more at a time.             *)

LEMMA TwoToIs ==
  /\ \A i \in 0..AddressBits : TwoTo[i] \in Nat \ {0}
  /\ \A i \in 1..AddressBits : TwoTo[i] = 2 * TwoTo[i - 1]
<1> DEFINE S == {i \in 0..AddressBits : TwoTo[i] \in Nat \ {0}}
<1>1. 0 \in S
  BY BlockAssumption
<1>2. ASSUME NEW i \in 0..(AddressBits - 1), i \in S PROVE i + 1 \in S
  <2>1. i + 1 \in 1..AddressBits /\ (i + 1) - 1 = i
    BY BlockAssumption
  <2>2. TwoTo[i + 1] = 2 * TwoTo[i]
    BY <2>1, BlockAssumption
  <2> QED BY <1>2, <2>1, <2>2
<1>3. \A i \in 0..AddressBits : i \in S
  <2> HIDE DEF S
  <2> QED BY <1>1, <1>2, UpToInduction, BlockAssumption
<1> QED BY <1>3, BlockAssumption

\* Division by p tells what division by 2p does and one bit more.
LEMMA OneBitMore ==
  ASSUME NEW x \in Nat, NEW p \in Nat \ {0}
  PROVE  x \div p = 2 * (x \div (2 * p)) + ((x \div p) % 2)
<1> DEFINE q == x \div p
           r == x % p
<1>1. q \in Nat /\ r \in 0..(p - 1) /\ x = p * q + r
  OBVIOUS
<1> HIDE DEF q, r
<1> DEFINE u == q \div 2
           v == q % 2
<1>2. u \in Nat /\ v \in {0, 1} /\ q = 2 * u + v
  BY <1>1
<1> HIDE DEF u, v
<1>3. x = (2 * p) * u + (p * v + r) /\ p * v + r \in 0..(2 * p - 1)
  <2>1. p * q = (2 * p) * u + p * v
    BY <1>1, <1>2
  <2>2. CASE v = 0
    BY <1>1, <1>2, <2>1, <2>2
  <2>3. CASE v = 1
    BY <1>1, <1>2, <2>1, <2>3
  <2> QED BY <1>2, <2>2, <2>3
<1>4. x \div (2 * p) = u
  <2> DEFINE y == 2 * p
             w == p * v + r
  <2>1. y \in Nat \ {0} /\ w \in 0..(y - 1) /\ x = y * u + w
    BY <1>3
  <2> HIDE DEF y, w
  <2>2. x \div y = u
    BY <1>2, <2>1
  <2> QED BY <2>2 DEF y
<1> QED BY <1>2, <1>4 DEF q, u, v

LEMMA QuotientIsInt ==
  ASSUME NEW x \in Nat, NEW p \in Nat \ {0}
  PROVE  x \div p \in Nat /\ (x \div p) % 2 \in {0, 1}
<1> DEFINE q == x \div p
<1>1. q \in Nat
  OBVIOUS
<1> HIDE DEF q
<1>2. q % 2 \in {0, 1}
  BY <1>1
<1> QED BY <1>1, <1>2 DEF q

\* Two addresses have the same part in front of p if and only if they have the same quotient.
LEMMA FrontOfQuotient ==
  ASSUME NEW x \in Nat, NEW y \in Nat, NEW p \in Nat \ {0}
  PROVE  x - (x % p) = y - (y % p) <=> x \div p = y \div p
<1> DEFINE q == x \div p
           u == y \div p
<1>1. q \in Nat /\ u \in Nat /\ x - (x % p) = p * q /\ y - (y % p) = p * u
  OBVIOUS
<1> HIDE DEF q, u
<1>2. p * q = p * u => q = u
  <2>1. ASSUME q < u PROVE p * q < p * u
    <3>1. q + 1 <= u
      BY <1>1, <2>1
    <3>2. p * (q + 1) <= p * u /\ p * (q + 1) = p * q + p /\ p * q \in Nat /\ p * u \in Nat
      BY <1>1, <3>1
    <3> QED BY <3>2
  <2>2. ASSUME u < q PROVE p * u < p * q
    <3>1. u + 1 <= q
      BY <1>1, <2>2
    <3>2. p * (u + 1) <= p * q /\ p * (u + 1) = p * u + p /\ p * q \in Nat /\ p * u \in Nat
      BY <1>1, <3>1
    <3> QED BY <3>2
  <2>3. p * q \in Nat /\ p * u \in Nat
    BY <1>1
  <2> QED BY <1>1, <2>1, <2>2, <2>3
<1> QED BY <1>1, <1>2 DEF q, u

LEMMA BitsInFront ==
  ASSUME NEW a \in Addresses, NEW b \in Addresses, NEW prefix \in 0..AddressBits
  PROVE  a \div TwoTo[AddressBits - prefix] = b \div TwoTo[AddressBits - prefix]
           <=> \A i \in 1..prefix : AddressBit(a, i) = AddressBit(b, i)
<1> DEFINE Same(n) == a \div TwoTo[AddressBits - n] = b \div TwoTo[AddressBits - n]
           Bits(n) == \A i \in 1..n : AddressBit(a, i) = AddressBit(b, i)
           S == {n \in 0..AddressBits : Same(n) <=> Bits(n)}
<1>1. a \in Nat /\ b \in Nat /\ AddressBits \in Nat
  BY BlockAssumption DEF Addresses
<1>2. 0 \in S
  <2>1. a < Width /\ b < Width /\ Width \in Nat \ {0} /\ TwoTo[AddressBits - 0] = Width
    BY <1>1, TwoToIs DEF Addresses, Width
  <2>2. a \div Width = 0 /\ b \div Width = 0
    BY <1>1, <2>1
  <2>3. Same(0) /\ Bits(0)
    BY <2>1, <2>2
  <2> QED BY <1>1, <2>3
<1>3. ASSUME NEW n \in 0..(AddressBits - 1), n \in S PROVE n + 1 \in S
  <2> DEFINE m == AddressBits - n
             p == TwoTo[m - 1]
  <2>1. m \in 1..AddressBits /\ m - 1 \in 0..AddressBits /\ AddressBits - (n + 1) = m - 1
        /\ n + 1 \in 0..AddressBits
    BY <1>1
  <2>2. p \in Nat \ {0} /\ TwoTo[m] = 2 * p
    BY <2>1, TwoToIs
  <2> HIDE DEF p
  <2>3. /\ a \div p = 2 * (a \div (2 * p)) + ((a \div p) % 2)
        /\ b \div p = 2 * (b \div (2 * p)) + ((b \div p) % 2)
    BY <1>1, <2>2, OneBitMore
  <2>4. AddressBit(a, n + 1) = (a \div p) % 2 /\ AddressBit(b, n + 1) = (b \div p) % 2
    BY <2>1 DEF AddressBit, p
  <2>5. Same(n + 1) <=> (a \div p = b \div p)
    BY <2>1 DEF p
  <2>6. Same(n) <=> (a \div (2 * p) = b \div (2 * p))
    BY <2>2
  <2>7. (a \div p = b \div p) <=> /\ a \div (2 * p) = b \div (2 * p)
                                  /\ (a \div p) % 2 = (b \div p) % 2
    <3> DEFINE q == a \div p
               u == b \div p
               q2 == a \div (2 * p)
               u2 == b \div (2 * p)
               v == (a \div p) % 2
               w == (b \div p) % 2
    <3>1. 2 * p \in Nat \ {0}
      BY <2>2
    <3>2. q2 \in Nat /\ u2 \in Nat
      BY <1>1, <3>1, QuotientIsInt
    <3>3. v \in {0, 1} /\ w \in {0, 1}
      BY <1>1, <2>2, QuotientIsInt
    <3>4. q = 2 * q2 + v /\ u = 2 * u2 + w
      BY <2>3
    <3> HIDE DEF q, u, q2, u2, v, w
    <3>5. q = u <=> q2 = u2 /\ v = w
      BY <3>2, <3>3, <3>4
    <3> QED BY <3>5 DEF q, u, q2, u2, v, w
  <2>8. Bits(n + 1) <=> Bits(n) /\ AddressBit(a, n + 1) = AddressBit(b, n + 1)
    <3>1. 1..(n + 1) = (1..n) \cup {n + 1}
      BY <1>1
    <3> HIDE DEF m
    <3> QED BY <3>1
  <2> HIDE DEF m
  <2>9. Same(n + 1) <=> Bits(n + 1)
    BY <1>3, <2>4, <2>5, <2>6, <2>7, <2>8
  <2> QED BY <2>1, <2>9
<1>4. \A n \in 0..AddressBits : n \in S
  <2> HIDE DEF S
  <2> QED BY <1>1, <1>2, <1>3, UpToInduction
<1> QED BY <1>4

LEMMA BlockMatches ==
  ASSUME NEW a \in Addresses, NEW b \in Blocks
  PROVE  And(a, Mask(b.prefix)) = And(b.addr, Mask(b.prefix))
           <=> \A i \in 1..b.prefix : AddressBit(a, i) = AddressBit(b.addr, i)
<1> DEFINE p == TwoTo[AddressBits - b.prefix]
<1>1. /\ b.addr \in Addresses /\ b.prefix \in 0..AddressBits
      /\ AddressBits - b.prefix \in 0..AddressBits
  BY BlockAssumption
<1>2. p \in Nat \ {0} /\ Width \in Nat
  BY <1>1, TwoToIs, BlockAssumption DEF Width
<1>3. a \in Nat /\ b.addr \in Nat
  BY <1>1, <1>2 DEF Addresses
<1> HIDE DEF p
<1>4. Width - (Width - p) = p
  BY <1>2
<1>5. And(a, Mask(b.prefix)) = a - (a % p) /\ And(b.addr, Mask(b.prefix)) = b.addr - (b.addr % p)
  BY <1>4 DEF And, Mask, p
<1>6. a - (a % p) = b.addr - (b.addr % p) <=> a \div p = b.addr \div p
  BY <1>2, <1>3, FrontOfQuotient
<1>7. a \div p = b.addr \div p <=> \A i \in 1..b.prefix : AddressBit(a, i) = AddressBit(b.addr, i)
  BY <1>1, BitsInFront DEF p
<1> QED BY <1>5, <1>6, <1>7

LEMMA BlocksAreExact ==
  ASSUME trustCIDRs \subseteq Blocks
  PROVE  BlocksExact
<1> SUFFICES ASSUME NEW a \in Addresses
             PROVE  matchCidr(a) <=>
                      \E b \in trustCIDRs : \A i \in 1..b.prefix : AddressBit(a, i) = AddressBit(b.addr, i)
  BY DEF BlocksExact
<1> QED BY BlockMatches DEF matchCidr

-----------------------------------------------------------------------------
(* The hops of a header value, from the last one on.                        *)

LEMMA GreatestNumber ==
  ASSUME NEW n \in Nat, NEW S, S \subseteq 0..n, S # {}
  PROVE  \E m \in S : \A x \in S : x <= m
<1> DEFINE T == {n - x : x \in S}
<1>0. \A x \in S : x \in Nat /\ n - x \in Nat
  OBVIOUS
<1>1. T \subseteq Nat /\ T # {}
  <2>1. \A t \in T : t \in Nat
    BY <1>0
  <2>2. PICK x \in S : n - x \in T
    OBVIOUS
  <2> HIDE DEF T
  <2> QED BY <2>1, <2>2
<1>2. PICK t \in T : \A u \in T : t <= u
  <2> HIDE DEF T
  <2> QED BY <1>1, LeastNumber
<1>3. PICK x \in S : t = n - x
  OBVIOUS
<1>4. ASSUME NEW y \in S PROVE y <= x
  <2>1. n - y \in T /\ x \in Nat /\ y \in Nat
    BY <1>0, <1>3
  <2>2. n - x <= n - y
    BY <1>2, <1>3, <2>1
  <2> HIDE DEF T
  <2> QED BY <2>1, <2>2
<1> QED BY <1>4

\* What is taken starts at b and ends at e, if b is not the start behind a separator, and
\* only separators come behind it.
TakenFrom(v, b, e) ==
  /\ e \in 1..Len(v) /\ b \in 1..e
  /\ e = 1 \/ v[e] \notin Separators
  /\ \A i \in (e + 1)..Len(v) : v[i] \in Separators
  /\ b = 1 \/ (b >= 3 /\ v[b - 1] \in Separators)
  /\ \A i \in b..e : i = 1 \/ v[i] \notin Separators

LEMMA TrimmedIs ==
  ASSUME NEW v, v \in Seq(HeaderPieces), v # << >>
  PROVE  \E e \in 1..Len(v) :
           /\ Trimmed(v) = SubSeq(v, 1, e)
           /\ e = 1 \/ v[e] \notin Separators
           /\ \A i \in (e + 1)..Len(v) : v[i] \in Separators
<1> DEFINE Ends == {i \in 1..Len(v) : i = 1 \/ v[i] \notin Separators}
           e == CHOOSE i \in Ends : \A j \in Ends : j <= i
<1>1. Len(v) \in Nat /\ 1 \in 1..Len(v)
  OBVIOUS
<1>2. 1 \in Ends /\ Ends \subseteq 0..Len(v)
  BY <1>1
<1>3. e \in Ends /\ \A j \in Ends : j <= e
  <2> HIDE DEF Ends
  <2>1. \E i \in Ends : \A j \in Ends : j <= i
    BY <1>1, <1>2, GreatestNumber
  <2> QED BY <2>1
<1>4. Trimmed(v) = SubSeq(v, 1, e)
  BY DEF Trimmed
<1> HIDE DEF e
<1>5. \A i \in (e + 1)..Len(v) : i \notin Ends /\ i \in 1..Len(v)
  BY <1>1, <1>3
<1> QED BY <1>3, <1>4, <1>5

LEMMA NextIs ==
  ASSUME NEW v, v \in Seq(HeaderPieces), v # << >>
  PROVE  \E e \in 1..Len(v), b \in 1..Len(v) :
           /\ TakenFrom(v, b, e)
           /\ getNext(v).ip = SubSeq(v, b, e)
           /\ getNext(v).left = IF b = 1 THEN << >> ELSE SubSeq(v, 1, b - 2)
<1>1. PICK e \in 1..Len(v) :
           /\ Trimmed(v) = SubSeq(v, 1, e)
           /\ e = 1 \/ v[e] \notin Separators
           /\ \A i \in (e + 1)..Len(v) : v[i] \in Separators
  BY TrimmedIs
<1> DEFINE t == SubSeq(v, 1, e)
           Seps == {i \in 2..Len(t) : t[i] \in Separators}
           at == CHOOSE i \in Seps : \A j \in Seps : j <= i
<1>2. /\ Len(v) \in Nat /\ e \in Nat /\ Len(t) = e /\ t \in Seq(HeaderPieces)
      /\ \A i \in 1..e : t[i] = v[i]
  BY <1>1
<1>3. getNext(v) = IF Seps = {} THEN [ip |-> t, left |-> << >>]
                   ELSE [ip |-> SubSeq(t, at + 1, Len(t)), left |-> SubSeq(t, 1, at - 1)]
  BY <1>1 DEF getNext
<1>4. Seps = {i \in 2..e : v[i] \in Separators}
  BY <1>2
<1>5. CASE Seps = {}
  <2>1. getNext(v).ip = t /\ getNext(v).left = << >>
    <3> HIDE DEF t, Seps, at
    <3> QED BY <1>3, <1>5
  <2>2. \A i \in 1..e : i = 1 \/ v[i] \notin Separators
    BY <1>2, <1>4, <1>5
  <2>3. 1 \in 1..Len(v) /\ 1 \in 1..e
    BY <1>2
  <2>4. TakenFrom(v, 1, e)
    BY <1>1, <2>2, <2>3 DEF TakenFrom
  <2> QED BY <2>1, <2>3, <2>4
<1>6. CASE Seps # {}
  <2>1. Seps \subseteq 0..e
    BY <1>2, <1>4
  <2>2. at \in Seps /\ \A j \in Seps : j <= at
    <3> HIDE DEF Seps
    <3>1. \E i \in Seps : \A j \in Seps : j <= i
      BY <1>2, <1>6, <2>1, GreatestNumber
    <3> QED BY <3>1
  <2>3. /\ getNext(v).ip = SubSeq(t, at + 1, e) /\ getNext(v).left = SubSeq(t, 1, at - 1)
    <3>1. getNext(v) = [ip |-> SubSeq(t, at + 1, Len(t)), left |-> SubSeq(t, 1, at - 1)]
      <4> HIDE DEF t, Seps, at
      <4> QED BY <1>3, <1>6
    <3>2. Len(t) = e
      BY <1>2
    <3> DEFINE x == SubSeq(t, at + 1, e)
               y == SubSeq(t, 1, at - 1)
    <3>3. getNext(v) = [ip |-> x, left |-> y]
      <4> HIDE DEF t, Seps, at
      <4> QED BY <3>1, <3>2
    <3>4. getNext(v).ip = x /\ getNext(v).left = y
      <4> HIDE DEF x, y
      <4> QED BY <3>3
    <3> QED BY <3>4 DEF x, y
  <2> HIDE DEF at
  <2>4. /\ at \in 2..e /\ v[at] \in Separators
        /\ \A i \in (at + 1)..e : v[i] \notin Separators
    <3>1. at \in 2..e /\ v[at] \in Separators
      BY <1>4, <2>2
    <3>2. ASSUME NEW i \in (at + 1)..e PROVE v[i] \notin Separators
      <4>1. i \in 2..e /\ ~ (i <= at)
        BY <3>1
      <4>2. i \notin Seps
        BY <2>2, <4>1
      <4> HIDE DEF Seps
      <4> QED BY <1>4, <4>1, <4>2
    <3> QED BY <3>1, <3>2
  <2> HIDE DEF Seps
  <2>5. at < e
    BY <1>1, <2>4
  <2>6. SubSeq(t, at + 1, e) = SubSeq(v, at + 1, e) /\ SubSeq(t, 1, at - 1) = SubSeq(v, 1, at - 1)
    BY <1>1, <1>2, <2>4, <2>5
  <2>7. at + 1 \in 1..Len(v) /\ at + 1 \in 1..e /\ at + 1 # 1 /\ (at + 1) - 1 = at
        /\ (at + 1) - 2 = at - 1 /\ at + 1 >= 3
    BY <1>1, <1>2, <2>4, <2>5
  <2>8. TakenFrom(v, at + 1, e)
    BY <1>1, <2>4, <2>7 DEF TakenFrom
  <2>9. getNext(v).left = IF at + 1 = 1 THEN << >> ELSE SubSeq(v, 1, (at + 1) - 2)
    BY <2>3, <2>6, <2>7
  <2> HIDE DEF t
  <2> QED BY <2>3, <2>6, <2>7, <2>8, <2>9
<1> QED BY <1>5, <1>6

\* The loop has come to the first m pieces: behind them the value ends, or is a separator.
StopsAt(m) ==
  /\ m \in 0..Len(value)
  /\ m = 0 \/ m = Len(value) \/ value[m + 1] \in Separators

ReadableValue ==
  /\ value \in Seq(HeaderPieces) /\ value # << >> /\ value[1] \notin Separators

\* What getNext takes from the first m pieces: it leaves k, and finds the hop behind them.
Leaves(next, m, k) ==
  /\ StopsAt(k) /\ next.left = SubSeq(value, 1, k)
  /\ parseAddress(next.ip) # Unspecified =>
       \E i \in (k + 1)..m : IsHop(i) /\ parseAddress(next.ip) = AddressOf[value[i]]
  /\ \A i \in (k + 1)..m : IsHop(i) => parseAddress(next.ip) = AddressOf[value[i]]

\* getNext takes what stands behind the last separator, and leaves what is in front of it.
LEMMA NextTaken ==
  ASSUME ReadableValue, NEW m \in 1..Len(value), StopsAt(m)
  PROVE  \E k \in 0..(m - 1) : Leaves(getNext(SubSeq(value, 1, m)), m, k)
<1> DEFINE v == SubSeq(value, 1, m)
           next == getNext(v)
           addr == parseAddress(next.ip)
<1>1. /\ Len(value) \in Nat /\ m \in 1..Len(value) /\ m \in Nat /\ DOMAIN value = 1..Len(value)
      /\ \A i \in 1..Len(value) : value[i] \notin Separators => value[i] \in DOMAIN AddressOf
  BY DEF ReadableValue, HeaderPieces
<1>2. /\ v \in Seq(HeaderPieces) /\ Len(v) = m /\ v # << >>
      /\ \A i \in 1..m : v[i] = value[i]
  BY <1>1 DEF ReadableValue
<1>3. PICK e \in 1..m, b \in 1..m :
        /\ TakenFrom(v, b, e)
        /\ next.ip = SubSeq(v, b, e)
        /\ next.left = IF b = 1 THEN << >> ELSE SubSeq(v, 1, b - 2)
  <2> HIDE DEF v
  <2> QED BY <1>2, NextIs
<1>4. /\ b \in 1..e
      /\ e = 1 \/ value[e] \notin Separators
      /\ \A i \in (e + 1)..m : value[i] \in Separators
      /\ b = 1 \/ (b >= 3 /\ value[b - 1] \in Separators)
      /\ \A i \in b..e : value[i] \notin Separators
  <2> HIDE DEF v, next
  <2>1. Len(v) = m /\ b \in 1..e /\ e \in Nat /\ b \in Nat
    BY <1>1, <1>2, <1>3 DEF TakenFrom
  <2>2. e = 1 \/ value[e] \notin Separators
    BY <1>2, <1>3 DEF TakenFrom
  <2>3. ASSUME NEW i \in (e + 1)..m PROVE value[i] \in Separators
    <3>1. i \in 1..m
      BY <1>1, <2>1
    <3> QED BY <1>2, <1>3, <2>1, <3>1 DEF TakenFrom
  <2>4. b = 1 \/ (b >= 3 /\ value[b - 1] \in Separators)
    <3>1. b = 1 \/ b - 1 \in 1..m
      BY <1>1, <2>1
    <3> QED BY <1>2, <1>3, <3>1 DEF TakenFrom
  <2>5. ASSUME NEW i \in b..e PROVE value[i] \notin Separators
    <3>1. i \in 1..m
      BY <1>1, <2>1
    <3> QED BY <1>2, <1>3, <3>1 DEF TakenFrom, ReadableValue
  <2> QED BY <2>1, <2>2, <2>3, <2>4, <2>5
<1>0. /\ m \in Nat /\ e \in Nat /\ b \in Nat /\ Len(value) \in Nat
      /\ 1 <= b /\ b <= e /\ e <= m /\ m <= Len(value)
      /\ m = Len(value) \/ value[m + 1] \in Separators
  <2> HIDE DEF v, next, addr
  <2>1. m \in Nat /\ Len(value) \in Nat /\ 1 <= m /\ m <= Len(value)
    BY <1>1
  <2>2. m = Len(value) \/ value[m + 1] \in Separators
    BY <2>1 DEF StopsAt
  <2>3. e \in Nat /\ b \in Nat /\ 1 <= b /\ b <= e /\ e <= m
    BY <1>4, <2>1
  <2> QED BY <2>1, <2>2, <2>3
<1>5. Len(next.ip) = e - b + 1 /\ next.ip[1] = value[b]
  <2> HIDE DEF v, next
  <2> QED BY <1>1, <1>2, <1>3, <1>4
<1> DEFINE k == IF b = 1 THEN 0 ELSE b - 2
<1>6. k \in 0..(m - 1) /\ StopsAt(k) /\ next.left = SubSeq(value, 1, k)
  <2>1. CASE b = 1
    <3>1. k = 0 /\ next.left = << >> /\ SubSeq(value, 1, 0) = << >>
      <4> HIDE DEF next, v
      <4> QED BY <1>1, <1>3, <2>1 DEF ReadableValue
    <3> HIDE DEF next, v, k
    <3> QED BY <1>0, <3>1 DEF StopsAt
  <2>2. CASE b # 1
    <3>1. b >= 3 /\ b - 2 \in 0..(m - 1) /\ value[(b - 2) + 1] \in Separators
      <4>1. (b - 2) + 1 = b - 1
        BY <1>0
      <4> HIDE DEF next, v, k
      <4> QED BY <1>0, <1>4, <2>2, <4>1
    <3>2. SubSeq(v, 1, b - 2) = SubSeq(value, 1, b - 2)
      BY <1>1, <1>3, <3>1 DEF ReadableValue
    <3>3. next.left = SubSeq(v, 1, b - 2) /\ k = b - 2
      <4> HIDE DEF next, v
      <4> QED BY <1>3, <2>2
    <3> HIDE DEF next, v, k
    <3>4. k \in 0..(m - 1) /\ k \in 0..Len(value) /\ value[k + 1] \in Separators
      BY <1>0, <3>1, <3>3
    <3> QED BY <3>2, <3>3, <3>4 DEF StopsAt
  <2> QED BY <2>1, <2>2
<1> HIDE DEF next, v
<1>7. ASSUME addr # Unspecified PROVE b \in (k + 1)..m /\ IsHop(b) /\ addr = AddressOf[value[b]]
  <2>1. b = e /\ addr = AddressOf[value[b]]
    BY <1>1, <1>3, <1>4, <1>5, <1>7 DEF parseAddress
  <2> HIDE DEF addr
  <2>2. b = Len(value) \/ value[b + 1] \in Separators
    <3> HIDE DEF k
    <3>1. CASE b = m
      BY <1>0, <3>1
    <3>2. CASE b # m
      <4>1. b + 1 \in (e + 1)..m
        BY <1>0, <2>1, <3>2
      <4> QED BY <1>4, <4>1
    <3> QED BY <3>1, <3>2
  <2>3. value[b] \notin Separators /\ (b = 1 \/ value[b - 1] \in Separators)
    BY <1>4, <2>1
  <2>4. b \in (k + 1)..m
    BY <1>0
  <2>5. b \in DOMAIN value
    <3>1. b \in 1..Len(value)
      BY <1>0
    <3> QED BY <1>1, <3>1
  <2> HIDE DEF k
  <2>6. IsHop(b)
    BY <1>7, <2>1, <2>2, <2>3, <2>5 DEF IsHop
  <2> QED BY <2>1, <2>4, <2>6
<1>8. ASSUME NEW i \in (k + 1)..m, IsHop(i) PROVE addr = AddressOf[value[i]]
  <2>1. i \in 1..m /\ i >= b - 1 /\ IsHop(i) /\ value[i] \notin Separators
    <3>1. i \in 1..m /\ i >= b - 1
      BY <1>0, <1>3
    <3>2. IsHop(i) /\ value[i] \notin Separators
      BY <1>8 DEF IsHop
    <3> QED BY <3>1, <3>2
  <2>2. i \in b..e
    BY <1>1, <1>3, <1>4, <2>1
  <2>3. i = b
    <3> SUFFICES ASSUME i # b PROVE FALSE
      OBVIOUS
    <3>1. i - 1 \in b..e /\ i # 1
      BY <1>3, <2>2
    <3> QED BY <1>4, <2>1, <3>1 DEF IsHop
  <2>4. i = e
    <3> SUFFICES ASSUME i # e PROVE FALSE
      OBVIOUS
    <3>1. i + 1 \in b..e /\ i # Len(value)
      BY <1>0, <2>2
    <3> QED BY <1>4, <2>1, <3>1 DEF IsHop
  <2>5. value[i] \in DOMAIN AddressOf /\ Len(next.ip) = 1 /\ next.ip[1] = value[i]
    BY <1>1, <1>3, <1>5, <2>1, <2>3, <2>4
  <2> QED BY <2>5 DEF parseAddress
<1> HIDE DEF k, addr
<1>9. \E l \in 0..(m - 1) :
        /\ StopsAt(l) /\ next.left = SubSeq(value, 1, l)
        /\ addr # Unspecified => \E i \in (l + 1)..m : IsHop(i) /\ addr = AddressOf[value[i]]
        /\ \A i \in (l + 1)..m : IsHop(i) => addr = AddressOf[value[i]]
  BY <1>6, <1>7, <1>8
<1>10. \E l \in 0..(m - 1) : Leaves(next, m, l)
  BY <1>9 DEF addr, Leaves
<1> QED BY <1>10 DEF next, v

\* Where the loop may stand after n rounds: at what it looks for, or with nothing found
\* behind the pieces it has left.
Standing(state, n) ==
  /\ DOMAIN state = {"found", "left"}
  /\ \/ /\ state.found # Unspecified /\ state.left = << >>
        /\ \E i \in UntrustedHops :
             state.found = AddressOf[value[i]] /\ \A j \in UntrustedHops : j <= i
     \/ /\ state.found = Unspecified
        /\ \E m \in 0..(Len(value) - n) :
             /\ StopsAt(m) /\ state.left = SubSeq(value, 1, m)
             /\ \A j \in UntrustedHops : j <= m

LEMMA RoundStands ==
  ASSUME ReadableValue, NEW n \in 0..(Len(value) - 1), NEW state, Standing(state, n)
  PROVE  Standing(NextHop(state), n + 1)
<1>1. /\ Len(value) \in Nat /\ DOMAIN value = 1..Len(value)
      /\ UntrustedHops \subseteq 0..Len(value)
  BY DEF ReadableValue, UntrustedHops
<1>2. CASE state.found # Unspecified
  BY <1>2 DEF Standing, NextHop
<1>3. CASE state.found = Unspecified
  <2>1. PICK m \in 0..(Len(value) - n) :
             /\ StopsAt(m) /\ state.left = SubSeq(value, 1, m)
             /\ \A j \in UntrustedHops : j <= m
    BY <1>3 DEF Standing
  <2>2. CASE m = 0
    <3>1. state.left = << >> /\ 0 \in 0..(Len(value) - (n + 1))
      BY <1>1, <2>1, <2>2
    <3>2. NextHop(state) = state
      BY <3>1 DEF NextHop
    <3> QED BY <1>3, <2>1, <2>2, <3>1, <3>2 DEF Standing
  <2>3. CASE m # 0
    <3> DEFINE next == getNext(state.left)
               addr == parseAddress(next.ip)
    <3>1. m \in 1..Len(value) /\ state.left # << >>
      BY <1>1, <2>1, <2>3 DEF ReadableValue
    <3>0. \E k \in 0..(m - 1) : Leaves(getNext(SubSeq(value, 1, m)), m, k)
      BY <2>1, <3>1, NextTaken
    <3>2. PICK k \in 0..(m - 1) :
               /\ StopsAt(k) /\ next.left = SubSeq(value, 1, k)
               /\ addr # Unspecified =>
                    \E i \in (k + 1)..m : IsHop(i) /\ addr = AddressOf[value[i]]
               /\ \A i \in (k + 1)..m : IsHop(i) => addr = AddressOf[value[i]]
      <4>1. PICK k \in 0..(m - 1) : Leaves(next, m, k)
        BY <2>1, <3>0
      <4> HIDE DEF next
      <4> QED BY <4>1 DEF Leaves
    <3>3. NextHop(state) = IF Skipped(addr) THEN [found |-> Unspecified, left |-> next.left]
                           ELSE [found |-> addr, left |-> << >>]
      BY <1>3, <3>1 DEF NextHop
    <3> HIDE DEF next, addr
    <3>4. CASE Skipped(addr)
      <4>1. \A j \in UntrustedHops : j <= k
        <5> SUFFICES ASSUME NEW j \in UntrustedHops, ~ (j <= k) PROVE FALSE
          OBVIOUS
        <5>1. j \in (k + 1)..m
          BY <1>1, <2>1, <3>1, <3>2
        <5>2. IsHop(j) /\ ~matchCidr(AddressOf[value[j]]) /\ AddressOf[value[j]] # Unspecified
          BY DEF UntrustedHops, IsHop
        <5> QED BY <3>2, <3>4, <5>1, <5>2 DEF Skipped
      <4>2. k \in 0..(Len(value) - (n + 1))
        BY <1>1, <2>1, <3>2
      <4> QED BY <3>2, <3>3, <3>4, <4>1, <4>2 DEF Standing
    <3>5. CASE ~Skipped(addr)
      <4>1. addr # Unspecified /\ ~matchCidr(addr)
        BY <3>5 DEF Skipped
      <4>2. PICK i \in (k + 1)..m : IsHop(i) /\ addr = AddressOf[value[i]]
        BY <3>2, <4>1
      <4>3. i \in UntrustedHops
        BY <4>1, <4>2 DEF UntrustedHops, IsHop
      <4>4. PICK l \in UntrustedHops : \A j \in UntrustedHops : j <= l
        BY <1>1, <4>3, GreatestNumber
      <4>5. l \in (k + 1)..m
        BY <1>1, <2>1, <3>1, <3>2, <4>2, <4>3, <4>4
      <4>6. addr = AddressOf[value[l]]
        BY <3>2, <4>5 DEF UntrustedHops
      <4> QED BY <3>3, <3>5, <4>1, <4>4, <4>6 DEF Standing
    <3> QED BY <3>4, <3>5
  <2> QED BY <2>2, <2>3
<1> QED BY <1>2, <1>3

\* The states of the loop, round by round.
Rounds(state) ==
  /\ state[0] = [found |-> Unspecified, left |-> value]
  /\ \A n \in 1..Len(value) : state[n] = NextHop(state[n - 1])

LEMMA RoundsExist ==
  ASSUME ReadableValue
  PROVE  \E state : Rounds(state) /\ FromList(value) = state[Len(value)].found
<1> DEFINE N == Len(value)
           start == [found |-> Unspecified, left |-> value]
           F == {Unspecified} \cup {AddressOf[value[i]] : i \in 1..N}
           L == {SubSeq(value, 1, m) : m \in {l \in 0..N : StopsAt(l)}}
           S == [found : F, left : L]
           step == [n \in 1..N |-> [s \in S |-> NextHop(s)]]
           Next1(g) == [n \in 0..N |-> IF n = 0 THEN start ELSE NextHop(g[n - 1])]
<1>1. N \in Nat /\ DOMAIN value = 1..N
  BY DEF ReadableValue
<1>2. start \in S
  <2>1. StopsAt(N) /\ SubSeq(value, 1, N) = value
    BY <1>1 DEF StopsAt, ReadableValue
  <2>2. N \in {l \in 0..N : StopsAt(l)}
    BY <1>1, <2>1
  <2>3. value \in L
    BY <2>1, <2>2
  <2> HIDE DEF L
  <2> QED BY <2>3
<1>3. << >> \in L
  <2>1. StopsAt(0) /\ SubSeq(value, 1, 0) = << >>
    BY <1>1 DEF StopsAt, ReadableValue
  <2> QED BY <1>1, <2>1
<1>4. ASSUME NEW s \in S PROVE NextHop(s) \in S
  <2> DEFINE next == getNext(s.left)
             addr == parseAddress(next.ip)
  <2>1. CASE s.found # Unspecified \/ s.left = << >>
    BY <2>1 DEF NextHop
  <2>2. CASE s.found = Unspecified /\ s.left # << >>
    <3>1. PICK m \in 0..N : StopsAt(m) /\ s.left = SubSeq(value, 1, m)
      OBVIOUS
    <3>2. m \in 1..N
      BY <1>1, <2>2, <3>1 DEF ReadableValue
    <3>3. PICK k \in 0..(m - 1) :
               /\ StopsAt(k) /\ next.left = SubSeq(value, 1, k)
               /\ addr # Unspecified =>
                    \E i \in (k + 1)..m : IsHop(i) /\ addr = AddressOf[value[i]]
      <4>1. m \in 1..Len(value) /\ StopsAt(m)
        BY <3>1, <3>2
      <4> HIDE DEF N, S
      <4>2. \E k \in 0..(m - 1) : Leaves(getNext(SubSeq(value, 1, m)), m, k)
        BY <4>1, NextTaken
      <4>3. PICK k \in 0..(m - 1) : Leaves(next, m, k)
        BY <3>1, <4>2
      <4> HIDE DEF next
      <4> QED BY <4>3 DEF Leaves
    <3>4. NextHop(s) = IF Skipped(addr) THEN [found |-> Unspecified, left |-> next.left]
                       ELSE [found |-> addr, left |-> << >>]
      BY <2>2 DEF NextHop
    <3> HIDE DEF next, addr
    <3>5. next.left \in L
      BY <1>1, <3>1, <3>3
    <3>6. addr \in F
      BY <1>1, <3>2, <3>3
    <3> HIDE DEF F, L
    <3>7. Unspecified \in F
      BY DEF F
    <3> QED BY <1>3, <3>4, <3>5, <3>6, <3>7
  <2> QED BY <2>1, <2>2
<1>5. step \in [1..N -> [S -> S]]
  <2> HIDE DEF S
  <2> QED BY <1>4
<1> HIDE DEF S, N
<1>6. PICK f : Iterates(f, N, S, start, step)
  <2> HIDE DEF step, start
  <2> QED BY <1>1, <1>2, <1>5, RecursionExists
<1>7. \A n \in 1..N : f[n] = NextHop(f[n - 1])
  <2> SUFFICES ASSUME NEW n \in 1..N PROVE f[n] = NextHop(f[n - 1])
    OBVIOUS
  <2>1. n - 1 \in 0..N /\ f[n - 1] \in S
    BY <1>1, <1>6 DEF Iterates
  <2> QED BY <1>6, <2>1 DEF Iterates
<1> HIDE DEF step
<1>8. f = Next1(f)
  <2> SUFFICES ASSUME NEW n \in 0..N PROVE f[n] = Next1(f)[n]
    BY <1>6 DEF Iterates
  <2>1. CASE n = 0
    BY <1>6, <2>1 DEF Iterates
  <2>2. CASE n # 0
    <3>1. n \in 1..N
      BY <1>1, <2>2
    <3> QED BY <1>7, <2>2, <3>1
  <2> QED BY <2>1, <2>2
<1> DEFINE state == CHOOSE g : g = Next1(g)
<1>9. state = Next1(state)
  BY <1>8
<1>10. FromList(value) = state[N].found
  BY DEF FromList, N
<1> HIDE DEF state
<1>11. /\ state[0] = start
       /\ \A n \in 1..N : state[n] = NextHop(state[n - 1])
  <2>1. \A n \in 0..N : state[n] = IF n = 0 THEN start ELSE NextHop(state[n - 1])
    BY <1>9
  <2> HIDE DEF start
  <2> QED BY <1>1, <2>1
<1> QED BY <1>10, <1>11 DEF Rounds, N

\* Where the loop ends.
LEMMA LastHopFound ==
  ASSUME ReadableValue
  PROVE  FromList(value) = IF UntrustedHops = {} THEN Unspecified
                           ELSE AddressOf[value[CHOOSE i \in UntrustedHops :
                                                  \A j \in UntrustedHops : j <= i]]
<1>1. PICK state : Rounds(state) /\ FromList(value) = state[Len(value)].found
  BY RoundsExist
<1> DEFINE N == Len(value)
           S == {n \in 0..N : Standing(state[n], n)}
<1>2. /\ N \in Nat /\ DOMAIN value = 1..N
      /\ UntrustedHops \subseteq 1..N
  BY DEF ReadableValue, UntrustedHops
<1>3. 0 \in S
  <2>1. StopsAt(N) /\ SubSeq(value, 1, N) = value
    BY <1>2 DEF StopsAt, ReadableValue
  <2>2. N \in 0..(N - 0) /\ \A j \in UntrustedHops : j <= N
    BY <1>2
  <2> DEFINE s == state[0]
  <2>3. s = [found |-> Unspecified, left |-> value]
    BY <1>1 DEF Rounds
  <2> HIDE DEF s
  <2>4. DOMAIN s = {"found", "left"} /\ s.found = Unspecified /\ s.left = SubSeq(value, 1, N)
    BY <2>1, <2>3
  <2> HIDE DEF N
  <2>5. Standing(s, 0)
    BY <2>1, <2>2, <2>4 DEF Standing, N
  <2>6. Standing(state[0], 0)
    BY <2>5 DEF s
  <2> QED BY <1>2, <2>6
<1>4. ASSUME NEW n \in 0..(N - 1), n \in S PROVE n + 1 \in S
  <2>1. n + 1 \in 1..N /\ n + 1 \in 0..N /\ (n + 1) - 1 = n
    BY <1>2
  <2>2. state[n + 1] = NextHop(state[n])
    BY <1>1, <2>1 DEF Rounds
  <2>3. Standing(NextHop(state[n]), n + 1)
    BY <1>4, RoundStands
  <2> QED BY <2>1, <2>2, <2>3
<1>5. Standing(state[N], N)
  <2>1. \A n \in 0..N : n \in S
    <3> HIDE DEF S, N
    <3> QED BY <1>2, <1>3, <1>4, UpToInduction
  <2> QED BY <1>2, <2>1
<1>6. CASE state[N].found # Unspecified
  <2>1. PICK i \in UntrustedHops :
             state[N].found = AddressOf[value[i]] /\ \A j \in UntrustedHops : j <= i
    BY <1>5, <1>6 DEF Standing
  <2> DEFINE last == CHOOSE x \in UntrustedHops : \A j \in UntrustedHops : j <= x
  <2>2. last \in UntrustedHops /\ \A j \in UntrustedHops : j <= last
    BY <2>1
  <2> HIDE DEF last
  <2>3. last = i
    <3>1. last \in Nat /\ i \in Nat /\ last <= i /\ i <= last
      BY <1>2, <2>1, <2>2
    <3> QED BY <3>1
  <2> QED BY <1>1, <2>1, <2>3 DEF last
<1>7. CASE state[N].found = Unspecified
  <2>1. \A j \in UntrustedHops : j <= 0
    BY <1>2, <1>5, <1>7 DEF Standing
  <2>2. UntrustedHops = {}
    BY <1>2, <2>1
  <2> QED BY <1>1, <1>7, <2>2
<1> QED BY <1>6, <1>7

-----------------------------------------------------------------------------
(* Whose request it is.                                                     *)

RealIpInv == trustCIDRs \subseteq Blocks /\ value \in Seq(HeaderPieces)

LEMMA LastHopTaken ==
  ASSUME RealIpInv
  PROVE  LastUntrustedHop
<1> SUFFICES ASSUME forwarded, value # << >>, value[1] \notin Separators, matchCidr(peer)
             PROVE  LastUntrustedHop
  BY DEF LastUntrustedHop
<1>1. ReadableValue
  BY DEF ReadableValue, RealIpInv
<1>3. RealAddr = IF FromList(value) = Unspecified THEN peer ELSE FromList(value)
  BY DEF RealAddr, Believed
<1>4. CASE UntrustedHops = {}
  BY <1>1, <1>3, <1>4, LastHopFound DEF LastUntrustedHop
<1>5. CASE UntrustedHops # {}
  <2> DEFINE last == CHOOSE i \in UntrustedHops : \A j \in UntrustedHops : j <= i
  <2>1. FromList(value) = AddressOf[value[last]]
    BY <1>1, <1>5, LastHopFound
  <2>2. last \in UntrustedHops
    <3>1. Len(value) \in Nat /\ UntrustedHops \subseteq 0..Len(value)
      BY <1>1 DEF UntrustedHops, ReadableValue
    <3> QED BY <1>5, <3>1, GreatestNumber
  <2>3. RealAddr = AddressOf[value[last]]
    <3> HIDE DEF last
    <3>1. AddressOf[value[last]] # Unspecified
      BY <2>2 DEF UntrustedHops, IsHop
    <3> QED BY <1>3, <2>1, <3>1
  <2> QED BY <1>5, <2>3 DEF LastUntrustedHop
<1> QED BY <1>4, <1>5

LEMMA RealIpHolds == RealIpInv => RealIpExact
<1> SUFFICES ASSUME RealIpInv PROVE RealIpExact
  OBVIOUS
<1>1. BlocksExact
  BY BlocksAreExact DEF RealIpInv
<1>2. OnlyProxiesSpeak
  BY DEF OnlyProxiesSpeak, RealAddr, Believed
<1> QED BY <1>1, <1>2, LastHopTaken DEF RealIpExact

\* RealIpResolver.  Whatever blocks are trusted, whatever the header is made of and however long
\* it is: a request is that of the last hop before the trusted proxies, and the peer's own when
\* the peer is none of them; a block is the addresses that share the bits its prefix counts.
THEOREM TakenFromTrusted == RealIpSpec => []RealIpExact
<1>1. RealIpInit => RealIpInv
  BY DEF RealIpInit, RealIpInv
<1>2. RealIpInv /\ [Extend]_realIpVars => RealIpInv'
  <2>1. ASSUME RealIpInv, Extend PROVE RealIpInv'
    <3>1. PICK piece \in HeaderPieces : value' = Append(value, piece)
      BY <2>1 DEF Extend
    <3>2. value' \in Seq(HeaderPieces)
      BY <2>1, <3>1 DEF RealIpInv
    <3> QED BY <2>1, <3>2 DEF RealIpInv, Extend
  <2>2. ASSUME RealIpInv, UNCHANGED realIpVars PROVE RealIpInv'
    BY <2>2 DEF RealIpInv, realIpVars
  <2> QED BY <2>1, <2>2
<1> QED BY <1>1, <1>2, RealIpHolds, PTL DEF RealIpSpec

-----------------------------------------------------------------------------
(* Requests: what is joined comes apart again. *)

\* How the items of a text grow, one character after the other
Spread(f, text, sep, T) ==
  /\ f \in [0..Len(text) -> Seq(Seq(T))]
  /\ f[0] = << << >> >>
  /\ \A i \in 1..Len(text) :
       /\ f[i - 1] # << >>
       /\ f[i] = IF text[i] = sep THEN Append(f[i - 1], << >>)
                 ELSE [f[i - 1] EXCEPT ![Len(f[i - 1])] = Append(@, text[i])]

\* The items of each beginning of a text are sequences, and there is always a last one.
LEMMA ItemsSpread ==
  ASSUME NEW T, NEW text \in Seq(T), NEW sep
  PROVE  Spread(ItemsUpTo(text, sep), text, sep, T)
<1> DEFINE n == Len(text)
           S == {x \in Seq(Seq(T)) : x # << >>}
           After(x, c) == IF c = sep THEN Append(x, << >>)
                          ELSE [x EXCEPT ![Len(x)] = Append(@, c)]
           step == [i \in 1..n |-> [x \in S |-> After(x, text[i])]]
           NextOf(g) == [i \in 0..n |->
                           IF i = 0 THEN << << >> >>
                           ELSE IF text[i] = sep THEN Append(g[i - 1], << >>)
                           ELSE [g[i - 1] EXCEPT ![Len(g[i - 1])] = Append(@, text[i])]]
           F == ItemsUpTo(text, sep)
<1>1. n \in Nat /\ \A i \in 1..n : text[i] \in T
  OBVIOUS
<1>2. \A x \in S, c \in T : After(x, c) \in S
  <2> SUFFICES ASSUME NEW x \in S, NEW c \in T PROVE After(x, c) \in S
    OBVIOUS
  <2>1. x \in Seq(Seq(T)) /\ Len(x) \in Nat /\ Len(x) \in DOMAIN x /\ x[Len(x)] \in Seq(T)
    BY EmptySeq
  <2>2. CASE c = sep
    BY <2>1, <2>2, << >> \in Seq(T)
  <2>3. CASE c # sep
    <3>1. Append(x[Len(x)], c) \in Seq(T)
      BY <2>1
    <3>2. [x EXCEPT ![Len(x)] = Append(@, c)] \in Seq(Seq(T))
      BY <2>1, <3>1
    <3>3. Len([x EXCEPT ![Len(x)] = Append(@, c)]) = Len(x)
      BY <2>1, <3>1
    <3> QED BY <2>1, <2>3, <3>2, <3>3, EmptySeq
  <2> QED BY <2>2, <2>3
<1>3. step \in [1..n -> [S -> S]]
  <2> HIDE DEF After, S
  <2> QED BY <1>1, <1>2
<1>4. << << >> >> \in S
  OBVIOUS
<1>5. PICK f : Iterates(f, n, S, << << >> >>, step)
  <2> HIDE DEF step, n, S
  <2> QED BY <1>1, <1>3, <1>4, RecursionExists
<1>6. f \in [0..n -> S] /\ f[0] = << << >> >>
  BY <1>5 DEF Iterates
<1>7. \A i \in 1..n : f[i] = After(f[i - 1], text[i])
  <2> SUFFICES ASSUME NEW i \in 1..n PROVE f[i] = After(f[i - 1], text[i])
    OBVIOUS
  <2>1. i - 1 \in 0..n
    BY <1>1
  <2>2. f[i - 1] \in S /\ f[i] = step[i][f[i - 1]]
    <3> HIDE DEF step, S
    <3> QED BY <1>5, <2>1 DEF Iterates
  <2> HIDE DEF After, S
  <2> QED BY <2>2
<1>8. f = NextOf(f)
  <2>1. \A i \in 0..n : i = 0 \/ i \in 1..n
    BY <1>1
  <2>2. \A i \in 0..n : f[i] = NextOf(f)[i]
    BY <1>6, <1>7, <2>1, Zenon
  <2>3. [i \in 0..n |-> f[i]] = [i \in 0..n |-> NextOf(f)[i]]
    BY <2>2, Zenon
  <2>4. f = [i \in 0..n |-> f[i]] /\ NextOf(f) = [i \in 0..n |-> NextOf(f)[i]]
    BY <1>6
  <2> QED BY <2>3, <2>4, Zenon
<1>9. F = CHOOSE g : g = NextOf(g)
  BY Zenon DEF ItemsUpTo
<1>10. F = NextOf(F)
  <2> HIDE DEF F, NextOf
  <2> QED BY <1>8, <1>9
<1> HIDE DEF F
<1>11. F[0] = << << >> >> /\ \A i \in 1..n : F[i] = After(F[i - 1], text[i])
  <2>1. \A i \in 0..n : F[i] = NextOf(F)[i]
    BY <1>10, Zenon
  <2>2. 0 \in 0..n /\ \A i \in 1..n : i \in 0..n /\ i # 0
    BY <1>1
  <2> QED BY <2>1, <2>2, Zenon
<1> HIDE DEF After
<1>12. \A i \in 0..n : F[i] = f[i]
  <2>1. GoOnAlike(F, f, n)
    BY <1>6, <1>7, <1>11 DEF GoOnAlike
  <2> HIDE DEF n
  <2> QED BY <1>1, <2>1, RecursionUnique
<1>13. F \in [0..n -> S]
  <2>1. F = [i \in 0..n |-> F[i]]
    <3> HIDE DEF n
    <3> QED BY <1>10, Zenon
  <2> HIDE DEF S
  <2> QED BY <1>6, <1>12, <2>1
<1>14. \A i \in 1..n : F[i - 1] \in S
  <2>1. \A i \in 1..n : i - 1 \in 0..n
    BY <1>1
  <2> QED BY <1>13, <2>1
<1>15. F \in [0..n -> Seq(Seq(T))]
  BY <1>13
<1> QED BY <1>11, <1>14, <1>15 DEF F, Spread, After

\* After a separator, the characters of one item make that item.
\* Behind the a-th character, where an item begins, the text goes on with p.
ItemAhead(text, sep, a, p, done, T, U) ==
  /\ text \in Seq(U) /\ p \in Seq(T) /\ done \in Seq(Seq(U)) /\ sep \notin T
  /\ a \in 0..Len(text) /\ a + Len(p) <= Len(text)
  /\ \A i \in 1..Len(p) : text[a + i] = p[i]
  /\ ItemsUpTo(text, sep)[a] = Append(done, << >>)

LEMMA ItemGrows ==
  ASSUME NEW text, NEW sep, NEW a, NEW p, NEW done, NEW T, NEW U,
         ItemAhead(text, sep, a, p, done, T, U)
  PROVE  ItemsUpTo(text, sep)[a + Len(p)] = Append(done, p)
<1> USE DEF ItemAhead
<1> DEFINE F == ItemsUpTo(text, sep)
           n == Len(p)
           G == {i \in 0..n : F[a + i] = Append(done, SubSeq(p, 1, i))}
<1>1. Spread(F, text, sep, U)
  BY ItemsSpread
<1>2. n \in Nat /\ Len(text) \in Nat /\ Len(done) \in Nat /\ \A i \in 1..n : p[i] \in T
  OBVIOUS
<1> HIDE DEF F
<1>3. 0 \in G
  <2>1. SubSeq(p, 1, 0) = << >> /\ a + 0 = a /\ 0 \in 0..n
    BY <1>2
  <2>2. F[a + 0] = Append(done, << >>)
    BY <2>1 DEF F
  <2> QED BY <2>1, <2>2
<1>4. ASSUME NEW i \in 0..(n - 1), i \in G PROVE i + 1 \in G
  <2> DEFINE q == SubSeq(p, 1, i)
             x == Append(done, q)
  <2>1. a + i + 1 \in 1..Len(text) /\ (a + i + 1) - 1 = a + i /\ i + 1 \in 1..n
    BY <1>2
  <2>2. text[a + i + 1] = p[i + 1] /\ p[i + 1] # sep
    <3>1. a + (i + 1) = a + i + 1
      BY <1>2
    <3> QED BY <1>2, <2>1, <3>1
  <2>3. F[a + i] = x
    BY <1>4
  <2>4. F[a + i + 1] = [x EXCEPT ![Len(x)] = Append(@, p[i + 1])]
    <3> HIDE DEF x
    <3> QED BY <1>1, <2>1, <2>2, <2>3 DEF Spread
  <2>5. q \in Seq(T) /\ Append(q, p[i + 1]) = SubSeq(p, 1, i + 1)
    <3> HIDE DEF G, x
    <3>1. p \in Seq(T) /\ i \in 0..(Len(p) - 1)
      BY <1>2 DEF ItemAhead
    <3>2. q \in Seq(T) /\ Len(q) = i /\ \A j \in 1..i : q[j] = p[j]
      BY <3>1
    <3> HIDE DEF q
    <3>3. /\ Append(q, p[i + 1]) \in Seq(T) /\ Len(Append(q, p[i + 1])) = i + 1
          /\ \A j \in 1..(i + 1) : Append(q, p[i + 1])[j] = p[j]
      BY <3>1, <3>2
    <3>4. /\ SubSeq(p, 1, i + 1) \in Seq(T) /\ Len(SubSeq(p, 1, i + 1)) = i + 1
          /\ \A j \in 1..(i + 1) : SubSeq(p, 1, i + 1)[j] = p[j]
      BY <3>1
    <3>5. Append(q, p[i + 1]) = SubSeq(p, 1, i + 1)
      <4> DEFINE y == Append(q, p[i + 1])
                 z == SubSeq(p, 1, i + 1)
      <4>1. IsSeq(y) /\ IsSeq(z) /\ Len(y) = Len(z) /\ \A j \in 1..Len(y) : y[j] = z[j]
        BY <3>3, <3>4, SeqIsSeq
      <4> HIDE DEF y, z
      <4>2. y = z
        BY <4>1, SameSeq
      <4> QED BY <4>2 DEF y, z
    <3> QED BY <3>2, <3>5
  <2>6. [x EXCEPT ![Len(x)] = Append(@, p[i + 1])] = Append(done, SubSeq(p, 1, i + 1))
    <3> DEFINE r == SubSeq(p, 1, i + 1)
               T2 == Elements(done) \cup {q, r}
               y == [x EXCEPT ![Len(x)] = Append(@, p[i + 1])]
               z == Append(done, r)
    <3>1. done \in Seq(T2)
      <4>1. IsSeq(done)
        BY SeqIsSeq
      <4> QED BY <4>1 DEF IsSeq
    <3>2. q \in T2 /\ r \in T2
      OBVIOUS
    <3>3. Append(q, p[i + 1]) = r
      BY <2>5
    <3> HIDE DEF T2, q, r
    <3>4. /\ x \in Seq(T2) /\ Len(x) = Len(done) + 1 /\ x[Len(x)] = q
          /\ \A j \in 1..Len(done) : x[j] = done[j]
      BY <1>2, <3>1, <3>2
    <3>5. y = [x EXCEPT ![Len(x)] = r]
      BY <3>3, <3>4
    <3> HIDE DEF x, y
    <3>6. y \in Seq(T2) /\ Len(y) = Len(x)
      BY <3>2, <3>4, <3>5
    <3>7. /\ z \in Seq(T2) /\ Len(z) = Len(done) + 1 /\ z[Len(done) + 1] = r
          /\ \A j \in 1..Len(done) : z[j] = done[j]
      BY <1>2, <3>1, <3>2
    <3>8. \A j \in 1..Len(x) : y[j] = IF j = Len(x) THEN r ELSE x[j]
      BY <3>4, <3>5
    <3>9. \A j \in 1..Len(x) : y[j] = z[j]
      <4>1. \A j \in 1..Len(x) : j = Len(x) \/ j \in 1..Len(done)
        BY <1>2, <3>4
      <4> QED BY <3>4, <3>7, <3>8, <4>1
    <3>10. y = z
      <4> HIDE DEF z
      <4> QED BY <3>4, <3>6, <3>7, <3>9, SeqEqual
    <3> QED BY <3>10 DEF x, y, q, r
  <2>7. a + (i + 1) = a + i + 1
    BY <1>2
  <2>8. F[a + (i + 1)] = Append(done, SubSeq(p, 1, i + 1))
    BY <2>4, <2>6, <2>7
  <2> HIDE DEF x, q
  <2> QED BY <2>1, <2>8
<1>5. n \in G
  <2> HIDE DEF G
  <2>1. \A i \in 0..n : i \in G
    BY <1>2, <1>3, <1>4, UpToInduction
  <2> QED BY <1>2, <2>1
<1>6. SubSeq(p, 1, n) = p
  OBVIOUS
<1> QED BY <1>5, <1>6 DEF F

\* Items without separators come apart as they were joined.
\* Items that do not hold the separator
Separable(parts, sep, T) == parts \in Seq(Seq(T)) /\ parts # << >> /\ sep \notin T

LEMMA SplitJoined ==
  ASSUME NEW parts, NEW sep, NEW T, Separable(parts, sep, T)
  PROVE  /\ JoinWith(parts, sep) \in Seq(T \cup {sep})
         /\ Len(parts[1]) <= Len(JoinWith(parts, sep))
         /\ \A i \in 1..Len(parts[1]) : JoinWith(parts, sep)[i] = parts[1][i]
         /\ SplitAt(JoinWith(parts, sep), sep) = parts
<1> USE DEF Separable
<1> DEFINE U == T \cup {sep}
           n == Len(parts)
           seqs == [i \in 1..n |-> IF i = 1 THEN parts[i] ELSE <<sep>> \o parts[i]]
           text == JoinWith(parts, sep)
           N == Len(text)
           F == ItemsUpTo(text, sep)
<1>1. n \in Nat /\ n >= 1 /\ DOMAIN parts = 1..n /\ \A i \in 1..n : parts[i] \in Seq(T)
  BY EmptySeq
<1>2. \A i \in 1..n : parts[i] \in Seq(U) /\ <<sep>> \in Seq(U) /\ <<sep>> \o parts[i] \in Seq(U)
  <2> SUFFICES ASSUME NEW i \in 1..n
               PROVE  parts[i] \in Seq(U) /\ <<sep>> \in Seq(U) /\ <<sep>> \o parts[i] \in Seq(U)
    OBVIOUS
  <2>1. parts[i] \in Seq(U)
    BY <1>1
  <2>2. <<sep>> \in Seq(U)
    OBVIOUS
  <2> HIDE DEF U
  <2> QED BY <2>1, <2>2
<1>3. seqs \in Seq(Seq(U)) /\ Len(seqs) = n /\ parts \in Seq(Seq(U))
  <2>1. parts \in Seq(Seq(U))
    <3>1. parts \in [1..n -> Seq(U)]
      <4>1. parts = [i \in 1..n |-> parts[i]]
        BY <1>1
      <4> HIDE DEF U, n
      <4> QED BY <1>2, <4>1, Zenon
    <3> HIDE DEF U, n
    <3> QED BY <1>1, <3>1
  <2> HIDE DEF U, n
  <2> QED BY <1>1, <1>2, <2>1
<1>4. text = FlattenSeq(seqs)
  BY <1>1 DEF JoinWith
<1>5. seqs[1] = parts[1] /\ \A k \in 2..n : seqs[k] = <<sep>> \o parts[k]
  <2>1. 1 \in 1..n /\ \A k \in 2..n : k \in 1..n /\ k # 1
    BY <1>1
  <2> QED BY <1>1, <2>1
<1> HIDE DEF seqs, text, U, n
<1>6. text \in Seq(U) /\ N \in Nat
  BY <1>3, <1>4, OffsetsExist
<1>7. PICK off : Offsets(off, seqs, text)
  BY <1>3, <1>4, OffsetsExist
<1>16. ASSUME NEW a \in 0..N, NEW p \in Seq(T), a + Len(p) <= N,
              \A i \in 1..Len(p) : text[a + i] = p[i],
              NEW done \in Seq(Seq(U)), F[a] = Append(done, << >>)
       PROVE  F[a + Len(p)] = Append(done, p)
  <2>1. ItemAhead(text, sep, a, p, done, T, U)
    BY <1>6, <1>16, Zenon DEF ItemAhead
  <2> HIDE DEF F
  <2> QED BY <2>1, ItemGrows DEF F
<1> HIDE DEF N, F
<1>8. /\ off \in [0..n -> 0..N] /\ off[0] = 0 /\ off[n] = N
      /\ \A k \in 1..n : /\ off[k] = off[k - 1] + Len(seqs[k])
                         /\ \A i \in 1..Len(seqs[k]) : text[off[k - 1] + i] = seqs[k][i]
  BY <1>3, <1>7 DEF Offsets, N
<1>9. Spread(F, text, sep, U)
  BY <1>6, ItemsSpread DEF F
<1>10. 1 \in 1..n /\ 1 - 1 = 0 /\ parts[1] \in Seq(T) /\ Len(parts[1]) \in Nat
  BY <1>1
<1>11. /\ off[1] = Len(parts[1]) /\ Len(parts[1]) <= N
       /\ \A i \in 1..Len(parts[1]) : text[i] = parts[1][i]
  <2>1. off[1] = 0 + Len(parts[1]) /\ \A i \in 1..Len(parts[1]) : text[0 + i] = parts[1][i]
    BY <1>5, <1>8, <1>10
  <2>2. off[1] \in 0..N
    <3>1. 1 \in 0..n
      BY <1>1
    <3> QED BY <1>8, <3>1
  <2>3. \A i \in 1..Len(parts[1]) : 0 + i = i
    BY <1>10
  <2> QED BY <1>6, <1>10, <2>1, <2>2, <2>3
<1> DEFINE H == {k \in 0..(n - 1) : F[off[k + 1]] = SubSeq(parts, 1, k + 1)}
<1>12. 0 \in H
  <2>1. F[0] = Append(<< >>, << >>)
    <3>1. Append(<< >>, << >>) = << << >> >>
      OBVIOUS
    <3> QED BY <1>9, <3>1 DEF Spread
  <2>2. /\ 0 \in 0..N /\ 0 + Len(parts[1]) = Len(parts[1]) /\ << >> \in Seq(Seq(U))
        /\ \A i \in 1..Len(parts[1]) : text[0 + i] = parts[1][i]
    BY <1>6, <1>10, <1>11
  <2>3. F[0 + Len(parts[1])] = Append(<< >>, parts[1])
    <3> DEFINE none == << >>
               p == parts[1]
               z == 0
    <3>1. none \in Seq(Seq(U)) /\ F[z] = Append(none, << >>)
      BY <2>1
    <3>2. /\ p \in Seq(T) /\ z \in 0..N /\ z + Len(p) <= N
          /\ \A i \in 1..Len(p) : text[z + i] = p[i]
      BY <1>10, <1>11, <2>2
    <3> HIDE DEF none, p, z
    <3>3. F[z + Len(p)] = Append(none, p)
      BY <1>16, <3>1, <3>2
    <3> QED BY <3>3 DEF none, p, z
  <2>4. Append(<< >>, parts[1]) = SubSeq(parts, 1, 1)
    BY <1>1
  <2>5. 0 \in 0..(n - 1) /\ 0 + 1 = 1
    BY <1>1
  <2> QED BY <1>11, <2>2, <2>3, <2>4, <2>5
<1>13. ASSUME NEW k \in 0..(n - 2), k \in H PROVE k + 1 \in H
  <2> DEFINE a == off[k + 1]
             done == SubSeq(parts, 1, k + 1)
             p == parts[k + 2]
  <2>1. /\ k + 2 \in 1..n /\ k + 2 \in 2..n /\ (k + 2) - 1 = k + 1 /\ k + 1 \in 0..n
        /\ k + 1 \in 0..(n - 1) /\ (k + 1) + 1 = k + 2 /\ k + 1 \in 1..n /\ k + 2 \in 0..n
    BY <1>1
  <2>2. /\ p \in Seq(T) /\ Len(p) \in Nat /\ Len(seqs[k + 2]) = 1 + Len(p)
        /\ seqs[k + 2][1] = sep /\ \A i \in 1..Len(p) : seqs[k + 2][1 + i] = p[i]
    <3>1. p \in Seq(T) /\ seqs[k + 2] = <<sep>> \o p
      BY <1>1, <1>5, <2>1
    <3> HIDE DEF p
    <3> QED BY <3>1, OneBefore
  <2>3. Append(done, p) = SubSeq(parts, 1, k + 2) /\ done \in Seq(Seq(U))
    <3>1. Append(done, p) = SubSeq(parts, 1, k + 2)
      BY <1>1, <2>1
    <3>2. Len(parts) = n /\ n \in Nat
      BY <1>1 DEF n
    <3>3. k + 1 \in 0..Len(parts)
      BY <2>1, <3>2
    <3>4. done \in Seq(Seq(U))
      BY <1>3, <3>3
    <3> QED BY <3>1, <3>4
  <2>4. F[a] = done
    BY <1>13
  <2>5. /\ a \in 0..N /\ off[k + 2] \in 0..N /\ off[k + 2] = a + (1 + Len(p))
        /\ \A i \in 1..(1 + Len(p)) : text[a + i] = seqs[k + 2][i]
    <3>1. a \in 0..N /\ off[k + 2] \in 0..N
      BY <1>8, <2>1
    <3>2. off[k + 2] = a + Len(seqs[k + 2])
      BY <1>8, <2>1
    <3>3. \A i \in 1..Len(seqs[k + 2]) : text[a + i] = seqs[k + 2][i]
      BY <1>8, <2>1
    <3> QED BY <2>2, <3>1, <3>2, <3>3
  <2> HIDE DEF a, done, p
  <2>6. /\ a + 1 \in 1..N /\ (a + 1) - 1 = a /\ a + 1 \in 0..N
        /\ (a + 1) + Len(p) = off[k + 2] /\ (a + 1) + Len(p) <= N
    <3>1. Len(p) \in Nat
      BY <2>2
    <3> QED BY <1>6, <2>5, <3>1
  <2>7. text[a + 1] = sep /\ \A i \in 1..Len(p) : text[(a + 1) + i] = p[i]
    <3>0. Len(p) \in Nat /\ a \in Nat
      BY <2>2, <2>5
    <3>1. 1 \in 1..(1 + Len(p))
      BY <3>0
    <3>2. \A i \in 1..Len(p) : 1 + i \in 1..(1 + Len(p)) /\ (a + 1) + i = a + (1 + i)
      BY <3>0
    <3> QED BY <2>2, <2>5, <3>1, <3>2
  <2>8. F[a + 1] = Append(done, << >>)
    BY <1>9, <2>4, <2>6, <2>7 DEF Spread, N
  <2>9. F[(a + 1) + Len(p)] = Append(done, p)
    <3>1. p \in Seq(T)
      BY <2>2
    <3> DEFINE b == a + 1
    <3>2. /\ b \in 0..N /\ b + Len(p) <= N /\ \A i \in 1..Len(p) : text[b + i] = p[i]
          /\ F[b] = Append(done, << >>)
      BY <2>6, <2>7, <2>8
    <3> HIDE DEF b
    <3>3. F[b + Len(p)] = Append(done, p)
      BY <1>16, <2>3, <3>1, <3>2
    <3> QED BY <3>3 DEF b
  <2>10. F[off[(k + 1) + 1]] = SubSeq(parts, 1, (k + 1) + 1)
    BY <2>1, <2>3, <2>6, <2>9
  <2> QED BY <2>1, <2>10
<1>14. n - 1 \in H
  <2> HIDE DEF H
  <2>1. \A i \in 0..(n - 1) : i \in H
    <3>1. n - 1 \in Nat /\ (n - 1) - 1 = n - 2
      BY <1>1
    <3> QED BY <1>12, <1>13, <3>1, UpToInduction
  <2> QED BY <1>1, <2>1
<1>15. F[N] = parts
  <2>1. (n - 1) + 1 = n
    BY <1>1
  <2>2. SubSeq(parts, 1, n) = parts
    BY DEF n
  <2> QED BY <1>8, <1>14, <2>1, <2>2
<1> QED BY <1>6, <1>11, <1>15 DEF SplitAt, text, U, N, F

\* Nothing is one item, which is empty.
LEMMA NothingJoined ==
  ASSUME NEW sep
  PROVE  JoinWith(<< >>, sep) = << >> /\ SplitAt(<< >>, sep) = << << >> >>
<1>1. JoinWith(<< >>, sep) = << >>
  BY DEF JoinWith, FlattenSeq
<1>2. Spread(ItemsUpTo(<< >>, sep), << >>, sep, {})
  BY ItemsSpread, << >> \in Seq({})
<1>3. Len(<< >>) = 0
  OBVIOUS
<1> QED BY <1>1, <1>2, <1>3 DEF Spread, SplitAt

-----------------------------------------------------------------------------
(* What is cut at the first of a character. *)

\* It is the first, if there is one.
LEMMA FirstOfIs ==
  ASSUME NEW T, NEW text \in Seq(T), NEW c
  PROVE  /\ c \notin Range(text) => FirstOf(text, c) = 0
         /\ c \in Range(text) =>
              /\ FirstOf(text, c) \in 1..Len(text) /\ text[FirstOf(text, c)] = c
              /\ \A j \in 1..(FirstOf(text, c) - 1) : text[j] # c
<1> DEFINE At == {i \in DOMAIN text : text[i] = c}
           first == FirstOf(text, c)
<1>1. DOMAIN text = 1..Len(text) /\ Len(text) \in Nat
  OBVIOUS
<1>2. ASSUME c \notin Range(text) PROVE first = 0
  <2>1. At = {}
    BY <1>2 DEF Range
  <2> QED BY <2>1 DEF FirstOf
<1>3. ASSUME c \in Range(text)
      PROVE  first \in 1..Len(text) /\ text[first] = c /\ \A j \in 1..(first - 1) : text[j] # c
  <2>1. At # {} /\ At \subseteq Nat
    BY <1>1, <1>3 DEF Range
  <2>2. first = CHOOSE i \in At : \A j \in At : i <= j
    BY <2>1 DEF FirstOf
  <2>3. \E i \in At : \A j \in At : i <= j
    <3> HIDE DEF At
    <3> QED BY <2>1, LeastNumber
  <2>4. first \in At /\ \A j \in At : first <= j
    <3> HIDE DEF At, first
    <3> QED BY <2>2, <2>3
  <2> HIDE DEF first
  <2>5. first \in 1..Len(text) /\ text[first] = c
    BY <1>1, <2>4
  <2>6. \A j \in 1..(first - 1) : j \in 1..Len(text) /\ ~ (first <= j)
    BY <1>1, <2>5
  <2> QED BY <1>1, <2>4, <2>5, <2>6
<1> QED BY <1>2, <1>3

\* Cut where it was put together,
LEMMA CutWhereJoined ==
  ASSUME NEW c, NEW T, c \notin T, NEW a \in Seq(T), NEW b, IsSeq(b),
         NEW text, text = a \o (<<c>> \o b)
  PROVE  c \in Range(text) /\ Before(text, c) = a /\ Behind(text, c) = b
<1> DEFINE d == <<c>> \o b
           U == Elements(text)
           m == Len(a)
           f == FirstOf(text, c)
<1>1. IsSeq(d) /\ Len(d) = 1 + Len(b) /\ Len(b) \in Nat /\ d[1] = c /\ \A i \in 1..Len(b) : d[1 + i] = b[i]
  <2>1. b \in Seq(Elements(b))
    BY DEF IsSeq
  <2>2. IsSeq(<<c>>)
    <3>1. <<c>> \in Seq({c})
      OBVIOUS
    <3> QED BY <3>1, SeqIsSeq
  <2>3. IsSeq(d)
    BY <2>2, ConcatIs
  <2> QED BY <2>1, <2>3, OneBefore
<1> HIDE DEF d
<1>2. IsSeq(a) /\ text = a \o d
  BY SeqIsSeq DEF d
<1>3. /\ IsSeq(text) /\ m \in Nat /\ Len(text) = m + Len(d)
      /\ \A i \in 1..m : text[i] = a[i]
      /\ \A i \in 1..Len(d) : text[m + i] = d[i]
  <2>1. /\ IsSeq(a \o d) /\ Len(a) \in Nat /\ Len(a \o d) = Len(a) + Len(d)
        /\ \A i \in 1..Len(a) : (a \o d)[i] = a[i]
        /\ \A i \in 1..Len(d) : (a \o d)[Len(a) + i] = d[i]
    <3>1. IsSeq(a) /\ IsSeq(d)
      BY <1>1, <1>2
    <3> QED BY <3>1, ConcatIs
  <2> QED BY <1>2, <2>1
<1>4. text \in Seq(U) /\ Len(text) = m + 1 + Len(b) /\ DOMAIN text = 1..Len(text)
  BY <1>1, <1>3 DEF IsSeq
<1>5. text[m + 1] = c /\ m + 1 \in 1..Len(text)
  <2>1. 1 \in 1..Len(d)
    BY <1>1
  <2> QED BY <1>1, <1>3, <1>4, <2>1
<1>6. \A i \in 1..Len(b) : text[(m + 1) + i] = b[i]
  <2> SUFFICES ASSUME NEW i \in 1..Len(b) PROVE text[(m + 1) + i] = b[i]
    OBVIOUS
  <2>1. 1 + i \in 1..Len(d) /\ (m + 1) + i = m + (1 + i)
    BY <1>1, <1>3
  <2> QED BY <1>1, <1>3, <2>1
<1>7. \A i \in 1..m : text[i] # c
  <2>1. \A i \in 1..m : a[i] \in T
    OBVIOUS
  <2> QED BY <1>3, <2>1
<1>8. c \in Range(text)
  BY <1>4, <1>5 DEF Range
<1> HIDE DEF U, m
<1>9. f = m + 1
  <2>1. f \in 1..Len(text) /\ text[f] = c /\ \A j \in 1..(f - 1) : text[j] # c
    BY <1>4, <1>8, FirstOfIs
  <2> HIDE DEF f
  <2>2. ~ (f <= m)
    BY <1>3, <1>7, <2>1
  <2>3. ~ (m + 1 < f)
    <3> SUFFICES ASSUME m + 1 < f PROVE FALSE
      OBVIOUS
    <3>1. m + 1 \in 1..(f - 1)
      BY <1>3, <2>1
    <3> QED BY <1>5, <2>1, <3>1
  <2> QED BY <1>3, <2>1, <2>2, <2>3
<1>10. Before(text, c) = SubSeq(text, 1, m) /\ Behind(text, c) = SubSeq(text, m + 2, Len(text))
  <2>1. f # 0 /\ f - 1 = m /\ f + 1 = m + 2
    BY <1>3, <1>9
  <2> QED BY <2>1 DEF Before, Behind
<1>11. SubSeq(text, 1, m) = a
  <2>1. SubSeq(text, 1, m) \in Seq(U) /\ Len(SubSeq(text, 1, m)) = m
        /\ \A i \in 1..m : SubSeq(text, 1, m)[i] = text[i]
    <3>1. m \in 0..Len(text)
      BY <1>1, <1>3, <1>4
    <3> QED BY <1>3, <1>4, <3>1
  <2>2. IsSeq(SubSeq(text, 1, m))
    BY <2>1, SeqIsSeq
  <2> QED BY <1>2, <1>3, <2>1, <2>2, SameSeq DEF m
<1>12. SubSeq(text, m + 2, Len(text)) = b
  <2> DEFINE s == SubSeq(text, m + 2, Len(text))
  <2>1. s \in Seq(U) /\ Len(s) = Len(b) /\ \A i \in 1..Len(b) : s[i] = text[(m + 1) + i]
    <3>1. m + 2 \in 1..(Len(text) + 1) /\ Len(text) \in Nat /\ Len(text) - (m + 2) + 1 = Len(b)
      BY <1>1, <1>3, <1>4
    <3>2. /\ s \in Seq(U)
          /\ Len(s) = IF m + 2 <= Len(text) THEN Len(text) - (m + 2) + 1 ELSE 0
          /\ \A i \in 1..(Len(text) - (m + 2) + 1) : s[i] = text[(m + 2) + i - 1]
      <4>1. \A i \in (m + 2)..Len(text) : text[i] \in U
        BY <1>3, <1>4
      <4> QED BY <1>3, <3>1, <4>1, SubSeqProperties
    <3>3. \A i \in 1..Len(b) : (m + 2) + i - 1 = (m + 1) + i
      BY <1>1, <1>3
    <3> HIDE DEF s
    <3>4. Len(s) = Len(b)
      BY <1>1, <1>3, <1>4, <3>1, <3>2
    <3> QED BY <3>1, <3>2, <3>3, <3>4
  <2>2. IsSeq(s)
    BY <2>1, SeqIsSeq
  <2> HIDE DEF s
  <2>3. s = b
    BY <1>6, <2>1, <2>2, SameSeq
  <2> QED BY <2>3 DEF s
<1> QED BY <1>8, <1>10, <1>11, <1>12

\* and put together where it was cut.
LEMMA JoinedWhereCut ==
  ASSUME NEW T, NEW text \in Seq(T), NEW c, c \in Range(text)
  PROVE  /\ text = Before(text, c) \o (<<c>> \o Behind(text, c))
         /\ Before(text, c) \in Seq(T \ {c}) /\ Behind(text, c) \in Seq(T)
<1> DEFINE f == FirstOf(text, c)
           a == SubSeq(text, 1, f - 1)
           b == SubSeq(text, f + 1, Len(text))
           d == <<c>> \o b
           n == Len(text)
<1>1. n \in Nat /\ f \in 1..n /\ text[f] = c /\ \A j \in 1..(f - 1) : text[j] # c
  BY FirstOfIs
<1> HIDE DEF f
<1>2. Before(text, c) = a /\ Behind(text, c) = b
  BY <1>1 DEF Before, Behind, f
<1>3. \A j \in 1..n : text[j] \in T
  OBVIOUS
<1>4. a \in Seq(T \ {c}) /\ Len(a) = f - 1 /\ \A i \in 1..(f - 1) : a[i] = text[i]
  <2>1. \A j \in 1..(f - 1) : text[j] \in T \ {c} /\ text[j] \in T
    BY <1>1, <1>3
  <2>2. /\ a \in Seq(T \ {c})
        /\ Len(a) = IF 1 <= f - 1 THEN (f - 1) - 1 + 1 ELSE 0
        /\ \A i \in 1..((f - 1) - 1 + 1) : a[i] = text[1 + i - 1]
    <3>1. f - 1 \in Int /\ 1 \in Int
      BY <1>1
    <3> QED BY <2>1, <3>1, SubSeqProperties
  <2>3. (f - 1) - 1 + 1 = f - 1 /\ \A i \in 1..(f - 1) : 1 + i - 1 = i
    BY <1>1
  <2> HIDE DEF a
  <2>4. Len(a) = f - 1
    BY <1>1, <2>2
  <2> QED BY <2>2, <2>3, <2>4
<1>5. b \in Seq(T) /\ Len(b) = n - f /\ \A i \in 1..(n - f) : b[i] = text[f + i]
  <2>1. \A j \in (f + 1)..n : text[j] \in T
    BY <1>1, <1>3
  <2>2. /\ b \in Seq(T)
        /\ Len(b) = IF f + 1 <= n THEN n - (f + 1) + 1 ELSE 0
        /\ \A i \in 1..(n - (f + 1) + 1) : b[i] = text[(f + 1) + i - 1]
    <3>1. f + 1 \in Int /\ n \in Int
      BY <1>1
    <3> QED BY <2>1, <3>1, SubSeqProperties
  <2>3. n - (f + 1) + 1 = n - f /\ \A i \in 1..(n - f) : (f + 1) + i - 1 = f + i
    BY <1>1
  <2> HIDE DEF b
  <2>4. Len(b) = n - f
    BY <1>1, <2>2
  <2> QED BY <2>2, <2>3, <2>4
<1> HIDE DEF a, b, n
<1>6. /\ Len(d) = 1 + Len(b) /\ d[1] = c /\ \A i \in 1..Len(b) : d[1 + i] = b[i]
      /\ IsSeq(d)
  <2>1. IsSeq(b) /\ IsSeq(<<c>>)
    <3>1. <<c>> \in Seq({c})
      OBVIOUS
    <3> QED BY <1>5, <3>1, SeqIsSeq
  <2> QED BY <1>5, <2>1, OneBefore, ConcatIs
<1> HIDE DEF d
<1>7. /\ IsSeq(a \o d) /\ Len(a \o d) = Len(a) + Len(d)
      /\ \A i \in 1..Len(a) : (a \o d)[i] = a[i]
      /\ \A i \in 1..Len(d) : (a \o d)[Len(a) + i] = d[i]
  <2>1. IsSeq(a)
    BY <1>4, SeqIsSeq
  <2> QED BY <1>6, <2>1, ConcatIs
<1>8. text = a \o d
  <2>1. Len(a \o d) = n
    BY <1>1, <1>4, <1>5, <1>6, <1>7
  <2>2. ASSUME NEW i \in 1..n PROVE text[i] = (a \o d)[i]
    <3>1. CASE i < f
      <4>1. i \in 1..(f - 1)
        BY <1>1, <3>1
      <4> QED BY <1>4, <1>7, <4>1
    <3>2. CASE i = f
      <4>1. 1 \in 1..Len(d) /\ Len(a) + 1 = f
        BY <1>1, <1>4, <1>5, <1>6
      <4>2. (a \o d)[Len(a) + 1] = d[1]
        BY <1>7, <4>1
      <4> QED BY <1>1, <1>6, <3>2, <4>1, <4>2
    <3>3. CASE i > f
      <4> DEFINE j == i - f
      <4>1. j \in 1..(n - f) /\ 1 + j \in 1..Len(d) /\ Len(a) + (1 + j) = i /\ f + j = i
        BY <1>1, <1>4, <1>5, <1>6, <3>3
      <4> HIDE DEF j
      <4>2. (a \o d)[Len(a) + (1 + j)] = d[1 + j]
        BY <1>7, <4>1
      <4>3. d[1 + j] = b[j] /\ b[j] = text[f + j]
        BY <1>5, <1>6, <4>1
      <4> QED BY <4>1, <4>2, <4>3
    <3>4. i < f \/ i = f \/ i > f
      BY <1>1
    <3> QED BY <3>1, <3>2, <3>3, <3>4
  <2>3. IsSeq(text)
    BY SeqIsSeq
  <2> QED BY <1>7, <2>1, <2>2, <2>3, SameSeq DEF n
<1> QED BY <1>2, <1>4, <1>5, <1>8 DEF d

\* Nothing is cut where the character is not.
LEMMA NotCut ==
  ASSUME NEW T, NEW text \in Seq(T), NEW c, c \notin Range(text)
  PROVE  Before(text, c) = text /\ Behind(text, c) = << >>
BY FirstOfIs DEF Before, Behind

\* Nothing is passed when there is nothing to pass.
LEMMA NothingLeads ==
  ASSUME NEW T, NEW text \in Seq(T), NEW Chars, text # << >> => text[1] \notin Chars
  PROVE  PastLeading(text, Chars) = text
<1> DEFINE K == {i \in DOMAIN text : text[i] \notin Chars}
<1>1. DOMAIN text = 1..Len(text) /\ Len(text) \in Nat
  OBVIOUS
<1>2. CASE text = << >>
  <2>1. K = {}
    BY <1>2
  <2> QED BY <1>2, <2>1 DEF PastLeading
<1>3. CASE text # << >>
  <2>1. 1 \in K /\ K \subseteq 1..Len(text)
    BY <1>1, <1>3, EmptySeq
  <2>2. PastLeading(text, Chars) = SubSeq(text, CHOOSE i \in K : \A j \in K : i <= j, Len(text))
    BY <2>1 DEF PastLeading
  <2> HIDE DEF K
  <2>3. (CHOOSE i \in K : \A j \in K : i <= j) = 1
    <3>1. \A j \in K : 1 <= j
      BY <2>1
    <3> DEFINE m == CHOOSE i \in K : \A j \in K : i <= j
    <3>2. m \in K /\ \A j \in K : m <= j
      BY <2>1, <3>1
    <3> HIDE DEF m
    <3>3. m = 1
      BY <2>1, <3>2
    <3> QED BY <3>3 DEF m
  <2>4. SubSeq(text, 1, Len(text)) = text
    OBVIOUS
  <2> QED BY <2>2, <2>3, <2>4, Zenon
<1> QED BY <1>2, <1>3

-----------------------------------------------------------------------------
(* A map that is written and read. *)

\* A map from some of the keys to values
IsMap(map, Keys, Values) ==
  /\ map = [k \in DOMAIN map |-> map[k]]
  /\ DOMAIN map \subseteq Keys /\ IsFiniteSet(DOMAIN map)
  /\ \A k \in DOMAIN map : map[k] \in Values

\* The empty map is one,
LEMMA EmptyMap == \A Keys, Values : IsMap(NoParams, Keys, Values)
<1>1. DOMAIN NoParams = {} /\ NoParams = [k \in DOMAIN NoParams |-> NoParams[k]]
  BY DEF NoParams
<1> QED BY <1>1, FS_EmptySet DEF IsMap

\* and it stays one with one more key.
LEMMA OneKeyMore ==
  ASSUME NEW map, NEW Keys, NEW Values, IsMap(map, Keys, Values), NEW k \in Keys, NEW v \in Values
  PROVE  IsMap(With(map, k, v), Keys, Values)
<1>1. IsFiniteSet(DOMAIN map \cup {k})
  BY FS_AddElement DEF IsMap
<1> QED BY <1>1 DEF IsMap, With

\* The keys of a map in some order: each once.
LEMMA KeysInOrder ==
  ASSUME NEW S, IsFiniteSet(S)
  PROVE  /\ Cardinality(S) \in Nat
         /\ SetToSeq(S) \in [1..Cardinality(S) -> S]
         /\ \A i, j \in 1..Cardinality(S) : SetToSeq(S)[i] = SetToSeq(S)[j] => i = j
         /\ \A s \in S : \E i \in 1..Cardinality(S) : SetToSeq(S)[i] = s
<1> DEFINE n == Cardinality(S)
           keys == SetToSeq(S)
<1>1. n \in Nat /\ ExistsBijection(1..n, S)
  BY FS_CardinalityType
<1>2. \E f \in [1..n -> S] : IsInjective(f)
  BY <1>1 DEF ExistsBijection, Bijection, Injection
<1>3. keys \in [1..n -> S] /\ IsInjective(keys)
  <2> DEFINE P(f) == IsInjective(f)
  <2>1. keys = CHOOSE f \in [1..n -> S] : P(f)
    BY DEF SetToSeq
  <2> HIDE DEF keys, P, n
  <2>2. \E f \in [1..n -> S] : P(f)
    BY <1>2 DEF P
  <2>3. keys \in [1..n -> S] /\ P(keys)
    BY <2>1, <2>2, Zenon
  <2> QED BY <2>3 DEF P
<1> HIDE DEF keys
<1>4. IsFiniteSet(1..n) /\ Cardinality(1..n) = n
  BY <1>1, FS_Interval
<1>5. keys \in Surjection(1..n, S)
  <2>1. keys \in Injection(1..n, S)
    BY <1>3 DEF Injection
  <2> QED BY <1>4, <2>1, FS_Injection
<1>6. \A i, j \in 1..n : keys[i] = keys[j] => i = j
  BY <1>3 DEF IsInjective
<1>7. \A s \in S : \E i \in 1..n : keys[i] = s
  BY <1>5 DEF Surjection
<1> QED BY <1>1, <1>3, <1>6, <1>7 DEF keys

\* Each key is read once, with its value.
ReadsOf(reads, map, keys) ==
  /\ DOMAIN reads = DOMAIN keys
  /\ \A i \in DOMAIN keys :
       reads[i].set /\ reads[i].key = keys[i] /\ reads[i].value = map[keys[i]]

\* What is read of a map that was written is that map.
LEMMA MapReadBack ==
  ASSUME NEW map, IsFiniteSet(DOMAIN map), map = [k \in DOMAIN map |-> map[k]],
         NEW reads, ReadsOf(reads, map, SetToSeq(DOMAIN map))
  PROVE  /\ [k \in {reads[i].key : i \in DOMAIN reads} |-> ValueIn(reads, k)] = map
         /\ {j \in DOMAIN reads : reads[j].set} = DOMAIN reads
<1> DEFINE keys == SetToSeq(DOMAIN map)
           n == Cardinality(DOMAIN map)
<1>1. /\ n \in Nat /\ keys \in [1..n -> DOMAIN map]
      /\ \A i, j \in 1..n : keys[i] = keys[j] => i = j
      /\ \A k \in DOMAIN map : \E i \in 1..n : keys[i] = k
  BY KeysInOrder
<1> HIDE DEF keys, n
<1>2. /\ DOMAIN reads = 1..n
      /\ \A i \in 1..n : reads[i].set /\ reads[i].key = keys[i] /\ reads[i].value = map[keys[i]]
  BY <1>1 DEF ReadsOf, keys
<1>3. {reads[i].key : i \in DOMAIN reads} = DOMAIN map
  <2>1. \A i \in 1..n : reads[i].key \in DOMAIN map
    BY <1>1, <1>2
  <2>2. \A k \in DOMAIN map : \E i \in 1..n : k = reads[i].key
    BY <1>1, <1>2
  <2> DEFINE Read == {reads[i].key : i \in DOMAIN reads}
  <2>3. Read \subseteq DOMAIN map
    <3>1. \A i \in DOMAIN reads : reads[i].key \in DOMAIN map
      BY <1>2, <2>1
    <3> QED BY <3>1, Zenon
  <2>4. DOMAIN map \subseteq Read
    BY <1>2, <2>2, Zenon
  <2> QED BY <2>3, <2>4, Zenon
<1>4. ASSUME NEW k \in DOMAIN map PROVE ValueIn(reads, k) = map[k]
  <2>1. PICK i \in 1..n : keys[i] = k
    BY <1>1
  <2> DEFINE Set == {j \in DOMAIN reads : reads[j].set /\ reads[j].key = k}
  <2>2. Set = {i}
    BY <1>1, <1>2, <2>1
  <2>3. ValueIn(reads, k) = reads[CHOOSE l \in Set : \A j \in Set : j <= l].value
    BY <2>2 DEF ValueIn
  <2> HIDE DEF Set
  <2>4. (CHOOSE l \in Set : \A j \in Set : j <= l) = i
    <3> DEFINE m == CHOOSE l \in Set : \A j \in Set : j <= l
    <3>1. i \in Set /\ \A j \in Set : j <= i
      BY <1>1, <2>2
    <3>2. m \in Set
      BY <3>1
    <3> QED BY <2>2, <3>2
  <2> QED BY <1>2, <2>1, <2>3, <2>4
<1> QED BY <1>2, <1>3, <1>4

-----------------------------------------------------------------------------
(* What is escaped arrives. *)

\* The separators, what is sent for a character, and what is read for one
Marks == {" ", "&", "=", "?"}
CharSent(c) == IF c \in DOMAIN Escape THEN Escape[c] ELSE c
CharRead(c) == IF \E d \in DOMAIN Escape : Escape[d] = c
               THEN CHOOSE d \in DOMAIN Escape : Escape[d] = c ELSE c
IsChar(c) == c \in DOMAIN Escape \/ \A d \in DOMAIN Escape : Escape[d] # c

\* A character is sent as none of the separators, and is read as it was.
LEMMA CharArrives ==
  /\ \A c : IsChar(c) => CharSent(c) \notin Marks /\ CharRead(CharSent(c)) = c
  /\ \A c \in Marks \cup {"/"} : CharRead(c) = c
<1>1. ASSUME NEW c, IsChar(c) PROVE CharSent(c) \notin Marks /\ CharRead(CharSent(c)) = c
  <2>1. CASE c \in DOMAIN Escape
    <3> DEFINE e == Escape[c]
    <3>1. CharSent(c) = e /\ e \notin Marks /\ \A d \in DOMAIN Escape : Escape[d] = e => d = c
      BY <2>1, EscapeAssumption DEF CharSent, Marks
    <3>2. CharRead(e) = CHOOSE d \in DOMAIN Escape : Escape[d] = e
      BY <2>1 DEF CharRead
    <3>3. (CHOOSE d \in DOMAIN Escape : Escape[d] = e) = c
      BY <2>1, <3>1
    <3> QED BY <3>1, <3>2, <3>3
  <2>2. CASE c \notin DOMAIN Escape
    <3>1. c \notin Marks
      BY <2>2, EscapeAssumption DEF Marks
    <3> QED BY <1>1, <2>2, <3>1 DEF CharSent, CharRead, IsChar
  <2> QED BY <2>1, <2>2
<1>2. ASSUME NEW c \in Marks \cup {"/"} PROVE CharRead(c) = c
  <2>1. \A d \in DOMAIN Escape : Escape[d] # c
    BY EscapeAssumption DEF Marks
  <2> QED BY <2>1 DEF CharRead
<1> QED BY <1>1, <1>2

\* A text of characters that arrive
Clean(t) == IsSeq(t) /\ \A i \in DOMAIN t : IsChar(t[i])

\* Texts are of such characters.
LEMMA TextsAreClean == \A t \in Texts : Clean(t)
BY EscapeAssumption DEF Clean, IsSeq, Elements, IsText, Range, IsChar

\* What texts are made of on the wire
Letters == {CharSent(c) : c \in {d \in UNION {Range(t) : t \in Texts} : IsChar(d)}}

\* A text that is escaped is what it was when it is decoded.
LEMMA EscapedArrives ==
  ASSUME NEW t \in Texts
  PROVE  Escaped(t) \in Seq(Letters) /\ Decoded(Escaped(t)) = t
<1>1. IsSeq(t) /\ DOMAIN t = 1..Len(t) /\ Len(t) \in Nat /\ \A i \in DOMAIN t : IsChar(t[i])
  BY TextsAreClean DEF Clean, IsSeq
<1>2. Escaped(t) = [i \in 1..Len(t) |-> CharSent(t[i])]
  BY <1>1 DEF Escaped, CharSent
<1>3. \A i \in 1..Len(t) : CharSent(t[i]) \in Letters
  BY <1>1 DEF Letters, Range
<1>4. Escaped(t) \in Seq(Letters) /\ Len(Escaped(t)) = Len(t)
  BY <1>1, <1>2, <1>3
<1>5. Decoded(Escaped(t)) = [i \in 1..Len(t) |-> CharRead(CharSent(t[i]))]
  BY <1>2 DEF Decoded, CharRead
<1>6. Decoded(Escaped(t)) = [i \in 1..Len(t) |-> t[i]]
  BY <1>1, <1>5, CharArrives
<1>7. [i \in 1..Len(t) |-> t[i]] = t
  BY <1>1 DEF IsSeq
<1> QED BY <1>4, <1>6, <1>7

\* None of them stands between things.
LEMMA NoMarks == Letters \cap Marks = {}
BY CharArrives DEF Letters

-----------------------------------------------------------------------------
(* Forms and cookies. *)

\* A key without an equals sign, and a value
KeyAndValue(key, val, T, U) == key \in Seq(T) /\ "=" \notin T /\ val \in Seq(U)

\* A pair is cut between its key and its value, and begins as its key does.
LEMMA PairCut ==
  ASSUME NEW key, NEW val, NEW T, NEW U, KeyAndValue(key, val, T, U)
  PROVE  /\ Pair(key, val) \in Seq(T \cup U \cup {"="})
         /\ "=" \in Range(Pair(key, val))
         /\ Before(Pair(key, val), "=") = key /\ Behind(Pair(key, val), "=") = val
         /\ Pair(key, val) # << >>
         /\ key = << >> => Pair(key, val)[1] = "="
         /\ key # << >> => Pair(key, val)[1] = key[1]
<1> USE DEF KeyAndValue
<1> DEFINE W == T \cup U \cup {"="}
           d == <<"=">> \o val
           p == Pair(key, val)
<1>1. key \in Seq(W) /\ val \in Seq(W) /\ <<"=">> \in Seq(W)
  OBVIOUS
<1>2. IsSeq(key) /\ IsSeq(val)
  BY SeqIsSeq
<1> HIDE DEF W
<1>3. p = key \o d /\ p \in Seq(W)
  <2>1. \A x, y, z \in Seq(W) : (x \o y) \o z = x \o (y \o z)
    BY ConcatAssociative
  <2> QED BY <1>1, <2>1 DEF Pair
<1>4. "=" \in Range(p) /\ Before(p, "=") = key /\ Behind(p, "=") = val
  <2> HIDE DEF p
  <2> QED BY <1>2, <1>3, CutWhereJoined
<1>5. IsSeq(d) /\ Len(d) \in Nat /\ Len(d) >= 1 /\ d[1] = "="
  <2>1. d \in Seq(W)
    BY <1>1
  <2>2. Len(val) \in Nat /\ Len(d) = 1 + Len(val) /\ d[1] = "="
    BY OneBefore
  <2> HIDE DEF d
  <2> QED BY <2>1, <2>2, SeqIsSeq
<1> HIDE DEF d, p
<1>6. /\ Len(key) \in Nat /\ Len(p) = Len(key) + Len(d)
      /\ \A i \in 1..Len(key) : p[i] = key[i]
      /\ \A i \in 1..Len(d) : p[Len(key) + i] = d[i]
  <2>1. /\ Len(key) \in Nat /\ Len(key \o d) = Len(key) + Len(d)
        /\ \A i \in 1..Len(key) : (key \o d)[i] = key[i]
        /\ \A i \in 1..Len(d) : (key \o d)[Len(key) + i] = d[i]
    BY <1>2, <1>5, ConcatIs
  <2> QED BY <1>3, <2>1
<1>7. p # << >>
  <2>1. Len(p) # 0
    BY <1>5, <1>6
  <2> QED BY <2>1
<1>8. ASSUME key = << >> PROVE p[1] = "="
  <2>1. Len(key) = 0 /\ 1 \in 1..Len(d) /\ 0 + 1 = 1
    BY <1>5, <1>8
  <2> QED BY <1>5, <1>6, <2>1
<1>9. ASSUME key # << >> PROVE p[1] = key[1]
  <2>1. 1 \in 1..Len(key)
    BY <1>6, <1>9, EmptySeq
  <2> QED BY <1>6, <2>1
<1> QED BY <1>3, <1>4, <1>7, <1>8, <1>9 DEF p, W

\* A parameter's pair is read as its key and its value.
LEMMA PairRead ==
  ASSUME NEW k \in Texts, NEW v \in Texts, NEW item, item = Pair(Escaped(k), Escaped(v))
  PROVE  /\ item \in Seq(Letters \cup {"="}) /\ item # << >> /\ item[1] \notin {"?", " "}
         /\ ReadPair(item) = [set |-> TRUE, key |-> k, value |-> v]
<1> DEFINE a == Escaped(k)
           b == Escaped(v)
<1>1. a \in Seq(Letters) /\ b \in Seq(Letters) /\ Decoded(a) = k /\ Decoded(b) = v
  BY EscapedArrives
<1>2. \A c \in Marks : c \notin Letters
  BY NoMarks
<1>3. "=" \notin Letters /\ " " \notin Letters /\ "?" \notin Letters
  BY <1>2 DEF Marks
<1>4. item = Pair(a, b)
  OBVIOUS
<1> HIDE DEF a, b
<1>5. /\ item \in Seq(Letters \cup Letters \cup {"="}) /\ "=" \in Range(item) /\ item # << >>
      /\ Before(item, "=") = a /\ Behind(item, "=") = b
      /\ a = << >> => item[1] = "="
      /\ a # << >> => item[1] = a[1]
  <2>1. KeyAndValue(a, b, Letters, Letters)
    BY <1>1, <1>3 DEF KeyAndValue
  <2>2. /\ Pair(a, b) \in Seq(Letters \cup Letters \cup {"="})
        /\ "=" \in Range(Pair(a, b)) /\ Pair(a, b) # << >>
        /\ Before(Pair(a, b), "=") = a /\ Behind(Pair(a, b), "=") = b
        /\ a = << >> => Pair(a, b)[1] = "="
        /\ a # << >> => Pair(a, b)[1] = a[1]
    BY <2>1, PairCut, Zenon
  <2> QED BY <1>4, <2>2
<1>6. a # << >> => a[1] \in Letters
  BY <1>1, EmptySeq
<1>7. item[1] \notin {"?", " "}
  BY <1>3, <1>5, <1>6
<1>8. PastLeading(a, {" "}) = a
  BY <1>1, <1>3, <1>6, NothingLeads
<1>9. ReadPair(item) = [set |-> TRUE, key |-> k, value |-> v]
  BY <1>1, <1>5, <1>8 DEF ReadPair
<1>10. Letters \cup Letters \cup {"="} = Letters \cup {"="}
  OBVIOUS
<1> QED BY <1>5, <1>7, <1>9, <1>10

\* Whatever characters its keys and values have, a form arrives.
LEMMA FormRead ==
  ASSUME NEW map, IsMap(map, Texts, Texts)
  PROVE  /\ IsSeq(JoinWith(FormPairs(map), "&"))
         /\ map = NoParams => JoinWith(FormPairs(map), "&") = << >>
         /\ ParseForm(JoinWith(FormPairs(map), "&")) = map
<1> DEFINE keys == SetToSeq(DOMAIN map)
           n == Cardinality(DOMAIN map)
           T == Letters \cup {"="}
           parts == FormPairs(map)
           text == JoinWith(parts, "&")
           none == << >>
           items == SplitAt(PastLeading(text, {"?", " "}), "&")
           used == IF Last(items) = << >> THEN Front(items) ELSE items
           reads == [i \in DOMAIN used |-> ReadPair(used[i])]
<1>1. n \in Nat /\ keys \in [1..n -> DOMAIN map] /\ IsFiniteSet(DOMAIN map)
  BY KeysInOrder DEF IsMap
<1>2. Len(keys) = n /\ DOMAIN keys = 1..n
  BY <1>1
<1>3. \A i \in 1..n : keys[i] \in Texts /\ map[keys[i]] \in Texts /\ keys[i] \in DOMAIN map
  BY <1>1 DEF IsMap
<1> HIDE DEF keys, n
<1>4. parts = [i \in 1..n |-> Pair(Escaped(keys[i]), Escaped(map[keys[i]]))]
  BY <1>2 DEF FormPairs, keys
<1> HIDE DEF parts
<1>5. \A i \in 1..n : /\ parts[i] \in Seq(T) /\ parts[i] # << >> /\ parts[i][1] \notin {"?", " "}
                      /\ ReadPair(parts[i]) = [set |-> TRUE, key |-> keys[i],
                                               value |-> map[keys[i]]]
  <2> SUFFICES ASSUME NEW i \in 1..n
               PROVE  /\ parts[i] \in Seq(T) /\ parts[i] # << >> /\ parts[i][1] \notin {"?", " "}
                      /\ ReadPair(parts[i]) = [set |-> TRUE, key |-> keys[i],
                                               value |-> map[keys[i]]]
    OBVIOUS
  <2>1. parts[i] = Pair(Escaped(keys[i]), Escaped(map[keys[i]]))
    BY <1>4
  <2> QED BY <1>3, <2>1, PairRead
<1>6. parts \in Seq(Seq(T)) /\ Len(parts) = n
  <2> HIDE DEF T
  <2>1. parts \in [1..n -> Seq(T)]
    <3>1. \A i \in 1..n : parts[i] \in Seq(T)
      BY <1>5
    <3> QED BY <1>4, <3>1
  <2> QED BY <1>1, <2>1
<1>7. "&" \notin T
  BY NoMarks DEF Marks
<1> HIDE DEF T
<1>8. IsSeq(text) /\ (n = 0 => text = << >>) /\ used = parts
  <2>1. CASE n = 0
    <3>1. parts = << >>
      BY <1>6, <2>1, EmptySeq
    <3>2. text = none
      BY <3>1, NothingJoined
    <3>3. PastLeading(none, {"?", " "}) = none
      BY NothingLeads, none \in Seq({})
    <3>4. items = << << >> >>
      BY <3>2, <3>3, NothingJoined
    <3>5. Last(items) = << >> /\ Front(items) = << >>
      <4> DEFINE one == << << >> >>
      <4>1. Len(one) = 1 /\ one[1] = << >> /\ SubSeq(one, 1, 0) = << >>
        OBVIOUS
      <4>2. items = one
        BY <3>4
      <4> HIDE DEF one, items
      <4> QED BY <4>1, <4>2, 1 - 1 = 0 DEF Last, Front
    <3>6. IsSeq(none)
      BY SeqIsSeq, none \in Seq({})
    <3> QED BY <3>1, <3>2, <3>5, <3>6
  <2>2. CASE n # 0
    <3>1. parts # << >> /\ 1 \in 1..n /\ n \in 1..n
      BY <1>1, <1>6, <2>2, EmptySeq
    <3>2. /\ text \in Seq(T \cup {"&"}) /\ Len(parts[1]) <= Len(text)
          /\ \A i \in 1..Len(parts[1]) : text[i] = parts[1][i]
          /\ SplitAt(text, "&") = parts
      <4>1. Separable(parts, "&", T)
        BY <1>6, <1>7, <3>1 DEF Separable
      <4> QED BY <4>1, SplitJoined, Zenon
    <3> HIDE DEF text
    <3>3. text[1] = parts[1][1] /\ parts[1][1] \notin {"?", " "}
      <4>1. 1 \in 1..Len(parts[1])
        <5>1. parts[1] \in Seq(T) /\ parts[1] # << >>
          BY <1>5, <3>1
        <5>2. Len(parts[1]) \in Nat /\ Len(parts[1]) # 0
          BY <5>1, EmptySeq
        <5> QED BY <5>2
      <4> QED BY <1>5, <3>1, <3>2, <4>1
    <3>4. PastLeading(text, {"?", " "}) = text
      BY <3>2, <3>3, NothingLeads
    <3>5. items = parts
      BY <3>2, <3>4
    <3>6. Last(parts) # << >>
      BY <1>5, <1>6, <3>1 DEF Last
    <3>7. IsSeq(text)
      BY <3>2, SeqIsSeq
    <3> QED BY <2>2, <3>5, <3>6, <3>7
  <2> QED BY <2>1, <2>2
<1> HIDE DEF used
<1>9. ReadsOf(reads, map, keys)
  <2>1. DOMAIN used = 1..n /\ \A i \in 1..n : used[i] = parts[i]
    BY <1>6, <1>8
  <2>2. \A i \in 1..n : reads[i] = [set |-> TRUE, key |-> keys[i], value |-> map[keys[i]]]
    BY <1>5, <2>1
  <2>3. DOMAIN reads = 1..n
    BY <2>1
  <2> HIDE DEF reads
  <2> QED BY <1>2, <2>2, <2>3 DEF ReadsOf
<1>10. [k \in {reads[i].key : i \in DOMAIN reads} |-> ValueIn(reads, k)] = map
  <2> HIDE DEF reads
  <2> QED BY <1>1, <1>9, MapReadBack DEF IsMap, keys
<1>11. ParseForm(text) = map
  BY <1>10 DEF ParseForm, used
<1>12. map = NoParams => n = 0
  <2>1. ASSUME map = NoParams PROVE n = 0
    <3>1. DOMAIN map = {}
      BY <2>1 DEF NoParams
    <3> QED BY <3>1, FS_EmptySet DEF n
  <2> QED BY <2>1
<1> QED BY <1>8, <1>11, <1>12 DEF text, parts

\* s is a followed by b.
Concats(s, a, b) ==
  /\ IsSeq(a) /\ IsSeq(b) /\ IsSeq(s)
  /\ Len(a) \in Nat /\ Len(b) \in Nat /\ Len(s) = Len(a) + Len(b)
  /\ \A i \in 1..Len(a) : s[i] = a[i]
  /\ \A i \in 1..Len(b) : s[Len(a) + i] = b[i]

LEMMA ConcatConcats ==
  ASSUME NEW a, NEW b, IsSeq(a), IsSeq(b), NEW s, s = a \o b
  PROVE  Concats(s, a, b)
BY ConcatIs DEF Concats

LEMMA ConcatThrice ==
  ASSUME NEW a, NEW b, NEW c, NEW ab, Concats(ab, a, b), NEW bc, Concats(bc, b, c),
         NEW s, Concats(s, a, bc)
  PROVE  Concats(s, ab, c)
<1>1. /\ IsSeq(a) /\ IsSeq(b) /\ IsSeq(c) /\ IsSeq(ab) /\ IsSeq(bc) /\ IsSeq(s)
      /\ Len(a) \in Nat /\ Len(b) \in Nat /\ Len(c) \in Nat
  BY DEF Concats
<1>2. /\ Len(ab) = Len(a) + Len(b)
      /\ \A i \in 1..Len(a) : ab[i] = a[i]
      /\ \A i \in 1..Len(b) : ab[Len(a) + i] = b[i]
  BY DEF Concats
<1>3. /\ Len(bc) = Len(b) + Len(c)
      /\ \A i \in 1..Len(b) : bc[i] = b[i]
      /\ \A i \in 1..Len(c) : bc[Len(b) + i] = c[i]
  BY DEF Concats
<1>4. /\ Len(s) = Len(a) + Len(bc)
      /\ \A i \in 1..Len(a) : s[i] = a[i]
      /\ \A i \in 1..Len(bc) : s[Len(a) + i] = bc[i]
  BY DEF Concats
<1>5. Len(ab) \in Nat /\ Len(s) = Len(ab) + Len(c)
  BY <1>1, <1>2, <1>3, <1>4
<1>6. ASSUME NEW i \in 1..Len(ab) PROVE s[i] = ab[i]
  <2>1. CASE i \in 1..Len(a)
    BY <1>2, <1>4, <2>1
  <2>2. CASE i \notin 1..Len(a)
    <3>1. /\ i - Len(a) \in 1..Len(b) /\ i - Len(a) \in 1..Len(bc)
          /\ Len(a) + (i - Len(a)) = i
      BY <1>1, <1>2, <1>3, <2>2
    <3>2. /\ s[Len(a) + (i - Len(a))] = bc[i - Len(a)]
          /\ ab[Len(a) + (i - Len(a))] = bc[i - Len(a)]
      BY <1>2, <1>3, <1>4, <3>1
    <3> QED BY <3>1, <3>2
  <2> QED BY <2>1, <2>2
<1>7. ASSUME NEW i \in 1..Len(c) PROVE s[Len(ab) + i] = c[i]
  <2>1. Len(b) + i \in 1..Len(bc) /\ Len(a) + (Len(b) + i) = Len(ab) + i
    BY <1>1, <1>2, <1>3
  <2> QED BY <1>3, <1>4, <2>1
<1> QED BY <1>1, <1>5, <1>6, <1>7 DEF Concats

\* p is the first n of s.
Begins(p, s, n) == IsSeq(p) /\ Len(p) = n /\ \A i \in 1..n : p[i] = s[i]

LEMMA SubSeqBegins ==
  ASSUME NEW s, IsSeq(s), NEW n \in Nat, n <= Len(s), NEW p, p = SubSeq(s, 1, n)
  PROVE  Begins(p, s, n)
<1>1. Len(s) \in Nat /\ \A i \in 1..n : s[i] \in Elements(s)
  BY DEF IsSeq
<1> DEFINE T == Elements(s)
           q == SubSeq(s, 1, n)
<1> HIDE DEF T
<1>2. /\ q \in Seq(T)
      /\ Len(q) = IF 1 <= n THEN n - 1 + 1 ELSE 0
      /\ \A i \in 1..(n - 1 + 1) : q[i] = s[1 + i - 1]
  BY <1>1, SubSeqProperties DEF T
<1> HIDE DEF q
<1>3. IsSeq(q) /\ Len(q) = n /\ \A i \in 1..n : q[i] = s[i]
  BY <1>2, SeqIsSeq
<1> QED BY <1>3 DEF q, Begins

\* If the beginning of s ends in b's beginning, it is a with that behind it.
LEMMA BeginningOfConcat ==
  ASSUME NEW a, NEW b, NEW s, Concats(s, a, b), NEW n \in Nat, n <= Len(b),
         NEW left, Begins(left, s, Len(a) + n),
         NEW q, Begins(q, b, n), NEW cut, Concats(cut, a, q)
  PROVE  left = cut
<1>1. /\ Len(a) \in Nat /\ Len(b) \in Nat /\ Len(s) = Len(a) + Len(b)
      /\ \A i \in 1..Len(a) : s[i] = a[i]
      /\ \A i \in 1..Len(b) : s[Len(a) + i] = b[i]
  BY DEF Concats
<1>2. IsSeq(q) /\ Len(q) = n /\ \A i \in 1..n : q[i] = b[i]
  BY DEF Begins
<1>3. IsSeq(left) /\ Len(left) = Len(a) + n /\ \A i \in 1..(Len(a) + n) : left[i] = s[i]
  BY DEF Begins
<1>4. /\ IsSeq(cut) /\ Len(cut) = Len(a) + n /\ \A i \in 1..Len(a) : cut[i] = a[i]
      /\ \A i \in 1..n : cut[Len(a) + i] = b[i]
  BY <1>2 DEF Concats
<1>5. ASSUME NEW i \in 1..(Len(a) + n) PROVE left[i] = cut[i]
  <2>1. CASE i \in 1..Len(a)
    BY <1>1, <1>3, <1>4, <2>1
  <2>2. CASE i \notin 1..Len(a)
    <3>1. i - Len(a) \in 1..n /\ i - Len(a) \in 1..Len(b) /\ Len(a) + (i - Len(a)) = i
      BY <1>1, <2>2
    <3>2. cut[Len(a) + (i - Len(a))] = s[Len(a) + (i - Len(a))]
      BY <1>1, <1>4, <3>1
    <3> QED BY <1>3, <3>1, <3>2
  <2> QED BY <2>1, <2>2
<1> QED BY <1>3, <1>4, <1>5, SameSeq

\* Where what is left of a text ends, if the characters at its end are taken off.
EndsAt(text, m, Chars) ==
  /\ m \in 0..Len(text)
  /\ m = 0 \/ text[m] \notin Chars
  /\ \A i \in (m + 1)..Len(text) : text[i] \in Chars

LEMMA TrailingIs ==
  ASSUME NEW text, IsSeq(text), NEW Chars
  PROVE  \E m : EndsAt(text, m, Chars) /\ PastTrailing(text, Chars) = SubSeq(text, 1, m)
<1> DEFINE K == {i \in DOMAIN text : text[i] \notin Chars}
<1>1. DOMAIN text = 1..Len(text) /\ Len(text) \in Nat
  BY DEF IsSeq
<1>2. CASE K = {}
  <2>1. EndsAt(text, 0, Chars)
    BY <1>1, <1>2 DEF EndsAt
  <2>2. PastTrailing(text, Chars) = SubSeq(text, 1, 0)
    <3>1. SubSeq(text, 1, 0) = << >>
      <4>1. \A i \in 1..0 : text[i] \in {}
        OBVIOUS
      <4>2. SubSeq(text, 1, 0) \in Seq({}) /\ Len(SubSeq(text, 1, 0)) = 0
        BY <4>1, SubSeqProperties
      <4> QED BY <4>2, EmptySeq
    <3> QED BY <1>2, <3>1 DEF PastTrailing
  <2> QED BY <2>1, <2>2
<1>3. CASE K # {}
  <2> DEFINE m == CHOOSE i \in K : \A j \in K : j <= i
  <2>1. K \subseteq 0..Len(text)
    BY <1>1
  <2>2. m \in K /\ \A j \in K : j <= m
    <3> HIDE DEF K
    <3>1. \E i \in K : \A j \in K : j <= i
      BY <1>1, <1>3, <2>1, GreatestNumber
    <3> QED BY <3>1
  <2>3. PastTrailing(text, Chars) = SubSeq(text, 1, m)
    BY <1>3 DEF PastTrailing
  <2> HIDE DEF m
  <2>4. \A i \in (m + 1)..Len(text) : i \in DOMAIN text /\ i \notin K
    BY <1>1, <2>2
  <2> QED BY <1>1, <2>2, <2>3, <2>4 DEF EndsAt
<1> QED BY <1>2, <1>3

\* Where a text ends in which b follows a, if a or b has a character that stays
LEMMA EndOfConcat ==
  ASSUME NEW a, NEW b, NEW s, Concats(s, a, b), NEW Chars,
         \/ Len(a) > 0 /\ a[Len(a)] \notin Chars
         \/ \E i \in 1..Len(b) : b[i] \notin Chars,
         NEW m, EndsAt(s, m, Chars), NEW n, EndsAt(b, n, Chars)
  PROVE  m = Len(a) + n
<1>1. /\ Len(a) \in Nat /\ Len(b) \in Nat /\ Len(s) = Len(a) + Len(b)
      /\ \A i \in 1..Len(a) : s[i] = a[i]
      /\ \A i \in 1..Len(b) : s[Len(a) + i] = b[i]
  BY DEF Concats
<1>2. /\ m \in 0..Len(s) /\ (m = 0 \/ s[m] \notin Chars)
      /\ \A i \in (m + 1)..Len(s) : s[i] \in Chars
  BY DEF EndsAt
<1>3. /\ n \in 0..Len(b) /\ (n = 0 \/ b[n] \notin Chars)
      /\ \A i \in (n + 1)..Len(b) : b[i] \in Chars
  BY DEF EndsAt
<1>4. m \in Nat /\ n \in Nat /\ m <= Len(s) /\ n <= Len(b)
  BY <1>1, <1>2, <1>3
<1>5. \A i \in (n + 1)..Len(b) : s[Len(a) + i] \in Chars
  BY <1>1, <1>3, <1>4
<1>6. m <= Len(a) + n
  <2> SUFFICES ASSUME m > Len(a) + n PROVE FALSE
    BY <1>1, <1>4
  <2>1. m - Len(a) \in (n + 1)..Len(b) /\ Len(a) + (m - Len(a)) = m
    BY <1>1, <1>4
  <2>2. s[m] \in Chars
    BY <1>5, <2>1
  <2> QED BY <1>1, <1>2, <1>4, <2>2
<1>7. CASE n > 0
  <2>1. n \in 1..Len(b) /\ Len(a) + n \in 0..Len(s)
    BY <1>1, <1>3, <1>4, <1>7
  <2>2. s[Len(a) + n] \notin Chars
    BY <1>1, <1>3, <1>7, <2>1
  <2>3. ~ (Len(a) + n \in (m + 1)..Len(s))
    BY <1>2, <2>2
  <2> QED BY <1>1, <1>4, <1>6, <2>1, <2>3
<1>8. CASE n = 0
  <2>1. ~ \E i \in 1..Len(b) : b[i] \notin Chars
    BY <1>3, <1>8
  <2>2. Len(a) > 0 /\ s[Len(a)] \notin Chars
    BY <1>1, <2>1
  <2>3. ~ (Len(a) \in (m + 1)..Len(s))
    BY <1>2, <2>2
  <2> QED BY <1>1, <1>4, <1>6, <1>8, <2>2, <2>3
<1> QED BY <1>4, <1>7, <1>8

\* A text that ends in b stays in front of it, if b or what is in front of b has a
\* character that stays.
LEMMA TrailingOfEnd ==
  ASSUME NEW a, NEW b, NEW s, Concats(s, a, b), NEW Chars,
         \/ Len(a) > 0 /\ a[Len(a)] \notin Chars
         \/ \E i \in 1..Len(b) : b[i] \notin Chars,
         NEW q, q = PastTrailing(b, Chars), NEW cut, Concats(cut, a, q)
  PROVE  PastTrailing(s, Chars) = cut
<1>1. IsSeq(s) /\ IsSeq(b) /\ Len(b) \in Nat
  BY DEF Concats
<1>2. PICK m : EndsAt(s, m, Chars) /\ PastTrailing(s, Chars) = SubSeq(s, 1, m)
  BY <1>1, TrailingIs
<1>3. PICK n : EndsAt(b, n, Chars) /\ PastTrailing(b, Chars) = SubSeq(b, 1, n)
  BY <1>1, TrailingIs
<1>4. m = Len(a) + n
  BY <1>2, <1>3, EndOfConcat
<1>5. /\ n \in Nat /\ n <= Len(b) /\ Len(a) + n \in Nat /\ Len(a) + n <= Len(s)
  <2>1. n \in 0..Len(b)
    BY <1>3 DEF EndsAt
  <2>2. Len(a) \in Nat /\ Len(s) = Len(a) + Len(b)
    BY DEF Concats
  <2> QED BY <1>1, <2>1, <2>2
<1>6. Begins(q, b, n)
  BY <1>1, <1>3, <1>5, SubSeqBegins
<1>7. PICK e \in Nat : e = Len(a) + n
  BY <1>5
<1>8. PICK left : left = SubSeq(s, 1, e)
  OBVIOUS
<1>9. Begins(left, s, e)
  BY <1>1, <1>5, <1>7, <1>8, SubSeqBegins
<1>10. left = cut
  BY <1>5, <1>6, <1>7, <1>9, BeginningOfConcat
<1> QED BY <1>2, <1>4, <1>7, <1>8, <1>10

\* What is behind a character that stays loses its end alone.
LEMMA EndBehindMark ==
  ASSUME NEW Chars, NEW k, NEW e, NEW front, Concats(front, k, e), Len(e) = 1, e[1] \notin Chars,
         NEW v, NEW item, Concats(item, front, v),
         NEW w, w = PastTrailing(v, Chars), NEW cut, Concats(cut, front, w)
  PROVE  PastTrailing(item, Chars) = cut /\ \E i \in 1..Len(item) : item[i] \notin Chars
<1>1. /\ Len(k) \in Nat /\ Len(front) = Len(k) + 1
      /\ \A i \in 1..Len(e) : front[Len(k) + i] = e[i]
  BY DEF Concats
<1>2. Len(front) \in Nat /\ Len(front) > 0 /\ front[Len(front)] \notin Chars
  <2>1. 1 \in 1..Len(e)
    OBVIOUS
  <2>2. front[Len(k) + 1] = e[1]
    BY <1>1, <2>1
  <2> QED BY <1>1, <2>2
<1>3. PastTrailing(item, Chars) = cut
  BY <1>2, TrailingOfEnd
<1>4. /\ Len(v) \in Nat /\ Len(item) = Len(front) + Len(v)
      /\ \A i \in 1..Len(front) : item[i] = front[i]
  BY DEF Concats
<1>5. Len(front) \in 1..Len(item) /\ Len(front) \in 1..Len(front)
  BY <1>2, <1>4
<1>6. item[Len(front)] \notin Chars
  BY <1>2, <1>4, <1>5
<1> QED BY <1>3, <1>5, <1>6

LEMMA EqualsSign ==
  IsSeq(<<"=">>) /\ Len(<<"=">>) = 1 /\ <<"=">>[1] = "=" /\ <<"=">>[1] \notin {" "}
<1>1. <<"=">> \in Seq({"="}) /\ Len(<<"=">>) = 1 /\ <<"=">>[1] = "="
  OBVIOUS
<1>2. "=" \notin {" "}
  OBVIOUS
<1> QED BY <1>1, <1>2, SeqIsSeq

\* A pair loses no more than its value does.
LEMMA PairTrailing ==
  ASSUME NEW k, NEW v, IsSeq(k), IsSeq(v), NEW w, IsSeq(w), NEW Chars,
         <<"=">>[1] \notin Chars, w = PastTrailing(v, Chars)
  PROVE  \A item, cut :
           item = Pair(k, v) /\ cut = Pair(k, w) =>
             /\ PastTrailing(item, Chars) = cut
             /\ \E i \in 1..Len(item) : item[i] \notin Chars
<1>1. PICK e : e = <<"=">>
  OBVIOUS
<1>2. IsSeq(e) /\ Len(e) = 1 /\ e[1] \notin Chars
  BY <1>1, EqualsSign, Zenon
<1>3. PICK front : front = k \o e
  OBVIOUS
<1>4. Concats(front, k, e)
  BY <1>2, <1>3, ConcatConcats
<1>5. IsSeq(front)
  BY <1>4 DEF Concats
<1>6. ASSUME NEW item, item = front \o v, NEW cut, cut = front \o w
      PROVE  Concats(item, front, v) /\ Concats(cut, front, w)
  BY <1>5, <1>6, ConcatConcats
<1>7. ASSUME NEW item, NEW cut, Concats(item, front, v), Concats(cut, front, w)
      PROVE  /\ PastTrailing(item, Chars) = cut
             /\ \E i \in 1..Len(item) : item[i] \notin Chars
  BY <1>2, <1>4, <1>7, EndBehindMark
<1>8. ASSUME NEW item, NEW cut, item = Pair(k, v), cut = Pair(k, w)
      PROVE  /\ PastTrailing(item, Chars) = cut
             /\ \E i \in 1..Len(item) : item[i] \notin Chars
  <2>1. item = front \o v /\ cut = front \o w
    BY <1>1, <1>3, <1>8, Zenon DEF Pair
  <2> QED BY <1>6, <1>7, <2>1, Zenon
<1> QED BY <1>8, Zenon

\* Of joined texts, it is the last that loses its end: behind what is in front of it.
LEMMA LastOfJoined ==
  ASSUME NEW a, NEW q, NEW b, NEW Chars, \E i \in 1..Len(b) : b[i] \notin Chars,
         NEW d, d = PastTrailing(b, Chars), NEW qb, Concats(qb, q, b), NEW qd, Concats(qd, q, d),
         NEW text, Concats(text, a, qb), NEW rest, Concats(rest, a, qd)
  PROVE  PastTrailing(text, Chars) = rest
<1>1. PICK aq : Concats(aq, a, q)
  <2>1. IsSeq(a) /\ IsSeq(q)
    BY DEF Concats
  <2> QED BY <2>1, ConcatConcats
<1>2. Concats(text, aq, b) /\ Concats(rest, aq, d)
  BY <1>1, ConcatThrice
<1> QED BY <1>2, TrailingOfEnd

\* cut is made of the same texts, the last of which has lost its end.
LastIsCut(parts, cut, sep, T, Chars) ==
  /\ parts \in Seq(Seq(T)) /\ cut \in Seq(Seq(T)) /\ sep \in T
  /\ parts # << >> /\ Len(cut) = Len(parts)
  /\ \E i \in 1..Len(Last(parts)) : Last(parts)[i] \notin Chars
  /\ \A i \in 1..(Len(parts) - 1) : cut[i] = parts[i]
  /\ cut[Len(parts)] = PastTrailing(Last(parts), Chars)

\* Of joined texts, it is the last that loses its end.
LEMMA TrailingOfJoined ==
  ASSUME NEW T, NEW parts, NEW cut, NEW sep, NEW Chars, LastIsCut(parts, cut, sep, T, Chars)
  PROVE  PastTrailing(JoinWith(parts, sep), Chars) = JoinWith(cut, sep)
<1> USE DEF LastIsCut
<1> DEFINE n == Len(parts)
           P == [i \in DOMAIN parts |-> IF i = 1 THEN parts[i] ELSE <<sep>> \o parts[i]]
           C == [i \in DOMAIN cut |-> IF i = 1 THEN cut[i] ELSE <<sep>> \o cut[i]]
           q == IF n = 1 THEN << >> ELSE <<sep>>
           b == Last(parts)
           d == PastTrailing(b, Chars)
<1>1. /\ n \in Nat \ {0} /\ DOMAIN parts = 1..n /\ DOMAIN cut = 1..n /\ b = parts[n]
      /\ n \in 1..n /\ n - 1 \in 0..n /\ n - 1 \in Nat
      /\ \A i \in 1..n : parts[i] \in Seq(T) /\ cut[i] \in Seq(T)
  BY EmptySeq DEF Last
<1>2. P \in Seq(Seq(T)) /\ C \in Seq(Seq(T)) /\ Len(P) = n /\ Len(C) = n
  <2>1. <<sep>> \in Seq(T)
    OBVIOUS
  <2>2. P \in [1..n -> Seq(T)] /\ C \in [1..n -> Seq(T)]
    BY <1>1, <2>1
  <2> QED BY <1>1, <2>2
<1>3. /\ JoinWith(parts, sep) = Joined(P)[n] /\ JoinWith(cut, sep) = Joined(C)[n]
      /\ Joins(Joined(P), P, T) /\ Joins(Joined(C), C, T)
  BY <1>2, FlattenIsJoined, JoinedJoins DEF JoinWith
<1>4. \A i \in 1..(n - 1) : P[i] = C[i]
  <2> SUFFICES ASSUME NEW i \in 1..(n - 1) PROVE P[i] = C[i]
    OBVIOUS
  <2>1. i \in 1..n /\ i \in DOMAIN parts /\ i \in DOMAIN cut /\ cut[i] = parts[i]
    BY <1>1
  <2> QED BY <2>1
<1>5. Concats(P[n], q, b) /\ Concats(C[n], q, d)
  <2>1. b \in Seq(T) /\ d \in Seq(T) /\ << >> \in Seq(T) /\ <<sep>> \in Seq(T) /\ cut[n] = d
    BY <1>1
  <2>2. IsSeq(b) /\ IsSeq(d) /\ IsSeq(q)
    BY <2>1, SeqIsSeq
  <2>3. << >> \o b = b /\ << >> \o d = d
    BY <2>1, ConcatEmptySeq
  <2>4. P[n] = q \o b /\ C[n] = q \o d
    BY <1>1, <2>1, <2>3
  <2> HIDE DEF P, C, n, b, d, q
  <2> QED BY <2>2, <2>4, ConcatConcats
<1> HIDE DEF P, C, n, q
<1> DEFINE J == Joined(P)
           K == Joined(C)
<1>6. /\ J[0] = << >> /\ K[0] = << >> /\ J[n - 1] \in Seq(T)
      /\ \A i \in 1..n : J[i] = J[i - 1] \o P[i] /\ K[i] = K[i - 1] \o C[i]
  BY <1>1, <1>2, <1>3 DEF Joins
<1> HIDE DEF J, K
<1>7. J[n - 1] = K[n - 1]
  <2>1. GoOnAlike(J, K, n - 1)
    <3>1. ASSUME NEW i \in 1..(n - 1), J[i - 1] = K[i - 1] PROVE J[i] = K[i]
      <4>1. i \in 1..n
        BY <1>1
      <4> QED BY <1>4, <1>6, <3>1, <4>1
    <3> QED BY <1>6, <3>1 DEF GoOnAlike
  <2>2. n - 1 \in 0..(n - 1)
    BY <1>1
  <2> QED BY <1>1, <2>1, <2>2, RecursionUnique
<1> SUFFICES ASSUME NEW text, text = JoinWith(parts, sep), NEW rest, rest = JoinWith(cut, sep)
             PROVE  PastTrailing(text, Chars) = rest
  OBVIOUS
<1>8. PICK a : a = J[n - 1]
  OBVIOUS
<1>9. text = a \o P[n] /\ rest = a \o C[n]
  <2>1. text = J[n] /\ rest = K[n]
    BY <1>3 DEF J, K
  <2> QED BY <1>1, <1>6, <1>7, <1>8, <2>1
<1>10. Concats(text, a, P[n]) /\ Concats(rest, a, C[n])
  <2>1. IsSeq(a) /\ IsSeq(P[n]) /\ IsSeq(C[n])
    <3>1. a \in Seq(T)
      BY <1>6, <1>8
    <3> QED BY <1>5, <3>1, SeqIsSeq DEF Concats
  <2>2. PICK x, y : x = P[n] /\ y = C[n]
    OBVIOUS
  <2> QED BY <1>9, <2>1, <2>2, ConcatConcats
<1>11. PICK last : last = b
  OBVIOUS
<1>12. PICK less : less = d
  OBVIOUS
<1>13. (\E i \in 1..Len(last) : last[i] \notin Chars) /\ less = PastTrailing(last, Chars)
  BY <1>11, <1>12
<1> HIDE DEF b, d
<1> QED BY <1>5, <1>10, <1>11, <1>12, <1>13, LastOfJoined

\* A text without its end is made of what it was made of, and begins as it did.
LEMMA TrailingText ==
  ASSUME NEW T, NEW text \in Seq(T), NEW Chars
  PROVE  LET cut == PastTrailing(text, Chars)
         IN  cut \in Seq(Range(text)) /\ (cut # << >> => text # << >> /\ cut[1] = text[1])
<1> DEFINE R == Range(text)
           cut == PastTrailing(text, Chars)
<1>1. IsSeq(text) /\ Len(text) \in Nat /\ \A i \in 1..Len(text) : text[i] \in R
  BY SeqIsSeq DEF Range
<1>2. PICK m : EndsAt(text, m, Chars) /\ cut = SubSeq(text, 1, m)
  BY <1>1, TrailingIs
<1> HIDE DEF R, cut
<1>3. m \in Nat /\ m <= Len(text) /\ \A i \in 1..m : text[i] \in R
  BY <1>1, <1>2 DEF EndsAt
<1>4. /\ SubSeq(text, 1, m) \in Seq(R)
      /\ Len(SubSeq(text, 1, m)) = IF 1 <= m THEN m - 1 + 1 ELSE 0
      /\ \A i \in 1..(m - 1 + 1) : SubSeq(text, 1, m)[i] = text[1 + i - 1]
  BY <1>3, SubSeqProperties
<1>5. cut # << >> => text # << >> /\ cut[1] = text[1]
  <2> SUFFICES ASSUME cut # << >> PROVE text # << >> /\ cut[1] = text[1]
    OBVIOUS
  <2>1. m >= 1
    BY <1>2, <1>3, <1>4, EmptySeq
  <2>2. cut[1] = text[1]
    BY <1>2, <1>3, <1>4, <2>1
  <2> QED BY <1>3, <2>1, <2>2, Len(<< >>) = 0
<1> QED BY <1>2, <1>4, <1>5 DEF R, cut

\* What cookies are made of
CookieChars == UNION {Range(t) : t \in CookieNames \cup CookieValues}
CookieLetters == (CookieChars \cup {"="}) \ {";"}

\* Values as they are set, and as they are read: with or without the spaces at their end
ReadValues == CookieValues \cup {PastTrailing(v, {" "}) : v \in CookieValues}

LEMMA WiderSeq ==
  ASSUME NEW S, NEW T, S \subseteq T, NEW x \in Seq(S)
  PROVE  x \in Seq(T)
OBVIOUS

LEMMA ReadValuesAre ==
  \A v \in ReadValues :
    IsText(v) /\ v \in Seq(CookieChars) /\ ";" \notin Range(v) /\ (v # << >> => v[1] # " ")
<1>1. ASSUME NEW v \in CookieValues
      PROVE  /\ v \in Seq(Range(v)) /\ Range(v) \subseteq CookieChars
             /\ ";" \notin Range(v) /\ (v # << >> => v[1] # " ")
  BY CookieAssumption DEF IsText, CookieChars
<1>2. ASSUME NEW S, NEW R, NEW v \in Seq(R), R \subseteq S, ";" \notin R
      PROVE  v \in Seq(S) /\ IsText(v) /\ ";" \notin Range(v)
  <2>1. DOMAIN v = 1..Len(v) /\ Len(v) \in Nat /\ \A i \in DOMAIN v : v[i] \in R
    OBVIOUS
  <2>2. (\A i \in DOMAIN v : v[i] \in Range(v)) /\ \A e \in Range(v) : \E i \in DOMAIN v : e = v[i]
    BY Zenon DEF Range
  <2>3. \A e \in Range(v) : e \in R
    BY <2>1, <2>2
  <2>4. v \in Seq(Range(v))
    <3> DEFINE W == Range(v)
    <3>1. \A i \in DOMAIN v : v[i] \in W
      BY <2>2
    <3> HIDE DEF W
    <3>2. v \in Seq(W)
      BY <2>1, <3>1
    <3> QED BY <3>2 DEF W
  <2>5. v \in Seq(S)
    <3>1. \A i \in DOMAIN v : v[i] \in S
      BY <1>2, <2>1
    <3> QED BY <2>1, <3>1
  <2> QED BY <1>2, <2>3, <2>4, <2>5 DEF IsText
<1>3. ASSUME NEW v \in CookieValues
      PROVE  LET w == PastTrailing(v, {" "})
             IN  w \in Seq(Range(v)) /\ (w # << >> => w[1] # " ")
  BY <1>1, TrailingText, Zenon
<1>4. ASSUME NEW v \in ReadValues, NEW u \in CookieValues, v \in Seq(Range(u)),
             v # << >> => v[1] # " "
      PROVE  IsText(v) /\ v \in Seq(CookieChars) /\ ";" \notin Range(v) /\ (v # << >> => v[1] # " ")
  BY <1>1, <1>2, <1>4
<1> QED BY <1>1, <1>3, <1>4 DEF ReadValues

\* A cookie's pair is read as its name and its value.
LEMMA CookieRead ==
  ASSUME NEW k \in CookieNames, NEW v \in ReadValues, NEW item, item = Pair(k, v)
  PROVE  /\ item \in Seq(CookieLetters)
         /\ ReadCookie(item) = [set |-> TRUE, key |-> k, value |-> v]
<1>1. /\ k \in Seq(Range(k)) /\ v \in Seq(Range(v)) /\ "=" \notin Range(k)
      /\ ";" \notin Range(k) /\ ";" \notin Range(v)
      /\ (k # << >> => k[1] # " ") /\ (v # << >> => v[1] # " ")
  BY CookieAssumption, ReadValuesAre DEF IsText
<1>2. /\ item \in Seq(Range(k) \cup Range(v) \cup {"="}) /\ "=" \in Range(item)
      /\ Before(item, "=") = k /\ Behind(item, "=") = v
  <2>1. KeyAndValue(k, v, Range(k), Range(v))
    BY <1>1 DEF KeyAndValue
  <2> QED BY <2>1, PairCut, Zenon
<1>3. Range(k) \cup Range(v) \cup {"="} \subseteq CookieLetters
  <2>1. Range(k) \subseteq CookieChars /\ Range(v) \subseteq CookieChars
    <3>1. v \in Seq(CookieChars)
      BY ReadValuesAre
    <3>2. \A i \in DOMAIN v : v[i] \in CookieChars
      BY <3>1
    <3>3. Range(v) \subseteq CookieChars
      BY <3>2, Zenon DEF Range
    <3>4. Range(k) \subseteq CookieChars
      BY DEF CookieChars
    <3> QED BY <3>3, <3>4
  <2>2. ";" \notin Range(k) /\ ";" \notin Range(v) /\ ";" # "="
    BY <1>1
  <2> QED BY <2>1, <2>2 DEF CookieLetters
<1>4. item \in Seq(CookieLetters)
  BY <1>2, <1>3
<1>5. PastLeading(k, {" "}) = k /\ PastLeading(v, {" "}) = v
  BY <1>1, NothingLeads
<1> QED BY <1>2, <1>4, <1>5 DEF ReadCookie

\* Cookies as they were set are read so.
LEMMA CookiesRead ==
  ASSUME NEW map, IsMap(map, CookieNames, ReadValues)
  PROVE  ParseCookies(JoinWith(CookiePairs(map), ";")) = map
<1> DEFINE keys == SetToSeq(DOMAIN map)
           n == Cardinality(DOMAIN map)
           parts == CookiePairs(map)
           items == SplitAt(JoinWith(parts, ";"), ";")
           reads == [i \in DOMAIN items |-> ReadCookie(items[i])]
<1>1. n \in Nat /\ keys \in [1..n -> DOMAIN map] /\ IsFiniteSet(DOMAIN map)
  BY KeysInOrder DEF IsMap
<1>2. Len(keys) = n /\ DOMAIN keys = 1..n
  <2>1. n \in Nat /\ keys \in [1..n -> DOMAIN map]
    BY <1>1
  <2> HIDE DEF keys, n
  <2> QED BY <2>1
<1>3. \A i \in 1..n : keys[i] \in CookieNames /\ map[keys[i]] \in ReadValues
  BY <1>1 DEF IsMap
<1> HIDE DEF keys, n
<1>4. parts = [i \in 1..n |-> Pair(keys[i], map[keys[i]])]
  BY <1>2 DEF CookiePairs, keys
<1> HIDE DEF parts
<1>5. \A i \in 1..n : /\ parts[i] \in Seq(CookieLetters)
                      /\ ReadCookie(parts[i]) = [set |-> TRUE, key |-> keys[i],
                                                 value |-> map[keys[i]]]
  <2> SUFFICES ASSUME NEW i \in 1..n
               PROVE  /\ parts[i] \in Seq(CookieLetters)
                      /\ ReadCookie(parts[i]) = [set |-> TRUE, key |-> keys[i],
                                                 value |-> map[keys[i]]]
    OBVIOUS
  <2>1. parts[i] = Pair(keys[i], map[keys[i]])
    BY <1>4
  <2> QED BY <1>3, <2>1, CookieRead
<1>6. parts \in Seq(Seq(CookieLetters)) /\ Len(parts) = n
  <2>1. parts \in [1..n -> Seq(CookieLetters)]
    <3>1. \A i \in 1..n : parts[i] \in Seq(CookieLetters)
      BY <1>5
    <3> QED BY <1>4, <3>1
  <2>2. n \in Nat
    BY <1>1
  <2> QED BY <2>1, <2>2
<1>7. ";" \notin CookieLetters
  BY DEF CookieLetters
<1>9. CASE n = 0
  <2>1. parts = << >> /\ DOMAIN map = {}
    BY <1>1, <1>6, <1>9, EmptySeq, FS_EmptySet DEF n
  <2>2. items = << << >> >>
    BY <2>1, NothingJoined
  <2>3. DOMAIN reads = 1..1 /\ \A i \in 1..1 : reads[i] = ReadCookie(<< >>)
    <3>1. DOMAIN items = 1..1 /\ items[1] = << >>
      <4>1. DOMAIN << << >> >> = 1..1 /\ << << >> >>[1] = << >>
        OBVIOUS
      <4> HIDE DEF items
      <4> QED BY <2>2, <4>1, Zenon
    <3> HIDE DEF items
    <3>2. DOMAIN reads = 1..1 /\ \A i \in 1..1 : reads[i] = ReadCookie(items[i])
      BY <3>1
    <3>3. \A i \in 1..1 : i = 1
      OBVIOUS
    <3> HIDE DEF reads
    <3> QED BY <3>1, <3>2, <3>3, Zenon
  <2>4. ~ ReadCookie(<< >>).set
    <3>1. "=" \notin Range(<< >>)
      <4>1. DOMAIN << >> = {}
        OBVIOUS
      <4> QED BY <4>1, Zenon DEF Range
    <3> QED BY <3>1 DEF ReadCookie
  <2>5. {j \in DOMAIN reads : reads[j].set} = {}
    <3> HIDE DEF reads
    <3> QED BY <2>3, <2>4
  <2> HIDE DEF reads
  <2>7. {reads[i].key : i \in {j \in DOMAIN reads : reads[j].set}} = DOMAIN map
    BY <2>1, <2>5
  <2> DEFINE result == [k \in {reads[i].key : i \in {j \in DOMAIN reads : reads[j].set}}
                          |-> ValueIn(reads, k)]
  <2>8. DOMAIN result = DOMAIN map /\ result = [k \in DOMAIN map |-> ValueIn(reads, k)]
    BY <2>7
  <2>9. [k \in DOMAIN map |-> ValueIn(reads, k)] = [k \in DOMAIN map |-> map[k]]
    BY <2>1
  <2>10. result = map
    <3> HIDE DEF result
    <3> QED BY <2>8, <2>9 DEF IsMap
  <2> QED BY <2>10 DEF ParseCookies, reads, items, parts
<1>10. CASE n # 0
  <2>1. parts # << >>
    BY <1>6, <1>10, EmptySeq
  <2>2. items = parts
    <3>1. Separable(parts, ";", CookieLetters)
      BY <1>6, <1>7, <2>1 DEF Separable
    <3> QED BY <3>1, SplitJoined, Zenon
  <2>3. DOMAIN reads = 1..n
        /\ \A i \in 1..n : reads[i] = [set |-> TRUE, key |-> keys[i], value |-> map[keys[i]]]
    <3> HIDE DEF items
    <3>1. DOMAIN items = 1..n
      <4>1. DOMAIN parts = 1..n
        BY <1>6
      <4> QED BY <2>2, <4>1
    <3>2. \A i \in 1..n : reads[i] = ReadCookie(parts[i])
      BY <2>2, <3>1
    <3>3. DOMAIN reads = 1..n
      BY <3>1
    <3> HIDE DEF reads
    <3> QED BY <1>5, <3>2, <3>3
  <2> HIDE DEF reads
  <2>5. ReadsOf(reads, map, keys)
    <3>1. \A i \in 1..n : /\ reads[i].set /\ reads[i].key = keys[i]
                         /\ reads[i].value = map[keys[i]]
      <4>1. \A i \in 1..n : reads[i] = [set |-> TRUE, key |-> keys[i], value |-> map[keys[i]]]
        BY <2>3
      <4>2. \A i \in 1..n : LET r == [set |-> TRUE, key |-> keys[i], value |-> map[keys[i]]]
                          IN  r.set /\ r.key = keys[i] /\ r.value = map[keys[i]]
        OBVIOUS
      <4> QED BY <4>1, <4>2, Zenon
    <3> QED BY <1>2, <2>3, <3>1 DEF ReadsOf
  <2>6. /\ [k \in {reads[i].key : i \in DOMAIN reads} |-> ValueIn(reads, k)] = map
        /\ {j \in DOMAIN reads : reads[j].set} = DOMAIN reads
    BY <1>1, <2>5, MapReadBack DEF IsMap, keys
  <2>7. [k \in {reads[i].key : i \in {j \in DOMAIN reads : reads[j].set}}
           |-> ValueIn(reads, k)] = map
    BY <2>6, Zenon
  <2> QED BY <2>7 DEF ParseCookies, reads, items, parts
<1> QED BY <1>9, <1>10

\* A map whose last value, in the order it is written in, has lost the spaces at its end
LastShortened(map) ==
  [k \in DOMAIN map |-> IF k = Last(SetToSeq(DOMAIN map)) THEN PastTrailing(map[k], {" "})
                        ELSE map[k]]

\* Cookies arrive, with the last of them shortened.
LEMMA CookiesArriveShortened ==
  ASSUME NEW map, IsMap(map, CookieNames, CookieValues)
  PROVE  ParseCookies(HeaderValue(JoinWith(CookiePairs(map), ";"))) = LastShortened(map)
<1> DEFINE keys == SetToSeq(DOMAIN map)
           n == Cardinality(DOMAIN map)
           short == LastShortened(map)
           parts == CookiePairs(map)
           cut == CookiePairs(short)
           T == CookieChars \cup {"=", ";"}
           text == JoinWith(parts, ";")
<1>1. n \in Nat /\ keys \in [1..n -> DOMAIN map] /\ IsFiniteSet(DOMAIN map)
      /\ \A i, j \in 1..n : keys[i] = keys[j] => i = j
  BY KeysInOrder DEF IsMap
<1>2. Len(keys) = n /\ DOMAIN keys = 1..n
  <2>1. n \in Nat /\ keys \in [1..n -> DOMAIN map]
    BY <1>1
  <2> HIDE DEF keys, n
  <2> QED BY <2>1
<1>3. IsMap(short, CookieNames, ReadValues) /\ DOMAIN short = DOMAIN map
  <2>1. DOMAIN short = DOMAIN map
    BY DEF LastShortened
  <2>2. ASSUME NEW k \in DOMAIN map PROVE short[k] \in ReadValues
    BY <2>2 DEF LastShortened, ReadValues, IsMap
  <2>3. short = [k \in DOMAIN short |-> short[k]]
    BY DEF LastShortened
  <2> HIDE DEF short
  <2> QED BY <2>1, <2>2, <2>3 DEF IsMap
<1>4. ParseCookies(JoinWith(cut, ";")) = short
  BY <1>3, CookiesRead
<1>5. CASE n = 0
  <2>1. DOMAIN map = {} /\ keys = << >>
    BY <1>1, <1>2, <1>5, EmptySeq, FS_EmptySet
  <2>2. Len(SetToSeq({})) = 0
    BY <1>2, <1>5, <2>1
  <2>3. parts = << >> /\ cut = << >>
    BY <1>3, <2>1, <2>2 DEF CookiePairs
  <2>4. text = << >> /\ HeaderValue(<< >>) = << >>
    <3>1. DOMAIN << >> = {}
      OBVIOUS
    <3>2. PastLeading(<< >>, {" "}) = << >> /\ PastTrailing(<< >>, {" "}) = << >>
      BY <3>1 DEF PastLeading, PastTrailing
    <3> QED BY <2>3, <3>2, NothingJoined DEF HeaderValue
  <2>5. JoinWith(cut, ";") = << >>
    BY <2>3, NothingJoined
  <2> QED BY <1>4, <2>4, <2>5
<1>6. CASE n # 0
  <2> HIDE DEF keys, n, short
  <2>1. \A i \in 1..n : /\ keys[i] \in CookieNames /\ map[keys[i]] \in CookieValues
                        /\ map[keys[i]] \in ReadValues /\ short[keys[i]] \in ReadValues
    BY <1>1, <1>3 DEF IsMap, ReadValues
  <2>2. /\ parts = [i \in 1..n |-> Pair(keys[i], map[keys[i]])]
        /\ cut = [i \in 1..n |-> Pair(keys[i], short[keys[i]])]
    BY <1>2, <1>3 DEF CookiePairs, keys
  <2> HIDE DEF parts, cut
  <2>3. /\ Last(keys) = keys[n] /\ n \in 1..n
        /\ \A i \in 1..(n - 1) : i \in 1..n /\ keys[i] # keys[n]
    BY <1>1, <1>2, <1>6 DEF Last
  <2>4. /\ \A i \in 1..(n - 1) : short[keys[i]] = map[keys[i]]
        /\ short[keys[n]] = PastTrailing(map[keys[n]], {" "})
    BY <1>1, <2>3 DEF short, LastShortened, keys
  <2>5. \A i \in 1..n : parts[i] \in Seq(CookieLetters) /\ cut[i] \in Seq(CookieLetters)
    BY <2>1, <2>2, CookieRead
  <2>6. CookieLetters \subseteq T /\ ";" \in T
    BY DEF CookieLetters
  <2> HIDE DEF T
  <2>7. /\ parts \in Seq(Seq(T)) /\ cut \in Seq(Seq(T)) /\ Len(parts) = n /\ Len(cut) = n
        /\ parts \in Seq(Seq(CookieLetters)) /\ parts # << >>
    <3>1. /\ parts \in [1..n -> Seq(T)] /\ cut \in [1..n -> Seq(T)]
          /\ parts \in [1..n -> Seq(CookieLetters)]
      <4>1. ASSUME NEW x \in Seq(CookieLetters) PROVE x \in Seq(T)
        BY <2>6, WiderSeq
      <4>2. \A i \in 1..n : /\ parts[i] \in Seq(T) /\ cut[i] \in Seq(T)
                            /\ parts[i] \in Seq(CookieLetters)
        BY <2>5, <4>1
      <4> QED BY <2>2, <4>2
    <3> QED BY <1>1, <1>6, <3>1, EmptySeq
  <2>8. PastTrailing(parts[n], {" "}) = cut[n] /\ \E i \in 1..Len(parts[n]) : parts[n][i] \notin {" "}
    <3>1. PICK k, v : k = keys[n] /\ v = map[keys[n]]
      OBVIOUS
    <3>2. PICK w : w = PastTrailing(v, {" "})
      OBVIOUS
    <3>3. IsSeq(k) /\ IsSeq(v) /\ IsSeq(w)
      <4>1. k \in CookieNames /\ v \in CookieValues
        BY <2>1, <2>3, <3>1
      <4>2. IsText(k) /\ IsText(v)
        BY <4>1, CookieAssumption
      <4>3. w \in Seq(CookieChars)
        BY <3>2, <4>1, ReadValuesAre DEF ReadValues
      <4> QED BY <4>2, <4>3, SeqIsSeq DEF IsText
    <3>4. parts[n] = Pair(k, v) /\ cut[n] = Pair(k, w)
      BY <2>2, <2>3, <2>4, <3>1, <3>2
    <3>5. PICK Chars : Chars = {" "}
      OBVIOUS
    <3>6. <<"=">>[1] \notin Chars /\ w = PastTrailing(v, Chars)
      BY <3>2, <3>5, EqualsSign, Zenon
    <3>7. \A item, less : item = Pair(k, v) /\ less = Pair(k, w) =>
            PastTrailing(item, Chars) = less /\ \E i \in 1..Len(item) : item[i] \notin Chars
      BY <3>3, <3>6, PairTrailing
    <3> QED BY <3>4, <3>5, <3>7, Zenon
  <2>12. PastTrailing(text, {" "}) = JoinWith(cut, ";")
    <3>1. Last(parts) = parts[n]
      BY <2>7 DEF Last
    <3>2. \A i \in 1..(n - 1) : cut[i] = parts[i]
      BY <2>2, <2>3, <2>4
    <3> HIDE DEF text
    <3>3. LastIsCut(parts, cut, ";", T, {" "})
      BY <2>6, <2>7, <2>8, <3>1, <3>2 DEF LastIsCut
    <3>4. ASSUME NEW U, NEW sep, NEW Chars, LastIsCut(parts, cut, sep, U, Chars)
          PROVE  PastTrailing(JoinWith(parts, sep), Chars) = JoinWith(cut, sep)
      BY <3>4, TrailingOfJoined
    <3>5. PastTrailing(JoinWith(parts, ";"), {" "}) = JoinWith(cut, ";")
      BY <3>3, <3>4, Zenon
    <3> QED BY <3>5, Zenon DEF text
  <2>13. PastLeading(text, {" "}) = text
    <3>1. /\ text \in Seq(CookieLetters \cup {";"}) /\ Len(parts[1]) <= Len(text)
          /\ \A i \in 1..Len(parts[1]) : text[i] = parts[1][i]
      <4>1. Separable(parts, ";", CookieLetters)
        BY <2>7 DEF Separable, CookieLetters
      <4> QED BY <4>1, SplitJoined
    <3>2. 1 \in 1..Len(parts[1]) /\ parts[1][1] # " "
      <4> DEFINE first == keys[1]
                 val == map[first]
                 item == parts[1]
      <4>1. 1 \in 1..n /\ item = Pair(first, val)
        BY <1>1, <1>6, <2>2
      <4>2. /\ first \in Seq(Range(first)) /\ val \in Seq(Range(val)) /\ "=" \notin Range(first)
            /\ first # << >> => first[1] # " "
        BY <2>1, <4>1, CookieAssumption DEF IsText
      <4> HIDE DEF first, val, item
      <4>3. KeyAndValue(first, val, Range(first), Range(val))
        BY <4>2 DEF KeyAndValue
      <4>4. IsSeq(first) /\ IsSeq(<<"=">>) /\ IsSeq(val) /\ Len(<<"=">>) = 1 /\ <<"=">>[1] = "="
        <5>1. <<"=">> \in Seq({"="})
          OBVIOUS
        <5> QED BY <4>2, <5>1, SeqIsSeq
      <4> DEFINE head == first \o <<"=">>
      <4>5. /\ IsSeq(head) /\ Len(head) = Len(first) + 1 /\ Len(first) \in Nat
            /\ \A i \in 1..Len(first) : head[i] = first[i]
            /\ head[Len(first) + 1] = "="
        <5>1. 1 \in 1..Len(<<"=">>)
          BY <4>4
        <5> QED BY <4>4, <5>1, ConcatIs
      <4>6. item = head \o val
        BY <4>1 DEF Pair
      <4> HIDE DEF head
      <4>7. Len(item) >= Len(head) /\ \A i \in 1..Len(head) : item[i] = head[i]
        BY <4>4, <4>5, <4>6, ConcatIs
      <4>8. head[1] # " "
        <5>1. CASE Len(first) = 0
          <6>1. Len(first) + 1 = 1
            BY <5>1
          <6> QED BY <4>5, <6>1
        <5>2. CASE Len(first) # 0
          <6>1. 1 \in 1..Len(first)
            BY <4>5, <5>2
          <6>2. head[1] = first[1] /\ first # << >>
            BY <4>5, <5>2, <6>1, Len(<< >>) = 0
          <6> QED BY <4>2, <6>2
        <5> QED BY <5>1, <5>2
      <4>9. Len(item) \in Nat /\ Len(head) \in Nat /\ Len(head) >= 1
        <5>1. Len(head \o val) = Len(head) + Len(val) /\ Len(head) \in Nat /\ Len(val) \in Nat
          BY <4>4, <4>5, ConcatIs
        <5> QED BY <4>5, <4>6, <5>1
      <4>10. 1 \in 1..Len(item) /\ 1 \in 1..Len(head)
        BY <4>7, <4>9
      <4> QED BY <4>7, <4>8, <4>10 DEF item
    <3>3. text[1] # " "
      BY <3>1, <3>2
    <3> HIDE DEF text
    <3> QED BY <3>1, <3>3, NothingLeads
  <2>14. HeaderValue(text) = JoinWith(cut, ";")
    <3> HIDE DEF text
    <3> QED BY <2>12, <2>13 DEF HeaderValue
  <2>15. text = JoinWith(CookiePairs(map), ";")
    BY DEF parts
  <2> HIDE DEF text
  <2> QED BY <1>4, <2>14, <2>15, Zenon DEF cut, short
<1> QED BY <1>5, <1>6 DEF short

-----------------------------------------------------------------------------
(* Paths. *)

\* The path keeps its separators.
CharOnPath(c) == IF c \in {"&", "=", "?", "/"} THEN c ELSE CharSent(c)

\* A character of the path arrives, and is a question mark only if it was one.
LEMMA PathCharArrives ==
  \A c : IsChar(c) => CharRead(CharOnPath(c)) = c /\ (CharOnPath(c) = "?" <=> c = "?")
<1> SUFFICES ASSUME NEW c, IsChar(c)
             PROVE  CharRead(CharOnPath(c)) = c /\ (CharOnPath(c) = "?" <=> c = "?")
  OBVIOUS
<1>1. CASE c \in {"&", "=", "?", "/"}
  <2>1. CharOnPath(c) = c /\ c \in Marks \cup {"/"}
    BY <1>1 DEF CharOnPath, Marks
  <2> QED BY <2>1, CharArrives
<1>2. CASE c \notin {"&", "=", "?", "/"}
  <2>1. CharOnPath(c) = CharSent(c) /\ c # "?"
    BY <1>2 DEF CharOnPath
  <2>2. CharSent(c) # "?"
    BY CharArrives DEF Marks
  <2> QED BY <2>1, <2>2, CharArrives
<1> QED BY <1>1, <1>2

\* A path that is encoded is as long as it was, and is what it was when it is decoded.
LEMMA EncodedIs ==
  ASSUME NEW p, Clean(p)
  PROVE  /\ IsSeq(EncodedPath(p)) /\ Len(EncodedPath(p)) = Len(p)
         /\ \A i \in 1..Len(p) : EncodedPath(p)[i] = CharOnPath(p[i])
         /\ Decoded(EncodedPath(p)) = p
         /\ "?" \in Range(EncodedPath(p)) <=> "?" \in Range(p)
<1> DEFINE n == Len(p)
           E == EncodedPath(p)
<1>1. IsSeq(p) /\ DOMAIN p = 1..n /\ n \in Nat /\ p = [i \in 1..n |-> p[i]]
      /\ \A i \in 1..n : IsChar(p[i])
  BY DEF Clean, IsSeq
<1>2. Escaped(p) = [i \in 1..n |-> CharSent(p[i])]
  BY <1>1 DEF Escaped, CharSent
<1>3. E = [i \in 1..n |-> CharOnPath(p[i])]
  BY <1>1, <1>2 DEF EncodedPath, CharOnPath
<1> HIDE DEF E, n
<1>4. DOMAIN E = 1..n /\ \A i \in 1..n : E[i] = CharOnPath(p[i])
  BY <1>3
<1>5. IsSeq(E) /\ Len(E) = n
  BY <1>1, <1>3 DEF IsSeq, Elements
<1>6. Decoded(E) = [i \in 1..n |-> CharRead(E[i])]
  BY <1>4 DEF Decoded, CharRead
<1>7. \A i \in 1..n : CharRead(E[i]) = p[i] /\ (E[i] = "?" <=> p[i] = "?")
  BY <1>1, <1>4, PathCharArrives
<1>8. Decoded(E) = p
  <2>1. [i \in 1..n |-> CharRead(E[i])] = [i \in 1..n |-> p[i]]
    BY <1>7
  <2> QED BY <1>1, <1>6, <2>1
<1>9. "?" \in Range(E) <=> "?" \in Range(p)
  BY <1>1, <1>4, <1>7 DEF Range
<1> QED BY <1>4, <1>5, <1>8, <1>9 DEF E, n

\* Encoding goes character by character, so what is behind a question mark is encoded alone.
LEMMA EncodedInTwo ==
  ASSUME NEW a, NEW b, Clean(a), Clean(b), NEW p, p = a \o b, Clean(p)
  PROVE  EncodedPath(p) = EncodedPath(a) \o EncodedPath(b)
<1> DEFINE A == EncodedPath(a)
           B == EncodedPath(b)
           E == EncodedPath(p)
<1>1. /\ IsSeq(A) /\ Len(A) = Len(a) /\ \A i \in 1..Len(a) : A[i] = CharOnPath(a[i])
      /\ IsSeq(B) /\ Len(B) = Len(b) /\ \A i \in 1..Len(b) : B[i] = CharOnPath(b[i])
      /\ IsSeq(E) /\ Len(E) = Len(p) /\ \A i \in 1..Len(p) : E[i] = CharOnPath(p[i])
  BY EncodedIs
<1>2. IsSeq(a) /\ IsSeq(b)
  BY DEF Clean
<1>3. /\ Len(a) \in Nat /\ Len(b) \in Nat /\ Len(p) = Len(a) + Len(b)
      /\ \A i \in 1..Len(a) : p[i] = a[i]
      /\ \A i \in 1..Len(b) : p[Len(a) + i] = b[i]
  <2>1. /\ Len(a) \in Nat /\ Len(b) \in Nat /\ Len(a \o b) = Len(a) + Len(b)
        /\ \A i \in 1..Len(a) : (a \o b)[i] = a[i]
        /\ \A i \in 1..Len(b) : (a \o b)[Len(a) + i] = b[i]
    BY <1>2, ConcatIs
  <2> QED BY <2>1
<1> HIDE DEF A, B, E
<1>4. /\ IsSeq(A \o B) /\ Len(A \o B) = Len(A) + Len(B)
      /\ \A i \in 1..Len(A) : (A \o B)[i] = A[i]
      /\ \A i \in 1..Len(B) : (A \o B)[Len(A) + i] = B[i]
  <2>1. IsSeq(A) /\ IsSeq(B)
    BY <1>1
  <2> QED BY <2>1, ConcatIs
<1>5. ASSUME NEW i \in 1..Len(p) PROVE E[i] = (A \o B)[i]
  <2>1. CASE i \in 1..Len(a)
    BY <1>1, <1>3, <1>4, <2>1
  <2>2. CASE i \notin 1..Len(a)
    <3> DEFINE j == i - Len(a)
    <3>1. j \in 1..Len(b) /\ Len(a) + j = i
      BY <1>3, <2>2
    <3> HIDE DEF j
    <3>2. p[Len(a) + j] = b[j] /\ (A \o B)[Len(a) + j] = B[j] /\ B[j] = CharOnPath(b[j])
      BY <1>1, <1>3, <1>4, <3>1
    <3> QED BY <1>1, <3>1, <3>2
  <2> QED BY <2>1, <2>2
<1>6. Len(A \o B) = Len(p)
  BY <1>1, <1>3, <1>4
<1> QED BY <1>1, <1>4, <1>5, <1>6, SameSeq DEF A, B, E

\* What is behind the path on the line
QueryPart(path, query) ==
  IF query = << >> THEN << >>
  ELSE IF "?" \notin Range(path) THEN <<"?">> \o query
  ELSE IF FirstOf(path, "?") = Len(path) THEN query
  ELSE <<"&">> \o query

\* The path and its query are read as they were put together.
LEMMA PathRead ==
  ASSUME NEW p, Clean(p), p # << >>, NEW query, IsSeq(query), NEW target,
         target = EncodedPath(p) \o QueryPart(EncodedPath(p), query)
  PROVE  /\ Decoded(Before(target, "?")) = Before(p, "?")
         /\ Behind(target, "?") = Both(EncodedPath(Behind(p, "?")), query)
<1> DEFINE E == EncodedPath(p)
           X == QueryPart(E, query)
<1>1. /\ IsSeq(p) /\ p \in Seq(Range(p)) /\ \A c \in Range(p) : IsChar(c)
  BY DEF Clean, IsSeq, Elements, Range
<1>2. /\ IsSeq(E) /\ E \in Seq(Range(E)) /\ Len(E) = Len(p) /\ Decoded(E) = p
      /\ \A i \in 1..Len(p) : E[i] = CharOnPath(p[i])
      /\ "?" \in Range(E) <=> "?" \in Range(p)
  BY EncodedIs DEF IsSeq, Elements, Range
<1>3. IsSeq(<< >>) /\ IsSeq(<<"?">>) /\ IsSeq(<<"&">>)
  <2>1. << >> \in Seq({}) /\ <<"?">> \in Seq({"?"}) /\ <<"&">> \in Seq({"&"})
    OBVIOUS
  <2> QED BY <2>1, SeqIsSeq
<1>4. IsSeq(X)
  <2>1. IsSeq(<<"?">> \o query) /\ IsSeq(<<"&">> \o query)
    BY <1>3, ConcatIs
  <2> QED BY <1>3, <2>1 DEF QueryPart
<1>5. Clean(<< >>) /\ EncodedPath(<< >>) = << >>
  BY <1>3 DEF Clean, EncodedPath
<1>6. \A s : IsSeq(s) => s \o << >> = s /\ << >> \o s = s
  BY ConcatEmptySeq DEF IsSeq
<1>7. CASE "?" \notin Range(p)
  <2>1. Before(p, "?") = p /\ Behind(p, "?") = << >>
    BY <1>1, <1>7, NotCut
  <2>2. CASE query = << >>
    <3>1. target = E
      BY <1>2, <1>6, <2>2 DEF QueryPart
    <3>2. Before(E, "?") = E /\ Behind(E, "?") = << >>
      BY <1>2, <1>7, NotCut
    <3> QED BY <1>2, <1>5, <2>1, <2>2, <3>1, <3>2 DEF Both
  <2>3. CASE query # << >>
    <3>1. target = E \o (<<"?">> \o query)
      BY <1>2, <1>7, <2>3 DEF QueryPart
    <3> HIDE DEF E
    <3>2. Before(target, "?") = E /\ Behind(target, "?") = query
      BY <1>2, <1>7, <3>1, CutWhereJoined
    <3> QED BY <1>2, <1>5, <2>1, <3>2 DEF Both, E
  <2> QED BY <2>2, <2>3
<1>8. CASE "?" \in Range(p)
  <2> DEFINE a == Before(p, "?")
             b == Behind(p, "?")
             d == <<"?">> \o b
             A == EncodedPath(a)
             B == EncodedPath(b)
  <2>1. p = a \o d /\ a \in Seq(Range(p) \ {"?"}) /\ b \in Seq(Range(p))
    BY <1>1, <1>8, JoinedWhereCut
  <2>2. <<"?">> \in Seq(Range(p)) /\ d \in Seq(Range(p)) /\ a \in Seq(Range(p))
    <3>1. <<"?">> \in Seq(Range(p)) /\ a \in Seq(Range(p))
      BY <1>8, <2>1
    <3> HIDE DEF a, b
    <3> QED BY <2>1, <3>1
  <2> HIDE DEF a, b, d
  <2>3. Clean(a) /\ Clean(b) /\ Clean(d) /\ Clean(<<"?">>)
    <3>1. ASSUME NEW s \in Seq(Range(p)) PROVE Clean(s)
      <4>1. \A i \in DOMAIN s : s[i] \in Range(p)
        OBVIOUS
      <4> QED BY <1>1, <4>1, SeqIsSeq DEF Clean
    <3> QED BY <2>1, <2>2, <3>1
  <2>4. EncodedPath(<<"?">>) = <<"?">>
    <3> DEFINE q == <<"?">>
    <3>1. Len(q) = 1 /\ q[1] = "?"
      OBVIOUS
    <3> HIDE DEF q
    <3>2. /\ IsSeq(EncodedPath(q)) /\ Len(EncodedPath(q)) = 1
          /\ \A i \in 1..1 : EncodedPath(q)[i] = CharOnPath(q[i])
      BY <2>3, <3>1, EncodedIs DEF q
    <3>3. \A i \in 1..1 : EncodedPath(q)[i] = q[i]
      BY <3>1, <3>2 DEF CharOnPath
    <3> QED BY <1>3, <3>1, <3>2, <3>3, SameSeq DEF q
  <2>5. EncodedPath(d) = <<"?">> \o B
    <3> DEFINE q == <<"?">>
    <3>1. Clean(q) /\ Clean(b) /\ Clean(d) /\ d = q \o b /\ EncodedPath(q) = q
      BY <2>3, <2>4 DEF d
    <3> HIDE DEF q
    <3>2. EncodedPath(d) = EncodedPath(q) \o EncodedPath(b)
      BY <3>1, EncodedInTwo
    <3>3. EncodedPath(d) = q \o B
      BY <3>1, <3>2 DEF B
    <3> QED BY <3>3 DEF q
  <2>6. E = A \o (<<"?">> \o B)
    <3>1. p = a \o d /\ Clean(a) /\ Clean(d) /\ Clean(p)
      BY <2>1, <2>3 DEF d
    <3>2. EncodedPath(p) = EncodedPath(a) \o EncodedPath(d)
      BY <3>1, EncodedInTwo
    <3> QED BY <2>5, <3>2
  <2>7. /\ IsSeq(A) /\ IsSeq(B) /\ Decoded(A) = a /\ A \in Seq(Range(A)) /\ "?" \notin Range(A)
    <3>1. "?" \notin Range(a)
      BY <2>1 DEF Range
    <3>2. IsSeq(A) /\ Decoded(A) = a /\ ("?" \in Range(A) <=> "?" \in Range(a))
      BY <2>3, EncodedIs
    <3>3. IsSeq(B)
      BY <2>3, EncodedIs
    <3>4. \A s : IsSeq(s) => s \in Seq(Range(s))
      BY DEF IsSeq, Elements, Range
    <3> HIDE DEF A, B
    <3> QED BY <3>1, <3>2, <3>3, <3>4
  <2> HIDE DEF A, B, E, X
  <2>8. target = A \o (<<"?">> \o (B \o X)) /\ IsSeq(B \o X)
    <3> DEFINE W == Elements(A) \cup Elements(B) \cup Elements(X) \cup {"?"}
    <3>1. A \in Seq(W) /\ B \in Seq(W) /\ X \in Seq(W) /\ <<"?">> \in Seq(W)
      <4>1. A \in Seq(Elements(A)) /\ B \in Seq(Elements(B)) /\ X \in Seq(Elements(X))
        BY <1>4, <2>7 DEF IsSeq
      <4> QED BY <4>1
    <3> HIDE DEF W
    <3>2. \A x, y, z \in Seq(W) : (x \o y) \o z = x \o (y \o z)
      BY ConcatAssociative
    <3>3. (A \o (<<"?">> \o B)) \o X = A \o ((<<"?">> \o B) \o X)
      <4>1. <<"?">> \o B \in Seq(W)
        BY <3>1
      <4> QED BY <3>1, <3>2, <4>1
    <3>4. (<<"?">> \o B) \o X = <<"?">> \o (B \o X)
      BY <3>1, <3>2
    <3>5. target = E \o X
      BY DEF E, X
    <3>6. IsSeq(B \o X)
      BY <1>4, <2>7, ConcatIs
    <3> QED BY <2>6, <3>3, <3>4, <3>5, <3>6
  <2>9. Before(target, "?") = A /\ Behind(target, "?") = B \o X
    <3> DEFINE c == B \o X
    <3>1. target = A \o (<<"?">> \o c) /\ IsSeq(c)
      BY <2>8
    <3> HIDE DEF c
    <3>2. Before(target, "?") = A /\ Behind(target, "?") = c
      BY <2>7, <3>1, CutWhereJoined
    <3> QED BY <3>2 DEF c
  <2>10. FirstOf(E, "?") = Len(E) <=> B = << >>
    <3>1. Behind(E, "?") = B
      BY <2>6, <2>7, CutWhereJoined
    <3>2. FirstOf(E, "?") \in 1..Len(E)
      BY <1>2, <1>8, FirstOfIs
    <3>3. B = SubSeq(E, FirstOf(E, "?") + 1, Len(E))
      BY <3>1, <3>2 DEF Behind
    <3>4. E \in Seq(Range(E)) /\ Len(E) \in Nat
      BY <1>2
    <3>5. Len(SubSeq(E, FirstOf(E, "?") + 1, Len(E))) = Len(E) - FirstOf(E, "?")
      BY <3>2, <3>4
    <3>6. B = << >> <=> Len(B) = 0
      BY <2>7, EmptySeq DEF IsSeq
    <3> QED BY <3>2, <3>3, <3>4, <3>5, <3>6
  <2>11. B \o X = Both(B, query)
    <3>1. CASE query = << >>
      <4>1. X = << >>
        BY <3>1 DEF X, QueryPart
      <4>2. B \o X = B
        BY <1>6, <2>7, <4>1
      <4> QED BY <3>1, <4>2 DEF Both
    <3>2. CASE query # << >>
      <4>1. X = IF B = << >> THEN query ELSE <<"&">> \o query
        BY <1>2, <1>8, <2>10, <3>2 DEF X, QueryPart
      <4>2. CASE B = << >>
        BY <1>6, <3>2, <4>1, <4>2 DEF Both
      <4>3. CASE B # << >>
        <5>1. B \o (<<"&">> \o query) = B \o <<"&">> \o query
          <6> DEFINE W == Elements(B) \cup Elements(query) \cup {"&"}
          <6>1. B \in Seq(W) /\ query \in Seq(W) /\ <<"&">> \in Seq(W)
            <7>1. B \in Seq(Elements(B)) /\ query \in Seq(Elements(query))
              BY <2>7 DEF IsSeq
            <7> QED BY <7>1
          <6> HIDE DEF W
          <6>2. \A x, y, z \in Seq(W) : (x \o y) \o z = x \o (y \o z)
            BY ConcatAssociative
          <6> QED BY <6>1, <6>2
        <5> QED BY <3>2, <4>1, <4>3, <5>1 DEF Both
      <4> QED BY <4>2, <4>3
    <3> QED BY <3>1, <3>2
  <2> QED BY <2>7, <2>9, <2>11 DEF a, b, B
<1> QED BY <1>7, <1>8

-----------------------------------------------------------------------------
(* What a request may be, and what was sent of it. *)

\* The fields of a request
RequestFields == {"method", "path", "encode", "params", "cookies", "content", "type",
                  "typeString", "passThrough"}

\* What the setters make of a request: maps of texts, and a type that is written as it is
IsRequest(r) ==
  /\ DOMAIN r = RequestFields
  /\ r.method \in Methods
  /\ Clean(r.path) /\ r.path # << >>
  /\ IsMap(r.params, Texts, Texts) /\ IsMap(r.cookies, CookieNames, CookieValues)
  /\ IsSeq(r.content)
  /\ r.typeString = "" \/ r.typeString = r.type

\* The request is one, and what was sent is what it makes now: no setter is called after it.
WireInv == IsRequest(req) /\ wire \in {Unsent, Message}

\* The paths that are set are of characters that arrive.
LEMMA PathsAreClean ==
  /\ Clean(<<"/">>) /\ <<"/">> # << >>
  /\ \A t \in Texts : Clean(<<"/">> \o t) /\ <<"/">> \o t # << >>
<1>1. IsChar("/")
  BY EscapeAssumption DEF IsChar
<1>2. Clean(<<"/">>) /\ <<"/">> # << >>
  <2>1. <<"/">> \in Seq({"/"}) /\ \A i \in DOMAIN <<"/">> : <<"/">>[i] = "/"
    OBVIOUS
  <2> QED BY <1>1, <2>1, SeqIsSeq DEF Clean
<1>3. ASSUME NEW t \in Texts PROVE Clean(<<"/">> \o t) /\ <<"/">> \o t # << >>
  <2> DEFINE p == <<"/">> \o t
             T == Elements(t)
  <2>1. IsSeq(t) /\ t \in Seq(T) /\ \A i \in 1..Len(t) : IsChar(t[i])
    BY TextsAreClean DEF Clean, IsSeq
  <2>2. IsSeq(p)
    <3>1. IsSeq(<<"/">>)
      BY <1>2 DEF Clean
    <3> QED BY <2>1, <3>1, ConcatIs
  <2>3. /\ Len(t) \in Nat /\ Len(p) = 1 + Len(t) /\ p[1] = "/"
        /\ \A i \in 1..Len(t) : p[1 + i] = t[i]
    BY <2>1, OneBefore
  <2> HIDE DEF p, T
  <2>4. ASSUME NEW i \in DOMAIN p PROVE IsChar(p[i])
    <3>1. i \in 1..(1 + Len(t))
      BY <2>2, <2>3 DEF IsSeq
    <3>2. CASE i = 1
      BY <1>1, <2>3, <3>2
    <3>3. CASE i # 1
      <4> DEFINE j == i - 1
      <4>1. j \in 1..Len(t) /\ 1 + j = i
        BY <2>3, <3>1, <3>3
      <4> HIDE DEF j
      <4>2. p[1 + j] = t[j]
        BY <2>3, <4>1
      <4> QED BY <2>1, <4>1, <4>2
    <3> QED BY <3>2, <3>3
  <2>5. p # << >>
    <3>1. Len(p) # 0
      BY <2>3
    <3> QED BY <3>1
  <2> QED BY <2>2, <2>4, <2>5 DEF Clean, p
<1> QED BY <1>2, <1>3

\* A new request is one.
LEMMA WireStarts == WireInit => WireInv
<1> SUFFICES ASSUME WireInit PROVE WireInv
  OBVIOUS
<1>1. DOMAIN req = RequestFields
  BY DEF WireInit, RequestFields
<1>2. /\ req.method \in Methods /\ req.path = <<"/">> /\ req.params = NoParams
      /\ req.cookies = NoParams /\ req.content = << >>
      /\ req.typeString = "" \/ req.typeString = req.type
  BY DEF WireInit, Methods
<1>3. IsSeq(<< >>)
  <2>1. << >> \in Seq({})
    OBVIOUS
  <2> QED BY <2>1, SeqIsSeq
<1>4. IsRequest(req)
  BY <1>1, <1>2, <1>3, EmptyMap, PathsAreClean DEF IsRequest
<1> QED BY <1>4 DEF WireInit, WireInv

\* A setter that makes a request of a request,
LEMMA SetterKeepsWire ==
  ASSUME NEW changed, WireInv, Setter(changed), IsRequest(changed)
  PROVE  WireInv'
<1>1. wire = Unsent
  <2>1. Message.sent = TRUE
    BY DEF Message
  <2> QED BY <2>1 DEF WireInv, Setter
<1>2. req' = changed /\ wire' = wire
  BY DEF Setter
<1>3. IsRequest(req)'
  BY <1>2 DEF IsRequest
<1> QED BY <1>1, <1>2, <1>3 DEF WireInv, Unsent

\* which every setter does; and sending one.
LEMMA WireKeeps == WireInv /\ [WireNext]_wireVars => WireInv'
<1> SUFFICES ASSUME WireInv, [WireNext]_wireVars PROVE WireInv'
  OBVIOUS
<1> DEFINE fields == RequestFields
<1>0. /\ DOMAIN req = RequestFields /\ IsRequest(req)
  BY DEF WireInv, IsRequest
<1>1. CASE setMethod
  <2>1. PICK m \in Methods : Setter([req EXCEPT !.method = m])
    BY <1>1 DEF setMethod
  <2>2. IsRequest([req EXCEPT !.method = m])
    BY <1>0 DEF IsRequest, RequestFields
  <2> QED BY <2>1, <2>2, SetterKeepsWire
<1>2. CASE setPath
  <2>1. PICK t \in Texts : Setter([req EXCEPT !.path = <<"/">> \o t])
    BY <1>2 DEF setPath
  <2> DEFINE p == <<"/">> \o t
  <2>2. Clean(p) /\ p # << >>
    BY PathsAreClean
  <2> HIDE DEF p
  <2>3. IsRequest([req EXCEPT !.path = p])
    BY <1>0, <2>2 DEF IsRequest, RequestFields
  <2> QED BY <2>1, <2>3, SetterKeepsWire DEF p
<1>3. CASE setPathEncode
  <2>1. IsRequest([req EXCEPT !.encode = FALSE])
    BY <1>0 DEF IsRequest, RequestFields
  <2> QED BY <1>3, <2>1, SetterKeepsWire DEF setPathEncode
<1>4. CASE setParameter
  <2>1. PICK k \in Texts, v \in Texts : Setter([req EXCEPT !.params = With(@, k, v)])
    BY <1>4 DEF setParameter
  <2> DEFINE m == With(req.params, k, v)
  <2>2. IsMap(m, Texts, Texts)
    BY <1>0, OneKeyMore DEF IsRequest
  <2> HIDE DEF m
  <2>3. IsRequest([req EXCEPT !.params = m])
    BY <1>0, <2>2 DEF IsRequest, RequestFields
  <2> QED BY <2>1, <2>3, SetterKeepsWire DEF m
<1>5. CASE addCookie
  <2>1. PICK k \in CookieNames, v \in CookieValues : Setter([req EXCEPT !.cookies = With(@, k, v)])
    BY <1>5 DEF addCookie
  <2> DEFINE m == With(req.cookies, k, v)
  <2>2. IsMap(m, CookieNames, CookieValues)
    BY <1>0, OneKeyMore DEF IsRequest
  <2> HIDE DEF m
  <2>3. IsRequest([req EXCEPT !.cookies = m])
    BY <1>0, <2>2 DEF IsRequest, RequestFields
  <2> QED BY <2>1, <2>3, SetterKeepsWire DEF m
<1>6. CASE setRequestBody
  <2> DEFINE b == <<"body">>
  <2>1. IsSeq(b)
    <3>1. b \in Seq({"body"})
      OBVIOUS
    <3> QED BY <3>1, SeqIsSeq
  <2> HIDE DEF b
  <2>2. IsRequest([req EXCEPT !.content = b])
    BY <1>0, <2>1 DEF IsRequest, RequestFields
  <2> QED BY <1>6, <2>2, SetterKeepsWire DEF setRequestBody, b
<1>7. CASE setContentType
  <2>1. PICK t \in {Form, Plain} : Setter([req EXCEPT !.type = t, !.typeString = t])
    BY <1>7 DEF setContentType
  <2>2. IsRequest([req EXCEPT !.type = t, !.typeString = t])
    BY <1>0 DEF IsRequest, RequestFields
  <2> QED BY <2>1, <2>2, SetterKeepsWire
<1>8. CASE setRequestPassThrough
  <2>1. IsRequest([req EXCEPT !.passThrough = TRUE])
    BY <1>0 DEF IsRequest, RequestFields
  <2> QED BY <1>8, <2>1, SetterKeepsWire DEF setRequestPassThrough
<1>9. CASE appendToBuffer
  <2>1. req' = req /\ upload' = upload /\ wire' = Message
    BY <1>9 DEF appendToBuffer
  <2>2. Message' = Message
    BY <2>1 DEF Message, Target, LengthHeader, TypesSent, Content, Query, PathSent, HasParams,
               EncodedParams, UploadParts, HasBody, ContentLength
  <2> QED BY <1>0, <2>1, <2>2 DEF WireInv, IsRequest
<1>10. CASE UNCHANGED wireVars
  <2>1. req' = req /\ upload' = upload /\ wire' = wire
    BY <1>10 DEF wireVars
  <2>2. Message' = Message
    BY <2>1 DEF Message, Target, LengthHeader, TypesSent, Content, Query, PathSent, HasParams,
               EncodedParams, UploadParts, HasBody, ContentLength
  <2> QED BY <1>0, <2>1, <2>2 DEF WireInv, IsRequest, Unsent
<1> QED
  BY <1>1, <1>2, <1>3, <1>4, <1>5, <1>6, <1>7, <1>8, <1>9, <1>10 DEF WireNext

\* One type is announced, or none.
LEMMA TypesAre ==
  ASSUME ~req.passThrough
  PROVE  TypesSent = IF req.typeString # "" THEN <<req.typeString>>
                     ELSE IF HasBody THEN <<req.type>> ELSE << >>
<1>1. ASSUME NEW e PROVE <<e>> \o << >> = <<e>> /\ << >> \o <<e>> = <<e>>
  <2>1. <<e>> \in Seq({e})
    OBVIOUS
  <2> QED BY <2>1, ConcatEmptySeq
<1>2. << >> \o << >> = << >>
  OBVIOUS
<1> QED BY <1>1, <1>2, Zenon DEF TypesSent

\* What is made of such a request is read as it was meant.
LEMMA WireInvIsEnough == WireInv => RequestArrives
<1> SUFFICES ASSUME WireInv, wire.sent PROVE RequestArrives
  BY DEF RequestArrives, FramingExact, FormArrives, PathArrives, CookiesArrive
<1>1. wire = Message /\ IsRequest(req)
  BY DEF WireInv, Unsent
<1>2. /\ wire.target = Target /\ wire.length = LengthHeader /\ wire.types = TypesSent
      /\ wire.cookie = JoinWith(CookiePairs(req.cookies), ";")
      /\ wire.body = Content \o req.content
  BY <1>1 DEF Message
<1>3. /\ req.method \in Methods /\ Clean(req.path) /\ req.path # << >>
      /\ IsMap(req.params, Texts, Texts) /\ IsMap(req.cookies, CookieNames, CookieValues)
      /\ IsSeq(req.content) /\ (req.typeString = "" \/ req.typeString = req.type)
  BY <1>1 DEF IsRequest
<1>4. IsSeq(<< >>) /\ \A s : IsSeq(s) => s \o << >> = s
  <2>1. << >> \in Seq({})
    OBVIOUS
  <2> QED BY <2>1, SeqIsSeq, ConcatEmptySeq DEF IsSeq
<1>5. /\ IsSeq(EncodedParams) /\ ParseForm(EncodedParams) = req.params
      /\ req.params = NoParams => EncodedParams = << >>
  BY <1>3, FormRead DEF EncodedParams
<1>6. IsSeq(Content) /\ IsSeq(Query)
  <2>1. IsSeq(UploadParts)
    <3>1. Cardinality(DOMAIN req.params) + 2 \in Nat
      <4>1. IsFiniteSet(DOMAIN req.params)
        BY <1>3 DEF IsMap
      <4> QED BY <4>1, FS_CardinalityType
    <3> DEFINE n == Cardinality(DOMAIN req.params) + 2
    <3>2. UploadParts = [i \in 1..n |-> "part"]
      BY DEF UploadParts
    <3> HIDE DEF n
    <3>3. [i \in 1..n |-> "part"] \in Seq({"part"})
      BY <3>1 DEF n
    <3> QED BY <3>2, <3>3, SeqIsSeq
  <2> QED BY <1>4, <1>5, <2>1 DEF Content, Query
<1>7. FramingExact
  <2> SUFFICES ASSUME ~req.passThrough
               PROVE  /\ wire.length = IF wire.body = << >> /\ req.method = "GET" THEN -1
                                       ELSE Len(wire.body)
                      /\ Len(wire.types) <= 1
    BY DEF FramingExact
  <2>1. /\ IsSeq(wire.body) /\ Len(wire.body) = Len(Content) + Len(req.content)
        /\ Len(Content) \in Nat /\ Len(req.content) \in Nat
    <3> DEFINE a == Content
               b == req.content
    <3>1. IsSeq(a) /\ IsSeq(b) /\ wire.body = a \o b
      BY <1>2, <1>3, <1>6
    <3> HIDE DEF a, b
    <3>2. IsSeq(a \o b) /\ Len(a \o b) = Len(a) + Len(b) /\ Len(a) \in Nat /\ Len(b) \in Nat
      BY <3>1, ConcatIs
    <3> QED BY <3>1, <3>2 DEF a, b
  <2>2. \A s : IsSeq(s) => (s = << >> <=> Len(s) = 0)
    BY EmptySeq DEF IsSeq
  <2>3. HasBody <=> Len(wire.body) # 0
    <3>1. (Content = << >> <=> Len(Content) = 0) /\ (req.content = << >> <=> Len(req.content) = 0)
      BY <1>3, <1>6, <2>2
    <3> QED BY <2>1, <3>1 DEF HasBody
  <2>4. wire.length = IF wire.body = << >> /\ req.method = "GET" THEN -1 ELSE Len(wire.body)
    BY <1>2, <1>3, <2>1, <2>2, <2>3 DEF LengthHeader, ContentLength, Methods
  <2>5. Len(wire.types) <= 1
    <3>1. wire.types = IF req.typeString # "" THEN <<req.typeString>>
                       ELSE IF HasBody THEN <<req.type>> ELSE << >>
      BY <1>2, TypesAre
    <3>2. Len(<< >>) <= 1 /\ \A e : Len(<<e>>) <= 1
      OBVIOUS
    <3> QED BY <3>1, <3>2, Zenon
  <2> QED BY <2>4, <2>5
<1>8. Target = PathSent \o QueryPart(PathSent, Query)
  BY DEF Target, QueryPart
<1>9. FormArrives
  <2> SUFFICES ASSUME ~req.passThrough, req.type = Form, req.content = << >>,
                      "?" \notin Range(req.path)
               PROVE  parseParameters = [ends |-> TRUE, parameters |-> req.params]
    BY DEF FormArrives
  <2>1. Query = << >>
    BY DEF Query
  <2>2. IsSeq(PathSent) /\ "?" \notin Range(PathSent)
    BY <1>3, EncodedIs DEF PathSent, Clean
  <2>3. QueryView = << >>
    <3>1. wire.target = PathSent
      BY <1>2, <1>4, <1>8, <2>1, <2>2 DEF QueryPart
    <3>2. PathSent \in Seq(Elements(PathSent))
      BY <2>2 DEF IsSeq
    <3> QED BY <2>2, <3>1, <3>2, NotCut DEF QueryView
  <2>4. Content = EncodedParams
    BY <1>5 DEF Content, HasParams, Form, Multipart
  <2>5. wire.body = EncodedParams
    BY <1>2, <1>4, <1>5, <2>4
  <2>6. wire.types = << >> \/ wire.types[1] = Form
    <3>1. wire.types = IF req.typeString # "" THEN <<req.typeString>>
                       ELSE IF HasBody THEN <<req.type>> ELSE << >>
      BY <1>2, TypesAre
    <3>2. \A e : <<e>>[1] = e
      OBVIOUS
    <3> QED BY <1>3, <3>1, <3>2, Zenon
  <2> QED BY <1>5, <2>3, <2>5, <2>6 DEF parseParameters
<1>10. PathArrives
  <2> SUFFICES ASSUME req.encode
               PROVE  /\ Path = Before(req.path, "?")
                      /\ QueryView = Both(EncodedPath(Behind(req.path, "?")), Query)
    BY DEF PathArrives
  <2>1. wire.target = EncodedPath(req.path) \o QueryPart(EncodedPath(req.path), Query)
    BY <1>2, <1>8 DEF PathSent
  <2> QED BY <1>3, <1>6, <2>1, PathRead DEF Path, QueryView
<1>11. CookiesArrive
  <2>1. Cookies = LastShortened(req.cookies)
    BY <1>2, <1>3, CookiesArriveShortened, Zenon DEF Cookies
  <2> QED BY <2>1 DEF CookiesArrive, LastShortened
<1> QED BY <1>7, <1>9, <1>10, <1>11 DEF RequestArrives

\* What a client's program puts into a request is what the server's program gets out of it.
THEOREM RequestsArrive == WireSpec => []RequestArrives
<1>1. WireInit => WireInv
  BY WireStarts
<1>2. WireInv /\ [WireNext]_wireVars => WireInv'
  BY WireKeeps
<1>3. WireInv => RequestArrives
  BY WireInvIsEnough
<1> QED BY <1>1, <1>2, <1>3, PTL DEF WireSpec
=============================================================================
