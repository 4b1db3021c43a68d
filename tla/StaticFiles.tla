---------------------------- MODULE StaticFiles ----------------------------
(***************************************************************************)
(* StaticFileRouter on one IO loop: which file a path names, whether the   *)
(* client may have it, and the responses kept for staticFilesCacheTime_.   *)
(*                                                                         *)
(* Each loop has its own locations, kept responses and timers, so one loop *)
(* is the whole of it.  Other processes change the files at any time; the  *)
(* filters of a location may answer later.  A path is a sequence of pieces *)
(* ("/", names, extensions); a modification time is a second.              *)
(***************************************************************************)
EXTENDS Integers, Sequences, FiniteSets

CONSTANTS
  Locations,    \* the sequence of addALocation's arguments
  Paths,        \* the request paths
  Lower,        \* tolower of each piece
  Extensions,   \* the pieces that start with a dot
  FileTypes,    \* fileTypeSet_
  DocRoot,      \* document root, as pieces
  IndexPage,    \* implicitPage_ with its "/", as pieces; << >> when disabled
  Dirs,         \* the directories, as pieces
  Volatile,     \* the file that other processes rewrite
  Files,        \* the regular files, as pieces
  CacheTime,    \* staticFilesCacheTime_: negative for no cache
  MaxWaiting,   \* bound of the model: requests in filters at a time
  MaxFileTime   \* bound of the model, in seconds

\* tolower leaves the separators and ".." as they are.
ASSUME LowerAssumption ==
  /\ Lower \in [DOMAIN Lower -> DOMAIN Lower]
  /\ \A p \in DOMAIN Lower : (Lower[p] = "/" <=> p = "/") /\ (Lower[p] = ".." <=> p = "..")
ASSUME PathsAssumption ==
  /\ Paths \subseteq Seq(DOMAIN Lower)
  /\ DOMAIN Locations = 1..Len(Locations)
  /\ \A l \in DOMAIN Locations : Locations[l].uri \in Seq(DOMAIN Lower)
ASSUME CacheTimeAssumption == CacheTime \in Int

VARIABLES
  fileNow,      \* seconds
  mtime,        \* of Volatile
  zipped,       \* Volatile has a ".gz" beside it
  uri,          \* uriPrefix_ of each location, in lower case once used
  kept,         \* staticFilesCache_: [since, encoded] of each file kept
  timer,        \* staticFilesCacheMap_: the ticks left of each file kept
  waiting,      \* requests in the filters of their location: [file, req]
  served,       \* what the last answer was
  seen          \* the modification times Volatile had, with the second each ended

staticVars == <<fileNow, mtime, zipped, uri, kept, timer, waiting, served, seen>>

\* What a request wants: the file, the file with gzip accepted, a range that lies in it
\* or not, or something another method than GET asks for.
Wants == {"plain", "gzip", "inside", "beyond", "post"}

Lowered(path) == [i \in DOMAIN path |-> Lower[path[i]]]
LastAt(path, Pieces) ==
  LET At == {i \in DOMAIN path : path[i] \in Pieces}
  IN  IF At = {} THEN 0 ELSE CHOOSE i \in At : \A j \in At : j <= i
Rest(path, n) == SubSeq(path, n + 1, Len(path))

Nothing == [kind |-> "none"]

StaticInit ==
  /\ fileNow = 1
  /\ mtime = 1
  /\ zipped \in BOOLEAN
  /\ uri = [l \in DOMAIN Locations |-> Locations[l].uri]
  /\ kept = << >>
  /\ timer = << >>
  /\ waiting = {}
  /\ served = Nothing
  /\ seen = {}

-----------------------------------------------------------------------------
(* Which file a path names. *)

\* Climbs above the root at some point: "Downloading files from the parent folder".
StepOf(piece) == IF piece = "/" THEN 0 ELSE IF piece = ".." THEN -1 ELSE 1
Steps(path)   == [i \in DOMAIN path |-> StepOf(path[i])]
Level(steps) ==
  LET level[n \in 0..Len(steps)] ==
        IF n = 0 THEN 0
        ELSE IF level[n - 1] < 0 THEN level[n - 1] ELSE level[n - 1] + steps[n]
  IN  level[Len(steps)]
Depth(path) == Level(Steps(path))

\* What the path is compared as: the prefix is put in lower case with the first use.
ComparedAs(l, path) == IF Locations[l].caseSensitive THEN path ELSE Lowered(path)
Realized(l, prefix) == IF Locations[l].caseSensitive THEN prefix ELSE Lowered(prefix)

StartsWith(path, prefix) ==
  Len(path) >= Len(prefix) /\ SubSeq(path, 1, Len(prefix)) = prefix

\* The first location whose prefix the path has, 0 if none.
LocationOf(path) ==
  LET Fit == {l \in DOMAIN Locations : StartsWith(ComparedAs(l, path), Realized(l, uri[l]))}
  IN  IF Fit = {} THEN 0 ELSE CHOOSE l \in Fit : \A m \in Fit : l <= m

\* The locations tried on the way have their prefixes put in lower case.
Prepare(path) ==
  uri' = [l \in DOMAIN uri |->
            IF LocationOf(path) = 0 \/ l <= LocationOf(path) THEN Realized(l, uri[l])
            ELSE uri[l]]

Refused == [kind |-> "forbidden"]
NotFound == [kind |-> "not found"]
Serve(file, filtered) == [kind |-> "serve", file |-> file, filtered |-> filtered]

Typed(path) == LET dot == LastAt(path, Extensions)
               IN  dot # 0 /\ Lower[path[dot]] \in FileTypes

InLocation(l, path) ==
  LET rest == Rest(path, Len(uri[l]))
      file == Locations[l].alias \o rest
  IN  IF LastAt(rest, {"/"}) > 1 /\ ~Locations[l].recursive THEN Refused
      ELSE IF file \in Dirs
      THEN IF IndexPage = << >> THEN Refused
           ELSE Serve(file \o IndexPage, Locations[l].filtered)
      ELSE IF file \notin Files THEN NotFound
      ELSE IF Locations[l].allowAll \/ Typed(rest) THEN Serve(file, Locations[l].filtered)
      ELSE Refused

InDocRoot(path) ==
  LET file == DocRoot \o path
  IN  IF file \in Dirs
      THEN IF IndexPage = << >> THEN Refused ELSE Serve(file \o IndexPage, FALSE)
      ELSE IF file \in Files
      THEN IF LastAt(path, Extensions) = 0 THEN Refused
           ELSE IF Typed(path) THEN Serve(file, FALSE) ELSE NotFound
      ELSE NotFound

Route(path) ==
  IF Depth(path) < 0 THEN Refused
  ELSE IF LocationOf(path) # 0 THEN InLocation(LocationOf(path), path)
  ELSE InDocRoot(path)

-----------------------------------------------------------------------------
(* What is sent. *)

MtimeOf(file) == IF file = Volatile THEN mtime ELSE 1
Zipped(file) == file = Volatile /\ zipped

\* Mutant: a response found in the cache is kept for another while.
KeptUntilUnused(file) ==
  /\ timer' = [timer EXCEPT ![file] = CacheTime + 1]
  /\ UNCHANGED kept
UseKept(file) == UNCHANGED <<kept, timer>>

\* The timeout callback of the CacheMap entry erases the kept response.
KeepResponse(file, resp) ==
  IF CacheTime < 0 THEN UNCHANGED <<kept, timer>>
  ELSE /\ kept' = [f \in DOMAIN kept \cup {file} |-> IF f = file THEN resp ELSE kept[f]]
       /\ timer' = [f \in DOMAIN timer \cup {file} |->
                      IF f = file THEN CacheTime + 1 ELSE timer[f]]

UnchangedSince(since, modified) == since = modified

Answer(kind, file, req, since, encoded) ==
  served' = [kind |-> kind, file |-> file, req |-> req, since |-> since, encoded |-> encoded]

\* sendStaticFileResponse of a request without a range that counts
SendWhole(file, req) ==
  IF file \in DOMAIN kept
  THEN /\ UseKept(file)
       /\ IF UnchangedSince(req.since, kept[file].since)
          THEN Answer("not modified", file, req, kept[file].since, FALSE)
          ELSE Answer("whole", file, req, kept[file].since, kept[file].encoded)
  ELSE IF file \notin Files
  THEN UNCHANGED <<kept, timer>> /\ served' = NotFound
  ELSE IF UnchangedSince(req.since, MtimeOf(file))
  THEN UNCHANGED <<kept, timer>> /\ Answer("not modified", file, req, MtimeOf(file), FALSE)
  ELSE LET resp == [since |-> MtimeOf(file), encoded |-> req.want = "gzip" /\ Zipped(file)]
       IN  /\ KeepResponse(file, resp)
           /\ Answer("whole", file, req, resp.since, resp.encoded)

\* sendStaticFileResponse: a range is answered from the file, never from the cache.
SendFile(file, req) ==
  IF req.want = "post" THEN UNCHANGED <<kept, timer>> /\ served' = [kind |-> "bad method"]
  ELSE IF req.want \in {"plain", "gzip"} THEN SendWhole(file, req)
  ELSE /\ UNCHANGED <<kept, timer>>
       /\ IF file \notin Files THEN served' = NotFound
          ELSE IF UnchangedSince(req.since, MtimeOf(file))
          THEN Answer("not modified", file, req, MtimeOf(file), FALSE)
          ELSE IF req.want = "inside"
          THEN Answer("part", file, req, MtimeOf(file), FALSE)
          ELSE served' = [kind |-> "not satisfiable"]

\* The times a conditional request may carry: those of copies a client was given.
Times == {0, mtime} \cup {s[1] : s \in seen}

route(path) ==
  LET to == Route(path)
      Asked == [since : Times, want : Wants]
  IN  /\ Prepare(path)
      /\ CASE to.kind # "serve" ->
                served' = to /\ UNCHANGED <<kept, timer, waiting>>
           [] to.kind = "serve" /\ to.filtered ->
                /\ \E req \in Asked : waiting' = waiting \cup {[file |-> to.file, req |-> req]}
                /\ served' = Nothing
                /\ UNCHANGED <<kept, timer>>
           [] OTHER ->
                (\E req \in Asked : SendFile(to.file, req)) /\ UNCHANGED waiting
      /\ UNCHANGED <<fileNow, mtime, zipped, seen>>

Request == Cardinality(waiting) < MaxWaiting /\ \E path \in Paths : route(path)

\* doFilters calls back, with a response or without one.
FiltersEnd ==
  \E w \in waiting :
    /\ waiting' = waiting \ {w}
    /\ \/ SendFile(w.file, w.req)
       \/ served' = [kind |-> "filtered"] /\ UNCHANGED <<kept, timer>>
    /\ UNCHANGED <<fileNow, mtime, zipped, uri, seen>>

\* A second passes: the wheels turn, and the callbacks of the entries that end run.
FileTick ==
  /\ fileNow < MaxFileTime
  /\ fileNow' = fileNow + 1
  /\ LET left == {f \in DOMAIN timer : timer[f] > 1}
     IN  /\ timer' = [f \in left |-> timer[f] - 1]
         /\ kept' = [f \in DOMAIN kept \ (DOMAIN timer \ left) |-> kept[f]]
  /\ served' = Nothing
  /\ UNCHANGED <<mtime, zipped, uri, waiting, seen>>

\* Another process rewrites the file, the time being a new one.
Rewrite ==
  /\ mtime < fileNow
  /\ mtime' = fileNow
  /\ zipped' \in BOOLEAN
  /\ seen' = seen \cup {<<mtime, fileNow>>}
  /\ served' = Nothing
  /\ UNCHANGED <<fileNow, uri, kept, timer, waiting>>

StaticNext == Request \/ FiltersEnd \/ FileTick \/ Rewrite

StaticSpec == StaticInit /\ [][StaticNext]_staticVars

-----------------------------------------------------------------------------
\* The file had this time, at the latest `ago` seconds before now.
HadAt(file, time, ago) ==
  IF file # Volatile THEN time = 1
  ELSE time = mtime \/ \E s \in seen : s[1] = time /\ s[2] >= fileNow - ago

\* A client is given, or told to go on using, no copy that was replaced longer ago than
\* the cache time; a range and an uncached file are never behind.
Fresh ==
  served.kind \in {"whole", "part", "not modified"} =>
    HadAt(served.file, served.since,
          IF served.req.want \in {"plain", "gzip"} /\ CacheTime >= 0 THEN CacheTime ELSE 0)

\* "Not modified" is said only of the copy the client has.
NotModifiedOfItsCopy == served.kind = "not modified" => served.req.since = served.since

\* Every kept response has its timer, and the timeout callback finds what it erases
\* (the assertion of the callback).
KeptAndTimed == DOMAIN kept = DOMAIN timer

\* A location that ignores case answers the same whatever the case of its prefix, also
\* before its first use has put the prefix in lower case.
PrefixCaseIgnored ==
  \A p \in Paths :
    LET l == LocationOf(p)
        n == Len(uri[l])
        SamePath(q) == /\ Len(q) >= n
                       /\ Lowered(SubSeq(p, 1, n)) = Lowered(SubSeq(q, 1, n))
                       /\ Rest(p, n) = Rest(q, n)
    IN  l # 0 /\ (\A m \in 1..l : ~Locations[m].caseSensitive)
        => \A q \in Paths \ {p} : SamePath(q) => Route(p) = Route(q)

\* A client gets the file its path names, in a state it had not long ago.
FilesCurrent == Fresh /\ NotModifiedOfItsCopy /\ KeptAndTimed /\ PrefixCaseIgnored
=============================================================================
