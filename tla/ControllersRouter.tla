------------------------- MODULE ControllersRouter -------------------------
(***************************************************************************)
(* HttpControllersRouter: which handler a request reaches, and with which  *)
(* arguments (HttpBinder).                                                 *)
(*                                                                         *)
(* Routes are registered on the main thread before the application runs.   *)
(* A controller named by its class is looked up later, by a closure queued *)
(* in the main loop; init() then walks the routes and creates filters and  *)
(* CORS lists; the requests come last.                                     *)
(*                                                                         *)
(* A path is a sequence of segments.  A pattern has, besides literals,     *)
(* placeholders: {2} and {2:name} name a place, {} and {name} take the     *)
(* next one.  A regular expression is the pattern of its groups, whose     *)
(* places are 0.                                                           *)
(***************************************************************************)
EXTENDS Integers, Sequences, FiniteSets, SequencesExt

CONSTANTS
  Registrations,   \* the registrations a program may make
  MaxRegistered,   \* bound of the model: how many it makes
  Classes,         \* the controller classes that exist
  FilterClasses,   \* the filter classes that exist
  Methods,         \* HttpMethod, without Invalid
  LowerSegment,    \* tolower of each segment
  Convert,         \* the value of an argument string for each parameter type
  Fails,           \* Convert's result when the conversion throws
  RoutedRequests,  \* the requests that arrive
  Null             \* a null pointer

\* A piece of a pattern: a literal has the place -1.
Segment == [name : STRING, place : Int]
Kinds == {"simple", "path", "regex", "ws", "wsRegex"}

\* createFilters: the filters whose classes exist
Existing(names) == SelectSeq(names, LAMBDA f : f \in FilterClasses)

ASSUME RouterAssumption ==
  /\ Null \notin Nat
  /\ \A reg \in Registrations :
       /\ reg.kind \in Kinds /\ reg.methods \subseteq Methods
       /\ reg.pattern \in Seq(Segment) /\ reg.query \in Seq(Segment)
       /\ reg.types \in Seq(DOMAIN Convert)
       /\ Existing(reg.filters) # Null
  /\ \A req \in RoutedRequests : req.method \in Methods

VARIABLES
  routing,         \* "registering", "running", or "exited" by a bad placeholder
  simpleCtrlMap,   \* lowered path -> binders_
  ctrlMap,         \* lowered path -> router item
  ctrlVector,      \* router items of patterns, in the order they are tried
  wsCtrlMap,       \* lowered path -> binders_
  wsCtrlVector,    \* router items of WebSocket patterns
  binders,         \* every ControllerBinderBase made so far
  loopQueue,       \* closures queued in the main loop: the binders to resolve
  history          \* the registrations made, for the properties

routes == <<simpleCtrlMap, ctrlMap, ctrlVector, wsCtrlMap, wsCtrlVector>>
routerVars == <<routing, routes, binders, loopQueue, history>>

-----------------------------------------------------------------------------
(* Paths and patterns.                                                     *)

Lowered(path) == [i \in DOMAIN path |-> LowerSegment[path[i]]]

IsHolder(segment) == segment.place >= 0

\* The places of the placeholders, in their order.
HolderAt(pattern) ==
  LET P == {i \in DOMAIN pattern : IsHolder(pattern[i])}
  IN  [j \in 1..Cardinality(P) |-> CHOOSE i \in P : Cardinality({k \in P : k < i}) = j - 1]
Holders(pattern) == [j \in DOMAIN HolderAt(pattern) |-> pattern[HolderAt(pattern)[j]]]

\* pathParameterPattern_: every placeholder becomes a group.
Grouped(pattern) ==
  [i \in DOMAIN pattern |->
     IF IsHolder(pattern[i]) THEN [name |-> "", place |-> 0] ELSE pattern[i]]
Literals(pattern) == [i \in DOMAIN pattern |-> pattern[i].name]
Spelled(path) == [i \in DOMAIN path |-> [name |-> path[i], place |-> -1]]

\* std::regex_match, with std::regex_constants::icase and without
Matches(path, pattern) ==
  /\ Len(path) = Len(pattern)
  /\ \A i \in DOMAIN path : IsHolder(pattern[i]) \/ LowerSegment[path[i]] = LowerSegment[pattern[i].name]
MatchesExactly(path, pattern) ==
  Matches(path, pattern) /\ \A i \in DOMAIN path : IsHolder(pattern[i]) \/ path[i] = pattern[i].name

Groups(path, pattern) == [j \in DOMAIN HolderAt(pattern) |-> path[HolderAt(pattern)[j]]]

\* The place of each placeholder of addHttpPath: its number, or how many
\* placeholders the scan has met, those of the path before those of the query.
Places(holders) ==
  [j \in DOMAIN holders |-> IF holders[j].place > 0 THEN holders[j].place ELSE j]

\* Out of range, or given twice: exit(1).
PlacesBad(reg) ==
  \/ \E h \in Range(Holders(reg.pattern) \o reg.query) : h.place > Len(reg.types)
  \/ ~IsInjective(Places(Holders(reg.pattern) \o reg.query))

-----------------------------------------------------------------------------
(* Registration.                                                           *)

NoBinders == [m \in Methods |-> Null]

\* addCtrlBinderToRouterItem: no method means all of them.
Bound(reg) == IF reg.methods = {} THEN Methods ELSE reg.methods

\* Mutant: a method that is bound keeps its binder.
WithBinderFirst(bs, reg) ==
  [m \in Methods |-> IF m \in Bound(reg) /\ bs[m] = Null
                     THEN Len(binders) + 1 ELSE bs[m]]

\* The binder of a method is the one registered last.
WithBinder(bs, reg) ==
  [m \in Methods |-> IF m \in Bound(reg) THEN Len(binders) + 1 ELSE bs[m]]

Entry(map, key, new) == IF key \in DOMAIN map THEN map[key] ELSE new
PutItem(map, key, value) ==
  [k \in DOMAIN map \cup {key} |-> IF k = key THEN value ELSE map[k]]

Item(reg) ==
  [pattern |-> reg.pattern, grouped |-> Grouped(reg.pattern), binders |-> NoBinders]

\* addRegexCtrlBinder: a pattern registered before is extended where it stands.
AddRegexCtrlBinder(reg) ==
  LET Same == {i \in DOMAIN ctrlVector : ctrlVector[i].grouped = Grouped(reg.pattern)}
  IN  ctrlVector' =
        IF Same = {}
        THEN Append(ctrlVector,
                    [Item(reg) EXCEPT !.binders = WithBinder(NoBinders, reg)])
        ELSE [i \in DOMAIN ctrlVector |->
                IF i \in Same
                THEN [ctrlVector[i] EXCEPT !.binders = WithBinder(@, reg)]
                ELSE ctrlVector[i]]

Binder(reg) ==
  [handler |-> reg.handler, path |-> Lowered(Literals(reg.pattern)),
   kind |-> reg.kind, filterNames |-> reg.filters, filters |-> Null,
   isCORS |-> "options" \in Bound(reg), corsMethods |-> Null, controller |-> Null,
   places |-> IF reg.kind = "path" THEN Places(Holders(reg.pattern)) ELSE <<>>,
   queryPlaces |->
     IF reg.kind # "path" THEN <<>>
     ELSE LET at == Places(Holders(reg.pattern) \o reg.query)
          IN  [j \in DOMAIN reg.query |->
                 [name |-> reg.query[j].name,
                  place |-> at[Len(Holders(reg.pattern)) + j]]],
   types |-> reg.types]

Record(reg) ==
  /\ binders' = Append(binders, Binder(reg))
  /\ history' = Append(history, reg)
  /\ UNCHANGED routing

\* registerHttpSimpleController
RegisterSimple(reg) ==
  LET path == Lowered(Literals(reg.pattern))
  IN  /\ reg.kind = "simple"
      /\ simpleCtrlMap' =
           PutItem(simpleCtrlMap, path, WithBinder(Entry(simpleCtrlMap, path, NoBinders), reg))
      /\ loopQueue' = Append(loopQueue, Len(binders) + 1)
      /\ Record(reg)
      /\ UNCHANGED <<ctrlMap, ctrlVector, wsCtrlMap, wsCtrlVector>>

\* registerWebSocketController
RegisterWs(reg) ==
  LET path == Lowered(Literals(reg.pattern))
  IN  /\ reg.kind = "ws"
      /\ wsCtrlMap' = PutItem(wsCtrlMap, path, WithBinder(Entry(wsCtrlMap, path, NoBinders), reg))
      /\ loopQueue' = Append(loopQueue, Len(binders) + 1)
      /\ Record(reg)
      /\ UNCHANGED <<simpleCtrlMap, ctrlMap, ctrlVector, wsCtrlVector>>

\* registerWebSocketControllerRegex: every registration is an item of its own.
RegisterWsRegex(reg) ==
  /\ reg.kind = "wsRegex"
  /\ wsCtrlVector' =
       Append(wsCtrlVector, [Item(reg) EXCEPT !.binders = WithBinder(NoBinders, reg)])
  /\ loopQueue' = Append(loopQueue, Len(binders) + 1)
  /\ Record(reg)
  /\ UNCHANGED <<simpleCtrlMap, ctrlMap, ctrlVector, wsCtrlMap>>

\* addHttpRegex
AddHttpRegex(reg) ==
  /\ reg.kind = "regex"
  /\ AddRegexCtrlBinder(reg)
  /\ Record(reg)
  /\ UNCHANGED <<simpleCtrlMap, ctrlMap, wsCtrlMap, wsCtrlVector, loopQueue>>

\* addHttpPath
AddHttpPath(reg) ==
  /\ reg.kind = "path"
  /\ UNCHANGED <<simpleCtrlMap, wsCtrlMap, wsCtrlVector, loopQueue>>
  /\ \/ /\ PlacesBad(reg)
        /\ routing' = "exited"
        /\ UNCHANGED <<ctrlMap, ctrlVector, binders, history>>
     \/ /\ ~PlacesBad(reg)
        /\ Holders(reg.pattern) # <<>>
        /\ AddRegexCtrlBinder(reg)
        /\ Record(reg)
        /\ UNCHANGED ctrlMap
     \/ /\ ~PlacesBad(reg)
        /\ Holders(reg.pattern) = <<>>
        /\ LET path == Lowered(Literals(reg.pattern))
               item == Entry(ctrlMap, path, Item(reg))
           IN  ctrlMap' = PutItem(ctrlMap, path,
                              [item EXCEPT !.binders = WithBinder(@, reg)])
        /\ Record(reg)
        /\ UNCHANGED ctrlVector

Register(reg) ==
  /\ routing = "registering"
  /\ Len(history) < MaxRegistered
  /\ \/ RegisterSimple(reg) \/ RegisterWs(reg) \/ RegisterWsRegex(reg)
     \/ AddHttpRegex(reg) \/ AddHttpPath(reg)

-----------------------------------------------------------------------------
(* The main loop and init.                                                 *)

\* HttpAppFrameworkImpl::run: registration is over, the main loop starts.
Run ==
  /\ routing = "registering"
  /\ routing' = "starting"
  /\ UNCHANGED <<routes, binders, loopQueue, history>>

Without(map, key) == [k \in DOMAIN map \ {key} |-> map[k]]

\* The closure of a registration by class name: no such class, and the whole path
\* goes, whoever else is registered on it.
Resolve ==
  /\ routing \in {"starting", "running"}
  /\ loopQueue # <<>>
  /\ LET b == Head(loopQueue)
         found == binders[b].handler \in Classes
     IN  /\ binders' = IF found
                       THEN [binders EXCEPT ![b].controller = binders[b].handler]
                       ELSE binders
         /\ simpleCtrlMap' = IF ~found /\ binders[b].kind = "simple"
                             THEN Without(simpleCtrlMap, binders[b].path)
                             ELSE simpleCtrlMap
         /\ wsCtrlMap' = IF ~found /\ binders[b].kind = "ws"
                         THEN Without(wsCtrlMap, binders[b].path)
                         ELSE wsCtrlMap
  /\ loopQueue' = Tail(loopQueue)
  /\ UNCHANGED <<routing, ctrlMap, ctrlVector, wsCtrlVector, history>>

BoundIn(bs) == {bs[m] : m \in Methods} \ {Null}

\* Every item init visits, as its binders_; the WebSocket patterns are left out.
Visited ==
  {simpleCtrlMap[p] : p \in DOMAIN simpleCtrlMap}
    \cup {wsCtrlMap[p] : p \in DOMAIN wsCtrlMap}
    \cup {ctrlVector[i].binders : i \in DOMAIN ctrlVector}
    \cup {ctrlMap[p].binders : p \in DOMAIN ctrlMap}

\* The one string the binders of an item share.
CorsMethods(bs) ==
  LET listed == {m \in Methods : bs[m] # Null /\ binders[bs[m]].isCORS}
  IN  {"options"} \cup listed \cup (IF "get" \in listed THEN {"head"} ELSE {})

\* initFiltersAndCorsMethods
InitFiltersAndCors(b) ==
  LET items == {bs \in Visited : b \in BoundIn(bs)}
  IN  IF items = {} THEN binders[b]
      ELSE [binders[b] EXCEPT
              !.filters = Existing(binders[b].filterNames),
              !.corsMethods = CorsMethods(CHOOSE bs \in items : TRUE)]

InitRouter ==
  /\ routing = "starting"
  /\ binders' = [b \in DOMAIN binders |-> InitFiltersAndCors(b)]
  /\ routing' = "running"
  /\ UNCHANGED <<routes, loopQueue, history>>

RouterInit ==
  /\ routing = "registering"
  /\ simpleCtrlMap = <<>> /\ ctrlMap = <<>> /\ wsCtrlMap = <<>>
  /\ ctrlVector = <<>> /\ wsCtrlVector = <<>>
  /\ binders = <<>>
  /\ loopQueue = <<>>
  /\ history = <<>>

RouterNext == Run \/ Resolve \/ InitRouter \/ \E reg \in Registrations : Register(reg)

RouterSpec == RouterInit /\ [][RouterNext]_routerVars

-----------------------------------------------------------------------------
(* Requests.                                                               *)

Outcome(result, b, matched, params) ==
  [result |-> result, binder |-> b, matched |-> matched, params |-> params]
NotFound == Outcome("NotFound", Null, Null, <<>>)
AtItem(bs, req, matched, params) ==
  IF bs[req.method] = Null THEN Outcome("MethodNotAllowed", Null, matched, <<>>)
  ELSE Outcome("Success", bs[req.method], matched, params)

\* The vector of arguments: the groups at their places, then the query's
\* parameters at theirs; a place nobody fills is an empty string.
Params(b, groups, query) ==
  LET placeOf(j) == IF j <= Len(binders[b].places) THEN binders[b].places[j] ELSE j
      byPath  == {<<placeOf(j), groups[j]>> : j \in DOMAIN groups}
      byQuery == {<<q.place, query[q.name]>> : q \in Range(binders[b].queryPlaces)}
      size    == Max({p[1] : p \in byPath \cup byQuery} \cup {0})
      Value(n, pairs) == (CHOOSE p \in pairs : p[1] = n)[2]
      Filled(pairs) == {p[1] : p \in pairs}
  IN  [n \in 1..size |->
         IF n \in Filled(byQuery) THEN Value(n, byQuery)
         ELSE IF n \in Filled(byPath) THEN Value(n, byPath)
         ELSE ""]

\* The first pattern of the vector that matches and has the method.
FirstPattern(req) ==
  LET fits == {i \in DOMAIN ctrlVector :
                 /\ ctrlVector[i].binders[req.method] # Null
                 /\ Matches(req.path, ctrlVector[i].grouped)}
  IN  IF fits = {} THEN 0 ELSE Min(fits)

route(req) ==
  LET path == Lowered(req.path)
      i == FirstPattern(req)
      Http(item, groups) ==
        LET b == item.binders[req.method]
        IN  AtItem(item.binders, req, item.pattern,
               IF b = Null THEN <<>> ELSE Params(b, groups, req.query))
  IN  IF path \in DOMAIN simpleCtrlMap
      THEN AtItem(simpleCtrlMap[path], req, Spelled(path), <<>>)
      ELSE IF path \in DOMAIN ctrlMap THEN Http(ctrlMap[path], <<>>)
      ELSE IF i # 0
      THEN Http(ctrlVector[i], Groups(req.path, ctrlVector[i].grouped))
      ELSE NotFound

\* routeWs; the patterns are compiled without icase.
routeWs(req) ==
  LET path == Lowered(req.path)
      fits == {i \in DOMAIN wsCtrlVector :
                 MatchesExactly(req.path, wsCtrlVector[i].pattern)}
  IN  IF ~req.wsKey THEN NotFound
      ELSE IF path \in DOMAIN wsCtrlMap THEN AtItem(wsCtrlMap[path], req, Spelled(path), <<>>)
      ELSE IF fits = {} THEN NotFound
      ELSE AtItem(wsCtrlVector[Min(fits)].binders, req, wsCtrlVector[Min(fits)].pattern, <<>>)

Routed(req) == IF req.ws THEN routeWs(req) ELSE route(req)

\* HttpBinder::run: one argument after the other is taken off the front and
\* converted; an empty one is the type's default, a missing one is made from the
\* request (fromRequest, which exits when the type has no specialisation).  A
\* conversion that throws ends in handleException, which drops the callback.
Arguments(types, params) ==
  LET Value(n) ==
        IF params[n] = "" THEN Convert[types[n]]["default"]
        ELSE Convert[types[n]][params[n]]
      given == {n \in DOMAIN types : n <= Len(params)}
      failing == {n \in given : Value(n) = Fails}
  IN  IF failing # {} THEN [call |-> "dropped", args |-> <<>>]
      ELSE IF Len(params) < Len(types) THEN [call |-> "exit", args |-> <<>>]
      ELSE [call |-> "called", args |-> [n \in DOMAIN types |-> Value(n)]]

\* getHandlersInfo; the WebSocket patterns are left out here, too.
HandlersInfo ==
  LET Of(path, bs) == {<<path, m>> : m \in {k \in Methods : bs[k] # Null}}
  IN  UNION ({Of(Spelled(p), simpleCtrlMap[p]) : p \in DOMAIN simpleCtrlMap}
        \cup {Of(Spelled(p), wsCtrlMap[p]) : p \in DOMAIN wsCtrlMap}
        \cup {Of(ctrlVector[i].pattern, ctrlVector[i].binders) : i \in DOMAIN ctrlVector}
        \cup {Of(ctrlMap[p].pattern, ctrlMap[p].binders) : p \in DOMAIN ctrlMap})

-----------------------------------------------------------------------------
Serving == routing = "running" /\ loopQueue = <<>>

(* What the history of registrations says a request reaches: an exact path  *)
(* before any pattern; of the patterns the one registered first that has    *)
(* the method; among registrations of the same pattern and method the last. *)
Exact(kind, path) ==
  {i \in DOMAIN history :
     /\ history[i].kind = kind
     /\ kind = "path" => Holders(history[i].pattern) = <<>>
     /\ Lowered(Literals(history[i].pattern)) = path}
Broken(regs) == \E i \in regs : history[i].handler \notin Classes
WithMethod(regs, m) == {i \in regs : m \in Bound(history[i])}
Latest(regs, m) == IF WithMethod(regs, m) = {} THEN Null ELSE Max(WithMethod(regs, m))

Patterned ==
  {i \in DOMAIN history :
     \/ history[i].kind = "regex"
     \/ history[i].kind = "path" /\ Holders(history[i].pattern) # <<>>}
SamePattern(i) ==
  {j \in Patterned : Grouped(history[j].pattern) = Grouped(history[i].pattern)}
\* The registrations that share an item with this one.
TogetherWith(i) ==
  IF i \in Patterned THEN SamePattern(i)
  ELSE Exact(history[i].kind, Lowered(Literals(history[i].pattern)))
FirstOfPattern(req) ==
  LET fits == {i \in Patterned :
                 /\ Matches(req.path, Grouped(history[i].pattern))
                 /\ WithMethod(SamePattern(i), req.method) # {}}
  IN  IF fits = {} THEN {} ELSE SamePattern(Min(fits))

Reached(req) ==
  LET path == Lowered(req.path)
      simple == Exact("simple", path)
      exact == Exact("path", path)
  IN  IF simple # {} /\ ~Broken(simple) THEN Latest(simple, req.method)
      ELSE IF exact # {} THEN Latest(exact, req.method)
      ELSE IF FirstOfPattern(req) # {} THEN Latest(FirstOfPattern(req), req.method)
      ELSE Null
Known(req) ==
  LET path == Lowered(req.path)
      simple == Exact("simple", path)
  IN  \/ simple # {} /\ ~Broken(simple)
      \/ Exact("path", path) # {}
      \/ FirstOfPattern(req) # {}

\* Every HTTP request reaches the handler the registrations mean for it, 405 says
\* that its path is known without the method, 404 that no route fits.
RoutesAsRegistered ==
  Serving =>
    \A req \in RoutedRequests :
      ~req.ws =>
        /\ route(req).binder = Reached(req)
        /\ route(req).result = (IF Reached(req) # Null THEN "Success"
                                ELSE IF Known(req) THEN "MethodNotAllowed"
                                ELSE "NotFound")

\* A handler's n-th parameter is what the placeholder of number n stands for in
\* the path or the query, whatever the order they are written in.
ArgumentsInPlace ==
  Serving =>
    \A req \in RoutedRequests :
      LET got == Routed(req)
          reg == history[got.binder]
          all == Holders(reg.pattern) \o reg.query
          numberOf(j) == IF all[j].place > 0 THEN all[j].place ELSE j
          source(j) == IF j <= Len(Holders(reg.pattern))
                       THEN Groups(req.path, Grouped(reg.pattern))[j]
                       ELSE req.query[all[j].name]
          called == Arguments(reg.types, got.params)
      IN  /\ got.result = "Success"
          /\ reg.kind = "path"
          /\ called.call = "called"
          => \A j \in DOMAIN all :
               numberOf(j) \in DOMAIN called.args =>
                 called.args[numberOf(j)] =
                   Convert[reg.types[numberOf(j)]]
                     [IF source(j) = "" THEN "default" ELSE source(j)]

\* A preflight is answered with exactly those methods whose handler was registered, on
\* the path or pattern the preflight has matched, with OPTIONS among its methods (HEAD
\* goes with GET).  A request with such a method may still match an earlier pattern.
CorsExact ==
  Serving =>
    \A req \in RoutedRequests :
      LET got == route(req)
          Of(m) == Latest(TogetherWith(got.binder), m)
          listed == {m \in Methods : Of(m) # Null /\ "options" \in Bound(history[Of(m)])}
      IN  ~req.ws /\ got.result = "Success" =>
            binders[got.binder].corsMethods =
              {"options"} \cup listed \cup (IF "get" \in listed THEN {"head"} ELSE {})

\* What is routed is listed by getHandlersInfo under the pattern the request has
\* matched, and its filters have been created; WebSocket patterns are in neither.
ListedAndFiltered ==
  Serving =>
    \A req \in RoutedRequests :
      LET got == Routed(req)
      IN  got.result = "Success" /\ history[got.binder].kind # "wsRegex" =>
            /\ <<got.matched, req.method>> \in HandlersInfo
            /\ binders[got.binder].filters # Null

\* What the registrations say is what every request gets: its handler, the arguments of
\* the handler, the answer to its preflight, its entry in the list of handlers.
RoutingExact == RoutesAsRegistered /\ ArgumentsInPlace /\ CorsExact /\ ListedAndFiltered
=============================================================================
