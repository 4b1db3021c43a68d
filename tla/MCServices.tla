----------------------------- MODULE MCServices -----------------------------
(***************************************************************************)
(* The services around the requests of a server, side by side: the limits  *)
(* on connections, the rate limiters, the router, the sessions and their   *)
(* data, the bodies of requests.  They share no state in the program, so a *)
(* behaviour is one of one service, chosen at the start, while the others  *)
(* stay as they begin.                                                     *)
(***************************************************************************)
EXTENDS MCConnectionLimit, SessionData, RequestBody, Sessions, Hodor,
        ControllersRouter

CONSTANTS t1, t2

VARIABLE service      \* the one that runs

-----------------------------------------------------------------------------
(* Rate limiters: two strategies for one user and one address. *)

LimitedRequests ==
  {[path |-> "p", ip |-> "ip1", user |-> "u1"], [path |-> "q", ip |-> "ip1", user |-> None]}
TwoStrategies ==
  <<[urls |-> {"p", "q"}, capacity |-> 0, ipCapacity |-> 1, userCapacity |-> 1],
    [urls |-> {"q"}, capacity |-> 1, ipCapacity |-> 1, userCapacity |-> 0]>>

-----------------------------------------------------------------------------
(* Routes: literals, placeholders with and without a number, missing classes. *)

Lit(s)   == [name |-> s, place |-> -1]
Auto     == [name |-> "", place |-> 0]
Place(n) == [name |-> "", place |-> n]
Query(s, n) == [name |-> s, place |-> n]

Reg(kind, pattern, query, methods, handler, types) ==
  [kind |-> kind, pattern |-> pattern, query |-> query, methods |-> methods,
   handler |-> handler, types |-> types, filters |-> <<"f", "unknown">>]

HttpMethods == {"get", "post", "head", "options"}
LowerOf == [s \in {"a", "A", "b", ""} |-> IF s = "A" THEN "a" ELSE s]
ConvertOf ==
  [string |-> [s \in {"a", "A", "b", "default"} |-> IF s = "default" THEN "" ELSE s],
   number |-> [s \in {"a", "A", "b", "default"} |->
                 IF s = "default" THEN "0" ELSE IF s = "b" THEN "1" ELSE "fails"]]

PossibleRegistrations == {
  Reg("simple", <<Lit("A")>>, <<>>, {"get"}, "C1", <<>>),
  Reg("simple", <<Lit("a")>>, <<>>, {"post", "options"}, "missing", <<>>),
  Reg("simple", <<Lit("b")>>, <<>>, {}, "C1", <<>>),
  Reg("path", <<Lit("a")>>, <<>>, {"get", "options"}, "H1", <<>>),
  Reg("path", <<Lit("a")>>, <<Query("q", 2), Query("r", 0)>>, {"post"}, "H2",
      <<"string", "string">>),
  Reg("path", <<Auto>>, <<>>, {}, "H3", <<"string">>),
  Reg("path", <<Place(2), Lit("a")>>, <<Query("q", 1)>>, {"get", "options"}, "H4",
      <<"number", "string">>),
  Reg("path", <<Place(2), Place(1)>>, <<>>, {"get"}, "H5", <<"string", "string">>),
  Reg("path", <<Auto, Lit("a")>>, <<Query("q", 0)>>, {"post", "options"}, "H6",
      <<"string", "number">>),
  Reg("path", <<Auto>>, <<Query("q", 1)>>, {"get"}, "H7", <<"string">>),
  Reg("regex", <<Auto, Lit("A")>>, <<>>, {"get"}, "H8", <<"string">>),
  Reg("ws", <<Lit("A")>>, <<>>, {"get"}, "W1", <<>>),
  Reg("ws", <<Lit("a")>>, <<>>, {"get", "post"}, "missing", <<>>),
  Reg("wsRegex", <<Auto>>, <<>>, {"get"}, "W2", <<>>)}

ArrivingRequests ==
  {[path |-> p, method |-> m, query |-> [q |-> x, r |-> "b"], ws |-> FALSE, wsKey |-> FALSE] :
     p \in {<<"A">>, <<"b">>, <<"A", "b">>, <<"b", "a">>}, m \in HttpMethods, x \in {"", "b"}}
  \cup
  {[path |-> p, method |-> "get", query |-> [q |-> "", r |-> ""], ws |-> TRUE, wsKey |-> k] :
     p \in {<<"a">>, <<"b">>}, k \in BOOLEAN}

-----------------------------------------------------------------------------
Services == {"limit", "hodor", "router", "sessions", "data", "body"}

ServicesInit ==
  /\ service \in Services
  /\ Init
  /\ HodorInit
  /\ RouterInit
  /\ SessionInit
  /\ DataInit
  /\ BodyInit

OthersStay ==
  /\ UNCHANGED service
  /\ IF service = "limit" THEN TRUE ELSE UNCHANGED vars
  /\ IF service = "hodor" THEN TRUE ELSE UNCHANGED hodorVars
  /\ IF service = "router" THEN TRUE ELSE UNCHANGED routerVars
  /\ IF service = "sessions" THEN TRUE ELSE UNCHANGED sessionVars
  /\ IF service = "data" THEN TRUE ELSE UNCHANGED sessionDataVars
  /\ IF service = "body" THEN TRUE ELSE UNCHANGED bodyVars

ServicesNext ==
  \/ service = "limit" /\ Next /\ OthersStay
  \/ service = "hodor" /\ HodorNext /\ OthersStay
  \/ service = "router" /\ RouterNext /\ OthersStay
  \/ service = "sessions" /\ SessionNext /\ OthersStay
  \/ service = "data" /\ DataNext /\ OthersStay
  \/ service = "body" /\ BodyNext /\ OthersStay

ServicesSpec ==
  ServicesInit /\ [][ServicesNext]_<<service, vars, hodorVars, routerVars,
    sessionVars, sessionDataVars, bodyVars>>

=============================================================================
