-------------------------- MODULE ConnectionLimit --------------------------
(***************************************************************************)
(* HttpServer::onConnection with the HttpConnectionLimit it consults: the  *)
(* admission of TCP connections under a limit on all connections and a     *)
(* limit per remote address.                                               *)
(*                                                                         *)
(* Each connection is served by one I/O loop, which runs its connected and *)
(* its disconnected callback one after the other; the callbacks of         *)
(* connections on different loops interleave at the atomic counter and at  *)
(* the mutex of the per-address map.  Every connection of the model has a  *)
(* loop of its own.                                                        *)
(***************************************************************************)
EXTENDS Integers, FiniteSets

CONSTANTS
  Conns,         \* connection slots; a slot is used again after a disconnection
  Ips,           \* remote addresses
  IpOf,          \* the address each slot's peer connects from
  MaxConn,       \* maxConnectionNum_
  MaxPerIp,      \* maxConnectionNumPerIP_; 0 is "no limit"
  CountBound     \* bound of the model: no handshake ends once the counter is there

ASSUME LimitAssumption ==
  /\ IpOf \in [Conns -> Ips]
  /\ MaxConn \in Nat
  /\ MaxPerIp \in Nat
  /\ CountBound \in Nat

VARIABLES
  phase,           \* where each connection is in its callbacks
  connectionNum,   \* connectionNum_
  ipConnections    \* ipConnectionsMap_; 0 for an address not in the map

vars == <<phase, connectionNum, ipConnections>>

Phases == {"none", "handshaking", "connected", "checkIp", "advice", "open",
           "rejected", "releasing"}

Goto(c, p) == phase' = [phase EXCEPT ![c] = p]

\* A connection between the two counters of tryAddConnection goes here next.
AfterTotal == IF MaxPerIp > 0 THEN "checkIp" ELSE "advice"

Init ==
  /\ phase = [c \in Conns |-> "none"]
  /\ connectionNum = 0
  /\ ipConnections = [ip \in Ips |-> 0]

\* The TCP layer accepts; on an SSL port the callback waits for the handshake.
Accept(c) ==
  /\ phase[c] = "none"
  /\ Goto(c, "handshaking")
  /\ UNCHANGED <<connectionNum, ipConnections>>

\* Mutant: a connection without a context is released as well, and the release
\* subtracts.
AbandonReleases(c) ==
  /\ phase[c] = "handshaking"
  /\ connectionNum' = connectionNum - 1
  /\ Goto(c, "none")
  /\ UNCHANGED ipConnections

\* Disconnected before the handshake: there is no context, nothing is released.
Abandon(c) ==
  /\ phase[c] = "handshaking"
  /\ Goto(c, "none")
  /\ UNCHANGED <<connectionNum, ipConnections>>

\* The connected callback: a parser becomes the context of the connection.
Connected(c) ==
  /\ phase[c] = "handshaking"
  /\ connectionNum < CountBound
  /\ Goto(c, "connected")
  /\ UNCHANGED <<connectionNum, ipConnections>>

\* tryAddConnection, connectionNum_.fetch_add(1) > maxConnectionNum_
CountTotal(c) ==
  /\ phase[c] = "connected"
  /\ connectionNum' = connectionNum + 1
  /\ Goto(c, IF connectionNum > MaxConn THEN "rejected" ELSE AfterTotal)
  /\ UNCHANGED ipConnections

\* Mutant: a connection that is refused is not counted.
CountIpIfAdmitted(c) ==
  /\ phase[c] = "checkIp"
  /\ \/ /\ ipConnections[IpOf[c]] < MaxPerIp
        /\ ipConnections' = [ipConnections EXCEPT ![IpOf[c]] = @ + 1]
        /\ Goto(c, "advice")
     \/ /\ ipConnections[IpOf[c]] >= MaxPerIp
        /\ Goto(c, "rejected")
        /\ UNCHANGED ipConnections
  /\ UNCHANGED connectionNum

\* tryAddConnection, ++ipConnectionsMap_[ip] under the mutex
CountIp(c) ==
  /\ phase[c] = "checkIp"
  /\ ipConnections' = [ipConnections EXCEPT ![IpOf[c]] = @ + 1]
  /\ Goto(c, IF ipConnections[IpOf[c]] + 1 > MaxPerIp THEN "rejected" ELSE "advice")
  /\ UNCHANGED connectionNum

\* passNewConnectionAdvices; a connection that is refused is closed by force.
Advise(c) ==
  /\ phase[c] = "advice"
  /\ \/ Goto(c, "open")
     \/ Goto(c, "rejected")
  /\ UNCHANGED <<connectionNum, ipConnections>>

\* The disconnected callback: releaseConnection adds to the counter, too ...
Disconnect(c) ==
  /\ phase[c] \in {"open", "rejected"}
  /\ connectionNum' = connectionNum + 1
  /\ Goto(c, IF MaxPerIp > 0 THEN "releasing" ELSE "none")
  /\ UNCHANGED ipConnections

\* ... and takes one off the address, whether or not this connection was counted.
ReleaseIp(c) ==
  /\ phase[c] = "releasing"
  /\ ipConnections' = [ipConnections EXCEPT
                         ![IpOf[c]] = IF @ > 0 THEN @ - 1 ELSE 0]
  /\ Goto(c, "none")
  /\ UNCHANGED connectionNum

Next ==
  \E c \in Conns :
    \/ Accept(c) \/ Abandon(c) \/ Connected(c)
    \/ CountTotal(c) \/ CountIp(c) \/ Advise(c)
    \/ Disconnect(c) \/ ReleaseIp(c)

Spec == Init /\ [][Next]_vars

-----------------------------------------------------------------------------
TypeOK ==
  /\ phase \in [Conns -> Phases]
  /\ connectionNum \in Nat
  /\ ipConnections \in [Ips -> Nat]

Open         == {c \in Conns : phase[c] = "open"}
OpenFrom(ip) == {c \in Open : IpOf[c] = ip}

\* Connections that have passed the check of the total and are still there.
Admitted == {c \in Conns : phase[c] \in {"checkIp", "advice", "open"}}

\* Connections of an address that have added to its count and not yet taken it off,
\* while none has been turned away by the total.
Counted(ip) ==
  {c \in Conns : IpOf[c] = ip /\ phase[c] \in {"advice", "open", "rejected", "releasing"}}

\* The maximum is passed by one: on whatever loops connections come, as many as
\* MaxConn + 1 are admitted at once (the test is ">" on the old value).
AtMostOneOver == Cardinality(Admitted) <= MaxConn + 1

\* Until a connection is turned away by the total, the count of an address is exactly
\* the number of its connections, those that are refused included.
IpCountExact ==
  MaxPerIp > 0 /\ connectionNum <= MaxConn + 1 =>
    \A ip \in Ips : ipConnections[ip] = Cardinality(Counted(ip))

\* One that is turned away by the total has added nothing to its address, and takes one
\* off it all the same when it goes: each that has gone, which has moved the total on by
\* two, lets one connection more of the address in than its limit allows, and nothing
\* else does.
IpExcessIsRefused ==
  MaxPerIp > 0 =>
    \A ip \in Ips :
      Cardinality(OpenFrom(ip)) > MaxPerIp =>
        2 * (Cardinality(OpenFrom(ip)) - MaxPerIp) <= connectionNum - (MaxConn + 1)

\* What the two limits come to in this code.  Neither is kept as HttpAppFramework.h
\* states it: one connection more than the maximum is admitted, and an address can have
\* more than its limit once connections have been refused.
AdmissionBounded == AtMostOneOver /\ IpCountExact /\ IpExcessIsRefused

\* "Set the maximum number of all connections": below it, none is turned away.
RoomMeansAdmission ==
  [][\A c \in Conns :
       phase[c] = "connected" /\ phase'[c] = "rejected" =>
         Cardinality({d \in Conns : phase[d] \notin {"none", "handshaking"}}) > MaxConn]_vars

=============================================================================
