------------------------ MODULE WebSocketConnection ------------------------
(***************************************************************************)
(* A server's WebSocketConnectionImpl: receiving (WebSocketReceive), the   *)
(* ping timer, which any thread may set or disable while the loop of the   *)
(* connection arms and fires it, and the two ways to shut it down.         *)
(*                                                                         *)
(* The loop thread runs one delivery, one posted function or one timer at  *)
(* a time.  Other threads interleave with it everywhere.  What the pings   *)
(* and the Close frame hold is left out; so are deliveries after a         *)
(* protocol error, which are up to the TCP layer.                          *)
(***************************************************************************)
EXTENDS WebSocketReceive, FiniteSets

CONSTANTS
  Timers,       \* timer ids: bounds how often the timer is armed
  MaxPosted,    \* bounds the functions waiting in the queue of the loop
  None

ASSUME TimersAssumption == None \notin Timers /\ MaxPosted \in Nat

VARIABLES
  pingTimer,    \* pingTimerId_
  timers,       \* the repeating timers active in the loop
  used,         \* the timer ids the loop has given out
  posted,       \* functions queued in the loop by other threads, in order
  connected,    \* tcpConnectionPtr_->connected()
  alive         \* the object exists

controlVars == <<pingTimer, timers, used, posted, connected, alive>>
vars == <<receiveVars, controlVars>>

LoopFree == turn = "wait"

\* disablePingInLoop: the id is kept, the timer is not.
WithoutPing == timers \ {pingTimer}

\* Mutant: the timer that runs already is not disabled first.
ArmPingAgain ==
  \E t \in Timers \ used :
    /\ timers' = timers \cup {t}
    /\ pingTimer' = t
    /\ used' = used \cup {t}

\* setPingMessageInLoop
ArmPing ==
  \E t \in Timers \ used :
    /\ timers' = WithoutPing \cup {t}
    /\ pingTimer' = t
    /\ used' = used \cup {t}

\* setPingMessage and disablePing on another thread.
Post(f) ==
  /\ alive
  /\ Len(posted) < MaxPosted
  /\ posted' = Append(posted, f)
  /\ UNCHANGED <<receiveVars, pingTimer, timers, used, connected, alive>>

\* ... and the function they have queued; or the same calls on the loop thread.
SetPing ==
  /\ LoopFree /\ alive
  /\ ArmPing
  /\ \/ posted # <<>> /\ Head(posted) = "set" /\ posted' = Tail(posted)
     \/ UNCHANGED posted
  /\ UNCHANGED <<receiveVars, connected, alive>>

DisablePing ==
  /\ LoopFree /\ alive
  /\ timers' = WithoutPing
  /\ \/ posted # <<>> /\ Head(posted) = "disable" /\ posted' = Tail(posted)
     \/ UNCHANGED posted
  /\ UNCHANGED <<receiveVars, pingTimer, used, connected, alive>>

\* shutdown(), from any thread, even in the middle of a delivery.
Shutdown ==
  /\ alive
  /\ timers' = WithoutPing
  /\ connected' = FALSE
  /\ UNCHANGED <<receiveVars, pingTimer, used, posted, alive>>

\* The last reference goes: a queued function holds one, a delivery does, too.  The
\* destructor calls shutdown().
Destroy ==
  /\ alive /\ LoopFree /\ posted = <<>> /\ ~ connected
  /\ alive' = FALSE
  /\ timers' = WithoutPing
  /\ UNCHANGED <<receiveVars, pingTimer, used, posted, connected>>

Deliver(n) == alive /\ Receive(n) /\ UNCHANGED controlVars

\* A step of onNewMessage; the TCP connection is shut down on a close or an error.
Handle ==
  /\ ReceiveStep
  /\ connected' = (connected /\ sound')
  /\ UNCHANGED <<pingTimer, timers, used, posted, alive>>

Gone == ~ alive /\ UNCHANGED vars

Init ==
  /\ ReceiveInit
  /\ pingTimer = None /\ timers = {} /\ used = {} /\ posted = <<>>
  /\ connected = TRUE /\ alive = TRUE

Next ==
  \/ \E n \in 1..Len(stream) : Deliver(n)
  \/ Handle
  \/ \E f \in {"set", "disable"} : Post(f)
  \/ SetPing \/ DisablePing
  \/ Shutdown \/ Destroy \/ Gone

Spec == Init /\ [][Next]_vars

-----------------------------------------------------------------------------
\* Whatever thread set it how often, and whichever way the connection went, at most the
\* timer in pingTimerId_ runs, so that disabling it stops every ping, and none outlives
\* the connection object.
TimersAccounted ==
  /\ timers \subseteq {pingTimer}
  /\ ~ alive => timers = {}
=============================================================================
