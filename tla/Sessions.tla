------------------------------ MODULE Sessions ------------------------------
(***************************************************************************)
(* SessionManager and Session: a CacheMap from session ids to sessions,    *)
(* the ids of a session changing while its clients still use the old one.  *)
(*                                                                         *)
(* findSessionForRequest and handleSessionForResponse are declared by the  *)
(* framework and not defined in the source; they are the callers here.     *)
(* The requests of a client come over one connection, so its loop runs     *)
(* them one after the other; several may be under way (pipelining).  What  *)
(* interleaves with them are the loop of the map, with its timer, and the  *)
(* other clients.  The map calls the advices when it has let go of its     *)
(* lock, so others may come between a change of the map and its notice.    *)
(***************************************************************************)
EXTENDS Integers, Sequences, FiniteSets

CONSTANTS
  Clients,
  Timeout,        \* timeout_ > 0, in ticks of the map
  Grace,          \* changeSessionId's runAfter
  MaxPipelined,   \* bound of the model: requests of a client under way
  MaxIds,         \* bound of the model: ids the generator hands out
  MaxSessions,    \* bound of the model: Session objects made
  MaxTicks        \* bound of the model: the clock

ASSUME SessionAssumption ==
  /\ "loop" \notin Clients
  /\ Timeout \in Nat \ {0} /\ Grace \in Nat
  /\ MaxPipelined \in Nat /\ MaxIds \in Nat /\ MaxSessions \in Nat /\ MaxTicks \in Nat

VARIABLES
  ticks,      \* ticks of the map
  sessions,   \* the Session objects made so far: [id, needToSet, needToChange]
  slots,      \* sessionMapPtr_: id -> [session, touched]
  erasures,   \* tasks given to runAfter: [id, due]
  requests,   \* of each client: [cookie, session], oldest first
  cookie,     \* the id each client sends, 0 before it has one
  owner,      \* the session each id was last found or set for
  retired,    \* when each id was first replaced, MaxTime + 1 before it was
  used,       \* when each id was last looked up or inserted
  announcing, \* of each thread: the notice it is about to give
  notices     \* calls of the start and destroy advices of each id

sessionVars == <<ticks, sessions, slots, erasures, requests, cookie, owner, retired, used, announcing, notices>>

NoNotices == [id \in 1..MaxIds |-> [started |-> 0, destroyed |-> 0]]
Started(id) == [notices EXCEPT ![id].started = @ + 1]
Destroyed(id) == [notices EXCEPT ![id].destroyed = @ + 1]

\* A thread calls the advices of an id; changeSessionId has an old id to erase then, and
\* an id to give to the client.
Announcers == Clients \cup {"loop"}
Quiet == [id |-> 0, old |-> 0, set |-> FALSE]
Free(t) == announcing[t] = Quiet
Announce(t, id) == announcing' = [announcing EXCEPT ![t] = [Quiet EXCEPT !.id = id]]

SessionInit ==
  /\ ticks = 0
  /\ sessions = <<>>
  /\ slots = [id \in {} |-> 0]
  /\ erasures = {}
  /\ requests = [c \in Clients |-> <<>>]
  /\ cookie = [c \in Clients |-> 0]
  /\ owner = [id \in 1..MaxIds |-> 0]
  /\ retired = [id \in 1..MaxIds |-> MaxTicks + 1]
  /\ used = [id \in 1..MaxIds |-> 0]
  /\ announcing = [t \in Announcers |-> Quiet]
  /\ notices = NoNotices

\* idGeneratorCallback_: an id nobody has had.
FreshId == 1 + Cardinality({id \in 1..MaxIds : owner[id] > 0})

NewSession(id, needToSet) ==
  [id |-> id, needToSet |-> needToSet, needToChange |-> FALSE]
Slot(id, s) ==
  [k \in DOMAIN slots \cup {id} |->
     IF k = id THEN [session |-> s, touched |-> ticks] ELSE slots[k]]

\* The client sends a request with the id it has.
Send(c) ==
  /\ Len(requests[c]) < MaxPipelined
  /\ requests' = [requests EXCEPT ![c] =
                    Append(@, [cookie |-> cookie[c], session |-> 0])]
  /\ UNCHANGED <<ticks, sessions, slots, erasures, cookie, owner, retired, used, announcing, notices>>

\* The request of a client that is the next to be looked at.
Unfound(c) == {i \in DOMAIN requests[c] : requests[c][i].session = 0}
Upcoming(c) == CHOOSE i \in Unfound(c) : \A j \in Unfound(c) : i <= j

\* Mutant: a session that is found is not touched.
getSessionUntouched(c, id, needToSet) ==
  IF id \in DOMAIN slots
  THEN UNCHANGED <<sessions, slots, announcing>>
  ELSE /\ sessions' = Append(sessions, NewSession(id, needToSet))
       /\ slots' = Slot(id, Len(sessions) + 1)
       /\ Announce(c, id)

\* getSession: modify() of the map makes the session or touches its slot.
getSession(c, id, needToSet) ==
  IF id \in DOMAIN slots
  THEN slots' = Slot(id, slots[id].session) /\ UNCHANGED <<sessions, announcing>>
  ELSE /\ sessions' = Append(sessions, NewSession(id, needToSet))
       /\ slots' = Slot(id, Len(sessions) + 1)
       /\ Announce(c, id)

\* findSessionForRequest: without a cookie a new id, to be set in the response.
FindSession(c) ==
  /\ Unfound(c) # {} /\ Free(c)
  /\ LET i == Upcoming(c)
         id == IF requests[c][i].cookie = 0 THEN FreshId ELSE requests[c][i].cookie
     IN  /\ id <= MaxIds
         /\ id \in DOMAIN slots \/ Len(sessions) < MaxSessions
         /\ getSession(c, id, requests[c][i].cookie = 0)
         /\ requests' = [requests EXCEPT ![c][i].session = slots'[id].session]
         /\ owner' = [owner EXCEPT ![id] = slots'[id].session]
         /\ used' = [used EXCEPT ![id] = ticks]
  /\ UNCHANGED <<ticks, erasures, cookie, retired, notices>>

\* A handler calls changeSessionIdToClient.
ChangeToClient(c) ==
  /\ Free(c)
  /\ \E i \in DOMAIN requests[c] :
       /\ requests[c][i].session # 0
       /\ ~sessions[requests[c][i].session].needToChange
       /\ sessions' = [sessions EXCEPT ![requests[c][i].session].needToChange = TRUE,
                                       ![requests[c][i].session].needToSet = TRUE]
  /\ UNCHANGED <<ticks, slots, erasures, requests, cookie, owner, retired, used, announcing, notices>>

\* changeSessionId up to the call of the start advices, and the id the session has
\* afterwards
changeSessionId(c, s) ==
  LET oldId == sessions[s].id
      newId == FreshId
  IN  /\ newId <= MaxIds
      /\ slots' = Slot(newId, s)
      /\ announcing' = [announcing EXCEPT
                          ![c] = [id |-> newId, old |-> oldId, set |-> sessions[s].needToSet]]
      /\ used' = [used EXCEPT ![newId] = ticks]
      /\ owner' = [owner EXCEPT ![newId] = s]
      /\ sessions' = [sessions EXCEPT
                        ![s] = [id |-> newId, needToSet |-> FALSE, needToChange |-> FALSE]]
      /\ retired' = [retired EXCEPT ![oldId] = IF @ > ticks THEN ticks ELSE @]
      /\ UNCHANGED cookie

\* handleSessionForResponse of the oldest request: a new id if one is wanted, and the
\* id to the client if it is to be set.
Respond(c) ==
  /\ Free(c)
  /\ requests[c] # <<>> /\ Head(requests[c]).session # 0
  /\ LET s == Head(requests[c]).session
     IN  IF sessions[s].needToChange
         THEN changeSessionId(c, s)
         ELSE /\ sessions' = [sessions EXCEPT ![s].needToSet = FALSE]
              /\ cookie' = IF sessions[s].needToSet
                           THEN [cookie EXCEPT ![c] = sessions[s].id] ELSE cookie
              /\ UNCHANGED <<slots, owner, retired, used, announcing>>
  /\ requests' = [requests EXCEPT ![c] = Tail(@)]
  /\ UNCHANGED <<ticks, erasures, notices>>

\* Mutant: the task erases the id that has just been set.
LaterNew(oldId, newId) == erasures \cup {[id |-> newId, due |-> ticks + Grace]}

\* runAfter(10, erase(oldId))
Later(oldId, newId) == erasures \cup {[id |-> oldId, due |-> ticks + Grace]}

\* The start advices are called; changeSessionId goes on.
NoticeStart(c) ==
  /\ ~Free(c)
  /\ LET a == announcing[c]
     IN  /\ notices' = Started(a.id)
         /\ erasures' = IF a.old # 0 THEN Later(a.old, a.id) ELSE erasures
         /\ cookie' = IF a.set THEN [cookie EXCEPT ![c] = a.id] ELSE cookie
  /\ announcing' = [announcing EXCEPT ![c] = Quiet]
  /\ UNCHANGED <<ticks, sessions, slots, requests, owner, retired, used>>

MapTick ==
  /\ ticks < MaxTicks
  /\ ticks' = ticks + 1
  /\ UNCHANGED <<sessions, slots, erasures, requests, cookie, owner, retired, used, announcing, notices>>

\* The map drops a slot nobody has touched for the timeout ...
Dropped(id) == slots' = [k \in DOMAIN slots \ {id} |-> slots[k]]
ExpireSlot(id) ==
  /\ Free("loop")
  /\ ticks >= slots[id].touched + Timeout
  /\ Dropped(id)
  /\ Announce("loop", id)
  /\ UNCHANGED <<ticks, sessions, erasures, requests, cookie, owner, retired, used, notices>>

\* ... and so does the task of changeSessionId: erase() says so whether or not there was one.
EraseOld(e) ==
  /\ Free("loop")
  /\ ticks >= e.due
  /\ erasures' = erasures \ {e}
  /\ Dropped(e.id)
  /\ Announce("loop", e.id)
  /\ UNCHANGED <<ticks, sessions, requests, cookie, owner, retired, used, notices>>

\* The destroy advices are called.
NoticeEnd ==
  /\ ~Free("loop")
  /\ notices' = Destroyed(announcing["loop"].id)
  /\ announcing' = [announcing EXCEPT !["loop"] = Quiet]
  /\ UNCHANGED <<ticks, sessions, slots, erasures, requests, cookie, owner, retired, used>>

SessionNext ==
  \/ \E c \in Clients :
       Send(c) \/ FindSession(c) \/ ChangeToClient(c) \/ Respond(c) \/ NoticeStart(c)
  \/ MapTick
  \/ \E id \in DOMAIN slots : ExpireSlot(id)
  \/ \E e \in erasures : EraseOld(e)
  \/ NoticeEnd

SessionSpec == SessionInit /\ [][SessionNext]_sessionVars

-----------------------------------------------------------------------------
\* A client that comes back with an id used less than the timeout ago gets the session
\* it had, unless that id was replaced longer ago than the grace of changeSessionId.
\* (Whatever stands under a replaced id goes then, even a session started again under it.)
ClientKeepsSession ==
  [][\A c \in Clients :
       (Unfound(c) # {} /\ Unfound(c)' # Unfound(c) /\ Len(requests'[c]) = Len(requests[c])) =>
         LET i == Upcoming(c)
             old == requests[c][i].cookie
         IN  \/ old = 0
             \/ requests'[c][i].session = owner[old]
             \/ ticks >= used[old] + Timeout
             \/ ticks >= retired[old] + Grace]_sessionVars

\* Two ids lead to one session only while the older one is about to be erased: the id
\* a login has replaced does not stay good.
OldIdReleased ==
  \A id \in DOMAIN slots :
    sessions[slots[id].session].id # id =>
      \/ \E e \in erasures : e.id = id
      \/ \E c \in Clients : announcing[c].old = id

\* Every end of a session is announced, though an id may begin its next life before that:
\* when nobody is about to say more of an id without a slot, its ends are no fewer than its
\* starts, and there is never more than one start too many but for the end being announced.
NoticesPaired ==
  \A id \in 1..MaxIds :
    LET open == notices[id].started - notices[id].destroyed
    IN  /\ id \notin DOMAIN slots /\ (\A t \in Announcers : announcing[t].id # id) => open <= 0
        /\ open <= IF announcing["loop"].id = id THEN 2 ELSE 1

\* No id outlives its use, and none goes without notice.
IdsAccounted == OldIdReleased /\ NoticesPaired
=============================================================================
