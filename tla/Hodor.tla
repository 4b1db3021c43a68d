------------------------------- MODULE Hodor -------------------------------
(***************************************************************************)
(* The plugin Hodor: a request passes every limit strategy whose urls it   *)
(* matches, and in each the limiter of all requests, of its address and of *)
(* its user.  The limiters of addresses and users live in a CacheMap and   *)
(* are dropped when they have not been asked for limiterExpireTime_.       *)
(*                                                                         *)
(* Requests run on several I/O threads; modify() and isAllowed() are       *)
(* atomic each (a mutex of the map, a SafeRateLimiter), and nothing holds  *)
(* the two together.  The limiter itself is a fixed window; the source     *)
(* declares its isAllowed() and does not define it.                        *)
(***************************************************************************)
EXTENDS Integers, Sequences, FiniteSets, FiniteSetsExt

CONSTANTS
  Threads,         \* I/O threads, each at one request at a time
  Requests,        \* what they ask for: [path, ip, user]
  Strategies,      \* limitStrategies_: [urls, capacity, ipCapacity, userCapacity]
  TimeUnit,        \* timeUnit_
  ConfiguredExpire,\* limiter_expire_time
  MaxTime,         \* bound of the model: the clock
  MaxGrants,       \* bound of the model: isAllowed() calls that were allowed
  None

\* initAndStart always makes the strategy of the configuration itself.
ASSUME HodorAssumption ==
  /\ Len(Strategies) \in Nat \ {0} /\ DOMAIN Strategies = 1..Len(Strategies)
  /\ \A i \in DOMAIN Strategies :
       /\ Strategies[i].capacity \in Nat
       /\ Strategies[i].ipCapacity \in Nat /\ Strategies[i].userCapacity \in Nat
  /\ TimeUnit \in Nat /\ ConfiguredExpire \in Nat
  /\ MaxTime \in Nat /\ MaxGrants \in Nat

VARIABLES
  now,             \* the clock
  pc,              \* where each thread is: [at, strategy, request, limiter]
  limiters,        \* the limiter objects made so far: [key, start, count]
  table,           \* the limiters that can be found: key -> [limiter, touched]
  grants           \* every permission given: [key, time, limiter], for the properties

hodorVars == <<now, pc, limiters, table, grants>>

Idle == [at |-> "idle", strategy |-> 0, request |-> None, limiter |-> 0]

\* Mutant: what is configured, however short.
ExpireAsConfigured == ConfiguredExpire

\* initAndStart: limiterExpireTime_
limiterExpireTime == Max({ConfiguredExpire, 3 * TimeUnit})

\* The limiters of a strategy; everybody shares the first.
Key(i, kind, who) == <<i, kind, who>>

Applies(i, request) == request.path \in Strategies[i].urls

NewLimiter(key, capacity) == [key |-> key, capacity |-> capacity, start |-> now, count |-> 0]

\* makeLimitStrategy: the limiter of all requests is made at once.
HodorInit ==
  LET Shared == {i \in DOMAIN Strategies : Strategies[i].capacity > 0}
  IN  /\ now = 0
      /\ pc = [t \in Threads |-> Idle]
      /\ limiters = [i \in DOMAIN Strategies |->
                       [key |-> Key(i, "global", None), start |-> 0, count |-> 0,
                        capacity |-> Strategies[i].capacity]]
      /\ table = [k \in {Key(i, "global", None) : i \in Shared} |->
                    [limiter |-> CHOOSE i \in Shared : k = Key(i, "global", None),
                     touched |-> MaxTime + 1]]
      /\ grants = {}

\* A request of a thread comes to onHttpRequest.
BeginRequest(t) ==
  /\ pc[t].at \in {"idle", "passed", "rejected"}
  /\ \E q \in Requests :
       pc' = [pc EXCEPT ![t] = [at |-> "global", strategy |-> 1, request |-> q,
                                limiter |-> 0]]
  /\ UNCHANGED <<now, limiters, table, grants>>

\* The next check of checkLimit; after the last one the next strategy.
NextStrategy(t) ==
  IF pc[t].strategy = Len(Strategies)
  THEN [pc[t] EXCEPT !.at = "passed"]
  ELSE [pc[t] EXCEPT !.at = "global", !.strategy = @ + 1]
Then(t, at) == [pc[t] EXCEPT !.at = at]
AfterGlobal(t) ==
  IF Strategies[pc[t].strategy].ipCapacity > 0 THEN Then(t, "ip") ELSE Then(t, "user")

\* isAllowed of a fixed window
IsAllowed(limiter) ==
  \/ now - limiter.start >= TimeUnit /\ limiter.capacity > 0
  \/ limiter.count < limiter.capacity
Spent(limiter) ==
  IF now - limiter.start >= TimeUnit
  THEN [limiter EXCEPT !.start = now, !.count = 1]
  ELSE [limiter EXCEPT !.count = @ + 1]

\* A thread asks a limiter, and goes on or is rejected.
Ask(t, l, next) ==
  \/ /\ IsAllowed(limiters[l])
     /\ Cardinality(grants) < MaxGrants
     /\ limiters' = [limiters EXCEPT ![l] = Spent(@)]
     /\ grants' = grants \cup {[key |-> limiters[l].key, time |-> now, limiter |-> l,
                                thread |-> t, nth |-> Cardinality(grants)]}
     /\ pc' = [pc EXCEPT ![t] = next]
  \/ /\ ~IsAllowed(limiters[l])
     /\ pc' = [pc EXCEPT ![t].at = "rejected"]
     /\ UNCHANGED <<limiters, grants>>

\* checkLimit: the urls, then globalLimiterPtr.
CheckGlobal(t) ==
  /\ pc[t].at = "global"
  /\ LET i == pc[t].strategy
     IN  IF ~Applies(i, pc[t].request)
         THEN pc' = [pc EXCEPT ![t] = NextStrategy(t)] /\ UNCHANGED <<limiters, grants>>
         ELSE IF Strategies[i].capacity = 0
         THEN pc' = [pc EXCEPT ![t] = AfterGlobal(t)] /\ UNCHANGED <<limiters, grants>>
         ELSE Ask(t, table[Key(i, "global", None)].limiter, AfterGlobal(t))
  /\ UNCHANGED <<now, table>>

\* modify: the limiter of the key, made if there is none, is touched and returned.
Modify(t, key, capacity, at) ==
  LET known == key \in DOMAIN table
      l == IF known THEN table[key].limiter ELSE Len(limiters) + 1
  IN  /\ limiters' = IF known THEN limiters
                     ELSE Append(limiters, NewLimiter(key, capacity))
      /\ table' = [k \in DOMAIN table \cup {key} |->
                     IF k = key THEN [limiter |-> l, touched |-> now] ELSE table[k]]
      /\ pc' = [pc EXCEPT ![t].at = at, ![t].limiter = l]

FindIp(t) ==
  /\ pc[t].at = "ip"
  /\ Modify(t, Key(pc[t].strategy, "ip", pc[t].request.ip),
            Strategies[pc[t].strategy].ipCapacity, "ipCheck")
  /\ UNCHANGED <<now, grants>>

CheckIp(t) ==
  /\ pc[t].at = "ipCheck"
  /\ Ask(t, pc[t].limiter, Then(t, "user"))
  /\ UNCHANGED <<now, table>>

\* Without a capacity for users, or a user, the strategy has been passed.
FindUser(t) ==
  /\ pc[t].at = "user"
  /\ IF Strategies[pc[t].strategy].userCapacity = 0 \/ pc[t].request.user = None
     THEN pc' = [pc EXCEPT ![t] = NextStrategy(t)] /\ UNCHANGED <<limiters, table>>
     ELSE Modify(t, Key(pc[t].strategy, "user", pc[t].request.user),
                 Strategies[pc[t].strategy].userCapacity, "userCheck")
  /\ UNCHANGED <<now, grants>>

CheckUser(t) ==
  /\ pc[t].at = "userCheck"
  /\ Ask(t, pc[t].limiter, NextStrategy(t))
  /\ UNCHANGED <<now, table>>

\* Time passes; no thread stalls for a whole tick between modify and isAllowed.
Tick ==
  /\ now < MaxTime
  /\ \A t \in Threads : pc[t].at \notin {"ipCheck", "userCheck"}
  /\ now' = now + 1
  /\ UNCHANGED <<pc, limiters, table, grants>>

\* The map drops a limiter that has not been touched for the time of its entry.
Expire(key) ==
  /\ now >= table[key].touched + limiterExpireTime
  /\ table' = [k \in DOMAIN table \ {key} |-> table[k]]
  /\ UNCHANGED <<now, pc, limiters, grants>>

HodorNext ==
  \/ \E t \in Threads :
       \/ BeginRequest(t) \/ CheckGlobal(t) \/ FindIp(t) \/ CheckIp(t)
       \/ FindUser(t) \/ CheckUser(t)
  \/ Tick
  \/ \E key \in DOMAIN table : Expire(key)

HodorSpec == HodorInit /\ [][HodorNext]_hodorVars

-----------------------------------------------------------------------------
\* "capacity The maximum number of requests in the time unit": in the window of any
\* limiter its key is granted at most its capacity, by whichever object.
WithinCapacity ==
  \A l \in DOMAIN limiters :
    LET window == limiters[l].start .. (limiters[l].start + TimeUnit - 1)
    IN  Cardinality({g \in grants : g.key = limiters[l].key /\ g.time \in window})
          <= limiters[l].capacity

=============================================================================
