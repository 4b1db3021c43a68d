------------------------------ MODULE CacheMap ------------------------------
(***************************************************************************)
(* CacheMap<T1, T2> (lib/inc/xiaoHttp/CacheMap.h): a hash map whose        *)
(* entries are erased by a hierarchical timing wheel when they have not    *)
(* been accessed for their timeout.                                        *)
(*                                                                         *)
(* An entry of the map holds a weak pointer to a CallbackEntry; the        *)
(* buckets of the wheels hold the strong ones.  Every access puts one more *)
(* strong pointer in a later bucket; the destructor of the CallbackEntry,  *)
(* run when the last bucket that holds it is dropped, erases the key.      *)
(*                                                                         *)
(* Threads.  Every call locks mtx_ for its whole duration and bucketMutex_ *)
(* for the insertion into a bucket, so at most one call is in progress:    *)
(* the variable "call" is that call, whatever thread it runs on.  The      *)
(* timer callback runs on the event loop and takes bucketMutex_ once per   *)
(* wheel, and mtx_ inside each expiry callback.  Both threads interleave   *)
(* at those lock operations.                                               *)
(*                                                                         *)
(* One tick is one second (the tick interval of every user of the class);  *)
(* values, value handlers, timeout callbacks and the insert and erase      *)
(* notifications are left out.                                             *)
(***************************************************************************)
EXTENDS TimingWheel

CONSTANTS
  Keys,          \* the keys callers use
  Entries,       \* CallbackEntry objects: bounds those alive at one time
  Timeouts,      \* the timeouts callers pass, in seconds; 0 is "no timeout"
  MoveTimeouts,  \* the timeouts passed to the rvalue overload of insert()
  LoopConfined,  \* calls come from the event loop's own thread, and but for erase()
                 \* from outside of the timer callback
  PromptCalls,   \* no tick begins between the two last steps of a call
  Task,          \* the target of an entry made by runAfter()
  None

ASSUME CallerAssumption ==
  /\ Timeouts \subseteq Nat
  /\ MoveTimeouts \subseteq Timeouts
  /\ LoopConfined \in BOOLEAN
  /\ PromptCalls \in BOOLEAN

\* MapValue: timeout_, and the target of weakEntryPtr_ (None: null or expired).
MapValue == [timeout : Timeouts, entry : Entries \cup {None}]

ASSUME NameAssumption ==
  /\ Keys \cap Entries = {}
  /\ None \notin Keys \cup Entries
  /\ None \notin Timeouts
  /\ Task \notin Keys \cup Entries \cup {None}
  /\ None \notin MapValue

VARIABLES
  map,         \* map_: the value of each key, None if it is absent
  target,      \* what the destructor of each allocated entry does
  wheels,      \* wheels_: a set of callback items per wheel and bucket
  ticks,       \* ticksCounter_ modulo the period of the largest wheel
  tick,        \* the timer callback: stage, wheel, bucket being destroyed, and
               \* the key whose expiry callback is about to lock mtx_
  call,        \* the call that holds mtx_, and its local shared pointer
  loop,        \* "running" or "ended" (loopEnded)
  destructed,  \* destructed
  rest         \* history: seconds each key and task is still entitled to

vars == <<map, target, wheels, ticks, tick, call, loop, destructed, rest>>

-----------------------------------------------------------------------------
(* Wheels and buckets. *)

\* A bucket holds an entry itself (slots empty) or a wrapper around it that
\* will move it to bucket Last(slots) of the next lower wheel, and so on down.
Items == [entry : Entries, slots : Seq(SlotSet)]

\* wheels_ after insertEntry(d, e), under bucketMutex_.
InsertEntry(d, e) ==
  [l \in LevelSet |-> [s \in SlotSet |->
     IF d > 0 /\ LandsOn(d, ticks, l) /\ s = LandingSlot(d, ticks, l)
     THEN wheels[l][s] \cup
            {[entry |-> e, slots |-> CapturedSlots(d, ticks, l)]}
     ELSE wheels[l][s]]]

\* swap(tmp); pop_front(); push_back(CallbackBucket())
Rotate(wheel) ==
  [s \in SlotSet |-> IF s = Buckets - 1 THEN {} ELSE wheel[s + 1]]

-----------------------------------------------------------------------------
(* Strong references. *)

InBucket(bucket, e) == \E item \in bucket : item.entry = e

InWheels(e) == \E l \in LevelSet, s \in SlotSet : InBucket(wheels[l][s], e)

Idle == [stage |-> "none", key |-> None, entry |-> None, delay |-> 0]

\* The last reference to e is gone: weak pointers to it are null from here on.
ForgetEntry(e) ==
  /\ map' = [k \in Keys |->
               IF map[k] # None /\ map[k].entry = e
               THEN [map[k] EXCEPT !.entry = None] ELSE map[k]]
  /\ target' = [target EXCEPT ![e] = None]

Present(k) == map[k] # None
Expires(k) == Present(k) /\ map[k].timeout > 0
IsTask(e)  == target[e] = Task

-----------------------------------------------------------------------------
(* Calls. *)

\* mtx_ is free, and the caller may run now.
CanCall ==
  /\ ~ destructed
  /\ call = Idle
  /\ LoopConfined => tick.stage = "idle"

\* eraseAfter(delay, key), up to its insertEntry, on the map m that the caller
\* has just updated: reuse the entry the weak pointer still reaches, or make one.
EraseAfter(m, k, d) ==
  \/ /\ m[k].entry # None
     /\ map' = m
     /\ call' = [stage |-> "arm", key |-> k, entry |-> m[k].entry, delay |-> d]
     /\ UNCHANGED target
  \/ /\ m[k].entry = None
     /\ \E e \in Entries :
          /\ target[e] = None
          /\ target' = [target EXCEPT ![e] = k]
          /\ map' = [m EXCEPT ![k].entry = e]
          /\ call' = [stage |-> "arm", key |-> k, entry |-> e, delay |-> d]

\* operator[], find, findAndFetch; modify on a key that is present.
Access(k) ==
  /\ CanCall
  /\ Expires(k)
  /\ EraseAfter(map, k, map[k].timeout)
  /\ UNCHANGED <<wheels, ticks, tick, loop, destructed, rest>>

\* Mutant: map_[key] = ..., which replaces an existing value.
InsertedOver(k, d) == [map EXCEPT ![k] = [timeout |-> d, entry |-> None]]

\* map_.insert: an existing value is left as it is.
Inserted(k, d) ==
  IF Present(k) THEN map ELSE [map EXCEPT ![k] = [timeout |-> d, entry |-> None]]

RestAfterInsert(k, d) == IF Present(k) THEN rest ELSE [rest EXCEPT ![k] = d]

\* Mutant: the test of the timeout is left out, as in the rvalue overload.
InsertUnguarded(k, d) ==
  /\ CanCall
  /\ EraseAfter(Inserted(k, d), k, d)
  /\ rest' = RestAfterInsert(k, d)
  /\ UNCHANGED <<wheels, ticks, tick, loop, destructed>>

\* insert(const T1&, const T2&, timeout); modify on a key that is absent.
Insert(k, d) ==
  /\ CanCall
  /\ \/ d > 0 /\ EraseAfter(Inserted(k, d), k, d)
     \/ d = 0 /\ map' = Inserted(k, d) /\ UNCHANGED <<target, call>>
  /\ rest' = RestAfterInsert(k, d)
  /\ UNCHANGED <<wheels, ticks, tick, loop, destructed>>

\* insert(const T1&, T2&&, timeout): both of its branches call eraseAfter.
InsertMove(k, d) ==
  /\ CanCall
  /\ EraseAfter(Inserted(k, d), k, d)
  /\ rest' = RestAfterInsert(k, d)
  /\ UNCHANGED <<wheels, ticks, tick, loop, destructed>>

\* The rest of eraseAfter: insertEntry under bucketMutex_ ...
Arm ==
  /\ call.stage = "arm"
  /\ wheels' = InsertEntry(call.delay, call.entry)
  /\ rest' = IF Expires(call.key) /\ rest[call.key] < call.delay
             THEN [rest EXCEPT ![call.key] = call.delay] ELSE rest
  /\ call' = [call EXCEPT !.stage = "drop"]
  /\ UNCHANGED <<map, target, ticks, tick, loop, destructed>>

\* ... and the return, which drops the local shared pointer and unlocks mtx_.
\* If that pointer is the last one, the destructor of the entry runs here and
\* its callback locks mtx_, which this very thread holds: it never returns.
Drop ==
  /\ call.stage = "drop"
  /\ \/ /\ InWheels(call.entry) \/ InBucket(tick.bucket, call.entry)
        /\ call' = Idle
        /\ UNCHANGED <<map, target>>
     \/ /\ ~ InWheels(call.entry) /\ ~ InBucket(tick.bucket, call.entry)
        /\ call' = [call EXCEPT !.stage = "stuck", !.entry = None]
        /\ ForgetEntry(call.entry)
  /\ UNCHANGED <<wheels, ticks, tick, loop, destructed, rest>>

\* Also from a task that runs inside of a tick.
Erase(k) ==
  /\ ~ destructed
  /\ call = Idle
  /\ Present(k)
  /\ map' = [map EXCEPT ![k] = None]
  /\ rest' = [rest EXCEPT ![k] = 0]
  /\ UNCHANGED <<target, wheels, ticks, tick, call, loop, destructed>>

\* runAfter locks bucketMutex_ only.  With a zero delay no bucket takes the entry: the
\* task runs inside of the call, and nothing of it stays here.
RunAfter(e, d) ==
  /\ ~ destructed
  /\ LoopConfined => tick.stage = "idle" /\ call = Idle
  /\ d > 0
  /\ target[e] = None
  /\ target' = [target EXCEPT ![e] = Task]
  /\ wheels' = InsertEntry(d, e)
  /\ rest' = [rest EXCEPT ![e] = d]
  /\ UNCHANGED <<map, ticks, tick, call, loop, destructed>>

-----------------------------------------------------------------------------
(* The timer callback, on the event loop. *)

TickIdle == [stage |-> "idle", level |-> 0, bucket |-> {}, firing |-> None]

\* A key being accessed at this moment does not age below the delay that the
\* access is about to ask for.
Ageing(o) ==
  \/ /\ o \in Keys /\ Expires(o)
     /\ ~ (call.stage = "arm" /\ call.key = o /\ rest[o] <= call.delay)
  \/ o \in Entries /\ IsTask(o)

\* What is left when a key has expired or a task has run (a key erased by a
\* caller has 0).
Spent == -1

\* rest stops at -2: "late" needs no amount.
Aged(r) == IF r > -2 THEN r - 1 ELSE r

TickStart ==
  /\ loop = "running" /\ ~ destructed
  /\ tick.stage = "idle"
  /\ LoopConfined => call = Idle
  /\ PromptCalls => call.stage # "drop"
  /\ ticks' = (ticks + 1) % Pow[Levels]
  /\ tick' = [TickIdle EXCEPT !.stage = "pop"]
  /\ rest' = [o \in Keys \cup Entries |-> IF Ageing(o) THEN Aged(rest[o]) ELSE rest[o]]
  /\ UNCHANGED <<map, target, wheels, call, loop, destructed>>

\* The front bucket of the wheel is taken out under bucketMutex_.
TickPop ==
  /\ tick.stage = "pop"
  /\ tick' = [tick EXCEPT !.stage = "release", !.bucket = wheels[tick.level][0]]
  /\ wheels' = [wheels EXCEPT ![tick.level] = Rotate(wheels[tick.level])]
  /\ UNCHANGED <<map, target, ticks, call, loop, destructed, rest>>

\* A wrapper is destroyed: it moves what it wraps to the next lower wheel.
TickMoveDown(item) ==
  LET last  == Len(item.slots)
      lower == [entry |-> item.entry,
                slots |-> [i \in 1..(last - 1) |-> item.slots[i]]]
  IN  /\ tick.stage = "release" /\ tick.firing = None
      /\ last > 0
      /\ wheels' = [wheels EXCEPT ![last - 1][item.slots[last]] = @ \cup {lower}]
      /\ tick' = [tick EXCEPT !.bucket = @ \ {item}]
      /\ UNCHANGED <<map, target, ticks, call, loop, destructed, rest>>

\* A strong pointer to an entry is destroyed.  If it is the last one the entry's
\* callback runs: a task at once, the erasure of a key when mtx_ can be locked.
TickRelease(item) ==
  LET others == tick.bucket \ {item}
      e      == item.entry
      last   == ~ InWheels(e) /\ ~ InBucket(others, e) /\ call.entry # e
  IN  /\ tick.stage = "release" /\ tick.firing = None
      /\ item.slots = <<>>
      /\ tick' = [tick EXCEPT !.bucket = others,
                              !.firing = IF last /\ ~ IsTask(e) THEN target[e] ELSE None]
      /\ \/ last /\ ForgetEntry(e)
         \/ ~ last /\ UNCHANGED <<map, target>>
      /\ rest' = IF last /\ IsTask(e) THEN [rest EXCEPT ![e] = Spent] ELSE rest
      /\ UNCHANGED <<wheels, ticks, call, loop, destructed>>

\* Mutants: the expiry callback gives up when mtx_ is taken, or takes the test
\* for a re-armed key the wrong way round.
TickExpireTryLock ==
  LET k == tick.firing
  IN  /\ k # None
      /\ IF call = Idle /\ Expires(k) /\ map[k].entry = None
         THEN /\ map' = [map EXCEPT ![k] = None]
              /\ rest' = [rest EXCEPT ![k] = Spent]
         ELSE UNCHANGED <<map, rest>>
      /\ tick' = [tick EXCEPT !.firing = None]
      /\ UNCHANGED <<target, wheels, ticks, call, loop, destructed>>

TickExpireReversed ==
  LET k == tick.firing
  IN  /\ k # None
      /\ call = Idle
      /\ IF Expires(k) /\ map[k].entry # None
         THEN /\ map' = [map EXCEPT ![k] = None]
              /\ rest' = [rest EXCEPT ![k] = Spent]
         ELSE UNCHANGED <<map, rest>>
      /\ tick' = [tick EXCEPT !.firing = None]
      /\ UNCHANGED <<target, wheels, ticks, call, loop, destructed>>

\* The expiry callback, under mtx_: only if the key has not been re-armed since.
TickExpire ==
  LET k == tick.firing
  IN  /\ k # None
      /\ call = Idle
      /\ \/ /\ Expires(k) /\ map[k].entry = None
            /\ map' = [map EXCEPT ![k] = None]
            /\ rest' = [rest EXCEPT ![k] = Spent]
         \/ /\ ~ (Expires(k) /\ map[k].entry = None)
            /\ UNCHANGED <<map, rest>>
      /\ tick' = [tick EXCEPT !.firing = None]
      /\ UNCHANGED <<target, wheels, ticks, call, loop, destructed>>

\* Mutant: only the lowest wheel turns.
TickNextLowestOnly ==
  /\ tick.stage = "release" /\ tick.firing = None /\ tick.bucket = {}
  /\ tick' = TickIdle
  /\ UNCHANGED <<map, target, wheels, ticks, call, loop, destructed, rest>>

\* The bucket is empty: on to the next wheel if its turn has come.
TickNext ==
  /\ tick.stage = "release" /\ tick.firing = None /\ tick.bucket = {}
  /\ tick' = IF tick.level + 1 < Levels /\ ticks % Pow[tick.level + 1] = 0
             THEN [TickIdle EXCEPT !.stage = "pop", !.level = tick.level + 1]
             ELSE TickIdle
  /\ UNCHANGED <<map, target, wheels, ticks, call, loop, destructed, rest>>

-----------------------------------------------------------------------------
(* The end of the event loop and of the object. *)

\* The runOnQuit callback; a loop that has quit runs no timer.
LoopEnd ==
  /\ loop = "running" /\ tick = TickIdle
  /\ loop' = "ended"
  /\ UNCHANGED <<map, target, wheels, ticks, tick, call, destructed, rest>>

\* ~CacheMap, under the mutex of the control block: the map is cleared and the
\* wheels are dropped from the top one down, so every entry left is destroyed:
\* tasks run, expiry callbacks find no key.
Destruct ==
  /\ ~ destructed
  /\ call = Idle /\ tick = TickIdle
  /\ destructed' = TRUE
  /\ map' = [k \in Keys |-> None]
  /\ target' = [e \in Entries |-> None]
  /\ wheels' = [l \in LevelSet |-> [s \in SlotSet |-> {}]]
  /\ rest' = [o \in Keys \cup Entries |-> 0]
  /\ UNCHANGED <<ticks, tick, call, loop>>

Destroyed == destructed /\ UNCHANGED vars

-----------------------------------------------------------------------------
Init ==
  /\ map = [k \in Keys |-> None]
  /\ target = [e \in Entries |-> None]
  /\ wheels = [l \in LevelSet |-> [s \in SlotSet |-> {}]]
  /\ ticks = 0
  /\ tick = TickIdle
  /\ call = Idle
  /\ loop = "running"
  /\ destructed = FALSE
  /\ rest = [o \in Keys \cup Entries |-> 0]

CallStep ==
  \/ \E k \in Keys : Access(k) \/ Erase(k)
  \/ \E k \in Keys, d \in Timeouts : Insert(k, d)
  \/ \E k \in Keys, d \in MoveTimeouts : InsertMove(k, d)
  \/ \E e \in Entries, d \in Timeouts : RunAfter(e, d)

TickStep ==
  \/ TickPop
  \/ \E item \in tick.bucket : TickMoveDown(item) \/ TickRelease(item)
  \/ TickNext

Next ==
  \/ CallStep \/ Arm \/ Drop
  \/ TickStart \/ TickStep \/ TickExpire
  \/ LoopEnd \/ Destruct \/ Destroyed

Spec == Init /\ [][Next]_vars

\* A call that has begun goes on; a running loop serves its timer again and
\* again; the timer callback goes on, and gets mtx_ if it is free often enough.
LiveSpec ==
  /\ Spec
  /\ WF_vars(Arm) /\ WF_vars(Drop)
  /\ SF_vars(TickStart) /\ WF_vars(TickStep) /\ SF_vars(TickExpire)

-----------------------------------------------------------------------------
(* Properties. *)

TypeOK ==
  /\ map \in [Keys -> MapValue \cup {None}]
  /\ target \in [Entries -> Keys \cup {Task, None}]
  /\ wheels \in [LevelSet -> [SlotSet -> SUBSET Items]]
  /\ ticks \in Nat
  /\ tick \in [stage : {"idle", "pop", "release"}, level : LevelSet,
               bucket : SUBSET Items, firing : Keys \cup {None}]
  /\ call \in [stage : {"none", "arm", "drop", "stuck"}, key : Keys \cup {None},
               entry : Entries \cup {None}, delay : Timeouts \cup {0}]
  /\ loop \in {"running", "ended"}
  /\ destructed \in BOOLEAN
  /\ rest \in [Keys \cup Entries -> Int]

Referenced(e) == InWheels(e) \/ InBucket(tick.bucket, e) \/ call.entry = e

\* A weak pointer that is not null reaches an entry whose callback erases that
\* very key and that some bucket, or the call in progress, keeps alive: the weak
\* pointer logic of eraseAfter never revives or misdirects an entry.
WeakPointersSound ==
  \A k \in Keys : Present(k) /\ map[k].entry # None =>
    target[map[k].entry] = k /\ Referenced(map[k].entry)

\* No key with a timeout is without an entry, unless the expiry callback that will
\* remove it is under way.
NoStrandedKey ==
  \A k \in Keys : Expires(k) =>
    map[k].entry # None \/ tick.firing = k \/ (call.stage = "stuck" /\ call.key = k)

\* No key with a timeout is ever stranded in the map: an entry of its own is in a wheel
\* or held by the call in progress, or the expiry callback that will remove it is under
\* way.  (eraseAfter, the timer callback and the expiry callback, in any interleaving.)
KeysExpire == WeakPointersSound /\ NoStrandedKey

\* Every entry that has something left to do is reachable: no task handed to
\* runAfter and no expiry is lost by a cascade from wheel to wheel.
NoLostEntry == \A e \in Entries : target[e] # None => Referenced(e)

\* The destructor of an entry never runs on a thread that is inside a call:
\* its callback would lock mtx_ a second time.
NoSelfDeadlock == call.stage # "stuck"

\* The call in progress holds the entry of the key it works on.
CallSound ==
  call.stage \in {"arm", "drop"} =>
    /\ call.key \in Keys /\ call.entry \in Entries
    /\ Present(call.key) /\ map[call.key].entry = call.entry

\* An item of wheel l has l moves to make before its entry is let go; outside the
\* destruction of a bucket the timer callback holds none.
ItemShape ==
  /\ \A l \in LevelSet, s \in SlotSet : \A item \in wheels[l][s] : Len(item.slots) = l
  /\ \A item \in tick.bucket : Len(item.slots) = tick.level
  /\ tick.stage # "release" => tick.bucket = {} /\ tick.firing = None

\* What makes KeysExpire and NoLostEntry inductive.
IndInv ==
  /\ TypeOK /\ CallSound /\ ItemShape
  /\ WeakPointersSound /\ NoStrandedKey /\ NoLostEntry

\* A call that has armed its entry keeps it alive until it returns: an item of the
\* entry is somewhere the tick now running, if any, does not let it go from.
Anchored ==
  call.stage = "drop" =>
    \/ \E l \in LevelSet, s \in SlotSet :
         /\ InBucket(wheels[l][s], call.entry)
         /\ ~ (tick.stage = "pop" /\ tick.level = 0 /\ l = 0 /\ s = 0)
    \/ tick.level > 0 /\ InBucket(tick.bucket, call.entry)

\* What makes NoSelfDeadlock inductive where it holds.
DeadlockInv ==
  /\ NoSelfDeadlock /\ Anchored
  /\ call.stage \in {"arm", "drop"} => call.delay > 0

\* The timer callback erases a key on expiry, or runs a task, only when the time
\* asked for has passed since the last access.
NeverEarly ==
  [][/\ \A k \in Keys : tick.firing = k /\ tick'.firing # k /\ Present(k) /\ ~ Present(k)'
                         => rest[k] <= 0
     /\ \A e \in Entries : IsTask(e) /\ ~ IsTask(e)' /\ ~ destructed'
                            => rest[e] <= 0]_vars

\* The wheels implement the promise of ExpiringMap: neither early nor late.
Promise == INSTANCE ExpiringMap WITH
  TaskIds <- Entries,
  timeout <- [k \in Keys |-> IF Present(k) THEN map[k].timeout ELSE None],
  tasks   <- {e \in Entries : IsTask(e)}

ImplementsPromise == Promise!Spec

\* A key that callers leave alone is erased in the end, and a task runs, unless
\* the loop ends.
EventuallyErased ==
  \A k \in Keys :
    <>[](call.key # k) => <>[](~ Expires(k)) \/ <>(loop = "ended")

EventuallyRun ==
  \A e \in Entries : IsTask(e) ~> (~ IsTask(e) \/ loop = "ended")
=============================================================================
