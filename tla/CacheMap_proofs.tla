-------------------------- MODULE CacheMap_proofs --------------------------
(***************************************************************************)
(* Proofs about CacheMap, for any number of keys and entries, any wheels,  *)
(* and any threads: no expiry is lost, whatever the interleaving of calls  *)
(* with the timer callback; for calls that return promptly, no destructor  *)
(* of an entry ever runs inside a call; and, for calls on the event loop   *)
(* or an object of one wheel, the map keeps the promise of ExpiringMap.    *)
(* And the loop of insertEntry, for every delay and every phase of the     *)
(* wheels, puts an entry where it is let go exactly when it is due.        *)
(***************************************************************************)
EXTENDS CacheMap, InsertEntryLoop, SequenceInduction, TLAPS

-----------------------------------------------------------------------------
(* The placement of an entry in the wheels. *)

LEMMA DivType == \A x \in Int, y \in Nat \ {0} : x \div y \in Int
OBVIOUS

LEMMA ModType == \A x \in Int : \A b \in Nat \ {0} : x % b \in 0..(b - 1)
OBVIOUS

\* The quantities of insertEntry are integers, and a captured bucket exists.
LEMMA PlacementType ==
  ASSUME NEW d \in Nat, NEW t \in Nat, NEW i \in LevelSet
  PROVE  /\ Turn(d, t, i) \in Int
         /\ DelayAt(d, t, i) \in Int
         /\ CapturedSlot(d, t, i) \in SlotSet
<1>1. Pow[i] \in Nat \ {0}
  BY WheelAssumption DEF LevelSet
<1>2. Carry(i) \in Int
  <2>1. Buckets * (Pow[i] - 1) \in Int /\ Buckets - 1 \in Nat \ {0}
    BY <1>1, WheelAssumption
  <2> QED BY <2>1, DivType DEF Carry
<1>3. Turn(d, t, i) \in Int
  <2>1. d + t - Carry(i) \in Int
    BY <1>2
  <2> QED BY <2>1, <1>1, DivType DEF Turn
<1>4. t \div Pow[i] \in Int
  BY <1>1, DivType
<1>5. DelayAt(d, t, i) \in Int
  BY <1>3, <1>4 DEF DelayAt
<1>6. CapturedSlot(d, t, i) \in SlotSet
  BY <1>3, ModType, WheelAssumption DEF CapturedSlot, SlotSet
<1> QED BY <1>3, <1>5, <1>6

LEMMA LandingSlotType ==
  ASSUME NEW d \in Nat, NEW t \in Nat, NEW l \in LevelSet
  PROVE  LandingSlot(d, t, l) \in SlotSet
<1>1. ASSUME NEW D, D \in 1..Buckets PROVE D - 1 \in SlotSet
  BY <1>1, WheelAssumption DEF SlotSet
<1>2. Buckets - 1 \in SlotSet
  BY WheelAssumption DEF SlotSet
<1> QED BY <1>1, <1>2 DEF LandingSlot

\* The loop of insertEntry always puts the entry in some wheel.
LEMMA LandsSomewhere ==
  ASSUME NEW d \in Nat, NEW t \in Nat
  PROVE  \E l \in LevelSet : LandsOn(d, t, l)
<1> DEFINE S == {i \in LevelSet : Fits(d, t, i)}
<1>0. Levels - 1 \in LevelSet /\ LevelSet \subseteq Nat
  BY WheelAssumption DEF LevelSet
<1>1. CASE S = {}
  BY <1>0, <1>1 DEF LandsOn
<1>2. CASE S # {}
  <2>1. PICK m \in S : \A n \in S : m <= n
    BY <1>2, <1>0, LeastNumber
  <2>2. \A i \in LevelSet : i < m => ~ Fits(d, t, i)
    BY <2>1, <1>0
  <2> QED BY <2>1, <2>2 DEF LandsOn
<1> QED BY <1>1, <1>2

LEMMA CapturedSlotsType ==
  ASSUME NEW d \in Nat, NEW t \in Nat, NEW l \in LevelSet
  PROVE  /\ CapturedSlots(d, t, l) \in Seq(SlotSet)
         /\ Len(CapturedSlots(d, t, l)) = l
<1>1. l \in Nat
  BY WheelAssumption DEF LevelSet
<1>2. \A i \in 1..l : CapturedSlot(d, t, i - 1) \in SlotSet
  <2>1. \A i \in 1..l : i - 1 \in LevelSet
    BY WheelAssumption DEF LevelSet
  <2> QED BY <2>1, PlacementType
<1>3. CapturedSlots(d, t, l) \in [1..l -> SlotSet]
  BY <1>2 DEF CapturedSlots
<1>4. CapturedSlots(d, t, l) \in Seq(SlotSet)
  BY <1>1, <1>3
<1>5. DOMAIN CapturedSlots(d, t, l) = 1..l
  BY DEF CapturedSlots
<1> QED BY <1>1, <1>4, <1>5

\* A delay of a second or more never lands in the bucket that the tick now
\* running may be about to take: bucket 0 of wheel 0.
LEMMA NotInFrontBucket ==
  ASSUME NEW d \in Nat \ {0}, NEW t \in Nat
  PROVE  LandingSlot(d, t, 0) # 0
<1> USE WheelAssumption
<1>1. Carry(0) = 0
  BY DEF Carry
<1>2. Turn(d, t, 0) = d + t
  BY <1>1 DEF Turn
<1>3. DelayAt(d, t, 0) = d + 1
  BY <1>2 DEF DelayAt
<1> QED BY <1>3 DEF LandingSlot

-----------------------------------------------------------------------------
(* What each way of changing the wheels does to the references. *)

\* insertEntry adds a reference (if the delay is not zero) and removes none.
LEMMA InsertEntryRefs ==
  ASSUME TypeOK, ItemShape,
         NEW d \in Nat, NEW e \in Entries, wheels' = InsertEntry(d, e)
  PROVE  /\ wheels' \in [LevelSet -> [SlotSet -> SUBSET Items]]
         /\ \A x \in Entries : InWheels(x) => InWheels(x)'
         /\ d > 0 => InWheels(e)'
         /\ \A l \in LevelSet, s \in SlotSet :
              \A item \in wheels'[l][s] : Len(item.slots) = l
<1> DEFINE new(l) == [entry |-> e, slots |-> CapturedSlots(d, ticks, l)]
<1>0. ticks \in Nat
  BY DEF TypeOK
<1>1. \A l \in LevelSet : new(l) \in Items /\ Len(new(l).slots) = l
  BY <1>0, CapturedSlotsType DEF Items
<1>2. \A l \in LevelSet, s \in SlotSet :
        wheels'[l][s] = IF d > 0 /\ LandsOn(d, ticks, l) /\ s = LandingSlot(d, ticks, l)
                        THEN wheels[l][s] \cup {new(l)} ELSE wheels[l][s]
  BY DEF InsertEntry
<1>3. wheels' \in [LevelSet -> [SlotSet -> SUBSET Items]]
  <2>1. ASSUME NEW l \in LevelSet, NEW s \in SlotSet
        PROVE  wheels'[l][s] \in SUBSET Items
    <3>1. new(l) \in Items /\ wheels[l][s] \in SUBSET Items
      BY <1>1 DEF TypeOK
    <3>2. wheels'[l][s] \in {wheels[l][s], wheels[l][s] \cup {new(l)}}
      BY <1>2
    <3> HIDE DEF new
    <3> QED BY <3>1, <3>2
  <2> QED BY <2>1 DEF InsertEntry
<1>4. \A l \in LevelSet, s \in SlotSet : wheels[l][s] \subseteq wheels'[l][s]
  BY <1>2
<1>5. \A x \in Entries : InWheels(x) => InWheels(x)'
  BY <1>4 DEF InWheels, InBucket
<1>6. d > 0 => InWheels(e)'
  <2> SUFFICES ASSUME d > 0 PROVE InWheels(e)'
    OBVIOUS
  <2>1. PICK l \in LevelSet : LandsOn(d, ticks, l)
    BY <1>0, LandsSomewhere
  <2>2. LandingSlot(d, ticks, l) \in SlotSet
    BY <1>0, LandingSlotType
  <2>3. new(l) \in wheels'[l][LandingSlot(d, ticks, l)] /\ new(l).entry = e
    BY <1>2, <2>1, <2>2 DEF new
  <2> QED BY <2>2, <2>3 DEF InWheels, InBucket
<1>7. \A l \in LevelSet, s \in SlotSet :
        \A item \in wheels'[l][s] : Len(item.slots) = l
  <2> TAKE l \in LevelSet, s \in SlotSet
  <2>1. wheels'[l][s] \in {wheels[l][s], wheels[l][s] \cup {new(l)}}
    BY <1>2
  <2>2. Len(new(l).slots) = l /\ \A item \in wheels[l][s] : Len(item.slots) = l
    BY <1>1 DEF ItemShape
  <2> HIDE DEF new
  <2> QED BY <2>1, <2>2
<1> QED BY <1>3, <1>5, <1>6, <1>7

\* Popping the front bucket of a wheel moves references to the local bucket.
LEMMA TickPopRefs ==
  ASSUME TypeOK, ItemShape, TickPop
  PROVE  /\ wheels' \in [LevelSet -> [SlotSet -> SUBSET Items]]
         /\ \A x \in Entries : InWheels(x) => InWheels(x)' \/ InBucket(tick'.bucket, x)
         /\ ItemShape'
<1> DEFINE n == tick.level
<1>0. n \in LevelSet /\ 0 \in SlotSet /\ Buckets - 1 \in SlotSet
  BY WheelAssumption DEF TypeOK, SlotSet
<1>1. /\ tick'.bucket = wheels[n][0] /\ tick'.level = n /\ tick'.stage = "release"
      /\ \A l \in LevelSet : l # n => wheels'[l] = wheels[l]
      /\ wheels'[n] = Rotate(wheels[n])
  BY <1>0 DEF TickPop, TypeOK
<1>2. \A s \in SlotSet : s # Buckets - 1 => s + 1 \in SlotSet
  BY WheelAssumption DEF SlotSet
<1>3. \A s \in SlotSet : s # 0 => s - 1 \in SlotSet /\ s - 1 # Buckets - 1 /\ (s - 1) + 1 = s
  BY WheelAssumption DEF SlotSet
<1>4. Rotate(wheels[n]) \in [SlotSet -> SUBSET Items]
  BY <1>0, <1>2 DEF Rotate, TypeOK
<1>5. wheels' \in [LevelSet -> [SlotSet -> SUBSET Items]]
  BY <1>0, <1>4 DEF TickPop, TypeOK
<1>6. ASSUME NEW x \in Entries, InWheels(x)
      PROVE  InWheels(x)' \/ InBucket(tick'.bucket, x)
  <2>1. PICK l \in LevelSet, s \in SlotSet : InBucket(wheels[l][s], x)
    BY <1>6 DEF InWheels
  <2>2. CASE l # n
    BY <2>1, <2>2, <1>1 DEF InWheels
  <2>3. CASE l = n /\ s = 0
    BY <2>1, <2>3, <1>1
  <2>4. CASE l = n /\ s # 0
    <3>1. wheels'[n][s - 1] = wheels[n][s]
      BY <1>1, <1>3, <2>4 DEF Rotate
    <3> QED BY <3>1, <1>0, <1>3, <2>1, <2>4 DEF InWheels
  <2> QED BY <2>2, <2>3, <2>4
<1>7. ItemShape'
  <2>1. \A s \in SlotSet : \A item \in wheels'[n][s] : Len(item.slots) = n
    BY <1>0, <1>1, <1>2 DEF Rotate, ItemShape
  <2>2. \A l \in LevelSet, s \in SlotSet :
          \A item \in wheels'[l][s] : Len(item.slots) = l
    BY <2>1, <1>1 DEF ItemShape
  <2>3. \A item \in tick'.bucket : Len(item.slots) = tick'.level
    BY <1>0, <1>1 DEF ItemShape
  <2> QED BY <2>2, <2>3, <1>1 DEF ItemShape
<1> QED BY <1>5, <1>6, <1>7

\* A wrapper puts what it wraps in the next lower wheel.
LEMMA MoveDownRefs ==
  ASSUME TypeOK, ItemShape, NEW item \in tick.bucket, TickMoveDown(item)
  PROVE  /\ wheels' \in [LevelSet -> [SlotSet -> SUBSET Items]]
         /\ tick' \in [stage : {"release"}, level : {tick.level},
                       bucket : {tick.bucket \ {item}}, firing : {None}]
         /\ \A x \in Entries : InWheels(x) => InWheels(x)'
         /\ InWheels(item.entry)'
         /\ ItemShape'
<1> DEFINE last  == Len(item.slots)
           to    == last - 1
           slot  == item.slots[last]
           lower == [entry |-> item.entry, slots |-> [i \in 1..to |-> item.slots[i]]]
<1>0. item \in Items /\ item.slots \in Seq(SlotSet) /\ item.entry \in Entries
  BY DEF TypeOK, Items
<1>1. last = tick.level /\ last \in Nat /\ last > 0
  BY <1>0 DEF ItemShape, TickMoveDown
<1>2. to \in LevelSet /\ to \in Nat
  <2>1. last \in 0..(Levels - 1) /\ Levels \in Nat
    BY <1>1, WheelAssumption DEF TypeOK, LevelSet
  <2> HIDE DEF last
  <2>2. last - 1 \in 0..(Levels - 1) /\ last - 1 \in Nat
    BY <2>1, <1>1
  <2> QED BY <2>2 DEF LevelSet
<1>3. slot \in SlotSet
  BY <1>0, <1>1
<1>4. lower \in Items /\ Len(lower.slots) = to /\ lower.entry = item.entry
  <2>1. lower.slots \in [1..to -> SlotSet]
    BY <1>0, <1>1
  <2>2. lower.slots \in Seq(SlotSet) /\ Len(lower.slots) = to
    BY <2>1, <1>2
  <2> QED BY <2>2, <1>0 DEF Items
<1>5. /\ wheels' = [wheels EXCEPT ![to][slot] = @ \cup {lower}]
      /\ tick' = [tick EXCEPT !.bucket = @ \ {item}]
      /\ tick.stage = "release" /\ tick.firing = None
  BY DEF TickMoveDown
<1> HIDE DEF lower, slot, to, last
<1>6. \A l \in LevelSet, s \in SlotSet :
        wheels'[l][s] = IF l = to /\ s = slot THEN wheels[l][s] \cup {lower} ELSE wheels[l][s]
  BY <1>2, <1>3, <1>5 DEF TypeOK
<1>7. wheels' \in [LevelSet -> [SlotSet -> SUBSET Items]]
  BY <1>2, <1>3, <1>4, <1>5 DEF TypeOK
<1>8. \A x \in Entries : InWheels(x) => InWheels(x)'
  BY <1>6 DEF InWheels, InBucket
<1>9. InWheels(item.entry)'
  <2>1. lower \in wheels'[to][slot]
    BY <1>2, <1>3, <1>6
  <2> QED BY <2>1, <1>2, <1>3, <1>4 DEF InWheels, InBucket
<1>10. tick' \in [stage : {"release"}, level : {tick.level},
                  bucket : {tick.bucket \ {item}}, firing : {None}]
  BY <1>5 DEF TypeOK
<1>11. ItemShape'
  <2>1. \A l \in LevelSet, s \in SlotSet : \A x \in wheels'[l][s] : Len(x.slots) = l
    <3> TAKE l \in LevelSet, s \in SlotSet
    <3>1. wheels'[l][s] = wheels[l][s] \/ (l = to /\ wheels'[l][s] = wheels[l][s] \cup {lower})
      BY <1>6
    <3> QED BY <3>1, <1>4 DEF ItemShape
  <2>2. \A x \in tick'.bucket : Len(x.slots) = tick'.level
    BY <1>10 DEF ItemShape
  <2> QED BY <2>1, <2>2, <1>10 DEF ItemShape
<1> QED BY <1>7, <1>8, <1>9, <1>10, <1>11

-----------------------------------------------------------------------------
(* The inductive invariant, action by action. *)

\* Forgetting an entry keeps the map and the targets well typed and takes the
\* weak pointers to that entry away, and nothing else.
LEMMA ForgetEntryEffect ==
  ASSUME TypeOK, NEW e \in Entries, ForgetEntry(e)
  PROVE  /\ map' \in [Keys -> MapValue \cup {None}]
         /\ target' \in [Entries -> Keys \cup {Task, None}]
         /\ \A k \in Keys : Present(k) <=> Present(k)'
         /\ \A k \in Keys : Present(k) => map'[k].timeout = map[k].timeout
         /\ \A k \in Keys : Present(k) =>
              map'[k].entry = IF map[k].entry = e THEN None ELSE map[k].entry
         /\ \A x \in Entries : target'[x] = IF x = e THEN None ELSE target[x]
<1>1. ASSUME NEW k \in Keys, map[k] # None
      PROVE  /\ map[k] \in MapValue
             /\ [map[k] EXCEPT !.entry = None] \in MapValue
             /\ [map[k] EXCEPT !.entry = None].timeout = map[k].timeout
             /\ [map[k] EXCEPT !.entry = None].entry = None
             /\ [map[k] EXCEPT !.entry = None] # None
  <2>1. map[k] \in MapValue
    BY <1>1 DEF TypeOK
  <2>2. [map[k] EXCEPT !.entry = None] \in MapValue
    BY <2>1 DEF MapValue
  <2>3. [map[k] EXCEPT !.entry = None].timeout = map[k].timeout
    BY <2>1 DEF MapValue
  <2>4. [map[k] EXCEPT !.entry = None].entry = None
    BY <2>1 DEF MapValue
  <2>5. [map[k] EXCEPT !.entry = None] # None
    BY <2>2, NameAssumption
  <2> QED BY <2>1, <2>2, <2>3, <2>4, <2>5
<1>2. ASSUME NEW k \in Keys
      PROVE  /\ map'[k] \in MapValue \cup {None}
             /\ Present(k) <=> Present(k)'
             /\ Present(k) =>
                  /\ map'[k].timeout = map[k].timeout
                  /\ map'[k].entry = IF map[k].entry = e THEN None ELSE map[k].entry
  <2>1. map'[k] = IF map[k] # None /\ map[k].entry = e
                  THEN [map[k] EXCEPT !.entry = None] ELSE map[k]
    BY DEF ForgetEntry
  <2> QED BY <2>1, <1>1 DEF TypeOK, Present
<1>3. map' \in [Keys -> MapValue \cup {None}]
  BY <1>2 DEF ForgetEntry
<1>4. /\ target' \in [Entries -> Keys \cup {Task, None}]
      /\ \A x \in Entries : target'[x] = IF x = e THEN None ELSE target[x]
  BY DEF ForgetEntry, TypeOK
<1> QED BY <1>2, <1>3, <1>4

\* eraseAfter gives the key it is called for a live entry, and disturbs no other.
LEMMA EraseAfterInv ==
  ASSUME IndInv, call = Idle,
         NEW k \in Keys, NEW d \in Timeouts,
         NEW m \in [Keys -> MapValue \cup {None}], m[k] # None,
         \A j \in Keys \ {k} : m[j] = map[j],
         m[k] = map[k] \/ m[k].entry = None,
         EraseAfter(m, k, d), UNCHANGED <<wheels, tick>>
  PROVE  /\ map' \in [Keys -> MapValue \cup {None}]
         /\ target' \in [Entries -> Keys \cup {Task, None}]
         /\ call' \in [stage : {"none", "arm", "drop", "stuck"}, key : Keys \cup {None},
                       entry : Entries \cup {None}, delay : Timeouts \cup {0}]
         /\ CallSound' /\ ItemShape'
         /\ WeakPointersSound' /\ NoStrandedKey' /\ NoLostEntry'
<1>0. /\ call.entry = None /\ call.stage = "none"
      /\ None \notin Entries /\ None \notin Keys
      /\ m[k] \in MapValue
  BY NameAssumption DEF Idle
<1>1. \A x \in Entries : Referenced(x) => InWheels(x)' \/ InBucket(tick'.bucket, x)
  BY <1>0 DEF Referenced, InWheels, InBucket
<1>2. ItemShape'
  BY DEF IndInv, ItemShape
<1>3. CASE m[k].entry # None /\ map' = m /\ UNCHANGED target
           /\ call' = [stage |-> "arm", key |-> k, entry |-> m[k].entry, delay |-> d]
  <2>1. m[k] = map[k] /\ m[k].entry \in Entries
    BY <1>0, <1>3 DEF MapValue
  <2>2. \A j \in Keys : map'[j] = map[j]
    BY <1>3, <2>1
  <2>3. CallSound'
    BY <1>0, <1>3, <2>1 DEF CallSound, Present
  <2>4. WeakPointersSound'
    BY <1>1, <1>3, <2>2 DEF IndInv, TypeOK, MapValue, WeakPointersSound, Present, Referenced
  <2>5. NoStrandedKey'
    BY <1>0, <1>3, <2>2 DEF IndInv, NoStrandedKey, Expires, Present
  <2>6. NoLostEntry'
    BY <1>1, <1>3 DEF IndInv, NoLostEntry, Referenced
  <2> QED BY <1>2, <1>3, <2>1, <2>3, <2>4, <2>5, <2>6 DEF IndInv, TypeOK
<1>4. CASE m[k].entry = None
           /\ \E e \in Entries :
                /\ target[e] = None
                /\ target' = [target EXCEPT ![e] = k]
                /\ map' = [m EXCEPT ![k].entry = e]
                /\ call' = [stage |-> "arm", key |-> k, entry |-> e, delay |-> d]
  <2>1. PICK e \in Entries :
          /\ target[e] = None
          /\ target' = [target EXCEPT ![e] = k]
          /\ map' = [m EXCEPT ![k].entry = e]
          /\ call' = [stage |-> "arm", key |-> k, entry |-> e, delay |-> d]
    BY <1>4
  <2>2. /\ [m[k] EXCEPT !.entry = e] \in MapValue
        /\ [m[k] EXCEPT !.entry = e].entry = e
    BY <1>0 DEF MapValue
  <2>3. /\ map' \in [Keys -> MapValue \cup {None}]
        /\ map'[k] # None /\ map'[k].entry = e
        /\ \A j \in Keys \ {k} : map'[j] = map[j]
    BY <2>1, <2>2, NameAssumption
  <2>4. target \in [Entries -> Keys \cup {Task, None}]
    BY DEF IndInv, TypeOK
  <2>5. target'[e] = k /\ \A x \in Entries \ {e} : target'[x] = target[x]
    BY <2>1, <2>4
  <2>6. CallSound'
    BY <2>1, <2>3 DEF CallSound, Present
  <2>7. WeakPointersSound'
    <3> SUFFICES ASSUME NEW j \in Keys, Present(j)', (map[j].entry # None)'
                 PROVE  (target[map[j].entry] = j /\ Referenced(map[j].entry))'
      BY DEF WeakPointersSound
    <3>1. CASE j = k
      BY <3>1, <2>1, <2>3, <2>5 DEF Referenced
    <3>2. CASE j # k
      <4>1. map'[j] = map[j] /\ map[j] \in MapValue
        BY <3>2, <2>3 DEF IndInv, TypeOK, Present
      <4>2. target[map[j].entry] = j /\ Referenced(map[j].entry) /\ map[j].entry \in Entries
        BY <4>1 DEF IndInv, WeakPointersSound, Present, MapValue
      <4>3. map[j].entry # e
        BY <4>2, <2>1, <1>0
      <4> QED BY <4>1, <4>2, <4>3, <2>5, <1>1 DEF Referenced
    <3> QED BY <3>1, <3>2
  <2>8. NoStrandedKey'
    BY <1>0, <2>1, <2>3 DEF IndInv, NoStrandedKey, Expires, Present
  <2>9. NoLostEntry'
    <3> SUFFICES ASSUME NEW x \in Entries, target'[x] # None PROVE Referenced(x)'
      BY DEF NoLostEntry
    <3> QED BY <1>1, <2>1, <2>5 DEF IndInv, NoLostEntry, Referenced
  <2>10. target' \in [Entries -> Keys \cup {Task, None}]
    BY <2>1, <2>4
  <2>11. call' \in [stage : {"none", "arm", "drop", "stuck"}, key : Keys \cup {None},
                    entry : Entries \cup {None}, delay : Timeouts \cup {0}]
    BY <2>1
  <2> QED BY <1>2, <2>3, <2>6, <2>7, <2>8, <2>9, <2>10, <2>11
<1> QED BY <1>3, <1>4 DEF EraseAfter
\* Inserted(k, d) is a map that EraseAfterInv applies to.
LEMMA InsertedFacts ==
  ASSUME TypeOK, NEW k \in Keys, NEW d \in Timeouts
  PROVE  /\ Inserted(k, d) \in [Keys -> MapValue \cup {None}]
         /\ Inserted(k, d)[k] # None
         /\ \A j \in Keys \ {k} : Inserted(k, d)[j] = map[j]
         /\ Inserted(k, d)[k] = map[k] \/ Inserted(k, d)[k].entry = None
         /\ ~ Present(k) => Inserted(k, d)[k] = [timeout |-> d, entry |-> None]
<1>1. [timeout |-> d, entry |-> None] \in MapValue
  BY DEF MapValue
<1> QED BY <1>1, NameAssumption DEF Inserted, Present, TypeOK

LEMMA RestAfterInsertType ==
  ASSUME TypeOK, NEW k \in Keys, NEW d \in Timeouts
  PROVE  RestAfterInsert(k, d) \in [Keys \cup Entries -> Int]
BY CallerAssumption DEF RestAfterInsert, TypeOK

LEMMA AccessInv ==
  ASSUME IndInv, NEW k \in Keys, Access(k) PROVE IndInv'
<1>1. map \in [Keys -> MapValue \cup {None}] /\ map[k] # None /\ map[k].timeout \in Timeouts
  BY DEF Access, Expires, Present, IndInv, TypeOK, MapValue
<1>2. call = Idle /\ EraseAfter(map, k, map[k].timeout)
      /\ UNCHANGED <<wheels, ticks, tick, loop, destructed, rest>>
  BY DEF Access, CanCall
<1> QED BY <1>1, <1>2, EraseAfterInv DEF IndInv, TypeOK

LEMMA InsertInv ==
  ASSUME IndInv, NEW k \in Keys, NEW d \in Timeouts, Insert(k, d) PROVE IndInv'
<1>1. call = Idle /\ UNCHANGED <<wheels, ticks, tick, loop, destructed>>
  BY DEF Insert, CanCall
<1>2. rest' \in [Keys \cup Entries -> Int]
  BY RestAfterInsertType DEF Insert, IndInv
<1>3. CASE d > 0 /\ EraseAfter(Inserted(k, d), k, d)
  <2>1. TypeOK
    BY DEF IndInv
  <2> QED BY <2>1, <1>1, <1>2, <1>3, InsertedFacts, EraseAfterInv, ZenonT(40) DEF IndInv, TypeOK
<1>4. CASE d = 0 /\ map' = Inserted(k, d) /\ UNCHANGED <<target, call>>
  <2>1. TypeOK
    BY DEF IndInv
  <2>2. \A j \in Keys : map'[j] = map[j] \/ map'[j] = [timeout |-> 0, entry |-> None]
    BY <2>1, <1>4 DEF Inserted, TypeOK
  <2>3. WeakPointersSound'
    BY <1>1, <1>4, <2>2
    DEF IndInv, WeakPointersSound, Present, Referenced, InWheels, InBucket
  <2>4. NoStrandedKey'
    BY <1>1, <1>4, <2>2 DEF IndInv, NoStrandedKey, Expires, Present
  <2>5. NoLostEntry' /\ CallSound' /\ ItemShape'
    BY <1>1, <1>4
    DEF IndInv, NoLostEntry, Referenced, InWheels, InBucket, CallSound, Idle, ItemShape
  <2>6. map' \in [Keys -> MapValue \cup {None}]
    BY <2>1, <1>4, InsertedFacts
  <2> QED BY <1>1, <1>2, <1>4, <2>1, <2>3, <2>4, <2>5, <2>6 DEF IndInv, TypeOK
<1> QED BY <1>3, <1>4 DEF Insert

LEMMA InsertMoveInv ==
  ASSUME IndInv, NEW k \in Keys, NEW d \in MoveTimeouts, InsertMove(k, d) PROVE IndInv'
<1>1. call = Idle /\ UNCHANGED <<wheels, ticks, tick, loop, destructed>>
      /\ EraseAfter(Inserted(k, d), k, d) /\ d \in Timeouts
  BY CallerAssumption DEF InsertMove, CanCall
<1>2. TypeOK
  BY DEF IndInv
<1>3. rest' \in [Keys \cup Entries -> Int]
  BY <1>1, <1>2, RestAfterInsertType DEF InsertMove
<1> QED BY <1>1, <1>2, <1>3, InsertedFacts, EraseAfterInv, ZenonT(40) DEF IndInv, TypeOK

LEMMA EraseInv ==
  ASSUME IndInv, NEW k \in Keys, Erase(k) PROVE IndInv'
<1>1. /\ call = Idle /\ UNCHANGED <<target, wheels, ticks, tick, call, loop, destructed>>
      /\ map' = [map EXCEPT ![k] = None] /\ rest' = [rest EXCEPT ![k] = 0]
  BY DEF Erase, CanCall
<1>2. \A j \in Keys : map'[j] = map[j] \/ map'[j] = None
  BY <1>1 DEF IndInv, TypeOK
<1>3. WeakPointersSound'
  BY <1>1, <1>2 DEF IndInv, WeakPointersSound, Present, Referenced, InWheels, InBucket
<1>4. NoStrandedKey'
  BY <1>1, <1>2 DEF IndInv, NoStrandedKey, Expires, Present
<1>5. NoLostEntry' /\ CallSound' /\ ItemShape'
  BY <1>1
  DEF IndInv, NoLostEntry, Referenced, InWheels, InBucket, CallSound, Idle, ItemShape
<1> QED BY <1>1, <1>3, <1>4, <1>5 DEF IndInv, TypeOK

LEMMA ArmInv ==
  ASSUME IndInv, Arm PROVE IndInv'
<1>1. /\ call.stage = "arm" /\ wheels' = InsertEntry(call.delay, call.entry)
      /\ call' = [call EXCEPT !.stage = "drop"]
      /\ UNCHANGED <<map, target, ticks, tick, loop, destructed>>
  BY DEF Arm
<1>2. TypeOK /\ ItemShape /\ CallSound
  BY DEF IndInv
<1>3. call.entry \in Entries /\ call.key \in Keys /\ call.delay \in Nat
  BY <1>1, <1>2, CallerAssumption DEF CallSound, TypeOK
<1>4. /\ call'.entry = call.entry /\ call'.key = call.key /\ call'.stage = "drop"
      /\ call' \in [stage : {"none", "arm", "drop", "stuck"}, key : Keys \cup {None},
                    entry : Entries \cup {None}, delay : Timeouts \cup {0}]
  BY <1>1, <1>2 DEF TypeOK
<1>5. /\ wheels' \in [LevelSet -> [SlotSet -> SUBSET Items]]
      /\ \A x \in Entries : InWheels(x) => InWheels(x)'
      /\ \A l \in LevelSet, s \in SlotSet :
           \A item \in wheels'[l][s] : Len(item.slots) = l
  BY <1>1, <1>2, <1>3, InsertEntryRefs
<1>6. \A x \in Entries : Referenced(x) => Referenced(x)'
  BY <1>1, <1>4, <1>5 DEF Referenced, InBucket
<1>7. rest' \in [Keys \cup Entries -> Int]
  BY <1>2, <1>3 DEF Arm, TypeOK
<1>8. TypeOK'
  BY <1>1, <1>2, <1>4, <1>5, <1>7 DEF TypeOK
<1>9. CallSound'
  BY <1>1, <1>2, <1>4 DEF CallSound, Present
<1>10. ItemShape'
  BY <1>1, <1>2, <1>5 DEF ItemShape
<1>11. WeakPointersSound'
  BY <1>1, <1>6 DEF IndInv, TypeOK, MapValue, WeakPointersSound, Present
<1>12. NoStrandedKey'
  BY <1>1 DEF IndInv, NoStrandedKey, Expires, Present
<1>13. NoLostEntry'
  BY <1>1, <1>6 DEF IndInv, NoLostEntry
<1> QED BY <1>8, <1>9, <1>10, <1>11, <1>12, <1>13 DEF IndInv

LEMMA DropInv ==
  ASSUME IndInv, Drop PROVE IndInv'
<1>1. /\ call.stage = "drop"
      /\ UNCHANGED <<wheels, ticks, tick, loop, destructed, rest>>
  BY DEF Drop
<1>2. TypeOK /\ ItemShape /\ CallSound
  BY DEF IndInv
<1>3. PICK e \in Entries :
        /\ call.entry = e /\ call.key \in Keys /\ None \notin Entries
        /\ Present(call.key) /\ map[call.key].entry = e
  BY <1>1, <1>2, NameAssumption DEF CallSound
<1>4. ItemShape'
  BY <1>1, <1>2 DEF ItemShape
<1>5. \A x \in Entries : x # e /\ Referenced(x) => Referenced(x)'
  BY <1>1, <1>3 DEF Referenced, InWheels, InBucket
<1>6. CASE /\ InWheels(e) \/ InBucket(tick.bucket, e)
           /\ call' = Idle /\ UNCHANGED <<map, target>>
  <2>1. \A x \in Entries : Referenced(x) => Referenced(x)'
    <3>1. InWheels(e)' \/ InBucket(tick.bucket, e)'
      BY <1>1, <1>6 DEF InWheels, InBucket
    <3>2. Referenced(e)'
      BY <3>1, <1>3 DEF Referenced
    <3> QED BY <3>2, <1>5
  <2>2. TypeOK'
    BY <1>1, <1>2, <1>6 DEF TypeOK, Idle
  <2>3. WeakPointersSound'
    BY <1>6, <2>1 DEF IndInv, TypeOK, MapValue, WeakPointersSound, Present
  <2>4. NoLostEntry'
    BY <1>6, <2>1 DEF IndInv, NoLostEntry
  <2>5. NoStrandedKey' /\ CallSound'
    BY <1>1, <1>6 DEF IndInv, NoStrandedKey, Expires, Present, CallSound, Idle
  <2> QED BY <1>4, <2>2, <2>3, <2>4, <2>5 DEF IndInv
<1>7. CASE /\ ~ InWheels(e) /\ ~ InBucket(tick.bucket, e)
           /\ call' = [call EXCEPT !.stage = "stuck", !.entry = None]
           /\ ForgetEntry(e)
  <2>1. /\ map' \in [Keys -> MapValue \cup {None}]
        /\ target' \in [Entries -> Keys \cup {Task, None}]
        /\ \A k \in Keys : Present(k) <=> Present(k)'
        /\ \A k \in Keys : Present(k) => map'[k].timeout = map[k].timeout
        /\ \A k \in Keys : Present(k) =>
             map'[k].entry = IF map[k].entry = e THEN None ELSE map[k].entry
        /\ \A x \in Entries : target'[x] = IF x = e THEN None ELSE target[x]
    BY <1>2, <1>3, <1>7, ForgetEntryEffect
  <2>2. /\ call' \in [stage : {"none", "arm", "drop", "stuck"}, key : Keys \cup {None},
                      entry : Entries \cup {None}, delay : Timeouts \cup {0}]
        /\ call'.stage = "stuck" /\ call'.key = call.key
    BY <1>2, <1>7 DEF TypeOK
  <2>3. TypeOK'
    BY <1>1, <1>2, <2>1, <2>2 DEF TypeOK
  <2>4. WeakPointersSound'
    <3> SUFFICES ASSUME NEW j \in Keys, Present(j)', (map[j].entry # None)'
                 PROVE  (target[map[j].entry] = j /\ Referenced(map[j].entry))'
      BY DEF WeakPointersSound
    <3>1. Present(j) /\ map[j].entry # e /\ map'[j].entry = map[j].entry
          /\ map[j].entry \in Entries
      BY <2>1, <1>2 DEF TypeOK, MapValue, Present
    <3> QED BY <3>1, <2>1, <1>5 DEF IndInv, WeakPointersSound
  <2>5. NoStrandedKey'
    <3> SUFFICES ASSUME NEW j \in Keys, Expires(j)', (map[j].entry = None)'
                 PROVE  tick'.firing = j \/ (call'.stage = "stuck" /\ call'.key = j)
      BY DEF NoStrandedKey
    <3>1. Expires(j)
      BY <2>1 DEF Expires
    <3>2. CASE map[j].entry = e
      <4>1. target[e] = j /\ target[e] = call.key
        BY <3>1, <3>2, <1>3 DEF IndInv, WeakPointersSound, Expires
      <4> QED BY <4>1, <2>2
    <3>3. CASE map[j].entry # e
      BY <3>1, <3>3, <2>1, <1>1 DEF IndInv, NoStrandedKey, Expires
    <3> QED BY <3>2, <3>3
  <2>6. NoLostEntry'
    BY <2>1, <1>5 DEF IndInv, NoLostEntry
  <2>7. CallSound'
    BY <2>2 DEF CallSound
  <2> QED BY <1>4, <2>3, <2>4, <2>5, <2>6, <2>7 DEF IndInv
<1> QED BY <1>3, <1>6, <1>7 DEF Drop
\* For a step that changes no map, no target and no call, it is enough that the
\* references survive.
LEMMA RefsSurvive ==
  ASSUME IndInv, UNCHANGED <<map, target, call>>,
         \A x \in Entries : Referenced(x) => Referenced(x)'
  PROVE  WeakPointersSound' /\ NoLostEntry' /\ CallSound'
<1>1. WeakPointersSound'
  BY DEF IndInv, TypeOK, MapValue, WeakPointersSound, Present
<1>2. NoLostEntry'
  BY DEF IndInv, NoLostEntry
<1>3. CallSound'
  BY DEF IndInv, CallSound, Present
<1> QED BY <1>1, <1>2, <1>3

LEMMA RunAfterInv ==
  ASSUME IndInv, NEW e \in Entries, NEW d \in Timeouts, RunAfter(e, d) PROVE IndInv'
<1>1. /\ d > 0 /\ target[e] = None /\ target' = [target EXCEPT ![e] = Task]
      /\ wheels' = InsertEntry(d, e) /\ rest' = [rest EXCEPT ![e] = d]
      /\ UNCHANGED <<map, ticks, tick, call, loop, destructed>>
  BY DEF RunAfter
<1>2. TypeOK /\ ItemShape /\ d \in Nat
  BY CallerAssumption DEF IndInv
<1>3. /\ wheels' \in [LevelSet -> [SlotSet -> SUBSET Items]]
      /\ \A x \in Entries : InWheels(x) => InWheels(x)'
      /\ InWheels(e)'
      /\ \A l \in LevelSet, s \in SlotSet :
           \A item \in wheels'[l][s] : Len(item.slots) = l
  BY <1>1, <1>2, InsertEntryRefs
<1>4. (\A x \in Entries : Referenced(x) => Referenced(x)') /\ Referenced(e)'
  BY <1>1, <1>3 DEF Referenced, InBucket
<1>5. \A x \in Entries \ {e} : target'[x] = target[x]
  BY <1>1, <1>2 DEF TypeOK
<1>6. TypeOK'
  BY <1>1, <1>2, <1>3 DEF TypeOK
<1>7. ItemShape'
  BY <1>1, <1>2, <1>3 DEF ItemShape
<1>8. WeakPointersSound'
  <2> SUFFICES ASSUME NEW j \in Keys, Present(j)', (map[j].entry # None)'
               PROVE  (target[map[j].entry] = j /\ Referenced(map[j].entry))'
    BY DEF WeakPointersSound
  <2>1. PICK x \in Entries : map[j].entry = x /\ map'[j].entry = x
                             /\ target[x] = j /\ Referenced(x)
    BY <1>1, <1>2 DEF IndInv, TypeOK, MapValue, WeakPointersSound, Present
  <2>2. x # e
    BY <2>1, <1>1, NameAssumption
  <2> QED BY <2>1, <2>2, <1>4, <1>5
<1>9. NoStrandedKey' /\ CallSound'
  BY <1>1 DEF IndInv, NoStrandedKey, Expires, Present, CallSound
<1>10. NoLostEntry'
  BY <1>4, <1>5 DEF IndInv, NoLostEntry
<1> QED BY <1>6, <1>7, <1>8, <1>9, <1>10 DEF IndInv

LEMMA TickStartInv ==
  ASSUME IndInv, TickStart PROVE IndInv'
<1>1. /\ tick.stage = "idle" /\ ticks' = (ticks + 1) % Pow[Levels]
      /\ tick' = [TickIdle EXCEPT !.stage = "pop"]
      /\ UNCHANGED <<map, target, wheels, call, loop, destructed>>
  BY DEF TickStart
<1>2. tick.bucket = {} /\ tick.firing = None
  BY <1>1 DEF IndInv, ItemShape
<1>3. /\ tick'.stage = "pop" /\ tick'.level = 0 /\ tick'.bucket = {} /\ tick'.firing = None
      /\ tick' \in [stage : {"idle", "pop", "release"}, level : LevelSet,
                    bucket : SUBSET Items, firing : Keys \cup {None}]
  BY <1>1, WheelAssumption DEF TickIdle, LevelSet
<1>4. ticks' \in Nat
  <2>1. Pow[Levels] \in Nat \ {0} /\ ticks + 1 \in Int
    BY WheelAssumption DEF IndInv, TypeOK
  <2>2. (ticks + 1) % Pow[Levels] \in 0..(Pow[Levels] - 1)
    BY <2>1, ModType
  <2> QED BY <2>1, <2>2, <1>1
<1>5. rest' \in [Keys \cup Entries -> Int]
  <2>1. \A o \in Keys \cup Entries : rest[o] \in Int /\ Aged(rest[o]) \in Int
    BY DEF IndInv, TypeOK, Aged
  <2> QED BY <2>1 DEF TickStart
<1>6. TypeOK'
  BY <1>1, <1>3, <1>4, <1>5 DEF IndInv, TypeOK
<1>7. ItemShape'
  BY <1>1, <1>3 DEF IndInv, ItemShape
<1>8. \A x \in Entries : Referenced(x) => Referenced(x)'
  BY <1>1, <1>2, <1>3 DEF Referenced, InWheels, InBucket
<1>9. NoStrandedKey'
  BY <1>1, <1>2, <1>3 DEF IndInv, NoStrandedKey, Expires, Present
<1> QED BY <1>1, <1>6, <1>7, <1>8, <1>9, RefsSurvive DEF IndInv

LEMMA TickPopInv ==
  ASSUME IndInv, TickPop PROVE IndInv'
<1>1. /\ tick.stage = "pop"
      /\ tick' = [tick EXCEPT !.stage = "release", !.bucket = wheels[tick.level][0]]
      /\ UNCHANGED <<map, target, ticks, call, loop, destructed, rest>>
  BY DEF TickPop
<1>2. TypeOK /\ ItemShape
  BY DEF IndInv
<1>3. tick.bucket = {} /\ tick.firing = None
  BY <1>1, <1>2 DEF ItemShape
<1>4. /\ wheels' \in [LevelSet -> [SlotSet -> SUBSET Items]]
      /\ \A x \in Entries : InWheels(x) => InWheels(x)' \/ InBucket(tick'.bucket, x)
      /\ ItemShape'
  BY <1>2, TickPopRefs
<1>5. 0 \in SlotSet
  BY WheelAssumption DEF SlotSet
<1>6. /\ tick'.firing = None
      /\ tick' \in [stage : {"idle", "pop", "release"}, level : LevelSet,
                    bucket : SUBSET Items, firing : Keys \cup {None}]
  <2>1. tick.level \in LevelSet /\ wheels[tick.level][0] \in SUBSET Items
    BY <1>2, <1>5 DEF TypeOK
  <2> QED BY <2>1, <1>1, <1>2, <1>3 DEF TypeOK
<1>7. TypeOK'
  BY <1>1, <1>2, <1>4, <1>6 DEF TypeOK
<1>8. \A x \in Entries : Referenced(x) => Referenced(x)'
  BY <1>1, <1>3, <1>4 DEF Referenced, InBucket
<1>9. NoStrandedKey'
  BY <1>1, <1>3, <1>6 DEF IndInv, NoStrandedKey, Expires, Present
<1> QED BY <1>1, <1>4, <1>7, <1>8, <1>9, RefsSurvive DEF IndInv

LEMMA TickMoveDownInv ==
  ASSUME IndInv, NEW item \in tick.bucket, TickMoveDown(item) PROVE IndInv'
<1>1. tick.firing = None /\ UNCHANGED <<map, target, ticks, call, loop, destructed, rest>>
  BY DEF TickMoveDown
<1>2. TypeOK /\ ItemShape
  BY DEF IndInv
<1>3. /\ wheels' \in [LevelSet -> [SlotSet -> SUBSET Items]]
      /\ tick' \in [stage : {"release"}, level : {tick.level},
                    bucket : {tick.bucket \ {item}}, firing : {None}]
      /\ \A x \in Entries : InWheels(x) => InWheels(x)'
      /\ InWheels(item.entry)'
      /\ ItemShape'
  BY <1>2, MoveDownRefs
<1>4. \A x \in Entries : Referenced(x) => Referenced(x)'
  <2> TAKE x \in Entries
  <2>1. InBucket(tick.bucket, x) => InWheels(x)' \/ InBucket(tick.bucket, x)'
    BY <1>3 DEF InBucket
  <2> QED BY <2>1, <1>1, <1>3 DEF Referenced
<1>5. TypeOK'
  BY <1>1, <1>2, <1>3 DEF TypeOK
<1>6. NoStrandedKey'
  BY <1>1, <1>3 DEF IndInv, NoStrandedKey, Expires, Present
<1> QED BY <1>1, <1>3, <1>4, <1>5, <1>6, RefsSurvive DEF IndInv

LEMMA TickReleaseInv ==
  ASSUME IndInv, NEW item \in tick.bucket, TickRelease(item) PROVE IndInv'
<1> DEFINE others == tick.bucket \ {item}
           last   == ~ InWheels(item.entry) /\ ~ InBucket(others, item.entry)
                     /\ call.entry # item.entry
<1>1. /\ tick.stage = "release" /\ tick.firing = None
      /\ tick' = [tick EXCEPT !.bucket = others,
                     !.firing = IF last /\ ~ IsTask(item.entry) THEN target[item.entry] ELSE None]
      /\ (last /\ ForgetEntry(item.entry)) \/ (~ last /\ UNCHANGED <<map, target>>)
      /\ rest' = IF last /\ IsTask(item.entry) THEN [rest EXCEPT ![item.entry] = Spent] ELSE rest
      /\ UNCHANGED <<wheels, ticks, call, loop, destructed>>
  <2>1. tick.stage = "release" /\ tick.firing = None
    BY DEF TickRelease
  <2>2. tick' = [tick EXCEPT !.bucket = others,
                  !.firing = IF last /\ ~ IsTask(item.entry) THEN target[item.entry] ELSE None]
    BY DEF TickRelease
  <2>3. (last /\ ForgetEntry(item.entry)) \/ (~ last /\ UNCHANGED <<map, target>>)
    BY DEF TickRelease
  <2>4. rest' = IF last /\ IsTask(item.entry) THEN [rest EXCEPT ![item.entry] = Spent] ELSE rest
    BY DEF TickRelease
  <2>5. UNCHANGED <<wheels, ticks, call, loop, destructed>>
    BY DEF TickRelease
  <2> HIDE DEF others, last
  <2> QED BY <2>1, <2>2, <2>3, <2>4, <2>5
<1>2. TypeOK /\ ItemShape /\ CallSound
  BY DEF IndInv
<1>3. PICK e \in Entries : item.entry = e
  BY <1>2 DEF TypeOK, Items
<1>4. /\ target[e] \in Keys \cup {Task, None}
      /\ IF last /\ ~ IsTask(e) THEN target[e] \in Keys \cup {None} ELSE TRUE
  BY <1>2, <1>3 DEF TypeOK, IsTask
<1>5. /\ tick'.bucket = others /\ tick'.level = tick.level /\ tick'.stage = "release"
      /\ tick'.firing = IF last /\ ~ IsTask(e) THEN target[e] ELSE None
      /\ tick' \in [stage : {"idle", "pop", "release"}, level : LevelSet,
                    bucket : SUBSET Items, firing : Keys \cup {None}]
  BY <1>1, <1>2, <1>3, <1>4 DEF TypeOK
<1>6. ItemShape'
  BY <1>1, <1>2, <1>5 DEF ItemShape
<1>7. rest' \in [Keys \cup Entries -> Int]
  BY <1>1, <1>2, <1>3 DEF TypeOK, Spent
<1>8. \A x \in Entries : x # e /\ Referenced(x) => Referenced(x)'
  BY <1>1, <1>3, <1>5 DEF Referenced, InWheels, InBucket
<1>9. CASE ~ last /\ UNCHANGED <<map, target>>
  <2>1. \A x \in Entries : Referenced(x) => Referenced(x)'
    <3>1. InWheels(e) \/ InBucket(others, e) \/ call.entry = e
      BY <1>3, <1>9
    <3>2. Referenced(e)'
      BY <3>1, <1>1, <1>5 DEF Referenced, InWheels, InBucket
    <3> QED BY <3>2, <1>8
  <2>2. TypeOK'
    BY <1>1, <1>2, <1>5, <1>7, <1>9 DEF TypeOK
  <2>3. NoStrandedKey'
    BY <1>1, <1>5, <1>9 DEF IndInv, NoStrandedKey, Expires, Present
  <2> QED BY <1>1, <1>6, <1>9, <2>1, <2>2, <2>3, RefsSurvive DEF IndInv
<1>10. CASE last /\ ForgetEntry(item.entry)
  <2>1. /\ map' \in [Keys -> MapValue \cup {None}]
        /\ target' \in [Entries -> Keys \cup {Task, None}]
        /\ \A k \in Keys : Present(k) <=> Present(k)'
        /\ \A k \in Keys : Present(k) => map'[k].timeout = map[k].timeout
        /\ \A k \in Keys : Present(k) =>
             map'[k].entry = IF map[k].entry = e THEN None ELSE map[k].entry
        /\ \A x \in Entries : target'[x] = IF x = e THEN None ELSE target[x]
    BY <1>2, <1>3, <1>10, ForgetEntryEffect
  <2>2. TypeOK'
    BY <1>1, <1>2, <1>5, <1>7, <2>1 DEF TypeOK
  <2>3. WeakPointersSound'
    <3> SUFFICES ASSUME NEW j \in Keys, Present(j)', (map[j].entry # None)'
                 PROVE  (target[map[j].entry] = j /\ Referenced(map[j].entry))'
      BY DEF WeakPointersSound
    <3>1. Present(j) /\ map[j].entry # e /\ map'[j].entry = map[j].entry
          /\ map[j].entry \in Entries
      BY <2>1, <1>2 DEF TypeOK, MapValue, Present
    <3> QED BY <3>1, <2>1, <1>8 DEF IndInv, WeakPointersSound
  <2>4. NoStrandedKey'
    <3> SUFFICES ASSUME NEW j \in Keys, Expires(j)', (map[j].entry = None)'
                 PROVE  tick'.firing = j \/ (call'.stage = "stuck" /\ call'.key = j)
      BY DEF NoStrandedKey
    <3>1. Expires(j)
      BY <2>1 DEF Expires
    <3>2. CASE map[j].entry = e
      <4>1. target[e] = j /\ ~ IsTask(e)
        BY <3>1, <3>2, NameAssumption DEF IndInv, WeakPointersSound, Expires, IsTask
      <4> QED BY <4>1, <1>5, <1>10
    <3>3. CASE map[j].entry # e
      <4>1. map[j].entry = None /\ tick.firing # j
        BY <3>1, <3>3, <2>1, <1>1, NameAssumption DEF Expires
      <4> QED BY <4>1, <3>1, <1>1 DEF IndInv, NoStrandedKey
    <3> QED BY <3>2, <3>3
  <2>5. NoLostEntry'
    BY <2>1, <1>8 DEF IndInv, NoLostEntry
  <2>6. CallSound'
    <3> SUFFICES ASSUME call.stage \in {"arm", "drop"}
                 PROVE  Present(call.key)' /\ (map[call.key].entry = call.entry)'
      BY <1>1, <1>2 DEF CallSound
    <3>1. /\ call.key \in Keys /\ Present(call.key)
          /\ map[call.key].entry = call.entry /\ call.entry # e
      BY <1>2, <1>3, <1>10 DEF CallSound
    <3> QED BY <3>1, <2>1, <1>1
  <2> QED BY <1>6, <2>2, <2>3, <2>4, <2>5, <2>6 DEF IndInv
<1> QED BY <1>1, <1>9, <1>10

LEMMA TickExpireInv ==
  ASSUME IndInv, TickExpire PROVE IndInv'
<1>1. PICK k \in Keys : tick.firing = k
  BY DEF TickExpire, IndInv, TypeOK
<1>2. /\ call = Idle
      /\ \/ /\ Expires(k) /\ map[k].entry = None
            /\ map' = [map EXCEPT ![k] = None]
            /\ rest' = [rest EXCEPT ![k] = Spent]
         \/ /\ ~ (Expires(k) /\ map[k].entry = None)
            /\ UNCHANGED <<map, rest>>
      /\ tick' = [tick EXCEPT !.firing = None]
      /\ UNCHANGED <<target, wheels, ticks, call, loop, destructed>>
  BY <1>1 DEF TickExpire
<1>3. TypeOK /\ ItemShape
  BY DEF IndInv
<1>4. /\ tick'.bucket = tick.bucket /\ tick'.level = tick.level /\ tick'.stage = tick.stage
      /\ tick'.firing = None
      /\ tick' \in [stage : {"idle", "pop", "release"}, level : LevelSet,
                    bucket : SUBSET Items, firing : Keys \cup {None}]
  BY <1>2, <1>3 DEF TypeOK
<1>5. \A j \in Keys : map'[j] = map[j] \/ (j = k /\ map'[j] = None)
  BY <1>2, <1>3 DEF TypeOK
<1>6. TypeOK'
  BY <1>2, <1>3, <1>4 DEF TypeOK, Spent
<1>7. ItemShape'
  BY <1>2, <1>3, <1>4 DEF ItemShape
<1>8. \A x \in Entries : Referenced(x) => Referenced(x)'
  BY <1>2, <1>4 DEF Referenced, InWheels, InBucket
<1>9. WeakPointersSound'
  <2> SUFFICES ASSUME NEW j \in Keys, Present(j)', (map[j].entry # None)'
               PROVE  (target[map[j].entry] = j /\ Referenced(map[j].entry))'
    BY DEF WeakPointersSound
  <2>1. PICK x \in Entries : map[j].entry = x /\ map'[j].entry = x
                             /\ target[x] = j /\ Referenced(x)
    BY <1>3, <1>5 DEF IndInv, TypeOK, MapValue, WeakPointersSound, Present
  <2> QED BY <2>1, <1>2, <1>8
<1>10. NoStrandedKey'
  <2> SUFFICES ASSUME NEW j \in Keys, Expires(j)', (map[j].entry = None)'
               PROVE  FALSE
    BY DEF NoStrandedKey
  <2>1. map'[j] = map[j] /\ Expires(j) /\ map[j].entry = None
    BY <1>5 DEF Expires, Present
  <2>2. tick.firing = j
    BY <2>1, <1>2 DEF IndInv, NoStrandedKey, Idle
  <2> QED BY <2>1, <2>2, <1>1, <1>2, <1>3 DEF TypeOK, Expires, Present
<1>11. NoLostEntry' /\ CallSound'
  BY <1>2, <1>8 DEF IndInv, NoLostEntry, CallSound, Idle
<1> QED BY <1>6, <1>7, <1>9, <1>10, <1>11 DEF IndInv

LEMMA TickNextInv ==
  ASSUME IndInv, TickNext PROVE IndInv'
<1>1. /\ tick.stage = "release" /\ tick.firing = None /\ tick.bucket = {}
      /\ UNCHANGED <<map, target, wheels, ticks, call, loop, destructed, rest>>
  BY DEF TickNext
<1>2. /\ tick'.bucket = {} /\ tick'.firing = None
      /\ tick' \in [stage : {"idle", "pop", "release"}, level : LevelSet,
                    bucket : SUBSET Items, firing : Keys \cup {None}]
  <2>1. CASE tick.level + 1 < Levels /\ tick' = [TickIdle EXCEPT !.stage = "pop", !.level = tick.level + 1]
    <3>1. tick.level + 1 \in LevelSet
      BY <2>1, WheelAssumption DEF IndInv, TypeOK, LevelSet
    <3> QED BY <3>1, <2>1 DEF TickIdle
  <2>2. CASE tick' = TickIdle
    BY <2>2, WheelAssumption DEF TickIdle, LevelSet
  <2> QED BY <2>1, <2>2 DEF TickNext
<1>3. TypeOK'
  BY <1>1, <1>2 DEF IndInv, TypeOK
<1>4. ItemShape'
  BY <1>1, <1>2 DEF IndInv, ItemShape
<1>5. \A x \in Entries : Referenced(x) => Referenced(x)'
  BY <1>1, <1>2 DEF Referenced, InWheels, InBucket
<1>6. NoStrandedKey'
  BY <1>1, <1>2 DEF IndInv, NoStrandedKey, Expires, Present
<1> QED BY <1>1, <1>3, <1>4, <1>5, <1>6, RefsSurvive DEF IndInv

LEMMA DestructInv ==
  ASSUME IndInv, Destruct PROVE IndInv'
<1>1. /\ call = Idle /\ tick = TickIdle
      /\ destructed' = TRUE
      /\ map' = [k \in Keys |-> None] /\ target' = [e \in Entries |-> None]
      /\ wheels' = [l \in LevelSet |-> [s \in SlotSet |-> {}]]
      /\ rest' = [o \in Keys \cup Entries |-> 0]
      /\ UNCHANGED <<ticks, tick, call, loop>>
  BY DEF Destruct
<1>2. TypeOK'
  BY <1>1 DEF IndInv, TypeOK
<1>3. ItemShape'
  BY <1>1 DEF IndInv, ItemShape
<1>4. WeakPointersSound' /\ NoStrandedKey' /\ NoLostEntry' /\ CallSound'
  BY <1>1
  DEF WeakPointersSound, NoStrandedKey, Expires, Present, NoLostEntry, CallSound, Idle
<1> QED BY <1>2, <1>3, <1>4 DEF IndInv

LEMMA QuietInv ==
  ASSUME IndInv, UNCHANGED <<map, target, wheels, ticks, tick, call, rest>>,
         loop' \in {"running", "ended"}, UNCHANGED destructed
  PROVE  IndInv'
<1>1. \A x \in Entries : Referenced(x) => Referenced(x)'
  BY DEF Referenced, InWheels, InBucket
<1>2. TypeOK' /\ ItemShape' /\ NoStrandedKey'
  BY DEF IndInv, TypeOK, ItemShape, NoStrandedKey, Expires, Present
<1> QED BY <1>1, <1>2, RefsSurvive DEF IndInv

-----------------------------------------------------------------------------
(* The theorems. *)

LEMMA InitInv == Init => IndInv
<1> SUFFICES ASSUME Init PROVE IndInv
  OBVIOUS
<1>1. TypeOK
  <2>1. 0 \in LevelSet
    BY WheelAssumption DEF LevelSet
  <2>2. wheels \in [LevelSet -> [SlotSet -> SUBSET Items]]
    BY DEF Init
  <2>3. tick \in [stage : {"idle", "pop", "release"}, level : LevelSet,
                 bucket : SUBSET Items, firing : Keys \cup {None}]
    BY <2>1 DEF Init, TickIdle
  <2>4. call \in [stage : {"none", "arm", "drop", "stuck"}, key : Keys \cup {None},
                 entry : Entries \cup {None}, delay : Timeouts \cup {0}]
    BY DEF Init, Idle
  <2>5. /\ map \in [Keys -> MapValue \cup {None}]
        /\ target \in [Entries -> Keys \cup {Task, None}]
        /\ rest \in [Keys \cup Entries -> Int]
    BY DEF Init
  <2>6. ticks \in Nat /\ loop \in {"running", "ended"} /\ destructed \in BOOLEAN
    BY DEF Init
  <2> QED BY <2>2, <2>3, <2>4, <2>5, <2>6 DEF TypeOK
<1>2. ItemShape
  BY DEF Init, ItemShape, TickIdle
<1> QED BY <1>1, <1>2
        DEF Init, IndInv, CallSound, WeakPointersSound, NoStrandedKey, Expires, Present,
            NoLostEntry, Idle

LEMMA NextInv == IndInv /\ [Next]_vars => IndInv'
<1> SUFFICES ASSUME IndInv, [Next]_vars PROVE IndInv'
  OBVIOUS
<1>1. ASSUME NEW k \in Keys, Access(k) PROVE IndInv'
  BY <1>1, AccessInv
<1>2. ASSUME NEW k \in Keys, Erase(k) PROVE IndInv'
  BY <1>2, EraseInv
<1>3. ASSUME NEW k \in Keys, NEW d \in Timeouts, Insert(k, d) PROVE IndInv'
  BY <1>3, InsertInv
<1>4. ASSUME NEW k \in Keys, NEW d \in MoveTimeouts, InsertMove(k, d) PROVE IndInv'
  BY <1>4, InsertMoveInv
<1>5. ASSUME NEW e \in Entries, NEW d \in Timeouts, RunAfter(e, d) PROVE IndInv'
  BY <1>5, RunAfterInv
<1>6. ASSUME NEW item \in tick.bucket, TickMoveDown(item) \/ TickRelease(item) PROVE IndInv'
  BY <1>6, TickMoveDownInv, TickReleaseInv
<1>7. CASE LoopEnd
  BY <1>7, QuietInv DEF LoopEnd
<1>8. CASE Destroyed \/ UNCHANGED vars
  BY <1>8, QuietInv DEF Destroyed, vars, IndInv, TypeOK
<1> QED BY <1>1, <1>2, <1>3, <1>4, <1>5, <1>6, <1>7, <1>8, ArmInv, DropInv, TickStartInv,
           TickPopInv, TickExpireInv, TickNextInv, DestructInv
        DEF Next, CallStep, TickStep

\* The strengthened invariant holds in every reachable state.
THEOREM IndInvHolds == Spec => []IndInv
BY InitInv, NextInv, PTL DEF Spec

\* Every variable of the model keeps its type, whatever the interleaving.
THEOREM TypeCorrect == Spec => []TypeOK
<1>1. IndInv => TypeOK
  BY DEF IndInv
<1> QED BY <1>1, IndInvHolds, PTL

\* No key with a timeout is ever left in the map without a live entry that will erase
\* it (eraseAfter against the timer callback and the expiry callback).
THEOREM NoKeyIsStranded == Spec => []KeysExpire
<1>1. IndInv => KeysExpire
  BY DEF IndInv, KeysExpire
<1> QED BY <1>1, IndInvHolds, PTL

\* No entry with something left to do is dropped by the wheels.
THEOREM NoEntryIsLost == Spec => []NoLostEntry
<1>1. IndInv => NoLostEntry
  BY DEF IndInv
<1> QED BY <1>1, IndInvHolds, PTL
-----------------------------------------------------------------------------
(* No destructor runs inside a call, when calls return promptly and the      *)
(* rvalue overload of insert() is given a timeout.                           *)

\* Nothing that leaves the call and the tick alone can undo DeadlockInv, provided
\* the wheels keep what they hold.
LEMMA AnchoredKept ==
  ASSUME DeadlockInv, UNCHANGED <<call, tick>>,
         \A l \in LevelSet, s \in SlotSet : wheels[l][s] \subseteq wheels'[l][s]
  PROVE  DeadlockInv'
BY DEF DeadlockInv, NoSelfDeadlock, Anchored, InBucket

\* Outside the last part of a call there is nothing to keep alive.
LEMMA NothingHeld ==
  ASSUME call'.stage \in {"none", "arm"}, call'.stage = "arm" => call'.delay > 0
  PROVE  DeadlockInv'
BY DEF DeadlockInv, NoSelfDeadlock, Anchored

LEMMA EraseAfterHoldsNothing ==
  ASSUME NEW m, NEW k, NEW d \in Nat \ {0}, EraseAfter(m, k, d)
  PROVE  DeadlockInv'
BY NothingHeld DEF EraseAfter

LEMMA ArmAnchors ==
  ASSUME IndInv, DeadlockInv, Arm PROVE DeadlockInv'
<1>1. /\ call.stage = "arm" /\ wheels' = InsertEntry(call.delay, call.entry)
      /\ call' = [call EXCEPT !.stage = "drop"]
      /\ UNCHANGED <<ticks, tick>>
  BY DEF Arm
<1>2. PICK e \in Entries, d \in Nat \ {0} : call.entry = e /\ call.delay = d
  BY <1>1, CallerAssumption DEF IndInv, TypeOK, CallSound, DeadlockInv
<1>3. call'.stage = "drop" /\ call'.entry = e /\ call'.delay = d
  BY <1>1, <1>2 DEF IndInv, TypeOK
<1>4. ticks \in Nat
  BY DEF IndInv, TypeOK
<1>5. PICK l \in LevelSet : LandsOn(d, ticks, l)
  BY <1>2, <1>4, LandsSomewhere
<1>6. PICK s \in SlotSet : s = LandingSlot(d, ticks, l)
  BY <1>2, <1>4, LandingSlotType
<1>7. InBucket(wheels'[l][s], e)
  <2>1. [entry |-> e, slots |-> CapturedSlots(d, ticks, l)] \in wheels'[l][s]
    BY <1>1, <1>2, <1>5, <1>6 DEF InsertEntry
  <2> QED BY <2>1 DEF InBucket
<1>8. ~ (l = 0 /\ s = 0)
  BY <1>2, <1>4, <1>6, NotInFrontBucket
<1> QED BY <1>3, <1>7, <1>8 DEF DeadlockInv, NoSelfDeadlock, Anchored

LEMMA DropReturns ==
  ASSUME IndInv, DeadlockInv, Drop PROVE DeadlockInv'
<1>1. call.stage = "drop"
  BY DEF Drop
<1>2. InWheels(call.entry) \/ InBucket(tick.bucket, call.entry)
  BY <1>1 DEF DeadlockInv, Anchored, InWheels
<1>3. call' = Idle
  BY <1>2 DEF Drop
<1> QED BY <1>3, NothingHeld DEF Idle

LEMMA TickPopAnchors ==
  ASSUME IndInv, DeadlockInv, TickPop PROVE DeadlockInv'
<1>1. /\ tick.stage = "pop" /\ UNCHANGED call
      /\ tick' = [tick EXCEPT !.stage = "release", !.bucket = wheels[tick.level][0]]
      /\ wheels' = [wheels EXCEPT ![tick.level] = Rotate(wheels[tick.level])]
  BY DEF TickPop
<1>2. tick.level \in LevelSet /\ tick.level \in Nat /\ tick.bucket = {}
  BY <1>1, WheelAssumption DEF IndInv, TypeOK, ItemShape, LevelSet
<1>3. /\ tick'.stage = "release" /\ tick'.level = tick.level
      /\ tick'.bucket = wheels[tick.level][0]
      /\ wheels'[tick.level] = Rotate(wheels[tick.level])
      /\ \A l \in LevelSet : l # tick.level => wheels'[l] = wheels[l]
  BY <1>1, <1>2 DEF IndInv, TypeOK
<1>4. SUFFICES ASSUME call.stage = "drop" PROVE Anchored'
  BY <1>1 DEF DeadlockInv, NoSelfDeadlock, Anchored
<1>5. PICK e : e = call.entry
  OBVIOUS
<1>6. PICK l \in LevelSet, s \in SlotSet :
        InBucket(wheels[l][s], e) /\ ~ (tick.level = 0 /\ l = 0 /\ s = 0)
  BY <1>1, <1>2, <1>4, <1>5 DEF DeadlockInv, Anchored, InBucket
<1>7. CASE l # tick.level
  BY <1>1, <1>3, <1>5, <1>6, <1>7 DEF Anchored
<1>8. CASE l = tick.level /\ s = 0
  BY <1>1, <1>2, <1>3, <1>5, <1>6, <1>8 DEF Anchored
<1>9. CASE l = tick.level /\ s # 0
  <2>1. s - 1 \in SlotSet /\ s - 1 # Buckets - 1 /\ (s - 1) + 1 = s
    BY <1>9, WheelAssumption DEF SlotSet
  <2>2. InBucket(wheels'[l][s - 1], e)
    BY <2>1, <1>3, <1>6, <1>9 DEF Rotate
  <2> QED BY <2>1, <2>2, <1>1, <1>3, <1>5 DEF Anchored
<1> QED BY <1>7, <1>8, <1>9

LEMMA TickMoveDownAnchors ==
  ASSUME IndInv, DeadlockInv, NEW item \in tick.bucket, TickMoveDown(item)
  PROVE  DeadlockInv'
<1>1. UNCHANGED call
  BY DEF TickMoveDown
<1>2. /\ tick' \in [stage : {"release"}, level : {tick.level},
                    bucket : {tick.bucket \ {item}}, firing : {None}]
      /\ \A x \in Entries : InWheels(x) => InWheels(x)'
      /\ InWheels(item.entry)'
  BY MoveDownRefs DEF IndInv
<1>3. SUFFICES ASSUME call.stage = "drop" PROVE Anchored'
  BY <1>1 DEF DeadlockInv, NoSelfDeadlock, Anchored
<1>4. PICK e \in Entries : e = call.entry
  BY <1>3 DEF IndInv, CallSound
<1>5. InWheels(e) \/ (tick.level > 0 /\ InBucket(tick.bucket, e))
  BY <1>3, <1>4 DEF DeadlockInv, Anchored, InWheels
<1>6. InWheels(e)' \/ (tick.level > 0 /\ InBucket(tick.bucket \ {item}, e))
  BY <1>2, <1>4, <1>5 DEF InBucket
<1> QED BY <1>1, <1>2, <1>4, <1>6 DEF Anchored, InWheels

LEMMA TickReleaseAnchors ==
  ASSUME IndInv, DeadlockInv, NEW item \in tick.bucket, TickRelease(item)
  PROVE  DeadlockInv'
<1>1. /\ tick.stage = "release" /\ item.slots = <<>>
      /\ tick'.level = tick.level /\ tick'.stage = "release"
      /\ UNCHANGED <<wheels, call>>
  BY DEF TickRelease, IndInv, TypeOK
<1>2. tick.level = 0
  BY <1>1 DEF IndInv, ItemShape
<1>3. SUFFICES ASSUME call.stage = "drop" PROVE Anchored'
  BY <1>1 DEF DeadlockInv, NoSelfDeadlock, Anchored
<1> QED BY <1>1, <1>2, <1>3 DEF DeadlockInv, Anchored, InBucket

LEMMA TickNextAnchors ==
  ASSUME IndInv, DeadlockInv, TickNext PROVE DeadlockInv'
<1>1. tick.stage = "release" /\ tick.bucket = {} /\ UNCHANGED <<wheels, call>>
  BY DEF TickNext
<1>2. tick.level \in Nat /\ ~ (tick'.stage = "pop" /\ tick'.level = 0)
  BY WheelAssumption DEF TickNext, TickIdle, IndInv, TypeOK, LevelSet
<1>3. SUFFICES ASSUME call.stage = "drop" PROVE Anchored'
  BY <1>1 DEF DeadlockInv, NoSelfDeadlock, Anchored
<1> QED BY <1>1, <1>2, <1>3 DEF DeadlockInv, Anchored, InBucket

LEMMA NextKeepsDeadlockInv ==
  ASSUME PromptCalls, 0 \notin MoveTimeouts
  PROVE  IndInv /\ DeadlockInv /\ [Next]_vars => DeadlockInv'
<1> SUFFICES ASSUME IndInv, DeadlockInv, [Next]_vars PROVE DeadlockInv'
  OBVIOUS
<1>1. ASSUME NEW k \in Keys, Access(k) PROVE DeadlockInv'
  <2>1. EraseAfter(map, k, map[k].timeout) /\ map[k] # None /\ map[k].timeout > 0
    BY <1>1 DEF Access, Expires, Present
  <2>2. map[k] \in MapValue
    BY <2>1 DEF IndInv, TypeOK
  <2>3. PICK d \in Timeouts : d = map[k].timeout
    BY <2>2 DEF MapValue
  <2>4. d \in Nat
    BY CallerAssumption
  <2>5. d > 0 /\ EraseAfter(map, k, d)
    BY <2>1, <2>3
  <2>6. d \in Nat \ {0}
    BY <2>4, <2>5
  <2> QED BY <2>5, <2>6, EraseAfterHoldsNothing
<1>2. ASSUME NEW k \in Keys, Erase(k) PROVE DeadlockInv'
  BY <1>2, NothingHeld DEF Erase, CanCall, Idle
<1>3. ASSUME NEW k \in Keys, NEW d \in Timeouts, Insert(k, d) PROVE DeadlockInv'
  <2>1. d \in Nat
    BY CallerAssumption
  <2>2. CASE d > 0 /\ EraseAfter(Inserted(k, d), k, d)
    BY <2>1, <2>2, EraseAfterHoldsNothing
  <2>3. CASE UNCHANGED call
    BY <1>3, <2>3, NothingHeld DEF Insert, CanCall, Idle
  <2> QED BY <1>3, <2>2, <2>3 DEF Insert
<1>4. ASSUME NEW k \in Keys, NEW d \in MoveTimeouts, InsertMove(k, d) PROVE DeadlockInv'
  <2>1. d \in Nat \ {0}
    BY CallerAssumption
  <2> QED BY <1>4, <2>1, EraseAfterHoldsNothing DEF InsertMove
<1>5. ASSUME NEW e \in Entries, NEW d \in Timeouts, RunAfter(e, d) PROVE DeadlockInv'
  <2>1. UNCHANGED <<call, tick>> /\ wheels' = InsertEntry(d, e)
    BY <1>5 DEF RunAfter
  <2>2. \A l \in LevelSet, s \in SlotSet : wheels[l][s] \subseteq wheels'[l][s]
    BY <2>1 DEF InsertEntry
  <2> QED BY <2>1, <2>2, AnchoredKept
<1>6. CASE Arm
  BY <1>6, ArmAnchors
<1>7. CASE Drop
  BY <1>7, DropReturns
<1>8. CASE TickStart
  <2>1. call' = call /\ call.stage # "drop"
    BY <1>8 DEF TickStart
  <2> QED BY <2>1 DEF DeadlockInv, NoSelfDeadlock, Anchored
<1>9. CASE TickPop
  BY <1>9, TickPopAnchors
<1>10. ASSUME NEW item \in tick.bucket, TickMoveDown(item) \/ TickRelease(item)
       PROVE  DeadlockInv'
  BY <1>10, TickMoveDownAnchors, TickReleaseAnchors
<1>11. CASE TickExpire
  BY <1>11, NothingHeld DEF TickExpire, Idle
<1>12. CASE TickNext
  BY <1>12, TickNextAnchors
<1>13. CASE Destruct
  BY <1>13, NothingHeld DEF Destruct, Idle
<1>14. CASE LoopEnd \/ Destroyed \/ UNCHANGED vars
  BY <1>14, AnchoredKept DEF LoopEnd, Destroyed, vars
<1> QED BY <1>1, <1>2, <1>3, <1>4, <1>5, <1>6, <1>7, <1>8, <1>9, <1>10, <1>11, <1>12, <1>13,
           <1>14
        DEF Next, CallStep, TickStep

\* Calls never deadlock on their own mutex, if no tick begins in the few
\* instructions between insertEntry and the end of eraseAfter, and if the rvalue
\* overload of insert() is never given a zero timeout.
THEOREM PromptCallsNeverDeadlock ==
  ASSUME PromptCalls, 0 \notin MoveTimeouts
  PROVE  Spec => []NoSelfDeadlock
<1>1. Init => DeadlockInv
  BY DEF Init, DeadlockInv, NoSelfDeadlock, Anchored, Idle
<1>2. IndInv /\ DeadlockInv /\ [Next]_vars => DeadlockInv'
  BY NextKeepsDeadlockInv
<1>3. DeadlockInv => NoSelfDeadlock
  BY DEF DeadlockInv
<1> QED BY <1>1, <1>2, <1>3, IndInvHolds, PTL DEF Spec

-----------------------------------------------------------------------------
(* The arithmetic of the wheels. *)

\* What the quotient and the remainder are.
LEMMA DivMod ==
  ASSUME NEW x \in Int, NEW y \in Nat \ {0}
  PROVE  /\ x \div y \in Int /\ x % y \in Int
         /\ x = y * (x \div y) + (x % y)
         /\ 0 <= x % y /\ x % y < y
OBVIOUS

LEMMA MulMono ==
  ASSUME NEW y \in Nat, NEW a \in Int, NEW b \in Int, a <= b
  PROVE  y * a <= y * b
OBVIOUS

\* ... and that nothing else is.
LEMMA DivIs ==
  ASSUME NEW x \in Int, NEW y \in Nat \ {0}, NEW q \in Int, NEW r \in 0..(y - 1),
         x = y * q + r
  PROVE  x \div y = q /\ x % y = r
OBVIOUS

\* A multiple of the divisor is added to the quotient and leaves the rest alone.
LEMMA DivShift ==
  ASSUME NEW x \in Int, NEW y \in Nat \ {0}, NEW m \in Int
  PROVE  (x - y * m) \div y = (x \div y) - m /\ (x - y * m) % y = x % y
<1>1. /\ x \div y \in Int /\ x % y \in 0..(y - 1) /\ x = y * (x \div y) + (x % y)
  BY DivMod
<1> DEFINE q == x \div y
           r == x % y
<1>2. y * (q - m) = y * q - y * m /\ y * m \in Int /\ y * q \in Int
  BY <1>1
<1> HIDE DEF q, r
<1>3. q \in Int /\ r \in 0..(y - 1) /\ x = y * q + r
  BY <1>1 DEF q, r
<1>4. x - y * m = y * (q - m) + r /\ x - y * m \in Int /\ q - m \in Int
  BY <1>2, <1>3
<1> QED BY <1>3, <1>4, DivIs DEF q, r

\* Dividing by a product is dividing twice.
LEMMA DivTwice ==
  ASSUME NEW x \in Int, NEW p \in Nat \ {0}, NEW b \in Nat \ {0}
  PROVE  x \div (b * p) = (x \div p) \div b
<1> DEFINE q == x \div p
           r == x % p
           u == q \div b
           v == q % b
<1>1. q \in Int /\ r \in 0..(p - 1) /\ x = p * q + r
  BY DivMod
<1> HIDE DEF q, r
<1>2. u \in Int /\ v \in 0..(b - 1) /\ q = b * u + v
  BY <1>1, DivMod
<1> HIDE DEF u, v
<1>3. b * p \in Nat \ {0} /\ p * v \in Nat /\ p * v + r \in Nat
  BY <1>1, <1>2
<1>4. p * v <= p * (b - 1) /\ p * (b - 1) = b * p - p
  BY <1>2, MulMono
<1>5. p * v + r \in 0..(b * p - 1)
  BY <1>1, <1>3, <1>4
<1>6. x = (b * p) * u + (p * v + r)
  <2>1. p * (b * u + v) = (b * p) * u + p * v
    BY <1>2
  <2>2. p * q = (b * p) * u + p * v
    BY <1>2, <2>1
  <2>3. (b * p) * u \in Int
    BY <1>2
  <2> QED BY <1>1, <1>3, <2>2, <2>3
<1>7. x \div (b * p) = u
  <2> DEFINE y == b * p
             w == p * v + r
  <2>1. y \in Nat \ {0} /\ w \in 0..(y - 1) /\ x = y * u + w
    BY <1>3, <1>5, <1>6
  <2> HIDE DEF y, w
  <2>2. x \div y = u
    BY <1>2, <2>1, DivIs
  <2> QED BY <2>2 DEF y
<1> QED BY <1>7 DEF u, q

\* The periods of the wheels are positive.
LEMMA PowIs ==
  /\ \A i \in 0..Levels : Pow[i] \in Nat \ {0}
  /\ \A i \in 0..(Levels - 1) : Pow[i + 1] = Buckets * Pow[i]
<1>1. ASSUME NEW i \in 0..(Levels - 1) PROVE Pow[i + 1] = Buckets * Pow[i]
  <2>1. i + 1 \in 1..Levels /\ (i + 1) - 1 = i
    BY WheelAssumption
  <2> QED BY <2>1, WheelAssumption
<1> QED BY <1>1, WheelAssumption

\* The turns of a higher wheel are turns of a lower one.
LEMMA PowDivides ==
  ASSUME NEW i \in 0..Levels, NEW j \in i..Levels
  PROVE  \E m \in Nat \ {0} : Pow[j] = Pow[i] * m
<1> DEFINE n == Levels - i
           S == {h \in 0..n : \E m \in Nat \ {0} : Pow[i + h] = Pow[i] * m}
<1>1. n \in Nat /\ i + 0 = i /\ Levels \in Nat
  BY WheelAssumption
<1>2. 0 \in S
  <2>1. Pow[i] = Pow[i] * 1
    BY PowIs
  <2> QED BY <1>1, <2>1
<1>3. ASSUME NEW h \in 0..(n - 1), h \in S PROVE h + 1 \in S
  <2>1. PICK m \in Nat \ {0} : Pow[i + h] = Pow[i] * m
    BY <1>3
  <2>2. i + h \in 0..(Levels - 1) /\ i + (h + 1) = (i + h) + 1 /\ h + 1 \in 0..n
    BY <1>1
  <2>3. Pow[i + (h + 1)] = Buckets * (Pow[i] * m)
    BY <2>1, <2>2, PowIs
  <2>4. Buckets * (Pow[i] * m) = Pow[i] * (Buckets * m) /\ Buckets * m \in Nat \ {0}
    BY PowIs, WheelAssumption
  <2> QED BY <2>2, <2>3, <2>4
<1>4. j - i \in 0..n /\ i + (j - i) = j
  BY <1>1
<1>5. j - i \in S
  <2> HIDE DEF S
  <2> QED BY <1>1, <1>2, <1>3, <1>4, UpToInduction
<1> QED BY <1>4, <1>5

\* Carry(i) is the sum of the periods of the wheels 1 to i.
LEMMA CarryIs ==
  /\ Carry(0) = 0
  /\ \A i \in 0..(Levels - 1) : Carry(i) \in Nat /\ Carry(i + 1) = Carry(i) + Pow[i + 1]
<1> DEFINE b == Buckets - 1
           Exact(i, c) == Buckets * (Pow[i] - 1) = b * c
           S == {i \in 0..Levels : \E c \in Nat : Exact(i, c)}
<1>1. b \in Nat \ {0} /\ Buckets \in Nat /\ Levels \in Nat \ {0}
  BY WheelAssumption
<1>2. ASSUME NEW i \in 0..Levels, NEW c \in Nat, Exact(i, c) PROVE Carry(i) = c
  <2>1. b * c \in Int /\ b * c = b * c + 0 /\ 0 \in 0..(b - 1)
    BY <1>1
  <2>2. (b * c) \div b = c
    BY <1>1, <2>1, DivIs
  <2> QED BY <1>2, <2>2 DEF Carry
<1>3. Exact(0, 0)
  BY <1>1, WheelAssumption
<1>4. ASSUME NEW i \in 0..(Levels - 1), NEW c \in Nat, Exact(i, c)
      PROVE  i + 1 \in 0..Levels /\ c + Pow[i + 1] \in Nat /\ Exact(i + 1, c + Pow[i + 1])
  <2>1. Pow[i + 1] = Buckets * Pow[i] /\ Pow[i] \in Nat /\ Pow[i + 1] \in Nat /\ i + 1 \in 0..Levels
    BY <1>1, PowIs
  <2>2. Buckets * (Pow[i + 1] - 1) = Buckets * (Pow[i] - 1) + b * Pow[i + 1]
    <3> DEFINE p == Pow[i]
               q == Pow[i + 1]
    <3>1. q = Buckets * p /\ p \in Nat /\ q \in Nat
      BY <2>1
    <3> HIDE DEF p, q
    <3>2. Buckets * (q - 1) = Buckets * q - Buckets
      BY <1>1, <3>1
    <3>3. Buckets * (p - 1) = q - Buckets
      BY <1>1, <3>1
    <3>4. b * q = Buckets * q - q /\ Buckets * q \in Int
      BY <1>1, <3>1
    <3>5. Buckets * (q - 1) = Buckets * (p - 1) + b * q
      BY <1>1, <3>1, <3>2, <3>3, <3>4
    <3> QED BY <3>5 DEF p, q
  <2>3. b * (c + Pow[i + 1]) = b * c + b * Pow[i + 1]
    <3> DEFINE q == Pow[i + 1]
               g == b
    <3>1. g \in Nat /\ q \in Nat
      BY <1>1, <2>1
    <3> HIDE DEF g, q
    <3>2. g * (c + q) = g * c + g * q
      BY <3>1
    <3> QED BY <3>2 DEF g, q
  <2> QED BY <1>4, <2>1, <2>2, <2>3
<1> HIDE DEF Exact
<1>5. 0 \in S
  BY <1>1, <1>3
<1>6. ASSUME NEW i \in 0..(Levels - 1), i \in S PROVE i + 1 \in S
  BY <1>4, <1>6
<1>7. \A i \in 0..Levels : i \in S
  <2> HIDE DEF S
  <2> QED BY <1>1, <1>5, <1>6, UpToInduction
<1>8. ASSUME NEW i \in 0..(Levels - 1)
      PROVE  Carry(i) \in Nat /\ Carry(i + 1) = Carry(i) + Pow[i + 1]
  <2>1. PICK c \in Nat : Exact(i, c)
    BY <1>1, <1>7
  <2>2. Carry(i) = c /\ Carry(i + 1) = c + Pow[i + 1]
    BY <1>1, <1>2, <1>4, <2>1
  <2> QED BY <2>2
<1> QED BY <1>1, <1>2, <1>3, <1>8

\* Division is monotonic.
LEMMA DivMono ==
  ASSUME NEW y \in Nat \ {0}, NEW a \in Int, NEW b \in Int, a <= b
  PROVE  a \div y <= b \div y
<1>1. ASSUME (b \div y) + 1 <= a \div y PROVE FALSE
  <2> DEFINE u == a \div y
             v == b \div y
  <2>1. u \in Int /\ v \in Int /\ y * u <= a /\ b < y * v + y
    BY DivMod
  <2>2. y * (v + 1) <= y * u
    <3>1. v + 1 <= u /\ v + 1 \in Int
      BY <1>1, <2>1
    <3> HIDE DEF u, v
    <3> QED BY <2>1, <3>1, MulMono
  <2>3. y * (v + 1) = y * v + y
    <3> HIDE DEF v
    <3> QED BY <2>1
  <2> QED BY <2>1, <2>2, <2>3
<1> QED BY <1>1, DivMod

\* The quotient of the next number is one more at a multiple of the divisor.
LEMMA DivSucc ==
  ASSUME NEW x \in Int, NEW y \in Nat \ {0}
  PROVE  (x + 1) \div y = (x \div y) + (IF (x + 1) % y = 0 THEN 1 ELSE 0)
<1> DEFINE q == x \div y
           r == x % y
<1>1. q \in Int /\ r \in 0..(y - 1) /\ x = y * q + r
  BY DivMod
<1> HIDE DEF q, r
<1>2. CASE r + 1 < y
  <2>1. r + 1 \in 0..(y - 1) /\ x + 1 = y * q + (r + 1)
    BY <1>1, <1>2
  <2>2. (x + 1) \div y = q /\ (x + 1) % y = r + 1
    BY <1>1, <2>1, DivIs
  <2> QED BY <1>1, <2>2 DEF q
<1>3. CASE r + 1 = y
  <2>1. y * (q + 1) = y * q + y /\ q + 1 \in Int /\ 0 \in 0..(y - 1)
    BY <1>1
  <2>2. x + 1 = y * (q + 1) + 0
    BY <1>1, <1>3, <2>1
  <2>3. (x + 1) \div y = q + 1 /\ (x + 1) % y = 0
    BY <2>1, <2>2, DivIs
  <2> QED BY <2>3 DEF q
<1> QED BY <1>1, <1>2, <1>3

LEMMA ModSmall ==
  ASSUME NEW y \in Nat \ {0}
  PROVE  y % y = 0 /\ \A x \in 0..(y - 1) : x % y = x
OBVIOUS

LEMMA SizesAre == Buckets \in Nat \ {0} /\ Levels \in Nat \ {0}
BY WheelAssumption

\* The quantities of insertEntry, for a delay that may also be one that has passed.
LEMMA TurnIs ==
  ASSUME NEW r \in Int, NEW t \in Int, NEW l \in LevelSet
  PROVE  /\ l \in Nat /\ l \in 0..Levels /\ Pow[l] \in Nat \ {0} /\ Carry(l) \in Nat
         /\ Turn(r, t, l) \in Int /\ CapturedSlot(r, t, l) \in 0..(Buckets - 1)
         /\ t \div Pow[l] \in Int /\ DelayAt(r, t, l) \in Int
<1>1. l \in Nat /\ l \in 0..Levels /\ l \in 0..(Levels - 1) /\ Pow[l] \in Nat \ {0}
  BY WheelAssumption, PowIs DEF LevelSet
<1>2. Carry(l) \in Nat
  BY <1>1, CarryIs
<1>3. r + t - Carry(l) \in Int
  BY <1>2
<1>4. Turn(r, t, l) \in Int
  BY <1>1, <1>3, DivMod DEF Turn
<1>5. CapturedSlot(r, t, l) \in 0..(Buckets - 1)
  BY <1>4, SizesAre, DivMod DEF CapturedSlot
<1>6. t \div Pow[l] \in Int
  BY <1>1, DivMod
<1> QED BY <1>1, <1>2, <1>4, <1>5, <1>6 DEF DelayAt

\* A wheel turns Buckets times while the next turns once.
LEMMA TurnStep ==
  ASSUME NEW r \in Int, NEW t \in Int, NEW l \in LevelSet, l + 1 \in LevelSet
  PROVE  /\ Turn(r, t, l) = Buckets * (Turn(r, t, l + 1) + 1) + CapturedSlot(r, t, l)
         /\ t \div Pow[l + 1] = (t \div Pow[l]) \div Buckets
<1> DEFINE x == r + t - Carry(l)
           p == Pow[l]
<1>1. /\ l \in 0..(Levels - 1) /\ p \in Nat \ {0} /\ Buckets \in Nat \ {0} /\ Carry(l) \in Nat
      /\ Pow[l + 1] = Buckets * p /\ Carry(l + 1) = Carry(l) + Buckets * p
  BY TurnIs, PowIs, CarryIs, WheelAssumption DEF LevelSet
<1>2. x \in Int /\ Buckets * p \in Nat \ {0} /\ (Buckets * p) * 1 = Buckets * p
  BY <1>1
<1>3. r + t - Carry(l + 1) = x - (Buckets * p) * 1
  BY <1>1, <1>2
<1> HIDE DEF p
<1>4. Turn(r, t, l + 1) = (x \div (Buckets * p)) - 1
  <2> HIDE DEF x
  <2>1. (x - (Buckets * p) * 1) \div (Buckets * p) = (x \div (Buckets * p)) - 1
    <3> DEFINE y == Buckets * p
    <3>1. y \in Nat \ {0}
      BY <1>2
    <3> HIDE DEF y
    <3> DEFINE m == 1
    <3>2. m \in Int
      OBVIOUS
    <3> HIDE DEF m
    <3>3. (x - y * m) \div y = (x \div y) - m
      BY <1>2, <3>1, <3>2, DivShift
    <3> QED BY <3>3 DEF y, m
  <2> QED BY <1>1, <1>3, <2>1 DEF Turn
<1>5. x \div (Buckets * p) = (x \div p) \div Buckets /\ t \div (Buckets * p) = (t \div p) \div Buckets
  BY <1>1, <1>2, DivTwice
<1>6. Turn(r, t, l) = x \div p /\ Turn(r, t, l) \in Int
  BY TurnIs DEF Turn, p
<1>7. Turn(r, t, l) = Buckets * (Turn(r, t, l) \div Buckets) + (Turn(r, t, l) % Buckets)
  BY <1>1, <1>6, DivMod
<1>8. Turn(r, t, l + 1) + 1 = Turn(r, t, l) \div Buckets
  <2>1. Turn(r, t, l) \div Buckets \in Int
    BY <1>1, <1>6, DivMod
  <2> QED BY <1>4, <1>5, <1>6, <2>1
<1> QED BY <1>1, <1>5, <1>7, <1>8 DEF CapturedSlot, p

\* An entry that has r seconds left at tick t has r - 1 at the next: it stands where it
\* stood, but for a wheel that turns then.
LEMMA TickOn ==
  ASSUME NEW r \in Int, NEW t \in 0..(Pow[Levels] - 1), NEW l \in LevelSet
  PROVE  LET n == (t + 1) % Pow[Levels]
         IN  /\ CapturedSlot(r - 1, n, l) = CapturedSlot(r, t, l)
             /\ DelayAt(r - 1, n, l) = DelayAt(r, t, l) - (IF n % Pow[l] = 0 THEN 1 ELSE 0)
<1> DEFINE n == (t + 1) % Pow[Levels]
           p == Pow[l]
           g == Pow[Levels]
<1>1. /\ l \in 0..(Levels - 1) /\ l + 1 \in 0..Levels /\ Levels \in (l + 1)..Levels /\ Levels \in 0..Levels
      /\ Pow[l + 1] = Buckets * p /\ p \in Nat \ {0} /\ g \in Nat \ {0} /\ Buckets \in Nat \ {0}
      /\ t \in Int
  <2>1. l \in 0..(Levels - 1) /\ l + 1 \in 0..Levels /\ Levels \in (l + 1)..Levels /\ Levels \in 0..Levels
    BY SizesAre DEF LevelSet
  <2> QED BY <2>1, PowIs, SizesAre
<1>2. PICK m \in Nat \ {0} : g = (Buckets * p) * m
  BY <1>1, PowDivides
<1>3. \E w \in {0, 1} : n = (t + 1) - g * w
  <2>1. CASE t + 1 < g
    <3>1. t + 1 \in 0..(g - 1)
      BY <1>1, <2>1
    <3>2. n = t + 1
      <4> HIDE DEF g
      <4>1. (t + 1) % g = t + 1
        BY <1>1, <3>1, ModSmall
      <4> QED BY <4>1 DEF g
    <3>3. n = (t + 1) - g * 0
      BY <1>1, <3>2
    <3> QED BY <3>3
  <2>2. CASE t + 1 = g
    <3>2. n = 0
      <4> HIDE DEF g
      <4>1. (t + 1) % g = 0
        BY <1>1, <2>2, ModSmall
      <4> QED BY <4>1 DEF g
    <3>3. n = (t + 1) - g * 1
      BY <1>1, <2>2, <3>2
    <3> QED BY <3>3
  <2> QED BY <1>1, <2>1, <2>2
<1>4. PICK w \in {0, 1} : n = (t + 1) - g * w
  BY <1>3
<1> DEFINE h == m * w
           x == r + t - Carry(l)
<1>5. h \in Int /\ x \in Int /\ Buckets * h \in Int
  <2>1. h \in Int
    OBVIOUS
  <2>2. Carry(l) \in Int
    BY <1>1, TurnIs
  <2> HIDE DEF h
  <2> QED BY <1>1, <2>1, <2>2
<1>6. g * w = p * (Buckets * h)
  <2> HIDE DEF g, p
  <2>1. g * w = ((Buckets * p) * m) * w
    BY <1>2
  <2> QED BY <1>1, <2>1 DEF h
<1> HIDE DEF g, n, h
<1>7. n = (t + 1) - p * (Buckets * h) /\ n \in Int
  BY <1>1, <1>4, <1>5, <1>6
<1>8. (r - 1) + n - Carry(l) = x - p * (Buckets * h)
  <2> DEFINE a == p * (Buckets * h)
  <2>1. a \in Int /\ Carry(l) \in Int
    <3>1. Carry(l) \in Int
      BY <1>1, TurnIs
    <3> HIDE DEF p
    <3> QED BY <1>1, <1>5, <3>1
  <2>2. n = (t + 1) - a
    BY <1>7
  <2> HIDE DEF a
  <2>3. (r - 1) + n - Carry(l) = x - a
    BY <1>1, <2>1, <2>2
  <2> QED BY <2>3 DEF a
<1>9. Turn(r - 1, n, l) = Turn(r, t, l) - Buckets * h
  <2>1. (x - p * (Buckets * h)) \div p = (x \div p) - Buckets * h
    <3> HIDE DEF x, p
    <3> DEFINE a == Buckets * h
    <3> HIDE DEF a
    <3>1. (x - p * a) \div p = (x \div p) - a
      BY <1>1, <1>5, DivShift DEF a
    <3> QED BY <3>1 DEF a
  <2> QED BY <1>8, <2>1 DEF Turn, p
<1>10. CapturedSlot(r - 1, n, l) = CapturedSlot(r, t, l)
  <2>1. Turn(r, t, l) \in Int
    BY <1>1, TurnIs
  <2>2. (Turn(r, t, l) - Buckets * h) % Buckets = Turn(r, t, l) % Buckets
    BY <1>1, <1>5, <2>1, DivShift
  <2> QED BY <1>9, <2>2 DEF CapturedSlot
<1>11. /\ n \div p = ((t + 1) \div p) - Buckets * h
       /\ n % p = (t + 1) % p
  <2> DEFINE a == Buckets * h
  <2>1. a \in Int /\ n = (t + 1) - p * a /\ t + 1 \in Int
    BY <1>1, <1>5, <1>7
  <2> HIDE DEF a, p
  <2>2. ((t + 1) - p * a) \div p = ((t + 1) \div p) - a /\ ((t + 1) - p * a) % p = (t + 1) % p
    BY <1>1, <2>1, DivShift
  <2> QED BY <2>1, <2>2 DEF a
<1>12. (t + 1) \div p = (t \div p) + (IF (t + 1) % p = 0 THEN 1 ELSE 0)
  <2> HIDE DEF p
  <2> QED BY <1>1, DivSucc
<1>13. DelayAt(r - 1, n, l) = DelayAt(r, t, l) - (IF n % p = 0 THEN 1 ELSE 0)
  <2>1. Turn(r, t, l) \in Int /\ t \div p \in Int /\ Buckets * h \in Int
    BY <1>1, <1>5, TurnIs
  <2>2. DelayAt(r - 1, n, l) = (Turn(r, t, l) - Buckets * h) + 1 - (((t \div p) + (IF n % p = 0 THEN 1 ELSE 0)) - Buckets * h)
    BY <1>9, <1>11, <1>12 DEF DelayAt, p
  <2>3. DelayAt(r, t, l) = Turn(r, t, l) + 1 - t \div p
    BY DEF DelayAt, p
  <2> HIDE DEF p
  <2>4. CASE n % p = 0
    BY <2>1, <2>2, <2>3, <2>4
  <2>5. CASE n % p # 0
    BY <2>1, <2>2, <2>3, <2>5
  <2> QED BY <2>4, <2>5
<1> QED BY <1>10, <1>13 DEF n, p

\* No longer delay than that is cut off by the last wheel.
LEMMA LastFits ==
  ASSUME NEW d \in Nat, NEW t \in Nat, d <= Longest
  PROVE  Fits(d, t, Levels - 1)
<1> DEFINE l == Levels - 1
           p == Pow[l]
           b == Buckets - 1
<1>1. l \in LevelSet /\ b \in Nat /\ Buckets \in Nat \ {0} /\ p \in Nat \ {0} /\ Carry(l) \in Nat
  <2>1. l \in LevelSet
    BY SizesAre DEF LevelSet
  <2> QED BY <2>1, TurnIs, SizesAre
<1>2. d <= b * p + Carry(l)
  BY DEF Longest
<1> HIDE DEF l, p
<1>3. b * p = p * b /\ p * b \in Int /\ -(p * b) = p * (-b) /\ -b \in Int
  BY <1>1
<1>4. d + t - Carry(l) <= t - p * (-b)
  BY <1>1, <1>2, <1>3
<1>5. (t - p * (-b)) \div p = (t \div p) + b
  <2> DEFINE m == -b
  <2>1. m \in Int /\ t \div p \in Int /\ (t \div p) - m = (t \div p) + b
    BY <1>1, DivMod
  <2> HIDE DEF m, b
  <2>2. t \in Int /\ p \in Nat \ {0}
    BY <1>1
  <2>3. (t - p * m) \div p = (t \div p) - m
    BY <2>1, <2>2, DivShift
  <2> QED BY <2>1, <2>3 DEF m
<1>6. (d + t - Carry(l)) \div p <= (t \div p) + b
  <2>1. d + t - Carry(l) \in Int /\ t - p * (-b) \in Int
    BY <1>1, <1>3
  <2> QED BY <1>1, <1>4, <1>5, <2>1, DivMono
<1>7. t \div p \in Int /\ (d + t - Carry(l)) \div p \in Int
  BY <1>1, DivMod
<1>8. DelayAt(d, t, l) <= Buckets
  BY <1>1, <1>6, <1>7 DEF DelayAt, Turn, p
<1> QED BY <1>8 DEF Fits, l

\* Where what is left of the delay fits, there is a bucket for it.
LEMMA FitsInPlace ==
  ASSUME NEW d \in Nat \ {0}, NEW t \in Nat, NEW l \in LevelSet, Fits(d, t, l), LandsOn(d, t, l)
  PROVE  LandingSlot(d, t, l) = DelayAt(d, t, l) - 1
<1>1. Fits(d, t, l)
  OBVIOUS
<1>2. DelayAt(d, t, l) \in Int /\ DelayAt(d, t, l) <= Buckets /\ Buckets \in Nat \ {0}
  BY <1>1, TurnIs, SizesAre DEF Fits
<1>3. CASE l = 0
  <2>1. Turn(d, t, 0) = d + t /\ t \div Pow[0] = t
    <3>1. Pow[0] = 1 /\ Carry(0) = 0
      BY CarryIs, WheelAssumption
    <3>2. \A x \in Int : x \div 1 = x
      OBVIOUS
    <3> QED BY <3>1, <3>2 DEF Turn
  <2>2. DelayAt(d, t, l) >= 1
    BY <1>3, <2>1 DEF DelayAt
  <2> QED BY <1>2, <2>2 DEF LandingSlot
<1>4. CASE l # 0
  <2> DEFINE k == l - 1
             u == Turn(d, t, l)
             v == t \div Pow[l]
             w == t \div Pow[k]
             c == CapturedSlot(d, t, k)
  <2>1. k \in LevelSet /\ k + 1 = l /\ k < l
    BY <1>4, SizesAre DEF LevelSet
  <2>2. ~ (DelayAt(d, t, k) <= Buckets)
    BY <2>1 DEF LandsOn, Fits
  <2>3. /\ u \in Int /\ v \in Int /\ w \in Int /\ c \in 0..(Buckets - 1)
        /\ Turn(d, t, k) = Buckets * (u + 1) + c /\ v = w \div Buckets
    BY <2>1, TurnIs, TurnStep
  <2>4. w = Buckets * v + (w % Buckets) /\ w % Buckets >= 0 /\ w % Buckets \in Int
    BY <1>2, <2>3, DivMod
  <2>5. DelayAt(d, t, k) = Buckets * (u + 1) + c + 1 - w
    BY <2>3 DEF DelayAt
  <2> HIDE DEF u, v, w, c
  <2>6. Buckets * (u + 1) \in Int /\ Buckets * v \in Int
    BY <1>2, <2>3
  <2>7. Buckets * (u + 1) > Buckets * v
    BY <1>2, <2>2, <2>3, <2>4, <2>5, <2>6
  <2>8. u + 1 > v
    <3>1. ASSUME u + 1 <= v PROVE FALSE
      <4>1. Buckets * (u + 1) <= Buckets * v
        <5>1. Buckets \in Nat /\ u + 1 \in Int
          BY <1>2, <2>3
        <5> QED BY <2>3, <3>1, <5>1, MulMono
      <4> QED BY <2>6, <2>7, <4>1
    <3> QED BY <2>3, <3>1
  <2>9. DelayAt(d, t, l) >= 1
    BY <2>3, <2>8 DEF DelayAt, u, v
  <2> QED BY <1>2, <2>9 DEF LandingSlot
<1> QED BY <1>3, <1>4

LEMMA LandsInPlace ==
  ASSUME NEW d \in Nat \ {0}, NEW t \in Nat, NEW l \in LevelSet, d <= Longest, LandsOn(d, t, l)
  PROVE  LandingSlot(d, t, l) = DelayAt(d, t, l) - 1
<1>1. Fits(d, t, l)
  BY LastFits DEF LandsOn
<1> QED BY <1>1, FitsInPlace

\* The lowest wheel counts seconds.
LEMMA LowestWheel ==
  ASSUME NEW r \in Int, NEW t \in Int
  PROVE  DelayAt(r, t, 0) = r + 1
<1>1. Pow[0] = 1 /\ Carry(0) = 0
  BY CarryIs, WheelAssumption
<1>2. \A x \in Int : x \div 1 = x
  OBVIOUS
<1> QED BY <1>1, <1>2 DEF Turn, DelayAt

\* What stands in a wheel has time left, unless the wheel is the lowest and still to turn.
LEMMA TimeLeft ==
  ASSUME NEW r \in Int, NEW t \in Nat, NEW l \in LevelSet
  PROVE  /\ DelayAt(r, t, l) >= 1 => r >= 0
         /\ DelayAt(r, t, l) >= 0 /\ t % Pow[l] = 0 => r >= -1
<1>1. CASE l = 0
  BY <1>1, LowestWheel
<1>2. CASE l # 0
  <2> DEFINE p == Pow[l]
             u == Turn(r, t, l)
             v == t \div p
             x == r + t - Carry(l)
  <2>1. /\ p \in Nat \ {0} /\ u \in Int /\ v \in Int /\ Carry(l) \in Nat
        /\ DelayAt(r, t, l) = u + 1 - v /\ u = x \div p /\ x \in Int
    <3>1. p \in Nat \ {0} /\ u \in Int /\ v \in Int /\ Carry(l) \in Nat
      BY TurnIs
    <3>2. x \in Int
      BY <3>1
    <3> QED BY <3>1, <3>2 DEF DelayAt, Turn
  <2>2. Carry(l) >= p
    <3>1. l - 1 \in 0..(Levels - 1) /\ (l - 1) + 1 = l
      BY <1>2, SizesAre DEF LevelSet
    <3>2. Carry(l - 1) \in Nat /\ Carry(l) = Carry(l - 1) + p
      BY <3>1, CarryIs
    <3> QED BY <2>1, <3>2
  <2>3. p * u <= x /\ t < p * v + p /\ t = p * v + (t % p)
    <3>1. x = p * (x \div p) + (x % p) /\ 0 <= x % p /\ x % p \in Int /\ x \div p \in Int
      <4> HIDE DEF x, p
      <4> QED BY <2>1, DivMod
    <3>2. t = p * v + (t % p) /\ t % p < p /\ t % p \in Int /\ v \in Int
      <4> HIDE DEF p
      <4> QED BY <2>1, DivMod
    <3> HIDE DEF u, v, x, p
    <3>3. p * u \in Int /\ p * v \in Int
      BY <2>1
    <3> QED BY <2>1, <3>1, <3>2, <3>3
  <2>4. ASSUME DelayAt(r, t, l) >= 0, t % p = 0 PROVE r >= -1
    <3> HIDE DEF p, u, v
    <3>1. v - 1 <= u /\ v - 1 \in Int
      BY <2>1, <2>4
    <3>2. p * (v - 1) <= p * u
      BY <2>1, <3>1, MulMono
    <3>3. p * (v - 1) = p * v - p /\ p * v \in Int /\ p * u \in Int
      BY <2>1
    <3>4. t - p <= x
      BY <2>1, <2>3, <2>4, <3>2, <3>3
    <3> QED BY <2>1, <2>2, <3>4
  <2>5. ASSUME DelayAt(r, t, l) >= 1 PROVE r >= 0
    <3> HIDE DEF p, u, v
    <3>1. v <= u
      BY <2>1, <2>5
    <3>2. p * v <= p * u
      BY <2>1, <3>1, MulMono
    <3>3. p * v \in Int /\ p * u \in Int
      BY <2>1
    <3>4. t - p < x
      BY <2>1, <2>3, <3>2, <3>3
    <3> QED BY <2>1, <2>2, <3>4
  <2> QED BY <2>4, <2>5
<1> QED BY <1>1, <1>2

\* When a wheel has turned, an entry of its front bucket belongs in the bucket of the wheel
\* below that it captured.
LEMMA MovesInPlace ==
  ASSUME NEW r \in Int, NEW t \in Int, NEW l \in LevelSet, l # 0, t % Pow[l] = 0,
         DelayAt(r, t, l) = 0
  PROVE  CapturedSlot(r, t, l - 1) = DelayAt(r, t, l - 1) - 1
<1> DEFINE k == l - 1
<1>1. k \in LevelSet /\ k + 1 = l /\ k \in 0..(Levels - 1) /\ Buckets \in Nat \ {0}
  BY SizesAre DEF LevelSet
<1>2. /\ Turn(r, t, k) = Buckets * (Turn(r, t, l) + 1) + CapturedSlot(r, t, k)
      /\ t \div Pow[l] = (t \div Pow[k]) \div Buckets
  BY <1>1, TurnStep
<1>3. /\ Turn(r, t, l) \in Int /\ t \div Pow[l] \in Int /\ t \div Pow[k] \in Int
      /\ CapturedSlot(r, t, k) \in Int /\ Pow[k] \in Nat \ {0} /\ Pow[l] \in Nat \ {0}
  BY <1>1, TurnIs
<1>4. Turn(r, t, l) + 1 = t \div Pow[l]
  BY <1>3 DEF DelayAt
<1>5. t \div Pow[k] = Buckets * (t \div Pow[l])
  <2> DEFINE v == t \div Pow[l]
             p == Pow[k]
  <2>1. t = Pow[l] * v /\ Pow[l] = Buckets * p /\ v \in Int
    <3>1. t = Pow[l] * v + 0
      BY <1>3, DivMod
    <3>2. Pow[l] * v \in Int /\ v \in Int
      <4> HIDE DEF v
      <4> QED BY <1>3 DEF v
    <3> QED BY <1>1, <3>1, <3>2, PowIs
  <2> HIDE DEF v, p
  <2>2. t = p * (Buckets * v) + 0 /\ Buckets * v \in Int
    <3>1. (Buckets * p) * v = p * (Buckets * v) /\ p * (Buckets * v) \in Int /\ Buckets * v \in Int
      BY <1>1, <1>3, <2>1 DEF p
    <3> QED BY <2>1, <3>1
  <2>3. t \div p = Buckets * v
    <3> DEFINE q == Buckets * v
    <3>1. t = p * q + 0 /\ q \in Int /\ p \in Nat \ {0} /\ 0 \in 0..(p - 1)
      BY <1>3, <2>2 DEF p
    <3> HIDE DEF q
    <3>2. t \div p = q
      BY <3>1, DivIs
    <3> QED BY <3>2 DEF q
  <2> QED BY <2>3 DEF v, p
<1>6. Turn(r, t, k) = (t \div Pow[k]) + CapturedSlot(r, t, k)
  BY <1>2, <1>4, <1>5
<1> QED BY <1>3, <1>6 DEF DelayAt

-----------------------------------------------------------------------------
(* The time that the items of an entry still have. *)

\* The wheel has still to turn in the tick now running.
Pending(l) ==
  /\ tick.stage # "idle" /\ ticks % Pow[l] = 0
  /\ tick.level < l \/ (tick.level = l /\ tick.stage = "pop")
Shift(l) == IF Pending(l) THEN 1 ELSE 0

\* An item that lies in bucket s of wheel l, or in the bucket that is being destroyed, lets
\* go of its entry in the tick that begins after r more.
WheelDue(item, l, s, r) ==
  /\ item.slots = CapturedSlots(r, ticks, l)
  /\ s = DelayAt(r, ticks, l) - 1 + Shift(l)
HandDue(item, r) ==
  /\ item.slots = CapturedSlots(r, ticks, tick.level)
  /\ DelayAt(r, ticks, tick.level) = 0

DueIn(e, r) ==
  \/ \E l \in LevelSet, s \in SlotSet : \E item \in wheels[l][s] :
       item.entry = e /\ WheelDue(item, l, s, r)
  \/ \E item \in tick.bucket : item.entry = e /\ HandDue(item, r)

\* Every item of the entry lets go of it in no more than n.
DueBy(e, n) ==
  /\ \A l \in LevelSet, s \in SlotSet : \A item \in wheels[l][s] :
       item.entry = e => \E r \in Int : r <= n /\ WheelDue(item, l, s, r)
  /\ \A item \in tick.bucket : item.entry = e => \E r \in Int : r <= n /\ HandDue(item, r)

\* The counter, and which wheels turn.
TickShape ==
  /\ ticks \in 0..(Pow[Levels] - 1)
  /\ tick.stage # "idle" => ticks % Pow[tick.level] = 0

\* What the timer callback does inside a tick changes no item's time.
TimesKept(e) ==
  \A n \in Int : (DueBy(e, n) => DueBy(e, n)') /\ (DueIn(e, n) => DueIn(e, n)')

LEMMA TickOnSlots ==
  ASSUME NEW r \in Int, ticks \in 0..(Pow[Levels] - 1), NEW l \in LevelSet,
         ticks' = (ticks + 1) % Pow[Levels]
  PROVE  /\ CapturedSlots(r - 1, ticks', l) = CapturedSlots(r, ticks, l)
         /\ DelayAt(r - 1, ticks', l) = DelayAt(r, ticks, l) - (IF ticks' % Pow[l] = 0 THEN 1 ELSE 0)
<1>1. \A i \in 1..l : i - 1 \in LevelSet
  BY WheelAssumption DEF LevelSet
<1>2. \A i \in 1..l : CapturedSlot(r - 1, ticks', i - 1) = CapturedSlot(r, ticks, i - 1)
  BY <1>1, TickOn
<1>3. CapturedSlots(r - 1, ticks', l) = CapturedSlots(r, ticks, l)
  BY <1>2 DEF CapturedSlots
<1>4. DelayAt(r - 1, ticks', l) = DelayAt(r, ticks, l) - (IF ticks' % Pow[l] = 0 THEN 1 ELSE 0)
  BY TickOn
<1> QED BY <1>3, <1>4

\* A second passes for every item.
LEMMA StartTakesOne ==
  ASSUME IndInv, TickShape, TickStart, NEW e \in Entries
  PROVE  \A n \in Int : (DueBy(e, n) => DueBy(e, n - 1)') /\ (DueIn(e, n) => DueIn(e, n - 1)')
<1>1. /\ tick.stage = "idle" /\ tick.bucket = {} /\ wheels' = wheels
      /\ ticks' = (ticks + 1) % Pow[Levels]
      /\ tick'.stage = "pop" /\ tick'.level = 0 /\ tick'.bucket = {}
  BY DEF TickStart, IndInv, ItemShape, TickIdle
<1>2. ASSUME NEW l \in LevelSet, NEW s \in SlotSet, NEW item \in wheels[l][s], NEW r \in Int,
             WheelDue(item, l, s, r)
      PROVE  WheelDue(item, l, s, r - 1)'
  <2>1. Shift(l) = 0 /\ (Shift(l))' = IF ticks' % Pow[l] = 0 THEN 1 ELSE 0
    BY <1>1, WheelAssumption DEF Shift, Pending, LevelSet
  <2>2. /\ CapturedSlots(r - 1, ticks', l) = CapturedSlots(r, ticks, l)
        /\ DelayAt(r - 1, ticks', l) = DelayAt(r, ticks, l) - (IF ticks' % Pow[l] = 0 THEN 1 ELSE 0)
    BY <1>1, TickOnSlots DEF TickShape
  <2>3. DelayAt(r, ticks, l) \in Int
    BY TurnIs DEF IndInv, TypeOK
  <2> QED BY <1>2, <2>1, <2>2, <2>3 DEF WheelDue
<1>3. ASSUME NEW n \in Int, DueBy(e, n) PROVE DueBy(e, n - 1)'
  <2> SUFFICES ASSUME NEW l \in LevelSet, NEW s \in SlotSet, NEW item \in wheels[l][s], item.entry = e
               PROVE  \E r \in Int : r <= n - 1 /\ WheelDue(item, l, s, r)'
    BY <1>1 DEF DueBy
  <2>1. PICK r \in Int : r <= n /\ WheelDue(item, l, s, r)
    BY <1>3 DEF DueBy
  <2>2. r - 1 \in Int /\ r - 1 <= n - 1 /\ WheelDue(item, l, s, r - 1)'
    BY <1>2, <2>1
  <2> QED BY <2>2
<1>4. ASSUME NEW n \in Int, DueIn(e, n) PROVE DueIn(e, n - 1)'
  <2>0. PICK l \in LevelSet, s \in SlotSet :
          \E item \in wheels[l][s] : item.entry = e /\ WheelDue(item, l, s, n)
    BY <1>1, <1>4 DEF DueIn
  <2>1. PICK item \in wheels[l][s] : item.entry = e /\ WheelDue(item, l, s, n)
    BY <2>0
  <2>2. item \in wheels'[l][s] /\ WheelDue(item, l, s, n - 1)'
    BY <1>1, <1>2, <2>1
  <2> QED BY <2>1, <2>2 DEF DueIn
<1> QED BY <1>3, <1>4

\* The items of the front bucket go to the timer's hand, the others one bucket on.
LEMMA PopKeepsTimes ==
  ASSUME IndInv, TickShape, TickPop, NEW e \in Entries
  PROVE  TimesKept(e)
<1>1. /\ tick.stage = "pop" /\ UNCHANGED ticks
      /\ tick' = [tick EXCEPT !.stage = "release", !.bucket = wheels[tick.level][0]]
      /\ wheels' = [wheels EXCEPT ![tick.level] = Rotate(wheels[tick.level])]
  BY DEF TickPop
<1>2. tick.level \in LevelSet /\ tick.bucket = {} /\ ticks % Pow[tick.level] = 0 /\ 0 \in SlotSet
  BY <1>1, SizesAre DEF IndInv, TypeOK, ItemShape, TickShape, SlotSet
<1>3. /\ tick'.stage = "release" /\ tick'.level = tick.level /\ tick'.bucket = wheels[tick.level][0]
      /\ \A l \in LevelSet : l # tick.level => wheels'[l] = wheels[l]
      /\ \A s \in SlotSet : wheels'[tick.level][s] = IF s = Buckets - 1 THEN {} ELSE wheels[tick.level][s + 1]
  BY <1>1, <1>2 DEF IndInv, TypeOK, Rotate
<1>4. /\ Shift(tick.level) = 1 /\ (Shift(tick.level))' = 0
      /\ \A l \in LevelSet : l # tick.level => (Shift(l))' = Shift(l)
  <2>1. Pending(tick.level) /\ ~ Pending(tick.level)'
    BY <1>1, <1>2, <1>3, WheelAssumption DEF Pending, LevelSet
  <2>2. \A l \in LevelSet : l # tick.level => (Pending(l)' <=> Pending(l))
    BY <1>1, <1>2, <1>3 DEF Pending
  <2> QED BY <2>1, <2>2 DEF Shift
<1>5. ASSUME NEW l \in LevelSet, NEW s \in SlotSet, NEW item, NEW r \in Int
      PROVE  /\ l # tick.level => (WheelDue(item, l, s, r)' <=> WheelDue(item, l, s, r))
             /\ l = tick.level /\ s # 0 => (WheelDue(item, l, s - 1, r)' <=> WheelDue(item, l, s, r))
             /\ l = tick.level /\ s = 0 => (HandDue(item, r)' <=> WheelDue(item, l, s, r))
  <2>1. DelayAt(r, ticks, l) \in Int /\ s \in Int
    BY TurnIs DEF TickShape, SlotSet
  <2>2. CASE l # tick.level
    BY <1>1, <1>4, <2>2 DEF WheelDue
  <2>3. CASE l = tick.level
    BY <1>1, <1>3, <1>4, <2>1, <2>3 DEF WheelDue, HandDue
  <2> QED BY <2>2, <2>3
<1>6. ASSUME NEW n \in Int, DueBy(e, n) PROVE DueBy(e, n)'
  <2>1. ASSUME NEW l \in LevelSet, NEW s \in SlotSet, NEW item \in wheels'[l][s], item.entry = e
        PROVE  \E r \in Int : r <= n /\ WheelDue(item, l, s, r)'
    <3>1. CASE l # tick.level
      <4>1. item \in wheels[l][s]
        BY <1>3, <2>1, <3>1
      <4>2. PICK r \in Int : r <= n /\ WheelDue(item, l, s, r)
        BY <1>6, <2>1, <4>1 DEF DueBy
      <4> QED BY <1>5, <3>1, <4>2
    <3>2. CASE l = tick.level
      <4>1. s # Buckets - 1 /\ item \in wheels[l][s + 1]
        BY <1>3, <2>1, <3>2
      <4>2. s + 1 \in SlotSet /\ s + 1 # 0 /\ (s + 1) - 1 = s
        BY <4>1, SizesAre DEF SlotSet
      <4>3. PICK r \in Int : r <= n /\ WheelDue(item, l, s + 1, r)
        BY <1>6, <2>1, <4>1, <4>2 DEF DueBy
      <4>4. WheelDue(item, l, (s + 1) - 1, r)'
        BY <1>5, <3>2, <4>2, <4>3
      <4> QED BY <4>2, <4>3, <4>4
    <3> QED BY <3>1, <3>2
  <2>2. ASSUME NEW item \in tick'.bucket, item.entry = e
        PROVE  \E r \in Int : r <= n /\ HandDue(item, r)'
    <3>1. item \in wheels[tick.level][0]
      BY <1>3, <2>2
    <3>2. PICK r \in Int : r <= n /\ WheelDue(item, tick.level, 0, r)
      BY <1>2, <1>6, <2>2, <3>1 DEF DueBy
    <3> QED BY <1>2, <1>5, <3>2
  <2> QED BY <2>1, <2>2 DEF DueBy
<1>7. ASSUME NEW n \in Int, DueIn(e, n) PROVE DueIn(e, n)'
  <2>0. PICK l \in LevelSet, s \in SlotSet :
          \E item \in wheels[l][s] : item.entry = e /\ WheelDue(item, l, s, n)
    BY <1>2, <1>7 DEF DueIn
  <2>1. PICK item \in wheels[l][s] : item.entry = e /\ WheelDue(item, l, s, n)
    BY <2>0
  <2>2. CASE l # tick.level
    <3>1. item \in wheels'[l][s] /\ WheelDue(item, l, s, n)'
      BY <1>3, <1>5, <2>1, <2>2
    <3> QED BY <2>1, <3>1 DEF DueIn
  <2>3. CASE l = tick.level /\ s # 0
    <3>1. s - 1 \in SlotSet /\ s - 1 # Buckets - 1 /\ (s - 1) + 1 = s
      BY <2>3, SizesAre DEF SlotSet
    <3>2. item \in wheels'[l][s - 1] /\ WheelDue(item, l, s - 1, n)'
      BY <1>3, <1>5, <2>1, <2>3, <3>1
    <3> QED BY <2>1, <3>1, <3>2 DEF DueIn
  <2>4. CASE l = tick.level /\ s = 0
    <3>1. item \in tick'.bucket /\ HandDue(item, n)'
      BY <1>3, <1>5, <2>1, <2>4
    <3> QED BY <2>1, <3>1 DEF DueIn
  <2> QED BY <2>2, <2>3, <2>4
<1> QED BY <1>6, <1>7 DEF TimesKept

\* A wrapper goes to the bucket that it would stand in had it been put into the lower wheel.
LEMMA MoveDownKeepsTimes ==
  ASSUME IndInv, TickShape, NEW item \in tick.bucket, TickMoveDown(item), NEW e \in Entries
  PROVE  TimesKept(e)
<1>0. PICK k, j, to, lower :
        /\ k = tick.level /\ j = k - 1 /\ to = item.slots[k]
        /\ lower = [entry |-> item.entry, slots |-> [i \in 1..j |-> item.slots[i]]]
  OBVIOUS
<1>1. /\ tick.stage = "release" /\ tick.firing = None /\ Len(item.slots) = k /\ k > 0
      /\ UNCHANGED ticks /\ item \in Items
      /\ tick' = [tick EXCEPT !.bucket = @ \ {item}]
      /\ wheels' = [wheels EXCEPT ![j][to] = @ \cup {lower}]
  BY <1>0 DEF TickMoveDown, IndInv, TypeOK, ItemShape
<1>2. k \in LevelSet /\ j \in LevelSet /\ k \in Nat /\ ticks \in Nat /\ ticks % Pow[k] = 0
  BY <1>0, <1>1, SizesAre DEF IndInv, TypeOK, TickShape, LevelSet
<1>3. to \in SlotSet
  BY <1>0, <1>1, <1>2 DEF Items
<1>4. /\ tick'.stage = "release" /\ tick'.level = k /\ tick'.bucket = tick.bucket \ {item}
      /\ \A l \in LevelSet, s \in SlotSet :
           wheels'[l][s] = IF l = j /\ s = to THEN wheels[l][s] \cup {lower} ELSE wheels[l][s]
  BY <1>0, <1>1, <1>2, <1>3 DEF IndInv, TypeOK
<1>5. ASSUME NEW l, NEW s, NEW x, NEW r
      PROVE  /\ WheelDue(x, l, s, r)' <=> WheelDue(x, l, s, r)
             /\ HandDue(x, r)' <=> HandDue(x, r)
  BY <1>0, <1>1, <1>4 DEF WheelDue, HandDue, Shift, Pending
<1>6. ASSUME NEW r \in Int, HandDue(item, r) PROVE WheelDue(lower, j, to, r)
  <2>1. item.slots = CapturedSlots(r, ticks, k) /\ DelayAt(r, ticks, k) = 0
    BY <1>0, <1>6 DEF HandDue
  <2>2. to = CapturedSlot(r, ticks, j)
    BY <1>0, <1>1, <1>2, <2>1 DEF CapturedSlots
  <2>3. to = DelayAt(r, ticks, j) - 1
    BY <1>0, <1>1, <1>2, <2>1, <2>2, MovesInPlace
  <2>4. lower.slots = CapturedSlots(r, ticks, j)
    BY <1>0, <1>1, <1>2, <2>1 DEF CapturedSlots
  <2>5. Shift(j) = 0
    BY <1>0, <1>1, <1>2 DEF Shift, Pending
  <2>6. DelayAt(r, ticks, j) \in Int
    <3>1. ticks \in Int /\ j \in LevelSet
      BY <1>0, <1>2
    <3> QED BY <3>1, TurnIs
  <2> QED BY <2>3, <2>4, <2>5, <2>6 DEF WheelDue
<1>7. lower.entry = item.entry
  BY <1>0
<1>8. ASSUME NEW n \in Int, DueBy(e, n) PROVE DueBy(e, n)'
  <2>1. ASSUME NEW l \in LevelSet, NEW s \in SlotSet, NEW x \in wheels'[l][s], x.entry = e
        PROVE  \E r \in Int : r <= n /\ WheelDue(x, l, s, r)'
    <3>1. CASE x \in wheels[l][s]
      BY <1>5, <1>8, <2>1, <3>1 DEF DueBy
    <3>2. CASE x \notin wheels[l][s]
      <4>1. l = j /\ s = to /\ x = lower
        BY <1>4, <2>1, <3>2
      <4>2. PICK r \in Int : r <= n /\ HandDue(item, r)
        BY <1>7, <1>8, <2>1, <4>1 DEF DueBy
      <4> QED BY <1>5, <1>6, <4>1, <4>2
    <3> QED BY <3>1, <3>2
  <2>2. ASSUME NEW x \in tick'.bucket, x.entry = e
        PROVE  \E r \in Int : r <= n /\ HandDue(x, r)'
    BY <1>4, <1>5, <1>8, <2>2 DEF DueBy
  <2> QED BY <2>1, <2>2 DEF DueBy
<1>9. ASSUME NEW n \in Int, DueIn(e, n) PROVE DueIn(e, n)'
  <2>1. CASE \E x \in tick.bucket : x.entry = e /\ HandDue(x, n)
    <3>1. PICK x \in tick.bucket : x.entry = e /\ HandDue(x, n)
      BY <2>1
    <3>2. CASE x = item
      <4>1. lower \in wheels'[j][to] /\ lower.entry = e
        BY <1>2, <1>3, <1>4, <1>7, <3>1, <3>2
      <4>2. WheelDue(lower, j, to, n)'
        BY <1>5, <1>6, <3>1, <3>2
      <4>3. j \in LevelSet /\ to \in SlotSet
        BY <1>2, <1>3
      <4> QED BY <4>1, <4>2, <4>3 DEF DueIn
    <3>3. CASE x # item
      BY <1>4, <1>5, <3>1, <3>3 DEF DueIn
    <3> QED BY <3>2, <3>3
  <2>2. CASE \E l \in LevelSet, s \in SlotSet : \E x \in wheels[l][s] : x.entry = e /\ WheelDue(x, l, s, n)
    <3>1. PICK l \in LevelSet, s \in SlotSet : \E x \in wheels[l][s] : x.entry = e /\ WheelDue(x, l, s, n)
      BY <2>2
    <3>2. PICK x \in wheels[l][s] : x.entry = e /\ WheelDue(x, l, s, n)
      BY <3>1
    <3>3. x \in wheels'[l][s] /\ WheelDue(x, l, s, n)'
      BY <1>4, <1>5, <3>2
    <3> QED BY <3>2, <3>3 DEF DueIn
  <2> QED BY <1>9, <2>1, <2>2 DEF DueIn
<1> QED BY <1>8, <1>9 DEF TimesKept

\* The next wheel goes on if it is its turn: no wheel that should turn is left out.
LEMMA NextKeepsTimes ==
  ASSUME IndInv, TickShape, TickNext, NEW e \in Entries
  PROVE  TimesKept(e) /\ TickShape'
<1> DEFINE k == tick.level
<1>1. /\ tick.stage = "release" /\ tick.bucket = {} /\ UNCHANGED <<wheels, ticks>>
      /\ tick' = IF k + 1 < Levels /\ ticks % Pow[k + 1] = 0
                 THEN [TickIdle EXCEPT !.stage = "pop", !.level = k + 1] ELSE TickIdle
      /\ tick'.bucket = {}
  BY DEF TickNext, TickIdle
<1>2. k \in LevelSet /\ k \in Nat /\ ticks \in Nat /\ Levels \in Nat \ {0}
  BY SizesAre DEF IndInv, TypeOK, LevelSet
<1>3. ASSUME NEW l \in LevelSet, k < l, ticks % Pow[l] = 0
      PROVE  k + 1 < Levels /\ ticks % Pow[k + 1] = 0
  <2>1. k + 1 \in 0..Levels /\ l \in (k + 1)..Levels /\ k + 1 < Levels
    BY <1>2, <1>3 DEF LevelSet
  <2>2. PICK m \in Nat \ {0} : Pow[l] = Pow[k + 1] * m
    BY <2>1, PowDivides
  <2>3. Pow[k + 1] \in Nat \ {0} /\ Pow[l] \in Nat \ {0}
    <3>1. l \in 0..Levels
      BY <1>2 DEF LevelSet
    <3> QED BY <2>1, <3>1, PowIs
  <2> DEFINE q == ticks \div Pow[l]
             p == Pow[k + 1]
  <2>4. q \in Int /\ ticks = Pow[l] * q + 0
    <3>1. ticks \in Int
      BY <1>2
    <3>2. q \in Int /\ ticks = Pow[l] * q + (ticks % Pow[l])
      BY <2>3, <3>1, DivMod
    <3> QED BY <1>3, <3>2
  <2> HIDE DEF q, p
  <2>5. ticks = p * (m * q) + 0 /\ m * q \in Int
    <3>1. (p * m) * q = p * (m * q) /\ p * (m * q) \in Int /\ m * q \in Int
      BY <2>3, <2>4 DEF p
    <3> QED BY <2>2, <2>4, <3>1 DEF p
  <2>6. ticks % p = 0
    <3> DEFINE u == m * q
    <3>1. ticks = p * u + 0 /\ u \in Int /\ p \in Nat \ {0} /\ 0 \in 0..(p - 1) /\ ticks \in Int
      BY <1>2, <2>3, <2>5 DEF p
    <3> HIDE DEF u
    <3> QED BY <3>1, DivIs
  <2> QED BY <2>1, <2>6 DEF p
<1>4. ASSUME NEW l \in LevelSet PROVE Pending(l)' <=> Pending(l)
  <2>1. l \in Nat
    BY SizesAre DEF LevelSet
  <2>2. CASE k + 1 < Levels /\ ticks % Pow[k + 1] = 0
    <3>1. tick'.stage = "pop" /\ tick'.level = k + 1
      BY <1>1, <2>2 DEF TickIdle
    <3> QED BY <1>1, <1>2, <2>1, <3>1 DEF Pending
  <2>3. CASE ~ (k + 1 < Levels /\ ticks % Pow[k + 1] = 0)
    <3>1. tick'.stage = "idle"
      BY <1>1, <2>3 DEF TickIdle
    <3> QED BY <1>1, <1>2, <1>3, <2>1, <2>3, <3>1 DEF Pending
  <2> QED BY <2>2, <2>3
<1>5. \A l \in LevelSet : \A s, item, r : WheelDue(item, l, s, r)' <=> WheelDue(item, l, s, r)
  BY <1>1, <1>4 DEF WheelDue, Shift
<1>6. \A n \in Int : DueBy(e, n) => DueBy(e, n)'
  BY <1>1, <1>5 DEF DueBy
<1>7. \A n \in Int : DueIn(e, n) => DueIn(e, n)'
  BY <1>1, <1>5 DEF DueIn
<1>8. TickShape'
  BY <1>1 DEF TickShape, TickIdle
<1> QED BY <1>6, <1>7, <1>8 DEF TimesKept

\* A reference that is dropped was due.
LEMMA ReleaseTakesDue ==
  ASSUME IndInv, TickShape, NEW item \in tick.bucket, TickRelease(item), NEW e \in Entries
  PROVE  /\ tick.level = 0
         /\ \A r \in Int : HandDue(item, r) => r = -1
         /\ \A n \in Int : DueBy(e, n) => DueBy(e, n)'
         /\ \A n \in Int : DueIn(e, n) => DueIn(e, n)' \/ (item.entry = e /\ n = -1)
<1>1. /\ tick.stage = "release" /\ item.slots = <<>> /\ UNCHANGED <<wheels, ticks>>
      /\ tick'.stage = "release" /\ tick'.level = tick.level /\ tick'.bucket = tick.bucket \ {item}
  BY DEF TickRelease, IndInv, TypeOK
<1>2. tick.level = 0
  BY <1>1 DEF IndInv, ItemShape
<1>3. ASSUME NEW r \in Int, HandDue(item, r) PROVE r = -1
  <2>1. DelayAt(r, ticks, 0) = r + 1
    BY LowestWheel DEF IndInv, TypeOK
  <2> QED BY <1>2, <1>3, <2>1 DEF HandDue
<1>4. \A l, s, x, r : /\ WheelDue(x, l, s, r)' <=> WheelDue(x, l, s, r)
                      /\ HandDue(x, r)' <=> HandDue(x, r)
  BY <1>1 DEF WheelDue, HandDue, Shift, Pending
<1>5. \A n \in Int : DueBy(e, n) => DueBy(e, n)'
  BY <1>1, <1>4 DEF DueBy
<1>6. \A n \in Int : DueIn(e, n) => DueIn(e, n)' \/ (item.entry = e /\ n = -1)
  <2> SUFFICES ASSUME NEW n \in Int, DueIn(e, n), ~ (item.entry = e /\ n = -1) PROVE DueIn(e, n)'
    OBVIOUS
  <2>1. CASE \E x \in tick.bucket : x.entry = e /\ HandDue(x, n)
    BY <1>1, <1>3, <1>4, <2>1 DEF DueIn
  <2>2. CASE ~ \E x \in tick.bucket : x.entry = e /\ HandDue(x, n)
    BY <1>1, <1>4, <2>2 DEF DueIn
  <2> QED BY <2>1, <2>2
<1> QED BY <1>2, <1>3, <1>5, <1>6

\* What is put in lies where it lets go in time; between the start of a tick and the turn of
\* the only wheel, one second sooner.
LEMMA InsertTakesDelay ==
  ASSUME IndInv, TickShape, NEW d \in Nat, d <= Longest, NEW x \in Entries,
         wheels' = InsertEntry(d, x), UNCHANGED <<ticks, tick>>,
         tick.stage = "idle" \/ Levels = 1
  PROVE  /\ \A e \in Entries, n \in Int :
              /\ DueIn(e, n) => DueIn(e, n)'
              /\ DueBy(e, n) /\ (e = x => d <= n) => DueBy(e, n)'
         /\ d > 0 => \E r \in Int : r >= d - 1 /\ DueIn(x, r)'
<1> DEFINE New(l) == [entry |-> x, slots |-> CapturedSlots(d, ticks, l)]
           Goes(l, s) == d > 0 /\ LandsOn(d, ticks, l) /\ s = LandingSlot(d, ticks, l)
<1>1. /\ tick' = tick /\ ticks' = ticks /\ ticks \in Nat
      /\ \A l \in LevelSet, s \in SlotSet :
           wheels'[l][s] = IF Goes(l, s) THEN wheels[l][s] \cup {New(l)} ELSE wheels[l][s]
  BY DEF InsertEntry, IndInv, TypeOK
<1>2. \A l, s, item, r : /\ WheelDue(item, l, s, r)' <=> WheelDue(item, l, s, r)
                         /\ HandDue(item, r)' <=> HandDue(item, r)
  BY <1>1 DEF WheelDue, HandDue, Shift, Pending
<1>3. ASSUME NEW l \in LevelSet, NEW s \in SlotSet, Goes(l, s)
      PROVE  \E r \in Int : d - 1 <= r /\ r <= d /\ WheelDue(New(l), l, s, r)
  <2>1. s = DelayAt(d, ticks, l) - 1 /\ DelayAt(d, ticks, l) \in Int
    BY <1>1, <1>3, LandsInPlace, TurnIs
  <2>2. CASE Shift(l) = 0
    <3>1. WheelDue(New(l), l, s, d)
      BY <2>1, <2>2 DEF WheelDue
    <3> QED BY <3>1
  <2>3. CASE Shift(l) # 0
    <3>1. l = 0 /\ Shift(l) = 1
      BY <2>3, SizesAre DEF Shift, Pending, LevelSet
    <3>2. DelayAt(d, ticks, 0) = d + 1 /\ DelayAt(d - 1, ticks, 0) = d
      BY <1>1, LowestWheel
    <3>3. CapturedSlots(d, ticks, 0) = CapturedSlots(d - 1, ticks, 0)
      BY DEF CapturedSlots
    <3>4. WheelDue(New(l), l, s, d - 1)
      BY <2>1, <3>1, <3>2, <3>3 DEF WheelDue
    <3> QED BY <3>4
  <2> QED BY <2>2, <2>3
<1> HIDE DEF New, Goes
<1>4. \A l : New(l).entry = x
  BY DEF New
<1>5. ASSUME NEW e \in Entries, NEW n \in Int, DueIn(e, n) PROVE DueIn(e, n)'
  <2>1. CASE \E item \in tick.bucket : item.entry = e /\ HandDue(item, n)
    BY <1>1, <1>2, <2>1 DEF DueIn
  <2>2. CASE \E l \in LevelSet, s \in SlotSet : \E item \in wheels[l][s] :
               item.entry = e /\ WheelDue(item, l, s, n)
    <3>1. PICK l \in LevelSet, s \in SlotSet :
            \E item \in wheels[l][s] : item.entry = e /\ WheelDue(item, l, s, n)
      BY <2>2
    <3>2. \E item \in wheels'[l][s] : item.entry = e /\ WheelDue(item, l, s, n)'
      BY <1>1, <1>2, <3>1
    <3> QED BY <3>2 DEF DueIn
  <2> QED BY <1>5, <2>1, <2>2 DEF DueIn
<1>6. ASSUME NEW e \in Entries, NEW n \in Int, DueBy(e, n), e = x => d <= n PROVE DueBy(e, n)'
  <2>1. ASSUME NEW l \in LevelSet, NEW s \in SlotSet, NEW item \in wheels'[l][s], item.entry = e
        PROVE  \E r \in Int : r <= n /\ WheelDue(item, l, s, r)'
    <3>1. CASE item \in wheels[l][s]
      BY <1>2, <1>6, <2>1, <3>1 DEF DueBy
    <3>2. CASE item \notin wheels[l][s]
      <4>1. Goes(l, s) /\ item = New(l)
        BY <1>1, <2>1, <3>2
      <4>2. PICK r \in Int : r <= d /\ WheelDue(item, l, s, r)
        BY <1>3, <4>1
      <4>3. d <= n
        BY <1>4, <1>6, <2>1, <4>1
      <4>4. r <= n
        BY <4>2, <4>3
      <4> QED BY <1>2, <4>2, <4>4
    <3> QED BY <3>1, <3>2
  <2>2. \A item \in tick'.bucket : item.entry = e => \E r \in Int : r <= n /\ HandDue(item, r)'
    BY <1>1, <1>2, <1>6 DEF DueBy
  <2> QED BY <2>1, <2>2 DEF DueBy
<1>7. ASSUME d > 0 PROVE \E r \in Int : r >= d - 1 /\ DueIn(x, r)'
  <2>1. PICK l \in LevelSet : LandsOn(d, ticks, l)
    BY <1>1, LandsSomewhere
  <2>2. PICK s \in SlotSet : s = LandingSlot(d, ticks, l)
    BY <1>1, LandingSlotType
  <2>3. Goes(l, s)
    BY <1>7, <2>1, <2>2 DEF Goes
  <2>4. PICK r \in Int : d - 1 <= r /\ WheelDue(New(l), l, s, r)
    BY <1>3, <2>3
  <2>5. PICK item : item = New(l)
    OBVIOUS
  <2>6. item \in wheels'[l][s] /\ item.entry = x /\ WheelDue(item, l, s, r)'
    BY <1>1, <1>2, <1>4, <2>3, <2>4, <2>5
  <2>7. DueIn(x, r)'
    BY <2>6 DEF DueIn
  <2> QED BY <2>4, <2>7
<1> QED BY <1>5, <1>6, <1>7

\* Outside a tick no item is due.
LEMMA ItemsHaveTime ==
  ASSUME IndInv, TickShape, NEW l \in LevelSet, NEW s \in SlotSet, NEW item, NEW r \in Int,
         WheelDue(item, l, s, r)
  PROVE  r >= -1 /\ (tick.stage = "idle" => r >= 0)
<1>1. s \in Nat /\ DelayAt(r, ticks, l) \in Int /\ ticks \in Nat
  BY SizesAre, TurnIs DEF IndInv, TypeOK, SlotSet
<1>2. s = DelayAt(r, ticks, l) - 1 + Shift(l)
  BY DEF WheelDue
<1>3. CASE Shift(l) = 0
  <2>1. DelayAt(r, ticks, l) >= 1
    BY <1>1, <1>2, <1>3
  <2> QED BY <1>1, <2>1, TimeLeft
<1>4. CASE Shift(l) # 0
  <2>1. Shift(l) = 1 /\ ticks % Pow[l] = 0 /\ tick.stage # "idle"
    BY <1>4 DEF Shift, Pending
  <2>2. DelayAt(r, ticks, l) >= 0
    BY <1>1, <1>2, <2>1
  <2> QED BY <1>1, <2>1, <2>2, TimeLeft
<1> QED BY <1>3, <1>4

\* A limit may be raised.
LEMMA DueByGrows ==
  ASSUME NEW e, NEW m \in Int, NEW n \in Int, m <= n, DueBy(e, m)
  PROVE  DueBy(e, n)
<1>1. ASSUME NEW P, NEW r \in Int, r <= m /\ P PROVE r <= n /\ P
  BY <1>1
<1>2. ASSUME NEW l \in LevelSet, NEW s \in SlotSet, NEW item \in wheels[l][s], item.entry = e
      PROVE  \E r \in Int : r <= n /\ WheelDue(item, l, s, r)
  <2>1. PICK r \in Int : r <= m /\ WheelDue(item, l, s, r)
    BY <1>2 DEF DueBy
  <2> QED BY <1>1, <2>1
<1>3. ASSUME NEW item \in tick.bucket, item.entry = e
      PROVE  \E r \in Int : r <= n /\ HandDue(item, r)
  <2>1. PICK r \in Int : r <= m /\ HandDue(item, r)
    BY <1>3 DEF DueBy
  <2> QED BY <1>1, <2>1
<1> QED BY <1>2, <1>3 DEF DueBy

-----------------------------------------------------------------------------
(* The invariant: every key and task has an entry that is due in time. *)

\* Calls from the loop, or calls from any thread that return promptly: an object
\* with one wheel then, and no rvalue insert without a timeout.
Scheduled ==
  /\ \A d \in Timeouts : d <= Longest
  /\ LoopConfined \/ (Levels = 1 /\ PromptCalls /\ 0 \notin MoveTimeouts)

Confined == LoopConfined => call = Idle \/ tick.stage = "idle"

\* Nothing runs inside a call that could spoil it.
CallShape ==
  /\ Confined
  /\ LoopConfined \/ DeadlockInv
  /\ call.stage = "none" => call = Idle
  /\ call.stage = "arm" => call.delay \in Timeouts
  /\ call.stage = "stuck" => call.entry = None

\* The entry e will erase the key o, or run the task o.
Owns(o, e) == (o \in Keys /\ Expires(o) /\ map[o].entry = e) \/ (o = e /\ IsTask(e))

\* An access to o is about to arm its entry.
BeingArmed(o) ==
  call.stage = "arm" /\ call.key = o /\ rest[o] <= call.delay /\ call.delay > 0

\* The entry lets go of o neither late nor early.
InTime(o, e) ==
  /\ DueBy(e, rest[o])
  /\ (\E r \in Int : r >= rest[o] - 1 /\ DueIn(e, r)) \/ BeingArmed(o)

OnTime == \A e \in Entries, o \in Keys \cup Entries : Owns(o, e) => InTime(o, e)

\* A key whose entry is gone has had its time.
Leftover ==
  \A k \in Keys : Expires(k) /\ map[k].entry = None /\ call.stage # "stuck" => rest[k] <= 0

\* What lies in a bucket has something left to do.
Held(e) == InWheels(e) \/ InBucket(tick.bucket, e)
NoneForgotten == \A e \in Entries : Held(e) => target[e] # None

TimeInv == TickShape /\ CallShape /\ NoneForgotten /\ OnTime /\ Leftover

\* How InTime is established for the next state.
LEMMA InTimeNext ==
  ASSUME NEW o, NEW e, NEW n, n = rest'[o], DueBy(e, n)',
         (\E r \in Int : r >= n - 1 /\ DueIn(e, r)') \/ BeingArmed(o)'
  PROVE  InTime(o, e)'
BY DEF InTime, DueBy

\* An entry has one owner, which its target names.
LEMMA OwnsOne ==
  ASSUME IndInv, NEW o \in Keys \cup Entries, NEW e \in Entries, Owns(o, e)
  PROVE  /\ Held(e) \/ call.entry = e
         /\ o \in Keys => target[e] = o
         /\ o \notin Keys => o = e /\ target[e] = Task
         /\ target[e] # None
<1>1. CASE o \in Keys
  <2>1. ~ (o = e) /\ Present(o) /\ map[o].entry = e /\ e # None
    BY <1>1, NameAssumption DEF Owns, Expires
  <2> QED BY <1>1, <2>1, NameAssumption DEF IndInv, WeakPointersSound, Referenced, Held
<1>2. CASE o \notin Keys
  <2>1. o = e /\ target[e] = Task
    BY <1>2 DEF Owns, IsTask
  <2>2. Task # None
    BY NameAssumption
  <2> QED BY <1>2, <2>1, <2>2 DEF IndInv, NoLostEntry, Referenced, Held
<1> QED BY <1>1, <1>2

\* Whoever owns the entry of the call in progress is the key of that call.
LEMMA OwnsInCall ==
  ASSUME IndInv, call.stage \in {"arm", "drop"},
         NEW o \in Keys \cup Entries, NEW e \in Entries, Owns(o, e)
  PROVE  /\ call.key \in Keys /\ target[call.entry] = call.key /\ call.entry \in Entries
         /\ call.entry = e <=> call.key = o
<1>1. /\ call.key \in Keys /\ call.entry \in Entries /\ Present(call.key)
      /\ map[call.key].entry = call.entry
  BY DEF IndInv, CallSound
<1>2. target[call.entry] = call.key /\ Task \notin Keys /\ None \notin Entries
  BY <1>1, NameAssumption DEF IndInv, WeakPointersSound
<1>3. call.entry = e => call.key = o
  BY <1>2, <1>1, OwnsOne
<1>4. call.key = o => call.entry = e
  BY <1>1, NameAssumption DEF Owns
<1> QED BY <1>1, <1>2, <1>3, <1>4

\* Steps that give nobody a new entry and keep the times of the items.
LEMMA OnTimeKept ==
  ASSUME IndInv, OnTime, \A e \in Entries : TimesKept(e),
         \A o \in Keys \cup Entries, e \in Entries :
           Owns(o, e)' => Owns(o, e) /\ rest'[o] = rest[o] /\ (BeingArmed(o) => BeingArmed(o)')
  PROVE  OnTime'
<1> SUFFICES ASSUME NEW o \in Keys \cup Entries, NEW e \in Entries, Owns(o, e)'
             PROVE  InTime(o, e)'
  BY DEF OnTime
<1>1. PICK n \in Int : n = rest[o]
  BY DEF IndInv, TypeOK
<1>2. /\ rest'[o] = n /\ DueBy(e, n)
      /\ (\E r \in Int : r >= n - 1 /\ DueIn(e, r)) \/ BeingArmed(o)
      /\ BeingArmed(o) => BeingArmed(o)'
  <2>1. InTime(o, e) /\ rest'[o] = n /\ (BeingArmed(o) => BeingArmed(o)')
    BY <1>1 DEF OnTime
  <2> QED BY <1>1, <2>1 DEF InTime, DueBy
<1>3. /\ DueBy(e, n)'
      /\ (\E r \in Int : r >= n - 1 /\ DueIn(e, r)') \/ BeingArmed(o)'
  BY <1>2 DEF TimesKept
<1> QED BY <1>2, <1>3, InTimeNext

\* Steps that touch neither the wheels nor the tick.
LEMMA SameWheels ==
  ASSUME UNCHANGED <<wheels, ticks, tick>>, NEW e
  PROVE  TimesKept(e) /\ (Held(e)' <=> Held(e))
<1>1. \A l, s, x, r : /\ WheelDue(x, l, s, r)' <=> WheelDue(x, l, s, r)
                      /\ HandDue(x, r)' <=> HandDue(x, r)
  BY DEF WheelDue, HandDue, Shift, Pending
<1>2. \A n \in Int : DueBy(e, n) => DueBy(e, n)'
  BY <1>1 DEF DueBy
<1>3. \A n \in Int : DueIn(e, n) => DueIn(e, n)'
  BY <1>1 DEF DueIn
<1> QED BY <1>2, <1>3 DEF TimesKept, Held, InWheels, InBucket

-----------------------------------------------------------------------------
(* The invariant of times, action by action. *)

\* Every step keeps what is known of the call in progress.
LEMMA CallShapeKept ==
  ASSUME Scheduled, IndInv, CallShape, [Next]_vars PROVE CallShape'
<1> DEFINE Shape == /\ Confined
                    /\ call.stage = "none" => call = Idle
                    /\ call.stage = "arm" => call.delay \in Timeouts
                    /\ call.stage = "stuck" => call.entry = None
<1>1. LoopConfined \/ DeadlockInv'
  BY NextKeepsDeadlockInv DEF Scheduled, CallShape
<1>2. ASSUME NEW m, NEW k, NEW d \in Timeouts, EraseAfter(m, k, d), CanCall, tick' = tick
      PROVE  Shape'
  <2>1. call'.stage = "arm" /\ call'.delay = d
    BY <1>2 DEF EraseAfter
  <2> QED BY <1>2, <2>1 DEF CanCall, Confined
<1>3. ASSUME UNCHANGED call, LoopConfined /\ tick.stage = "idle" /\ call # Idle => tick'.stage = "idle"
      PROVE  Shape'
  BY <1>3 DEF CallShape, Confined
<1> SUFFICES Shape'
  BY <1>1 DEF CallShape
<1> HIDE DEF Shape
<1>4. ASSUME NEW k \in Keys, Access(k) PROVE Shape'
  <2>1. map[k] \in MapValue
    BY <1>4 DEF Access, Expires, Present, IndInv, TypeOK
  <2>2. PICK d \in Timeouts : d = map[k].timeout
    BY <2>1 DEF MapValue
  <2>3. EraseAfter(map, k, d) /\ CanCall /\ tick' = tick
    BY <1>4, <2>2 DEF Access
  <2> QED BY <1>2, <2>3
<1>5. ASSUME NEW k \in Keys, Erase(k) PROVE Shape'
  BY <1>3, <1>5 DEF Erase
<1>6. ASSUME NEW k \in Keys, NEW d \in Timeouts, Insert(k, d) PROVE Shape'
  <2>1. CanCall /\ tick' = tick
    BY <1>6 DEF Insert
  <2>2. CASE EraseAfter(Inserted(k, d), k, d)
    BY <1>2, <2>1, <2>2
  <2>3. CASE UNCHANGED call
    BY <1>3, <2>1, <2>3
  <2> QED BY <1>6, <2>2, <2>3 DEF Insert
<1>7. ASSUME NEW k \in Keys, NEW d \in MoveTimeouts, InsertMove(k, d) PROVE Shape'
  BY <1>2, <1>7, CallerAssumption DEF InsertMove
<1>8. ASSUME NEW e \in Entries, NEW d \in Timeouts, RunAfter(e, d) PROVE Shape'
  BY <1>3, <1>8 DEF RunAfter
<1>9. CASE Arm \/ Drop
  <2>1. call # Idle /\ tick' = tick
    BY <1>9 DEF Arm, Drop, Idle
  <2>2. call' = Idle \/ call'.stage = "drop" \/ (call'.stage = "stuck" /\ call'.entry = None)
    BY <1>9 DEF Arm, Drop, IndInv, TypeOK
  <2>3. Confined'
    BY <2>1 DEF CallShape, Confined
  <2>4. Idle.stage = "none"
    BY DEF Idle
  <2> QED BY <2>2, <2>3, <2>4 DEF Shape
<1>10. CASE TickStart
  BY <1>3, <1>10 DEF TickStart
<1>11. CASE TickPop \/ TickNext
  BY <1>3, <1>11 DEF TickPop, TickNext
<1>12. ASSUME NEW item \in tick.bucket, TickMoveDown(item) \/ TickRelease(item) PROVE Shape'
  BY <1>3, <1>12 DEF TickMoveDown, TickRelease
<1>13. CASE TickExpire
  BY <1>3, <1>13 DEF TickExpire
<1>14. CASE LoopEnd \/ Destruct \/ Destroyed \/ UNCHANGED vars
  BY <1>3, <1>14 DEF LoopEnd, Destruct, Destroyed, vars
<1> QED BY <1>4, <1>5, <1>6, <1>7, <1>8, <1>9, <1>10, <1>11, <1>12, <1>13, <1>14
        DEF Next, CallStep, TickStep

\* The part of TimeInv that is about the keys.
KeysInv == NoneForgotten /\ OnTime /\ Leftover

\* eraseAfter makes a new entry only for a key that has had its time or has all of it before it.
LEMMA EraseAfterTimes ==
  ASSUME IndInv, CallShape, KeysInv, call = Idle, LoopConfined => tick.stage = "idle",
         NEW k \in Keys, NEW d \in Timeouts, d > 0 \/ LoopConfined,
         EraseAfter(Inserted(k, d), k, d), rest' = RestAfterInsert(k, d),
         UNCHANGED <<wheels, ticks, tick>>
  PROVE  KeysInv'
<1> DEFINE m == Inserted(k, d)
<1>0. /\ m \in [Keys -> MapValue \cup {None}] /\ m[k] # None
      /\ \A j \in Keys \ {k} : m[j] = map[j]
      /\ m[k] = map[k] \/ m[k].entry = None
      /\ ~ Present(k) => m[k] = [timeout |-> d, entry |-> None]
      /\ Present(k) => m = map
      /\ call.stage = "none"
      /\ tick.stage = "idle" => tick.firing = None
  BY InsertedFacts DEF IndInv, Inserted, ItemShape, Idle
<1>1. /\ \A o \in Keys \cup Entries : o # k \/ Present(k) => rest'[o] = rest[o]
      /\ ~ Present(k) => rest'[k] = d
      /\ d \in Nat
  BY CallerAssumption DEF RestAfterInsert, IndInv, TypeOK
<1>2. \A e : TimesKept(e) /\ (Held(e)' <=> Held(e))
  BY SameWheels
<1>3. \A o : ~ BeingArmed(o)
  BY DEF BeingArmed, Idle
<1> HIDE DEF m
<1>4. CASE m[k].entry # None /\ map' = m /\ UNCHANGED target
           /\ call' = [stage |-> "arm", key |-> k, entry |-> m[k].entry, delay |-> d]
  <2>1. m = map
    BY <1>0, <1>4
  <2>2. rest' = rest
    BY <1>0, <1>4 DEF RestAfterInsert
  <2>3. \A o \in Keys \cup Entries, e \in Entries : Owns(o, e)' <=> Owns(o, e)
    BY <1>4, <2>1 DEF Owns, Expires, Present, IsTask
  <2>4. OnTime'
    BY <1>2, <1>3, <2>2, <2>3, OnTimeKept DEF KeysInv
  <2>5. Leftover'
    BY <1>0, <1>4, <2>1, <2>2 DEF KeysInv, Leftover, Expires, Present
  <2>6. NoneForgotten'
    BY <1>2, <1>4 DEF KeysInv, NoneForgotten
  <2> QED BY <2>4, <2>5, <2>6 DEF KeysInv
<1>5. CASE m[k].entry = None
           /\ \E e \in Entries :
                /\ target[e] = None
                /\ target' = [target EXCEPT ![e] = k]
                /\ map' = [m EXCEPT ![k].entry = e]
                /\ call' = [stage |-> "arm", key |-> k, entry |-> e, delay |-> d]
  <2>1. PICK x \in Entries :
                /\ target[x] = None
                /\ target' = [target EXCEPT ![x] = k]
                /\ map' = [m EXCEPT ![k].entry = x]
                /\ call' = [stage |-> "arm", key |-> k, entry |-> x, delay |-> d]
    BY <1>5
  <2>2. /\ \A j \in Keys \ {k} : map'[j] = map[j]
        /\ map'[k] # None /\ map'[k].entry = x /\ map'[k].timeout = m[k].timeout
        /\ m[k] \in MapValue
    <3>1. m[k] \in MapValue
      BY <1>0
    <3>2. [m[k] EXCEPT !.entry = x] \in MapValue /\ [m[k] EXCEPT !.entry = x].entry = x
          /\ [m[k] EXCEPT !.entry = x].timeout = m[k].timeout
      BY <3>1 DEF MapValue
    <3> QED BY <1>0, <2>1, <3>1, <3>2, NameAssumption
  <2>3. /\ target'[x] = k /\ \A e \in Entries \ {x} : target'[e] = target[e]
        /\ k # None /\ k # Task
    BY <2>1, NameAssumption DEF IndInv, TypeOK
  <2>4. ~ Held(x)
    BY <2>1 DEF KeysInv, NoneForgotten
  <2>5. \A n \in Int : DueBy(x, n)
    BY <2>4 DEF DueBy, Held, InWheels, InBucket
  <2>6. Expires(k)' => rest'[k] <= d /\ d > 0
    <3>1. CASE ~ Present(k)
      <4>1. m[k].timeout = d
        BY <1>0, <3>1
      <4> QED BY <1>1, <2>2, <3>1, <4>1 DEF Expires, Present
    <3>2. CASE Present(k)
      <4> SUFFICES ASSUME Expires(k)' PROVE rest'[k] <= d /\ d > 0
        OBVIOUS
      <4>1. m = map /\ rest'[k] = rest[k] /\ rest[k] \in Int
        BY <1>0, <1>1, <3>2 DEF IndInv, TypeOK
      <4>2. Expires(k) /\ map[k].entry = None
        <5>1. m[k].entry = None /\ map[k] = m[k]
          BY <1>5, <4>1
        <5> QED BY <2>2, <3>2, <5>1 DEF Expires, Present
      <4>3. rest[k] <= 0
        BY <1>0, <4>2 DEF KeysInv, Leftover
      <4>4. ~ (tick.stage = "idle")
        BY <1>0, <4>2, NameAssumption DEF IndInv, NoStrandedKey
      <4>5. d > 0
        BY <4>4
      <4> QED BY <1>1, <4>1, <4>3, <4>5
    <3> QED BY <3>1, <3>2
  <2>7. OnTime'
    <3> SUFFICES ASSUME NEW o \in Keys \cup Entries, NEW e \in Entries, Owns(o, e)'
                 PROVE  InTime(o, e)'
      BY DEF OnTime
    <3>1. CASE o = k
      <4>1. e = x /\ Expires(k)'
        BY <2>2, <3>1, NameAssumption DEF Owns
      <4>2. PICK n \in Int : n = rest'[k]
        BY <1>1 DEF IndInv, TypeOK
      <4>3. DueBy(x, n)'
        BY <1>2, <2>5 DEF TimesKept
      <4>4. BeingArmed(k)'
        BY <2>1, <2>6, <4>1 DEF BeingArmed
      <4> QED BY <3>1, <4>1, <4>2, <4>3, <4>4, InTimeNext
    <3>2. CASE o # k
      <4>1. Owns(o, e) /\ rest'[o] = rest[o]
        BY <1>1, <2>2, <2>3, <3>2 DEF Owns, Expires, Present, IsTask
      <4>2. PICK n \in Int : n = rest[o]
        BY DEF IndInv, TypeOK
      <4>3. DueBy(e, n) /\ \E r \in Int : r >= n - 1 /\ DueIn(e, r)
        BY <1>3, <4>1, <4>2 DEF KeysInv, OnTime, InTime, DueBy
      <4>4. DueBy(e, n)' /\ \E r \in Int : r >= n - 1 /\ DueIn(e, r)'
        BY <1>2, <4>3 DEF TimesKept
      <4> QED BY <4>1, <4>2, <4>4, InTimeNext
    <3> QED BY <3>1, <3>2
  <2>8. Leftover'
    <3> SUFFICES ASSUME NEW j \in Keys, Expires(j)', map'[j].entry = None PROVE rest'[j] <= 0
      BY DEF Leftover
    <3>1. j # k
      BY <2>2, NameAssumption
    <3>2. Expires(j) /\ map[j].entry = None /\ rest'[j] = rest[j] /\ call.stage # "stuck"
      BY <1>0, <1>1, <2>2, <3>1 DEF Expires, Present, Idle
    <3> QED BY <3>2 DEF KeysInv, Leftover
  <2>9. NoneForgotten'
    BY <1>2, <2>3 DEF KeysInv, NoneForgotten
  <2> QED BY <2>7, <2>8, <2>9 DEF KeysInv
<1> QED BY <1>4, <1>5 DEF EraseAfter, m

\* An access re-arms the entry of the key, or makes a new one.
LEMMA AccessTimes ==
  ASSUME IndInv, CallShape, KeysInv, NEW k \in Keys, Access(k) PROVE KeysInv'
<1>1. map[k] \in MapValue /\ Present(k) /\ map[k].timeout > 0
  BY DEF Access, Expires, Present, IndInv, TypeOK
<1>2. PICK d \in Timeouts : d = map[k].timeout
  BY <1>1 DEF MapValue
<1>3. /\ EraseAfter(Inserted(k, d), k, d) /\ rest' = RestAfterInsert(k, d)
      /\ call = Idle /\ (LoopConfined => tick.stage = "idle")
      /\ UNCHANGED <<wheels, ticks, tick>>
  BY <1>1, <1>2 DEF Access, CanCall, Inserted, RestAfterInsert
<1>4. d > 0
  BY <1>1, <1>2
<1> QED BY <1>3, <1>4, EraseAfterTimes

\* Steps of a call that leave the wheels alone and take keys away, if anything.
LEMMA NoNewOwner ==
  ASSUME IndInv, KeysInv, UNCHANGED <<target, wheels, ticks, tick>>,
         \A o \in Keys \cup Entries, e \in Entries :
           Owns(o, e)' => Owns(o, e) /\ rest'[o] = rest[o] /\ ~ BeingArmed(o),
         \A j \in Keys : Expires(j)' /\ map'[j].entry = None /\ call'.stage # "stuck" =>
           \/ Expires(j) /\ map[j].entry = None /\ call.stage # "stuck" /\ rest'[j] = rest[j]
           \/ rest'[j] <= 0
  PROVE  KeysInv'
<1>1. \A e : TimesKept(e) /\ (Held(e)' <=> Held(e))
  BY SameWheels
<1>2. OnTime'
  BY <1>1, OnTimeKept DEF KeysInv
<1>3. Leftover'
  BY DEF KeysInv, Leftover
<1>4. NoneForgotten'
  BY <1>1 DEF KeysInv, NoneForgotten
<1> QED BY <1>2, <1>3, <1>4 DEF KeysInv

\* Both overloads of insert().
LEMMA InsertTimes ==
  ASSUME Scheduled, IndInv, CallShape, KeysInv, NEW k \in Keys, NEW d \in Timeouts,
         Insert(k, d) \/ (InsertMove(k, d) /\ d \in MoveTimeouts)
  PROVE  KeysInv'
<1>1. /\ rest' = RestAfterInsert(k, d)
      /\ call = Idle /\ (LoopConfined => tick.stage = "idle")
      /\ UNCHANGED <<wheels, ticks, tick>>
  BY DEF Insert, InsertMove, CanCall
<1>2. d \in Nat
  BY CallerAssumption
<1>3. CASE EraseAfter(Inserted(k, d), k, d) /\ (d > 0 \/ LoopConfined)
  BY <1>1, <1>3, EraseAfterTimes
<1>4. CASE d = 0 /\ map' = Inserted(k, d) /\ UNCHANGED <<target, call>>
  <2>1. ~ Present(k) => ~ Expires(k)'
    <3>1. ~ Present(k) => map'[k] = [timeout |-> 0, entry |-> None]
      BY <1>4, InsertedFacts DEF IndInv
    <3> QED BY <3>1 DEF Expires
  <2>2. /\ \A j \in Keys : j # k \/ Present(k) => map'[j] = map[j] /\ rest'[j] = rest[j]
        /\ \A e \in Entries : rest'[e] = rest[e]
    BY <1>1, <1>4, NameAssumption DEF Inserted, RestAfterInsert, IndInv, TypeOK
  <2>3. \A o : ~ BeingArmed(o)
    BY <1>1 DEF BeingArmed, Idle
  <2>4. \A o \in Keys \cup Entries, e \in Entries :
          Owns(o, e)' => Owns(o, e) /\ rest'[o] = rest[o] /\ ~ BeingArmed(o)
    BY <1>4, <2>1, <2>2, <2>3 DEF Owns, Expires, Present, IsTask
  <2>5. \A j \in Keys : Expires(j)' /\ map'[j].entry = None /\ call'.stage # "stuck" =>
          Expires(j) /\ map[j].entry = None /\ call.stage # "stuck" /\ rest'[j] = rest[j]
    BY <1>4, <2>1, <2>2 DEF Expires, Present
  <2> QED BY <1>1, <1>4, <2>4, <2>5, NoNewOwner
<1>5. InsertMove(k, d) /\ d \in MoveTimeouts => d > 0 \/ LoopConfined
  BY <1>2 DEF Scheduled
<1> QED BY <1>2, <1>3, <1>4, <1>5 DEF Insert, InsertMove

\* erase() leaves the entry to its fate.
LEMMA EraseTimes ==
  ASSUME IndInv, KeysInv, NEW k \in Keys, Erase(k) PROVE KeysInv'
<1>1. /\ call = Idle /\ UNCHANGED <<target, wheels, ticks, tick, call>>
      /\ map'[k] = None /\ \A j \in Keys \ {k} : map'[j] = map[j]
      /\ \A o \in Keys \cup Entries : o # k => rest'[o] = rest[o]
  BY DEF Erase, CanCall, IndInv, TypeOK
<1>2. \A o : ~ BeingArmed(o)
  BY <1>1 DEF BeingArmed, Idle
<1>3. \A o \in Keys \cup Entries, e \in Entries :
        Owns(o, e)' => Owns(o, e) /\ rest'[o] = rest[o] /\ ~ BeingArmed(o)
  <2>1. k \notin Entries
    BY NameAssumption
  <2> QED BY <1>1, <1>2, <2>1 DEF Owns, Expires, Present, IsTask
<1>4. \A j \in Keys : Expires(j)' /\ map'[j].entry = None /\ call'.stage # "stuck" =>
        Expires(j) /\ map[j].entry = None /\ call.stage # "stuck" /\ rest'[j] = rest[j]
  BY <1>1 DEF Expires, Present
<1> QED BY <1>1, <1>3, <1>4, NoNewOwner

\* The end of a call: what it armed is due in a bucket from now on.
LEMMA DropTimes ==
  ASSUME IndInv, CallShape, KeysInv, Drop PROVE KeysInv'
<1>1. call.stage = "drop" /\ UNCHANGED <<wheels, ticks, tick, rest>>
  BY DEF Drop
<1>2. \A o : ~ BeingArmed(o)
  BY <1>1 DEF BeingArmed
<1>3. CASE call' = Idle /\ UNCHANGED <<map, target>>
  <2>1. \A o \in Keys \cup Entries, e \in Entries :
          Owns(o, e)' => Owns(o, e) /\ rest'[o] = rest[o] /\ ~ BeingArmed(o)
    BY <1>1, <1>2, <1>3 DEF Owns, Expires, Present, IsTask
  <2>2. \A j \in Keys : Expires(j)' /\ map'[j].entry = None /\ call'.stage # "stuck" =>
          Expires(j) /\ map[j].entry = None /\ call.stage # "stuck" /\ rest'[j] = rest[j]
    BY <1>1, <1>3 DEF Expires, Present
  <2> QED BY <1>1, <1>3, <2>1, <2>2, NoNewOwner
<1>4. CASE /\ ~ InWheels(call.entry) /\ ~ InBucket(tick.bucket, call.entry)
           /\ call' = [call EXCEPT !.stage = "stuck", !.entry = None]
           /\ ForgetEntry(call.entry)
  <2>1. PICK x \in Entries : x = call.entry
    BY <1>1 DEF IndInv, CallSound
  <2>2. /\ call'.stage = "stuck"
        /\ \A k \in Keys : Present(k) <=> Present(k)'
        /\ \A k \in Keys : Present(k) => map'[k].timeout = map[k].timeout
        /\ \A k \in Keys : Present(k) =>
             map'[k].entry = IF map[k].entry = x THEN None ELSE map[k].entry
        /\ \A y \in Entries : target'[y] = IF y = x THEN None ELSE target[y]
    BY <1>4, <2>1, ForgetEntryEffect DEF IndInv, TypeOK
  <2>3. \A o \in Keys \cup Entries, e \in Entries :
          Owns(o, e)' => Owns(o, e) /\ rest'[o] = rest[o] /\ (BeingArmed(o) => BeingArmed(o)')
    BY <1>1, <1>2, <2>2, NameAssumption DEF Owns, Expires, IsTask
  <2>4. \A e : TimesKept(e) /\ (Held(e)' <=> Held(e))
    BY <1>1, SameWheels
  <2>5. OnTime'
    BY <2>3, <2>4, OnTimeKept DEF KeysInv
  <2>6. Leftover'
    BY <2>2 DEF Leftover
  <2>7. NoneForgotten'
    BY <1>4, <2>1, <2>2, <2>4 DEF KeysInv, NoneForgotten, Held
  <2> QED BY <2>5, <2>6, <2>7 DEF KeysInv
<1> QED BY <1>3, <1>4 DEF Drop

\* An owner's time after insertEntry(d, x): n, which was m before.
LEMMA ArmedTimes ==
  ASSUME IndInv, TickShape, NEW d \in Nat, d <= Longest, NEW x \in Entries,
         wheels' = InsertEntry(d, x), UNCHANGED <<ticks, tick>>,
         tick.stage = "idle" \/ Levels = 1,
         NEW o \in Keys \cup Entries, NEW e \in Entries, NEW n \in Int, NEW m \in Int,
         DueBy(e, m), rest'[o] = n,
         e # x => n = m /\ \E r \in Int : r >= n - 1 /\ DueIn(e, r),
         e = x => /\ m <= n /\ d <= n
                  /\ (d > 0 /\ n = d) \/ \E r \in Int : r >= n - 1 /\ DueIn(e, r)
  PROVE  InTime(o, e)'
<1>1. /\ \A i \in Int : DueIn(e, i) => DueIn(e, i)'
      /\ DueBy(e, n) /\ (e = x => d <= n) => DueBy(e, n)'
      /\ d > 0 => \E r \in Int : r >= d - 1 /\ DueIn(x, r)'
  BY InsertTakesDelay
<1>2. DueBy(e, n)
  BY DueByGrows
<1>3. DueBy(e, n)'
  BY <1>1, <1>2
<1>4. \E r \in Int : r >= n - 1 /\ DueIn(e, r)'
  BY <1>1
<1> QED BY <1>3, <1>4, InTimeNext

\* insertEntry gives the key of the call the time it asked for, and takes none away.
LEMMA ArmTimes ==
  ASSUME Scheduled, IndInv, TickShape, CallShape, KeysInv, Arm PROVE KeysInv'
<1>1. /\ call.stage = "arm" /\ wheels' = InsertEntry(call.delay, call.entry)
      /\ rest' = IF Expires(call.key) /\ rest[call.key] < call.delay
                 THEN [rest EXCEPT ![call.key] = call.delay] ELSE rest
      /\ call' = [call EXCEPT !.stage = "drop"]
      /\ UNCHANGED <<map, target, ticks, tick>>
  BY DEF Arm
<1>2. PICK x \in Entries, k \in Keys, d \in Nat :
        /\ call.entry = x /\ call.key = k /\ call.delay = d /\ d <= Longest
        /\ map[k].entry = x /\ Present(k)
  BY <1>1, CallerAssumption DEF IndInv, CallSound, CallShape, Scheduled
<1>3. /\ wheels' = InsertEntry(d, x) /\ UNCHANGED <<ticks, tick>>
      /\ tick.stage = "idle" \/ (Levels = 1 /\ d > 0)
      /\ call'.stage = "drop"
      /\ \A o \in Keys \cup Entries :
           rest'[o] = IF o = k /\ Expires(k) /\ rest[k] < d THEN d ELSE rest[o]
  <2>1. tick.stage = "idle" \/ (Levels = 1 /\ d > 0)
    <3>1. call # Idle
      BY <1>1 DEF Idle
    <3> QED BY <1>1, <1>2, <3>1 DEF CallShape, Confined, DeadlockInv, Scheduled
  <2> QED BY <1>1, <1>2, <2>1 DEF IndInv, TypeOK
<1>4. OnTime'
  <2> SUFFICES ASSUME NEW o \in Keys \cup Entries, NEW e \in Entries, Owns(o, e)
               PROVE  InTime(o, e)'
    BY <1>1 DEF OnTime, Owns, Expires, Present, IsTask
  <2>1. x = e <=> k = o
    BY <1>1, <1>2, OwnsInCall
  <2>2. PICK m \in Int, n \in Int : m = rest[o] /\ n = rest'[o]
    BY <1>3 DEF IndInv, TypeOK
  <2>3. DueBy(e, m) /\ ((\E r \in Int : r >= m - 1 /\ DueIn(e, r)) \/ BeingArmed(o))
    BY <2>2 DEF KeysInv, OnTime, InTime, DueBy
  <2>4. CASE o # k
    <3>1. ~ BeingArmed(o) /\ n = m
      BY <1>2, <1>3, <2>2, <2>4 DEF BeingArmed
    <3> QED BY <1>3, <1>2, <2>1, <2>2, <2>3, <2>4, <3>1, ArmedTimes
  <2>5. CASE o = k
    <3>1. Expires(k) /\ n = IF m < d THEN d ELSE m
      BY <1>3, <2>2, <2>5, NameAssumption DEF Owns
    <3>2. m <= n /\ d <= n
      BY <3>1
    <3>3. (d > 0 /\ n = d) \/ \E r \in Int : r >= n - 1 /\ DueIn(e, r)
      <4>1. CASE BeingArmed(o)
        BY <1>2, <2>2, <2>5, <3>1, <4>1 DEF BeingArmed
      <4>2. CASE ~ BeingArmed(o) /\ m >= d
        BY <2>3, <3>1, <4>2
      <4>3. CASE d > 0 /\ m < d
        BY <3>1, <4>3
      <4>4. CASE ~ BeingArmed(o) /\ d = 0 /\ m < d
        <5>1. PICK r \in Int : DueIn(e, r)
          BY <2>3, <4>4
        <5>2. tick.stage = "idle" /\ tick.bucket = {}
          BY <1>3, <4>4 DEF IndInv, ItemShape
        <5>3. r >= 0
          BY <5>1, <5>2, ItemsHaveTime DEF DueIn
        <5> QED BY <3>1, <4>4, <5>1, <5>3
      <4> QED BY <4>1, <4>2, <4>3, <4>4
    <3> QED BY <1>2, <1>3, <2>1, <2>2, <2>3, <2>5, <3>2, <3>3, ArmedTimes
  <2> QED BY <2>4, <2>5
<1>5. Leftover'
  <2> SUFFICES ASSUME NEW j \in Keys, Expires(j), map[j].entry = None PROVE rest'[j] <= 0
    BY <1>1 DEF Leftover, Expires, Present
  <2>1. j # k
    BY <1>2, NameAssumption
  <2> QED BY <1>1, <1>3, <2>1 DEF KeysInv, Leftover
<1>6. NoneForgotten'
  <2>1. target[x] # None
    BY <1>2, NameAssumption DEF IndInv, WeakPointersSound
  <2>2. \A e \in Entries : Held(e)' => Held(e) \/ e = x
    BY <1>3 DEF Held, InWheels, InBucket, InsertEntry
  <2> QED BY <1>1, <2>1, <2>2 DEF KeysInv, NoneForgotten
<1> QED BY <1>4, <1>5, <1>6 DEF KeysInv

\* runAfter puts an entry that no item has yet in the wheels.
LEMMA RunAfterTimes ==
  ASSUME Scheduled, IndInv, TickShape, CallShape, KeysInv,
         NEW x \in Entries, NEW d \in Timeouts, RunAfter(x, d)
  PROVE  KeysInv'
<1>1. /\ d > 0 /\ target[x] = None /\ target' = [target EXCEPT ![x] = Task]
      /\ wheels' = InsertEntry(d, x) /\ rest' = [rest EXCEPT ![x] = d]
      /\ UNCHANGED <<map, ticks, tick, call>>
      /\ LoopConfined => tick.stage = "idle"
  BY DEF RunAfter
<1>2. /\ d \in Nat /\ d <= Longest
      /\ tick.stage = "idle" \/ Levels = 1
      /\ target'[x] = Task /\ \A e \in Entries \ {x} : target'[e] = target[e]
      /\ rest'[x] = d /\ \A o \in Keys \cup Entries : o # x => rest'[o] = rest[o]
      /\ Task # None /\ x \notin Keys
  BY <1>1, CallerAssumption, NameAssumption DEF Scheduled, IndInv, TypeOK
<1>3. \A n \in Int : DueBy(x, n)
  BY <1>1 DEF KeysInv, NoneForgotten, DueBy, Held, InWheels, InBucket
<1>4. \A o \in Keys \cup Entries, e \in Entries :
        Owns(o, e)' => IF e = x THEN o = x ELSE Owns(o, e) /\ o # x
  <2> TAKE o \in Keys \cup Entries, e \in Entries
  <2>1. CASE e = x
    <3>1. ~ Owns(o, x)
      BY <1>1, OwnsOne
    <3> QED BY <1>1, <2>1, <3>1 DEF Owns, Expires, Present
  <2>2. CASE e # x
    BY <1>1, <1>2, <2>2 DEF Owns, Expires, Present, IsTask
  <2> QED BY <2>1, <2>2
<1>5. OnTime'
  <2> SUFFICES ASSUME NEW o \in Keys \cup Entries, NEW e \in Entries, Owns(o, e)'
               PROVE  InTime(o, e)'
    BY DEF OnTime
  <2>1. CASE e = x
    <3>1. o = x /\ rest'[o] = d /\ DueBy(e, d) /\ d \in Int
      BY <1>2, <1>3, <1>4, <2>1
    <3> QED BY <1>1, <1>2, <2>1, <3>1, ArmedTimes
  <2>2. CASE e # x
    <3>1. Owns(o, e) /\ rest'[o] = rest[o]
      BY <1>2, <1>4, <2>2
    <3>2. PICK n \in Int : n = rest[o]
      BY DEF IndInv, TypeOK
    <3>3. InTime(o, e)
      BY <3>1 DEF KeysInv, OnTime
    <3>4. DueBy(e, n) /\ ((\E r \in Int : r >= n - 1 /\ DueIn(e, r)) \/ BeingArmed(o))
      BY <3>2, <3>3 DEF InTime, DueBy
    <3>5. CASE BeingArmed(o)
      <4>1. BeingArmed(o)'
        BY <1>1, <3>1, <3>5 DEF BeingArmed
      <4>2. DueBy(e, n)'
        BY <1>1, <1>2, <2>2, <3>4, InsertTakesDelay
      <4> QED BY <3>1, <3>2, <4>1, <4>2, InTimeNext
    <3>6. CASE ~ BeingArmed(o)
      BY <1>1, <1>2, <2>2, <3>1, <3>2, <3>4, <3>6, ArmedTimes
    <3> QED BY <3>5, <3>6
  <2> QED BY <2>1, <2>2
<1>6. Leftover'
  <2>1. \A j \in Keys : rest'[j] = rest[j]
    BY <1>2
  <2> QED BY <1>1, <2>1 DEF KeysInv, Leftover, Expires, Present
<1>7. NoneForgotten'
  <2>1. \A e \in Entries : Held(e)' => Held(e) \/ e = x
    BY <1>1 DEF Held, InWheels, InBucket, InsertEntry
  <2> QED BY <1>2, <2>1 DEF KeysInv, NoneForgotten
<1> QED BY <1>5, <1>6, <1>7 DEF KeysInv

\* What the timer callback holds belongs to a wheel that turns in this tick.
LEMMA TickShapeKept ==
  ASSUME IndInv, TickShape, [Next]_vars PROVE TickShape'
<1>1. CASE TickStart
  <2>1. ticks' \in 0..(Pow[Levels] - 1) /\ tick'.level = 0
    <3>1. Pow[Levels] \in Nat \ {0} /\ ticks + 1 \in Int
      BY PowIs, SizesAre DEF IndInv, TypeOK
    <3> QED BY <1>1, <3>1, ModType DEF TickStart, TickIdle
  <2>2. ticks' % Pow[0] = 0
    <3>1. Pow[0] = 1 /\ ticks' \in Int
      BY <2>1, WheelAssumption
    <3>2. \A x \in Int : x % 1 = 0
      OBVIOUS
    <3> QED BY <3>1, <3>2
  <2> QED BY <2>1, <2>2 DEF TickShape
<1>2. ASSUME UNCHANGED ticks, tick'.stage # "idle" => tick.stage # "idle" /\ tick'.level = tick.level
      PROVE  TickShape'
  BY <1>2 DEF TickShape
<1>3. CASE TickPop
  BY <1>2, <1>3 DEF TickPop, IndInv, TypeOK
<1>4. ASSUME NEW item \in tick.bucket, TickMoveDown(item) \/ TickRelease(item) PROVE TickShape'
  BY <1>2, <1>4 DEF TickMoveDown, TickRelease, IndInv, TypeOK
<1>5. CASE TickExpire
  BY <1>2, <1>5 DEF TickExpire, IndInv, TypeOK
<1>6. CASE TickNext
  <2>1. UNCHANGED ticks
    BY <1>6 DEF TickNext
  <2>2. CASE tick.level + 1 < Levels /\ ticks % Pow[tick.level + 1] = 0
    <3>1. tick'.level = tick.level + 1
      BY <1>6, <2>2 DEF TickNext, TickIdle
    <3> QED BY <2>1, <2>2, <3>1 DEF TickShape
  <2>3. CASE ~ (tick.level + 1 < Levels /\ ticks % Pow[tick.level + 1] = 0)
    <3>1. tick'.stage = "idle"
      BY <1>6, <2>3 DEF TickNext, TickIdle
    <3> QED BY <2>1, <3>1 DEF TickShape
  <2> QED BY <2>2, <2>3
<1>7. CASE Arm \/ Drop \/ LoopEnd \/ Destruct \/ Destroyed \/ UNCHANGED vars
  BY <1>2, <1>7 DEF Arm, Drop, LoopEnd, Destruct, Destroyed, vars
<1>8. CASE CallStep
  BY <1>2, <1>8 DEF CallStep, Access, Erase, Insert, InsertMove, RunAfter
<1> QED BY <1>1, <1>3, <1>4, <1>5, <1>6, <1>7, <1>8 DEF Next, TickStep

\* At the start of a tick, whatever ages has time left.
LEMMA AgeingHasTime ==
  ASSUME IndInv, TickShape, CallShape, KeysInv, Scheduled, TickStart,
         NEW o \in Keys \cup Entries, Ageing(o)
  PROVE  rest[o] >= 0
<1>1. /\ tick.stage = "idle" /\ tick.bucket = {} /\ tick.firing = None
      /\ LoopConfined => call = Idle
      /\ call.stage = "none" \/ (call.stage = "arm" /\ call.delay \in Nat)
      /\ rest[o] \in Int
  <2>1. tick.stage = "idle" /\ (LoopConfined => call = Idle) /\ (PromptCalls => call.stage # "drop")
    BY DEF TickStart
  <2>2. call.stage = "none" \/ (call.stage = "arm" /\ call.delay \in Nat)
    <3>1. call.stage \in {"none", "arm", "drop", "stuck"}
      BY DEF IndInv, TypeOK
    <3>2. CASE LoopConfined
      BY <2>1, <3>2 DEF Idle
    <3>3. CASE PromptCalls /\ DeadlockInv
      BY <2>1, <3>1, <3>3, CallerAssumption DEF CallShape, DeadlockInv, NoSelfDeadlock
    <3> QED BY <3>2, <3>3 DEF Scheduled, CallShape
  <2> QED BY <2>1, <2>2 DEF IndInv, ItemShape, TypeOK
<1>2. PICK e \in Entries : Owns(o, e)
  <2>1. CASE o \in Entries
    BY <2>1, NameAssumption DEF Ageing, Owns
  <2>2. CASE o \in Keys
    <3>1. Expires(o) /\ map[o] \in MapValue
      BY <2>2, NameAssumption DEF Ageing, IndInv, TypeOK, Expires, Present
    <3>2. map[o].entry # None
      BY <1>1, <2>2, <3>1, NameAssumption DEF IndInv, NoStrandedKey
    <3> QED BY <2>2, <3>1, <3>2 DEF Owns, MapValue
  <2> QED BY <2>1, <2>2
<1>3. CASE Held(e)
  <2>1. PICK l \in LevelSet, s \in SlotSet : InBucket(wheels[l][s], e)
    BY <1>1, <1>3 DEF Held, InWheels, InBucket
  <2>2. PICK item \in wheels[l][s] : item.entry = e
    BY <2>1 DEF InBucket
  <2>3. PICK r \in Int : r <= rest[o] /\ WheelDue(item, l, s, r)
    BY <1>2, <2>2 DEF KeysInv, OnTime, InTime, DueBy
  <2>4. r >= 0
    BY <1>1, <2>3, ItemsHaveTime
  <2> QED BY <1>1, <2>3, <2>4
<1>4. CASE call.entry = e
  <2>1. call.stage = "arm"
    BY <1>1, <1>4, NameAssumption DEF CallShape, Idle
  <2>2. call.key = o /\ call.key \in Keys
    BY <1>2, <1>4, <2>1, OwnsInCall
  <2>3. ~ (rest[o] <= call.delay)
    BY <2>1, <2>2, NameAssumption DEF Ageing
  <2> QED BY <1>1, <2>1, <2>3
<1> QED BY <1>2, <1>3, <1>4, OwnsOne

\* A second passes for the owners as it does for the items.
LEMMA TickStartTimes ==
  ASSUME IndInv, TickShape, CallShape, KeysInv, Scheduled, TickStart PROVE KeysInv'
<1>1. /\ UNCHANGED <<map, target, wheels, call>> /\ tick.bucket = {} /\ tick'.bucket = {}
      /\ LoopConfined => call = Idle
      /\ rest' = [o \in Keys \cup Entries |-> IF Ageing(o) THEN Aged(rest[o]) ELSE rest[o]]
  BY DEF TickStart, TickIdle, IndInv, ItemShape
<1>2. ASSUME NEW o \in Keys \cup Entries, Ageing(o)
      PROVE  rest'[o] = rest[o] - 1 /\ rest[o] \in Int
  <2>1. rest[o] >= 0 /\ rest[o] \in Int
    BY <1>2, AgeingHasTime DEF IndInv, TypeOK
  <2> QED BY <1>1, <1>2, <2>1 DEF Aged
<1>3. OnTime'
  <2> SUFFICES ASSUME NEW o \in Keys \cup Entries, NEW e \in Entries, Owns(o, e)
               PROVE  InTime(o, e)'
    BY <1>1 DEF OnTime, Owns, Expires, Present, IsTask
  <2>1. PICK n \in Int : n = rest[o]
    BY DEF IndInv, TypeOK
  <2>2. DueBy(e, n) /\ ((\E r \in Int : r >= n - 1 /\ DueIn(e, r)) \/ BeingArmed(o))
    BY <2>1 DEF KeysInv, OnTime, InTime, DueBy
  <2>3. \A i \in Int : (DueBy(e, i) => DueBy(e, i - 1)') /\ (DueIn(e, i) => DueIn(e, i - 1)')
    BY StartTakesOne
  <2>4. CASE Ageing(o)
    <3>1. rest'[o] = n - 1 /\ DueBy(e, n - 1)' /\ n - 1 \in Int
      BY <1>2, <2>1, <2>2, <2>3, <2>4
    <3>2. ~ BeingArmed(o)
      BY <2>4, NameAssumption DEF Ageing, BeingArmed, IndInv, CallSound
    <3>3. PICK r \in Int : r >= n - 1 /\ DueIn(e, r)
      BY <2>2, <3>2
    <3>4. r - 1 \in Int /\ r - 1 >= (n - 1) - 1 /\ DueIn(e, r - 1)'
      BY <2>3, <3>3
    <3>5. \E i \in Int : i >= (n - 1) - 1 /\ DueIn(e, i)'
      BY <3>4
    <3> QED BY <3>1, <3>5, InTimeNext
  <2>5. CASE ~ Ageing(o)
    <3>1. rest'[o] = n /\ call.stage = "arm" /\ call.key = o /\ rest[o] <= call.delay
      BY <1>1, <2>1, <2>5 DEF Ageing, Owns
    <3>2. call.delay > 0
      BY <1>1, <3>1 DEF CallShape, DeadlockInv, Idle
    <3>3. BeingArmed(o)'
      BY <1>1, <2>1, <3>1, <3>2 DEF BeingArmed
    <3>4. DueBy(e, n + 1) /\ n + 1 \in Int /\ (n + 1) - 1 = n
      BY <2>2, DueByGrows
    <3>5. DueBy(e, n)'
      <4>1. DueBy(e, (n + 1) - 1)'
        BY <2>3, <3>4
      <4> QED BY <3>4, <4>1
    <3> QED BY <3>1, <3>3, <3>5, InTimeNext
  <2> QED BY <2>4, <2>5
<1>4. Leftover'
  <2> SUFFICES ASSUME NEW j \in Keys, Expires(j), map[j].entry = None, call.stage # "stuck"
               PROVE rest'[j] <= 0
    BY <1>1 DEF Leftover, Expires, Present
  <2>1. rest[j] <= 0 /\ rest[j] \in Int
    BY DEF KeysInv, Leftover, IndInv, TypeOK
  <2>2. rest'[j] = rest[j] \/ rest'[j] = rest[j] - 1
    BY <1>1, <1>2
  <2> QED BY <2>1, <2>2
<1>5. NoneForgotten'
  BY <1>1 DEF KeysInv, NoneForgotten, Held, InWheels, InBucket
<1> QED BY <1>3, <1>4, <1>5 DEF KeysInv

\* Inside a tick, up to the release of an entry, nothing changes for the keys.
LEMMA MovesTimes ==
  ASSUME IndInv, TickShape, KeysInv,
         TickPop \/ TickNext \/ \E item \in tick.bucket : TickMoveDown(item)
  PROVE  KeysInv'
<1>1. UNCHANGED <<map, target, call, rest>>
  BY DEF TickPop, TickNext, TickMoveDown
<1>2. ASSUME NEW e \in Entries PROVE TimesKept(e)
  BY PopKeepsTimes, NextKeepsTimes, MoveDownKeepsTimes
<1>3. ASSUME NEW e \in Entries, Held(e)' PROVE Held(e)
  <2>1. CASE TickPop
    <3>1. /\ tick'.bucket = wheels[tick.level][0]
          /\ wheels' = [wheels EXCEPT ![tick.level] = Rotate(wheels[tick.level])]
          /\ tick.level \in LevelSet /\ 0 \in SlotSet
      BY <2>1, SizesAre DEF TickPop, IndInv, TypeOK, SlotSet
    <3>2. \A l \in LevelSet, s \in SlotSet :
            \/ wheels'[l][s] = {} \/ wheels'[l][s] = wheels[l][s]
            \/ s + 1 \in SlotSet /\ wheels'[l][s] = wheels[l][s + 1]
      BY <3>1, SizesAre DEF IndInv, TypeOK, Rotate, SlotSet
    <3> QED BY <1>3, <3>1, <3>2 DEF Held, InWheels, InBucket
  <2>2. CASE TickNext
    <3>1. UNCHANGED wheels /\ tick'.bucket = {}
      BY <2>2 DEF TickNext, TickIdle
    <3> QED BY <1>3, <3>1 DEF Held, InWheels, InBucket
  <2>3. ASSUME NEW item \in tick.bucket, TickMoveDown(item) PROVE Held(e)
    <3>1. PICK lower : lower = [entry |-> item.entry,
                                slots |-> [i \in 1..(Len(item.slots) - 1) |-> item.slots[i]]]
      OBVIOUS
    <3>2. /\ wheels' = [wheels EXCEPT ![Len(item.slots) - 1][item.slots[Len(item.slots)]]
                                        = @ \cup {lower}]
          /\ tick'.bucket = tick.bucket \ {item}
      BY <2>3, <3>1 DEF TickMoveDown, IndInv, TypeOK
    <3>3. \A l \in LevelSet, s \in SlotSet : wheels'[l][s] \subseteq wheels[l][s] \cup {lower}
      BY <3>2 DEF IndInv, TypeOK
    <3>4. lower.entry = item.entry
      BY <3>1
    <3> QED BY <1>3, <2>3, <3>2, <3>3, <3>4 DEF Held, InWheels, InBucket
  <2> QED BY <2>1, <2>2, <2>3
<1>4. OnTime'
  <2>1. \A o \in Keys \cup Entries, e \in Entries :
          Owns(o, e)' => Owns(o, e) /\ rest'[o] = rest[o] /\ (BeingArmed(o) => BeingArmed(o)')
    BY <1>1 DEF Owns, Expires, Present, IsTask, BeingArmed
  <2> QED BY <1>2, <2>1, OnTimeKept DEF KeysInv
<1>5. Leftover'
  BY <1>1 DEF KeysInv, Leftover, Expires, Present
<1>6. NoneForgotten'
  BY <1>1, <1>3 DEF KeysInv, NoneForgotten
<1> QED BY <1>4, <1>5, <1>6 DEF KeysInv

\* The expiry callback takes a key away, if anything.
LEMMA ExpireTimes ==
  ASSUME IndInv, KeysInv, TickExpire PROVE KeysInv'
<1>1. PICK k \in Keys : k = tick.firing
  BY DEF TickExpire, IndInv, TypeOK
<1>2. /\ call = Idle /\ UNCHANGED <<target, wheels, ticks, call>>
      /\ tick' = [tick EXCEPT !.firing = None]
      /\ \A j \in Keys : map'[j] = None \/ (map'[j] = map[j] /\ rest'[j] = rest[j])
      /\ \A e \in Entries : rest'[e] = rest[e]
  BY <1>1, NameAssumption DEF TickExpire, IndInv, TypeOK
<1>3. tick'.stage = tick.stage /\ tick'.level = tick.level /\ tick'.bucket = tick.bucket
  BY <1>2 DEF IndInv, TypeOK
<1>4. \A l, s, x, r : /\ WheelDue(x, l, s, r)' <=> WheelDue(x, l, s, r)
                      /\ HandDue(x, r)' <=> HandDue(x, r)
  BY <1>2, <1>3 DEF WheelDue, HandDue, Shift, Pending
<1>5. \A e : TimesKept(e) /\ (Held(e)' <=> Held(e))
  <2> TAKE e
  <2>1. \A n \in Int : DueBy(e, n) => DueBy(e, n)'
    BY <1>2, <1>3, <1>4 DEF DueBy
  <2>2. \A n \in Int : DueIn(e, n) => DueIn(e, n)'
    BY <1>2, <1>3, <1>4 DEF DueIn
  <2> QED BY <1>2, <1>3, <2>1, <2>2 DEF TimesKept, Held, InWheels, InBucket
<1>6. OnTime'
  <2>1. \A o \in Keys \cup Entries, e \in Entries :
          Owns(o, e)' => Owns(o, e) /\ rest'[o] = rest[o] /\ (BeingArmed(o) => BeingArmed(o)')
    BY <1>2, NameAssumption DEF Owns, Expires, Present, IsTask, BeingArmed
  <2> QED BY <1>5, <2>1, OnTimeKept DEF KeysInv
<1>7. Leftover'
  BY <1>2 DEF KeysInv, Leftover, Expires, Present
<1>8. NoneForgotten'
  BY <1>2, <1>5 DEF KeysInv, NoneForgotten
<1> QED BY <1>6, <1>7, <1>8 DEF KeysInv

LEMMA DestructTimes ==
  ASSUME Destruct PROVE KeysInv'
<1>1. /\ map' = [k \in Keys |-> None] /\ target' = [e \in Entries |-> None]
      /\ wheels' = [l \in LevelSet |-> [s \in SlotSet |-> {}]] /\ tick' = TickIdle
      /\ None # Task
  BY NameAssumption DEF Destruct
<1>2. OnTime'
  BY <1>1 DEF OnTime, Owns, Expires, Present, IsTask
<1>3. Leftover'
  BY <1>1 DEF Leftover, Expires, Present
<1>4. NoneForgotten'
  BY <1>1 DEF NoneForgotten, Held, InWheels, InBucket, TickIdle
<1> QED BY <1>2, <1>3, <1>4 DEF KeysInv

\* What is left of an entry when one of its references has been dropped.
LEMMA ReleaseLeaves ==
  ASSUME IndInv, TickShape, NEW item \in tick.bucket, TickRelease(item), NEW e \in Entries,
         NEW n \in Int, DueBy(e, n), InWheels(e) \/ InBucket(tick.bucket \ {item}, e)
  PROVE  \E r \in Int : r >= -1 /\ DueIn(e, r)'
<1>1. /\ tick.stage = "release" /\ item.slots = <<>> /\ UNCHANGED <<wheels, ticks>>
      /\ tick'.stage = "release" /\ tick'.level = tick.level /\ tick'.bucket = tick.bucket \ {item}
  BY DEF TickRelease, IndInv, TypeOK
<1>2. \A l, s, x, r : /\ WheelDue(x, l, s, r)' <=> WheelDue(x, l, s, r)
                      /\ HandDue(x, r)' <=> HandDue(x, r)
  BY <1>1 DEF WheelDue, HandDue, Shift, Pending
<1>3. CASE InWheels(e)
  <2>1. PICK l \in LevelSet, s \in SlotSet : InBucket(wheels[l][s], e)
    BY <1>3 DEF InWheels
  <2>2. PICK x \in wheels[l][s] : x.entry = e
    BY <2>1 DEF InBucket
  <2>3. PICK r \in Int : r <= n /\ WheelDue(x, l, s, r)
    BY <2>2 DEF DueBy
  <2>4. r >= -1
    BY <2>3, ItemsHaveTime
  <2>5. DueIn(e, r)'
    BY <1>1, <1>2, <2>2, <2>3 DEF DueIn
  <2> QED BY <2>4, <2>5
<1>4. CASE InBucket(tick.bucket \ {item}, e)
  <2>1. PICK x \in tick.bucket \ {item} : x.entry = e
    BY <1>4 DEF InBucket
  <2>2. PICK r \in Int : r <= n /\ HandDue(x, r)
    BY <2>1 DEF DueBy
  <2>3. r = -1
    <3>1. tick.level = 0
      BY ReleaseTakesDue
    <3>2. DelayAt(r, ticks, 0) = r + 1
      BY LowestWheel DEF IndInv, TypeOK
    <3> QED BY <2>2, <3>1, <3>2 DEF HandDue
  <2>4. DueIn(e, r)'
    BY <1>1, <1>2, <2>1, <2>2 DEF DueIn
  <2> QED BY <2>3, <2>4
<1> QED BY <1>3, <1>4

\* When the last reference to an entry goes, the time of its owner is up.
LEMMA LastIsDue ==
  ASSUME IndInv, TickShape, KeysInv, NEW item \in tick.bucket, TickRelease(item),
         ~ InWheels(item.entry), ~ InBucket(tick.bucket \ {item}, item.entry),
         call.entry # item.entry,
         NEW o \in Keys \cup Entries, Owns(o, item.entry)
  PROVE  rest[o] <= 0
<1>1. PICK e \in Entries, n \in Int : e = item.entry /\ n = rest[o]
  BY DEF IndInv, TypeOK, Items
<1>2. ~ BeingArmed(o)
  BY <1>1, OwnsInCall DEF BeingArmed
<1>3. PICK r \in Int : r >= n - 1 /\ DueIn(e, r)
  BY <1>1, <1>2 DEF KeysInv, OnTime, InTime
<1>4. HandDue(item, r)
  BY <1>1, <1>3 DEF DueIn, InWheels, InBucket
<1>5. r = -1
  BY <1>4, ReleaseTakesDue
<1> QED BY <1>1, <1>3, <1>5

\* A reference is dropped: an owner loses its entry only when its time is up.
LEMMA ReleaseTimes ==
  ASSUME IndInv, TickShape, CallShape, KeysInv, NEW item \in tick.bucket, TickRelease(item)
  PROVE  KeysInv'
<1>1. PICK x \in Entries : x = item.entry
  BY DEF IndInv, TypeOK, Items
<1>2. PICK last \in BOOLEAN :
        last <=> ~ InWheels(x) /\ ~ InBucket(tick.bucket \ {item}, x) /\ call.entry # x
  OBVIOUS
<1>3. /\ tick.stage = "release" /\ UNCHANGED <<wheels, ticks, call>>
      /\ tick'.bucket = tick.bucket \ {item}
      /\ (last /\ ForgetEntry(x)) \/ (~ last /\ UNCHANGED <<map, target>>)
      /\ rest' = IF last /\ IsTask(x) THEN [rest EXCEPT ![x] = Spent] ELSE rest
  BY <1>1, <1>2 DEF TickRelease, IndInv, TypeOK
<1>4. /\ \A k \in Keys : Present(k) <=> Present(k)'
      /\ \A k \in Keys : Present(k) => map'[k].timeout = map[k].timeout
      /\ \A k \in Keys : Present(k) =>
           map'[k].entry = IF last /\ map[k].entry = x THEN None ELSE map[k].entry
      /\ \A y \in Entries : target'[y] = IF last /\ y = x THEN None ELSE target[y]
      /\ \A k \in Keys : rest'[k] = rest[k]
      /\ \A y \in Entries : target'[y] # None => rest'[y] = rest[y]
  <2>1. CASE last
    <3>1. /\ \A k \in Keys : Present(k) <=> Present(k)'
          /\ \A k \in Keys : Present(k) => map'[k].timeout = map[k].timeout
          /\ \A k \in Keys : Present(k) =>
               map'[k].entry = IF map[k].entry = x THEN None ELSE map[k].entry
          /\ \A y \in Entries : target'[y] = IF y = x THEN None ELSE target[y]
      BY <1>3, <2>1, ForgetEntryEffect DEF IndInv
    <3>2. \A o \in Keys \cup Entries : o # x => rest'[o] = rest[o]
      BY <1>3 DEF IndInv, TypeOK
    <3>3. x \notin Keys
      BY NameAssumption
    <3> QED BY <2>1, <3>1, <3>2, <3>3
  <2>2. CASE ~ last
    BY <1>3, <2>2 DEF Present
  <2> QED BY <2>1, <2>2
<1>5. ASSUME NEW o \in Keys \cup Entries, NEW e \in Entries, Owns(o, e)'
      PROVE  Owns(o, e) /\ rest'[o] = rest[o] /\ ~ (last /\ e = x)
  BY <1>4, <1>5, NameAssumption DEF Owns, Expires, IsTask
<1>6. OnTime'
  <2> SUFFICES ASSUME NEW o \in Keys \cup Entries, NEW e \in Entries, Owns(o, e)'
               PROVE  InTime(o, e)'
    BY DEF OnTime
  <2>1. Owns(o, e) /\ rest'[o] = rest[o] /\ ~ (last /\ e = x)
    BY <1>5
  <2>2. PICK n \in Int : n = rest[o]
    BY DEF IndInv, TypeOK
  <2>3. DueBy(e, n) /\ ((\E r \in Int : r >= n - 1 /\ DueIn(e, r)) \/ BeingArmed(o))
    BY <2>1, <2>2 DEF KeysInv, OnTime, InTime, DueBy
  <2>4. DueBy(e, n)'
    BY <2>3, ReleaseTakesDue
  <2>5. CASE BeingArmed(o)
    <3>1. BeingArmed(o)'
      BY <1>3, <2>1, <2>5 DEF BeingArmed
    <3> QED BY <2>1, <2>2, <2>4, <3>1, InTimeNext
  <2>6. CASE \E r \in Int : r >= n - 1 /\ DueIn(e, r)
    <3>1. PICK r \in Int : r >= n - 1 /\ DueIn(e, r)
      BY <2>6
    <3>2. CASE DueIn(e, r)'
      <4>1. \E i \in Int : i >= n - 1 /\ DueIn(e, i)'
        BY <3>1, <3>2
      <4> QED BY <2>1, <2>2, <2>4, <4>1, InTimeNext
    <3>3. CASE e = x /\ r = -1
      <4>1. n <= 0
        BY <3>1, <3>3
      <4>2. InWheels(e) \/ InBucket(tick.bucket \ {item}, e) \/ call.entry = e
        BY <1>2, <2>1, <3>3
      <4>3. CASE InWheels(e) \/ InBucket(tick.bucket \ {item}, e)
        <5>1. PICK i \in Int : i >= -1 /\ DueIn(e, i)'
          BY <2>3, <4>3, ReleaseLeaves
        <5>2. \E j \in Int : j >= n - 1 /\ DueIn(e, j)'
          BY <4>1, <5>1
        <5> QED BY <2>1, <2>2, <2>4, <5>2, InTimeNext
      <4>4. CASE call.entry = e /\ ~ InWheels(e)
        <5>1. call # Idle /\ call.stage \in {"arm", "drop"}
          BY <4>4, NameAssumption DEF CallShape, Idle, IndInv, TypeOK
        <5>2. DeadlockInv
          BY <1>3, <5>1 DEF CallShape, Confined
        <5>3. call.stage = "arm"
          <6>1. tick.level = 0
            BY ReleaseTakesDue
          <6> QED BY <4>4, <5>1, <5>2, <6>1 DEF DeadlockInv, Anchored, InWheels
        <5>4. call.key = o
          BY <2>1, <4>4, <5>1, OwnsInCall
        <5>5. call.delay > 0 /\ call.delay \in Nat
          BY <5>2, <5>3, CallerAssumption DEF DeadlockInv, CallShape
        <5>6. BeingArmed(o)'
          BY <1>3, <2>1, <2>2, <4>1, <5>3, <5>4, <5>5 DEF BeingArmed
        <5> QED BY <2>1, <2>2, <2>4, <5>6, InTimeNext
      <4> QED BY <4>2, <4>3, <4>4
    <3> QED BY <1>1, <3>1, <3>2, <3>3, ReleaseTakesDue
  <2> QED BY <2>3, <2>5, <2>6
<1>7. Leftover'
  <2> SUFFICES ASSUME NEW k \in Keys, Expires(k)', map'[k].entry = None, call'.stage # "stuck"
               PROVE  rest'[k] <= 0
    BY DEF Leftover
  <2>1. Expires(k) /\ call.stage # "stuck" /\ rest'[k] = rest[k]
    BY <1>3, <1>4 DEF Expires
  <2>2. CASE map[k].entry = None
    BY <2>1, <2>2 DEF KeysInv, Leftover
  <2>3. CASE map[k].entry # None
    <3>1. last /\ map[k].entry = x
      BY <1>4, <2>1, <2>3 DEF Expires
    <3>2. Owns(k, x)
      BY <2>1, <3>1 DEF Owns
    <3> QED BY <1>1, <1>2, <2>1, <3>1, <3>2, LastIsDue
  <2> QED BY <2>2, <2>3
<1>8. NoneForgotten'
  <2> SUFFICES ASSUME NEW e \in Entries, Held(e)' PROVE target'[e] # None
    BY DEF NoneForgotten
  <2>1. InWheels(e) \/ InBucket(tick.bucket \ {item}, e)
    BY <1>3 DEF Held, InWheels, InBucket
  <2>2. Held(e)
    BY <2>1 DEF Held, InBucket
  <2> QED BY <1>2, <1>4, <2>1, <2>2 DEF KeysInv, NoneForgotten
<1> QED BY <1>6, <1>7, <1>8 DEF KeysInv

\* TimeInv is inductive.
LEMMA TimeInvKept ==
  ASSUME Scheduled PROVE IndInv /\ TimeInv /\ [Next]_vars => TimeInv'
<1> SUFFICES ASSUME IndInv, TimeInv, [Next]_vars PROVE TimeInv'
  OBVIOUS
<1>1. TickShape /\ CallShape /\ KeysInv
  BY DEF TimeInv, KeysInv
<1>2. TickShape' /\ CallShape'
  BY <1>1, TickShapeKept, CallShapeKept
<1>3. SUFFICES KeysInv'
  BY <1>2 DEF TimeInv, KeysInv
<1>4. ASSUME NEW k \in Keys, Access(k) \/ Erase(k) PROVE KeysInv'
  BY <1>1, <1>4, AccessTimes, EraseTimes
<1>5. ASSUME NEW k \in Keys, NEW d \in Timeouts, Insert(k, d) PROVE KeysInv'
  BY <1>1, <1>5, InsertTimes
<1>6. ASSUME NEW k \in Keys, NEW d \in MoveTimeouts, InsertMove(k, d) PROVE KeysInv'
  BY <1>1, <1>6, InsertTimes, CallerAssumption
<1>7. ASSUME NEW e \in Entries, NEW d \in Timeouts, RunAfter(e, d) PROVE KeysInv'
  BY <1>1, <1>7, RunAfterTimes
<1>8. CASE Arm
  BY <1>1, <1>8, ArmTimes
<1>9. CASE Drop
  BY <1>1, <1>9, DropTimes
<1>10. CASE TickStart
  BY <1>1, <1>10, TickStartTimes
<1>11. CASE TickPop \/ TickNext
  BY <1>1, <1>11, MovesTimes
<1>12. ASSUME NEW item \in tick.bucket, TickMoveDown(item) \/ TickRelease(item) PROVE KeysInv'
  BY <1>1, <1>12, MovesTimes, ReleaseTimes
<1>13. CASE TickExpire
  BY <1>1, <1>13, ExpireTimes
<1>14. CASE Destruct
  BY <1>14, DestructTimes
<1>15. CASE LoopEnd \/ Destroyed \/ UNCHANGED vars
  <2>1. UNCHANGED <<map, target, wheels, ticks, tick, call, rest>>
    BY <1>15 DEF LoopEnd, Destroyed, vars
  <2>2. \A e : TimesKept(e) /\ (Held(e)' <=> Held(e))
    BY <2>1, SameWheels
  <2>3. OnTime'
    <3>1. \A o \in Keys \cup Entries, e \in Entries :
            Owns(o, e)' => Owns(o, e) /\ rest'[o] = rest[o] /\ (BeingArmed(o) => BeingArmed(o)')
      BY <2>1 DEF Owns, Expires, Present, IsTask, BeingArmed
    <3> QED BY <1>1, <2>2, <3>1, OnTimeKept DEF KeysInv
  <2>4. Leftover'
    BY <1>1, <2>1 DEF KeysInv, Leftover, Expires, Present
  <2>5. NoneForgotten'
    BY <1>1, <2>1, <2>2 DEF KeysInv, NoneForgotten
  <2> QED BY <2>3, <2>4, <2>5 DEF KeysInv
<1> QED BY <1>4, <1>5, <1>6, <1>7, <1>8, <1>9, <1>10, <1>11, <1>12, <1>13, <1>14, <1>15
        DEF Next, CallStep, TickStep

LEMMA TimeInvInit == Init => TimeInv
<1> SUFFICES ASSUME Init PROVE TimeInv
  OBVIOUS
<1>1. /\ map = [k \in Keys |-> None] /\ target = [e \in Entries |-> None]
      /\ wheels = [l \in LevelSet |-> [s \in SlotSet |-> {}]]
      /\ ticks = 0 /\ tick = TickIdle /\ call = Idle
      /\ None # Task
  BY NameAssumption DEF Init
<1>2. OnTime
  BY <1>1 DEF OnTime, Owns, Expires, Present, IsTask
<1>3. Leftover
  BY <1>1 DEF Leftover, Expires, Present
<1>4. NoneForgotten
  BY <1>1 DEF NoneForgotten, Held, InWheels, InBucket, TickIdle
<1>5. TickShape
  <2>1. Pow[Levels] \in Nat \ {0}
    BY WheelAssumption
  <2>2. tick.stage = "idle" /\ 0 \in 0..(Pow[Levels] - 1)
    BY <1>1, <2>1 DEF TickIdle
  <2> QED BY <1>1, <2>2 DEF TickShape
<1>6. CallShape
  BY <1>1 DEF CallShape, Confined, DeadlockInv, NoSelfDeadlock, Anchored, Idle
<1> QED BY <1>2, <1>3, <1>4, <1>5, <1>6 DEF TimeInv

-----------------------------------------------------------------------------
(* CacheMap implements ExpiringMap. *)

\* The variables of the promise.
TimeoutOf == [k \in Keys |-> IF Present(k) THEN map[k].timeout ELSE None]
Tasks     == {e \in Entries : IsTask(e)}

\* A step of the promise, or none at all.
Kept == Promise!Next \/ UNCHANGED <<TimeoutOf, Tasks, rest>>

LEMMA PromiseStep == Kept => [Promise!Next]_(Promise!vars)
BY DEF Kept, Promise!vars, TimeoutOf, Tasks

LEMMA TimeoutIs ==
  ASSUME IndInv, NEW k \in Keys
  PROVE  /\ TimeoutOf[k] = None <=> ~ Present(k)
         /\ Present(k) => TimeoutOf[k] = map[k].timeout /\ TimeoutOf[k] \in Nat
         /\ Expires(k) <=> Promise!Expires(k)
<1>1. Present(k) => map[k].timeout \in Timeouts /\ map[k].timeout \in Nat
  BY CallerAssumption DEF IndInv, TypeOK, MapValue, Present
<1>2. /\ TimeoutOf[k] = None <=> ~ Present(k)
      /\ Present(k) => TimeoutOf[k] = map[k].timeout /\ TimeoutOf[k] \in Nat
  BY <1>1, NameAssumption DEF TimeoutOf
<1>3. Expires(k) <=> Promise!Expires(k)
  BY <1>1, <1>2 DEF Expires, Promise!Expires, TimeoutOf
<1> QED BY <1>2, <1>3

\* Steps that touch neither the timeouts nor what there is to run.
LEMMA Unseen ==
  ASSUME \A k \in Keys : (Present(k)' <=> Present(k))
                         /\ (Present(k) => map'[k].timeout = map[k].timeout),
         \A e \in Entries : IsTask(e)' <=> IsTask(e),
         UNCHANGED rest
  PROVE  Kept
<1>1. TimeoutOf' = TimeoutOf
  BY DEF TimeoutOf
<1>2. Tasks' = Tasks
  BY DEF Tasks
<1> QED BY <1>1, <1>2 DEF Kept

LEMMA PutKept ==
  ASSUME IndInv, NEW k \in Keys, NEW d \in Timeouts,
         ~ Present(k), map'[k] # None, map'[k].timeout = d,
         \A j \in Keys \ {k} : map'[j] = map[j],
         \A e \in Entries : IsTask(e)' <=> IsTask(e),
         rest' = [rest EXCEPT ![k] = d]
  PROVE  Kept
<1>1. TimeoutOf' = [TimeoutOf EXCEPT ![k] = d]
  BY DEF TimeoutOf, Present
<1>2. Tasks' = Tasks
  BY DEF Tasks
<1>3. TimeoutOf[k] = None
  BY TimeoutIs
<1>4. Promise!Put(k, d)
  BY <1>1, <1>2, <1>3 DEF Promise!Put, TimeoutOf, Tasks
<1>5. Promise!Next
  BY <1>4 DEF Promise!Next
<1> QED BY <1>5 DEF Kept

\* insert() on a new key, any call on an old one.
LEMMA EraseAfterKept ==
  ASSUME IndInv, NEW k \in Keys, NEW d \in Timeouts, EraseAfter(Inserted(k, d), k, d),
         rest' = RestAfterInsert(k, d)
  PROVE  Kept
<1> DEFINE m == Inserted(k, d)
<1>1. /\ m \in [Keys -> MapValue \cup {None}] /\ m[k] # None
      /\ \A j \in Keys \ {k} : m[j] = map[j]
      /\ ~ Present(k) => m[k].timeout = d
      /\ Present(k) => m = map
  BY InsertedFacts DEF IndInv, Inserted
<1> HIDE DEF m
<1>2. /\ \A j \in Keys \ {k} : map'[j] = map[j]
      /\ map'[k] # None /\ map'[k].timeout = m[k].timeout
      /\ \A e \in Entries : IsTask(e)' <=> IsTask(e)
  <2>1. CASE map' = m /\ UNCHANGED target
    BY <1>1, <2>1 DEF IsTask
  <2>2. ASSUME NEW e \in Entries, target[e] = None, target' = [target EXCEPT ![e] = k],
               map' = [m EXCEPT ![k].entry = e]
        PROVE  /\ \A j \in Keys \ {k} : map'[j] = map[j]
               /\ map'[k] # None /\ map'[k].timeout = m[k].timeout
               /\ \A x \in Entries : IsTask(x)' <=> IsTask(x)
    <3>1. m[k] \in MapValue
      BY <1>1
    <3>2. [m[k] EXCEPT !.entry = e] \in MapValue
          /\ [m[k] EXCEPT !.entry = e].timeout = m[k].timeout
      BY <3>1 DEF MapValue
    <3>3. \A x \in Entries : IsTask(x)' <=> IsTask(x)
      BY <2>2, NameAssumption DEF IsTask, IndInv, TypeOK
    <3> QED BY <1>1, <2>2, <3>2, <3>3, NameAssumption
  <2> QED BY <2>1, <2>2 DEF EraseAfter, m
<1>3. CASE Present(k)
  <2>1. rest' = rest /\ \A j \in Keys : Present(j) => map'[j].timeout = map[j].timeout
    BY <1>1, <1>2, <1>3 DEF RestAfterInsert
  <2> QED BY <1>2, <1>3, <2>1, Unseen DEF Present
<1>4. CASE ~ Present(k)
  <2>1. rest' = [rest EXCEPT ![k] = d] /\ map'[k].timeout = d
    BY <1>1, <1>2, <1>4 DEF RestAfterInsert
  <2> QED BY <1>2, <1>4, <2>1, PutKept
<1> QED BY <1>3, <1>4

LEMMA CallsKept ==
  ASSUME IndInv, CallStep PROVE Kept
<1>1. ASSUME NEW k \in Keys, Access(k) PROVE Kept
  <2>1. map[k] \in MapValue /\ Present(k)
    BY <1>1 DEF Access, Expires, Present, IndInv, TypeOK
  <2>2. PICK d \in Timeouts : d = map[k].timeout
    BY <2>1 DEF MapValue
  <2>3. EraseAfter(Inserted(k, d), k, d) /\ rest' = RestAfterInsert(k, d)
    BY <1>1, <2>1, <2>2 DEF Access, Inserted, RestAfterInsert
  <2> QED BY <2>3, EraseAfterKept
<1>2. ASSUME NEW k \in Keys, Erase(k) PROVE Kept
  <2>1. /\ Present(k) /\ map' = [map EXCEPT ![k] = None]
        /\ rest' = [rest EXCEPT ![k] = 0] /\ UNCHANGED target
    BY <1>2 DEF Erase
  <2>2. TimeoutOf' = [TimeoutOf EXCEPT ![k] = None]
    BY <2>1 DEF TimeoutOf, Present, IndInv, TypeOK
  <2>3. Tasks' = Tasks
    BY <2>1 DEF Tasks, IsTask
  <2>4. TimeoutOf[k] # None
    BY <2>1, TimeoutIs
  <2>5. Promise!Remove(k)
    BY <2>1, <2>2, <2>3, <2>4 DEF Promise!Remove, TimeoutOf, Tasks
  <2>6. Promise!Next
    BY <2>5 DEF Promise!Next
  <2> QED BY <2>6 DEF Kept
<1>3. ASSUME NEW k \in Keys, NEW d \in Timeouts, Insert(k, d) \/ InsertMove(k, d) PROVE Kept
  <2>1. rest' = RestAfterInsert(k, d)
    BY <1>3 DEF Insert, InsertMove
  <2>2. CASE EraseAfter(Inserted(k, d), k, d)
    BY <2>1, <2>2, EraseAfterKept
  <2>3. CASE map' = Inserted(k, d) /\ UNCHANGED target
    <3>1. \A e \in Entries : IsTask(e)' <=> IsTask(e)
      BY <2>3 DEF IsTask
    <3>2. CASE Present(k)
      <4>1. map' = map /\ rest' = rest
        BY <2>1, <2>3, <3>2 DEF Inserted, RestAfterInsert
      <4> QED BY <3>1, <4>1, Unseen DEF Present
    <3>3. CASE ~ Present(k)
      <4>1. /\ map'[k] # None /\ map'[k].timeout = d /\ \A j \in Keys \ {k} : map'[j] = map[j]
            /\ rest' = [rest EXCEPT ![k] = d]
        <5>1. /\ map'[k] # None /\ map'[k] = [timeout |-> d, entry |-> None]
              /\ \A j \in Keys \ {k} : map'[j] = map[j]
          BY <2>3, <3>3, InsertedFacts DEF IndInv
        <5> QED BY <2>1, <3>3, <5>1 DEF RestAfterInsert
      <4> QED BY <3>1, <3>3, <4>1, PutKept
    <3> QED BY <3>2, <3>3
  <2> QED BY <1>3, <2>2, <2>3 DEF Insert, InsertMove
<1>4. ASSUME NEW e \in Entries, NEW d \in Timeouts, RunAfter(e, d) PROVE Kept
  <2>1. /\ target[e] = None /\ target' = [target EXCEPT ![e] = Task]
        /\ rest' = [rest EXCEPT ![e] = d] /\ UNCHANGED map
    BY <1>4 DEF RunAfter
  <2>2. TimeoutOf' = TimeoutOf
    BY <2>1 DEF TimeoutOf, Present
  <2>3. Tasks' = Tasks \cup {e} /\ e \notin Tasks
    BY <2>1, NameAssumption DEF Tasks, IsTask, IndInv, TypeOK
  <2>4. Promise!Schedule(e, d)
    BY <2>1, <2>2, <2>3 DEF Promise!Schedule, TimeoutOf, Tasks
  <2>5. Promise!Next
    BY <2>4 DEF Promise!Next
  <2> QED BY <2>5 DEF Kept
<1> QED BY <1>1, <1>2, <1>3, <1>4, CallerAssumption DEF CallStep

\* The access takes effect when its entry is in a bucket.
LEMMA ArmKept ==
  ASSUME IndInv, CallShape, Arm PROVE Kept
<1>1. /\ call.stage = "arm" /\ UNCHANGED <<map, target>>
      /\ rest' = IF Expires(call.key) /\ rest[call.key] < call.delay
                 THEN [rest EXCEPT ![call.key] = call.delay] ELSE rest
  BY DEF Arm
<1>2. PICK k \in Keys, d \in Timeouts : k = call.key /\ d = call.delay
  BY <1>1 DEF IndInv, CallSound, CallShape
<1>3. CASE Expires(k) /\ rest[k] < d
  <2>1. TimeoutOf' = TimeoutOf /\ Tasks' = Tasks
    BY <1>1 DEF TimeoutOf, Tasks, Present, IsTask
  <2>2. Promise!Expires(k) /\ d >= rest[k]
    BY <1>3, TimeoutIs, CallerAssumption DEF IndInv, TypeOK
  <2>3. Promise!Access(k, d)
    BY <1>1, <1>2, <1>3, <2>1, <2>2 DEF Promise!Access, TimeoutOf, Tasks
  <2>4. Promise!Next
    BY <2>3 DEF Promise!Next
  <2> QED BY <2>4 DEF Kept
<1>4. CASE ~ (Expires(k) /\ rest[k] < d)
  BY <1>1, <1>2, <1>4, Unseen DEF Present, IsTask
<1> QED BY <1>3, <1>4

LEMMA ForgetKept ==
  ASSUME IndInv, NEW e \in Entries, ForgetEntry(e), ~ IsTask(e), UNCHANGED rest
  PROVE  Kept
<1>1. /\ \A k \in Keys : Present(k) <=> Present(k)'
      /\ \A k \in Keys : Present(k) => map'[k].timeout = map[k].timeout
      /\ \A x \in Entries : target'[x] = IF x = e THEN None ELSE target[x]
  BY ForgetEntryEffect DEF IndInv
<1>2. \A x \in Entries : IsTask(x)' <=> IsTask(x)
  BY <1>1, NameAssumption DEF IsTask
<1> QED BY <1>1, <1>2, Unseen

LEMMA DropKept ==
  ASSUME IndInv, Drop PROVE Kept
<1>1. call.stage = "drop" /\ UNCHANGED rest
  BY DEF Drop
<1>2. CASE UNCHANGED <<map, target>>
  BY <1>1, <1>2, Unseen DEF Present, IsTask
<1>3. CASE ForgetEntry(call.entry)
  <2>1. PICK x \in Entries : x = call.entry /\ target[x] \in Keys
    BY <1>1, NameAssumption DEF IndInv, CallSound, WeakPointersSound
  <2>2. ~ IsTask(x)
    BY <2>1, NameAssumption DEF IsTask
  <2> QED BY <1>1, <1>3, <2>1, <2>2, ForgetKept
<1> QED BY <1>2, <1>3 DEF Drop

\* The tick is the second of the promise.
LEMMA SecondKept ==
  ASSUME Scheduled, IndInv, TickShape, CallShape, KeysInv, TickStart PROVE Kept
<1>1. /\ UNCHANGED <<map, target>>
      /\ rest' = [o \in Keys \cup Entries |-> IF Ageing(o) THEN Aged(rest[o]) ELSE rest[o]]
  BY DEF TickStart
<1>2. PICK accessed \in {{}} \cup {{k} : k \in Keys} :
        accessed = IF call.stage = "arm" /\ rest[call.key] <= call.delay THEN {call.key} ELSE {}
  <2>1. call.stage = "arm" => call.key \in Keys
    BY DEF IndInv, CallSound
  <2> QED BY <2>1
<1> DEFINE waiting == {k \in Keys : Promise!Expires(k)} \cup Tasks
           aging   == waiting \ accessed
<1>3. ASSUME NEW o \in Keys \cup Entries PROVE o \in aging <=> Ageing(o)
  <2>1. CASE o \in Keys
    <3>1. o \notin Entries
      BY <2>1, NameAssumption
    <3>2. o \in accessed <=> call.stage = "arm" /\ call.key = o /\ rest[o] <= call.delay
      BY <1>2
    <3> QED BY <2>1, <3>1, <3>2, TimeoutIs DEF Ageing, Tasks
  <2>2. CASE o \in Entries
    <3>1. o \notin Keys /\ o \notin accessed
      BY <1>2, <2>2, NameAssumption
    <3> QED BY <2>2, <3>1 DEF Ageing, Tasks
  <2> QED BY <2>1, <2>2
<1>4. aging \subseteq Keys \cup Entries
  BY DEF Tasks
<1>5. \A o \in aging : rest[o] >= 0
  BY <1>3, <1>4, AgeingHasTime
<1>6. rest' = [o \in Keys \cup Entries |-> IF o \in aging THEN rest[o] - 1 ELSE rest[o]]
  <2>1. ASSUME NEW o \in Keys \cup Entries
        PROVE  rest'[o] = IF o \in aging THEN rest[o] - 1 ELSE rest[o]
    <3>1. o \in aging => Aged(rest[o]) = rest[o] - 1
      BY <1>5 DEF Aged, IndInv, TypeOK
    <3> QED BY <1>1, <1>3, <3>1
  <2> QED BY <1>1, <2>1
<1>7. TimeoutOf' = TimeoutOf /\ Tasks' = Tasks
  BY <1>1 DEF TimeoutOf, Tasks, Present, IsTask
<1>8. waiting = Promise!Waiting
  BY DEF Promise!Waiting, Tasks
<1> HIDE DEF waiting
<1>9. Promise!Second(accessed)
  BY <1>5, <1>6, <1>7, <1>8 DEF Promise!Second, TimeoutOf, Tasks
<1>10. Promise!Next
  BY <1>9 DEF Promise!Next
<1> QED BY <1>10 DEF Kept

\* A task runs when its last reference goes.
LEMMA ReleaseKept ==
  ASSUME IndInv, TickShape, KeysInv, NEW item \in tick.bucket, TickRelease(item) PROVE Kept
<1>1. PICK e \in Entries : e = item.entry
  BY DEF IndInv, TypeOK, Items
<1>2. CASE /\ ~ InWheels(e) /\ ~ InBucket(tick.bucket \ {item}, e) /\ call.entry # e
           /\ ForgetEntry(e)
  <2>1. CASE IsTask(e)
    <3>1. rest' = [rest EXCEPT ![e] = Spent]
      BY <1>1, <1>2, <2>1 DEF TickRelease
    <3>2. /\ \A k \in Keys : Present(k) <=> Present(k)'
          /\ \A k \in Keys : Present(k) => map'[k].timeout = map[k].timeout
          /\ \A x \in Entries : target'[x] = IF x = e THEN None ELSE target[x]
      BY <1>2, ForgetEntryEffect DEF IndInv
    <3>3. TimeoutOf' = TimeoutOf
      BY <3>2 DEF TimeoutOf
    <3>4. Tasks' = Tasks \ {e} /\ e \in Tasks
      BY <2>1, <3>2, NameAssumption DEF Tasks, IsTask
    <3>5. Owns(e, e)
      BY <2>1 DEF Owns
    <3>6. rest[e] <= 0
      BY <1>1, <1>2, <3>5, LastIsDue
    <3>7. Promise!Run(e)
      BY <3>1, <3>3, <3>4, <3>6 DEF Promise!Run, TimeoutOf, Tasks, Spent, Promise!Spent
    <3>8. Promise!Next
      BY <3>7 DEF Promise!Next
    <3> QED BY <3>8 DEF Kept
  <2>2. CASE ~ IsTask(e)
    <3>1. UNCHANGED rest
      BY <1>1, <2>2 DEF TickRelease
    <3> QED BY <1>2, <2>2, <3>1, ForgetKept
  <2> QED BY <2>1, <2>2
<1>3. CASE UNCHANGED <<map, target, rest>>
  BY <1>3, Unseen DEF Present, IsTask
<1> QED BY <1>1, <1>2, <1>3 DEF TickRelease

LEMMA ExpireKept ==
  ASSUME IndInv, KeysInv, TickExpire PROVE Kept
<1>1. PICK k \in Keys : k = tick.firing
  BY DEF TickExpire, IndInv, TypeOK
<1>2. CASE /\ Expires(k) /\ map[k].entry = None
           /\ map' = [map EXCEPT ![k] = None]
           /\ rest' = [rest EXCEPT ![k] = Spent]
  <2>1. rest[k] <= 0
    BY <1>2 DEF KeysInv, Leftover, TickExpire, Idle
  <2>2. TimeoutOf' = [TimeoutOf EXCEPT ![k] = None]
    BY <1>2 DEF TimeoutOf, Present, IndInv, TypeOK
  <2>3. Tasks' = Tasks
    BY DEF Tasks, IsTask, TickExpire
  <2>4. Promise!Expires(k)
    BY <1>2, TimeoutIs
  <2>5. Promise!Expire(k)
    BY <1>2, <2>1, <2>2, <2>3, <2>4 DEF Promise!Expire, TimeoutOf, Tasks, Spent, Promise!Spent
  <2>6. Promise!Next
    BY <2>5 DEF Promise!Next
  <2> QED BY <2>6 DEF Kept
<1>3. CASE UNCHANGED <<map, rest>>
  <2>1. UNCHANGED target
    BY DEF TickExpire
  <2> QED BY <1>3, <2>1, Unseen DEF Present, IsTask
<1> QED BY <1>1, <1>2, <1>3 DEF TickExpire

LEMMA DestructKept ==
  ASSUME Destruct PROVE Kept
<1>1. /\ map' = [k \in Keys |-> None] /\ target' = [e \in Entries |-> None]
      /\ rest' = [o \in Keys \cup Entries |-> 0]
  BY DEF Destruct
<1>2. TimeoutOf' = [k \in Keys |-> None]
  BY <1>1 DEF TimeoutOf, Present
<1>3. Tasks' = {}
  BY <1>1, NameAssumption DEF Tasks, IsTask
<1>4. Promise!Destroy
  BY <1>1, <1>2, <1>3 DEF Promise!Destroy, TimeoutOf, Tasks
<1>5. Promise!Next
  BY <1>4 DEF Promise!Next
<1> QED BY <1>5 DEF Kept

\* Every step of the cache is a step of the promise, or none.
LEMMA NextKept ==
  ASSUME Scheduled PROVE IndInv /\ TimeInv /\ [Next]_vars => [Promise!Next]_(Promise!vars)
<1> SUFFICES ASSUME IndInv, TimeInv, [Next]_vars PROVE Kept
  BY PromiseStep
<1>1. TickShape /\ CallShape /\ KeysInv
  BY DEF TimeInv, KeysInv
<1>2. ASSUME NEW item \in tick.bucket, TickMoveDown(item) \/ TickRelease(item) PROVE Kept
  <2>1. CASE TickMoveDown(item)
    BY <2>1, Unseen DEF TickMoveDown, Present, IsTask
  <2> QED BY <1>1, <1>2, <2>1, ReleaseKept
<1>3. CASE TickPop \/ TickNext \/ LoopEnd \/ Destroyed \/ UNCHANGED vars
  <2>1. UNCHANGED <<map, target, rest>>
    BY <1>3 DEF TickPop, TickNext, LoopEnd, Destroyed, vars
  <2> QED BY <2>1, Unseen DEF Present, IsTask
<1> QED BY <1>1, <1>2, <1>3, CallsKept, ArmKept, DropKept, SecondKept, ExpireKept, DestructKept
        DEF Next, TickStep

LEMMA InitKept == Init => Promise!Init
<1> SUFFICES ASSUME Init PROVE Promise!Init
  OBVIOUS
<1>1. TimeoutOf = [k \in Keys |-> None]
  BY DEF Init, TimeoutOf, Present
<1>2. Tasks = {}
  BY NameAssumption DEF Init, Tasks, IsTask
<1>3. rest = [o \in Keys \cup Entries |-> 0]
  BY DEF Init
<1> QED BY <1>1, <1>2, <1>3 DEF Promise!Init, TimeoutOf, Tasks

\* The wheels implement the promise of ExpiringMap: a key is not erased, nor a task run,
\* before its time, and at most one second passes beyond it.  It takes delays that the
\* wheels can hold, and calls that come from the event loop or, with one wheel, calls that
\* return promptly.
THEOREM KeepsItsPromise ==
  ASSUME Scheduled PROVE Spec => ImplementsPromise
<1>1. Init => TimeInv
  BY TimeInvInit
<1>2. IndInv /\ TimeInv /\ [Next]_vars => TimeInv'
  BY TimeInvKept
<1>3. IndInv /\ TimeInv /\ [Next]_vars => [Promise!Next]_(Promise!vars)
  BY NextKept
<1>4. Init => Promise!Init
  BY InitKept
<1> QED BY <1>1, <1>2, <1>3, <1>4, IndInvHolds, PTL DEF Spec, ImplementsPromise, Promise!Spec

\* The timer callback takes no key away, and runs no task, before its time.
LEMMA StepNotEarly ==
  ASSUME IndInv, TimeInv, [Next]_vars
  PROVE  /\ \A k \in Keys : tick.firing = k /\ tick'.firing # k /\ Present(k) /\ ~ Present(k)'
                            => rest[k] <= 0
         /\ \A e \in Entries : IsTask(e) /\ ~ IsTask(e)' /\ ~ destructed' => rest[e] <= 0
<1>0. TickShape /\ CallShape /\ KeysInv
  BY DEF TimeInv, KeysInv
<1>1. ASSUME NEW k \in Keys, tick.firing = k, tick'.firing # k, Present(k), ~ Present(k)'
      PROVE  rest[k] <= 0
  <2>1. tick.stage = "release" /\ k # None
    BY <1>1, NameAssumption DEF IndInv, ItemShape, TypeOK
  <2>2. tick' # tick /\ tick.stage # "idle" /\ tick.stage # "pop" /\ tick.firing # None
    BY <1>1, <2>1
  <2>3. CASE TickExpire
    <3>1. Expires(k) /\ map[k].entry = None /\ call.stage # "stuck"
      BY <1>1, <2>3 DEF TickExpire, Present, Idle
    <3> QED BY <1>0, <3>1 DEF KeysInv, Leftover
  <2>4. ~ TickStart /\ ~ TickStep /\ ~ Destruct
    BY <2>2 DEF TickStart, TickStep, TickPop, TickMoveDown, TickRelease, TickNext, Destruct, TickIdle
  <2>5. ~ (CallStep \/ Arm \/ Drop \/ LoopEnd \/ Destroyed \/ UNCHANGED vars)
    BY <2>2 DEF CallStep, Access, Erase, Insert, InsertMove, RunAfter, Arm, Drop, LoopEnd,
                Destroyed, vars
  <2> QED BY <2>3, <2>4, <2>5 DEF Next
<1>2. ASSUME NEW e \in Entries, IsTask(e), ~ IsTask(e)', ~ destructed' PROVE rest[e] <= 0
  <2>1. target[e] = Task /\ target'[e] # Task
    BY <1>2 DEF IsTask
  <2>2. ASSUME NEW item \in tick.bucket, TickRelease(item) PROVE rest[e] <= 0
    <3>1. PICK x \in Entries : x = item.entry
      BY DEF IndInv, TypeOK, Items
    <3>2. /\ ~ InWheels(x) /\ ~ InBucket(tick.bucket \ {item}, x) /\ call.entry # x
          /\ ForgetEntry(x)
      BY <2>1, <2>2, <3>1 DEF TickRelease
    <3>3. x = e
      BY <2>1, <3>2 DEF ForgetEntry, IndInv, TypeOK
    <3>4. Owns(e, e)
      BY <1>2 DEF Owns
    <3> QED BY <1>0, <2>2, <3>1, <3>2, <3>3, <3>4, LastIsDue
  <2>3. ~ Drop
    <3> SUFFICES ASSUME Drop PROVE FALSE
      OBVIOUS
    <3>1. PICK x \in Entries : x = call.entry /\ target[x] \in Keys /\ ForgetEntry(x)
      BY <2>1, NameAssumption DEF Drop, IndInv, CallSound, WeakPointersSound
    <3>2. x = e
      BY <2>1, <3>1 DEF ForgetEntry, IndInv, TypeOK
    <3> QED BY <2>1, <3>1, <3>2, NameAssumption
  <2>4. ~ CallStep
    <3>1. ASSUME NEW m, NEW k, NEW d, EraseAfter(m, k, d) PROVE FALSE
      <4>1. PICK x \in Entries : target[x] = None /\ target' = [target EXCEPT ![x] = k]
        BY <2>1, <3>1 DEF EraseAfter
      <4> QED BY <2>1, <4>1, NameAssumption DEF IndInv, TypeOK
    <3>2. ASSUME NEW x \in Entries, NEW d \in Timeouts, RunAfter(x, d) PROVE FALSE
      BY <2>1, <3>2 DEF RunAfter, IndInv, TypeOK
    <3> QED BY <2>1, <3>1, <3>2 DEF CallStep, Access, Erase, Insert, InsertMove
  <2>5. ~ (Arm \/ TickStart \/ TickExpire \/ LoopEnd \/ Destruct \/ Destroyed \/ UNCHANGED vars)
    BY <1>2, <2>1 DEF Arm, TickStart, TickExpire, LoopEnd, Destruct, Destroyed, vars
  <2>6. ~ (TickPop \/ TickNext \/ \E item \in tick.bucket : TickMoveDown(item))
    BY <2>1 DEF TickPop, TickNext, TickMoveDown
  <2> QED BY <2>2, <2>3, <2>4, <2>5, <2>6 DEF Next, TickStep
<1> QED BY <1>1, <1>2

\* On the same conditions the timer callback erases no key and runs no task before its time.
\* With several wheels and calls from any thread it may: insertEntry can read a counter
\* that the timer callback has advanced for a wheel it has still to turn.
THEOREM NothingIsEarly ==
  ASSUME Scheduled PROVE Spec => NeverEarly
<1>1. Init => TimeInv
  BY TimeInvInit
<1>2. IndInv /\ TimeInv /\ [Next]_vars => TimeInv'
  BY TimeInvKept
<1>3. IndInv /\ TimeInv /\ [Next]_vars =>
        [/\ \A k \in Keys : tick.firing = k /\ tick'.firing # k /\ Present(k) /\ ~ Present(k)'
                            => rest[k] <= 0
         /\ \A e \in Entries : IsTask(e) /\ ~ IsTask(e)' /\ ~ destructed' => rest[e] <= 0]_vars
  BY StepNotEarly
<1> QED BY <1>1, <1>2, <1>3, IndInvHolds, PTL DEF Spec, NeverEarly

-----------------------------------------------------------------------------
(* The loop of insertEntry computes the placement. *)

LoopTyped == asked \in Nat \ {0} /\ start \in Nat

\* Before round i of the loop, its locals are what the placement says of wheel i, and the
\* delay fitted none of the wheels below.
InLoop ==
  /\ index \in LevelSet
  /\ delay = DelayAt(asked, start, index)
  /\ phase = start \div Pow[index]
  /\ slots = CapturedSlots(asked, start, index)
  /\ \A i \in LevelSet : i < index => ~ Fits(asked, start, i)

LoopInv ==
  /\ LoopTyped
  /\ place = <<>> => InLoop
  /\ place # <<>> => place[1] \in LevelSet /\ MatchesPlacement

LEMMA LoopInitially == InsertInit => LoopInv
<1> SUFFICES ASSUME InsertInit PROVE LoopInv
  OBVIOUS
<1> USE DEF InsertInit
<1>1. LoopTyped
  <2>1. Levels \in 0..Levels
    BY SizesAre
  <2>2. Pow[Levels] \in Nat
    BY <2>1, PowIs
  <2> QED BY <2>2, MaxDelayAssumption DEF LoopTyped
<1>2. delay = DelayAt(asked, start, index)
  BY <1>1, LowestWheel DEF LoopTyped
<1>3. phase = start \div Pow[index]
  <2>1. \A x \in Nat : x \div 1 = x
    OBVIOUS
  <2> QED BY <1>1, <2>1, WheelAssumption DEF LoopTyped
<1>4. slots = CapturedSlots(asked, start, index)
  BY DEF CapturedSlots
<1>5. index \in LevelSet /\ \A i \in LevelSet : ~ (i < index)
  BY SizesAre DEF LevelSet
<1> QED BY <1>1, <1>2, <1>3, <1>4, <1>5 DEF LoopInv, InLoop

\* One round of the loop leaves what the next wheel needs.
LEMMA NextWheel ==
  ASSUME NEW d \in Nat, NEW t \in Nat, NEW l \in LevelSet, l + 1 \in LevelSet
  PROVE  LET w == t \div Pow[l]
             x == DelayAt(d, t, l) + (w % Buckets) - 1
         IN  /\ x \div Buckets = DelayAt(d, t, l + 1) /\ x % Buckets = CapturedSlot(d, t, l)
             /\ w \div Buckets = t \div Pow[l + 1]
<1> DEFINE w == t \div Pow[l]
           v == t \div Pow[l + 1]
           u == Turn(d, t, l + 1)
           c == CapturedSlot(d, t, l)
           x == DelayAt(d, t, l) + (w % Buckets) - 1
           m == u + 1 - v
<1>1. /\ Turn(d, t, l) = Buckets * (u + 1) + c /\ v = w \div Buckets
      /\ u \in Int /\ v \in Int /\ w \in Int /\ c \in 0..(Buckets - 1) /\ Buckets \in Nat \ {0}
  BY TurnIs, TurnStep, SizesAre
<1>2. DelayAt(d, t, l) = Turn(d, t, l) + 1 - w /\ DelayAt(d, t, l + 1) = m
  BY DEF DelayAt
<1> HIDE DEF w, v, u, c
<1>3. w = Buckets * v + (w % Buckets) /\ w % Buckets \in Int
  BY <1>1, DivMod
<1>4. Buckets * (u + 1) \in Int /\ Buckets * v \in Int
  BY <1>1
<1>5. x = (Buckets * (u + 1) - Buckets * v) + c
  BY <1>1, <1>2, <1>3, <1>4
<1>6. Buckets * (u + 1) - Buckets * v = Buckets * m
  BY <1>1
<1>7. m \in Int /\ x = Buckets * m + c /\ x \in Int
  <2>1. Buckets * m \in Int
    BY <1>4, <1>6
  <2>2. c \in Int /\ m \in Int
    BY <1>1
  <2> HIDE DEF m, x
  <2> QED BY <1>5, <1>6, <2>1, <2>2
<1> HIDE DEF x, m
<1>8. x \div Buckets = m /\ x % Buckets = c
  BY <1>1, <1>7, DivIs
<1> QED BY <1>1, <1>2, <1>8 DEF x, w, v, c

LEMMA OneMoreSlot ==
  ASSUME NEW d \in Nat, NEW t \in Nat, NEW l \in LevelSet, l + 1 \in LevelSet
  PROVE  Append(CapturedSlots(d, t, l), CapturedSlot(d, t, l)) = CapturedSlots(d, t, l + 1)
<1> DEFINE a == CapturedSlots(d, t, l)
           b == CapturedSlots(d, t, l + 1)
           c == CapturedSlot(d, t, l)
<1>1. l \in Nat /\ (l + 1) - 1 = l /\ l + 1 \in 1..(l + 1)
  BY SizesAre DEF LevelSet
<1>2. IsSeq(a) /\ IsSeq(b) /\ Len(a) = l /\ Len(b) = l + 1
  BY CapturedSlotsType, SeqIsSeq
<1>3. \A i \in 1..l : a[i] = CapturedSlot(d, t, i - 1) /\ i \in 1..(l + 1)
  BY <1>1 DEF CapturedSlots
<1>4. \A i \in 1..(l + 1) : b[i] = CapturedSlot(d, t, i - 1)
  BY DEF CapturedSlots
<1> HIDE DEF a, b
<1>5. /\ IsSeq(Append(a, c)) /\ Len(Append(a, c)) = l + 1 /\ Append(a, c)[l + 1] = c
      /\ \A i \in 1..l : Append(a, c)[i] = a[i]
  BY <1>2, AppendIs
<1>6. ASSUME NEW i \in 1..(l + 1) PROVE Append(a, c)[i] = b[i]
  <2>1. CASE i = l + 1
    BY <1>1, <1>4, <1>5, <2>1
  <2>2. CASE i # l + 1
    <3>1. i \in 1..l
      BY <1>1, <2>2
    <3> QED BY <1>3, <1>4, <1>5, <3>1
  <2> QED BY <2>1, <2>2
<1>7. Append(a, c) = b
  BY <1>2, <1>5, <1>6, SameSeq
<1> QED BY <1>7 DEF a, b

LEMMA LoopStep == LoopInv /\ [InsertNext]_insertVars => LoopInv'
<1> SUFFICES ASSUME LoopInv, [InsertNext]_insertVars PROVE LoopInv'
  OBVIOUS
<1> USE DEF LoopInv
<1>1. CASE UNCHANGED insertVars
  BY <1>1 DEF insertVars, LoopTyped, InLoop, MatchesPlacement
<1>2. CASE Here
  <2>1. /\ place = <<>> /\ delay <= Buckets /\ place' = <<index, delay - 1>>
        /\ UNCHANGED <<asked, start, index, delay, phase, slots>>
    BY <1>2 DEF Here
  <2>2. place' # <<>> /\ place'[1] = index /\ place'[2] = delay - 1
    BY <2>1
  <2>3. /\ index \in LevelSet /\ delay = DelayAt(asked, start, index)
        /\ slots = CapturedSlots(asked, start, index)
        /\ Fits(asked, start, index) /\ LandsOn(asked, start, index)
    BY <2>1 DEF InLoop, LandsOn, Fits
  <2>4. LandingSlot(asked, start, index) = delay - 1
    BY <2>3, FitsInPlace DEF LoopTyped
  <2> QED BY <2>1, <2>2, <2>3, <2>4 DEF LoopTyped, MatchesPlacement
<1>3. CASE Wrap
  <2>1. /\ place = <<>> /\ index < Levels - 1 /\ delay > Buckets
        /\ slots' = Append(slots, (delay + (phase % Buckets) - 1) % Buckets)
        /\ delay' = (delay + (phase % Buckets) - 1) \div Buckets
        /\ phase' = phase \div Buckets /\ index' = index + 1
        /\ UNCHANGED <<asked, start, place>>
    BY <1>3 DEF Wrap, NextRound
  <2>2. /\ InLoop /\ index + 1 \in LevelSet /\ asked \in Nat /\ start \in Nat
        /\ \A i \in LevelSet : i < index + 1 => i < index \/ i = index
    BY <2>1, SizesAre DEF InLoop, LevelSet, LoopTyped
  <2>3. ~ Fits(asked, start, index)
    <3>1. DelayAt(asked, start, index) \in Int /\ Buckets \in Nat
      BY <2>2, TurnIs, SizesAre DEF InLoop
    <3> QED BY <2>1, <2>2, <3>1 DEF InLoop, Fits
  <2>4. delay' = DelayAt(asked, start, index + 1) /\ phase' = start \div Pow[index + 1]
        /\ slots' = Append(CapturedSlots(asked, start, index), CapturedSlot(asked, start, index))
    BY <2>1, <2>2, NextWheel DEF InLoop
  <2>5. slots' = CapturedSlots(asked, start, index + 1)
    BY <2>2, <2>4, OneMoreSlot DEF InLoop
  <2>6. InLoop'
    BY <2>1, <2>2, <2>3, <2>4, <2>5 DEF InLoop
  <2> QED BY <2>1, <2>6 DEF LoopTyped
<1>4. CASE TooLong
  <2>1. /\ place = <<>> /\ index = Levels - 1 /\ delay > Buckets
        /\ place' = <<index, Buckets - 1>>
        /\ UNCHANGED <<asked, start, slots>>
    BY <1>4 DEF TooLong
  <2>2. place' # <<>> /\ place'[1] = index /\ place'[2] = Buckets - 1
    BY <2>1
  <2>3. /\ index \in LevelSet /\ delay = DelayAt(asked, start, index)
        /\ slots = CapturedSlots(asked, start, index)
        /\ LandsOn(asked, start, index)
    BY <2>1 DEF InLoop, LandsOn
  <2>4. LandingSlot(asked, start, index) = Buckets - 1
    <3>1. delay \in Int /\ Buckets \in Nat
      BY <2>3, TurnIs, SizesAre DEF LoopTyped
    <3> QED BY <2>1, <2>3, <3>1 DEF LandingSlot
  <2> QED BY <2>1, <2>2, <2>3, <2>4 DEF LoopTyped, MatchesPlacement
<1>5. CASE InPlace
  BY <1>1, <1>5 DEF InPlace
<1> QED BY <1>1, <1>2, <1>3, <1>4, <1>5 DEF InsertNext

-----------------------------------------------------------------------------
(* The tick at which the entry is let go. *)

\* An entry is let go at a turn of the wheel it is in: q turns of wheel l from tick 0.
TurnsOf(l, x, q) == q \in Int /\ x = Pow[l] * q

\* From the bucket of the highest wheel: no later than the turn the placement reckons with.
LEMMA DropsFromHighest ==
  ASSUME NEW d \in Nat \ {0}, NEW t \in Nat, NEW n \in LevelSet, LandsOn(d, t, n)
  PROVE  LET q == t \div Pow[n] + LandingSlot(d, t, n) + 1
         IN  /\ TurnsOf(n, DropTick(n, LandingSlot(d, t, n), t), q)
             /\ q <= Turn(d, t, n) + 1
             /\ Fits(d, t, n) => q = Turn(d, t, n) + 1
<1> DEFINE w == t \div Pow[n]
           s == LandingSlot(d, t, n)
           u == Turn(d, t, n)
<1>1. w \in Int /\ u \in Int /\ Pow[n] \in Nat \ {0} /\ Buckets \in Nat \ {0}
  BY TurnIs, SizesAre
<1>2. DelayAt(d, t, n) = u + 1 - w
  BY DEF DelayAt
<1>3. Fits(d, t, n) => s = DelayAt(d, t, n) - 1
  BY FitsInPlace
<1>4. ~ Fits(d, t, n) => DelayAt(d, t, n) > Buckets /\ s = Buckets - 1
  BY <1>1, <1>2 DEF Fits, LandingSlot
<1> HIDE DEF w, s, u
<1>5. s \in Int /\ w + s + 1 <= u + 1 /\ (Fits(d, t, n) => w + s + 1 = u + 1)
  <2>1. CASE Fits(d, t, n)
    BY <1>1, <1>2, <1>3, <2>1
  <2>2. CASE ~ Fits(d, t, n)
    BY <1>1, <1>2, <1>4, <2>2
  <2> QED BY <2>1, <2>2
<1>6. TurnsOf(n, DropTick(n, s, t), w + s + 1)
  <2>1. DropTick(n, s, t) = (w + s + 1) * Pow[n]
    BY DEF DropTick, w
  <2> QED BY <1>1, <1>5, <2>1 DEF TurnsOf
<1> QED BY <1>5, <1>6 DEF w, s, u

\* From a bucket below it, into which the timer callback moved the entry at a turn of the
\* next higher wheel.
LEMMA DropsFromBelow ==
  ASSUME NEW d \in Nat, NEW t \in Nat, NEW l \in LevelSet, l + 1 \in LevelSet,
         NEW x, NEW q, TurnsOf(l + 1, x, q)
  PROVE  LET c == CapturedSlot(d, t, l)
             r == Buckets * q + c + 1
         IN  /\ TurnsOf(l, DropTick(l, c, x), r)
             /\ q <= Turn(d, t, l + 1) + 1 => r <= Turn(d, t, l) + 1
             /\ q = Turn(d, t, l + 1) + 1 => r = Turn(d, t, l) + 1
<1> DEFINE c == CapturedSlot(d, t, l)
           p == Pow[l]
           u == Turn(d, t, l + 1)
           v == Turn(d, t, l)
<1>1. /\ c \in Int /\ p \in Nat \ {0} /\ u \in Int /\ v \in Int /\ Buckets \in Nat \ {0}
      /\ v = Buckets * (u + 1) + c
  BY TurnIs, TurnStep, SizesAre
<1>2. Pow[l + 1] = Buckets * p /\ q \in Int /\ x = Pow[l + 1] * q
  <2>1. l \in 0..(Levels - 1)
    BY DEF LevelSet
  <2> QED BY <2>1, PowIs DEF TurnsOf
<1> HIDE DEF c, p, u, v
<1>3. Buckets * q \in Int /\ Buckets * (u + 1) \in Int
  BY <1>1, <1>2
<1>4. x = p * (Buckets * q) + 0 /\ x \in Int /\ 0 \in 0..(p - 1)
  <2>1. x = p * (Buckets * q) /\ p * (Buckets * q) \in Int
    BY <1>1, <1>2
  <2> QED BY <1>1, <2>1
<1>5. x \div p = Buckets * q
  BY <1>1, <1>3, <1>4, DivIs
<1>6. DropTick(l, c, x) = (Buckets * q + c + 1) * p
  BY <1>5 DEF DropTick, p
<1>7. TurnsOf(l, DropTick(l, c, x), Buckets * q + c + 1)
  <2>1. Buckets * q + c + 1 \in Int
    BY <1>1, <1>3
  <2>2. \A y \in Int : y * p = p * y
    BY <1>1
  <2> QED BY <1>6, <2>1, <2>2 DEF TurnsOf, p
<1>8. ASSUME q <= u + 1 PROVE Buckets * q + c + 1 <= v + 1
  <2>1. Buckets * q <= Buckets * (u + 1)
    BY <1>1, <1>2, <1>8, MulMono
  <2> QED BY <1>1, <1>3, <2>1
<1>9. ASSUME q = u + 1 PROVE Buckets * q + c + 1 = v + 1
  BY <1>1, <1>3, <1>9
<1> QED BY <1>7, <1>8, <1>9 DEF c, u, v

\* The ticks at which an entry that landed on wheel n leaves each of the wheels.
Descends(at, n) ==
  at = [l \in 0..n |-> IF l = n THEN DropTick(l, place[2], start)
                       ELSE DropTick(l, slots[l + 1], at[l + 1])]

Placed(n) == n \in LevelSet /\ place # <<>> /\ place[1] = n /\ LoopInv

LEMMA PlacedIs ==
  ASSUME NEW n, Placed(n)
  PROVE  /\ n \in Nat /\ n \in LevelSet /\ asked \in Nat \ {0} /\ start \in Nat
         /\ \A l \in 0..n : l \in LevelSet
         /\ LandsOn(asked, start, n) /\ place[2] = LandingSlot(asked, start, n)
         /\ \A l \in 0..(n - 1) : slots[l + 1] = CapturedSlot(asked, start, l)
<1>1. LoopTyped /\ MatchesPlacement /\ place # <<>> /\ place[1] = n /\ n \in LevelSet
  BY DEF Placed, LoopInv
<1>2. n \in Nat /\ \A l \in 0..n : l \in LevelSet
  BY <1>1, SizesAre DEF LevelSet
<1>3. LandsOn(asked, start, n) /\ place[2] = LandingSlot(asked, start, n)
  BY <1>1 DEF MatchesPlacement
<1>4. slots = CapturedSlots(asked, start, n)
  BY <1>1 DEF MatchesPlacement
<1>5. \A l \in 0..(n - 1) : slots[l + 1] = CapturedSlot(asked, start, l)
  <2>1. \A l \in 0..(n - 1) : l + 1 \in 1..n /\ (l + 1) - 1 = l
    BY <1>2
  <2> QED BY <1>4, <2>1 DEF CapturedSlots
<1> QED BY <1>1, <1>2, <1>3, <1>5 DEF LoopTyped

\* There are such ticks: the recursion goes down from wheel n to wheel 0.
LEMMA DescentExists ==
  ASSUME NEW n, Placed(n)
  PROVE  \E at : Descends(at, n)
<1> USE PlacedIs
<1> DEFINE base == DropTick(n, place[2], start)
           step == [j \in 1..n |-> [x \in Int |-> DropTick(n - j, slots[(n - j) + 1], x)]]
<1>1. n \in Nat
  OBVIOUS
<1>2. ASSUME NEW l \in LevelSet, NEW x \in Int, NEW s \in Int PROVE DropTick(l, s, x) \in Int
  <2>1. x \div Pow[l] \in Int /\ Pow[l] \in Nat \ {0}
    BY TurnIs
  <2> DEFINE w == x \div Pow[l]
  <2> HIDE DEF w
  <2>2. w \in Int
    BY <2>1 DEF w
  <2>3. (w + s + 1) * Pow[l] \in Int
    BY <2>1, <2>2
  <2> QED BY <2>3 DEF DropTick, w
<1>3. base \in Int
  BY DropsFromHighest, TurnIs DEF TurnsOf
<1>4. step \in [1..n -> [Int -> Int]]
  <2>1. ASSUME NEW j \in 1..n, NEW x \in Int PROVE DropTick(n - j, slots[(n - j) + 1], x) \in Int
    <3>1. n - j \in 0..(n - 1) /\ n - j \in 0..n
      BY <1>1
    <3>2. n - j \in LevelSet /\ slots[(n - j) + 1] = CapturedSlot(asked, start, n - j)
      BY <3>1
    <3>3. CapturedSlot(asked, start, n - j) \in 0..(Buckets - 1)
      BY <3>2, TurnIs
    <3>4. slots[(n - j) + 1] \in Int
      BY <3>2, <3>3, SizesAre
    <3> QED BY <1>2, <3>2, <3>4
  <2> QED BY <2>1
<1>5. PICK f : Iterates(f, n, Int, base, step)
  <2> HIDE DEF step, base
  <2> QED BY <1>1, <1>3, <1>4, RecursionExists
<1>6. f[0] = base /\ \A j \in 1..n : f[j] = DropTick(n - j, slots[(n - j) + 1], f[j - 1])
  <2>1. ASSUME NEW j \in 1..n PROVE f[j] = DropTick(n - j, slots[(n - j) + 1], f[j - 1])
    <3>1. j - 1 \in 0..n
      BY <1>1
    <3>2. f[j - 1] \in Int /\ f[j] = step[j][f[j - 1]]
      BY <1>5, <3>1 DEF Iterates
    <3> QED BY <3>2
  <2> QED BY <1>5, <2>1 DEF Iterates
<1> HIDE DEF step
<1> DEFINE at == [l \in 0..n |-> f[n - l]]
<1>7. ASSUME NEW l \in 0..n
      PROVE  at[l] = IF l = n THEN DropTick(l, place[2], start)
                     ELSE DropTick(l, slots[l + 1], at[l + 1])
  <2>1. CASE l = n
    <3>1. n - l = 0
      BY <1>1, <2>1
    <3> QED BY <1>6, <2>1, <3>1
  <2>2. CASE l # n
    <3>1. n - l \in 1..n /\ n - (n - l) = l /\ (n - l) - 1 = n - (l + 1) /\ l + 1 \in 0..n
      BY <1>1, <2>2
    <3>2. at[l] = DropTick(l, slots[l + 1], f[n - (l + 1)])
      BY <1>6, <3>1
    <3>3. at[l + 1] = f[n - (l + 1)]
      BY <3>1
    <3> QED BY <2>2, <3>2, <3>3
  <2> QED BY <2>1, <2>2
<1>8. Descends(at, n)
  BY <1>7 DEF Descends
<1> QED BY <1>8

\* ... and each is a turn of its wheel that is no later than the placement reckons with, and
\* that one itself when the delay fitted the wheel it landed on.
LEMMA DescentMeets ==
  ASSUME NEW n, Placed(n), NEW at, Descends(at, n)
  PROVE  /\ at[0] <= start + asked + 1
         /\ Fits(asked, start, n) => at[0] = start + asked + 1
<1> USE PlacedIs
<1> DEFINE Meets(l, q) == /\ TurnsOf(l, at[l], q) /\ q <= Turn(asked, start, l) + 1
                          /\ Fits(asked, start, n) => q = Turn(asked, start, l) + 1
           S == {j \in 0..n : \E q : Meets(n - j, q)}
<1>1. n \in Nat
  OBVIOUS
<1>2. ASSUME NEW l \in 0..n
      PROVE  at[l] = IF l = n THEN DropTick(l, place[2], start)
                     ELSE DropTick(l, slots[l + 1], at[l + 1])
  BY DEF Descends
<1>3. 0 \in S
  <2>1. at[n] = DropTick(n, LandingSlot(asked, start, n), start)
    BY <1>1, <1>2
  <2>2. \E q : Meets(n, q)
    BY <2>1, DropsFromHighest
  <2>3. n - 0 = n /\ 0 \in 0..n
    BY <1>1
  <2> HIDE DEF Meets
  <2> QED BY <2>2, <2>3
<1>4. ASSUME NEW j \in 0..(n - 1), j \in S PROVE j + 1 \in S
  <2> DEFINE l == n - (j + 1)
  <2>1. l \in 0..(n - 1) /\ l \in 0..n /\ l # n /\ n - j = l + 1 /\ l + 1 \in 0..n /\ j + 1 \in 0..n
    BY <1>1
  <2>2. PICK q : Meets(n - j, q)
    BY <1>4
  <2> HIDE DEF l
  <2>3. at[l] = DropTick(l, CapturedSlot(asked, start, l), at[l + 1])
    BY <1>2, <2>1
  <2>4. Meets(l, Buckets * q + CapturedSlot(asked, start, l) + 1)
    <3>1. Meets(l + 1, q)
      BY <2>1, <2>2
    <3>2. l \in LevelSet /\ l + 1 \in LevelSet
      BY <2>1
    <3> QED BY <2>3, <3>1, <3>2, DropsFromBelow
  <2> HIDE DEF Meets
  <2> QED BY <2>1, <2>4 DEF l
<1>5. n \in S
  <2> HIDE DEF S
  <2>1. n \in 0..n
    BY <1>1
  <2> QED BY <1>1, <1>3, <1>4, <2>1, UpToInduction
<1>6. PICK q : Meets(0, q)
  <2>1. n - n = 0
    BY <1>1
  <2> QED BY <1>5, <2>1
<1>7. Pow[0] = 1 /\ Turn(asked, start, 0) = asked + start
  <2>1. Pow[0] = 1 /\ Carry(0) = 0
    BY CarryIs, WheelAssumption
  <2>2. \A x \in Int : x \div 1 = x
    OBVIOUS
  <2> QED BY <2>1, <2>2 DEF Turn
<1>8. q \in Int /\ at[0] = q
  BY <1>6, <1>7 DEF TurnsOf
<1> QED BY <1>6, <1>7, <1>8

LEMMA FiresOnTime == LoopInv => ExactUpToMaximum /\ NeverStretched
<1> SUFFICES ASSUME LoopInv, place # <<>>
             PROVE  /\ FiringTick <= start + asked + 1
                    /\ asked <= Longest => FiringTick = start + asked + 1
  BY DEF ExactUpToMaximum, NeverStretched
<1> DEFINE n == place[1]
           at == CHOOSE f : Descends(f, n)
<1>1. Placed(n)
  BY DEF Placed, LoopInv
<1> HIDE DEF n
<1>2. Descends(at, n)
  BY <1>1, DescentExists
<1>3. FiringTick = at[0]
  <2>1. FiringTick = (CHOOSE f : f = [l \in 0..n |-> IF l = n THEN DropTick(n, place[2], start)
                                      ELSE DropTick(l, slots[l + 1], f[l + 1])])[0]
    BY DEF FiringTick, n
  <2> QED BY <2>1 DEF Descends
<1> HIDE DEF at
<1>4. asked <= Longest => Fits(asked, start, n)
  BY <1>1, PlacedIs, LastFits DEF LandsOn
<1> QED BY <1>1, <1>2, <1>3, <1>4, DescentMeets

\* insertEntry loses no time in the cascade, for every shape of the wheels, every delay and
\* every phase: the loop puts the entry where CacheMap's placement says, and the timer
\* callback lets it go at the tick after its delay, up to the longest delay there is a
\* bucket for, and never later for a longer one.
THEOREM InsertedOnTime == InsertSpec => []InsertionExact
<1>1. InsertSpec => []LoopInv
  BY LoopInitially, LoopStep, PTL DEF InsertSpec
<1>2. LoopInv => InsertionExact
  BY FiresOnTime DEF LoopInv, InsertionExact, MatchesPlacement
<1> QED BY <1>1, <1>2, PTL
=============================================================================
