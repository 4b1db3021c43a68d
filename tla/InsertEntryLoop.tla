-------------------------- MODULE InsertEntryLoop --------------------------
(***************************************************************************)
(* CacheMap::insertEntry, one iteration of its loop per step, for every    *)
(* delay and every phase of the wheels; and, once it is done, the tick at  *)
(* which the timer callback will let the entry go if nothing touches it.   *)
(***************************************************************************)
EXTENDS TimingWheel

CONSTANT MaxDelay     \* bounds the delays

ASSUME MaxDelayAssumption == MaxDelay \in Nat

VARIABLES
  asked,     \* the delay passed in, in ticks
  start,     \* the tick counter at the call
  index,     \* i, the loop counter
  delay,     \* the local of insertEntry,
  phase,     \* ... and t
  slots,     \* the bucket captured by the wrapper of each round
  place      \* <<wheel, bucket>>, or <<>> before the insertion

insertVars == <<asked, start, index, delay, phase, slots, place>>

\* "if (delay <= 0) return;" leaves nothing to look at, so asked > 0.
InsertInit ==
  /\ asked \in 1..MaxDelay
  /\ start \in 0..(Pow[Levels] - 1)
  /\ index = 0
  /\ delay = asked + 1
  /\ phase = start
  /\ slots = <<>>
  /\ place = <<>>

NextRound ==
  /\ delay' = (delay + (phase % Buckets) - 1) \div Buckets
  /\ phase' = phase \div Buckets
  /\ index' = index + 1

Here ==
  /\ place = <<>> /\ index < Levels
  /\ delay <= Buckets
  /\ place' = <<index, delay - 1>>
  /\ UNCHANGED <<asked, start, index, delay, phase, slots>>

\* Mutant: the captured bucket ignores the phase of the wheel.
WrapNoPhase ==
  /\ place = <<>> /\ index < Levels - 1
  /\ delay > Buckets
  /\ slots' = Append(slots, (delay - 1) % Buckets)
  /\ NextRound
  /\ UNCHANGED <<asked, start, place>>

Wrap ==
  /\ place = <<>> /\ index < Levels - 1
  /\ delay > Buckets
  /\ slots' = Append(slots, (delay + (phase % Buckets) - 1) % Buckets)
  /\ NextRound
  /\ UNCHANGED <<asked, start, place>>

\* "delay is too long to put entry at valid position in wheels"
TooLong ==
  /\ place = <<>> /\ index = Levels - 1
  /\ delay > Buckets
  /\ place' = <<index, Buckets - 1>>
  /\ NextRound
  /\ UNCHANGED <<asked, start, slots>>

InPlace == place # <<>> /\ UNCHANGED insertVars

InsertNext == Here \/ Wrap \/ TooLong \/ InPlace

InsertSpec == InsertInit /\ [][InsertNext]_insertVars

-----------------------------------------------------------------------------
\* The loop puts the entry where the functions of TimingWheel, which CacheMap
\* uses as one step, say it does.
MatchesPlacement ==
  place # <<>> =>
    /\ LandsOn(asked, start, place[1])
    /\ place[2] = LandingSlot(asked, start, place[1])
    /\ slots = CapturedSlots(asked, start, place[1])

\* When an item put in bucket s of wheel l at tick now is dropped: wheel l turns
\* at the multiples of Pow[l].
DropTick(l, s, now) == (now \div Pow[l] + s + 1) * Pow[l]

\* ... and when the entry in it is, after it has been moved down to wheel 0.
FiringTick ==
  LET at[l \in 0..place[1]] ==
        IF l = place[1] THEN DropTick(l, place[2], start)
        ELSE DropTick(l, slots[l + 1], at[l + 1])
  IN  at[0]

\* The cascade loses no time: whatever the phase of the wheels, an entry is let go
\* at the tick after its delay, up to the longest delay there is a bucket for (with
\* more than one wheel that is beyond the maximum the class documents).
ExactUpToMaximum ==
  place # <<>> /\ asked <= Longest => FiringTick = start + asked + 1

\* A delay beyond that may be cut short; it is never stretched.
NeverStretched ==
  place # <<>> => FiringTick <= start + asked + 1

\* An entry goes where the placement says, and is let go when its delay says.
InsertionExact == MatchesPlacement /\ ExactUpToMaximum /\ NeverStretched
=============================================================================
