---------------------------- MODULE TimingWheel ----------------------------
(***************************************************************************)
(* The shape of the timing wheels of CacheMap (lib/inc/xiaoHttp/CacheMap.h *)
(* and where insertEntry puts an entry, as a function of the delay and of  *)
(* the tick counter.  InsertEntryLoop runs the loop of the source step by  *)
(* step and checks that it computes these functions.                       *)
(***************************************************************************)
EXTENDS Integers, Sequences

CONSTANTS
  Levels,        \* wheelsNumber_
  Buckets,       \* bucketsNumPerWheel_
  Pow            \* Pow[i] = Buckets^i, the local "pow" of the timer callback

ASSUME WheelAssumption ==
  /\ Levels \in Nat \ {0}
  /\ Buckets \in Nat \ {0, 1}
  /\ Pow \in [0..Levels -> Nat \ {0}]
  /\ Pow[0] = 1
  /\ \A i \in 1..Levels : Pow[i] = Buckets * Pow[i - 1]

LevelSet == 0..(Levels - 1)
SlotSet  == 0..(Buckets - 1)

\* insertEntry(d, _) at tick t walks up the wheels and divides the delay as it
\* goes.  After i rounds its local "delay" is DelayAt, and a wrapper made in that
\* round captures the bucket CapturedSlot of wheel i.
Carry(i)              == (Buckets * (Pow[i] - 1)) \div (Buckets - 1)
Turn(d, t, i)         == (d + t - Carry(i)) \div Pow[i]

\* Mutants: the "++delay" for the bucket that goes next is left out, or
\* the phase of the counter in its wheel is.
DelayAtNoIncrement(d, t, i)    == Turn(d, t, i) - t \div Pow[i]
CapturedSlotNoPhase(d, t, i)   == (Turn(d, t, i) - t \div Pow[i]) % Buckets

DelayAt(d, t, i)      == Turn(d, t, i) + 1 - t \div Pow[i]
CapturedSlot(d, t, i) == Turn(d, t, i) % Buckets

Fits(d, t, i) == DelayAt(d, t, i) <= Buckets

\* The wheel the loop stops at: the first one the delay fits, or the last one.
LandsOn(d, t, l) ==
  /\ Fits(d, t, l) \/ l = Levels - 1
  /\ \A i \in LevelSet : i < l => ~ Fits(d, t, i)

\* Mutant: the bucket's position counts from one.
LandingSlotFromOne(d, t, l) ==
  IF DelayAt(d, t, l) \in 1..Buckets THEN DelayAt(d, t, l) ELSE Buckets

LandingSlot(d, t, l) ==
  IF DelayAt(d, t, l) \in 1..Buckets THEN DelayAt(d, t, l) - 1 ELSE Buckets - 1

\* The longest delay for which there is a bucket.
Longest == (Buckets - 1) * Pow[Levels - 1] + Carry(Levels - 1)

CapturedSlots(d, t, l) == [i \in 1..l |-> CapturedSlot(d, t, i - 1)]
=============================================================================
