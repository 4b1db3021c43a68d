---------------------------- MODULE Async_proofs ----------------------------
(***************************************************************************)
(* Proofs about what the program does across threads and callbacks, for    *)
(* any threads, classes, requests, chains and configurations:              *)
(*   - every caller of DrClassMap::getSingleInstance gets the same         *)
(*     instance of a class, whichever way constructors use each other;     *)
(*   - a request reaches its handler only through all the advices and      *)
(*     filters before it, in their order, and is answered at most once;    *)
(*   - plugins start in the order of their dependencies and are shut down  *)
(*     in the reverse one, and the program aborts only for a missing or    *)
(*     circular dependency;                                                *)
(*   - the end of a test run is signalled once, after its last callback,   *)
(*     and the numbers it prints count every assertion;                    *)
(*   - a coroutine goes on in the event loop it asked for, and its caller  *)
(*     gets what it ended with.                                            *)
(***************************************************************************)
EXTENDS ClassMap, RequestChain, Plugins, TestRun, Coroutines, SequenceInduction,
        SequenceTheorems, FiniteSetTheorems, TLAPS

-----------------------------------------------------------------------------
(* DrClassMap *)

\* What was returned since an instance of the class was last set is what the map has;
\* what was returned before is told apart by its number of settings.
\* (setSingleInstance is for the classes of the program: others are never set.)
ReturnedIsKept ==
  \A x \in got :
    /\ x.class \notin Classes \/ x.settings = settings[x.class] =>
         x.class \in DOMAIN instances /\ x.object = instances[x.class]
    /\ x.class \in Classes => x.settings \in Nat /\ x.settings <= settings[x.class]

ClassInv ==
  /\ settings \in [Classes -> Nat]
  /\ ReturnedIsKept
  /\ OneInstance

\* Whoever returns what the map has, in the end, says nothing new about a class.
LEMMA ReturnAgrees ==
  ASSUME ClassInv, NEW t \in Callers, UNCHANGED settings,
         DOMAIN instances \subseteq DOMAIN instances',
         \A d \in DOMAIN instances : instances'[d] = instances[d],
         Call(t).class \in DOMAIN instances',
         ReturnWith(t, instances'[Call(t).class])
  PROVE  ClassInv'
<1> DEFINE c == Call(t).class
           new == [class |-> c, object |-> instances'[c], settings |-> settings[c]]
<1>1. got' = got \cup {new}
  BY DEF ReturnWith
<1>2. \A x \in got : x.class = c /\ x.settings = settings[c] => x.object = instances'[c]
  BY DEF ClassInv, ReturnedIsKept
<1>3. OneInstance'
  BY <1>1, <1>2 DEF OneInstance, ClassInv
<1>4. ReturnedIsKept'
  <2>1. \A x \in got : x.class \notin Classes \/ x.settings = settings[x.class] =>
          x.class \in DOMAIN instances' /\ x.object = instances'[x.class]
    BY DEF ClassInv, ReturnedIsKept
  <2>2. c \in Classes => settings[c] \in Nat
    BY DEF ClassInv
  <2> QED BY <1>1, <2>1, <2>2 DEF ReturnedIsKept, ClassInv
<1> QED BY <1>3, <1>4 DEF ClassInv

LEMMA LookStep ==
  ASSUME ClassInv, NEW t \in Callers, Look(t)
  PROVE  ClassInv'
<1>1. CASE Call(t).class \in DOMAIN instances
  <2>1. ReturnWith(t, instances'[Call(t).class]) /\ UNCHANGED <<instances, settings>>
    BY <1>1 DEF Look
  <2> QED BY <1>1, <2>1, ReturnAgrees
<1>2. CASE Call(t).class \notin DOMAIN instances
  BY <1>2 DEF Look, ClassInv, ReturnedIsKept, OneInstance
<1> QED BY <1>1, <1>2

LEMMA InsertStep ==
  ASSUME ClassInv, NEW t \in Callers, Insert(t)
  PROVE  ClassInv'
<1>1. /\ instances' = WithInstance(Call(t).class, Call(t).made)
      /\ ReturnWith(t, instances'[Call(t).class])
      /\ UNCHANGED settings
  BY DEF Insert
<1>2. /\ DOMAIN instances \subseteq DOMAIN instances'
      /\ Call(t).class \in DOMAIN instances'
      /\ \A d \in DOMAIN instances : instances'[d] = instances[d]
  BY <1>1 DEF WithInstance, Assigned
<1>3. UNCHANGED settings /\ ReturnWith(t, instances'[Call(t).class])
  BY <1>1
<1> QED BY <1>2, <1>3, ReturnAgrees

LEMMA SetStep ==
  ASSUME ClassInv, NEW t \in Callers, NEW c \in Classes, SetSingleInstance(t, c)
  PROVE  ClassInv'
<1>1. /\ UNCHANGED got
      /\ settings' = [settings EXCEPT ![c] = @ + 1]
      /\ instances' = Assigned(c, objects')
  BY DEF SetSingleInstance
<1>2. settings' \in [Classes -> Nat] /\ settings'[c] = settings[c] + 1
      /\ \A d \in Classes : d # c => settings'[d] = settings[d]
  <2>1. settings' \in [Classes -> Nat] /\ settings'[c] = settings[c] + 1
    BY <1>1 DEF ClassInv
  <2>2. \A d \in Classes : d # c => settings'[d] = settings[d]
    BY <1>1 DEF ClassInv
  <2> QED BY <2>1, <2>2
<1>3. ASSUME NEW x \in got
      PROVE  /\ x.class \notin Classes \/ x.settings = settings'[x.class] =>
                  x.class \in DOMAIN instances' /\ x.object = instances'[x.class]
             /\ x.class \in Classes => x.settings \in Nat /\ x.settings <= settings'[x.class]
  <2>1. CASE x.class = c
    <3>1. x.settings \in Nat /\ x.settings <= settings[c] /\ settings[c] \in Nat
      BY <2>1 DEF ClassInv, ReturnedIsKept
    <3> QED BY <2>1, <3>1, <1>2
  <2>2. CASE x.class # c
    BY <2>2, <1>1, <1>2 DEF ClassInv, ReturnedIsKept, Assigned
  <2> QED BY <2>1, <2>2
<1> QED BY <1>1, <1>2, <1>3 DEF ClassInv, ReturnedIsKept, OneInstance

LEMMA ClassStepKeeps == ClassInv /\ [ClassNext]_classVars => ClassInv'
<1> SUFFICES ASSUME ClassInv, [ClassNext]_classVars PROVE ClassInv'
  OBVIOUS
<1>1. CASE UNCHANGED classVars
  BY <1>1 DEF classVars, ClassInv, ReturnedIsKept, OneInstance
<1>2. ASSUME UNCHANGED <<instances, settings, got>> PROVE ClassInv'
  BY <1>2 DEF ClassInv, ReturnedIsKept, OneInstance
<1>3. ASSUME NEW c \in Classes, RegisterClass(c) PROVE ClassInv'
  BY <1>2, <1>3 DEF RegisterClass
<1>4. ASSUME NEW t \in Callers, NEW c \in Classes, GetSingleInstance(t, c) PROVE ClassInv'
  BY <1>2, <1>4 DEF GetSingleInstance
<1>5. ASSUME NEW t \in Callers, Create(t) \/ ConstructorAsks(t) \/ ConstructorEnds(t)
      PROVE  ClassInv'
  BY <1>2, <1>5 DEF Create, ConstructorAsks, ConstructorEnds
<1> QED BY <1>1, <1>3, <1>4, <1>5, LookStep, InsertStep, SetStep DEF ClassNext

\* However many threads ask for the instance of a class at once, and construct objects of
\* it at once while the mutex is given up, all get the same one until another is set.
THEOREM AllGetTheSame == ClassSpec => []OneInstance
<1>1. ClassInit => ClassInv
  BY DEF ClassInit, ClassInv, ReturnedIsKept, OneInstance
<1>2. ClassInv /\ [ClassNext]_classVars => ClassInv'
  BY ClassStepKeeps
<1>3. ClassInv => OneInstance
  BY DEF ClassInv
<1> QED BY <1>1, <1>2, <1>3, PTL DEF ClassSpec

-----------------------------------------------------------------------------
(* The chain of advices and filters *)

Chain(s) == Steps[Stages[s]]
Fs == (UNION {Range(Chain(s)) : s \in DOMAIN Stages}) \cup Range(GlobalFilterIds)

\* What is required of a request before step i of stage s
InStage(s, r) == [j \in DOMAIN Chain(s) |-> Inside(Chain(s)[j], r)]
OfStages(r) == [s \in DOMAIN Stages |-> FlattenSeq(InStage(s, r))]
RequiredBefore(s, i, r) == Joined(OfStages(r))[s - 1] \o Joined(InStage(s, r))[i - 1]

\* Where a request is, and how it came there
Now(r) == [where |-> where[r], stage |-> stage[r], chain |-> chains[r], passed |-> passed[r]]
OnWay == {"calling", "inStep", "held", "queued"}
\* A request in the queue has been let go by a step that is still the one of its frame.
Over(x) == IF x.where = "queued" THEN 1 ELSE 0

FrameOf(p, s, i) == [plugin |-> p, stage |-> s, index |-> i]
StageFrame(s, i) == FrameOf(FALSE, s, i)
FilterFrame(s, j) == FrameOf(TRUE, s, j)

InStageAt(r, x, fs, i) ==
  /\ x.chain = <<StageFrame(x.stage, i)>>
  /\ x.where # "calling" => i <= Len(Chain(x.stage)) /\ Chain(x.stage)[i] # Plugin
  /\ fs # <<>> => x.passed = RequiredBefore(x.stage, i + Over(x), r)
InPluginAt(r, x, fs, i, j) ==
  /\ i <= Len(Chain(x.stage)) /\ Chain(x.stage)[i] = Plugin /\ r \notin Exempt
  /\ x.chain = <<StageFrame(x.stage, i), FilterFrame(x.stage, j)>>
  /\ fs # <<>> =>
       /\ j + Over(x) <= Len(fs) + 1
       /\ x.where # "calling" => j <= Len(fs)
       /\ x.passed = RequiredBefore(x.stage, i, r) \o SubSeq(fs, 1, j + Over(x) - 1)
Placed(r, x, fs) ==
  /\ x.where \in OnWay =>
       /\ x.stage \in DOMAIN Stages
       /\ \E i \in 1..(Len(Chain(x.stage)) + 1) :
            \/ InStageAt(r, x, fs, i)
            \/ \E j \in Nat \ {0} : InPluginAt(r, x, fs, i, j)
  /\ x.where = "new" => x.stage = 1 /\ x.passed = <<>>
  /\ x.where = "handling" /\ fs # <<>> => x.passed = Required(r)

Wheres == OnWay \cup {"new", "handling", "answered", "dropped"}
ChainTyped ==
  /\ where \in [Reqs -> Wheres]
  /\ stage \in [Reqs -> Nat]
  /\ chains = [r \in Reqs |-> chains[r]]
  /\ passed = [r \in Reqs |-> passed[r]]
  /\ replies \in [Reqs -> Nat]
  /\ posted \in Seq(Reqs)
  /\ filters \in {<<>>, GlobalFilterIds}
  /\ ~alive => filters = <<>>

QueuedOnce ==
  /\ \A i, j \in 1..Len(posted) : posted[i] = posted[j] => i = j
  /\ \A i \in 1..Len(posted) : where[posted[i]] = "queued"
Replied == \A r \in Reqs : replies[r] = IF where[r] = "answered" THEN 1 ELSE 0

ChainInv ==
  /\ ChainTyped
  /\ QueuedOnce
  /\ Replied
  /\ CalledOnLoop
  /\ \A r \in Reqs : Placed(r, Now(r), filters)

-----------------------------------------------------------------------------
LEMMA ChainsAre ==
  /\ Len(Stages) \in Nat \ {0} /\ DOMAIN Stages = 1..Len(Stages)
  /\ \A s \in DOMAIN Stages : Chain(s) \in Seq(Fs)
  /\ GlobalFilterIds \in Seq(Fs)
<1>1. Len(Stages) \in Nat \ {0} /\ DOMAIN Stages = 1..Len(Stages)
  BY ChainAssumption, EmptySeq
<1>2. ASSUME NEW s \in DOMAIN Stages PROVE Chain(s) \in Seq(Fs)
  <2>1. Chain(s) \in Seq(Range(Chain(s)))
    BY ChainAssumption DEF Chain
  <2>2. Range(Chain(s)) \subseteq Fs
    BY DEF Fs
  <2> QED BY <2>1, <2>2, SeqMonotonic
<1>3. GlobalFilterIds \in Seq(Fs)
  <2>1. Range(GlobalFilterIds) \subseteq Fs
    BY DEF Fs
  <2> QED BY <2>1, ChainAssumption, SeqMonotonic
<1> QED BY <1>1, <1>2, <1>3

LEMMA InStageIs ==
  ASSUME NEW r, NEW s \in DOMAIN Stages
  PROVE  /\ InStage(s, r) \in Seq(Seq(Fs)) /\ Len(InStage(s, r)) = Len(Chain(s))
         /\ \A i \in 1..Len(Chain(s)) : InStage(s, r)[i] = Inside(Chain(s)[i], r)
         /\ FlattenSeq(InStage(s, r)) \in Seq(Fs)
         /\ FlattenSeq(InStage(s, r)) = Joined(InStage(s, r))[Len(Chain(s))]
<1> DEFINE n == Len(Chain(s))
<1>1. Chain(s) \in Seq(Fs) /\ n \in Nat /\ DOMAIN Chain(s) = 1..n
  BY ChainsAre
<1>2. ASSUME NEW i \in 1..n PROVE Inside(Chain(s)[i], r) \in Seq(Fs)
  <2>1. Chain(s)[i] \in Fs
    BY <1>1
  <2>2. <<Chain(s)[i]>> \in Seq(Fs) /\ <<>> \in Seq(Fs)
    BY <2>1
  <2> QED BY <2>2, ChainsAre DEF Inside
<1>3. InStage(s, r) = [i \in 1..n |-> Inside(Chain(s)[i], r)]
  BY <1>1 DEF InStage
<1> HIDE DEF n
<1>4. InStage(s, r) \in [1..n -> Seq(Fs)]
  BY <1>2, <1>3
<1>5. InStage(s, r) \in Seq(Seq(Fs)) /\ Len(InStage(s, r)) = n
  BY <1>1, <1>4
<1>6. FlattenSeq(InStage(s, r)) = Joined(InStage(s, r))[n]
  BY <1>5, FlattenIsJoined
<1>7. Joined(InStage(s, r))[n] \in Seq(Fs)
  <2>1. Joins(Joined(InStage(s, r)), InStage(s, r), Fs)
    BY <1>5, JoinedJoins
  <2>2. n \in 0..n
    BY <1>1 DEF n
  <2> QED BY <1>5, <2>1, <2>2 DEF Joins
<1> QED BY <1>3, <1>5, <1>6, <1>7 DEF n

LEMMA OfStagesIs ==
  ASSUME NEW r
  PROVE  /\ OfStages(r) \in Seq(Seq(Fs)) /\ Len(OfStages(r)) = Len(Stages)
         /\ \A s \in DOMAIN Stages : OfStages(r)[s] = FlattenSeq(InStage(s, r))
<1>1. OfStages(r) \in [1..Len(Stages) -> Seq(Fs)]
  BY ChainsAre, InStageIs DEF OfStages
<1>2. OfStages(r) \in Seq(Seq(Fs)) /\ Len(OfStages(r)) = Len(Stages)
  BY <1>1, ChainsAre
<1> QED BY <1>2 DEF OfStages

\* Nothing is required at first; each step adds what is inside it, and the end of a stage
\* is the start of the next.
LEMMA RequiredSteps ==
  ASSUME NEW r, NEW s \in DOMAIN Stages
  PROVE  /\ RequiredBefore(1, 1, r) = <<>>
         /\ \A i \in 1..(Len(Chain(s)) + 1) : RequiredBefore(s, i, r) \in Seq(Fs)
         /\ \A i \in 1..Len(Chain(s)) :
              RequiredBefore(s, i + 1, r) = RequiredBefore(s, i, r) \o Inside(Chain(s)[i], r)
         /\ s < Len(Stages) =>
              RequiredBefore(s + 1, 1, r) = RequiredBefore(s, Len(Chain(s)) + 1, r)
         /\ s = Len(Stages) => RequiredBefore(s, Len(Chain(s)) + 1, r) = Required(r)
<1> DEFINE n == Len(Chain(s))
           m == Len(Stages)
           F == Joined(OfStages(r))
           J(k) == Joined(InStage(k, r))
<1>1. n \in Nat /\ m \in Nat \ {0} /\ DOMAIN Stages = 1..m /\ s \in 1..m
  BY ChainsAre
<1>2. /\ F \in [0..m -> Seq(Fs)] /\ F[0] = <<>>
      /\ \A k \in 1..m : F[k] = F[k - 1] \o FlattenSeq(InStage(k, r))
  BY <1>1, OfStagesIs, JoinedJoins, ZenonT(40) DEF Joins
<1>3. ASSUME NEW k \in 1..m
      PROVE  /\ J(k) \in [0..Len(Chain(k)) -> Seq(Fs)] /\ J(k)[0] = <<>>
             /\ \A i \in 1..Len(Chain(k)) : J(k)[i] = J(k)[i - 1] \o Inside(Chain(k)[i], r)
             /\ FlattenSeq(InStage(k, r)) = J(k)[Len(Chain(k))]
  <2>1. Joins(J(k), InStage(k, r), Fs)
    BY <1>1, InStageIs, JoinedJoins
  <2>2. /\ Len(InStage(k, r)) = Len(Chain(k))
        /\ \A i \in 1..Len(Chain(k)) : InStage(k, r)[i] = Inside(Chain(k)[i], r)
        /\ FlattenSeq(InStage(k, r)) = J(k)[Len(Chain(k))]
    BY <1>1, InStageIs
  <2> HIDE DEF J
  <2> QED BY <2>1, <2>2 DEF Joins
<1>4. \A k \in 1..m, i \in Nat : RequiredBefore(k, i, r) = F[k - 1] \o J(k)[i - 1]
  BY DEF RequiredBefore
<1>5. F[s] = F[s - 1] \o J(s)[n] /\ F[s] \in Seq(Fs) /\ F[s - 1] \in Seq(Fs)
  <2>1. s \in 0..m /\ s - 1 \in 0..m
    BY <1>1
  <2> QED BY <1>1, <1>2, <1>3, <2>1
<1>6. FlattenSeq(OfStages(r)) = F[m]
  BY OfStagesIs, FlattenIsJoined
<1>7. Required(r) = F[m]
  <2>1. Required(r) = FlattenSeq(OfStages(r))
    BY DEF Required, OfStages, InStage, Chain
  <2> QED BY <1>6, <2>1
<1> HIDE DEF n, m, F, J
<1>8. RequiredBefore(1, 1, r) = <<>>
  <2>1. 1 \in 1..m /\ 1 - 1 = 0
    BY <1>1
  <2>2. J(1)[0] = <<>>
    BY <1>3, <2>1
  <2>3. RequiredBefore(1, 1, r) = <<>> \o <<>>
    BY <1>2, <1>4, <2>1, <2>2, 1 \in Nat
  <2> QED BY <2>3, ConcatEmptySeq, <<>> \in Seq(Fs)
<1>9. ASSUME NEW i \in 1..(n + 1) PROVE RequiredBefore(s, i, r) \in Seq(Fs)
  <2>1. i - 1 \in 0..n
    BY <1>1
  <2>2. J(s)[i - 1] \in Seq(Fs)
    BY <1>1, <1>3, <2>1 DEF n
  <2>3. RequiredBefore(s, i, r) = F[s - 1] \o J(s)[i - 1]
    BY DEF RequiredBefore, F, J
  <2>4. \A a, b \in Seq(Fs) : a \o b \in Seq(Fs)
    OBVIOUS
  <2> QED BY <1>5, <2>2, <2>3, <2>4
<1>10. ASSUME NEW i \in 1..n
       PROVE  RequiredBefore(s, i + 1, r) = RequiredBefore(s, i, r) \o Inside(Chain(s)[i], r)
  <2>1. (i + 1) - 1 = i /\ i - 1 \in 0..n
    BY <1>1
  <2>2. J(s)[i] = J(s)[i - 1] \o Inside(Chain(s)[i], r) /\ J(s)[i - 1] \in Seq(Fs)
    BY <1>1, <1>3, <2>1 DEF n
  <2>3. Inside(Chain(s)[i], r) \in Seq(Fs)
    <3>1. InStage(s, r)[i] = Inside(Chain(s)[i], r) /\ InStage(s, r)[i] \in Seq(Fs)
      BY InStageIs DEF n
    <3> QED BY <3>1
  <2> DEFINE a == F[s - 1]
             b == J(s)[i - 1]
             c == Inside(Chain(s)[i], r)
  <2>4. a \o (b \o c) = (a \o b) \o c
    <3>1. a \in Seq(Fs) /\ b \in Seq(Fs) /\ c \in Seq(Fs)
      BY <1>5, <2>2, <2>3
    <3> HIDE DEF a, b, c
    <3> QED BY <3>1, ConcatAssociative
  <2>5. RequiredBefore(s, i, r) = a \o b
    BY DEF RequiredBefore, F, J
  <2>6. RequiredBefore(s, i + 1, r) = a \o J(s)[i]
    BY <2>1 DEF RequiredBefore, F, J
  <2> QED BY <2>2, <2>4, <2>5, <2>6
<1>11. RequiredBefore(s, n + 1, r) = F[s]
  <2>1. (n + 1) - 1 = n
    BY <1>1
  <2>2. RequiredBefore(s, n + 1, r) = F[s - 1] \o J(s)[n]
    BY <2>1 DEF RequiredBefore, F, J
  <2> QED BY <1>5, <2>2
<1>12. ASSUME s < m PROVE RequiredBefore(s + 1, 1, r) = F[s]
  <2>1. s + 1 \in 1..m /\ (s + 1) - 1 = s /\ 1 - 1 = 0
    BY <1>1, <1>12
  <2>2. J(s + 1)[0] = <<>>
    BY <1>3, <2>1
  <2>3. RequiredBefore(s + 1, 1, r) = F[s] \o <<>>
    BY <1>4, <2>1, <2>2
  <2> QED BY <1>5, <2>3, ConcatEmptySeq
<1> QED BY <1>7, <1>8, <1>9, <1>10, <1>11, <1>12 DEF n, m

-----------------------------------------------------------------------------
(* What a step does to the request it is about. *)

Forth(frame) == [frame EXCEPT !.index = @ + 1]

LEMMA FrameGoesOn ==
  ASSUME NEW p, NEW s, NEW i
  PROVE  Forth(FrameOf(p, s, i)) = FrameOf(p, s, i + 1)
<1>1. ASSUME NEW j PROVE [FrameOf(p, s, i) EXCEPT !.index = j] = FrameOf(p, s, j)
  BY DEF FrameOf
<1>2. FrameOf(p, s, i).index = i
  BY DEF FrameOf
<1> QED BY <1>1, <1>2 DEF FrameOf, Forth

LEMMA StackSteps ==
  ASSUME NEW a, NEW b
  PROVE  /\ Onward(<<a>>) = <<Forth(a)>>
         /\ Onward(<<a, b>>) = <<a, Forth(b)>>
         /\ Append(<<a>>, b) = <<a, b>>
         /\ Front(<<a, b>>) = <<a>>
         /\ Last(<<a>>) = a /\ Last(<<a, b>>) = b
<1>1. /\ <<a>> \in Seq({a, b}) /\ <<a, b>> \in Seq({a, b})
      /\ Len(<<a>>) = 1 /\ Len(<<a, b>>) = 2 /\ <<a>>[1] = a
      /\ <<a, b>>[1] = a /\ <<a, b>>[2] = b
  OBVIOUS
<1>2. Onward(<<a>>) = <<Forth(a)>>
  <2>1. Onward(<<a>>) = [<<a>> EXCEPT ![1] = Forth(a)]
    BY <1>1 DEF Onward, Forth
  <2>2. \A e : [<<a>> EXCEPT ![1] = e] = <<e>>
    OBVIOUS
  <2> QED BY <2>1, <2>2
<1>3. Onward(<<a, b>>) = <<a, Forth(b)>>
  <2>1. Onward(<<a, b>>) = [<<a, b>> EXCEPT ![2] = Forth(b)]
    BY <1>1 DEF Onward, Forth
  <2>2. \A e : [<<a, b>> EXCEPT ![2] = e] = <<a, e>>
    OBVIOUS
  <2> QED BY <2>1, <2>2
<1>4. Append(<<a>>, b) = <<a, b>>
  <2>1. Append(<<a>>, b) \in Seq({a, b}) /\ Len(Append(<<a>>, b)) = 2
    BY <1>1
  <2>2. Append(<<a>>, b)[1] = a /\ Append(<<a>>, b)[2] = b
    BY <1>1
  <2>3. \A i \in 1..2 : i = 1 \/ i = 2
    OBVIOUS
  <2> QED BY <1>1, <2>1, <2>2, <2>3, SeqEqual
<1>5. Front(<<a, b>>) = <<a>>
  <2>1. Front(<<a, b>>) = SubSeq(<<a, b>>, 1, 1)
    BY <1>1 DEF Front
  <2>2. \A i \in 1..1 : i = 1 /\ <<a, b>>[i] \in {a, b}
    OBVIOUS
  <2>3. /\ SubSeq(<<a, b>>, 1, 1) \in Seq({a, b}) /\ Len(SubSeq(<<a, b>>, 1, 1)) = 1
        /\ SubSeq(<<a, b>>, 1, 1)[1] = a
    BY <2>2, SubSeqProperties
  <2> QED BY <1>1, <2>1, <2>2, <2>3, SeqEqual
<1> QED BY <1>1, <1>2, <1>3, <1>4, <1>5 DEF Last

LEMMA FramesGoOn ==
  ASSUME NEW s, NEW i
  PROVE  /\ Forth(StageFrame(s, i)) = StageFrame(s, i + 1)
         /\ Forth(FilterFrame(s, i)) = FilterFrame(s, i + 1)
<1>1. PICK p, q : p = FALSE /\ q = TRUE
  OBVIOUS
<1>2. /\ StageFrame(s, i) = FrameOf(p, s, i) /\ StageFrame(s, i + 1) = FrameOf(p, s, i + 1)
      /\ FilterFrame(s, i) = FrameOf(q, s, i) /\ FilterFrame(s, i + 1) = FrameOf(q, s, i + 1)
  BY <1>1 DEF StageFrame, FilterFrame
<1>3. /\ Forth(FrameOf(p, s, i)) = FrameOf(p, s, i + 1)
      /\ Forth(FrameOf(q, s, i)) = FrameOf(q, s, i + 1)
  BY FrameGoesOn, Zenon
<1> QED BY <1>2, <1>3, Zenon

LEMMA StageFrameIs ==
  ASSUME NEW s, NEW i, NEW f, f = StageFrame(s, i)
  PROVE  ~f.plugin /\ f.stage = s /\ f.index = i
BY DEF StageFrame, FrameOf

LEMMA FilterFrameIs ==
  ASSUME NEW s, NEW i, NEW f, f = FilterFrame(s, i)
  PROVE  f.plugin /\ f.stage = s /\ f.index = i
BY DEF FilterFrame, FrameOf

LEMMA OneFrame ==
  ASSUME NEW r, NEW s, NEW i, chains[r] = <<StageFrame(s, i)>>
  PROVE  /\ ~Top(r).plugin /\ Step(r) = Chain(s)[i]
         /\ AtEnd(r) <=> i > Len(Chain(s))
         /\ Onward(chains[r]) = <<StageFrame(s, i + 1)>>
         /\ Append(chains[r], PluginFrame(s)) = <<StageFrame(s, i), FilterFrame(s, 1)>>
<1>1. Top(r) = StageFrame(s, i)
  <2>1. Last(<<StageFrame(s, i)>>) = StageFrame(s, i)
    BY StackSteps, Zenon
  <2> QED BY <2>1 DEF Top
<1>2. ~Top(r).plugin /\ Top(r).stage = s /\ Top(r).index = i
  BY <1>1, StageFrameIs
<1>3. PluginFrame(s) = FilterFrame(s, 1)
  BY DEF PluginFrame, FilterFrame, FrameOf
<1>4. Onward(chains[r]) = <<StageFrame(s, i + 1)>>
  <2>1. Onward(<<StageFrame(s, i)>>) = <<Forth(StageFrame(s, i))>>
    BY StackSteps, Zenon
  <2>2. Forth(StageFrame(s, i)) = StageFrame(s, i + 1)
    BY FramesGoOn, Zenon
  <2> QED BY <2>1, <2>2, Zenon
<1>5. ChainOf(Top(r)) = Chain(s)
  BY <1>2 DEF ChainOf, Chain
<1>6. Append(chains[r], PluginFrame(s)) = <<StageFrame(s, i), FilterFrame(s, 1)>>
  BY <1>3, StackSteps, Zenon
<1>7. Step(r) = Chain(s)[i] /\ (AtEnd(r) <=> i > Len(Chain(s)))
  BY <1>2, <1>5, Zenon DEF Step, AtEnd
<1> QED BY <1>2, <1>4, <1>6, <1>7

LEMMA TwoFrames ==
  ASSUME NEW r, NEW s, NEW i, NEW j, chains[r] = <<StageFrame(s, i), FilterFrame(s, j)>>
  PROVE  /\ Top(r).plugin /\ Step(r) = filters[j]
         /\ AtEnd(r) <=> j > Len(filters)
         /\ Onward(chains[r]) = <<StageFrame(s, i), FilterFrame(s, j + 1)>>
         /\ PluginEnd(chains[r]) = <<StageFrame(s, i + 1)>>
<1>1. Top(r) = FilterFrame(s, j)
  <2>1. Last(<<StageFrame(s, i), FilterFrame(s, j)>>) = FilterFrame(s, j)
    BY StackSteps, Zenon
  <2> QED BY <2>1 DEF Top
<1>2. Top(r).plugin /\ Top(r).index = j
  BY <1>1, FilterFrameIs
<1>3. Onward(chains[r]) = <<StageFrame(s, i), FilterFrame(s, j + 1)>>
  <2>1. Onward(<<StageFrame(s, i), FilterFrame(s, j)>>)
          = <<StageFrame(s, i), Forth(FilterFrame(s, j))>>
    BY StackSteps, Zenon
  <2>2. Forth(FilterFrame(s, j)) = FilterFrame(s, j + 1)
    BY FramesGoOn, Zenon
  <2> QED BY <2>1, <2>2, Zenon
<1>4. PluginEnd(chains[r]) = <<StageFrame(s, i + 1)>>
  <2>1. Front(chains[r]) = <<StageFrame(s, i)>>
    BY StackSteps, Zenon
  <2>2. Onward(<<StageFrame(s, i)>>) = <<Forth(StageFrame(s, i))>>
    BY StackSteps, Zenon
  <2>3. Forth(StageFrame(s, i)) = StageFrame(s, i + 1)
    BY FramesGoOn, Zenon
  <2> QED BY <2>1, <2>2, <2>3, Zenon DEF PluginEnd
<1>5. ChainOf(Top(r)) = filters
  BY <1>2, Zenon DEF ChainOf
<1>6. Step(r) = filters[j] /\ (AtEnd(r) <=> j > Len(filters))
  BY <1>2, <1>5, Zenon DEF Step, AtEnd
<1> QED BY <1>2, <1>3, <1>4, <1>6

\* The ways to be on the way
LEMMA PlacedCases ==
  ASSUME NEW r, NEW x, NEW fs, Placed(r, x, fs), x.where \in OnWay
  PROVE  /\ x.stage \in DOMAIN Stages
         /\ \E i \in 1..(Len(Chain(x.stage)) + 1) :
              \/ InStageAt(r, x, fs, i)
              \/ \E j \in Nat \ {0} : InPluginAt(r, x, fs, i, j)
BY DEF Placed

LEMMA PlacedInStage ==
  ASSUME NEW r, NEW x, NEW fs, x.where \in OnWay, x.stage \in DOMAIN Stages,
         NEW i \in 1..(Len(Chain(x.stage)) + 1), InStageAt(r, x, fs, i)
  PROVE  Placed(r, x, fs)
BY DEF Placed, OnWay

LEMMA PlacedInPlugin ==
  ASSUME NEW r, NEW x, NEW fs, x.where \in OnWay, x.stage \in DOMAIN Stages,
         NEW i \in 1..(Len(Chain(x.stage)) + 1), NEW j \in Nat \ {0},
         InPluginAt(r, x, fs, i, j)
  PROVE  Placed(r, x, fs)
BY DEF Placed, OnWay

At(w, s, c, p) == [where |-> w, stage |-> s, chain |-> c, passed |-> p]

\* A step lets its request go on.
LEMMA LetsGo ==
  ASSUME filters \in {<<>>, GlobalFilterIds}, NEW r, Placed(r, Now(r), filters),
         where[r] \in {"inStep", "held"},
         NEW p, p = IF AtEnd(r) THEN passed[r] ELSE Append(passed[r], Step(r))
  PROVE  Placed(r, At("queued", stage[r], chains[r], p), filters)
<1> DEFINE x == Now(r)
           y == At("queued", stage[r], chains[r], p)
           s == stage[r]
<1>1. /\ x.where = where[r] /\ x.stage = s /\ x.chain = chains[r] /\ x.passed = passed[r]
      /\ y.where = "queued" /\ y.stage = s /\ y.chain = chains[r] /\ y.passed = p
      /\ x.where \in OnWay /\ y.where \in OnWay /\ Over(x) = 0 /\ Over(y) = 1
      /\ x.where # "calling"
  BY DEF Now, At, OnWay, Over
<1> HIDE DEF x, y
<1>2. PICK i \in 1..(Len(Chain(s)) + 1) :
        InStageAt(r, x, filters, i) \/ \E j \in Nat \ {0} : InPluginAt(r, x, filters, i, j)
  BY <1>1, PlacedCases DEF x
<1>3. /\ s \in DOMAIN Stages /\ Chain(s) \in Seq(Fs) /\ Len(Chain(s)) \in Nat
      /\ filters \in Seq(Fs)
  <2>1. s \in DOMAIN Stages
    BY <1>1, PlacedCases DEF x
  <2>2. filters \in Seq(Fs)
    BY ChainsAre, EmptySeq
  <2> QED BY <2>1, <2>2, ChainsAre
<1>4. CASE InStageAt(r, x, filters, i)
  <2>1. /\ chains[r] = <<StageFrame(s, i)>> /\ i <= Len(Chain(s)) /\ Chain(s)[i] # Plugin
        /\ filters # <<>> => passed[r] = RequiredBefore(s, i, r)
    BY <1>1, <1>4 DEF InStageAt
  <2>2. p = Append(passed[r], Chain(s)[i])
    <3>1. i \in Nat /\ ~(i > Len(Chain(s)))
      BY <1>3, <2>1
    <3>2. ~AtEnd(r) /\ Step(r) = Chain(s)[i]
      BY <2>1, <3>1, OneFrame
    <3> QED BY <3>2
  <2>3. ASSUME filters # <<>> PROVE p = RequiredBefore(s, i + 1, r)
    <3>1. i \in 1..Len(Chain(s)) /\ Chain(s)[i] \in Fs
      BY <1>3, <2>1
    <3>2. RequiredBefore(s, i + 1, r) = RequiredBefore(s, i, r) \o <<Chain(s)[i]>>
      BY <1>3, <2>1, <3>1, RequiredSteps DEF Inside
    <3>3. RequiredBefore(s, i, r) \in Seq(Fs)
      BY <1>3, RequiredSteps
    <3> QED BY <2>1, <2>2, <2>3, <3>1, <3>2, <3>3, AppendIsConcat
  <2>4. InStageAt(r, y, filters, i)
    BY <1>1, <2>1, <2>3 DEF InStageAt
  <2> QED BY <1>1, <1>3, <2>4, PlacedInStage DEF y
<1>5. ASSUME NEW j \in Nat \ {0}, InPluginAt(r, x, filters, i, j)
      PROVE  Placed(r, y, filters)
  <2>1. /\ i <= Len(Chain(s)) /\ Chain(s)[i] = Plugin /\ r \notin Exempt
        /\ chains[r] = <<StageFrame(s, i), FilterFrame(s, j)>>
        /\ filters # <<>> =>
             /\ j <= Len(filters)
             /\ passed[r] = RequiredBefore(s, i, r) \o SubSeq(filters, 1, j - 1)
    BY <1>1, <1>5 DEF InPluginAt
  <2>2. ASSUME filters # <<>>
        PROVE  p = RequiredBefore(s, i, r) \o SubSeq(filters, 1, j)
    <3> DEFINE a == RequiredBefore(s, i, r)
               b == SubSeq(filters, 1, j - 1)
               c == filters[j]
    <3>1. p = Append(passed[r], filters[j])
      <4>1. i \in Nat /\ j \in Nat /\ ~(j > Len(filters))
        BY <1>3, <2>1, <2>2
      <4>2. ~AtEnd(r) /\ Step(r) = filters[j]
        BY <2>1, <4>1, TwoFrames
      <4> QED BY <4>2
    <3>2. j \in 1..Len(filters) /\ c \in Fs
      BY <1>3, <2>1, <2>2
    <3>3. SubSeq(filters, 1, j) = b \o <<c>>
      BY <1>3, <3>2, SubSeqRecursiveSecond
    <3>4. b \in Seq(Fs)
      <4>1. \A k \in 1..(j - 1) : filters[k] \in Fs
        BY <1>3, <3>2
      <4> QED BY <4>1, SubSeqProperties
    <3>5. a \in Seq(Fs)
      BY <1>3, RequiredSteps
    <3> HIDE DEF a, b, c
    <3>6. Append(a \o b, c) = a \o (b \o <<c>>)
      <4>1. Append(a \o b, c) = (a \o b) \o <<c>> /\ <<c>> \in Seq(Fs)
        BY <3>2, <3>4, <3>5, AppendIsConcat
      <4> QED BY <3>4, <3>5, <4>1, ConcatAssociative
    <3> QED BY <2>1, <2>2, <3>1, <3>3, <3>6 DEF a, b, c
  <2>3. InPluginAt(r, y, filters, i, j)
    <3>1. j + Over(y) = j + 1 /\ (j + Over(y)) - 1 = j
      BY <1>1
    <3>2. filters # <<>> => j + Over(y) <= Len(filters) + 1
      BY <1>3, <2>1, <3>1
    <3>3. filters # <<>> =>
            y.passed = RequiredBefore(s, i, r) \o SubSeq(filters, 1, j + Over(y) - 1)
      <4>1. y.passed = p /\ SubSeq(filters, 1, j) = SubSeq(filters, 1, j + Over(y) - 1)
        BY <1>1, <3>1
      <4> HIDE DEF s
      <4> QED BY <2>2, <4>1
    <3> QED BY <1>1, <2>1, <3>2, <3>3 DEF InPluginAt
  <2> QED BY <1>1, <1>3, <2>3, PlacedInPlugin DEF y
<1> QED BY <1>2, <1>4, <1>5 DEF y

\* The chain goes on with the next step.
LEMMA GoesOn ==
  ASSUME NEW r, Len(filters) \in Nat,
         NEW p, Placed(r, At("queued", stage[r], chains[r], p), filters)
  PROVE  Placed(r, At("calling", stage[r], Onward(chains[r]), p), filters)
<1> DEFINE x == At("queued", stage[r], chains[r], p)
           y == At("calling", stage[r], Onward(chains[r]), p)
           s == stage[r]
<1>1. /\ x.where = "queued" /\ x.stage = s /\ x.chain = chains[r] /\ x.passed = p
      /\ y.where = "calling" /\ y.stage = s /\ y.chain = Onward(chains[r]) /\ y.passed = p
      /\ x.where \in OnWay /\ y.where \in OnWay /\ Over(x) = 1 /\ Over(y) = 0
  BY DEF At, OnWay, Over
<1> HIDE DEF x, y
<1>2. PICK i \in 1..(Len(Chain(s)) + 1) :
        InStageAt(r, x, filters, i) \/ \E j \in Nat \ {0} : InPluginAt(r, x, filters, i, j)
  BY <1>1, PlacedCases DEF x
<1>3. s \in DOMAIN Stages /\ Len(Chain(s)) \in Nat
  BY <1>1, PlacedCases, ChainsAre DEF x
<1>4. CASE InStageAt(r, x, filters, i)
  <2>1. /\ chains[r] = <<StageFrame(s, i)>> /\ i <= Len(Chain(s))
        /\ filters # <<>> => p = RequiredBefore(s, i + 1, r)
    <3>1. i + Over(x) = i + 1
      BY <1>1
    <3> QED BY <1>1, <1>4, <3>1 DEF InStageAt
  <2>2. i + 1 \in 1..(Len(Chain(s)) + 1) /\ (i + 1) + Over(y) = i + 1 /\ i \in Nat
    BY <1>1, <1>3, <2>1
  <2>3. y.chain = <<StageFrame(s, i + 1)>>
    <3>1. Onward(chains[r]) = <<StageFrame(s, i + 1)>>
      BY <2>1, OneFrame, Zenon
    <3> QED BY <1>1, <3>1
  <2>4. InStageAt(r, y, filters, i + 1)
    BY <1>1, <2>1, <2>2, <2>3 DEF InStageAt
  <2> QED BY <1>1, <1>3, <2>2, <2>4, PlacedInStage DEF y
<1>5. ASSUME NEW j \in Nat \ {0}, InPluginAt(r, x, filters, i, j)
      PROVE  Placed(r, y, filters)
  <2>1. /\ i <= Len(Chain(s)) /\ Chain(s)[i] = Plugin /\ r \notin Exempt
        /\ chains[r] = <<StageFrame(s, i), FilterFrame(s, j)>>
        /\ filters # <<>> =>
             /\ j + 1 <= Len(filters) + 1
             /\ p = RequiredBefore(s, i, r) \o SubSeq(filters, 1, j + 1 - 1)
    <3>1. j + Over(x) = j + 1
      BY <1>1
    <3> QED BY <1>1, <1>5, <3>1 DEF InPluginAt
  <2>2. j + 1 \in Nat \ {0} /\ (j + 1) + Over(y) = j + 1 /\ i \in Nat /\ j \in Nat
    BY <1>1, <1>3
  <2>3. y.chain = <<StageFrame(s, i), FilterFrame(s, j + 1)>>
    <3>1. Onward(chains[r]) = <<StageFrame(s, i), FilterFrame(s, j + 1)>>
      BY <2>1, TwoFrames, ZenonT(40)
    <3> QED BY <1>1, <3>1
  <2>4. InPluginAt(r, y, filters, i, j + 1)
    BY <1>1, <2>1, <2>2, <2>3 DEF InPluginAt
  <2> QED BY <1>1, <1>3, <2>2, <2>4, PlacedInPlugin DEF y
<1> QED BY <1>2, <1>4, <1>5 DEF y

\* A request that is done has no place.
LEMMA DoneIsPlaced ==
  ASSUME NEW r, NEW w \in {"answered", "dropped"}, NEW s, NEW c, NEW p
  PROVE  Placed(r, At(w, s, c, p), filters)
BY DEF Placed, At, OnWay

\* Where a request is that a step or the loop is at
LEMMA WhereItIs ==
  ASSUME filters \in {<<>>, GlobalFilterIds}, NEW r, Placed(r, Now(r), filters),
         where[r] \in {"calling", "inStep", "held"}
  PROVE  /\ stage[r] \in DOMAIN Stages
         /\ Chain(stage[r]) \in Seq(Fs) /\ Len(Chain(stage[r])) \in Nat
         /\ filters \in Seq(Fs)
         /\ \E i \in 1..(Len(Chain(stage[r])) + 1) :
              \/ InStageAt(r, Now(r), filters, i)
              \/ \E j \in Nat \ {0} : InPluginAt(r, Now(r), filters, i, j)
<1>1. Now(r).where \in OnWay /\ Now(r).stage = stage[r]
  BY DEF Now, OnWay
<1>2. filters \in Seq(Fs)
  BY ChainsAre, EmptySeq
<1>3. stage[r] \in DOMAIN Stages
  BY <1>1, PlacedCases
<1> QED BY <1>1, <1>2, <1>3, ChainsAre, PlacedCases

\* The next step is called; it may keep its callbacks.
LEMMA IsCalled ==
  ASSUME filters \in {<<>>, GlobalFilterIds}, NEW r, Placed(r, Now(r), filters),
         NEW w \in {"inStep", "held"},
         \/ where[r] = "calling" /\ ~AtEnd(r) /\ Step(r) # Plugin
         \/ where[r] = "inStep"
  PROVE  Placed(r, At(w, stage[r], chains[r], passed[r]), filters)
<1> DEFINE x == Now(r)
           y == At(w, stage[r], chains[r], passed[r])
           s == stage[r]
<1>1. /\ x.where = where[r] /\ x.stage = s /\ x.chain = chains[r] /\ x.passed = passed[r]
      /\ y.where = w /\ y.stage = s /\ y.chain = chains[r] /\ y.passed = passed[r]
      /\ y.where \in OnWay /\ Over(x) = 0 /\ Over(y) = 0
      /\ x.where # "inStep" => where[r] = "calling" /\ ~AtEnd(r) /\ Step(r) # Plugin
  BY DEF Now, At, OnWay, Over
<1> HIDE DEF x, y
<1>2. s \in DOMAIN Stages /\ Len(Chain(s)) \in Nat /\ Len(filters) \in Nat
  BY WhereItIs
<1>3. PICK i \in 1..(Len(Chain(s)) + 1) :
        InStageAt(r, x, filters, i) \/ \E j \in Nat \ {0} : InPluginAt(r, x, filters, i, j)
  BY WhereItIs DEF x
<1>4. CASE InStageAt(r, x, filters, i)
  <2>1. chains[r] = <<StageFrame(s, i)>>
    BY <1>1, <1>4 DEF InStageAt
  <2>2. i <= Len(Chain(s)) /\ Chain(s)[i] # Plugin
    <3>1. (AtEnd(r) <=> i > Len(Chain(s))) /\ Step(r) = Chain(s)[i]
      BY <2>1, OneFrame, ZenonT(40)
    <3>2. i \in Nat
      BY <1>2
    <3> QED BY <1>1, <1>2, <1>4, <3>1, <3>2 DEF InStageAt
  <2>3. InStageAt(r, y, filters, i)
    BY <1>1, <1>4, <2>1, <2>2 DEF InStageAt
  <2> QED BY <1>1, <1>2, <2>3, PlacedInStage DEF y
<1>5. ASSUME NEW j \in Nat \ {0}, InPluginAt(r, x, filters, i, j)
      PROVE  Placed(r, y, filters)
  <2>1. chains[r] = <<StageFrame(s, i), FilterFrame(s, j)>>
    BY <1>1, <1>5 DEF InPluginAt
  <2>2. filters # <<>> => j <= Len(filters)
    <3>1. AtEnd(r) <=> j > Len(filters)
      BY <2>1, TwoFrames
    <3> QED BY <1>1, <1>2, <1>5, <3>1 DEF InPluginAt
  <2>3. InPluginAt(r, y, filters, i, j)
    BY <1>1, <1>5, <2>1, <2>2 DEF InPluginAt
  <2> QED BY <1>1, <1>2, <2>3, PlacedInPlugin DEF y
<1> QED BY <1>3, <1>4, <1>5 DEF y

\* The advice of GlobalFilters is called: it is a step of the stage.
LEMMA PluginIsCalled ==
  ASSUME filters \in {<<>>, GlobalFilterIds}, ~alive => filters = <<>>,
         NEW r, Placed(r, Now(r), filters),
         where[r] = "calling", ~AtEnd(r), Step(r) = Plugin
  PROVE  /\ ~alive \/ r \in Exempt =>
              Placed(r, At("calling", stage[r], Onward(chains[r]), passed[r]), filters)
         /\ r \notin Exempt =>
              Placed(r, At("calling", stage[r], Append(chains[r], PluginFrame(stage[r])),
                           passed[r]), filters)
<1> DEFINE x == Now(r)
           s == stage[r]
           y(c) == At("calling", stage[r], c, passed[r])
<1>1. /\ x.where = "calling" /\ x.stage = s /\ x.chain = chains[r] /\ x.passed = passed[r]
      /\ Over(x) = 0
      /\ \A c : /\ y(c).where = "calling" /\ y(c).stage = s /\ y(c).chain = c
                /\ y(c).passed = passed[r] /\ Over(y(c)) = 0 /\ y(c).where \in OnWay
  BY DEF Now, At, OnWay, Over
<1> HIDE DEF x, y
<1>2. s \in DOMAIN Stages /\ Chain(s) \in Seq(Fs) /\ Len(Chain(s)) \in Nat /\ filters \in Seq(Fs)
  BY WhereItIs
<1>3. PICK i \in 1..(Len(Chain(s)) + 1) :
        InStageAt(r, x, filters, i) \/ \E j \in Nat \ {0} : InPluginAt(r, x, filters, i, j)
  BY WhereItIs DEF x
<1>4. ASSUME NEW j \in Nat \ {0}, InPluginAt(r, x, filters, i, j) PROVE FALSE
  <2>1. chains[r] = <<StageFrame(s, i), FilterFrame(s, j)>>
    BY <1>1, <1>4 DEF InPluginAt
  <2>2. j <= Len(filters) /\ filters[j] = Plugin
    <3>1. (AtEnd(r) <=> j > Len(filters)) /\ Step(r) = filters[j]
      BY <2>1, TwoFrames
    <3> QED BY <1>2, <3>1
  <2>3. filters = GlobalFilterIds /\ j \in DOMAIN filters
    BY <1>2, <2>2
  <2>4. Plugin \in Range(GlobalFilterIds)
    BY <2>2, <2>3 DEF Range
  <2> QED BY <2>4, ChainAssumption
<1>5. /\ chains[r] = <<StageFrame(s, i)>>
      /\ filters # <<>> => passed[r] = RequiredBefore(s, i, r)
  BY <1>1, <1>3, <1>4 DEF InStageAt
<1>6. i \in 1..Len(Chain(s)) /\ Chain(s)[i] = Plugin /\ i + 1 \in 1..(Len(Chain(s)) + 1)
  <2>1. (AtEnd(r) <=> i > Len(Chain(s))) /\ Step(r) = Chain(s)[i]
    BY <1>5, OneFrame
  <2> QED BY <1>2, <2>1
<1>7. RequiredBefore(s, i, r) \in Seq(Fs)
  BY <1>2, RequiredSteps
<1>8. ASSUME ~alive \/ r \in Exempt PROVE Placed(r, y(Onward(chains[r])), filters)
  <2>1. Onward(chains[r]) = <<StageFrame(s, i + 1)>>
    BY <1>5, OneFrame, Zenon
  <2>2. ASSUME filters # <<>> PROVE passed[r] = RequiredBefore(s, i + 1, r)
    <3>1. Inside(Chain(s)[i], r) = <<>>
      BY <1>6, <1>8, <2>2 DEF Inside
    <3>2. RequiredBefore(s, i + 1, r) = RequiredBefore(s, i, r) \o <<>>
      BY <1>2, <1>6, <3>1, RequiredSteps
    <3> QED BY <1>5, <1>7, <2>2, <3>2, ConcatEmptySeq
  <2> DEFINE z == y(Onward(chains[r]))
  <2>3. /\ z.where = "calling" /\ z.where \in OnWay /\ z.stage = s
        /\ z.chain = <<StageFrame(s, i + 1)>> /\ z.passed = passed[r]
        /\ (i + 1) + Over(z) = i + 1
    BY <1>1, <1>6, <2>1
  <2> HIDE DEF z
  <2>4. InStageAt(r, z, filters, i + 1)
    BY <2>2, <2>3 DEF InStageAt
  <2>5. Placed(r, z, filters)
    BY <1>2, <1>6, <2>3, <2>4, PlacedInStage
  <2> QED BY <2>5 DEF z
<1>9. ASSUME r \notin Exempt
      PROVE  Placed(r, y(Append(chains[r], PluginFrame(s))), filters)
  <2> DEFINE z == y(Append(chains[r], PluginFrame(s)))
  <2>1. Append(chains[r], PluginFrame(s)) = <<StageFrame(s, i), FilterFrame(s, 1)>>
    BY <1>5, OneFrame, Zenon
  <2>2. /\ z.where = "calling" /\ z.where \in OnWay /\ z.stage = s
        /\ z.chain = <<StageFrame(s, i), FilterFrame(s, 1)>> /\ z.passed = passed[r]
        /\ Over(z) = 0
    BY <1>1, <2>1
  <2> HIDE DEF z
  <2>3. SubSeq(filters, 1, 0) = <<>>
    BY <1>2, SubSeqEmpty
  <2>4. RequiredBefore(s, i, r) \o <<>> = RequiredBefore(s, i, r)
    BY <1>7, ConcatEmptySeq
  <2>5. i <= Len(Chain(s)) /\ 1 <= Len(filters) + 1 /\ 1 + Over(z) - 1 = 0
    BY <1>2, <1>6, <2>2
  <2>6. InPluginAt(r, z, filters, i, 1)
    <3>1. ASSUME filters # <<>>
          PROVE  z.passed = RequiredBefore(s, i, r) \o SubSeq(filters, 1, 1 + Over(z) - 1)
      <4>1. z.passed = RequiredBefore(s, i, r) \o <<>>
        BY <1>5, <2>2, <2>4, <3>1
      <4>2. SubSeq(filters, 1, 1 + Over(z) - 1) = SubSeq(filters, 1, 0)
        BY <2>5, Zenon
      <4> QED BY <2>3, <4>1, <4>2
    <3>2. 1 + Over(z) <= Len(filters) + 1
      BY <2>2, <2>5
    <3> HIDE DEF s
    <3> QED BY <1>6, <1>9, <2>2, <2>5, <3>1, <3>2 DEF InPluginAt
  <2>7. 1 \in Nat \ {0}
    OBVIOUS
  <2>8. Placed(r, z, filters)
    BY <1>2, <2>2, <2>6, <2>7, PlacedInPlugin
  <2> QED BY <2>8 DEF z
<1> QED BY <1>8, <1>9 DEF y

\* The end of the plugin's filters is past its advice; the end of a stage is the start of
\* the next, and the last one's is all there is to pass.
LEMMA ChainEnds ==
  ASSUME filters \in {<<>>, GlobalFilterIds}, NEW r, Placed(r, Now(r), filters),
         where[r] = "calling", AtEnd(r)
  PROVE  /\ Top(r).plugin =>
              /\ PluginEnd(chains[r]) # <<>>
              /\ Placed(r, At("calling", stage[r], PluginEnd(chains[r]), passed[r]), filters)
         /\ ~Top(r).plugin /\ stage[r] < Len(Stages) =>
              Placed(r, At("calling", stage[r] + 1, <<Frame(stage[r] + 1)>>, passed[r]),
                     filters)
         /\ ~Top(r).plugin /\ stage[r] = Len(Stages) =>
              Placed(r, At("handling", stage[r], <<>>, passed[r]), filters)
<1> DEFINE x == Now(r)
           s == stage[r]
<1>1. /\ x.where = "calling" /\ x.stage = s /\ x.chain = chains[r] /\ x.passed = passed[r]
      /\ Over(x) = 0
  BY DEF Now, Over
<1> HIDE DEF x
<1>2. s \in DOMAIN Stages /\ Chain(s) \in Seq(Fs) /\ Len(Chain(s)) \in Nat /\ filters \in Seq(Fs)
  BY WhereItIs
<1>3. PICK i \in 1..(Len(Chain(s)) + 1) :
        InStageAt(r, x, filters, i) \/ \E j \in Nat \ {0} : InPluginAt(r, x, filters, i, j)
  BY WhereItIs DEF x
<1>4. i \in Nat /\ DOMAIN Stages = 1..Len(Stages) /\ Len(Stages) \in Nat /\ s \in Nat
  BY <1>2, ChainsAre
<1>5. RequiredBefore(s, i, r) \in Seq(Fs)
  BY <1>2, RequiredSteps
<1>6. CASE InStageAt(r, x, filters, i)
  <2>1. chains[r] = <<StageFrame(s, i)>>
    BY <1>1, <1>6 DEF InStageAt
  <2>2. ~Top(r).plugin /\ i = Len(Chain(s)) + 1
    <3>1. ~Top(r).plugin /\ (AtEnd(r) <=> i > Len(Chain(s)))
      BY <2>1, OneFrame
    <3> QED BY <1>2, <1>4, <3>1
  <2>3. filters # <<>> => passed[r] = RequiredBefore(s, Len(Chain(s)) + 1, r)
    BY <1>1, <1>6, <2>2 DEF InStageAt
  <2>4. ASSUME s < Len(Stages)
        PROVE  Placed(r, At("calling", s + 1, <<Frame(s + 1)>>, passed[r]), filters)
    <3> DEFINE z == At("calling", s + 1, <<Frame(s + 1)>>, passed[r])
    <3>1. /\ z.where = "calling" /\ z.where \in OnWay /\ z.stage = s + 1
          /\ z.chain = <<StageFrame(s + 1, 1)>> /\ z.passed = passed[r] /\ 1 + Over(z) = 1
      <4>1. Frame(s + 1) = StageFrame(s + 1, 1)
        BY DEF Frame, StageFrame, FrameOf
      <4> QED BY <4>1 DEF At, OnWay, Over
    <3> HIDE DEF z
    <3>2. s + 1 \in DOMAIN Stages /\ 1 \in 1..(Len(Chain(s + 1)) + 1)
      <4>1. s + 1 \in DOMAIN Stages
        BY <1>2, <1>4, <2>4
      <4>2. Len(Chain(s + 1)) \in Nat
        BY <4>1, ChainsAre
      <4> QED BY <4>1, <4>2
    <3>3. RequiredBefore(s + 1, 1, r) = RequiredBefore(s, Len(Chain(s)) + 1, r)
      BY <1>2, <2>4, RequiredSteps
    <3>4. InStageAt(r, z, filters, 1)
      BY <2>3, <3>1, <3>3 DEF InStageAt
    <3>5. Placed(r, z, filters)
      BY <3>1, <3>2, <3>4, PlacedInStage
    <3> QED BY <3>5 DEF z
  <2>5. ASSUME s = Len(Stages)
        PROVE  Placed(r, At("handling", s, <<>>, passed[r]), filters)
    <3>1. Required(r) = RequiredBefore(s, Len(Chain(s)) + 1, r)
      BY <1>2, <2>5, RequiredSteps
    <3> QED BY <2>3, <3>1 DEF Placed, At, OnWay
  <2> QED BY <2>2, <2>4, <2>5
<1>7. ASSUME NEW j \in Nat \ {0}, InPluginAt(r, x, filters, i, j)
      PROVE  /\ Top(r).plugin /\ PluginEnd(chains[r]) # <<>>
             /\ Placed(r, At("calling", s, PluginEnd(chains[r]), passed[r]), filters)
  <2>1. /\ chains[r] = <<StageFrame(s, i), FilterFrame(s, j)>>
        /\ i <= Len(Chain(s)) /\ Chain(s)[i] = Plugin /\ r \notin Exempt
        /\ filters # <<>> =>
             /\ j <= Len(filters) + 1
             /\ passed[r] = RequiredBefore(s, i, r) \o SubSeq(filters, 1, j - 1)
    <3>1. j + Over(x) = j
      BY <1>1
    <3> QED BY <1>1, <1>7, <3>1 DEF InPluginAt
  <2>2. Top(r).plugin /\ j > Len(filters) /\ PluginEnd(chains[r]) = <<StageFrame(s, i + 1)>>
    <3>1. /\ Top(r).plugin /\ (AtEnd(r) <=> j > Len(filters))
          /\ PluginEnd(chains[r]) = <<StageFrame(s, i + 1)>>
      BY <2>1, TwoFrames
    <3> QED BY <3>1
  <2>3. PluginEnd(chains[r]) # <<>>
    BY <2>2
  <2>4. i \in 1..Len(Chain(s)) /\ i + 1 \in 1..(Len(Chain(s)) + 1)
    BY <1>2, <1>4, <2>1
  <2>5. ASSUME filters # <<>> PROVE passed[r] = RequiredBefore(s, i + 1, r)
    <3>1. j - 1 = Len(filters)
      BY <1>2, <2>1, <2>2, <2>5
    <3>2. SubSeq(filters, 1, Len(filters)) = filters
      BY <1>2, SubSeqFull
    <3>3. Inside(Chain(s)[i], r) = filters
      BY <2>1, <2>5 DEF Inside
    <3> HIDE DEF s
    <3>4. RequiredBefore(s, i + 1, r) = RequiredBefore(s, i, r) \o filters
      BY <1>2, <2>4, <3>3, RequiredSteps
    <3> QED BY <2>1, <2>5, <3>1, <3>2, <3>4
  <2> DEFINE z == At("calling", s, PluginEnd(chains[r]), passed[r])
  <2>6. /\ z.where = "calling" /\ z.where \in OnWay /\ z.stage = s
        /\ z.chain = <<StageFrame(s, i + 1)>> /\ z.passed = passed[r]
        /\ (i + 1) + Over(z) = i + 1
    BY <1>4, <2>2 DEF At, OnWay, Over
  <2> HIDE DEF z
  <2>7. InStageAt(r, z, filters, i + 1)
    BY <2>5, <2>6 DEF InStageAt
  <2>8. Placed(r, z, filters)
    BY <1>2, <2>4, <2>6, <2>7, PlacedInStage
  <2> QED BY <2>2, <2>3, <2>8 DEF z
<1> QED BY <1>3, <1>6, <1>7

-----------------------------------------------------------------------------
(* A step that moves one request leaves the others where they are. *)

Changed(r, w, s, c, p) ==
  /\ where' = [where EXCEPT ![r] = w]
  /\ stage' = [stage EXCEPT ![r] = s]
  /\ chains' = [chains EXCEPT ![r] = c]
  /\ passed' = [passed EXCEPT ![r] = p]
  /\ UNCHANGED <<filters, alive>>

TypedRequests ==
  /\ where \in [Reqs -> Wheres]
  /\ stage \in [Reqs -> Nat]
  /\ chains = [r \in Reqs |-> chains[r]]
  /\ passed = [r \in Reqs |-> passed[r]]
AllPlaced == \A r \in Reqs : Placed(r, Now(r), filters)

LEMMA OneMoves ==
  ASSUME TypedRequests, AllPlaced, NEW r \in Reqs,
         NEW w \in Wheres, NEW s \in Nat, NEW c, NEW p, Changed(r, w, s, c, p),
         Placed(r, At(w, s, c, p), filters)
  PROVE  TypedRequests' /\ AllPlaced'
<1>1. TypedRequests'
  BY DEF TypedRequests, Changed
<1>2. ASSUME NEW u \in Reqs, u # r PROVE Now(u)' = Now(u)
  BY <1>2 DEF TypedRequests, Changed, Now
<1>3. Now(r)' = At(w, s, c, p)
  BY DEF TypedRequests, Changed, Now, At
<1>4. filters' = filters
  BY DEF Changed
<1>5. ASSUME NEW u \in Reqs PROVE Placed(u, Now(u), filters)'
  <2>1. CASE u = r
    BY <1>3, <1>4, <2>1 DEF Placed, InStageAt, InPluginAt
  <2>2. CASE u # r
    BY <1>2, <1>4, <2>2 DEF AllPlaced
  <2> QED BY <2>1, <2>2
<1> QED BY <1>1, <1>5 DEF AllPlaced

LEMMA ChainTypedIs ==
  ChainTyped <=>
    /\ TypedRequests
    /\ replies \in [Reqs -> Nat]
    /\ posted \in Seq(Reqs)
    /\ filters \in {<<>>, GlobalFilterIds}
    /\ ~alive => filters = <<>>
BY DEF ChainTyped, TypedRequests

LEMMA LoopStays ==
  ASSUME CalledOnLoop, TypedRequests, NEW r \in Reqs, NEW w \in Wheres,
         where' = [where EXCEPT ![r] = w],
         \/ serving' = r /\ serving \in {r, Nobody}
         \/ w \notin {"calling", "inStep"} /\ serving' = serving
         \/ w \notin {"calling", "inStep"} /\ serving = r /\ serving' = Nobody
  PROVE  CalledOnLoop'
<1> SUFFICES ASSUME NEW u \in Reqs, where'[u] \in {"calling", "inStep"}
             PROVE  serving' = u
  BY DEF CalledOnLoop
<1>1. CASE u = r
  BY <1>1 DEF TypedRequests
<1>2. CASE u # r
  <2>1. serving = u
    BY <1>2 DEF TypedRequests, CalledOnLoop
  <2> QED BY <1>2, <2>1, ChainAssumption
<1> QED BY <1>1, <1>2

LEMMA QueueStays ==
  ASSUME QueuedOnce, TypedRequests, posted \in Seq(Reqs), NEW r \in Reqs, NEW w \in Wheres,
         where' = [where EXCEPT ![r] = w], where[r] # "queued", posted' = posted
  PROVE  QueuedOnce'
<1>1. ASSUME NEW i \in 1..Len(posted) PROVE where'[posted[i]] = "queued"
  BY DEF QueuedOnce, TypedRequests
<1> QED BY <1>1 DEF QueuedOnce

LEMMA RepliesStay ==
  ASSUME Replied, TypedRequests, NEW r \in Reqs, NEW w \in Wheres,
         where' = [where EXCEPT ![r] = w], where[r] # "answered", w # "answered",
         replies' = replies
  PROVE  Replied'
BY DEF Replied, TypedRequests

\* A step about a request that is not in the queue and is not answered
Ordinary(r, w, s, c, p) ==
  /\ Changed(r, w, s, c, p)
  /\ where[r] \notin {"queued", "answered"} /\ w # "answered"
  /\ UNCHANGED <<posted, replies>>
  /\ \/ serving' = r /\ serving \in {r, Nobody}
     \/ w \notin {"calling", "inStep"} /\ serving' = serving
     \/ w \notin {"calling", "inStep"} /\ serving = r /\ serving' = Nobody

LEMMA OrdinaryKeeps ==
  ASSUME ChainInv, NEW r \in Reqs, NEW w \in Wheres, NEW s \in Nat, NEW c, NEW p,
         Ordinary(r, w, s, c, p), Placed(r, At(w, s, c, p), filters)
  PROVE  ChainInv'
<1>1. Changed(r, w, s, c, p) /\ TypedRequests /\ AllPlaced /\ CalledOnLoop /\ QueuedOnce /\ Replied
  BY ChainTypedIs DEF ChainInv, AllPlaced, Ordinary
<1>2. TypedRequests' /\ AllPlaced'
  BY <1>1, OneMoves
<1>3. where' = [where EXCEPT ![r] = w]
  BY <1>1 DEF Changed
<1>4. CalledOnLoop'
  BY <1>1, <1>3, LoopStays DEF Ordinary
<1>5. QueuedOnce'
  BY <1>1, <1>3, QueueStays, ChainTypedIs DEF ChainInv, Ordinary
<1>6. Replied'
  BY <1>1, <1>3, RepliesStay DEF Ordinary
<1>7. ChainTyped'
  BY <1>2, ChainTypedIs DEF ChainInv, ChainTyped, TypedRequests, Ordinary, Changed
<1> QED BY <1>2, <1>4, <1>5, <1>6, <1>7 DEF ChainInv, AllPlaced

LEMMA ChainStarts == ChainInit => ChainInv
<1> SUFFICES ASSUME ChainInit PROVE ChainInv
  OBVIOUS
<1> USE DEF ChainInit
<1>1. ChainTyped
  BY EmptySeq DEF ChainTyped, Wheres
<1>2. QueuedOnce
  BY DEF QueuedOnce
<1>3. Replied /\ CalledOnLoop
  BY DEF Replied, CalledOnLoop
<1>4. ASSUME NEW r \in Reqs PROVE Placed(r, Now(r), filters)
  <2>1. Now(r).where = "new" /\ Now(r).stage = 1 /\ Now(r).passed = <<>>
    BY DEF Now
  <2> QED BY <2>1 DEF Placed, OnWay
<1> QED BY <1>1, <1>2, <1>3, <1>4 DEF ChainInv

LEMMA SameValue ==
  ASSUME NEW S, NEW f, f = [x \in S |-> f[x]], NEW r \in S
  PROVE  f = [f EXCEPT ![r] = f[r]]
OBVIOUS

\* What the invariant says of one request
LEMMA OneRequest ==
  ASSUME ChainInv, NEW r \in Reqs
  PROVE  /\ Placed(r, Now(r), filters) /\ filters \in {<<>>, GlobalFilterIds}
         /\ Len(filters) \in Nat /\ filters \in Seq(Fs)
         /\ (~alive => filters = <<>>)
         /\ where[r] \in Wheres /\ stage[r] \in Nat
         /\ stage = [stage EXCEPT ![r] = stage[r]]
         /\ where = [where EXCEPT ![r] = where[r]]
         /\ chains = [chains EXCEPT ![r] = chains[r]]
         /\ passed = [passed EXCEPT ![r] = passed[r]]
<1>1. filters \in Seq(Fs)
  BY ChainsAre, EmptySeq DEF ChainInv, ChainTyped
<1>2. stage = [stage EXCEPT ![r] = stage[r]] /\ where = [where EXCEPT ![r] = where[r]]
  BY DEF ChainInv, ChainTyped
<1>3. chains = [chains EXCEPT ![r] = chains[r]] /\ passed = [passed EXCEPT ![r] = passed[r]]
  BY SameValue DEF ChainInv, ChainTyped
<1> QED BY <1>1, <1>2, <1>3 DEF ChainInv, ChainTyped


\* A request's callback is called.
LEMMA ReplyKeeps ==
  ASSUME ChainInv, NEW r \in Reqs, where[r] # "queued", where[r] # "answered",
         Changed(r, "answered", stage[r], chains[r], passed[r]),
         replies' = [replies EXCEPT ![r] = @ + 1], posted' = posted,
         serving' = serving \/ (serving = r /\ serving' = Nobody)
  PROVE  ChainInv'
<1>1. TypedRequests /\ AllPlaced /\ "answered" \in Wheres /\ stage[r] \in Nat
  BY ChainTypedIs, OneRequest DEF ChainInv, AllPlaced, Wheres
<1>2. Placed(r, At("answered", stage[r], chains[r], passed[r]), filters)
  BY DoneIsPlaced
<1>3. TypedRequests' /\ AllPlaced'
  BY <1>1, <1>2, OneMoves
<1>4. where' = [where EXCEPT ![r] = "answered"] /\ UNCHANGED <<filters, alive>>
  BY DEF Changed
<1>5. CalledOnLoop'
  BY <1>1, <1>4, LoopStays DEF ChainInv
<1>6. QueuedOnce'
  BY <1>1, <1>4, QueueStays, ChainTypedIs DEF ChainInv
<1>7. Replied'
  BY <1>1, <1>4 DEF ChainInv, Replied, ChainTyped, TypedRequests
<1>8. ChainTyped'
  BY <1>3, <1>4 DEF ChainInv, ChainTyped, TypedRequests
<1> QED BY <1>3, <1>5, <1>6, <1>7, <1>8 DEF ChainInv, AllPlaced

LEMMA ArriveKeeps == ASSUME ChainInv, NEW r \in Reqs, Arrive(r) PROVE ChainInv'
<1>1. where[r] = "new" /\ serving = Nobody /\ UNCHANGED <<stage, posted, filters, alive, passed>>
  BY DEF Arrive
<1>2. stage[r] = 1 /\ passed[r] = <<>>
  BY <1>1, OneRequest DEF Placed, Now
<1>3. CASE Reply(r) /\ UNCHANGED <<chains, serving>>
  <2>1. Changed(r, "answered", stage[r], chains[r], passed[r])
    BY <1>1, <1>3, OneRequest DEF Changed, Reply, Moves
  <2>2. replies' = [replies EXCEPT ![r] = @ + 1] /\ where[r] # "queued" /\ where[r] # "answered"
    BY <1>1, <1>3 DEF Reply
  <2> QED BY <1>1, <1>3, <2>1, <2>2, ReplyKeeps
<1>4. CASE /\ chains' = [chains EXCEPT ![r] = <<Frame(1)>>]
           /\ Moves(r, "calling") /\ serving' = r /\ UNCHANGED replies
  <2> DEFINE z == At("calling", 1, <<Frame(1)>>, <<>>)
  <2>1. Ordinary(r, "calling", 1, <<Frame(1)>>, <<>>)
    BY <1>1, <1>2, <1>4, OneRequest DEF Ordinary, Changed, Moves
  <2>2. /\ z.where = "calling" /\ z.where \in OnWay /\ z.stage = 1
        /\ z.chain = <<StageFrame(1, 1)>> /\ z.passed = <<>> /\ 1 + Over(z) = 1
    <3>1. Frame(1) = StageFrame(1, 1)
      BY DEF Frame, StageFrame, FrameOf
    <3> QED BY <3>1 DEF At, OnWay, Over
  <2> HIDE DEF z
  <2>3. 1 \in DOMAIN Stages /\ 1 \in 1..(Len(Chain(1)) + 1)
    <3>1. 1 \in DOMAIN Stages
      BY ChainsAre
    <3>2. Len(Chain(1)) \in Nat
      BY <3>1, ChainsAre
    <3> QED BY <3>1, <3>2
  <2>4. RequiredBefore(1, 1, r) = <<>>
    BY <2>3, RequiredSteps
  <2>5. InStageAt(r, z, filters, 1)
    BY <2>2, <2>4 DEF InStageAt
  <2>6. Placed(r, z, filters)
    BY <2>2, <2>3, <2>5, PlacedInStage
  <2>7. "calling" \in Wheres /\ 1 \in Nat
    BY DEF Wheres, OnWay
  <2> QED BY <2>1, <2>6, <2>7, OrdinaryKeeps DEF z
<1> QED BY <1>3, <1>4 DEF Arrive

LEMMA CallStepKeeps == ASSUME ChainInv, NEW r \in Reqs, CallStep(r) PROVE ChainInv'
<1>1. /\ where[r] = "calling" /\ ~AtEnd(r) /\ Step(r) # Plugin
      /\ Ordinary(r, "inStep", stage[r], chains[r], passed[r])
  BY OneRequest DEF CallStep, Ordinary, Changed, Moves
<1>2. Placed(r, At("inStep", stage[r], chains[r], passed[r]), filters)
  BY <1>1, OneRequest, IsCalled
<1>3. "inStep" \in Wheres /\ stage[r] \in Nat
  BY OneRequest DEF Wheres, OnWay
<1> QED BY <1>1, <1>2, <1>3, OrdinaryKeeps

LEMMA CallPluginKeeps == ASSUME ChainInv, NEW r \in Reqs, CallPlugin(r) PROVE ChainInv'
<1>1. /\ where[r] = "calling" /\ ~AtEnd(r) /\ Step(r) = Plugin /\ serving = r
      /\ UNCHANGED <<where, stage, serving, posted, filters, alive, passed, replies>>
  BY DEF CallPlugin
<1>2. "calling" \in Wheres /\ stage[r] \in Nat
  BY OneRequest DEF Wheres, OnWay
<1>3. ASSUME NEW c, chains' = [chains EXCEPT ![r] = c]
      PROVE  Ordinary(r, "calling", stage[r], c, passed[r])
  BY <1>1, <1>3, OneRequest DEF Ordinary, Changed
<1>4. CASE (~alive \/ r \in Exempt) /\ Advance(r)
  <2>1. Placed(r, At("calling", stage[r], Onward(chains[r]), passed[r]), filters)
    BY <1>1, <1>4, OneRequest, PluginIsCalled
  <2>2. Ordinary(r, "calling", stage[r], Onward(chains[r]), passed[r])
    BY <1>3, <1>4 DEF Advance
  <2> QED BY <1>2, <2>1, <2>2, OrdinaryKeeps
<1>5. CASE /\ r \notin Exempt
           /\ chains' = [chains EXCEPT ![r] = Append(@, PluginFrame(stage[r]))]
  <2>1. Placed(r, At("calling", stage[r], Append(chains[r], PluginFrame(stage[r])), passed[r]),
               filters)
    BY <1>1, <1>5, OneRequest, PluginIsCalled
  <2>2. Ordinary(r, "calling", stage[r], Append(chains[r], PluginFrame(stage[r])), passed[r])
    BY <1>3, <1>5
  <2> QED BY <1>2, <2>1, <2>2, OrdinaryKeeps
<1> QED BY <1>4, <1>5 DEF CallPlugin

LEMMA EndOfChainKeeps == ASSUME ChainInv, NEW r \in Reqs, EndOfChain(r) PROVE ChainInv'
<1> DEFINE up == IF Top(r).plugin THEN PluginEnd(chains[r]) ELSE <<>>
<1>1. /\ where[r] = "calling" /\ AtEnd(r) /\ serving = r
      /\ UNCHANGED <<posted, filters, alive, passed, replies>>
  BY DEF EndOfChain
<1>2. /\ Top(r).plugin =>
           /\ PluginEnd(chains[r]) # <<>>
           /\ Placed(r, At("calling", stage[r], PluginEnd(chains[r]), passed[r]), filters)
      /\ ~Top(r).plugin /\ stage[r] < Len(Stages) =>
           Placed(r, At("calling", stage[r] + 1, <<Frame(stage[r] + 1)>>, passed[r]), filters)
      /\ ~Top(r).plugin /\ stage[r] = Len(Stages) =>
           Placed(r, At("handling", stage[r], <<>>, passed[r]), filters)
  BY <1>1, OneRequest, ChainEnds
<1>3. "calling" \in Wheres /\ "handling" \in Wheres /\ stage[r] \in Nat /\ stage[r] + 1 \in Nat
  BY OneRequest DEF Wheres, OnWay
<1>4. CASE up # <<>> /\ chains' = [chains EXCEPT ![r] = up] /\ UNCHANGED <<where, stage, serving>>
  <2>1. Top(r).plugin /\ up = PluginEnd(chains[r])
    BY <1>4
  <2>2. Ordinary(r, "calling", stage[r], PluginEnd(chains[r]), passed[r])
    BY <1>1, <1>4, <2>1, OneRequest DEF Ordinary, Changed
  <2> QED BY <1>2, <1>3, <2>1, <2>2, OrdinaryKeeps
<1>5. CASE /\ up = <<>> /\ stage[r] < Len(Stages)
           /\ stage' = [stage EXCEPT ![r] = @ + 1]
           /\ chains' = [chains EXCEPT ![r] = <<Frame(stage[r] + 1)>>]
           /\ UNCHANGED <<where, serving>>
  <2>1. ~Top(r).plugin
    BY <1>2, <1>5
  <2>2. Ordinary(r, "calling", stage[r] + 1, <<Frame(stage[r] + 1)>>, passed[r])
    BY <1>1, <1>5, OneRequest DEF Ordinary, Changed
  <2> QED BY <1>2, <1>3, <1>5, <2>1, <2>2, OrdinaryKeeps
<1>6. CASE /\ up = <<>> /\ stage[r] = Len(Stages)
           /\ chains' = [chains EXCEPT ![r] = <<>>]
           /\ Moves(r, "handling") /\ serving' = Nobody /\ UNCHANGED stage
  <2>1. ~Top(r).plugin
    BY <1>2, <1>6
  <2>2. Ordinary(r, "handling", stage[r], <<>>, passed[r])
    BY <1>1, <1>6, OneRequest DEF Ordinary, Changed, Moves
  <2> QED BY <1>2, <1>3, <1>6, <2>1, <2>2, OrdinaryKeeps
<1> QED BY <1>4, <1>5, <1>6 DEF EndOfChain

\* The step lets the request go on, at once or later in the loop.
LEMMA PassKeeps ==
  ASSUME ChainInv, NEW r \in Reqs, where[r] \in {"inStep", "held"}, serving \in {r, Nobody},
         Passes(r), Advance(r), Moves(r, "calling"), serving' = r,
         UNCHANGED <<stage, posted, filters, alive, replies>>
  PROVE  ChainInv'
<1> DEFINE p == IF AtEnd(r) THEN passed[r] ELSE Append(passed[r], Step(r))
<1>1. Placed(r, At("queued", stage[r], chains[r], p), filters)
  BY OneRequest, LetsGo
<1>2. Placed(r, At("calling", stage[r], Onward(chains[r]), p), filters)
  BY <1>1, OneRequest, GoesOn
<1>3. Ordinary(r, "calling", stage[r], Onward(chains[r]), p)
  BY OneRequest DEF Ordinary, Changed, Passes, Advance, Moves
<1>4. "calling" \in Wheres /\ stage[r] \in Nat
  BY OneRequest DEF Wheres, OnWay
<1> QED BY <1>2, <1>3, <1>4, OrdinaryKeeps

LEMMA HoldKeeps == ASSUME ChainInv, NEW r \in Reqs, Hold(r) PROVE ChainInv'
<1>1. where[r] = "inStep" /\ Ordinary(r, "held", stage[r], chains[r], passed[r])
  BY OneRequest DEF Hold, Ordinary, Changed, Moves
<1>2. Placed(r, At("held", stage[r], chains[r], passed[r]), filters)
  BY <1>1, OneRequest, IsCalled
<1>3. "held" \in Wheres /\ stage[r] \in Nat
  BY OneRequest DEF Wheres, OnWay
<1> QED BY <1>1, <1>2, <1>3, OrdinaryKeeps

LEMMA PassElsewhereKeeps == ASSUME ChainInv, NEW r \in Reqs, PassElsewhere(r) PROVE ChainInv'
<1> DEFINE p == IF AtEnd(r) THEN passed[r] ELSE Append(passed[r], Step(r))
           n == Len(posted)
<1>1. /\ where[r] = "held" /\ where' = [where EXCEPT ![r] = "queued"]
      /\ posted' = Append(posted, r)
      /\ UNCHANGED <<stage, chains, serving, filters, alive, replies>>
      /\ Changed(r, "queued", stage[r], chains[r], p)
  BY OneRequest DEF PassElsewhere, Passes, Moves, Changed
<1>2. Placed(r, At("queued", stage[r], chains[r], p), filters)
  BY <1>1, OneRequest, LetsGo
<1>3. /\ TypedRequests /\ AllPlaced /\ "queued" \in Wheres /\ stage[r] \in Nat
      /\ posted \in Seq(Reqs) /\ n \in Nat
  BY ChainTypedIs, OneRequest DEF ChainInv, AllPlaced, Wheres, OnWay
<1>4. TypedRequests' /\ AllPlaced'
  BY <1>1, <1>2, <1>3, OneMoves
<1>5. CalledOnLoop'
  BY <1>1, <1>3, LoopStays DEF ChainInv
<1>6. Replied'
  BY <1>1, <1>3, RepliesStay DEF ChainInv
<1>7. ChainTyped'
  BY <1>1, <1>3, <1>4 DEF ChainInv, ChainTyped, TypedRequests
<1>8. QueuedOnce'
  <2>1. /\ Len(posted') = n + 1 /\ posted'[n + 1] = r
        /\ \A i \in 1..n : posted'[i] = posted[i] /\ posted[i] # r /\ posted[i] \in Reqs
    BY <1>1, <1>3 DEF ChainInv, QueuedOnce
  <2>2. \A i \in 1..(n + 1) : i = n + 1 \/ i \in 1..n
    BY <1>3
  <2>3. ASSUME NEW i \in 1..(n + 1) PROVE where'[posted'[i]] = "queued"
    <3>1. CASE i = n + 1
      BY <1>1, <1>3, <2>1, <3>1 DEF TypedRequests
    <3>2. CASE i \in 1..n
      BY <1>1, <1>3, <2>1, <3>2 DEF TypedRequests, ChainInv, QueuedOnce
    <3> QED BY <2>2, <3>1, <3>2
  <2>4. ASSUME NEW i \in 1..(n + 1), NEW j \in 1..(n + 1), posted'[i] = posted'[j]
        PROVE  i = j
    BY <2>1, <2>2, <2>4 DEF ChainInv, QueuedOnce
  <2> QED BY <2>1, <2>3, <2>4 DEF QueuedOnce
<1> QED BY <1>4, <1>5, <1>6, <1>7, <1>8 DEF ChainInv, AllPlaced

LEMMA TakeQueuedKeeps == ASSUME ChainInv, TakeQueued PROVE ChainInv'
<1> DEFINE r == Head(posted)
           n == Len(posted)
<1>1. /\ serving = Nobody /\ posted # <<>> /\ posted' = Tail(posted)
      /\ where' = [where EXCEPT ![r] = "calling"] /\ serving' = r
      /\ chains' = [chains EXCEPT ![r] = Onward(chains[r])]
      /\ UNCHANGED <<stage, filters, alive, passed, replies>>
  BY DEF TakeQueued, Moves, Advance
<1>2. /\ TypedRequests /\ AllPlaced /\ posted \in Seq(Reqs) /\ n \in Nat \ {0}
      /\ r \in Reqs /\ r = posted[1] /\ where[r] = "queued"
  <2>1. posted \in Seq(Reqs) /\ n \in Nat \ {0} /\ r \in Reqs /\ r = posted[1]
    BY <1>1, EmptySeq DEF ChainInv, ChainTyped
  <2> QED BY <2>1, ChainTypedIs DEF ChainInv, AllPlaced, QueuedOnce
<1> HIDE DEF r, n
<1>3. "calling" \in Wheres /\ stage[r] \in Nat
  BY <1>2, OneRequest DEF Wheres, OnWay
<1>4. Placed(r, At("calling", stage[r], Onward(chains[r]), passed[r]), filters)
  <2>1. Now(r) = At("queued", stage[r], chains[r], passed[r])
    BY <1>2 DEF Now, At
  <2>2. Placed(r, At("queued", stage[r], chains[r], passed[r]), filters)
    BY <1>2, <2>1, OneRequest
  <2> QED BY <1>2, <2>2, OneRequest, GoesOn
<1>5. Changed(r, "calling", stage[r], Onward(chains[r]), passed[r])
  BY <1>1, <1>2, OneRequest DEF Changed
<1>6. TypedRequests' /\ AllPlaced'
  BY <1>2, <1>3, <1>4, <1>5, OneMoves
<1>7. CalledOnLoop'
  BY <1>1, <1>2, <1>3, LoopStays DEF ChainInv
<1>8. Replied'
  BY <1>1, <1>2, <1>3, RepliesStay DEF ChainInv
<1>9. /\ posted' \in Seq(Reqs) /\ Len(posted') = n - 1
      /\ \A i \in 1..(n - 1) : posted'[i] = posted[i + 1] /\ i + 1 \in 1..n /\ posted[i + 1] \in Reqs
  BY <1>1, <1>2 DEF n
<1>10. ChainTyped'
  BY <1>1, <1>6, <1>9 DEF ChainInv, ChainTyped, TypedRequests
<1>11. QueuedOnce'
  <2>1. ASSUME NEW i \in 1..(n - 1) PROVE where'[posted'[i]] = "queued"
    <3>1. posted[i + 1] # r /\ where[posted[i + 1]] = "queued"
      <4>1. 1 \in 1..n /\ i + 1 # 1 /\ i + 1 \in 1..n
        BY <1>2, <1>9
      <4> QED BY <1>2, <4>1 DEF ChainInv, QueuedOnce, n
    <3> QED BY <1>1, <1>2, <1>9, <3>1 DEF TypedRequests
  <2>2. ASSUME NEW i \in 1..(n - 1), NEW j \in 1..(n - 1), posted'[i] = posted'[j]
        PROVE  i = j
    <3>1. i + 1 = j + 1
      BY <1>9, <2>2 DEF ChainInv, QueuedOnce, n
    <3> QED BY <1>2, <3>1
  <2> QED BY <1>9, <2>1, <2>2 DEF QueuedOnce
<1> QED BY <1>6, <1>7, <1>8, <1>10, <1>11 DEF ChainInv, AllPlaced

LEMMA RepliesKeep == ASSUME ChainInv, NEW r \in Reqs, Answer(r) \/ Handle(r) PROVE ChainInv'
<1>1. /\ where[r] # "queued" /\ where[r] # "answered" /\ Reply(r)
      /\ UNCHANGED <<stage, chains, posted, filters, alive, passed>>
      /\ serving' = serving \/ (serving = r /\ serving' = Nobody)
  BY DEF Answer, Handle, InStep, ChainInv, CalledOnLoop
<1>2. Changed(r, "answered", stage[r], chains[r], passed[r])
  BY <1>1, OneRequest DEF Changed, Reply, Moves
<1> QED BY <1>1, <1>2, ReplyKeeps DEF Reply

LEMMA ThrowKeeps == ASSUME ChainInv, NEW r \in Reqs, Throw(r) \/ FilterThrows(r) PROVE ChainInv'
<1>1. Ordinary(r, "dropped", stage[r], chains[r], passed[r])
  <2>1. CASE Throw(r)
    BY <2>1, OneRequest DEF Throw, Ordinary, Changed, Moves
  <2>2. CASE FilterThrows(r)
    <3>1. \/ serving' = serving
          \/ serving = r /\ serving' = Nobody
      BY <2>2 DEF FilterThrows, InStep, ChainInv, CalledOnLoop
    <3>2. /\ where[r] \notin {"queued", "answered"} /\ where' = [where EXCEPT ![r] = "dropped"]
          /\ UNCHANGED <<stage, chains, posted, filters, alive, passed, replies>>
      BY <2>2 DEF FilterThrows, InStep, Moves
    <3> QED BY <3>1, <3>2, OneRequest DEF Ordinary, Changed
  <2> QED BY <2>1, <2>2
<1>2. "dropped" \in Wheres /\ stage[r] \in Nat
  BY OneRequest DEF Wheres, OnWay
<1> QED BY <1>1, <1>2, DoneIsPlaced, OrdinaryKeeps

\* Without filters less is required.
LEMMA PluginGoesKeeps == ASSUME ChainInv, Shutdown \/ Destroy PROVE ChainInv'
<1>1. /\ UNCHANGED <<where, stage, chains, serving, posted, passed, replies>>
      /\ filters' = <<>>
      /\ ~alive' => filters' = <<>>
  BY DEF Shutdown, Destroy
<1>2. ASSUME NEW r \in Reqs PROVE Placed(r, Now(r), filters)'
  <2> DEFINE x == Now(r)
  <2>1. Now(r)' = x
    BY <1>1 DEF Now
  <2>2. Placed(r, x, filters)
    BY OneRequest
  <2> HIDE DEF x
  <2>3. \A i : InStageAt(r, x, filters, i) => InStageAt(r, x, <<>>, i)
    BY DEF InStageAt
  <2>4. \A i, j : InPluginAt(r, x, filters, i, j) => InPluginAt(r, x, <<>>, i, j)
    BY DEF InPluginAt
  <2>5. Placed(r, x, <<>>)
    BY <2>2, <2>3, <2>4 DEF Placed
  <2> QED BY <1>1, <2>1, <2>5 DEF Placed, InStageAt, InPluginAt
<1>3. ChainTyped'
  BY <1>1 DEF ChainInv, ChainTyped
<1>4. QueuedOnce' /\ Replied' /\ CalledOnLoop'
  BY <1>1 DEF ChainInv, QueuedOnce, Replied, CalledOnLoop
<1> QED BY <1>2, <1>3, <1>4 DEF ChainInv

LEMMA ChainStepKeeps == ChainInv /\ [ChainNext]_chainVars => ChainInv'
<1> SUFFICES ASSUME ChainInv, [ChainNext]_chainVars PROVE ChainInv'
  OBVIOUS
<1>1. ASSUME NEW r \in Reqs, ChainStep(r) \/ StepActs(r) \/ Handle(r) \/ Throw(r)
      PROVE  ChainInv'
  <2>1. CASE ChainStep(r)
    BY <2>1, ArriveKeeps, CallStepKeeps, CallPluginKeeps, EndOfChainKeeps DEF ChainStep
  <2>2. CASE PassAtOnce(r)
    BY <2>2, PassKeeps DEF PassAtOnce
  <2>3. CASE PassInLoop(r)
    BY <2>3, PassKeeps DEF PassInLoop
  <2>4. CASE Hold(r) \/ PassElsewhere(r)
    BY <2>4, HoldKeeps, PassElsewhereKeeps
  <2>5. CASE Answer(r) \/ Handle(r) \/ Throw(r) \/ FilterThrows(r)
    BY <2>5, RepliesKeep, ThrowKeeps
  <2> QED BY <1>1, <2>1, <2>2, <2>3, <2>4, <2>5 DEF StepActs
<1>2. CASE TakeQueued \/ Shutdown \/ Destroy
  BY <1>2, TakeQueuedKeeps, PluginGoesKeeps
<1>3. CASE UNCHANGED chainVars
  <2>1. UNCHANGED <<where, stage, chains, serving, posted, filters, alive, passed, replies>>
    BY <1>3 DEF chainVars
  <2>2. \A r \in Reqs : Now(r)' = Now(r)
    BY <2>1 DEF Now
  <2>3. \A r \in Reqs : Placed(r, Now(r), filters)'
    BY <2>1, <2>2, ZenonT(40) DEF ChainInv, Placed, InStageAt, InPluginAt
  <2> QED BY <2>1, <2>3 DEF ChainInv, ChainTyped, QueuedOnce, Replied, CalledOnLoop
<1> QED BY <1>1, <1>2, <1>3 DEF ChainNext

\* A request reaches its handler only after every advice and every filter, in their
\* order, has let it go on; a step is called on the loop of its request; a callback is
\* called at most once, and never when the handler or a coroutine filter has thrown.
THEOREM RequestsPassTheChain == ChainSpec => []ChainExact
<1>1. ChainInv => ChainExact
  <2> SUFFICES ASSUME ChainInv PROVE ChainExact
    OBVIOUS
  <2>1. HandledAfterAll
    <3> SUFFICES ASSUME filters # <<>>, NEW r \in Reqs, where[r] = "handling"
                 PROVE  passed[r] = Required(r)
      BY DEF HandledAfterAll
    <3> QED BY OneRequest DEF Placed, Now
  <2>2. AnsweredOnce
    BY DEF ChainInv, Replied, AnsweredOnce
  <2> QED BY <2>1, <2>2 DEF ChainInv, ChainExact
<1> QED BY <1>1, ChainStarts, ChainStepKeeps, PTL DEF ChainSpec

-----------------------------------------------------------------------------
(* The plugins *)

Have == Listed \cap Defined
Upto(i, n) ==
  UNION {Range(configs[j].dependencies) : j \in {k \in 1..(i - 1) : configs[k].name = n}}
Statuses == {"None", "Initializing", "Initialized"}
Managers == {"creating", "configuring", "initializing", "running", "failed", "aborted"}
CallFrames == [plugin : Names, done : Nat]

PluginTyped ==
  /\ configs \in Configs
  /\ plugins = IF manager = "creating" THEN {} ELSE Have
  /\ dependencies \in [Names -> Seq(Names)]
  /\ status \in [Names -> Statuses]
  /\ calls \in Seq(CallFrames)
  /\ initialized \in Seq(Names) /\ shut \in Seq(Names)
  /\ place \in Nat \ {0}
  /\ manager \in Managers

\* What is known of the dependencies
Told ==
  /\ manager = "creating" => place = 1
  /\ manager \in {"creating", "configuring"} =>
       /\ place <= Len(configs) + 1
       /\ \A n \in Names :
            /\ n \notin Have => dependencies[n] = <<>>
            /\ n \in Have => Range(dependencies[n]) = Upto(place, n) /\ Upto(place, n) \subseteq Have
       /\ calls = <<>> /\ initialized = <<>>
       /\ \A n \in Names : status[n] = "None"
  /\ manager \in {"initializing", "running", "failed"} =>
       \A n \in Have : Range(dependencies[n]) = Needs(n) /\ Needs(n) \subseteq Have

\* A call that waits for that of next, and one that is on top of the pile
WaitsOn(c, next, st, deps, have) ==
  /\ c.plugin \in have /\ st[c.plugin] = "Initializing"
  /\ c.done \in 1..Len(deps[c.plugin])
  /\ \A i \in 1..c.done : st[deps[c.plugin][i]] = "Initialized" \/ i = c.done
  /\ next = deps[c.plugin][c.done]
Runs(c, st, deps, have) ==
  /\ c.plugin \in have /\ st[c.plugin] = "Initializing"
  /\ c.done \in 0..Len(deps[c.plugin])
  /\ \A i \in 1..c.done : st[deps[c.plugin][i]] = "Initialized"
Distinct(pile) == \A k, l \in 1..Len(pile) : pile[k].plugin = pile[l].plugin => k = l
Covers(pile, st) ==
  \A n \in Names : st[n] = "Initializing" => \E k \in 1..Len(pile) : pile[k].plugin = n
Begun(st, p, cs, have) ==
  \A i \in 1..Len(cs) : i < p /\ cs[i].name \in have => st[cs[i].name] # "None"
StackIs(pile, st, deps, have) ==
  \A k \in 1..Len(pile) :
    /\ k < Len(pile) => WaitsOn(pile[k], pile[k + 1].plugin, st, deps, have)
    /\ k = Len(pile) => Runs(pile[k], st, deps, have)

\* The calls under way: each is for the dependency that the one below it has reached.
Stacked ==
  /\ StackIs(calls, status, dependencies, Have)
  /\ Distinct(calls)
  /\ manager = "initializing" => Covers(calls, status) /\ Begun(status, place, configs, Have)

\* Who is initialised
InOrder ==
  /\ \A n \in Names : status[n] = "Initialized" <=> n \in Range(initialized)
  /\ \A i, j \in 1..Len(initialized) : initialized[i] = initialized[j] => i = j
  /\ \A i \in 1..Len(initialized) :
       /\ initialized[i] \in Have
       /\ \A n \in Needs(initialized[i]) : \E j \in 1..(i - 1) : initialized[j] = n
EndsRight ==
  /\ manager = "running" => Have \subseteq Range(initialized)
  /\ manager = "aborted" => Missing \/ Cyclic
ShutInReverse ==
  /\ manager \notin {"running", "failed"} => shut = <<>>
  /\ Len(shut) <= Len(initialized)
  /\ \A i \in 1..Len(shut) : shut[i] = initialized[Len(initialized) - i + 1]

PInv == PluginTyped /\ Told /\ Stacked /\ InOrder /\ EndsRight /\ ShutInReverse

-----------------------------------------------------------------------------
(* What the configuration says *)

LEMMA ConfigIs ==
  ASSUME configs \in Configs
  PROVE  /\ Len(configs) \in Nat /\ DOMAIN configs = 1..Len(configs)
         /\ \A i \in 1..Len(configs) :
              configs[i].name \in Names /\ configs[i].dependencies \in Seq(Names)
<1>1. configs \in Seq(Range(configs))
  BY PluginAssumption DEF IsConfig
<1> QED BY <1>1, PluginAssumption DEF IsConfig

LEMMA HaveIs ==
  ASSUME configs \in Configs
  PROVE  /\ Have \subseteq Names
         /\ \A n \in Have : \E i \in 1..Len(configs) : configs[i].name = n
BY ConfigIs, PluginAssumption DEF Have, Listed

LEMMA UptoIs ==
  ASSUME NEW i, NEW n, NEW e
  PROVE  e \in Upto(i, n) <=>
           \E j \in 1..(i - 1) : configs[j].name = n /\ e \in Range(configs[j].dependencies)
BY DEF Upto

LEMMA NeedsIs ==
  ASSUME configs \in Configs, NEW n
  PROVE  Needs(n) = Upto(Len(configs) + 1, n)
<1>1. DOMAIN configs = 1..((Len(configs) + 1) - 1)
  BY ConfigIs
<1> QED BY <1>1 DEF Needs, Upto

LEMMA UptoSteps ==
  ASSUME configs \in Configs, NEW n
  PROVE  /\ Upto(1, n) = {}
         /\ \A i \in 1..Len(configs) :
              /\ configs[i].name # n => Upto(i + 1, n) = Upto(i, n)
              /\ configs[i].name = n =>
                   Upto(i + 1, n) = Upto(i, n) \cup Range(configs[i].dependencies)
<1>1. Upto(1, n) = {}
  <2>1. \A e : e \notin Upto(1, n)
    BY UptoIs
  <2> QED BY <2>1
<1>2. ASSUME NEW i \in 1..Len(configs)
      PROVE  \A j : j \in 1..((i + 1) - 1) <=> j \in 1..(i - 1) \/ j = i
  BY ConfigIs
<1>3. ASSUME NEW i \in 1..Len(configs), configs[i].name # n
      PROVE  Upto(i + 1, n) = Upto(i, n)
  <2>1. \A e : e \in Upto(i + 1, n) <=> e \in Upto(i, n)
    BY <1>2, <1>3, UptoIs
  <2> QED BY <2>1
<1>4. ASSUME NEW i \in 1..Len(configs), configs[i].name = n
      PROVE  Upto(i + 1, n) = Upto(i, n) \cup Range(configs[i].dependencies)
  <2>1. \A e : e \in Upto(i + 1, n) <=> e \in Upto(i, n) \/ e \in Range(configs[i].dependencies)
    BY <1>2, <1>4, UptoIs
  <2> QED BY <2>1
<1> QED BY <1>1, <1>3, <1>4

LEMMA NeedsOfEntry ==
  ASSUME configs \in Configs, NEW i \in 1..Len(configs)
  PROVE  Range(configs[i].dependencies) \subseteq Needs(configs[i].name)
<1>1. i \in 1..((Len(configs) + 1) - 1)
  BY ConfigIs
<1> QED BY <1>1, NeedsIs, UptoIs

-----------------------------------------------------------------------------
(* The call pile *)

\* The pile of calls whose last one has come to a dependency
Reaches(pile, target) ==
  /\ pile \in Seq(CallFrames)
  /\ \A k \in 1..Len(pile) :
       WaitsOn(pile[k], IF k < Len(pile) THEN pile[k + 1].plugin ELSE target,
             status, dependencies, Have)
  /\ Distinct(pile) /\ Covers(pile, status)

\* The calls of plugins that stay as they are
LEMMA WaitsStays ==
  ASSUME NEW c, NEW next, NEW st, NEW st2, NEW deps, NEW have, WaitsOn(c, next, st, deps, have),
         \A n \in Range(deps[c.plugin]) : st[n] = "Initialized" => st2[n] = "Initialized",
         deps[c.plugin] \in Seq(Names), st2[c.plugin] = "Initializing"
  PROVE  /\ WaitsOn(c, next, st2, deps, have)
         /\ st2[next] = "Initialized" => Runs(c, st2, deps, have)
<1>1. \A i \in 1..c.done : i \in 1..Len(deps[c.plugin]) /\ deps[c.plugin][i] \in Range(deps[c.plugin])
  BY DEF WaitsOn, Range
<1>2. c.done \in 0..Len(deps[c.plugin])
  BY DEF WaitsOn
<1> QED BY <1>1, <1>2 DEF WaitsOn, Runs

LEMMA RunsOn ==
  ASSUME NEW c, NEW d, NEW st, NEW deps, NEW have, Runs(c, st, deps, have),
         deps[c.plugin] \in Seq(Names), c.done < Len(deps[c.plugin]),
         d.plugin = c.plugin, d.done = c.done + 1
  PROVE  WaitsOn(d, deps[c.plugin][c.done + 1], st, deps, have)
BY DEF WaitsOn, Runs

LEMMA OneDoneIs ==
  ASSUME NEW pile \in Seq(CallFrames), pile # <<>>
  PROVE  /\ OneDone(pile) \in Seq(CallFrames) /\ Len(OneDone(pile)) = Len(pile)
         /\ \A k \in 1..Len(pile) :
              /\ k # Len(pile) => OneDone(pile)[k] = pile[k]
              /\ OneDone(pile)[k].plugin = pile[k].plugin
              /\ k = Len(pile) => OneDone(pile)[k].done = pile[k].done + 1
<1> DEFINE n == Len(pile)
           top == [pile[n] EXCEPT !.done = @ + 1]
<1>1. n \in Nat \ {0} /\ \A k \in 1..n : pile[k] \in CallFrames
  BY EmptySeq
<1>2. top \in CallFrames /\ top.plugin = pile[n].plugin /\ top.done = pile[n].done + 1
  BY <1>1 DEF CallFrames
<1>3. OneDone(pile) = [pile EXCEPT ![n] = top]
  BY DEF OneDone
<1> HIDE DEF n, top
<1>4. [pile EXCEPT ![n] = top] \in Seq(CallFrames) /\ Len([pile EXCEPT ![n] = top]) = n
  BY <1>1, <1>2 DEF n
<1>5. \A k \in 1..n : [pile EXCEPT ![n] = top][k] = IF k = n THEN top ELSE pile[k]
  BY <1>1 DEF n
<1> QED BY <1>2, <1>3, <1>4, <1>5 DEF n

\* A plugin that is called on the way to itself: its calls are a cycle.
LEMMA CallsAreACycle ==
  ASSUME PInv, manager = "initializing", NEW pile, NEW n \in Names, Reaches(pile, n),
         status[n] = "Initializing"
  PROVE  Cyclic
<1> DEFINE S == {pile[k].plugin : k \in 1..Len(pile)}
<1>1. Len(pile) \in Nat /\ n \in S
  BY DEF Reaches, Covers
<1>2. ASSUME NEW m \in S PROVE Needs(m) \cap S # {}
  <2>1. PICK k \in 1..Len(pile) : pile[k].plugin = m
    OBVIOUS
  <2> DEFINE i == pile[k].done
             next == IF k < Len(pile) THEN pile[k + 1].plugin ELSE n
  <2>2. /\ m \in Have /\ i \in 1..Len(dependencies[m]) /\ next = dependencies[m][i]
    BY <2>1 DEF Reaches, WaitsOn
  <2>3. next \in Needs(m)
    <3>1. dependencies[m] \in Seq(Names)
      BY <2>2, HaveIs DEF PInv, PluginTyped
    <3>2. next \in Range(dependencies[m])
      BY <2>2, <3>1 DEF Range
    <3> QED BY <2>2, <3>2 DEF PInv, Told
  <2>4. next \in S
    <3>1. k < Len(pile) => k + 1 \in 1..Len(pile)
      BY <1>1
    <3> QED BY <1>1, <3>1
  <2> QED BY <2>3, <2>4
<1>3. S \in (SUBSET Defined) \ {{}}
  <2>1. \A k \in 1..Len(pile) : pile[k].plugin \in Have
    BY DEF Reaches, WaitsOn
  <2>2. Have \subseteq Defined
    BY DEF Have
  <2>3. S \subseteq Defined
    BY <2>1, <2>2
  <2> HIDE DEF S
  <2> QED BY <1>1, <2>3
<1> HIDE DEF S
<1> QED BY <1>2, <1>3 DEF Cyclic

-----------------------------------------------------------------------------
(* The steps *)

Still == UNCHANGED <<configs, plugins, dependencies, initialized, shut>>

LEMMA SameConfig ==
  ASSUME UNCHANGED configs
  PROVE  /\ Have' = Have /\ Listed' = Listed
         /\ \A n : Needs(n)' = Needs(n)
         /\ \A i, n : Upto(i, n)' = Upto(i, n)
         /\ Missing' = Missing /\ Cyclic' = Cyclic
<1>1. Listed' = Listed /\ Have' = Have
  BY DEF Have, Listed
<1>2. \A n : Needs(n)' = Needs(n)
  BY DEF Needs
<1>3. \A i, n : Upto(i, n)' = Upto(i, n)
  BY DEF Upto
<1>4. Missing' = Missing
  BY <1>1, <1>2 DEF Missing
<1>5. Cyclic' = Cyclic
  BY <1>2 DEF Cyclic
<1> QED BY <1>1, <1>2, <1>3, <1>4, <1>5

LEMMA InOrderStays ==
  ASSUME InOrder, UNCHANGED <<configs, initialized>>,
         \A n \in Names : status'[n] = "Initialized" <=> status[n] = "Initialized"
  PROVE  InOrder'
<1>1. Have' = Have /\ initialized' = initialized
  BY SameConfig
<1>2. ASSUME NEW i PROVE Needs(initialized[i])' = Needs(initialized[i])
  BY DEF Needs
<1>3. \A n \in Names : status'[n] = "Initialized" <=> n \in Range(initialized')
  BY <1>1 DEF InOrder
<1>4. ASSUME NEW i \in 1..Len(initialized)
      PROVE  /\ initialized'[i] \in Have'
             /\ \A n \in Needs(initialized[i])' : \E j \in 1..(i - 1) : initialized'[j] = n
  BY <1>1, <1>2 DEF InOrder
<1> QED BY <1>1, <1>3, <1>4 DEF InOrder

\* initialize() of a plugin that the code below it has come to
LEMMA InitializeKeeps ==
  ASSUME PInv, manager = "initializing", Still, NEW under, NEW n \in Have, Reaches(under, n),
         Initialize(n, under), under = <<>> => calls = <<>>,
         place' \in Nat \ {0},
         \A i \in 1..Len(configs) :
           i < place' /\ configs[i].name \in Have => i < place \/ configs[i].name = n
  PROVE  PInv'
<1> DEFINE d == dependencies
           k0 == Len(under)
           next(k) == IF k < k0 THEN under[k + 1].plugin ELSE n
<1>1. /\ n \in Names /\ configs \in Configs /\ d \in [Names -> Seq(Names)]
      /\ status \in [Names -> Statuses] /\ under \in Seq(CallFrames) /\ k0 \in Nat
      /\ Have \subseteq Names /\ Len(configs) \in Nat /\ place \in Nat
      /\ Begun(status, place, configs, Have) /\ Covers(calls, status)
  BY HaveIs, ConfigIs DEF PInv, PluginTyped, Reaches, Stacked
<1>2. /\ Have' = Have /\ (\A m : Needs(m)' = Needs(m)) /\ Missing' = Missing /\ Cyclic' = Cyclic
      /\ UNCHANGED <<configs, plugins, dependencies, initialized, shut>>
  BY SameConfig DEF Still
<1>3. ASSUME NEW k \in 1..k0
      PROVE  /\ WaitsOn(under[k], next(k), status, d, Have)
             /\ under[k].plugin \in Have /\ status[under[k].plugin] = "Initializing"
             /\ d[under[k].plugin] \in Seq(Names)
  <2>1. WaitsOn(under[k], next(k), status, d, Have)
    BY DEF Reaches
  <2>2. under[k].plugin \in Have /\ status[under[k].plugin] = "Initializing"
    BY <2>1 DEF WaitsOn
  <2> QED BY <1>1, <2>1, <2>2
<1>4. Distinct(under) /\ Covers(under, status)
  BY DEF Reaches
<1>5. ASSUME NEW st \in [Names -> Statuses],
             \A i \in 1..Len(configs) : configs[i].name \in Have =>
               (status[configs[i].name] # "None" => st[configs[i].name] # "None"),
             st[n] # "None"
      PROVE  Begun(st, place', configs, Have)
  BY <1>1, <1>5 DEF Begun
<1> HIDE DEF next
<1>6. CASE /\ status[n] = "None" /\ status' = [status EXCEPT ![n] = "Initializing"]
           /\ calls' = Append(under, [plugin |-> n, done |-> 0])
           /\ UNCHANGED manager
  <2> DEFINE new == [plugin |-> n, done |-> 0]
  <2>1. new \in CallFrames /\ new.plugin = n /\ new.done = 0
    BY <1>1 DEF CallFrames
  <2> HIDE DEF new
  <2>2. /\ calls' \in Seq(CallFrames) /\ Len(calls') = k0 + 1 /\ calls'[k0 + 1] = new
        /\ \A k \in 1..k0 : calls'[k] = under[k]
        /\ \A k \in 1..(k0 + 1) : k \in 1..k0 \/ k = k0 + 1
    BY <1>1, <1>6, <2>1 DEF new
  <2>3. /\ status' \in [Names -> Statuses] /\ status'[n] = "Initializing"
        /\ \A m \in Names : m # n => status'[m] = status[m]
        /\ \A m \in Names : status'[m] = "Initialized" <=> status[m] = "Initialized"
    BY <1>1, <1>6 DEF Statuses
  <2>4. ASSUME NEW k \in 1..k0
        PROVE  WaitsOn(under[k], next(k), status', d, Have) /\ under[k].plugin # n
    <3>1. status'[under[k].plugin] = "Initializing" /\ under[k].plugin # n
      BY <1>1, <1>3, <1>6, <2>3
    <3>2. \A m \in Range(d[under[k].plugin]) :
            status[m] = "Initialized" => status'[m] = "Initialized"
      BY <1>3, <2>3, RangeOfSeq
    <3> QED BY <1>3, <3>1, <3>2, WaitsStays
  <2>5. StackIs(calls', status', d, Have)
    <3>1. ASSUME NEW k \in 1..(k0 + 1), k < k0 + 1
          PROVE  WaitsOn(calls'[k], calls'[k + 1].plugin, status', d, Have)
      <4>1. k \in 1..k0 /\ calls'[k] = under[k]
        BY <1>1, <2>2, <3>1
      <4>2. calls'[k + 1].plugin = next(k)
        <5>1. CASE k < k0
          <6>1. k + 1 \in 1..k0
            BY <1>1, <4>1, <5>1
          <6> QED BY <2>2, <5>1, <6>1 DEF next
        <5>2. CASE k = k0
          BY <1>1, <2>1, <2>2, <5>2 DEF next
        <5> QED BY <1>1, <4>1, <5>1, <5>2
      <4> QED BY <2>4, <4>1, <4>2
    <3>2. Runs(calls'[k0 + 1], status', d, Have)
      <4>1. Len(d[n]) \in Nat
        BY <1>1
      <4> QED BY <2>1, <2>2, <2>3, <4>1 DEF Runs
    <3> QED BY <2>2, <3>1, <3>2 DEF StackIs
  <2>6. Distinct(calls')
    <3>1. ASSUME NEW k \in 1..(k0 + 1), NEW l \in 1..(k0 + 1),
                 calls'[k].plugin = calls'[l].plugin
          PROVE  k = l
      BY <1>4, <2>1, <2>2, <2>4, <3>1 DEF Distinct
    <3> QED BY <2>2, <3>1 DEF Distinct
  <2>7. Covers(calls', status')
    <3>1. ASSUME NEW m \in Names, status'[m] = "Initializing"
          PROVE  \E k \in 1..(k0 + 1) : calls'[k].plugin = m
      <4>1. CASE m = n
        <5>1. k0 + 1 \in 1..(k0 + 1)
          BY <1>1
        <5> QED BY <2>1, <2>2, <4>1, <5>1
      <4>2. CASE m # n
        <5>1. PICK k \in 1..k0 : under[k].plugin = m
          BY <1>4, <2>3, <3>1, <4>2 DEF Covers
        <5>2. k \in 1..(k0 + 1)
          BY <1>1
        <5> QED BY <2>2, <5>1, <5>2
      <4> QED BY <4>1, <4>2
    <3> QED BY <2>2, <3>1 DEF Covers
  <2>8. Begun(status', place', configs, Have)
    <3>1. \A m \in Names : status[m] # "None" => status'[m] # "None"
      BY <2>3
    <3> QED BY <1>1, <1>5, <2>3, <3>1
  <2>9. PluginTyped'
    BY <1>1, <1>2, <1>6, <2>2, <2>3 DEF PInv, PluginTyped
  <2>10. Told'
    BY <1>2, <1>6 DEF PInv, Told
  <2>11. Stacked'
    BY <1>2, <2>5, <2>6, <2>7, <2>8 DEF Stacked
  <2>12. InOrder'
    BY <1>2, <2>3, InOrderStays DEF PInv
  <2>13. EndsRight' /\ ShutInReverse'
    BY <1>2, <1>6 DEF PInv, EndsRight, ShutInReverse
  <2> QED BY <2>9, <2>10, <2>11, <2>12, <2>13 DEF PInv
<1>7. CASE status[n] = "Initialized" /\ calls' = under /\ UNCHANGED <<status, manager>>
  <2>1. ASSUME NEW k \in 1..k0 PROVE k = k0 => Runs(under[k], status, d, Have)
    <3>1. k = k0 => next(k) = n
      BY <1>1 DEF next
    <3> QED BY <1>3, <1>7, <3>1, WaitsStays
  <2>2. StackIs(under, status, d, Have)
    BY <1>3, <2>1 DEF StackIs, next
  <2>3. Begun(status, place', configs, Have)
    BY <1>1, <1>5, <1>7
  <2>4. PluginTyped'
    BY <1>1, <1>2, <1>7 DEF PInv, PluginTyped
  <2>5. Told'
    BY <1>2, <1>7 DEF PInv, Told
  <2>6. Stacked'
    BY <1>2, <1>4, <1>7, <2>2, <2>3 DEF Stacked
  <2>7. InOrder'
    BY <1>2, <1>7, InOrderStays DEF PInv
  <2>8. EndsRight' /\ ShutInReverse'
    BY <1>2, <1>7 DEF PInv, EndsRight, ShutInReverse
  <2> QED BY <2>4, <2>5, <2>6, <2>7, <2>8 DEF PInv
<1>8. CASE status[n] = "Initializing" /\ manager' = "aborted" /\ UNCHANGED <<status, calls>>
  <2>1. Cyclic
    BY <1>1, <1>8, CallsAreACycle
  <2>2. PluginTyped'
    BY <1>1, <1>2, <1>8 DEF PInv, PluginTyped, Managers
  <2>3. Told'
    BY <1>8 DEF Told
  <2>4. Stacked'
    BY <1>2, <1>8 DEF PInv, Stacked
  <2>5. InOrder'
    BY <1>2, <1>8, InOrderStays DEF PInv
  <2>6. EndsRight' /\ ShutInReverse'
    BY <1>2, <1>8, <2>1 DEF PInv, EndsRight, ShutInReverse
  <2> QED BY <2>2, <2>3, <2>4, <2>5, <2>6 DEF PInv
<1> QED BY <1>6, <1>7, <1>8 DEF Initialize

LEMMA PluginsStart == PluginInit => PInv
<1> SUFFICES ASSUME PluginInit PROVE PInv
  OBVIOUS
<1> USE DEF PluginInit
<1>1. configs \in Configs /\ Len(configs) \in Nat
  BY ConfigIs
<1>2. PluginTyped
  BY EmptySeq DEF PluginTyped, Statuses, Managers
<1>3. Told
  <2>1. ASSUME NEW n \in Have PROVE Range(dependencies[n]) = Upto(place, n) /\ Upto(place, n) \subseteq Have
    <3>1. dependencies[n] = <<>> /\ Range(<<>>) = {}
      BY <1>1, HaveIs DEF Range
    <3> QED BY <1>1, <3>1, UptoSteps
  <2> QED BY <1>1, <2>1 DEF Told
<1>4. Stacked
  BY DEF Stacked, StackIs, Distinct
<1>5. InOrder
  <2>1. Range(<<>>) = {}
    BY DEF Range
  <2> QED BY <2>1 DEF InOrder
<1>6. EndsRight /\ ShutInReverse
  BY DEF EndsRight, ShutInReverse
<1> QED BY <1>2, <1>3, <1>4, <1>5, <1>6 DEF PInv

LEMMA CreateAllKeeps == ASSUME PInv, CreateAll PROVE PInv'
<1>1. /\ manager = "creating" /\ plugins' = Have /\ manager' = "configuring"
      /\ UNCHANGED <<configs, dependencies, status, calls, initialized, place, shut>>
  BY DEF CreateAll, Have
<1>2. Have' = Have /\ \A i, n : Upto(i, n)' = Upto(i, n)
  BY <1>1, SameConfig
<1>3. PluginTyped'
  BY <1>1, <1>2 DEF PInv, PluginTyped, Managers
<1>4. Told'
  <2>1. \A n : Upto(place, n)' = Upto(place, n)
    BY <1>1 DEF Upto
  <2> QED BY <1>1, <1>2, <2>1 DEF PInv, Told
<1>5. Stacked'
  BY <1>1, <1>2 DEF PInv, Stacked
<1>6. InOrder'
  BY <1>1, InOrderStays DEF PInv
<1>7. EndsRight' /\ ShutInReverse'
  BY <1>1 DEF PInv, EndsRight, ShutInReverse
<1> QED BY <1>3, <1>4, <1>5, <1>6, <1>7 DEF PInv

LEMMA ConfigureKeeps == ASSUME PInv, Configure PROVE PInv'
<1> DEFINE n == configs[place].name
           wanted == configs[place].dependencies
           d == dependencies
<1>1. /\ manager = "configuring" /\ plugins = Have /\ place \in Nat \ {0}
      /\ UNCHANGED <<configs, plugins, status, calls, initialized, shut>>
      /\ place <= Len(configs) + 1 /\ Len(configs) \in Nat /\ configs \in Configs
      /\ calls = <<>> /\ initialized = <<>> /\ shut = <<>>
      /\ \A m \in Names : status[m] = "None"
      /\ d \in [Names -> Seq(Names)] /\ Have \subseteq Names
  BY ConfigIs, HaveIs DEF Configure, PInv, PluginTyped, Told, ShutInReverse
<1>2. Have' = Have /\ Missing' = Missing /\ Cyclic' = Cyclic /\ Listed' = Listed
  BY <1>1, SameConfig
<1>3. /\ \A m : Needs(m)' = Needs(m)
      /\ \A m : Upto(place, m)' = UNION {Range(configs[j].dependencies) : j \in {k \in 1..(place' - 1) : configs[k].name = m}}
  BY <1>1 DEF Needs, Upto
<1>4. \A m \in Names :
        /\ m \notin Have => d[m] = <<>>
        /\ m \in Have => Range(d[m]) = Upto(place, m) /\ Upto(place, m) \subseteq Have
  BY <1>1 DEF PInv, Told
<1>5. InOrder'
  BY <1>1, InOrderStays DEF PInv
<1>6. StackIs(calls, status, dependencies', Have) /\ Distinct(calls) /\ Covers(calls, status)
  BY <1>1 DEF StackIs, Distinct, Covers
<1>7. CASE place > Len(configs) /\ place' = 1 /\ manager' = "initializing" /\ UNCHANGED dependencies
  <2>1. place = Len(configs) + 1
    BY <1>1, <1>7
  <2>2. \A m \in Have : Range(d[m]) = Needs(m) /\ Needs(m) \subseteq Have
    BY <1>1, <1>4, <2>1, NeedsIs
  <2>3. Told'
    BY <1>2, <1>3, <1>7, <2>2 DEF Told
  <2>4. Begun(status, 1, configs, Have)
    BY <1>1 DEF Begun
  <2>5. Stacked'
    BY <1>1, <1>2, <1>6, <1>7, <2>4 DEF Stacked
  <2>6. PluginTyped'
    BY <1>1, <1>2, <1>7 DEF PInv, PluginTyped, Managers
  <2>7. EndsRight' /\ ShutInReverse'
    BY <1>1, <1>7 DEF PInv, EndsRight, ShutInReverse
  <2> QED BY <1>5, <2>3, <2>5, <2>6, <2>7 DEF PInv
<1>8. ASSUME place <= Len(configs), place' = place + 1, UNCHANGED manager,
             dependencies' \in [Names -> Seq(Names)],
             \A m \in Names :
               /\ m \notin Have => dependencies'[m] = <<>>
               /\ m \in Have =>
                    Range(dependencies'[m]) = Upto(place + 1, m) /\ Upto(place + 1, m) \subseteq Have
      PROVE  PInv'
  <2>1. \A m : Upto(place, m)' = Upto(place + 1, m)
    BY <1>3, <1>8 DEF Upto
  <2>2. place' <= Len(configs) + 1
    BY <1>1, <1>8
  <2>3. Told'
    BY <1>1, <1>2, <1>8, <2>1, <2>2 DEF Told
  <2>4. Stacked'
    BY <1>1, <1>2, <1>6, <1>8 DEF Stacked
  <2>5. PluginTyped'
    BY <1>1, <1>2, <1>8 DEF PInv, PluginTyped
  <2>6. EndsRight' /\ ShutInReverse'
    BY <1>1, <1>8 DEF PInv, EndsRight, ShutInReverse
  <2> QED BY <1>5, <2>3, <2>4, <2>5, <2>6 DEF PInv
<1>9. ASSUME place <= Len(configs)
      PROVE  place \in 1..Len(configs) /\ n \in Names /\ wanted \in Seq(Names)
  BY <1>1, <1>9, ConfigIs
<1>10. CASE place <= Len(configs) /\ n \notin plugins /\ place' = place + 1 /\ UNCHANGED <<dependencies, manager>>
  <2>1. \A m \in Have : Upto(place + 1, m) = Upto(place, m)
    BY <1>1, <1>9, <1>10, UptoSteps
  <2> QED BY <1>1, <1>4, <1>8, <1>10, <2>1
<1>11. CASE /\ place <= Len(configs) /\ n \in plugins /\ Range(wanted) \subseteq plugins
            /\ dependencies' = [dependencies EXCEPT ![n] = @ \o wanted]
            /\ place' = place + 1 /\ UNCHANGED manager
  <2>1. d[n] \in Seq(Names) /\ d[n] \o wanted \in Seq(Names)
    BY <1>1, <1>9, <1>11
  <2>2. dependencies' \in [Names -> Seq(Names)] /\ dependencies'[n] = d[n] \o wanted
    BY <1>1, <1>9, <1>11, <2>1
  <2>3. Range(dependencies'[n]) = Range(d[n]) \cup Range(wanted)
    BY <1>9, <1>11, <2>1, <2>2, RangeConcatenation
  <2>4. ASSUME NEW m \in Have
        PROVE  Range(dependencies'[m]) = Upto(place + 1, m) /\ Upto(place + 1, m) \subseteq Have
    <3>1. CASE m = n
      <4>1. Upto(place + 1, m) = Upto(place, m) \cup Range(wanted)
        BY <1>1, <1>9, <1>11, <3>1, UptoSteps
      <4> QED BY <1>1, <1>4, <1>11, <2>3, <3>1, <4>1
    <3>2. CASE m # n
      <4>1. Upto(place + 1, m) = Upto(place, m)
        BY <1>1, <1>9, <1>11, <3>2, UptoSteps
      <4>2. dependencies'[m] = d[m]
        BY <1>1, <1>11, <3>2
      <4> QED BY <1>1, <1>4, <4>1, <4>2
    <3> QED BY <3>1, <3>2
  <2>5. \A m \in Names : m \notin Have => dependencies'[m] = <<>>
    BY <1>1, <1>4, <1>11
  <2> QED BY <1>8, <1>11, <2>2, <2>4, <2>5
<1>12. CASE /\ place <= Len(configs) /\ n \in plugins /\ ~(Range(wanted) \subseteq plugins)
            /\ manager' = "aborted" /\ UNCHANGED <<dependencies, place>>
  <2>1. Missing
    <3>1. Range(wanted) \subseteq Needs(n)
      BY <1>1, <1>9, <1>12, NeedsOfEntry
    <3> QED BY <1>1, <1>12, <3>1 DEF Missing, Have
  <2>2. Told'
    BY <1>12 DEF Told
  <2>3. Stacked'
    BY <1>1, <1>2, <1>6, <1>12 DEF Stacked
  <2>4. PluginTyped'
    BY <1>1, <1>2, <1>12 DEF PInv, PluginTyped, Managers
  <2>5. EndsRight' /\ ShutInReverse'
    BY <1>1, <1>2, <1>12, <2>1 DEF PInv, EndsRight, ShutInReverse
  <2> QED BY <1>5, <2>2, <2>3, <2>4, <2>5 DEF PInv
<1> QED BY <1>7, <1>10, <1>11, <1>12 DEF Configure

LEMMA InitializeNextKeeps == ASSUME PInv, InitializeNext PROVE PInv'
<1>1. /\ manager = "initializing" /\ calls = <<>> /\ Still /\ plugins = Have
      /\ UNCHANGED <<configs, plugins, dependencies, initialized, shut>>
      /\ place \in Nat \ {0} /\ Len(configs) \in Nat /\ configs \in Configs
      /\ Have \subseteq Names /\ status \in [Names -> Statuses]
  BY ConfigIs, HaveIs DEF InitializeNext, PInv, PluginTyped, Still
<1>2. \A m \in Names : status[m] # "Initializing"
  BY <1>1 DEF PInv, Stacked, Covers
<1>3. Have' = Have /\ Missing' = Missing /\ Cyclic' = Cyclic /\ (\A m : Needs(m)' = Needs(m))
  BY <1>1, SameConfig
<1>4. CASE place > Len(configs) /\ manager' = "running" /\ UNCHANGED <<status, calls, place>>
  <2>1. ASSUME NEW m \in Have PROVE m \in Range(initialized)
    <3>1. PICK i \in 1..Len(configs) : configs[i].name = m
      BY <1>1, HaveIs
    <3>2. status[m] # "None"
      BY <1>1, <1>4, <3>1 DEF PInv, Stacked, Begun
    <3>3. status[m] = "Initialized"
      BY <1>1, <1>2, <3>2 DEF Statuses
    <3> QED BY <1>1, <3>3 DEF PInv, InOrder
  <2>2. Told'
    BY <1>1, <1>3, <1>4 DEF PInv, Told
  <2>3. Stacked'
    BY <1>1, <1>3, <1>4 DEF PInv, Stacked
  <2>4. PluginTyped'
    BY <1>1, <1>3, <1>4 DEF PInv, PluginTyped, Managers
  <2>5. InOrder'
    BY <1>1, <1>4, InOrderStays DEF PInv
  <2>6. EndsRight' /\ ShutInReverse'
    BY <1>1, <1>3, <1>4, <2>1 DEF PInv, EndsRight, ShutInReverse
  <2> QED BY <2>2, <2>3, <2>4, <2>5, <2>6 DEF PInv
<1>5. CASE /\ place <= Len(configs) /\ place' = place + 1
           /\ configs[place].name \in plugins /\ Initialize(configs[place].name, calls)
  <2> DEFINE n == configs[place].name
  <2>1. Reaches(calls, n)
    BY <1>1 DEF PInv, PluginTyped, Stacked, Reaches
  <2>2. ASSUME NEW i \in 1..Len(configs), i < place' PROVE i < place \/ configs[i].name = n
    BY <1>1, <1>5, <2>2
  <2>3. n \in Have /\ place' \in Nat \ {0}
    BY <1>1, <1>5
  <2> HIDE DEF n
  <2> QED BY <1>1, <1>5, <2>1, <2>2, <2>3, InitializeKeeps DEF n
<1>6. CASE /\ place <= Len(configs) /\ place' = place + 1
           /\ configs[place].name \notin plugins /\ UNCHANGED <<status, calls, manager>>
  <2>1. Begun(status, place', configs, Have)
    <3>1. ASSUME NEW i \in 1..Len(configs), i < place', configs[i].name \in Have PROVE i < place
      BY <1>1, <1>6, <3>1
    <3> QED BY <1>1, <3>1 DEF PInv, Stacked, Begun
  <2>2. Told'
    BY <1>1, <1>3, <1>6 DEF PInv, Told
  <2>3. Stacked'
    BY <1>1, <1>3, <1>6, <2>1 DEF PInv, Stacked
  <2>4. PluginTyped'
    BY <1>1, <1>3, <1>6 DEF PInv, PluginTyped
  <2>5. InOrder'
    BY <1>1, <1>6, InOrderStays DEF PInv
  <2>6. EndsRight' /\ ShutInReverse'
    BY <1>1, <1>3, <1>6 DEF PInv, EndsRight, ShutInReverse
  <2> QED BY <2>2, <2>3, <2>4, <2>5, <2>6 DEF PInv
<1> QED BY <1>4, <1>5, <1>6 DEF InitializeNext

\* The call on top of the pile
LEMMA TopIs ==
  ASSUME PInv, manager = "initializing", calls # <<>>
  PROVE  /\ Len(calls) \in Nat \ {0} /\ calls \in Seq(CallFrames)
         /\ Current = calls[Len(calls)] /\ Current.plugin \in Have /\ Current.done \in Nat
         /\ Runs(Current, status, dependencies, Have)
         /\ dependencies[Current.plugin] \in Seq(Names)
         /\ Range(dependencies[Current.plugin]) = Needs(Current.plugin)
         /\ Needs(Current.plugin) \subseteq Have
         /\ Have \subseteq Names
<1>1. /\ calls \in Seq(CallFrames) /\ configs \in Configs
      /\ dependencies \in [Names -> Seq(Names)]
  BY DEF PInv, PluginTyped
<1>2. Len(calls) \in Nat \ {0} /\ Current = calls[Len(calls)]
  BY <1>1, EmptySeq DEF Current, Last
<1>3. Runs(Current, status, dependencies, Have)
  BY <1>2 DEF PInv, Stacked, StackIs
<1>4. Current.plugin \in Have /\ Current.done \in Nat
  <2>1. Current \in CallFrames
    BY <1>1, <1>2
  <2> QED BY <1>3, <2>1 DEF Runs, CallFrames
<1> QED BY <1>1, <1>2, <1>3, <1>4, HaveIs DEF PInv, Told

LEMMA NextDependencyKeeps == ASSUME PInv, NextDependency PROVE PInv'
<1> DEFINE c == Current
           n == dependencies[c.plugin][c.done + 1]
           under == OneDone(calls)
           k0 == Len(calls)
<1>1. /\ manager = "initializing" /\ calls # <<>> /\ c.done < Len(dependencies[c.plugin])
      /\ Initialize(n, under) /\ Still /\ UNCHANGED place
  BY DEF NextDependency, Still
<1>2. /\ k0 \in Nat \ {0} /\ calls \in Seq(CallFrames) /\ c = calls[k0]
      /\ c.plugin \in Have /\ c.done \in Nat
      /\ Runs(c, status, dependencies, Have)
      /\ dependencies[c.plugin] \in Seq(Names)
      /\ Range(dependencies[c.plugin]) = Needs(c.plugin) /\ Needs(c.plugin) \subseteq Have
  BY <1>1, TopIs
<1>3. n \in Have
  <2>1. c.done + 1 \in 1..Len(dependencies[c.plugin])
    BY <1>1, <1>2
  <2>2. n \in Range(dependencies[c.plugin])
    BY <1>2, <2>1 DEF Range
  <2> QED BY <1>2, <2>2
<1>4. /\ under \in Seq(CallFrames) /\ Len(under) = k0
      /\ \A k \in 1..k0 : under[k].plugin = calls[k].plugin
      /\ \A k \in 1..k0 : k # k0 => under[k] = calls[k]
      /\ under[k0].done = c.done + 1 /\ under[k0].plugin = c.plugin
  <2>1. k0 \in 1..k0
    BY <1>2
  <2> QED BY <1>1, <1>2, <2>1, OneDoneIs
<1> HIDE DEF under, n
<1>5. Reaches(under, n)
  <2>1. ASSUME NEW k \in 1..k0
        PROVE  WaitsOn(under[k], IF k < k0 THEN under[k + 1].plugin ELSE n,
                     status, dependencies, Have)
    <3>1. CASE k < k0
      <4>1. k + 1 \in 1..k0 /\ k # k0
        BY <1>2, <3>1
      <4>2. under[k] = calls[k] /\ under[k + 1].plugin = calls[k + 1].plugin
        BY <1>4, <4>1
      <4>3. WaitsOn(calls[k], calls[k + 1].plugin, status, dependencies, Have)
        BY <3>1 DEF PInv, Stacked, StackIs
      <4> QED BY <3>1, <4>2, <4>3
    <3>2. CASE k = k0
      <4>1. WaitsOn(under[k0], n, status, dependencies, Have)
        BY <1>1, <1>2, <1>4, RunsOn DEF n
      <4> QED BY <1>2, <3>2, <4>1
    <3> QED BY <1>2, <3>1, <3>2
  <2>2. Distinct(under) /\ Covers(under, status)
    BY <1>1, <1>4 DEF PInv, Stacked, Distinct, Covers
  <2> QED BY <1>4, <2>1, <2>2 DEF Reaches
<1>6. under # <<>>
  BY <1>2, <1>4
<1>7. place' \in Nat \ {0} /\ place' = place
  BY <1>1 DEF PInv, PluginTyped
<1> QED BY <1>1, <1>3, <1>5, <1>6, <1>7, InitializeKeeps DEF n, under

LEMMA StartKeeps == ASSUME PInv, Start PROVE PInv'
<1> DEFINE c == Current
           n == c.plugin
           d == dependencies
           k0 == Len(calls)
           m0 == Len(initialized)
<1>1. /\ manager = "initializing" /\ calls # <<>> /\ c.done = Len(d[n])
      /\ status' = [status EXCEPT ![n] = "Initialized"]
      /\ initialized' = Append(initialized, n)
      /\ calls' = Front(calls)
      /\ UNCHANGED <<configs, plugins, dependencies, place, manager, shut>>
  BY DEF Start
<1>2. /\ k0 \in Nat \ {0} /\ calls \in Seq(CallFrames) /\ c = calls[k0]
      /\ n \in Have /\ c.done \in Nat /\ Runs(c, status, d, Have)
      /\ d[n] \in Seq(Names) /\ Range(d[n]) = Needs(n) /\ Have \subseteq Names
  BY <1>1, TopIs
<1>3. /\ configs \in Configs /\ status \in [Names -> Statuses] /\ initialized \in Seq(Names)
      /\ d \in [Names -> Seq(Names)] /\ m0 \in Nat /\ shut = <<>>
  BY <1>1 DEF PInv, PluginTyped, ShutInReverse
<1>4. Have' = Have /\ \A m : Needs(m)' = Needs(m)
  BY <1>1, SameConfig
<1> HIDE DEF c
<1>5. /\ status' \in [Names -> Statuses] /\ status'[n] = "Initialized" /\ status[n] = "Initializing"
      /\ \A m \in Names : m # n => status'[m] = status[m]
      /\ \A m \in Names : status[m] = "Initialized" => status'[m] = "Initialized"
  BY <1>1, <1>2, <1>3 DEF Statuses, Runs
<1>6. \A m \in Needs(n) : status[m] = "Initialized" /\ m \in Names
  <2>1. ASSUME NEW i \in 1..Len(d[n]) PROVE status[d[n][i]] = "Initialized" /\ d[n][i] \in Names
    BY <1>1, <1>2 DEF Runs
  <2>2. Range(d[n]) = {d[n][i] : i \in 1..Len(d[n])}
    BY <1>2, RangeEquality
  <2> QED BY <1>2, <2>1, <2>2
<1>7. /\ calls' \in Seq(CallFrames) /\ Len(calls') = k0 - 1
      /\ \A k \in 1..(k0 - 1) : calls'[k] = calls[k] /\ k \in 1..k0 /\ k + 1 \in 1..k0
  <2>1. calls' = SubSeq(calls, 1, k0 - 1)
    BY <1>1 DEF Front
  <2>2. \A k \in 1..(k0 - 1) : k \in 1..k0 /\ k + 1 \in 1..k0 /\ calls[k] \in CallFrames
    BY <1>2
  <2>3. /\ SubSeq(calls, 1, k0 - 1) \in Seq(CallFrames)
        /\ Len(SubSeq(calls, 1, k0 - 1)) = k0 - 1
    <3>1. k0 - 1 \in Nat
      BY <1>2
    <3> HIDE DEF k0
    <3>2. \A m \in Nat : (\A k \in 1..m : calls[k] \in CallFrames) =>
            SubSeq(calls, 1, m) \in Seq(CallFrames) /\ Len(SubSeq(calls, 1, m)) = m
      BY SubSeqProperties
    <3> QED BY <2>2, <3>1, <3>2
  <2>4. \A k \in 1..(k0 - 1) : SubSeq(calls, 1, k0 - 1)[k] = calls[k]
    BY <1>2, <2>2, SubSeqProperties
  <2> QED BY <2>1, <2>2, <2>3, <2>4
<1>8. /\ initialized' \in Seq(Names) /\ Len(initialized') = m0 + 1 /\ initialized'[m0 + 1] = n
      /\ \A i \in 1..m0 : initialized'[i] = initialized[i]
      /\ \A i \in 1..(m0 + 1) : i \in 1..m0 \/ i = m0 + 1
  BY <1>1, <1>2, <1>3
<1>9. Distinct(calls) /\ Covers(calls, status) /\ Begun(status, place, configs, Have)
  BY <1>1 DEF PInv, Stacked
<1>10. StackIs(calls', status', d, Have)
  <2>1. ASSUME NEW k \in 1..(k0 - 1)
        PROVE  /\ WaitsOn(calls[k], calls[k + 1].plugin, status', d, Have)
               /\ k = k0 - 1 => Runs(calls[k], status', d, Have)
    <3>1. WaitsOn(calls[k], calls[k + 1].plugin, status, d, Have) /\ k \in 1..k0 /\ k # k0
      BY <1>2, <1>7 DEF PInv, Stacked, StackIs
    <3>2. calls[k].plugin \in Have /\ status[calls[k].plugin] = "Initializing"
      BY <3>1 DEF WaitsOn
    <3>3. calls[k].plugin # n
      <4>1. k0 \in 1..k0
        BY <1>2
      <4> QED BY <1>2, <1>9, <3>1, <4>1 DEF Distinct
    <3>4. d[calls[k].plugin] \in Seq(Names) /\ status'[calls[k].plugin] = "Initializing"
      BY <1>2, <1>3, <1>5, <3>2, <3>3
    <3>5. \A m \in Range(d[calls[k].plugin]) :
            status[m] = "Initialized" => status'[m] = "Initialized"
      BY <1>5, <3>4, RangeOfSeq
    <3>6. /\ WaitsOn(calls[k], calls[k + 1].plugin, status', d, Have)
          /\ status'[calls[k + 1].plugin] = "Initialized" => Runs(calls[k], status', d, Have)
      <4> DEFINE x == calls[k]
                 next == calls[k + 1].plugin
      <4>1. /\ WaitsOn(x, next, status, d, Have) /\ d[x.plugin] \in Seq(Names)
            /\ status'[x.plugin] = "Initializing"
            /\ \A m \in Range(d[x.plugin]) :
                 status[m] = "Initialized" => status'[m] = "Initialized"
        BY <3>1, <3>4, <3>5
      <4> HIDE DEF x, next
      <4>2. /\ WaitsOn(x, next, status', d, Have)
            /\ status'[next] = "Initialized" => Runs(x, status', d, Have)
        BY <4>1, WaitsStays
      <4> QED BY <4>2 DEF x, next
    <3>7. k = k0 - 1 => calls[k + 1].plugin = n
      BY <1>2
    <3> QED BY <1>5, <3>6, <3>7
  <2>2. ASSUME NEW k \in 1..(k0 - 1), k < k0 - 1
        PROVE  calls'[k + 1] = calls[k + 1]
    BY <1>2, <1>7, <2>2
  <2> QED BY <1>7, <2>1, <2>2 DEF StackIs
<1>11. Distinct(calls')
  BY <1>7, <1>9 DEF Distinct
<1>12. Covers(calls', status')
  <2>1. ASSUME NEW m \in Names, status'[m] = "Initializing"
        PROVE  \E k \in 1..(k0 - 1) : calls'[k].plugin = m
    <3>1. PICK k \in 1..k0 : calls[k].plugin = m
      BY <1>5, <1>9, <2>1 DEF Covers
    <3>2. k # k0
      BY <1>2, <1>5, <2>1, <3>1
    <3>3. k \in 1..(k0 - 1)
      BY <1>2, <3>2
    <3> QED BY <1>7, <3>1, <3>3
  <2> QED BY <1>7, <2>1 DEF Covers
<1>13. Begun(status', place, configs, Have)
  BY <1>2, <1>5, <1>9 DEF Begun
<1>14. Stacked'
  BY <1>1, <1>4, <1>10, <1>11, <1>12, <1>13 DEF Stacked
<1>15. PluginTyped'
  BY <1>1, <1>4, <1>5, <1>7, <1>8 DEF PInv, PluginTyped
<1>16. Told'
  BY <1>1, <1>4 DEF PInv, Told
<1>17. InOrder'
  <2>1. Range(initialized) = {initialized[i] : i \in 1..m0}
        /\ Range(initialized') = {initialized'[i] : i \in 1..(m0 + 1)}
    BY <1>3, <1>8, RangeEquality
  <2>2. \A m \in Names : status[m] = "Initialized" <=> m \in Range(initialized)
    BY DEF PInv, InOrder
  <2>3. ASSUME NEW m \in Names PROVE status'[m] = "Initialized" <=> m \in Range(initialized')
    <3>1. m \in Range(initialized') <=> m \in Range(initialized) \/ m = n
      <4>1. m0 + 1 \in 1..(m0 + 1) /\ \A i \in 1..m0 : i \in 1..(m0 + 1)
        BY <1>3
      <4> QED BY <1>8, <2>1, <4>1
    <3> QED BY <1>2, <1>5, <2>2, <3>1
  <2>4. \A i \in 1..m0 : initialized[i] # n
    BY <1>2, <1>5, <2>1, <2>2
  <2>5. ASSUME NEW i \in 1..(m0 + 1), NEW j \in 1..(m0 + 1), initialized'[i] = initialized'[j]
        PROVE  i = j
    BY <1>8, <2>4, <2>5 DEF PInv, InOrder
  <2>6. ASSUME NEW i \in 1..(m0 + 1)
        PROVE  /\ initialized'[i] \in Have
               /\ \A m \in Needs(initialized'[i]) : \E j \in 1..(i - 1) : initialized'[j] = m
    <3>1. CASE i \in 1..m0
      <4>1. \A j \in 1..(i - 1) : j \in 1..m0
        BY <1>3, <3>1
      <4>2. initialized'[i] = initialized[i]
        BY <1>8, <3>1
      <4>3. \A j \in 1..(i - 1) : initialized'[j] = initialized[j]
        BY <1>8, <4>1
      <4>4. /\ initialized[i] \in Have
            /\ \A m \in Needs(initialized[i]) : \E j \in 1..(i - 1) : initialized[j] = m
        BY <3>1 DEF PInv, InOrder
      <4> QED BY <4>2, <4>3, <4>4
    <3>2. CASE i = m0 + 1
      <4>1. initialized'[i] = n /\ i - 1 = m0
        BY <1>3, <1>8, <3>2
      <4>2. \A m \in Needs(n) : \E j \in 1..m0 : initialized[j] = m
        BY <1>6, <2>1, <2>2
      <4> QED BY <1>2, <1>8, <4>1, <4>2
    <3> QED BY <1>8, <3>1, <3>2
  <2>7. ASSUME NEW i PROVE Needs(initialized[i])' = Needs(initialized'[i])
    BY <1>1 DEF Needs
  <2> QED BY <1>4, <1>8, <2>3, <2>5, <2>6, <2>7 DEF InOrder
<1>18. EndsRight'
  BY <1>1 DEF EndsRight
<1>19. ShutInReverse'
  BY <1>1, <1>3, <1>8 DEF ShutInReverse
<1> QED BY <1>14, <1>15, <1>16, <1>17, <1>18, <1>19 DEF PInv

LEMMA StartThrowsKeeps == ASSUME PInv, StartThrows PROVE PInv'
<1>1. /\ manager = "initializing" /\ calls' = <<>> /\ manager' = "failed"
      /\ UNCHANGED <<configs, plugins, dependencies, status, initialized, place, shut>>
  BY DEF StartThrows
<1>2. Have' = Have /\ \A m : Needs(m)' = Needs(m)
  BY <1>1, SameConfig
<1>3. PluginTyped'
  BY <1>1, <1>2, EmptySeq DEF PInv, PluginTyped, Managers
<1>4. Told'
  BY <1>1, <1>2 DEF PInv, Told
<1>5. Stacked'
  BY <1>1 DEF Stacked, StackIs, Distinct
<1>6. InOrder'
  BY <1>1, InOrderStays DEF PInv
<1>7. EndsRight' /\ ShutInReverse'
  BY <1>1 DEF PInv, EndsRight, ShutInReverse
<1> QED BY <1>3, <1>4, <1>5, <1>6, <1>7 DEF PInv

LEMMA ShutDownKeeps == ASSUME PInv, ShutDown PROVE PInv'
<1> DEFINE k0 == Len(shut)
           m0 == Len(initialized)
           e == initialized[m0 - k0]
<1>1. /\ manager \in {"running", "failed"} /\ k0 < m0 /\ shut' = Append(shut, e)
      /\ UNCHANGED <<configs, plugins, dependencies, status, calls, initialized, place, manager>>
  BY DEF ShutDown
<1>2. shut \in Seq(Names) /\ initialized \in Seq(Names) /\ k0 \in Nat /\ m0 \in Nat
  BY DEF PInv, PluginTyped
<1>3. e \in Names
  <2>1. m0 - k0 \in 1..m0
    BY <1>1, <1>2
  <2> QED BY <1>2, <2>1
<1>4. /\ shut' \in Seq(Names) /\ Len(shut') = k0 + 1 /\ shut'[k0 + 1] = e
      /\ \A i \in 1..k0 : shut'[i] = shut[i]
  BY <1>1, <1>2, <1>3
<1>5. Have' = Have /\ (\A m : Needs(m)' = Needs(m)) /\ Missing' = Missing /\ Cyclic' = Cyclic
  BY <1>1, SameConfig
<1>6. PluginTyped'
  BY <1>1, <1>4, <1>5 DEF PInv, PluginTyped
<1>7. Told'
  BY <1>1, <1>5 DEF PInv, Told
<1>8. Stacked'
  BY <1>1, <1>5 DEF PInv, Stacked
<1>9. InOrder'
  BY <1>1, InOrderStays DEF PInv
<1>10. EndsRight'
  BY <1>1, <1>5 DEF PInv, EndsRight
<1>11. ShutInReverse'
  <2>1. ASSUME NEW i \in 1..(k0 + 1) PROVE shut'[i] = initialized[m0 - i + 1]
    <3>1. CASE i \in 1..k0
      BY <1>4, <3>1 DEF PInv, ShutInReverse
    <3>2. CASE i = k0 + 1
      <4>1. m0 - i + 1 = m0 - k0
        BY <1>2, <3>2
      <4> QED BY <1>4, <3>2, <4>1
    <3> QED BY <1>2, <3>1, <3>2
  <2> QED BY <1>1, <1>2, <1>4, <2>1 DEF ShutInReverse
<1> QED BY <1>6, <1>7, <1>8, <1>9, <1>10, <1>11 DEF PInv

LEMMA PluginStepKeeps == PInv /\ [PluginNext]_pluginVars => PInv'
<1> SUFFICES ASSUME PInv, [PluginNext]_pluginVars PROVE PInv'
  OBVIOUS
<1>1. CASE UNCHANGED pluginVars
  <2>1. UNCHANGED <<configs, plugins, dependencies, status, calls, initialized, place, manager, shut>>
    BY <1>1 DEF pluginVars
  <2>2. Have' = Have /\ (\A m : Needs(m)' = Needs(m)) /\ Missing' = Missing /\ Cyclic' = Cyclic
        /\ \A i, m : Upto(i, m)' = Upto(i, m)
    BY <2>1, SameConfig
  <2>3. PluginTyped'
    BY <2>1, <2>2 DEF PInv, PluginTyped
  <2>4. Told'
    <3>1. \A m : Upto(place, m)' = Upto(place, m)
      BY <2>1 DEF Upto
    <3> QED BY <2>1, <2>2, <3>1 DEF PInv, Told
  <2>5. Stacked'
    BY <2>1, <2>2 DEF PInv, Stacked
  <2>6. InOrder'
    BY <2>1, InOrderStays DEF PInv
  <2>7. EndsRight' /\ ShutInReverse'
    BY <2>1, <2>2 DEF PInv, EndsRight, ShutInReverse
  <2> QED BY <2>3, <2>4, <2>5, <2>6, <2>7 DEF PInv
<1> QED
  BY <1>1, CreateAllKeeps, ConfigureKeeps, InitializeNextKeeps, NextDependencyKeeps,
     StartKeeps, StartThrowsKeeps, ShutDownKeeps DEF PluginNext

\* Plugins that have started in order do not depend on themselves.
LEMMA StartedIsNotCyclic ==
  ASSUME PInv, manager = "running"
  PROVE  ~Cyclic
<1> SUFFICES ASSUME NEW S \in (SUBSET Defined) \ {{}}, \A n \in S : Needs(n) \cap S # {}
             PROVE  FALSE
  BY DEF Cyclic
<1>1. initialized \in Seq(Names) /\ Len(initialized) \in Nat /\ configs \in Configs
  BY DEF PInv, PluginTyped
<1> DEFINE I == {i \in 1..Len(initialized) : initialized[i] \in S}
<1>2. I # {}
  <2>1. PICK n \in S : Needs(n) # {}
    OBVIOUS
  <2>2. n \in Have
    <3>1. PICK e : e \in Needs(n)
      BY <2>1
    <3>2. PICK i \in DOMAIN configs : configs[i].name = n
      BY <3>1 DEF Needs
    <3> QED BY <3>2 DEF Have, Listed
  <2>3. n \in Range(initialized)
    BY <2>2 DEF PInv, EndsRight
  <2>4. PICK i \in 1..Len(initialized) : initialized[i] = n
    BY <1>1, <2>3, RangeEquality
  <2> QED BY <2>4
<1>3. I \subseteq Nat
  OBVIOUS
<1>4. PICK i \in I : \A j \in I : i <= j
  BY <1>2, <1>3, LeastNumber
<1>5. PICK m \in S : m \in Needs(initialized[i])
  OBVIOUS
<1>6. PICK j \in 1..(i - 1) : initialized[j] = m
  BY <1>5 DEF PInv, InOrder
<1>7. j \in I /\ j < i
  BY <1>1, <1>6
<1> QED BY <1>1, <1>4, <1>7

\* Plugins start each once and after all they need, and are shut down before any of those;
\* the program runs with all plugins of its configuration, and aborts only if one is
\* missing or needs itself.
THEOREM PluginsStartInOrder == PluginSpec => []PluginsInOrder
<1>1. PInv => PluginsInOrder
  <2> SUFFICES ASSUME PInv PROVE PluginsInOrder
    OBVIOUS
  <2> DEFINE m0 == Len(initialized)
             k0 == Len(shut)
  <2>1. /\ initialized \in Seq(Names) /\ shut \in Seq(Names) /\ m0 \in Nat /\ k0 \in Nat
        /\ k0 <= m0 /\ DOMAIN initialized = 1..m0 /\ DOMAIN shut = 1..k0
        /\ Range(initialized) = {initialized[i] : i \in 1..m0}
        /\ Range(shut) = {shut[i] : i \in 1..k0}
    <3>1. initialized \in Seq(Names) /\ shut \in Seq(Names) /\ k0 <= m0
      BY DEF PInv, PluginTyped, ShutInReverse
    <3> QED BY <3>1, RangeEquality
  <2>2. \A i, j \in 1..m0 : initialized[i] = initialized[j] => i = j
    BY DEF PInv, InOrder
  <2>3. ASSUME NEW i \in 1..k0
        PROVE  shut[i] = initialized[m0 - i + 1] /\ m0 - i + 1 \in 1..m0
    BY <2>1 DEF PInv, ShutInReverse
  <2>4. IsInjective(initialized)
    BY <2>1, <2>2 DEF IsInjective
  <2>5. IsInjective(shut)
    <3>1. ASSUME NEW i \in 1..k0, NEW j \in 1..k0, shut[i] = shut[j] PROVE i = j
      <4>1. m0 - i + 1 = m0 - j + 1
        BY <2>2, <2>3, <3>1
      <4> QED BY <2>1, <4>1
    <3> QED BY <2>1, <3>1 DEF IsInjective
  <2>6. ASSUME NEW i \in 1..m0, NEW n \in Needs(initialized[i])
        PROVE  \E j \in 1..m0 : j < i /\ initialized[j] = n
    <3>1. PICK j \in 1..(i - 1) : initialized[j] = n
      BY DEF PInv, InOrder
    <3>2. j \in 1..m0 /\ j < i
      BY <2>1
    <3> QED BY <3>1, <3>2
  <2>7. ASSUME NEW m \in Range(initialized), NEW n \in Needs(m)
        PROVE  Before(n, m, initialized)
    <3>1. PICK i \in 1..m0 : initialized[i] = m
      BY <2>1
    <3> QED BY <2>1, <2>6, <3>1 DEF Before
  <2>8. ASSUME NEW m \in Range(initialized), NEW n \in Needs(m), n \in Range(shut)
        PROVE  Before(m, n, shut)
    <3>1. PICK i \in 1..m0 : initialized[i] = m
      BY <2>1
    <3>2. PICK j \in 1..m0 : j < i /\ initialized[j] = n
      BY <2>6, <3>1
    <3>3. PICK k \in 1..k0 : shut[k] = n
      BY <2>1, <2>8
    <3>4. m0 - k + 1 = j
      BY <2>2, <2>3, <3>2, <3>3
    <3> DEFINE l == m0 - i + 1
    <3>5. l \in 1..k0 /\ l < k /\ m0 - l + 1 = i
      BY <2>1, <3>2, <3>4
    <3>6. shut[l] = m
      BY <2>3, <3>1, <3>5
    <3> HIDE DEF l
    <3> QED BY <2>1, <3>3, <3>5, <3>6 DEF Before
  <2>9. ASSUME manager = "running"
        PROVE  Range(initialized) = Listed \cap Defined /\ ~Missing /\ ~Cyclic
    <3>1. Have \subseteq Range(initialized) /\ \A i \in 1..m0 : initialized[i] \in Have
      BY <2>9 DEF PInv, EndsRight, InOrder
    <3>2. Range(initialized) = Have
      BY <2>1, <3>1
    <3>3. \A n \in Have : Needs(n) \subseteq Have
      BY <2>9 DEF PInv, Told
    <3> QED BY <2>9, <3>2, <3>3, StartedIsNotCyclic DEF Have, Missing
  <2>10. manager = "aborted" => Missing \/ Cyclic
    BY DEF PInv, EndsRight
  <2> QED BY <2>4, <2>5, <2>7, <2>8, <2>9, <2>10 DEF PluginsInOrder
<1> QED BY <1>1, PluginsStart, PluginStepKeeps, PTL DEF PluginSpec

-----------------------------------------------------------------------------
(* The test framework *)

\* What is known of the Cases, whatever the assertions do.
CasesTyped ==
  /\ parents \in Seq(Nat \cup {NoCase})
  /\ \A c \in 1..Len(parents) : parents[c] = NoCase \/ parents[c] \in 1..(c - 1)
  /\ held \in [TestThreads -> Seq(Nat)]
  /\ dying \in [TestThreads -> Nat \cup {NoCase}]
  /\ registeredTests \subseteq 1..Len(parents)

\* A Case that code holds is registered, and so is one that a registered Case holds.
HeldLive == \A t \in TestThreads : Range(held[t]) \subseteq registeredTests
ParentsLive == \A d \in registeredTests : parents[d] # NoCase => parents[d] \in registeredTests

\* What a thread destroys is still registered, and nothing refers to it.
DyingAlone ==
  \A t \in TestThreads : dying[t] # NoCase =>
    /\ dying[t] \in registeredTests
    /\ \A u \in TestThreads : dying[t] \notin Range(held[u])
    /\ \A d \in registeredTests : parents[d] # dying[t]
    /\ \A u \in TestThreads : u # t => dying[u] # dying[t]

\* run() holds its own Case until all tests are started, and a body its own on top.
MainHolds ==
  /\ main \in {"registering", "inBody", "looking", "waiting", "printing", "returned"}
  /\ main = "registering" => Len(held["main"]) = 1
  /\ main = "inBody" => Len(held["main"]) >= 2
  /\ main \notin {"registering", "inBody"} => held["main"] = <<>>

\* The end is signalled for good.
EndsOnce ==
  /\ signals \in Nat /\ signals <= 1
  /\ signals > 0 \/ main \in {"printing", "returned"} => registeredTests = {}

CaseInv == CasesTyped /\ HeldLive /\ ParentsLive /\ DyingAlone /\ MainHolds /\ EndsOnce

\* An assertion is judged by a thread that holds its Case, and is counted as correct, as
\* one that did not hold, or not yet.
Evaluating == {t \in TestThreads : judging[t] = "evaluating"}

AssertionsCounted ==
  /\ judging \in [TestThreads -> {"no", "evaluating", "counting"}]
  /\ \A t \in TestThreads : judging[t] # "no" => held[t] # <<>>
  /\ numAssertions \in Nat /\ numCorrectAssertions \in Nat
  /\ IsFiniteSet(Evaluating)
  /\ numCorrectAssertions + Cardinality(Evaluating) <= numAssertions
  /\ wrong = (numCorrectAssertions + Cardinality(Evaluating) # numAssertions)

Reported ==
  IF main = "returned"
  THEN report = [assertions |-> numAssertions, correct |-> numCorrectAssertions,
                 failed |-> numFailedTestCases]
  ELSE report = NoCase

TestInv == CaseInv /\ AssertionsCounted /\ Reported

LEMMA LastAndFront ==
  ASSUME NEW s \in Seq(Nat), s # <<>>
  PROVE  /\ Last(s) \in Nat /\ Last(s) \in Range(s)
         /\ Front(s) \in Seq(Nat) /\ Len(Front(s)) = Len(s) - 1
         /\ Range(Front(s)) \subseteq Range(s)
<1>1. Len(s) \in Nat /\ Len(s) >= 1 /\ \A i \in 1..Len(s) : s[i] \in Nat
  BY EmptySeq
<1>2. Len(s) \in 1..Len(s)
  BY <1>1
<1>3. Last(s) \in Nat /\ Last(s) \in Range(s)
  BY <1>1, <1>2 DEF Last, Range
<1>4. /\ Front(s) \in Seq(Nat) /\ Len(Front(s)) = Len(s) - 1
      /\ \A i \in 1..(Len(s) - 1) : Front(s)[i] = s[i]
  <2>1. /\ SubSeq(s, 1, Len(s) - 1) \in Seq(Nat)
        /\ Len(SubSeq(s, 1, Len(s) - 1)) =
             IF 1 <= Len(s) - 1 THEN (Len(s) - 1) - 1 + 1 ELSE 0
        /\ \A i \in 1..((Len(s) - 1) - 1 + 1) : SubSeq(s, 1, Len(s) - 1)[i] = s[1 + i - 1]
    BY <1>1, SubSeqProperties
  <2>0. ASSUME NEW n \in Nat, n >= 1
        PROVE  /\ 1 <= n - 1 => (n - 1) - 1 + 1 = n - 1
               /\ ~ (1 <= n - 1) => n - 1 = 0
               /\ (n - 1) - 1 + 1 = n - 1
               /\ \A i \in 1..(n - 1) : 1 + i - 1 = i
    BY <2>0
  <2>2. /\ 1 <= Len(s) - 1 => (Len(s) - 1) - 1 + 1 = Len(s) - 1
        /\ ~ (1 <= Len(s) - 1) => Len(s) - 1 = 0
        /\ (Len(s) - 1) - 1 + 1 = Len(s) - 1
        /\ \A i \in 1..(Len(s) - 1) : 1 + i - 1 = i
    BY <1>1, <2>0
  <2>3. Front(s) = SubSeq(s, 1, Len(s) - 1)
    BY DEF Front
  <2>4. Len(Front(s)) = Len(s) - 1
    BY <2>1, <2>2, <2>3
  <2>5. \A i \in 1..(Len(s) - 1) : Front(s)[i] = s[i]
    BY <2>1, <2>2, <2>3
  <2> QED BY <2>1, <2>3, <2>4, <2>5
<1>5. Range(Front(s)) \subseteq Range(s)
  <2>1. DOMAIN Front(s) = 1..(Len(s) - 1) /\ DOMAIN s = 1..Len(s)
    BY <1>1, <1>4
  <2>2. \A i \in 1..(Len(s) - 1) : i \in 1..Len(s)
    BY <1>1
  <2> QED BY <1>4, <2>1, <2>2 DEF Range
<1> QED BY <1>3, <1>4, <1>5

LEMMA RangeOfAppend ==
  ASSUME NEW s \in Seq(Nat), NEW e \in Nat
  PROVE  /\ Append(s, e) \in Seq(Nat) /\ Len(Append(s, e)) = Len(s) + 1
         /\ Range(Append(s, e)) = Range(s) \cup {e}
<1>1. /\ Append(s, e) \in Seq(Nat) /\ Len(s) \in Nat /\ Len(Append(s, e)) = Len(s) + 1
      /\ \A i \in 1..Len(s) : Append(s, e)[i] = s[i]
      /\ Append(s, e)[Len(s) + 1] = e
  OBVIOUS
<1>2. DOMAIN s = 1..Len(s) /\ DOMAIN Append(s, e) = 1..(Len(s) + 1)
  BY <1>1
<1>3. 1..(Len(s) + 1) = 1..Len(s) \cup {Len(s) + 1}
  BY <1>1
<1>4. Range(Append(s, e)) = {Append(s, e)[i] : i \in 1..(Len(s) + 1)}
  BY <1>2, Zenon DEF Range
<1>5. Range(s) = {s[i] : i \in 1..Len(s)}
  BY <1>2, Zenon DEF Range
<1> QED BY <1>1, <1>3, <1>4, <1>5

LEMMA RangeOfOne ==
  ASSUME NEW e
  PROVE  Range(<<e>>) = {e} /\ Len(<<e>>) = 1
BY DEF Range

LEMMA RangeOfNone == Range(<<>>) = {}
BY DEF Range

LEMMA TestStarts == RunInit => TestInv
<1> SUFFICES ASSUME RunInit PROVE TestInv
  OBVIOUS
<1> USE DEF RunInit
<1>1. Range(Dummy) = {1} /\ Dummy \in Seq(Nat) /\ Len(Dummy) = 1
  BY RangeOfOne DEF Dummy
<1>2. "main" \in TestThreads
  BY DEF TestThreads
<1>3. parents = [c \in 1..1 |-> NoCase]
  BY <1>1
<1>4. parents \in Seq(Nat \cup {NoCase}) /\ Len(parents) = 1 /\ parents[1] = NoCase
  BY <1>3
<1>5. CasesTyped
  <2>1. held \in [TestThreads -> Seq(Nat)]
    BY <1>1
  <2>2. dying \in [TestThreads -> Nat \cup {NoCase}]
    OBVIOUS
  <2>3. registeredTests \subseteq 1..Len(parents)
    BY <1>1, <1>4, 1 \in 1..1
  <2>4. \A c \in 1..Len(parents) : parents[c] = NoCase
    BY <1>4
  <2> QED BY <1>4, <2>1, <2>2, <2>3, <2>4 DEF CasesTyped
<1>6. HeldLive
  BY <1>1, RangeOfNone DEF HeldLive
<1>7. ParentsLive /\ DyingAlone
  BY <1>1, <1>4 DEF ParentsLive, DyingAlone
<1>8. MainHolds /\ EndsOnce
  BY <1>1, <1>2 DEF MainHolds, EndsOnce
<1>9. Evaluating = {}
  BY DEF Evaluating
<1>10. AssertionsCounted
  <2>1. IsFiniteSet(Evaluating) /\ Cardinality(Evaluating) = 0
    BY <1>9, FS_EmptySet
  <2>2. numCorrectAssertions + Cardinality(Evaluating) = numAssertions
    BY <2>1
  <2>3. \A t \in TestThreads : judging[t] = "no"
    OBVIOUS
  <2>4. numCorrectAssertions + Cardinality(Evaluating) <= numAssertions
    BY <2>1
  <2>5. judging \in [TestThreads -> {"no", "evaluating", "counting"}]
    OBVIOUS
  <2>6. wrong = (numCorrectAssertions + Cardinality(Evaluating) # numAssertions)
    BY <2>2, wrong = FALSE
  <2> QED BY <2>1, <2>3, <2>4, <2>5, <2>6 DEF AssertionsCounted
<1> QED BY <1>5, <1>6, <1>7, <1>8, <1>10 DEF TestInv, CaseInv, Reported

\* A thread in a test holds a Case, which is registered, so that the end is yet to come.
LEMMA ContextLives ==
  ASSUME CaseInv, NEW t \in TestThreads, held[t] # <<>>
  PROVE  /\ Context(t) \in Nat /\ Context(t) \in Range(held[t])
         /\ Context(t) \in registeredTests /\ Context(t) \in 1..Len(parents)
         /\ signals = 0 /\ main \notin {"printing", "returned"}
<1>1. held[t] \in Seq(Nat)
  BY DEF CaseInv, CasesTyped
<1>2. Context(t) \in Nat /\ Context(t) \in Range(held[t])
  BY <1>1, LastAndFront DEF Context
<1> QED BY <1>2 DEF CaseInv, HeldLive, CasesTyped, EndsOnce

\* A new Case
LEMMA RegisterKeeps ==
  ASSUME CaseInv, NEW t \in TestThreads, held[t] # <<>>, NEW p \in {Context(t), NoCase},
         Register(p), UNCHANGED <<dying, signals>>,
         held' = [held EXCEPT ![t] = Append(@, Len(parents'))]
  PROVE  /\ CasesTyped' /\ HeldLive' /\ ParentsLive' /\ DyingAlone'
         /\ registeredTests # {}
         /\ \A u \in TestThreads : held'[u] = IF u = t THEN Append(held[t], Len(parents) + 1)
                                              ELSE held[u]
         /\ Len(held'[t]) = Len(held[t]) + 1
<1> DEFINE n == Len(parents) + 1
<1> USE TestAssumption
<1>1. /\ parents \in Seq(Nat \cup {NoCase}) /\ Len(parents) \in Nat
      /\ held[t] \in Seq(Nat) /\ registeredTests \subseteq 1..Len(parents)
      /\ held \in [TestThreads -> Seq(Nat)]
  BY DEF CaseInv, CasesTyped
<1>2. p # NoCase => p \in 1..Len(parents) /\ p \in registeredTests /\ p \in Range(held[t])
  BY ContextLives
<1>3. /\ parents' = Append(parents, p) /\ parents' \in Seq(Nat \cup {NoCase})
      /\ Len(parents') = n /\ parents'[n] = p
      /\ \A c \in 1..Len(parents) : parents'[c] = parents[c]
  BY <1>1, <1>2 DEF Register
<1>4. registeredTests' = registeredTests \cup {n} /\ n \in Nat /\ n \notin registeredTests
  BY <1>1, <1>3 DEF Register
<1>5. /\ held' = [held EXCEPT ![t] = Append(held[t], n)]
      /\ Append(held[t], n) \in Seq(Nat) /\ Len(Append(held[t], n)) = Len(held[t]) + 1
      /\ Range(Append(held[t], n)) = Range(held[t]) \cup {n}
  BY <1>1, <1>3, <1>4, RangeOfAppend
<1>6. \A u \in TestThreads : held'[u] = IF u = t THEN Append(held[t], n) ELSE held[u]
  BY <1>1, <1>5
<1>7. held' \in [TestThreads -> Seq(Nat)]
  BY <1>1, <1>5
<1>8. \A c \in 1..Len(parents') : parents'[c] = NoCase \/ parents'[c] \in 1..(c - 1)
  <2> SUFFICES ASSUME NEW c \in 1..n PROVE parents'[c] = NoCase \/ parents'[c] \in 1..(c - 1)
    BY <1>3
  <2>1. CASE c = n
    BY <1>1, <1>2, <1>3, <2>1
  <2>2. CASE c \in 1..Len(parents)
    BY <1>3, <2>2 DEF CaseInv, CasesTyped
  <2> QED BY <1>1, <2>1, <2>2
<1>9. HeldLive'
  BY <1>4, <1>5, <1>6 DEF HeldLive, CaseInv
<1>10. ParentsLive'
  BY <1>1, <1>2, <1>3, <1>4 DEF ParentsLive, CaseInv
<1>11. DyingAlone'
  <2> SUFFICES ASSUME NEW u \in TestThreads, dying[u] # NoCase
               PROVE  /\ dying[u] \in registeredTests'
                      /\ \A w \in TestThreads : dying[u] \notin Range(held'[w])
                      /\ \A d \in registeredTests' : parents'[d] # dying[u]
                      /\ \A w \in TestThreads : w # u => dying[w] # dying[u]
    BY DEF DyingAlone
  <2>1. /\ dying[u] \in registeredTests
        /\ \A w \in TestThreads : dying[u] \notin Range(held[w])
        /\ \A d \in registeredTests : parents[d] # dying[u]
        /\ \A w \in TestThreads : w # u => dying[w] # dying[u]
    BY DEF CaseInv, DyingAlone
  <2>2. dying[u] # n
    BY <1>4, <2>1
  <2>3. \A w \in TestThreads : dying[u] \notin Range(held'[w])
    BY <1>5, <1>6, <2>1, <2>2
  <2>4. \A d \in registeredTests' : parents'[d] # dying[u]
    <3>1. parents'[n] # dying[u]
      BY <1>2, <1>3, <2>1
    <3>2. \A d \in registeredTests : parents'[d] = parents[d]
      BY <1>1, <1>3
    <3> QED BY <3>1, <3>2, <2>1, <1>4
  <2> QED BY <1>4, <2>1, <2>3, <2>4
<1>12. registeredTests # {}
  BY ContextLives
<1>13. registeredTests' \subseteq 1..Len(parents') /\ dying' \in [TestThreads -> Nat \cup {NoCase}]
  <2>1. registeredTests' \subseteq 1..Len(parents')
    <3>1. \A d \in registeredTests : d \in 1..n
      BY <1>1
    <3>2. n \in 1..n
      BY <1>1
    <3> QED BY <1>3, <1>4, <3>1, <3>2, Zenon
  <2>2. dying \in [TestThreads -> Nat \cup {NoCase}] /\ dying' = dying
    BY DEF CaseInv, CasesTyped
  <2> QED BY <2>1, <2>2
<1>14. CasesTyped'
  BY <1>3, <1>7, <1>8, <1>13 DEF CasesTyped
<1> QED BY <1>5, <1>6, <1>9, <1>10, <1>11, <1>12, <1>14

\* What is dropped dies only if nothing refers to it.
LEMMA DropByKeeps ==
  ASSUME CaseInv, NEW t \in TestThreads, held[t] # <<>>, DropBy(t), UNCHANGED <<parents, signals>>
  PROVE  /\ CasesTyped' /\ HeldLive' /\ ParentsLive' /\ DyingAlone'
         /\ registeredTests' = registeredTests
         /\ \A u \in TestThreads : u # t => held'[u] = held[u]
         /\ Len(held'[t]) = Len(held[t]) - 1
<1> DEFINE c == Context(t)
           dies == IF Referred(c) THEN NoCase ELSE c
<1>1. held \in [TestThreads -> Seq(Nat)] /\ held[t] \in Seq(Nat)
  BY DEF CaseInv, CasesTyped
<1>2. /\ Front(held[t]) \in Seq(Nat) /\ Len(Front(held[t])) = Len(held[t]) - 1
      /\ Range(Front(held[t])) \subseteq Range(held[t])
  BY <1>1, LastAndFront
<1>3. c \in Nat /\ c \in Range(held[t]) /\ c \in registeredTests
  BY ContextLives
<1>4. /\ registeredTests' = registeredTests /\ held' = [held EXCEPT ![t] = Front(held[t])]
      /\ dying' = [dying EXCEPT ![t] = dies] /\ parents' = parents
  BY DEF DropBy
<1>5. /\ held' \in [TestThreads -> Seq(Nat)]
      /\ \A u \in TestThreads : held'[u] = IF u = t THEN Front(held[t]) ELSE held[u]
  BY <1>1, <1>2, <1>4
<1>6. \A u \in TestThreads : Range(held'[u]) \subseteq Range(held[u])
  BY <1>2, <1>5
<1>7. HeldLive'
  BY <1>4, <1>6 DEF HeldLive, CaseInv
<1>8. ParentsLive'
  BY <1>4 DEF ParentsLive, CaseInv
<1>9. dying \in [TestThreads -> Nat \cup {NoCase}]
  BY DEF CaseInv, CasesTyped
<1>10. /\ dying' \in [TestThreads -> Nat \cup {NoCase}]
       /\ \A u \in TestThreads : dying'[u] = IF u = t THEN dies ELSE dying[u]
  <2>1. dies \in Nat \cup {NoCase}
    BY <1>3
  <2> HIDE DEF dies
  <2> QED BY <1>4, <1>9, <2>1
<1>11. \A u \in TestThreads : dying[u] # NoCase => dying[u] # c
  BY <1>3 DEF CaseInv, DyingAlone
<1>12. ASSUME dies # NoCase
       PROVE  /\ dies = c
              /\ \A u \in TestThreads : c \notin Range(held'[u])
              /\ \A d \in registeredTests : parents[d] # c
  BY <1>4, <1>12 DEF Referred
<1>13. DyingAlone'
  <2> SUFFICES ASSUME NEW u \in TestThreads, dying'[u] # NoCase
               PROVE  /\ dying'[u] \in registeredTests
                      /\ \A w \in TestThreads : dying'[u] \notin Range(held'[w])
                      /\ \A d \in registeredTests : parents[d] # dying'[u]
                      /\ \A w \in TestThreads : w # u => dying'[w] # dying'[u]
    BY <1>4 DEF DyingAlone
  <2> HIDE DEF dies, c
  <2>1. CASE u = t
    <3>1. dying'[u] = c /\ c # NoCase
      BY <2>1, <1>10, <1>12
    <3>2. \A w \in TestThreads : w # u => dying'[w] # c
      BY <2>1, <1>10, <1>11, <3>1
    <3> QED BY <2>1, <3>1, <3>2, <1>3, <1>10, <1>12
  <2>2. CASE u # t
    <3>1. /\ dying'[u] = dying[u] /\ dying[u] \in registeredTests
          /\ \A w \in TestThreads : dying[u] \notin Range(held[w])
          /\ \A d \in registeredTests : parents[d] # dying[u]
          /\ \A w \in TestThreads : w # u => dying[w] # dying[u]
      BY <2>2, <1>10 DEF CaseInv, DyingAlone
    <3>2. \A w \in TestThreads : dying[u] \notin Range(held'[w])
      BY <3>1, <1>6
    <3>3. dying'[t] # dying[u]
      BY <2>2, <1>10, <1>11, <1>12, <3>1
    <3> QED BY <3>1, <3>2, <3>3, <1>10
  <2> QED BY <2>1, <2>2
<1>14. CasesTyped'
  BY <1>4, <1>5, <1>10 DEF CaseInv, CasesTyped
<1> QED BY <1>2, <1>4, <1>5, <1>7, <1>8, <1>13, <1>14

LEMMA SubTestKeeps ==
  ASSUME CaseInv, NEW t \in TestThreads, SubTest(t)
  PROVE  CaseInv' /\ \A u \in TestThreads : held[u] # <<>> => held'[u] # <<>>
<1>1. /\ held[t] # <<>> /\ (t = "main" => main = "inBody")
      /\ UNCHANGED <<main, dying, signals>> /\ Register(Context(t))
      /\ held' = [held EXCEPT ![t] = Append(@, Len(parents'))]
  BY DEF SubTest, InTest
<1>2. /\ CasesTyped' /\ HeldLive' /\ ParentsLive' /\ DyingAlone'
      /\ \A u \in TestThreads : held'[u] = IF u = t THEN Append(held[t], Len(parents) + 1)
                                           ELSE held[u]
      /\ Len(held'[t]) = Len(held[t]) + 1
  BY <1>1, RegisterKeeps
<1>3. signals = 0 /\ main \notin {"printing", "returned"}
  BY <1>1, ContextLives
<1>4. held[t] \in Seq(Nat) /\ Len(held[t]) \in Nat
  BY DEF CaseInv, CasesTyped
<1>5. held'[t] # <<>>
  BY <1>2, <1>4, EmptySeq
<1>6. MainHolds'
  <2>1. CASE t = "main"
    BY <1>1, <1>2, <1>4, <2>1 DEF CaseInv, MainHolds
  <2>2. CASE t # "main"
    <3>1. held'["main"] = held["main"]
      BY <1>2, <2>2 DEF TestThreads
    <3> QED BY <1>1, <3>1 DEF CaseInv, MainHolds
  <2> QED BY <2>1, <2>2
<1>7. EndsOnce'
  BY <1>1, <1>3 DEF CaseInv, EndsOnce
<1> QED BY <1>2, <1>5, <1>6, <1>7 DEF CaseInv

LEMMA HandOverKeeps ==
  ASSUME CaseInv, NEW t \in TestThreads, NEW u \in Others, HandOver(t, u)
  PROVE  CaseInv' /\ \A w \in TestThreads : held[w] # <<>> => held'[w] # <<>>
<1>1. /\ held[t] # <<>> /\ u # "main" /\ held[u] = <<>>
      /\ held' = [held EXCEPT ![u] = <<Context(t)>>]
      /\ UNCHANGED <<main, parents, dying, registeredTests, signals>>
  BY DEF HandOver, InTest
<1>2. Context(t) \in Nat /\ Context(t) \in Range(held[t]) /\ Context(t) \in registeredTests
  BY <1>1, ContextLives
<1>3. Range(<<Context(t)>>) = {Context(t)} /\ Len(<<Context(t)>>) = 1
  BY RangeOfOne
<1>4. held \in [TestThreads -> Seq(Nat)]
  BY DEF CaseInv, CasesTyped
<1>5. <<Context(t)>> \in Seq(Nat) /\ <<Context(t)>> # <<>>
  BY <1>2
<1>6. /\ held' \in [TestThreads -> Seq(Nat)]
      /\ \A w \in TestThreads : held'[w] = IF w = u THEN <<Context(t)>> ELSE held[w]
  BY <1>1, <1>4, <1>5
<1>7. CasesTyped'
  BY <1>1, <1>6 DEF CaseInv, CasesTyped
<1>8. HeldLive' /\ ParentsLive'
  BY <1>1, <1>2, <1>3, <1>6 DEF CaseInv, HeldLive, ParentsLive
<1>9. DyingAlone'
  <2> SUFFICES ASSUME NEW w \in TestThreads, dying[w] # NoCase, NEW x \in TestThreads
               PROVE  dying[w] \notin Range(held'[x])
    BY <1>1 DEF CaseInv, DyingAlone
  <2>1. dying[w] \notin Range(held[x]) /\ dying[w] \notin Range(held[t])
    BY DEF CaseInv, DyingAlone
  <2> QED BY <2>1, <1>2, <1>3, <1>6
<1>10. MainHolds'
  <2>1. held'["main"] = held["main"]
    BY <1>1, <1>6 DEF TestThreads
  <2> QED BY <1>1, <2>1 DEF CaseInv, MainHolds
<1>11. EndsOnce'
  BY <1>1 DEF CaseInv, EndsOnce
<1> QED BY <1>5, <1>6, <1>7, <1>8, <1>9, <1>10, <1>11 DEF CaseInv

LEMMA DropKeeps ==
  ASSUME CaseInv, NEW t \in TestThreads, Drop(t)
  PROVE  CaseInv' /\ \A w \in TestThreads : w # t => held'[w] = held[w]
<1>1. /\ held[t] # <<>> /\ (t = "main" => main = "inBody") /\ DropBy(t)
      /\ UNCHANGED <<parents, signals>>
      /\ main' = IF t = "main" /\ Len(held'[t]) = Len(Dummy) THEN "registering" ELSE main
  BY DEF Drop, InTest
<1>2. /\ CasesTyped' /\ HeldLive' /\ ParentsLive' /\ DyingAlone'
      /\ registeredTests' = registeredTests
      /\ \A u \in TestThreads : u # t => held'[u] = held[u]
      /\ Len(held'[t]) = Len(held[t]) - 1
  BY <1>1, DropByKeeps
<1>3. signals = 0 /\ main \notin {"printing", "returned"}
  BY <1>1, ContextLives
<1>4. MainHolds'
  <2>1. CASE t = "main"
    <3>1. main = "inBody" /\ Len(held["main"]) >= 2 /\ held["main"] \in Seq(Nat)
      BY <1>1, <2>1 DEF CaseInv, MainHolds, CasesTyped
    <3>2. Len(Dummy) = 1 /\ Len(held["main"]) \in Nat
      BY <3>1 DEF Dummy
    <3>3. Len(held'["main"]) = Len(held["main"]) - 1
      BY <1>2, <2>1
    <3>4. main' = IF Len(held'["main"]) = 1 THEN "registering" ELSE "inBody"
      BY <1>1, <2>1, <3>1, <3>2
    <3>5. Len(held'["main"]) = 1 \/ Len(held'["main"]) >= 2
      <4>1. \A k \in Nat : k >= 2 => k - 1 = 1 \/ k - 1 >= 2
        OBVIOUS
      <4> QED BY <3>1, <3>2, <3>3, <4>1
    <3> QED BY <3>4, <3>5 DEF MainHolds
  <2>2. CASE t # "main"
    <3>1. held'["main"] = held["main"] /\ main' = main
      BY <1>1, <1>2, <2>2 DEF TestThreads
    <3> QED BY <3>1 DEF CaseInv, MainHolds
  <2> QED BY <2>1, <2>2
<1>5. EndsOnce'
  BY <1>1, <1>3, <1>4 DEF CaseInv, EndsOnce, MainHolds
<1> QED BY <1>2, <1>4, <1>5 DEF CaseInv

\* The Case goes, and with it what held its parent.
LEMMA UnregisterKeeps ==
  ASSUME CaseInv, NEW t \in TestThreads, UnregisterCase(t)
  PROVE  CaseInv'
<1> DEFINE c == dying[t]
           p == parents[c]
           next == IF p = NoCase \/ Referred(p) THEN NoCase ELSE p
<1>1. /\ c # NoCase /\ registeredTests' = registeredTests \ {c}
      /\ signals' = IF registeredTests' = {} THEN signals + 1 ELSE signals
      /\ dying' = [dying EXCEPT ![t] = next]
      /\ UNCHANGED <<main, parents, held>>
  BY DEF UnregisterCase
<1>2. /\ c \in registeredTests
      /\ \A u \in TestThreads : c \notin Range(held[u])
      /\ \A d \in registeredTests : parents[d] # c
      /\ \A u \in TestThreads : u # t => dying[u] # c
  BY <1>1 DEF CaseInv, DyingAlone
<1>3. p # NoCase => p \in Nat /\ p \in registeredTests /\ p # c
  <2>1. c \in 1..Len(parents) /\ c \in Nat /\ (p = NoCase \/ p \in 1..(c - 1))
    <3>1. c \in 1..Len(parents)
      BY <1>2 DEF CaseInv, CasesTyped
    <3>2. Len(parents) \in Nat
      BY DEF CaseInv, CasesTyped
    <3>3. c \in Nat
      <4> HIDE DEF c
      <4> QED BY <3>1, <3>2
    <3> QED BY <3>1, <3>3 DEF CaseInv, CasesTyped
  <2>2. p # NoCase => p \in registeredTests
    BY <1>2 DEF CaseInv, ParentsLive
  <2> QED BY <2>1, <2>2
<1>4. dying \in [TestThreads -> Nat \cup {NoCase}]
  BY DEF CaseInv, CasesTyped
<1>5. next \in Nat \cup {NoCase} /\ (next # NoCase => next = p)
  BY <1>3
<1>6. next # NoCase =>
        /\ \A u \in TestThreads : p \notin Range(held[u])
        /\ \A d \in registeredTests' : parents[d] # p
  BY <1>1 DEF Referred
<1> HIDE DEF next
<1>7. /\ dying' \in [TestThreads -> Nat \cup {NoCase}]
      /\ \A u \in TestThreads : dying'[u] = IF u = t THEN next ELSE dying[u]
  BY <1>1, <1>4, <1>5
<1>8. \A u \in TestThreads : dying[u] # NoCase => dying[u] # p
  BY <1>2 DEF CaseInv, DyingAlone
<1>9. CasesTyped'
  BY <1>1, <1>7 DEF CaseInv, CasesTyped
<1>10. HeldLive'
  BY <1>1, <1>2 DEF CaseInv, HeldLive
<1>11. ParentsLive'
  BY <1>1, <1>2 DEF CaseInv, ParentsLive
<1>12. DyingAlone'
  <2> SUFFICES ASSUME NEW u \in TestThreads, dying'[u] # NoCase
               PROVE  /\ dying'[u] \in registeredTests'
                      /\ \A w \in TestThreads : dying'[u] \notin Range(held[w])
                      /\ \A d \in registeredTests' : parents[d] # dying'[u]
                      /\ \A w \in TestThreads : w # u => dying'[w] # dying'[u]
    BY <1>1 DEF DyingAlone
  <2> HIDE DEF p, c
  <2>1. CASE u = t
    <3>1. dying'[u] = p /\ p # NoCase /\ next # NoCase
      BY <2>1, <1>5, <1>7
    <3>2. p \in registeredTests'
      BY <1>1, <1>3, <3>1
    <3>3. \A w \in TestThreads : w # u => dying'[w] # p
      BY <2>1, <1>7, <1>8, <3>1
    <3> QED BY <3>1, <3>2, <3>3, <1>6
  <2>2. CASE u # t
    <3>1. /\ dying'[u] = dying[u] /\ dying[u] \in registeredTests /\ dying[u] # NoCase
          /\ \A w \in TestThreads : dying[u] \notin Range(held[w])
          /\ \A d \in registeredTests : parents[d] # dying[u]
          /\ \A w \in TestThreads : w # u => dying[w] # dying[u]
      BY <2>2, <1>7 DEF CaseInv, DyingAlone
    <3>2. dying[u] # c /\ dying[u] # p
      BY <2>2, <1>2, <1>8, <3>1 DEF c
    <3>3. dying'[t] # dying[u]
      BY <1>5, <1>7, <3>1, <3>2
    <3> QED BY <1>1, <1>7, <3>1, <3>2, <3>3
  <2> QED BY <2>1, <2>2
<1>13. MainHolds'
  BY <1>1 DEF CaseInv, MainHolds
<1>14. EndsOnce'
  BY <1>1, <1>2 DEF CaseInv, EndsOnce
<1> QED BY <1>9, <1>10, <1>11, <1>12, <1>13, <1>14 DEF CaseInv

LEMMA RunKeeps ==
  ASSUME CaseInv, DoTest \/ DropDummy \/ LookForCases \/ WaitForSignal \/ PrintTestStats
  PROVE  CaseInv'
<1>1. /\ main \in {"registering", "inBody", "looking", "waiting", "printing", "returned"}
      /\ "main" \in TestThreads /\ held["main"] \in Seq(Nat) /\ Len(held["main"]) \in Nat
  BY DEF CaseInv, MainHolds, CasesTyped, TestThreads
<1>2. CASE DoTest
  <2>1. /\ main = "registering" /\ main' = "inBody" /\ Register(NoCase)
        /\ UNCHANGED <<dying, signals>>
        /\ held' = [held EXCEPT !["main"] = Append(@, Len(parents'))]
    BY <1>2 DEF DoTest
  <2>2. Len(held["main"]) = 1 /\ held["main"] # <<>>
    <3>1. Len(held["main"]) = 1
      BY <2>1 DEF CaseInv, MainHolds
    <3>2. Len(<<>>) # 1
      BY Len(<<>>) = 0
    <3> QED BY <3>1, <3>2, Zenon
  <2>3. /\ CasesTyped' /\ HeldLive' /\ ParentsLive' /\ DyingAlone'
        /\ Len(held'["main"]) = Len(held["main"]) + 1
    BY <1>1, <2>1, <2>2, RegisterKeeps
  <2>4. signals = 0
    BY <1>1, <2>2, ContextLives
  <2>5. MainHolds'
    BY <2>1, <2>2, <2>3 DEF MainHolds
  <2>6. EndsOnce'
    BY <2>1, <2>4 DEF EndsOnce
  <2> QED BY <2>3, <2>5, <2>6 DEF CaseInv
<1>3. CASE DropDummy
  <2>1. /\ main = "registering" /\ main' = "looking" /\ UNCHANGED <<parents, signals>>
        /\ IF held["main"] = <<>> THEN UNCHANGED <<held, registeredTests, dying>>
           ELSE DropBy("main")
    BY <1>3 DEF DropDummy
  <2>2. Len(held["main"]) = 1 /\ held["main"] # <<>>
    <3>1. Len(held["main"]) = 1
      BY <2>1 DEF CaseInv, MainHolds
    <3>2. Len(<<>>) # 1
      BY Len(<<>>) = 0
    <3> QED BY <3>1, <3>2, Zenon
  <2>3. /\ CasesTyped' /\ HeldLive' /\ ParentsLive' /\ DyingAlone'
        /\ Len(held'["main"]) = Len(held["main"]) - 1
    BY <1>1, <2>1, <2>2, DropByKeeps
  <2>4. signals = 0
    BY <1>1, <2>2, ContextLives
  <2>5. held'["main"] = <<>>
    <3>1. Len(held'["main"]) = 0 /\ held'["main"] \in Seq(Nat)
      BY <1>1, <2>2, <2>3 DEF CasesTyped
    <3> QED BY <3>1, EmptySeq
  <2>6. MainHolds'
    BY <2>1, <2>5 DEF MainHolds
  <2>7. EndsOnce'
    BY <2>1, <2>4 DEF EndsOnce
  <2> QED BY <2>3, <2>6, <2>7 DEF CaseInv
<1>4. CASE LookForCases \/ WaitForSignal \/ PrintTestStats
  <2>1. /\ UNCHANGED <<parents, held, dying, registeredTests, signals>>
        /\ main \in {"looking", "waiting", "printing"}
        /\ main' \in {"printing", "waiting", "returned"}
        /\ main' \in {"printing", "returned"} => registeredTests = {}
    BY <1>4 DEF LookForCases, WaitForSignal, PrintTestStats, caseVars, CaseInv, EndsOnce
  <2>2. CasesTyped' /\ HeldLive' /\ ParentsLive' /\ DyingAlone'
    BY <2>1 DEF CaseInv, CasesTyped, HeldLive, ParentsLive, DyingAlone
  <2>3. MainHolds' /\ EndsOnce'
    BY <2>1 DEF CaseInv, MainHolds, EndsOnce
  <2> QED BY <2>2, <2>3 DEF CaseInv
<1> QED BY <1>2, <1>3, <1>4

LEMMA AssertionKeepsCases ==
  ASSUME CaseInv, UNCHANGED <<main, caseVars>>
  PROVE  CaseInv'
BY DEF CaseInv, CasesTyped, HeldLive, ParentsLive, DyingAlone, MainHolds, EndsOnce, caseVars

\* Nobody is in an assertion once the run is over.
LEMMA OverIsQuiet ==
  ASSUME TestInv, registeredTests = {}
  PROVE  \A t \in TestThreads : held[t] = <<>> /\ judging[t] = "no"
<1> SUFFICES ASSUME NEW t \in TestThreads PROVE held[t] = <<>> /\ judging[t] = "no"
  OBVIOUS
<1>1. held[t] \in Seq(Nat) /\ Range(held[t]) = {}
  BY DEF TestInv, CaseInv, CasesTyped, HeldLive
<1>2. held[t] = <<>>
  BY <1>1, LastAndFront
<1> QED BY <1>2 DEF TestInv, AssertionsCounted

\* What counts stays if assertions do, and whoever is in one still holds its Case.
LEMMA CountsStay ==
  ASSUME TestInv, UNCHANGED assertVars,
         \A t \in TestThreads : judging[t] # "no" /\ held[t] # <<>> => held'[t] # <<>>
  PROVE  AssertionsCounted'
<1>1. /\ UNCHANGED <<judging, numAssertions, numCorrectAssertions, wrong>>
      /\ Evaluating' = Evaluating
  BY DEF assertVars, Evaluating
<1> QED BY <1>1 DEF TestInv, AssertionsCounted

LEMMA CaseStepCounts ==
  ASSUME TestInv, NEW t \in TestThreads,
         \/ SubTest(t) \/ Drop(t) \/ UnregisterCase(t) \/ \E u \in Others : HandOver(t, u)
  PROVE  TestInv'
<1>1. CaseInv
  BY DEF TestInv
<1>2. CASE Drop(t)
  <2>1. CaseInv' /\ \A w \in TestThreads : w # t => held'[w] = held[w]
    BY <1>1, <1>2, DropKeeps
  <2>2. /\ judging[t] = "no" /\ UNCHANGED assertVars /\ UNCHANGED report /\ held[t] # <<>>
        /\ main' # "returned" \/ main' = main
    BY <1>2 DEF Drop, InTest, Busy
  <2>3. main # "returned"
    BY <1>1, <2>2, ContextLives
  <2>4. AssertionsCounted'
    BY <2>1, <2>2, CountsStay
  <2>5. Reported'
    BY <2>2, <2>3 DEF TestInv, Reported
  <2> QED BY <2>1, <2>4, <2>5 DEF TestInv
<1>3. CASE SubTest(t) \/ UnregisterCase(t) \/ \E u \in Others : HandOver(t, u)
  <2>1. UNCHANGED <<main, assertVars, report>>
    BY <1>3 DEF SubTest, UnregisterCase, HandOver
  <2>2. CaseInv' /\ \A w \in TestThreads : held[w] # <<>> => held'[w] # <<>>
    <3>1. CASE SubTest(t)
      BY <1>1, <3>1, SubTestKeeps
    <3>2. CASE UnregisterCase(t)
      BY <1>1, <3>2, UnregisterKeeps DEF UnregisterCase
    <3>3. CASE \E u \in Others : HandOver(t, u)
      BY <1>1, <3>3, HandOverKeeps
    <3> QED BY <1>3, <3>1, <3>2, <3>3
  <2>3. AssertionsCounted'
    BY <2>1, <2>2, CountsStay
  <2>4. Reported'
    BY <2>1 DEF TestInv, Reported, assertVars
  <2> QED BY <2>2, <2>3, <2>4 DEF TestInv
<1> QED BY <1>2, <1>3

LEMMA RunStepCounts ==
  ASSUME TestInv, DoTest \/ DropDummy \/ LookForCases \/ WaitForSignal \/ PrintTestStats
  PROVE  TestInv'
<1>1. CaseInv /\ "main" \in TestThreads /\ held \in [TestThreads -> Seq(Nat)]
  BY DEF TestInv, CaseInv, CasesTyped, TestThreads
<1>2. CaseInv'
  BY <1>1, RunKeeps
<1>3. UNCHANGED assertVars
  BY DEF DoTest, DropDummy, LookForCases, WaitForSignal, PrintTestStats
<1>4. \A t \in TestThreads : judging[t] # "no" /\ held[t] # <<>> => held'[t] # <<>>
  <2> SUFFICES ASSUME NEW t \in TestThreads, judging[t] # "no", held[t] # <<>>
               PROVE  held'[t] # <<>>
    OBVIOUS
  <2>1. CASE DoTest
    <3>1. Register(NoCase) /\ held' = [held EXCEPT !["main"] = Append(@, Len(parents'))]
      BY <2>1 DEF DoTest
    <3>2. Len(parents') \in Nat
      BY <1>2 DEF CaseInv, CasesTyped
    <3>3. Append(held["main"], Len(parents')) # <<>>
      BY <1>1, <3>2, SMTT(40)
    <3> QED BY <1>1, <3>1, <3>3
  <2>2. CASE DropDummy
    <3>1. judging["main"] = "no"
      BY <2>2 DEF DropDummy, Busy
    <3>2. t # "main"
      BY <3>1
    <3> QED BY <1>1, <2>2, <3>2 DEF DropDummy, DropBy
  <2>3. CASE LookForCases \/ WaitForSignal \/ PrintTestStats
    BY <2>3 DEF LookForCases, WaitForSignal, PrintTestStats, caseVars
  <2> QED BY <2>1, <2>2, <2>3
<1>5. AssertionsCounted'
  BY <1>3, <1>4, CountsStay
<1>6. Reported'
  <2>1. CASE PrintTestStats
    BY <2>1, <1>3 DEF PrintTestStats, Reported, assertVars
  <2>2. CASE DoTest \/ DropDummy \/ LookForCases \/ WaitForSignal
    BY <2>2 DEF DoTest, DropDummy, LookForCases, WaitForSignal, TestInv, Reported
  <2> QED BY <2>1, <2>2
<1> QED BY <1>2, <1>5, <1>6 DEF TestInv

LEMMA AssertionStepCounts ==
  ASSUME TestInv, NEW t \in TestThreads,
         CountAssertion(t) \/ Holds(t) \/ Fails(t) \/ SetFailed(t)
  PROVE  TestInv'
<1>1. UNCHANGED <<main, caseVars, report>>
  BY DEF CountAssertion, Holds, Fails, SetFailed
<1>2. CaseInv'
  BY <1>1, AssertionKeepsCases DEF TestInv
<1>3. held[t] # <<>>
  BY DEF CountAssertion, InTest, Holds, Fails, SetFailed, TestInv, AssertionsCounted
<1>4. main # "returned" /\ main' = main /\ held' = held
  BY <1>1, <1>3, ContextLives DEF TestInv, caseVars
<1>5. Reported'
  BY <1>1, <1>4 DEF TestInv, Reported
<1>6. /\ judging \in [TestThreads -> {"no", "evaluating", "counting"}]
      /\ \A u \in TestThreads : judging[u] # "no" => held[u] # <<>>
      /\ numAssertions \in Nat /\ numCorrectAssertions \in Nat
      /\ IsFiniteSet(Evaluating) /\ Cardinality(Evaluating) \in Nat
      /\ numCorrectAssertions + Cardinality(Evaluating) <= numAssertions
      /\ wrong = (numCorrectAssertions + Cardinality(Evaluating) # numAssertions)
  BY FS_CardinalityType DEF TestInv, AssertionsCounted
<1>7. /\ IsFiniteSet(Evaluating \cup {t}) /\ IsFiniteSet(Evaluating \ {t})
      /\ t \notin Evaluating =>
           Cardinality(Evaluating \cup {t}) = Cardinality(Evaluating) + 1
      /\ t \in Evaluating =>
           Cardinality(Evaluating \ {t}) = Cardinality(Evaluating) - 1
  BY <1>6, FS_AddElement, FS_RemoveElement
<1>8. ASSUME NEW to \in {"no", "evaluating", "counting"}, judging' = [judging EXCEPT ![t] = to]
      PROVE  /\ judging' \in [TestThreads -> {"no", "evaluating", "counting"}]
             /\ \A u \in TestThreads : judging'[u] # "no" => held'[u] # <<>>
             /\ Evaluating' = IF to = "evaluating" THEN Evaluating \cup {t}
                              ELSE Evaluating \ {t}
  <2>1. judging' \in [TestThreads -> {"no", "evaluating", "counting"}]
    BY <1>6, <1>8
  <2>2. \A u \in TestThreads : judging'[u] = IF u = t THEN to ELSE judging[u]
    BY <1>6, <1>8
  <2> QED BY <2>1, <2>2, <1>3, <1>4, <1>6 DEF Evaluating
<1>9. AssertionsCounted'
  <2>1. CASE CountAssertion(t)
    <3>1. /\ judging' = [judging EXCEPT ![t] = "evaluating"] /\ judging[t] = "no"
          /\ numAssertions' = numAssertions + 1
          /\ UNCHANGED <<numCorrectAssertions, wrong>>
      BY <2>1 DEF CountAssertion, InTest, Busy
    <3>2. t \notin Evaluating /\ Evaluating' = Evaluating \cup {t}
      BY <1>8, <3>1 DEF Evaluating
    <3>3. Cardinality(Evaluating') = Cardinality(Evaluating) + 1 /\ IsFiniteSet(Evaluating')
      BY <3>2, <1>7
    <3>4. wrong' = (numCorrectAssertions' + Cardinality(Evaluating') # numAssertions')
      <4>1. (numCorrectAssertions + (Cardinality(Evaluating) + 1) # numAssertions + 1)
              = (numCorrectAssertions + Cardinality(Evaluating) # numAssertions)
        BY <1>6
      <4> QED BY <1>6, <3>1, <3>3, <4>1
    <3>5. numCorrectAssertions' + Cardinality(Evaluating') <= numAssertions'
      BY <1>6, <3>1, <3>3
    <3> QED BY <1>6, <1>8, <3>1, <3>3, <3>4, <3>5 DEF AssertionsCounted
  <2>2. CASE Holds(t)
    <3>1. /\ judging' = [judging EXCEPT ![t] = "no"] /\ judging[t] = "evaluating"
          /\ numCorrectAssertions' = numCorrectAssertions + 1
          /\ UNCHANGED <<numAssertions, wrong>>
      BY <2>2 DEF Holds
    <3>2. t \in Evaluating /\ Evaluating' = Evaluating \ {t}
      BY <1>8, <3>1 DEF Evaluating
    <3>3. Cardinality(Evaluating') = Cardinality(Evaluating) - 1 /\ IsFiniteSet(Evaluating')
      BY <3>2, <1>7
    <3>4. numCorrectAssertions' + Cardinality(Evaluating')
            = numCorrectAssertions + Cardinality(Evaluating)
      BY <1>6, <3>1, <3>3
    <3>5. numCorrectAssertions' \in Nat
      BY <1>6, <3>1
    <3> QED BY <1>6, <1>8, <3>1, <3>3, <3>4, <3>5 DEF AssertionsCounted
  <2>3. CASE Fails(t)
    <3>1. /\ judging' = [judging EXCEPT ![t] = IF Context(t) \in failed THEN "no" ELSE "counting"]
          /\ judging[t] = "evaluating" /\ wrong' = TRUE
          /\ UNCHANGED <<numAssertions, numCorrectAssertions>>
      BY <2>3 DEF Fails
    <3>2. PICK to \in {"no", "counting"} : judging' = [judging EXCEPT ![t] = to]
      BY <3>1
    <3>3. /\ t \in Evaluating /\ Evaluating' = Evaluating \ {t}
          /\ judging' \in [TestThreads -> {"no", "evaluating", "counting"}]
          /\ \A u \in TestThreads : judging'[u] # "no" => held'[u] # <<>>
      BY <1>8, <3>1, <3>2 DEF Evaluating
    <3>4. Cardinality(Evaluating') = Cardinality(Evaluating) - 1 /\ IsFiniteSet(Evaluating')
      BY <3>3, <1>7
    <3>5. /\ numCorrectAssertions' + Cardinality(Evaluating') <= numAssertions'
          /\ numCorrectAssertions' + Cardinality(Evaluating') # numAssertions'
      BY <1>6, <3>1, <3>4
    <3> QED BY <1>6, <3>1, <3>3, <3>4, <3>5 DEF AssertionsCounted
  <2>4. CASE SetFailed(t)
    <3>1. /\ judging' = [judging EXCEPT ![t] = "no"] /\ judging[t] = "counting"
          /\ UNCHANGED <<numAssertions, numCorrectAssertions, wrong>>
      BY <2>4 DEF SetFailed
    <3>2. t \notin Evaluating /\ Evaluating' = Evaluating \ {t}
      BY <1>8, <3>1 DEF Evaluating
    <3>3. Evaluating' = Evaluating
      BY <3>2
    <3> QED BY <1>6, <1>8, <3>1, <3>3 DEF AssertionsCounted
  <2> QED BY <2>1, <2>2, <2>3, <2>4
<1> QED BY <1>2, <1>5, <1>9 DEF TestInv

LEMMA TestStepKeeps ==
  ASSUME TestInv, [RunNext]_runVars
  PROVE  TestInv'
<1>1. CASE DoTest \/ DropDummy \/ LookForCases \/ WaitForSignal \/ PrintTestStats
  BY <1>1, RunStepCounts
<1>2. ASSUME NEW t \in TestThreads,
             \/ SubTest(t) \/ Drop(t) \/ UnregisterCase(t) \/ \E u \in Others : HandOver(t, u)
      PROVE  TestInv'
  BY <1>2, CaseStepCounts
<1>3. ASSUME NEW t \in TestThreads, CountAssertion(t) \/ Holds(t) \/ Fails(t) \/ SetFailed(t)
      PROVE  TestInv'
  BY <1>3, AssertionStepCounts
<1>4. CASE UNCHANGED runVars
  <2>1. UNCHANGED <<main, caseVars, assertVars, report, held>>
    BY <1>4 DEF runVars, caseVars, assertVars
  <2>2. CaseInv'
    BY <2>1, AssertionKeepsCases DEF TestInv
  <2>3. AssertionsCounted'
    BY <2>1, CountsStay
  <2>4. Reported'
    BY <2>1 DEF TestInv, Reported, assertVars
  <2> QED BY <2>2, <2>3, <2>4 DEF TestInv
<1> QED BY <1>1, <1>2, <1>3, <1>4 DEF RunNext

LEMMA RunIsOver == TestInv => RunWaits
<1> SUFFICES ASSUME TestInv PROVE RunWaits
  OBVIOUS
<1>1. signals <= 1
  BY DEF TestInv, CaseInv, EndsOnce
<1>2. ASSUME report # NoCase
      PROVE  /\ registeredTests = {} /\ \A t \in TestThreads : held[t] = <<>>
             /\ report.assertions = numAssertions /\ report.failed = numFailedTestCases
             /\ (report.correct # report.assertions) = wrong
  <2>1. /\ main = "returned"
        /\ report = [assertions |-> numAssertions, correct |-> numCorrectAssertions,
                     failed |-> numFailedTestCases]
    BY <1>2 DEF TestInv, Reported
  <2>2. registeredTests = {}
    BY <2>1 DEF TestInv, CaseInv, EndsOnce
  <2>3. \A t \in TestThreads : held[t] = <<>> /\ judging[t] = "no"
    BY <2>2, OverIsQuiet
  <2>4. Evaluating = {} /\ Cardinality(Evaluating) = 0
    BY <2>3, FS_EmptySet DEF Evaluating
  <2>5. wrong = (numCorrectAssertions # numAssertions)
    BY <2>4 DEF TestInv, AssertionsCounted
  <2> QED BY <2>1, <2>2, <2>3, <2>5
<1> QED BY <1>1, <1>2 DEF RunWaits

\* The end of a test run is signalled once, after the last callback has let go of its
\* Case, and what run() prints counts every assertion.
THEOREM RunEndsLast == RunSpec => []RunWaits
<1>1. RunInit => TestInv
  BY TestStarts
<1>2. TestInv /\ [RunNext]_runVars => TestInv'
  BY TestStepKeeps
<1>3. TestInv => RunWaits
  BY RunIsOver
<1> QED BY <1>1, <1>2, <1>3, PTL DEF RunSpec

-----------------------------------------------------------------------------
(* Coroutines.  While one runs, nothing that could resume it is left behind *)
(* anywhere; while it waits, one thing at most could: a closure in one      *)
(* queue, which leads to the loop it asked for, or a timer of that loop.    *)

Closures ==
  [op : {"resume"}] \cup [op : {"work"}, to : Loops, catchesAll : BOOLEAN]

Empty(l) == queue[l] = << >>

\* Nothing will resume the coroutine.
NothingPending == timers = {} /\ \A l \in Loops : Empty(l)

\* A closure of a loop leads to the loop that was asked for.
LeadsThere(item, l) ==
  \/ item.op = "resume" /\ asked = l
  \/ item.op = "work" /\ asked = item.to

ClosurePending ==
  /\ running = None /\ timers = {}
  /\ \E l \in Loops :
       /\ Len(queue[l]) = 1
       /\ LeadsThere(Head(queue[l]), l)
       /\ \A other \in Loops \ {l} : Empty(other)

TimerPending ==
  /\ running = None /\ timers = {asked}
  /\ \A l \in Loops : Empty(l)

\* Before it is launched it has asked for nothing.
Unlaunched == caller = "calling" \/ helper = "made"
LaunchedOnce ==
  /\ Unlaunched => running = None /\ asked = None /\ NothingPending
  /\ caller = "calling" => helper = "none"

CoroutineInv ==
  /\ queue \in [Loops -> Seq(Closures)]
  /\ NothingPending \/ ClosurePending \/ TimerPending
  /\ LaunchedOnce
  /\ InAskedLoop

-----------------------------------------------------------------------------
\* A closure that is queued in a loop whose queue is empty is the only one there.
LEMMA QueuedAlone ==
  ASSUME NEW q \in [Loops -> Seq(Closures)], NEW l \in Loops, q[l] = << >>,
         NEW item \in Closures
  PROVE  LET after == [q EXCEPT ![l] = Append(@, item)]
         IN  /\ after \in [Loops -> Seq(Closures)]
             /\ Len(after[l]) = 1 /\ Head(after[l]) = item
             /\ \A other \in Loops \ {l} : after[other] = q[other]
<1>1. Append(q[l], item) = <<item>>
  OBVIOUS
<1>2. <<item>> \in Seq(Closures) /\ Len(<<item>>) = 1 /\ Head(<<item>>) = item
  OBVIOUS
<1> QED BY <1>1, <1>2

LEMMA CoroutineStarts == CoroutineInit => CoroutineInv
BY DEF CoroutineInit, CoroutineInv, NothingPending, Empty, LaunchedOnce, Unlaunched, InAskedLoop

\* A step that neither moves the coroutine nor launches it.
LEMMA StandsStill ==
  ASSUME CoroutineInv, UNCHANGED <<running, asked, queue, timers>>,
         caller' # "calling", helper' = "made" => Unlaunched
  PROVE  CoroutineInv'
BY DEF CoroutineInv, NothingPending, ClosurePending, TimerPending, Empty, LeadsThere, LaunchedOnce,
       Unlaunched, InAskedLoop

LEMMA LaunchKeeps ==
  ASSUME CoroutineInv, Unlaunched, NEW thread, Launch(thread),
         caller' # "calling", helper' # "made"
  PROVE  CoroutineInv'
BY DEF CoroutineInv, Launch, NothingPending, Empty, LaunchedOnce, Unlaunched, InAskedLoop

\* While the coroutine runs, nothing is pending, and it is not to be launched.
LEMMA RunsAlone ==
  ASSUME CoroutineInv, running # None
  PROVE  NothingPending /\ caller # "calling" /\ helper # "made"
BY DEF CoroutineInv, ClosurePending, TimerPending, LaunchedOnce, Unlaunched

\* The step that ends with the coroutine waiting launches nothing.
LEMMA SuspendLaunchesNothing ==
  ASSUME CoroutineInv, running # None, Left(running), caller' # "calling"
  PROVE  LaunchedOnce'
BY RunsAlone DEF Left, LaunchedOnce, Unlaunched

LEMMA SwitchStep ==
  ASSUME CoroutineInv, Switch
  PROVE  CoroutineInv'
<1>1. PICK l \in Loops :
        /\ asked' = l
        /\ \/ /\ running = l
              /\ awaits' = awaits + 1
              /\ result' = "value"
              /\ UNCHANGED <<syncVars, frames, current, running, thrown, queue, ended>>
           \/ /\ running # l
              /\ queue' = [queue EXCEPT ![l] = Append(@, [op |-> "resume"])]
              /\ Suspend
  BY DEF Switch
<1>2. running # None /\ NothingPending /\ caller # "calling" /\ helper # "made"
      /\ UNCHANGED timers
  BY RunsAlone DEF Switch, Waits, Task
<1>3. CASE running = l
  BY <1>1, <1>2, <1>3 DEF CoroutineInv, NothingPending, Empty, LaunchedOnce, Unlaunched, InAskedLoop,
     syncVars
<1>4. CASE running # l
  <2>1. /\ queue' = [queue EXCEPT ![l] = Append(@, [op |-> "resume"])]
        /\ running' = None /\ Left(running) /\ caller' = caller
    BY <1>1, <1>4 DEF Suspend
  <2>2. [op |-> "resume"] \in Closures /\ [op |-> "resume"].op = "resume"
    BY DEF Closures
  <2>3. /\ queue \in [Loops -> Seq(Closures)]
        /\ \A m \in Loops : queue[m] = << >>
    BY <1>2 DEF NothingPending, Empty, CoroutineInv
  <2>4. /\ queue' \in [Loops -> Seq(Closures)]
        /\ Len(queue'[l]) = 1 /\ Head(queue'[l]).op = "resume"
        /\ \A other \in Loops \ {l} : queue'[other] = << >>
    BY <2>1, <2>2, <2>3, QueuedAlone
  <2>5. ClosurePending'
    BY <1>1, <1>2, <2>1, <2>4 DEF ClosurePending, NothingPending, Empty, LeadsThere
  <2>6. LaunchedOnce'
    BY <1>2, <2>1, SuspendLaunchesNothing
  <2> QED BY <2>1, <2>4, <2>5, <2>6 DEF CoroutineInv, InAskedLoop
<1> QED BY <1>3, <1>4

LEMMA QueueInLoopStep ==
  ASSUME CoroutineInv, QueueInLoop
  PROVE  CoroutineInv'
<1>1. PICK l \in Loops, to \in Loops, all \in BOOLEAN :
        /\ queue' = [queue EXCEPT ![l] =
                       Append(@, [op |-> "work", to |-> to, catchesAll |-> all])]
        /\ asked' = to
  BY DEF QueueInLoop
<1> DEFINE item == [op |-> "work", to |-> to, catchesAll |-> all]
<1>2. running # None /\ NothingPending /\ caller # "calling"
  BY RunsAlone DEF QueueInLoop, Waits, Task
<1>3. running' = None /\ Left(running) /\ caller' = caller /\ UNCHANGED timers
  BY DEF QueueInLoop, Suspend
<1>4. item \in Closures /\ item.op = "work" /\ item.to = to
  BY DEF Closures
<1>5. /\ queue \in [Loops -> Seq(Closures)]
      /\ \A m \in Loops : queue[m] = << >>
      /\ queue' = [queue EXCEPT ![l] = Append(@, item)]
  BY <1>1, <1>2 DEF NothingPending, Empty, CoroutineInv
<1> HIDE DEF item
<1>6. /\ queue' \in [Loops -> Seq(Closures)]
      /\ Len(queue'[l]) = 1 /\ Head(queue'[l]) = item
      /\ \A other \in Loops \ {l} : queue'[other] = << >>
  BY <1>4, <1>5, QueuedAlone
<1>7. ClosurePending'
  BY <1>1, <1>2, <1>3, <1>4, <1>6 DEF ClosurePending, NothingPending, Empty, LeadsThere
<1>8. LaunchedOnce'
  BY <1>2, <1>3, SuspendLaunchesNothing
<1> QED BY <1>3, <1>6, <1>7, <1>8 DEF CoroutineInv, InAskedLoop

LEMMA SleepStep ==
  ASSUME CoroutineInv, Sleep
  PROVE  CoroutineInv'
<1>1. PICK l \in Loops : timers' = timers \cup {l} /\ asked' = l
  BY DEF Sleep
<1>2. running # None /\ NothingPending /\ caller # "calling"
  BY RunsAlone DEF Sleep, Waits, Task
<1>3. running' = None /\ Left(running) /\ caller' = caller /\ UNCHANGED queue
  BY DEF Sleep, Suspend
<1>4. TimerPending'
  BY <1>1, <1>2, <1>3 DEF TimerPending, NothingPending, Empty
<1>5. LaunchedOnce'
  BY <1>2, <1>3, SuspendLaunchesNothing
<1> QED BY <1>3, <1>4, <1>5 DEF CoroutineInv, InAskedLoop

LEMMA EndStep ==
  ASSUME CoroutineInv, EndWrapper
  PROVE  CoroutineInv'
<1>1. running # None
  BY DEF EndWrapper, Wrapper
<1>2. NothingPending /\ caller # "calling"
  BY <1>1, RunsAlone
<1>3. /\ running' = None /\ Left(running) /\ caller' # "calling"
      /\ UNCHANGED <<asked, queue, timers>>
  BY <1>1, <1>2 DEF EndWrapper
<1>4. LaunchedOnce'
  BY <1>1, <1>3, SuspendLaunchesNothing
<1> QED BY <1>2, <1>3, <1>4 DEF CoroutineInv, NothingPending, Empty, InAskedLoop

\* The one closure that is pending is taken: it resumes the coroutine where it asked to
\* go on, or is followed by one that will.
LEMMA LoopStepKeeps ==
  ASSUME CoroutineInv, NEW l \in Loops, LoopStep(l)
  PROVE  CoroutineInv'
<1> DEFINE item == Head(queue[l])
           rest == [queue EXCEPT ![l] = Tail(@)]
<1>1. queue[l] # << >> /\ queue \in [Loops -> Seq(Closures)]
  BY DEF LoopStep, CoroutineInv
<1>2. /\ running = None /\ timers = {}
      /\ Len(queue[l]) = 1
      /\ LeadsThere(item, l)
      /\ \A other \in Loops \ {l} : queue[other] = << >>
  <2>1. ClosurePending
    BY <1>1 DEF CoroutineInv, NothingPending, TimerPending, Empty
  <2>2. PICK m \in Loops : /\ Len(queue[m]) = 1
                           /\ LeadsThere(Head(queue[m]), m)
                           /\ \A other \in Loops \ {m} : queue[other] = << >>
    BY <2>1 DEF ClosurePending, Empty
  <2>3. m = l
    BY <1>1, <2>2
  <2> QED BY <2>1, <2>2, <2>3 DEF ClosurePending
<1>3. rest \in [Loops -> Seq(Closures)] /\ \A m \in Loops : rest[m] = << >>
  <2>1. Tail(queue[l]) = << >>
    <3>1. queue[l] \in Seq(Closures) /\ Len(queue[l]) = 1
      BY <1>1, <1>2
    <3> DEFINE q == queue[l]
    <3> HIDE DEF q
    <3>2. Tail(q) \in Seq(Closures) /\ Len(Tail(q)) = 0
      BY <3>1, HeadTailProperties DEF q
    <3> QED BY <3>2, EmptySeq DEF q
  <2>2. << >> \in Seq(Closures)
    OBVIOUS
  <2> QED BY <1>1, <1>2, <2>1, <2>2
<1>4. /\ caller' = caller /\ helper' = helper /\ timers' = timers
      /\ caller # "calling" /\ helper # "made"
  <2>1. ~NothingPending
    BY <1>1 DEF NothingPending, Empty
  <2> QED BY <2>1 DEF LoopStep, CoroutineInv, LaunchedOnce, Unlaunched, syncVars
<1>5. LaunchedOnce'
  BY <1>4 DEF LaunchedOnce, Unlaunched
<1> HIDE DEF item, rest
<1>6. CASE item.op = "resume" /\ queue' = rest /\ UNCHANGED asked /\ ResumeOn(l)
  <2>1. running' = l /\ asked' = l
    BY <1>2, <1>6 DEF ResumeOn, LeadsThere
  <2> QED BY <1>2, <1>3, <1>4, <1>5, <1>6, <2>1 DEF CoroutineInv, NothingPending, Empty, InAskedLoop
<1>7. CASE item.op = "work" /\ item.to = l /\ queue' = rest /\ UNCHANGED asked /\ ResumeOn(l)
  <2>1. running' = l /\ asked' = l
    BY <1>2, <1>7 DEF ResumeOn, LeadsThere
  <2> QED BY <1>2, <1>3, <1>4, <1>5, <1>7, <2>1 DEF CoroutineInv, NothingPending, Empty, InAskedLoop
<1>8. CASE /\ item.op = "work" /\ item.to # l
           /\ queue' = [rest EXCEPT ![item.to] = Append(@, [op |-> "resume"])]
           /\ UNCHANGED <<asked, running>>
  <2>1. item.to \in Loops /\ asked' = item.to
    <3>1. item \in Closures
      BY <1>1 DEF item
    <3> QED BY <3>1, <1>2, <1>8 DEF Closures, LeadsThere
  <2>2. [op |-> "resume"] \in Closures /\ [op |-> "resume"].op = "resume"
    BY DEF Closures
  <2>3. /\ queue' \in [Loops -> Seq(Closures)]
        /\ Len(queue'[item.to]) = 1 /\ Head(queue'[item.to]).op = "resume"
        /\ \A other \in Loops \ {item.to} : queue'[other] = << >>
    BY <1>3, <1>8, <2>1, <2>2, QueuedAlone
  <2>4. ClosurePending'
    BY <1>2, <1>4, <1>8, <2>1, <2>3 DEF ClosurePending, Empty, LeadsThere
  <2> QED BY <1>2, <1>5, <1>8, <2>3, <2>4 DEF CoroutineInv, InAskedLoop
<1>9. CASE queue' = rest /\ UNCHANGED running
  BY <1>2, <1>3, <1>4, <1>5, <1>9 DEF CoroutineInv, NothingPending, Empty, InAskedLoop
<1> QED BY <1>6, <1>7, <1>8, <1>9 DEF LoopStep, ResumeIn, item, rest

LEMMA TimerStep ==
  ASSUME CoroutineInv, NEW l \in Loops, TimerFires(l)
  PROVE  CoroutineInv'
<1>1. running = None /\ timers = {asked} /\ \A m \in Loops : queue[m] = << >>
  BY DEF TimerFires, CoroutineInv, NothingPending, ClosurePending, TimerPending, Empty
<1>2. asked = l /\ running' = l /\ timers' = {} /\ UNCHANGED <<asked, queue, caller, helper>>
  BY <1>1 DEF TimerFires, ResumeOn, syncVars
<1>3. caller # "calling" /\ helper # "made"
  BY <1>1 DEF CoroutineInv, LaunchedOnce, Unlaunched, NothingPending
<1> QED BY <1>1, <1>2, <1>3 DEF CoroutineInv, NothingPending, Empty, LaunchedOnce, Unlaunched, InAskedLoop

-----------------------------------------------------------------------------
LEMMA CoroutineKeeps ==
  ASSUME CoroutineInv, CoroutineRuns
  PROVE  CoroutineInv'
<1>1. ASSUME AwaitTask \/ Return PROVE CoroutineInv'
  <2>1. running # None /\ UNCHANGED <<running, asked, queue, timers, caller, helper>>
    BY <1>1 DEF AwaitTask, Return, Task, syncVars
  <2> QED BY <2>1, RunsAlone, StandsStill
<1>2. ASSUME Keep \/ NotifyCaller \/ Unlock \/ Fulfil PROVE CoroutineInv'
  <2>1. running # None /\ UNCHANGED <<running, asked, queue, timers, helper>>
    BY <1>2 DEF Keep, NotifyCaller, Unlock, Fulfil, InWrapper, Wrapper
  <2>2. caller # "calling" /\ helper # "made"
    BY <2>1, RunsAlone
  <2>3. caller' # "calling"
    BY <1>2, <2>2 DEF Keep, NotifyCaller, Unlock, Fulfil
  <2> QED BY <2>1, <2>2, <2>3, StandsStill
<1> QED BY <1>1, <1>2, SwitchStep, QueueInLoopStep, SleepStep, EndStep DEF CoroutineRuns

LEMMA ThreadsKeep ==
  ASSUME CoroutineInv, CallerStarts \/ CallerRuns \/ WakeUp \/ HelperRuns
  PROVE  CoroutineInv'
<1>1. CASE SyncWait
  <2>1. /\ UNCHANGED <<running, asked, queue, timers>>
        /\ caller' # "calling" /\ Unlaunched
    BY <1>1 DEF SyncWait, Unlaunched
  <2> QED BY <2>1, StandsStill
<1>2. CASE StartHere
  <2>1. Unlaunched /\ Launch(CallingThread) /\ caller' # "calling" /\ helper' # "made"
    BY <1>2 DEF StartHere, Unlaunched, CoroutineInv, LaunchedOnce
  <2> QED BY <2>1, LaunchKeeps
<1>3. CASE HelperStarts
  <2>1. Unlaunched /\ Launch("helper") /\ caller' # "calling" /\ helper' # "made"
    BY <1>3 DEF HelperStarts, Unlaunched, CoroutineInv, LaunchedOnce
  <2> QED BY <2>1, LaunchKeeps
<1>4. CASE HelperEnds
  <2>1. /\ UNCHANGED <<running, asked, queue, timers>>
        /\ caller' # "calling" /\ helper' # "made"
    BY <1>4 DEF HelperEnds, CoroutineInv, LaunchedOnce
  <2> QED BY <2>1, StandsStill
<1>5. CASE Check \/ GoToSleep \/ Join \/ GetFuture \/ Got \/ WakeUp
  <2>1. /\ UNCHANGED <<running, asked, queue, timers, helper>>
        /\ caller' # "calling"
    BY <1>5 DEF Check, GoToSleep, Join, GetFuture, Got, WakeUp
  <2> QED BY <2>1, StandsStill DEF Unlaunched
<1> QED BY <1>1, <1>2, <1>3, <1>4, <1>5 DEF CallerStarts, CallerRuns, HelperRuns

LEMMA StepKeeps == CoroutineInv /\ [CoroutineNext]_coroutineVars => CoroutineInv'
<1> SUFFICES ASSUME CoroutineInv, [CoroutineNext]_coroutineVars PROVE CoroutineInv'
  OBVIOUS
<1>1. CASE UNCHANGED coroutineVars
  BY <1>1 DEF coroutineVars, CoroutineInv, NothingPending, ClosurePending, TimerPending, Empty,
     LeadsThere, LaunchedOnce, Unlaunched, InAskedLoop
<1> QED BY <1>1, CoroutineKeeps, ThreadsKeep, LoopStepKeeps, TimerStep DEF CoroutineNext

\* Whatever a coroutine has awaited, it and those that await it go on in the loop it asked
\* for: switchThreadCoro, queueInLoopCoro and sleepCoro leave nothing behind that could
\* resume it a second time or elsewhere.
THEOREM GoesOnWhereAsked == CoroutineSpec => []InAskedLoop
<1>1. CoroutineInit => CoroutineInv
  BY CoroutineStarts
<1>2. CoroutineInv /\ [CoroutineNext]_coroutineVars => CoroutineInv'
  BY StepKeeps
<1>3. CoroutineInv => InAskedLoop
  BY DEF CoroutineInv
<1> QED BY <1>1, <1>2, <1>3, PTL DEF CoroutineSpec

-----------------------------------------------------------------------------
(* The result that the caller gets. *)

\* Each frame goes on with the one before; the last is the one that runs.
FramesStacked ==
  /\ frames \in Seq(Nat) /\ current = Len(frames)
  /\ \A i \in 1..Len(frames) : frames[i] = i - 1

\* When the AsyncTask is back in control, nothing comes between it and its end, and it has
\* the result of its Task.  Only sync_wait has a thread of its own.
CallerPlaced ==
  /\ home \in Loops \cup {None}
  /\ running # None => current # 0
  /\ ~ NothingPending => current > 1
  /\ current = 1 => running # None /\ result = ended /\ ended \in Results
  /\ Unlaunched => current = 0 /\ wrapper = "awaits"
  /\ mode # "sync_wait" => helper = "none" /\ running # "helper"
  /\ running = "helper" => helper = "running"

\* What is promised, and what the caller gets, is the result of the Task; nothing is
\* promised before the AsyncTask is back from its co_await, nor told before it is kept.
Kept ==
  /\ wrapper \in {"awaits", "kept", "notified", "told"}
  /\ wrapper = "awaits" => promised = None
  /\ wrapper # "awaits" => current < 2
  /\ wrapper \in {"kept", "notified"} => mode = "sync_wait"
  /\ wrapper # "awaits" =>
       /\ ended \in Results
       /\ promised = IF mode = "async_run" /\ ended = "exception" THEN "terminated" ELSE ended
  /\ flag => mode = "sync_wait" /\ wrapper # "awaits"
  /\ caller = "joining" => flag
  /\ caller = "getting" => mode = "co_future"
  /\ outcome # None => outcome = ended /\ wrapper # "awaits" /\ helper \in {"none", "ended"}

OutcomeInv == FramesStacked /\ CallerPlaced /\ Kept

\* sync_wait's mutex has one holder, and the caller sees the flag only behind the
\* AsyncTask's unlock.
MutexHeld ==
  /\ mutex = "caller" <=> caller \in {"checking", "goingToSleep", "joining"}
  /\ mutex = "AsyncTask" <=> wrapper = "notified"
  /\ mutex \in {None, "caller", "AsyncTask"}
  /\ flag => wrapper \in {"notified", "told"}
  /\ mode = "sync_wait" /\ caller = "returned" => wrapper = "told"

LEMMA OutcomeImplied == OutcomeInv /\ MutexHeld => OutcomeExact
<1> SUFFICES ASSUME OutcomeInv, MutexHeld PROVE OutcomeExact
  OBVIOUS
<1>1. outcome # None => outcome = ended /\ helper \in {"none", "ended"}
  BY DEF OutcomeInv, Kept
<1>2. mode = "sync_wait" /\ caller = "returned" => wrapper = "told" /\ mutex = None
  BY DEF MutexHeld
<1>3. promised # None => (promised = "terminated" <=> (mode = "async_run" /\ ended = "exception"))
  BY DEF OutcomeInv, Kept, Results
<1> QED BY <1>1, <1>2, <1>3 DEF OutcomeExact

LEMMA OutcomeInit == CoroutineInit => OutcomeInv /\ MutexHeld
<1> SUFFICES ASSUME CoroutineInit PROVE OutcomeInv /\ MutexHeld
  OBVIOUS
<1>1. FramesStacked
  BY DEF CoroutineInit, FramesStacked
<1>2. NothingPending
  BY DEF CoroutineInit, NothingPending, Empty
<1>3. MutexHeld
  BY ThreadAssumption DEF CoroutineInit, MutexHeld
<1> QED BY <1>1, <1>2, <1>3, ThreadAssumption DEF CoroutineInit, OutcomeInv, CallerPlaced, Kept

\* A step after which the same frame is in control.
LEMMA SameFrame ==
  ASSUME OutcomeInv,
         UNCHANGED <<frames, current, mode, home, ended, promised, flag, outcome, wrapper>>,
         current = 1 => UNCHANGED <<running, result>>,
         running' # None => current # 0,
         ~ NothingPending' => current > 1,
         Unlaunched' => Unlaunched,
         mode # "sync_wait" => helper' = "none" /\ running' # "helper",
         running' = "helper" => helper' = "running",
         caller' = "joining" => flag,
         caller' = "getting" => mode = "co_future",
         outcome # None => helper' \in {"none", "ended"}
  PROVE  OutcomeInv'
BY DEF OutcomeInv, FramesStacked, CallerPlaced, Kept

\* While a Task runs or waits, nothing has been told of it, and it has been launched.
LEMMA StillOn ==
  ASSUME OutcomeInv, current # 0
  PROVE  /\ ~ Unlaunched
         /\ current > 1 => wrapper = "awaits"
         /\ wrapper = "awaits" => promised = None /\ outcome = None /\ ~ flag
<1>1. current \in Nat
  BY DEF OutcomeInv, FramesStacked
<1> QED BY <1>1 DEF OutcomeInv, CallerPlaced, Kept

LEMMA LaunchOutcome ==
  ASSUME CoroutineInv, OutcomeInv, Unlaunched, NEW thread, Launch(thread), thread # None,
         mode # "sync_wait" => thread # "helper" /\ helper' = "none",
         thread = "helper" => helper' = "running",
         caller' # "calling", helper' # "made",
         caller' \notin {"joining", "getting"},
         UNCHANGED <<mode, home, flag, outcome, promised, wrapper>>
  PROVE  OutcomeInv'
<1>1. frames' = <<0, 1>> /\ current' = 2 /\ running' = thread
  BY DEF Launch
<1>2. FramesStacked'
  BY <1>1 DEF FramesStacked
<1>3. CallerPlaced' /\ Kept'
  BY <1>1 DEF OutcomeInv, CallerPlaced, Kept, Unlaunched
<1> QED BY <1>2, <1>3 DEF OutcomeInv

LEMMA AwaitOutcome ==
  ASSUME CoroutineInv, OutcomeInv, AwaitTask
  PROVE  OutcomeInv'
<1>1. /\ frames' = Append(frames, current) /\ current' = Len(frames) + 1
      /\ running # None /\ current > 1
      /\ UNCHANGED <<syncVars, running, result, queue, timers, ended>>
  BY DEF AwaitTask, Continuation, Task
<1>2. current \in Nat /\ current = Len(frames) /\ frames \in Seq(Nat)
  BY DEF OutcomeInv, FramesStacked
<1>3. FramesStacked'
  <2>1. /\ frames' \in Seq(Nat) /\ Len(frames') = Len(frames) + 1
        /\ \A i \in 1..Len(frames) : frames'[i] = frames[i]
        /\ frames'[Len(frames) + 1] = current
    BY <1>1, <1>2
  <2>2. \A i \in 1..Len(frames') : i \in 1..Len(frames) \/ i = Len(frames) + 1
    BY <1>2, <2>1
  <2>3. ASSUME NEW i \in 1..Len(frames') PROVE frames'[i] = i - 1
    <3>1. CASE i \in 1..Len(frames)
      BY <2>1, <3>1 DEF OutcomeInv, FramesStacked
    <3>2. CASE i = Len(frames) + 1
      BY <1>2, <2>1, <3>2
    <3> QED BY <2>2, <3>1, <3>2
  <2> QED BY <1>1, <2>1, <2>3 DEF FramesStacked
<1>4. current' # 0 /\ current' > 1 /\ current' # 1
  BY <1>1, <1>2
<1>5. /\ ~ Unlaunched' /\ promised' = None /\ outcome' = None /\ ~ flag'
      /\ wrapper' = "awaits"
  BY <1>1, <1>2, StillOn DEF syncVars, Unlaunched
<1> QED BY <1>1, <1>3, <1>4, <1>5 DEF OutcomeInv, CallerPlaced, Kept, syncVars

LEMMA ReturnOutcome ==
  ASSUME CoroutineInv, OutcomeInv, Return
  PROVE  OutcomeInv'
<1>1. PICK r \in Results : result' = r /\ ended' = IF current = 2 THEN r ELSE ended
  BY DEF Return
<1>2. /\ current' = frames[current] /\ frames' = Front(frames)
      /\ running # None /\ current > 1
      /\ UNCHANGED <<syncVars, running, queue, timers>>
  BY DEF Return, Task
<1>3. current \in Nat /\ current = Len(frames) /\ frames \in Seq(Nat)
      /\ \A i \in 1..Len(frames) : frames[i] = i - 1
  BY DEF OutcomeInv, FramesStacked
<1>4. current' = current - 1
  BY <1>2, <1>3
<1>5. FramesStacked'
  <2>1. /\ frames' \in Seq(Nat) /\ Len(frames') = Len(frames) - 1
        /\ \A i \in 1..(Len(frames) - 1) : frames'[i] = frames[i]
    BY <1>2, <1>3 DEF Front
  <2> QED BY <1>3, <1>4, <2>1 DEF FramesStacked
<1>6. NothingPending'
  BY <1>2, RunsAlone DEF NothingPending, Empty
<1>7. /\ ~ Unlaunched' /\ promised' = None /\ outcome' = None /\ ~ flag'
      /\ wrapper' = "awaits"
  BY <1>2, <1>3, StillOn DEF syncVars, Unlaunched
<1>8. current' = 1 => result' = ended' /\ ended' \in Results
  BY <1>1, <1>3, <1>4
<1>9. current' # 0
  BY <1>2, <1>3, <1>4
<1> QED BY <1>2, <1>5, <1>6, <1>7, <1>8, <1>9 DEF OutcomeInv, CallerPlaced, Kept, syncVars

\* The coroutine asks to go on elsewhere.
LEMMA WaitOutcome ==
  ASSUME CoroutineInv, OutcomeInv, Switch \/ QueueInLoop \/ Sleep
  PROVE  OutcomeInv'
<1>1. /\ running # None /\ current > 1
      /\ UNCHANGED <<frames, current, mode, home, ended, promised, flag, outcome, wrapper, caller>>
  BY DEF Switch, QueueInLoop, Sleep, Waits, Task, Suspend, syncVars
<1>2. current # 1 /\ current # 0
  BY <1>1 DEF OutcomeInv, FramesStacked
<1>3. \/ running' = None /\ Left(running)
      \/ UNCHANGED <<running, helper>>
  BY DEF Switch, QueueInLoop, Sleep, Suspend, syncVars
<1>4. mode # "sync_wait" => helper' = "none" /\ running' # "helper"
  BY <1>3, ThreadAssumption DEF Left, OutcomeInv, CallerPlaced
<1>5. outcome = None /\ ~ flag /\ ~ Unlaunched
  BY <1>1, <1>2, StillOn
<1>6. ~ Unlaunched'
  BY <1>1, <1>3, <1>5 DEF Left, Unlaunched
<1>7. running' = "helper" => helper' = "running"
  BY <1>3, ThreadAssumption DEF OutcomeInv, CallerPlaced
<1> QED BY <1>1, <1>2, <1>4, <1>5, <1>6, <1>7, SameFrame DEF OutcomeInv, Kept

\* The AsyncTask keeps what its Task ended with before it tells anybody.
LEMMA TellOutcome ==
  ASSUME CoroutineInv, OutcomeInv, Keep \/ NotifyCaller \/ Unlock \/ Fulfil
  PROVE  OutcomeInv'
<1>1. /\ running # None /\ current = 1 /\ result = ended /\ ended \in Results /\ ~ Unlaunched
      /\ UNCHANGED <<mode, home, helper, frames, current, running, result, queue, timers, outcome,
                     ended>>
  BY StillOn DEF Keep, NotifyCaller, Unlock, Fulfil, InWrapper, Wrapper, OutcomeInv, CallerPlaced
<1>2. FramesStacked'
  BY <1>1 DEF OutcomeInv, FramesStacked
<1>3. NothingPending'
  BY <1>1, RunsAlone DEF NothingPending, Empty
<1>4. caller' \in {caller, "woken"} /\ caller # "calling"
  BY <1>1, RunsAlone DEF Keep, NotifyCaller, Unlock, Fulfil
<1>5. CallerPlaced'
  BY <1>1, <1>3, <1>4 DEF OutcomeInv, CallerPlaced, Unlaunched
<1>6. CASE Keep \/ Fulfil
  <2>1. /\ wrapper = "awaits" /\ UNCHANGED <<caller, flag>>
        /\ promised = None /\ outcome = None /\ ~ flag
        /\ promised' = IF mode = "async_run" /\ ended = "exception" THEN "terminated" ELSE ended
    BY <1>1, <1>6, StillOn DEF Keep, Fulfil
  <2>2. \/ wrapper' = "kept" /\ mode = "sync_wait"
        \/ wrapper' = "told"
    BY <1>6 DEF Keep, Fulfil
  <2> QED BY <1>1, <1>2, <1>5, <2>1, <2>2 DEF OutcomeInv, Kept
<1>7. CASE NotifyCaller \/ Unlock
  <2>1. /\ wrapper \in {"kept", "notified"} /\ wrapper' \in {"notified", "told"}
        /\ UNCHANGED promised /\ (flag => flag')
    BY <1>7 DEF NotifyCaller, Unlock
  <2> QED BY <1>1, <1>2, <1>4, <1>5, <2>1 DEF OutcomeInv, Kept
<1> QED BY <1>6, <1>7

\* By the time its frame goes, all has been told.
LEMMA EndOutcome ==
  ASSUME CoroutineInv, OutcomeInv, EndWrapper
  PROVE  OutcomeInv'
<1>1. /\ running # None /\ current = 1 /\ ~ Unlaunched /\ wrapper = "told"
      /\ frames' = << >> /\ current' = 0 /\ running' = None /\ Left(running)
      /\ UNCHANGED <<mode, home, caller, flag, result, queue, timers, ended, outcome, promised,
                     wrapper>>
  BY StillOn DEF EndWrapper, Wrapper
<1>2. FramesStacked'
  BY <1>1 DEF FramesStacked
<1>3. NothingPending'
  BY <1>1, RunsAlone DEF NothingPending, Empty
<1>4. mode # "sync_wait" => helper' = "none" /\ running' # "helper"
  BY <1>1, ThreadAssumption DEF Left, OutcomeInv, CallerPlaced
<1>5. ~ Unlaunched'
  BY <1>1 DEF Left, Unlaunched
<1>6. outcome # None => helper' \in {"none", "ended"}
  BY <1>1 DEF Left, OutcomeInv, CallerPlaced, Kept
<1>7. running' # "helper"
  BY <1>1, ThreadAssumption
<1>8. CallerPlaced'
  BY <1>1, <1>3, <1>4, <1>5, <1>7 DEF OutcomeInv, CallerPlaced
<1>9. Kept'
  BY <1>1, <1>6 DEF OutcomeInv, Kept
<1> QED BY <1>2, <1>8, <1>9 DEF OutcomeInv

\* A loop only ever resumes a coroutine that waits.
LEMMA LoopOutcome ==
  ASSUME CoroutineInv, OutcomeInv, NEW l \in Loops, LoopStep(l) \/ TimerFires(l)
  PROVE  OutcomeInv'
<1>1. ~ NothingPending /\ current > 1 /\ current # 0 /\ current # 1
  <2>1. ~ NothingPending
    BY DEF LoopStep, TimerFires, NothingPending, Empty
  <2> QED BY <2>1 DEF OutcomeInv, CallerPlaced, FramesStacked
<1>2. /\ UNCHANGED <<frames, current, syncVars, ended>>
      /\ running' = l \/ UNCHANGED running
  BY DEF LoopStep, TimerFires, ResumeOn
<1>3. l # "helper"
  BY ThreadAssumption
<1> QED BY <1>1, <1>2, <1>3, StillOn, SameFrame
        DEF OutcomeInv, CallerPlaced, Kept, Unlaunched, syncVars

LEMMA ThreadsOutcome ==
  ASSUME CoroutineInv, OutcomeInv, CallerStarts \/ CallerRuns \/ WakeUp \/ HelperRuns
  PROVE  OutcomeInv'
<1>1. CASE SyncWait \/ Check \/ GoToSleep \/ WakeUp \/ GetFuture \/ HelperEnds
  <2>1. /\ UNCHANGED <<frames, current, mode, home, ended, promised, flag, outcome, wrapper, running,
                       result, queue, timers>>
        /\ caller' = "joining" => flag
        /\ caller' = "getting" => mode = "co_future"
    BY <1>1 DEF SyncWait, Check, GoToSleep, WakeUp, GetFuture, HelperEnds, OutcomeInv, Kept
  <2>2. Unlaunched' => Unlaunched
    BY <1>1 DEF SyncWait, Check, GoToSleep, WakeUp, GetFuture, HelperEnds, Unlaunched
  <2>3. mode # "sync_wait" => helper' = "none"
    BY <1>1 DEF SyncWait, Check, GoToSleep, WakeUp, GetFuture, HelperEnds, OutcomeInv, CallerPlaced
  <2>4. outcome # None => helper' \in {"none", "ended"}
    <3>1. outcome # None => helper \in {"none", "ended"} /\ caller # "calling"
      BY DEF OutcomeInv, CallerPlaced, Kept, Unlaunched
    <3> QED BY <1>1, <3>1 DEF SyncWait, Check, GoToSleep, WakeUp, GetFuture, HelperEnds
  <2>5. ~ NothingPending' => current > 1
    BY <2>1 DEF OutcomeInv, CallerPlaced, NothingPending, Empty
  <2>6. running' = "helper" => helper' = "running"
    <3>1. running = "helper" => helper = "running" /\ caller # "calling"
      BY RunsAlone, ThreadAssumption DEF OutcomeInv, CallerPlaced
    <3> QED BY <1>1, <2>1, <3>1 DEF SyncWait, Check, GoToSleep, WakeUp, GetFuture, HelperEnds
  <2> QED BY <2>1, <2>2, <2>3, <2>4, <2>5, <2>6, SameFrame DEF OutcomeInv, CallerPlaced
<1>2. CASE StartHere
  <2>1. /\ Unlaunched /\ Launch(CallingThread) /\ mode # "sync_wait" /\ caller' = "launched"
        /\ helper' = "none"
        /\ UNCHANGED <<mode, home, flag, outcome, promised, wrapper>>
    BY <1>2 DEF StartHere, Unlaunched, OutcomeInv, CallerPlaced
  <2>2. CallingThread \notin {None, "helper"}
    BY ThreadAssumption DEF CallingThread, OutcomeInv, CallerPlaced
  <2> QED BY <2>1, <2>2, LaunchOutcome
<1>3. CASE HelperStarts
  <2>1. /\ Unlaunched /\ Launch("helper") /\ helper' = "running" /\ mode = "sync_wait"
        /\ UNCHANGED <<mode, home, flag, outcome, promised, wrapper, caller>>
    BY <1>3 DEF HelperStarts, Unlaunched, OutcomeInv, CallerPlaced
  <2>2. caller' \notin {"calling", "joining", "getting"}
    BY <1>3, <2>1 DEF HelperStarts, OutcomeInv, CallerPlaced, Kept, CoroutineInv, LaunchedOnce
  <2> QED BY <2>1, <2>2, ThreadAssumption, LaunchOutcome
<1>4. CASE Join \/ Got
  <2>1. /\ UNCHANGED <<frames, current, mode, home, ended, promised, flag, wrapper, running, result,
                       queue, timers, helper>>
        /\ caller' = "returned" /\ outcome' = promised
    BY <1>4 DEF Join, Got
  <2>2. promised = ended /\ wrapper # "awaits" /\ helper \in {"none", "ended"}
    BY <1>4 DEF Join, Got, OutcomeInv, CallerPlaced, Kept
  <2>3. ~ Unlaunched
    BY <1>4 DEF Join, Got, Unlaunched, OutcomeInv, CallerPlaced, Kept
  <2> QED BY <2>1, <2>2, <2>3
          DEF OutcomeInv, FramesStacked, CallerPlaced, Kept, NothingPending, Empty, Unlaunched
<1> QED BY <1>1, <1>2, <1>3, <1>4 DEF CallerStarts, CallerRuns, HelperRuns

LEMMA OutcomeStep == CoroutineInv /\ OutcomeInv /\ [CoroutineNext]_coroutineVars => OutcomeInv'
<1> SUFFICES ASSUME CoroutineInv, OutcomeInv, [CoroutineNext]_coroutineVars PROVE OutcomeInv'
  OBVIOUS
<1>1. CASE UNCHANGED coroutineVars
  BY <1>1 DEF coroutineVars, OutcomeInv, FramesStacked, CallerPlaced, Kept, NothingPending, Empty, Unlaunched
<1>2. CASE CoroutineRuns
  BY <1>2, AwaitOutcome, ReturnOutcome, WaitOutcome, TellOutcome, EndOutcome DEF CoroutineRuns
<1> QED BY <1>1, <1>2, ThreadsOutcome, LoopOutcome DEF CoroutineNext

\* The mutex passes from the caller to the AsyncTask when the caller sleeps, and back behind
\* the unlock.
LEMMA MutexStep ==
  ASSUME CoroutineInv, OutcomeInv, MutexHeld, [CoroutineNext]_coroutineVars
  PROVE  MutexHeld'
<1>1. CASE UNCHANGED <<mode, caller, mutex, flag, wrapper>>
  BY <1>1 DEF MutexHeld
<1>2. CASE AwaitTask \/ Return \/ Switch \/ QueueInLoop \/ Sleep \/ EndWrapper \/ Keep \/ Fulfil
  <2>1. UNCHANGED <<mode, caller, mutex, flag>>
    BY <1>2 DEF AwaitTask, Return, Switch, QueueInLoop, Sleep, Suspend, EndWrapper, Keep, Fulfil,
       InWrapper, syncVars
  <2>2. \/ wrapper' = wrapper
        \/ wrapper = "awaits" /\ wrapper' \in {"kept", "told"}
    BY <1>2 DEF AwaitTask, Return, Switch, QueueInLoop, Sleep, Suspend, EndWrapper, Keep, Fulfil,
       syncVars
  <2> QED BY <2>1, <2>2 DEF MutexHeld
<1>3. CASE NotifyCaller
  BY <1>3, ThreadAssumption DEF NotifyCaller, MayNotify, InWrapper, MutexHeld
<1>4. CASE Unlock
  BY <1>4, ThreadAssumption DEF Unlock, InWrapper, MutexHeld
<1>5. CASE SyncWait
  <2>1. wrapper = "awaits"
    BY <1>5 DEF SyncWait, OutcomeInv, CallerPlaced, Unlaunched
  <2> QED BY <1>5, <2>1, ThreadAssumption DEF SyncWait, MutexHeld
<1>6. CASE StartHere \/ HelperStarts \/ HelperEnds
  BY <1>6 DEF StartHere, HelperStarts, HelperEnds, MutexHeld
<1>7. CASE Check \/ GoToSleep \/ WakeUp
  BY <1>7, ThreadAssumption DEF Check, GoToSleep, WakeUp, MutexHeld
<1>8. CASE Join
  <2>1. flag /\ mutex = "caller"
    BY <1>8 DEF Join, OutcomeInv, Kept, MutexHeld
  <2> QED BY <1>8, <2>1, ThreadAssumption DEF Join, MutexHeld
<1>9. CASE GetFuture \/ Got
  BY <1>9 DEF GetFuture, Got, OutcomeInv, Kept, MutexHeld
<1>10. ASSUME NEW l \in Loops, LoopStep(l) \/ TimerFires(l)
       PROVE  UNCHANGED <<mode, caller, mutex, flag, wrapper>>
  BY <1>10 DEF LoopStep, TimerFires, syncVars
<1>11. CASE UNCHANGED coroutineVars
  BY <1>1, <1>11 DEF coroutineVars
<1> QED BY <1>1, <1>2, <1>3, <1>4, <1>5, <1>6, <1>7, <1>8, <1>9, <1>10, <1>11
        DEF CoroutineNext, CoroutineRuns, CallerStarts, CallerRuns, HelperRuns

\* However the coroutine moves between loops and whatever it awaits, the caller of sync_wait
\* or of the future gets what the Task it gave ended with, sync_wait's when its thread has
\* ended and nothing of the AsyncTask needs its mutex, flag and result any more; the frame
\* itself may outlast it.  async_run ends the process exactly when that was an exception.
THEOREM CallerGetsTheOutcome == CoroutineSpec => []OutcomeExact
<1>1. CoroutineInit => CoroutineInv /\ OutcomeInv /\ MutexHeld
  BY CoroutineStarts, OutcomeInit
<1>2. /\ CoroutineInv /\ OutcomeInv /\ MutexHeld /\ [CoroutineNext]_coroutineVars
      => (CoroutineInv /\ OutcomeInv /\ MutexHeld)'
  BY StepKeeps, OutcomeStep, MutexStep
<1>3. OutcomeInv /\ MutexHeld => OutcomeExact
  BY OutcomeImplied
<1> QED BY <1>1, <1>2, <1>3, PTL DEF CoroutineSpec
=============================================================================
