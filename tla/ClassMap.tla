------------------------------ MODULE ClassMap ------------------------------
(***************************************************************************)
(* DrClassMap: classes by name and one instance of each, which any thread  *)
(* asks for.  The mutex of the instances is given up while an instance is  *)
(* constructed, so that a constructor may ask for other instances.         *)
(***************************************************************************)
EXTENDS Integers, Sequences, SequencesExt

CONSTANTS
  Callers,         \* threads
  Classes,
  Uses,            \* Uses[c]: the class whose instance a constructor of c asks for, or Null
  MaxGets,         \* bound of the model: calls from outside constructors
  Null             \* the null pointer, and no class

VARIABLES
  registered,      \* getMap(): the classes that can be created
  instances,       \* singleInstanceMap
  stack,           \* of each thread: the calls of getSingleInstance it is in
  objects,         \* how many objects were made; each is a number
  gets,            \* how many calls were made, for the bound
  settings,        \* how often the instance of each class was set, for the property
  got              \* what the calls returned, for the property

classVars == <<registered, instances, stack, objects, gets, settings, got>>

ClassInit ==
  /\ registered \in SUBSET Classes
  /\ instances = << >>
  /\ stack = [t \in Callers |-> << >>]
  /\ objects = 0 /\ gets = 0
  /\ settings = [c \in Classes |-> 0]
  /\ got = {}

\* DrAllocator: the classes of a library register themselves when it is loaded.
RegisterClass(c) ==
  /\ c \notin registered
  /\ registered' = registered \cup {c}
  /\ UNCHANGED <<instances, stack, objects, gets, settings, got>>

Call(t) == Last(stack[t])
Enter(t, c) == stack' = [stack EXCEPT ![t] = Append(@, [class |-> c, at |-> "look", made |-> Null])]
GoOn(t, at, made) ==
  stack' = [stack EXCEPT ![t] = Append(Front(@), [class |-> Call(t).class, at |-> at, made |-> made])]
ReturnWith(t, object) ==
  LET c == Call(t).class
  IN  /\ stack' = [stack EXCEPT ![t] = Front(@)]
      /\ got' = got \cup {[class |-> c, object |-> object, settings |-> settings[c]]}

GetSingleInstance(t, c) ==
  /\ stack[t] = << >> /\ gets < MaxGets
  /\ gets' = gets + 1
  /\ Enter(t, c)
  /\ UNCHANGED <<registered, instances, objects, settings, got>>

\* Under the mutex: the instance that the map has, if any
Look(t) ==
  /\ stack[t] # << >> /\ Call(t).at = "look"
  /\ LET c == Call(t).class
     IN  \/ c \in DOMAIN instances /\ ReturnWith(t, instances[c])
         \/ c \notin DOMAIN instances /\ GoOn(t, "create", Null) /\ UNCHANGED got
  /\ UNCHANGED <<registered, instances, objects, gets, settings>>

\* newSharedObject, without the mutex: null for an unknown class; else the constructor,
\* which asks for what it uses first.
Create(t) ==
  /\ stack[t] # << >> /\ Call(t).at = "create"
  /\ Call(t).class \notin registered
  /\ GoOn(t, "insert", Null)
  /\ UNCHANGED <<registered, instances, objects, gets, settings, got>>
ConstructorAsks(t) ==
  /\ stack[t] # << >> /\ Call(t).at = "create"
  /\ Call(t).class \in registered /\ Uses[Call(t).class] # Null
  /\ stack' = [stack EXCEPT ![t] =
                 Append(Append(Front(@), [Last(@) EXCEPT !.at = "constructing"]),
                        [class |-> Uses[Call(t).class], at |-> "look", made |-> Null])]
  /\ UNCHANGED <<registered, instances, objects, gets, settings, got>>
ConstructorEnds(t) ==
  /\ stack[t] # << >>
  /\ \/ Call(t).at = "constructing"
     \/ Call(t).at = "create" /\ Call(t).class \in registered /\ Uses[Call(t).class] = Null
  /\ objects' = objects + 1
  /\ GoOn(t, "insert", objects')
  /\ UNCHANGED <<registered, instances, gets, settings, got>>

\* singleInstanceMap[className] = object
Assigned(c, object) ==
  [d \in DOMAIN instances \cup {c} |-> IF d = c THEN object ELSE instances[d]]

\* Mutant: the new object replaces what is there.
WithInstanceAnyway(c, object) == Assigned(c, object)
\* unordered_map::insert keeps what is there.
WithInstance(c, object) == IF c \in DOMAIN instances THEN instances ELSE Assigned(c, object)

\* Under the mutex again: another thread, or the constructor, may have been faster.
Insert(t) ==
  /\ stack[t] # << >> /\ Call(t).at = "insert"
  /\ instances' = WithInstance(Call(t).class, Call(t).made)
  /\ ReturnWith(t, instances'[Call(t).class])
  /\ UNCHANGED <<registered, objects, gets, settings>>

SetSingleInstance(t, c) ==
  /\ stack[t] = << >> /\ gets < MaxGets /\ c \in registered
  /\ gets' = gets + 1
  /\ objects' = objects + 1
  /\ instances' = Assigned(c, objects')
  /\ settings' = [settings EXCEPT ![c] = @ + 1]
  /\ UNCHANGED <<registered, stack, got>>

ClassNext ==
  \/ \E c \in Classes : RegisterClass(c)
  \/ \E t \in Callers, c \in Classes : GetSingleInstance(t, c) \/ SetSingleInstance(t, c)
  \/ \E t \in Callers :
       Look(t) \/ Create(t) \/ ConstructorAsks(t) \/ ConstructorEnds(t) \/ Insert(t)
ClassSpec == ClassInit /\ [][ClassNext]_classVars

-----------------------------------------------------------------------------
\* However many threads ask at once, and construct objects of a class at once, all get the
\* same instance of it, until another one is set.
OneInstance ==
  \A x, y \in got : x.class = y.class /\ x.settings = y.settings => x.object = y.object
=============================================================================
