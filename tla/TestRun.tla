------------------------------- MODULE TestRun -------------------------------
(***************************************************************************)
(* The test framework (xiaoHttp_test): run() calls the body of each test   *)
(* with a Case, which the body may hand to callbacks on other threads; a   *)
(* Case is registered while it lives, and run() waits until none does.  A  *)
(* subtest is a Case that holds its parent.                                *)
(***************************************************************************)
EXTENDS Integers, Sequences, FiniteSets, SequencesExt

CONSTANTS
  Others,          \* threads that run callbacks
  MaxCases,        \* bound of the model: Cases ever made
  MaxAssertions,   \* bound of the model
  NoCase

ASSUME TestAssumption == "main" \notin Others /\ NoCase \notin Nat

VARIABLES
  main,            \* what run() does
  numTestCases,
  parents,         \* parent_ of each Case ever made, NoCase for a test
  held,            \* of each thread: the Cases its code holds, TEST_CTX last
  dying,           \* of each thread: the Case it destroys, or NoCase
  registeredTests, \* the Cases that live
  signals,         \* how often allTestRan was set
  judging,         \* of each thread: where it is in TEST_INTERNAL__
  numAssertions, numCorrectAssertions, numFailedTestCases,
  failed,          \* Cases with failed_ set
  wrong,           \* an assertion did not hold, for the property
  report           \* the counters that run() printed

runVars == <<main, numTestCases, parents, held, dying, registeredTests, signals,
             judging, numAssertions, numCorrectAssertions, numFailedTestCases, failed, wrong, report>>
caseVars == <<numTestCases, parents, held, dying, registeredTests, signals>>
assertVars == <<judging, numAssertions, numCorrectAssertions, numFailedTestCases, failed, wrong>>

TestThreads == {"main"} \cup Others

\* Mutant: run() registers no Case of its own.
NoDummy == << >>
\* dummyCase
Dummy == <<1>>

RunInit ==
  /\ main = "registering"
  /\ numTestCases = 0
  /\ parents = [c \in Range(Dummy) |-> NoCase]
  /\ held = [t \in TestThreads |-> IF t = "main" THEN Dummy ELSE << >>]
  /\ dying = [t \in TestThreads |-> NoCase]
  /\ registeredTests = Range(Dummy)
  /\ signals = 0
  /\ judging = [t \in TestThreads |-> "no"]
  /\ numAssertions = 0 /\ numCorrectAssertions = 0 /\ numFailedTestCases = 0
  /\ failed = {}
  /\ wrong = FALSE
  /\ report = NoCase

-----------------------------------------------------------------------------
(* The code of the tests *)

\* A thread is free to go on in its code; in a body, main has more than the dummy.
Busy(t) == dying[t] # NoCase \/ judging[t] # "no"
InTest(t) ==
  /\ ~Busy(t) /\ held[t] # << >>
  /\ t = "main" => main = "inBody"
Context(t) == Last(held[t])
Register(parent) ==
  /\ Len(parents) < MaxCases
  /\ parents' = Append(parents, parent)
  /\ registeredTests' = registeredTests \cup {Len(parents')}

SubTest(t) ==
  /\ InTest(t)
  /\ Register(Context(t))
  /\ held' = [held EXCEPT ![t] = Append(@, Len(parents'))]
  /\ UNCHANGED <<main, numTestCases, dying, signals, assertVars, report>>

\* A callback that captures TEST_CTX is given to another thread.
HandOver(t, u) ==
  /\ InTest(t)
  /\ u # "main" /\ held[u] = << >> /\ ~Busy(u)
  /\ held' = [held EXCEPT ![u] = <<Context(t)>>]
  /\ UNCHANGED <<main, numTestCases, parents, dying, registeredTests, signals, assertVars,
                 report>>

\* Who drops the last shared_ptr destroys the Case ...
Referred(c) ==
  \/ \E t \in TestThreads : c \in Range(held'[t])
  \/ \E d \in registeredTests' : parents[d] = c
DropBy(t) ==
  /\ held' = [held EXCEPT ![t] = Front(@)]
  /\ registeredTests' = registeredTests
  /\ dying' = [dying EXCEPT ![t] = IF Referred(Context(t)) THEN NoCase ELSE Context(t)]

Drop(t) ==
  /\ InTest(t)
  /\ DropBy(t)
  /\ main' = IF t = "main" /\ Len(held'[t]) = Len(Dummy) THEN "registering" ELSE main
  /\ UNCHANGED <<numTestCases, parents, signals, assertVars, report>>

\* ... which unregisters it under the mutex, and then lets go of its parent.
UnregisterCase(t) ==
  /\ dying[t] # NoCase
  /\ registeredTests' = registeredTests \ {dying[t]}
  /\ signals' = IF registeredTests' = {} THEN signals + 1 ELSE signals
  /\ UNCHANGED held
  /\ LET p == parents[dying[t]]
     IN  dying' = [dying EXCEPT ![t] = IF p = NoCase \/ Referred(p) THEN NoCase ELSE p]
  /\ UNCHANGED <<main, numTestCases, parents, assertVars, report>>

\* CHECK and the like count the assertion, evaluate it, and judge it; FAIL and SUCCESS are
\* assertions of known outcome.
CountAssertion(t) ==
  /\ InTest(t) /\ numAssertions < MaxAssertions
  /\ numAssertions' = numAssertions + 1
  /\ judging' = [judging EXCEPT ![t] = "evaluating"]
  /\ UNCHANGED <<main, caseVars, numCorrectAssertions, numFailedTestCases, failed, wrong, report>>
Holds(t) ==
  /\ judging[t] = "evaluating"
  /\ judging' = [judging EXCEPT ![t] = "no"]
  /\ numCorrectAssertions' = numCorrectAssertions + 1
  /\ UNCHANGED <<main, caseVars, numAssertions, numFailedTestCases, failed, wrong, report>>
\* setFailed reads failed_, counts, and sets it, with no lock.
Fails(t) ==
  /\ judging[t] = "evaluating"
  /\ judging' = [judging EXCEPT ![t] = IF Context(t) \in failed THEN "no" ELSE "counting"]
  /\ wrong' = TRUE
  /\ UNCHANGED <<main, caseVars, numAssertions, numCorrectAssertions, numFailedTestCases,
                 failed, report>>
SetFailed(t) ==
  /\ judging[t] = "counting"
  /\ judging' = [judging EXCEPT ![t] = "no"]
  /\ numFailedTestCases' = numFailedTestCases + 1
  /\ failed' = failed \cup {Context(t)}
  /\ UNCHANGED <<main, caseVars, numAssertions, numCorrectAssertions, wrong, report>>

-----------------------------------------------------------------------------
(* run() *)

DoTest ==
  /\ main = "registering" /\ ~Busy("main")
  /\ main' = "inBody"
  /\ numTestCases' = numTestCases + 1
  /\ Register(NoCase)
  /\ held' = [held EXCEPT !["main"] = Append(@, Len(parents'))]
  /\ UNCHANGED <<dying, signals, assertVars, report>>

DropDummy ==
  /\ main = "registering" /\ ~Busy("main")
  /\ main' = "looking"
  /\ IF held["main"] = << >> THEN UNCHANGED <<held, registeredTests, dying>>
     ELSE DropBy("main")
  /\ UNCHANGED <<numTestCases, parents, signals, assertVars, report>>

\* Under the mutex: is there a Case to wait for?
LookForCases ==
  /\ main = "looking" /\ ~Busy("main")
  /\ main' = IF registeredTests = {} THEN "printing" ELSE "waiting"
  /\ UNCHANGED <<caseVars, assertVars, report>>
WaitForSignal ==
  /\ main = "waiting" /\ signals > 0
  /\ main' = "printing"
  /\ UNCHANGED <<caseVars, assertVars, report>>

PrintTestStats ==
  /\ main = "printing"
  /\ main' = "returned"
  /\ report' = [assertions |-> numAssertions, correct |-> numCorrectAssertions,
                failed |-> numFailedTestCases]
  /\ UNCHANGED <<caseVars, assertVars>>

RunNext ==
  \/ DoTest \/ DropDummy \/ LookForCases \/ WaitForSignal \/ PrintTestStats
  \/ \E t \in TestThreads :
       \/ SubTest(t) \/ Drop(t) \/ UnregisterCase(t)
       \/ CountAssertion(t) \/ Holds(t) \/ Fails(t) \/ SetFailed(t)
       \/ \E u \in Others : HandOver(t, u)
RunSpec == RunInit /\ [][RunNext]_runVars

-----------------------------------------------------------------------------
\* The end is signalled once, a second time would end the process, and not before the last
\* callback has let go of its Case: what run() prints and returns counts all assertions.
RunWaits ==
  /\ signals <= 1
  /\ report # NoCase =>
       /\ registeredTests = {} /\ \A t \in TestThreads : held[t] = << >>
       /\ report.assertions = numAssertions /\ report.failed = numFailedTestCases
       /\ (report.correct # report.assertions) = wrong
=============================================================================
