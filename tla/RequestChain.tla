---------------------------- MODULE RequestChain ----------------------------
(***************************************************************************)
(* The way of requests through the asynchronous advices (AopAdvice), the   *)
(* filters of their handler (filters_function) and the filters of the      *)
(* plugin GlobalFilters, which is one of the advices.                      *)
(*                                                                         *)
(* A step is called on the I/O loop of its request.  It answers (its first *)
(* callback) or lets the request go on (its second), at once, later on the *)
(* loop or on any other thread; a step that goes on elsewhere comes back   *)
(* to the loop through its queue.  The chain of a plugin's filters runs    *)
(* inside its advice: chains[r] is the stack of chains and positions.  A   *)
(* filter that is a coroutine (HttpCoroFilter) may also throw.             *)
(***************************************************************************)
EXTENDS Integers, Sequences, SequencesExt

CONSTANTS
  Reqs,            \* requests of one I/O loop
  Stages,          \* the chains a request passes, in order
  Steps,           \* the steps of each of them
  GlobalFilterIds, \* filters_ of GlobalFilters
  CoroFilters,     \* the filters that are an HttpCoroFilter
  Plugin,          \* the step that is the advice of GlobalFilters
  SyncAdvices,     \* syncAdvices_
  Exempt,          \* requests whose path matches the plugin's exempt
  Nobody           \* no request

\* There are chains to pass, and no filter is an advice.
ASSUME ChainAssumption ==
  /\ Nobody \notin Reqs
  /\ Stages # <<>> /\ Stages \in Seq(Range(Stages))
  /\ \A i \in DOMAIN Stages : Steps[Stages[i]] \in Seq(Range(Steps[Stages[i]]))
  /\ GlobalFilterIds \in Seq(Range(GlobalFilterIds))
  /\ Plugin \notin Range(GlobalFilterIds)

VARIABLES
  where,           \* what is happening to each request
  stage,           \* the index of its stage in Stages
  chains,          \* its chains: the stage's, and the plugin's inside it
  serving,         \* the request whose code the loop thread is in, or Nobody
  posted,          \* queueInLoop: requests whose chain goes on
  filters,         \* GlobalFilters::filters_
  alive,           \* the plugin object
  passed,          \* the steps that let each request go on
  replies          \* how often each request's callback was called

chainVars == <<where, stage, chains, serving, posted, filters, alive, passed, replies>>

\* The chain of a frame, as a sequence of steps.
ChainOf(frame) == IF frame.plugin THEN filters ELSE Steps[Stages[frame.stage]]
Frame(s) == [plugin |-> FALSE, stage |-> s, index |-> 1]
PluginFrame(s) == [plugin |-> TRUE, stage |-> s, index |-> 1]

Top(r) == Last(chains[r])
Step(r) == ChainOf(Top(r))[Top(r).index]
AtEnd(r) == Top(r).index > Len(ChainOf(Top(r)))
Moves(r, to) == where' = [where EXCEPT ![r] = to]

\* doFilterChains and doAdvicesChain with index + 1
Onward(stack) == [stack EXCEPT ![Len(stack)].index = @ + 1]
Advance(r) == chains' = [chains EXCEPT ![r] = Onward(@)]

ChainInit ==
  /\ where = [r \in Reqs |-> "new"]
  /\ stage = [r \in Reqs |-> 1]
  /\ chains = [r \in Reqs |-> <<>>]
  /\ serving = Nobody
  /\ posted = <<>>
  /\ filters = GlobalFilterIds
  /\ alive = TRUE
  /\ passed = [r \in Reqs |-> <<>>]
  /\ replies = [r \in Reqs |-> 0]

Reply(r) ==
  /\ replies' = [replies EXCEPT ![r] = @ + 1]
  /\ Moves(r, "answered")

\* A request is handed over on the loop: passSyncAdvices, the first response ends it,
\* then the first chain.
Arrive(r) ==
  /\ where[r] = "new"
  /\ serving = Nobody
  /\ \/ /\ \E advice \in Range(SyncAdvices) : TRUE
        /\ Reply(r)
        /\ UNCHANGED <<chains, serving>>
     \/ /\ chains' = [chains EXCEPT ![r] = <<Frame(1)>>]
        /\ Moves(r, "calling")
        /\ serving' = r
        /\ UNCHANGED replies
  /\ UNCHANGED <<stage, posted, filters, alive, passed>>

\* The next step is called.
CallStep(r) ==
  /\ serving = r /\ where[r] = "calling"
  /\ ~AtEnd(r)
  /\ Step(r) # Plugin
  /\ Moves(r, "inStep")
  /\ UNCHANGED <<stage, chains, serving, posted, filters, alive, passed, replies>>

\* The advice of GlobalFilters: without the plugin, or for an exempt path, the chain
\* goes on; otherwise doFilters.
CallPlugin(r) ==
  /\ serving = r /\ where[r] = "calling"
  /\ ~AtEnd(r)
  /\ Step(r) = Plugin
  /\ \/ /\ ~alive \/ r \in Exempt
        /\ Advance(r)
     \/ /\ alive /\ r \notin Exempt
        /\ chains' = [chains EXCEPT ![r] = Append(@, PluginFrame(stage[r]))]
  /\ UNCHANGED <<where, stage, serving, posted, filters, alive, passed, replies>>

\* The end of the plugin's filters: its callback calls the advice's chain callback.
PluginEnd(stack) == Onward(Front(stack))

\* A chain has ended: callback(nullptr).
EndOfChain(r) ==
  /\ serving = r /\ where[r] = "calling"
  /\ AtEnd(r)
  /\ LET up == IF Top(r).plugin THEN PluginEnd(chains[r]) ELSE <<>>
     IN  \/ /\ up # <<>>
            /\ chains' = [chains EXCEPT ![r] = up]
            /\ UNCHANGED <<where, stage, serving>>
         \/ /\ up = <<>> /\ stage[r] < Len(Stages)
            /\ stage' = [stage EXCEPT ![r] = @ + 1]
            /\ chains' = [chains EXCEPT ![r] = <<Frame(stage[r] + 1)>>]
            /\ UNCHANGED <<where, serving>>
         \/ /\ up = <<>> /\ stage[r] = Len(Stages)
            /\ chains' = [chains EXCEPT ![r] = <<>>]
            /\ Moves(r, "handling")
            /\ serving' = Nobody
            /\ UNCHANGED stage
  /\ UNCHANGED <<posted, filters, alive, passed, replies>>

\* The step lets the request go on; the plugin's filters may have been cleared
\* since it was called.
Passes(r) ==
  passed' = [passed EXCEPT ![r] = IF AtEnd(r) THEN @ ELSE Append(@, Step(r))]
InStep(r) ==
  \/ where[r] = "inStep" /\ serving = r
  \/ where[r] = "held"

\* The step calls its second callback before it returns.
PassAtOnce(r) ==
  /\ where[r] = "inStep" /\ serving = r
  /\ Passes(r)
  /\ Advance(r)
  /\ Moves(r, "calling")
  /\ UNCHANGED <<stage, serving, posted, filters, alive, replies>>

\* The step returns and keeps its callbacks.
Hold(r) ==
  /\ where[r] = "inStep" /\ serving = r
  /\ Moves(r, "held")
  /\ serving' = Nobody
  /\ UNCHANGED <<stage, chains, posted, filters, alive, passed, replies>>

\* ... and calls the second one later in the loop,
PassInLoop(r) ==
  /\ where[r] = "held" /\ serving = Nobody
  /\ Passes(r)
  /\ Advance(r)
  /\ Moves(r, "calling")
  /\ serving' = r
  /\ UNCHANGED <<stage, posted, filters, alive, replies>>

\* Mutant: the chain goes on where the callback is called.
PassElsewhereThere(r) ==
  /\ where[r] = "held"
  /\ Passes(r)
  /\ Advance(r)
  /\ Moves(r, "inStep")
  /\ UNCHANGED <<stage, serving, posted, filters, alive, replies>>

\* Mutant: off the loop nothing is queued.
PassElsewhereLost(r) ==
  /\ where[r] = "held"
  /\ Passes(r)
  /\ Moves(r, "queued")
  /\ UNCHANGED <<stage, chains, posted, serving, filters, alive, replies>>

\* ... or on another thread: queueInLoop.
PassElsewhere(r) ==
  /\ where[r] = "held"
  /\ Passes(r)
  /\ Moves(r, "queued")
  /\ posted' = Append(posted, r)
  /\ UNCHANGED <<stage, chains, serving, filters, alive, replies>>

\* The loop takes the closure.
TakeQueued ==
  /\ serving = Nobody /\ posted # <<>>
  /\ posted' = Tail(posted)
  /\ Advance(Head(posted))
  /\ Moves(Head(posted), "calling")
  /\ serving' = Head(posted)
  /\ UNCHANGED <<stage, filters, alive, passed, replies>>

\* The step calls its first callback, on any thread.
Answer(r) ==
  /\ InStep(r)
  /\ Reply(r)
  /\ serving' = IF where[r] = "inStep" THEN Nobody ELSE serving
  /\ UNCHANGED <<stage, chains, posted, filters, alive, passed>>

\* The filter a request is in; the plugin's may have been cleared since it was called.
Filter(r) == IF Top(r).plugin THEN GlobalFilterIds[Top(r).index] ELSE Step(r)

\* A coroutine filter throws, before it first waits or on whichever thread it goes on: a
\* std::exception goes to handleException, which returns, another is only logged; neither
\* callback is called, and both are dropped.
FilterThrows(r) ==
  /\ InStep(r) /\ Filter(r) \in CoroFilters
  /\ Moves(r, "dropped")
  /\ serving' = IF where[r] = "inStep" THEN Nobody ELSE serving
  /\ UNCHANGED <<stage, chains, posted, filters, alive, passed, replies>>

\* The handler answers ...
Handle(r) ==
  /\ where[r] = "handling"
  /\ Reply(r)
  /\ UNCHANGED <<stage, chains, serving, posted, filters, alive, passed>>

\* ... or it throws, as may the conversion of one of its arguments: handleException
\* returns, and the callback is dropped.
Throw(r) ==
  /\ where[r] = "handling"
  /\ Moves(r, "dropped")
  /\ UNCHANGED <<stage, chains, serving, posted, filters, alive, passed, replies>>

\* The application quits: the plugin's shutdown.
Shutdown ==
  /\ filters # <<>>
  /\ filters' = <<>>
  /\ UNCHANGED <<where, stage, chains, serving, posted, alive, passed, replies>>

\* The plugin is destroyed; the model leaves out that a chain still refers to its
\* filters_ then, which is undefined.
Destroy ==
  /\ filters = <<>> /\ alive
  /\ \A r \in Reqs : \A i \in DOMAIN chains[r] : ~chains[r][i].plugin
  /\ alive' = FALSE
  /\ UNCHANGED <<where, stage, chains, serving, posted, filters, passed, replies>>

ChainStep(r) ==
  Arrive(r) \/ CallStep(r) \/ CallPlugin(r) \/ EndOfChain(r)

StepActs(r) ==
  \/ PassAtOnce(r) \/ Hold(r) \/ PassInLoop(r) \/ PassElsewhere(r)
  \/ Answer(r) \/ FilterThrows(r)

ChainNext ==
  \/ \E r \in Reqs : ChainStep(r) \/ StepActs(r) \/ Handle(r) \/ Throw(r)
  \/ TakeQueued \/ Shutdown \/ Destroy

ChainSpec == ChainInit /\ [][ChainNext]_chainVars

\* The loop runs what it can; a step uses one of its callbacks, or throws if it is a
\* coroutine; a handler ends.
ChainFairness ==
  /\ WF_chainVars(TakeQueued)
  /\ \A r \in Reqs :
       /\ WF_chainVars(CallStep(r) \/ CallPlugin(r) \/ EndOfChain(r))
       /\ WF_chainVars(PassAtOnce(r) \/ Hold(r) \/ Answer(r) \/ FilterThrows(r))
       /\ WF_chainVars(PassElsewhere(r) \/ Answer(r) \/ FilterThrows(r))
       /\ WF_chainVars(Handle(r) \/ Throw(r))

ChainLiveSpec == ChainSpec /\ ChainFairness

-----------------------------------------------------------------------------
\* "if this is called, ... doFilter methods of next filters and the handler ... are not
\* called anymore" and "the next filter's doFilter method or the handler ... is called":
\* while the plugin is there, the handler sees a request only after every advice and
\* every filter, in their order, has let it go on.
Inside(s, r) == IF s # Plugin THEN <<s>> ELSE IF r \in Exempt THEN <<>> ELSE GlobalFilterIds
Required(r) ==
  FlattenSeq([i \in DOMAIN Stages |->
    FlattenSeq([j \in DOMAIN Steps[Stages[i]] |-> Inside(Steps[Stages[i]][j], r)])])
HandledAfterAll ==
  filters # <<>> =>
    \A r \in Reqs : where[r] = "handling" => passed[r] = Required(r)

\* A step is called on the loop of its request: one that has just been called has the
\* loop's thread.
CalledOnLoop == \A r \in Reqs : where[r] \in {"calling", "inStep"} => serving = r

\* A request's callback is called once, and never when an exception has dropped it.
AnsweredOnce ==
  \A r \in Reqs :
    replies[r] <= 1 /\ (where[r] = "answered" <=> replies[r] = 1)

\* What the chain promises a request that runs through it.
ChainExact == HandledAfterAll /\ CalledOnLoop /\ AnsweredOnce

\* The callback of a request that has arrived is called in the end, unless its handler or
\* a coroutine filter has thrown: then the client waits for an answer that never comes.
Ended == \A r \in Reqs : where[r] # "new" ~> where[r] \in {"answered", "dropped"}

=============================================================================
