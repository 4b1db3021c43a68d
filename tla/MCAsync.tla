------------------------------- MODULE MCAsync -------------------------------
(***************************************************************************)
(* What the program does across threads and callbacks, part by part: the   *)
(* chains of advices and filters, coroutines, the tests' own runner, the   *)
(* map of single instances, the order of plugins, the sending of masked    *)
(* frames.  They share no state, so a behaviour is one of one part, chosen *)
(* at the start, while the others stay as they begin.                      *)
(***************************************************************************)
EXTENDS WebSocketSend, Coroutines, ClassMap, RequestChain, Plugins, TestRun

CONSTANTS r1, r2, l1, l2, t1, t2

VARIABLE part   \* the one that runs

-----------------------------------------------------------------------------
\* A chain with a plugin, an advice and a filter.
ThreeStages == <<"preRouting", "filters", "preHandling">>
StepsOfStages ==
  [preRouting |-> <<"plugin", "advice">>, filters |-> <<"filter1">>, preHandling |-> <<>>]
TwoFilters == <<"g1", "g2">>
CoroutineFilters == {"filter1", "g2"}
OneAdvice == <<"sync">>

\* The constructor of "a" asks for the instance of "b".
ConstructorUses == [c \in Classes |-> IF c = "a" THEN "b" ELSE Null]

\* Configurations of three entries, with every dependency there may be of two of them:
\* missing plugins, cycles, a plugin listed twice, one that does not exist.
PluginNames == {"p", "q", "r", "s"}
Wants == {<<>>} \cup {<<a>> : a \in PluginNames} \cup {<<a, b>> : a, b \in PluginNames}
Entry(n, wanted) == [name |-> n, dependencies |-> wanted]
PluginConfigs ==
  {<<Entry("p", x), Entry("q", y), Entry("r", z)>> :
     x \in Wants, y \in Wants, z \in {<<>>, <<"p">>, <<"q", "p">>, <<"s">>}}
  \cup {<<Entry("s", x), Entry("q", y), Entry("q", <<>>)>> : x \in Wants, y \in Wants}

-----------------------------------------------------------------------------
Parts == {"chain", "coroutine", "test", "class", "plugin", "send"}

AsyncInit ==
  /\ part \in Parts
  /\ SendInit
  /\ ChainInit
  /\ CoroutineInit
  /\ RunInit
  /\ ClassInit
  /\ PluginInit
  /\ part # "send" => isServer
  /\ part # "coroutine" => mode = "async_run" /\ home = None
  /\ part # "class" => registered = {}
  /\ part # "plugin" => configs = <<Entry("p", <<>>), Entry("q", <<>>), Entry("r", <<>>)>>

OthersStay ==
  /\ UNCHANGED part
  /\ IF part = "send" THEN TRUE ELSE UNCHANGED sendVars
  /\ IF part = "chain" THEN TRUE ELSE UNCHANGED chainVars
  /\ IF part = "coroutine" THEN TRUE ELSE UNCHANGED coroutineVars
  /\ IF part = "test" THEN TRUE ELSE UNCHANGED runVars
  /\ IF part = "class" THEN TRUE ELSE UNCHANGED classVars
  /\ IF part = "plugin" THEN TRUE ELSE UNCHANGED pluginVars

AsyncNext ==
  \/ part = "send" /\ SendNext /\ OthersStay
  \/ part = "chain" /\ ChainNext /\ OthersStay
  \/ part = "coroutine" /\ CoroutineNext /\ OthersStay
  \/ part = "test" /\ RunNext /\ OthersStay
  \/ part = "class" /\ ClassNext /\ OthersStay
  \/ part = "plugin" /\ PluginNext /\ OthersStay

\* A part that does not run is pinned by nothing but OthersStay, so its fairness is asked
\* for only of the part that runs.
AsyncFairness ==
  /\ part = "chain" => ChainFairness
  /\ part = "coroutine" => CoroutineFairness

AsyncSpec ==
  /\ AsyncInit
  /\ [][AsyncNext]_<<part, sendVars, chainVars, coroutineVars, runVars, classVars,
                     pluginVars>>
  /\ AsyncFairness

=============================================================================
