------------------------------- MODULE Plugins -------------------------------
(***************************************************************************)
(* PluginsManager and PluginBase: the plugins that the configuration names *)
(* are created, told of their dependencies and initialised, dependencies   *)
(* first, by a recursive initialize(); the destructor shuts them down in   *)
(* the reverse order.  The recursion is a stack of calls.                  *)
(***************************************************************************)
EXTENDS Integers, Sequences, FiniteSets, SequencesExt

CONSTANTS
  Names,           \* of the classes that the configuration names
  Defined,         \* those of them that are plugins of the program
  Configs          \* the configurations: sequences of [name, dependencies]

\* A configuration names its plugins and, for each, those that it depends on.
IsConfig(c) ==
  /\ c \in Seq(Range(c))
  /\ \A i \in DOMAIN c : c[i].name \in Names /\ c[i].dependencies \in Seq(Names)

ASSUME PluginAssumption == Defined \subseteq Names /\ \A c \in Configs : IsConfig(c)

VARIABLES
  configs,         \* the configuration
  plugins,         \* pluginsMap_: the names of the plugins that exist
  dependencies,    \* dependencies_ of each plugin
  status,          \* status_ of each plugin
  calls,           \* initialize() under way: the plugin and the dependencies it has done
  initialized,     \* initializedPlugins_
  place,           \* of the loop of initializeAllPlugins in the configuration
  manager,         \* what the manager does
  shut             \* the plugins shut down, in order

pluginVars ==
  <<configs, plugins, dependencies, status, calls, initialized, place, manager, shut>>

Listed == {configs[i].name : i \in DOMAIN configs}

PluginInit ==
  /\ configs \in Configs
  /\ plugins = {}
  /\ dependencies = [n \in Names |-> << >>]
  /\ status = [n \in Names |-> "None"]
  /\ calls = << >> /\ initialized = << >> /\ shut = << >>
  /\ place = 1
  /\ manager = "creating"

\* createPlugin for every name: one that is not defined is logged and left out.
CreateAll ==
  /\ manager = "creating"
  /\ plugins' = Listed \cap Defined
  /\ manager' = "configuring"
  /\ UNCHANGED <<configs, dependencies, status, calls, initialized, place, shut>>

\* The second loop: setConfig and the dependencies, in the order of the configuration; one
\* that does not exist aborts.
Configure ==
  /\ manager = "configuring"
  /\ \/ /\ place > Len(configs)
        /\ place' = 1
        /\ manager' = "initializing"
        /\ UNCHANGED dependencies
     \/ /\ place <= Len(configs)
        /\ LET n == configs[place].name
               wanted == configs[place].dependencies
           IN  \/ /\ n \notin plugins
                  /\ place' = place + 1
                  /\ UNCHANGED <<dependencies, manager>>
               \/ /\ n \in plugins /\ Range(wanted) \subseteq plugins
                  /\ dependencies' = [dependencies EXCEPT ![n] = @ \o wanted]
                  /\ place' = place + 1
                  /\ UNCHANGED manager
               \/ /\ n \in plugins /\ ~(Range(wanted) \subseteq plugins)
                  /\ manager' = "aborted"
                  /\ UNCHANGED <<dependencies, place>>
  /\ UNCHANGED <<configs, plugins, status, calls, initialized, shut>>

\* Mutant: a plugin that is being initialised counts as initialised.
InitializeAnyway(n, under) ==
  /\ UNCHANGED manager
  /\ \/ /\ status[n] = "None"
        /\ status' = [status EXCEPT ![n] = "Initializing"]
        /\ calls' = Append(under, [plugin |-> n, done |-> 0])
     \/ /\ status[n] # "None"
        /\ calls' = under /\ UNCHANGED status
\* initialize() from its first line: an initialised plugin is left alone, one that is
\* being initialised depends on itself.
Initialize(n, under) ==
  \/ /\ status[n] = "None"
     /\ status' = [status EXCEPT ![n] = "Initializing"]
     /\ calls' = Append(under, [plugin |-> n, done |-> 0])
     /\ UNCHANGED manager
  \/ /\ status[n] = "Initialized"
     /\ calls' = under
     /\ UNCHANGED <<status, manager>>
  \/ /\ status[n] = "Initializing"
     /\ manager' = "aborted"
     /\ UNCHANGED <<status, calls>>

\* The last loop calls initialize() of each plugin of the configuration ...
InitializeNext ==
  /\ manager = "initializing" /\ calls = << >>
  /\ \/ /\ place > Len(configs)
        /\ manager' = "running"
        /\ UNCHANGED <<status, calls, place>>
     \/ /\ place <= Len(configs)
        /\ place' = place + 1
        /\ \/ configs[place].name \in plugins /\ Initialize(configs[place].name, calls)
           \/ configs[place].name \notin plugins /\ UNCHANGED <<status, calls, manager>>
  /\ UNCHANGED <<configs, plugins, dependencies, initialized, shut>>

\* ... and initialize() that of each dependency first.
Current == Last(calls)
OneDone(stack) == [stack EXCEPT ![Len(stack)].done = @ + 1]
NextDependency ==
  /\ manager = "initializing" /\ calls # << >>
  /\ Current.done < Len(dependencies[Current.plugin])
  /\ Initialize(dependencies[Current.plugin][Current.done + 1], OneDone(calls))
  /\ UNCHANGED <<configs, plugins, dependencies, initialized, place, shut>>

\* initAndStart, then the callback that notes it ...
Start ==
  /\ manager = "initializing" /\ calls # << >>
  /\ Current.done = Len(dependencies[Current.plugin])
  /\ status' = [status EXCEPT ![Current.plugin] = "Initialized"]
  /\ initialized' = Append(initialized, Current.plugin)
  /\ calls' = Front(calls)
  /\ UNCHANGED <<configs, plugins, dependencies, place, manager, shut>>
\* ... unless it throws, through all the calls under way.
StartThrows ==
  /\ manager = "initializing" /\ calls # << >>
  /\ Current.done = Len(dependencies[Current.plugin])
  /\ calls' = << >>
  /\ manager' = "failed"
  /\ UNCHANGED <<configs, plugins, dependencies, status, initialized, place, shut>>

\* ~PluginsManager, from the last initialised plugin to the first
ShutDown ==
  /\ manager \in {"running", "failed"}
  /\ Len(shut) < Len(initialized)
  /\ shut' = Append(shut, initialized[Len(initialized) - Len(shut)])
  /\ UNCHANGED <<configs, plugins, dependencies, status, calls, initialized, place, manager>>

PluginNext ==
  \/ CreateAll \/ Configure \/ InitializeNext \/ NextDependency
  \/ Start \/ StartThrows \/ ShutDown
PluginSpec == PluginInit /\ [][PluginNext]_pluginVars

-----------------------------------------------------------------------------
Needs(n) == UNION {Range(configs[i].dependencies) : i \in {j \in DOMAIN configs : configs[j].name = n}}
Missing == \E n \in Listed \cap Defined : ~(Needs(n) \subseteq Listed \cap Defined)
Cyclic == \E S \in (SUBSET Defined) \ {{}} : \A n \in S : Needs(n) \cap S # {}
Before(n, m, s) == \E i, j \in DOMAIN s : i < j /\ s[i] = n /\ s[j] = m

\* A plugin starts once, after all it needs, and is shut down before any of those; the
\* program comes up with all plugins of the configuration, or stops at once if, and only
\* if, one is missing or needs itself.
PluginsInOrder ==
  /\ IsInjective(initialized) /\ IsInjective(shut)
  /\ \A m \in Range(initialized) : \A n \in Needs(m) : Before(n, m, initialized)
  /\ \A m \in Range(initialized) : \A n \in Needs(m) :
       n \in Range(shut) => Before(m, n, shut)
  /\ manager = "running" =>
       Range(initialized) = Listed \cap Defined /\ ~Missing /\ ~Cyclic
  /\ manager = "aborted" => Missing \/ Cyclic
=============================================================================
