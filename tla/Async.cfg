SPECIFICATION AsyncSpec
CONSTANTS
  None = None
  Null = Null
  NoMask = NoMask
  r1 = r1
  r2 = r2
  l1 = l1
  l2 = l2
  t1 = t1
  t2 = t2
  Others = {t1, t2}
  MaxCases = 4
  MaxAssertions = 2
  NoCase = NoCase
  Loops = {l1, l2}
  MaxFrames = 4
  MaxAwaits = 4
  Callers = {t1, t2}
  Classes = {"a", "b"}
  Uses <- ConstructorUses
  MaxGets = 4
  Senders = {t1, t2}
  Lengths = {125, 126, 65535, 65536}
  CacheSize = 2
  MaxSent = 2
  Reqs = {r1, r2}
  Stages <- ThreeStages
  Steps <- StepsOfStages
  GlobalFilterIds <- TwoFilters
  CoroFilters <- CoroutineFilters
  Plugin = "plugin"
  SyncAdvices <- OneAdvice
  Exempt = {r2}
  Nobody = Nobody
  Names <- PluginNames
  Defined = {"p", "q", "r"}
  Configs <- PluginConfigs
INVARIANTS
  ChainExact
  OutcomeExact
  InAskedLoop
  RunWaits
  OneInstance
  PluginsInOrder
  FramesSound
PROPERTIES
  Ended
  EventuallyOver
CHECK_DEADLOCK FALSE
