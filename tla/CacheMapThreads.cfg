SPECIFICATION Spec
CONSTANTS
  Keys = {k1, k2}
  Entries = {e1, e2}
  Timeouts = {0, 2}
  MoveTimeouts = {2}
  Levels = 1
  Buckets = 3
  Pow <- MCPow
  LoopConfined = FALSE
  PromptCalls = TRUE
  Task = Task
  None = None
SYMMETRY Symmetry
INVARIANTS
  KeysExpire
  NoLostEntry
  NoSelfDeadlock
PROPERTIES
  ImplementsPromise
