SPECIFICATION Spec
CONSTANTS
  Keys = {k1}
  Entries = {e1, e2}
  Timeouts = {0, 1}
  MoveTimeouts = {0}
  Levels = 1
  Buckets = 2
  Pow <- MCPow
  LoopConfined = TRUE
  PromptCalls = TRUE
  Task = Task
  None = None
INVARIANTS
  NoSelfDeadlock
