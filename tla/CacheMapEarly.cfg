SPECIFICATION Spec
CONSTANTS
  Keys = {k1}
  Entries = {e1, e2}
  Timeouts = {2, 3}
  MoveTimeouts = {}
  Levels = 2
  Buckets = 2
  Pow <- MCPow
  LoopConfined = FALSE
  PromptCalls = TRUE
  Task = Task
  None = None
PROPERTIES
  NeverEarly
