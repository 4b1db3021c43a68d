SPECIFICATION LiveSpec
CONSTANTS
  Keys = {k1}
  Entries = {e1, e2}
  Timeouts = {0, 3}
  MoveTimeouts = {3}
  Levels = 2
  Buckets = 2
  Pow <- MCPow
  LoopConfined = TRUE
  PromptCalls = TRUE
  Task = Task
  None = None
PROPERTIES
  ImplementsPromise
  EventuallyErased
  EventuallyRun
