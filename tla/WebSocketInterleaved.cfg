SPECIFICATION Spec
CONSTANTS
  Frames <- Interleaved
  MaxMessage = 2
  Timers = {1, 2, 3}
  MaxPosted = 2
  None = None
INVARIANTS
  MessagesExact
