SPECIFICATION LiveSpec
CONSTANTS
  Objects = {r1, r2, r3, r4, r5}
  None = None
  MethodMax = 2
  LineMax = 6
  SizeMax = 3
  MaxBody = 2
  KeepaliveMax = 3
  Scripts <- MCScripts
INVARIANTS
  FramingExact
  NothingHeldBack
  ResponsesInOrder
  PoolUnreachable
PROPERTIES
  AllAnswered
