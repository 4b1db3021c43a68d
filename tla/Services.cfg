SPECIFICATION ServicesSpec
CONSTANTS
  c1 = c1
  c2 = c2
  c3 = c3
  c4 = c4
  c5 = c5
  c6 = c6
  ip1 = ip1
  ip2 = ip2
  Conns = {c1, c2, c3, c4, c5}
  Ips = {ip1, ip2}
  IpOf <- TwoAddresses
  MaxConn = 3
  MaxPerIp = 2
  CountBound = 3
  None = None
  t1 = t1
  t2 = t2
  Handlers = {t1, t2}
  Keys = {"k"}
  Types = {"int", "string"}
  MaxOps = 3
  Threads = {t1, t2}
  Requests <- LimitedRequests
  Strategies <- TwoStrategies
  TimeUnit = 2
  ConfiguredExpire = 1
  MaxTime = 6
  MaxGrants = 3
  Clients = {"c"}
  Timeout = 3
  Grace = 2
  MaxPipelined = 2
  MaxIds = 3
  MaxSessions = 2
  MaxTicks = 3
  MaxMemory = 1
  MaxBody = 3
  MaxUses = 3
  Registrations <- PossibleRegistrations
  MaxRegistered = 3
  Classes = {"C1", "W1", "W2"}
  FilterClasses = {"f"}
  Methods <- HttpMethods
  LowerSegment <- LowerOf
  Convert <- ConvertOf
  Fails = "fails"
  RoutedRequests <- ArrivingRequests
  Null = Null
INVARIANTS
  AdmissionBounded
  WithinCapacity
  RoutingExact
  IdsAccounted
  NoLostModify
  BodyExact
PROPERTIES
  ClientKeepsSession
CHECK_DEADLOCK FALSE
