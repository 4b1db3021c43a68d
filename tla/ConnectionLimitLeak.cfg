SPECIFICATION Spec
CONSTANTS
  c1 = c1
  c2 = c2
  c3 = c3
  c4 = c4
  c5 = c5
  c6 = c6
  ip1 = ip1
  ip2 = ip2
  Conns = {c1, c2, c3}
  Ips = {ip1}
  IpOf <- OneAddress
  MaxConn = 3
  MaxPerIp = 0
  CountBound = 8
SYMMETRY SameAddress
PROPERTIES
  RoomMeansAdmission
