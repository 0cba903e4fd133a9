SPECIFICATION HSpec
CONSTANTS
  c1 = c1
  c2 = c2
  k1 = k1
  k2 = k2
  k3 = k3
  p1 = p1
  p2 = p2
  NoConn = NoConn
  Clients = {c1}
  Conns = {k1, k2}
  Ports = {p1}
  OwnerOf <- OneOwner
  PortsOf <- OnePort
  PathRouted = FALSE
  ChanCap = 1
  MaxMissed = 3
  MaxVisitors = 2
  Overlap = FALSE
  KickTimesOut = TRUE
  BindReplyFails = FALSE
PROPERTIES
  VanishedClientFreesPorts
CHECK_DEADLOCK FALSE
