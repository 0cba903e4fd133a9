SPECIFICATION HSpec
CONSTANTS
  c1 = c1
  c2 = c2
  k1 = k1
  k2 = k2
  k3 = k3
  p1 = p1
  p2 = p2
  NoConn = NoConn
  Clients = {c1, c2}
  Conns = {k1, k2, k3}
  Ports = {p1, p2}
  OwnerOf <- TwoOwners
  PortsOf <- PathPorts
  PathRouted = TRUE
  ChanCap = 1
  MaxMissed = 1
  MaxVisitors = 2
  Overlap = TRUE
  KickTimesOut = TRUE
  BindReplyFails = TRUE
INVARIANTS
  DoneMeansReleased
  OrderlySessionsListed
  OrderlyPortsFree
PROPERTIES
  OnlyFullChannelsKeepPorts
  EveryTakeoverSucceeds
CHECK_DEADLOCK FALSE
