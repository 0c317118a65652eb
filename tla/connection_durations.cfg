CONSTANTS
  p1 = p1
  p2 = p2
  onion = onion
  clearnet = clearnet
  x = x
  y = y
  z = z
  t = t
  w = w
  b = b
  AS1 = AS1
  NoHash = NoHash
  NoAddr = NoAddr
  NoType = NoType
  NoNetwork = NoNetwork
  NoAgent = NoAgent
  NoPeer = NoPeer
  NoIp = NoIp
  NoAsn = NoAsn
  Ip <- TwoAddrs
  Asn <- OneSystem
  Buckets = 4
  MaxItems = 2
  MaxOffset = 6
  ConnTypes = 2
  LifecycleCap = 2
  MaxAgents = 2
  Second = 2
  Archives <- FourArchives
  MaxEvents = 4
SPECIFICATION Spec
CHECK_DEADLOCK FALSE
INVARIANT NoWrongLifetimes
