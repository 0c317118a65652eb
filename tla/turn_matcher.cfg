CONSTANTS
  p1 = p1
  p2 = p2
  a = a
  b = b
  NoHash = NoHash
  NoPeer = NoPeer
  Peers <- TwoPeers
  Table <- RelayTable
  Rows <- AFewRows
  LocalOpen = 2
  MaxTurns = 4
SPECIFICATION Spec
CHECK_DEADLOCK FALSE
INVARIANT TypeOK
INVARIANT RequestsAreNotOverfilled
INVARIANT NothingBetterIsOverlooked
INVARIANT PeersAreIndependent
