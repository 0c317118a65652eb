CONSTANTS
  p1 = p1
  p2 = p2
  Peers <- TwoPeers
  Table <- RelayTable
  Times <- RelayTimes
  Messages <- Repeats
  Backstep = 4
  MaxOpen = 2
  SweepEvery = 2
  MaxEvents = 4
SPECIFICATION HSpec
INVARIANT OldestRequestIsPaired
