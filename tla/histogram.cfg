CONSTANTS
  Times <- MCTimes
  MaxKind = 3
  MaxBins = 5
  MinBin = 2
  MaxSeries = 1
  Widths = {1, 2, 3, 5}
  Halvings = 6
  MaxEvents = 4
SPECIFICATION Spec
 
INVARIANT FirstBinIsHonest
 
 
CHECK_DEADLOCK FALSE
