CONSTANTS
  Files <- MCFiles
  Lists <- MCLists
  MaxLoads = 2
  MaxPanics = 0
  MaxVisits = 2
SPECIFICATION Spec
INVARIANT NetworksPageSaysSo
CHECK_DEADLOCK FALSE
