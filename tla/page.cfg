CONSTANTS
  Files <- MCFiles
  Lists <- MCLists
  MaxLoads = 2
  MaxPanics = 1
  MaxVisits = 2
SPECIFICATION FairSpec
INVARIANT ArchiveShownIsWhole
 
INVARIANT OneVisitFetches
 
 
PROPERTY LoadingSettles
CHECK_DEADLOCK FALSE
