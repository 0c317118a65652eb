CONSTANTS
  Events <- MCEvents
  Columns <- MCColumns
  BytesPerEvent = 2
  ChunkBytes = 3
  ColumnGrowth = 2
  Budget = 14
  MaxEvents = 5
  Filters <- MCFilters
  Limit = 2
SPECIFICATION Spec
INVARIANT CacheIsNotStale
