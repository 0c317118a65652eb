CONSTANTS
  Files <- Archives
  MagicLen = 2
  HeaderLen = 3
  MinHeader = 5
  MinDecodeInput = 6
  Window = 4
  CompactThreshold = 4
  MaxChunk = 7
SPECIFICATION Spec
 
INVARIANT InputIsConsumed
INVARIANT PlainRecordsAreNotDelayed
PROPERTY ChunkingIsInvisible
