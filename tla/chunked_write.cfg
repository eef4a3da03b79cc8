CONSTANTS
  N = 4
  ChunkSize = 2
  CacheDuration = 2
  MaxLen = 3
  Issued <- LongEvents
  MaxTime = 3
SPECIFICATION Spec
INVARIANT WriteInRange
