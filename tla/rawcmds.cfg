CONSTANTS
  N = 4
  ChunkSize = 2
  CacheDuration = 2
  MaxLen = 3
  Issued <- LongEvents
  MaxTime = 3
SPECIFICATION Spec
INVARIANTS TypeOK CacheHonest FreshResult WholeResult
PROPERTY ReadBack
