CONSTANTS
  Procs = {p, q}
  Addr = {0, 1, 2, 3}
  Parts = {"b"}
  Value = {0, 1}
  Events <- SharedEvents
  Restless <- Changing
  Raws <- ChunkReads
  Width = 8
  ChunkSize = 2
  None = None
SPECIFICATION Spec
INVARIANTS TypeOK KeepsWritten CacheFollowsWrites WLockHeld
