SPECIFICATION FairSpec
CONSTANTS
  Threads = {t1, t2}
  Requests = {1, 3, 4}
  MaxArenas = 2
  DefaultSlices = 1
  MaxArenaSlices = 3
  ChunkSlices = 2
  MetaBlocks = 6
  HeaderBlocks = 1
  NRegions = 3
  NChunks = 2
  MaxRequests = 3
  None = None
INVARIANTS
  PoolIsSound
  SlicesAreExact
  UndisturbedRequestSucceeds
PROPERTY RequestsEnd
CHECK_DEADLOCK FALSE
