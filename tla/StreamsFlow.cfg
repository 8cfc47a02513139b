SPECIFICATION FairSpec
CONSTANTS
  NumSlots = 2
  NumThreads = 2
  ChunkRoom = 2
  Deployments <- Mixed
  MaxRequests = 2
  None = None
INVARIANTS BodyTrue InWindow
PROPERTIES ThreadsReturn StreamsEnd
