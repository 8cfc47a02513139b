SPECIFICATION FairSpec
CONSTANTS
  NumSlots = 2
  Deployments <- Mixed
  MaxRequests = 2
  None = None
INVARIANTS BodyTrue InWindow WindowReturns
PROPERTIES RoomComes StreamsEnd
CHECK_DEADLOCK FALSE
