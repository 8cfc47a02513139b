SPECIFICATION Spec
CONSTANTS
  NumSlots = 2
  Deployments <- Full
  MaxRequests = 3
  None = None
INVARIANTS BodyTrue
CHECK_DEADLOCK FALSE
