SPECIFICATION Spec
\* A server with nothing to say and no client stands still.
CHECK_DEADLOCK FALSE
CONSTANTS
  a = a
  A = A
  B = B
  NumWorkers = 2
  NumSlots = 1
  Clients = {a}
  Channels = {A, B}
  Follows <- OneChannel
  BusRoom = 2
  Leftovers = {2}
  MaxId = 3
  MaxVisits = 2
  Deployments <- Mixed
  None = None
INVARIANTS InOrder AllOrNothing NeverAhead
