SPECIFICATION Spec
CONSTANTS
  s1 = s1
  s2 = s2
  None = None
  N = 2
  Slots <- TwoSlots
  SockCap = 1
  MaxMessages = 2
  Keeps = FALSE
  Deployments <- All
PROPERTIES JobAnswered JobTaken StopRetiresAll
CHECK_DEADLOCK FALSE
