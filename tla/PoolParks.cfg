SPECIFICATION Spec
CONSTANTS
  s1 = s1
  s2 = s2
  None = None
  N = 2
  Slots <- TwoSlots
  SockCap = 1
  MaxMessages = 1
  Keeps = TRUE
  Deployments <- Busy
INVARIANTS SomeoneAwake LoopHears WakesExact OneOwner
SYMMETRY SlotSymmetry
