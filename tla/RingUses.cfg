SPECIFICATION Spec
CONSTANTS
  loop = loop
  t1 = t1
  t2 = t2
  s1 = s1
  s2 = s2
  None = None
  Uses <- PoolUses
  Slots <- TwoSlots
  Capacity = 2
  MaxPushes = 7
SYMMETRY Symmetry
INVARIANTS NoRace NeverRefused
PROPERTIES Implements EmptyExact
