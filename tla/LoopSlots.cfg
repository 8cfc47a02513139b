SPECIFICATION Spec
CONSTANTS
  c1 = c1
  c2 = c2
  None = None
  Conns <- Both
  Slots <- OneSlot
  Scripts <- SomeScripts
  ReadSize = 2
  Parts = 2
INVARIANTS AnswersItsOwn CanEnd NothingMissed
PROPERTY LastAnswerLast

