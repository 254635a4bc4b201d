SPECIFICATION Spec
CONSTANTS
  d1 = d1
  d2 = d2
  e1 = e1
  e2 = e2
  c1 = c1
  c2 = c2
  n1 = n1
  n2 = n2
  None = None
  Kind <- MCKind
  Parent <- MCParent
  Tasks = {d1, e1, e2, c1}
  NSlots = 2
  MaxCalls = 1
  QueueCapacity = 1
  Unsendable <- UnsendableMix
  Abortable = {}
  MayCrash <- BothSlots
INVARIANTS
  OnlyRunningOwnsWork
  CloseBarrier
PROPERTIES
  FailureIsolated
  CloseIsGraceful
