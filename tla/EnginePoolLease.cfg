SPECIFICATION Spec
CONSTANTS
  d1 = d1
  d2 = d2
  e1 = e1
  e2 = e2
  c1 = c1
  c2 = c2
  n1 = n1
  n2 = n2
  None = None
  Kind <- MCKind
  Parent <- MCParent
  Tasks = {d1, d2, e1}
  NSlots = 1
  MaxCalls = 2
  QueueCapacity = 2
  Unsendable <- UnsendableMix
  Abortable = {d1, e1}
  MayCrash <- Slot0
INVARIANTS
  SlotsInv
  LeaseExclusive
  NoLostWork
  WorkConserving
  OwnerCallsInOrder
  ReleaseAfterDrain
PROPERTY RootCallsInOrder
