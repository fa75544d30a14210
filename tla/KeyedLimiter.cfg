SPECIFICATION FairSpec
CONSTANTS
  Caller = {p1, p2, p3}
  Key = {k1, k2}
  SlotId = {s1, s2, s3}
  Limit = 0
  NoSlot = NoSlot
  NoKey = NoKey
INVARIANTS
  CapHolds
  IInv
PROPERTIES
  CallersReturn
  ImplementsSemaphore
