SPECIFICATION SemSpec
CONSTANTS
  r1 = r1
  r2 = r2
  r3 = r3
  r4 = r4
  NoMax = NoMax
  Limits <- LimitsDef
  Requests <- Four
  Impatient <- Four

INVARIANTS
  NoIdlePermit
  HoldersAreCounted
PROPERTIES
  GrowsWithinMax
  ServedInOrder
  EveryRequestServed
  ZeroIsAnnounced
