SPECIFICATION MCSpec
CONSTANTS
  f1 = f1
  f2 = f2
  f3 = f3
  e1 = e1
  e2 = e2
  b1 = b1
  b2 = b2
  c1 = c1
  c2 = c2
  c3 = c3
  Asks <- PeriodAsks
  MaxLag = 0
  Horizon = 12
  Arguments <- ArgumentsDef
  Bumps <- BumpsDef
  Amount <- AmountDef
  Element <- ElementDef
  Short = 4
  NumBuckets = 2
  Second = 1
  TotalTtl = 6
  Adds <- AddsDef
  Removes <- RemovesDef
  LabelExpiry = 2
  Fetches <- FetchesDef
  Entities <- EntitiesDef
  Wants <- WantsDef
  Unreliable <- UnreliableDef
  Skew <- SkewDef
  MaxDelay = 1
  Ttl = 3
  RemainderSize = 3
INVARIANTS
  MaxPerPeriod
CHECK_DEADLOCK FALSE
