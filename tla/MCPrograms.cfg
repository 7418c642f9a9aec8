SPECIFICATION MCSpec
CONSTANTS
  Programs = {"stream", "watch", "repl", "page"}
  NumLines = 5
  Valid <- ValidDef
  Blocked <- BlockedDef
  Concurrency = 2
  OnlyBlocked = FALSE
  MaxTableRows = 2
  NoMax = NoMax
  NumEdits = 4
  Broken = {2}
  Incomplete = {1}
  Inputs <- InputsDef
  Texts <- TextsDef
  good = good
  bad = bad
  lacking = lacking
  Sample = good
  BrokenTexts = {bad}
  LackingTexts = {lacking}
  NoText = NoText
  FirstWindow = 1
  LastWindow = 2
  EventsIn <- EventsInDef
  NumTyped = 4
  NumMoves = 2
INVARIANTS
  ConcurrencyRespected
  PrintedOnce
  NewestSourceRuns
  AssertedInPlace
  AcceptedOrGone
  StatusIsOfTheText
  EventsInOrder
PROPERTIES
  ProgramsFinish
CHECK_DEADLOCK FALSE
