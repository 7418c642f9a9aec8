CONSTANTS
  Slots <- MCSlots
  Kind <- MCKind
  Deps <- MCDeps
  NullOk <- MCNullOk
  Rank <- MCRank
  Results <- MCResults
  Roots = {}
  Clock = "now"
  Complete = "complete"
  Wishes <- MCWishes
  UnknownName = "Oops"
  Blockers = {"block"}
  Whitelisters = {"white"}
  Registrars = {"label", "bump"}
  Cause <- MCCause
SPECIFICATION RunSpec
INVARIANTS
  VerdictMatchesRules
  SuccessMeansMutated
  MutationsComeLast
PROPERTIES
  ImplementsOutcome
  EveryRequestEnds
CHECK_DEADLOCK FALSE
