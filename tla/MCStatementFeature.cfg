CONSTANTS
  Slots <- MCSlots
  Kind <- MCKind
  Deps <- MCDeps
  NullOk = {}
  Rank <- MCRank
  Results <- MCResults
  Roots = {"SqrlExecutionComplete"}
SPECIFICATION Spec
INVARIANT FeatureAfterItsStatements
CHECK_DEADLOCK FALSE
