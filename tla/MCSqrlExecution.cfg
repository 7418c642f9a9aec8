CONSTANTS
  Slots <- MCSlots
  Kind <- MCKind
  Deps <- MCDeps
  NullOk <- MCNullOk
  Rank <- MCRank
  Results <- MCResults
  Roots <- MCRoots
SPECIFICATION Spec
INVARIANTS
  SlotsConsistent
  FetchedOnce
  AgreesWithMeaning
PROPERTIES
  FirstAnswerStands
  ImplementsDataflow
  EveryFetchSettles
CHECK_DEADLOCK FALSE
