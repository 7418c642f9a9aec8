SPECIFICATION Spec

CONSTANTS
  MaxStatements = 3
  Programs <- MCPrograms
  Files <- MCFiles
  Directory <- MCDirectory
  Givens <- MCGivens
  Defaults <- MCDefaults
  StatementFeature <- MCStatementFeature
  Inputs <- MCInputs

INVARIANTS
  CompiledAsWritten
  EffectsAsWritten
  LoadsAreComplete

\* A compilation ends.
CHECK_DEADLOCK FALSE
