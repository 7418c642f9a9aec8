SPECIFICATION Spec

CONSTANTS
  MaxStatements = 2
  Programs <- MCPrograms
  Files <- MCFiles
  Directory <- MCDirectory
  Givens <- MCGivens
  Defaults <- MCDefaults
  StatementFeature <- MCStatementFeature
  Inputs <- MCInputs

INVARIANTS
  FiredRulesTakeEffect

\* A compilation ends.
CHECK_DEADLOCK FALSE
