SPECIFICATION Spec
CHECK_DEADLOCK FALSE
CONSTANTS
  None = None
  MaxInteger = 15
  Matches <- MCMatches
  Statements <- MCStatements
  Databases <- MCDatabases
  Samples <- MCSamples
INVARIANTS
  ParsesBack
  NormalFormsAgree
PROPERTIES
  PlanAnswers
  OptimizersKeepAnswer
