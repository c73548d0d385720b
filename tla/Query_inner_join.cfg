SPECIFICATION Spec
CHECK_DEADLOCK FALSE
CONSTANTS
  None = None
  MaxInteger = 15
  Matches <- MCMatches
  Statements <- MCInnerJoins
  Databases <- MCDatabases
  Samples <- MCSamples
INVARIANT InnerJoinsComplete
