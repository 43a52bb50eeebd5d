CONSTANTS
  Statements <- MCStatements
  MaxStatements = 4
  MaxSteps = 3
SPECIFICATION Spec
INVARIANTS ProgramExpressed ComponentsExact
CHECK_DEADLOCK FALSE
