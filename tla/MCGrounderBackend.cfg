CONSTANTS
  Statements <- MCStatements
  Programs <- BackendPrograms
  KeepingFacts = {}
  Generations <- MCGenerations
SPECIFICATION Spec
INVARIANT Equivalent
CHECK_DEADLOCK FALSE
