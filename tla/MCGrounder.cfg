CONSTANTS
  Statements <- MCStatements
  Programs <- MCPrograms
  KeepingFacts <- MCKeepingFacts
  Generations <- MCGenerations
SPECIFICATION Spec
INVARIANTS NoInstanceTwice Complete ClosedWorld Equivalent
PROPERTIES RefinesDomain Terminates
CHECK_DEADLOCK FALSE
