SPECIFICATION Spec
CONSTANTS
  Atoms = {"p", "q"}
  Tuple <- MCTuple
  Weight <- MCWeight
  Inf <- MCInf
  Sup = 9
  MaxInt = 5
  Programs <- MCPrograms
  Clauses <- MCClauses
  MaxReports = 3
INVARIANTS RangeSound DefinedWhenPossible VerdictsSound ValuesExact AssignmentsCover TranslationExact
CHECK_DEADLOCK FALSE
