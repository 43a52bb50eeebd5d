SPECIFICATION Spec
CONSTANTS
  Atoms = {"p", "q"}
  Tuple <- MCTuple
  Weight <- MCWeight
  Inf <- MCInf
  Sup = 9
  MaxInt = 5
  Programs <- MCTwoBounds
  Clauses <- MCClauses
  MaxReports = 3
INVARIANT PlainBoundsExact
CHECK_DEADLOCK FALSE
