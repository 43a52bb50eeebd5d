SPECIFICATION Spec
CONSTANTS
  Symbol <- MCSymbol
  MaxAtoms = 5
INVARIANTS MappingExact NothingLost AddedInOrder
CHECK_DEADLOCK FALSE
