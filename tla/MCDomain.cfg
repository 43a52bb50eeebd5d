CONSTANTS
  a = a
  b = b
  c = c
  Sym <- MCSym
  Index <- MCIndex
  Match <- MCMatch
  Generations = {0, 1}
SPECIFICATION Spec
INVARIANTS IndexExact IndexComplete ImportedOnce Sorted DelayedExact LookupsAgree DequeuedInTime
PROPERTY NewExactlyOnce
SYMMETRY MCSymmetry
