CONSTANTS
  Thread <- MCThread
  NoThread = "none"
  HasPrinter = TRUE
  MaxPropagators = 2
SPECIFICATION Spec
INVARIANTS Exclusion HeldInside
PROPERTY Progress
