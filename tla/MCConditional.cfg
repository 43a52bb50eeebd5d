CONSTANTS
  Atoms = {"p", "q", "r"}
  Elements = {"e", "f"}
  Conditions <- MCConditions
  Heads <- MCHeads
  Stable = {"p"}
  HeadSets <- MCHeadSets
  MaxReports <- MCMaxReports
SPECIFICATION Spec
INVARIANTS CountersExact DefinedWhenPossible VerdictsSound TranslationExact
CHECK_DEADLOCK FALSE
