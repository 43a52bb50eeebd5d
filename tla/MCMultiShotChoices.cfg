CONSTANT Scenarios <- OnlyAsked
SPECIFICATION IncSpec
INVARIANT ChoiceFound
