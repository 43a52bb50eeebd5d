CONSTANT Scenarios <- AllScenarios
SPECIFICATION IncSpec
INVARIANTS ComplementsOfSteps ShownOnce LiteralsFollow ExternalsOpen StepsPaired QueryOfStep StopsInTime
PROPERTY DefinedKept
