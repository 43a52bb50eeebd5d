CONSTANT Scenarios <- TwoGrounds
SPECIFICATION IncSpec
INVARIANT ComplementsExcluded
