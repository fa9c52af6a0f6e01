SPECIFICATION StartSpec
CONSTANT Environments <- TwoVariables
INVARIANT DisabledStaysOff
