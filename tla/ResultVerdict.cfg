SPECIFICATION Spec
CONSTANTS
    Specs <- MCSpecs
    Currents <- MCCurrents
    Biases = {0, 1}
    Potentials <- MCPotentials
    Densities <- MCDensities
    MaxPoints = 2
    NaN = NaN
INVARIANTS
    CompletedIsSound
    VerdictsAgree
    FailuresAreFounded
CHECK_DEADLOCK FALSE
