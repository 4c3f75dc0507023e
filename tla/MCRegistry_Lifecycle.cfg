SPECIFICATION Spec
CONSTANTS
    c1 = c1
    c2 = c2
    c3 = c3
    c4 = c4
    k1 = k1
    k2 = k2
    s1 = s1
    v1 = v1
    v2 = v2
    Null = Null
    Calls = {c1, c2, c3, c4}
    Keys = {k1, k2}
    Strategies = {s1}
    Values = {v1, v2}
    MaxQuick = 2
    MaxFaults = 1
SYMMETRY Symmetry
INVARIANTS TypeOK RevokedAgentHasNoKeys PolicyIsAsAsked ActivationNeedsStrategy
PROPERTY RevocationHoldsUntilPause
CHECK_DEADLOCK FALSE
