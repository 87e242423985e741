SPECIFICATION HashSpec
CONSTANTS
    k1 = k1
    k2 = k2
    k3 = k3
    k4 = k4
    k5 = k5
    Key = {k1, k2, k3, k4, k5}
    Val = {v1, v2}
    NoVal = NoVal
    Hash <- MCHash
    InitialMax = 1
INVARIANTS VisitsEachOnce
PROPERTIES ImplementsMap
