CONSTANTS
    d1 = d1
    d2 = d2
    h1 = h1
    h2 = h2
    k1 = k1
    i1 = i1
    None = None
    Drivers = {d1, d2}
    Holds = {h1}
    Keys = {k1}
    KeyOf <- OneKey
    AutoKeys = {k1}
    IdemKeys = {None}
    Targets = {0}
    MaxRotations = 0
    MaxCalls = 2
    MaxCrashes = 0
SPECIFICATION Spec
SYMMETRY DriverSymmetry
INVARIANT SpendHistoryFolds
