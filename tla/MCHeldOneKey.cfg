CONSTANTS
    d1 = d1
    d2 = d2
    h1 = h1
    h2 = h2
    k1 = k1
    i1 = i1
    None = None
    Drivers = {d1, d2}
    Holds = {h1, h2}
    Keys = {k1}
    KeyOf <- OneKey
    AutoKeys = {k1}
    IdemKeys = {None, i1}
    Targets = {0, 1}
    MaxRotations = 0
    MaxCalls = 3
    MaxCrashes = 1
SPECIFICATION Spec
SYMMETRY HeldSymmetry
INVARIANTS
    TypeOK
    RunsAtMostOnce
    SpendStateTruthful
    RunsOnRecordedApproval
    ClaimMeansOutcome

