CONSTANTS
    a1 = a1
    a2 = a2
    v1 = v1
    Appenders = {a1, a2}
    Verifiers = {v1}
    Targets = {"file", "object_lock", "log"}
    MaxAppends = 3
    MaxTries = 2
    MaxFaults = 1
    MaxDamage = 2
SPECIFICATION Spec
SYMMETRY ChainSymmetry
INVARIANTS TypeOK HonestVerifies AppendsExactlyOnce
PROPERTY ValidMeansNothingLost
