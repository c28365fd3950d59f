CONSTANTS
    r1 = r1
    r2 = r2
    h1 = h1
    h2 = h2
    p1 = p1
    p2 = p2
    Runners = {r1, r2}
    Approvals = {p1}
    Assertions = {TRUE}
    Aging = {}
    None = None
    HostOf <- TwoHosts
    MaxInode = 1
    MaxFaults = 1
SPECIFICATION Spec
INVARIANTS
    OutcomesTruthful
SYMMETRY Swap
