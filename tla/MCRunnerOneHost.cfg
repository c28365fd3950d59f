CONSTANTS
    r1 = r1
    r2 = r2
    h1 = h1
    h2 = h2
    p1 = p1
    p2 = p2
    Runners = {r1, r2}
    Approvals = {p1, p2}
    Assertions = {FALSE}
    Aging = {p1, p2}
    None = None
    HostOf <- OneHost
    MaxInode = 0
    MaxFaults = 2
SPECIFICATION Spec
SYMMETRY HostSymmetry
INVARIANTS
    TypeOK
    AppliedAtMostOnce
    OutcomesTruthful
    NotCommittedIsFinal
    NothingAmbiguousBehindASpend
    OneMigrationPerLock
    ContactIsAccounted
    ExpiryIsRespected
