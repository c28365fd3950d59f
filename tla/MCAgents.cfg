CONSTANTS
    None = none
    d1 = d1
    d2 = d2
    Drivers = {d1, d2}
    Profiles <- MCProfiles
    Sites <- MCSites
    Packets <- MCPackets
    Steps = {1, 2, 3}
    Graphs <- MCGraphs
    Graders <- MCGraders
    HeldOut = 2
    Train = 2
    Judges = {"none", "model", "threshold", "ensemble", "sampling"}
    MaxSamples = 2
    Deployments <- MCDeployments
    MaxRotations = 1
SPECIFICATION Spec
SYMMETRY DriverSymmetry
CHECK_DEADLOCK FALSE
INVARIANTS
    TypeOK
    ActedOnCovered
    NothingOnUngraded
PROPERTIES
    PromotionIsEarned
    SwarmSingleUse
