CONSTANTS
    None = none
    Configs <- ContainerOnly
    Kinds = {"action"}
    MaxRuns = 1
SPECIFICATION Spec
CHECK_DEADLOCK FALSE
INVARIANT
    RefusedMeansNothingRan
