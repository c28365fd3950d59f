CONSTANTS
    Expires = 6
    Uncertainty = 1
    Awareness = {TRUE, FALSE}
    TicksPerMs = 3
    TicksPerS = 4
    CapMs = 2
    CapS = 1
    Skews <- Stepped
    MaxTime = 8
SPECIFICATION Spec
CHECK_DEADLOCK FALSE
INVARIANTS TypeOK WindowNeverGrows NothingAdmittedAfterExpiry TimeoutsBoundTheWait
