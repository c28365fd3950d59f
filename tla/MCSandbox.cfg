CONSTANTS
    None = none
    Configs <- MCConfigs
    Kinds = {"code", "sql", "action"}
    MaxRuns = 2
SPECIFICATION Spec
CHECK_DEADLOCK FALSE
INVARIANTS
    TypeOK
    VerdictsAreEarned
    OwnEndIsJudged
    IsolationHonoured
PROPERTY
    SingleUse
