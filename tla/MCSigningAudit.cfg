CONSTANTS
    Attempts = {a1}
    Defects = {"none", "unbound"}
    Stranger = stranger
    TTL = 2
    SignAttempt = 2
    Skew = 1
    MaxTime = 7
    LastStart = 1
    LastStep = 2
    MaxForeign = 1
    RecordTTL = 2
    AttemptBound = 2
    SkewBound = 1
    Settle = 1
    PageSize = 1
    PageLimit = 2
    Trails <- MCTrails
    Queries <- MCQueries
    ExportRange <- MCExportRange
    ExportTimes = {6}
    PinTimes = {1, 7}
    AuditTimes = {3, 7}
SPECIFICATION Spec
CHECK_DEADLOCK FALSE
INVARIANTS
    TypeOK
    RecordedBeforeSigned
    NoFalseAlarm
    CleanMeansAccounted
    UnwitnessedIsFinal
