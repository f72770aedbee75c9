CONSTANTS
    Participants = {a, b}
    Terms = {t1, t2}
    Artifacts = {x}
    None = None
    MaxRounds = 3
    MaxAmendments = 1
    MaxRework = 1
    LegacySnapshots = FALSE
    HostVerdicts = FALSE
    MaxIssued = 0
SPECIFICATION AuditSpec
INVARIANTS
    UnilateralAmendmentSurvives
CHECK_DEADLOCK FALSE
