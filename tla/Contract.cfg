CONSTANTS
    Participants = {a, b}
    Terms = {t1, t2}
    Artifacts = {x}
    None = None
    MaxRounds = 3
    MaxAmendments = 2
    MaxRework = 1
    LegacySnapshots = TRUE
    HostVerdicts = TRUE
    NoBinding = empty
    Neighbours = {n}
SPECIFICATION Spec
INVARIANTS
    TypeOK
    PendingAnswersCurrentRevision
    BoundsAreExact
    SnapshotIsReadable
PROPERTIES
    ObservationIsOneWay
    ImplementsAgreement
CHECK_DEADLOCK FALSE
