CONSTANTS
    Participants = {a, b}
    Terms = {t1, t2}
    Artifacts = {x}
    None = None
    MaxRounds = 3
    MaxAmendments = 1
    MaxRework = 1
    LegacySnapshots = FALSE
    HostVerdicts = FALSE
    MaxIssued = 2
    p = p
    q = q
    r = r
    gone = gone
    Ids = {p, q, r, gone}
    Nobody = nobody
    Collections <- SomeCollections
    Contracts <- SomeContracts
    Minute = 2
    Caps = {2}
    Horizon = 6
SPECIFICATION RecordsSpec
INVARIANTS
    SettledOnReviewedWork
    CountersAlternate
    NeverStuck
    WalkIsRight
    BudgetIsExact
PROPERTIES
    LoopsAreBounded
CHECK_DEADLOCK FALSE
