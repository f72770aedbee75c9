CONSTANTS
    r = r
    p = p
    c = c
    d = d
    x = x
    None = None
    Deployment = Deployment
    Agents = {r, p, c, d}
    Ids = {1, 2, 3}
    Scopes = {x}
    Times = {0, 1}
    Offered <- SomeGrants
    Charts <- AllCharts
    Later <- SomeCharts
    Requests <- SomeRequests
    MaxPermits = 1
    Opener = c
    Acceptor = p
    Declarers = {p, c}
    Onlookers = {d}
    MaxContracts = 1
SPECIFICATION BranchSpec
INVARIANTS
    FormationTypeOK
    DelegationsStandOnGrants
    ObserversAreLetIn
    AuthorityFlowsDown
    NoPermitOutlivesItsChain
    AdmissionIsBacked
    LcaIsLowest
    ThirdPartiesDecide
PROPERTIES
    ClosedForGood
    ReferralClimbs
CHECK_DEADLOCK FALSE
